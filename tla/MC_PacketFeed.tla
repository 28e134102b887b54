---------------------------- MODULE MC_PacketFeed ----------------------------
(***************************************************************************)
(* Pages of one row over a log of three of four packets: a page boundary   *)
(* inside the log, a packet that moves another over it, and an eviction.   *)
(* Two mounts, so that answers to the first can reach the second.          *)
(***************************************************************************)
EXTENDS PacketFeed
=============================================================================
