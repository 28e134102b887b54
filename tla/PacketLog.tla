------------------------------ MODULE PacketLog ------------------------------
(***************************************************************************)
(* What the in-memory packet store promises its readers: it remembers the  *)
(* newest MaxSize packets it was given, newest first.  Nothing is said     *)
(* here of slots, of a head pointer or of a hash index; PacketStore keeps  *)
(* those and is shown to implement this module.                            *)
(***************************************************************************)
EXTENDS Naturals, Sequences

CONSTANTS
  Packet,   \* what a log entry may be
  MaxSize   \* how many entries are remembered

VARIABLE log   \* the remembered packets, newest first

\* The log after p was put in front of l: the oldest entry falls off the
\* end once there are more than MaxSize.
Pushed(p, l) ==
  [i \in 1 .. (IF Len(l) < MaxSize THEN Len(l) + 1 ELSE MaxSize) |->
     IF i = 1 THEN p ELSE l[i - 1]]

Init == log = << >>

Remember(p) == log' = Pushed(p, log)

Forget == log' = << >>

Next == (\E p \in Packet : Remember(p)) \/ Forget

Spec == Init /\ [][Next]_log
=============================================================================
