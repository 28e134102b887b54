--------------------------- MODULE MC_PacketStore ---------------------------
(***************************************************************************)
(* Finite instance of PacketStore.  Three slots, so that an entry can be   *)
(* first, last or between the two, and more hashes than slots.             *)
(***************************************************************************)
EXTENDS PacketStore, TLC

CONSTANTS h1, h2, h3, h4, alice, bob

MCHash == {h1, h2, h3, h4}
MCObserver == {alice, bob}
=============================================================================
