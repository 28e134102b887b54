------------------------------ MODULE MC_Ingest ------------------------------
(***************************************************************************)
(* Finite instance of Ingest: two slots in the packet store, two readings  *)
(* of the clock, so that an older and a newer advert, or message, of one   *)
(* node or observer meet, and a posted packet among them.                  *)
(***************************************************************************)
EXTENDS Ingest, TLC

CONSTANTS n1, alpha, beta, o1, b1

MCNodeId == {n1}
MCName == {alpha, beta}
MCObserver == {o1}
MCBody == {b1}

\* Nothing tells the two names apart.
Names == Permutations(MCName)
=============================================================================
