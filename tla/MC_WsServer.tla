----------------------------- MODULE MC_WsServer -----------------------------
(***************************************************************************)
(* Finite instance of WsServer: a tick is ten seconds, so that the interval *)
(* of thirty and the timeout of ten are the code's own; two connections    *)
(* that open at any two points of the interval.                            *)
(***************************************************************************)
EXTENDS WsServer

CONSTANTS c1, c2

MCConn == {c1, c2}
=============================================================================
