---------------------------- MODULE MC_CoverageSync ----------------------------
(***************************************************************************)
(* Three versions, so that an answer can be one behind another and both be *)
(* newer than what was persisted.  An interval of two ticks and a timeout  *)
(* of one: a fetch can end in each part of the interval.                   *)
(***************************************************************************)
EXTENDS CoverageSync
=============================================================================
