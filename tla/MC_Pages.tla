------------------------------- MODULE MC_Pages -------------------------------
(***************************************************************************)
(* All pages, the repeater page for the three detail pages, which are built *)
(* alike; two ids, two hashes and two channels.  Three navigations are      *)
(* enough to leave a page, come back to it and have two of its mounts       *)
(* answered in either order, two choices to have one overtake the other.    *)
(***************************************************************************)
EXTENDS Pages

CONSTANTS a, b, h1, h2, c1, c2

MCVisited == Page \ {"node", "observer"}

MCId == {a, b}
MCHash == {h1, h2}
MCChannel == {c1, c2}
=============================================================================
