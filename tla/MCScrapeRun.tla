---------------------------- MODULE MCScrapeRun ----------------------------
(***************************************************************************)
(* ScrapeRun on small instances: a run over two links or a search with a     *)
(* target or without, and one over a link or a whole day.                   *)
(***************************************************************************)
EXTENDS ScrapeRun, TLC

CONSTANTS r1, r2

TwoAndOne == (r1 :> 2) @@ (r2 :> 1)
OneOrDay == (r1 :> {0, 1}) @@ (r2 :> {0})
Alike == Permutations(Listings)
=============================================================================
