------------------------- MODULE MCAccountRotation -------------------------
(***************************************************************************)
(* AccountRotation on small instances: two runs of one owner, one with a    *)
(* threshold and one pinned or with a threshold of its own.                 *)
(***************************************************************************)
EXTENDS AccountRotation, TLC

CONSTANTS r1, r2

Thresholded == (r1 :> 1) @@ (r2 :> 2)
\* No number is named: the numbers of one owner are interchangeable.
Alike == Permutations(Numbers)

TwoAndOne == (r1 :> 2) @@ (r2 :> 1)
=============================================================================
