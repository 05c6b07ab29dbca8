--------------------------- MODULE MCProfileLock ---------------------------
(***************************************************************************)
(* ProfileLock on small instances: two processes, one of them with two      *)
(* jobs.                                                                    *)
(***************************************************************************)
EXTENDS ProfileLock, TLC

CONSTANTS j1, j2, j3, p1, p2

TwoHomes == (j1 :> p1) @@ (j2 :> p1) @@ (j3 :> p2)
=============================================================================
