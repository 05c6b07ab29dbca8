----------------------------- MODULE MCOtpStore -----------------------------
(***************************************************************************)
(* OtpStore on small instances: two listings of two jobs on two numbers,   *)
(* or one listing, each challenged any number of times.                    *)
(***************************************************************************)
EXTENDS OtpStore, TLC

CONSTANTS k1, k2, j1, j2, a1, a2

TwoJobs == (k1 :> j1) @@ (k2 :> j2)
Single  == k1 :> j1

TwoNumbers == (k1 :> a1) @@ (k2 :> a2)
Alone      == k1 :> a1

\* Posts of the phone, and the requests of the panel, are interchangeable.
Symmetry == Permutations(Posts) \cup Permutations(Askers) \cup Permutations(Sms)
=============================================================================
