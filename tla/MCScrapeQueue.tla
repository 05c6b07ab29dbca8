--------------------------- MODULE MCScrapeQueue ---------------------------
(***************************************************************************)
(* Instances of ScrapeQueue for TLC.  The constraints cut a run down to    *)
(* the part of the system its question is about; an action that leaves the *)
(* part is still taken once, and its outcome checked, but not followed.    *)
(***************************************************************************)
EXTENDS ScrapeQueue, TLC

Symmetry == Permutations(Workers) \cup Permutations(Jobs)

\* Several jobs: launches, consumers, runs and rollouts, with no sweep, no
\* cancel, no pause and no loss of Redis under way.
Rollout ==
    /\ flushes = 0 /\ cancelling = {}
    /\ \A w \in Workers : Idle(w)
    /\ \A j \in Jobs : age[j] = "fresh" /\ row[j] \notin {"gone", "paused"}

\* One job that does not wait for a day, through everything, a loss of Redis
\* included.
OneJob ==
    /\ Cardinality({j \in Jobs : launch[j] # "no"}) <= 1
    /\ \A j \in Jobs : row[j] = "pending" => age[j] # "stale"

RolloutOrOneJob == Rollout \/ OneJob
=============================================================================
