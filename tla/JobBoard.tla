----------------------------- MODULE JobBoard -----------------------------
(***************************************************************************)
(* What the scrape queue promises of a job, without Redis, sweeps or       *)
(* requests in flight: a row with a status and, at any moment, at most one *)
(* process running it.  A pending job is given to a process that then      *)
(* holds it alone; a job somebody holds is nobody else's to start or to    *)
(* close out; what a process held when it went is closed out after it.     *)
(***************************************************************************)
CONSTANTS Workers, Jobs, NoWorker

VARIABLES status, runner

board == <<status, runner>>

Running == {"running", "paused"}
Endings == {"completed", "failed", "cancelled"}

Init ==
    /\ status = [j \in Jobs |-> "none"]
    /\ runner = [j \in Jobs |-> NoWorker]

Free(j) == runner[j] = NoWorker

Set(j, s) == status' = [status EXCEPT ![j] = s]

Post(j) ==
    /\ status[j] = "none"
    /\ Set(j, "pending") /\ UNCHANGED runner

Give(w, j) ==
    /\ Free(j) /\ status[j] = "pending"
    /\ runner' = [runner EXCEPT ![j] = w] /\ UNCHANGED status

\* Only the process that holds the job reports on it; a deleted row stays so.
Report(j, s) ==
    /\ ~Free(j) /\ status[j] \notin {"none", "gone"}
    /\ Set(j, s) /\ UNCHANGED runner

\* A run ends, or its process goes with all it held.
LetGo(w) ==
    /\ \E S \in SUBSET {j \in Jobs : runner[j] = w} :
          runner' = [j \in Jobs |-> IF j \in S THEN NoWorker ELSE runner[j]]
    /\ UNCHANGED status

Cancel(j) ==
    /\ status[j] \in {"pending"} \cup Running \cup Endings
    /\ Set(j, "cancelled") /\ UNCHANGED runner

Discard(j) ==
    /\ status[j] \in Endings
    /\ Set(j, "gone") /\ UNCHANGED runner

\* Rows of processes that are gone, and pending rows given up.
CloseOut(S) ==
    /\ \A j \in S : status[j] = "pending" \/ (status[j] \in Running /\ Free(j))
    /\ status' = [j \in Jobs |-> IF j \in S THEN "failed" ELSE status[j]]
    /\ UNCHANGED runner

Next ==
    \/ \E j \in Jobs : Post(j) \/ Cancel(j) \/ Discard(j)
    \/ \E j \in Jobs, w \in Workers : Give(w, j)
    \/ \E j \in Jobs, s \in Running \cup Endings : Report(j, s)
    \/ \E w \in Workers : LetGo(w)
    \/ \E S \in SUBSET Jobs : CloseOut(S)

Spec == Init /\ [][Next]_board
=============================================================================
