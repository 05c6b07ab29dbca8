---------------------------- MODULE ScrapeQueue ----------------------------
(***************************************************************************)
(* The scrape queue of app/services/scrape_queue.py together with the two  *)
(* other writers of a scraping_jobs row: the api routes that launch,       *)
(* cancel and delete a run, and the run itself (start_scraping_job).       *)
(*                                                                         *)
(* A member of Workers is one process incarnation: WORKER_ID is fresh for  *)
(* every start, so a restarted pod is another member.  Redis holds the     *)
(* list `queue` and the claims; Postgres holds the rows.  Every await that *)
(* another actor can slip into separates two actions.                      *)
(***************************************************************************)
EXTENDS Naturals, Sequences, FiniteSets

CONSTANTS
    Workers,      \* process incarnations of roles worker / all
    Jobs,         \* scraping_jobs rows, by job_id; an id is never reused
    NoWorker,     \* an absent claim
    NoJob,        \* a consumer with no popped entry in hand
    Concurrency,  \* settings.scrape_worker_concurrency
    MaxRunning,   \* the launch route's limit on running rows (3 in the code)
    Cancellable,  \* bound: the jobs somebody may cancel or delete
    MaxFaults,    \* bound: crashes, lost entries, failed writes, failed sweeps
    MaxFlushes    \* bound: times Redis loses everything it holds

ASSUME WorkersAssumption == IsFiniteSet(Workers) /\ NoWorker \notin Workers
ASSUME JobsAssumption == IsFiniteSet(Jobs) /\ NoJob \notin Jobs
ASSUME BoundsAssumption ==
    /\ Cancellable \subseteq Jobs
    /\ Concurrency \in Nat \ {0} /\ MaxRunning \in Nat \ {0}
    /\ MaxFaults \in Nat /\ MaxFlushes \in Nat

VARIABLES
    row,         \* status column of the job's row; "none" before the insert
    age,         \* of a pending row: under 5 minutes, over it, over 24 hours
    queue,       \* sf:scrape:queue, its head the end BRPOP takes from
    claim,       \* sf:scrape:running:{job}: the holder
    launch,      \* the request creating the job
    cancelling,  \* jobs with a cancel request between its SELECT and COMMIT
    proc,        \* the process: not yet started, up, draining, gone
    at, item,    \* the consumer's place in its loop, the id it popped
    run,         \* _running: the place of each run task of each process
    freeing,     \* runs out of _running whose claim is not released yet
    tag,         \* a sweep under way: what it knows or decided of each row
    faults, flushes

vars == <<row, age, queue, claim, launch, cancelling, proc, at, item, run,
          freeing, tag, faults, flushes>>
redis   == <<queue, claim>>
rows    == <<row, age>>
api     == <<launch, cancelling>>
process == <<proc, at, item, run, freeing, tag>>
bounds  == <<faults, flushes>>

Active   == {"running", "paused"}
Finished == {"completed", "failed", "cancelled"}
Statuses == {"none", "pending", "gone"} \cup Active \cup Finished
Places   == {"none", "held", "cleared", "live", "waiting", "resuming", "done"}
Tags     == {"out", "pending", "active", "orphan", "stale", "push"}

Alive(w)   == proc[w] \in {"up", "draining"}
Runs(w, j) == run[w][j] # "none"
Held(w)    == {j \in Jobs : Runs(w, j)}
Claimed    == {j \in Jobs : claim[j] # NoWorker}

\* Mutant of Written: the write puts a deleted row back.
WrittenUpsert(j, s) == [row EXCEPT ![j] = s]

\* A write to a row by primary key: it finds nothing once the row is deleted.
Written(j, s) == [row EXCEPT ![j] = IF @ = "gone" THEN "gone" ELSE s]

\* _cas(keep=False): the claim goes only while it is this process's own.
Released(w, j) == [claim EXCEPT ![j] = IF @ = w THEN NoWorker ELSE @]

Fault == faults < MaxFaults /\ faults' = faults + 1 /\ UNCHANGED flushes

Init ==
    /\ row = [j \in Jobs |-> "none"] /\ age = [j \in Jobs |-> "fresh"]
    /\ queue = << >> /\ claim = [j \in Jobs |-> NoWorker]
    /\ launch = [j \in Jobs |-> "no"] /\ cancelling = {}
    /\ proc = [w \in Workers |-> "off"]
    /\ at = [w \in Workers |-> "idle"] /\ item = [w \in Workers |-> NoJob]
    /\ run = [w \in Workers |-> [j \in Jobs |-> "none"]]
    /\ freeing = [w \in Workers |-> {}]
    /\ tag = [w \in Workers |-> [j \in Jobs |-> "out"]]
    /\ faults = 0 /\ flushes = 0

-----------------------------------------------------------------------------
(* The api: launch, cancel, delete.                                        *)

\* _launch_job counts the running rows first and inserts later.
Admit(j) ==
    /\ launch[j] = "no"
    /\ Cardinality({k \in Jobs : row[k] = "running"}) < MaxRunning
    /\ launch' = [launch EXCEPT ![j] = "admitted"]
    /\ UNCHANGED <<rows, redis, cancelling, process, bounds>>

Insert(j) ==
    /\ launch[j] = "admitted"
    /\ launch' = [launch EXCEPT ![j] = "committed"]
    /\ row' = [row EXCEPT ![j] = "pending"]
    /\ UNCHANGED <<age, redis, cancelling, process, bounds>>

Enqueue(j) ==
    /\ launch[j] = "committed"
    /\ launch' = [launch EXCEPT ![j] = "posted"]
    /\ queue' = Append(queue, j)
    /\ UNCHANGED <<rows, claim, cancelling, process, bounds>>

\* Redis down, or the api process gone between the commit and the push.
EnqueueFails(j) ==
    /\ launch[j] = "committed"
    /\ launch' = [launch EXCEPT ![j] = "posted"]
    /\ Fault
    /\ UNCHANGED <<rows, redis, cancelling, process>>

CancelRead(j) ==
    /\ j \in Cancellable \ cancelling
    /\ row[j] \in {"pending"} \cup Active
    /\ cancelling' = cancelling \cup {j}
    /\ UNCHANGED <<rows, redis, launch, process, bounds>>

CancelCommit(j) ==
    /\ j \in cancelling
    /\ cancelling' = cancelling \ {j}
    /\ row' = Written(j, "cancelled")
    /\ UNCHANGED <<age, redis, launch, process, bounds>>

Delete(j) ==
    /\ j \in Cancellable
    /\ row[j] \in Finished
    /\ row' = [row EXCEPT ![j] = "gone"]
    /\ UNCHANGED <<age, redis, api, process, bounds>>

-----------------------------------------------------------------------------
(* Time, Redis and the processes.                                          *)

\* REQUEUE_AFTER, then STALE_PENDING_AFTER, measured from created_at.
Ages(j) ==
    /\ row[j] = "pending" /\ age[j] # "stale"
    /\ age' = [age EXCEPT ![j] = IF @ = "fresh" THEN "old" ELSE "stale"]
    /\ UNCHANGED <<row, redis, api, process, bounds>>

\* Who re-asserts or drops the claim well inside its TTL: a taker between
\* SET NX and the row, a run (its keeper ticks through a drain), a release.
Keeps(w, j) ==
    /\ Alive(w)
    /\ Runs(w, j) \/ j \in freeing[w] \/ (at[w] = "claimed" /\ item[w] = j)

Expire(j) ==
    /\ claim[j] # NoWorker /\ ~Keeps(claim[j], j)
    /\ claim' = [claim EXCEPT ![j] = NoWorker]
    /\ UNCHANGED <<queue, rows, api, process, bounds>>

\* _cas(keep=True) every CLAIM_REFRESH re-creates a claim that Redis lost.
Reassert(w, j) ==
    /\ Runs(w, j) /\ claim[j] = NoWorker
    /\ claim' = [claim EXCEPT ![j] = w]
    /\ UNCHANGED <<queue, rows, api, process, bounds>>

Flush ==
    /\ flushes < MaxFlushes
    /\ flushes' = flushes + 1
    /\ queue' = << >> /\ claim' = [j \in Jobs |-> NoWorker]
    /\ UNCHANGED <<rows, api, process, faults>>

Start(w) ==
    /\ proc[w] = "off"
    /\ proc' = [proc EXCEPT ![w] = "up"]
    /\ UNCHANGED <<rows, redis, api, at, item, run, freeing, tag, bounds>>

\* The deployment always has an incarnation that is up or about to start.
Another(w) == \E v \in Workers \ {w} : proc[v] \in {"off", "up"}

Sigterm(w) ==
    /\ proc[w] = "up" /\ Another(w)
    /\ proc' = [proc EXCEPT ![w] = "draining"]
    /\ UNCHANGED <<rows, redis, api, at, item, run, freeing, tag, bounds>>

\* Everything the process had in memory goes; what it claimed stays behind.
Vanish(w) ==
    /\ proc' = [proc EXCEPT ![w] = "down"]
    /\ at' = [at EXCEPT ![w] = "idle"] /\ item' = [item EXCEPT ![w] = NoJob]
    /\ run' = [run EXCEPT ![w] = [j \in Jobs |-> "none"]]
    /\ freeing' = [freeing EXCEPT ![w] = {}]
    /\ tag' = [tag EXCEPT ![w] = [j \in Jobs |-> "out"]]
    /\ UNCHANGED <<rows, redis, api>>

Kill(w) ==
    /\ Alive(w) /\ (proc[w] = "up" => Another(w))
    /\ Vanish(w) /\ Fault

\* Mutant of Exit: the process leaves without waiting for its runs.
ExitAtOnce(w) ==
    /\ proc[w] = "draining" /\ at[w] = "idle"
    /\ Vanish(w) /\ UNCHANGED bounds

\* drain() waits for the consumer and for _running to empty -- not for the
\* release that a run does after it has left _running.
Exit(w) ==
    /\ proc[w] = "draining" /\ at[w] = "idle" /\ Held(w) = {}
    /\ Vanish(w) /\ UNCHANGED bounds

-----------------------------------------------------------------------------
(* The consumer: count, pop, claim, read the row, run.                     *)

\* Mutant of Count: the cap of the process only, as it once was.
CountLocally(w) ==
    /\ proc[w] = "up" /\ at[w] = "idle"
    /\ Cardinality(Held(w)) < Concurrency
    /\ at' = [at EXCEPT ![w] = "counted"]
    /\ UNCHANGED <<rows, redis, api, proc, item, run, freeing, tag, bounds>>

Count(w) ==
    /\ proc[w] = "up" /\ at[w] = "idle"
    /\ Cardinality(Held(w)) < Concurrency
    /\ Cardinality(Claimed) < Concurrency
    /\ at' = [at EXCEPT ![w] = "counted"]
    /\ UNCHANGED <<rows, redis, api, proc, item, run, freeing, tag, bounds>>

\* BRPOP times out on an empty list, or Redis refuses it: round the loop again.
PopNothing(w) ==
    /\ at[w] = "counted"
    /\ at' = [at EXCEPT ![w] = "idle"]
    /\ IF queue = << >> THEN UNCHANGED bounds ELSE Fault
    /\ UNCHANGED <<rows, redis, api, proc, item, run, freeing, tag>>

Pop(w) ==
    /\ at[w] = "counted" /\ queue # << >>
    /\ at' = [at EXCEPT ![w] = "popped"]
    /\ item' = [item EXCEPT ![w] = Head(queue)]
    /\ queue' = Tail(queue)
    /\ UNCHANGED <<rows, claim, api, proc, run, freeing, tag, bounds>>

ToIdle(w) == at' = [at EXCEPT ![w] = "idle"] /\ item' = [item EXCEPT ![w] = NoJob]

\* Popped while the SIGTERM came: back to the end it was popped from.
PutBack(w) ==
    /\ at[w] = "popped" /\ proc[w] = "draining"
    /\ queue' = <<item[w]>> \o queue
    /\ ToIdle(w)
    /\ UNCHANGED <<rows, claim, api, proc, run, freeing, tag, bounds>>

\* Mutant of Claim: SET without NX.
ClaimOver(w) ==
    /\ at[w] = "popped" /\ proc[w] = "up"
    /\ claim' = [claim EXCEPT ![item[w]] = w]
    /\ at' = [at EXCEPT ![w] = "claimed"]
    /\ UNCHANGED <<item, queue, rows, api, proc, run, freeing, tag, bounds>>

\* SET NX: a duplicate of a claimed job is dropped here.
Claim(w) ==
    LET j == item[w] IN
    /\ at[w] = "popped" /\ proc[w] = "up"
    /\ IF claim[j] = NoWorker
       THEN /\ claim' = [claim EXCEPT ![j] = w]
            /\ at' = [at EXCEPT ![w] = "claimed"] /\ UNCHANGED item
       ELSE ToIdle(w) /\ UNCHANGED claim
    /\ UNCHANGED <<queue, rows, api, proc, run, freeing, tag, bounds>>

\* Mutant of Take: the claim alone is trusted, the row is not looked at.
TakeUnread(w) ==
    /\ at[w] = "claimed"
    /\ run' = [run EXCEPT ![w][item[w]] = "held"]
    /\ ToIdle(w)
    /\ UNCHANGED <<rows, redis, api, proc, freeing, tag, bounds>>

\* _take reads the row: only a pending one is run.
Take(w) ==
    LET j == item[w] IN
    /\ at[w] = "claimed" /\ row[j] = "pending"
    /\ run' = [run EXCEPT ![w][j] = "held"]
    /\ ToIdle(w)
    /\ UNCHANGED <<rows, redis, api, proc, freeing, tag, bounds>>

Decline(w) ==
    /\ at[w] = "claimed" /\ row[item[w]] # "pending"
    /\ claim' = Released(w, item[w])
    /\ ToIdle(w)
    /\ UNCHANGED <<queue, rows, api, proc, run, freeing, tag, bounds>>

\* An error, or drain() cancelling the consumer, between pop and run: the
\* entry is off the list; a claim already taken is given back.
TakeCut(w) ==
    /\ at[w] \in {"popped", "claimed"}
    /\ claim' = IF at[w] = "claimed" THEN Released(w, item[w]) ELSE claim
    /\ ToIdle(w) /\ Fault
    /\ UNCHANGED <<queue, rows, api, proc, run, freeing, tag>>

-----------------------------------------------------------------------------
(* The run: run_scraping_job and start_scraping_job.                       *)

Goes(w, j, from, to) ==
    /\ run[w][j] \in from
    /\ run' = [run EXCEPT ![w][j] = to]
    /\ UNCHANGED <<age, redis, api, proc, at, item, freeing, tag>>

\* start_scraping_job reads the row; only a cancelled or deleted one stops it.
ReadRow(w, j) ==
    /\ Goes(w, j, {"held"}, IF row[j] \in {"cancelled", "gone"} THEN "done"
                                                                ELSE "cleared")
    /\ UNCHANGED <<row, bounds>>

\* ... and commits "running" several awaits later.
Begin(w, j) ==
    /\ Goes(w, j, {"cleared"}, IF row[j] = "gone" THEN "done" ELSE "live")
    /\ row' = Written(j, "running")
    /\ UNCHANGED bounds

\* A code prompt: _pause_job writes without looking.
Pause(w, j) ==
    /\ Goes(w, j, {"live"}, "waiting")
    /\ row' = Written(j, "paused")
    /\ UNCHANGED bounds

\* _resume_job refreshes, and writes only if it saw "paused".
ResumeRead(w, j) ==
    /\ Goes(w, j, {"waiting"}, IF row[j] = "paused" THEN "resuming" ELSE "live")
    /\ UNCHANGED <<row, bounds>>

ResumeCommit(w, j) ==
    /\ Goes(w, j, {"resuming"}, "live")
    /\ row' = Written(j, "running")
    /\ UNCHANGED bounds

\* The listing loop refreshes the row and leaves if it was cancelled.
StopCancelled(w, j) ==
    /\ row[j] = "cancelled"
    /\ Goes(w, j, {"live"}, "done")
    /\ UNCHANGED <<row, bounds>>

Complete(w, j) ==
    /\ Goes(w, j, {"live"}, "done")
    /\ row' = Written(j, "completed")
    /\ UNCHANGED bounds

\* An exception anywhere in the run, or a feed that refused: failed.
Fail(w, j) ==
    /\ Goes(w, j, {"held", "cleared", "live", "waiting", "resuming"}, "done")
    /\ row' = Written(j, "failed")
    /\ UNCHANGED bounds

\* The same, with the database refusing the last write as well.
FailUnwritten(w, j) ==
    /\ Goes(w, j, {"held", "cleared", "live", "waiting", "resuming"}, "done")
    /\ UNCHANGED row /\ Fault

\* The finally of _run: out of _running first ...
Leave(w, j) ==
    /\ run[w][j] = "done"
    /\ run' = [run EXCEPT ![w][j] = "none"]
    /\ freeing' = [freeing EXCEPT ![w] = @ \cup {j}]
    /\ UNCHANGED <<rows, redis, api, proc, at, item, tag, bounds>>

\* ... the claim after it,
Release(w, j) ==
    /\ j \in freeing[w]
    /\ freeing' = [freeing EXCEPT ![w] = @ \ {j}]
    /\ claim' = Released(w, j)
    /\ UNCHANGED <<queue, rows, api, proc, at, item, run, tag, bounds>>

\* which an unreachable Redis leaves to its TTL.
ReleaseFails(w, j) ==
    /\ j \in freeing[w]
    /\ freeing' = [freeing EXCEPT ![w] = @ \ {j}]
    /\ Fault
    /\ UNCHANGED <<rows, redis, api, proc, at, item, run, tag>>

-----------------------------------------------------------------------------
(* The sweep: one SELECT, then row by row, then two UPDATEs.               *)

Idle(w)   == \A j \in Jobs : tag[w][j] = "out"
Looked(w) == \A j \in Jobs : tag[w][j] \notin {"pending", "active", "push"}

Retag(w, t) ==
    /\ tag' = [tag EXCEPT ![w] = t]
    /\ UNCHANGED <<age, claim, api, proc, at, item, run, freeing>>

\* Mutant of Snapshot: pending rows are not selected.
SnapshotActive(w) ==
    /\ Alive(w) /\ Idle(w)
    /\ \E j \in Jobs : row[j] \in Active
    /\ Retag(w, [j \in Jobs |-> IF row[j] \in Active THEN "active" ELSE "out"])
    /\ UNCHANGED <<row, queue, bounds>>

Snapshot(w) ==
    /\ Alive(w) /\ Idle(w)
    /\ \E j \in Jobs : row[j] \in {"pending"} \cup Active
    /\ Retag(w, [j \in Jobs |-> CASE row[j] = "pending" -> "pending"
                                  [] row[j] \in Active  -> "active"
                                  [] OTHER              -> "out"])
    /\ UNCHANGED <<row, queue, bounds>>

\* Mutant of Verdict: only this process's own runs are spared.
VerdictOwn(w, j) ==
    IF j \in Held(w) THEN "out"
    ELSE IF tag[w][j] = "active" THEN "orphan"
    ELSE IF age[j] = "stale" THEN "stale"
    ELSE IF age[j] = "old" /\ \A i \in DOMAIN queue : queue[i] # j THEN "push"
    ELSE "out"

\* Mutant of Verdict: only claims spare a row.
VerdictClaim(w, j) ==
    IF claim[j] # NoWorker THEN "out"
    ELSE IF tag[w][j] = "active" THEN "orphan"
    ELSE IF age[j] = "stale" THEN "stale"
    ELSE IF age[j] = "old" /\ \A i \in DOMAIN queue : queue[i] # j THEN "push"
    ELSE "out"

\* What the sweep does with a row of its snapshot, by what it finds now.
Verdict(w, j) ==
    IF j \in Held(w) \/ claim[j] # NoWorker THEN "out"
    ELSE IF tag[w][j] = "active" THEN "orphan"
    ELSE IF age[j] = "stale" THEN "stale"
    ELSE IF age[j] = "old" /\ \A i \in DOMAIN queue : queue[i] # j THEN "push"
    ELSE "out"

Examine(w, j) ==
    /\ tag[w][j] \in {"pending", "active"}
    /\ Retag(w, [tag[w] EXCEPT ![j] = Verdict(w, j)])
    /\ UNCHANGED <<row, queue, bounds>>

Requeue(w, j) ==
    /\ tag[w][j] = "push"
    /\ queue' = Append(queue, j)
    /\ Retag(w, [tag[w] EXCEPT ![j] = "out"])
    /\ UNCHANGED <<row, bounds>>

\* Mutant of CloseOut: the UPDATE without its WHERE on the status.
CloseOutBlindly(w, t, s) ==
    LET mine == {j \in Jobs : tag[w][j] = t} IN
    /\ mine # {}
    /\ row' = [j \in Jobs |-> IF j \in mine THEN "failed" ELSE row[j]]
    /\ Retag(w, [j \in Jobs |-> IF j \in mine THEN "out" ELSE tag[w][j]])
    /\ UNCHANGED <<queue, bounds>>

\* UPDATE ... WHERE status IN (s): what the sweep closes out, t its list.
CloseOut(w, t, s) ==
    LET mine == {j \in Jobs : tag[w][j] = t} IN
    /\ mine # {}
    /\ row' = [j \in Jobs |-> IF j \in mine /\ row[j] \in s THEN "failed" ELSE row[j]]
    /\ Retag(w, [j \in Jobs |-> IF j \in mine THEN "out" ELSE tag[w][j]])
    /\ UNCHANGED <<queue, bounds>>

ReleaseOrphans(w) == Looked(w) /\ CloseOut(w, "orphan", Active)

FailStalePending(w) ==
    /\ Looked(w) /\ \A j \in Jobs : tag[w][j] # "orphan"
    /\ CloseOut(w, "stale", {"pending"})

\* An error ends this pass; drain() cancels it.
SweepEnds(w) ==
    /\ ~Idle(w)
    /\ Retag(w, [j \in Jobs |-> "out"])
    /\ UNCHANGED <<row, queue>>
    /\ IF proc[w] = "draining" THEN UNCHANGED bounds ELSE Fault

-----------------------------------------------------------------------------
Api(j) ==
    \/ Admit(j) \/ Insert(j) \/ Enqueue(j) \/ EnqueueFails(j)
    \/ CancelRead(j) \/ CancelCommit(j) \/ Delete(j)

Consumer(w) ==
    \/ Count(w) \/ PopNothing(w) \/ Pop(w) \/ PutBack(w)
    \/ Claim(w) \/ Take(w) \/ Decline(w) \/ TakeCut(w)

Run(w, j) ==
    \/ ReadRow(w, j) \/ Begin(w, j) \/ Pause(w, j) \/ ResumeRead(w, j)
    \/ ResumeCommit(w, j) \/ StopCancelled(w, j) \/ Complete(w, j)
    \/ Fail(w, j) \/ FailUnwritten(w, j)
    \/ Leave(w, j) \/ Release(w, j) \/ ReleaseFails(w, j) \/ Reassert(w, j)

Sweep(w) ==
    \/ Snapshot(w) \/ ReleaseOrphans(w) \/ FailStalePending(w) \/ SweepEnds(w)
    \/ \E j \in Jobs : Examine(w, j) \/ Requeue(w, j)

Next ==
    \/ \E j \in Jobs : Api(j) \/ Ages(j) \/ Expire(j)
    \/ Flush
    \/ \E w \in Workers : Start(w) \/ Sigterm(w) \/ Kill(w) \/ Exit(w)
    \/ \E w \in Workers : Consumer(w) \/ Sweep(w)
    \/ \E w \in Workers, j \in Jobs : Run(w, j)

Spec == Init /\ [][Next]_vars

\* The event loops of every process keep turning, Postgres and Redis answer,
\* clocks advance and Kubernetes starts what it scheduled.  A run reads a
\* finite candidate list, so however often it pauses it comes to an end.
Fairness ==
    /\ \A w \in Workers :
          /\ WF_vars(Start(w)) /\ WF_vars(Count(w)) /\ WF_vars(Pop(w))
          /\ WF_vars(PutBack(w) \/ Claim(w) \/ Take(w) \/ Decline(w))
          /\ WF_vars(Snapshot(w) \/ ReleaseOrphans(w) \/ FailStalePending(w)
                     \/ \E j \in Jobs : Examine(w, j) \/ Requeue(w, j))
    /\ \A w \in Workers, j \in Jobs :
          /\ WF_vars(ReadRow(w, j) \/ Begin(w, j) \/ ResumeRead(w, j)
                     \/ ResumeCommit(w, j) \/ Leave(w, j))
          /\ WF_vars(Release(w, j))
          /\ SF_vars(StopCancelled(w, j) \/ Complete(w, j) \/ Fail(w, j))
    /\ \A j \in Jobs :
          /\ WF_vars(Enqueue(j)) /\ WF_vars(CancelCommit(j))
          /\ WF_vars(Ages(j)) /\ WF_vars(Expire(j))

FairSpec == Spec /\ Fairness

-----------------------------------------------------------------------------
(* Properties.                                                             *)

\* Every variable keeps its type.
TypeOK ==
    /\ row \in [Jobs -> Statuses] /\ age \in [Jobs -> {"fresh", "old", "stale"}]
    /\ queue \in Seq(Jobs) /\ claim \in [Jobs -> Workers \cup {NoWorker}]
    /\ launch \in [Jobs -> {"no", "admitted", "committed", "posted"}]
    /\ cancelling \subseteq Jobs
    /\ proc \in [Workers -> {"off", "up", "draining", "down"}]
    /\ at \in [Workers -> {"idle", "counted", "popped", "claimed"}]
    /\ item \in [Workers -> Jobs \cup {NoJob}]
    /\ run \in [Workers -> [Jobs -> Places]]
    /\ freeing \in [Workers -> SUBSET Jobs]
    /\ tag \in [Workers -> [Jobs -> Tags]]
    /\ faults \in Nat /\ flushes \in Nat

\* A job is never run by two processes at once, whatever entries the sweeps
\* duplicate: the claim that _take sets is what keeps them apart.
OneRunner ==
    \A j \in Jobs, v, w \in Workers : Runs(v, j) /\ Runs(w, j) => v = w

\* While a process runs a job, or is still to release it, the claim is its
\* own -- through a drain too -- so that no other worker takes or reaps it.
ClaimCoversRun ==
    \A j \in Jobs, w \in Workers : Runs(w, j) \/ j \in freeing[w] => claim[j] = w

\* No worker starts over a job that has already run or is running: _take's
\* look at the row, under the claim, is enough to make duplicates harmless.
NeverRerun ==
    [][\A w \in Workers, j \in Jobs :
          run[w][j] = "cleared" /\ run'[w][j] = "live"
             => row[j] \notin Active \cup {"completed"}]_vars

\* release_orphans closes out a running or paused row only when no process
\* is running it, although the list it works from is several awaits old.
OnlyOrphansAreClosed ==
    [][\A j \in Jobs : row[j] \in Active /\ row'[j] = "failed" /\ run' = run
          => \A w \in Workers : ~Runs(w, j)]_vars

\* The real ending of a run that finished a moment ago is kept: only the run
\* itself while it lasts, a cancel already under way or a delete changes it.
EndingsAreKept ==
    [][\A j \in Jobs : row[j] \in Finished /\ row'[j] # row[j]
          => \/ row'[j] = "gone" \/ j \in cancelling
             \/ \E w \in Workers : Runs(w, j)]_vars

\* Rollouts alone leave no run behind: without a crash or an error a running
\* or paused row always has the process that is running it.
DrainsOrphanNothing ==
    faults = 0 /\ flushes = 0 =>
        \A j \in Jobs : row[j] \in Active => \E w \in Workers : Runs(w, j)

\* The global cap, checked before the pop and not with it, is exceeded by at
\* most one job per other worker -- while Redis keeps the claims it counts.
CapOverrun ==
    flushes = 0 => Cardinality(Claimed) <= Concurrency + Cardinality(Workers) - 1

\* A sweep does not close out a running or paused row of its own process, not
\* even after Redis lost the claims.
OwnOrphansUntouched ==
    [][\A w \in Workers, j \in Jobs :
          tag[w][j] = "orphan" /\ tag'[w][j] = "out" /\ row'[j] # row[j]
             => ~Runs(w, j)]_vars

\* Every job that was recorded comes to an ending and stays at it, whatever
\* was lost on the way: entries, claims, processes.
EveryJobSettles ==
    \A j \in Jobs : row[j] = "pending" ~> [](row[j] \in Finished \cup {"gone"})

\* The process that runs a job, as the abstract board sees it.
Runner ==
    [j \in Jobs |-> IF \E w \in Workers : Runs(w, j)
                    THEN CHOOSE w \in Workers : Runs(w, j) ELSE NoWorker]

Board == INSTANCE JobBoard WITH status <- row, runner <- Runner

\* The queue keeps the promise of JobBoard: a job is given to one process at a
\* time, reported on by it alone, and closed out only when nobody holds it.
KeepsThePromise == Board!Spec

(* What the repository says and the code does not keep.                    *)

\* start_scraping_job: a cancelled job is not brought back to life.
CancelledStaysDown ==
    [][\A j \in Jobs : row[j] = "cancelled" => row'[j] # "running"]_vars
=============================================================================
