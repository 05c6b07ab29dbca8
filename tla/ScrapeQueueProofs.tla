-------------------------- MODULE ScrapeQueueProofs --------------------------
(***************************************************************************)
(* Theorems about ScrapeQueue for every set of processes and jobs, every   *)
(* concurrency and every number of faults.                                 *)
(***************************************************************************)
EXTENDS ScrapeQueue, FiniteSetTheorems, TLAPS

(* Type correctness.                                                       *)

\* A consumer that has popped an entry has it in hand.
ItemInHand == \A w \in Workers : at[w] \in {"popped", "claimed"} => item[w] \in Jobs

TypeInv == TypeOK /\ ItemInHand

LEMMA TypeInit == Init => TypeInv
BY BoundsAssumption DEF Init, TypeInv, TypeOK, ItemInHand, Statuses, Places, Tags

LEMMA FaultType == ASSUME TypeOK, Fault PROVE faults' \in Nat /\ flushes' \in Nat
BY DEF TypeOK, Fault

LEMMA TypeApi ==
    ASSUME TypeInv, NEW j \in Jobs, Api(j) PROVE TypeInv'
<1> USE DEF TypeInv, TypeOK, ItemInHand, rows, redis, api, process, bounds
<1>1. CASE Admit(j)        BY <1>1 DEF Admit
<1>2. CASE Insert(j)       BY <1>2 DEF Insert, Statuses
<1>3. CASE Enqueue(j)      BY <1>3 DEF Enqueue
<1>4. CASE EnqueueFails(j) BY <1>4, FaultType DEF EnqueueFails
<1>5. CASE CancelRead(j)   BY <1>5 DEF CancelRead
<1>6. CASE CancelCommit(j) BY <1>6 DEF CancelCommit, Written, Statuses, Finished
<1>7. CASE Delete(j)       BY <1>7 DEF Delete, Statuses
<1> QED BY <1>1, <1>2, <1>3, <1>4, <1>5, <1>6, <1>7 DEF Api

LEMMA TypeRedis ==
    ASSUME TypeInv, Flush \/ \E j \in Jobs : Ages(j) \/ Expire(j)
    PROVE  TypeInv'
<1> USE DEF TypeInv, TypeOK, ItemInHand, rows, redis, api, process, bounds
<1>1. ASSUME NEW j \in Jobs, Ages(j) PROVE TypeInv'   BY <1>1 DEF Ages
<1>2. ASSUME NEW j \in Jobs, Expire(j) PROVE TypeInv' BY <1>2 DEF Expire
<1>3. CASE Flush                                      BY <1>3 DEF Flush
<1> QED BY <1>1, <1>2, <1>3

LEMMA TypeProcess ==
    ASSUME TypeInv, NEW w \in Workers, Start(w) \/ Sigterm(w) \/ Kill(w) \/ Exit(w)
    PROVE  TypeInv'
<1> USE DEF TypeInv, TypeOK, ItemInHand, rows, redis, api, process, bounds
<1>1. CASE Start(w)   BY <1>1 DEF Start
<1>2. CASE Sigterm(w) BY <1>2 DEF Sigterm
<1>3. CASE Kill(w)    BY <1>3, FaultType DEF Kill, Vanish, Places, Tags
<1>4. CASE Exit(w)    BY <1>4 DEF Exit, Vanish, Places, Tags
<1> QED BY <1>1, <1>2, <1>3, <1>4

LEMMA TypeConsumer ==
    ASSUME TypeInv, NEW w \in Workers, Consumer(w) PROVE TypeInv'
<1> USE DEF TypeInv, TypeOK, ItemInHand, rows, redis, api, process, bounds
<1>1. CASE Count(w)      BY <1>1 DEF Count
<1>2. CASE PopNothing(w) BY <1>2, FaultType DEF PopNothing
<1>3. CASE Pop(w)        BY <1>3 DEF Pop
<1>4. CASE PutBack(w)    BY <1>4 DEF PutBack, ToIdle
<1>5. CASE Claim(w)
      <2>1. UNCHANGED <<row, age, queue, launch, cancelling, proc, run, freeing, tag,
                        faults, flushes>>
            BY <1>5 DEF Claim
      <2>2. CASE claim[item[w]] = NoWorker
            <3>1. /\ claim' = [claim EXCEPT ![item[w]] = w] /\ item' = item
                  /\ at' = [at EXCEPT ![w] = "claimed"] /\ item[w] \in Jobs
                  BY <1>5, <2>2 DEF Claim
            <3> QED BY <2>1, <3>1
      <2>3. CASE claim[item[w]] # NoWorker
            <3>1. /\ claim' = claim /\ item' = [item EXCEPT ![w] = NoJob]
                  /\ at' = [at EXCEPT ![w] = "idle"]
                  BY <1>5, <2>3 DEF Claim, ToIdle
            <3> QED BY <2>1, <3>1
      <2> QED BY <2>2, <2>3
<1>6. CASE Take(w)       BY <1>6 DEF Take, ToIdle, Places
<1>7. CASE Decline(w)    BY <1>7 DEF Decline, ToIdle, Released
<1>8. CASE TakeCut(w)    BY <1>8, FaultType DEF TakeCut, ToIdle, Released
<1> QED BY <1>1, <1>2, <1>3, <1>4, <1>5, <1>6, <1>7, <1>8 DEF Consumer

LEMMA TypeRun ==
    ASSUME TypeInv, NEW w \in Workers, NEW j \in Jobs, Run(w, j) PROVE TypeInv'
<1> USE DEF TypeInv, TypeOK, ItemInHand, rows, redis, api, process, bounds
<1>1. CASE ReadRow(w, j)       BY <1>1 DEF ReadRow, Goes, Places
<1>2. CASE Begin(w, j)         BY <1>2 DEF Begin, Goes, Places, Written, Statuses, Active
<1>3. CASE Pause(w, j)         BY <1>3 DEF Pause, Goes, Places, Written, Statuses, Active
<1>4. CASE ResumeRead(w, j)    BY <1>4 DEF ResumeRead, Goes, Places
<1>5. CASE ResumeCommit(w, j)  BY <1>5 DEF ResumeCommit, Goes, Places, Written, Statuses, Active
<1>6. CASE StopCancelled(w, j) BY <1>6 DEF StopCancelled, Goes, Places
<1>7. CASE Complete(w, j)      BY <1>7 DEF Complete, Goes, Places, Written, Statuses, Finished
<1>8. CASE Fail(w, j)          BY <1>8 DEF Fail, Goes, Places, Written, Statuses, Finished
<1>9. CASE FailUnwritten(w, j) BY <1>9, FaultType DEF FailUnwritten, Goes, Places
<1>10. CASE Leave(w, j)        BY <1>10 DEF Leave, Places
<1>11. CASE Release(w, j)      BY <1>11 DEF Release, Released
<1>12. CASE ReleaseFails(w, j) BY <1>12, FaultType DEF ReleaseFails
<1>13. CASE Reassert(w, j)     BY <1>13 DEF Reassert
<1> QED BY <1>1, <1>2, <1>3, <1>4, <1>5, <1>6, <1>7, <1>8, <1>9, <1>10, <1>11,
           <1>12, <1>13 DEF Run

LEMMA TypeSweep ==
    ASSUME TypeInv, NEW w \in Workers, Sweep(w) PROVE TypeInv'
<1> USE DEF TypeInv, TypeOK, ItemInHand, rows, redis, api, process, bounds
<1>1. CASE Snapshot(w)         BY <1>1 DEF Snapshot, Retag, Tags
<1>2. CASE ReleaseOrphans(w)
      BY <1>2 DEF ReleaseOrphans, CloseOut, Retag, Tags, Statuses, Finished
<1>3. CASE FailStalePending(w)
      BY <1>3 DEF FailStalePending, CloseOut, Retag, Tags, Statuses, Finished
<1>4. CASE SweepEnds(w)        BY <1>4, FaultType DEF SweepEnds, Retag, Tags
<1>5. ASSUME NEW j \in Jobs, Examine(w, j) PROVE TypeInv'
      BY <1>5 DEF Examine, Verdict, Retag, Tags
<1>6. ASSUME NEW j \in Jobs, Requeue(w, j) PROVE TypeInv'
      BY <1>6 DEF Requeue, Retag, Tags
<1> QED BY <1>1, <1>2, <1>3, <1>4, <1>5, <1>6 DEF Sweep

LEMMA TypeNext == TypeInv /\ [Next]_vars => TypeInv'
<1> SUFFICES ASSUME TypeInv, [Next]_vars PROVE TypeInv'
    OBVIOUS
<1>1. CASE UNCHANGED vars
      BY <1>1 DEF vars, TypeInv, TypeOK, ItemInHand
<1>2. ASSUME NEW j \in Jobs, Api(j) PROVE TypeInv'
      BY <1>2, TypeApi
<1>3. CASE Flush \/ \E j \in Jobs : Ages(j) \/ Expire(j)
      BY <1>3, TypeRedis
<1>4. ASSUME NEW w \in Workers, Start(w) \/ Sigterm(w) \/ Kill(w) \/ Exit(w)
      PROVE  TypeInv'
      BY <1>4, TypeProcess
<1>5. ASSUME NEW w \in Workers, Consumer(w) \/ Sweep(w) PROVE TypeInv'
      BY <1>5, TypeConsumer, TypeSweep
<1>6. ASSUME NEW w \in Workers, NEW j \in Jobs, Run(w, j) PROVE TypeInv'
      BY <1>6, TypeRun
<1> QED BY <1>1, <1>2, <1>3, <1>4, <1>5, <1>6 DEF Next

\* ScrapeQueue is type correct: rows, list, claims and the memory of every
\* process only ever hold what the code puts there.
THEOREM TypeCorrect == Spec => []TypeOK
<1>1. Spec => []TypeInv
      BY TypeInit, TypeNext, PTL DEF Spec
<1> QED BY <1>1, PTL DEF TypeInv

-----------------------------------------------------------------------------
(* Exclusive runs, as long as Redis keeps what it holds.                   *)

InHand(w, j) == at[w] = "claimed" /\ item[w] = j

\* Whoever took a job and did not release it holds its claim and is alive.
HolderClaims ==
    \A w \in Workers, j \in Jobs :
        Runs(w, j) \/ j \in freeing[w] \/ InHand(w, j) => claim[j] = w /\ Alive(w)

\* ... and it is at one place only on its way from the pop to the release.
OnePlace ==
    \A w \in Workers, j \in Jobs :
        /\ Runs(w, j) => j \notin freeing[w]
        /\ InHand(w, j) => ~Runs(w, j) /\ j \notin freeing[w]

\* A row exists from its insert on; a cancel under way or a run has one.
RowFollowsLaunch ==
    \A j \in Jobs :
        /\ row[j] = "none" <=> launch[j] \in {"no", "admitted"}
        /\ j \in cancelling => row[j] # "none"
        /\ \A w \in Workers : Runs(w, j) => row[j] # "none"

\* A run that has not yet committed "running" has a row that never ran.
NotBegun ==
    \A w \in Workers, j \in Jobs :
        run[w][j] \in {"held", "cleared"}
            => row[j] \notin Active \cup {"completed"}

\* What a sweep remembers of a row stays true of it: a row seen running is
\* never pending again, so its own process does not start it meanwhile ...
SweepSees ==
    \A w \in Workers, j \in Jobs :
        /\ tag[w][j] \in {"active", "orphan"} => row[j] \notin {"none", "pending"}
        /\ tag[w][j] = "orphan" => ~Runs(w, j)

\* ... and, while claims tell who runs what, no process does.
SweepKnows ==
    \A w \in Workers, j \in Jobs :
        tag[w][j] = "orphan" => \A v \in Workers : ~Runs(v, j)

\* Until the first fault a running or paused row is in the hands of a run.
Attended ==
    faults = 0 => \A j \in Jobs : row[j] \in Active =>
        \E w \in Workers : run[w][j] \in {"live", "waiting", "resuming"}

\* A consumer past the check on the cap, its claim still to come.
Due == {w \in Workers : at[w] \in {"counted", "popped"}}

\* The claims there are and those still to come.
Counted ==
    Cardinality(Claimed) + Cardinality(Due) <= Concurrency + Cardinality(Workers) - 1

Exclusive == HolderClaims /\ OnePlace

\* What holds whatever Redis loses, and what holds until it loses something.
Always == TypeInv /\ RowFollowsLaunch /\ SweepSees
IInv == Always /\ Exclusive /\ NotBegun /\ SweepKnows /\ Attended /\ Counted

LEMMA ExclusiveFrame ==
    ASSUME Exclusive, UNCHANGED <<claim, proc, at, item, run, freeing>>
    PROVE  Exclusive'
BY DEF Exclusive, HolderClaims, OnePlace, InHand, Runs, Alive

LEMMA ExclusiveProcess ==
    ASSUME TypeInv, Exclusive, NEW w \in Workers,
           Start(w) \/ Sigterm(w) \/ Kill(w) \/ Exit(w)
    PROVE  Exclusive'
<1> USE DEF TypeInv, TypeOK, Exclusive, HolderClaims, OnePlace, InHand, Runs, Alive, redis
<1>1. CASE Start(w)   BY <1>1 DEF Start
<1>2. CASE Sigterm(w) BY <1>2 DEF Sigterm
<1>3. CASE Kill(w)    BY <1>3 DEF Kill, Vanish
<1>4. CASE Exit(w)    BY <1>4 DEF Exit, Vanish
<1> QED BY <1>1, <1>2, <1>3, <1>4

LEMMA ExclusiveConsumer ==
    ASSUME TypeInv, Exclusive, NEW w \in Workers, Consumer(w) PROVE Exclusive'
<1> USE DEF TypeInv, TypeOK, ItemInHand, Exclusive, HolderClaims, OnePlace, InHand,
            Runs, Alive, redis
<1>1. CASE Count(w)      BY <1>1 DEF Count
<1>2. CASE PopNothing(w) BY <1>2 DEF PopNothing
<1>3. CASE Pop(w)        BY <1>3 DEF Pop
<1>4. CASE PutBack(w)    BY <1>4 DEF PutBack, ToIdle
<1>5. CASE Claim(w)
      <2> DEFINE j == item[w]
      <2>1. j \in Jobs /\ at[w] = "popped" /\ proc[w] = "up"
            BY <1>5 DEF Claim
      <2>2. UNCHANGED <<proc, run, freeing>>
            BY <1>5 DEF Claim
      <2>3. CASE claim[j] = NoWorker
            <3>1. \A v \in Workers : ~Runs(v, j) /\ j \notin freeing[v] /\ ~InHand(v, j)
                  BY <2>1, <2>3, WorkersAssumption
            <3>2. /\ claim' = [claim EXCEPT ![j] = w]
                  /\ at' = [at EXCEPT ![w] = "claimed"] /\ item' = item
                  BY <1>5, <2>3 DEF Claim
            <3> QED BY <2>1, <2>2, <3>1, <3>2
      <2>4. CASE claim[j] # NoWorker
            <3>1. claim' = claim /\ ToIdle(w)
                  BY <1>5, <2>4 DEF Claim
            <3>2. \A v \in Workers, i \in Jobs : (InHand(v, i))' => InHand(v, i)
                  BY <3>1 DEF ToIdle
            <3>3. \A v \in Workers, i \in Jobs :
                     /\ (Runs(v, i))' = Runs(v, i)
                     /\ (Alive(v))' = Alive(v)
                     /\ (i \in freeing[v])' = (i \in freeing[v])
                  BY <2>2
            <3> HIDE DEF InHand, Runs, Alive
            <3> QED BY <3>1, <3>2, <3>3, <2>2
      <2> QED BY <2>3, <2>4
<1>6. CASE Take(w)       BY <1>6 DEF Take, ToIdle
<1>7. CASE Decline(w)    BY <1>7 DEF Decline, ToIdle, Released
<1>8. CASE TakeCut(w)    BY <1>8 DEF TakeCut, ToIdle, Released
<1> QED BY <1>1, <1>2, <1>3, <1>4, <1>5, <1>6, <1>7, <1>8 DEF Consumer

LEMMA ExclusiveRun ==
    ASSUME TypeInv, Exclusive, NEW w \in Workers, NEW j \in Jobs, Run(w, j)
    PROVE  Exclusive'
<1> USE DEF TypeInv, TypeOK, Exclusive, HolderClaims, OnePlace, InHand, Runs, Alive, redis
<1>1. ASSUME NEW from, NEW to, "none" \notin from, Goes(w, j, from, to)
      PROVE  Exclusive'
      BY <1>1 DEF Goes
<1>2. CASE Leave(w, j)        BY <1>2 DEF Leave
<1>3. CASE Release(w, j)      BY <1>3 DEF Release, Released
<1>4. CASE ReleaseFails(w, j) BY <1>4 DEF ReleaseFails
<1>5. CASE Reassert(w, j)     BY <1>5, WorkersAssumption DEF Reassert
<1>6. ASSUME \/ ReadRow(w, j) \/ Begin(w, j) \/ Pause(w, j) \/ ResumeRead(w, j)
             \/ ResumeCommit(w, j) \/ StopCancelled(w, j) \/ Complete(w, j)
             \/ Fail(w, j) \/ FailUnwritten(w, j)
      PROVE  \E from, to : "none" \notin from /\ Goes(w, j, from, to)
      <2> HIDE DEF TypeInv, Exclusive
      <2>1. CASE ReadRow(w, j)       BY <2>1 DEF ReadRow
      <2>2. CASE Begin(w, j)         BY <2>2 DEF Begin
      <2>3. CASE Pause(w, j)         BY <2>3 DEF Pause
      <2>4. CASE ResumeRead(w, j)    BY <2>4 DEF ResumeRead
      <2>5. CASE ResumeCommit(w, j)  BY <2>5 DEF ResumeCommit
      <2>6. CASE StopCancelled(w, j) BY <2>6 DEF StopCancelled
      <2>7. CASE Complete(w, j)      BY <2>7 DEF Complete
      <2>8. CASE Fail(w, j)          BY <2>8 DEF Fail
      <2>9. CASE FailUnwritten(w, j) BY <2>9 DEF FailUnwritten
      <2> QED BY <1>6, <2>1, <2>2, <2>3, <2>4, <2>5, <2>6, <2>7, <2>8, <2>9
<1> QED BY <1>1, <1>2, <1>3, <1>4, <1>5, <1>6 DEF Run

LEMMA ExclusiveExpire ==
    ASSUME TypeInv, Exclusive, NEW j \in Jobs, Expire(j) PROVE Exclusive'
BY DEF TypeInv, TypeOK, Exclusive, HolderClaims, OnePlace, InHand, Runs, Alive,
       Expire, Keeps, api, process, rows

LEMMA ApiKeepsProcess ==
    ASSUME NEW j \in Jobs, Api(j) PROVE UNCHANGED <<claim, process>>
BY DEF Api, Admit, Insert, Enqueue, EnqueueFails, CancelRead, CancelCommit, Delete,
       redis, process

LEMMA SweepKeepsRuns ==
    ASSUME NEW w \in Workers, Sweep(w)
    PROVE  UNCHANGED <<claim, proc, at, item, run, freeing, launch>>
BY DEF Sweep, Snapshot, Examine, Requeue, ReleaseOrphans, FailStalePending, CloseOut,
       SweepEnds, Retag, api

LEMMA ExclusiveNext ==
    ASSUME ~Flush, TypeInv, Exclusive, [Next]_vars PROVE Exclusive'
<1>1. CASE UNCHANGED vars
      BY <1>1, ExclusiveFrame DEF vars
<1>2. ASSUME NEW j \in Jobs, Api(j) PROVE Exclusive'
      BY <1>2, ApiKeepsProcess, ExclusiveFrame DEF process
<1>3. ASSUME NEW j \in Jobs, Ages(j) PROVE Exclusive'
      BY <1>3, ExclusiveFrame DEF Ages, redis, process
<1>4. ASSUME NEW w \in Workers, Sweep(w) PROVE Exclusive'
      BY <1>4, SweepKeepsRuns, ExclusiveFrame
<1> QED BY <1>1, <1>2, <1>3, <1>4, ExclusiveExpire, ExclusiveProcess,
           ExclusiveConsumer, ExclusiveRun DEF Next


\* What a step of a run may do: move its own task forward, and write a status
\* that a run writes once the row has been read.
LEMMA RunEffect ==
    ASSUME TypeInv, NEW w \in Workers, NEW j \in Jobs, Run(w, j)
    PROVE  /\ UNCHANGED <<launch, cancelling, proc, at, item, tag>>
           /\ \A v \in Workers, k \in Jobs :
                 v # w \/ k # j => run'[v][k] = run[v][k]
           /\ Runs(w, j)' => Runs(w, j)
           /\ run'[w][j] \in {"held", "cleared"} => run[w][j] \in {"held", "cleared"}
           /\ \A k \in Jobs : row'[k] # row[k] =>
                 /\ k = j /\ Runs(w, j) /\ row'[j] \in Active \cup Finished
                 /\ row[j] # "gone" /\ run'[w][j] \notin {"held", "cleared"}
                 /\ run'[w][j] # run[w][j] /\ Runs(w, j)'
<1> USE DEF TypeInv, TypeOK, Runs, Goes, Written, api, rows, redis, bounds, Active, Finished
<1>1. CASE ReadRow(w, j)       BY <1>1 DEF ReadRow
<1>2. CASE Begin(w, j)         BY <1>2 DEF Begin
<1>3. CASE Pause(w, j)         BY <1>3 DEF Pause
<1>4. CASE ResumeRead(w, j)    BY <1>4 DEF ResumeRead
<1>5. CASE ResumeCommit(w, j)  BY <1>5 DEF ResumeCommit
<1>6. CASE StopCancelled(w, j) BY <1>6 DEF StopCancelled
<1>7. CASE Complete(w, j)      BY <1>7 DEF Complete
<1>8. CASE Fail(w, j)          BY <1>8 DEF Fail
<1>9. CASE FailUnwritten(w, j) BY <1>9 DEF FailUnwritten
<1>10. CASE Leave(w, j)        BY <1>10 DEF Leave
<1>11. CASE Release(w, j)      BY <1>11 DEF Release
<1>12. CASE ReleaseFails(w, j) BY <1>12 DEF ReleaseFails
<1>13. CASE Reassert(w, j)     BY <1>13 DEF Reassert, process
<1> QED BY <1>1, <1>2, <1>3, <1>4, <1>5, <1>6, <1>7, <1>8, <1>9, <1>10, <1>11,
           <1>12, <1>13 DEF Run

\* What the api may do to a row: insert it, cancel it, delete it.
LEMMA ApiEffect ==
    ASSUME TypeInv, RowFollowsLaunch, NEW j \in Jobs, Api(j)
    PROVE  /\ UNCHANGED <<process, claim>>
           /\ \A k \in Jobs : k # j => row'[k] = row[k] /\ launch'[k] = launch[k]
           /\ \/ UNCHANGED row /\ (launch'[j] \in {"no", "admitted"} <=> launch[j] \in {"no", "admitted"})
              \/ row[j] = "none" /\ row'[j] = "pending" /\ launch'[j] = "committed"
              \/ /\ launch' = launch
                 /\ j \in cancelling /\ row'[j] = IF row[j] = "gone" THEN "gone" ELSE "cancelled"
              \/ row[j] \in Finished /\ row'[j] = "gone" /\ launch' = launch
<1> USE DEF TypeInv, TypeOK, RowFollowsLaunch, rows, redis
<1>1. CASE Admit(j)        BY <1>1 DEF Admit
<1>2. CASE Insert(j)       BY <1>2 DEF Insert
<1>3. CASE Enqueue(j)      BY <1>3 DEF Enqueue
<1>4. CASE EnqueueFails(j) BY <1>4 DEF EnqueueFails
<1>5. CASE CancelRead(j)   BY <1>5 DEF CancelRead
<1>6. CASE CancelCommit(j)
      <2>1. row' = Written(j, "cancelled") /\ j \in cancelling /\ launch' = launch
            BY <1>6 DEF CancelCommit
      <2>2. \A k \in Jobs : row'[k] = IF k = j THEN IF row[j] = "gone" THEN "gone"
                                                ELSE "cancelled" ELSE row[k]
            BY <2>1 DEF Written
      <2> QED BY <2>1, <2>2, ApiKeepsProcess
<1>7. CASE Delete(j)       BY <1>7 DEF Delete, api
<1> QED BY <1>1, <1>2, <1>3, <1>4, <1>5, <1>6, <1>7, ApiKeepsProcess DEF Api, process

\* What the sweep may do to a row: mark it failed, a running or paused one of
\* its orphan list or a pending one.
LEMMA SweepEffect ==
    ASSUME TypeInv, NEW w \in Workers, Sweep(w)
    PROVE  /\ UNCHANGED <<claim, cancelling, proc, at, item, run, freeing, launch>>
           /\ \A j \in Jobs :
                 \/ row'[j] = row[j]
                 \/ row'[j] = "failed" /\ row[j] = "pending"
                 \/ row'[j] = "failed" /\ row[j] \in Active /\ tag[w][j] = "orphan"
<1> USE DEF TypeInv, TypeOK, Retag
<1>1. CASE Snapshot(w)         BY <1>1 DEF Snapshot, api
<1>2. CASE ReleaseOrphans(w)   BY <1>2 DEF ReleaseOrphans, CloseOut, api
<1>3. CASE FailStalePending(w) BY <1>3 DEF FailStalePending, CloseOut, api
<1>4. CASE SweepEnds(w)        BY <1>4 DEF SweepEnds, api
<1>5. ASSUME NEW j \in Jobs, Examine(w, j) \/ Requeue(w, j)
      PROVE  UNCHANGED <<row, claim, cancelling, proc, at, item, run, freeing, launch>>
      BY <1>5 DEF Examine, Requeue, api
<1> QED BY <1>1, <1>2, <1>3, <1>4, <1>5 DEF Sweep

\* A run task only appears when a consumer takes a pending job it has claimed.
LEMMA ConsumerEffect ==
    ASSUME TypeInv, NEW w \in Workers, Consumer(w)
    PROVE  /\ UNCHANGED <<row, launch, cancelling, proc, tag>>
           /\ \A v \in Workers, j \in Jobs : run'[v][j] # run[v][j] =>
                 v = w /\ InHand(w, j) /\ row[j] = "pending" /\ run'[v][j] = "held"
<1> USE DEF TypeInv, TypeOK, ItemInHand, InHand, rows, api
<1>1. CASE Take(w) BY <1>1 DEF Take
<1>2. CASE ~Take(w)
      BY <1>2 DEF Consumer, Count, PopNothing, Pop, PutBack, Claim, Decline, TakeCut
<1> QED BY <1>1, <1>2

LEMMA ProcessEffect ==
    ASSUME TypeInv, NEW w \in Workers, Start(w) \/ Sigterm(w) \/ Kill(w) \/ Exit(w)
    PROVE  /\ UNCHANGED <<row, launch, cancelling>>
           /\ \A v \in Workers, j \in Jobs :
                 /\ run'[v][j] = run[v][j] \/ run'[v][j] = "none"
                 /\ tag'[v][j] = tag[v][j] \/ tag'[v][j] = "out"
BY DEF TypeInv, TypeOK, Start, Sigterm, Kill, Exit, Vanish, rows, api

LEMMA RedisEffect ==
    ASSUME Flush \/ \E j \in Jobs : Ages(j) \/ Expire(j)
    PROVE  UNCHANGED <<row, launch, cancelling, run, tag>>
BY DEF Flush, Ages, Expire, rows, api, process

LEMMA LaunchNext ==
    ASSUME TypeInv, RowFollowsLaunch, [Next]_vars PROVE RowFollowsLaunch'
<1> USE DEF RowFollowsLaunch, Runs
<1>1. CASE UNCHANGED vars
      BY <1>1 DEF vars
<1>2. ASSUME NEW j \in Jobs, Api(j) PROVE RowFollowsLaunch'
      <2>1. run' = run /\ cancelling' \subseteq cancelling \cup {j}
            BY <1>2, ApiKeepsProcess DEF process, Api, Admit, Insert, Enqueue,
               EnqueueFails, CancelRead, CancelCommit, Delete, api
      <2>2. j \in cancelling' => row[j] # "none"
            BY <1>2 DEF Api, Admit, Insert, Enqueue, EnqueueFails, CancelRead,
               CancelCommit, Delete, Active, Finished, api
      <2> QED BY <1>2, <2>1, <2>2, ApiEffect DEF Finished
<1>3. CASE Flush \/ \E j \in Jobs : Ages(j) \/ Expire(j)
      BY <1>3, RedisEffect
<1>4. ASSUME NEW w \in Workers, Start(w) \/ Sigterm(w) \/ Kill(w) \/ Exit(w)
      PROVE  RowFollowsLaunch'
      BY <1>4, ProcessEffect
<1>5. ASSUME NEW w \in Workers, Consumer(w) PROVE RowFollowsLaunch'
      <2>1. \A v \in Workers, k \in Jobs :
               run'[v][k] # "none" => run[v][k] # "none" \/ row[k] = "pending"
            BY <1>5, ConsumerEffect
      <2> QED BY <1>5, <2>1, ConsumerEffect
<1>6. ASSUME NEW w \in Workers, Sweep(w) PROVE RowFollowsLaunch'
      BY <1>6, SweepEffect DEF Active
<1>7. ASSUME NEW w \in Workers, NEW j \in Jobs, Run(w, j) PROVE RowFollowsLaunch'
      <2>1. \A v \in Workers, k \in Jobs : run'[v][k] # "none" => run[v][k] # "none"
            BY <1>7, RunEffect
      <2>2. \A k \in Jobs : row'[k] = "none" <=> row[k] = "none"
            BY <1>7, RunEffect DEF Active, Finished
      <2> QED BY <1>7, <2>1, <2>2, RunEffect
<1> QED BY <1>1, <1>2, <1>3, <1>4, <1>5, <1>6, <1>7 DEF Next

LEMMA OneRunnerHolds == TypeInv /\ Exclusive => OneRunner /\ ClaimCoversRun
BY DEF Exclusive, HolderClaims, OneRunner, ClaimCoversRun

\* How a sweep comes to its lists: "active" from the snapshot, "orphan" from an
\* active row that had no claim when it was looked at.
LEMMA SweepTags ==
    ASSUME TypeInv, NEW w \in Workers, Sweep(w), NEW v \in Workers, NEW j \in Jobs
    PROVE  /\ tag'[v][j] = "active" => tag[v][j] = "active" \/ row[j] \in Active
           /\ tag'[v][j] = "orphan" =>
                 \/ tag[v][j] = "orphan"
                 \/ tag[v][j] = "active" /\ claim[j] = NoWorker /\ ~Runs(v, j)
<1> USE DEF TypeInv, TypeOK, Retag
<1>1. CASE Snapshot(w)         BY <1>1 DEF Snapshot
<1>2. CASE ReleaseOrphans(w)   BY <1>2 DEF ReleaseOrphans, CloseOut
<1>3. CASE FailStalePending(w) BY <1>3 DEF FailStalePending, CloseOut
<1>4. CASE SweepEnds(w)
      BY <1>4 DEF SweepEnds
<1>5. ASSUME NEW k \in Jobs, Examine(w, k)
      PROVE  tag'[v][j] = tag[v][j] \/ (v = w /\ j = k /\ tag'[v][j] = Verdict(w, j))
      BY <1>5 DEF Examine
<1>6. ASSUME NEW k \in Jobs, Requeue(w, k)
      PROVE  tag'[v][j] \in {tag[v][j], "out"}
      BY <1>6 DEF Requeue
<1>7. /\ Verdict(w, j) # "active"
      /\ Verdict(w, j) = "orphan" =>
            tag[w][j] = "active" /\ claim[j] = NoWorker /\ ~Runs(w, j)
      BY DEF Verdict, Held
<1> QED BY <1>1, <1>2, <1>3, <1>4, <1>5, <1>6, <1>7 DEF Sweep

LEMMA NotBegunNext ==
    ASSUME TypeInv, Exclusive, RowFollowsLaunch, NotBegun, [Next]_vars
    PROVE  NotBegun'
<1> USE DEF NotBegun
<1>1. CASE UNCHANGED vars
      BY <1>1 DEF vars
<1>2. ASSUME NEW j \in Jobs, Api(j) PROVE NotBegun'
      BY <1>2, ApiEffect DEF process, Active
<1>3. CASE Flush \/ \E j \in Jobs : Ages(j) \/ Expire(j)
      BY <1>3, RedisEffect
<1>4. ASSUME NEW w \in Workers, Start(w) \/ Sigterm(w) \/ Kill(w) \/ Exit(w)
      PROVE  NotBegun'
      BY <1>4, ProcessEffect
<1>5. ASSUME NEW w \in Workers, Consumer(w) PROVE NotBegun'
      BY <1>5, ConsumerEffect DEF Active
<1>6. ASSUME NEW w \in Workers, Sweep(w) PROVE NotBegun'
      BY <1>6, SweepEffect DEF Active
<1>7. ASSUME NEW w \in Workers, NEW j \in Jobs, Run(w, j) PROVE NotBegun'
      <2>1. \A v \in Workers, k \in Jobs :
               run'[v][k] \in {"held", "cleared"} => run[v][k] \in {"held", "cleared"}
            BY <1>7, RunEffect
      <2>2. \A v \in Workers : Runs(w, j) /\ Runs(v, j) => v = w
            BY OneRunnerHolds DEF OneRunner
      <2> QED BY <1>7, <2>1, <2>2, RunEffect DEF Runs
<1> QED BY <1>1, <1>2, <1>3, <1>4, <1>5, <1>6, <1>7 DEF Next

LEMMA SweepSeesNext ==
    ASSUME TypeInv, RowFollowsLaunch, SweepSees, [Next]_vars PROVE SweepSees'
<1> USE DEF SweepSees, Runs
<1>1. CASE UNCHANGED vars
      BY <1>1 DEF vars
<1>2. ASSUME NEW j \in Jobs, Api(j) PROVE SweepSees'
      BY <1>2, ApiEffect DEF process
<1>3. CASE Flush \/ \E j \in Jobs : Ages(j) \/ Expire(j)
      BY <1>3, RedisEffect
<1>4. ASSUME NEW w \in Workers, Start(w) \/ Sigterm(w) \/ Kill(w) \/ Exit(w)
      PROVE  SweepSees'
      BY <1>4, ProcessEffect
<1>5. ASSUME NEW w \in Workers, Consumer(w) PROVE SweepSees'
      BY <1>5, ConsumerEffect
<1>6. ASSUME NEW w \in Workers, Sweep(w) PROVE SweepSees'
      <2>1. \A j \in Jobs : row'[j] \in {"none", "pending"} => row'[j] = row[j]
            BY <1>6, SweepEffect
      <2> QED BY <1>6, <2>1, SweepTags, SweepEffect DEF Active
<1>7. ASSUME NEW w \in Workers, NEW j \in Jobs, Run(w, j) PROVE SweepSees'
      BY <1>7, RunEffect DEF Active, Finished
<1> QED BY <1>1, <1>2, <1>3, <1>4, <1>5, <1>6, <1>7 DEF Next

LEMMA SweepKnowsNext ==
    ASSUME Always, Exclusive, SweepKnows, [Next]_vars PROVE SweepKnows'
<1> USE DEF Always, SweepKnows, Runs
<1>1. CASE UNCHANGED vars
      BY <1>1 DEF vars
<1>2. ASSUME NEW j \in Jobs, Api(j) PROVE SweepKnows'
      BY <1>2, ApiEffect DEF process
<1>3. CASE Flush \/ \E j \in Jobs : Ages(j) \/ Expire(j)
      BY <1>3, RedisEffect
<1>4. ASSUME NEW w \in Workers, Start(w) \/ Sigterm(w) \/ Kill(w) \/ Exit(w)
      PROVE  SweepKnows'
      BY <1>4, ProcessEffect
<1>5. ASSUME NEW w \in Workers, Consumer(w) PROVE SweepKnows'
      BY <1>5, ConsumerEffect DEF SweepSees
<1>6. ASSUME NEW w \in Workers, Sweep(w) PROVE SweepKnows'
      <2>1. \A j \in Jobs : claim[j] = NoWorker => \A v \in Workers : ~Runs(v, j)
            BY WorkersAssumption DEF Exclusive, HolderClaims
      <2> QED BY <1>6, <2>1, SweepTags, SweepEffect
<1>7. ASSUME NEW w \in Workers, NEW j \in Jobs, Run(w, j) PROVE SweepKnows'
      BY <1>7, RunEffect
<1> QED BY <1>1, <1>2, <1>3, <1>4, <1>5, <1>6, <1>7 DEF Next

Serves(w, j) == run[w][j] \in {"live", "waiting", "resuming"}

LEMMA RunServes ==
    ASSUME TypeInv, NEW w \in Workers, NEW j \in Jobs, Run(w, j), faults' = 0,
           row'[j] \in Active, row'[j] # row[j] \/ Serves(w, j)
    PROVE  Serves(w, j)'
<1> USE DEF TypeInv, TypeOK, Serves, Goes, Written, rows, redis, bounds, Active
<1>1. CASE ReadRow(w, j)       BY <1>1 DEF ReadRow
<1>2. CASE Begin(w, j)         BY <1>2 DEF Begin
<1>3. CASE Pause(w, j)         BY <1>3 DEF Pause
<1>4. CASE ResumeRead(w, j)    BY <1>4 DEF ResumeRead
<1>5. CASE ResumeCommit(w, j)  BY <1>5 DEF ResumeCommit
<1>6. CASE StopCancelled(w, j) BY <1>6 DEF StopCancelled
<1>7. CASE Complete(w, j)      BY <1>7 DEF Complete
<1>8. CASE Fail(w, j)          BY <1>8 DEF Fail
<1>9. CASE FailUnwritten(w, j) BY <1>9 DEF FailUnwritten, Fault
<1>10. CASE Leave(w, j)        BY <1>10 DEF Leave
<1>11. CASE Release(w, j)      BY <1>11 DEF Release
<1>12. CASE ReleaseFails(w, j) BY <1>12 DEF ReleaseFails
<1>13. CASE Reassert(w, j)     BY <1>13 DEF Reassert, process
<1> QED BY <1>1, <1>2, <1>3, <1>4, <1>5, <1>6, <1>7, <1>8, <1>9, <1>10, <1>11,
           <1>12, <1>13 DEF Run

LEMMA FaultsOnlyGrow ==
    ASSUME TypeInv, [Next]_vars, faults' = 0 PROVE faults = 0
<1> USE DEF TypeInv, TypeOK, Fault, bounds
<1>1. CASE UNCHANGED vars
      BY <1>1 DEF vars
<1>2. ASSUME NEW j \in Jobs, Api(j) PROVE faults = 0
      BY <1>2 DEF Api, Admit, Insert, Enqueue, EnqueueFails, CancelRead, CancelCommit, Delete
<1>3. CASE Flush \/ \E j \in Jobs : Ages(j) \/ Expire(j)
      BY <1>3 DEF Flush, Ages, Expire
<1>4. ASSUME NEW w \in Workers, Start(w) \/ Sigterm(w) \/ Kill(w) \/ Exit(w)
      PROVE  faults = 0
      BY <1>4 DEF Start, Sigterm, Kill, Exit
<1>5. ASSUME NEW w \in Workers, Consumer(w) PROVE faults = 0
      BY <1>5 DEF Consumer, Count, PopNothing, Pop, PutBack, Claim, Take, Decline, TakeCut
<1>6. ASSUME NEW w \in Workers, Sweep(w) PROVE faults = 0
      <2>1. CASE SweepEnds(w)
            BY <2>1 DEF SweepEnds
      <2>2. CASE ~SweepEnds(w)
            <3>1. UNCHANGED bounds
                  BY <1>6, <2>2 DEF Sweep, Snapshot, Examine, Requeue, ReleaseOrphans,
                     FailStalePending, CloseOut
            <3> QED BY <3>1
      <2> QED BY <2>1, <2>2
<1>7. ASSUME NEW w \in Workers, NEW j \in Jobs, Run(w, j) PROVE faults = 0
      BY <1>7 DEF Run, ReadRow, Begin, Pause, ResumeRead, ResumeCommit, StopCancelled,
                  Complete, Fail, FailUnwritten, Leave, Release, ReleaseFails, Reassert
<1> QED BY <1>1, <1>2, <1>3, <1>4, <1>5, <1>6, <1>7 DEF Next

LEMMA AttendedNext ==
    ASSUME TypeInv, Exclusive, RowFollowsLaunch, Attended, [Next]_vars
    PROVE  Attended'
<1> SUFFICES ASSUME faults' = 0, NEW k \in Jobs, row'[k] \in Active
             PROVE  \E v \in Workers : Serves(v, k)'
    BY DEF Attended, Serves
<1>0. row[k] \in Active => \E v \in Workers : Serves(v, k)
      BY FaultsOnlyGrow DEF Attended, Serves
<1>1. CASE UNCHANGED vars
      BY <1>0, <1>1 DEF vars, Serves
<1>2. ASSUME NEW j \in Jobs, Api(j) PROVE \E v \in Workers : Serves(v, k)'
      BY <1>0, <1>2, ApiEffect DEF process, Active, Serves
<1>3. CASE Flush \/ \E j \in Jobs : Ages(j) \/ Expire(j)
      BY <1>0, <1>3, RedisEffect DEF Serves
<1>4. ASSUME NEW w \in Workers, Start(w) \/ Sigterm(w) \/ Kill(w) \/ Exit(w)
      PROVE  \E v \in Workers : Serves(v, k)'
      <2>1. ~Kill(w)
            BY DEF Kill, Fault, TypeInv, TypeOK
      <2>2. \A v \in Workers : Serves(v, k) => Serves(v, k)'
            BY <1>4, <2>1 DEF Start, Sigterm, Exit, Vanish, Held, Runs, Serves,
                             TypeInv, TypeOK
      <2> QED BY <1>0, <1>4, <2>2, ProcessEffect
<1>5. ASSUME NEW w \in Workers, Consumer(w) PROVE \E v \in Workers : Serves(v, k)'
      <2>1. \A v \in Workers : Serves(v, k) => Serves(v, k)'
            BY <1>5, ConsumerEffect DEF Serves, Exclusive, OnePlace, Runs
      <2> QED BY <1>0, <1>5, <2>1, ConsumerEffect
<1>6. ASSUME NEW w \in Workers, Sweep(w) PROVE \E v \in Workers : Serves(v, k)'
      BY <1>0, <1>6, SweepEffect DEF Active, Serves
<1>7. ASSUME NEW w \in Workers, NEW j \in Jobs, Run(w, j)
      PROVE  \E v \in Workers : Serves(v, k)'
      <2>1. CASE row'[k] # row[k]
            BY <1>7, <2>1, RunEffect, RunServes
      <2>2. CASE row'[k] = row[k]
            <3>1. PICK v \in Workers : Serves(v, k)
                  BY <1>0, <2>2
            <3>2. CASE v = w /\ k = j
                  BY <1>7, <3>1, <3>2, RunServes
            <3>3. CASE v # w \/ k # j
                  BY <1>7, <3>1, <3>3, RunEffect DEF Serves
            <3> QED BY <3>2, <3>3
      <2> QED BY <2>1, <2>2
<1> QED BY <1>1, <1>2, <1>3, <1>4, <1>5, <1>6, <1>7 DEF Next

-----------------------------------------------------------------------------
(* The global cap.  A check lets one consumer past, so what is claimed and  *)
(* what may still be claimed grows only where the check has seen room.      *)

LEMMA Sizes ==
    ASSUME TypeInv
    PROVE  /\ IsFiniteSet(Claimed) /\ Cardinality(Claimed) \in Nat
           /\ IsFiniteSet(Due) /\ Cardinality(Due) \in Nat
           /\ Cardinality(Workers) \in Nat /\ Cardinality(Due) <= Cardinality(Workers)
<1>1. Claimed \in SUBSET Jobs /\ Due \in SUBSET Workers
      BY DEF Claimed, Due
<1>2. IsFiniteSet(Claimed) /\ IsFiniteSet(Due) /\ Cardinality(Due) <= Cardinality(Workers)
      BY <1>1, FS_Subset, JobsAssumption, WorkersAssumption
<1> QED BY <1>2, FS_CardinalityType, WorkersAssumption

LEMMA CountedShrinks ==
    ASSUME TypeInv, Counted, Claimed' \subseteq Claimed, Due' \subseteq Due
    PROVE  Counted'
<1>1. /\ IsFiniteSet(Claimed') /\ Cardinality(Claimed') <= Cardinality(Claimed)
      /\ IsFiniteSet(Due') /\ Cardinality(Due') <= Cardinality(Due)
      BY Sizes, FS_Subset
<1>2. Cardinality(Claimed') \in Nat /\ Cardinality(Due') \in Nat
      BY <1>1, FS_CardinalityType
<1> QED BY <1>1, <1>2, Sizes, BoundsAssumption DEF Counted

LEMMA CountedConsumer ==
    ASSUME TypeInv, Counted, NEW w \in Workers, Consumer(w) PROVE Counted'
<1> USE DEF TypeInv, TypeOK, ItemInHand, redis
<1>1. CASE Count(w)
      <2>1. Claimed' = Claimed /\ Cardinality(Claimed) < Concurrency
            BY <1>1 DEF Count, Claimed
      <2>2. Due' \in SUBSET Workers
            BY DEF Due
      <2>3. IsFiniteSet(Due') /\ Cardinality(Due') <= Cardinality(Workers)
            BY <2>2, FS_Subset, WorkersAssumption
      <2>4. Cardinality(Due') \in Nat
            BY <2>3, FS_CardinalityType
      <2> QED BY <2>1, <2>3, <2>4, Sizes, BoundsAssumption DEF Counted
<1>2. CASE Claim(w) /\ claim[item[w]] = NoWorker
      <2> DEFINE j == item[w]
      <2>1. /\ j \in Jobs /\ w \in Due /\ j \notin Claimed
            /\ claim' = [claim EXCEPT ![j] = w] /\ at' = [at EXCEPT ![w] = "claimed"]
            BY <1>2 DEF Claim, Claimed, Due
      <2>2. Claimed' = Claimed \cup {j}
            BY <2>1, WorkersAssumption DEF Claimed
      <2>3. Due' = Due \ {w}
            BY <2>1 DEF Due
      <2>4. Cardinality(Claimed') = Cardinality(Claimed) + 1
            BY <2>1, <2>2, Sizes, FS_AddElement
      <2>5. Cardinality(Due') = Cardinality(Due) - 1
            BY <2>1, <2>3, Sizes, FS_RemoveElement
      <2> QED BY <2>4, <2>5, Sizes, BoundsAssumption DEF Counted
<1>3. CASE Claim(w) /\ claim[item[w]] # NoWorker
      <2>1. claim' = claim /\ at' = [at EXCEPT ![w] = "idle"]
            BY <1>3 DEF Claim, ToIdle
      <2> QED BY <2>1, CountedShrinks DEF Claimed, Due
<1>4. CASE PopNothing(w)
      BY <1>4, CountedShrinks DEF PopNothing, Claimed, Due
<1>5. CASE Pop(w)
      BY <1>5, CountedShrinks DEF Pop, Claimed, Due
<1>6. CASE PutBack(w)
      BY <1>6, CountedShrinks DEF PutBack, ToIdle, Claimed, Due
<1>7. CASE Take(w)
      BY <1>7, CountedShrinks DEF Take, ToIdle, Claimed, Due
<1>8. CASE Decline(w)
      BY <1>8, CountedShrinks DEF Decline, Released, ToIdle, Claimed, Due
<1>9. CASE TakeCut(w)
      BY <1>9, CountedShrinks DEF TakeCut, Released, ToIdle, Claimed, Due
<1> QED BY <1>1, <1>2, <1>3, <1>4, <1>5, <1>6, <1>7, <1>8, <1>9 DEF Consumer

\* A run gives its claim back and never adds one: what it keeps is there.
LEMMA RunClaims ==
    ASSUME TypeInv, HolderClaims, NEW w \in Workers, NEW j \in Jobs, Run(w, j)
    PROVE  Claimed' \subseteq Claimed /\ at' = at
<1> USE DEF TypeInv, TypeOK, Claimed, Goes, rows, redis
<1>1. CASE Release(w, j)
      BY <1>1 DEF Release, Released
<1>2. CASE Reassert(w, j)
      BY <1>2, WorkersAssumption DEF Reassert, HolderClaims
<1>3. CASE Leave(w, j) \/ ReleaseFails(w, j)
      BY <1>3 DEF Leave, ReleaseFails
<1>4. ASSUME NEW from, NEW to, Goes(w, j, from, to)
      PROVE  Claimed' \subseteq Claimed /\ at' = at
      BY <1>4
<1> QED BY <1>1, <1>2, <1>3, <1>4 DEF Run, ReadRow, Begin, Pause, ResumeRead,
           ResumeCommit, StopCancelled, Complete, Fail, FailUnwritten

LEMMA CountedNext ==
    ASSUME TypeInv, HolderClaims, Counted, [Next]_vars PROVE Counted'
<1>1. CASE UNCHANGED vars
      BY <1>1, CountedShrinks DEF vars, Claimed, Due
<1>2. ASSUME NEW j \in Jobs, Api(j) PROVE Counted'
      BY <1>2, ApiKeepsProcess, CountedShrinks DEF process, Claimed, Due
<1>3. CASE Flush \/ \E j \in Jobs : Ages(j) \/ Expire(j)
      BY <1>3, CountedShrinks DEF Flush, Ages, Expire, redis, process, Claimed, Due,
         TypeInv, TypeOK
<1>4. ASSUME NEW w \in Workers, Start(w) \/ Sigterm(w) \/ Kill(w) \/ Exit(w)
      PROVE  Counted'
      BY <1>4, CountedShrinks DEF Start, Sigterm, Kill, Exit, Vanish, redis, Claimed,
         Due, TypeInv, TypeOK
<1>5. ASSUME NEW w \in Workers, Sweep(w) PROVE Counted'
      BY <1>5, SweepKeepsRuns, CountedShrinks DEF Claimed, Due
<1>6. ASSUME NEW w \in Workers, NEW j \in Jobs, Run(w, j) PROVE Counted'
      BY <1>6, RunClaims, CountedShrinks DEF Due
<1> QED BY <1>1, <1>2, <1>3, <1>4, <1>5, <1>6, CountedConsumer DEF Next

LEMMA CountedInit == Init => Counted
<1> SUFFICES ASSUME Init PROVE Counted
    OBVIOUS
<1>1. Claimed = {} /\ Due = {}
      BY DEF Init, Claimed, Due
<1>2. Cardinality(Claimed) = 0 /\ Cardinality(Due) = 0
      BY <1>1, FS_EmptySet
<1> QED BY <1>2, FS_CardinalityType, WorkersAssumption, BoundsAssumption DEF Counted

-----------------------------------------------------------------------------
(* The cap of one process: its runs, and the one its consumer may start.   *)

Room(w) ==
    Cardinality(Held(w)) + (IF at[w] = "idle" THEN 0 ELSE 1) <= Concurrency

\* A process never runs more jobs than scrape_worker_concurrency.
OwnCap == \A w \in Workers : Cardinality(Held(w)) <= Concurrency

LEMMA HeldSize ==
    ASSUME NEW w \in Workers
    PROVE  IsFiniteSet(Held(w)) /\ Cardinality(Held(w)) \in Nat
<1>1. Held(w) \in SUBSET Jobs
      BY DEF Held
<1> QED BY <1>1, FS_Subset, FS_CardinalityType, JobsAssumption

LEMMA OneMore ==
    ASSUME NEW S, NEW x, IsFiniteSet(S)
    PROVE  /\ Cardinality(S \cup {x}) \in Nat
           /\ Cardinality(S \cup {x}) <= Cardinality(S) + 1
<1>1. IsFiniteSet(S \cup {x}) /\ Cardinality(S) \in Nat
      BY FS_AddElement, FS_CardinalityType
<1>2. Cardinality(S \cup {x}) = IF x \in S THEN Cardinality(S) ELSE Cardinality(S) + 1
      BY FS_AddElement
<1> QED BY <1>1, <1>2, FS_CardinalityType

LEMMA RoomShrinks ==
    ASSUME NEW w \in Workers, Room(w), Held(w)' \subseteq Held(w),
           at'[w] = "idle" \/ at[w] # "idle"
    PROVE  Room(w)'
<1>1. IsFiniteSet(Held(w)') /\ Cardinality(Held(w)') <= Cardinality(Held(w))
      BY HeldSize, FS_Subset
<1>2. Cardinality(Held(w)') \in Nat
      BY <1>1, FS_CardinalityType
<1> QED BY <1>1, <1>2, HeldSize, BoundsAssumption DEF Room

LEMMA RoomConsumer ==
    ASSUME TypeInv, NEW w \in Workers, Consumer(w), NEW v \in Workers, Room(v)
    PROVE  Room(v)'
<1> USE DEF TypeInv, TypeOK, ItemInHand
<1>1. CASE v # w
      <2>1. run'[v] = run[v] /\ at'[v] = at[v]
            BY <1>1 DEF Consumer, Count, PopNothing, Pop, PutBack, Claim, Take, Decline,
               TakeCut, ToIdle
      <2> QED BY <2>1, RoomShrinks DEF Held, Runs
<1>2. CASE Count(v) /\ v = w
      <2>1. Held(v)' = Held(v) /\ Cardinality(Held(v)) < Concurrency
            BY <1>2 DEF Count, Held, Runs
      <2> QED BY <2>1, HeldSize, BoundsAssumption DEF Room
<1>3. CASE Take(v) /\ v = w
      <2> DEFINE j == item[v]
      <2>1. /\ j \in Jobs /\ at[v] # "idle"
            /\ run' = [run EXCEPT ![v][j] = "held"] /\ at' = [at EXCEPT ![v] = "idle"]
            BY <1>3 DEF Take, ToIdle
      <2>2. Held(v)' = Held(v) \cup {j}
            BY <2>1 DEF Held, Runs
      <2>3. /\ Cardinality(Held(v)') \in Nat
            /\ Cardinality(Held(v)') <= Cardinality(Held(v)) + 1
            BY <2>2, HeldSize, OneMore
      <2> QED BY <2>1, <2>3, HeldSize, BoundsAssumption DEF Room
<1>4. CASE v = w /\ ~Count(v) /\ ~Take(v)
      <2>1. run' = run /\ (at'[v] = "idle" \/ at[v] # "idle")
            BY <1>4 DEF Consumer, PopNothing, Pop, PutBack, Claim, Decline, TakeCut, ToIdle
      <2> QED BY <2>1, RoomShrinks DEF Held, Runs
<1> QED BY <1>1, <1>2, <1>3, <1>4

LEMMA RoomNext ==
    ASSUME TypeInv, [Next]_vars, NEW v \in Workers, Room(v) PROVE Room(v)'
<1>1. CASE UNCHANGED vars
      BY <1>1, RoomShrinks DEF vars, Held, Runs
<1>2. ASSUME NEW j \in Jobs, Api(j) PROVE Room(v)'
      BY <1>2, ApiKeepsProcess, RoomShrinks DEF process, Held, Runs
<1>3. CASE Flush \/ \E j \in Jobs : Ages(j) \/ Expire(j)
      BY <1>3, RoomShrinks DEF Flush, Ages, Expire, process, Held, Runs
<1>4. ASSUME NEW w \in Workers, Start(w) \/ Sigterm(w) \/ Kill(w) \/ Exit(w)
      PROVE  Room(v)'
      <2>1. \/ run' = run /\ at' = at
            \/ /\ run' = [run EXCEPT ![w] = [j \in Jobs |-> "none"]]
               /\ at' = [at EXCEPT ![w] = "idle"]
            BY <1>4 DEF Start, Sigterm, Kill, Exit, Vanish
      <2>2. Held(v)' \subseteq Held(v) /\ at'[v] \in {"idle", at[v]}
            BY <2>1 DEF Held, Runs, TypeInv, TypeOK
      <2> QED BY <2>2, RoomShrinks
<1>5. ASSUME NEW w \in Workers, Sweep(w) PROVE Room(v)'
      BY <1>5, SweepKeepsRuns, RoomShrinks DEF Held, Runs
<1>6. ASSUME NEW w \in Workers, NEW j \in Jobs, Run(w, j) PROVE Room(v)'
      <2>1. at' = at /\ \A k \in Jobs : Runs(v, k)' => Runs(v, k)
            BY <1>6, RunEffect DEF Runs
      <2> QED BY <2>1, RoomShrinks DEF Held
<1> QED BY <1>1, <1>2, <1>3, <1>4, <1>5, <1>6, RoomConsumer DEF Next

-----------------------------------------------------------------------------
(* The invariants hold: Always at any time, IInv until Redis loses its data. *)

LEMMA AlwaysInit == Init => Always
<1> SUFFICES ASSUME Init PROVE Always
    OBVIOUS
<1>1. RowFollowsLaunch /\ SweepSees
      BY DEF Init, RowFollowsLaunch, SweepSees, Runs
<1> QED BY <1>1, TypeInit DEF Always

LEMMA AlwaysNext == Always /\ [Next]_vars => Always'
BY TypeNext, LaunchNext, SweepSeesNext DEF Always

LEMMA IInvInit == Init => IInv
<1> SUFFICES ASSUME Init PROVE IInv
    OBVIOUS
<1>1. Exclusive
      BY DEF Init, Exclusive, HolderClaims, OnePlace, InHand, Runs
<1>2. NotBegun /\ SweepKnows /\ Attended
      BY DEF Init, NotBegun, SweepKnows, Attended, Runs, Active
<1> QED BY <1>1, <1>2, AlwaysInit, CountedInit DEF IInv

LEMMA IInvNext == ASSUME ~Flush, IInv, [Next]_vars PROVE IInv'
BY AlwaysNext, ExclusiveNext, NotBegunNext, SweepKnowsNext, AttendedNext, CountedNext
   DEF IInv, Always, Exclusive

\* The count of flushes says whether Redis has lost its data yet.
LEMMA FlushesKept == ASSUME ~Flush, [Next]_vars PROVE flushes' = flushes
<1>1. ASSUME NEW j \in Jobs, Api(j) \/ Ages(j) \/ Expire(j) PROVE flushes' = flushes
      BY <1>1 DEF Api, Admit, Insert, Enqueue, EnqueueFails, CancelRead, CancelCommit,
                  Delete, Ages, Expire, Fault, bounds
<1>2. ASSUME NEW w \in Workers, Start(w) \/ Sigterm(w) \/ Kill(w) \/ Exit(w)
      PROVE  flushes' = flushes
      BY <1>2 DEF Start, Sigterm, Kill, Exit, Fault, bounds
<1>3. ASSUME NEW w \in Workers, Consumer(w) PROVE flushes' = flushes
      BY <1>3 DEF Consumer, Count, PopNothing, Pop, PutBack, Claim, Take, Decline,
                  TakeCut, Fault, bounds
<1>4. ASSUME NEW w \in Workers, Sweep(w) PROVE flushes' = flushes
      BY <1>4 DEF Sweep, Snapshot, Examine, Requeue, ReleaseOrphans, FailStalePending,
                  CloseOut, SweepEnds, Fault, bounds
<1>5. ASSUME NEW w \in Workers, NEW j \in Jobs, Run(w, j) PROVE flushes' = flushes
      BY <1>5 DEF Run, ReadRow, Begin, Pause, ResumeRead, ResumeCommit, StopCancelled,
                  Complete, Fail, FailUnwritten, Leave, Release, ReleaseFails, Reassert,
                  Fault, bounds
<1>6. CASE UNCHANGED vars
      BY <1>6 DEF vars
<1> QED BY <1>1, <1>2, <1>3, <1>4, <1>5, <1>6 DEF Next

LEMMA FlushesOnlyGrow ==
    ASSUME TypeInv, [Next]_vars, flushes' = 0 PROVE flushes = 0 /\ ~Flush
<1>1. ~Flush
      BY DEF Flush, TypeInv, TypeOK
<1> QED BY <1>1, FlushesKept

LEMMA AlwaysHolds == Spec => []Always
BY AlwaysInit, AlwaysNext, PTL DEF Spec

Lossless  == flushes = 0
UntilLost == Always /\ (Lossless => IInv)

LEMMA IInvUntilLost == Spec => []UntilLost
<1>1. Init => UntilLost
      BY AlwaysInit, IInvInit DEF UntilLost
<1>2. UntilLost /\ [Next]_vars => UntilLost'
      BY AlwaysNext, IInvNext, FlushesOnlyGrow DEF Always, UntilLost, Lossless
<1> QED BY <1>1, <1>2, PTL DEF Spec

\* No flush is modelled: the bound on them is zero.
NoFlush == MaxFlushes = 0

LEMMA IInvHolds == ASSUME NoFlush PROVE Spec => []IInv
<1>1. Init => Lossless
      BY DEF Init, Lossless
<1>2. Lossless /\ [Next]_vars => Lossless'
      <2> SUFFICES ASSUME Lossless, [Next]_vars PROVE Lossless'
          OBVIOUS
      <2>1. ~Flush
            BY BoundsAssumption DEF NoFlush, Flush, Lossless
      <2> QED BY <2>1, FlushesKept DEF Lossless
<1>3. UntilLost /\ Lossless => IInv
      BY DEF UntilLost
<1> QED BY <1>1, <1>2, <1>3, IInvUntilLost, PTL DEF Spec

-----------------------------------------------------------------------------
(* The theorems.                                                           *)

\* While Redis keeps its data, no job is ever run by two processes at once.
THEOREM ExclusiveRuns == ASSUME NoFlush PROVE Spec => []OneRunner
<1>1. IInv => OneRunner
      BY OneRunnerHolds DEF IInv, Always
<1> QED BY <1>1, IInvHolds, PTL

\* ... and a run's claim is its own from the take to the release.
THEOREM ClaimsCoverRuns == ASSUME NoFlush PROVE Spec => []ClaimCoversRun
<1>1. IInv => ClaimCoversRun
      BY OneRunnerHolds DEF IInv, Always
<1> QED BY <1>1, IInvHolds, PTL

\* One step of NeverRerun.
BeginsOnce ==
    \A w \in Workers, j \in Jobs :
        run[w][j] = "cleared" /\ run'[w][j] = "live"
           => row[j] \notin Active \cup {"completed"}

\* ... and no job that ran is run again, whatever the sweeps requeue.
THEOREM NoJobRunsTwice == ASSUME NoFlush PROVE Spec => NeverRerun
<1>1. IInv => BeginsOnce
      BY DEF IInv, NotBegun, BeginsOnce
<1> QED BY <1>1, IInvHolds, PTL DEF NeverRerun, BeginsOnce, Spec

\* Until the first fault, deploys included, a running or paused row has its run.
THEOREM RolloutsOrphanNothing == Spec => []DrainsOrphanNothing
<1>1. UntilLost => DrainsOrphanNothing
      BY DEF UntilLost, Lossless, IInv, Attended, DrainsOrphanNothing, Runs
<1> QED BY <1>1, IInvUntilLost, PTL

\* Until Redis loses its claims, the check-then-pop of any number of workers
\* passes the cap by at most one job for each other worker.
THEOREM CapIsPassedByOneEach == Spec => []CapOverrun
<1>1. UntilLost => CapOverrun
      BY Sizes, BoundsAssumption DEF UntilLost, Lossless, Always, IInv, Counted, CapOverrun
<1> QED BY <1>1, IInvUntilLost, PTL

\* The jobs that run anywhere at this moment.
Running == {j \in Jobs : \E w \in Workers : Runs(w, j)}

\* ... and so do the jobs that really run: each of them is counted by its claim.
THEOREM RunsKeepNearTheCap ==
    Spec => [](flushes = 0 => Cardinality(Running) <= Concurrency + Cardinality(Workers) - 1)
<1>1. ASSUME UntilLost, flushes = 0
      PROVE  Cardinality(Running) <= Concurrency + Cardinality(Workers) - 1
      <2>1. IInv /\ TypeInv
            BY <1>1 DEF UntilLost, Lossless, Always
      <2>2. Running \in SUBSET Claimed
            BY <2>1, WorkersAssumption DEF IInv, Exclusive, HolderClaims, Running, Claimed
      <2>3. IsFiniteSet(Running) /\ Cardinality(Running) <= Cardinality(Claimed)
            BY <2>1, <2>2, Sizes, FS_Subset
      <2>4. Cardinality(Running) \in Nat
            BY <2>3, FS_CardinalityType
      <2> QED BY <2>1, <2>3, <2>4, Sizes, BoundsAssumption DEF IInv, Counted
<1>2. UntilLost => (flushes = 0 => Cardinality(Running) <= Concurrency + Cardinality(Workers) - 1)
      BY <1>1
<1> QED BY <1>2, IInvUntilLost, PTL

\* Whatever is lost, duplicated or requeued, no process runs more jobs at once
\* than scrape_worker_concurrency: the entry in its consumer's hand is counted.
THEOREM NoProcessIsOverloaded == Spec => []OwnCap
<1> DEFINE Roomy == \A w \in Workers : Room(w)
<1>1. Init => Roomy
      <2> SUFFICES ASSUME Init, NEW w \in Workers PROVE Room(w)
          OBVIOUS
      <2>1. Held(w) = {} /\ at[w] = "idle"
            BY DEF Init, Held, Runs
      <2> QED BY <2>1, FS_EmptySet, BoundsAssumption DEF Room
<1>2. TypeInv /\ Roomy /\ [Next]_vars => Roomy'
      BY RoomNext
<1>3. Roomy => OwnCap
      BY HeldSize, BoundsAssumption DEF Room, OwnCap
<1>4. Always => TypeInv
      BY DEF Always
<1> HIDE DEF Roomy
<1> QED BY <1>1, <1>2, <1>3, <1>4, AlwaysHolds, PTL DEF Spec

\* One step of a row: pending only once, and deleted for good.
Onward ==
    \A j \in Jobs :
        /\ row'[j] = "pending" => row[j] \in {"none", "pending"}
        /\ row'[j] = "none" => row[j] = "none"
        /\ row[j] = "gone" => row'[j] = "gone"

LEMMA OnwardNext == ASSUME Always, [Next]_vars PROVE Onward
<1> USE DEF Always, Active, Finished, Onward
<1>1. CASE UNCHANGED vars
      BY <1>1 DEF vars
<1>2. ASSUME NEW j \in Jobs, Api(j) PROVE Onward
      <2>1. j \in cancelling => row[j] # "none"
            BY DEF RowFollowsLaunch
      <2> QED BY <1>2, <2>1, ApiEffect
<1>3. CASE Flush \/ \E j \in Jobs : Ages(j) \/ Expire(j)
      BY <1>3, RedisEffect
<1>4. ASSUME NEW w \in Workers, Start(w) \/ Sigterm(w) \/ Kill(w) \/ Exit(w)
      PROVE  Onward
      BY <1>4, ProcessEffect
<1>5. ASSUME NEW w \in Workers, Consumer(w) PROVE Onward
      BY <1>5, ConsumerEffect
<1>6. ASSUME NEW w \in Workers, Sweep(w) PROVE Onward
      BY <1>6, SweepEffect
<1>7. ASSUME NEW w \in Workers, NEW j \in Jobs, Run(w, j) PROVE Onward
      BY <1>7, RunEffect
<1> QED BY <1>1, <1>2, <1>3, <1>4, <1>5, <1>6, <1>7 DEF Next

\* No late write of a run, a sweep or a cancel brings a deleted row back, and
\* none makes a row pending, that is takeable, again.
THEOREM RowsNeverReturn == Spec => [][Onward]_vars
<1>1. Always /\ [Next]_vars => [Onward]_vars
      BY OnwardNext
<1> QED BY <1>1, AlwaysHolds, PTL DEF Spec

\* One step of a claim: from one process to another only by being free between.
FreedBetween ==
    \A j \in Jobs : claim'[j] = claim[j] \/ claim[j] = NoWorker \/ claim'[j] = NoWorker

\* The three kinds of write to claims: a release by whoever, a release of them
\* all, and one claim set where none was.
Frees(c) == \A j \in Jobs : c[j] = claim[j] \/ c[j] = NoWorker

LEMMA ReleaseFrees ==
    ASSUME TypeOK, NEW w \in Workers, NEW k \in Jobs PROVE Frees(Released(w, k))
<1> QED BY DEF TypeOK, Frees, Released

LEMMA FreesFreed == ASSUME Frees(claim') PROVE FreedBetween
<1> QED BY DEF Frees, FreedBetween

LEMMA KeepsFreed == ASSUME UNCHANGED claim PROVE FreedBetween
<1> QED BY DEF FreedBetween

LEMMA SetsFreed ==
    ASSUME TypeOK, NEW w \in Workers, NEW k \in Jobs, claim[k] = NoWorker,
           claim' = [claim EXCEPT ![k] = w]
    PROVE  FreedBetween
<1> QED BY DEF TypeOK, FreedBetween

\* SET NX and the compare-and-delete of the release: no process ever takes or
\* overwrites a claim that is another's, even after a flush.
THEOREM ClaimsChangeHandsFree == Spec => [][FreedBetween]_vars
<1>1. ASSUME TypeInv, [Next]_vars PROVE FreedBetween
      <2>0. TypeOK /\ ItemInHand
            BY <1>1 DEF TypeInv
      <2>1. CASE UNCHANGED vars
            BY <2>1, KeepsFreed DEF vars
      <2>2. ASSUME NEW k \in Jobs, Api(k) PROVE FreedBetween
            BY <2>2, KeepsFreed DEF Api, Admit, Insert, Enqueue, EnqueueFails, CancelRead,
               CancelCommit, Delete, redis
      <2>3. ASSUME NEW w \in Workers, Sweep(w) PROVE FreedBetween
            BY <2>3, KeepsFreed DEF Sweep, Snapshot, ReleaseOrphans, FailStalePending,
               CloseOut, SweepEnds, Examine, Requeue, Retag
      <2>4. ASSUME NEW k \in Jobs, Ages(k) PROVE FreedBetween
            BY <2>4, KeepsFreed DEF Ages, redis
      <2>5. ASSUME NEW k \in Jobs, Expire(k) PROVE FreedBetween
            <3>1. claim' = [claim EXCEPT ![k] = NoWorker]
                  BY <2>5 DEF Expire
            <3>2. Frees(claim')
                  BY <2>0, <3>1 DEF Frees, TypeOK
            <3> QED BY <3>2, FreesFreed
      <2>6. CASE Flush
            <3>1. Frees(claim')
                  BY <2>6 DEF Flush, Frees
            <3> QED BY <3>1, FreesFreed
      <2>7. ASSUME NEW w \in Workers, Start(w) \/ Sigterm(w) \/ Kill(w) \/ Exit(w)
            PROVE  FreedBetween
            <3>1. UNCHANGED claim
                  BY <2>7 DEF Start, Sigterm, Kill, Exit, Vanish, redis
            <3> QED BY <3>1, KeepsFreed
      <2>8. ASSUME NEW w \in Workers, Consumer(w) PROVE FreedBetween
            <3>1. CASE Count(w) \/ PopNothing(w) \/ Pop(w) \/ PutBack(w) \/ Take(w)
                  <4>1. UNCHANGED claim
                        BY <3>1 DEF Count, PopNothing, Pop, PutBack, Take, redis
                  <4> QED BY <4>1, KeepsFreed
            <3>2. ASSUME Claim(w) \/ Decline(w) \/ TakeCut(w) PROVE item[w] \in Jobs
                  BY <2>0, <3>2 DEF ItemInHand, Claim, Decline, TakeCut
            <3>3. CASE Claim(w)
                  <4>1. CASE claim[item[w]] = NoWorker
                        BY <2>0, <3>2, <3>3, <4>1, SetsFreed DEF Claim
                  <4>2. CASE claim[item[w]] # NoWorker
                        BY <3>3, <4>2, KeepsFreed DEF Claim
                  <4> QED BY <4>1, <4>2
            <3>4. CASE Decline(w) \/ TakeCut(w)
                  <4>1. claim' = Released(w, item[w]) \/ claim' = claim
                        BY <3>4 DEF Decline, TakeCut
                  <4> QED BY <2>0, <3>2, <3>4, <4>1, ReleaseFrees, FreesFreed, KeepsFreed
            <3> QED BY <2>8, <3>1, <3>3, <3>4 DEF Consumer
      <2>9. ASSUME NEW w \in Workers, NEW k \in Jobs, Run(w, k) PROVE FreedBetween
            <3>1. CASE Release(w, k)
                  <4>1. claim' = Released(w, k)
                        BY <3>1 DEF Release
                  <4> QED BY <2>0, <4>1, ReleaseFrees, FreesFreed
            <3>2. CASE Reassert(w, k)
                  BY <2>0, <3>2, SetsFreed DEF Reassert
            <3>3. CASE ~Release(w, k) /\ ~Reassert(w, k)
                  <4>1. UNCHANGED claim
                        BY <2>9, <3>3 DEF Run, ReadRow, Begin, Pause, ResumeRead,
                           ResumeCommit, StopCancelled, Complete, Fail, FailUnwritten, Leave,
                           ReleaseFails, Goes, redis
                  <4> QED BY <4>1, KeepsFreed
            <3> QED BY <3>1, <3>2, <3>3
      <2> QED BY <1>1, <2>1, <2>2, <2>3, <2>4, <2>5, <2>6, <2>7, <2>8, <2>9 DEF Next
<1>2. Always /\ [Next]_vars => [FreedBetween]_vars
      BY <1>1 DEF Always
<1> QED BY <1>2, AlwaysHolds, PTL DEF Spec

\* One step of EndingsAreKept.
KeepsEndings ==
    \A j \in Jobs : row[j] \in Finished /\ row'[j] # row[j]
        => \/ row'[j] = "gone" \/ j \in cancelling
           \/ \E w \in Workers : Runs(w, j)

LEMMA KeepsEndingsNext == ASSUME Always, [Next]_vars PROVE KeepsEndings
<1> USE DEF Always, Active, Finished, KeepsEndings
<1>1. CASE UNCHANGED vars
      BY <1>1 DEF vars
<1>2. ASSUME NEW j \in Jobs, Api(j) PROVE KeepsEndings
      BY <1>2, ApiEffect
<1>3. CASE Flush \/ \E j \in Jobs : Ages(j) \/ Expire(j)
      BY <1>3, RedisEffect
<1>4. ASSUME NEW w \in Workers, Start(w) \/ Sigterm(w) \/ Kill(w) \/ Exit(w)
      PROVE  KeepsEndings
      BY <1>4, ProcessEffect
<1>5. ASSUME NEW w \in Workers, Consumer(w) PROVE KeepsEndings
      BY <1>5, ConsumerEffect
<1>6. ASSUME NEW w \in Workers, Sweep(w) PROVE KeepsEndings
      BY <1>6, SweepEffect
<1>7. ASSUME NEW w \in Workers, NEW j \in Jobs, Run(w, j) PROVE KeepsEndings
      BY <1>7, RunEffect
<1> QED BY <1>1, <1>2, <1>3, <1>4, <1>5, <1>6, <1>7 DEF Next

\* The ending of a run stays, whatever sweeps, duplicates and lost claims there
\* are: only a run still in progress, a cancel under way or a delete changes it.
THEOREM EndingsStay == Spec => EndingsAreKept
<1>1. Always /\ [Next]_vars => [KeepsEndings]_vars
      BY KeepsEndingsNext
<1> QED BY <1>1, AlwaysHolds, PTL DEF EndingsAreKept, KeepsEndings, Spec

\* One step of OwnOrphansUntouched.
LeavesOwn ==
    \A w \in Workers, j \in Jobs :
        tag[w][j] = "orphan" /\ tag'[w][j] = "out" /\ row'[j] # row[j] => ~Runs(w, j)

\* No sweep closes out a row its own process is running, even after Redis lost
\* the claim that would have spared it.
THEOREM OwnRunsAreSpared == Spec => OwnOrphansUntouched
<1>1. Always => LeavesOwn
      BY DEF Always, SweepSees, LeavesOwn
<1> QED BY <1>1, AlwaysHolds, PTL DEF OwnOrphansUntouched, LeavesOwn, Spec

\* One step of OnlyOrphansAreClosed.
Spares ==
    \A j \in Jobs : row[j] \in Active /\ row'[j] = "failed" /\ run' = run
       => \A w \in Workers : ~Runs(w, j)

LEMMA SparesNext == ASSUME IInv, [Next]_vars PROVE Spares
<1> USE DEF IInv, Always, Active, Finished, Spares
<1>1. CASE UNCHANGED vars
      BY <1>1 DEF vars
<1>2. ASSUME NEW j \in Jobs, Api(j) PROVE Spares
      BY <1>2, ApiEffect
<1>3. CASE Flush \/ \E j \in Jobs : Ages(j) \/ Expire(j)
      BY <1>3, RedisEffect
<1>4. ASSUME NEW w \in Workers, Start(w) \/ Sigterm(w) \/ Kill(w) \/ Exit(w)
      PROVE  Spares
      BY <1>4, ProcessEffect
<1>5. ASSUME NEW w \in Workers, Consumer(w) PROVE Spares
      BY <1>5, ConsumerEffect
<1>6. ASSUME NEW w \in Workers, Sweep(w) PROVE Spares
      BY <1>6, SweepEffect DEF SweepKnows
<1>7. ASSUME NEW w \in Workers, NEW j \in Jobs, Run(w, j) PROVE Spares
      BY <1>7, RunEffect
<1> QED BY <1>1, <1>2, <1>3, <1>4, <1>5, <1>6, <1>7 DEF Next

\* A sweep closes out a running or paused row only when no process runs it,
\* however old the snapshot it works from.
THEOREM SweepsCloseOrphansOnly == ASSUME NoFlush PROVE Spec => OnlyOrphansAreClosed
<1>1. IInv /\ [Next]_vars => [Spares]_vars
      BY SparesNext
<1> QED BY <1>1, IInvHolds, PTL DEF OnlyOrphansAreClosed, Spares, Spec

-----------------------------------------------------------------------------
(* The queue implements JobBoard.                                          *)

\* Under the invariant Runner[j] is the one process that runs j.
RunnerOf ==
    \A j \in Jobs :
        /\ Runner[j] \in Workers \cup {NoWorker}
        /\ \A w \in Workers : Runs(w, j) <=> Runner[j] = w

LEMMA RunnerIs == TypeInv /\ Exclusive => RunnerOf
<1> SUFFICES ASSUME TypeInv, Exclusive, NEW j \in Jobs
             PROVE  /\ Runner[j] \in Workers \cup {NoWorker}
                    /\ \A w \in Workers : Runs(w, j) <=> Runner[j] = w
    BY DEF RunnerOf
<1>1. CASE \E w \in Workers : Runs(w, j)
      <2>1. PICK w \in Workers : Runs(w, j)
            BY <1>1
      <2>2. \A v \in Workers : Runs(v, j) => v = w
            BY <2>1, OneRunnerHolds DEF OneRunner
      <2>3. Runner[j] = w
            BY <1>1, <2>1, <2>2 DEF Runner
      <2> QED BY <2>1, <2>2, <2>3
<1>2. CASE ~ \E w \in Workers : Runs(w, j)
      BY <1>2, WorkersAssumption DEF Runner
<1> QED BY <1>1, <1>2

LEMMA RunnerFrame == ASSUME run' = run PROVE Runner' = Runner
BY DEF Runner, Runs

LEMMA RunnerIsNext ==
    ASSUME ~Flush, IInv, [Next]_vars PROVE RunnerOf /\ RunnerOf'
<1>1. (TypeInv /\ Exclusive => RunnerOf) /\ (TypeInv /\ Exclusive => RunnerOf)'
      BY RunnerIs, PTL
<1> QED BY <1>1, IInvNext DEF IInv, Always

\* Runner is a function of who runs what, and nothing else moves it.
LEMMA RunnerMoves ==
    ASSUME ~Flush, IInv, [Next]_vars, NEW j \in Jobs
    PROVE  /\ (\A w \in Workers : Runs(w, j)' <=> Runs(w, j)) => Runner'[j] = Runner[j]
           /\ (\A w \in Workers : ~Runs(w, j)') => Runner'[j] = NoWorker
BY RunnerIsNext, WorkersAssumption DEF RunnerOf

LEMMA RunnerSame ==
    ASSUME ~Flush, IInv, [Next]_vars,
           \A w \in Workers, j \in Jobs : Runs(w, j)' <=> Runs(w, j)
    PROVE  Runner' = Runner
<1>1. \A j \in Jobs : Runner'[j] = Runner[j]
      BY RunnerMoves
<1> QED BY <1>1 DEF Runner

LEMMA BoardInit == Init => Board!Init
BY DEF Init, Board!Init, Runner, Runs

LEMMA BoardApi ==
    ASSUME ~Flush, IInv, [Next]_vars, NEW j \in Jobs, Api(j)
    PROVE  [Board!Next]_(Board!board)
<1>1. Runner' = Runner
      BY ApiKeepsProcess, RunnerFrame DEF process
<1>2. row \in [Jobs -> Statuses] /\ row' \in [Jobs -> Statuses]
      BY TypeNext DEF IInv, Always, TypeInv, TypeOK
<1>3. \A k \in Jobs : k # j => row'[k] = row[k]
      BY ApiEffect DEF IInv, Always
<1>4. CASE row'[j] = row[j]
      BY <1>1, <1>2, <1>3, <1>4 DEF Board!board
<1>5. CASE row[j] = "none" /\ row'[j] = "pending"
      <2>1. Board!Post(j)
            BY <1>1, <1>2, <1>3, <1>5 DEF Board!Post, Board!Set
      <2> QED BY <2>1 DEF Board!Next
<1>6. CASE j \in cancelling /\ row'[j] = "cancelled"
      <2>1. row[j] # "none" /\ row[j] # "gone"
            BY <1>6, ApiEffect DEF IInv, Always, RowFollowsLaunch, Finished
      <2>2. Board!Cancel(j)
            BY <1>1, <1>2, <1>3, <1>6, <2>1 DEF Board!Cancel, Board!Set, Board!Running,
               Board!Endings, Statuses, Active, Finished
      <2> QED BY <2>2 DEF Board!Next
<1>7. CASE row[j] \in Finished /\ row'[j] = "gone"
      <2>1. Board!Discard(j)
            BY <1>1, <1>2, <1>3, <1>7 DEF Board!Discard, Board!Set, Board!Endings, Finished
      <2> QED BY <2>1 DEF Board!Next
<1> QED BY <1>4, <1>5, <1>6, <1>7, ApiEffect DEF IInv, Always

LEMMA BoardProcess ==
    ASSUME ~Flush, IInv, [Next]_vars, NEW w \in Workers,
           Start(w) \/ Sigterm(w) \/ Kill(w) \/ Exit(w)
    PROVE  [Board!Next]_(Board!board)
<1>0. UNCHANGED row
      BY ProcessEffect DEF IInv, Always
<1>1. CASE Start(w) \/ Sigterm(w)
      BY <1>0, <1>1, RunnerFrame DEF Start, Sigterm, Board!board
<1>2. CASE Kill(w) \/ Exit(w)
      <2> DEFINE S == {j \in Jobs : Runner[j] = w}
      <2>1. \A v \in Workers, j \in Jobs : Runs(v, j)' <=> Runs(v, j) /\ v # w
            BY <1>2 DEF Kill, Exit, Vanish, Runs, IInv, Always, TypeInv, TypeOK
      <2>2. \A j \in Jobs : Runner'[j] = IF j \in S THEN NoWorker ELSE Runner[j]
            BY <2>1, RunnerIsNext, WorkersAssumption DEF RunnerOf
      <2>3. Runner' = [j \in Jobs |-> IF j \in S THEN NoWorker ELSE Runner[j]]
            BY <2>2 DEF Runner
      <2>4. Board!LetGo(w)
            BY <1>0, <2>3 DEF Board!LetGo
      <2> QED BY <2>4 DEF Board!Next
<1> QED BY <1>1, <1>2

LEMMA BoardConsumer ==
    ASSUME ~Flush, IInv, [Next]_vars, NEW w \in Workers, Consumer(w)
    PROVE  [Board!Next]_(Board!board)
<1>0. UNCHANGED row
      BY ConsumerEffect DEF IInv, Always
<1>1. CASE UNCHANGED run
      BY <1>0, <1>1, RunnerFrame DEF Board!board
<1>2. CASE ~ UNCHANGED run
      <2> DEFINE j == item[w]
      <2>1. Take(w)
            BY <1>2 DEF Consumer, Count, PopNothing, Pop, PutBack, Claim, Decline, TakeCut
      <2>2. j \in Jobs /\ InHand(w, j) /\ row[j] = "pending"
            BY <2>1 DEF Take, InHand, IInv, Always, TypeInv, ItemInHand
      <2>3. \A v \in Workers : ~Runs(v, j)
            BY <2>2 DEF IInv, Always, Exclusive, HolderClaims, OnePlace
      <2>4. \A v \in Workers, k \in Jobs :
               Runs(v, k)' <=> Runs(v, k) \/ (v = w /\ k = j)
            BY <2>1, <2>2 DEF Take, Runs, IInv, Always, TypeInv, TypeOK
      <2>5. \A k \in Jobs : Runner'[k] = IF k = j THEN w ELSE Runner[k]
            BY <2>4, RunnerIsNext, WorkersAssumption DEF RunnerOf
      <2>6. Runner' = [Runner EXCEPT ![j] = w]
            BY <2>5 DEF Runner
      <2>7. Runner[j] = NoWorker
            BY <2>2, <2>3, RunnerIsNext DEF RunnerOf
      <2>8. Board!Give(w, j)
            BY <1>0, <2>2, <2>6, <2>7 DEF Board!Give, Board!Free
      <2> QED BY <2>2, <2>8 DEF Board!Next
<1> QED BY <1>1, <1>2

LEMMA BoardSweep ==
    ASSUME ~Flush, IInv, [Next]_vars, NEW w \in Workers, Sweep(w)
    PROVE  [Board!Next]_(Board!board)
<1> DEFINE S == {j \in Jobs : row'[j] # row[j]}
<1>1. Runner' = Runner
      BY SweepEffect, RunnerFrame DEF IInv, Always
<1>2. row \in [Jobs -> Statuses] /\ row' \in [Jobs -> Statuses]
      BY TypeNext DEF IInv, Always, TypeInv, TypeOK
<1>3. \A j \in S : /\ row'[j] = "failed"
                   /\ row[j] = "pending" \/ (row[j] \in Active /\ Runner[j] = NoWorker)
      BY SweepEffect, RunnerIsNext DEF RunnerOf, IInv, Always, SweepKnows
<1>4. row' = [j \in Jobs |-> IF j \in S THEN "failed" ELSE row[j]]
      BY <1>2, <1>3
<1>5. Board!CloseOut(S)
      BY <1>1, <1>3, <1>4 DEF Board!CloseOut, Board!Free, Board!Running, Active
<1> QED BY <1>5 DEF Board!Next

LEMMA BoardRun ==
    ASSUME ~Flush, IInv, [Next]_vars, NEW w \in Workers, NEW j \in Jobs, Run(w, j)
    PROVE  [Board!Next]_(Board!board)
<1>1. row \in [Jobs -> Statuses] /\ row' \in [Jobs -> Statuses]
      BY TypeNext DEF IInv, Always, TypeInv, TypeOK
<1>2. \A v \in Workers, k \in Jobs :
         /\ Runs(v, k)' => Runs(v, k)
         /\ Runs(v, k) /\ ~Runs(v, k)' => v = w /\ k = j
      BY RunEffect DEF IInv, Always, Runs
<1>3. CASE row'[j] # row[j]
      <2>1. Runs(w, j) /\ Runs(w, j)' /\ row'[j] \in Active \cup Finished /\ row[j] # "gone"
            BY <1>3, RunEffect DEF IInv, Always
      <2>2. Runner' = Runner
            BY <1>2, <2>1, RunnerSame
      <2>3. row' = [row EXCEPT ![j] = row'[j]]
            BY <1>1, RunEffect DEF IInv, Always
      <2>4. Runner[j] # NoWorker /\ row[j] # "none"
            BY <2>1, RunnerIsNext, WorkersAssumption DEF RunnerOf, IInv, Always, RowFollowsLaunch
      <2>5. Board!Report(j, row'[j])
            BY <2>1, <2>2, <2>3, <2>4 DEF Board!Report, Board!Free, Board!Set
      <2> QED BY <2>1, <2>5 DEF Board!Next, Board!Running, Board!Endings, Active, Finished
<1>4. CASE row'[j] = row[j] /\ (Runs(w, j) => Runs(w, j)')
      <2>1. Runner' = Runner
            BY <1>2, <1>4, RunnerSame
      <2>2. row' = row
            BY <1>1, <1>4, RunEffect DEF IInv, Always
      <2> QED BY <2>1, <2>2 DEF Board!board
<1>5. CASE row'[j] = row[j] /\ Runs(w, j) /\ ~Runs(w, j)'
      <2>1. row' = row
            BY <1>1, <1>5, RunEffect DEF IInv, Always
      <2>2. \A v \in Workers, k \in Jobs :
               Runs(v, k)' <=> Runs(v, k) /\ ~(v = w /\ k = j)
            BY <1>2, <1>5
      <2>3. Runner[j] = w
            BY <1>5, RunnerIsNext DEF RunnerOf
      <2>4. \A k \in Jobs : Runner'[k] = IF k \in {j} THEN NoWorker ELSE Runner[k]
            BY <2>2, <2>3, RunnerIsNext, WorkersAssumption DEF RunnerOf
      <2>5. Runner' = [k \in Jobs |-> IF k \in {j} THEN NoWorker ELSE Runner[k]]
            BY <2>4 DEF Runner
      <2>6. {j} \in SUBSET {k \in Jobs : Runner[k] = w}
            BY <2>3
      <2>7. Board!LetGo(w)
            BY <2>1, <2>5, <2>6 DEF Board!LetGo
      <2> QED BY <2>7 DEF Board!Next
<1> QED BY <1>3, <1>4, <1>5

LEMMA BoardNext ==
    ASSUME IInv, [Next]_vars PROVE [Board!Next]_(Board!board)
<1>1. CASE UNCHANGED vars
      BY <1>1, RunnerFrame DEF vars, Board!board
<1>2. CASE Flush \/ \E j \in Jobs : Ages(j) \/ Expire(j)
      BY <1>2, RedisEffect, RunnerFrame DEF Board!board
<1> QED BY <1>1, <1>2, BoardApi, BoardProcess, BoardConsumer, BoardSweep, BoardRun
        DEF Next

\* The queue implements the promise of JobBoard: every step of rows, claims,
\* list and processes is a step of the board or leaves it alone.
THEOREM QueueKeepsThePromise == ASSUME NoFlush PROVE Spec => KeepsThePromise
<1>1. IInv /\ [Next]_vars => [Board!Next]_(Board!board)
      BY BoardNext
<1> QED BY <1>1, BoardInit, IInvHolds, PTL DEF KeepsThePromise, Board!Spec, Spec

\* However often Redis may lose its data: all of this holds until the first
\* time, the step of the loss included.
THEOREM UntilRedisIsLost ==
    Spec => /\ [](flushes = 0 => OneRunner /\ ClaimCoversRun)
            /\ [][flushes = 0 => BeginsOnce /\ Spares /\ [Board!Next]_(Board!board)]_vars
<1>1. UntilLost => (flushes = 0 => OneRunner /\ ClaimCoversRun)
      BY OneRunnerHolds DEF UntilLost, Lossless, IInv, Always
<1>2. UntilLost /\ [Next]_vars =>
         [flushes = 0 => BeginsOnce /\ Spares /\ [Board!Next]_(Board!board)]_vars
      BY SparesNext, BoardNext DEF UntilLost, Lossless, IInv, NotBegun, BeginsOnce
<1> QED BY <1>1, <1>2, IInvUntilLost, PTL DEF Spec
=============================================================================
