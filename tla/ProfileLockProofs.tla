------------------------- MODULE ProfileLockProofs -------------------------
(***************************************************************************)
(* What holds of ProfileLock for any processes, jobs and numbers, any TTL   *)
(* longer than the refresh interval, and any number of faults of any kind.  *)
(***************************************************************************)
EXTENDS ProfileLock, TLAPS

(* Types.                                                                   *)

JobType == [at : {"closed", "opening", "open", "leaked", "lost", "release", "delete"},
            account : Accounts \cup {None}, token : Tokens \cup {None},
            fallback : BOOLEAN, lapsed : BOOLEAN]
TaskType == [at : {"off", "sleep", "pass"}, nap : 0..Interval,
             todo : SUBSET Items, item : Items \cup {None}]

\* What a job's browser is opened and released with.
Shaped(j) ==
  /\ job[j].at = "closed" => job[j] = Closed
  /\ job[j].at # "closed" => /\ job[j].account \in Accounts
                             /\ job[j].fallback => job[j].token = None
                             /\ ~job[j].fallback => \E n \in 1..MaxOpens : job[j].token = <<j, n>>
  /\ job[j].at = "delete" => ~job[j].fallback

TypeInv == /\ TypeOK
           /\ \A j \in Jobs : Shaped(j)
           /\ \A p \in Processes : refresher[p].at # "pass" => refresher[p].item = None

LEMMA Terms ==
    /\ Sleep \in TaskType /\ Off \in TaskType /\ Closed \in JobType
    /\ Sleep.at = "sleep" /\ Sleep.nap = Interval /\ Sleep.item = None
    /\ Off.at = "off" /\ Off.item = None /\ Off.nap = 0
    /\ Closed.at = "closed" /\ ~Closed.fallback /\ ~Closed.lapsed /\ Closed.token = None
    /\ Closed.account = None
<1>1. Off \in TaskType /\ Off.at = "off" /\ Off.item = None /\ Off.nap = 0
      BY Times DEF Off, TaskType
<1>2. Sleep \in TaskType /\ Sleep.at = "sleep" /\ Sleep.nap = Interval /\ Sleep.item = None
      BY Times DEF Sleep, TaskType
<1>3. Closed \in JobType  BY DEF Closed, JobType
<1>4. /\ Closed.at = "closed" /\ ~Closed.fallback /\ ~Closed.lapsed /\ Closed.token = None
      /\ Closed.account = None
      BY DEF Closed
<1> QED BY <1>1, <1>2, <1>3, <1>4

LEMMA Typed ==
    ASSUME TypeInv
    PROVE  /\ job \in [Jobs -> JobType] /\ refresher \in [Processes -> TaskType]
           /\ \A j \in Jobs : HomeOf[j] \in Processes
BY Homes DEF TypeInv, TypeOK, JobType, TaskType

LEMMA RestType ==
    ASSUME NEW p, NEW todo \in SUBSET Items
    PROVE  /\ Rest(p, todo) \in TaskType /\ LoopTop(p) \in TaskType
           /\ Rest(p, todo).item = None /\ LoopTop(p).item = None
           /\ \A item \in Items : Pass(todo, item) \in TaskType /\ Pass(todo, item).at = "pass"
<1>1. \A item \in Items \cup {None} : Pass(todo, item) \in TaskType /\ Pass(todo, item).item = item
      BY Times DEF Pass, TaskType
<1>2. LoopTop(p) \in TaskType /\ LoopTop(p).item = None  BY Terms DEF LoopTop
<1>3. \A item : Pass(todo, item).at = "pass"  BY DEF Pass
<1> QED BY <1>1, <1>2, <1>3 DEF Rest

LEMMA TypeInit == Init => TypeInv
<1> SUFFICES ASSUME Init PROVE TypeInv OBVIOUS
<1>1. TypeOK  BY Terms, Times, Bounds DEF Init, TypeOK, JobType, TaskType
<1>2. \A j \in Jobs : Shaped(j)  BY DEF Init, Shaped, Closed
<1>3. \A p \in Processes : refresher[p].item = None  BY Terms DEF Init
<1> QED BY <1>1, <1>2, <1>3 DEF TypeInv

\* An opening draws a token nobody had.
LEMMA OpeningType ==
    ASSUME TypeInv, NEW j \in Jobs, NEW a \in Accounts, NEW t \in {None, Drawn(j)}, NEW fb \in BOOLEAN,
           fb <=> t = None, May(j), Opening(j, a, t, fb)
    PROVE  /\ Drawn(j) \in Tokens /\ Drawn(j) # None
           /\ job' \in [Jobs -> JobType] /\ opens' \in [Jobs -> 0..MaxOpens]
           /\ \A k \in Jobs : Shaped(k)'
           /\ job'[j] = [at |-> "opening", account |-> a, token |-> t, fallback |-> fb, lapsed |-> FALSE]
           /\ \A k \in Jobs \ {j} : job'[k] = job[k]
<1>1. opens[j] + 1 \in 1..MaxOpens /\ opens \in [Jobs -> 0..MaxOpens]
      BY Bounds DEF TypeInv, TypeOK, May
<1>2. Drawn(j) \in Tokens  BY <1>1 DEF Drawn, Tokens
<1>3. Drawn(j) # None  BY <1>1, NoneIsNone, Bounds DEF Drawn
<1>4. job' = [job EXCEPT ![j] = [at |-> "opening", account |-> a, token |-> t, fallback |-> fb, lapsed |-> FALSE]]
      BY DEF Opening
<1>5. /\ job'[j] = [at |-> "opening", account |-> a, token |-> t, fallback |-> fb, lapsed |-> FALSE]
      /\ \A k \in Jobs \ {j} : job'[k] = job[k]
      /\ job' \in [Jobs -> JobType]
      BY <1>2, <1>4, Typed DEF JobType
<1>6. opens' \in [Jobs -> 0..MaxOpens]  BY <1>1 DEF Opening
<1>7. Shaped(j)'  BY <1>1, <1>3, <1>5 DEF Shaped, Drawn
<1>8. ASSUME NEW k \in Jobs \ {j} PROVE Shaped(k)'  BY <1>5 DEF TypeInv, Shaped
<1> QED BY <1>2, <1>3, <1>5, <1>6, <1>7, <1>8

LEMMA SetNXType ==
    ASSUME TypeInv, NEW j \in Jobs, NEW a \in Accounts, Drawn(j) \in Tokens, SetNX(j, a)
    PROVE  /\ lock' \in [Accounts -> Tokens \cup {None}] /\ ttl' \in [Accounts -> 0..TTL]
           /\ clean' \subseteq Jobs
BY Times DEF SetNX, Touched, TypeInv, TypeOK

\* A job that only moves on.
LEMMA MovesType ==
    ASSUME TypeInv, NEW j \in Jobs, NEW from, NEW to \in {"open", "release", "leaked", "lost"},
           from # "closed", Moves(j, from, to), faults' \in 0..MaxFaults
    PROVE  /\ TypeInv'
           /\ job'[j] = [job[j] EXCEPT !.at = to] /\ \A k \in Jobs \ {j} : job'[k] = job[k]
<1>1. job' = [job EXCEPT ![j].at = to] /\ job \in [Jobs -> JobType]  BY Typed DEF Moves
<1>2. /\ job' \in [Jobs -> JobType] /\ job'[j] = [job[j] EXCEPT !.at = to]
      /\ \A k \in Jobs \ {j} : job'[k] = job[k]
      BY <1>1 DEF JobType
<1>3. /\ job'[j].at = to /\ job'[j].account = job[j].account /\ job'[j].token = job[j].token
      /\ job'[j].fallback = job[j].fallback
      BY <1>1, <1>2 DEF JobType
<1>4. Shaped(j)'  BY <1>3 DEF Moves, TypeInv, Shaped
<1>5. \A k \in Jobs \ {j} : Shaped(k)'  BY <1>2 DEF TypeInv, Shaped
<1>6. TypeOK'  BY <1>2 DEF TypeInv, TypeOK, JobType, Moves, redis, memory, modes
<1> QED BY <1>2, <1>4, <1>5, <1>6 DEF TypeInv, Moves

LEMMA TypeRefresh == ASSUME TypeInv, NEW p \in Processes, Refresh(p) PROVE TypeInv'
<1>1. ASSUME NEW t \in TaskType, t.at # "pass" => t.item = None,
             refresher' = [refresher EXCEPT ![p] = t],
             ttl' \in [Accounts -> 0..TTL], clean' \subseteq clean,
             UNCHANGED <<lock, memory, job, opens, weather>>
      PROVE  TypeInv'
  <2>1. refresher' \in [Processes -> TaskType]  BY <1>1, Typed
  <2>2. \A q \in Processes : refresher'[q].at # "pass" => refresher'[q].item = None
        BY <1>1, Typed DEF TypeInv
  <2>3. \A j \in Jobs : Shaped(j)'  BY <1>1 DEF TypeInv, Shaped
  <2>4. TypeOK'  BY <1>1, <2>1 DEF TypeInv, TypeOK, TaskType, memory, weather, modes
  <2> QED BY <2>2, <2>3, <2>4 DEF TypeInv
<1>2. refresher[p] \in TaskType  BY Typed
<1>3. CASE Wake(p)
  <2>1. {<<a, profile_locks[p][a]>> : a \in Holding(p)} \in SUBSET Items
        BY DEF Holding, Items, TypeInv, TypeOK
  <2> QED BY <1>1, <1>3, <2>1, RestType DEF Wake, redis, TypeInv, TypeOK
<1>4. CASE RefreshGet(p)
  <2>1. PICK i \in refresher[p].todo :
          refresher' = [refresher EXCEPT ![p] =
            IF lock[i[1]] = i[2] THEN Pass(@.todo \ {i}, i) ELSE Rest(p, @.todo \ {i})]
        BY <1>4 DEF RefreshGet
  <2>2. i \in Items /\ refresher[p].todo \ {i} \in SUBSET Items  BY <1>2 DEF TaskType
  <2>3. UNCHANGED <<redis, memory, job, opens, weather>>  BY <1>4 DEF RefreshGet
  <2>4. ttl' \in [Accounts -> 0..TTL] /\ clean' \subseteq clean /\ lock' = lock
        BY <2>3 DEF redis, TypeInv, TypeOK
  <2>5. CASE lock[i[1]] = i[2]
    <3>1. refresher' = [refresher EXCEPT ![p] = Pass(refresher[p].todo \ {i}, i)]  BY <2>1, <2>5
    <3> QED BY <1>1, <2>2, <2>3, <2>4, <3>1, RestType
  <2>6. CASE lock[i[1]] # i[2]
    <3>1. refresher' = [refresher EXCEPT ![p] = Rest(p, refresher[p].todo \ {i})]  BY <2>1, <2>6
    <3> QED BY <1>1, <2>2, <2>3, <2>4, <3>1, RestType
  <2> QED BY <2>5, <2>6
<1>5. CASE RefreshExpire(p)
  <2>1. refresher' = [refresher EXCEPT ![p] = Rest(p, refresher[p].todo)]
        /\ UNCHANGED <<memory, job, opens, weather>>
        BY <1>5 DEF RefreshExpire
  <2>2. ttl' \in [Accounts -> 0..TTL] /\ clean' \subseteq clean /\ lock' = lock
        BY <1>2, <1>5, Times DEF RefreshExpire, redis, Touched, TypeInv, TypeOK, TaskType, Items
  <2>3. refresher[p].todo \in SUBSET Items  BY <1>2 DEF TaskType
  <2> QED BY <1>1, <2>1, <2>2, <2>3, RestType
<1>6. CASE PassFails(p)
  <2>1. LoopTop(p) \in TaskType /\ LoopTop(p).item = None  BY RestType
  <2> QED BY <1>1, <1>6, <2>1 DEF PassFails, redis, TypeInv, TypeOK
<1> QED BY <1>3, <1>4, <1>5, <1>6 DEF Refresh

LEMMA TypeOpens ==
    ASSUME TypeInv, NEW j \in Jobs, NEW a \in Accounts,
           Acquire(j, a) \/ AcquireFallback(j, a) \/ AcquireReplyLost(j, a)
    PROVE  TypeInv'
<1>0. HomeOf[j] \in Processes  BY Typed
<1>1. CASE Acquire(j, a)
  <2>1. /\ May(j) /\ SetNX(j, a) /\ Opening(j, a, Drawn(j), FALSE)
        /\ profile_locks' = [profile_locks EXCEPT ![HomeOf[j]][a] = Drawn(j)]
        /\ refresher' = Ensured(HomeOf[j]) /\ UNCHANGED <<in_use, weather>>
        BY <1>1 DEF Acquire
  <2>2. Drawn(j) # None  BY <2>1, NoneIsNone, Bounds DEF Drawn, May, TypeInv, TypeOK
  <2>3. /\ Drawn(j) \in Tokens /\ job' \in [Jobs -> JobType] /\ opens' \in [Jobs -> 0..MaxOpens]
        /\ \A k \in Jobs : Shaped(k)'
        BY <2>1, <2>2, OpeningType
  <2>4. /\ refresher' \in [Processes -> TaskType]
        /\ \A p \in Processes : refresher'[p].at # "pass" => refresher'[p].item = None
        BY <1>0, <2>1, Typed, Terms DEF Ensured, TypeInv
  <2>5. profile_locks' \in [Processes -> [Accounts -> Tokens \cup {None}]]
        BY <1>0, <2>1, <2>3 DEF TypeInv, TypeOK
  <2>6. /\ lock' \in [Accounts -> Tokens \cup {None}] /\ ttl' \in [Accounts -> 0..TTL]
        /\ clean' \subseteq Jobs
        BY <2>1, <2>3, SetNXType
  <2> QED BY <2>1, <2>3, <2>4, <2>5, <2>6 DEF TypeInv, TypeOK, JobType, TaskType, weather, modes
<1>2. ASSUME FallBack(j, a), May(j),
             lock' \in [Accounts -> Tokens \cup {None}], ttl' \in [Accounts -> 0..TTL],
             clean' \subseteq Jobs, faults' \in 0..MaxFaults,
             UNCHANGED <<profile_locks, refresher, modes>>
      PROVE  TypeInv'
  <2>1. in_use' = [in_use EXCEPT ![HomeOf[j]] = @ \cup {a}] /\ Opening(j, a, None, TRUE)
        BY <1>2 DEF FallBack
  <2>2. /\ job' \in [Jobs -> JobType] /\ opens' \in [Jobs -> 0..MaxOpens]
        /\ \A k \in Jobs : Shaped(k)'
        BY <1>2, <2>1, OpeningType
  <2>3. in_use' \in [Processes -> SUBSET Accounts]  BY <1>0, <2>1 DEF TypeInv, TypeOK
  <2> QED BY <1>2, <2>2, <2>3 DEF TypeInv, TypeOK, JobType, TaskType, modes
<1>3. CASE AcquireFallback(j, a)
      BY <1>2, <1>3 DEF AcquireFallback, redis, weather, TypeInv, TypeOK
<1>4. CASE AcquireReplyLost(j, a)
  <2>1. May(j) /\ SetNX(j, a) /\ FallBack(j, a) /\ Fault("reply")
        /\ UNCHANGED <<profile_locks, refresher, modes>>
        BY <1>4 DEF AcquireReplyLost
  <2>2. Drawn(j) \in Tokens  BY <2>1, Bounds DEF Drawn, Tokens, May, TypeInv, TypeOK
  <2>3. faults' \in 0..MaxFaults  BY <2>1, Bounds DEF Fault, TypeInv, TypeOK
  <2>4. /\ lock' \in [Accounts -> Tokens \cup {None}] /\ ttl' \in [Accounts -> 0..TTL]
        /\ clean' \subseteq Jobs
        BY <2>1, <2>2, SetNXType
  <2> QED BY <1>2, <2>1, <2>3, <2>4
<1> QED BY <1>1, <1>3, <1>4

LEMMA TypeCloses == ASSUME TypeInv, NEW j \in Jobs, Release(j) \/ Delete(j) PROVE TypeInv'
<1>0. /\ HomeOf[j] \in Processes /\ job \in [Jobs -> JobType] /\ Closed \in JobType
      BY Typed, Terms
<1>1. ASSUME job' = [job EXCEPT ![j] = Closed] \/ (~job[j].fallback /\ job[j].at = "release" /\ job' = [job EXCEPT ![j].at = "delete"])
      PROVE  job' \in [Jobs -> JobType] /\ \A k \in Jobs : Shaped(k)'
  <2>1. job' \in [Jobs -> JobType] /\ \A k \in Jobs \ {j} : job'[k] = job[k]
        BY <1>0, <1>1 DEF JobType
  <2>2. \A k \in Jobs \ {j} : Shaped(k)'  BY <2>1 DEF TypeInv, Shaped
  <2>3. CASE job' = [job EXCEPT ![j] = Closed]
    <3>1. job'[j] = Closed  BY <1>0, <2>3
    <3> QED BY <2>1, <2>2, <3>1, Terms DEF Shaped
  <2>4. CASE ~job[j].fallback /\ job[j].at = "release" /\ job' = [job EXCEPT ![j].at = "delete"]
    <3>1. /\ job'[j].at = "delete" /\ job'[j].account = job[j].account
          /\ job'[j].token = job[j].token /\ job'[j].fallback = job[j].fallback
          BY <1>0, <2>4 DEF JobType
    <3>2. Shaped(j)'  BY <2>4, <3>1 DEF TypeInv, Shaped
    <3> QED BY <2>1, <2>2, <3>2
  <2> QED BY <1>1, <2>3, <2>4
<1>2. CASE Release(j)
  <2>1. /\ job' \in [Jobs -> JobType] /\ \A k \in Jobs : Shaped(k)'
        BY <1>1, <1>2 DEF Release
  <2>0. job[j].account \in Accounts  BY <1>2 DEF Release, TypeInv, Shaped
  <2>2. /\ in_use' \in [Processes -> SUBSET Accounts]
        /\ profile_locks' \in [Processes -> [Accounts -> Tokens \cup {None}]]
        /\ clean' \subseteq Jobs
    <3>1. in_use \in [Processes -> SUBSET Accounts] /\ clean \subseteq Jobs
          /\ profile_locks \in [Processes -> [Accounts -> Tokens \cup {None}]]
          BY DEF TypeInv, TypeOK
    <3>2. CASE job[j].fallback
          BY <1>0, <1>2, <3>1, <3>2 DEF Release
    <3>3. CASE ~job[j].fallback
      <4>1. Forget(j) /\ UNCHANGED in_use /\ clean' \subseteq Jobs  BY <1>2, <3>1, <3>3 DEF Release
      <4> QED BY <1>0, <2>0, <3>1, <4>1 DEF Forget
    <3> QED BY <3>2, <3>3
  <2>3. UNCHANGED <<lock, ttl, refresher, opens, weather>>  BY <1>2 DEF Release
  <2> QED BY <2>1, <2>2, <2>3 DEF TypeInv, TypeOK, JobType, weather, modes
<1>3. CASE Delete(j)
  <2>1. /\ job' \in [Jobs -> JobType] /\ \A k \in Jobs : Shaped(k)'
        BY <1>1, <1>3 DEF Delete
  <2>2. /\ lock' \in [Accounts -> Tokens \cup {None}] /\ ttl' \in [Accounts -> 0..TTL]
        /\ clean' \subseteq Jobs
        BY <1>3, Times DEF Delete, Touched, TypeInv, TypeOK
  <2>3. UNCHANGED <<memory, refresher, opens, weather>>  BY <1>3 DEF Delete
  <2> QED BY <2>1, <2>2, <2>3 DEF TypeInv, TypeOK, JobType, memory, weather, modes
<1> QED BY <1>2, <1>3

\* A lease that lapses changes nothing else of the job.
LEMMA LapsedType ==
    ASSUME TypeInv, NEW S, job' = Lapsed(S)
    PROVE  /\ job' \in [Jobs -> JobType] /\ \A k \in Jobs : Shaped(k)'
           /\ \A k \in Jobs :
                /\ job'[k].at = job[k].at /\ job'[k].account = job[k].account
                /\ job'[k].token = job[k].token /\ job'[k].fallback = job[k].fallback
                /\ job'[k].lapsed <=> \/ job[k].lapsed
                                      \/ /\ job[k].at \in Using /\ job[k].account \in S
                                         /\ job[k].token # None /\ lock[job[k].account] = job[k].token
<1>0. job \in [Jobs -> JobType]  BY Typed
<1>1. ASSUME NEW k \in Jobs
      PROVE  /\ job'[k].at = job[k].at /\ job'[k].account = job[k].account
             /\ job'[k].token = job[k].token /\ job'[k].fallback = job[k].fallback
             /\ job'[k].lapsed <=> \/ job[k].lapsed
                                   \/ /\ job[k].at \in Using /\ job[k].account \in S
                                      /\ job[k].token # None /\ lock[job[k].account] = job[k].token
      BY <1>0 DEF Lapsed, JobType
<1>2. job' \in [Jobs -> JobType]
  <2>1. ASSUME NEW k \in Jobs PROVE job'[k] \in JobType  BY <1>0 DEF Lapsed, JobType
  <2> QED BY <2>1 DEF Lapsed
<1>3. ASSUME NEW k \in Jobs PROVE Shaped(k)'
  <2>1. CASE job[k].at = "closed"
    <3>1. job'[k] = job[k]  BY <2>1 DEF Lapsed, Using
    <3> QED BY <2>1, <3>1 DEF TypeInv, Shaped
  <2>2. CASE job[k].at # "closed"
    <3>1. Shaped(k)  BY DEF TypeInv
    <3> QED BY <1>1, <2>2, <3>1 DEF Shaped
  <2> QED BY <2>1, <2>2
<1> QED BY ONLY <1>1, <1>2, <1>3

LEMMA TypeWorld ==
    ASSUME TypeInv, Tick \/ Flush \/ \E p \in Processes : Crash(p) \/ Cut(p) \/ Mended(p) \/ Stall(p) \/ Unstall(p)
    PROVE  TypeInv'
<1>1. CASE Tick
  <2>1. job' \in [Jobs -> JobType] /\ \A k \in Jobs : Shaped(k)'  BY <1>1, LapsedType DEF Tick
  <2>2. /\ refresher' \in [Processes -> TaskType]
        /\ \A p \in Processes : refresher'[p].at = refresher[p].at /\ refresher'[p].item = refresher[p].item
    <3>1. refresher' = [p \in Processes |->
            IF refresher[p].nap > 0 THEN [refresher[p] EXCEPT !.nap = @ - 1] ELSE refresher[p]]
          BY <1>1 DEF Tick
    <3>2. ASSUME NEW p \in Processes
          PROVE  /\ refresher'[p] \in TaskType
                 /\ refresher'[p].at = refresher[p].at /\ refresher'[p].item = refresher[p].item
          BY <3>1, Typed, Times DEF TaskType
    <3> QED BY <3>1, <3>2
  <2>3. lock' \in [Accounts -> Tokens \cup {None}] /\ ttl' \in [Accounts -> 0..TTL]
        BY <1>1, Times DEF Tick, TypeInv, TypeOK
  <2>4. UNCHANGED <<clean, memory, opens, weather>>  BY <1>1 DEF Tick
  <2> QED BY <2>1, <2>2, <2>3, <2>4 DEF TypeInv, TypeOK, JobType, TaskType, memory, weather, modes
<1>2. CASE Flush
  <2>1. job' \in [Jobs -> JobType] /\ \A k \in Jobs : Shaped(k)'  BY <1>2, LapsedType DEF Flush
  <2>2. faults' \in 0..MaxFaults  BY <1>2, Bounds DEF Flush, Fault, TypeInv, TypeOK
  <2>3. /\ lock' \in [Accounts -> Tokens \cup {None}] /\ ttl' \in [Accounts -> 0..TTL]
        /\ clean' \subseteq Jobs /\ disturbed' \subseteq Processes
        BY <1>2, Times DEF Flush
  <2>4. UNCHANGED <<memory, refresher, opens, cut, stalled>>  BY <1>2 DEF Flush
  <2> QED BY <2>1, <2>2, <2>3, <2>4 DEF TypeInv, TypeOK, JobType, TaskType, memory
<1>3. ASSUME NEW p \in Processes, Crash(p) PROVE TypeInv'
  <2>1. job' = [j \in Jobs |-> IF HomeOf[j] = p THEN Closed ELSE job[j]]  BY <1>3 DEF Crash
  <2>2. job' \in [Jobs -> JobType]  BY <2>1, Typed, Terms
  <2>3. \A j \in Jobs : Shaped(j)'  BY <2>1, Terms DEF TypeInv, Shaped
  <2>4. /\ refresher' \in [Processes -> TaskType]
        /\ \A q \in Processes : refresher'[q].at # "pass" => refresher'[q].item = None
        BY <1>3, Typed, Terms DEF Crash, TypeInv
  <2>5. /\ profile_locks' \in [Processes -> [Accounts -> Tokens \cup {None}]]
        /\ in_use' \in [Processes -> SUBSET Accounts]
        /\ clean' \subseteq Jobs /\ stalled' \subseteq Processes
        BY <1>3 DEF Crash, TypeInv, TypeOK
  <2>6. faults' \in 0..MaxFaults  BY <1>3, Bounds DEF Crash, Fault, TypeInv, TypeOK
  <2>7. UNCHANGED <<lock, ttl, opens, cut, disturbed>>  BY <1>3 DEF Crash
  <2> QED BY <2>2, <2>3, <2>4, <2>5, <2>6, <2>7 DEF TypeInv, TypeOK, JobType, TaskType
<1>4. ASSUME NEW p \in Processes, Cut(p) \/ Mended(p) \/ Stall(p) \/ Unstall(p) PROVE TypeInv'
  <2>1. UNCHANGED <<redis, memory, refresher, job, opens>>
        BY <1>4 DEF Cut, Mended, Stall, Unstall, Befalls, Passes
  <2>2. /\ cut' \subseteq Processes /\ stalled' \subseteq Processes
        /\ disturbed' \subseteq Processes /\ faults' \in 0..MaxFaults
        BY <1>4, Bounds DEF Cut, Mended, Stall, Unstall, Befalls, Passes, Fault, TypeInv, TypeOK
  <2>3. \A j \in Jobs : Shaped(j)'  BY <2>1 DEF TypeInv, Shaped
  <2> QED BY <2>1, <2>2, <2>3 DEF TypeInv, TypeOK, redis, memory
<1> QED BY <1>1, <1>2, <1>3, <1>4

LEMMA TypeNext == ASSUME TypeInv, [Next]_vars PROVE TypeInv'
<1>1. CASE UNCHANGED vars
  <2>1. \A j \in Jobs : Shaped(j)'  BY <1>1 DEF vars, TypeInv, Shaped
  <2> QED BY <1>1, <2>1 DEF vars, redis, memory, weather, modes, TypeInv, TypeOK
<1>2. ASSUME NEW j \in Jobs, JobStep(j) PROVE TypeInv'
  <2>1. ASSUME NEW a \in Accounts, Acquire(j, a) \/ AcquireFallback(j, a) \/ AcquireReplyLost(j, a)
        PROVE TypeInv'
        BY <2>1, TypeOpens
  <2>2. CASE Launched(j) \/ LaunchFails(j) \/ CloseContext(j) \/ Stopped(j)
        BY <2>2, MovesType DEF Launched, LaunchFails, CloseContext, Stopped, TypeInv, TypeOK
  <2>3. CASE SetupFails(j)
    <3>1. faults' \in 0..MaxFaults  BY <2>3, Bounds DEF SetupFails, Fault, TypeInv, TypeOK
    <3> QED BY <2>3, <3>1, MovesType DEF SetupFails
  <2>4. CASE Release(j) \/ Delete(j)  BY <2>4, TypeCloses
  <2> QED BY <1>2, <2>1, <2>2, <2>3, <2>4 DEF JobStep
<1> QED BY <1>1, <1>2, TypeRefresh, TypeWorld DEF Next

\* Every variable keeps its type, through any faults.
THEOREM TypeCorrect == Spec => []TypeOK
<1>1. Spec => []TypeInv  BY TypeInit, TypeNext, PTL DEF Spec
<1> QED BY <1>1, PTL DEF TypeInv

-----------------------------------------------------------------------------
(* The guard.                                                               *)

\* A browser opened through Redis has its lock, or its lease has lapsed.
Held == \A j \in Jobs :
  job[j].at \in Using /\ ~job[j].fallback /\ ~job[j].lapsed => lock[job[j].account] = job[j].token

\* A WATCH that saw no write still sees its own token, or nothing.
Watching == \A j \in clean :
  job[j].at = "delete" /\ lock[job[j].account] \in {job[j].token, None}

Without(j) == job[j].at # "closed" /\ job[j].fallback

\* A process's own set holds the profiles it opened without Redis, each of them once.
OwnSet == \A j \in Jobs : Without(j) =>
  /\ job[j].account \in in_use[HomeOf[j]]
  /\ \A k \in Jobs : Without(k) /\ HomeOf[k] = HomeOf[j] /\ job[k].account = job[j].account => k = j

GuardInv == Held /\ Watching /\ OwnSet

LEMMA Owns ==
    ASSUME TypeInv, NEW j \in Jobs, job[j].at # "closed", ~job[j].fallback
    PROVE  /\ job[j].token # None /\ job[j].account \in Accounts
           /\ \A k \in Jobs : job[k].at # "closed" /\ ~job[k].fallback /\ job[k].token = job[j].token => k = j
<1>1. PICK n \in 1..MaxOpens : job[j].token = <<j, n>>  BY DEF TypeInv, Shaped
<1>2. job[j].token # None  BY <1>1, NoneIsNone, Bounds
<1>3. ASSUME NEW k \in Jobs, job[k].at # "closed", ~job[k].fallback, job[k].token = job[j].token PROVE k = j
  <2>1. PICK m \in 1..MaxOpens : job[k].token = <<k, m>>  BY <1>3 DEF TypeInv, Shaped
  <2> QED BY <1>1, <1>3, <2>1
<1> QED BY <1>2, <1>3 DEF TypeInv, Shaped

LEMMA GuardInit == Init => GuardInv
BY Terms DEF Init, GuardInv, Held, Watching, OwnSet, Without, Using

\* A key set with NX takes no lock away.
LEMMA GuardSetNX ==
    ASSUME TypeInv, GuardInv, NEW j \in Jobs, NEW a \in Accounts, job[j].at = "closed", SetNX(j, a),
           \A k \in Jobs \ {j} : job'[k] = job[k]
    PROVE  /\ lock'[a] = Drawn(j) /\ lock[a] = None
           /\ \A k \in Jobs \ {j} : job[k].at \in Using /\ ~job[k].fallback /\ ~job[k].lapsed
                => job[k].account # a /\ lock'[job[k].account] = job[k].token
           /\ Watching'
<1>1. /\ lock \in [Accounts -> Tokens \cup {None}] /\ lock[a] = None
      /\ lock' = [lock EXCEPT ![a] = Drawn(j)]
      /\ clean' = clean \ {k \in Jobs : job[k].account = a}
      BY DEF SetNX, Touched, TypeInv, TypeOK
<1>2. ASSUME NEW k \in Jobs \ {j}, job[k].at \in Using, ~job[k].fallback, ~job[k].lapsed
      PROVE  job[k].account # a /\ lock'[job[k].account] = job[k].token
  <2>1. job[k].token # None /\ job[k].account \in Accounts  BY <1>2, Owns DEF Using
  <2>2. lock[job[k].account] = job[k].token  BY <1>2 DEF GuardInv, Held
  <2> QED BY <1>1, <2>1, <2>2
<1>3. ASSUME NEW k \in clean'
      PROVE  job'[k].at = "delete" /\ lock'[job'[k].account] \in {job'[k].token, None}
  <2>1. k \in clean /\ k \in Jobs /\ job[k].account # a  BY <1>1, <1>3 DEF TypeInv, TypeOK
  <2>2. job[k].at = "delete" /\ lock[job[k].account] \in {job[k].token, None}
        BY <2>1 DEF GuardInv, Watching
  <2>3. k # j /\ job[k].account \in Accounts  BY <2>1, <2>2 DEF TypeInv, Shaped
  <2> QED BY <1>1, <2>1, <2>2, <2>3
<1> QED BY <1>1, <1>2, <1>3 DEF Watching

LEMMA GuardOpens ==
    ASSUME TypeInv, GuardInv, NEW j \in Jobs, NEW a \in Accounts,
           Acquire(j, a) \/ AcquireFallback(j, a) \/ AcquireReplyLost(j, a)
    PROVE  GuardInv'
<1>1. May(j) /\ job[j].at = "closed" /\ HomeOf[j] \in Processes
      BY Typed DEF Acquire, AcquireFallback, AcquireReplyLost, May
<1>2. Drawn(j) # None  BY <1>1, NoneIsNone, Bounds DEF Drawn, May, TypeInv, TypeOK
<1>3. CASE Acquire(j, a)
  <2>1. SetNX(j, a) /\ Opening(j, a, Drawn(j), FALSE) /\ in_use' = in_use  BY <1>3 DEF Acquire
  <2>2. /\ job'[j] = [at |-> "opening", account |-> a, token |-> Drawn(j), fallback |-> FALSE, lapsed |-> FALSE]
        /\ \A k \in Jobs \ {j} : job'[k] = job[k]
        BY <1>1, <1>2, <2>1, OpeningType
  <2>3. Held'  BY <1>1, <2>1, <2>2, GuardSetNX DEF Held
  <2>4. OwnSet'  BY <2>1, <2>2 DEF GuardInv, OwnSet, Without
  <2> QED BY <1>1, <2>1, <2>2, <2>3, <2>4, GuardSetNX DEF GuardInv
<1>4. ASSUME FallBack(j, a)
      PROVE  /\ job'[j] = [at |-> "opening", account |-> a, token |-> None, fallback |-> TRUE, lapsed |-> FALSE]
             /\ \A k \in Jobs \ {j} : job'[k] = job[k]
             /\ OwnSet'
  <2>1. /\ in_use' = [in_use EXCEPT ![HomeOf[j]] = @ \cup {a}] /\ Opening(j, a, None, TRUE)
        /\ a \notin in_use[HomeOf[j]] /\ in_use \in [Processes -> SUBSET Accounts]
        BY <1>4 DEF FallBack, TypeInv, TypeOK
  <2>2. /\ job'[j] = [at |-> "opening", account |-> a, token |-> None, fallback |-> TRUE, lapsed |-> FALSE]
        /\ \A k \in Jobs \ {j} : job'[k] = job[k]
        BY <1>1, <2>1, OpeningType
  <2>3. \A p \in Processes : in_use'[p] = IF p = HomeOf[j] THEN in_use[p] \cup {a} ELSE in_use[p]
        BY <1>1, <2>1
  <2>4. \A k \in Jobs : HomeOf[k] \in Processes  BY Typed
  <2>5. OwnSet'  BY <2>1, <2>2, <2>3, <2>4 DEF GuardInv, OwnSet, Without
  <2> QED BY <2>2, <2>5
<1>5. CASE AcquireFallback(j, a)
  <2>1. FallBack(j, a) /\ UNCHANGED <<lock, clean>>  BY <1>5 DEF AcquireFallback, redis
  <2>2. Held'  BY <1>4, <2>1 DEF GuardInv, Held
  <2>3. Watching'
    <3>1. \A k \in clean : k \in Jobs /\ k # j  BY <1>1 DEF GuardInv, Watching, TypeInv, TypeOK
    <3> QED BY <1>4, <2>1, <3>1 DEF GuardInv, Watching
  <2> QED BY <1>4, <2>1, <2>2, <2>3 DEF GuardInv
<1>6. CASE AcquireReplyLost(j, a)
  <2>1. FallBack(j, a) /\ SetNX(j, a)  BY <1>6 DEF AcquireReplyLost
  <2>2. Held'  BY <1>1, <1>4, <2>1, GuardSetNX DEF Held
  <2> QED BY <1>1, <1>4, <2>1, <2>2, GuardSetNX DEF GuardInv
<1> QED BY <1>3, <1>5, <1>6

LEMMA GuardMoves ==
    ASSUME TypeInv, GuardInv, NEW j \in Jobs, NEW from, NEW to, Moves(j, from, to),
           from \notin {"closed", "delete"}, to # "closed", to \in Using => from \in Using
    PROVE  GuardInv'
<1>1. job' = [job EXCEPT ![j].at = to] /\ job \in [Jobs -> JobType] /\ job[j].at = from
      /\ UNCHANGED <<lock, clean, in_use>>
      BY Typed DEF Moves, redis, memory
<1>2. /\ job'[j].at = to /\ job'[j].account = job[j].account /\ job'[j].token = job[j].token
      /\ job'[j].fallback = job[j].fallback /\ job'[j].lapsed = job[j].lapsed
      /\ \A k \in Jobs \ {j} : job'[k] = job[k]
      BY <1>1 DEF JobType
<1>3. Held'  BY <1>1, <1>2 DEF GuardInv, Held
<1>4. \A k \in clean : k \in Jobs \ {j}  BY <1>1 DEF GuardInv, Watching, TypeInv, TypeOK
<1>5. Watching'  BY <1>1, <1>2, <1>4 DEF GuardInv, Watching
<1>6. \A k \in Jobs : Without(k)' <=> Without(k)  BY <1>1, <1>2 DEF Without
<1>7. \A k \in Jobs : job'[k].account = job[k].account  BY <1>2
<1>8. OwnSet'  BY <1>1, <1>6, <1>7 DEF GuardInv, OwnSet
<1> QED BY <1>3, <1>5, <1>8 DEF GuardInv

LEMMA GuardRelease == ASSUME TypeInv, GuardInv, NEW j \in Jobs, Release(j) PROVE GuardInv'
<1>0. /\ job \in [Jobs -> JobType] /\ job[j].at = "release" /\ lock' = lock
      /\ \A k \in Jobs : HomeOf[k] \in Processes
      /\ in_use \in [Processes -> SUBSET Accounts]
      /\ clean \subseteq Jobs
      BY Typed DEF Release, TypeInv, TypeOK
<1>1. \A k \in clean : k # j  BY <1>0 DEF GuardInv, Watching
<1>2. ASSUME job' = [job EXCEPT ![j] = Closed]
      PROVE  /\ \A k \in Jobs \ {j} : job'[k] = job[k]
             /\ job'[j] = Closed /\ Held'
             /\ clean' = clean => Watching'
  <2>1. (\A k \in Jobs \ {j} : job'[k] = job[k]) /\ job'[j] = Closed  BY <1>0, <1>2
  <2>2. Held'  BY <1>0, <2>1, Terms DEF GuardInv, Held, Using
  <2>3. clean' = clean => Watching'  BY <1>0, <1>1, <2>1 DEF GuardInv, Watching
  <2> QED BY <2>1, <2>2, <2>3
<1>3. CASE job[j].fallback
  <2>1. /\ in_use' = [in_use EXCEPT ![HomeOf[j]] = @ \ {job[j].account}]
        /\ job' = [job EXCEPT ![j] = Closed] /\ clean' = clean
        BY <1>3 DEF Release
  <2>2. \A p \in Processes : in_use'[p] = IF p = HomeOf[j] THEN in_use[p] \ {job[j].account} ELSE in_use[p]
        BY <1>0, <2>1
  <2>3. \A k \in Jobs : Without(k)' => k # j /\ Without(k)  BY <1>2, <2>1, Terms DEF Without
  <2>4. Without(j)  BY <1>0, <1>3 DEF Without
  <2>5. OwnSet'  BY <1>0, <1>2, <2>1, <2>2, <2>3, <2>4 DEF GuardInv, OwnSet
  <2> QED BY <1>2, <2>1, <2>5 DEF GuardInv
<1>4. CASE ~job[j].fallback
  <2>1. in_use' = in_use  BY <1>4 DEF Release
  <2>2. CASE job' = [job EXCEPT ![j] = Closed] /\ clean' = clean
    <3>1. \A k \in Jobs : Without(k)' => k # j /\ Without(k)  BY <1>2, <2>2, Terms DEF Without
    <3>2. OwnSet'  BY <1>2, <2>1, <2>2, <3>1 DEF GuardInv, OwnSet
    <3> QED BY <1>2, <2>2, <3>2 DEF GuardInv
  <2>3. CASE lock[job[j].account] = job[j].token /\ job' = [job EXCEPT ![j].at = "delete"]
             /\ clean' = clean \cup {j}
    <3>1. /\ job'[j].at = "delete" /\ job'[j].account = job[j].account
          /\ job'[j].token = job[j].token /\ job'[j].fallback = job[j].fallback
          /\ \A k \in Jobs \ {j} : job'[k] = job[k]
          BY <1>0, <2>3 DEF JobType
    <3>2. Held'  BY <1>0, <3>1 DEF GuardInv, Held, Using
    <3>3. Watching'  BY <1>0, <1>1, <2>3, <3>1 DEF GuardInv, Watching
    <3>4. \A k \in Jobs : Without(k)' => k # j /\ Without(k)  BY <1>4, <3>1 DEF Without
    <3>5. OwnSet'  BY <2>1, <3>1, <3>4 DEF GuardInv, OwnSet
    <3> QED BY <3>2, <3>3, <3>5 DEF GuardInv
  <2> QED BY <1>4, <2>2, <2>3 DEF Release
<1> QED BY <1>3, <1>4

LEMMA GuardDelete == ASSUME TypeInv, GuardInv, NEW j \in Jobs, Delete(j) PROVE GuardInv'
<1>0. /\ job \in [Jobs -> JobType] /\ job[j].at = "delete" /\ ~job[j].fallback
      /\ job' = [job EXCEPT ![j] = Closed] /\ in_use' = in_use
      /\ lock \in [Accounts -> Tokens \cup {None}] /\ clean \subseteq Jobs
      BY Typed DEF Delete, memory, TypeInv, TypeOK, Shaped
<1>1. (\A k \in Jobs \ {j} : job'[k] = job[k]) /\ job'[j] = Closed  BY <1>0
<1>2. \A k \in Jobs : Without(k)' => k # j /\ Without(k)  BY <1>1, Terms DEF Without
<1>3. OwnSet'  BY <1>0, <1>1, <1>2 DEF GuardInv, OwnSet
<1>4. CASE lock' = lock /\ clean' = clean \ {j}
  <2>1. Held'  BY <1>1, <1>4, Terms DEF GuardInv, Held, Using
  <2>2. Watching'  BY <1>0, <1>1, <1>4 DEF GuardInv, Watching
  <2> QED BY <1>3, <2>1, <2>2 DEF GuardInv
<1>5. CASE j \in clean /\ lock' = [lock EXCEPT ![job[j].account] = None]
           /\ clean' = clean \ {k \in Jobs : job[k].account = job[j].account}
  <2>1. lock[job[j].account] \in {job[j].token, None}  BY <1>5 DEF GuardInv, Watching
  <2>2. Held'
    <3>1. SUFFICES ASSUME NEW k \in Jobs, job'[k].at \in Using, ~job'[k].fallback, ~job'[k].lapsed
                   PROVE  lock'[job'[k].account] = job'[k].token
          BY DEF Held
    <3>2. k # j /\ job'[k] = job[k]  BY <1>1, <3>1, Terms DEF Using
    <3>3. lock[job[k].account] = job[k].token  BY <3>1, <3>2 DEF GuardInv, Held
    <3>4. job[k].token # None /\ job[k].account \in Accounts /\ job[k].token # job[j].token
          BY <1>0, <3>1, <3>2, Owns DEF Using
    <3> QED BY <1>0, <1>5, <2>1, <3>2, <3>3, <3>4
  <2>3. Watching'
    <3>1. SUFFICES ASSUME NEW k \in clean'
                   PROVE  job'[k].at = "delete" /\ lock'[job'[k].account] \in {job'[k].token, None}
          BY DEF Watching
    <3>2. k \in clean /\ k \in Jobs /\ k # j /\ job[k].account # job[j].account  BY <1>0, <1>5, <3>1
    <3>3. job[k].at = "delete" /\ lock[job[k].account] \in {job[k].token, None}
          BY <3>2 DEF GuardInv, Watching
    <3>4. job[k].account \in Accounts  BY <3>2, <3>3 DEF TypeInv, Shaped
    <3> QED BY <1>0, <1>1, <1>5, <3>2, <3>3, <3>4
  <2> QED BY <1>3, <2>2, <2>3 DEF GuardInv
<1> QED BY <1>4, <1>5 DEF Delete, Unwatched, Touched

LEMMA GuardLapses ==
    ASSUME TypeInv, GuardInv, NEW S \in SUBSET Accounts, job' = Lapsed(S),
           lock' = [a \in Accounts |-> IF a \in S THEN None ELSE lock[a]],
           clean' \subseteq clean, in_use' = in_use
    PROVE  GuardInv'
<1>1. \A k \in Jobs :
        /\ job'[k].at = job[k].at /\ job'[k].account = job[k].account
        /\ job'[k].token = job[k].token /\ job'[k].fallback = job[k].fallback
        /\ job'[k].lapsed <=> \/ job[k].lapsed
                              \/ /\ job[k].at \in Using /\ job[k].account \in S
                                 /\ job[k].token # None /\ lock[job[k].account] = job[k].token
      BY LapsedType
<1>2. Held'
  <2>1. SUFFICES ASSUME NEW k \in Jobs, job'[k].at \in Using, ~job'[k].fallback, ~job'[k].lapsed
                 PROVE  lock'[job'[k].account] = job'[k].token
        BY DEF Held
  <2>2. job[k].at \in Using /\ ~job[k].fallback /\ ~job[k].lapsed  BY <1>1, <2>1
  <2>3. lock[job[k].account] = job[k].token  BY <2>2 DEF GuardInv, Held
  <2>4. job[k].token # None /\ job[k].account \in Accounts  BY <2>2, Owns DEF Using
  <2>5. job[k].account \notin S  BY <1>1, <2>1, <2>2, <2>3, <2>4
  <2> QED BY <1>1, <2>3, <2>4, <2>5
<1>3. Watching'
  <2>1. SUFFICES ASSUME NEW k \in clean'
                 PROVE  job'[k].at = "delete" /\ lock'[job'[k].account] \in {job'[k].token, None}
        BY DEF Watching
  <2>2. k \in clean /\ k \in Jobs  BY <2>1 DEF TypeInv, TypeOK
  <2>3. job[k].at = "delete" /\ lock[job[k].account] \in {job[k].token, None}
        BY <2>2 DEF GuardInv, Watching
  <2>4. job[k].account \in Accounts  BY <2>2, <2>3 DEF TypeInv, Shaped
  <2> QED BY <1>1, <2>2, <2>3, <2>4
<1>4. \A k \in Jobs : Without(k)' <=> Without(k)  BY <1>1 DEF Without
<1>5. OwnSet'  BY <1>1, <1>4 DEF GuardInv, OwnSet
<1> QED BY <1>2, <1>3, <1>5 DEF GuardInv

LEMMA GuardCrash == ASSUME TypeInv, GuardInv, NEW p \in Processes, Crash(p) PROVE GuardInv'
<1>1. /\ job' = [j \in Jobs |-> IF HomeOf[j] = p THEN Closed ELSE job[j]] /\ lock' = lock
      /\ clean' = {j \in clean : HomeOf[j] # p} /\ in_use' = [in_use EXCEPT ![p] = {}]
      /\ in_use \in [Processes -> SUBSET Accounts] /\ clean \subseteq Jobs
      BY DEF Crash, TypeInv, TypeOK
<1>2. \A j \in Jobs : /\ HomeOf[j] = p => job'[j] = Closed
                      /\ HomeOf[j] # p => job'[j] = job[j]
      BY <1>1
<1>3. Held'  BY <1>1, <1>2, Terms DEF GuardInv, Held, Using
<1>4. Watching'  BY <1>1, <1>2 DEF GuardInv, Watching
<1>5. \A j \in Jobs : Without(j)' => Without(j) /\ HomeOf[j] # p  BY <1>2, Terms DEF Without
<1>6. \A q \in Processes \ {p} : in_use'[q] = in_use[q]  BY <1>1
<1>7. \A j \in Jobs : HomeOf[j] \in Processes  BY Typed
<1>8. OwnSet'  BY <1>2, <1>5, <1>6, <1>7 DEF GuardInv, OwnSet
<1> QED BY <1>3, <1>4, <1>8 DEF GuardInv

\* Steps that leave the browsers, the locks and the sets alone.
LEMMA GuardSame ==
    ASSUME TypeInv, GuardInv, UNCHANGED <<lock, job, in_use>>, clean' \subseteq clean
    PROVE  GuardInv'
<1>1. \A j \in Jobs : Without(j)' <=> Without(j)  BY DEF Without
<1>2. OwnSet'  BY <1>1 DEF GuardInv, OwnSet
<1>3. Held' /\ Watching'  BY DEF GuardInv, Held, Watching
<1> QED BY <1>2, <1>3 DEF GuardInv

LEMMA GuardNext == ASSUME TypeInv, GuardInv, [Next]_vars PROVE GuardInv'
<1>1. CASE UNCHANGED vars  BY <1>1, GuardSame DEF vars, redis, memory
<1>2. ASSUME NEW j \in Jobs, JobStep(j) PROVE GuardInv'
  <2>1. CASE Launched(j) \/ LaunchFails(j) \/ CloseContext(j) \/ SetupFails(j) \/ Stopped(j)
        BY <2>1, GuardMoves DEF Launched, LaunchFails, CloseContext, SetupFails, Stopped, Using
  <2>2. CASE Release(j)  BY <2>2, GuardRelease
  <2>3. CASE Delete(j)  BY <2>3, GuardDelete
  <2> QED BY <1>2, <2>1, <2>2, <2>3, GuardOpens DEF JobStep
<1>3. ASSUME NEW p \in Processes, Refresh(p) PROVE GuardInv'
      BY <1>3, GuardSame DEF Refresh, Wake, RefreshGet, RefreshExpire, PassFails, redis, memory, Touched
<1>4. CASE Tick
  <2>1. job' = Lapsed({a \in Accounts : ttl[a] = 1})
        /\ lock' = [a \in Accounts |-> IF a \in {b \in Accounts : ttl[b] = 1} THEN None ELSE lock[a]]
        /\ clean' = clean /\ in_use' = in_use
        BY <1>4 DEF Tick, memory
  <2> QED BY <2>1, GuardLapses
<1>5. CASE Flush
  <2>1. job' = Lapsed(Accounts) /\ clean' = {} /\ in_use' = in_use
        /\ lock' = [a \in Accounts |-> IF a \in Accounts THEN None ELSE lock[a]]
        BY <1>5 DEF Flush, memory
  <2> QED BY <2>1, GuardLapses
<1>6. ASSUME NEW p \in Processes, Cut(p) \/ Mended(p) \/ Stall(p) \/ Unstall(p) PROVE GuardInv'
      BY <1>6, GuardSame DEF Cut, Mended, Stall, Unstall, Befalls, Passes, redis, memory
<1> QED BY <1>1, <1>2, <1>3, <1>4, <1>5, <1>6, GuardCrash DEF Next

LEMMA Guarded == Spec => [](TypeInv /\ GuardInv)
BY TypeInit, TypeNext, GuardInit, GuardNext, PTL DEF Spec

\* Profiles are shared only where the guard's boundary is, for any jobs, processes
\* and faults.
THEOREM SharedOnlyByLapses == Spec => []OnlyLapsesShare
<1>1. ASSUME TypeInv, GuardInv PROVE OnlyLapsesShare
  <2>1. SUFFICES ASSUME NEW a \in Accounts, NEW j \in UsersOf(a), NEW k \in UsersOf(a),
                        ~job[j].lapsed, ~job[k].lapsed, job[j].fallback <=> job[k].fallback,
                        job[j].fallback => HomeOf[j] = HomeOf[k]
                 PROVE  j = k
    <3>1. \A i \in Jobs : job[i].fallback \in BOOLEAN  BY Typed, <1>1 DEF JobType
    <3> QED BY <3>1 DEF OnlyLapsesShare, UsersOf
  <2>2. /\ j \in Jobs /\ k \in Jobs /\ job[j].account = a /\ job[k].account = a
        /\ job[j].at \in Using /\ job[k].at \in Using
        BY DEF UsersOf
  <2>3. CASE job[j].fallback
        BY <1>1, <2>1, <2>2, <2>3 DEF GuardInv, OwnSet, Without, Using
  <2>4. CASE ~job[j].fallback
    <3>1. lock[a] = job[j].token /\ lock[a] = job[k].token
          BY <1>1, <2>1, <2>2, <2>4 DEF GuardInv, Held
    <3> QED BY <1>1, <2>1, <2>2, <2>4, <3>1, Owns DEF Using
  <2> QED BY <2>3, <2>4
<1> QED BY <1>1, Guarded, PTL

-----------------------------------------------------------------------------
(* Who lets go.                                                             *)

LEMMA LetsGo ==
    ASSUME TypeInv, GuardInv, Next, NEW a \in Accounts, lock'[a] # lock[a], lock[a] # None
    PROVE  \/ lock'[a] = None /\ ttl[a] = 1 /\ ttl'[a] = 0
           \/ \A b \in Accounts : lock'[b] = None /\ faults' = faults + 1
           \/ /\ lock'[a] = None
              /\ \E j \in Jobs : /\ job[j].at = "delete" /\ job'[j].at = "closed"
                                 /\ job[j].account = a /\ job[j].token = lock[a]
<1>0. lock \in [Accounts -> Tokens \cup {None}] /\ ttl \in [Accounts -> 0..TTL]
      BY DEF TypeInv, TypeOK
<1>1. CASE Tick  BY <1>0, <1>1, Times DEF Tick
<1>2. CASE Flush  BY <1>2 DEF Flush, Fault
<1>3. ASSUME NEW j \in Jobs, NEW b \in Accounts, SetNX(j, b) PROVE FALSE
      BY <1>0, <1>3 DEF SetNX
<1>4. ASSUME NEW j \in Jobs, Delete(j)
      PROVE  /\ lock'[a] = None
             /\ job[j].at = "delete" /\ job'[j].at = "closed"
             /\ job[j].account = a /\ job[j].token = lock[a]
  <2>1. /\ j \in clean /\ job[j].account = a /\ lock' = [lock EXCEPT ![job[j].account] = None]
        /\ job[j].at = "delete" /\ job' = [job EXCEPT ![j] = Closed]
        BY <1>0, <1>4 DEF Delete, Unwatched
  <2>2. job'[j].at = "closed"  BY <2>1, Typed, Terms
  <2> QED BY <1>0, <2>1, <2>2 DEF GuardInv, Watching
<1>5. ASSUME NEW j \in Jobs, JobStep(j) PROVE Delete(j)
  <2>1. ASSUME NEW b \in Accounts, Acquire(j, b) \/ AcquireFallback(j, b) \/ AcquireReplyLost(j, b)
        PROVE  FALSE
        BY <1>3, <2>1 DEF Acquire, AcquireFallback, AcquireReplyLost, redis
  <2> QED BY <1>5, <2>1 DEF JobStep, Launched, LaunchFails, SetupFails, Stopped, CloseContext, Moves, Release, redis
<1>6. ASSUME NEW p \in Processes, Refresh(p) PROVE FALSE
      BY <1>6 DEF Refresh, Wake, RefreshGet, RefreshExpire, PassFails, redis
<1>7. ASSUME NEW p \in Processes, Crash(p) \/ Cut(p) \/ Mended(p) \/ Stall(p) \/ Unstall(p) PROVE FALSE
      BY <1>7 DEF Crash, Cut, Mended, Stall, Unstall, Befalls, Passes, redis
<1> QED BY <1>1, <1>2, <1>4, <1>5, <1>6, <1>7 DEF Next

\* No late release or refresh takes or overwrites somebody else's lock.
THEOREM HoldersLetGo == Spec => OnlyTheHolderLetsGo
<1>1. ASSUME TypeInv, GuardInv, [Next]_vars
      PROVE  [\A a \in Accounts : lock'[a] # lock[a] /\ lock[a] # None =>
               \/ lock'[a] = None /\ ttl[a] = 1 /\ ttl'[a] = 0
               \/ \A b \in Accounts : lock'[b] = None /\ faults' = faults + 1
               \/ /\ lock'[a] = None
                  /\ \E j \in Jobs : /\ job[j].at = "delete" /\ job'[j].at = "closed"
                                     /\ job[j].account = a /\ job[j].token = lock[a]]_vars
      BY <1>1, LetsGo
<1> QED BY <1>1, Guarded, PTL DEF Spec, OnlyTheHolderLetsGo

-----------------------------------------------------------------------------
(* The guard's promise.                                                     *)

users == [a \in Accounts |-> UsersOf(a)]
excused == {j \in Jobs : job[j].at \in Using /\ (job[j].fallback \/ job[j].lapsed)}

LEMMA GuardUsers ==
    ASSUME TypeInv
    PROVE  Guard!Users = {j \in Jobs : job[j].at \in Using}
<1>1. ASSUME NEW j \in Jobs, job[j].at \in Using PROVE job[j].account \in Accounts
      BY <1>1 DEF TypeInv, Shaped, Using
<1> QED BY <1>1 DEF Guard!Users, UsersOf

LEMMA StepOpens ==
    ASSUME TypeInv, GuardInv, NEW j \in Jobs, NEW a \in Accounts,
           Acquire(j, a) \/ AcquireFallback(j, a) \/ AcquireReplyLost(j, a)
    PROVE  Guard!Open(j, a) \/ Guard!OpenUnguarded(j, a)
<1>1. May(j) /\ job[j].at = "closed"
      BY DEF Acquire, AcquireFallback, AcquireReplyLost, May
<1>2. Drawn(j) # None  BY <1>1, NoneIsNone, Bounds DEF Drawn, May, TypeInv, TypeOK
<1>3. ASSUME NEW t, NEW fb \in BOOLEAN,
             job'[j] = [at |-> "opening", account |-> a, token |-> t, fallback |-> fb, lapsed |-> FALSE],
             \A k \in Jobs \ {j} : job'[k] = job[k]
      PROVE  /\ Guard!Join(j, a)
             /\ excused' = IF fb THEN excused \cup {j} ELSE excused
  <2>1. j \notin Guard!Users  BY <1>1, GuardUsers DEF Using
  <2>2. \A k \in Jobs : job'[k].at \in Using <=> job[k].at \in Using \/ k = j
        BY <1>3 DEF Using
  <2>3. \A b \in Accounts : UsersOf(b)' = IF b = a THEN UsersOf(b) \cup {j} ELSE UsersOf(b)
        BY <1>1, <1>3, <2>2 DEF UsersOf, Using
  <2>4. users' = [users EXCEPT ![a] = @ \cup {j}]  BY <2>3 DEF users
  <2>5. excused' = IF fb THEN excused \cup {j} ELSE excused
        BY <1>1, <1>3, <2>2 DEF excused, Using
  <2> QED BY <2>1, <2>4, <2>5 DEF Guard!Join, users
<1>4. CASE Acquire(j, a)
  <2>1. SetNX(j, a) /\ Opening(j, a, Drawn(j), FALSE)  BY <1>4 DEF Acquire
  <2>2. /\ job'[j] = [at |-> "opening", account |-> a, token |-> Drawn(j), fallback |-> FALSE, lapsed |-> FALSE]
        /\ \A k \in Jobs \ {j} : job'[k] = job[k]
        BY <1>1, <1>2, <2>1, OpeningType
  <2>3. Guard!Join(j, a) /\ excused' = excused  BY <1>3, <2>2
  <2>4. ASSUME NEW k \in UsersOf(a) PROVE k \in excused
    <3>1. k \in Jobs /\ job[k].account = a /\ job[k].at \in Using  BY DEF UsersOf
    <3>2. k # j  BY <1>1, <3>1 DEF Using
    <3> QED BY <1>1, <2>1, <2>2, <3>1, <3>2, GuardSetNX DEF excused
  <2>5. users[a] \subseteq excused  BY <2>4 DEF users
  <2> QED BY <2>3, <2>5 DEF Guard!Open, users, excused
<1>5. ASSUME FallBack(j, a) PROVE Guard!OpenUnguarded(j, a)
  <2>1. Opening(j, a, None, TRUE)  BY <1>5 DEF FallBack
  <2>2. /\ job'[j] = [at |-> "opening", account |-> a, token |-> None, fallback |-> TRUE, lapsed |-> FALSE]
        /\ \A k \in Jobs \ {j} : job'[k] = job[k]
        BY <1>1, <2>1, OpeningType
  <2> QED BY <1>3, <2>2 DEF Guard!OpenUnguarded, users, excused
<1> QED BY <1>4, <1>5 DEF AcquireFallback, AcquireReplyLost

\* Some browsers close, and nothing else changes for the guard.
LEMMA StepCloses ==
    ASSUME TypeInv, NEW J \in SUBSET Jobs,
           \A k \in J : job'[k].at \notin Using,
           \A k \in Jobs \ J : /\ job'[k].at \in Using <=> job[k].at \in Using
                               /\ job[k].at \in Using =>
                                    /\ job'[k].account = job[k].account
                                    /\ job'[k].fallback = job[k].fallback
                                    /\ job'[k].lapsed = job[k].lapsed
    PROVE  Guard!Close(J)
<1>1. \A a \in Accounts : UsersOf(a)' = UsersOf(a) \ J  BY DEF UsersOf
<1>2. users' = [a \in Accounts |-> users[a] \ J]  BY <1>1 DEF users
<1>3. excused' = excused \ J  BY DEF excused
<1> QED BY <1>2, <1>3 DEF Guard!Close, users, excused

LEMMA StepLapses ==
    ASSUME TypeInv, NEW S, job' = Lapsed(S)
    PROVE  \E J \in SUBSET Jobs : Guard!Lapse(J)
<1>1. \A k \in Jobs :
        /\ job'[k].at = job[k].at /\ job'[k].account = job[k].account
        /\ job'[k].fallback = job[k].fallback
        /\ job[k].lapsed => job'[k].lapsed
      BY LapsedType
<1>2. PICK J \in SUBSET Jobs : J = {k \in Jobs : job[k].at \in Using /\ job'[k].lapsed}
      OBVIOUS
<1>3. J \subseteq Guard!Users  BY <1>2, GuardUsers
<1>4. \A a \in Accounts : UsersOf(a)' = UsersOf(a)  BY <1>1 DEF UsersOf
<1>5. users' = users  BY <1>4 DEF users
<1>6. excused' = excused \cup J  BY <1>1, <1>2 DEF excused
<1>7. Guard!Lapse(J)  BY <1>3, <1>5, <1>6 DEF Guard!Lapse, users, excused
<1> QED BY <1>7

\* A step that keeps the browsers is none of the guard's.
LEMMA StepSame ==
    ASSUME job' = job PROVE UNCHANGED Guard!vars
<1>1. \A a \in Accounts : UsersOf(a)' = UsersOf(a)  BY DEF UsersOf
<1> QED BY <1>1 DEF Guard!vars

LEMMA GuardStep == ASSUME TypeInv, GuardInv, [Next]_vars PROVE [Guard!Next]_(Guard!vars)
<1>0. job \in [Jobs -> JobType]  BY Typed
<1>1. CASE UNCHANGED vars  BY <1>1, StepSame DEF vars
<1>2. ASSUME NEW j \in Jobs, JobStep(j) PROVE \/ Guard!Next \/ UNCHANGED Guard!vars
  <2>1. ASSUME NEW a \in Accounts, Acquire(j, a) \/ AcquireFallback(j, a) \/ AcquireReplyLost(j, a)
        PROVE  Guard!Next
        BY <2>1, StepOpens DEF Guard!Next
  <2>2. ASSUME NEW from, NEW to, Moves(j, from, to)
        PROVE  /\ job[j].at = from /\ job'[j].at = to
               /\ job'[j].account = job[j].account /\ job'[j].fallback = job[j].fallback
               /\ job'[j].lapsed = job[j].lapsed
               /\ \A k \in Jobs \ {j} : job'[k] = job[k]
        BY <1>0, <2>2 DEF Moves, JobType
  <2>3. CASE Launched(j) \/ SetupFails(j)
    <3>1. Guard!Close({})
      <4>1. /\ job[j].at \in Using /\ job'[j].at \in Using
            /\ job'[j].account = job[j].account /\ job'[j].fallback = job[j].fallback
            /\ job'[j].lapsed = job[j].lapsed
            /\ \A k \in Jobs \ {j} : job'[k] = job[k]
            BY <2>2, <2>3 DEF Launched, SetupFails, Using
      <4>2. \A k \in Jobs \ {} : /\ job'[k].at \in Using <=> job[k].at \in Using
                                 /\ job[k].at \in Using =>
                                      /\ job'[k].account = job[k].account
                                      /\ job'[k].fallback = job[k].fallback
                                      /\ job'[k].lapsed = job[k].lapsed
            BY <4>1
      <4> QED BY <4>2, StepCloses
    <3> QED BY <3>1 DEF Guard!Next
  <2>4. ASSUME job'[j].at \notin Using, \A k \in Jobs \ {j} : job'[k] = job[k]
        PROVE  Guard!Next
    <3>1. Guard!Close({j})  BY <2>4, StepCloses
    <3> QED BY <3>1 DEF Guard!Next
  <2>5. CASE LaunchFails(j) \/ CloseContext(j) \/ Stopped(j)
        BY <2>2, <2>4, <2>5 DEF LaunchFails, CloseContext, Stopped, Using
  <2>6. CASE Release(j) \/ Delete(j)
    <3>1. \/ job' = [job EXCEPT ![j] = Closed] \/ job' = [job EXCEPT ![j].at = "delete"]
          BY <2>6 DEF Release, Delete
    <3>2. job'[j].at \notin Using /\ \A k \in Jobs \ {j} : job'[k] = job[k]
          BY <1>0, <3>1, Terms DEF Using, JobType
    <3> QED BY <2>4, <3>2
  <2> QED BY <1>2, <2>1, <2>3, <2>5, <2>6 DEF JobStep
<1>3. CASE Tick \/ Flush
  <2>1. \E S : job' = Lapsed(S)  BY <1>3 DEF Tick, Flush
  <2> QED BY <2>1, StepLapses DEF Guard!Next
<1>4. ASSUME NEW p \in Processes, Crash(p) PROVE Guard!Next
  <2>1. \A j \in Jobs : /\ HomeOf[j] = p => job'[j] = Closed
                        /\ HomeOf[j] # p => job'[j] = job[j]
        BY <1>4 DEF Crash
  <2>2. Guard!Close({j \in Jobs : HomeOf[j] = p})  BY <2>1, Terms, StepCloses DEF Using
  <2> QED BY <2>2 DEF Guard!Next
<1>5. ASSUME NEW p \in Processes, Refresh(p) \/ Cut(p) \/ Mended(p) \/ Stall(p) \/ Unstall(p)
      PROVE  job' = job
      BY <1>5 DEF Refresh, Wake, RefreshGet, RefreshExpire, PassFails, Cut, Mended, Stall, Unstall, Befalls, Passes
<1> QED BY <1>1, <1>2, <1>3, <1>4, <1>5, StepSame DEF Next

LEMMA GuardStarts == Init => Guard!Init
<1> SUFFICES ASSUME Init PROVE Guard!Init OBVIOUS
<1>1. \A j \in Jobs : job[j].at \notin Using  BY Terms DEF Init, Using
<1> QED BY <1>1 DEF Guard!Init, UsersOf

\* The lock implements the guard: one browser per profile among those it answers for.
THEOREM LockKeepsTheGuard == Spec => KeepsTheGuard
BY GuardStarts, GuardStep, Guarded, PTL DEF Spec, KeepsTheGuard, Guard!Spec

-----------------------------------------------------------------------------
(* The leases.                                                              *)

\* A browser opened through Redis, of a process nothing has befallen.
Leasing(j) == /\ job[j].at \in Using \cup {"release"} /\ ~job[j].fallback
              /\ HomeOf[j] \notin disturbed

\* The refresh task will reach the lease in time: it sleeps less long than the
\* lease has to live by TTL - Interval, or is on its way to this lease, or has
\* been there.
Reached(j) ==
  LET a == job[j].account
      r == refresher[HomeOf[j]]
  IN \/ r.at = "sleep" /\ ttl[a] >= r.nap + (TTL - Interval)
     \/ r.at = "pass" /\ ttl[a] = TTL
     \/ /\ r.at = "pass" /\ ttl[a] >= TTL - Interval
        /\ <<a, job[j].token>> \in r.todo \cup {r.item}

Leased(j) == /\ lock[job[j].account] = job[j].token
             /\ profile_locks[HomeOf[j]][job[j].account] = job[j].token
             /\ Reached(j)

LeaseInv == /\ cut \cup stalled \subseteq disturbed
            /\ LeasesAreKept
            /\ \A j \in Jobs : Leasing(j) => Leased(j)

\* What is leased, and whose task looks after it.
LEMMA LeaseFacts ==
    ASSUME TypeInv, LeaseInv, NEW k \in Jobs, Leasing(k)
    PROVE  /\ Leased(k) /\ Reached(k)
           /\ job[k].account \in Accounts /\ job[k].token # None /\ job[k].token \in Tokens
           /\ HomeOf[k] \in Processes \ (cut \cup stalled)
           /\ lock[job[k].account] = job[k].token
           /\ profile_locks[HomeOf[k]][job[k].account] = job[k].token
           /\ ttl[job[k].account] \in 0..TTL
           /\ refresher[HomeOf[k]] \in TaskType /\ refresher[HomeOf[k]].at \in {"sleep", "pass"}
           /\ \A i \in Jobs :
                job[i].at # "closed" /\ ~job[i].fallback /\ job[i].token = job[k].token => i = k
<1>1. job[k].at # "closed" /\ ~job[k].fallback  BY DEF Leasing, Using
<1>2. Leased(k) /\ HomeOf[k] \notin cut \cup stalled  BY DEF LeaseInv, Leasing
<1>3. job[k].token \in Tokens /\ job[k].account \in Accounts /\ job[k].token # None
      BY <1>1, Owns, Typed DEF JobType
<1>4. Reached(k) /\ refresher[HomeOf[k]] \in TaskType  BY <1>2, Typed DEF Leased
<1>5. refresher[HomeOf[k]].at \in {"sleep", "pass"}  BY <1>4 DEF Reached
<1>6. ttl[job[k].account] \in 0..TTL  BY <1>3 DEF TypeInv, TypeOK
<1>7. /\ lock[job[k].account] = job[k].token
      /\ profile_locks[HomeOf[k]][job[k].account] = job[k].token
      BY <1>2 DEF Leased
<1>8. \A i \in Jobs :
        job[i].at # "closed" /\ ~job[i].fallback /\ job[i].token = job[k].token => i = k
      BY <1>1, Owns
<1>9. HomeOf[k] \in Processes  BY Typed
<1> QED BY <1>2, <1>3, <1>4, <1>5, <1>6, <1>7, <1>8, <1>9

\* A step that keeps a lease, or gives it its whole TTL.
LEMMA LeaseStays ==
    ASSUME TypeInv, LeaseInv, NEW k \in Jobs,
           job'[k].at \in Using \cup {"release"} => job[k].at \in Using \cup {"release"},
           job'[k].account = job[k].account, job'[k].token = job[k].token,
           job'[k].fallback <=> job[k].fallback, disturbed \subseteq disturbed',
           Leasing(k) => /\ lock'[job[k].account] = lock[job[k].account]
                         /\ ttl'[job[k].account] \in {ttl[job[k].account], TTL}
                         /\ profile_locks'[HomeOf[k]][job[k].account] = profile_locks[HomeOf[k]][job[k].account]
                         /\ refresher'[HomeOf[k]] = refresher[HomeOf[k]]
    PROVE  Leasing(k)' => Leased(k)'
<1>1. SUFFICES ASSUME Leasing(k)' PROVE Leased(k)'  OBVIOUS
<1>2. Leasing(k)  BY <1>1 DEF Leasing
<1>3. Reached(k) /\ ttl[job[k].account] \in 0..TTL /\ refresher[HomeOf[k]] \in TaskType
      /\ refresher[HomeOf[k]].at \in {"sleep", "pass"}
      BY <1>2, LeaseFacts
<1>4. refresher[HomeOf[k]].nap \in 0..Interval  BY <1>3 DEF TaskType
<1>5. Reached(k)'  BY <1>2, <1>3, <1>4, Times DEF Reached
<1> QED BY <1>2, <1>5, LeaseFacts DEF Leased

LEMMA LeaseInit == Init => LeaseInv
BY Terms DEF Init, LeaseInv, LeasesAreKept, Leasing, Using

LEMMA LeaseMoves ==
    ASSUME TypeInv, LeaseInv, NEW j \in Jobs, NEW from, NEW to, Moves(j, from, to),
           to \in Using \cup {"release"} => from \in Using
    PROVE  LeaseInv'
<1>1. job' = [job EXCEPT ![j].at = to] /\ job \in [Jobs -> JobType] /\ job[j].at = from
      /\ UNCHANGED <<lock, ttl, profile_locks, refresher, cut, stalled, disturbed>>
      BY Typed DEF Moves, redis, memory, modes
<1>2. \A k \in Jobs : /\ job'[k].account = job[k].account /\ job'[k].token = job[k].token
                      /\ job'[k].fallback = job[k].fallback /\ job'[k].lapsed = job[k].lapsed
                      /\ job'[k].at = IF k = j THEN to ELSE job[k].at
      BY <1>1 DEF JobType
<1>3. \A k \in Jobs : Leasing(k)' => Leased(k)'  BY <1>1, <1>2, LeaseStays
<1>4. LeasesAreKept'  BY <1>1, <1>2 DEF LeaseInv, LeasesAreKept
<1> QED BY <1>1, <1>3, <1>4 DEF LeaseInv

LEMMA LeaseOpens ==
    ASSUME TypeInv, LeaseInv, NEW j \in Jobs, NEW a \in Accounts,
           Acquire(j, a) \/ AcquireFallback(j, a) \/ AcquireReplyLost(j, a)
    PROVE  LeaseInv'
<1>1. /\ May(j) /\ job[j].at = "closed" /\ HomeOf[j] \in Processes
      /\ UNCHANGED <<cut, stalled, disturbed>>
      BY Typed DEF Acquire, AcquireFallback, AcquireReplyLost, May, weather, modes
<1>2. Drawn(j) # None  BY <1>1, NoneIsNone, Bounds DEF Drawn, May, TypeInv, TypeOK
<1>3. ASSUME SetNX(j, a), NEW k \in Jobs, Leasing(k)
      PROVE  /\ job[k].account # a
             /\ lock'[job[k].account] = lock[job[k].account] /\ ttl'[job[k].account] = ttl[job[k].account]
  <2>1. lock[job[k].account] = job[k].token /\ job[k].token # None /\ job[k].account \in Accounts
        BY <1>3, LeaseFacts
  <2>2. lock[a] = None  BY <1>3 DEF SetNX
  <2> QED BY <1>3, <2>1, <2>2 DEF SetNX, TypeInv, TypeOK
<1>4. CASE Acquire(j, a)
  <2>1. /\ SetNX(j, a) /\ Opening(j, a, Drawn(j), FALSE)
        /\ profile_locks' = [profile_locks EXCEPT ![HomeOf[j]][a] = Drawn(j)]
        /\ refresher' = Ensured(HomeOf[j])
        BY <1>4 DEF Acquire
  <2>2. /\ job'[j] = [at |-> "opening", account |-> a, token |-> Drawn(j), fallback |-> FALSE, lapsed |-> FALSE]
        /\ \A k \in Jobs \ {j} : job'[k] = job[k]
        BY <1>1, <1>2, <2>1, OpeningType
  <2>3. ASSUME NEW k \in Jobs \ {j} PROVE Leasing(k)' => Leased(k)'
    <3>1. ASSUME Leasing(k)
          PROVE  /\ lock'[job[k].account] = lock[job[k].account] /\ ttl'[job[k].account] = ttl[job[k].account]
                 /\ profile_locks'[HomeOf[k]][job[k].account] = profile_locks[HomeOf[k]][job[k].account]
                 /\ refresher'[HomeOf[k]] = refresher[HomeOf[k]]
      <4>1. /\ job[k].account # a /\ lock'[job[k].account] = lock[job[k].account]
            /\ ttl'[job[k].account] = ttl[job[k].account]
            BY <1>3, <2>1, <3>1
      <4>2. HomeOf[k] \in Processes /\ refresher[HomeOf[k]].at # "off" /\ job[k].account \in Accounts
            BY <3>1, LeaseFacts
      <4>3. profile_locks \in [Processes -> [Accounts -> Tokens \cup {None}]]
            /\ refresher \in [Processes -> TaskType]
            BY Typed DEF TypeInv, TypeOK
      <4>4. profile_locks'[HomeOf[k]][job[k].account] = profile_locks[HomeOf[k]][job[k].account]
            BY <1>1, <2>1, <4>1, <4>2, <4>3
      <4>5. refresher'[HomeOf[k]] = refresher[HomeOf[k]]  BY <2>1, <4>2, <4>3 DEF Ensured
      <4> QED BY <4>1, <4>4, <4>5
    <3> QED BY <1>1, <2>2, <3>1, LeaseStays
  <2>4. Leasing(j)' => Leased(j)'
    <3>1. \/ refresher'[HomeOf[j]].at = "pass"
          \/ refresher'[HomeOf[j]].at = "sleep" /\ refresher'[HomeOf[j]].nap \in 0..Interval
      <4>1. refresher[HomeOf[j]] \in TaskType /\ refresher \in [Processes -> TaskType]  BY <1>1, Typed
      <4>2. CASE refresher[HomeOf[j]].at = "off"
        <5>1. refresher'[HomeOf[j]] = Sleep  BY <1>1, <2>1, <4>1, <4>2 DEF Ensured
        <5> QED BY <5>1, Terms, Times
      <4>3. CASE refresher[HomeOf[j]].at # "off"
        <5>1. refresher'[HomeOf[j]] = refresher[HomeOf[j]]  BY <2>1, <4>3 DEF Ensured
        <5> QED BY <4>1, <4>3, <5>1 DEF TaskType
      <4> QED BY <4>2, <4>3
    <3>2. lock'[a] = Drawn(j) /\ ttl'[a] = TTL  BY <2>1 DEF SetNX, TypeInv, TypeOK
    <3>3. profile_locks'[HomeOf[j]][a] = Drawn(j)  BY <1>1, <2>1 DEF TypeInv, TypeOK
    <3>4. Reached(j)'  BY <2>2, <3>1, <3>2, Times DEF Reached
    <3> QED BY <2>2, <3>2, <3>3, <3>4 DEF Leased
  <2>5. LeasesAreKept'  BY <1>1, <2>2 DEF LeaseInv, LeasesAreKept
  <2> QED BY <1>1, <2>3, <2>4, <2>5 DEF LeaseInv
<1>5. ASSUME FallBack(j, a), UNCHANGED <<profile_locks, refresher>>,
             SetNX(j, a) \/ UNCHANGED <<lock, ttl>>
      PROVE  LeaseInv'
  <2>1. Opening(j, a, None, TRUE)  BY <1>5 DEF FallBack
  <2>2. /\ job'[j] = [at |-> "opening", account |-> a, token |-> None, fallback |-> TRUE, lapsed |-> FALSE]
        /\ \A k \in Jobs \ {j} : job'[k] = job[k]
        BY <1>1, <2>1, OpeningType
  <2>3. ASSUME NEW k \in Jobs \ {j} PROVE Leasing(k)' => Leased(k)'
    <3>1. ASSUME Leasing(k)
          PROVE  lock'[job[k].account] = lock[job[k].account] /\ ttl'[job[k].account] = ttl[job[k].account]
          BY <1>3, <1>5, <3>1
    <3> QED BY <1>1, <1>5, <2>2, <3>1, LeaseStays
  <2>4. ~Leasing(j)'  BY <2>2 DEF Leasing
  <2>5. LeasesAreKept'  BY <1>1, <2>2 DEF LeaseInv, LeasesAreKept
  <2> QED BY <1>1, <2>3, <2>4, <2>5 DEF LeaseInv
<1> QED BY <1>4, <1>5 DEF AcquireFallback, AcquireReplyLost, redis

\* Whoever lets go of a profile does not let go of another's lease.
LEMMA LeaseRelease == ASSUME TypeInv, LeaseInv, NEW j \in Jobs, Release(j) PROVE LeaseInv'
<1>0. /\ job \in [Jobs -> JobType] /\ job[j].at = "release" /\ HomeOf[j] \in Processes
      /\ UNCHANGED <<lock, ttl, refresher, cut, stalled, disturbed>>
      BY Typed DEF Release, weather, modes
<1>1. /\ \A k \in Jobs \ {j} : job'[k] = job[k]
      /\ job'[j].at \notin Using \cup {"release"}
      /\ job'[j].lapsed => job[j].lapsed
  <2>1. CASE job' = [job EXCEPT ![j] = Closed]  BY <1>0, <2>1, Terms DEF Using
  <2>2. CASE job' = [job EXCEPT ![j].at = "delete"]
    <3>1. /\ job'[j].at = "delete" /\ job'[j].lapsed = job[j].lapsed
          /\ \A k \in Jobs \ {j} : job'[k] = job[k]
          BY <1>0, <2>2 DEF JobType
    <3> QED BY <3>1 DEF Using
  <2> QED BY <2>1, <2>2 DEF Release
<1>2. ASSUME NEW k \in Jobs \ {j}, Leasing(k)
      PROVE  profile_locks'[HomeOf[k]][job[k].account] = profile_locks[HomeOf[k]][job[k].account]
  <2>0. profile_locks \in [Processes -> [Accounts -> Tokens \cup {None}]]  BY DEF TypeInv, TypeOK
  <2>1. CASE job[j].fallback
    <3>1. profile_locks' = profile_locks  BY <2>1 DEF Release
    <3> QED BY <3>1
  <2>2. CASE ~job[j].fallback
    <3>1. Forget(j)  BY <2>2 DEF Release
    <3>2. CASE HomeOf[k] = HomeOf[j] /\ job[k].account = job[j].account
      <4>1. Leasing(j)  BY <1>0, <1>2, <2>2, <3>2 DEF Leasing
      <4>2. job[j].token = job[k].token  BY <1>2, <3>2, <4>1, LeaseFacts
      <4>3. j = k  BY <1>0, <1>2, <2>2, <4>2, LeaseFacts
      <4> QED BY <4>3
    <3>3. CASE ~(HomeOf[k] = HomeOf[j] /\ job[k].account = job[j].account)
      <4>1. HomeOf[k] \in Processes /\ job[k].account \in Accounts  BY <1>2, LeaseFacts
      <4> QED BY <1>0, <2>0, <3>1, <3>3, <4>1 DEF Forget
    <3> QED BY <3>2, <3>3
  <2> QED BY <2>1, <2>2
<1>3. \A k \in Jobs \ {j} : Leasing(k)' => Leased(k)'  BY <1>0, <1>1, <1>2, LeaseStays
<1>4. ~Leasing(j)'  BY <1>1 DEF Leasing
<1>5. LeasesAreKept'  BY <1>0, <1>1 DEF LeaseInv, LeasesAreKept
<1> QED BY <1>0, <1>3, <1>4, <1>5 DEF LeaseInv

LEMMA LeaseDelete == ASSUME TypeInv, GuardInv, LeaseInv, NEW j \in Jobs, Delete(j) PROVE LeaseInv'
<1>0. /\ job \in [Jobs -> JobType] /\ job[j].at = "delete" /\ ~job[j].fallback
      /\ job' = [job EXCEPT ![j] = Closed]
      /\ UNCHANGED <<profile_locks, refresher, cut, stalled, disturbed>>
      /\ lock \in [Accounts -> Tokens \cup {None}] /\ ttl \in [Accounts -> 0..TTL]
      BY Typed DEF Delete, memory, weather, modes, TypeInv, TypeOK, Shaped
<1>1. (\A k \in Jobs \ {j} : job'[k] = job[k]) /\ job'[j] = Closed  BY <1>0
<1>2. ASSUME NEW k \in Jobs \ {j}, Leasing(k)
      PROVE  lock'[job[k].account] = lock[job[k].account] /\ ttl'[job[k].account] = ttl[job[k].account]
  <2>1. /\ lock[job[k].account] = job[k].token /\ job[k].token # None /\ job[k].account \in Accounts
        /\ job[j].token # job[k].token
        BY <1>0, <1>2, LeaseFacts
  <2>2. CASE UNCHANGED <<lock, ttl>>  BY <2>2
  <2>3. CASE /\ j \in clean
             /\ lock' = [lock EXCEPT ![job[j].account] = None]
             /\ ttl' = [ttl EXCEPT ![job[j].account] = 0]
    <3>1. lock[job[j].account] \in {job[j].token, None}  BY <2>3 DEF GuardInv, Watching
    <3>2. job[k].account # job[j].account  BY <2>1, <3>1
    <3> QED BY <1>0, <2>1, <2>3, <3>2
  <2> QED BY <2>2, <2>3 DEF Delete, Unwatched
<1>3. \A k \in Jobs \ {j} : Leasing(k)' => Leased(k)'  BY <1>0, <1>1, <1>2, LeaseStays
<1>4. ~Leasing(j)' /\ LeasesAreKept'
      BY <1>0, <1>1, Terms DEF Leasing, Using, LeaseInv, LeasesAreKept
<1> QED BY <1>0, <1>3, <1>4 DEF LeaseInv

\* The refresh task's own steps: it sleeps again only when every lease it was
\* to reach has its whole TTL.
LEMMA LeaseRefresh == ASSUME TypeInv, LeaseInv, NEW p \in Processes, Refresh(p) PROVE LeaseInv'
<1>0. /\ UNCHANGED <<lock, profile_locks, job, cut, stalled, disturbed>>
      /\ \A q \in Processes \ {p} : refresher'[q] = refresher[q]
      /\ refresher[p] \in TaskType /\ refresher \in [Processes -> TaskType]
      /\ lock \in [Accounts -> Tokens \cup {None}] /\ ttl \in [Accounts -> 0..TTL]
      BY Typed DEF Refresh, Wake, RefreshGet, RefreshExpire, PassFails, redis, memory, weather, modes, TypeInv, TypeOK
<1>1. \A a \in Accounts : ttl'[a] \in {ttl[a], TTL}
      BY <1>0, Times DEF Refresh, Wake, RefreshGet, RefreshExpire, PassFails, redis
<1>2. ASSUME NEW k \in Jobs, HomeOf[k] # p PROVE Leasing(k)' => Leased(k)'
  <2>1. HomeOf[k] \in Processes \ {p}  BY <1>2, Typed
  <2>2. Leasing(k) => job[k].account \in Accounts  BY LeaseFacts
  <2> QED BY <1>0, <1>1, <2>1, <2>2, LeaseStays
<1>3. ASSUME NEW k \in Jobs, HomeOf[k] = p, Leasing(k)' PROVE Reached(k)'
  <2> DEFINE a == job[k].account
             t == job[k].token
  <2>1. Leasing(k)  BY <1>0, <1>3 DEF Leasing
  <2>2. /\ Reached(k) /\ a \in Accounts /\ t # None /\ lock[a] = t /\ profile_locks[p][a] = t
        /\ p \notin cut /\ ttl[a] \in 0..TTL /\ refresher[p].at \in {"sleep", "pass"}
        /\ <<a, t>> \in Items
        BY <1>3, <2>1, LeaseFacts DEF Items
  <2>3. a \in Holding(p)  BY <2>2 DEF Holding
  <2>4. LoopTop(p) = Sleep  BY <2>3 DEF LoopTop
  \* What is left of a pass.
  <2>5. ASSUME NEW todo \in SUBSET Items, refresher'[p] = Rest(p, todo),
               \/ ttl'[a] = TTL
               \/ ttl'[a] >= TTL - Interval /\ <<a, t>> \in todo
        PROVE  Reached(k)'
    <3>1. CASE todo = {}
      <4>1. refresher'[p] = Sleep /\ ttl'[a] = TTL  BY <2>4, <2>5, <3>1 DEF Rest
      <4> QED BY <1>0, <1>3, <4>1, Terms, Times DEF Reached
    <3>2. CASE todo # {}
      <4>1. refresher'[p] = Pass(todo, None)  BY <2>5, <3>2 DEF Rest
      <4>2. refresher'[p].at = "pass" /\ refresher'[p].todo = todo  BY <4>1 DEF Pass
      <4> QED BY <1>0, <1>3, <2>5, <4>2 DEF Reached
    <3> QED BY <3>1, <3>2
  <2>6. CASE Wake(p)
    <3>1. refresher'[p] = Rest(p, {<<b, profile_locks[p][b]>> : b \in Holding(p)})
          /\ ttl' = ttl /\ refresher[p].at = "sleep" /\ refresher[p].nap = 0
          BY <1>0, <2>6 DEF Wake, redis
    <3>2. <<a, t>> \in {<<b, profile_locks[p][b]>> : b \in Holding(p)}  BY <2>2, <2>3
    <3>3. {<<b, profile_locks[p][b]>> : b \in Holding(p)} \in SUBSET Items
          BY DEF Holding, Items, TypeInv, TypeOK
    <3>4. ttl[a] >= TTL - Interval  BY <1>3, <2>2, <3>1, Times DEF Reached
    <3> QED BY <2>5, <3>1, <3>2, <3>3, <3>4
  <2>7. CASE RefreshGet(p)
    <3>1. PICK i \in refresher[p].todo :
            refresher' = [refresher EXCEPT ![p] =
              IF lock[i[1]] = i[2] THEN Pass(@.todo \ {i}, i) ELSE Rest(p, @.todo \ {i})]
          BY <2>7 DEF RefreshGet
    <3>2. /\ ttl' = ttl /\ refresher[p].at = "pass" /\ refresher[p].item = None
          /\ refresher[p].todo \in SUBSET Items /\ i \in Items
          BY <1>0, <2>7 DEF RefreshGet, redis, TaskType
    <3>3. ttl[a] = TTL \/ (ttl[a] >= TTL - Interval /\ <<a, t>> \in refresher[p].todo)
      <4>1. <<a, t>> # None  BY NoneIsNone, <2>2, Bounds DEF Items, Tokens
      <4> QED BY <1>3, <2>2, <3>2, <4>1 DEF Reached
    <3>4. CASE lock[i[1]] = i[2]
      <4>1. refresher'[p] = Pass(refresher[p].todo \ {i}, i)  BY <1>0, <3>1, <3>4
      <4>2. /\ refresher'[p].at = "pass" /\ refresher'[p].todo = refresher[p].todo \ {i}
            /\ refresher'[p].item = i
            BY <4>1 DEF Pass
      <4> QED BY <1>0, <1>3, <3>2, <3>3, <4>2 DEF Reached
    <3>5. CASE lock[i[1]] # i[2]
      <4>1. refresher'[p] = Rest(p, refresher[p].todo \ {i})  BY <1>0, <3>1, <3>5
      <4>2. i # <<a, t>>  BY <2>2, <3>5
      <4> QED BY <2>5, <3>2, <3>3, <4>1, <4>2
    <3> QED BY <3>4, <3>5
  <2>8. CASE RefreshExpire(p)
    <3>1. /\ refresher'[p] = Rest(p, refresher[p].todo) /\ refresher[p].item # None
          /\ refresher[p].todo \in SUBSET Items /\ refresher[p].item \in Items
          BY <1>0, <2>8 DEF RefreshExpire, TaskType
    <3>2. refresher[p].at = "pass"  BY <3>1, <1>3 DEF TypeInv
    <3>3. CASE refresher[p].item[1] = a
      <4>1. ttl'[a] = TTL  BY <1>0, <2>2, <2>8, <3>3 DEF RefreshExpire
      <4> QED BY <2>5, <3>1, <4>1
    <3>4. CASE refresher[p].item[1] # a
      <4>1. <<a, t>> # refresher[p].item  BY <3>4
      <4>2. ttl[a] = TTL \/ (ttl[a] >= TTL - Interval /\ <<a, t>> \in refresher[p].todo)
            BY <1>3, <2>2, <3>2, <4>1 DEF Reached
      <4>3. ttl'[a] \in {ttl[a], TTL}  BY <1>1, <2>2
      <4> QED BY <2>2, <2>5, <3>1, <4>2, <4>3
    <3> QED BY <3>3, <3>4
  <2>9. ~PassFails(p)  BY <2>2 DEF PassFails, Reaches
  <2> QED BY <2>6, <2>7, <2>8, <2>9 DEF Refresh
<1>4. ASSUME NEW k \in Jobs, HomeOf[k] = p, Leasing(k)' PROVE Leased(k)'
  <2>1. Leasing(k)  BY <1>0, <1>4 DEF Leasing
  <2> QED BY <1>0, <1>3, <1>4, <2>1, LeaseFacts DEF Leased
<1>5. LeasesAreKept'  BY <1>0 DEF LeaseInv, LeasesAreKept
<1> QED BY <1>0, <1>2, <1>4, <1>5 DEF LeaseInv

\* A tick finds every undisturbed task asleep, with its leases longer than its nap.
LEMMA LeaseTick == ASSUME TypeInv, LeaseInv, Tick PROVE LeaseInv'
<1> DEFINE gone == {a \in Accounts : ttl[a] = 1}
<1>0. /\ job' = Lapsed(gone) /\ UNCHANGED <<profile_locks, cut, stalled, disturbed>>
      /\ lock' = [a \in Accounts |-> IF a \in gone THEN None ELSE lock[a]]
      /\ ttl' = [a \in Accounts |-> IF ttl[a] > 0 THEN ttl[a] - 1 ELSE 0]
      /\ refresher' = [q \in Processes |->
           IF refresher[q].nap > 0 THEN [refresher[q] EXCEPT !.nap = @ - 1] ELSE refresher[q]]
      BY DEF Tick, memory, weather, modes
<1>1. \A k \in Jobs :
        /\ job'[k].at = job[k].at /\ job'[k].account = job[k].account
        /\ job'[k].token = job[k].token /\ job'[k].fallback = job[k].fallback
        /\ job'[k].lapsed <=> \/ job[k].lapsed
                              \/ /\ job[k].at \in Using /\ job[k].account \in gone
                                 /\ job[k].token # None /\ lock[job[k].account] = job[k].token
      BY <1>0, LapsedType
<1>2. ASSUME NEW k \in Jobs, Leasing(k)
      PROVE  /\ job[k].account \notin gone
             /\ Leased(k)'
  <2> DEFINE a == job[k].account
             p == HomeOf[k]
  <2>1. /\ Reached(k) /\ a \in Accounts /\ p \in Processes \ (cut \cup stalled)
        /\ lock[a] = job[k].token /\ profile_locks[p][a] = job[k].token
        /\ ttl[a] \in 0..TTL /\ refresher[p] \in TaskType /\ refresher[p].at # "off"
        BY <1>2, LeaseFacts
  <2>2. refresher[p].at = "sleep" /\ refresher[p].nap > 0  BY <2>1 DEF Tick, Prompt
  <2>3. refresher[p].nap \in 0..Interval  BY <2>1 DEF TaskType
  <2>4. ttl[a] >= refresher[p].nap + (TTL - Interval)  BY <2>1, <2>2 DEF Reached
  <2>5. ttl[a] > 1  BY <2>1, <2>2, <2>3, <2>4, Times
  <2>6. a \notin gone /\ lock'[a] = job[k].token /\ ttl'[a] = ttl[a] - 1  BY <1>0, <2>1, <2>5
  <2>7. refresher'[p].at = "sleep" /\ refresher'[p].nap = refresher[p].nap - 1
        BY <1>0, <2>1, <2>2 DEF TaskType
  <2>8. Reached(k)'  BY <1>1, <2>1, <2>2, <2>3, <2>4, <2>6, <2>7, Times DEF Reached
  <2> QED BY <1>0, <1>1, <2>1, <2>6, <2>8 DEF Leased
<1>3. \A k \in Jobs : Leasing(k)' => Leasing(k)  BY <1>0, <1>1 DEF Leasing
<1>4. ASSUME NEW k \in Jobs, job'[k].lapsed PROVE HomeOf[k] \in disturbed
  <2>1. CASE job[k].lapsed  BY <2>1 DEF LeaseInv, LeasesAreKept
  <2>2. CASE job[k].at \in Using /\ job[k].account \in gone /\ job[k].token # None
    <3>1. ~job[k].fallback  BY <2>2 DEF TypeInv, Shaped, Using
    <3>2. ~Leasing(k)  BY <1>2, <2>2
    <3> QED BY <2>2, <3>1, <3>2 DEF Leasing
  <2> QED BY <1>1, <1>4, <2>1, <2>2
<1>5. LeasesAreKept'  BY <1>0, <1>4 DEF LeasesAreKept
<1> QED BY <1>0, <1>2, <1>3, <1>5 DEF LeaseInv

LEMMA LeaseWorld ==
    ASSUME TypeInv, LeaseInv,
           Flush \/ \E p \in Processes : Crash(p) \/ Cut(p) \/ Mended(p) \/ Stall(p) \/ Unstall(p)
    PROVE  LeaseInv'
<1>1. CASE Flush
  <2>1. disturbed' = Processes /\ cut' = cut /\ stalled' = stalled  BY <1>1 DEF Flush
  <2>2. \A k \in Jobs : HomeOf[k] \in disturbed'  BY <2>1, Typed
  <2> QED BY <2>1, <2>2 DEF LeaseInv, LeasesAreKept, Leasing, TypeInv, TypeOK
<1>2. ASSUME NEW p \in Processes, Crash(p) PROVE LeaseInv'
  <2>1. /\ \A k \in Jobs : /\ HomeOf[k] = p => job'[k] = Closed
                           /\ HomeOf[k] # p => job'[k] = job[k]
        /\ UNCHANGED <<lock, ttl, cut, disturbed>> /\ stalled' = stalled \ {p}
        /\ \A q \in Processes \ {p} : /\ refresher'[q] = refresher[q]
                                      /\ profile_locks'[q] = profile_locks[q]
        BY <1>2, Typed DEF Crash, TypeInv, TypeOK
  <2>2. ASSUME NEW k \in Jobs, HomeOf[k] # p PROVE Leasing(k)' => Leased(k)'
    <3>1. HomeOf[k] \in Processes \ {p}  BY <2>2, Typed
    <3> QED BY <2>1, <2>2, <3>1, LeaseStays
  <2>3. ASSUME NEW k \in Jobs, HomeOf[k] = p PROVE ~Leasing(k)' /\ ~job'[k].lapsed
        BY <2>1, <2>3, Terms DEF Leasing, Using
  <2>4. LeasesAreKept'  BY <2>1, <2>3 DEF LeaseInv, LeasesAreKept
  <2> QED BY <2>1, <2>2, <2>3, <2>4 DEF LeaseInv
<1>3. ASSUME NEW p \in Processes, Cut(p) \/ Mended(p) \/ Stall(p) \/ Unstall(p) PROVE LeaseInv'
  <2>1. UNCHANGED <<lock, ttl, profile_locks, refresher, job>> /\ disturbed \subseteq disturbed'
        BY <1>3 DEF Cut, Mended, Stall, Unstall, Befalls, Passes, redis, memory
  <2>2. cut' \cup stalled' \subseteq disturbed'
        BY <1>3 DEF Cut, Mended, Stall, Unstall, Befalls, Passes, LeaseInv
  <2>3. \A k \in Jobs : Leasing(k)' => Leased(k)'  BY <2>1, LeaseStays
  <2>4. LeasesAreKept'  BY <2>1 DEF LeaseInv, LeasesAreKept
  <2> QED BY <2>2, <2>3, <2>4 DEF LeaseInv
<1> QED BY <1>1, <1>2, <1>3

LEMMA LeaseNext == ASSUME TypeInv, GuardInv, LeaseInv, [Next]_vars PROVE LeaseInv'
<1>1. CASE UNCHANGED vars
  <2>1. UNCHANGED <<lock, ttl, profile_locks, refresher, job, cut, stalled, disturbed>>
        BY <1>1 DEF vars, redis, memory, weather, modes
  <2>2. \A k \in Jobs : Leasing(k)' => Leased(k)'  BY <2>1, LeaseStays
  <2> QED BY <2>1, <2>2 DEF LeaseInv, LeasesAreKept
<1>2. ASSUME NEW j \in Jobs, JobStep(j) PROVE LeaseInv'
  <2>1. ASSUME NEW a \in Accounts, Acquire(j, a) \/ AcquireFallback(j, a) \/ AcquireReplyLost(j, a)
        PROVE  LeaseInv'
        BY <2>1, LeaseOpens
  <2>2. CASE Launched(j) \/ LaunchFails(j) \/ CloseContext(j) \/ SetupFails(j) \/ Stopped(j)
        BY <2>2, LeaseMoves DEF Launched, LaunchFails, CloseContext, SetupFails, Stopped, Using
  <2> QED BY <1>2, <2>1, <2>2, LeaseRelease, LeaseDelete DEF JobStep
<1> QED BY <1>1, <1>2, LeaseRefresh, LeaseTick, LeaseWorld DEF Next

\* An open browser of an undisturbed process keeps its lease, for every TTL longer
\* than the interval and whatever the other browsers of the process do.
THEOREM LeasesLast == Spec => []LeasesAreKept
<1>1. LeaseInv => LeasesAreKept  BY DEF LeaseInv
<1> QED BY <1>1, Guarded, LeaseInit, LeaseNext, PTL DEF Spec
=============================================================================
