---------------------------- MODULE ProfileLock ----------------------------
(***************************************************************************)
(* The lock on a Divar number's browser profile (app/scraper/stealth.py).  *)
(* A job that opens a profile takes a Redis key with a fresh token and a    *)
(* TTL; one task per process extends the keys its process holds; closing    *)
(* the browser deletes the key if it still carries the token.  Without      *)
(* Redis the process's own set of open profiles is the guard.  Time is      *)
(* counted in refresh intervals (30 s).                                     *)
(***************************************************************************)
EXTENDS Naturals, FiniteSets

CONSTANTS
  Processes,   \* worker and api processes, each with its own memory
  Jobs,        \* the scrapes and logins that open browsers
  HomeOf,      \* the process a job lives in
  Accounts,    \* Divar numbers, one profile directory each
  None,
  TTL,         \* _PROFILE_LOCK_TTL, in refresh intervals
  Interval,    \* _PROFILE_REFRESH_INTERVAL
  MaxOpens,    \* bound: openings per job
  MaxFaults,   \* bound: faults of any kind
  Faults       \* which kinds there are

ASSUME Homes == HomeOf \in [Jobs -> Processes]
ASSUME Times == /\ TTL \in Nat /\ Interval \in Nat
                /\ 0 < Interval /\ Interval < TTL
ASSUME Bounds == MaxOpens \in Nat /\ MaxFaults \in Nat
ASSUME NoneIsNone ==
  None \notin Accounts \cup (Jobs \X Nat) \cup (Accounts \X (Jobs \X Nat))
ASSUME Kinds == Faults \subseteq {"crash", "cut", "stall", "flush", "reply", "setup"}

VARIABLES
  lock, ttl,         \* Redis: the token in sf:profile:{account}, its time left
  clean,             \* jobs whose WATCH has seen no write yet
  profile_locks,     \* _profile_locks of each process
  in_use,            \* _PROFILES_IN_USE of each process
  refresher,         \* the refresh task of each process
  job,               \* where each job's browser is, and what it releases with
  opens,             \* tokens drawn so far
  cut, stalled,      \* processes that cannot reach Redis, whose loop is blocked
  disturbed,         \* processes that ever were, or met a flush
  faults

redis   == <<lock, ttl, clean>>
memory  == <<profile_locks, in_use>>
modes   == <<cut, stalled, disturbed>>
weather == <<modes, faults>>
vars == <<redis, memory, refresher, job, opens, weather>>

Tokens == Jobs \X (1..MaxOpens)
Items  == Accounts \X Tokens

Closed == [at |-> "closed", account |-> None, token |-> None,
           fallback |-> FALSE, lapsed |-> FALSE]
Off    == [at |-> "off", nap |-> 0, todo |-> {}, item |-> None]

TypeOK ==
  /\ lock \in [Accounts -> Tokens \cup {None}]
  /\ ttl \in [Accounts -> 0..TTL]
  /\ clean \subseteq Jobs
  /\ profile_locks \in [Processes -> [Accounts -> Tokens \cup {None}]]
  /\ in_use \in [Processes -> SUBSET Accounts]
  /\ refresher \in [Processes ->
       [at : {"off", "sleep", "pass"}, nap : 0..Interval,
        todo : SUBSET Items, item : Items \cup {None}]]
  /\ job \in [Jobs ->
       [at : {"closed", "opening", "open", "leaked", "lost", "release", "delete"},
        account : Accounts \cup {None}, token : Tokens \cup {None},
        fallback : BOOLEAN, lapsed : BOOLEAN]]
  /\ opens \in [Jobs -> 0..MaxOpens]
  /\ cut \subseteq Processes /\ stalled \subseteq Processes
  /\ disturbed \subseteq Processes
  /\ faults \in 0..MaxFaults

Init ==
  /\ lock = [a \in Accounts |-> None] /\ ttl = [a \in Accounts |-> 0]
  /\ clean = {}
  /\ profile_locks = [p \in Processes |-> [a \in Accounts |-> None]]
  /\ in_use = [p \in Processes |-> {}]
  /\ refresher = [p \in Processes |-> Off]
  /\ job = [j \in Jobs |-> Closed]
  /\ opens = [j \in Jobs |-> 0]
  /\ cut = {} /\ stalled = {} /\ disturbed = {} /\ faults = 0

-----------------------------------------------------------------------------
\* Chromium may be up on the profile: from the launch to context.close().
Using == {"opening", "open", "leaked"}
UsersOf(a) == {j \in Jobs : job[j].account = a /\ job[j].at \in Using}

Runs(p)    == p \notin stalled
Reaches(p) == p \notin cut
Fault(kind) == /\ kind \in Faults /\ faults < MaxFaults
               /\ faults' = faults + 1

\* A write to the key fails the EXEC of whoever watches it.
Touched(a) == clean \ {j \in Jobs : job[j].account = a}

Lapsed(S) == [j \in Jobs |->
  IF job[j].at \in Using /\ job[j].account \in S
       /\ job[j].token # None /\ lock[job[j].account] = job[j].token
  THEN [job[j] EXCEPT !.lapsed = TRUE] ELSE job[j]]

-----------------------------------------------------------------------------
\* The refresh task.

Holding(p) == {a \in Accounts : profile_locks[p][a] # None}

Sleep == [at |-> "sleep", nap |-> Interval, todo |-> {}, item |-> None]
Pass(todo, item) == [at |-> "pass", nap |-> 0, todo |-> todo, item |-> item]

\* `while _profile_locks`: sleep again, or end.
LoopTop(p) == IF Holding(p) = {} THEN Off ELSE Sleep

Rest(p, todo) == IF todo = {} THEN LoopTop(p) ELSE Pass(todo, None)

Wake(p) ==
  /\ Runs(p) /\ refresher[p].at = "sleep" /\ refresher[p].nap = 0
  /\ refresher' = [refresher EXCEPT
       ![p] = Rest(p, {<<a, profile_locks[p][a]>> : a \in Holding(p)})]
  /\ UNCHANGED <<redis, memory, job, opens, weather>>

RefreshGet(p) ==
  /\ Runs(p) /\ Reaches(p) /\ refresher[p].at = "pass" /\ refresher[p].item = None
  /\ \E i \in refresher[p].todo :
       refresher' = [refresher EXCEPT ![p] =
         IF lock[i[1]] = i[2] THEN Pass(@.todo \ {i}, i) ELSE Rest(p, @.todo \ {i})]
  /\ UNCHANGED <<redis, memory, job, opens, weather>>

\* EXPIRE does not look at the token: it extends whoever holds the key now.
RefreshExpire(p) ==
  /\ Runs(p) /\ Reaches(p) /\ refresher[p].item # None
  /\ LET a == refresher[p].item[1] IN
       IF lock[a] = None THEN UNCHANGED redis
       ELSE /\ ttl' = [ttl EXCEPT ![a] = TTL]
            /\ clean' = Touched(a)
            /\ UNCHANGED lock
  /\ refresher' = [refresher EXCEPT ![p] = Rest(p, @.todo)]
  /\ UNCHANGED <<memory, job, opens, weather>>

\* Redis raises: the whole pass is given up until the next interval.
PassFails(p) ==
  /\ Runs(p) /\ ~Reaches(p) /\ refresher[p].at = "pass"
  /\ refresher' = [refresher EXCEPT ![p] = LoopTop(p)]
  /\ UNCHANGED <<redis, memory, job, opens, weather>>

Refresh(p) == Wake(p) \/ RefreshGet(p) \/ RefreshExpire(p) \/ PassFails(p)

\* Mutant of Ensured: a task that ended is not started again.
NotEnsured(p) == refresher

Ensured(p) == IF refresher[p].at = "off" THEN [refresher EXCEPT ![p] = Sleep]
              ELSE refresher

-----------------------------------------------------------------------------
\* Opening and closing a browser.

May(j) == Runs(HomeOf[j]) /\ job[j].at = "closed" /\ opens[j] < MaxOpens
Drawn(j) == <<j, opens[j] + 1>>
Opening(j, a, t, fb) ==
  /\ job' = [job EXCEPT ![j] = [at |-> "opening", account |-> a, token |-> t,
                                 fallback |-> fb, lapsed |-> FALSE]]
  /\ opens' = [opens EXCEPT ![j] = @ + 1]

\* Mutant of SetNX: without NX.
SetAlways(j, a) == /\ lock' = [lock EXCEPT ![a] = Drawn(j)]
                   /\ ttl' = [ttl EXCEPT ![a] = TTL]
                   /\ clean' = Touched(a)

\* SET NX EX.  A taken key refuses the job, which changes nothing.
SetNX(j, a) == /\ lock[a] = None
               /\ lock' = [lock EXCEPT ![a] = Drawn(j)]
               /\ ttl' = [ttl EXCEPT ![a] = TTL]
               /\ clean' = Touched(a)

Acquire(j, a) ==
  LET p == HomeOf[j] IN
  /\ May(j) /\ Reaches(p)
  /\ SetNX(j, a)
  /\ profile_locks' = [profile_locks EXCEPT ![p][a] = Drawn(j)]
  /\ refresher' = Ensured(p)
  /\ Opening(j, a, Drawn(j), FALSE)
  /\ UNCHANGED <<in_use, weather>>

\* Mutant of FallBack: the process's own set is not asked.
FallBackAnyway(j, a) == /\ in_use' = [in_use EXCEPT ![HomeOf[j]] = @ \cup {a}]
                        /\ Opening(j, a, None, TRUE)

\* The set knows the profiles opened without Redis, not those opened with it.
FallBack(j, a) ==
  /\ a \notin in_use[HomeOf[j]]
  /\ in_use' = [in_use EXCEPT ![HomeOf[j]] = @ \cup {a}]
  /\ Opening(j, a, None, TRUE)

AcquireFallback(j, a) ==
  /\ May(j) /\ ~Reaches(HomeOf[j])
  /\ FallBack(j, a)
  /\ UNCHANGED <<redis, profile_locks, refresher, weather>>

\* The key was set and the answer lost: it stays until its TTL.
AcquireReplyLost(j, a) ==
  /\ May(j) /\ Reaches(HomeOf[j])
  /\ SetNX(j, a)
  /\ FallBack(j, a)
  /\ Fault("reply")
  /\ UNCHANGED <<profile_locks, refresher, modes>>

Moves(j, from, to) ==
  /\ Runs(HomeOf[j]) /\ job[j].at = from
  /\ job' = [job EXCEPT ![j].at = to]
  /\ UNCHANGED <<redis, memory, refresher, opens, modes>>

Launched(j)     == Moves(j, "opening", "open") /\ UNCHANGED faults
LaunchFails(j)  == Moves(j, "opening", "release") /\ UNCHANGED faults
CloseContext(j) == Moves(j, "open", "release") /\ UNCHANGED faults

\* The first page or its device fails after the launch: nothing releases.
SetupFails(j)   == Moves(j, "opening", "leaked") /\ Fault("setup")
Stopped(j)      == Moves(j, "leaked", "lost") /\ UNCHANGED faults

\* Mutant of Forget: the entry stays with the refresher.
ForgetNothing(j) == UNCHANGED profile_locks

\* _profile_locks.pop(rkey), whoever of this process put it there.
Forget(j) == profile_locks' = [profile_locks EXCEPT ![HomeOf[j]][job[j].account] = None]

Release(j) ==
  LET p == HomeOf[j]
      a == job[j].account
  IN /\ Runs(p) /\ job[j].at = "release"
     /\ IF job[j].fallback
        THEN /\ in_use' = [in_use EXCEPT ![p] = @ \ {a}]
             /\ job' = [job EXCEPT ![j] = Closed]
             /\ UNCHANGED <<profile_locks, clean>>
        ELSE /\ Forget(j)
             /\ IF Reaches(p) /\ lock[a] = job[j].token
                THEN job' = [job EXCEPT ![j].at = "delete"] /\ clean' = clean \cup {j}
                ELSE job' = [job EXCEPT ![j] = Closed] /\ UNCHANGED clean
             /\ UNCHANGED in_use
     /\ UNCHANGED <<lock, ttl, refresher, opens, weather>>

Unwatched(j) == j \in clean

\* EXEC: the key goes, unless it was written since WATCH.
Delete(j) ==
  LET a == job[j].account IN
  /\ Runs(HomeOf[j]) /\ job[j].at = "delete"
  /\ IF Reaches(HomeOf[j]) /\ Unwatched(j)
     THEN /\ lock' = [lock EXCEPT ![a] = None]
          /\ ttl' = [ttl EXCEPT ![a] = 0]
          /\ clean' = Touched(a)
     ELSE clean' = clean \ {j} /\ UNCHANGED <<lock, ttl>>
  /\ job' = [job EXCEPT ![j] = Closed]
  /\ UNCHANGED <<memory, refresher, opens, weather>>

-----------------------------------------------------------------------------
\* Time and faults.

\* A process that is not stalled ends a pass before the next interval does.
Prompt == \A p \in Processes \ stalled :
            refresher[p].at = "off" \/ (refresher[p].at = "sleep" /\ refresher[p].nap > 0)

Tick ==
  LET gone == {a \in Accounts : ttl[a] = 1} IN
  /\ Prompt
  /\ \/ \E a \in Accounts : ttl[a] > 0
     \/ \E p \in Processes : refresher[p].nap > 0
  /\ lock' = [a \in Accounts |-> IF a \in gone THEN None ELSE lock[a]]
  /\ ttl' = [a \in Accounts |-> IF ttl[a] > 0 THEN ttl[a] - 1 ELSE 0]
  /\ job' = Lapsed(gone)
  /\ refresher' = [p \in Processes |->
       IF refresher[p].nap > 0 THEN [refresher[p] EXCEPT !.nap = @ - 1] ELSE refresher[p]]
  /\ UNCHANGED <<clean, memory, opens, weather>>

\* The process dies, its Chromiums with it, and starts again empty.
Crash(p) ==
  /\ Fault("crash")
  /\ job' = [j \in Jobs |-> IF HomeOf[j] = p THEN Closed ELSE job[j]]
  /\ clean' = {j \in clean : HomeOf[j] # p}
  /\ profile_locks' = [profile_locks EXCEPT ![p] = [a \in Accounts |-> None]]
  /\ in_use' = [in_use EXCEPT ![p] = {}]
  /\ refresher' = [refresher EXCEPT ![p] = Off]
  /\ stalled' = stalled \ {p}
  /\ UNCHANGED <<lock, ttl, opens, cut, disturbed>>

Befalls(kind, p) == /\ Fault(kind)
                    /\ disturbed' = disturbed \cup {p}
                    /\ UNCHANGED <<redis, memory, refresher, job, opens>>
Passes == UNCHANGED <<redis, memory, refresher, job, opens, disturbed, faults>>

Cut(p)     == Befalls("cut", p) /\ cut' = cut \cup {p} /\ UNCHANGED stalled
Mended(p)  == p \in cut /\ cut' = cut \ {p} /\ UNCHANGED stalled /\ Passes
Stall(p)   == Befalls("stall", p) /\ stalled' = stalled \cup {p} /\ UNCHANGED cut
Unstall(p) == p \in stalled /\ stalled' = stalled \ {p} /\ UNCHANGED cut /\ Passes

Flush ==
  /\ Fault("flush")
  /\ job' = Lapsed(Accounts)
  /\ lock' = [a \in Accounts |-> None] /\ ttl' = [a \in Accounts |-> 0]
  /\ clean' = {} /\ disturbed' = Processes
  /\ UNCHANGED <<memory, refresher, opens, cut, stalled>>

JobStep(j) ==
  \/ \E a \in Accounts : Acquire(j, a) \/ AcquireFallback(j, a) \/ AcquireReplyLost(j, a)
  \/ Launched(j) \/ LaunchFails(j) \/ SetupFails(j) \/ Stopped(j)
  \/ CloseContext(j) \/ Release(j) \/ Delete(j)

Next ==
  \/ \E j \in Jobs : JobStep(j)
  \/ \E p \in Processes : Refresh(p)
  \/ Tick
  \/ \E p \in Processes : Crash(p) \/ Cut(p) \/ Mended(p) \/ Stall(p) \/ Unstall(p)
  \/ Flush

\* Time passes, and the refresh task of a process that is not blocked takes its
\* next step: it awaits a sleep or one Redis command.
Fairness == WF_vars(Tick) /\ \A p \in Processes : WF_vars(Refresh(p))

Spec == Init /\ [][Next]_vars
FairSpec == Spec /\ Fairness
-----------------------------------------------------------------------------
\* While its process runs and reaches Redis an open browser keeps its lease,
\* whichever browsers of the process come and go: the one refresh task ends
\* when nothing is held and is there again when something is
\* (stealth.py:336-371).
LeasesAreKept == \A j \in Jobs : job[j].lapsed => HomeOf[j] \in disturbed

\* Two browsers share a profile only across the boundary of the guard: the
\* lease of one lapsed under it, or one was opened without Redis and the other
\* with it, or both without Redis in different processes (stealth.py:290-299).
OnlyLapsesShare ==
  \A a \in Accounts : \A j, k \in UsersOf(a) :
    \/ j = k
    \/ job[j].lapsed \/ job[k].lapsed
    \/ job[j].fallback # job[k].fallback
    \/ job[j].fallback /\ HomeOf[j] # HomeOf[k]

\* Whatever happens, a lock goes from Redis by its own holder's release, with
\* its time run out, or in a flush: a release or a refresh that comes late
\* never takes or overwrites the lock of somebody who took it since
\* (_compare_and_delete, _refresh_profile_locks).
OnlyTheHolderLetsGo ==
  [][\A a \in Accounts : lock'[a] # lock[a] /\ lock[a] # None =>
       \/ lock'[a] = None /\ ttl[a] = 1 /\ ttl'[a] = 0
       \/ \A b \in Accounts : lock'[b] = None /\ faults' = faults + 1
       \/ /\ lock'[a] = None
          /\ \E j \in Jobs : /\ job[j].at = "delete" /\ job'[j].at = "closed"
                             /\ job[j].account = a /\ job[j].token = lock[a]]_vars

\* A number whose browsers are all closed becomes free again: after a release
\* that failed, a crash, a lost answer, at the latest when the TTL has passed
\* (stealth.py:444-446).
IdleProfile(a) == \A j \in Jobs : job[j].account # a
EveryLockIsFreed ==
  \A a \in Accounts : (lock[a] # None /\ IdleProfile(a))
                         ~> (lock[a] = None \/ ~IdleProfile(a))

\* The lock keeps the guard's promise: see ProfileGuard.
Guard == INSTANCE ProfileGuard WITH
  users <- [a \in Accounts |-> UsersOf(a)],
  excused <- {j \in Jobs : job[j].at \in Using /\ (job[j].fallback \/ job[j].lapsed)}
KeepsTheGuard == Guard!Spec
=============================================================================
