----------------------- MODULE ScrapeSchedulerProofs -----------------------
(***************************************************************************)
(* Theorems about ScrapeScheduler for every set of schedules, tasks and     *)
(* requests, every length of the day, and every number of faults.           *)
(***************************************************************************)
EXTENDS ScrapeScheduler, Integers, TLAPS

(* The next hour.                                                           *)

LEMMA DivBounds ==
    ASSUME NEW n \in Nat, NEW d \in Nat \ {0}
    PROVE  /\ d * (n \div d) \in Nat
           /\ d * (n \div d) <= n
           /\ n < d * (n \div d) + d
<1>1. n \div d \in Nat /\ n % d \in Int /\ 0 <= n % d /\ n % d < d  OBVIOUS
<1>2. n = d * (n \div d) + (n % d)  OBVIOUS
<1>3. d * (n \div d) \in Int  BY <1>1
<1> QED BY <1>1, <1>2, <1>3

\* next_occurrence is strictly after now, and within a day of it.
LEMMA NextIsLater ==
    ASSUME NEW h \in Hours, NEW now \in Nat
    PROVE  /\ NextOccurrence(h, now) \in Nat
           /\ NextOccurrence(h, now) > now
           /\ NextOccurrence(h, now) <= now + Day
<1> DEFINE target == Day * (now \div Day) + h
<1>1. h \in Nat /\ h < Day /\ Day \in Nat /\ Day > 0  BY Bounds DEF Hours
<1>2. /\ Day * (now \div Day) \in Nat
      /\ Day * (now \div Day) <= now
      /\ now < Day * (now \div Day) + Day
      BY Bounds, DivBounds
<1>3. target \in Nat /\ target < now + Day /\ now < target + Day  BY <1>1, <1>2
<1>4. NextOccurrence(h, now) = IF target <= now THEN target + Day ELSE target
      BY DEF NextOccurrence
<1> HIDE DEF target
<1> QED BY <1>1, <1>3, <1>4

-----------------------------------------------------------------------------
(* Type correctness, and one loop at a time.                                *)

\* The only task that may be under way is the one the supervisor watches.
OneLoop == \A l \in Loops : proc[l].at # "off" => watched = l

\* A task holds what it read only while it fires.
Shaped(t) ==
  /\ t.at \notin {"fire", "record", "cancel"} => t.due = {} /\ t.cur = None
  /\ t.at = "fire" => t.cur = None
  /\ t.at = "record" => t.cur # None
  /\ t.cur = None => ~t.job
Shape == \A p \in Procs : Shaped(proc[p])

TypeInv == TypeOK /\ OneLoop /\ Shape

LEMMA TypeInit == Init => TypeInv
<1> SUFFICES ASSUME Init PROVE TypeInv OBVIOUS
<1>1. /\ clock \in 0..Horizon /\ row \in [Schedules -> Rows \cup {Unborn, Gone}]
      /\ watched \in Loops \cup {None} /\ doings \in 0..MaxDoings /\ faults \in 0..MaxFaults
      /\ jobs \in [Schedules \X Times -> Nat] /\ cut \in [Schedules \X Times -> Nat]
      BY Bounds DEF Init
<1>2. Task("off") \in Tasks  BY DEF Task, Tasks
<1>3. /\ proc \in [Procs -> Tasks]
      /\ \A p \in Procs : proc[p].at = "off" /\ proc[p].due = {} /\ proc[p].cur = None /\ ~proc[p].job
      BY <1>2 DEF Init, Task
<1> QED BY <1>1, <1>3 DEF TypeInv, TypeOK, OneLoop, Shape, Shaped, Procs

LEMMA Fields ==
    ASSUME TypeInv, NEW p \in Procs
    PROVE  /\ proc[p] \in Tasks
           /\ proc[p].due \subseteq Entries
           /\ proc[p].cur \in Entries \cup {None}
           /\ proc[p].job \in BOOLEAN
           /\ Shaped(proc[p])
BY DEF TypeInv, TypeOK, Tasks, Shape

LEMMA EntryType ==
    ASSUME NEW e \in Entries
    PROVE  e.id \in Schedules /\ e.hour \in Hours /\ e.occ \in Times
BY DEF Entries

LEMMA ClockType == TypeInv => clock \in Nat /\ clock <= Horizon
BY Bounds DEF TypeInv, TypeOK

LEMMA SavedType ==
    ASSUME TypeInv, NEW s \in Schedules, Saved(s)
    PROVE  row[s] \in Rows /\ Entry(s) \in Entries
BY DEF TypeInv, TypeOK, Saved, Entry, Entries, Rows

\* The row next_run_at is written to: the new hour is ahead, unless nothing is written.
LEMMA RecordedIs ==
    ASSUME TypeInv, NEW e \in Entries, Saved(e.id)
    PROVE  /\ Recorded(e) \in [Schedules -> Rows \cup {Unborn, Gone}]
           /\ \A s \in Schedules : Recorded(e)[s] # row[s] => s = e.id
           /\ \A s \in Schedules : Recorded(e)[s] = row[s] \/ Recorded(e)[s].next > clock
           /\ e.occ <= clock => Recorded(e)[e.id].next > clock
<1> DEFINE next == NextOccurrence(e.hour, clock)
<1>1. e.id \in Schedules /\ e.hour \in Hours /\ e.occ \in Times  BY EntryType
<1>2. next \in Nat /\ next > clock /\ next <= clock + Day
      BY <1>1, ClockType, NextIsLater
<1>3. next \in Times  BY <1>2, Bounds, ClockType DEF Times
<1>4. row \in [Schedules -> Rows \cup {Unborn, Gone}]  BY DEF TypeInv, TypeOK
<1>5. Recorded(e) = IF next = e.occ THEN row ELSE [row EXCEPT ![e.id].next = next]
      BY DEF Recorded
<1>6. row[e.id] \in Rows  BY <1>1, SavedType
<1>7. [row[e.id] EXCEPT !.next = next] \in Rows  BY <1>3, <1>6 DEF Rows
<1>8. [row[e.id] EXCEPT !.next = next].next = next  BY <1>6 DEF Rows
<1>9. e.occ \in Nat  BY <1>1, Bounds DEF Times
<1> HIDE DEF next
<1>10. CASE next = e.occ
       BY <1>10, <1>2, <1>4, <1>5, <1>9, ClockType
<1>11. CASE next # e.occ
       <2>1. Recorded(e) = [row EXCEPT ![e.id] = [row[e.id] EXCEPT !.next = next]]
             BY <1>11, <1>5
       <2> QED BY <2>1, <1>1, <1>2, <1>4, <1>7, <1>8
<1> QED BY <1>10, <1>11

LEMMA ArmedIs ==
    ASSUME TypeInv, NEW on \in BOOLEAN, NEW h \in Hours
    PROVE  Armed(on, h) \in Rows /\ Armed(on, h).next > clock
<1>1. /\ NextOccurrence(h, clock) \in Nat /\ NextOccurrence(h, clock) > clock
      /\ NextOccurrence(h, clock) <= clock + Day
      BY ClockType, NextIsLater
<1>2. NextOccurrence(h, clock) \in Times  BY <1>1, Bounds, ClockType DEF Times
<1> QED BY <1>1, <1>2 DEF Armed, Rows

LEMMA PlusIs ==
    ASSUME NEW count \in [Schedules \X Times -> Nat], NEW p, NEW e \in Entries
    PROVE  /\ Plus(count, p, e) \in [Schedules \X Times -> Nat]
           /\ p \in Loops => Plus(count, p, e)[<<e.id, e.occ>>] = count[<<e.id, e.occ>>] + 1
           /\ \A o \in Schedules \X Times :
                o # <<e.id, e.occ>> => Plus(count, p, e)[o] = count[o]
           /\ p \notin Loops => Plus(count, p, e) = count
BY EntryType DEF Plus

LEMMA TaskIs ==
    ASSUME NEW at \in {"off", "delay", "idle", "done"}
    PROVE  /\ Task(at) \in Tasks /\ Shaped(Task(at))
           /\ Task(at).at = at /\ Task(at).due = {} /\ Task(at).cur = None
BY DEF Task, Tasks, Shaped

LEMMA OverIs ==
    ASSUME NEW p
    PROVE  /\ Over(p) \in Tasks /\ Shaped(Over(p)) /\ Over(p).at # "off"
           /\ Over(p).due = {} /\ Over(p).cur = None
<1>1. CASE p \in Loops     BY <1>1, TaskIs DEF Over
<1>2. CASE p \notin Loops  BY <1>2, TaskIs DEF Over
<1> QED BY <1>1, <1>2

LEMMA FireIs ==
    ASSUME NEW D \in SUBSET Entries
    PROVE  LET t == [Task("fire") EXCEPT !.due = D]
           IN /\ t \in Tasks /\ Shaped(t)
              /\ t.at = "fire" /\ t.due = D /\ t.cur = None
BY DEF Task, Tasks, Shaped

LEMMA FiredIs ==
    ASSUME TypeInv, NEW p \in Procs, NEW e \in Entries, NEW job \in BOOLEAN
    PROVE  /\ Fired(p, e, job) \in Tasks /\ Shaped(Fired(p, e, job))
           /\ Fired(p, e, job).at = "record" /\ Fired(p, e, job).cur = e
           /\ Fired(p, e, job).due = proc[p].due \ {e} /\ Fired(p, e, job).job = job
<1>1. proc[p].due \ {e} \in SUBSET Entries  BY Fields
<1> QED BY <1>1, NoneIsNoEntry DEF Fired, Tasks, Shaped

\* One task moves on: it keeps the shape of a task, and is the watched one.
LEMMA OneMoves ==
    ASSUME TypeInv, NEW p \in Procs, NEW t \in Tasks, Shaped(t),
           proc' = [proc EXCEPT ![p] = t],
           watched' = watched \/ (p \in Loops /\ watched' = p /\ \A l \in Loops : proc[l].at = "off"),
           p \in Loops /\ t.at # "off" => watched' = p
    PROVE  /\ proc' \in [Procs -> Tasks] /\ watched' \in Loops \cup {None}
           /\ OneLoop' /\ Shape'
<1>1. proc \in [Procs -> Tasks] /\ watched \in Loops \cup {None} /\ OneLoop /\ Shape
      BY DEF TypeInv, TypeOK
<1>2. \A q \in Procs : proc'[q] = IF q = p THEN t ELSE proc[q]  BY <1>1
<1>3. Shape'  BY <1>1, <1>2 DEF Shape
<1>4. OneLoop'  BY <1>1, <1>2 DEF OneLoop, Procs
<1> QED BY <1>1, <1>3, <1>4

\* One loop at a time is the supervisor's promise.
LEMMA OneAtATime == OneLoop => \A l, m \in Loops : proc[l].at # "off" /\ proc[m].at # "off" => l = m
BY DEF OneLoop

LEMMA LandsType ==
    ASSUME TypeInv, NEW p \in Procs, Lands(p) \/ Lost(p)
    PROVE  /\ row' \in [Schedules -> Rows \cup {Unborn, Gone}]
           /\ jobs' \in [Schedules \X Times -> Nat] /\ cut' \in [Schedules \X Times -> Nat]
<1>1. /\ row \in [Schedules -> Rows \cup {Unborn, Gone}]
      /\ jobs \in [Schedules \X Times -> Nat] /\ cut \in [Schedules \X Times -> Nat]
      BY DEF TypeInv, TypeOK
<1>2. CASE Lost(p)
      <2>1. CASE proc[p].cur = None
            BY <1>1, <1>2, <2>1, Fields DEF Lost, CutOff, Shaped
      <2>2. CASE proc[p].cur \in Entries
            BY <1>1, <1>2, <2>2, PlusIs DEF Lost, CutOff
      <2> QED BY <2>1, <2>2, Fields
<1>3. CASE proc[p].cur = None /\ Lands(p)
      <2>1. PICK e \in Earliest(p) : jobs' = Plus(jobs, p, e) /\ cut' = Plus(cut, p, e)
            BY <1>3 DEF Lands
      <2>2. e \in Entries /\ row' = row  BY <1>3, Fields DEF Earliest, Lands
      <2> QED BY <1>1, <2>1, <2>2, PlusIs
<1>4. CASE proc[p].cur # None /\ Lands(p)
      <2>1. proc[p].cur \in Entries /\ Saved(proc[p].cur.id)  BY <1>4, Fields DEF Lands
      <2> QED BY <1>1, <1>4, <2>1, RecordedIs DEF Lands
<1> QED BY <1>2, <1>3, <1>4

LEMMA CountsType ==
    ASSUME TypeInv
    PROVE  /\ Does => doings' \in 0..MaxDoings
           /\ Faulty => faults' \in 0..MaxFaults
BY Bounds DEF TypeInv, TypeOK, Does, Faulty

LEMMA TypePeople ==
    ASSUME TypeInv,
           \/ Tock
           \/ \E s \in Schedules : Create(s) \/ Edit(s) \/ Delete(s) \/ \E c \in Clicks : Click(c, s)
    PROVE  TypeInv'
<1> USE DEF TypeInv
<1>1. TypeOK /\ OneLoop /\ Shape  OBVIOUS
<1>2. CASE Tock
      BY <1>2, Bounds DEF Tock, TypeOK, OneLoop, Shape
<1>3. ASSUME NEW s \in Schedules, Create(s) \/ Edit(s) PROVE TypeInv'
      <2>1. PICK on \in BOOLEAN, h \in Hours : row' = [row EXCEPT ![s] = Armed(on, h)]
            BY <1>3 DEF Create, Edit
      <2>2. row' \in [Schedules -> Rows \cup {Unborn, Gone}]  BY <2>1, ArmedIs DEF TypeOK
      <2>3. /\ UNCHANGED <<clock, proc, watched, jobs, cut, faults>>
            /\ UNCHANGED doings \/ Does
            BY <1>3 DEF Create, Edit
      <2> QED BY <2>2, <2>3, CountsType DEF TypeOK, OneLoop, Shape
<1>4. ASSUME NEW s \in Schedules, Delete(s) PROVE TypeInv'
      BY <1>4, CountsType DEF Delete, TypeOK, OneLoop, Shape
<1>5. ASSUME NEW s \in Schedules, NEW c \in Clicks, Click(c, s) PROVE TypeInv'
      <2>1. {Entry(s)} \in SUBSET Entries /\ c \in Procs /\ c \notin Loops
            BY <1>5, SavedType, Parts DEF Click, Procs
      <2>2. /\ proc' = [proc EXCEPT ![c] = [Task("fire") EXCEPT !.due = {Entry(s)}]]
            /\ UNCHANGED <<clock, row, watched, jobs, cut, faults>> /\ Does
            BY <1>5 DEF Click
      <2>3. /\ proc' \in [Procs -> Tasks] /\ watched' \in Loops \cup {None}
            /\ OneLoop' /\ Shape'
            BY <2>1, <2>2, FireIs, OneMoves
      <2>4. doings' \in 0..MaxDoings  BY <2>2, CountsType
      <2> QED BY <2>2, <2>3, <2>4, OneAtATime DEF TypeOK, OneLoop
<1> QED BY <1>2, <1>3, <1>4, <1>5

\* A step of one task leaves the clock alone.
LEMMA TypeStep ==
    ASSUME TypeInv, clock' = clock,
           doings' = doings, faults' = faults \/ Faulty,
           row' \in [Schedules -> Rows \cup {Unborn, Gone}],
           jobs' \in [Schedules \X Times -> Nat], cut' \in [Schedules \X Times -> Nat],
           proc' \in [Procs -> Tasks], watched' \in Loops \cup {None}, OneLoop', Shape'
    PROVE  TypeInv'
<1>1. faults' \in 0..MaxFaults  BY CountsType DEF TypeInv, TypeOK
<1>2. \A l, m \in Loops : proc'[l].at # "off" /\ proc'[m].at # "off" => l = m
      BY DEF OneLoop
<1> QED BY <1>1, <1>2 DEF TypeInv, TypeOK

LEMMA DataType ==
    TypeInv => /\ row \in [Schedules -> Rows \cup {Unborn, Gone}]
               /\ jobs \in [Schedules \X Times -> Nat] /\ cut \in [Schedules \X Times -> Nat]
               /\ proc \in [Procs -> Tasks] /\ OneLoop /\ Shape
BY DEF TypeInv, TypeOK

LEMMA TypeFire ==
    ASSUME TypeInv, NEW p \in Procs, Fire(p)
    PROVE  TypeInv'
<1>1. p \in Loops => watched = p
      BY DEF Fire, Launch, Refuse, Record, RecordOfGone, TypeInv, OneLoop
<1>2. CASE Launch(p) \/ Refuse(p)
      <2>1. PICK e \in Earliest(p), job \in BOOLEAN :
              /\ proc' = [proc EXCEPT ![p] = Fired(p, e, job)]
              /\ jobs' = jobs \/ jobs' = Plus(jobs, p, e)
              /\ UNCHANGED <<clock, row, watched, cut, doings, faults>>
            BY <1>2 DEF Launch, Refuse
      <2>2. e \in Entries  BY <2>1, Fields DEF Earliest
      <2>3. proc' \in [Procs -> Tasks] /\ watched' \in Loops \cup {None} /\ OneLoop' /\ Shape'
            BY <2>1, <2>2, <1>1, FiredIs, OneMoves
      <2>4. jobs' \in [Schedules \X Times -> Nat]
            <3>1. jobs \in [Schedules \X Times -> Nat]  BY DataType
            <3>2. Plus(jobs, p, e) \in [Schedules \X Times -> Nat]  BY <2>2, <3>1, PlusIs
            <3> QED BY <2>1, <3>1, <3>2
      <2> QED BY <2>1, <2>3, <2>4, TypeStep, DataType
<1>3. CASE Record(p)
      <2>1. proc[p].cur \in Entries /\ Saved(proc[p].cur.id) /\ proc[p].due \in SUBSET Entries
            BY <1>3, Fields DEF Record, Shaped
      <2>2. PICK t \in {Over(p), [Task("fire") EXCEPT !.due = proc[p].due]} :
              proc' = [proc EXCEPT ![p] = t]
            BY <1>3 DEF Record
      <2>3. t \in Tasks /\ Shaped(t)  BY <2>1, OverIs, FireIs
      <2>4. row' = Recorded(proc[p].cur) /\ UNCHANGED <<clock, watched, jobs, cut, doings, faults>>
            BY <1>3 DEF Record
      <2>5. proc' \in [Procs -> Tasks] /\ watched' \in Loops \cup {None} /\ OneLoop' /\ Shape'
            BY <2>2, <2>3, <2>4, <1>1, OneMoves
      <2> QED BY <2>1, <2>4, <2>5, RecordedIs, TypeStep, DataType
<1>4. CASE RecordOfGone(p)
      <2>1. /\ proc' = [proc EXCEPT ![p] = Over(p)] /\ Lost(p)
            /\ UNCHANGED <<clock, row, watched, jobs, doings, faults>>
            BY <1>4 DEF RecordOfGone, Lost
      <2>2. proc' \in [Procs -> Tasks] /\ watched' \in Loops \cup {None} /\ OneLoop' /\ Shape'
            BY <2>1, <1>1, OverIs, OneMoves
      <2> QED BY <2>1, <2>2, LandsType, TypeStep
<1> QED BY <1>2, <1>3, <1>4 DEF Fire

LEMMA TypeLoop ==
    ASSUME TypeInv, NEW l \in Loops,
           Start(l) \/ Wake(l) \/ Tick(l) \/ Unwound(l) \/ Stall(l)
    PROVE  TypeInv'
<1>1. l \in Procs  BY DEF Procs
<1>2. proc[l].at # "off" => watched = l  BY DEF TypeInv, OneLoop
<1>3. CASE Start(l)
      <2>1. /\ \A m \in Loops : proc[m].at = "off"
            /\ watched' = l /\ proc' = [proc EXCEPT ![l] = Task("delay")]
            /\ UNCHANGED <<clock, row, jobs, cut, doings, faults>>
            BY <1>3, Parts DEF Start, Ended, TypeInv, OneLoop, Procs
      <2>2. proc' \in [Procs -> Tasks] /\ watched' \in Loops \cup {None} /\ OneLoop' /\ Shape'
            BY <2>1, <1>1, TaskIs, OneMoves
      <2> QED BY <2>1, <2>2, TypeStep, DataType
<1>4. CASE Wake(l)
      <2>1. /\ watched = l /\ proc' = [proc EXCEPT ![l] = Task("idle")]
            /\ UNCHANGED <<clock, row, watched, jobs, cut, doings, faults>>
            BY <1>4, <1>2 DEF Wake
      <2>2. proc' \in [Procs -> Tasks] /\ watched' \in Loops \cup {None} /\ OneLoop' /\ Shape'
            BY <2>1, <1>1, TaskIs, OneMoves
      <2> QED BY <2>1, <2>2, TypeStep, DataType
<1>5. CASE Tick(l)
      <2>1. PICK D \in SUBSET Entries :
              /\ watched = l /\ proc' = [proc EXCEPT ![l] = [Task("fire") EXCEPT !.due = D]]
              /\ UNCHANGED <<clock, row, watched, jobs, cut, doings, faults>>
            <3>1. {Entry(s) : s \in {x \in Schedules : IsDue(x)}} \in SUBSET Entries
                  BY SavedType DEF IsDue
            <3> QED BY <1>5, <1>2, <3>1 DEF Tick
      <2>2. proc' \in [Procs -> Tasks] /\ watched' \in Loops \cup {None} /\ OneLoop' /\ Shape'
            BY <2>1, <1>1, FireIs, OneMoves
      <2> QED BY <2>1, <2>2, TypeStep, DataType
<1>6. CASE Unwound(l)
      <2>1. /\ watched = l /\ proc' = [proc EXCEPT ![l] = Task("off")]
            /\ UNCHANGED <<clock, watched, doings, faults>>
            /\ Lands(l) \/ Lost(l)
            BY <1>6, <1>2 DEF Unwound
      <2>2. proc' \in [Procs -> Tasks] /\ watched' \in Loops \cup {None} /\ OneLoop' /\ Shape'
            BY <2>1, <1>1, TaskIs, OneMoves
      <2> QED BY <2>1, <2>2, <1>1, LandsType, TypeStep
<1>7. CASE Stall(l)
      <2> DEFINE t == [proc[l] EXCEPT !.at = "cancel"]
      <2>1. t \in Tasks /\ Shaped(t)  BY <1>1, Fields DEF Tasks, Shaped
      <2>2. /\ watched = l /\ proc' = [proc EXCEPT ![l] = t] /\ Faulty
            /\ UNCHANGED <<clock, row, watched, jobs, cut, doings>>
            BY <1>7 DEF Stall
      <2> HIDE DEF t
      <2>3. proc' \in [Procs -> Tasks] /\ watched' \in Loops \cup {None} /\ OneLoop' /\ Shape'
            BY <2>1, <2>2, <1>1, OneMoves
      <2> QED BY <2>2, <2>3, TypeStep, DataType
<1> QED BY <1>3, <1>4, <1>5, <1>6, <1>7

LEMMA TypeDbFails ==
    ASSUME TypeInv, NEW p \in Procs, DbFails(p)
    PROVE  TypeInv'
<1>1. /\ proc' = [proc EXCEPT ![p] = Over(p)] /\ Faulty
      /\ Lands(p) \/ Lost(p)
      /\ UNCHANGED <<clock, watched, doings>>
      /\ p \in Loops => watched = p
      BY DEF DbFails, TypeInv, OneLoop
<1>2. proc' \in [Procs -> Tasks] /\ watched' \in Loops \cup {None} /\ OneLoop' /\ Shape'
      BY <1>1, OverIs, OneMoves
<1> QED BY <1>1, <1>2, LandsType, TypeStep

LEMMA TypeCrash ==
    ASSUME TypeInv, Crash
    PROVE  TypeInv'
<1>1. /\ proc' = [p \in Procs |-> IF p \in Loops THEN Task("off") ELSE proc[p]]
      /\ UNCHANGED <<clock, doings>> /\ Faulty /\ watched' = None
      /\ watched \in Loops
      /\ Lands(watched) \/ Lost(watched) \/ UNCHANGED <<row, jobs, cut>>
      BY DEF Crash, TypeInv, TypeOK
<1>2. /\ row' \in [Schedules -> Rows \cup {Unborn, Gone}]
      /\ jobs' \in [Schedules \X Times -> Nat] /\ cut' \in [Schedules \X Times -> Nat]
      BY <1>1, LandsType, DataType DEF Procs
<1>3. proc' \in [Procs -> Tasks] /\ OneLoop' /\ Shape'
      BY <1>1, TaskIs, DataType DEF OneLoop, Shape, Procs
<1> QED BY <1>1, <1>2, <1>3, TypeStep

LEMMA TypeNext == TypeInv /\ [Next]_vars => TypeInv'
<1> SUFFICES ASSUME TypeInv, [Next]_vars PROVE TypeInv'
    OBVIOUS
<1>1. CASE UNCHANGED vars
      BY <1>1 DEF vars, TypeInv, TypeOK, OneLoop, Shape
<1>2. CASE Tock \/ \E s \in Schedules :
             Create(s) \/ Edit(s) \/ Delete(s) \/ \E c \in Clicks : Click(c, s)
      BY <1>2, TypePeople
<1>3. ASSUME NEW l \in Loops, Loop(l) \/ Stall(l) PROVE TypeInv'
      BY <1>3, TypeLoop, TypeFire DEF Loop, Procs
<1>4. ASSUME NEW c \in Clicks, Fire(c) PROVE TypeInv'
      BY <1>4, TypeFire DEF Procs
<1>5. ASSUME NEW p \in Procs, DbFails(p) PROVE TypeInv'
      BY <1>5, TypeDbFails
<1>6. CASE Crash
      BY <1>6, TypeCrash
<1> QED BY <1>1, <1>2, <1>3, <1>4, <1>5, <1>6 DEF Next

\* ScrapeScheduler is type correct, and never has two scheduler_loops at once,
\* however the one before was stopped (supervise, supervisor.py:116-121).
THEOREM TypeCorrect == Spec => []TypeOK
<1>1. Spec => []TypeInv
      BY TypeInit, TypeNext, PTL DEF Spec
<1> QED BY <1>1, PTL DEF TypeInv

-----------------------------------------------------------------------------
(* One job per occurrence.                                                  *)

Settled(s, t) == jobs[<<s, t>>] <= cut[<<s, t>>]

\* The job of the occurrence is launched and its record is still to come.
InFlight(s, t) == \E l \in Loops : proc[l].job /\ proc[l].cur.id = s /\ proc[l].cur.occ = t

\* A tick holds hours that have come, and each schedule once.
Sound(t) ==
  /\ \A e \in t.due : e.occ <= clock
  /\ \A e, f \in t.due : e.id = f.id => e = f
  /\ t.cur # None => t.cur.occ <= clock /\ \A e \in t.due : e.id # t.cur.id
SoundLoops == \A l \in Loops : Sound(proc[l])

Future == \A s \in Schedules, t \in Times : t > clock => jobs[<<s, t>>] = 0

DueSettled == \A l \in Loops : \A e \in proc[l].due : Settled(e.id, e.occ)

\* An occurrence with a job more than was cut off is in flight, or is not the next.
Accounted == \A s \in Schedules, t \in Times :
  Settled(s, t) \/ InFlight(s, t) \/ ~Saved(s) \/ row[s].next # t

AtMostOnce == \A s \in Schedules, t \in Times : jobs[<<s, t>>] <= 1 + cut[<<s, t>>]

OnceInv == SoundLoops /\ Future /\ DueSettled /\ Accounted /\ AtMostOnce

LEMMA OnceInit == Init => OnceInv
<1> SUFFICES ASSUME Init PROVE OnceInv OBVIOUS
<1>1. \A l \in Loops : proc[l].due = {} /\ proc[l].cur = None
      BY DEF Init, Task, Procs
<1>2. \A s \in Schedules, t \in Times : jobs[<<s, t>>] = 0 /\ cut[<<s, t>>] = 0
      BY DEF Init
<1> QED BY <1>1, <1>2 DEF OnceInv, SoundLoops, Sound, Future, DueSettled, Settled, Accounted, AtMostOnce

LEMMA CountType ==
    ASSUME TypeInv, NEW s \in Schedules, NEW t \in Times
    PROVE  jobs[<<s, t>>] \in Nat /\ cut[<<s, t>>] \in Nat /\ t \in Nat
BY Bounds DEF TypeInv, TypeOK, Times

LEMMA PlusAt ==
    ASSUME TypeInv, NEW l \in Loops, NEW e \in Entries, NEW s \in Schedules, NEW t \in Times
    PROVE  /\ Plus(jobs, l, e)[<<s, t>>] =
                IF s = e.id /\ t = e.occ THEN jobs[<<s, t>>] + 1 ELSE jobs[<<s, t>>]
           /\ Plus(cut, l, e)[<<s, t>>] =
                IF s = e.id /\ t = e.occ THEN cut[<<s, t>>] + 1 ELSE cut[<<s, t>>]
<1>1. <<s, t>> \in Schedules \X Times  OBVIOUS
<1>2. <<s, t>> = <<e.id, e.occ>> <=> s = e.id /\ t = e.occ  OBVIOUS
<1>3. jobs \in [Schedules \X Times -> Nat] /\ cut \in [Schedules \X Times -> Nat]
      BY DataType
<1>4. CASE s = e.id /\ t = e.occ     BY <1>1, <1>2, <1>3, <1>4 DEF Plus
<1>5. CASE ~(s = e.id /\ t = e.occ)  BY <1>1, <1>2, <1>3, <1>5 DEF Plus
<1> QED BY <1>4, <1>5

\* Loops other than the one under way hold nothing.
LEMMA Others ==
    ASSUME TypeInv, NEW l \in Loops, proc[l].at # "off", NEW m \in Loops \ {l}
    PROVE  proc[m].due = {} /\ proc[m].cur = None /\ ~proc[m].job
<1>1. proc[m].at = "off"  BY DEF TypeInv, OneLoop
<1>2. Shaped(proc[m])  BY Fields DEF Procs
<1> QED BY <1>1, <1>2 DEF Shaped

\* The loops keep what they hold: a row may be armed anew, or go.
LEMMA OnceRow ==
    ASSUME TypeInv, OnceInv, UNCHANGED <<clock, jobs, cut>>,
           \A l \in Loops : /\ proc'[l].due = proc[l].due /\ proc'[l].cur = proc[l].cur
                            /\ proc'[l].job = proc[l].job,
           \A s \in Schedules : row'[s] = row[s] \/ ~Saved(s)' \/ row'[s].next > clock
    PROVE  OnceInv'
<1>1. SoundLoops' /\ Future' /\ DueSettled' /\ AtMostOnce'
      BY DEF OnceInv, SoundLoops, Sound, Future, DueSettled, Settled, AtMostOnce
<1>2. ASSUME NEW s \in Schedules, NEW t \in Times
      PROVE  Settled(s, t)' \/ InFlight(s, t)' \/ ~Saved(s)' \/ row'[s].next # t
      <2>1. Settled(s, t)' <=> Settled(s, t)  BY DEF Settled
      <2>2. InFlight(s, t)' <=> InFlight(s, t)  BY DEF InFlight
      <2>3. CASE row'[s] = row[s]
            BY <2>1, <2>2, <2>3 DEF OnceInv, Accounted, Saved
      <2>4. CASE row'[s].next > clock
            <3>1. row'[s].next = t => Settled(s, t)
                  BY <2>4, CountType DEF OnceInv, Future, Settled
            <3> QED BY <2>1, <3>1
      <2> QED BY <2>3, <2>4
<1> QED BY <1>1, <1>2 DEF OnceInv, Accounted

LEMMA OncePeople ==
    ASSUME TypeInv, OnceInv,
           \/ Tock
           \/ \E s \in Schedules : Create(s) \/ Edit(s) \/ Delete(s) \/ \E c \in Clicks : Click(c, s)
    PROVE  OnceInv'
<1>1. CASE Tock
      <2>1. clock' = clock + 1 /\ UNCHANGED <<row, proc, jobs, cut>>  BY <1>1 DEF Tock
      <2>2. \A l \in Loops : proc[l].due \subseteq Entries /\ proc[l].cur \in Entries \cup {None}
            BY Fields DEF Procs
      <2>3. \A e \in Entries : e.occ \in Nat  BY EntryType, Bounds DEF Times
      <2>4. SoundLoops'  BY <2>1, <2>2, <2>3, ClockType DEF OnceInv, SoundLoops, Sound
      <2>5. Future'  BY <2>1, CountType, ClockType DEF OnceInv, Future
      <2> QED BY <2>1, <2>4, <2>5 DEF OnceInv, DueSettled, Settled, Accounted, InFlight, Saved, AtMostOnce
<1>2. ASSUME NEW s \in Schedules, Create(s) \/ Edit(s) PROVE OnceInv'
      <2>1. PICK on \in BOOLEAN, h \in Hours : row' = [row EXCEPT ![s] = Armed(on, h)]
            BY <1>2 DEF Create, Edit
      <2>2. \A x \in Schedules : row'[x] = row[x] \/ row'[x].next > clock
            BY <2>1, ArmedIs, DataType
      <2>3. UNCHANGED <<clock, proc, jobs, cut>>  BY <1>2 DEF Create, Edit
      <2> QED BY <2>2, <2>3, OnceRow
<1>3. ASSUME NEW s \in Schedules, Delete(s) PROVE OnceInv'
      <2>1. \A x \in Schedules : row'[x] = row[x] \/ ~Saved(x)'
            BY <1>3, DataType DEF Delete, Saved
      <2>2. UNCHANGED <<clock, proc, jobs, cut>>  BY <1>3 DEF Delete
      <2> QED BY <2>1, <2>2, OnceRow
<1>4. ASSUME NEW s \in Schedules, NEW c \in Clicks, Click(c, s) PROVE OnceInv'
      <2>1. \A l \in Loops : proc'[l] = proc[l]
            BY <1>4, Parts, DataType DEF Click, Procs
      <2>2. UNCHANGED <<clock, row, jobs, cut>>  BY <1>4 DEF Click
      <2> QED BY <2>1, <2>2, OnceRow
<1> QED BY <1>1, <1>2, <1>3, <1>4

\* A request to fire now counts for no occurrence of the clock.
LEMMA OnceClick ==
    ASSUME TypeInv, OnceInv, NEW c \in Clicks, Fire(c) \/ DbFails(c)
    PROVE  OnceInv'
<1>1. c \in Procs /\ c \notin Loops  BY Parts DEF Procs
<1>2. \A l \in Loops : proc'[l] = proc[l]
      BY <1>1, DataType DEF Fire, Launch, Refuse, Record, RecordOfGone, DbFails, Procs
<1>3. UNCHANGED <<clock, jobs, cut>>
      BY <1>1 DEF Fire, Launch, Refuse, Record, RecordOfGone, DbFails, Lands, Lost, CutOff, Plus
<1>4. \A s \in Schedules : row'[s] = row[s] \/ row'[s].next > clock
      <2>1. CASE row' = row  BY <2>1
      <2>2. CASE row' # row
            <3>1. /\ proc[c].cur # None /\ Saved(proc[c].cur.id) /\ row' = Recorded(proc[c].cur)
                  BY <2>2, <1>1, Fields
                  DEF Fire, Launch, Refuse, Record, RecordOfGone, DbFails, Lands, Lost, Shaped
            <3> QED BY <3>1, <1>1, Fields, RecordedIs
      <2> QED BY <2>1, <2>2
<1> QED BY <1>2, <1>3, <1>4, OnceRow

LEMMA OnceQuiet ==
    ASSUME TypeInv, OnceInv, NEW l \in Loops, Start(l) \/ Wake(l) \/ Stall(l)
    PROVE  OnceInv'
<1>1. l \in Procs /\ Shaped(proc[l]) /\ proc[l] \in Tasks  BY Fields DEF Procs
<1>2. UNCHANGED <<clock, row, jobs, cut>>  BY DEF Start, Wake, Stall
<1>3. \A m \in Loops : /\ proc'[m].due = proc[m].due /\ proc'[m].cur = proc[m].cur
                       /\ proc'[m].job = proc[m].job
      <2>1. \A m \in Loops \ {l} : proc'[m] = proc[m]
            BY DataType DEF Start, Wake, Stall, Procs
      <2>2. CASE Start(l) \/ Wake(l)
            <3>1. proc[l].due = {} /\ proc[l].cur = None /\ ~proc[l].job
                  BY <1>1, <2>2 DEF Start, Wake, Shaped
            <3>2. proc'[l] = Task("delay") \/ proc'[l] = Task("idle")
                  BY <1>1, <2>2, DataType DEF Start, Wake
            <3>3. proc'[l].due = {} /\ proc'[l].cur = None /\ proc'[l].job = FALSE
                  BY <3>2 DEF Task
            <3> QED BY <3>1, <3>3, <2>1, <1>1 DEF Tasks
      <2>3. CASE Stall(l)
            <3>1. proc'[l] = [proc[l] EXCEPT !.at = "cancel"]
                  BY <1>1, <2>3, DataType DEF Stall
            <3> QED BY <3>1, <2>1, <1>1 DEF Tasks
      <2> QED BY <2>2, <2>3
<1> QED BY <1>2, <1>3, OnceRow

\* What is due and read is settled: nothing else is in flight.
LEMMA OnceTick ==
    ASSUME TypeInv, OnceInv, NEW l \in Loops, Tick(l)
    PROVE  OnceInv'
<1> DEFINE due == {Entry(s) : s \in {x \in Schedules : IsDue(x)}}
<1>1. l \in Procs /\ Shaped(proc[l])  BY Fields DEF Procs
<1>2. /\ proc' = [proc EXCEPT ![l] = [Task("fire") EXCEPT !.due = due]]
      /\ UNCHANGED <<clock, row, jobs, cut>> /\ proc[l].at = "idle"
      BY DEF Tick
<1>3. \A m \in Loops : proc[m].due = {} /\ proc[m].cur = None /\ ~proc[m].job
      BY <1>1, <1>2, Others DEF Shaped
<1>4. \A s \in Schedules, t \in Times : ~InFlight(s, t)  BY <1>3 DEF InFlight
<1>5. \A e \in due : /\ e \in Entries /\ Saved(e.id) /\ row[e.id].next = e.occ /\ e.occ <= clock
                     /\ e = Entry(e.id)
      BY SavedType DEF IsDue, Entry
<1>6. \A e \in due : Settled(e.id, e.occ)
      BY <1>4, <1>5, EntryType DEF OnceInv, Accounted
<1>7. /\ proc'[l].due = due /\ proc'[l].cur = None /\ proc'[l].job = FALSE
      /\ \A m \in Loops \ {l} : proc'[m] = proc[m]
      BY <1>1, <1>2, DataType DEF Task, Procs
<1> HIDE DEF due
<1>8. SoundLoops'  BY <1>2, <1>3, <1>5, <1>7 DEF SoundLoops, Sound
<1>9. DueSettled'  BY <1>2, <1>3, <1>6, <1>7 DEF DueSettled, Settled
<1>10. Accounted'  BY <1>2, <1>4 DEF OnceInv, Accounted, Settled, Saved
<1> QED BY <1>2, <1>8, <1>9, <1>10 DEF OnceInv, Future, AtMostOnce

\* A launch is the first beyond those cut off, or none is made.
LEMMA OnceLaunch ==
    ASSUME TypeInv, OnceInv, NEW l \in Loops, Launch(l) \/ Refuse(l)
    PROVE  OnceInv'
<1>1. l \in Procs /\ proc[l].at = "fire" /\ Shaped(proc[l]) /\ proc[l].due \subseteq Entries
      BY Fields DEF Procs, Launch, Refuse
<1>2. PICK e \in Earliest(l), job \in BOOLEAN :
        /\ proc' = [proc EXCEPT ![l] = Fired(l, e, job)]
        /\ IF job THEN jobs' = Plus(jobs, l, e) ELSE jobs' = jobs
        /\ UNCHANGED <<clock, row, cut>>
      BY DEF Launch, Refuse
<1>3. e \in proc[l].due /\ e \in Entries  BY <1>1 DEF Earliest
<1>4. /\ proc'[l].due = proc[l].due \ {e} /\ proc'[l].cur = e /\ proc'[l].job = job
      /\ \A m \in Loops \ {l} : /\ proc'[m] = proc[m] /\ proc[m].due = {}
                                /\ proc[m].cur = None /\ ~proc[m].job
      BY <1>1, <1>2, <1>3, DataType, FiredIs, Others DEF Procs
<1>5. ~proc[l].job /\ proc[l].cur = None  BY <1>1 DEF Shaped
<1>6. ASSUME NEW s \in Schedules, NEW t \in Times
      PROVE  /\ cut'[<<s, t>>] = cut[<<s, t>>]
             /\ s # e.id \/ t # e.occ \/ ~job => jobs'[<<s, t>>] = jobs[<<s, t>>]
             /\ jobs'[<<s, t>>] = jobs[<<s, t>>] \/ jobs'[<<s, t>>] = jobs[<<s, t>>] + 1
      <2>1. Plus(jobs, l, e)[<<s, t>>] =
              IF s = e.id /\ t = e.occ THEN jobs[<<s, t>>] + 1 ELSE jobs[<<s, t>>]
            BY <1>3, PlusAt
      <2> QED BY <1>2, <2>1
<1>7. e.id \in Schedules /\ e.occ \in Times /\ e.occ <= clock /\ Settled(e.id, e.occ)
      BY <1>3, EntryType DEF OnceInv, SoundLoops, Sound, DueSettled
<1>8. \A f \in proc'[l].due : f \in proc[l].due /\ f.id # e.id /\ f \in Entries
      BY <1>1, <1>3, <1>4 DEF OnceInv, SoundLoops, Sound
<1>9. SoundLoops'
      <2>1. Sound(proc[l])  BY DEF OnceInv, SoundLoops
      <2>2. \A f \in proc'[l].due : f.occ <= clock' /\ f.id # e.id /\ f \in proc[l].due
            BY <1>2, <1>8, <2>1 DEF Sound
      <2>3. ASSUME NEW m \in Loops PROVE Sound(proc[m])'
            <3>1. CASE m = l   BY <3>1, <2>1, <2>2, <1>2, <1>4, <1>7 DEF Sound
            <3>2. CASE m # l   BY <3>2, <1>4 DEF Sound
            <3> QED BY <3>1, <3>2
      <2> QED BY <2>3 DEF SoundLoops
<1>10. Future'
      <2>1. ASSUME NEW s \in Schedules, NEW t \in Times, t > clock
            PROVE  jobs'[<<s, t>>] = jobs[<<s, t>>]
            BY <2>1, <1>6, <1>7, ClockType, CountType
      <2> QED BY <2>1, <1>2 DEF OnceInv, Future
<1>11. DueSettled'
      <2>1. ASSUME NEW m \in Loops, NEW f \in proc'[m].due PROVE Settled(f.id, f.occ)'
            <3>1. m = l  BY <1>4
            <3>2. f \in proc[l].due /\ f.id # e.id /\ f.id \in Schedules /\ f.occ \in Times
                  BY <3>1, <1>8, EntryType
            <3>3. Settled(f.id, f.occ)  BY <3>2 DEF OnceInv, DueSettled
            <3> QED BY <3>2, <3>3, <1>6 DEF Settled
      <2> QED BY <2>1 DEF DueSettled
<1>12. AtMostOnce'
      <2>1. ASSUME NEW s \in Schedules, NEW t \in Times PROVE jobs'[<<s, t>>] <= 1 + cut'[<<s, t>>]
            <3>1. jobs[<<s, t>>] <= 1 + cut[<<s, t>>]  BY DEF OnceInv, AtMostOnce
            <3>2. CASE s = e.id /\ t = e.occ
                  <4>1. jobs[<<s, t>>] <= cut[<<s, t>>]  BY <3>2, <1>7 DEF Settled
                  <4> QED BY <4>1, <1>6, CountType
            <3>3. CASE ~(s = e.id /\ t = e.occ)  BY <3>1, <3>3, <1>6
            <3> QED BY <3>2, <3>3
      <2> QED BY <2>1 DEF AtMostOnce
<1>13. ASSUME NEW s \in Schedules, NEW t \in Times
       PROVE  Settled(s, t)' \/ InFlight(s, t)' \/ ~Saved(s)' \/ row'[s].next # t
       <2>1. ~InFlight(s, t)  BY <1>4, <1>5 DEF InFlight
       <2>2. CASE job /\ s = e.id /\ t = e.occ
             BY <1>4, <2>2 DEF InFlight
       <2>3. CASE ~(job /\ s = e.id /\ t = e.occ)
             <3>1. Settled(s, t)' <=> Settled(s, t)  BY <1>6, <2>3 DEF Settled
             <3> QED BY <3>1, <2>1, <1>2 DEF OnceInv, Accounted, Saved
       <2> QED BY <2>2, <2>3
<1> QED BY <1>9, <1>10, <1>11, <1>12, <1>13 DEF OnceInv, Accounted

\* A loop that ends an entry, or stops, leaves the occurrence recorded or cut off.
LEMMA OnceEnds ==
    ASSUME TypeInv, OnceInv, NEW l \in Loops, proc[l].at # "off",
           clock' = clock, Lands(l) \/ Lost(l),
           \A m \in Loops : /\ proc'[m].due \subseteq proc[m].due
                            /\ proc'[m].cur = None /\ ~proc'[m].job
    PROVE  OnceInv'
<1>1. l \in Procs /\ Shaped(proc[l]) /\ proc[l].due \subseteq Entries
      /\ proc[l].cur \in Entries \cup {None} /\ proc[l].job \in BOOLEAN
      BY Fields DEF Procs
<1>2. \A m \in Loops \ {l} : proc[m].due = {} /\ ~proc[m].job  BY Others
<1>3. SoundLoops'  BY DEF OnceInv, SoundLoops, Sound
<1>4. \A m \in Loops : \A e \in proc'[m].due : e \in proc[m].due /\ Settled(e.id, e.occ)
      BY DEF OnceInv, DueSettled
<1>5. \A m \in Loops : proc[m].due \subseteq Entries  BY Fields DEF Procs
<1>6. ASSUME ~proc[l].job, UNCHANGED <<jobs, cut>>,
             \A s \in Schedules : row'[s] = row[s] \/ row'[s].next > clock
      PROVE  OnceInv'
      <2>1. \A s \in Schedules, t \in Times : ~InFlight(s, t)  BY <1>2, <1>6 DEF InFlight
      <2>2. ASSUME NEW s \in Schedules, NEW t \in Times
            PROVE  Settled(s, t)' \/ InFlight(s, t)' \/ ~Saved(s)' \/ row'[s].next # t
            <3>1. CASE row'[s] = row[s]
                  BY <1>6, <2>1, <3>1 DEF OnceInv, Accounted, Saved, Settled
            <3>2. CASE row'[s].next > clock
                  BY <1>6, <3>2, CountType DEF OnceInv, Future, Settled
            <3> QED BY <1>6, <3>1, <3>2
      <2> QED BY <1>3, <1>4, <1>6, <2>2 DEF OnceInv, DueSettled, Settled, Future, Accounted, AtMostOnce
<1>7. CASE Lost(l) /\ ~proc[l].job
      BY <1>6, <1>7 DEF Lost, CutOff
<1>8. CASE Lost(l) /\ proc[l].job
      <2> DEFINE e == proc[l].cur
      <2>1. e \in Entries  BY <1>1, <1>8 DEF Shaped
      <2>2. cut' = Plus(cut, l, e) /\ UNCHANGED <<row, jobs>>  BY <1>8 DEF Lost, CutOff
      <2> HIDE DEF e
      <2>3. \A s \in Schedules, t \in Times :
              cut'[<<s, t>>] = IF s = e.id /\ t = e.occ THEN cut[<<s, t>>] + 1 ELSE cut[<<s, t>>]
            BY <2>1, <2>2, PlusAt
      <2>4. \A s \in Schedules, t \in Times : Settled(s, t) => Settled(s, t)'
            BY <2>2, <2>3, CountType DEF Settled
      <2>5. ASSUME NEW s \in Schedules, NEW t \in Times, InFlight(s, t) PROVE Settled(s, t)'
            <3>1. s = e.id /\ t = e.occ  BY <1>2, <2>5 DEF InFlight, e
            <3>2. jobs[<<s, t>>] <= 1 + cut[<<s, t>>]  BY DEF OnceInv, AtMostOnce
            <3> QED BY <2>2, <2>3, <3>1, <3>2, CountType DEF Settled
      <2>6. Accounted'
            BY <2>2, <2>4, <2>5 DEF OnceInv, Accounted, Saved
      <2>7. DueSettled'  BY <1>4, <1>5, <2>4, EntryType DEF DueSettled
      <2>8. AtMostOnce'
            <3>1. ASSUME NEW s \in Schedules, NEW t \in Times
                  PROVE  jobs'[<<s, t>>] <= 1 + cut'[<<s, t>>]
                  <4>1. jobs[<<s, t>>] <= 1 + cut[<<s, t>>]  BY DEF OnceInv, AtMostOnce
                  <4>2. cut[<<s, t>>] <= cut'[<<s, t>>] /\ cut'[<<s, t>>] \in Nat
                        BY <2>3, CountType
                  <4> QED BY <2>2, <4>1, <4>2, CountType
            <3> QED BY <3>1 DEF AtMostOnce
      <2> QED BY <1>3, <2>2, <2>6, <2>7, <2>8 DEF OnceInv, Future
<1>9. CASE Lands(l) /\ proc[l].cur = None
      <2>1. PICK e \in Earliest(l) : jobs' = Plus(jobs, l, e) /\ cut' = Plus(cut, l, e)
            BY <1>9 DEF Lands
      <2>2. row' = row /\ ~proc[l].job  BY <1>1, <1>9 DEF Lands, Shaped
      <2>3. e \in proc[l].due /\ e \in Entries  BY <1>1 DEF Earliest
      <2>4. e.occ <= clock  BY <2>3 DEF OnceInv, SoundLoops, Sound
      <2>5. ASSUME NEW s \in Schedules, NEW t \in Times
            PROVE  \/ jobs'[<<s, t>>] = jobs[<<s, t>>] /\ cut'[<<s, t>>] = cut[<<s, t>>]
                   \/ /\ jobs'[<<s, t>>] = jobs[<<s, t>>] + 1
                      /\ cut'[<<s, t>>] = cut[<<s, t>>] + 1
                      /\ t <= clock
            <3>1. /\ Plus(jobs, l, e)[<<s, t>>] =
                       IF s = e.id /\ t = e.occ THEN jobs[<<s, t>>] + 1 ELSE jobs[<<s, t>>]
                  /\ Plus(cut, l, e)[<<s, t>>] =
                       IF s = e.id /\ t = e.occ THEN cut[<<s, t>>] + 1 ELSE cut[<<s, t>>]
                  BY <2>3, PlusAt
            <3> QED BY <2>1, <2>4, <3>1
      <2>6. \A s \in Schedules, t \in Times : Settled(s, t) => Settled(s, t)'
            BY <2>5, CountType DEF Settled
      <2>7. \A s \in Schedules, t \in Times : ~InFlight(s, t)  BY <1>2, <2>2 DEF InFlight
      <2>8. Accounted'  BY <2>2, <2>6, <2>7 DEF OnceInv, Accounted, Saved
      <2>9. DueSettled'  BY <1>4, <1>5, <2>6, EntryType DEF DueSettled
      <2>10. AtMostOnce'
            <3>1. ASSUME NEW s \in Schedules, NEW t \in Times
                  PROVE  jobs'[<<s, t>>] <= 1 + cut'[<<s, t>>]
                  <4>1. jobs[<<s, t>>] <= 1 + cut[<<s, t>>]  BY DEF OnceInv, AtMostOnce
                  <4> QED BY <2>5, <4>1, CountType
            <3> QED BY <3>1 DEF AtMostOnce
      <2>11. Future'  BY <2>5, CountType, ClockType DEF OnceInv, Future
      <2> QED BY <1>3, <2>8, <2>9, <2>10, <2>11 DEF OnceInv
<1>10. CASE Lands(l) /\ proc[l].cur # None
      <2> DEFINE e == proc[l].cur
      <2>1. e \in Entries /\ Saved(e.id) /\ row' = Recorded(e) /\ UNCHANGED <<jobs, cut>>
            BY <1>1, <1>10 DEF Lands
      <2>2. e.occ <= clock  BY <1>10 DEF OnceInv, SoundLoops, Sound
      <2> HIDE DEF e
      <2>3. /\ row'[e.id].next > clock
            /\ \A s \in Schedules : row'[s] = row[s] \/ row'[s].next > clock
            BY <2>1, <2>2, RecordedIs
      <2>4. ASSUME NEW s \in Schedules, NEW t \in Times
            PROVE  Settled(s, t)' \/ InFlight(s, t)' \/ ~Saved(s)' \/ row'[s].next # t
            <3>1. InFlight(s, t) => s = e.id  BY <1>2 DEF InFlight, e
            <3>2. CASE row'[s].next > clock
                  BY <2>1, <3>2, CountType DEF OnceInv, Future, Settled
            <3>3. CASE ~(row'[s].next > clock)
                  BY <2>1, <2>3, <3>1, <3>3 DEF OnceInv, Accounted, Saved, Settled
            <3> QED BY <3>2, <3>3
      <2> QED BY <1>3, <1>4, <2>1, <2>4 DEF OnceInv, DueSettled, Settled, Future, Accounted, AtMostOnce
<1> QED BY <1>7, <1>8, <1>9, <1>10

LEMMA OnceLoop ==
    ASSUME TypeInv, OnceInv, NEW l \in Loops, Loop(l) \/ Stall(l) \/ DbFails(l)
    PROVE  OnceInv'
<1>1. l \in Procs  BY DEF Procs
<1>2. CASE Start(l) \/ Wake(l) \/ Stall(l)  BY <1>2, OnceQuiet
<1>3. CASE Tick(l)  BY <1>3, OnceTick
<1>4. CASE Launch(l) \/ Refuse(l)  BY <1>4, OnceLaunch
<1>5. CASE Record(l) \/ RecordOfGone(l) \/ DbFails(l) \/ Unwound(l)
      <2>1. proc[l].at # "off" /\ clock' = clock
            BY <1>5 DEF Record, RecordOfGone, DbFails, Unwound
      <2>2. Lands(l) \/ Lost(l)
            BY <1>1, <1>5, Fields
            DEF Record, RecordOfGone, DbFails, Unwound, Lands, Lost, Shaped
      <2>3. PICK t \in {Over(l), Task("off"), [Task("fire") EXCEPT !.due = proc[l].due]} :
              proc' = [proc EXCEPT ![l] = t]
            BY <1>5 DEF Record, RecordOfGone, DbFails, Unwound
      <2>4. t.due \subseteq proc[l].due /\ t.cur = None /\ ~t.job
            <3>1. proc[l].due \in SUBSET Entries  BY <1>1, Fields
            <3> QED BY <3>1 DEF Over, Task
      <2>5. \A m \in Loops : /\ proc'[m].due \subseteq proc[m].due
                             /\ proc'[m].cur = None /\ ~proc'[m].job
            <3>1. proc'[l] = t  BY <1>1, <2>3, DataType
            <3>2. \A m \in Loops \ {l} : proc'[m] = proc[m]  BY <2>3, DataType DEF Procs
            <3> QED BY <2>1, <2>4, <3>1, <3>2, Others
      <2> QED BY <2>1, <2>2, <2>5, OnceEnds
<1> QED BY <1>2, <1>3, <1>4, <1>5 DEF Loop, Fire

LEMMA OnceCrash ==
    ASSUME TypeInv, OnceInv, Crash
    PROVE  OnceInv'
<1>1. watched \in Loops /\ watched \in Procs  BY DEF Crash, TypeInv, TypeOK, Procs
<1>2. \A m \in Loops : proc'[m].due = {} /\ proc'[m].cur = None /\ proc'[m].job = FALSE
      BY DEF Crash, Task, Procs
<1>3. CASE Firing(watched)
      <2>1. /\ proc[watched].at # "off" /\ clock' = clock
            /\ Lands(watched) \/ Lost(watched)
            BY <1>3 DEF Crash, Firing
      <2> QED BY <1>1, <1>2, <2>1, OnceEnds
<1>4. CASE ~Firing(watched)
      <2>1. UNCHANGED <<clock, row, jobs, cut>>  BY <1>4 DEF Crash
      <2>2. \A m \in Loops : proc[m].at \notin {"fire", "record", "cancel"}
            BY <1>4 DEF Firing, TypeInv, OneLoop
      <2>3. \A m \in Loops : proc[m].due = {} /\ proc[m].cur = None /\ proc[m].job = FALSE
            BY <2>2, Fields DEF Shaped, Procs
      <2> QED BY <1>2, <2>1, <2>3, OnceRow
<1> QED BY <1>3, <1>4

LEMMA OnceNext == TypeInv /\ OnceInv /\ [Next]_vars => OnceInv'
<1> SUFFICES ASSUME TypeInv, OnceInv, [Next]_vars PROVE OnceInv'
    OBVIOUS
<1>1. CASE UNCHANGED vars
      BY <1>1, OnceRow DEF vars
<1>2. CASE Tock \/ \E s \in Schedules :
             Create(s) \/ Edit(s) \/ Delete(s) \/ \E c \in Clicks : Click(c, s)
      BY <1>2, OncePeople
<1>3. ASSUME NEW l \in Loops, Loop(l) \/ Stall(l) \/ DbFails(l) PROVE OnceInv'
      BY <1>3, OnceLoop
<1>4. ASSUME NEW c \in Clicks, Fire(c) \/ DbFails(c) PROVE OnceInv'
      BY <1>4, OnceClick
<1>5. CASE Crash
      BY <1>5, OnceCrash
<1> QED BY <1>1, <1>2, <1>3, <1>4, <1>5 DEF Next, Procs

\* Every launch by the clock beyond the first of an occurrence answers to one
\* that was cut off before next_run_at was written.
THEOREM OnceCorrect == Spec => []OncePerOccurrence
<1>1. TypeInv /\ OnceInv => OncePerOccurrence
      BY DEF OnceInv, AtMostOnce, OncePerOccurrence
<1>2. Spec => [](TypeInv /\ OnceInv)
      BY TypeInit, TypeNext, OnceInit, OnceNext, PTL DEF Spec
<1> QED BY <1>1, <1>2, PTL

-----------------------------------------------------------------------------
(* Missed hours.                                                            *)

LEMMA MovesAhead ==
    ASSUME TypeInv, [Next]_vars, NEW s \in Schedules, Saved(s), Saved(s)',
           row'[s].next # row[s].next
    PROVE  row'[s].next > clock
<1>1. CASE \E x \in Schedules : Create(x) \/ Edit(x)
      <2>1. PICK x \in Schedules, on \in BOOLEAN, h \in Hours :
              row' = [row EXCEPT ![x] = Armed(on, h)]
            BY <1>1 DEF Create, Edit
      <2> QED BY <2>1, ArmedIs, DataType
<1>2. CASE \E x \in Schedules : Delete(x)
      BY <1>2, DataType DEF Delete, Saved
<1>3. CASE \E p \in Procs : Lands(p)
      <2>1. PICK p \in Procs : Lands(p)  BY <1>3
      <2>2. proc[p].cur \in Entries /\ Saved(proc[p].cur.id) /\ row' = Recorded(proc[p].cur)
            BY <2>1, Fields DEF Lands
      <2> QED BY <2>2, RecordedIs
<1>4. CASE \E p \in Procs : Record(p)
      <2>1. PICK p \in Procs : Record(p)  BY <1>4
      <2>2. proc[p].cur \in Entries /\ Saved(proc[p].cur.id) /\ row' = Recorded(proc[p].cur)
            BY <2>1, Fields DEF Record, Shaped
      <2> QED BY <2>2, RecordedIs
<1>5. CASE row' = row  BY <1>5
<1>6. \/ \E x \in Schedules : Create(x) \/ Edit(x)
      \/ \E x \in Schedules : Delete(x)
      \/ \E p \in Procs : Lands(p) \/ Record(p)
      \/ row' = row
      <2>1. CASE UNCHANGED vars  BY <2>1 DEF vars
      <2>2. CASE Crash
            BY <2>2 DEF Crash, Lost, TypeInv, TypeOK, Procs
      <2>3. ASSUME NEW l \in Loops, Loop(l) \/ Stall(l)
            PROVE  row' = row \/ Lands(l) \/ Record(l)
            BY <2>3 DEF Loop, Stall, Start, Wake, Tick, Unwound, Lost, Fire, Launch, Refuse, RecordOfGone
      <2>4. ASSUME NEW c \in Clicks, Fire(c) PROVE row' = row \/ Record(c)
            BY <2>4 DEF Fire, Launch, Refuse, RecordOfGone
      <2>5. ASSUME NEW p \in Procs, DbFails(p) PROVE row' = row \/ Lands(p)
            BY <2>5 DEF DbFails, Lost
      <2>6. ASSUME NEW x \in Schedules, NEW c \in Clicks, Click(c, x) PROVE row' = row
            BY <2>6 DEF Click
      <2>7. CASE Tock  BY <2>7 DEF Tock
      <2> QED BY <2>1, <2>2, <2>3, <2>4, <2>5, <2>6, <2>7 DEF Next, Procs
<1> QED BY <1>1, <1>2, <1>3, <1>4, <1>5, <1>6

\* Whatever moves a saved schedule's next hour moves it past the present, so that
\* a loop that was away for days fires a schedule once.
THEOREM MissedCorrect == Spec => MissedFiresOnce
<1>1. TypeInv /\ [Next]_vars => [\A s \in Schedules :
        Saved(s) /\ Saved(s)' /\ row'[s].next # row[s].next => row'[s].next > clock]_vars
      BY MovesAhead
<1>2. Spec => []TypeInv
      BY TypeInit, TypeNext, PTL DEF Spec
<1> QED BY <1>1, <1>2, PTL DEF Spec, MissedFiresOnce
=============================================================================
