-------------------------- MODULE ScrapeScheduler --------------------------
(***************************************************************************)
(* Saved scrapes and the loop that fires them at their hour                 *)
(* (app/services/scrape_scheduler.py), the supervisor that restarts the     *)
(* loop (app/services/supervisor.py), and the people who save, edit, delete *)
(* and fire a schedule from the panel (app/api/routes/scraper.py).          *)
(* A firing is two commits: _launch_job's, of the pending job, and fire's   *)
(* own, of next_run_at.  Between reading a row and writing it the row may   *)
(* be edited, deleted, or fired by somebody else, and the task may be       *)
(* cancelled or die.  The clock counts hours; the loop's minute and the     *)
(* supervisor's back-off of at most five minutes are shorter than one.      *)
(***************************************************************************)
EXTENDS Naturals, FiniteSets

CONSTANTS
  Schedules, None, Unborn, Gone,
  Loops,      \* tasks the supervisor may run scheduler_loop in, one after another
  Clicks,     \* requests to fire a schedule now
  Day,        \* hours in a day
  Horizon,    \* bound: the clock
  MaxDoings,  \* bound: edits, deletions and requests
  MaxFaults   \* bound: stalls, crashes, failed commits

Procs == Loops \cup Clicks

ASSUME Parts == Loops \cap Clicks = {} /\ None \notin Procs
ASSUME Bounds == Day \in Nat \ {0} /\ Horizon \in Nat /\ MaxDoings \in Nat /\ MaxFaults \in Nat

VARIABLES
  clock,
  row,        \* each schedule's row, or Unborn, Gone
  proc,       \* each task and request: see Task
  watched,    \* the task the supervisor watches
  jobs,       \* how often the clock launched a job for an occurrence
  cut,        \* how many of those launches were cut off before their record
  doings, faults

vars == <<clock, row, proc, watched, jobs, cut, doings, faults>>

Hours == 0..(Day - 1)
Times == 0..(Horizon + Day)
Rows == [on : BOOLEAN, hour : Hours, next : Times]
\* What a tick reads of a row, and still goes by when it fires it.
Entries == [id : Schedules, hour : Hours, occ : Times]
ASSUME NoneIsNoEntry == None \notin Entries
Tasks == [at : {"off", "delay", "idle", "fire", "record", "cancel", "done"},
          due : SUBSET Entries, cur : Entries \cup {None}, job : BOOLEAN]

Task(at) == [at |-> at, due |-> {}, cur |-> None, job |-> FALSE]

TypeOK ==
  /\ clock \in 0..Horizon
  /\ row \in [Schedules -> Rows \cup {Unborn, Gone}]
  /\ proc \in [Procs -> Tasks]
  /\ watched \in Loops \cup {None}
  /\ jobs \in [Schedules \X Times -> Nat]
  /\ cut \in [Schedules \X Times -> Nat]
  /\ doings \in 0..MaxDoings /\ faults \in 0..MaxFaults
  \* one scheduler_loop at a time: the supervisor's promise
  /\ \A l, m \in Loops : proc[l].at # "off" /\ proc[m].at # "off" => l = m

Init ==
  /\ clock = 0
  /\ row = [s \in Schedules |-> Unborn]
  /\ proc = [p \in Procs |-> Task("off")]
  /\ watched = None
  /\ jobs = [o \in Schedules \X Times |-> 0]
  /\ cut = [o \in Schedules \X Times |-> 0]
  /\ doings = 0 /\ faults = 0

Saved(s) == row[s] \notin {Unborn, Gone}

Does == doings < MaxDoings /\ doings' = doings + 1
Faulty == faults < MaxFaults /\ faults' = faults + 1

-----------------------------------------------------------------------------
\* The clock and the people.

NextOccurrence(hour, now) ==
  LET target == Day * (now \div Day) + hour IN IF target <= now THEN target + Day ELSE target

Armed(on, hour) == [on |-> on, hour |-> hour, next |-> NextOccurrence(hour, clock)]

Tock ==
  /\ clock < Horizon /\ clock' = clock + 1
  /\ UNCHANGED <<row, proc, watched, jobs, cut, doings, faults>>

Create(s) ==
  /\ row[s] = Unborn
  /\ \E on \in BOOLEAN, hour \in Hours : row' = [row EXCEPT ![s] = Armed(on, hour)]
  /\ UNCHANGED <<clock, proc, watched, jobs, cut, doings, faults>>

\* Any change re-arms the clock.
Edit(s) ==
  /\ Saved(s) /\ Does
  /\ \E on \in BOOLEAN, hour \in Hours : row' = [row EXCEPT ![s] = Armed(on, hour)]
  /\ UNCHANGED <<clock, proc, watched, jobs, cut, faults>>

Delete(s) ==
  /\ Saved(s) /\ Does
  /\ row' = [row EXCEPT ![s] = Gone]
  /\ UNCHANGED <<clock, proc, watched, jobs, cut, faults>>

Entry(s) == [id |-> s, hour |-> row[s].hour, occ |-> row[s].next]

Click(c, s) ==
  /\ proc[c].at = "off" /\ Saved(s) /\ Does
  /\ proc' = [proc EXCEPT ![c] = [Task("fire") EXCEPT !.due = {Entry(s)}]]
  /\ UNCHANGED <<clock, row, watched, jobs, cut, faults>>

-----------------------------------------------------------------------------
\* A tick, and firing.

\* Mutant of IsDue: only the hour itself, so a missed one waits for the next day.
IsDueNow(s) == Saved(s) /\ row[s].on /\ row[s].next = clock

IsDue(s) == Saved(s) /\ row[s].on /\ row[s].next <= clock

Tick(l) ==
  LET due == {Entry(s) : s \in {x \in Schedules : IsDue(x)}} IN
  /\ proc[l].at = "idle" /\ due # {}
  /\ proc' = [proc EXCEPT ![l] = [Task("fire") EXCEPT !.due = due]]
  /\ UNCHANGED <<clock, row, watched, jobs, cut, doings, faults>>

Earliest(p) == {e \in proc[p].due : \A f \in proc[p].due : e.occ <= f.occ}

Over(p) == Task(IF p \in Loops THEN "idle" ELSE "done")

Plus(count, p, e) == IF p \in Loops THEN [count EXCEPT ![<<e.id, e.occ>>] = @ + 1] ELSE count

Fired(p, e, job) == [at |-> "record", due |-> proc[p].due \ {e}, cur |-> e, job |-> job]

\* The job is committed and queued.
Launch(p) ==
  /\ proc[p].at = "fire"
  /\ \E e \in Earliest(p) : /\ proc' = [proc EXCEPT ![p] = Fired(p, e, TRUE)]
                            /\ jobs' = Plus(jobs, p, e)
  /\ UNCHANGED <<clock, row, watched, cut, doings, faults>>

\* The owner may not scrape, too many runs, no number, an unusable config.
Refuse(p) ==
  /\ proc[p].at = "fire"
  /\ \E e \in Earliest(p) : proc' = [proc EXCEPT ![p] = Fired(p, e, FALSE)]
  /\ UNCHANGED <<clock, row, watched, jobs, cut, doings, faults>>

\* Mutant of Recorded: a day after the hour that was due, one firing per missed day.
RecordedNextDay(e) == [row EXCEPT ![e.id].next = IF e.occ <= clock THEN e.occ + Day ELSE @]

\* A column that keeps the value it was loaded with is not written.
Recorded(e) ==
  LET next == NextOccurrence(e.hour, clock)
  IN IF next = e.occ THEN row ELSE [row EXCEPT ![e.id].next = next]

CutOff(p) == cut' = IF proc[p].job THEN Plus(cut, p, proc[p].cur) ELSE cut

Record(p) ==
  /\ proc[p].at = "record" /\ Saved(proc[p].cur.id)
  /\ row' = Recorded(proc[p].cur)
  /\ proc' = [proc EXCEPT ![p] = IF @.due = {} THEN Over(p)
                                 ELSE [Task("fire") EXCEPT !.due = proc[p].due]]
  /\ UNCHANGED <<clock, watched, jobs, cut, doings, faults>>

\* The update meets no row and raises, which ends the tick or the request.
RecordOfGone(p) ==
  /\ proc[p].at = "record" /\ ~Saved(proc[p].cur.id)
  /\ CutOff(p)
  /\ proc' = [proc EXCEPT ![p] = Over(p)]
  /\ UNCHANGED <<clock, row, watched, jobs, doings, faults>>

-----------------------------------------------------------------------------
\* Failures: the commit in flight lands or not, and nothing follows it.

Lands(p) ==
  \/ /\ proc[p].cur = None
     /\ \E e \in Earliest(p) : jobs' = Plus(jobs, p, e) /\ cut' = Plus(cut, p, e)
     /\ UNCHANGED row
  \/ /\ proc[p].cur # None /\ Saved(proc[p].cur.id)
     /\ row' = Recorded(proc[p].cur)
     /\ UNCHANGED <<jobs, cut>>

Lost(p) == CutOff(p) /\ UNCHANGED <<row, jobs>>

Firing(p) == proc[p].at \in {"fire", "record", "cancel"}

DbFails(p) ==
  /\ proc[p].at \in {"fire", "record"} /\ Faulty
  /\ Lands(p) \/ Lost(p)
  /\ proc' = [proc EXCEPT ![p] = Over(p)]
  /\ UNCHANGED <<clock, watched, doings>>

\* No beat for ten minutes: the supervisor cancels the task.
Stall(l) ==
  /\ watched = l /\ proc[l].at \in {"fire", "record"} /\ Faulty
  /\ proc' = [proc EXCEPT ![l].at = "cancel"]
  /\ UNCHANGED <<clock, row, watched, jobs, cut, doings>>

Unwound(l) ==
  /\ proc[l].at = "cancel"
  /\ Lands(l) \/ Lost(l)
  /\ proc' = [proc EXCEPT ![l] = Task("off")]
  /\ UNCHANGED <<clock, watched, doings, faults>>

\* Mutant of Ended: the cancelled task is not waited for.
EndedOrCancelled == watched # None => proc[watched].at \in {"off", "cancel"}

Ended == watched # None => proc[watched].at = "off"

Start(l) ==
  /\ Ended /\ proc[l].at = "off"
  /\ watched' = l /\ proc' = [proc EXCEPT ![l] = Task("delay")]
  /\ UNCHANGED <<clock, row, jobs, cut, doings, faults>>

Wake(l) ==
  /\ proc[l].at = "delay" /\ proc' = [proc EXCEPT ![l] = Task("idle")]
  /\ UNCHANGED <<clock, row, watched, jobs, cut, doings, faults>>

\* The scheduler's pod is replaced; the new one starts after the old has ended.
Crash ==
  /\ watched # None /\ Faulty
  /\ IF Firing(watched) THEN Lands(watched) \/ Lost(watched) ELSE UNCHANGED <<row, jobs, cut>>
  /\ watched' = None
  /\ proc' = [p \in Procs |-> IF p \in Loops THEN Task("off") ELSE proc[p]]
  /\ UNCHANGED <<clock, doings>>

Fire(p) == Launch(p) \/ Refuse(p) \/ Record(p) \/ RecordOfGone(p)
Loop(l) == Start(l) \/ Wake(l) \/ Tick(l) \/ Fire(l) \/ Unwound(l)

Next ==
  \/ Tock \/ Crash
  \/ \E s \in Schedules : Create(s) \/ Edit(s) \/ Delete(s) \/ \E c \in Clicks : Click(c, s)
  \/ \E l \in Loops : Loop(l) \/ Stall(l)
  \/ \E c \in Clicks : Fire(c)
  \/ \E p \in Procs : DbFails(p)

Spec == Init /\ [][Next]_vars

\* The event loop runs what is ready, the supervisor restarts, pods come back.
Fairness == WF_vars(\E l \in Loops : Loop(l)) /\ \A l \in Loops : WF_vars(Wake(l) \/ Tick(l) \/ Fire(l) \/ Unwound(l))
FairSpec == Spec /\ Fairness
-----------------------------------------------------------------------------
\* The clock launches one job for an occurrence, and another only for each
\* launch that was cut off before next_run_at moved on (fire's two commits,
\* scrape_scheduler.py:78-88, under the supervisor's restarts).
OncePerOccurrence == \A o \in Schedules \X Times : jobs[o] <= 1 + cut[o]

\* However long the loop was away, a firing moves next_run_at past the present,
\* so that «a missed hour fires once», not once per missed day
\* (scrape_scheduler.py:12-14).
MissedFiresOnce == [][\A s \in Schedules :
  Saved(s) /\ Saved(s)' /\ row'[s].next # row[s].next => row'[s].next > clock]_vars

\* A schedule that is due is fired, or switched off, edited or deleted, whatever
\* fails and whichever schedule before it in the tick raises.
DueIsFired ==
  LET waiting(s) == Saved(s) /\ row[s].on /\ row[s].next <= clock
  IN \A s \in Schedules : waiting(s) ~> ~waiting(s)
=============================================================================
