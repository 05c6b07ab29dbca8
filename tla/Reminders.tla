----------------------------- MODULE Reminders -----------------------------
(***************************************************************************)
(* Reminders and the texts before appointments (_fire_due_reminders and     *)
(* _fire_due_event_sms of app/main.py, the routes of app/api/routes/crm.py). *)
(* Once a minute one loop loads the reminders that are due, texts them row  *)
(* by row and commits its marks when all of them have been texted; then it  *)
(* does the same with the appointments.  People book, move and delete       *)
(* meanwhile.  Loop and people write the columns they changed, and what     *)
(* they change is computed from the row as they loaded it.                  *)
(***************************************************************************)
EXTENDS Integers, FiniteSets

CONSTANTS
  Reminders, Events, None,
  InApp,      \* reminders whose channel is not sms, or that have no number
  Lead,       \* remind_before
  LastTime,   \* bound: the clock stops here
  MaxRows,    \* bound: rows people create
  MaxDoings,  \* bound: what people do to rows that exist
  MaxFaults   \* bound: sends that raise, commits that fail, crashes, cancelled passes

ASSUME Apart == Reminders \cap Events = {} /\ InApp \subseteq Reminders /\ None \notin Reminders \cup Events
ASSUME Bounds == Lead \in Nat /\ LastTime \in Nat /\ MaxRows \in Nat /\ MaxDoings \in Nat /\ MaxFaults \in Nat

VARIABLES
  zoned,    \* the database gives times back with a zone (PostgreSQL), or without (SQLite)
  now,      \* datetime.now()
  life,     \* the row of an id: not yet there, there, deleted
  row,      \* its columns, how many times people moved it, and to when the last time
  loop,     \* where the loop is, its `now`, the rows it has left, those it marked or texted
  patch,    \* a PATCH of an appointment under way: the row it loaded, what it changes
  texts,    \* history: texts that left, per row and time of it
  lost,     \* history: those whose pass did not commit
  crossed,  \* history: times given to a row while the loop's pass over it was under way
  doings, faults

history == <<texts, lost, crossed>>
vars == <<zoned, now, life, row, loop, patch, history, doings, faults>>

Ids == Reminders \cup Events
Times == 0..LastTime
Occasions == Ids \X (0..MaxDoings) \X Times
\* remind_at or start_at; repeat; sms_reminder of an appointment that is still
\* scheduled; is_sent or sms_sent.
Row == [at : Nat, repeats : BOOLEAN, on : BOOLEAN, sent : BOOLEAN, n : 0..MaxDoings, from : Times]
Loaded == [id : Ids, at : Times, repeats : BOOLEAN, n : 0..MaxDoings]
Asleep == [at |-> "sleep", now |-> 0, left |-> {}, done |-> {}, texted |-> {}]

TypeOK ==
  /\ zoned \in BOOLEAN /\ now \in Times
  /\ life \in [Ids -> {"none", "there", "gone"}]
  /\ row \in [Ids -> Row]
  /\ loop \in [at : {"sleep", "reminders", "between", "events"}, now : Times,
               left : SUBSET Loaded, done : SUBSET Loaded, texted : SUBSET Loaded]
  /\ patch = None \/ patch \in [id : Events, was : Row, at : Times, on : BOOLEAN]
  /\ texts \in [Occasions -> Nat] /\ lost \in [Occasions -> Nat]
  /\ crossed \subseteq Ids \X (0..MaxDoings)
  /\ doings \in 0..MaxDoings /\ faults \in 0..MaxFaults
  /\ loop.at \in {"sleep", "between"} => loop.left \cup loop.done = {}

Init ==
  /\ zoned \in BOOLEAN /\ now = 0 /\ life = [i \in Ids |-> "none"]
  /\ row = [i \in Ids |-> [at |-> 0, repeats |-> FALSE, on |-> FALSE, sent |-> FALSE, n |-> 0, from |-> 0]]
  /\ loop = Asleep /\ patch = None
  /\ texts = [o \in Occasions |-> 0] /\ lost = [o \in Occasions |-> 0]
  /\ crossed = {} /\ doings = 0 /\ faults = 0

There(i) == life[i] = "there"
Load(S) == {[id |-> i, at |-> row[i].at, repeats |-> row[i].repeats, n |-> row[i].n] : i \in S}
Of(l) == <<l.id, l.n, l.at>>
Rows(S) == {l.id : l \in S}

-----------------------------------------------------------------------------
\* The loop: reminders.

Due(r) == There(r) /\ row[r].at <= now /\ ~row[r].sent

Wake ==
  /\ loop.at = "sleep"
  /\ loop' = [at |-> "reminders", now |-> now, left |-> Load({r \in Reminders : Due(r)}),
              done |-> {}, texted |-> {}]
  /\ UNCHANGED <<now, life, row, patch, history, doings, faults>>

\* A row is texted, or not, and marked.
Handle(l, isTexted) ==
  /\ loop' = [at |-> loop.at, now |-> loop.now, left |-> loop.left \ {l}, done |-> loop.done \cup {l},
              texted |-> IF isTexted THEN loop.texted \cup {l} ELSE loop.texted]
  /\ texts' = IF isTexted THEN [texts EXCEPT ![Of(l)] = @ + 1] ELSE texts
  /\ UNCHANGED <<now, life, row, patch, lost, crossed, doings, faults>>

Remind(l) == loop.at = "reminders" /\ l \in loop.left /\ Handle(l, l.id \notin InApp)

\* Mutant of FollowingTime: the occurrences missed meanwhile are left out.
FollowingFromNow(l) == loop.now + 1

FollowingTime(l) == l.at + 1

\* Mutant of Marked: an occurrence that was texted is not marked.
MarkedNever(l) == row[l.id]

\* A repeating reminder moves on by its period and its is_sent is left alone; any
\* other is marked.
Marked(l) ==
  LET is == row[l.id]
  IN [at |-> IF l.repeats THEN FollowingTime(l) ELSE is.at, repeats |-> is.repeats, on |-> is.on,
      sent |-> ~l.repeats \/ is.sent, n |-> is.n, from |-> is.from]

Commits(at) ==
  /\ row' = [i \in Ids |-> IF There(i) /\ i \in Rows(loop.done)
                           THEN Marked(CHOOSE l \in loop.done : l.id = i) ELSE row[i]]
  /\ loop' = [at |-> at, now |-> 0, left |-> {}, done |-> {}, texted |-> {}]
  /\ UNCHANGED <<now, life, patch, history, doings, faults>>

CommitReminders == loop.at = "reminders" /\ loop.left = {} /\ Commits("between")

-----------------------------------------------------------------------------
\* The loop: appointments.

\* All that want a text and have not had it, within a horizon of seven days.
LoadEvents ==
  /\ loop.at = "between"
  /\ loop' = [at |-> "events", now |-> now, done |-> {}, texted |-> {},
              left |-> Load({e \in Events : There(e) /\ row[e].on /\ ~row[e].sent})]
  /\ UNCHANGED <<now, life, row, patch, history, doings, faults>>

IsPast(l) == l.at < loop.now

\* Mutant of NotYet: due when it starts.
NotYetStarted(l) == l.at > loop.now

NotYet(l) == l.at - Lead > loop.now

Pass(l) ==
  /\ ~zoned /\ loop.at = "events" /\ l \in loop.left
  /\ IF NotYet(l)
     THEN /\ loop' = [at |-> loop.at, now |-> loop.now, left |-> loop.left \ {l},
                      done |-> loop.done, texted |-> loop.texted]
          /\ UNCHANGED <<now, life, row, patch, history, doings, faults>>
     ELSE Handle(l, ~IsPast(l))

CommitEvents == loop.at = "events" /\ loop.left = {} /\ Commits("sleep")

\* The pass raises and nothing it marked is written.  The loop catches it and
\* sleeps: after the reminders' pass raised, the appointments wait their turn.
Undone ==
  /\ loop' = Asleep
  /\ lost' = [o \in Occasions |-> IF \E l \in loop.texted : Of(l) = o THEN lost[o] + 1 ELSE lost[o]]
  /\ UNCHANGED <<now, life, row, patch, texts, crossed, doings>>

\* A time with a zone does not compare with datetime.now().
CannotCompare == zoned /\ loop.at = "events" /\ loop.left # {} /\ Undone /\ UNCHANGED faults

\* An UPDATE of a row that was deleted meanwhile fails the commit (when the driver
\* reports the count of its rows).
RowIsGone ==
  /\ loop.left = {} /\ \E i \in Rows(loop.done) : ~There(i)
  /\ Undone /\ UNCHANGED faults

\* A send raises, a commit fails, the process dies, or the supervisor cancels a
\* pass without a beat for fifteen minutes.
PassFails == loop.at # "sleep" /\ faults < MaxFaults /\ faults' = faults + 1 /\ Undone

-----------------------------------------------------------------------------
\* People.

Does == doings < MaxDoings /\ doings' = doings + 1
UnchangedByPeople == UNCHANGED <<now, loop, texts, lost, faults>>

Create(i) ==
  /\ life[i] = "none" /\ Cardinality({k \in Ids : life[k] # "none"}) < MaxRows
  /\ life' = [life EXCEPT ![i] = "there"]
  /\ \E t \in Times, repeats \in BOOLEAN, on \in BOOLEAN :
       /\ i \in Events => ~repeats
       /\ i \in Reminders => ~on
       /\ row' = [row EXCEPT ![i] = [at |-> t, repeats |-> repeats, on |-> on, sent |-> FALSE, n |-> 0, from |-> t]]
  /\ UnchangedByPeople /\ UNCHANGED <<patch, crossed, doings>>

Delete(i) ==
  /\ Does /\ There(i) /\ life' = [life EXCEPT ![i] = "gone"]
  /\ UnchangedByPeople /\ UNCHANGED <<row, patch, crossed>>

Held(i) == i \in Rows(loop.left \cup loop.done)

\* PATCH /reminders: the time and the repetition; is_sent is none of its fields.
UpdateReminder(r) ==
  /\ Does /\ There(r)
  /\ \E t \in Times, repeats \in BOOLEAN :
       LET is == row[r]
           n == IF t # is.at THEN is.n + 1 ELSE is.n
       IN /\ t # is.at \/ repeats # is.repeats
          /\ row' = [row EXCEPT ![r] =
                       [at |-> t, repeats |-> repeats, on |-> FALSE, sent |-> is.sent, n |-> n,
                        from |-> IF t # is.at THEN t ELSE is.from]]
          /\ crossed' = IF t # is.at /\ (Held(r) \/ is.sent) THEN crossed \cup {<<r, n>>} ELSE crossed
  /\ UnchangedByPeople /\ UNCHANGED <<life, patch>>

\* PATCH /calendar reads the row, and later writes what differs from what it read.
UpdateEvent(e) ==
  /\ Does /\ There(e) /\ patch = None
  /\ \E t \in Times, on \in BOOLEAN :
       (t # row[e].at \/ on # row[e].on) /\ patch' = [id |-> e, was |-> row[e], at |-> t, on |-> on]
  /\ UnchangedByPeople /\ UNCHANGED <<life, row, crossed>>

\* Mutant of Unsent: a new time leaves the mark alone.
UnsentNever(p, e) == row[e].sent

\* Rescheduled: the mark is cleared, which is a change only if it was read as set.
Unsent(p, e) == IF p.at # p.was.at /\ p.was.sent THEN FALSE ELSE row[e].sent

CommitPatch ==
  LET e == patch.id
      is == row[e]
      moves == patch.at # patch.was.at
      n == IF moves THEN is.n + 1 ELSE is.n
  IN /\ patch # None /\ patch' = None
     /\ IF There(e)
        THEN /\ row' = [row EXCEPT ![e] =
                          [at |-> IF moves THEN patch.at ELSE is.at, repeats |-> FALSE,
                           on |-> IF patch.on # patch.was.on THEN patch.on ELSE is.on,
                           sent |-> Unsent(patch, e), n |-> n, from |-> IF moves THEN patch.at ELSE is.from]]
             /\ crossed' = IF moves /\ (Held(e) \/ is.sent # patch.was.sent)
                           THEN crossed \cup {<<e, n>>} ELSE crossed
        ELSE UNCHANGED <<row, crossed>>
     /\ UnchangedByPeople /\ UNCHANGED <<life, doings>>

Tick == now < LastTime /\ now' = now + 1 /\ UNCHANGED <<life, row, loop, patch, history, doings, faults>>

Loop == \/ Wake \/ CommitReminders \/ LoadEvents \/ CommitEvents \/ CannotCompare
        \/ \E l \in loop.left : Remind(l) \/ Pass(l)
People == \/ CommitPatch
          \/ \E i \in Ids : Create(i) \/ Delete(i)
          \/ \E r \in Reminders : UpdateReminder(r)
          \/ \E e \in Events : UpdateEvent(e)
Next == (Loop \/ RowIsGone \/ PassFails \/ People \/ Tick) /\ UNCHANGED zoned

Spec == Init /\ [][Next]_vars
\* The supervisor keeps the loop running; the clock and people owe nothing.
FairSpec == Spec /\ WF_vars(Loop /\ UNCHANGED zoned)
-----------------------------------------------------------------------------
\* A reminder or an appointment is texted once per time it has, and once more for
\* each pass over it that was undone after its text left (the marks wait for the
\* pass's commit, main.py:891 and main.py:932).
TextedOnce == \A o \in Occasions : texts[o] <= 1 + lost[o]

\* A time given to an appointment is owed a text: marked without one, it was past,
\* or given while a pass or another write of the mark was under way («rescheduled
\* — the attendee is owed a reminder for the new time», crm.py:2807).
MovedIsOwed == \A e \in Events :
  There(e) /\ row[e].sent /\ texts[<<e, row[e].n, row[e].at>>] = 0 =>
    row[e].at < now \/ <<e, row[e].n>> \in crossed

\* No occurrence of a reminder by SMS is passed over, not even after hours without
\* the loop: each one since people last set it was texted (main.py:917-931), unless
\* they set it during a pass over it or once it was marked.
NoneIsSkipped == \A r \in Reminders \ InApp, t \in Times :
  /\ There(r) /\ <<r, row[r].n>> \notin crossed
  /\ row[r].from <= t /\ (t < row[r].at \/ (t = row[r].at /\ row[r].sent))
  => texts[<<r, row[r].n, t>>] > 0

Owed(i) == /\ There(i) /\ ~row[i].sent
           /\ \/ i \in Reminders /\ row[i].at <= now
              \/ i \in Events /\ row[i].on /\ row[i].at - Lead <= now

\* Whatever is due is caught up with or withdrawn, though passes fail and rows they
\* hold are moved and deleted (the loop of main.py:823); the reminders even where
\* the pass over the appointments raises each time (main.py:829).
EveryDueIsHandled == \A i \in Ids : (Owed(i) /\ ~(zoned /\ i \in Events)) ~> ~Owed(i)
=============================================================================
