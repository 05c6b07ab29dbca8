-------------------------- MODULE RemindersProofs --------------------------
(***************************************************************************)
(* What holds of Reminders for any reminders, appointments, times and        *)
(* number of edits and faults: the types, that a time is texted once but for *)
(* undone passes, and that no time is passed over.                          *)
(***************************************************************************)
EXTENDS Reminders, TLAPS

(* Types.                                                                   *)

\* An appointment does not repeat, and only people move it; people do not move a
\* row more often than they do anything.
Sane(i) == /\ i \in Events => row[i].at \in Times /\ ~row[i].repeats
           /\ row[i].n <= doings
           /\ patch # None /\ patch.id = i => row[i].n < doings
HeldRow(l) == l.id \in Events => ~l.repeats

TypeInv == /\ TypeOK /\ \A i \in Ids : Sane(i)
           /\ \A l \in loop.left \cup loop.done : HeldRow(l)

RowsOK == row \in [Ids -> Row] /\ \A i \in Events : row[i].at \in Times /\ ~row[i].repeats
LoopOK == /\ loop \in [at : {"sleep", "reminders", "between", "events"}, now : Times,
                       left : SUBSET Loaded, done : SUBSET Loaded, texted : SUBSET Loaded]
          /\ loop.at \in {"sleep", "between"} => loop.left \cup loop.done = {}
          /\ \A l \in loop.left \cup loop.done : HeldRow(l)
PatchOK == patch = None \/ patch \in [id : Events, was : Row, at : Times, on : BOOLEAN]
HistoryOK == /\ texts \in [Occasions -> Nat] /\ lost \in [Occasions -> Nat]
             /\ crossed \subseteq Ids \X (0..MaxDoings)
LifeOK == life \in [Ids -> {"none", "there", "gone"}]
CountsOK == /\ doings \in 0..MaxDoings /\ faults \in 0..MaxFaults /\ zoned \in BOOLEAN /\ now \in Times
            /\ \A i \in Ids : row[i].n <= doings /\ (patch # None /\ patch.id = i => row[i].n < doings)

LEMMA Parts == TypeInv <=> RowsOK /\ LoopOK /\ PatchOK /\ HistoryOK /\ LifeOK /\ CountsOK
BY DEF TypeInv, TypeOK, Sane, RowsOK, LoopOK, PatchOK, HistoryOK, LifeOK, CountsOK, Ids

LEMMA PartsNext == (TypeInv <=> RowsOK /\ LoopOK /\ PatchOK /\ HistoryOK /\ LifeOK /\ CountsOK)'
BY DEF TypeInv, TypeOK, Sane, RowsOK, LoopOK, PatchOK, HistoryOK, LifeOK, CountsOK, Ids

LEMMA InitType == Init => TypeInv
<1> SUFFICES ASSUME Init PROVE TypeInv OBVIOUS
<1>1. 0 \in Times /\ 0 \in 0..MaxDoings /\ 0 \in 0..MaxFaults  BY Bounds DEF Times
<1>2. RowsOK  BY <1>1 DEF Init, RowsOK, Row, Ids
<1>3. LoopOK  BY <1>1 DEF Init, LoopOK, Asleep, Loaded
<1>4. PatchOK /\ HistoryOK /\ LifeOK /\ CountsOK
      BY <1>1 DEF Init, PatchOK, HistoryOK, LifeOK, CountsOK
<1> QED BY <1>2, <1>3, <1>4, Parts

LEMMA Stays ==
    ASSUME TypeInv
    PROVE  /\ UNCHANGED row => RowsOK'
           /\ UNCHANGED loop => LoopOK'
           /\ UNCHANGED patch => PatchOK'
           /\ UNCHANGED history => HistoryOK'
           /\ UNCHANGED life => LifeOK'
BY Parts DEF RowsOK, LoopOK, PatchOK, HistoryOK, LifeOK, HeldRow, history

\* What the loop holds of a row.
LEMMA Loading ==
    ASSUME TypeInv, NEW S \in SUBSET Ids, \A i \in S : row[i].at \in Times
    PROVE  /\ Load(S) \subseteq Loaded
           /\ \A l \in Load(S) : l.id \in S /\ l.at = row[l.id].at /\ l.repeats = row[l.id].repeats /\ l.n = row[l.id].n
BY Parts DEF RowsOK, Load, Loaded, Row

LEMMA OfType == ASSUME NEW l \in Loaded PROVE Of(l) \in Occasions /\ Of(l) = <<l.id, l.n, l.at>>
BY DEF Loaded, Of, Occasions

\* What a pass does to the loop, the rows and the history.
Loads(at) ==
  /\ loop.at \in {"sleep", "between"} /\ loop'.at = at /\ loop'.now = now /\ loop'.done = {} /\ loop'.texted = {}
  /\ \A l \in loop'.left :
       /\ There(l.id) /\ ~row[l.id].sent /\ l.at = row[l.id].at /\ l.repeats = row[l.id].repeats /\ l.n = row[l.id].n
       /\ l.id \in Ids /\ (l.id \in Reminders <=> at = "reminders")
  /\ UNCHANGED <<now, life, row, patch, history, doings, faults>>

LEMMA WakeLoads ==
    ASSUME TypeInv, Wake
    PROVE  Loads("reminders") /\ LoopOK'
<1> DEFINE S == {r \in Reminders : Due(r)}
<1>1. S \in SUBSET Ids /\ \A i \in S : row[i].at \in Times /\ There(i) /\ ~row[i].sent
      BY Parts, Bounds DEF Due, RowsOK, Row, Times, Ids, CountsOK
<1>2. loop' = [at |-> "reminders", now |-> now, left |-> Load(S), done |-> {}, texted |-> {}]
      /\ UNCHANGED <<now, life, row, patch, history, doings, faults>> /\ loop.at = "sleep"
      BY DEF Wake
<1>3. S \subseteq Reminders  OBVIOUS
<1> HIDE DEF S
<1>4. /\ Load(S) \subseteq Loaded
      /\ \A l \in Load(S) : l.id \in S /\ l.at = row[l.id].at /\ l.repeats = row[l.id].repeats /\ l.n = row[l.id].n
      BY <1>1, Loading
<1>5. Loads("reminders")  BY <1>1, <1>2, <1>3, <1>4 DEF Loads
<1>6. LoopOK'  BY <1>2, <1>3, <1>4, Apart, Parts DEF LoopOK, HeldRow, CountsOK
<1> QED BY <1>5, <1>6

LEMMA EventsLoad ==
    ASSUME TypeInv, LoadEvents
    PROVE  Loads("events") /\ LoopOK'
<1> DEFINE S == {e \in Events : There(e) /\ row[e].on /\ ~row[e].sent}
<1>1. S \in SUBSET Ids /\ \A i \in S : row[i].at \in Times /\ There(i) /\ ~row[i].sent /\ ~row[i].repeats
      BY Parts DEF RowsOK, Ids
<1>2. loop' = [at |-> "events", now |-> now, done |-> {}, texted |-> {}, left |-> Load(S)]
      /\ UNCHANGED <<now, life, row, patch, history, doings, faults>> /\ loop.at = "between"
      BY DEF LoadEvents
<1>3. S \subseteq Events  OBVIOUS
<1> HIDE DEF S
<1>4. /\ Load(S) \subseteq Loaded
      /\ \A l \in Load(S) : l.id \in S /\ l.at = row[l.id].at /\ l.repeats = row[l.id].repeats /\ l.n = row[l.id].n
      BY <1>1, Loading
<1>5. Loads("events")  BY <1>1, <1>2, <1>3, <1>4, Apart DEF Loads
<1>6. LoopOK'  BY <1>1, <1>2, <1>4, Parts DEF LoopOK, HeldRow, CountsOK
<1> QED BY <1>5, <1>6

\* A row is put aside: texted, marked without a text, or left for a later pass.
Puts(l) ==
  /\ l \in loop.left /\ loop'.at = loop.at /\ loop'.now = loop.now /\ loop'.left = loop.left \ {l}
  /\ \/ /\ loop'.done = loop.done \cup {l} /\ loop'.texted = loop.texted \cup {l}
        /\ texts' = [texts EXCEPT ![Of(l)] = @ + 1]
     \/ /\ loop'.done = loop.done \cup {l} /\ loop'.texted = loop.texted /\ texts' = texts
        /\ (loop.at = "reminders" /\ l.id \in InApp) \/ (loop.at = "events" /\ IsPast(l))
     \/ loop'.done = loop.done /\ loop'.texted = loop.texted /\ texts' = texts
  /\ loop.at \in {"reminders", "events"}
  /\ UNCHANGED <<now, life, row, patch, lost, crossed, doings, faults>>

LEMMA RowPut ==
    ASSUME TypeInv, NEW l \in loop.left, Remind(l) \/ Pass(l)
    PROVE  Puts(l) /\ LoopOK' /\ HistoryOK'
<1>1. /\ LoopOK /\ HistoryOK /\ l \in Loaded /\ loop.left \subseteq Loaded /\ loop.done \subseteq Loaded
      /\ loop.texted \subseteq Loaded
      BY Parts DEF LoopOK
<1>2. texts \in [Occasions -> Nat] => [texts EXCEPT ![Of(l)] = @ + 1] \in [Occasions -> Nat]
      BY <1>1, OfType
<1>3. ASSUME NEW b \in BOOLEAN, Handle(l, b), loop.at \in {"reminders", "events"},
             b \/ (loop.at = "reminders" /\ l.id \in InApp) \/ (loop.at = "events" /\ IsPast(l))
      PROVE  Puts(l) /\ LoopOK' /\ HistoryOK'
  <2> DEFINE done == loop.done \cup {l}
             texted == IF b THEN loop.texted \cup {l} ELSE loop.texted
  <2>1. /\ loop' = [at |-> loop.at, now |-> loop.now, left |-> loop.left \ {l}, done |-> done, texted |-> texted]
        /\ texts' = IF b THEN [texts EXCEPT ![Of(l)] = @ + 1] ELSE texts
        /\ UNCHANGED <<now, life, row, patch, lost, crossed, doings, faults>>
        BY <1>3 DEF Handle
  <2>2. done \subseteq Loaded /\ texted \subseteq Loaded  BY <1>1
  <2>3. Puts(l)  BY <1>3, <2>1 DEF Puts
  <2>4. LoopOK'
    <3>1. \A k \in loop.left \cup done : HeldRow(k)  BY <1>1 DEF LoopOK
    <3> HIDE DEF done, texted
    <3> QED BY <1>1, <1>3, <2>1, <2>2, <3>1 DEF LoopOK, HeldRow
  <2>5. HistoryOK'  BY <1>1, <1>2, <2>1 DEF HistoryOK
  <2> QED BY <2>3, <2>4, <2>5
<1>4. CASE Remind(l)
  <2>1. Handle(l, l.id \notin InApp) /\ loop.at = "reminders"  BY <1>4 DEF Remind
  <2> QED BY <1>3, <2>1
<1>5. CASE Pass(l)
  <2>1. CASE NotYet(l)
    <3>1. /\ loop' = [at |-> loop.at, now |-> loop.now, left |-> loop.left \ {l}, done |-> loop.done,
                      texted |-> loop.texted]
          /\ loop.at = "events" /\ UNCHANGED <<now, life, row, patch, texts, lost, crossed, doings, faults>>
          BY <1>5, <2>1 DEF Pass, history
    <3>2. Puts(l)  BY <3>1 DEF Puts
    <3>3. LoopOK' /\ HistoryOK'  BY <1>1, <3>1 DEF LoopOK, HistoryOK, HeldRow
    <3> QED BY <3>2, <3>3
  <2>2. CASE ~NotYet(l)
    <3>1. Handle(l, ~IsPast(l)) /\ loop.at = "events"  BY <1>5, <2>2 DEF Pass
    <3> QED BY <1>3, <3>1
  <2> QED BY <2>1, <2>2
<1> QED BY <1>4, <1>5

\* The marks of a pass are written.
Writes(at) ==
  /\ loop'.at = at /\ loop'.left = {} /\ loop'.done = {} /\ loop'.texted = {} /\ loop'.now = 0
  /\ \A i \in Ids : \/ row'[i] = row[i] /\ (There(i) => \A l \in loop.done : l.id # i)
                    \/ \E l \in loop.done : /\ l.id = i /\ There(i)
                         /\ row'[i].at = (IF l.repeats THEN l.at + 1 ELSE row[i].at) /\ row'[i].n = row[i].n
                         /\ row'[i].from = row[i].from
                         /\ row'[i].sent = (~l.repeats \/ row[i].sent) /\ row'[i].repeats = row[i].repeats
  /\ loop.left = {} /\ UNCHANGED <<now, life, patch, texts, lost, crossed, doings, faults>>

LEMMA MarkedType ==
    ASSUME TypeInv, NEW l \in loop.done
    PROVE  /\ Marked(l) \in Row /\ Marked(l).n = row[l.id].n /\ Marked(l).from = row[l.id].from
           /\ Marked(l).at = (IF l.repeats THEN l.at + 1 ELSE row[l.id].at)
           /\ Marked(l).sent = (~l.repeats \/ row[l.id].sent) /\ Marked(l).repeats = row[l.id].repeats
<1>1. l \in Loaded  BY Parts DEF LoopOK
<1>2. /\ l.id \in Ids /\ l.at \in Nat /\ l.repeats \in BOOLEAN /\ row[l.id] \in Row  BY <1>1, Parts DEF Loaded, Times, RowsOK
<1>3. Marked(l) = [at |-> IF l.repeats THEN l.at + 1 ELSE row[l.id].at, repeats |-> row[l.id].repeats, on |-> row[l.id].on,
                   sent |-> ~l.repeats \/ row[l.id].sent, n |-> row[l.id].n, from |-> row[l.id].from]
      BY DEF Marked, FollowingTime
<1>4. (IF l.repeats THEN l.at + 1 ELSE row[l.id].at) \in Nat  BY <1>2 DEF Row
<1> QED BY <1>2, <1>3, <1>4 DEF Row

LEMMA Committing ==
    ASSUME TypeInv, NEW at \in {"sleep", "between"}, Commits(at), loop.left = {}
    PROVE  Writes(at) /\ RowsOK' /\ LoopOK'
<1>0. RowsOK /\ LoopOK  BY Parts
<1>1. /\ row' = [i \in Ids |-> IF There(i) /\ i \in Rows(loop.done)
                           THEN Marked(CHOOSE l \in loop.done : l.id = i) ELSE row[i]]
      /\ loop' = [at |-> at, now |-> 0, left |-> {}, done |-> {}, texted |-> {}]
      /\ UNCHANGED <<now, life, patch, texts, lost, crossed, doings, faults>>
      BY DEF Commits, history
<1>2. ASSUME NEW i \in Ids, There(i), i \in Rows(loop.done)
      PROVE  \E l \in loop.done : l.id = i /\ row'[i] = Marked(l)
  <2> DEFINE l == CHOOSE k \in loop.done : k.id = i
  <2>1. l \in loop.done /\ l.id = i  BY <1>2 DEF Rows
  <2>2. row'[i] = Marked(l)  BY <1>1, <1>2
  <2> QED BY <2>1, <2>2
<1>3. ASSUME NEW i \in Ids, ~There(i) \/ i \notin Rows(loop.done)
      PROVE  row'[i] = row[i] /\ (There(i) => \A l \in loop.done : l.id # i)
      BY <1>1, <1>3 DEF Rows
<1>4. Writes(at)
  <2>1. ASSUME NEW i \in Ids
        PROVE  \/ row'[i] = row[i] /\ (There(i) => \A l \in loop.done : l.id # i)
               \/ \E l \in loop.done : /\ l.id = i /\ There(i)
                    /\ row'[i].at = (IF l.repeats THEN l.at + 1 ELSE row[i].at) /\ row'[i].n = row[i].n
                    /\ row'[i].from = row[i].from
                    /\ row'[i].sent = (~l.repeats \/ row[i].sent) /\ row'[i].repeats = row[i].repeats
    <3>1. CASE There(i) /\ i \in Rows(loop.done)  BY <1>2, <3>1, MarkedType
    <3>2. CASE ~(There(i) /\ i \in Rows(loop.done))  BY <1>3, <3>2
    <3> QED BY <3>1, <3>2
  <2> QED BY <1>1, <2>1 DEF Writes
<1>5. RowsOK'
  <2>1. \A i \in Ids : row'[i] \in Row  BY <1>0, <1>2, <1>3, MarkedType DEF RowsOK
  <2>2. row' \in [Ids -> Row]  BY <1>1, <2>1
  <2>3. \A i \in Events : row'[i].at \in Times /\ ~row'[i].repeats
    <3> TAKE i \in Events
    <3>1. CASE There(i) /\ i \in Rows(loop.done)
      <4>1. PICK l \in loop.done : l.id = i /\ row'[i] = Marked(l)  BY <1>2, <3>1 DEF Ids
      <4>2. ~l.repeats  BY <1>0, <4>1 DEF LoopOK, HeldRow
      <4> QED BY <1>0, <4>1, <4>2, MarkedType DEF RowsOK
    <3>2. CASE ~(There(i) /\ i \in Rows(loop.done))  BY <1>0, <1>3, <3>2 DEF RowsOK, Ids
    <3> QED BY <3>1, <3>2
  <2> QED BY <2>2, <2>3 DEF RowsOK
<1>6. LoopOK'
  <2>1. 0 \in Times  BY Bounds DEF Times
  <2> QED BY <1>1, <2>1 DEF LoopOK
<1> QED BY <1>4, <1>5, <1>6

\* A pass is undone.
Drops ==
  /\ loop'.at = "sleep" /\ loop'.left = {} /\ loop'.done = {} /\ loop'.texted = {} /\ loop'.now = 0
  /\ \A o \in Occasions : lost'[o] = IF \E l \in loop.texted : Of(l) = o THEN lost[o] + 1 ELSE lost[o]
  /\ UNCHANGED <<now, life, row, patch, texts, crossed, doings>>

LEMMA Undoing == ASSUME TypeInv, Undone PROVE Drops /\ LoopOK' /\ HistoryOK'
<1>1. 0 \in Times /\ HistoryOK  BY Bounds, Parts DEF Times
<1>2. loop' = Asleep /\ UNCHANGED <<now, life, row, patch, texts, crossed, doings>>
      /\ lost' = [o \in Occasions |-> IF \E l \in loop.texted : Of(l) = o THEN lost[o] + 1 ELSE lost[o]]
      BY DEF Undone
<1>3. LoopOK'  BY <1>1, <1>2 DEF LoopOK, Asleep
<1>4. HistoryOK'  BY <1>1, <1>2 DEF HistoryOK
<1>5. Drops  BY <1>2 DEF Drops, Asleep
<1> QED BY <1>3, <1>4, <1>5

\* What people do to a row: it is created, deleted, moved, or something else of it
\* changes.
Created(i) == /\ life[i] = "none" /\ life'[i] = "there" /\ row'[i].n = 0 /\ ~row'[i].sent
              /\ row'[i].from = row'[i].at
Deleted(i) == There(i) /\ life'[i] = "gone" /\ row'[i] = row[i]
Moved(i) == /\ There(i) /\ life'[i] = life[i] /\ row'[i].n = row[i].n + 1 /\ row'[i].from = row'[i].at
            /\ Held(i) \/ row'[i].sent => <<i, row[i].n + 1>> \in crossed'
            /\ i \in Reminders => row'[i].sent = row[i].sent
Kept(i) == /\ life'[i] = life[i] /\ row'[i].n = row[i].n /\ row'[i].at = row[i].at
           /\ row'[i].from = row[i].from /\ row'[i].sent = row[i].sent
Edited(i) == /\ i \in Ids /\ \A j \in Ids : j # i => row'[j] = row[j] /\ life'[j] = life[j]
             /\ Created(i) \/ Deleted(i) \/ Moved(i) \/ Kept(i)
             /\ crossed \subseteq crossed' /\ UNCHANGED <<now, loop, texts, lost>>

\* A row that is changed keeps its type.
LEMMA RowChanges ==
    ASSUME TypeInv, NEW i \in Ids, NEW x \in Row, row' = [row EXCEPT ![i] = x],
           i \in Events => x.at \in Times /\ ~x.repeats
    PROVE  RowsOK' /\ row'[i] = x /\ \A j \in Ids : j # i => row'[j] = row[j]
<1>1. RowsOK  BY Parts
<1> QED BY <1>1 DEF RowsOK, Ids

LEMMA Counting ==
    ASSUME TypeInv, NEW i \in Ids, UNCHANGED <<zoned, now, faults>>, doings' \in {doings, doings + 1},
           doings' <= MaxDoings, \A j \in Ids : j # i => row'[j] = row[j], row'[i].n <= doings',
           patch' # None => patch' = patch \/ patch'.id = i,
           patch' # None /\ patch'.id = i => row'[i].n < doings'
    PROVE  CountsOK'
<1>1. CountsOK /\ \A j \in Ids : row[j].n \in Nat  BY Parts, Bounds DEF RowsOK, Row
<1>2. doings' \in 0..MaxDoings /\ doings <= doings'  BY <1>1, Bounds DEF CountsOK
<1>3. ASSUME NEW j \in Ids
      PROVE  row'[j].n <= doings' /\ (patch' # None /\ patch'.id = j => row'[j].n < doings')
  <2>1. CASE j = i  BY <2>1
  <2>2. CASE j # i
    <3>1. row'[j].n = row[j].n /\ row[j].n \in Nat /\ row[j].n <= doings  BY <1>1, <2>2 DEF CountsOK
    <3>2. patch' # None /\ patch'.id = j => row[j].n < doings  BY <1>1, <2>2 DEF CountsOK
    <3>3. doings \in Int /\ doings' \in Int  BY <1>1, <1>2, Bounds DEF CountsOK
    <3> QED BY <1>2, <3>1, <3>2, <3>3
  <2> QED BY <2>1, <2>2
<1> QED BY <1>1, <1>2, <1>3 DEF CountsOK

LEMMA Creating ==
    ASSUME TypeInv, NEW i \in Ids, Create(i), UNCHANGED zoned
    PROVE  Edited(i) /\ TypeInv'
<1>1. PICK t \in Times, repeats \in BOOLEAN, on \in BOOLEAN :
        /\ i \in Events => ~repeats
        /\ row' = [row EXCEPT ![i] = [at |-> t, repeats |-> repeats, on |-> on, sent |-> FALSE, n |-> 0, from |-> t]]
      BY DEF Create
<1> DEFINE x == [at |-> t, repeats |-> repeats, on |-> on, sent |-> FALSE, n |-> 0, from |-> t]
<1>2. x \in Row /\ (i \in Events => x.at \in Times /\ ~x.repeats)  BY <1>1, Bounds DEF Row, Times
<1>3. x.n = 0 /\ ~x.sent /\ x.from = x.at  OBVIOUS
<1>4. row' = [row EXCEPT ![i] = x]  BY <1>1
<1> HIDE DEF x
<1>5. RowsOK' /\ row'[i] = x /\ \A j \in Ids : j # i => row'[j] = row[j]  BY <1>2, <1>4, RowChanges
<1>6. /\ life[i] = "none" /\ life' = [life EXCEPT ![i] = "there"]
      /\ UNCHANGED <<now, loop, texts, lost, faults, patch, crossed, doings>>
      BY DEF Create, UnchangedByPeople
<1>7. LifeOK' /\ life'[i] = "there" /\ \A j \in Ids : j # i => life'[j] = life[j]
      BY <1>6, Parts DEF LifeOK
<1>8. Edited(i)  BY <1>3, <1>5, <1>6, <1>7 DEF Edited, Created
<1>9. CountsOK'
  <2>1. \A j \in Ids : row[j].n \in Nat  BY Parts, Bounds DEF RowsOK, Row
  <2> QED BY <2>1, <1>3, <1>5, <1>6, Parts DEF CountsOK
<1> QED BY <1>5, <1>6, <1>7, <1>8, <1>9, PartsNext, Stays DEF history

LEMMA Deleting ==
    ASSUME TypeInv, NEW i \in Ids, Delete(i), UNCHANGED zoned
    PROVE  Edited(i) /\ TypeInv'
<1>1. /\ There(i) /\ life' = [life EXCEPT ![i] = "gone"] /\ doings < MaxDoings /\ doings' = doings + 1
      /\ UNCHANGED <<now, loop, texts, lost, faults, row, patch, crossed>>
      BY DEF Delete, Does, UnchangedByPeople
<1>2. LifeOK' /\ life'[i] = "gone" /\ \A j \in Ids : j # i => life'[j] = life[j]
      BY <1>1, Parts DEF LifeOK
<1>3. Edited(i)  BY <1>1, <1>2 DEF Edited, Deleted
<1>4. CountsOK'
  <2>1. \A j \in Ids : row[j].n \in Nat  BY Parts, Bounds DEF RowsOK, Row
  <2> QED BY <2>1, <1>1, Parts, Bounds DEF CountsOK
<1> QED BY <1>1, <1>2, <1>3, <1>4, PartsNext, Stays DEF history

LEMMA Updating ==
    ASSUME TypeInv, NEW r \in Reminders, UpdateReminder(r), UNCHANGED zoned
    PROVE  Edited(r) /\ TypeInv'
<1>0. /\ r \in Ids /\ r \notin Events /\ There(r) /\ row[r] \in Row /\ row[r].n <= doings
      /\ doings < MaxDoings /\ doings' = doings + 1
      /\ UNCHANGED <<now, loop, texts, lost, faults, life, patch>>
      BY Apart, Parts DEF UpdateReminder, Does, UnchangedByPeople, Ids, RowsOK, CountsOK
<1> DEFINE n(t) == IF t # row[r].at THEN row[r].n + 1 ELSE row[r].n
           from(t) == IF t # row[r].at THEN t ELSE row[r].from
           x(t, b) == [at |-> t, repeats |-> b, on |-> FALSE, sent |-> row[r].sent, n |-> n(t), from |-> from(t)]
<1>1. PICK t \in Times, b \in BOOLEAN :
        /\ row' = [row EXCEPT ![r] = x(t, b)]
        /\ crossed' = IF t # row[r].at /\ (Held(r) \/ row[r].sent) THEN crossed \cup {<<r, n(t)>>} ELSE crossed
      BY DEF UpdateReminder
<1>2. n(t) \in 0..MaxDoings /\ from(t) \in Times /\ n(t) <= doings + 1
  <2>1. row[r].n \in 0..MaxDoings /\ row[r].from \in Times /\ doings \in 0..MaxDoings
        BY <1>0, Parts DEF Row, CountsOK
  <2> QED BY <1>0, <2>1, Bounds
<1>3. x(t, b) \in Row  BY <1>0, <1>2 DEF Row, Times
<1>4. x(t, b).at = t /\ x(t, b).n = n(t) /\ x(t, b).from = from(t) /\ x(t, b).sent = row[r].sent  OBVIOUS
<1> DEFINE y == x(t, b)
<1>5. y \in Row /\ row' = [row EXCEPT ![r] = y] /\ y.at = t /\ y.n = n(t) /\ y.from = from(t) /\ y.sent = row[r].sent
      BY <1>1, <1>3, <1>4
<1> HIDE DEF y
<1>6. RowsOK' /\ row'[r] = y /\ \A j \in Ids : j # r => row'[j] = row[j]  BY <1>0, <1>5, RowChanges
<1>7. Edited(r) /\ HistoryOK'
  <2>1. CASE t = row[r].at
    <3>1. Kept(r)  BY <1>0, <1>5, <1>6, <2>1 DEF Kept
    <3>2. crossed' = crossed  BY <1>1, <2>1
    <3> QED BY <1>0, <1>6, <3>1, <3>2, Stays DEF Edited, history
  <2>2. CASE t # row[r].at
    <3>1. n(t) = row[r].n + 1 /\ from(t) = t  BY <2>2
    <3>2. crossed' = IF Held(r) \/ row[r].sent THEN crossed \cup {<<r, n(t)>>} ELSE crossed  BY <1>1, <2>2
    <3>3. Moved(r)  BY <1>0, <1>5, <1>6, <3>1, <3>2 DEF Moved
    <3>4. crossed \subseteq crossed' /\ crossed' \subseteq crossed \cup {<<r, n(t)>>}  BY <3>2
    <3>5. Edited(r)  BY <1>0, <1>6, <3>3, <3>4 DEF Edited
    <3>6. HistoryOK'  BY <1>0, <1>2, <3>4, Parts DEF HistoryOK
    <3> QED BY <3>5, <3>6
  <2> QED BY <2>1, <2>2
<1>8. CountsOK'
  <2>1. doings \in 0..MaxDoings /\ (patch # None => patch.id # r)
        BY <1>0, Parts DEF CountsOK, PatchOK
  <2>2. row'[r].n <= doings'  BY <1>0, <1>2, <1>5, <1>6
  <2>3. doings' <= MaxDoings  BY <1>0, <2>1, Bounds
  <2> QED BY <1>0, <1>6, <2>1, <2>2, <2>3, Counting
<1> QED BY <1>0, <1>6, <1>7, <1>8, PartsNext, Stays

LEMMA Patching ==
    ASSUME TypeInv, NEW e \in Events, UpdateEvent(e), UNCHANGED zoned
    PROVE  Edited(e) /\ TypeInv'
<1>1. /\ e \in Ids /\ There(e) /\ doings < MaxDoings /\ doings' = doings + 1
      /\ UNCHANGED <<now, loop, texts, lost, faults, life, row, crossed>>
      BY DEF UpdateEvent, Does, UnchangedByPeople, Ids
<1>2. PICK t \in Times, on \in BOOLEAN : patch' = [id |-> e, was |-> row[e], at |-> t, on |-> on]
      BY DEF UpdateEvent
<1>3. PatchOK' /\ patch'.id = e  BY <1>1, <1>2, Parts DEF PatchOK, RowsOK
<1>4. CountsOK'
  <2>1. row[e].n \in Nat /\ row[e].n <= doings /\ doings \in 0..MaxDoings
        BY <1>1, Parts, Bounds DEF RowsOK, Row, CountsOK
  <2>2. row'[e].n <= doings' /\ row'[e].n < doings' /\ doings' <= MaxDoings  BY <1>1, <2>1, Bounds
  <2> QED BY <1>1, <1>3, <2>2, Counting
<1>5. Edited(e)  BY <1>1 DEF Edited, Kept
<1> QED BY <1>1, <1>3, <1>4, <1>5, PartsNext, Stays DEF history

LEMMA Rescheduling ==
    ASSUME TypeInv, CommitPatch, UNCHANGED zoned
    PROVE  (\E e \in Events : Edited(e)) /\ TypeInv'
<1> DEFINE e == patch.id
           moves == patch.at # patch.was.at
           at == IF moves THEN patch.at ELSE row[e].at
           n == IF moves THEN row[e].n + 1 ELSE row[e].n
           x == [at |-> at, repeats |-> FALSE, on |-> IF patch.on # patch.was.on THEN patch.on ELSE row[e].on,
                 sent |-> Unsent(patch, e), n |-> n, from |-> IF moves THEN patch.at ELSE row[e].from]
<1>1. /\ patch # None /\ patch' = None
      /\ IF There(e)
         THEN /\ row' = [row EXCEPT ![e] = x]
              /\ crossed' = IF moves /\ (Held(e) \/ row[e].sent # patch.was.sent)
                            THEN crossed \cup {<<e, n>>} ELSE crossed
         ELSE UNCHANGED <<row, crossed>>
      /\ UNCHANGED <<now, loop, texts, lost, faults, life, doings>>
      BY DEF CommitPatch, UnchangedByPeople
<1>2. /\ e \in Events /\ e \in Ids /\ patch.at \in Times /\ patch.on \in BOOLEAN /\ patch.was \in Row
      /\ row[e] \in Row /\ row[e].at \in Times /\ row[e].n < doings /\ doings \in 0..MaxDoings
      BY <1>1, Parts DEF PatchOK, RowsOK, CountsOK, Ids
<1>3. /\ at \in Times /\ n \in 0..MaxDoings /\ n <= doings
      /\ (IF moves THEN patch.at ELSE row[e].from) \in Times /\ Unsent(patch, e) \in BOOLEAN
  <2>1. row[e].n \in 0..MaxDoings /\ row[e].from \in Times /\ row[e].sent \in BOOLEAN  BY <1>2 DEF Row
  <2>2. n \in 0..MaxDoings /\ n <= doings  BY <1>2, <2>1, Bounds
  <2>3. Unsent(patch, e) \in BOOLEAN  BY <2>1 DEF Unsent
  <2> QED BY <1>2, <2>1, <2>2, <2>3
<1>4. x \in Row
  <2>1. (IF patch.on # patch.was.on THEN patch.on ELSE row[e].on) \in BOOLEAN  BY <1>2 DEF Row
  <2>2. at \in Nat  BY <1>3 DEF Times
  <2> HIDE DEF at, n
  <2> QED BY <1>3, <2>1, <2>2 DEF Row
<1>5. /\ x.at = at /\ ~x.repeats /\ x.n = n /\ x.sent = Unsent(patch, e)
      /\ x.from = IF moves THEN patch.at ELSE row[e].from
      OBVIOUS
<1> HIDE DEF x
<1>6. CASE There(e)
  <2>1. RowsOK' /\ row'[e] = x /\ \A j \in Ids : j # e => row'[j] = row[j]
        BY <1>1, <1>2, <1>3, <1>4, <1>5, <1>6, RowChanges
  <2>2. crossed \subseteq crossed' /\ crossed' \subseteq crossed \cup {<<e, n>>}  BY <1>1, <1>6
  <2>3. HistoryOK'  BY <1>1, <1>2, <1>3, <2>2, Parts DEF HistoryOK
  <2>4. Moved(e) \/ Kept(e)
    <3>1. CASE moves
      <4>1. x.at = patch.at /\ x.n = row[e].n + 1 /\ x.from = x.at  BY <1>5, <3>1
      <4>2. x.sent => row[e].sent # patch.was.sent
            BY <1>2, <1>5, <3>1 DEF Unsent, Row
      <4>3. Held(e) \/ x.sent => <<e, row[e].n + 1>> \in crossed'  BY <1>1, <1>6, <3>1, <4>2
      <4> QED BY <1>1, <1>2, <1>6, <2>1, <4>1, <4>3, Apart DEF Moved
    <3>2. CASE ~moves  BY <1>1, <1>5, <2>1, <3>2 DEF Kept, Unsent
    <3> QED BY <3>1, <3>2
  <2>5. Edited(e)  BY <1>1, <1>2, <2>1, <2>2, <2>4 DEF Edited
  <2>6. CountsOK'
    <3>1. row'[e].n <= doings' /\ doings' <= MaxDoings /\ doings' = doings
          BY <1>1, <1>2, <1>3, <1>5, <2>1, Bounds
    <3> HIDE DEF e
    <3> QED BY <1>1, <1>2, <2>1, <3>1, Counting
  <2>7. PatchOK'  BY <1>1 DEF PatchOK
  <2> HIDE DEF e
  <2> QED BY <1>1, <1>2, <2>1, <2>3, <2>5, <2>6, <2>7, PartsNext, Stays
<1>7. CASE ~There(e)
  <2>1. UNCHANGED <<row, crossed, life, now, loop, texts, lost, faults, doings>> /\ patch' = None  BY <1>1, <1>7
  <2>2. Edited(e)  BY <1>2, <2>1 DEF Edited, Kept
  <2>3. CountsOK' /\ PatchOK'  BY <2>1, Parts DEF CountsOK, PatchOK
  <2> QED BY <1>2, <2>1, <2>2, <2>3, PartsNext, Stays DEF history
<1> QED BY <1>6, <1>7

LEMMA Ticking ==
    ASSUME TypeInv, Tick, UNCHANGED zoned
    PROVE  TypeInv' /\ now <= now' /\ UNCHANGED <<life, row, loop, texts, lost, crossed>>
<1>1. now < LastTime /\ now' = now + 1 /\ UNCHANGED <<life, row, loop, patch, history, doings, faults>>  BY DEF Tick
<1>2. now \in Times  BY Parts DEF CountsOK
<1>3. now' \in Times /\ now <= now'  BY <1>1, <1>2, Bounds DEF Times
<1>4. CountsOK'  BY <1>1, <1>3, Parts DEF CountsOK
<1> QED BY <1>1, <1>3, <1>4, PartsNext, Stays DEF history

\* Each step of the specification is one of these.
Still == now <= now' /\ UNCHANGED <<life, row, loop, texts, lost, crossed>>
Step == \/ Loads("reminders") \/ Loads("events") \/ Drops \/ Still
        \/ \E at \in {"sleep", "between"} : Writes(at)
        \/ \E l \in loop.left : Puts(l)
        \/ \E i \in Ids : Edited(i)

LEMMA Steps ==
    ASSUME TypeInv, [Next]_vars
    PROVE  TypeInv' /\ Step
<1>0. now \in Int /\ faults \in 0..MaxFaults  BY Parts DEF CountsOK, Times
<1>1. CASE UNCHANGED vars
  <2>1. UNCHANGED <<zoned, now, life, row, loop, patch, history, doings, faults>>  BY <1>1 DEF vars
  <2>2. CountsOK'  BY <2>1, Parts DEF CountsOK
  <2>3. Still  BY <1>0, <2>1 DEF Still, history
  <2> QED BY <2>1, <2>2, <2>3, PartsNext, Stays DEF Step
<1>2. CASE Next
  <2>0. UNCHANGED zoned  BY <1>2 DEF Next
  <2>1. CASE Wake
    <3>1. Loads("reminders") /\ LoopOK'  BY <2>1, WakeLoads
    <3>2. CountsOK'  BY <2>0, <3>1, Parts DEF Loads, CountsOK
    <3> QED BY <3>1, <3>2, PartsNext, Stays DEF Loads, Step
  <2>2. CASE LoadEvents
    <3>1. Loads("events") /\ LoopOK'  BY <2>2, EventsLoad
    <3>2. CountsOK'  BY <2>0, <3>1, Parts DEF Loads, CountsOK
    <3> QED BY <3>1, <3>2, PartsNext, Stays DEF Loads, Step
  <2>3. CASE CommitReminders \/ CommitEvents
    <3>1. PICK at \in {"sleep", "between"} : Commits(at) /\ loop.left = {}
          BY <2>3 DEF CommitReminders, CommitEvents
    <3>2. Writes(at) /\ RowsOK' /\ LoopOK'  BY <3>1, Committing
    <3>3. \A i \in Ids : row'[i].n = row[i].n  BY <3>2 DEF Writes
    <3>4. CountsOK'  BY <2>0, <3>2, <3>3, Parts DEF Writes, CountsOK
    <3> QED BY <3>1, <3>2, <3>4, PartsNext, Stays DEF Writes, Step, history, Commits
  <2>4. CASE Undone /\ faults' \in {faults, faults + 1} /\ faults' <= MaxFaults
    <3>1. Drops /\ LoopOK' /\ HistoryOK'  BY <2>4, Undoing
    <3>2. faults' \in 0..MaxFaults  BY <1>0, <2>4, Bounds
    <3>3. CountsOK'  BY <2>0, <3>1, <3>2, Parts DEF Drops, CountsOK
    <3> QED BY <3>1, <3>3, PartsNext, Stays DEF Drops, Step
  <2>5. CASE CannotCompare \/ RowIsGone \/ PassFails
    <3>1. Undone /\ faults' \in {faults, faults + 1} /\ faults' <= MaxFaults
          BY <1>0, <2>5, Bounds DEF CannotCompare, RowIsGone, PassFails
    <3> QED BY <2>4, <3>1
  <2>6. CASE \E l \in loop.left : Remind(l) \/ Pass(l)
    <3>1. PICK l \in loop.left : Remind(l) \/ Pass(l)  BY <2>6
    <3>2. Puts(l) /\ LoopOK' /\ HistoryOK'  BY <3>1, RowPut
    <3>3. CountsOK'  BY <2>0, <3>2, Parts DEF Puts, CountsOK
    <3> QED BY <3>2, <3>3, PartsNext, Stays DEF Puts, Step
  <2>7. CASE People
    <3>1. CASE CommitPatch  BY <2>0, <3>1, Rescheduling DEF Step, Ids
    <3>2. CASE \E i \in Ids : Create(i) \/ Delete(i)  BY <2>0, <3>2, Creating, Deleting DEF Step
    <3>3. CASE \E r \in Reminders : UpdateReminder(r)  BY <2>0, <3>3, Updating DEF Step, Ids
    <3>4. CASE \E e \in Events : UpdateEvent(e)  BY <2>0, <3>4, Patching DEF Step, Ids
    <3> QED BY <2>7, <3>1, <3>2, <3>3, <3>4 DEF People
  <2>8. CASE Tick  BY <2>0, <2>8, Ticking DEF Step, Still
  <2> QED BY <1>2, <2>1, <2>2, <2>3, <2>5, <2>6, <2>7, <2>8 DEF Next, Loop
<1> QED BY <1>1, <1>2

\* The state is well formed for any reminders and appointments, and whatever
\* people do and fails meanwhile (_fire_due_reminders, main.py:847).
THEOREM TypeCorrect == Spec => []TypeOK
<1>1. TypeInv /\ [Next]_vars => TypeInv'  BY Steps
<1>2. TypeInv => TypeOK  BY DEF TypeInv
<1> QED BY <1>1, <1>2, InitType, PTL DEF Spec

(* Once, and none passed over.                                              *)

Cells == loop.left \cup loop.done
Told(i, n, t) == texts[<<i, n, t>>] > 0

\* What was texted is of a row that is or was there, at a time it has or had.
Known == \A i \in Ids, n \in 0..MaxDoings, t \in Times : Told(i, n, t) => life[i] # "none" /\ n <= row[i].n

\* The loop will not load this time of a row again.
Spent(i, n, t) == n < row[i].n \/ row[i].at > t \/ row[i].sent \/ life[i] = "gone"

\* A text beyond those lost is in the hands of this pass, or its time is spent.
Counted == \A i \in Ids, n \in 0..MaxDoings, t \in Times :
  \/ texts[<<i, n, t>>] <= lost[<<i, n, t>>]
  \/ /\ texts[<<i, n, t>>] = lost[<<i, n, t>>] + 1
     /\ (\E l \in loop.texted : Of(l) = <<i, n, t>>) \/ Spent(i, n, t)

\* What the loop holds of a row is true of it still, or people have moved it since.
Follows(l) ==
  /\ life[l.id] # "none" /\ l.n <= row[l.id].n
  /\ l.n = row[l.id].n => l.at = row[l.id].at
  /\ l.n < row[l.id].n => <<l.id, row[l.id].n>> \in crossed
  /\ \A n \in 0..MaxDoings, t \in Times : Told(l.id, n, t) => n <= l.n
  /\ l.id \in Reminders => ~row[l.id].sent
Left(l) == texts[Of(l)] <= lost[Of(l)]
Done(l) == /\ l.id \in Events => texts[Of(l)] > 0 \/ l.at < loop.now
           /\ l.id \in Reminders \ InApp => texts[Of(l)] > 0

OnePass == /\ loop.now <= now /\ loop.left \cap loop.done = {} /\ loop.texted \subseteq loop.done
           /\ \A l, k \in Cells : l.id = k.id => l = k
           /\ \A l \in Cells : l.id \in Reminders <=> loop.at = "reminders"

PassInv == /\ Known /\ Counted /\ OnePass
           /\ \A l \in Cells : Follows(l)
           /\ \A l \in loop.left : Left(l)
           /\ \A l \in loop.done : Done(l)

\* The parts of the types that these steps need.
LEMMA Types ==
    ASSUME TypeInv
    PROVE  /\ \A i \in Ids : /\ row[i].at \in Nat /\ row[i].n \in 0..MaxDoings /\ row[i].n \in Nat
                              /\ row[i].sent \in BOOLEAN /\ row[i].from \in Times
           /\ \A i \in Ids, n \in 0..MaxDoings, t \in Times : texts[<<i, n, t>>] \in Nat /\ lost[<<i, n, t>>] \in Nat
           /\ \A l \in Cells : /\ l \in Loaded /\ l.id \in Ids /\ l.n \in 0..MaxDoings /\ l.n \in Nat /\ l.at \in Times /\ l.at \in Nat
                               /\ Of(l) = <<l.id, l.n, l.at>>
           /\ now \in Nat /\ loop.now \in Nat
<1>1. \A i \in Ids : row[i] \in Row  BY Parts DEF RowsOK
<1>2. 0..MaxDoings \subseteq Nat /\ Times \subseteq Nat  BY Bounds DEF Times
<1>3. \A i \in Ids, n \in 0..MaxDoings, t \in Times : texts[<<i, n, t>>] \in Nat /\ lost[<<i, n, t>>] \in Nat
      BY Parts DEF HistoryOK, Occasions
<1>4. \A l \in Cells : l \in Loaded  BY Parts DEF LoopOK, Cells
<1>5. now \in Nat /\ loop.now \in Nat  BY <1>2, Parts DEF CountsOK, LoopOK
<1> QED BY <1>1, <1>2, <1>3, <1>4, <1>5 DEF Row, Loaded, Of

LEMMA InitPass == Init => PassInv
<1> SUFFICES ASSUME Init PROVE PassInv OBVIOUS
<1>1. 0 \in Times  BY Bounds DEF Times
<1>2. \A o \in Occasions : texts[o] = 0 /\ lost[o] = 0  BY DEF Init
<1>3. Known /\ Counted  BY <1>2 DEF Known, Counted, Told, Occasions
<1>4. OnePass /\ Cells = {}  BY DEF Init, OnePass, Cells, Asleep
<1> QED BY <1>3, <1>4 DEF PassInv, Cells

\* Where the loop holds nothing afterwards.
LEMMA Empties ==
    ASSUME Known', Counted', loop'.left = {}, loop'.done = {}, loop'.texted = {}, (loop.now <= now)'
    PROVE  PassInv'
BY DEF PassInv, OnePass, Cells

LEMMA DropsPass ==
    ASSUME TypeInv, TypeInv', PassInv, Drops
    PROVE  PassInv'
<1>1. loop' \in [at : {"sleep", "reminders", "between", "events"}, now : Times,
                       left : SUBSET Loaded, done : SUBSET Loaded, texted : SUBSET Loaded]
      /\ UNCHANGED <<now, life, row, texts, crossed>>
      BY PartsNext DEF LoopOK, Drops
<1>2. now \in Nat /\ loop'.now = 0  BY Types DEF Drops
<1>3. Known'  BY <1>1 DEF PassInv, Known, Told
<1>4. ASSUME NEW i \in Ids, NEW n \in 0..MaxDoings, NEW t \in Times
      PROVE  \/ texts[<<i, n, t>>] <= lost'[<<i, n, t>>]
             \/ texts[<<i, n, t>>] = lost'[<<i, n, t>>] + 1 /\ Spent(i, n, t)
  <2> DEFINE o == <<i, n, t>>
  <2>1. lost'[o] = IF \E l \in loop.texted : Of(l) = o THEN lost[o] + 1 ELSE lost[o]  BY DEF Drops, Occasions
  <2>2. texts[o] \in Nat /\ lost[o] \in Nat  BY Types
  <2>3. \/ texts[o] <= lost[o]
        \/ texts[o] = lost[o] + 1 /\ ((\E l \in loop.texted : Of(l) = o) \/ Spent(i, n, t))
        BY DEF PassInv, Counted
  <2> HIDE DEF o
  <2>4. CASE \E l \in loop.texted : Of(l) = o  BY <2>1, <2>2, <2>3, <2>4 DEF o
  <2>5. CASE ~\E l \in loop.texted : Of(l) = o  BY <2>1, <2>2, <2>3, <2>5 DEF o
  <2> QED BY <2>4, <2>5
<1>5. Counted'  BY <1>1, <1>4 DEF Counted, Spent
<1> QED BY <1>1, <1>2, <1>3, <1>5, Empties DEF Drops

LEMMA StillPass ==
    ASSUME TypeInv, TypeInv', PassInv, Still
    PROVE  PassInv'
<1>1. now <= now' /\ UNCHANGED <<life, row, loop, texts, lost, crossed>>  BY DEF Still
<1>2. Known' /\ Counted'  BY <1>1 DEF PassInv, Known, Counted, Told, Spent
<1>3. now \in Nat /\ now' \in Nat /\ loop.now \in Nat
  <2>1. (now \in Times)'  BY PartsNext DEF CountsOK
  <2> QED BY <2>1, Types, Bounds DEF Times
<1>4. OnePass'  BY <1>1, <1>3 DEF PassInv, OnePass, Cells
<1>5. \A l \in Cells : Follows(l)'  BY <1>1 DEF PassInv, Follows, Told
<1>6. (\A l \in loop.left : Left(l)') /\ \A l \in loop.done : Done(l)'  BY <1>1 DEF PassInv, Left, Done
<1> QED BY <1>1, <1>2, <1>4, <1>5, <1>6 DEF PassInv, Cells

LEMMA LoadsPass ==
    ASSUME TypeInv, TypeInv', PassInv, NEW at \in {"reminders", "events"}, Loads(at)
    PROVE  PassInv'
<1>0. /\ loop'.now = now /\ loop'.done = {} /\ loop'.texted = {} /\ loop'.at = at
      /\ UNCHANGED <<now, life, row, texts, lost, crossed>>
      BY DEF Loads, history
<1>1. loop.texted = {}
  <2>1. loop.left \cup loop.done = {}  BY Parts DEF Loads, LoopOK
  <2> QED BY <2>1 DEF PassInv, OnePass
<1>2. Known'  BY <1>0 DEF PassInv, Known, Told
<1>3. Counted'  BY <1>0, <1>1 DEF PassInv, Counted, Spent
<1>4. \A l \in loop'.left : l \in Loaded  BY PartsNext DEF LoopOK
<1>5. ASSUME NEW l \in loop'.left
      PROVE  /\ There(l.id) /\ ~row[l.id].sent /\ l.at = row[l.id].at /\ l.repeats = row[l.id].repeats /\ l.n = row[l.id].n
             /\ l.id \in Ids /\ (l.id \in Reminders <=> at = "reminders")
             /\ l.n \in 0..MaxDoings /\ l.at \in Times /\ Of(l) = <<l.id, l.n, l.at>> /\ l.n \in Nat
      BY <1>4, Bounds DEF Loads, Loaded, Of
<1>6. OnePass'
  <2>1. now \in Nat  BY Types
  <2>2. \A l, k \in loop'.left : l.id = k.id => l = k  BY <1>4, <1>5 DEF Loaded
  <2> QED BY <1>0, <1>5, <2>1, <2>2 DEF OnePass, Cells
<1>7. ASSUME NEW l \in loop'.left PROVE Follows(l)' /\ Left(l)'
  <2>1. \A n \in 0..MaxDoings, t \in Times : Told(l.id, n, t) => n <= row[l.id].n  BY <1>5 DEF PassInv, Known
  <2>2. life[l.id] = "there"  BY <1>5 DEF There
  <2>3. Follows(l)'  BY <1>0, <1>5, <2>1, <2>2 DEF Follows, Told
  <2>4. ~Spent(l.id, l.n, l.at)  BY <1>5, <2>2, Types DEF Spent
  <2>5. Left(l)'  BY <1>0, <1>1, <1>5, <2>4 DEF PassInv, Counted, Left
  <2> QED BY <2>3, <2>5
<1> QED BY <1>0, <1>2, <1>3, <1>6, <1>7 DEF PassInv, Cells

LEMMA PutsPass ==
    ASSUME TypeInv, TypeInv', PassInv, NEW l \in loop.left, Puts(l)
    PROVE  PassInv'
<1>0. /\ loop'.at = loop.at /\ loop'.now = loop.now /\ loop'.left = loop.left \ {l}
      /\ UNCHANGED <<now, life, row, lost, crossed>>
      BY DEF Puts
<1>1. /\ l \in Cells /\ l.id \in Ids /\ l.n \in 0..MaxDoings /\ l.at \in Times /\ Of(l) = <<l.id, l.n, l.at>>
      /\ Of(l) \in Occasions /\ texts \in [Occasions -> Nat]
  <2>1. l \in Cells  BY DEF Cells
  <2> QED BY <2>1, Types, Parts DEF Occasions, HistoryOK
<1>2. /\ OnePass /\ Follows(l) /\ Left(l) /\ \A k \in Cells : k # l => k.id # l.id
      BY <1>1 DEF PassInv, OnePass
<1>3. /\ \A o \in Occasions : o # Of(l) => texts'[o] = texts[o]
      /\ texts'[Of(l)] = texts[Of(l)] \/ (texts'[Of(l)] = texts[Of(l)] + 1 /\ l \in loop'.texted)
      /\ loop'.done \in {loop.done, loop.done \cup {l}}
      /\ loop'.texted \subseteq loop'.done /\ loop.texted \subseteq loop'.texted
      /\ l \in loop'.done => \/ texts'[Of(l)] = texts[Of(l)] + 1
                             \/ (loop.at = "reminders" /\ l.id \in InApp) \/ (loop.at = "events" /\ IsPast(l))
      BY <1>1, <1>2 DEF Puts, OnePass
<1>4. \A o \in Occasions : texts[o] \in Nat /\ texts'[o] \in Nat /\ texts[o] <= texts'[o]  BY <1>1, <1>3
<1>5. ASSUME NEW i \in Ids, NEW n \in 0..MaxDoings, NEW t \in Times, Told(i, n, t)'
      PROVE  Told(i, n, t) \/ (i = l.id /\ n = l.n)
  <2>1. <<i, n, t>> \in Occasions  BY DEF Occasions
  <2> QED BY <1>1, <1>3, <1>5, <2>1 DEF Told
<1>6. Known'
  <2>1. ASSUME NEW i \in Ids, NEW n \in 0..MaxDoings, NEW t \in Times, Told(i, n, t)'
        PROVE  life[i] # "none" /\ n <= row[i].n
        BY <1>2, <1>5, <2>1 DEF PassInv, Known, Follows
  <2> QED BY <1>0, <2>1 DEF Known
<1>7. Counted'
  <2>1. ASSUME NEW i \in Ids, NEW n \in 0..MaxDoings, NEW t \in Times
        PROVE  \/ texts'[<<i, n, t>>] <= lost[<<i, n, t>>]
               \/ /\ texts'[<<i, n, t>>] = lost[<<i, n, t>>] + 1
                  /\ (\E k \in loop'.texted : Of(k) = <<i, n, t>>) \/ Spent(i, n, t)
    <3> DEFINE o == <<i, n, t>>
    <3>1. o \in Occasions  BY DEF Occasions
    <3>2. texts[o] \in Nat /\ lost[o] \in Nat  BY Types
    <3>3. \/ texts[o] <= lost[o]
          \/ texts[o] = lost[o] + 1 /\ ((\E k \in loop.texted : Of(k) = o) \/ Spent(i, n, t))
          BY DEF PassInv, Counted
    <3> HIDE DEF o
    <3>4. \/ texts'[o] <= lost[o]
          \/ texts'[o] = lost[o] + 1 /\ ((\E k \in loop'.texted : Of(k) = o) \/ Spent(i, n, t))
      <4>1. CASE o = Of(l)
        <5>1. texts[o] <= lost[o]  BY <1>2, <4>1 DEF Left
        <5>2. CASE texts'[o] = texts[o]  BY <5>1, <5>2
        <5>3. CASE texts'[o] = texts[o] + 1 /\ l \in loop'.texted  BY <3>2, <4>1, <5>1, <5>3
        <5> QED BY <1>3, <4>1, <5>2, <5>3
      <4>2. CASE o # Of(l)
        <5>1. texts'[o] = texts[o]  BY <1>3, <3>1, <4>2
        <5> QED BY <1>3, <3>3, <5>1
      <4> QED BY <4>1, <4>2
    <3> QED BY <3>4 DEF o
  <2> QED BY <1>0, <2>1 DEF Counted, Spent
<1>8. OnePass'
  <2>1. loop'.left \cap loop'.done = {}  BY <1>0, <1>2, <1>3 DEF OnePass
  <2>2. loop'.left \cup loop'.done \subseteq Cells  BY <1>0, <1>1, <1>3 DEF Cells
  <2> QED BY <1>0, <1>2, <1>3, <2>1, <2>2 DEF OnePass, Cells
<1>9. ASSUME NEW k \in Cells PROVE Follows(k)'
  <2>1. Follows(k) /\ k.id \in Ids /\ k.n \in Nat  BY Types DEF PassInv
  <2>2. ASSUME NEW n \in 0..MaxDoings, NEW t \in Times, Told(k.id, n, t)' PROVE n <= k.n
    <3>1. CASE Told(k.id, n, t)  BY <2>1, <3>1 DEF Follows
    <3>2. CASE k.id = l.id /\ n = l.n
      <4>1. k = l  BY <1>2, <3>2
      <4> QED BY <2>1, <3>2, <4>1
    <3> QED BY <1>5, <2>1, <2>2, <3>1, <3>2
  <2> QED BY <1>0, <2>1, <2>2 DEF Follows
<1>10. ASSUME NEW k \in Cells, k # l PROVE texts'[Of(k)] = texts[Of(k)]
  <2>1. Of(k) = <<k.id, k.n, k.at>> /\ Of(k) \in Occasions  BY Types DEF Occasions
  <2>2. k.id # l.id  BY <1>2, <1>10
  <2> QED BY <1>1, <1>3, <2>1, <2>2
<1>11. ASSUME NEW k \in loop'.left PROVE Left(k)'
  <2>1. k \in loop.left /\ k # l /\ k \in Cells  BY <1>0 DEF Cells
  <2> QED BY <1>0, <1>10, <2>1 DEF PassInv, Left
<1>12. ASSUME NEW k \in loop'.done PROVE Done(k)'
  <2>1. CASE k = l
    <3>1. /\ texts[Of(l)] \in Nat /\ (l.id \in Reminders <=> loop.at = "reminders")
          /\ l.id \in Events => l.id \notin Reminders
          BY <1>1, <1>2, <1>4, Apart DEF OnePass
    <3>2. \/ texts'[Of(l)] > 0
          \/ (loop.at = "reminders" /\ l.id \in InApp) \/ (loop.at = "events" /\ IsPast(l))
          BY <1>3, <1>12, <2>1, <3>1
    <3> QED BY <1>0, <2>1, <3>1, <3>2 DEF Done, IsPast
  <2>2. CASE k # l
    <3>1. k \in loop.done /\ k \in Cells  BY <1>3, <2>2 DEF Cells
    <3> QED BY <1>0, <1>10, <2>2, <3>1 DEF PassInv, Done
  <2> QED BY <2>1, <2>2
<1> QED
  <2>1. loop'.left \cup loop'.done \subseteq Cells  BY <1>0, <1>1, <1>3 DEF Cells
  <2> QED BY <1>6, <1>7, <1>8, <1>9, <1>11, <1>12, <2>1 DEF PassInv, Cells

LEMMA WritesPass ==
    ASSUME TypeInv, TypeInv', PassInv, NEW at \in {"sleep", "between"}, Writes(at)
    PROVE  PassInv'
<1>0. /\ loop'.left = {} /\ loop'.done = {} /\ loop'.texted = {} /\ loop'.now = 0 /\ loop.left = {}
      /\ UNCHANGED <<now, life, texts, lost, crossed>> /\ now \in Nat
      BY Types DEF Writes
<1>1. ASSUME NEW i \in Ids
      PROVE  row'[i].n = row[i].n /\ (row[i].sent => row'[i].sent)
  <2>1. row[i].sent \in BOOLEAN  BY Types
  <2> QED BY <2>1 DEF Writes
<1>2. Known'  BY <1>0, <1>1 DEF PassInv, Known, Told
<1>3. ASSUME NEW i \in Ids, NEW n \in 0..MaxDoings, NEW t \in Times, Told(i, n, t),
             (\E l \in loop.texted : Of(l) = <<i, n, t>>) \/ Spent(i, n, t)
      PROVE  Spent(i, n, t)'
  <2>0. row[i].n \in Nat /\ row[i].at \in Nat /\ n \in Nat /\ t \in Nat /\ row[i].sent \in BOOLEAN
        BY Types, Bounds DEF Times
  <2>1. CASE \E l \in loop.texted : Of(l) = <<i, n, t>>
    <3>1. PICK l \in loop.done : Of(l) = <<i, n, t>>  BY <2>1 DEF PassInv, OnePass
    <3>2. l \in Cells /\ l.id = i /\ l.n = n /\ l.at = t
      <4>1. l \in Cells  BY DEF Cells
      <4> QED BY <3>1, <4>1, Types
    <3>3. Follows(l) /\ \A k \in loop.done : k.id = i => k = l  BY <3>2 DEF PassInv, OnePass, Cells
    <3>4. CASE There(i)
      <4>1. /\ row'[i].at = (IF l.repeats THEN l.at + 1 ELSE row[i].at) /\ row'[i].n = row[i].n
            /\ row'[i].sent = (~l.repeats \/ row[i].sent)
            BY <3>2, <3>3, <3>4 DEF Writes
      <4>2. l.at + 1 > t  BY <2>0, <3>2
      <4> QED BY <2>0, <4>1, <4>2 DEF Spent
    <3>5. CASE ~There(i)
      <4>1. life[i] = "gone"
        <5>1. life[i] # "none" /\ life[i] \in {"none", "there", "gone"}
              BY <3>2, <3>3, Parts DEF Follows, LifeOK
        <5> QED BY <3>5, <5>1 DEF There
      <4> QED BY <1>0, <4>1 DEF Spent
    <3> QED BY <3>4, <3>5
  <2>2. CASE Spent(i, n, t) /\ ~(row[i].at > t /\ ~(n < row[i].n))  BY <1>0, <1>1, <2>2 DEF Spent
  <2>3. CASE row[i].at > t /\ ~(n < row[i].n)
    <3>1. n = row[i].n  BY <1>3, <2>0, <2>3 DEF PassInv, Known
    <3>2. CASE row'[i] = row[i]  BY <2>3, <3>2 DEF Spent
    <3>3. CASE row'[i] # row[i]
      <4>1. PICK l \in loop.done :
              /\ l.id = i /\ row'[i].at = (IF l.repeats THEN l.at + 1 ELSE row[i].at)
            BY <3>3 DEF Writes
      <4>2. l \in Cells /\ Follows(l) /\ l.n \in Nat  /\ l.at \in Nat
        <5>1. l \in Cells  BY DEF Cells
        <5> QED BY <5>1, Types DEF PassInv
      <4>3. l.at = row[i].at  BY <1>3, <2>0, <3>1, <4>1, <4>2 DEF Follows
      <4>4. row'[i].at > t  BY <2>0, <2>3, <4>1, <4>2, <4>3
      <4> QED BY <4>4 DEF Spent
    <3> QED BY <3>2, <3>3
  <2> QED BY <1>3, <2>1, <2>2, <2>3
<1>4. Counted'
  <2>1. ASSUME NEW i \in Ids, NEW n \in 0..MaxDoings, NEW t \in Times
        PROVE  \/ texts[<<i, n, t>>] <= lost[<<i, n, t>>]
               \/ texts[<<i, n, t>>] = lost[<<i, n, t>>] + 1 /\ Spent(i, n, t)'
    <3> DEFINE o == <<i, n, t>>
    <3>1. texts[o] \in Nat /\ lost[o] \in Nat  BY Types
    <3>2. texts[o] > lost[o] => texts[o] > 0  BY <3>1
    <3> QED BY <1>3, <3>1, <3>2 DEF PassInv, Counted, Told
  <2> QED BY <1>0, <2>1 DEF Counted
<1> QED BY <1>0, <1>2, <1>4, Empties

LEMMA EditedPass ==
    ASSUME TypeInv, TypeInv', PassInv, NEW i \in Ids, Edited(i)
    PROVE  PassInv'
<1>0. /\ \A j \in Ids : j # i => row'[j] = row[j] /\ life'[j] = life[j]
      /\ crossed \subseteq crossed' /\ UNCHANGED <<now, loop, texts, lost>>
      /\ Created(i) \/ Deleted(i) \/ Moved(i) \/ Kept(i)
      BY DEF Edited
<1>1. \A n \in 0..MaxDoings, t \in Times : Told(i, n, t) => life'[i] # "none" /\ n <= row'[i].n /\ life[i] # "none" /\ n <= row[i].n
  <2> TAKE n \in 0..MaxDoings, t \in Times
  <2> HAVE Told(i, n, t)
  <2>1. life[i] # "none" /\ n <= row[i].n /\ row[i].n \in Nat /\ n \in Nat
        BY Types, Bounds DEF PassInv, Known
  <2> QED BY <1>0, <2>1 DEF Created, Deleted, Moved, Kept
<1>2. Known'  BY <1>0, <1>1 DEF PassInv, Known, Told
<1>3. ASSUME NEW n \in 0..MaxDoings, NEW t \in Times, Told(i, n, t), Spent(i, n, t) PROVE Spent(i, n, t)'
  <2>1. life[i] # "none" /\ n <= row[i].n /\ row[i].n \in Nat /\ n \in Nat  BY <1>1, <1>3, Types, Bounds
  <2> QED BY <1>0, <1>3, <2>1 DEF Created, Deleted, Moved, Kept, Spent, There
<1>4. Counted'
  <2>1. ASSUME NEW j \in Ids, NEW n \in 0..MaxDoings, NEW t \in Times
        PROVE  \/ texts[<<j, n, t>>] <= lost[<<j, n, t>>]
               \/ /\ texts[<<j, n, t>>] = lost[<<j, n, t>>] + 1
                  /\ (\E l \in loop.texted : Of(l) = <<j, n, t>>) \/ Spent(j, n, t)'
    <3>1. texts[<<j, n, t>>] \in Nat /\ lost[<<j, n, t>>] \in Nat  BY Types
    <3>2. texts[<<j, n, t>>] > lost[<<j, n, t>>] => Told(j, n, t)  BY <3>1 DEF Told
    <3>3. j # i => (Spent(j, n, t)' <=> Spent(j, n, t))  BY <1>0 DEF Spent
    <3> QED BY <1>3, <3>1, <3>2, <3>3 DEF PassInv, Counted
  <2> QED BY <1>0, <2>1 DEF Counted
<1>5. OnePass'  BY <1>0 DEF PassInv, OnePass, Cells
<1>6. ASSUME NEW l \in Cells PROVE Follows(l)'
  <2>1. Follows(l) /\ l.id \in Ids /\ l.n \in Nat /\ row[l.id].n \in Nat  BY Types DEF PassInv
  <2>2. CASE l.id # i
    <3>1. row'[l.id] = row[l.id] /\ life'[l.id] = life[l.id]  BY <1>0, <2>1, <2>2
    <3> QED BY <1>0, <2>1, <3>1 DEF Follows, Told
  <2>3. CASE l.id = i
    <3>1. Held(i)  BY <2>3 DEF Held, Rows, Cells
    <3>2. ~Created(i)  BY <2>1, <2>3 DEF Follows, Created
    <3>3. CASE Deleted(i)  BY <1>0, <2>1, <2>3, <3>3 DEF Follows, Told, Deleted
    <3>4. CASE Moved(i)
      <4>1. /\ life'[i] = life[i] /\ row'[i].n = row[i].n + 1 /\ <<i, row'[i].n>> \in crossed'
            /\ i \in Reminders => row'[i].sent = row[i].sent
            BY <3>1, <3>4 DEF Moved
      <4> QED BY <1>0, <2>1, <2>3, <4>1 DEF Follows, Told
    <3>5. CASE Kept(i)  BY <1>0, <2>1, <2>3, <3>5 DEF Follows, Told, Kept
    <3> QED BY <1>0, <3>2, <3>3, <3>4, <3>5
  <2> QED BY <2>2, <2>3
<1>7. (\A l \in loop.left : Left(l)') /\ \A l \in loop.done : Done(l)'  BY <1>0 DEF PassInv, Left, Done
<1> QED BY <1>0, <1>2, <1>4, <1>5, <1>6, <1>7 DEF PassInv, Cells

LEMMA PassNext == TypeInv /\ PassInv /\ [Next]_vars => (TypeInv /\ PassInv)'
<1> SUFFICES ASSUME TypeInv, PassInv, [Next]_vars PROVE TypeInv' /\ PassInv'  OBVIOUS
<1>1. TypeInv' /\ Step  BY Steps
<1> QED BY <1>1, LoadsPass, DropsPass, StillPass, WritesPass, PutsPass, EditedPass DEF Step

\* A reminder or an appointment is texted once per time it has, and once more for
\* each undone pass (the marks wait for the commit, main.py:891 and main.py:932).
THEOREM OncePerTime == Spec => []TextedOnce
<1>1. Init => TypeInv /\ PassInv  BY InitType, InitPass
<1>2. TypeInv /\ PassInv => TextedOnce
  <2> SUFFICES ASSUME TypeInv, PassInv, NEW o \in Occasions PROVE texts[o] <= 1 + lost[o]  BY DEF TextedOnce
  <2>1. PICK i \in Ids, n \in 0..MaxDoings, t \in Times : o = <<i, n, t>>  BY DEF Occasions
  <2>2. texts[<<i, n, t>>] \in Nat /\ lost[<<i, n, t>>] \in Nat  BY Types
  <2> QED BY <2>1, <2>2 DEF PassInv, Counted
<1> QED BY <1>1, <1>2, PassNext, PTL DEF Spec

\* A step that writes no row keeps what was texted.
LEMMA Keeping ==
    ASSUME TypeInv, Step, NEW i \in Ids
    PROVE  \/ /\ row'[i] = row[i] /\ life'[i] = life[i] /\ now <= now' /\ crossed \subseteq crossed'
              /\ \A n \in 0..MaxDoings, t \in Times : texts[<<i, n, t>>] > 0 => texts'[<<i, n, t>>] > 0
           \/ (\E at \in {"sleep", "between"} : Writes(at)) /\ row'[i] # row[i]
           \/ Edited(i)
<1> DEFINE Same == /\ row'[i] = row[i] /\ life'[i] = life[i] /\ now <= now' /\ crossed \subseteq crossed'
                   /\ \A n \in 0..MaxDoings, t \in Times : texts[<<i, n, t>>] > 0 => texts'[<<i, n, t>>] > 0
<1>0. now \in Nat  BY Types
<1>1. CASE Loads("reminders") \/ Loads("events") \/ Drops \/ Still
      BY <1>0, <1>1 DEF Loads, Drops, Still, history
<1>2. CASE \E at \in {"sleep", "between"} : Writes(at)  BY <1>0, <1>2 DEF Writes
<1>3. CASE \E l \in loop.left : Puts(l)
  <2>1. PICK l \in loop.left : Puts(l)  BY <1>3
  <2>2. Of(l) \in Occasions /\ texts \in [Occasions -> Nat]  BY Types, Parts DEF Cells, Occasions, HistoryOK
  <2>3. texts' = texts \/ texts' = [texts EXCEPT ![Of(l)] = @ + 1]  BY <2>1 DEF Puts
  <2>4. \A o \in Occasions : texts[o] > 0 => texts'[o] > 0  BY <2>2, <2>3
  <2> QED BY <1>0, <2>1, <2>4 DEF Puts, Occasions
<1>4. CASE \E j \in Ids : Edited(j)
  <2>1. PICK j \in Ids : Edited(j)  BY <1>4
  <2>2. CASE j = i  BY <2>1, <2>2
  <2>3. CASE j # i  BY <1>0, <2>1, <2>3 DEF Edited
  <2> QED BY <2>2, <2>3
<1> QED BY <1>1, <1>2, <1>3, <1>4 DEF Step

LEMMA OwedNext ==
    ASSUME TypeInv, TypeInv', PassInv, Step, MovedIsOwed
    PROVE  MovedIsOwed'
<1> SUFFICES ASSUME NEW e \in Events, There(e)', row'[e].sent, texts'[<<e, row'[e].n, row'[e].at>>] = 0
             PROVE  row'[e].at < now' \/ <<e, row'[e].n>> \in crossed'
    BY DEF MovedIsOwed
<1>0. /\ e \in Ids /\ row[e].at \in Times /\ row[e].at \in Nat /\ row[e].n \in 0..MaxDoings /\ row[e].n \in Nat
      /\ texts[<<e, row[e].n, row[e].at>>] \in Nat /\ now \in Nat /\ now' \in Nat
  <2>1. (now \in Times)'  BY PartsNext DEF CountsOK
  <2>2. e \in Ids /\ row[e].at \in Times  BY Parts DEF Ids, RowsOK
  <2> QED BY <2>1, <2>2, Types, Bounds DEF Times
<1>1. There(e) /\ row[e].sent /\ texts[<<e, row[e].n, row[e].at>>] = 0 =>
        row[e].at < now \/ <<e, row[e].n>> \in crossed
      BY DEF MovedIsOwed
<1>2. CASE /\ row'[e] = row[e] /\ life'[e] = life[e] /\ now <= now' /\ crossed \subseteq crossed'
           /\ \A n \in 0..MaxDoings, t \in Times : texts[<<e, n, t>>] > 0 => texts'[<<e, n, t>>] > 0
      BY <1>0, <1>1, <1>2 DEF There
<1>3. CASE (\E at \in {"sleep", "between"} : Writes(at)) /\ row'[e] # row[e]
  <2>1. PICK l \in loop.done : /\ l.id = e /\ row'[e].at = (IF l.repeats THEN l.at + 1 ELSE row[e].at)
                               /\ row'[e].n = row[e].n
        BY <1>0, <1>3 DEF Writes
  <2>2. UNCHANGED <<now, texts, crossed>>  BY <1>3 DEF Writes
  <2>3. /\ l \in Cells /\ Follows(l) /\ Done(l) /\ ~l.repeats /\ loop.now <= now /\ loop.now \in Nat
        /\ Of(l) = <<l.id, l.n, l.at>> /\ l.n \in Nat
    <3>1. l \in Cells  BY DEF Cells
    <3>2. ~l.repeats  BY <2>1, Parts DEF LoopOK, HeldRow
    <3> QED BY <3>1, <3>2, Types DEF PassInv, OnePass
  <2>4. CASE l.n < row[e].n  BY <2>1, <2>2, <2>3, <2>4 DEF Follows
  <2>5. CASE l.n = row[e].n
    <3>1. l.at = row[e].at /\ row'[e].at = l.at  BY <2>1, <2>3, <2>5 DEF Follows
    <3>2. texts[Of(l)] > 0 \/ l.at < loop.now  BY <2>1, <2>3 DEF Done
    <3>3. texts[Of(l)] = 0  BY <2>1, <2>2, <2>3, <2>5, <3>1
    <3> QED BY <1>0, <2>2, <2>3, <3>1, <3>2, <3>3
  <2> QED BY <1>0, <2>1, <2>3, <2>4, <2>5 DEF Follows
<1>4. CASE Edited(e)
  <2>1. crossed \subseteq crossed' /\ UNCHANGED <<now, texts>>  BY <1>4 DEF Edited
  <2>2. CASE Kept(e)  BY <1>1, <2>1, <2>2 DEF Kept, There
  <2>3. CASE Moved(e)  BY <2>3 DEF Moved
  <2>4. ~Created(e) /\ ~Deleted(e)  BY DEF Created, Deleted, There
  <2> QED BY <1>4, <2>2, <2>3, <2>4 DEF Edited
<1> QED BY <1>0, <1>2, <1>3, <1>4, Keeping

\* A time given to an appointment is owed a text: marked without one, it was past,
\* or given while a pass or another write of the mark was under way
\* (_apply_event_fields, crm.py:2807).
THEOREM Rescheduled == Spec => []MovedIsOwed
<1>1. Init => TypeInv /\ PassInv /\ MovedIsOwed
  <2>1. Init => MovedIsOwed  BY DEF Init, MovedIsOwed, There, Ids
  <2> QED BY <2>1, InitType, InitPass
<1>2. TypeInv /\ PassInv /\ MovedIsOwed /\ [Next]_vars => (TypeInv /\ PassInv /\ MovedIsOwed)'
      BY PassNext, Steps, OwedNext
<1> QED BY <1>1, <1>2, PTL DEF Spec

LEMMA SkippedNext ==
    ASSUME TypeInv, TypeInv', PassInv, Step, NoneIsSkipped
    PROVE  NoneIsSkipped'
<1> SUFFICES ASSUME NEW r \in Reminders \ InApp, NEW t \in Times, There(r)', <<r, row'[r].n>> \notin crossed',
                    row'[r].from <= t, t < row'[r].at \/ (t = row'[r].at /\ row'[r].sent)
             PROVE  texts'[<<r, row'[r].n, t>>] > 0
    BY DEF NoneIsSkipped
<1>0. /\ r \in Ids /\ r \in Reminders /\ row[r].at \in Nat /\ row[r].n \in 0..MaxDoings /\ row[r].n \in Nat /\ t \in Nat
      /\ row[r].sent \in BOOLEAN
  <2>1. r \in Ids  BY DEF Ids
  <2> QED BY <2>1, Types, Bounds DEF Times
<1>1. /\ There(r) /\ <<r, row[r].n>> \notin crossed
      /\ row[r].from <= t /\ (t < row[r].at \/ (t = row[r].at /\ row[r].sent))
      => texts[<<r, row[r].n, t>>] > 0
      BY DEF NoneIsSkipped
<1>2. CASE /\ row'[r] = row[r] /\ life'[r] = life[r] /\ now <= now' /\ crossed \subseteq crossed'
           /\ \A n \in 0..MaxDoings, u \in Times : texts[<<r, n, u>>] > 0 => texts'[<<r, n, u>>] > 0
      BY <1>0, <1>1, <1>2 DEF There
<1>3. CASE (\E at \in {"sleep", "between"} : Writes(at)) /\ row'[r] # row[r]
  <2>1. PICK l \in loop.done : /\ l.id = r /\ row'[r].at = (IF l.repeats THEN l.at + 1 ELSE row[r].at)
                               /\ row'[r].n = row[r].n /\ row'[r].from = row[r].from /\ There(r)
                               /\ row'[r].sent = (~l.repeats \/ row[r].sent)
        BY <1>0, <1>3 DEF Writes
  <2>2. UNCHANGED <<texts, crossed>>  BY <1>3 DEF Writes
  <2>3. l \in Cells /\ Follows(l) /\ Done(l) /\ Of(l) = <<l.id, l.n, l.at>> /\ l.n \in Nat
    <3>1. l \in Cells  BY DEF Cells
    <3> QED BY <3>1, Types DEF PassInv
  <2>4. ~(l.n < row[r].n)  BY <2>1, <2>2, <2>3 DEF Follows
  <2>5. l.n = row[r].n  BY <1>0, <2>1, <2>3, <2>4 DEF Follows
  <2>6. l.at = row[r].at /\ ~row[r].sent  BY <1>0, <2>1, <2>3, <2>5 DEF Follows
  <2>7. texts[<<r, row[r].n, row[r].at>>] > 0  BY <1>0, <2>1, <2>3, <2>5, <2>6 DEF Done
  <2>8. t < row[r].at \/ t = row[r].at  BY <1>0, <2>1, <2>6
  <2> QED BY <1>1, <2>1, <2>2, <2>7, <2>8
<1>4. CASE Edited(r)
  <2>1. crossed \subseteq crossed' /\ UNCHANGED texts  BY <1>4 DEF Edited
  <2>2. CASE Kept(r)  BY <1>1, <2>1, <2>2 DEF Kept, There
  <2>3. CASE Moved(r)
    <3>1. row'[r].from = row'[r].at /\ (row'[r].sent => <<r, row'[r].n>> \in crossed')  BY <2>3 DEF Moved
    <3>2. row'[r].at \in Nat  BY <1>0, PartsNext DEF RowsOK, Row
    <3> QED BY <1>0, <3>1, <3>2
  <2>4. CASE Created(r)
    <3>1. row'[r].from = row'[r].at /\ ~row'[r].sent  BY <2>4 DEF Created
    <3>2. row'[r].at \in Nat  BY <1>0, PartsNext DEF RowsOK, Row
    <3> QED BY <1>0, <3>1, <3>2
  <2>5. ~Deleted(r)  BY DEF Deleted, There
  <2> QED BY <1>4, <2>2, <2>3, <2>4, <2>5 DEF Edited
<1> QED BY <1>0, <1>2, <1>3, <1>4, Keeping

\* No occurrence of a reminder by SMS is passed over, not even after hours without
\* the loop, unless people set it during a pass over it or once it was marked
\* (_fire_due_reminders, main.py:917).
THEOREM NonePassedOver == Spec => []NoneIsSkipped
<1>1. Init => TypeInv /\ PassInv /\ NoneIsSkipped
  <2>1. Init => NoneIsSkipped  BY DEF Init, NoneIsSkipped, There, Ids
  <2> QED BY <2>1, InitType, InitPass
<1>2. TypeInv /\ PassInv /\ NoneIsSkipped /\ [Next]_vars => (TypeInv /\ PassInv /\ NoneIsSkipped)'
      BY PassNext, Steps, SkippedNext
<1> QED BY <1>1, <1>2, PTL DEF Spec
=============================================================================
