------------------------ MODULE ListingPassesProofs ------------------------
(***************************************************************************)
(* Theorems about ListingPasses for every set of listings, contents,        *)
(* readers and matchers, and every number of attempts and changes.          *)
(***************************************************************************)
EXTENDS ListingPasses, TLAPS

(* Type correctness.                                                        *)

\* A row that was loaded as seen is still seen.
SeenStays == \A r \in Readers : \A row \in reading[r] : row.readFp # None => readFp[row.id] # None

TypeInv == TypeOK /\ SeenStays

LEMMA TypeInit == Init => TypeInv
BY NoneIsNothing, Bounds DEF Init, TypeInv, TypeOK, SeenStays

LEMMA RowType ==
    ASSUME TypeInv, NEW r \in Readers, NEW row \in reading[r]
    PROVE  /\ row \in Row
           /\ row.id \in Listings /\ row.content \in Contents /\ row.content # None
           /\ row.readFp \in Contents \cup {None} /\ row.attempts \in Nat
           /\ row.readFp # None => readFp[row.id] # None
<1>1. row \in Row  BY DEF TypeInv, TypeOK
<1> QED BY <1>1, NoneIsNothing DEF Row, TypeInv, SeenStays

LEMMA LoadedIs ==
    ASSUME TypeInv, NEW l \in Listings
    PROVE  /\ Loaded(l) \in Row
           /\ Loaded(l).id = l /\ Loaded(l).content = content[l]
           /\ Loaded(l).readFp = readFp[l] /\ Loaded(l).attempts = attempts[l]
BY DEF TypeInv, TypeOK, Loaded, Row

\* Seen writes the content that was read, or finds it written.
LEMMA SeenIs ==
    ASSUME TypeInv, NEW r \in Readers, NEW row \in reading[r]
    PROVE  /\ Seen(row) \in [Listings -> Contents \cup {None}]
           /\ \A l \in Listings : l # row.id => Seen(row)[l] = readFp[l]
           /\ Seen(row)[row.id] # None
           /\ row.readFp = readFp[row.id] => Seen(row)[row.id] = row.content
BY RowType DEF Seen, Writes, TypeInv, TypeOK

LEMMA AttemptsIs ==
    ASSUME TypeInv, NEW row \in Row, NEW n \in Nat
    PROVE  LET new == Writes(attempts, row, row.attempts, n)
           IN /\ new \in [Listings -> Nat]
              /\ \A l \in Listings : l # row.id => new[l] = attempts[l]
              /\ new[row.id] = attempts[row.id] \/ new[row.id] = n
              /\ row.attempts = attempts[row.id] => new[row.id] = n
BY DEF Writes, TypeInv, TypeOK, Row

LEMMA DataType ==
    TypeInv => /\ content \in [Listings -> Contents]
               /\ facts \in [Listings -> Contents \cup {None}]
               /\ readFp \in [Listings -> Contents \cup {None}]
               /\ attempts \in [Listings -> Nat]
               /\ reading \in [Readers -> SUBSET Row]
               /\ streak \in [Listings -> [on : Contents \cup {None}, n : Nat]]
               /\ \A l \in Listings : facts[l] # None \/ attempts[l] > 0 => readFp[l] # None
BY DEF TypeInv, TypeOK

LEMMA DoesType == TypeInv /\ (Does \/ UNCHANGED doings) => doings' \in 0..MaxDoings
BY Bounds DEF TypeInv, TypeOK, Does

LEMMA TypeTakes ==
    ASSUME TypeInv, NEW r \in Readers, NEW S \in SUBSET Listings, Takes(r, S),
           Does \/ UNCHANGED doings
    PROVE  TypeInv'
<1>1. /\ reading' = [reading EXCEPT ![r] = {Loaded(l) : l \in S}]
      /\ shared' = shared \cup {l \in S : \E q \in Readers : Holds(q, l)}
      /\ UNCHANGED <<content, facts, readFp, attempts, streak, old, willRead, judged, matching>>
      BY DEF Takes, read
<1>2. reading' \in [Readers -> SUBSET Row]  BY <1>1, LoadedIs, DataType
<1>3. SeenStays'
      <2>1. \A row \in reading'[r] : row.readFp # None => readFp[row.id] # None
            BY <1>1, LoadedIs, DataType
      <2> QED BY <1>1, <2>1, DataType DEF TypeInv, SeenStays
<1>4. doings' \in 0..MaxDoings  BY DoesType
<1> QED BY <1>1, <1>2, <1>3, <1>4 DEF TypeInv, TypeOK

LEMMA StreakType ==
    ASSUME NEW row \in Row
    PROVE  Streak(row) \in Nat
BY DEF Streak, Row

\* What a reader's answer leaves of the columns.
LEMMA AskedIs ==
    ASSUME TypeInv, NEW r \in Readers, NEW row \in reading[r], ReadOk(r, row) \/ ReadFails(r, row)
    PROVE  /\ reading' = [reading EXCEPT ![r] = reading[r] \ {row}]
           /\ readFp' = Seen(row)
           /\ UNCHANGED <<content, old, willRead, judged, matching, shared, doings>>
           /\ \A l \in Listings : l # row.id => /\ facts'[l] = facts[l] /\ attempts'[l] = attempts[l]
                                                /\ streak'[l] = streak[l]
           /\ facts' \in [Listings -> Contents \cup {None}]
           /\ attempts' \in [Listings -> Nat]
           /\ streak' \in [Listings -> [on : Contents \cup {None}, n : Nat]]
<1>1. row \in Row /\ row.id \in Listings /\ row.content \in Contents  BY RowType
<1>2. PICK n \in Nat : attempts' = Writes(attempts, row, row.attempts, n)
      BY <1>1, StreakType DEF ReadOk, ReadFails
<1>3. PICK k \in Nat : streak' = [streak EXCEPT ![row.id] = [on |-> row.content, n |-> k]]
      <2>1. streak[row.id] \in [on : Contents \cup {None}, n : Nat]  BY <1>1, DataType
      <2>2. CASE ReadOk(r, row)  BY <2>2 DEF ReadOk
      <2>3. CASE ReadFails(r, row)
            <3> DEFINE k == IF streak[row.id].on = row.content THEN streak[row.id].n + 1 ELSE 1
            <3>1. k \in Nat  BY <2>1
            <3>2. streak' = [streak EXCEPT ![row.id] = [on |-> row.content, n |-> k]]
                  BY <2>3 DEF ReadFails
            <3> HIDE DEF k
            <3> QED BY <3>1, <3>2
      <2> QED BY <2>2, <2>3
<1>4. facts' = facts \/ facts' = [facts EXCEPT ![row.id] = row.content]
      BY DEF ReadOk, ReadFails
<1>5. /\ attempts' \in [Listings -> Nat]
      /\ \A l \in Listings : l # row.id => attempts'[l] = attempts[l]
      BY <1>1, <1>2, AttemptsIs
<1>6. /\ streak' \in [Listings -> [on : Contents \cup {None}, n : Nat]]
      /\ \A l \in Listings : l # row.id => streak'[l] = streak[l]
      <2>1. [on |-> row.content, n |-> k] \in [on : Contents \cup {None}, n : Nat]  BY <1>1
      <2> QED BY <1>3, <2>1, DataType
<1>7. /\ facts' \in [Listings -> Contents \cup {None}]
      /\ \A l \in Listings : l # row.id => facts'[l] = facts[l]
      BY <1>1, <1>4, DataType
<1> QED BY <1>5, <1>6, <1>7 DEF ReadOk, ReadFails, Asked

LEMMA TypeAsked ==
    ASSUME TypeInv, NEW r \in Readers, NEW row \in reading[r], ReadOk(r, row) \/ ReadFails(r, row)
    PROVE  TypeInv'
<1>1. reading' \in [Readers -> SUBSET Row]  BY AskedIs, DataType
<1>2. /\ readFp' \in [Listings -> Contents \cup {None}]
      /\ \A l \in Listings : readFp[l] # None => readFp'[l] # None
      /\ readFp'[row.id] # None /\ row.id \in Listings
      BY AskedIs, SeenIs, RowType
<1>3. \A l \in Listings : facts'[l] # None \/ attempts'[l] > 0 => readFp'[l] # None
      BY <1>2, AskedIs, DataType
<1>4. SeenStays'
      <2>1. \A q \in Readers : reading'[q] \subseteq reading[q]  BY AskedIs, DataType
      <2> QED BY <2>1, <1>2, RowType DEF SeenStays
<1> QED BY <1>1, <1>2, <1>3, <1>4, AskedIs DEF TypeInv, TypeOK

LEMMA TypeStop ==
    ASSUME TypeInv, NEW r \in Readers, Stop(r)
    PROVE  TypeInv'
<1>1. /\ reading' = [reading EXCEPT ![r] = {}]
      /\ UNCHANGED <<content, facts, readFp, streak, old, willRead, judged, matching, shared, doings>>
      BY DEF Stop
<1>2. /\ attempts' \in [Listings -> Nat]
      /\ \A l \in Listings : attempts'[l] = attempts[l] \/ attempts'[l] = 0
      <2>1. CASE UNCHANGED attempts  BY <2>1, DataType
      <2>2. CASE ~UNCHANGED attempts
            <3>1. PICK row \in reading[r] : attempts' = Writes(attempts, row, row.attempts, 0)
                  BY <2>2 DEF Stop
            <3>2. row \in Row  BY RowType
            <3> QED BY <3>1, <3>2, AttemptsIs
      <2> QED BY <2>1, <2>2
<1>3. \A q \in Readers : reading'[q] \subseteq reading[q]  BY <1>1, DataType
<1>4. reading' \in [Readers -> SUBSET Row]  BY <1>1, DataType
<1>5. \A l \in Listings : facts'[l] # None \/ attempts'[l] > 0 => readFp'[l] # None
      BY <1>1, <1>2, DataType
<1>6. SeenStays'  BY <1>1, <1>3, RowType DEF SeenStays
<1> QED BY <1>1, <1>2, <1>4, <1>5, <1>6 DEF TypeInv, TypeOK

\* The engine, the people, the clock and the gateway leave the reader's columns alone.
LEMMA Elsewhere ==
    ASSUME TypeInv,
           \/ \E m \in Matchers : Matching(m) \/ MatchFails(m)
           \/ \E l \in Listings : Edit(l) \/ Age(l)
           \/ Gate
    PROVE  UNCHANGED <<facts, readFp, attempts, streak, reading, shared>>
BY DEF Matching, Score, MatchCommit, MatchFails, Edit, Age, Gate, read

LEMMA TypeElsewhere ==
    ASSUME TypeInv,
           \/ \E m \in Matchers : Matching(m) \/ MatchFails(m)
           \/ \E l \in Listings : Edit(l) \/ Age(l)
           \/ Gate
    PROVE  TypeInv'
<1>1. UNCHANGED <<facts, readFp, attempts, streak, reading, shared>>  BY Elsewhere
<1>2. SeenStays'  BY <1>1 DEF TypeInv, SeenStays
<1>3. ASSUME NEW m \in Matchers, Score(m) PROVE TypeInv'
      <2> DEFINE rows == {[id |-> l, content |-> content[l]] : l \in {l \in Listings : Due(l)}}
      <2>1. rows \in SUBSET Scored  BY DataType DEF Scored
      <2>2. /\ matching' = [matching EXCEPT ![m] = rows]
            /\ UNCHANGED <<content, old, willRead, judged, doings>>
            BY <1>3 DEF Score
      <2> HIDE DEF rows
      <2> QED BY <1>1, <1>2, <2>1, <2>2 DEF TypeInv, TypeOK
<1>4. ASSUME NEW m \in Matchers, MatchCommit(m) PROVE TypeInv'
      <2>1. matching[m] \subseteq Scored  BY DEF TypeInv, TypeOK
      <2>2. \A l \in Listings : (\E row \in matching[m] : row.id = l) =>
              Verdict(CHOOSE row \in matching[m] : row.id = l) \in Contents
            BY <2>1 DEF Verdict, Scored
      <2>3. judged' \in [Listings -> Contents \cup {None}]
            BY <1>4, <2>2 DEF MatchCommit, TypeInv, TypeOK
      <2>4. /\ matching' = [matching EXCEPT ![m] = {}]
            /\ UNCHANGED <<content, old, willRead, doings>>
            BY <1>4 DEF MatchCommit
      <2> QED BY <1>1, <1>2, <2>3, <2>4 DEF TypeInv, TypeOK
<1>5. ASSUME NEW m \in Matchers, MatchFails(m) PROVE TypeInv'
      BY <1>1, <1>2, <1>5 DEF MatchFails, TypeInv, TypeOK
<1>6. ASSUME NEW l \in Listings, Edit(l) PROVE TypeInv'
      BY <1>1, <1>2, <1>6, DoesType DEF Edit, TypeInv, TypeOK
<1>7. ASSUME NEW l \in Listings, Age(l) PROVE TypeInv'
      BY <1>1, <1>2, <1>7 DEF Age, TypeInv, TypeOK
<1>8. CASE Gate
      BY <1>1, <1>2, <1>8 DEF Gate, TypeInv, TypeOK
<1> QED BY <1>3, <1>4, <1>5, <1>6, <1>7, <1>8 DEF Matching

\* A reader's step is one of three kinds.
LEMMA ReadingIs ==
    ASSUME TypeInv, NEW r \in Readers, Reading(r)
    PROVE  \/ \E S \in SUBSET Listings : Takes(r, S) /\ (Does \/ UNCHANGED doings)
           \/ \E row \in reading[r] : ReadOk(r, row) \/ ReadFails(r, row)
           \/ Stop(r)
BY DEF Reading, Select, Reread

LEMMA TypeNext == TypeInv /\ [Next]_vars => TypeInv'
<1> SUFFICES ASSUME TypeInv, [Next]_vars PROVE TypeInv'
    OBVIOUS
<1>1. CASE UNCHANGED vars
      BY <1>1 DEF vars, read, TypeInv, TypeOK, SeenStays
<1>2. ASSUME NEW r \in Readers, Reading(r) PROVE TypeInv'
      BY <1>2, ReadingIs, TypeTakes, TypeAsked, TypeStop
<1> QED BY <1>1, <1>2, TypeElsewhere DEF Next

\* ListingPasses is type correct, and a listing with facts or failures is marked as seen.
THEOREM TypeCorrect == Spec => []TypeOK
<1>1. Spec => []TypeInv
      BY TypeInit, TypeNext, PTL DEF Spec
<1> QED BY <1>1, PTL DEF TypeInv

-----------------------------------------------------------------------------
(* A reader that has a listing to itself.                                   *)

\* Of a listing nobody shares, the one row loaded shows the columns as they are.
Mirror == \A l \in Listings \ shared : \A q, r \in Readers :
  \A x \in reading[q], y \in reading[r] : x.id = l /\ y.id = l =>
    q = r /\ x = y /\ x.readFp = readFp[l] /\ x.attempts = attempts[l]

\* What was read last is what was seen last, unless that reading failed.
ReadIsSeen == \A l \in Listings \ shared :
  streak[l].n = 0 /\ readFp[l] # None => facts[l] = readFp[l]

\* The failures counted are failures in a row on what was seen last.
CountsRun == \A l \in Listings \ shared :
  readFp[l] # None => streak[l].on = readFp[l] /\ attempts[l] <= streak[l].n

ReadInv == Mirror /\ ReadIsSeen /\ CountsRun

LEMMA ReadInit == Init => ReadInv
BY DEF Init, ReadInv, Mirror, ReadIsSeen, CountsRun

LEMMA ReadTakes ==
    ASSUME TypeInv, ReadInv, NEW r \in Readers, NEW S \in SUBSET Listings, Takes(r, S)
    PROVE  ReadInv'
<1>1. /\ reading[r] = {} /\ reading' = [reading EXCEPT ![r] = {Loaded(l) : l \in S}]
      /\ shared' = shared \cup {l \in S : \E q \in Readers : Holds(q, l)}
      /\ UNCHANGED <<facts, readFp, attempts, streak>>
      BY DEF Takes, read
<1>2. ReadIsSeen' /\ CountsRun'  BY <1>1 DEF ReadInv, ReadIsSeen, CountsRun
<1>3. ASSUME NEW l \in Listings \ shared', NEW q \in Readers, NEW p \in Readers,
             NEW x \in reading'[q], NEW y \in reading'[p], x.id = l, y.id = l
      PROVE  q = p /\ x = y /\ x.readFp = readFp'[l] /\ x.attempts = attempts'[l]
      <2>1. l \in Listings \ shared  BY <1>1
      <2>2. reading'[r] = {Loaded(k) : k \in S} /\ \A o \in Readers \ {r} : reading'[o] = reading[o]
            BY <1>1, DataType
      <2>3. l \in S => \A o \in Readers : \A z \in reading[o] : z.id # l
            BY <1>1, <1>3 DEF Holds
      <2>4. \A z \in reading'[r] : z.id = l => l \in S /\ z = Loaded(l)
            BY <2>2, LoadedIs
      <2>5. CASE l \in S
            <3>1. q = r /\ p = r  BY <1>3, <2>2, <2>3, <2>5
            <3>2. x = Loaded(l) /\ y = Loaded(l)  BY <1>3, <2>4, <3>1
            <3> QED BY <1>1, <3>1, <3>2, LoadedIs
      <2>6. CASE l \notin S
            <3>1. q # r /\ p # r  BY <1>3, <2>4, <2>6
            <3>2. x \in reading[q] /\ y \in reading[p]  BY <2>2, <3>1
            <3> QED BY <1>1, <1>3, <2>1, <3>2 DEF ReadInv, Mirror
      <2> QED BY <2>5, <2>6
<1> QED BY <1>2, <1>3 DEF ReadInv, Mirror

LEMMA ReadAsked ==
    ASSUME TypeInv, ReadInv, NEW r \in Readers, NEW row \in reading[r],
           ReadOk(r, row) \/ ReadFails(r, row)
    PROVE  ReadInv'
<1> DEFINE k == row.id
<1>1. /\ row \in Row /\ k \in Listings /\ row.content \in Contents /\ row.content # None
      /\ shared' = shared
      BY RowType, AskedIs
<1>2. /\ \A q \in Readers : reading'[q] \subseteq reading[q]
      /\ reading'[r] = reading[r] \ {row}
      BY AskedIs, DataType
<1>3. \A l \in Listings : l # k => /\ readFp'[l] = readFp[l] /\ facts'[l] = facts[l]
                                   /\ attempts'[l] = attempts[l] /\ streak'[l] = streak[l]
      BY AskedIs, SeenIs
<1>4. k \notin shared => row.readFp = readFp[k] /\ row.attempts = attempts[k]
      BY <1>1 DEF ReadInv, Mirror
<1>5. k \notin shared => readFp'[k] = row.content
      BY <1>4, AskedIs, SeenIs
<1>6. k \notin shared => \A q \in Readers : \A x \in reading'[q] : x.id # k
      BY <1>1, <1>2 DEF ReadInv, Mirror
<1>7. Mirror'
      <2>1. ASSUME NEW l \in Listings \ shared', NEW q \in Readers, NEW p \in Readers,
                   NEW x \in reading'[q], NEW y \in reading'[p], x.id = l, y.id = l
            PROVE  q = p /\ x = y /\ x.readFp = readFp'[l] /\ x.attempts = attempts'[l]
            <3>1. l # k /\ l \in Listings \ shared  BY <1>1, <1>6, <2>1
            <3>2. x \in reading[q] /\ y \in reading[p]  BY <1>2
            <3> QED BY <1>3, <2>1, <3>1, <3>2 DEF ReadInv, Mirror
      <2> QED BY <2>1 DEF Mirror
<1>8. CASE ReadOk(r, row)
      <2>1. facts'[k] = row.content /\ streak'[k] = [on |-> row.content, n |-> 0]
            BY <1>1, <1>8, DataType DEF ReadOk
      <2>2. k \notin shared => attempts'[k] = 0
            BY <1>1, <1>4, <1>8, AttemptsIs DEF ReadOk
      <2>3. ReadIsSeen'
            BY <1>1, <1>3, <1>5, <2>1 DEF ReadInv, ReadIsSeen
      <2>4. CountsRun'
            BY <1>1, <1>3, <1>5, <2>1, <2>2 DEF ReadInv, CountsRun
      <2> QED BY <1>7, <2>3, <2>4 DEF ReadInv
<1>9. CASE ReadFails(r, row)
      <2>1. streak[k] \in [on : Contents \cup {None}, n : Nat]  BY <1>1, DataType
      <2>2. /\ streak'[k].on = row.content
            /\ streak'[k].n = IF streak[k].on = row.content THEN streak[k].n + 1 ELSE 1
            BY <1>1, <1>9, DataType DEF ReadFails
      <2>3. k \notin shared => attempts'[k] = Streak(row) + 1
            <3>1. Streak(row) + 1 \in Nat  BY <1>1, StreakType
            <3>2. attempts' = Writes(attempts, row, row.attempts, Streak(row) + 1)
                  BY <1>9 DEF ReadFails
            <3> QED BY <1>1, <1>4, <3>1, <3>2, AttemptsIs
      <2>4. streak'[k].n # 0 /\ streak'[k].n \in Nat  BY <2>1, <2>2
      <2>5. ReadIsSeen'
            BY <1>1, <1>3, <2>4 DEF ReadInv, ReadIsSeen
      <2>6. k \notin shared => Streak(row) + 1 <= streak'[k].n
            <3>1. CASE row.readFp = row.content /\ k \notin shared
                  <4>1. streak[k].on = row.content /\ attempts[k] <= streak[k].n
                        BY <1>1, <1>4, <3>1 DEF ReadInv, CountsRun
                  <4>2. Streak(row) = attempts[k] /\ attempts[k] \in Nat
                        BY <1>1, <1>4, <3>1, DataType DEF Streak
                  <4> QED BY <2>1, <2>2, <4>1, <4>2
            <3>2. CASE row.readFp # row.content /\ k \notin shared
                  <4>1. Streak(row) = 0
                        <5>1. row.readFp = None => row.attempts = 0
                              BY <1>1, <1>4, <3>2, DataType
                        <5> QED BY <3>2, <5>1 DEF Streak
                  <4> QED BY <2>4, <4>1
            <3> QED BY <3>1, <3>2
      <2>7. CountsRun'
            BY <1>1, <1>3, <1>5, <2>2, <2>3, <2>6 DEF ReadInv, CountsRun
      <2> QED BY <1>7, <2>5, <2>7 DEF ReadInv
<1> QED BY <1>8, <1>9

LEMMA ReadStop ==
    ASSUME TypeInv, ReadInv, NEW r \in Readers, Stop(r)
    PROVE  ReadInv'
<1>1. /\ UNCHANGED <<facts, readFp, streak, shared>>
      /\ reading'[r] = {} /\ \A q \in Readers \ {r} : reading'[q] = reading[q]
      BY DataType DEF Stop
<1>2. \A l \in Listings : attempts'[l] = attempts[l] \/
        (attempts'[l] = 0 /\ \E row \in reading[r] : row.id = l)
      <2>1. CASE UNCHANGED attempts  BY <2>1
      <2>2. CASE ~UNCHANGED attempts
            <3>1. PICK row \in reading[r] : attempts' = Writes(attempts, row, row.attempts, 0)
                  BY <2>2 DEF Stop
            <3>2. row \in Row  BY RowType
            <3> QED BY <3>1, <3>2, AttemptsIs
      <2> QED BY <2>1, <2>2
<1>3. \A l \in Listings : streak[l].n \in Nat  BY DataType
<1>4. CountsRun'  BY <1>1, <1>2, <1>3 DEF ReadInv, CountsRun
<1>5. ReadIsSeen'  BY <1>1 DEF ReadInv, ReadIsSeen
<1>6. Mirror'
      <2>1. ASSUME NEW l \in Listings \ shared', NEW q \in Readers, NEW p \in Readers,
                   NEW x \in reading'[q], NEW y \in reading'[p], x.id = l, y.id = l
            PROVE  q = p /\ x = y /\ x.readFp = readFp'[l] /\ x.attempts = attempts'[l]
            <3>1. q # r /\ p # r /\ x \in reading[q] /\ y \in reading[p] /\ l \in Listings \ shared
                  BY <1>1
            <3>2. \A row \in reading[r] : row.id # l  BY <2>1, <3>1 DEF ReadInv, Mirror
            <3> QED BY <1>1, <1>2, <2>1, <3>1, <3>2 DEF ReadInv, Mirror
      <2> QED BY <2>1 DEF Mirror
<1> QED BY <1>4, <1>5, <1>6 DEF ReadInv

LEMMA ReadNext == TypeInv /\ ReadInv /\ [Next]_vars => ReadInv'
<1> SUFFICES ASSUME TypeInv, ReadInv, [Next]_vars PROVE ReadInv'
    OBVIOUS
<1>1. CASE UNCHANGED <<facts, readFp, attempts, streak, reading, shared>>
      BY <1>1 DEF ReadInv, Mirror, ReadIsSeen, CountsRun
<1>2. ASSUME NEW r \in Readers, Reading(r) PROVE ReadInv'
      BY <1>2, ReadingIs, ReadTakes, ReadAsked, ReadStop
<1> QED BY <1>1, <1>2, Elsewhere DEF Next, vars, read

LEMMA ReadAlways == Spec => [](TypeInv /\ ReadInv)
BY TypeInit, TypeNext, ReadInit, ReadNext, PTL DEF Spec

\* A listing the passes leave alone and whose last reading did not fail has the
\* facts of the content it has.
THEOREM CurrentCorrect == Spec => []FactsAreCurrent
<1>1. TypeInv /\ ReadInv => FactsAreCurrent
      BY DataType, NoneIsNothing DEF ReadInv, ReadIsSeen, FactsAreCurrent, Pending, Changed
<1> QED BY <1>1, ReadAlways, PTL

\* A listing is given up only after MAX_ATTEMPTS failures in a row on the content it has.
THEOREM GiveUpCorrect == Spec => []GivesUpOnContent
<1>1. ASSUME TypeInv, ReadInv, NEW l \in Listings \ shared, GaveUp(l)
      PROVE  streak[l].on = content[l] /\ streak[l].n >= MaxAttempts
      <2>1. readFp[l] = content[l] /\ readFp[l] # None /\ attempts[l] >= MaxAttempts
            BY <1>1, DataType, NoneIsNothing DEF GaveUp
      <2>2. streak[l].on = readFp[l] /\ attempts[l] <= streak[l].n
            BY <1>1, <2>1 DEF ReadInv, CountsRun
      <2>3. attempts[l] \in Nat /\ streak[l].n \in Nat /\ MaxAttempts \in Nat
            BY <1>1, DataType, Bounds
      <2> QED BY <2>1, <2>2, <2>3
<1>2. TypeInv /\ ReadInv => GivesUpOnContent
      BY <1>1 DEF GivesUpOnContent
<1> QED BY <1>2, ReadAlways, PTL

-----------------------------------------------------------------------------
(* Verdicts.                                                                *)

LEMMA VerdictsStep ==
    ASSUME TypeInv, [Next]_vars, NEW l \in Listings, judged'[l] \notin {judged[l], None}
    PROVE  \E row \in UNION {matching[m] : m \in Matchers} : row = [id |-> l, content |-> judged'[l]]
<1>1. PICK m \in Matchers : MatchCommit(m)
      BY DEF Next, vars, read, Reading, Select, Reread, Takes, ReadOk, ReadFails, Asked, Stop,
             Matching, Score, MatchFails, Edit, Age, Gate
<1>2. matching[m] \subseteq Scored  BY DEF TypeInv, TypeOK
<1>3. PICK row \in matching[m] : row.id = l /\ judged'[l] = row.content
      <2>1. judged'[l] = IF \E row \in matching[m] : row.id = l
                         THEN Verdict(CHOOSE row \in matching[m] : row.id = l) ELSE judged[l]
            BY <1>1 DEF MatchCommit
      <2>2. \E row \in matching[m] : row.id = l  BY <2>1
      <2> QED BY <2>1, <2>2 DEF Verdict
<1>4. row = [id |-> l, content |-> judged'[l]]  BY <1>2, <1>3 DEF Scored
<1> QED BY <1>3, <1>4

\* What the engine marks judged is a content it scored.
THEOREM VerdictsCorrect == Spec => VerdictsAreKept
<1>1. TypeInv /\ [Next]_vars => [\A l \in Listings :
        judged'[l] \notin {judged[l], None} =>
          \E row \in UNION {matching[m] : m \in Matchers} : row = [id |-> l, content |-> judged'[l]]]_vars
      BY VerdictsStep
<1>2. Spec => []TypeInv
      BY TypeInit, TypeNext, PTL DEF Spec
<1> QED BY <1>1, <1>2, PTL DEF Spec, VerdictsAreKept
=============================================================================
