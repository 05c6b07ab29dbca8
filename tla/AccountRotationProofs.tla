----------------------- MODULE AccountRotationProofs -----------------------
(***************************************************************************)
(* What holds of AccountRotation for any runs, numbers, thresholds and      *)
(* bounds: the types, the right session under each number, the right number *)
(* billed, and when a round ends and a challenged number is left.           *)
(***************************************************************************)
EXTENDS AccountRotation, SequenceTheorems, FiniteSetTheorems, TLAPS

RunRec == [at : {"off", "try", "listing", "answer", "ask", "count", "rest",
              "reopen", "note", "close", "done"},
           active : Numbers \cup {None}, browser : Numbers \cup {None},
           session : Numbers \cup {None}, since : Nat, forced : BOOLEAN,
           cands : Seq(Numbers),
           why : {"start", "fallback", "rotate", "manual"},
           pinned : BOOLEAN, left : Nat]

\* What a run knows of itself: between two rotations its browser, if it has one, is
\* its number's and holds that number's session; a rotation leaves a number.
Settled == {"listing", "answer", "ask", "note", "count", "rest"}
Local(c) ==
  /\ c.at \in Settled => /\ c.active \in Numbers
                         /\ c.browser = None \/ (c.browser = c.active /\ c.session = c.active)
  /\ c.at = "answer" => c.browser # None
  /\ c.at = "reopen" \/ (c.at = "try" /\ c.why \in {"rotate", "manual"}) => c.active \in Numbers
  /\ c.at = "try" /\ c.why = "start" => c.cands # <<>>
  /\ c.at = "off" \/ (c.at = "try" /\ c.why \in {"start", "fallback"}) => ~c.forced
  /\ c.at = "off" => c.why = "start"

RowsOK == /\ reveals \in [Numbers -> Nat] /\ challenged \subseteq Numbers /\ valid \subseteq Numbers
          /\ enabled \subseteq Numbers /\ jar \in [Numbers -> Numbers] /\ RightJar
RunsOK == /\ run \in [Runs -> RunRec] /\ \A r \in Runs : Local(run[r])
          /\ \A r, q \in Runs : run[r].browser = run[q].browser => r = q \/ run[r].browser = None
AskedOK == divar_phone \in [Runs -> Numbers \cup {None}] /\ switch \in [Runs -> Requests \cup {None}]
CountsOK == failures \in 0..MaxFailures /\ doings \in 0..MaxDoings /\ turned \subseteq Runs

\* A round that ends, and a number left after a challenge.
Rounds(r) == run[r].at = "rest" /\ r \notin turned => \A n \in Usable : reveals[n] >= EveryOf(r)
Leaving(r) == run[r].at = "try" /\ run[r].forced /\ EveryOf(r) > 0 /\ r \notin turned =>
                reveals[run[r].active] >= EveryOf(r)

Inv == RowsOK /\ RunsOK /\ AskedOK /\ CountsOK /\ \A r \in Runs : Rounds(r) /\ Leaving(r)

LEMMA InitInv == Init => Inv
<1> SUFFICES ASSUME Init PROVE Inv OBVIOUS
<1>1. Off \in RunRec /\ Off.at = "off" /\ Off.browser = None /\ ~Off.forced /\ Off.why = "start" /\ <<>> \in Seq(Numbers)
      BY DEF Off, RunRec
<1>2. \A r \in Runs : run[r] = Off  BY DEF Init
<1> HIDE DEF Off
<1>3. RowsOK  BY DEF Init, RowsOK, RightJar
<1>4. RunsOK  BY <1>1, <1>2 DEF Init, RunsOK, Local, Settled
<1>5. AskedOK /\ CountsOK  BY Limits DEF Init, AskedOK, CountsOK
<1>6. \A r \in Runs : Rounds(r) /\ Leaving(r)  BY <1>1, <1>2 DEF Rounds, Leaving
<1> QED BY <1>3, <1>4, <1>5, <1>6 DEF Inv

LEMMA EveryIsNat == ASSUME Inv, NEW r \in Runs PROVE EveryOf(r) \in Nat
BY Thresholds DEF EveryOf

\* The pool in order, and round from a number.
LEMMA OrderedType == ASSUME NEW S \in SUBSET Numbers, NEW s \in Ordered(S) PROVE s \in Seq(Numbers)
<1>1. IsFiniteSet(S) /\ Cardinality(S) \in Nat  BY FiniteNumbers, FS_Subset, FS_CardinalityType
<1>2. s \in [1..Cardinality(S) -> S]  BY DEF Ordered, SetToSeqs
<1> QED BY <1>1, <1>2

LEMMA AfterType == ASSUME NEW s \in Seq(Numbers), NEW n PROVE After(s, n) \in Seq(Numbers)
<1> DEFINE k == CHOOSE i \in DOMAIN s : s[i] = n
<1>1. CASE n \in ToSet(s)
  <2>1. k \in DOMAIN s  BY <1>1 DEF ToSet
  <2>2. k \in 1..Len(s) /\ Len(s) \in Nat  BY <2>1, LenProperties
  <2>3. After(s, n) = SubSeq(s, k + 1, Len(s)) \o SubSeq(s, 1, k - 1)  BY <1>1 DEF After
  <2> HIDE DEF k
  <2>4. SubSeq(s, k + 1, Len(s)) \in Seq(Numbers) /\ SubSeq(s, 1, k - 1) \in Seq(Numbers)
    <3>1. \A i \in 1..Len(s) : s[i] \in Numbers  BY ElementOfSeq
    <3>2. \A a, b \in Int : 1 <= a /\ b <= Len(s) => \A i \in a..b : s[i] \in Numbers  BY <2>2, <3>1
    <3> QED BY <2>2, <3>2, SubSeqProperties
  <2> QED BY <2>3, <2>4, ConcatProperties
<1>2. CASE n \notin ToSet(s)  BY <1>2 DEF After
<1> QED BY <1>1, <1>2

LEMMA PoolType == Inv => Pool \subseteq Numbers /\ Usable \subseteq Numbers
BY DEF Inv, RowsOK, Pool, Resting, Usable

\* What a step of run r does to it, and to the rows under the others.
Moves(r, c) == /\ c \in RunRec /\ Local(c) /\ run' = [run EXCEPT ![r] = c]
               /\ c.browser \in {None, run[r].browser} \/ ~Taken(r, c.browser)
RowsKept(r) == /\ RowsOK' /\ turned \ {r} \subseteq turned' /\ turned' \subseteq Runs
               /\ \/ Runs \ {r} \subseteq turned'
                  \/ (\A n \in Numbers : reveals'[n] >= reveals[n]) /\ Usable' \subseteq Usable
Counts == failures' \in 0..MaxFailures /\ doings' \in 0..MaxDoings

LEMMA Counting ==
    ASSUME Inv, Quiet \/ (\E k \in Events : Fails(k) \/ Does(k))
    PROVE  Counts
BY Limits DEF Inv, CountsOK, Counts, Quiet, Fails, Does

LEMMA Moving ==
    ASSUME Inv, NEW r \in Runs, NEW c, Moves(r, c)
    PROVE  RunsOK' /\ run'[r] = c /\ \A q \in Runs : q # r => run'[q] = run[q]
<1>1. run \in [Runs -> RunRec] /\ run' = [run EXCEPT ![r] = c] /\ c \in RunRec /\ Local(c)
      BY DEF Inv, RunsOK, Moves
<1>2. run' \in [Runs -> RunRec] /\ run'[r] = c /\ \A q \in Runs : q # r => run'[q] = run[q]  BY <1>1
<1>3. \A q \in Runs : Local(run'[q])  BY <1>1, <1>2 DEF Inv, RunsOK
<1>4. \A p, q \in Runs : run[p].browser = run[q].browser => p = q \/ run[p].browser = None  BY DEF Inv, RunsOK
<1>5. \A p, q \in Runs : run'[p].browser = run'[q].browser => p = q \/ run'[p].browser = None
      BY <1>2, <1>4 DEF Moves, Taken
<1> QED BY <1>2, <1>3, <1>5 DEF RunsOK

\* A step of a run keeps the invariant, if it does for the run itself.
LEMMA Acting ==
    ASSUME Inv, NEW r \in Runs, NEW c, Moves(r, c), RowsKept(r), Counts, AskedOK', Rounds(r)', Leaving(r)'
    PROVE  Inv'
<1>1. RunsOK' /\ \A q \in Runs : q # r => run'[q] = run[q]  BY Moving
<1>2. ASSUME NEW q \in Runs, q # r PROVE Rounds(q)' /\ Leaving(q)'
  <2>1. Rounds(q) /\ Leaving(q) /\ EveryOf(q) \in Nat /\ run'[q] = run[q] /\ EveryOf(q)' = EveryOf(q)
        BY <1>1, <1>2, EveryIsNat DEF Inv, EveryOf
  <2>2. q \in turned => q \in turned'  BY <1>2 DEF RowsKept
  <2>3. CASE q \in turned'  BY <2>3 DEF Rounds, Leaving
  <2>4. CASE q \notin turned'
    <3>1. /\ \A n \in Numbers : reveals'[n] >= reveals[n] /\ reveals'[n] \in Nat /\ reveals[n] \in Nat
          /\ Usable' \subseteq Usable /\ Usable \subseteq Numbers /\ q \notin turned
          BY <1>2, <2>2, <2>4, PoolType DEF RowsKept, RowsOK, Inv
    <3>2. Rounds(q)'  BY <2>1, <3>1 DEF Rounds
    <3>3. Leaving(q)'
      <4> SUFFICES ASSUME run[q].at = "try", run[q].forced, EveryOf(q) > 0
                   PROVE  reveals'[run[q].active] >= EveryOf(q)
          BY <2>1 DEF Leaving
      <4>1. reveals[run[q].active] >= EveryOf(q)  BY <2>1, <3>1 DEF Leaving
      <4>2. run[q].active \in Numbers
        <5>1. Local(run[q]) /\ run[q] \in RunRec  BY DEF Inv, RunsOK
        <5> QED BY <5>1 DEF Local, RunRec
      <4> QED BY <2>1, <3>1, <4>1, <4>2
    <3> QED BY <3>2, <3>3
  <2> QED BY <2>3, <2>4
<1>3. RowsOK' /\ CountsOK'  BY DEF RowsKept, Counts, CountsOK
<1> QED BY <1>1, <1>2, <1>3 DEF Inv

\* The rows stay as they are, or a browser's jar goes under its number.
LEMMA RowsStay ==
    ASSUME Inv, NEW r \in Runs, UNCHANGED rows, turned' \in {turned, turned \ {r}}
    PROVE  RowsKept(r)
<1>1. UNCHANGED <<reveals, challenged, valid, enabled, jar>> /\ RowsOK /\ turned \subseteq Runs
      BY DEF rows, Inv, CountsOK
<1>2. \A n \in Numbers : reveals[n] \in Nat  BY <1>1 DEF RowsOK
<1> QED BY <1>1, <1>2 DEF RowsKept, RowsOK, RightJar, Usable

LEMMA Persisting ==
    ASSUME Inv, NEW r \in Runs, NEW c, Persists(r, c), c.browser # None => c.active \in Numbers /\ c.session = c.active,
           reveals' \in [Numbers -> Nat], \A n \in Numbers : reveals'[n] >= reveals[n],
           challenged' \subseteq Numbers, UNCHANGED enabled
    PROVE  RowsKept(r)
<1>1. RowsOK /\ turned \subseteq Runs  BY DEF Inv, CountsOK
<1>2. /\ jar' \in [Numbers -> Numbers] /\ RightJar' /\ valid' \subseteq Numbers
  <2>1. CASE c.browser = None  BY <1>1, <2>1 DEF Persists, Persist, RowsOK, RightJar
  <2>2. CASE c.browser # None
    <3>1. jar' = [jar EXCEPT ![c.active] = c.active] /\ valid' = valid \cup {c.active} /\ c.active \in Numbers
          BY <2>2 DEF Persists, Persist
    <3> QED BY <1>1, <3>1 DEF RowsOK, RightJar
  <2> QED BY <2>1, <2>2
<1>3. turned' = (turned \ {r}) \cup ({q \in Runs : q \in turned \/ valid' # valid} \ {r})  BY DEF Persists, Turns
<1>4. CASE valid' = valid  BY <1>1, <1>2, <1>3, <1>4 DEF RowsKept, RowsOK, Usable
<1>5. CASE valid' # valid  BY <1>1, <1>2, <1>3, <1>5 DEF RowsKept, RowsOK
<1> QED BY <1>4, <1>5

\* A step of run r: the invariant is kept, the other runs are left alone, and the
\* run is on its number still, or has none, or was looking for one.
Stepped(r) == /\ Inv' /\ \A q \in Runs : q # r => run'[q] = run[q]
              /\ run[r].at = "try" \/ run'[r].active \in {run[r].active, None}

LEMMA Stepping ==
    ASSUME Inv, NEW r \in Runs, NEW c, Moves(r, c), RowsKept(r), Counts, AskedOK',
           run[r].at = "try" \/ c.active \in {run[r].active, None},
           \/ c.at \notin {"rest", "try"}
           \/ Rounds(r)' /\ Leaving(r)'
    PROVE  Stepped(r)
<1>1. run'[r] = c /\ \A q \in Runs : q # r => run'[q] = run[q]  BY Moving
<1>2. Rounds(r)' /\ Leaving(r)'  BY <1>1 DEF Rounds, Leaving
<1> QED BY <1>1, <1>2, Acting DEF Stepped

LEMMA Self == ASSUME Inv, NEW r \in Runs PROVE run[r] \in RunRec /\ Local(run[r])
BY DEF Inv, RunsOK

\* A run that goes to another place, and to no rotation.
LEMMA Going ==
    ASSUME Inv, NEW r \in Runs, NEW c \in RunRec, Local(c), run' = [run EXCEPT ![r] = c],
           c.browser \in {None, run[r].browser}, c.active \in {run[r].active, None},
           c.at \notin {"rest", "try"}, RowsKept(r), Counts, AskedOK'
    PROVE  Stepped(r)
BY Stepping DEF Moves

LEMMA AskedStays == ASSUME Inv, UNCHANGED <<divar_phone, switch>> PROVE AskedOK'
BY DEF Inv, AskedOK

LEMMA SwitchTaken == ASSUME Inv, NEW r \in Runs, switch' = [switch EXCEPT ![r] = None], UNCHANGED divar_phone PROVE AskedOK'
BY DEF Inv, AskedOK

LEMMA Walking ==
    ASSUME Inv, NEW r \in Runs, Skip(r) \/ Cancel(r) \/ StayPut(r) \/ Alone(r)
    PROVE  Stepped(r)
<1>1. run[r] \in RunRec /\ Local(run[r]) /\ run[r].at \in Settled  BY Self DEF Skip, Cancel, StayPut, Alone, Listing, Asked, Settled
<1>2. Quiet /\ UNCHANGED <<rows, divar_phone, switch, turned>>  BY DEF Skip, Cancel, StayPut, Alone
<1>3. PICK c : /\ c \in RunRec /\ Local(c) /\ run' = [run EXCEPT ![r] = c] /\ c.browser = run[r].browser
               /\ c.active = run[r].active /\ c.at \notin {"rest", "try"}
  <2>1. CASE Skip(r)
    <3> DEFINE c == [run[r] EXCEPT !.at = "ask", !.left = @ - 1]
    <3>1. run[r].left \in Nat /\ run[r].left > 0  BY <1>1, <2>1 DEF Skip, Listing, RunRec
    <3>2. run[r].left - 1 \in Nat  BY <3>1
    <3>3. c \in RunRec  BY <1>1, <3>2 DEF RunRec
    <3>4. c.at = "ask" /\ c.active = run[r].active /\ c.browser = run[r].browser /\ c.session = run[r].session
          BY <1>1 DEF RunRec
    <3>5. run' = [run EXCEPT ![r] = c]  BY <2>1 DEF Skip
    <3> HIDE DEF c
    <3>6. Local(c)  BY <1>1, <3>4 DEF Local, Settled
    <3> QED BY <3>3, <3>4, <3>5, <3>6
  <2>2. CASE Cancel(r)
    <3> DEFINE c == [run[r] EXCEPT !.at = "close"]
    <3>2. c \in RunRec /\ Local(c)  BY <1>1 DEF RunRec, Local, Settled
    <3>3. run' = [run EXCEPT ![r] = c]  BY <2>2 DEF Cancel
    <3> QED BY <1>1, <3>3, <3>2 DEF RunRec
  <2>3. CASE StayPut(r)
    <3> DEFINE c == [run[r] EXCEPT !.at = "note", !.forced = FALSE]
    <3>2. c \in RunRec /\ Local(c)  BY <1>1 DEF RunRec, Local, Settled
    <3> QED BY <1>1, <2>3, <3>2 DEF StayPut, RunRec
  <2>4. CASE Alone(r)
    <3> DEFINE c == [run[r] EXCEPT !.at = "note", !.forced = FALSE, !.since = 0]
    <3>2. c \in RunRec /\ Local(c)  BY <1>1 DEF RunRec, Local, Settled
    <3> QED BY <1>1, <2>4, <3>2 DEF Alone, RunRec
  <2> QED BY <2>1, <2>2, <2>3, <2>4
<1> QED BY <1>2, <1>3, Going, RowsStay, Counting, AskedStays

LEMMA Revealing ==
    ASSUME Inv, NEW r \in Runs, Reveal(r)
    PROVE  Stepped(r)
<1> DEFINE c == [run[r] EXCEPT !.at = "answer", !.left = @ - 1, !.since = @ + 1]
<1>1. /\ run[r] \in RunRec /\ Local(run[r]) /\ run[r].at = "listing" /\ run[r].left > 0 /\ run[r].browser # None
      /\ run' = [run EXCEPT ![r] = c] /\ reveals' = [reveals EXCEPT ![run[r].active] = @ + 1]
      /\ Quiet /\ UNCHANGED <<challenged, valid, enabled, jar, divar_phone, switch, turned>>
      BY Self DEF Reveal, Listing
<1>2. run[r].left - 1 \in Nat /\ run[r].since + 1 \in Nat
  <2>1. run[r].left \in Nat /\ run[r].since \in Nat  BY <1>1 DEF RunRec
  <2> QED BY <1>1, <2>1
<1>3. c \in RunRec  BY <1>1, <1>2 DEF RunRec
<1>4. c.at = "answer" /\ c.active = run[r].active /\ c.browser = run[r].browser /\ c.session = run[r].session
      BY <1>1 DEF RunRec
<1> HIDE DEF c
<1>5. Local(c)  BY <1>1, <1>4 DEF Local, Settled
<1>6. RowsKept(r)
  <2>1. RowsOK /\ turned \subseteq Runs  BY DEF Inv, CountsOK
  <2>2. reveals' \in [Numbers -> Nat] /\ \A n \in Numbers : reveals'[n] >= reveals[n]
    <3>1. run[r].active \in Numbers /\ reveals \in [Numbers -> Nat]  BY <1>1, <2>1 DEF Local, Settled, RowsOK
    <3>2. \A n \in Numbers : reveals'[n] = IF n = run[r].active THEN reveals[n] + 1 ELSE reveals[n]  BY <1>1, <3>1
    <3>3. \A n \in Numbers : reveals[n] \in Nat  BY <3>1
    <3>4. reveals' \in [Numbers -> Nat]
      <4>1. reveals[run[r].active] + 1 \in Nat  BY <3>1
      <4> QED BY <1>1, <3>1, <4>1
    <3> QED BY <3>2, <3>3, <3>4
  <2> QED BY <1>1, <2>1, <2>2 DEF RowsKept, RowsOK, RightJar, Usable
<1> QED BY <1>1, <1>3, <1>4, <1>5, <1>6, Going, Counting, AskedStays

LEMMA Answering ==
    ASSUME Inv, NEW r \in Runs, Answered(r) \/ Challenged(r) \/ Verified(r) \/ Walled(r)
    PROVE  Stepped(r)
<1>1. PICK forced \in BOOLEAN : Answers(r, forced)  BY DEF Answered, Challenged, Verified, Walled
<1> DEFINE c == [run[r] EXCEPT !.at = "ask", !.forced = @ \/ forced]
<1>2. /\ run[r] \in RunRec /\ Local(run[r]) /\ run[r].at = "answer" /\ run' = [run EXCEPT ![r] = c]
      /\ Quiet /\ UNCHANGED <<reveals, challenged, divar_phone, switch>>
      BY <1>1, Self DEF Answers
<1>3. c \in RunRec
  <2>1. (run[r].forced \/ forced) \in BOOLEAN  OBVIOUS
  <2> QED BY <1>2, <2>1 DEF RunRec
<1>4. c.at = "ask" /\ c.active = run[r].active /\ c.browser = run[r].browser /\ c.session = run[r].session
      BY <1>2 DEF RunRec
<1> HIDE DEF c
<1>5. Local(c)  BY <1>2, <1>4 DEF Local, Settled
<1>6. RowsKept(r)
  <2>1. RowsOK /\ turned \subseteq Runs /\ \A n \in Numbers : reveals[n] \in Nat  BY DEF Inv, CountsOK, RowsOK
  <2>2. CASE Answered(r) \/ Challenged(r)  BY <1>2, <2>2, RowsStay DEF Answered, Challenged, rows
  <2>3. CASE Verified(r)
    <3>1. run[r].browser # None => run[r].active \in Numbers /\ run[r].session = run[r].active
          BY <1>2 DEF Local, Settled
    <3>2. Persists(r, run[r]) /\ UNCHANGED enabled  BY <2>3 DEF Verified
    <3> QED BY <1>2, <2>1, <3>1, <3>2, Persisting DEF RowsOK
  <2>4. CASE Walled(r)
    <3>1. enabled' = enabled \ {run[r].active} /\ UNCHANGED <<valid, jar, turned>>  BY <2>4 DEF Walled
    <3> QED BY <1>2, <2>1, <3>1 DEF RowsKept, RowsOK, RightJar, Usable
  <2> QED BY <2>2, <2>3, <2>4
<1> QED BY <1>2, <1>3, <1>4, <1>5, <1>6, Going, Counting, AskedStays

LEMMA Noting ==
    ASSUME Inv, NEW r \in Runs, Note(r)
    PROVE  Stepped(r)
<1> DEFINE c == [run[r] EXCEPT !.at = "listing", !.why = "rotate"]
<1>1. /\ run[r] \in RunRec /\ Local(run[r]) /\ run[r].at = "note" /\ run' = [run EXCEPT ![r] = c]
      /\ Quiet /\ UNCHANGED <<rows, switch, turned>> /\ divar_phone' = [divar_phone EXCEPT ![r] = run[r].active]
      BY Self DEF Note
<1>2. c \in RunRec /\ Local(c)  BY <1>1 DEF RunRec, Local, Settled
<1>3. c.at = "listing" /\ c.active = run[r].active /\ c.browser = run[r].browser  BY <1>1 DEF RunRec
<1> HIDE DEF c
<1>4. AskedOK'  BY <1>1 DEF Inv, AskedOK, RunRec
<1> QED BY <1>1, <1>2, <1>3, <1>4, Going, RowsStay, Counting

LEMMA Persisted ==
    ASSUME Inv, NEW r \in Runs, Recycle(r) \/ Finish(r)
    PROVE  Stepped(r)
<1>1. /\ run[r] \in RunRec /\ Local(run[r]) /\ run[r].at = "listing" /\ Persists(r, run[r])
      /\ UNCHANGED <<reveals, challenged, enabled, divar_phone, switch>>
      BY Self DEF Recycle, Finish, Listing
<1>2. RowsKept(r)
  <2>1. run[r].browser # None => run[r].active \in Numbers /\ run[r].session = run[r].active
        BY <1>1 DEF Local, Settled
  <2>2. reveals \in [Numbers -> Nat] /\ challenged \subseteq Numbers  BY DEF Inv, RowsOK
  <2>3. \A n \in Numbers : reveals'[n] >= reveals[n]  BY <1>1, <2>2
  <2> QED BY <1>1, <2>1, <2>2, <2>3, Persisting
<1>3. CASE Recycle(r)
  <2> DEFINE c == [run[r] EXCEPT !.at = "reopen", !.browser = None, !.session = None]
  <2>1. run' = [run EXCEPT ![r] = c] /\ Does("recycle")  BY <1>3 DEF Recycle
  <2>2. c \in RunRec /\ Local(c) /\ c.at = "reopen" /\ c.active = run[r].active /\ c.browser = None
        BY <1>1 DEF RunRec, Local, Settled
  <2> HIDE DEF c
  <2>3. Counts  BY <2>1, Counting DEF Does
  <2> QED BY <1>1, <1>2, <2>1, <2>2, <2>3, Going, AskedStays
<1>4. CASE Finish(r)
  <2> DEFINE c == [run[r] EXCEPT !.at = "close"]
  <2>1. run' = [run EXCEPT ![r] = c] /\ Quiet  BY <1>4 DEF Finish
  <2>2. c \in RunRec /\ Local(c) /\ c.at = "close" /\ c.active = run[r].active /\ c.browser = run[r].browser
        BY <1>1 DEF RunRec, Local, Settled
  <2> HIDE DEF c
  <2> QED BY <1>1, <1>2, <2>1, <2>2, Going, Counting, AskedStays
<1> QED BY <1>3, <1>4

LEMMA Closing ==
    ASSUME Inv, NEW r \in Runs, Close(r)
    PROVE  Stepped(r)
<1>1. /\ run' = [run EXCEPT ![r] = Done] /\ Quiet /\ UNCHANGED rows /\ turned' = turned \ {r}
      /\ divar_phone' = [divar_phone EXCEPT ![r] = None] /\ switch' = [switch EXCEPT ![r] = None]
      BY DEF Close
<1>2. Done \in RunRec /\ Local(Done) /\ Done.at = "done" /\ Done.active = None /\ Done.browser = None
  <2>1. <<>> \in Seq(Numbers)  OBVIOUS
  <2> QED BY <2>1 DEF Done, Off, RunRec, Local, Settled
<1>3. AskedOK'  BY <1>1 DEF Inv, AskedOK
<1> QED BY <1>1, <1>2, <1>3, Going, RowsStay, Counting

\* What a run does before it leaves its number leaves the number spent.
LEMMA LeavingRows ==
    ASSUME Inv, NEW r \in Runs, run[r].at = "ask", Leaves(r)
    PROVE  /\ RowsKept(r) /\ Counts /\ UNCHANGED divar_phone /\ run[r].active \in Numbers
           /\ run[r].forced /\ EveryOf(r) > 0 => reveals'[run[r].active] >= EveryOf(r)
<1> DEFINE n == run[r].active
           m == MaxOf(reveals[n], EveryOf(r))
<1>1. /\ n \in Numbers /\ (run[r].browser # None => run[r].session = n)
      /\ reveals \in [Numbers -> Nat] /\ challenged \subseteq Numbers /\ EveryOf(r) \in Nat
      BY Self, EveryIsNat DEF Local, Settled, Inv, RowsOK
<1>2. reveals[n] \in Nat /\ m \in Nat /\ m >= reveals[n] /\ m >= EveryOf(r)  BY <1>1 DEF MaxOf
<1>3. Persists(r, run[r]) /\ Bank(r) /\ Quiet /\ UNCHANGED <<enabled, divar_phone>>  BY DEF Leaves
<1>4. CASE run[r].forced /\ EveryOf(r) > 0
  <2>1. reveals' = [reveals EXCEPT ![n] = m] /\ challenged' = challenged \cup {n}  BY <1>3, <1>4 DEF Bank
  <2> HIDE DEF n, m
  <2>2. reveals' \in [Numbers -> Nat] /\ reveals'[n] = m  BY <1>1, <1>2, <2>1
  <2>3. ASSUME NEW k \in Numbers PROVE reveals'[k] >= reveals[k]
    <3>1. reveals[k] \in Nat  BY <1>1
    <3> QED BY <1>1, <1>2, <2>1, <2>2, <3>1
  <2>4. challenged' \subseteq Numbers  BY <1>1, <2>1
  <2>5. RowsKept(r)  BY <1>1, <1>3, <2>2, <2>3, <2>4, Persisting DEF n
  <2> QED BY <1>1, <1>2, <1>3, <2>2, <2>5, Counting DEF n
<1>5. CASE ~(run[r].forced /\ EveryOf(r) > 0)
  <2>1. UNCHANGED <<reveals, challenged>>  BY <1>3, <1>5 DEF Bank
  <2>2. \A k \in Numbers : reveals'[k] >= reveals[k]  BY <1>1, <2>1
  <2>3. RowsKept(r)  BY <1>1, <1>3, <2>1, <2>2, Persisting
  <2> QED BY <1>1, <1>3, <1>5, <2>3, Counting
<1> QED BY <1>4, <1>5

\* A run that sets out for other numbers.
LEMMA SettingOut ==
    ASSUME Inv, NEW r \in Runs, run[r].at = "ask", Leaves(r), AskedOK', NEW why \in {"rotate", "manual"}, NEW s \in Seq(Numbers),
           run' = [run EXCEPT ![r] = [run[r] EXCEPT !.at = "try", !.why = why, !.cands = s]]
    PROVE  Stepped(r)
<1> DEFINE c == [run[r] EXCEPT !.at = "try", !.why = why, !.cands = s]
<1>1. run[r] \in RunRec /\ run' = [run EXCEPT ![r] = c]  BY Self
<1>2. c \in RunRec  BY <1>1 DEF RunRec
<1>3. /\ c.at = "try" /\ c.why = why /\ c.active = run[r].active /\ c.browser = run[r].browser
      /\ c.forced = run[r].forced /\ c.pinned = run[r].pinned
      BY <1>1 DEF RunRec
<1> HIDE DEF c
<1>4. /\ RowsKept(r) /\ Counts /\ run[r].active \in Numbers
      /\ run[r].forced /\ EveryOf(r) > 0 => reveals'[run[r].active] >= EveryOf(r)
      BY LeavingRows
<1>5. Local(c)  BY <1>3, <1>4 DEF Local, Settled
<1>6. Moves(r, c)  BY <1>1, <1>2, <1>3, <1>5 DEF Moves
<1>7. run'[r] = c  BY <1>6, Moving
<1>8. EveryOf(r)' = EveryOf(r)  BY <1>3, <1>7 DEF EveryOf
<1>9. Rounds(r)' /\ Leaving(r)'  BY <1>3, <1>4, <1>7, <1>8 DEF Rounds, Leaving
<1> QED BY <1>3, <1>4, <1>6, <1>9, Stepping

LEMMA Rotating ==
    ASSUME Inv, NEW r \in Runs, Rotate(r)
    PROVE  Stepped(r)
<1>1. PICK s \in Ordered(Pool) : run' = [run EXCEPT ![r] =
        [run[r] EXCEPT !.at = "try", !.why = "rotate", !.cands = After(s, run[r].active)]]
      BY DEF Rotate
<1>2. run[r].at = "ask" /\ Leaves(r) /\ UNCHANGED switch  BY DEF Rotate, Asked
<1>3. After(s, run[r].active) \in Seq(Numbers)  BY PoolType, OrderedType, AfterType
<1>4. AskedOK'  BY <1>2, LeavingRows, AskedStays
<1> QED BY <1>1, <1>2, <1>3, <1>4, SettingOut

LEMMA Honouring ==
    ASSUME Inv, NEW r \in Runs, Honour(r)
    PROVE  Stepped(r)
<1>1. PICK s \in Targets(r) : run' = [run EXCEPT ![r] =
        [run[r] EXCEPT !.at = "try", !.why = "manual", !.cands = s]]
      BY DEF Honour
<1>2. run[r].at = "ask" /\ Leaves(r) /\ switch' = [switch EXCEPT ![r] = None]  BY DEF Honour
<1>3. s \in Seq(Numbers)
  <2>1. CASE switch[r].to = None
    <3>1. Pool \ {run[r].active} \in SUBSET Numbers  BY PoolType
    <3> QED BY <2>1, <3>1, OrderedType DEF Targets, Others
  <2>2. CASE switch[r].to # None
    <3>1. PICK n \in Usable : s = <<n>>  BY <2>2 DEF Targets
    <3> QED BY <3>1, PoolType
  <2> QED BY <2>1, <2>2
<1>4. AskedOK'  BY <1>2, LeavingRows, SwitchTaken
<1> QED BY <1>1, <1>2, <1>3, <1>4, SettingOut

LEMMA StayingOn ==
    ASSUME Inv, NEW r \in Runs, BrowserGone(r) \/ Ignore(r)
    PROVE  Stepped(r)
<1>1. run[r] \in RunRec /\ Local(run[r]) /\ run[r].at = "ask"  BY Self DEF BrowserGone, Ignore, Asked
<1>2. CASE BrowserGone(r)
  <2> DEFINE c == [run[r] EXCEPT !.at = "note", !.forced = FALSE]
  <2>1. run' = [run EXCEPT ![r] = c] /\ Leaves(r) /\ UNCHANGED switch  BY <1>2 DEF BrowserGone
  <2>2. c \in RunRec /\ Local(c) /\ c.at = "note" /\ c.active = run[r].active /\ c.browser = run[r].browser
        BY <1>1 DEF RunRec, Local, Settled
  <2> HIDE DEF c
  <2> QED BY <1>1, <2>1, <2>2, LeavingRows, AskedStays, Going
<1>3. CASE Ignore(r)
  <2> DEFINE c == [run[r] EXCEPT !.at = "note"]
  <2>1. run' = [run EXCEPT ![r] = c] /\ Quiet /\ UNCHANGED <<rows, divar_phone, turned>>
        /\ switch' = [switch EXCEPT ![r] = None]
        BY <1>3 DEF Ignore
  <2>2. c \in RunRec /\ Local(c) /\ c.at = "note" /\ c.active = run[r].active /\ c.browser = run[r].browser
        BY <1>1 DEF RunRec, Local, Settled
  <2> HIDE DEF c
  <2> QED BY <2>1, <2>2, RowsStay, Counting, SwitchTaken, Going
<1> QED BY <1>2, <1>3

\* A round is counted out, and begins.
LEMMA CountingOut ==
    ASSUME Inv, NEW r \in Runs, Count(r)
    PROVE  Stepped(r)
<1> DEFINE c == [run[r] EXCEPT !.at = IF Spent(r) THEN "rest" ELSE "note"]
<1>1. /\ run[r] \in RunRec /\ Local(run[r]) /\ run[r].at = "count" /\ run' = [run EXCEPT ![r] = c]
      /\ Quiet /\ UNCHANGED <<rows, divar_phone, switch>> /\ turned' = turned \ {r}
      BY Self DEF Count
<1>2. c \in RunRec /\ Local(c)  BY <1>1 DEF RunRec, Local, Settled
<1>3. /\ c.at = (IF Spent(r) THEN "rest" ELSE "note") /\ c.active = run[r].active /\ c.browser = run[r].browser
      /\ c.pinned = run[r].pinned
      BY <1>1 DEF RunRec
<1> HIDE DEF c
<1>4. Moves(r, c)  BY <1>1, <1>2, <1>3 DEF Moves
<1>5. run'[r] = c /\ EveryOf(r)' = EveryOf(r)  BY <1>3, <1>4, Moving DEF EveryOf
<1>6. Rounds(r)' /\ Leaving(r)'  BY <1>1, <1>3, <1>5 DEF Rounds, Leaving, Spent, rows, Usable
<1> QED BY <1>1, <1>3, <1>4, <1>6, RowsStay, Counting, AskedStays, Stepping

LEMMA RestingAll ==
    ASSUME Inv, NEW r \in Runs, Rest(r)
    PROVE  Stepped(r)
<1> DEFINE c == [run[r] EXCEPT !.at = "note"]
<1>1. /\ run[r] \in RunRec /\ Local(run[r]) /\ run[r].at = "rest"
      /\ reveals' = [n \in Numbers |-> IF n \in Usable THEN 0 ELSE reveals[n]] /\ Turns(r, Runs)
      /\ Quiet /\ UNCHANGED <<challenged, valid, enabled, jar, divar_phone, switch>>
      BY Self DEF Rest
<1>2. run' = [run EXCEPT ![r] = c]  BY DEF Rest
<1>3. c \in RunRec /\ Local(c) /\ c.at = "note" /\ c.active = run[r].active /\ c.browser = run[r].browser
      BY <1>1 DEF RunRec, Local, Settled
<1> HIDE DEF c
<1>4. RowsKept(r)
  <2>1. RowsOK /\ turned \subseteq Runs  BY DEF Inv, CountsOK
  <2>2. reveals' \in [Numbers -> Nat]  BY <1>1, <2>1 DEF RowsOK
  <2>3. turned' = (turned \ {r}) \cup (Runs \ {r})  BY <1>1 DEF Turns
  <2> QED BY <1>1, <2>1, <2>2, <2>3 DEF RowsKept, RowsOK, RightJar
<1> QED BY <1>1, <1>2, <1>3, <1>4, Counting, AskedStays, Going

\* A rotation that found nobody, and the way back to the run's own profile.
LEMMA FindingNobody ==
    ASSUME Inv, NEW r \in Runs, Nobody(r)
    PROVE  Stepped(r)
<1>1. /\ run[r] \in RunRec /\ Local(run[r]) /\ run[r].at = "try" /\ run[r].cands = <<>>
      /\ Quiet /\ UNCHANGED <<rows, divar_phone, switch, turned>>
      BY Self DEF Nobody
<1>2. run[r].why \in {"fallback", "manual", "rotate"}  BY <1>1 DEF Local, RunRec
<1>3. Fallen(r) \in Nat  BY EveryIsNat, Thresholds DEF Fallen
<1>4. PICK c : /\ c \in RunRec /\ Local(c) /\ run' = [run EXCEPT ![r] = c] /\ c.browser = run[r].browser
               /\ c.active = run[r].active /\ c.at \notin {"rest", "try"}
  <2>1. CASE run[r].why = "fallback"
    <3> DEFINE c == [run[r] EXCEPT !.at = "close"]
    <3>1. run' = [run EXCEPT ![r] = c]  BY <2>1 DEF Nobody
    <3>2. c \in RunRec /\ Local(c)  BY <1>1 DEF RunRec, Local, Settled
    <3> QED BY <1>1, <3>1, <3>2 DEF RunRec
  <2>2. CASE run[r].why = "manual"
    <3> DEFINE c == [run[r] EXCEPT !.at = "reopen"]
    <3>1. run' = [run EXCEPT ![r] = c]  BY <2>2 DEF Nobody
    <3>2. c \in RunRec /\ Local(c)  BY <1>1, <2>2 DEF RunRec, Local, Settled
    <3> QED BY <1>1, <3>1, <3>2 DEF RunRec
  <2>3. CASE run[r].why = "rotate"
    <3> DEFINE c == [run[r] EXCEPT !.at = "reopen", !.since = Fallen(r), !.forced = FALSE]
    <3>1. run' = [run EXCEPT ![r] = c]  BY <2>3 DEF Nobody
    <3>2. c \in RunRec /\ Local(c)  BY <1>1, <1>3, <2>3 DEF RunRec, Local, Settled
    <3> QED BY <1>1, <3>1, <3>2 DEF RunRec
  <2> QED BY <1>2, <2>1, <2>2, <2>3
<1> QED BY <1>1, <1>4, Going, RowsStay, Counting, AskedStays

LEMMA Reopening ==
    ASSUME Inv, NEW r \in Runs, Reopen(r)
    PROVE  Stepped(r)
<1>1. /\ run[r] \in RunRec /\ Local(run[r]) /\ run[r].at = "reopen" /\ run[r].active \in Numbers
      /\ jar[run[r].active] = run[r].active /\ UNCHANGED <<rows, divar_phone, switch, turned>>
      BY Self DEF Reopen, Local, Inv, RowsOK, RightJar
<1>2. PICK b : /\ b = None \/ (b = run[r].active /\ ~Taken(r, b))
               /\ Quiet \/ \E k \in Events : Fails(k)
               /\ run' = [run EXCEPT ![r] = Reopened(r, b, b)]
      BY <1>1 DEF Reopen, Opens, OpensOnly, OpenFails, Fails
<1> DEFINE c == Reopened(r, b, b)
<1>3. /\ c \in RunRec /\ c.at = "note" /\ c.active = run[r].active /\ c.browser = b /\ c.session = b
      BY <1>1, <1>2 DEF RunRec, Reopened
<1> HIDE DEF c
<1>4. Local(c)  BY <1>1, <1>2, <1>3 DEF Local, Settled
<1>5. run' = [run EXCEPT ![r] = c]  BY <1>2 DEF c
<1>6. Moves(r, c)  BY <1>2, <1>3, <1>4, <1>5 DEF Moves
<1>7. Counts  BY <1>2, Counting
<1> QED BY <1>1, <1>3, <1>6, <1>7, RowsStay, AskedStays, Stepping

LEMMA Starting ==
    ASSUME Inv, NEW r \in Runs, Start(r)
    PROVE  Stepped(r)
<1>1. PICK n \in Usable, pin \in BOOLEAN : run' = [run EXCEPT
        ![r] = [@ EXCEPT !.at = "try", !.cands = <<n>>, !.pinned = pin, !.left = Listings[r]]]
      BY DEF Start
<1> DEFINE c == [run[r] EXCEPT !.at = "try", !.cands = <<n>>, !.pinned = pin, !.left = Listings[r]]
<1>2. /\ run[r] \in RunRec /\ Local(run[r]) /\ run[r].at = "off" /\ run' = [run EXCEPT ![r] = c]
      /\ Quiet /\ UNCHANGED <<rows, divar_phone, switch, turned>> /\ n \in Numbers /\ Listings[r] \in Nat
      BY <1>1, Self, PoolType, Limits DEF Start
<1>3. <<n>> \in Seq(Numbers) /\ <<n>> # <<>>  BY <1>2
<1>4. c \in RunRec  BY <1>2, <1>3 DEF RunRec
<1>5. /\ c.at = "try" /\ c.active = run[r].active /\ c.browser = run[r].browser /\ c.cands # <<>>
      /\ c.forced = run[r].forced /\ c.why = run[r].why
      BY <1>2, <1>3 DEF RunRec
<1> HIDE DEF c
<1>6. Local(c) /\ ~c.forced  BY <1>2, <1>5 DEF Local, Settled
<1>7. Moves(r, c)  BY <1>2, <1>4, <1>5, <1>6 DEF Moves
<1>8. run'[r] = c  BY <1>7, Moving
<1>9. Rounds(r)' /\ Leaving(r)'  BY <1>5, <1>6, <1>8 DEF Rounds, Leaving
<1> QED BY <1>2, <1>5, <1>7, <1>9, RowsStay, Counting, AskedStays, Stepping

LEMMA TryingOn ==
    ASSUME Inv, NEW r \in Runs, run[r].at = "try", NEW c \in RunRec, Local(c), run' = [run EXCEPT ![r] = c],
           c.at = "try", c.active = run[r].active, c.forced = run[r].forced, c.pinned = run[r].pinned,
           c.browser = None \/ ~Taken(r, c.browser), UNCHANGED <<rows, divar_phone, switch, turned>>, Counts
    PROVE  Stepped(r)
<1>1. Moves(r, c)  BY DEF Moves
<1>2. run'[r] = c /\ EveryOf(r)' = EveryOf(r)  BY <1>1, Moving DEF EveryOf
<1>3. Leaving(r)  BY DEF Inv
<1>4. Rounds(r)' /\ Leaving(r)'  BY <1>2, <1>3 DEF Rounds, Leaving, rows
<1> QED BY <1>1, <1>4, RowsStay, AskedStays, Stepping

LEMMA Candidates ==
    ASSUME Inv, NEW r \in Runs, Trying(r)
    PROVE  /\ run[r] \in RunRec /\ Local(run[r]) /\ run[r].at = "try"
           /\ Candidate(r) \in Numbers /\ Tail(run[r].cands) \in Seq(Numbers)
<1>1. run[r].cands \in Seq(Numbers) /\ run[r].cands # <<>>  BY Self DEF RunRec, Trying
<1> QED BY <1>1, Self DEF Trying, Candidate

LEMMA Failing ==
    ASSUME Inv, NEW r \in Runs, TryOpenFails(r)
    PROVE  Stepped(r)
<1>1. /\ run[r] \in RunRec /\ Local(run[r]) /\ run[r].at = "try" /\ Tail(run[r].cands) \in Seq(Numbers)
      /\ UNCHANGED <<rows, divar_phone, switch, turned>>
      BY Candidates DEF TryOpenFails
<1>2. Counts  BY Counting DEF TryOpenFails, OpenFails, Fails
<1>3. CASE run[r].why = "start"
  <2> DEFINE c == [run[r] EXCEPT !.at = "close"]
  <2>1. run' = [run EXCEPT ![r] = c]  BY <1>3 DEF TryOpenFails
  <2>2. c \in RunRec /\ Local(c) /\ c.at = "close" /\ c.active = run[r].active /\ c.browser = run[r].browser
        BY <1>1 DEF RunRec, Local, Settled
  <2> HIDE DEF c
  <2> QED BY <1>1, <1>2, <2>1, <2>2, RowsStay, AskedStays, Going
<1>4. CASE run[r].why # "start"
  <2> DEFINE c == [run[r] EXCEPT !.cands = Tail(@), !.browser = None, !.session = None]
  <2>1. run' = [run EXCEPT ![r] = c]  BY <1>4 DEF TryOpenFails
  <2>2. c \in RunRec  BY <1>1 DEF RunRec
  <2>3. /\ c.at = "try" /\ c.active = run[r].active /\ c.forced = run[r].forced /\ c.pinned = run[r].pinned
        /\ c.browser = None /\ c.why = run[r].why
        BY <1>1 DEF RunRec
  <2> HIDE DEF c
  <2>4. Local(c)  BY <1>1, <1>4, <2>3 DEF Local, Settled
  <2> QED BY <1>1, <1>2, <2>1, <2>2, <2>3, <2>4, TryingOn
<1> QED BY <1>3, <1>4

LEMMA Unrestored ==
    ASSUME Inv, NEW r \in Runs, TryRestoreFails(r)
    PROVE  Stepped(r)
<1> DEFINE n == Candidate(r)
           here == [run[r] EXCEPT !.browser = n, !.session = n]
<1>1. /\ run[r] \in RunRec /\ Local(run[r]) /\ run[r].at = "try" /\ Tail(run[r].cands) \in Seq(Numbers) /\ n \in Numbers
      /\ UNCHANGED <<rows, divar_phone, switch, turned>> /\ OpensOnly(r, n)
      BY Candidates DEF TryRestoreFails
<1>2. Counts /\ ~Taken(r, n)  BY <1>1, Counting DEF OpensOnly, Fails
<1>3. CASE run[r].why = "start"
  <2>1. PICK s \in Others(n) : run' = [run EXCEPT ![r] = [here EXCEPT !.why = "fallback", !.cands = s]]
        BY <1>3 DEF TryRestoreFails
  <2> DEFINE c == [here EXCEPT !.why = "fallback", !.cands = s]
  <2>2. s \in Seq(Numbers)
    <3>1. Pool \ {n} \in SUBSET Numbers  BY PoolType
    <3> QED BY <3>1, OrderedType DEF Others
  <2>3. c \in RunRec  BY <1>1, <2>2 DEF RunRec
  <2>4. /\ c.at = "try" /\ c.active = run[r].active /\ c.forced = run[r].forced /\ c.pinned = run[r].pinned
        /\ c.browser = n /\ c.why = "fallback" /\ run' = [run EXCEPT ![r] = c]
        BY <1>1, <2>1 DEF RunRec
  <2> HIDE DEF c, here
  <2>5. Local(c)  BY <1>1, <1>3, <2>4 DEF Local, Settled
  <2> QED BY <1>1, <1>2, <2>3, <2>4, <2>5, TryingOn
<1>4. CASE run[r].why # "start"
  <2> DEFINE c == [here EXCEPT !.cands = Tail(@)]
  <2>1. run' = [run EXCEPT ![r] = c]  BY <1>4 DEF TryRestoreFails
  <2>2. c \in RunRec  BY <1>1 DEF RunRec
  <2>3. /\ c.at = "try" /\ c.active = run[r].active /\ c.forced = run[r].forced /\ c.pinned = run[r].pinned
        /\ c.browser = n /\ c.why = run[r].why
        BY <1>1 DEF RunRec
  <2> HIDE DEF c, here
  <2>4. Local(c)  BY <1>1, <1>4, <2>3 DEF Local, Settled
  <2> QED BY <1>1, <1>2, <2>1, <2>2, <2>3, <2>4, TryingOn
<1> QED BY <1>3, <1>4

LEMMA Adopting ==
    ASSUME Inv, NEW r \in Runs, Adopt(r)
    PROVE  Stepped(r)
<1> DEFINE n == Candidate(r)
           m == Moved(r, n)
           at == IF run[r].why = "rotate" /\ EveryOf(r) > 0 THEN "count" ELSE "note"
           c == [m EXCEPT !.since = 0, !.forced = FALSE, !.cands = <<>>, !.at = at]
<1>1. /\ run[r] \in RunRec /\ run[r].at = "try" /\ n \in Numbers /\ jar[n] = n
      /\ UNCHANGED <<reveals, challenged, enabled, divar_phone, switch>> /\ Opens(r, n) /\ Persists(r, m)
      /\ run' = [run EXCEPT ![r] = c]
      BY Candidates DEF Adopt, Inv, RowsOK, RightJar
<1>2. m = [run[r] EXCEPT !.browser = n, !.session = n, !.active = n]  BY <1>1 DEF Moved
<1>3. m \in RunRec /\ m.browser = n /\ m.session = n /\ m.active = n  BY <1>1, <1>2 DEF RunRec
<1>4. at \in {"count", "note"}  OBVIOUS
<1> HIDE DEF m, at, n
<1>5. c \in RunRec /\ c.at = at /\ c.browser = n /\ c.session = n /\ c.active = n
  <2>1. <<>> \in Seq(Numbers)  OBVIOUS
  <2> QED BY <1>3, <1>4, <2>1 DEF RunRec
<1> HIDE DEF c
<1>6. Local(c)  BY <1>1, <1>4, <1>5 DEF Local, Settled
<1>7. RowsKept(r)
  <2>1. reveals \in [Numbers -> Nat] /\ challenged \subseteq Numbers  BY DEF Inv, RowsOK
  <2>2. \A k \in Numbers : reveals'[k] >= reveals[k]  BY <1>1, <2>1
  <2> QED BY <1>1, <1>3, <2>1, <2>2, Persisting
<1>8. Moves(r, c)  BY <1>1, <1>5, <1>6 DEF Moves, Opens
<1>9. Counts  BY <1>1, Counting DEF Opens
<1> QED BY <1>1, <1>4, <1>5, <1>7, <1>8, <1>9, AskedStays, Stepping

\* What people, the verifier and the clock do leaves the runs where they are.
LEMMA Standing ==
    ASSUME Inv, UNCHANGED <<run, reveals>>, RowsOK', AskedOK', Counts,
           turned' = Runs \/ (turned' = turned /\ Usable' \subseteq Usable)
    PROVE  Inv'
<1>1. RunsOK'  BY DEF Inv, RunsOK
<1>2. CountsOK'  BY DEF Inv, CountsOK, Counts
<1>3. \A r \in Runs : Rounds(r)' /\ Leaving(r)'
  <2> TAKE r \in Runs
  <2>1. Rounds(r) /\ Leaving(r) /\ EveryOf(r)' = EveryOf(r)  BY DEF Inv, EveryOf
  <2> QED BY <2>1 DEF Rounds, Leaving
<1> QED BY <1>1, <1>2, <1>3 DEF Inv

LEMMA Outside ==
    ASSUME Inv, World
    PROVE  Inv' /\ UNCHANGED run
<1>0. RowsOK /\ AskedOK  BY DEF Inv
<1>1. CASE \E r \in Runs, n \in Numbers \cup {None} : RequestSwitch(r, n)
  <2>1. PICK r \in Runs, n \in Numbers \cup {None} : RequestSwitch(r, n)  BY <1>1
  <2>2. UNCHANGED <<reveals, challenged, valid, enabled, jar, run, divar_phone, turned>>
        /\ switch' = [switch EXCEPT ![r] = [to |-> n, from |-> None]] /\ Does("wish")
        BY <2>1 DEF RequestSwitch, rows
  <2>3. RowsOK' /\ AskedOK' /\ Usable' = Usable  BY <1>0, <2>2 DEF RowsOK, RightJar, AskedOK, Requests, Usable
  <2>4. Counts  BY <2>2, Counting DEF Does
  <2> QED BY <2>2, <2>3, <2>4, Standing
<1>2. ASSUME NEW n \in Numbers, SwitchOff(n) PROVE Inv' /\ UNCHANGED run
  <2>1. UNCHANGED <<reveals, challenged, valid, jar, run, divar_phone, turned>> /\ enabled' = enabled \ {n}
        /\ switch' = [r \in Runs |-> IF r \in Live /\ divar_phone[r] = n
                               THEN [to |-> None, from |-> n] ELSE switch[r]] /\ Does("off")
        BY <1>2 DEF SwitchOff
  <2>2. RowsOK' /\ Usable' \subseteq Usable  BY <1>0, <2>1 DEF RowsOK, RightJar, Usable
  <2>3. [to |-> None, from |-> n] \in Requests \cup {None}  BY DEF Requests
  <2>4. AskedOK'
    <3> DEFINE o == [to |-> None, from |-> n]
    <3>1. o \in Requests \cup {None}  BY <2>3
    <3>2. switch' = [r \in Runs |-> IF r \in Live /\ divar_phone[r] = n THEN o ELSE switch[r]]  BY <2>1
    <3> HIDE DEF o
    <3> QED BY <1>0, <2>1, <3>1, <3>2 DEF AskedOK
  <2>5. Counts  BY <2>1, Counting DEF Does
  <2> QED BY <2>1, <2>2, <2>4, <2>5, Standing
<1>3. ASSUME NEW n \in Numbers, SwitchOn(n) PROVE Inv' /\ UNCHANGED run
  <2>1. UNCHANGED <<reveals, challenged, valid, jar, run, divar_phone, switch>> /\ enabled' = enabled \cup {n}
        /\ turned' = Runs /\ Does("on")
        BY <1>3 DEF SwitchOn
  <2>2. RowsOK' /\ AskedOK'  BY <1>0, <2>1 DEF RowsOK, RightJar, AskedOK
  <2>3. Counts  BY <2>1, Counting DEF Does
  <2> QED BY <2>1, <2>2, <2>3, Standing
<1>4. ASSUME NEW n \in Numbers, Expire(n) \/ Rested(n) PROVE Inv' /\ UNCHANGED run
  <2>1. /\ UNCHANGED <<reveals, enabled, jar, run, divar_phone, switch, turned>>
        /\ valid' \subseteq valid /\ challenged' \subseteq challenged /\ \E k \in Events : Does(k)
        BY <1>4 DEF Expire, Rested, Does
  <2>2. RowsOK' /\ AskedOK' /\ Usable' \subseteq Usable  BY <1>0, <2>1 DEF RowsOK, RightJar, AskedOK, Usable
  <2>3. Counts  BY <2>1, Counting
  <2> QED BY <2>1, <2>2, <2>3, Standing
<1> QED BY <1>1, <1>2, <1>3, <1>4 DEF World

LEMMA RunSteps == ASSUME Inv, NEW r \in Runs, Rotation(r) \/ Scraping(r) PROVE Stepped(r)
<1>1. CASE Rotation(r)
      BY <1>1, Walking, StayingOn, Rotating, Honouring, Failing, Unrestored, Adopting, FindingNobody, Reopening,
         CountingOut, RestingAll, Noting
      DEF Rotation
<1>2. CASE Scraping(r)
      BY <1>2, Starting, Walking, Revealing, Answering, Persisted, Closing DEF Scraping
<1> QED BY <1>1, <1>2

LEMMA Steps ==
    ASSUME Inv, [Next]_vars
    PROVE  Inv' /\ (UNCHANGED run \/ \E r \in Runs : Stepped(r))
<1>1. CASE UNCHANGED vars
  <2>1. UNCHANGED <<reveals, challenged, valid, enabled, jar, run, divar_phone, switch, turned, failures, doings>>
        BY <1>1 DEF vars, rows
  <2>2. RowsOK' /\ AskedOK' /\ Usable' = Usable  BY <2>1 DEF Inv, RowsOK, RightJar, AskedOK, Usable
  <2>3. Counts  BY <2>1 DEF Inv, CountsOK, Counts
  <2> QED BY <2>1, <2>2, <2>3, Standing
<1>2. CASE \E r \in Runs : Rotation(r) \/ Scraping(r)  BY <1>2, RunSteps DEF Stepped
<1>3. CASE World  BY <1>3, Outside
<1> QED BY <1>1, <1>2, <1>3 DEF Next

LEMMA Always == Spec => []Inv
<1>1. Inv /\ [Next]_vars => Inv'  BY Steps
<1> QED BY <1>1, InitInv, PTL DEF Spec

\* The rows, the runs and the requests are well formed, and no two runs have a
\* browser on one number's profile (_open_browser_for).
THEOREM TypeCorrect == Spec => []TypeOK
<1>1. Inv => TypeOK  BY DEF Inv, RowsOK, RunsOK, AskedOK, CountsOK, RunRec, TypeOK
<1> QED BY <1>1, Always, PTL

\* A number's row only ever holds that number's own session, through failed
\* rotations, recycles and moves back (_persist_active_session).
THEOREM JarsStayRight == Spec => []RightJar
<1>1. Inv => RightJar  BY DEF Inv, RowsOK
<1> QED BY <1>1, Always, PTL

\* A reveal is charged to the number whose browser and session made it
\* (_charge_reveal, divar_scraper.py:3074).
THEOREM BillsGoRight == Spec => []BilledRight
<1>1. Inv => BilledRight
  <2> SUFFICES ASSUME Inv, NEW r \in Runs, run[r].at = "answer"
               PROVE  run[r].active = run[r].browser /\ run[r].active = run[r].session
      BY DEF BilledRight
  <2> QED BY Self DEF Local, Settled
<1> QED BY <1>1, Always, PTL

\* A new round begins only with every usable number spent, unless another run began
\* one or a number came back meanwhile (_switch_to, divar_scraper.py:3642).
THEOREM RoundsEnd == Spec => []RoundsEndSpent
<1>1. Inv => RoundsEndSpent  BY DEF Inv, RoundsEndSpent, Rounds
<1> QED BY <1>1, Always, PTL

\* A run that moves on after a challenge leaves its number spent, but for another
\* run's new round in the middle of the move (maybe_rotate_account,
\* divar_scraper.py:3510).
THEOREM ChallengesAreSpent == Spec => ChallengedIsSpent
<1> DEFINE A == \A r \in Runs :
      /\ run[r].forced /\ EveryOf(r) > 0 /\ run[r].active # None
      /\ run'[r].active # run[r].active /\ run'[r].active # None
      => reveals[run[r].active] >= EveryOf(r) \/ r \in turned
<1>1. Inv /\ [Next]_vars => [A]_vars
  <2> SUFFICES ASSUME Inv, [Next]_vars, NEW r \in Runs, run[r].forced, EveryOf(r) > 0,
                      run'[r].active # run[r].active, run'[r].active # None, r \notin turned
               PROVE  reveals[run[r].active] >= EveryOf(r)
      OBVIOUS
  <2>1. PICK q \in Runs : Stepped(q)  BY Steps
  <2>2. run[r].at = "try"  BY <2>1 DEF Stepped
  <2> QED BY <2>2 DEF Inv, Leaving
<1> QED BY <1>1, Always, PTL DEF Spec, ChallengedIsSpent

-----------------------------------------------------------------------------
(* Which numbers a rotation tries.                                          *)

\* The sequence holds each of S once, and nothing else.
Once(c, S) == /\ c \in Seq(S)
              /\ \A n \in S : \E i \in 1..Len(c) : c[i] = n
              /\ \A i, j \in 1..Len(c) : i # j => c[i] # c[j]

LEMMA OrderedOnce == ASSUME NEW S \in SUBSET Numbers, NEW s \in Ordered(S) PROVE Once(s, S)
<1> DEFINE D == 1..Cardinality(S)
<1>1. IsFiniteSet(S) /\ Cardinality(S) \in Nat  BY FiniteNumbers, FS_Subset, FS_CardinalityType
<1>2. s \in [D -> S] /\ \A i, j \in D : i # j => s[i] # s[j]  BY DEF Ordered, SetToSeqs
<1>3. IsFiniteSet(D) /\ Cardinality(D) = Cardinality(S)  BY <1>1, FS_Interval
<1>4. s \in Injection(D, S)  BY <1>2 DEF Injection, IsInjective
<1>5. s \in Surjection(D, S)  BY <1>1, <1>3, <1>4, FS_Injection
<1>6. \A n \in S : \E i \in D : s[i] = n  BY <1>5 DEF Surjection
<1>7. s \in Seq(S) /\ Len(s) = Cardinality(S)  BY <1>1, <1>2
<1> QED BY <1>2, <1>6, <1>7 DEF Once

\* Round from n: what comes after it, then what comes before.
LEMMA AfterOnce ==
    ASSUME NEW S, NEW s, Once(s, S), NEW n PROVE Once(After(s, n), S \ {n})
<1> DEFINE L == Len(s)
<1>1. s \in Seq(S) /\ L \in Nat /\ DOMAIN s = 1..L  BY DEF Once
<1>2. CASE n \notin ToSet(s)
  <2>1. n \notin S  BY <1>1, <1>2 DEF Once, ToSet
  <2> QED BY <1>2, <2>1 DEF After
<1>3. CASE n \in ToSet(s)
  <2> DEFINE k == CHOOSE i \in DOMAIN s : s[i] = n
             a == SubSeq(s, k + 1, L)
             b == SubSeq(s, 1, k - 1)
  <2>1. k \in 1..L /\ s[k] = n  BY <1>1, <1>3 DEF ToSet
  <2>2. After(s, n) = a \o b  BY <1>3 DEF After
  <2> HIDE DEF k
  <2>3. a \in Seq(S) /\ Len(a) = L - k /\ \A i \in 1..(L - k) : a[i] = s[k + i]
    <3>1. \A i \in (k + 1)..L : s[i] \in S  BY <1>1, <2>1, ElementOfSeq
    <3>2. k + 1 \in Int /\ L \in Int  BY <1>1, <2>1
    <3>3. /\ a \in Seq(S) /\ Len(a) = IF k + 1 <= L THEN L - (k + 1) + 1 ELSE 0
          /\ \A i \in 1..(L - (k + 1) + 1) : a[i] = s[k + 1 + i - 1]
          BY <3>1, <3>2, SubSeqProperties
    <3> HIDE DEF a, b
    <3> HIDE DEF L
    <3>4. L \in Nat /\ k \in 1..L  BY <1>1, <2>1
    <3>5. Len(a) = L - k  BY <3>3, <3>4
    <3>6. ASSUME NEW i \in 1..(L - k) PROVE a[i] = s[k + i]
      <4>1. i \in 1..(L - (k + 1) + 1) /\ k + 1 + i - 1 = k + i  BY <3>4
      <4> QED BY <3>3, <4>1
    <3> QED BY <3>3, <3>5, <3>6
  <2>4. b \in Seq(S) /\ Len(b) = k - 1 /\ \A i \in 1..(k - 1) : b[i] = s[i]
    <3>1. \A i \in 1..(k - 1) : s[i] \in S  BY <1>1, <2>1, ElementOfSeq
    <3> QED BY <1>1, <2>1, <3>1, SubSeqProperties
  <2> DEFINE c == a \o b
  <2> HIDE DEF a, b
  <2>13. /\ c \in Seq(S) /\ Len(c) = Len(a) + Len(b)
         /\ \A i \in 1..(Len(a) + Len(b)) : c[i] = IF i <= Len(a) THEN a[i] ELSE b[i - Len(a)]
         BY <2>3, <2>4, ConcatProperties
  <2> HIDE DEF c
  <2>5. c \in Seq(S) /\ Len(c) = L - 1  BY <1>1, <2>1, <2>3, <2>4, <2>13
  <2>6. \A i \in 1..(L - 1) : c[i] = IF i <= L - k THEN s[k + i] ELSE s[i - (L - k)]
    <3>1. \A i \in 1..(L - 1) : c[i] = IF i <= L - k THEN a[i] ELSE b[i - (L - k)]
          BY <1>1, <2>1, <2>3, <2>4, <2>13
    <3>2. \A i \in 1..(L - 1) : IF i <= L - k THEN i \in 1..(L - k) ELSE i - (L - k) \in 1..(k - 1)
          BY <1>1, <2>1
    <3> QED BY <2>3, <2>4, <3>1, <3>2
  <2>7. \A i, j \in 1..L : i # j => s[i] # s[j]  BY DEF Once
  <2>8. \A i \in 1..(L - 1) : c[i] \in S \ {n}
    <3> TAKE i \in 1..(L - 1)
    <3>1. c[i] \in S  BY <2>5, ElementOfSeq
    <3>2. PICK j \in 1..L : c[i] = s[j] /\ j # k  BY <1>1, <2>1, <2>6
    <3> QED BY <2>1, <2>7, <3>1, <3>2
  <2>9. c \in Seq(S \ {n})  BY <1>1, <2>5, <2>8, LenProperties
  <2>10. ASSUME NEW m \in S \ {n} PROVE \E i \in 1..(L - 1) : c[i] = m
    <3>1. PICK j \in 1..L : s[j] = m  BY DEF Once
    <3>2. j # k  BY <2>1, <3>1
    <3> DEFINE i == IF j > k THEN j - k ELSE j + (L - k)
    <3>3. i \in 1..(L - 1) /\ (IF i <= L - k THEN k + i = j ELSE i - (L - k) = j)
          BY <1>1, <2>1, <3>2
    <3> HIDE DEF i
    <3>4. c[i] = s[j]  BY <2>6, <3>3
    <3> QED BY <3>1, <3>3, <3>4
  <2>11. ASSUME NEW i \in 1..(L - 1), NEW j \in 1..(L - 1), i # j PROVE c[i] # c[j]
    <3> DEFINE p(x) == IF x <= L - k THEN k + x ELSE x - (L - k)
    <3>1. p(i) \in 1..L /\ p(j) \in 1..L /\ p(i) # p(j)  BY <1>1, <2>1, <2>11
    <3>2. c[i] = s[p(i)] /\ c[j] = s[p(j)]  BY <2>6
    <3> QED BY <2>7, <3>1, <3>2
  <2>12. After(s, n) = c  BY <2>2 DEF c
  <2> QED BY <2>5, <2>9, <2>10, <2>11, <2>12 DEF Once
<1> QED BY <1>2, <1>3

\* One step of a search for a number.
TriesEachOnce == \A r \in Runs :
  /\ run[r].at = "ask" /\ run'[r].at = "try" /\ (switch[r] = None \/ switch[r].to = None)
       => Once(run'[r].cands, Pool \ {run[r].active})
  /\ run[r].at = "try" /\ run[r].why # "start" /\ run'[r].at = "try"
       => run'[r].cands = run[r].cands \/ run'[r].cands = Tail(run[r].cands)
  /\ run[r].at = "try" /\ run'[r].at = "reopen" => run[r].cands = <<>>

\* Unless a person named the number, a run that leaves its own tries every other of the
\* pool, each once, and goes back to its own only with none left (maybe_rotate_account,
\* _switch_on_request).
THEOREM RotationsTryEachOnce == Spec => [][TriesEachOnce]_vars
<1>1. ASSUME Inv, [Next]_vars PROVE TriesEachOnce
  <2> DEFINE P(r) ==
        /\ run[r].at = "ask" /\ run'[r].at = "try" /\ (switch[r] = None \/ switch[r].to = None)
             => Once(run'[r].cands, Pool \ {run[r].active})
        /\ run[r].at = "try" /\ run[r].why # "start" /\ run'[r].at = "try"
             => run'[r].cands = run[r].cands \/ run'[r].cands = Tail(run[r].cands)
        /\ run[r].at = "try" /\ run'[r].at = "reopen" => run[r].cands = <<>>
  <2>1. ASSUME NEW r \in Runs, run'[r] = run[r] PROVE P(r)  BY <2>1
  <2>2. run \in [Runs -> RunRec]  BY <1>1 DEF Inv, RunsOK
  <2>3. ASSUME NEW r \in Runs, Rotation(r) \/ Scraping(r) PROVE \A q \in Runs : P(q)
    <3>1. \A q \in Runs : q # r => run'[q] = run[q]  BY <1>1, <2>3, RunSteps DEF Stepped
    <3>2. P(r)
      <4>1. run[r] \in RunRec  BY <2>2
      <4>2. CASE Rotate(r)
        <5>1. PICK s \in Ordered(Pool) : run' = [run EXCEPT ![r] =
                [run[r] EXCEPT !.at = "try", !.why = "rotate", !.cands = After(s, run[r].active)]]
              BY <4>2 DEF Rotate
        <5>2. run'[r].cands = After(s, run[r].active) /\ run[r].at = "ask"
              BY <2>2, <4>1, <4>2, <5>1 DEF RunRec, Rotate, Asked
        <5>3. Once(run'[r].cands, Pool \ {run[r].active})
              BY <1>1, <5>2, PoolType, OrderedOnce, AfterOnce
        <5> QED BY <5>2, <5>3
      <4>3. CASE Honour(r)
        <5>1. PICK s \in Targets(r) : run' = [run EXCEPT ![r] =
                [run[r] EXCEPT !.at = "try", !.why = "manual", !.cands = s]]
              BY <4>3 DEF Honour
        <5>2. run'[r].cands = s /\ run[r].at = "ask" /\ switch[r] # None
              BY <2>2, <4>1, <4>3, <5>1 DEF RunRec, Honour
        <5>3. ASSUME switch[r].to = None PROVE Once(s, Pool \ {run[r].active})
          <6>1. s \in Ordered(Pool \ {run[r].active})  BY <5>1, <5>3 DEF Targets, Others
          <6> QED BY <1>1, <6>1, PoolType, OrderedOnce
        <5> QED BY <5>2, <5>3
      <4>4. CASE TryOpenFails(r) \/ TryRestoreFails(r)
        <5>1. run[r].at = "try"  BY <4>4 DEF TryOpenFails, TryRestoreFails, Trying
        <5>2. CASE run[r].why # "start"
          <6> DEFINE c == [run[r] EXCEPT !.cands = Tail(@), !.browser = None, !.session = None]
                     d == [run[r] EXCEPT !.browser = Candidate(r), !.session = Candidate(r)]
                     e == [d EXCEPT !.cands = Tail(@)]
          <6>1. c.at = "try" /\ c.cands = Tail(run[r].cands)  BY <4>1, <5>1 DEF RunRec
          <6>2. e.at = "try" /\ e.cands = Tail(run[r].cands)  BY <4>1, <5>1 DEF RunRec
          <6>3. run' = [run EXCEPT ![r] = c] \/ run' = [run EXCEPT ![r] = e]
                BY <4>4, <5>2 DEF TryOpenFails, TryRestoreFails
          <6> HIDE DEF c, d, e
          <6>4. run'[r] = c \/ run'[r] = e  BY <2>2, <6>3
          <6> QED BY <5>1, <6>1, <6>2, <6>4
        <5>3. CASE run[r].why = "start"
          <6>1. CASE TryOpenFails(r)
            <7> DEFINE c == [run[r] EXCEPT !.at = "close"]
            <7>1. c.at = "close"  BY <4>1 DEF RunRec
            <7>2. run' = [run EXCEPT ![r] = c]  BY <5>3, <6>1 DEF TryOpenFails
            <7> HIDE DEF c
            <7>3. run'[r] = c  BY <2>2, <7>2
            <7> QED BY <5>1, <5>3, <7>1, <7>3
          <6>2. CASE TryRestoreFails(r)
            <7> DEFINE d == [run[r] EXCEPT !.browser = Candidate(r), !.session = Candidate(r)]
            <7>1. PICK s \in Others(Candidate(r)) :
                    run' = [run EXCEPT ![r] = [d EXCEPT !.why = "fallback", !.cands = s]]
                  BY <5>3, <6>2 DEF TryRestoreFails
            <7>2. run'[r] = [d EXCEPT !.why = "fallback", !.cands = s]  BY <2>2, <7>1
            <7>3. run'[r].at = "try"  BY <4>1, <5>1, <7>2 DEF RunRec
            <7> QED BY <5>1, <5>3, <7>3
          <6> QED BY <4>4, <6>1, <6>2
        <5> QED BY <5>2, <5>3
      <4>5. CASE Nobody(r)
        <5>1. run[r].at = "try" /\ run[r].cands = <<>>  BY <4>5 DEF Nobody
        <5>2. run'[r].at \in {"close", "reopen"}
              BY <1>1, <2>2, <4>1, <4>5, <5>1, Self DEF Nobody, RunRec, Local
        <5> QED BY <5>1, <5>2
      <4>6. CASE Adopt(r)
        <5>1. run[r].at = "try" /\ run'[r].at \in {"count", "note"}
              BY <2>2, <4>1, <4>6 DEF Adopt, Trying, Moved, RunRec
        <5> QED BY <5>1
      <4>7. CASE \/ StayPut(r) \/ Alone(r) \/ BrowserGone(r) \/ Ignore(r)
                 \/ Count(r) \/ Rest(r) \/ Note(r) \/ Skip(r) \/ Reveal(r) \/ Recycle(r) \/ Finish(r)
                 \/ Cancel(r) \/ Close(r)
        <5>1. run[r].at # "try"
              BY <4>7 DEF StayPut, Alone, BrowserGone, Ignore, Count, Rest, Note, Skip, Reveal,
                 Recycle, Finish, Cancel, Close, Asked, Listing
        <5>2. CASE StayPut(r) \/ Alone(r) \/ BrowserGone(r) \/ Note(r) \/ Recycle(r)
          <6>1. \/ run'[r] = [run[r] EXCEPT !.at = "note", !.forced = FALSE]
                \/ run'[r] = [run[r] EXCEPT !.at = "note", !.forced = FALSE, !.since = 0]
                \/ run'[r] = [run[r] EXCEPT !.at = "listing", !.why = "rotate"]
                \/ run'[r] = [run[r] EXCEPT !.at = "reopen", !.browser = None, !.session = None]
                BY <2>2, <5>2 DEF StayPut, Alone, BrowserGone, Note, Recycle
          <6> QED BY <4>1, <5>1, <6>1 DEF RunRec
        <5>3. CASE Ignore(r) \/ Count(r) \/ Rest(r) \/ Finish(r) \/ Cancel(r) \/ Close(r)
          <6>1. \/ \E a \in {"note", "rest", "close"} : run' = [run EXCEPT ![r].at = a]
                \/ run' = [run EXCEPT ![r] = Done]
                BY <5>3 DEF Ignore, Count, Rest, Finish, Cancel, Close
          <6>2. Done.at = "done"  BY DEF Done, Off
          <6> HIDE DEF Done
          <6>3. run'[r].at # "try"  BY <2>2, <4>1, <6>1, <6>2 DEF RunRec
          <6> QED BY <5>1, <6>3
        <5>4. CASE Skip(r) \/ Reveal(r)
          <6>1. \/ run'[r] = [run[r] EXCEPT !.at = "ask", !.left = @ - 1]
                \/ run'[r] = [run[r] EXCEPT !.at = "answer", !.left = @ - 1, !.since = @ + 1]
                BY <2>2, <5>4 DEF Skip, Reveal
          <6> QED BY <4>1, <5>1, <6>1 DEF RunRec
        <5> QED BY <4>7, <5>2, <5>3, <5>4
      <4>8. CASE Reopen(r)
        <5>1. run[r].at = "reopen"  BY <4>8 DEF Reopen
        <5> QED BY <5>1
      <4>9. CASE Start(r)
        <5>1. run[r].at = "off"  BY <4>9 DEF Start
        <5> QED BY <5>1
      <4>10. CASE Answered(r) \/ Challenged(r) \/ Verified(r) \/ Walled(r)
        <5>1. run[r].at = "answer"  BY <4>10 DEF Answered, Challenged, Verified, Walled, Answers
        <5> QED BY <5>1
      <4> HIDE DEF P
      <4> QED BY <2>3, <4>2, <4>3, <4>4, <4>5, <4>6, <4>7, <4>8, <4>9, <4>10 DEF Rotation, Scraping
    <3> HIDE DEF P
    <3> QED BY <2>1, <3>1, <3>2
  <2>4. ASSUME UNCHANGED run PROVE TriesEachOnce  BY <2>4 DEF TriesEachOnce
  <2>5. ASSUME NEW r \in Runs, Rotation(r) \/ Scraping(r) PROVE TriesEachOnce  BY <2>3, <2>5 DEF TriesEachOnce
  <2>6. World \/ UNCHANGED vars => UNCHANGED run
        BY DEF World, RequestSwitch, SwitchOff, SwitchOn, Expire, Rested, vars
  <2> QED BY <1>1, <2>4, <2>5, <2>6 DEF Next
<1>2. Inv /\ [Next]_vars => [TriesEachOnce]_vars  BY <1>1
<1> QED BY <1>2, Always, PTL DEF Spec
=============================================================================
