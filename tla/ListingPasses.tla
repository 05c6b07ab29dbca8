--------------------------- MODULE ListingPasses ---------------------------
(***************************************************************************)
(* Reading listings with a model and judging them against the customers     *)
(* (app/ai/listing_reader.py, app/crm/match_engine.py).                     *)
(* No queue and no cursor decide what a pass takes: the row says what it    *)
(* was last read and judged on, by the fingerprint of the content, which    *)
(* every write of the content stamps anew (app/models/property.py).  A pass *)
(* loads its rows once and works on them for minutes, while the scraper,    *)
(* the panel and the other passes write them; and it writes the columns it  *)
(* changed, not the row.  A content and its fingerprint are one here.       *)
(***************************************************************************)
EXTENDS Naturals, FiniteSets

CONSTANTS
  Listings, Contents, None,
  Readers,      \* passes and rereads under way at once: the loop's, the panel's
  Matchers,     \* passes of the match engine: the loop's, the panel's
  MaxAttempts,  \* MAX_ATTEMPTS of the reader
  MaxDoings     \* bound: changes of content, and rereads

ASSUME NoneIsNothing == None \notin Contents /\ Contents # {}
ASSUME Bounds == MaxAttempts \in Nat \ {0} /\ MaxDoings \in Nat

VARIABLES
  content,    \* the listing's content, and ai_content_fp
  facts,      \* ai_facts and ai_read_at: the content they were read from
  readFp,     \* ai_read_fp
  attempts,   \* ai_read_attempts
  old,        \* listings past READ_WAIT_TIMEOUT
  willRead,   \* reader_will_run: configured, switched on, within budget, no breaker
  judged,     \* ai_matched_at and ai_match_fp: the content judged, or none
  reading,    \* the rows each reader has loaded and not yet asked about
  matching,   \* the rows each matcher has loaded and scores
  streak,     \* failed answers on one content in a row
  shared,     \* listings that two readers have had loaded at once
  doings

read == <<facts, readFp, attempts, streak>>
vars == <<content, read, old, willRead, judged, reading, matching, shared, doings>>

Row == [id : Listings, content : Contents, readFp : Contents \cup {None}, attempts : Nat]
Scored == [id : Listings, content : Contents]

TypeOK ==
  /\ content \in [Listings -> Contents]
  /\ facts \in [Listings -> Contents \cup {None}]
  /\ readFp \in [Listings -> Contents \cup {None}]
  /\ attempts \in [Listings -> Nat]
  /\ old \subseteq Listings /\ willRead \in BOOLEAN
  /\ judged \in [Listings -> Contents \cup {None}]
  /\ reading \in [Readers -> SUBSET Row]
  /\ matching \in [Matchers -> SUBSET Scored]
  /\ streak \in [Listings -> [on : Contents \cup {None}, n : Nat]]
  /\ shared \subseteq Listings /\ doings \in 0..MaxDoings
  /\ \A l \in Listings : facts[l] # None \/ attempts[l] > 0 => readFp[l] # None

Init ==
  /\ content = [l \in Listings |-> CHOOSE c \in Contents : TRUE]
  /\ facts = [l \in Listings |-> None]
  /\ readFp = [l \in Listings |-> None]
  /\ attempts = [l \in Listings |-> 0]
  /\ old = {} /\ willRead = TRUE
  /\ judged = [l \in Listings |-> None]
  /\ reading = [r \in Readers |-> {}]
  /\ matching = [m \in Matchers |-> {}]
  /\ streak = [l \in Listings |-> [on |-> None, n |-> 0]]
  /\ shared = {} /\ doings = 0

-----------------------------------------------------------------------------
\* The reader.

\* Mutant of Changed: a reread of the same listing is never due.
NeverRead(l) == readFp[l] = None

Changed(l) == readFp[l] # content[l]

Pending(l) == /\ facts[l] = None \/ Changed(l)
              /\ Changed(l) \/ attempts[l] < MaxAttempts

Loaded(l) == [id |-> l, content |-> content[l], readFp |-> readFp[l], attempts |-> attempts[l]]
Holds(r, l) == \E row \in reading[r] : row.id = l

Takes(r, S) ==
  /\ reading[r] = {} /\ S # {}
  /\ reading' = [reading EXCEPT ![r] = {Loaded(l) : l \in S}]
  /\ shared' = shared \cup {l \in S : \E q \in Readers : Holds(q, l)}
  /\ UNCHANGED <<content, read, old, willRead, judged, matching>>

Does == doings < MaxDoings /\ doings' = doings + 1

Select(r) == Takes(r, {l \in Listings : Pending(l)}) /\ UNCHANGED doings
Reread(r) == Does /\ \E l \in Listings : Takes(r, {l})

\* Mutant of Streak: the failures on an earlier content count on.
StreakGoesOn(row) == row.attempts

\* A content that moved on starts its count anew.
Streak(row) == IF row.readFp \notin {None, row.content} THEN 0 ELSE row.attempts

\* A column is written when it differs from what was loaded.
Writes(column, row, was, is) == IF is = was THEN column ELSE [column EXCEPT ![row.id] = is]

Seen(row) == Writes(readFp, row, row.readFp, row.content)

Asked(r, row) ==
  /\ row \in reading[r]
  /\ reading' = [reading EXCEPT ![r] = @ \ {row}]
  /\ readFp' = Seen(row)
  /\ UNCHANGED <<content, old, willRead, judged, matching, shared, doings>>

ReadOk(r, row) ==
  /\ Asked(r, row)
  /\ facts' = [facts EXCEPT ![row.id] = row.content]
  /\ attempts' = Writes(attempts, row, row.attempts, 0)
  /\ streak' = [streak EXCEPT ![row.id] = [on |-> row.content, n |-> 0]]

ReadFails(r, row) ==
  /\ Asked(r, row)
  /\ attempts' = Writes(attempts, row, row.attempts, Streak(row) + 1)
  /\ streak' = [streak EXCEPT ![row.id] =
                  [on |-> row.content, n |-> IF @.on = row.content THEN @.n + 1 ELSE 1]]
  /\ UNCHANGED facts

\* The gateway's own state ends a pass, and so does a failed commit; the count
\* that starts anew may still be written, with the cursor of the rows before.
Stop(r) ==
  /\ reading[r] # {} /\ reading' = [reading EXCEPT ![r] = {}]
  /\ \/ UNCHANGED attempts
     \/ \E row \in reading[r] : Streak(row) # row.attempts /\ attempts' = Writes(attempts, row, row.attempts, 0)
  /\ UNCHANGED <<content, facts, readFp, streak, old, willRead, judged, matching, shared, doings>>

-----------------------------------------------------------------------------
\* The match engine.

GaveUp(l) == attempts[l] >= MaxAttempts /\ readFp[l] = content[l]

\* Mutant of Ready: nothing overrides the wait for the reader.
ReadyOnceRead(l) == ~willRead \/ facts[l] # None

Ready(l) == ~willRead \/ facts[l] # None \/ GaveUp(l) \/ l \in old

Due(l) == Ready(l) /\ judged[l] # content[l]

\* Which customers fit a row is arithmetic on the row.
Score(m) ==
  LET due == {l \in Listings : Due(l)}
  IN /\ matching[m] = {} /\ due # {}
     /\ matching' = [matching EXCEPT ![m] = {[id |-> l, content |-> content[l]] : l \in due}]
     /\ UNCHANGED <<content, read, old, willRead, judged, reading, shared, doings>>

\* Mutant of Verdict: marked with the content there is now.
VerdictOnNow(row) == content[row.id]

Verdict(row) == row.content

MatchCommit(m) ==
  /\ matching[m] # {} /\ matching' = [matching EXCEPT ![m] = {}]
  /\ judged' = [l \in Listings |-> IF \E row \in matching[m] : row.id = l
                  THEN Verdict(CHOOSE row \in matching[m] : row.id = l) ELSE judged[l]]
  /\ UNCHANGED <<content, read, old, willRead, reading, shared, doings>>

\* One commit for the whole pass: a match that another pass has added meanwhile
\* breaks the unique key and undoes it all.
MatchFails(m) ==
  /\ matching[m] # {} /\ matching' = [matching EXCEPT ![m] = {}]
  /\ UNCHANGED <<content, read, old, willRead, judged, reading, shared, doings>>

-----------------------------------------------------------------------------
\* The scraper and the panel, the clock, the gateway.

Edit(l) ==
  /\ Does
  /\ \E c \in Contents \ {content[l]} : content' = [content EXCEPT ![l] = c]
  /\ UNCHANGED <<read, old, willRead, judged, reading, matching, shared>>

Age(l) ==
  /\ l \notin old /\ old' = old \cup {l}
  /\ UNCHANGED <<content, read, willRead, judged, reading, matching, shared, doings>>

Gate ==
  /\ willRead' = ~willRead
  /\ UNCHANGED <<content, read, old, judged, reading, matching, shared, doings>>

Reading(r) == \/ Select(r) \/ Reread(r) \/ Stop(r)
              \/ \E row \in reading[r] : ReadOk(r, row) \/ ReadFails(r, row)
Matching(m) == Score(m) \/ MatchCommit(m)

Next == \/ \E r \in Readers : Reading(r)
        \/ \E m \in Matchers : Matching(m) \/ MatchFails(m)
        \/ \E l \in Listings : Edit(l) \/ Age(l)
        \/ Gate

Spec == Init /\ [][Next]_vars

\* The loop's pass comes round every few minutes, and commits again and again.
Fairness == /\ \A l \in Listings : WF_vars(Age(l))
            /\ \E m \in Matchers : WF_vars(Score(m)) /\ SF_vars(MatchCommit(m))
FairSpec == Spec /\ Fairness
-----------------------------------------------------------------------------
\* A listing the passes leave alone, and whose last reading did not fail, has the
\* facts of the content it has, unless two readers had it at once (_pending, and
\* read_listing's four writes, listing_reader.py:363-367).
FactsAreCurrent == \A l \in Listings \ shared :
  ~Pending(l) /\ streak[l].n = 0 => facts[l] = content[l]

\* A listing is given up only after MAX_ATTEMPTS failures in a row on the content
\* it has, unless two readers had it at once (listing_reader.py:349-350).
GivesUpOnContent == \A l \in Listings \ shared :
  GaveUp(l) => streak[l].on = content[l] /\ streak[l].n >= MaxAttempts

\* A verdict is never newer than its listing: what the engine marks judged is the
\* content it scored, so an edit during the pass stays due (match_engine.py:131-132).
VerdictsAreKept == [][\A l \in Listings :
  judged'[l] \notin {judged[l], None} =>
    \E row \in UNION {matching[m] : m \in Matchers} : row = [id |-> l, content |-> judged'[l]]]_vars

\* Once a listing stays as it is, it is judged as it is, whatever the reader, the
\* gateway and the other passes do (_due, match_engine.py:55-80).
EveryChangeIsJudged == \A l \in Listings : <>[](judged[l] = content[l])
=============================================================================
