-------------------------- MODULE AccountRotation --------------------------
(***************************************************************************)
(* Which Divar number a run scrapes with (app/scraper/divar_scraper.py).    *)
(* The runs of one owner share the owner's saved numbers: a row per number  *)
(* with its session and the reveals spent on it.  A run opens the browser   *)
(* profile of one number, reveals, and between listings may move to the     *)
(* next: its budget is spent, Divar challenged it, or a person asked.       *)
(* A step is what a run does between two points where another run or a      *)
(* person matters: an opening, a charge, the count and the reset of a round.*)
(* Profiles are locked as ProfileGuard promises: one browser per number.    *)
(***************************************************************************)
EXTENDS Naturals, FiniteSets, Sequences, SequencesExt

CONSTANTS
  Runs, Numbers, None,
  Every,        \* cookie_rotate_every of a run, 0 = no threshold
  Pinnable,     \* runs that may be launched with an explicit rotate_every = 0
  RestAfter,    \* rest_after_reveals
  BackOff,      \* the 5 of `max(every - 5, 0)`
  Listings,     \* bound: listings per run
  MaxFailures,  \* bound: openings and sessions that fail
  MaxDoings,    \* bound: recycles and doings of people
  Events        \* which kinds there are

ASSUME Thresholds == /\ Every \in [Runs -> Nat] /\ Pinnable \subseteq Runs
                     /\ RestAfter \in Nat /\ BackOff \in Nat
ASSUME Limits == Listings \in [Runs -> Nat] /\ MaxFailures \in Nat /\ MaxDoings \in Nat
ASSUME NoneIsNoNumber == None \notin Numbers
ASSUME FiniteNumbers == IsFiniteSet(Numbers)
ASSUME EventKinds == Events \subseteq
  {"open", "restore", "recycle", "wish", "off", "on", "expire", "rested"}

VARIABLES
  reveals,      \* Cookie.reveals of each number
  challenged,   \* numbers with challenged_at within rest_hours
  valid,        \* Cookie.is_valid
  enabled,      \* Cookie.is_enabled, and no identity_required_at
  jar,          \* whose session the number's row holds
  run,          \* each run: see Off
  divar_phone,  \* the number on the job's row
  switch,       \* the pending request of a person, in Redis
  turned,       \* runs during whose rotation the round turned, or the pool grew
  failures, doings

rows == <<reveals, challenged, valid, enabled, jar>>
vars == <<rows, run, divar_phone, switch, turned, failures, doings>>

EveryOf(r) == IF run[r].pinned THEN 0 ELSE Every[r]

MaxOf(a, b) == IF a < b THEN b ELSE a
Requests == [to : Numbers \cup {None}, from : Numbers \cup {None}]

Off == [at |-> "off", active |-> None, browser |-> None, session |-> None,
        since |-> 0, forced |-> FALSE, cands |-> <<>>, why |-> "start", pinned |-> FALSE,
        left |-> 0]
Done == [Off EXCEPT !.at = "done"]

TypeOK ==
  /\ reveals \in [Numbers -> Nat]
  /\ challenged \subseteq Numbers /\ valid \subseteq Numbers
  /\ enabled \subseteq Numbers
  /\ jar \in [Numbers -> Numbers]
  /\ run \in [Runs ->
       [at : {"off", "try", "listing", "answer", "ask", "count", "rest",
              "reopen", "note", "close", "done"},
        active : Numbers \cup {None}, browser : Numbers \cup {None},
        session : Numbers \cup {None}, since : Nat, forced : BOOLEAN,
        cands : Seq(Numbers),
        why : {"start", "fallback", "rotate", "manual"},
        pinned : BOOLEAN, left : Nat]]
  /\ divar_phone \in [Runs -> Numbers \cup {None}]
  /\ switch \in [Runs -> Requests \cup {None}]
  /\ turned \subseteq Runs
  /\ failures \in 0..MaxFailures /\ doings \in 0..MaxDoings
  \* one browser per profile: the lock's promise, which the openings keep
  /\ \A r, q \in Runs : run[r].browser = run[q].browser => r = q \/ run[r].browser = None

Init ==
  /\ reveals = [n \in Numbers |-> 0] /\ challenged = {}
  /\ valid = Numbers /\ enabled = Numbers
  /\ jar = [n \in Numbers |-> n]
  /\ run = [r \in Runs |-> Off]
  /\ divar_phone = [r \in Runs |-> None]
  /\ switch = [r \in Runs |-> None]
  /\ turned = {} /\ failures = 0 /\ doings = 0

Fails(kind) == /\ kind \in Events /\ failures < MaxFailures
               /\ failures' = failures + 1 /\ UNCHANGED doings
Does(kind)  == /\ kind \in Events /\ doings < MaxDoings
               /\ doings' = doings + 1 /\ UNCHANGED failures
Quiet == UNCHANGED <<failures, doings>>

-----------------------------------------------------------------------------
\* The pool.

Usable == valid \cap enabled

\* Heavy numbers Divar challenged lately rest, unless nothing else is left.
Resting == {n \in Usable : n \in challenged /\ RestAfter > 0 /\ reveals[n] >= RestAfter}
Pool == IF Usable \ Resting = {} THEN Usable ELSE Usable \ Resting

\* Least spent first; last_used_at breaks ties, in any order here.
Ordered(S) == {s \in SetToSeqs(S) :
                 \A i, j \in DOMAIN s : i < j => reveals[s[i]] <= reveals[s[j]]}
Others(n) == Ordered(Pool \ {n})

\* From the place after the current number, round to the place before it.
After(s, n) ==
  IF n \in ToSet(s)
  THEN LET k == CHOOSE i \in DOMAIN s : s[i] = n
       IN SubSeq(s, k + 1, Len(s)) \o SubSeq(s, 1, k - 1)
  ELSE s

\* The live browser's jar goes under the active number's row, which makes it
\* valid: a number may come back to the pool while another run rotates.
Persist(c) ==
  IF c.browser = None THEN UNCHANGED <<jar, valid>>
  ELSE jar' = [jar EXCEPT ![c.active] = c.session] /\ valid' = valid \cup {c.active}

Turns(r, S)  == turned' = (turned \ {r}) \cup (S \ {r})
Persists(r, c) == Persist(c) /\ Turns(r, {q \in Runs : q \in turned \/ valid' # valid})

-----------------------------------------------------------------------------
\* Opening a number's browser.

Taken(r, n) == \E q \in Runs \ {r} : run[q].browser = n

Opens(r, n)      == ~Taken(r, n) /\ Quiet
OpenFails(r, n)  == (Taken(r, n) /\ Quiet) \/ (~Taken(r, n) /\ Fails("open"))
OpensOnly(r, n)  == ~Taken(r, n) /\ Fails("restore")

\* With the number named for the run, or the least spent of the pool.
Start(r) ==
  /\ run[r].at = "off"
  /\ \E n \in Usable, pin \in BOOLEAN :
       /\ pin => r \in Pinnable
       /\ run' = [run EXCEPT
            ![r] = [@ EXCEPT !.at = "try", !.cands = <<n>>, !.pinned = pin, !.left = Listings[r]]]
  /\ Quiet /\ UNCHANGED <<rows, divar_phone, switch, turned>>

Trying(r) == run[r].at = "try" /\ run[r].cands # <<>>
Candidate(r) == Head(run[r].cands)

\* The profile of the number before is closed first.  The browser is nobody's.
TryOpenFails(r) ==
  /\ Trying(r) /\ OpenFails(r, Candidate(r))
  /\ run' = [run EXCEPT ![r] =
       IF @.why = "start" THEN [@ EXCEPT !.at = "close"]
       ELSE [run[r] EXCEPT !.cands = Tail(@), !.browser = None, !.session = None]]
  /\ UNCHANGED <<rows, divar_phone, switch, turned>>

\* The candidate's browser stays open.  A run that starts loads its pool now.
TryRestoreFails(r) ==
  LET n == Candidate(r)
      here == [run[r] EXCEPT !.browser = n, !.session = n]
  IN /\ Trying(r) /\ OpensOnly(r, n)
     /\ IF run[r].why = "start"
        THEN \E s \in Others(n) : run' = [run EXCEPT
               ![r] = [here EXCEPT !.why = "fallback", !.cands = s]]
        ELSE run' = [run EXCEPT ![r] = [here EXCEPT !.cands = Tail(@)]]
     /\ UNCHANGED <<rows, divar_phone, switch, turned>>

\* Mutant of Moved: the run's idea of its number stays behind.
MovedInPart(r, n) == [run[r] EXCEPT !.browser = n, !.session = jar[n],
                                    !.active = IF @ = None THEN n ELSE @]

Moved(r, n) == [run[r] EXCEPT !.browser = n, !.session = jar[n], !.active = n]

\* The session answers: the run is on n from here, and saves n's fresh jar.
Adopt(r) ==
  LET n == Candidate(r) IN
  /\ Trying(r) /\ Opens(r, n)
  /\ run' = [run EXCEPT ![r] = [Moved(r, n) EXCEPT
       !.since = 0, !.forced = FALSE, !.cands = <<>>,
       !.at = IF run[r].why = "rotate" /\ EveryOf(r) > 0 THEN "count" ELSE "note"]]
  /\ Persists(r, Moved(r, n))
  /\ UNCHANGED <<reveals, challenged, enabled, divar_phone, switch>>

Fallen(r) == IF EveryOf(r) > BackOff THEN EveryOf(r) - BackOff ELSE 0

\* Nobody could be restored: back to the run's own profile, or the run never starts.
Nobody(r) ==
  /\ run[r].at = "try" /\ run[r].cands = <<>>
  /\ run' = [run EXCEPT ![r] =
       CASE @.why = "fallback" -> [@ EXCEPT !.at = "close"]
         [] @.why = "manual" -> [@ EXCEPT !.at = "reopen"]
         [] @.why = "rotate" -> [@ EXCEPT !.at = "reopen", !.since = Fallen(r), !.forced = FALSE]]
  /\ Quiet /\ UNCHANGED <<rows, divar_phone, switch, turned>>

\* Mutant of Reopened: the browser is left where the last attempt put it.
NotReopened(r, b, s) == [run[r] EXCEPT !.at = "note"]

Reopened(r, b, s) == [run[r] EXCEPT !.at = "note", !.browser = b, !.session = s]

Reopen(r) ==
  LET n == run[r].active IN
  /\ run[r].at = "reopen"
  /\ \/ Opens(r, n)     /\ run' = [run EXCEPT ![r] = Reopened(r, n, jar[n])]
     \/ OpensOnly(r, n) /\ run' = [run EXCEPT ![r] = Reopened(r, n, n)]
     \/ OpenFails(r, n) /\ run' = [run EXCEPT ![r] = Reopened(r, None, None)]
  /\ UNCHANGED <<rows, divar_phone, switch, turned>>

-----------------------------------------------------------------------------
\* A listing.

Listing(r) == run[r].at = "listing" /\ run[r].left > 0

\* A filter drops it, or there is no browser to read it with.
Skip(r) ==
  /\ Listing(r)
  /\ run' = [run EXCEPT ![r] = [run[r] EXCEPT !.at = "ask", !.left = @ - 1]]
  /\ Quiet /\ UNCHANGED <<rows, divar_phone, switch, turned>>

Reveal(r) ==
  /\ Listing(r) /\ run[r].browser # None
  /\ run' = [run EXCEPT ![r] = [run[r] EXCEPT !.at = "answer", !.left = @ - 1, !.since = @ + 1]]
  /\ reveals' = [reveals EXCEPT ![run[r].active] = @ + 1]
  /\ Quiet /\ UNCHANGED <<challenged, valid, enabled, jar, divar_phone, switch, turned>>

Answers(r, forced) ==
  /\ run[r].at = "answer"
  /\ run' = [run EXCEPT ![r] = [run[r] EXCEPT !.at = "ask", !.forced = @ \/ forced]]
  /\ Quiet /\ UNCHANGED <<reveals, challenged, divar_phone, switch>>

Answered(r)   == Answers(r, FALSE) /\ UNCHANGED <<valid, enabled, jar, turned>>
Challenged(r) == Answers(r, TRUE) /\ UNCHANGED <<valid, enabled, jar, turned>>
Verified(r)   == Answers(r, TRUE) /\ Persists(r, run[r]) /\ UNCHANGED enabled
Walled(r)     == /\ Answers(r, TRUE) /\ enabled' = enabled \ {run[r].active}
                 /\ UNCHANGED <<valid, jar, turned>>

\* _note_account and the commit after it.
Note(r) ==
  /\ run[r].at = "note"
  /\ run' = [run EXCEPT ![r] = [@ EXCEPT !.at = "listing", !.why = "rotate"]]
  /\ divar_phone' = [divar_phone EXCEPT ![r] = run[r].active]
  /\ Quiet /\ UNCHANGED <<rows, switch, turned>>

Recycle(r) ==
  /\ Listing(r) /\ Does("recycle")
  /\ Persists(r, run[r])
  /\ run' = [run EXCEPT ![r] = [@ EXCEPT !.at = "reopen", !.browser = None, !.session = None]]
  /\ UNCHANGED <<reveals, challenged, enabled, divar_phone, switch>>

Finish(r) ==
  /\ run[r].at = "listing" /\ run[r].left = 0
  /\ Persists(r, run[r])
  /\ run' = [run EXCEPT ![r].at = "close"]
  /\ Quiet /\ UNCHANGED <<reveals, challenged, enabled, divar_phone, switch>>

Cancel(r) ==
  /\ run[r].at = "listing"
  /\ run' = [run EXCEPT ![r].at = "close"]
  /\ Quiet /\ UNCHANGED <<rows, divar_phone, switch, turned>>

\* The browser goes, and a request nobody got to; the row is no live run's.
Close(r) ==
  /\ run[r].at = "close"
  /\ run' = [run EXCEPT ![r] = Done]
  /\ divar_phone' = [divar_phone EXCEPT ![r] = None]
  /\ switch' = [switch EXCEPT ![r] = None]
  /\ turned' = turned \ {r}
  /\ Quiet /\ UNCHANGED rows

-----------------------------------------------------------------------------
\* maybe_rotate_account, after every listing.

Budget(r) == MaxOf(reveals[run[r].active], run[r].since)

Stays(r) == run[r].pinned \/ (~run[r].forced /\ (EveryOf(r) = 0 \/ Budget(r) < EveryOf(r)))

Asked(r) == run[r].at = "ask" /\ switch[r] = None

StayPut(r) ==
  /\ Asked(r) /\ Stays(r)
  /\ run' = [run EXCEPT ![r] = [@ EXCEPT !.at = "note", !.forced = FALSE]]
  /\ Quiet /\ UNCHANGED <<rows, divar_phone, switch, turned>>

Alone(r) ==
  /\ Asked(r) /\ ~Stays(r) /\ Cardinality(Pool) < 2
  /\ run' = [run EXCEPT ![r] = [@ EXCEPT !.at = "note", !.forced = FALSE, !.since = 0]]
  /\ Quiet /\ UNCHANGED <<rows, divar_phone, switch, turned>>

\* Mutant of Bank: a challenge is not banked.
BankNothing(r) == UNCHANGED <<reveals, challenged>>

\* A challenged number counts as spent, whatever its counter says.
Bank(r) ==
  IF run[r].forced /\ EveryOf(r) > 0
  THEN /\ reveals' = [reveals EXCEPT ![run[r].active] = MaxOf(@, EveryOf(r))]
       /\ challenged' = challenged \cup {run[r].active}
  ELSE UNCHANGED <<reveals, challenged>>

\* What a run does before it leaves its number.
Leaves(r) ==
  /\ Persists(r, run[r])
  /\ Bank(r)
  /\ Quiet /\ UNCHANGED <<enabled, divar_phone>>

BrowserGone(r) ==
  /\ Asked(r) /\ ~Stays(r) /\ Cardinality(Pool) >= 2 /\ run[r].browser = None
  /\ Leaves(r)
  /\ run' = [run EXCEPT ![r] = [@ EXCEPT !.at = "note", !.forced = FALSE]]
  /\ UNCHANGED switch

Rotate(r) ==
  /\ Asked(r) /\ ~Stays(r) /\ Cardinality(Pool) >= 2 /\ run[r].browser # None
  /\ Leaves(r)
  /\ \E s \in Ordered(Pool) : run' = [run EXCEPT ![r] =
       [@ EXCEPT !.at = "try", !.why = "rotate", !.cands = After(s, run[r].active)]]
  /\ UNCHANGED switch

\* Mutant of Spent: inferred from the number the run has moved to.
SpentInferred(r) == reveals[run[r].active] >= EveryOf(r)

Spent(r) == \A n \in Usable : reveals[n] >= EveryOf(r)

Count(r) ==
  /\ run[r].at = "count"
  /\ run' = [run EXCEPT ![r].at = IF Spent(r) THEN "rest" ELSE "note"]
  /\ turned' = turned \ {r}
  /\ Quiet /\ UNCHANGED <<rows, divar_phone, switch>>

\* A new round: every usable number starts at zero.
Rest(r) ==
  /\ run[r].at = "rest"
  /\ reveals' = [n \in Numbers |-> IF n \in Usable THEN 0 ELSE reveals[n]]
  /\ run' = [run EXCEPT ![r].at = "note"]
  /\ Turns(r, Runs)
  /\ Quiet /\ UNCHANGED <<challenged, valid, enabled, jar, divar_phone, switch>>

-----------------------------------------------------------------------------
\* A request of a person, taken once (_switch_on_request).

Targets(r) == IF switch[r].to = None
              THEN Others(run[r].active)
              ELSE {<<n>> : n \in {switch[r].to} \cap (Usable \ {run[r].active})}

\* «Move off X» from a run no longer on X, and a target that will not do.
Pointless(r) == \/ switch[r].from \notin {None, run[r].active}
                \/ Targets(r) \subseteq {<<>>}

Ignore(r) ==
  /\ run[r].at = "ask" /\ switch[r] # None /\ Pointless(r)
  /\ switch' = [switch EXCEPT ![r] = None]
  /\ run' = [run EXCEPT ![r].at = "note"]
  /\ Quiet /\ UNCHANGED <<rows, divar_phone, turned>>

Honour(r) ==
  /\ run[r].at = "ask" /\ switch[r] # None /\ ~Pointless(r)
  /\ \E s \in Targets(r) : run' = [run EXCEPT
       ![r] = [@ EXCEPT !.at = "try", !.why = "manual", !.cands = s]]
  /\ switch' = [switch EXCEPT ![r] = None]
  /\ Leaves(r)

-----------------------------------------------------------------------------
\* The people, the verifier and the clock.

Live == {r \in Runs : run[r].at \notin {"off", "close", "done"}}

RequestSwitch(r, n) ==
  /\ r \in Live /\ Does("wish")
  /\ n # None => /\ n \in Usable \ {divar_phone[r]}
                 /\ \A q \in Live \ {r} : divar_phone[q] # n
  /\ n = None => Usable \ {divar_phone[r]} # {}
  /\ switch' = [switch EXCEPT ![r] = [to |-> n, from |-> None]]
  /\ UNCHANGED <<rows, run, divar_phone, turned>>

\* The runs whose row names the number are asked to move.
SwitchOff(n) ==
  /\ n \in enabled /\ Does("off")
  /\ enabled' = enabled \ {n}
  /\ switch' = [r \in Runs |-> IF r \in Live /\ divar_phone[r] = n
                               THEN [to |-> None, from |-> n] ELSE switch[r]]
  /\ UNCHANGED <<reveals, challenged, valid, jar, run, divar_phone, turned>>

\* Switched on again, or its owner proved who it is.
SwitchOn(n) ==
  /\ n \notin enabled /\ Does("on")
  /\ enabled' = enabled \cup {n} /\ turned' = Runs
  /\ UNCHANGED <<reveals, challenged, valid, jar, run, divar_phone, switch>>

Expire(n) ==
  /\ n \in valid /\ Does("expire")
  /\ valid' = valid \ {n}
  /\ UNCHANGED <<reveals, challenged, enabled, jar, run, divar_phone, switch, turned>>

Rested(n) ==
  /\ n \in challenged /\ Does("rested")
  /\ challenged' = challenged \ {n}
  /\ UNCHANGED <<reveals, valid, enabled, jar, run, divar_phone, switch, turned>>

\* From the end of a listing to the next.
Rotation(r) ==
  \/ StayPut(r) \/ Alone(r) \/ BrowserGone(r) \/ Rotate(r) \/ Ignore(r) \/ Honour(r)
  \/ TryOpenFails(r) \/ TryRestoreFails(r) \/ Adopt(r) \/ Nobody(r)
  \/ Reopen(r) \/ Count(r) \/ Rest(r) \/ Note(r)

Scraping(r) ==
  \/ Start(r) \/ Skip(r) \/ Reveal(r) \/ Answered(r) \/ Challenged(r) \/ Verified(r)
  \/ Walled(r) \/ Recycle(r) \/ Finish(r) \/ Cancel(r) \/ Close(r)

World == \/ \E r \in Runs, n \in Numbers \cup {None} : RequestSwitch(r, n)
         \/ \E n \in Numbers : SwitchOff(n) \/ SwitchOn(n) \/ Expire(n) \/ Rested(n)

Next == (\E r \in Runs : Rotation(r) \/ Scraping(r)) \/ World

Spec == Init /\ [][Next]_vars
-----------------------------------------------------------------------------
\* A number's row only ever holds that number's own session, through failed
\* rotations, recycles and moves back: no jar is saved under another number
\* (_persist_active_session, _return_to_active_browser).
RightJar == \A n \in Numbers : jar[n] = n

\* A reveal is charged to the number whose browser and session made it
\* (_charge_reveal bills active_phone, divar_scraper.py:3074-3103).
BilledRight == \A r \in Runs : run[r].at = "answer" =>
                 run[r].active = run[r].browser /\ run[r].active = run[r].session

\* A new round begins only with every usable number spent, unless between this
\* run's count and its reset another run began one or a number came back
\* (divar_scraper.py:3624-3642).
RoundsEndSpent == \A r \in Runs :
  run[r].at = "rest" /\ r \notin turned =>
    \A n \in Usable : reveals[n] >= EveryOf(r)

\* A run that moves on after a challenge leaves its number spent, or «least
\* spent first» would hand it straight back; only another run's new round in
\* the middle of the move takes that away (divar_scraper.py:3510-3513).
ChallengedIsSpent == [][\A r \in Runs :
  /\ run[r].forced /\ EveryOf(r) > 0 /\ run[r].active # None
  /\ run'[r].active # run[r].active /\ run'[r].active # None
  => reveals[run[r].active] >= EveryOf(r) \/ r \in turned]_vars
=============================================================================
