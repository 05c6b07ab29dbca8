------------------------------ MODULE OtpStore ------------------------------
(***************************************************************************)
(* The one-time codes of app/scraper/otp_store.py: the extractor that      *)
(* opens a prompt and waits on it (contact_extractor.py), the phone's      *)
(* posts (otp_inbound), the panel's submit, resend, dismiss and switch.    *)
(*                                                                         *)
(* A member of Keys is the prompt key of one listing in one job,           *)
(* «{job_id}:{divar_id}».  A visit to the listing meets up to three        *)
(* challenges under its key, and the listing may be visited again, so what *)
(* was begun in an earlier round may land in a later one.  A Redis round   *)
(* trip is a step of its own wherever what another process does before it  *)
(* makes a difference.                                                     *)
(***************************************************************************)
EXTENDS Naturals, FiniteSets, Sequences

CONSTANTS
    Keys,        \* prompt keys
    Jobs, JobOf, \* job_of(key)
    Accounts, AccountOf, \* the Divar number a prompt is on
    Sms,         \* the messages Divar sends
    Posts,       \* requests that submit a code: the phone's and the panel's
    People,      \* the panel's among them
    Askers,      \* «ارسال دوباره» requests in flight
    Typed,       \* a code a person typed, no SMS behind it
    None,        \* no code, no post, no key
    MaxResends,  \* MAX_RESENDS (3 in the code)
    Patience,    \* slices of the wait
    Budget,      \* account_count: unanswered prompts before suppression
    Reasons      \* bound: what people do: "closed", "dismissed", "switch", "stopped"

ASSUME MapsAssumption == JobOf \in [Keys -> Jobs] /\ AccountOf \in [Keys -> Accounts]
ASSUME NamesAssumption ==
    /\ Typed \notin Sms /\ Typed # None
    /\ None \notin Sms \cup Posts \cup Keys \cup Accounts
    /\ People \subseteq Posts /\ IsFiniteSet(Keys) /\ IsFiniteSet(Askers)
ASSUME NumbersAssumption ==
    /\ MaxResends \in Nat /\ Patience \in Nat /\ Budget \in Nat \ {0}
    /\ Reasons \subseteq {"closed", "dismissed", "switch", "stopped"}

VARIABLES
    prompt,    \* prompt:{key}
    signal,    \* length of signal:{key}
    index,     \* the index set
    held,      \* early:{account}: the post whose code is parked
    used,      \* SMS with a used:{sms} mark
    stage,     \* the extractor's place in a challenge
    hand,      \* the post whose parked code an extractor has taken
    waited,    \* slices spent in the wait
    before,    \* the phone's posts that had arrived when the contact button was clicked
    leave,     \* cancel:{job}, switch:{job}, and the row being cancelled
    dropping,  \* jobs with a dismissal between its deletes and its SETEX
    strikes,   \* strikes:{job}
    post,      \* each submitting request
    ask,       \* the prompt a resend request read, before it writes
    sent,      \* the SMS Divar has sent
    answered   \* history: what each SMS was written to, one entry a write

vars == <<prompt, signal, index, held, used, stage, hand, waited, before,
          leave, dropping, strikes, post, ask, sent, answered>>
store  == <<prompt, signal, index>>
copies == <<held, used>>
waiter == <<stage, hand, waited, before>>
asks   == <<leave, dropping, strikes>>
poster == <<post, ask, sent>>

Codes == Sms \cup {Typed}

\* A prompt's ts is the set of SMS that were sent before it.
NoPrompt == [up |-> FALSE, ts |-> {},
             code |-> None, resend |-> FALSE, resends |-> 0]
NoPost == [pc |-> "none", sms |-> None, acct |-> None, key |-> None]
\* The listing is not open; "over" is the end of a challenge on an open one.
Past(k) == stage[k] = "none"
Fresh == [NoPrompt EXCEPT !.up = TRUE, !.ts = sent]

\* The challenge is over, answered or not; the listing is still open.
Ends(k) ==
    /\ stage' = [stage EXCEPT ![k] = "over"]
    /\ waited' = [waited EXCEPT ![k] = 0]
    /\ UNCHANGED before

\* get_pending, find_pending_for_account: listed, there, not answered.
Pending(k) == k \in index /\ prompt[k].up /\ prompt[k].code = None
Ours(j) == {k \in Keys : JobOf[k] = j}

\* clear and the loops of clear_job and cancel_all over the index.
Without(ks) == /\ prompt' = [k \in Keys |-> IF k \in ks THEN NoPrompt ELSE prompt[k]]
               /\ signal' = [k \in Keys |-> IF k \in ks THEN 0 ELSE signal[k]]
               /\ index' = index \ ks

\* _purge: every parked copy of the SMS.
Purged(s) == [a \in Accounts |-> IF held[a] # None /\ post[held[a]].sms = s
                                 THEN None ELSE held[a]]

Init ==
    /\ prompt = [k \in Keys |-> NoPrompt] /\ signal = [k \in Keys |-> 0] /\ index = {}
    /\ held = [a \in Accounts |-> None] /\ used = {}
    /\ stage = [k \in Keys |-> "none"] /\ hand = [k \in Keys |-> None]
    /\ waited = [k \in Keys |-> 0]
    /\ before = [k \in Keys |-> {}]
    /\ leave = [j \in Jobs |-> {}] /\ dropping = {} /\ strikes = [j \in Jobs |-> 0]
    /\ post = [p \in Posts |-> NoPost] /\ ask = [x \in Askers |-> None]
    /\ sent = {} /\ answered = [s \in Sms |-> <<>>]

-----------------------------------------------------------------------------
(* The extractor: click, open a prompt, claim a parked code.               *)

\* note_click(opens=True), the click and the first challenge.  A job has one
\* listing open, and the profile lock keeps a number with one job.
Click(k) ==
    /\ stage[k] = "none"
    /\ \A o \in Keys \ {k} :
          JobOf[o] = JobOf[k] \/ AccountOf[o] = AccountOf[k] => Past(o)
    /\ stage' = [stage EXCEPT ![k] = "clicked"]
    /\ before' = [before EXCEPT ![k] = {p \in Posts \ People : post[p].pc # "none"}]
    /\ UNCHANGED <<store, copies, hand, waited, asks, poster, answered>>

\* No number yet and the captcha still there: the next attempt meets the code
\* prompt again, under the same key and the same click.  How many (three) is
\* left open.
Again(k) ==
    /\ stage[k] = "over"
    /\ stage' = [stage EXCEPT ![k] = "clicked"]
    /\ UNCHANGED <<store, copies, hand, waited, before, asks, poster, answered>>

\* The number, a wall, no captcha or no attempt left: the listing is closed.
Close(k) ==
    /\ stage[k] = "over"
    /\ stage' = [stage EXCEPT ![k] = "none"]
    /\ before' = [before EXCEPT ![k] = {}]
    /\ UNCHANGED <<store, copies, hand, waited, asks, poster, answered>>

Visit(k) == Click(k) \/ Again(k) \/ Close(k)

\* is_cancelled and has_switch, before anything is asked.
Flagged(k) == leave[JobOf[k]] \cap {"dismissed", "switch"} # {}

Check(k) ==
    /\ stage[k] = "clicked" /\ ~Flagged(k)
    /\ stage' = [stage EXCEPT ![k] = "asking"]
    /\ UNCHANGED <<store, copies, hand, waited, before, asks, poster, answered>>

Skip(k) ==
    /\ stage[k] = "clicked" /\ Flagged(k)
    /\ Ends(k)
    /\ UNCHANGED <<store, copies, hand, asks, poster, answered>>

\* Mutant of Open: the DEL is of the signal alone, the fields go over the hash
\* an earlier round left.
OpenOver(k) ==
    /\ stage[k] = "asking"
    /\ prompt' = [prompt EXCEPT ![k] = [Fresh EXCEPT !.code = prompt[k].code]]
    /\ signal' = [signal EXCEPT ![k] = 0] /\ index' = index \cup {k}
    /\ stage' = [stage EXCEPT ![k] = "opened"]
    /\ UNCHANGED <<copies, hand, waited, before, asks, poster, answered>>

\* request() up to the SADD, on a key that may have been asked for before: the
\* DEL clears what earlier rounds left.  A job flagged after the check above
\* still asks.
Open(k) ==
    /\ stage[k] = "asking"
    /\ prompt' = [prompt EXCEPT ![k] = Fresh] /\ signal' = [signal EXCEPT ![k] = 0]
    /\ index' = index \cup {k}
    /\ stage' = [stage EXCEPT ![k] = "opened"]
    /\ UNCHANGED <<copies, hand, waited, before, asks, poster, answered>>

Parked(k) == held[AccountOf[k]]

\* Mutant of Usable: _use is not asked.
UsableTwice(k) == Parked(k) # None /\ Parked(k) \notin before[k]

\* _asked_after, and _use: the code came after the click and is unused.
Usable(k) == /\ Parked(k) # None /\ Parked(k) \notin before[k]
             /\ post[Parked(k)].sms \notin used

\* _claim_early finds nothing it may use: GETDEL removes it all the same.
ClaimNothing(k) ==
    /\ stage[k] = "opened" /\ ~Usable(k)
    /\ held' = [held EXCEPT ![AccountOf[k]] = None]
    /\ stage' = [stage EXCEPT ![k] = "waiting"]
    /\ UNCHANGED <<store, used, hand, waited, before, asks, poster, answered>>

\* GETDEL, the SET NX of used:{sms}, and the purge of its other copies.
Claim(k) ==
    /\ stage[k] = "opened" /\ Usable(k)
    /\ used' = used \cup {post[Parked(k)].sms}
    /\ held' = [Purged(post[Parked(k)].sms) EXCEPT ![AccountOf[k]] = None]
    /\ hand' = [hand EXCEPT ![k] = Parked(k)]
    /\ stage' = [stage EXCEPT ![k] = "claiming"]
    /\ UNCHANGED <<store, waited, before, asks, poster, answered>>

\* The HSET of the claimed code: not watched, it revives a deleted prompt.
ClaimWrite(k) ==
    /\ stage[k] = "claiming"
    /\ prompt' = [prompt EXCEPT ![k].up = TRUE, ![k].code = post[hand[k]].sms]
    /\ answered' = [answered EXCEPT ![post[hand[k]].sms] = Append(@, k)]
    /\ hand' = [hand EXCEPT ![k] = None]
    /\ stage' = [stage EXCEPT ![k] = "signalling"]
    /\ UNCHANGED <<signal, index, copies, waited, before, asks, poster>>

ClaimSignal(k) ==
    /\ stage[k] = "signalling"
    /\ signal' = [signal EXCEPT ![k] = @ + 1]
    /\ stage' = [stage EXCEPT ![k] = "waiting"]
    /\ UNCHANGED <<prompt, index, copies, hand, waited, before, asks, poster, answered>>

-----------------------------------------------------------------------------
(* The wait loop: "waiting" at its head, "blocked" inside wait_code.        *)

\* Nobody dismissed, switched or cancelled: one more slice.
Top(k) ==
    /\ stage[k] = "waiting" /\ waited[k] < Patience /\ leave[JobOf[k]] = {}
    /\ stage' = [stage EXCEPT ![k] = "blocked"]
    /\ UNCHANGED <<store, copies, hand, waited, before, asks, poster, answered>>

Slice(k) ==
    /\ stage[k] = "blocked" /\ signal[k] = 0
    /\ waited' = [waited EXCEPT ![k] = @ + 1]
    /\ stage' = [stage EXCEPT ![k] = "waiting"]
    /\ UNCHANGED <<store, copies, hand, before, asks, poster, answered>>

Wake(k) ==
    /\ stage[k] = "blocked" /\ signal[k] > 0
    /\ signal' = [signal EXCEPT ![k] = @ - 1]
    /\ stage' = [stage EXCEPT ![k] = "popping"]
    /\ UNCHANGED <<prompt, index, copies, hand, waited, before, asks, poster, answered>>

\* pop_code.
Pop(k) ==
    /\ stage[k] = "popping"
    /\ prompt' = [prompt EXCEPT ![k] = NoPrompt] /\ index' = index \ {k}
    /\ Ends(k)
    /\ UNCHANGED <<signal, copies, hand, asks, poster, answered>>

\* Mutant of Count: the resend is not counted.
CountNothing(k) == [prompt[k] EXCEPT !.up = TRUE, !.resend = FALSE]

\* take_resend's HSET and HINCRBY: on a deleted prompt they make a new hash.
Count(k) == [prompt[k] EXCEPT !.up = TRUE, !.resend = FALSE, !.resends = @ + 1]

TakeResend(k) ==
    /\ stage[k] = "waiting" /\ prompt[k].resend /\ waited[k] < Patience
    /\ stage' = [stage EXCEPT ![k] = "resending"]
    /\ UNCHANGED <<store, copies, hand, waited, before, asks, poster, answered>>

CountResend(k) ==
    /\ stage[k] = "resending"
    /\ prompt' = [prompt EXCEPT ![k] = Count(k)]
    /\ stage' = [stage EXCEPT ![k] = "clicking"]
    /\ UNCHANGED <<signal, index, copies, hand, waited, before, asks, poster, answered>>

\* restart_clock: EXISTS, then the new ts.
Restarted(k) ==
    prompt' = [prompt EXCEPT ![k] = IF @.up THEN [@ EXCEPT !.ts = sent] ELSE @]

ResendClick(k) ==
    /\ stage[k] = "clicking"
    /\ Restarted(k)
    /\ waited' = [waited EXCEPT ![k] = 0]
    /\ stage' = [stage EXCEPT ![k] = "waiting"]
    /\ UNCHANGED <<signal, index, copies, hand, before, asks, poster, answered>>

\* otp_resend_after_seconds without a code: the wait is not extended.
AutoResend(k) ==
    /\ stage[k] = "waiting" /\ waited[k] < Patience
    /\ Restarted(k)
    /\ UNCHANGED <<signal, index, copies, waiter, asks, poster, answered>>

\* Dismissed, or a switch asked for, seen at the head of the loop.
Leave(k) ==
    /\ stage[k] = "waiting" /\ waited[k] < Patience
    /\ Flagged(k)
    /\ Without({k})
    /\ Ends(k)
    /\ UNCHANGED <<copies, hand, asks, poster, answered>>

\* note_timeout, and cancel_all once every account had its turn.
Strike(k, last) ==
    LET j == JobOf[k] IN
    /\ strikes' = [strikes EXCEPT ![j] = IF @ < Budget THEN @ + 1 ELSE @]
    /\ leave' = [leave EXCEPT ![j] = IF last THEN @ \cup {"dismissed"} ELSE @]
    /\ Without({k} \cup IF last THEN Ours(j) \cap index ELSE {})

\* Out of slices, or the job cancelled, and nobody dismissed it: a strike.  A
\* switch asked for during the last slice is not looked at.
Unanswered(k) ==
    LET j == JobOf[k] IN
    /\ stage[k] = "waiting" /\ "dismissed" \notin leave[j]
    /\ waited[k] = Patience \/ leave[j] = {"stopped"}
    /\ Strike(k, strikes[j] + 1 >= Budget)
    /\ Ends(k)
    /\ UNCHANGED <<copies, hand, dropping, poster, answered>>

\* Dismissed during the last slice: cancel_all is left to have dropped it.
Dismissed(k) ==
    /\ stage[k] = "waiting" /\ waited[k] = Patience
    /\ "dismissed" \in leave[JobOf[k]]
    /\ Ends(k)
    /\ UNCHANGED <<store, copies, hand, asks, poster, answered>>

\* clear_timeouts: a listing gave its number, with a challenge or without.
Revealed(j) ==
    /\ strikes[j] > 0 /\ \A k \in Ours(j) : Past(k)
    /\ strikes' = [strikes EXCEPT ![j] = 0]
    /\ UNCHANGED <<store, copies, waiter, leave, dropping, poster, answered>>

\* take_switch, between listings.  A run that did move forgets what was left
\* unanswered on the number before: reset_cancel and clear_timeouts.
TakeSwitch(j) ==
    /\ "switch" \in leave[j] /\ \A k \in Ours(j) : Past(k)
    /\ \/ /\ leave' = [leave EXCEPT ![j] = @ \ {"switch", "dismissed"}]
          /\ strikes' = [strikes EXCEPT ![j] = 0]
       \/ leave' = [leave EXCEPT ![j] = @ \ {"switch"}] /\ UNCHANGED strikes
    /\ UNCHANGED <<store, copies, waiter, dropping, poster, answered>>

-----------------------------------------------------------------------------
(* Divar and the phone's posts (otp_inbound).                              *)

\* Each click may make Divar text the number; it may also resend on its own.
Send(s) ==
    /\ s \notin sent /\ \E k \in Keys : ~Past(k)
    /\ sent' = sent \cup {s}
    /\ UNCHANGED <<store, copies, waiter, asks, post, ask, answered>>

\* The code and the number it goes to, label and _route_by_click applied: a
\* phone may put the wrong number on a text, and another one on its copy.
Arrive(p, s, a) ==
    /\ p \notin People /\ post[p].pc = "none" /\ s \in sent
    /\ post' = [post EXCEPT ![p] = [NoPost EXCEPT !.pc = "arrived", !.sms = s, !.acct = a]]
    /\ UNCHANGED <<store, copies, waiter, asks, ask, sent, answered>>

Goes(p, pc) == post' = [post EXCEPT ![p].pc = pc]
Done(p) == post' = [post EXCEPT ![p] = [post[p] EXCEPT !.pc = "done", !.key = None]]

\* copy_of: used, or already parked for this number.
IsCopy(p) == \/ post[p].sms \in used
             \/ /\ held[post[p].acct] # None
                /\ post[held[post[p].acct]].sms = post[p].sms

Duplicate(p) ==
    /\ post[p].pc = "arrived" /\ IsCopy(p)
    /\ Done(p)
    /\ UNCHANGED <<store, copies, waiter, asks, ask, sent, answered>>

\* Mutant of Candidates: the newest prompt, whoever it is for.
AnyPending(a) == {k \in Keys : Pending(k)}

\* find_pending_for_account.
Candidates(a) == {k \in Keys : Pending(k) /\ AccountOf[k] = a}

\* No prompt: parked, unless it is older than Divar would accept.
FindNone(p) ==
    /\ post[p].pc = "arrived" /\ ~IsCopy(p)
    /\ Candidates(post[p].acct) = {}
    /\ Goes(p, "parking") \/ Done(p)
    /\ UNCHANGED <<store, copies, waiter, asks, ask, sent, answered>>

\* A prompt: stale only if the SMS is older than its ts, give or take ten seconds.
Find(p, k) ==
    /\ post[p].pc = "arrived" /\ ~IsCopy(p)
    /\ k \in Candidates(post[p].acct)
    /\ \/ post' = [post EXCEPT ![p].pc = "found", ![p].key = k]
       \/ post[p].sms \in prompt[k].ts /\ Done(p)
    /\ UNCHANGED <<store, copies, waiter, asks, ask, sent, answered>>

Park(p) ==
    /\ post[p].pc = "parking"
    /\ held' = [held EXCEPT ![post[p].acct] = p]
    /\ Done(p)
    /\ UNCHANGED <<store, used, waiter, asks, ask, sent, answered>>

\* Mutant of Mark: a plain SET, whoever used the SMS before.
MarkAnyway(p) == used' = used \cup {post[p].sms} /\ Goes(p, "submitting")

\* use_sms(purge=False): SET NX.
Mark(p) ==
    IF post[p].sms \in used
    THEN UNCHANGED used /\ Done(p)
    ELSE used' = used \cup {post[p].sms} /\ Goes(p, "submitting")

Use(p) ==
    /\ post[p].pc = "found"
    /\ Mark(p)
    /\ UNCHANGED <<store, held, waiter, asks, ask, sent, answered>>

\* The panel: a person reads a pending prompt and types a code.
Type(p, k) ==
    /\ p \in People /\ post[p].pc = "none" /\ Pending(k)
    /\ post' = [post EXCEPT ![p] = [NoPost EXCEPT !.pc = "submitting", !.sms = Typed, !.key = k]]
    /\ UNCHANGED <<store, copies, waiter, asks, ask, sent, answered>>

\* submit(): WATCH, HGETALL, MULTI, EXEC.
Accepts(k) == prompt[k].up /\ prompt[k].code = None

Submit(p) ==
    LET k == post[p].key IN
    /\ post[p].pc = "submitting" /\ Accepts(k)
    /\ prompt' = [prompt EXCEPT ![k].code = post[p].sms]
    /\ answered' = IF post[p].sms = Typed THEN answered
                   ELSE [answered EXCEPT ![post[p].sms] = Append(@, k)]
    /\ Goes(p, "signalling")
    /\ UNCHANGED <<signal, index, copies, waiter, asks, ask, sent>>

\* Gone, answered, or written to between WATCH and EXEC (a resend, a restarted
\* clock) while its extractor waits.
Refused(p) ==
    /\ post[p].pc = "submitting"
    /\ Accepts(post[p].key) => ~Past(post[p].key)
    /\ IF post[p].sms = Typed THEN Done(p) ELSE Goes(p, "releasing")
    /\ UNCHANGED <<store, copies, waiter, asks, ask, sent, answered>>

\* Mutant of Released: the mark stays.
KeepMark(p) == used

\* release_sms.
Released(p) == used \ {post[p].sms}

Release(p) ==
    /\ post[p].pc = "releasing"
    /\ used' = Released(p)
    /\ Done(p)
    /\ UNCHANGED <<store, held, waiter, asks, ask, sent, answered>>

Signal(p) ==
    /\ post[p].pc = "signalling"
    /\ signal' = [signal EXCEPT ![post[p].key] = @ + 1]
    /\ IF post[p].sms = Typed THEN Done(p) ELSE Goes(p, "landed")
    /\ UNCHANGED <<prompt, index, copies, waiter, asks, ask, sent, answered>>

\* drop_copies.
DropCopies(p) ==
    /\ post[p].pc = "landed"
    /\ held' = Purged(post[p].sms)
    /\ Done(p)
    /\ UNCHANGED <<store, used, waiter, asks, ask, sent, answered>>

\* EARLY_TTL.
ParkedExpires(a) ==
    /\ held[a] # None
    /\ held' = [held EXCEPT ![a] = None]
    /\ UNCHANGED <<store, used, waiter, asks, poster, answered>>

-----------------------------------------------------------------------------
(* The panel: resend, dismiss, switch, cancel the job.                     *)

\* Mutant of MayAsk: one more than the cap.
MayAskOnceMore(k) ==
    prompt[k].up /\ prompt[k].code = None /\ prompt[k].resends <= MaxResends

MayAsk(k) == prompt[k].up /\ prompt[k].code = None /\ prompt[k].resends < MaxResends

\* ask_resend reads the hash and its count ...
AskRead(x, k) ==
    /\ ask[x] = None /\ MayAsk(k)
    /\ ask' = [ask EXCEPT ![x] = k]
    /\ UNCHANGED <<store, copies, waiter, asks, post, sent, answered>>

\* ... and raises the flag on whatever is there by then.
AskWrite(x) ==
    /\ ask[x] # None
    /\ prompt' = [prompt EXCEPT ![ask[x]].up = TRUE, ![ask[x]].resend = TRUE]
    /\ ask' = [ask EXCEPT ![x] = None]
    /\ UNCHANGED <<signal, index, copies, waiter, asks, post, sent, answered>>

\* POST /otp-cancel?key=: that prompt alone.
DismissOne(k) ==
    /\ "closed" \in Reasons /\ Pending(k)
    /\ Without({k})
    /\ UNCHANGED <<copies, waiter, asks, poster, answered>>

\* cancel_all: the prompts first, the flag after them.
DismissDrops(j) ==
    /\ "dismissed" \in Reasons /\ j \notin dropping /\ "dismissed" \notin leave[j]
    /\ Without(Ours(j) \cap index)
    /\ dropping' = dropping \cup {j}
    /\ UNCHANGED <<copies, waiter, leave, strikes, poster, answered>>

DismissFlags(j) ==
    /\ j \in dropping
    /\ dropping' = dropping \ {j}
    /\ leave' = [leave EXCEPT ![j] = @ \cup {"dismissed"}]
    /\ UNCHANGED <<store, copies, waiter, strikes, poster, answered>>

\* The window passes, between challenges.
DismissExpires(j) ==
    /\ "dismissed" \in leave[j] /\ \A k \in Ours(j) : Past(k)
    /\ leave' = [leave EXCEPT ![j] = @ \ {"dismissed"}]
    /\ UNCHANGED <<store, copies, waiter, dropping, strikes, poster, answered>>

AskSwitch(j) ==
    /\ "switch" \in Reasons \ leave[j]
    /\ leave' = [leave EXCEPT ![j] = @ \cup {"switch"}]
    /\ UNCHANGED <<store, copies, waiter, dropping, strikes, poster, answered>>

\* The row turns cancelled; clear_job follows.
Stop(j) ==
    /\ "stopped" \in Reasons \ leave[j]
    /\ leave' = [leave EXCEPT ![j] = @ \cup {"stopped"}]
    /\ UNCHANGED <<store, copies, waiter, dropping, strikes, poster, answered>>

ClearJob(j) ==
    /\ "stopped" \in leave[j]
    /\ Without(Ours(j) \cap index)
    /\ leave' = [leave EXCEPT ![j] = @ \ {"switch"}]
    /\ UNCHANGED <<copies, waiter, dropping, strikes, poster, answered>>
-----------------------------------------------------------------------------
Extract(k) == \/ Check(k) \/ Skip(k) \/ Open(k) \/ ClaimNothing(k) \/ Claim(k) \/ ClaimWrite(k)
              \/ ClaimSignal(k) \/ Top(k) \/ Slice(k) \/ Wake(k) \/ Pop(k)
              \/ TakeResend(k) \/ CountResend(k) \/ ResendClick(k) \/ AutoResend(k)
              \/ Leave(k) \/ Unanswered(k) \/ Dismissed(k)

Inbound(p) == \/ Duplicate(p) \/ FindNone(p) \/ Park(p)
              \/ Use(p) \/ Submit(p) \/ Refused(p) \/ Release(p) \/ Signal(p)
              \/ DropCopies(p)
              \/ \E s \in Sms, a \in Accounts : Arrive(p, s, a)
              \/ \E k \in Keys : Find(p, k) \/ Type(p, k)

OfJob(j) == \/ Revealed(j) \/ TakeSwitch(j) \/ DismissDrops(j) \/ DismissFlags(j) \/ DismissExpires(j)
            \/ AskSwitch(j) \/ Stop(j) \/ ClearJob(j)

Next == \/ \E k \in Keys : Visit(k) \/ Extract(k) \/ DismissOne(k)
        \/ \E p \in Posts : Inbound(p)
        \/ \E x \in Askers : AskWrite(x) \/ \E k \in Keys : AskRead(x, k)
        \/ \E j \in Jobs : OfJob(j)
        \/ \E a \in Accounts : ParkedExpires(a)
        \/ \E s \in Sms : Send(s)

Spec == Init /\ [][Next]_vars

\* The extractor is a coroutine of a live worker: it keeps taking its steps.
\* Nobody owes it a code, a click or an answer.
FairSpec == Spec /\ \A k \in Keys : WF_vars(Extract(k))

-----------------------------------------------------------------------------
TypeOK ==
    /\ prompt \in [Keys -> [up : BOOLEAN, ts : SUBSET Sms, code : Codes \cup {None},
                            resend : BOOLEAN, resends : Nat]]
    /\ signal \in [Keys -> Nat] /\ index \subseteq Keys
    /\ held \in [Accounts -> Posts \cup {None}] /\ used \subseteq Sms
    /\ stage \in [Keys -> {"none", "clicked", "asking", "opened", "claiming",
                           "signalling", "waiting", "blocked", "popping", "resending",
                           "clicking", "over"}]
    /\ hand \in [Keys -> Posts \cup {None}] /\ waited \in [Keys -> Nat]
    /\ before \in [Keys -> SUBSET Posts]
    /\ leave \in [Jobs -> SUBSET {"dismissed", "switch", "stopped"}]
    /\ dropping \subseteq Jobs /\ strikes \in [Jobs -> Nat]
    /\ post \in [Posts -> [pc : {"none", "arrived", "parking", "found",
                                 "submitting", "signalling", "landed", "releasing", "done"},
                           sms : Codes \cup {None}, acct : Accounts \cup {None},
                           key : Keys \cup {None}]]
    /\ ask \in [Askers -> Keys \cup {None}]
    /\ sent \subseteq Sms /\ answered \in [Sms -> Seq(Keys)]

\* «One SMS, one answer»: however many times the phone posts a text, and under
\* whichever number, it is written to a prompt once, whatever rounds go by.
OneAnswer == \A s \in Sms : Len(answered[s]) <= 1

\* Somebody holds the SMS for an answer that has not landed yet.
InHand(s) ==
    \/ \E p \in Posts : post[p].pc \in {"submitting", "releasing"} /\ post[p].sms = s
    \/ \E k \in Keys : stage[k] = "claiming" /\ post[hand[k]].sms = s

\* A used mark is never left behind: it stands for an answer, or for somebody
\* about to give one or to take the mark back.  A leaked mark would turn away
\* every other copy of a code nobody typed.
UsedIsAccounted == \A s \in Sms : s \in used <=> answered[s] # <<>> \/ InHand(s)

\* An extractor waiting on an answered prompt has its wake-up there or coming: a
\* code is never left unread until the timeout, nor does a code, a flag or a
\* signal of an earlier round under the same key keep a later one asleep.
NoLostWakeup ==
    \A k \in Keys :
        stage[k] \in {"waiting", "blocked", "resending", "clicking"} /\ prompt[k].code # None
        => \/ signal[k] > 0
           \/ \E p \in Posts : post[p].pc = "signalling" /\ post[p].key = k

\* The resend cap is read and raised in different round trips: it can be passed,
\* but by no more than the requests in flight.
ResendOverrun ==
    \A k \in Keys : prompt[k].resends <= MaxResends + Cardinality(Askers)

\* Whatever other prompts are open, and however late a parked code is claimed,
\* an SMS answers a prompt only of a number it was posted under.
RightAccount ==
    \A s \in Sms : \A i \in 1..Len(answered[s]) :
        \E p \in Posts : post[p].sms = s /\ post[p].acct = AccountOf[answered[s][i]]

\* The store keeps the promise of SmsLedger: a mark is a reservation until the
\* answer lands.
Ledger == INSTANCE SmsLedger WITH reserved <- {s \in used : answered[s] = <<>>}
KeepsTheLedger == Ledger!Spec

\* A challenge never parks the run for good, whatever people and phones do: the
\* slices run out, and resends that start them over are counted.
EveryWaitEnds == \A k \in Keys : stage[k] = "clicked" ~> stage[k] = "over"
============================================================================
