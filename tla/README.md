# A formal model of SorinFlow

SorinFlow collects real-estate listings from Divar for an agency. An operator
starts a *job*; a worker process drives a browser through a list of listings,
presses «اطلاعات تماس» on each to reveal a phone number, and Divar sometimes
answers with a challenge: a one-time code, texted to the SIM behind the Divar
number the browser is logged in with. The rest of the program keeps, matches,
reports and mails what was collected.

The processes are one or more `api` and `worker` roles of the same image
(`src/app/main.py`), with Postgres for what must last and Redis for what is in
flight. Nothing in it is shared memory between processes: they meet in rows,
keys and lists, one round trip at a time. That is where the hard behaviour is,
and what this project models.

## 1. Inventory

| part | state | operations | meets |
|---|---|---|---|
| scrape queue (`services/scrape_queue.py`) and the life of a job (`api/routes/scraper.py`, `scraper/divar_scraper.py`) | list of job ids, a claim per run with a 90 s TTL, `_running` of each process, the row's `status` | launch, enqueue, pop, claim, run, keep alive, release, sweep, drain; cancel, delete; pause, resume | everything that runs |
| one-time codes (`scraper/otp_store.py`, the wait in `scraper/contact_extractor.py`, `otp_inbound`) | a hash, a signal list and an index entry per prompt; parked codes; used marks; dismissals, strikes, switches per job | open, wait, submit, resend, dismiss, switch; park, claim, mark, release, purge | the browser of a run, the phone, the panel |
| account rotation and identity walls (`divar_scraper.py` 2920-3790) | a pool of Divar numbers, rests and challenge budgets, browsers kept open | rotate, rest, restore, switch by hand, retire | profile lock, codes |
| profile lock (`scraper/stealth.py`) | a Redis lease per Divar number, a fallback set in the process | take, refresh, release | two processes opening one profile |
| scheduler (`services/scrape_scheduler.py`) | `next_run_at` per schedule | fire, record | the launch route |
| supervisor (`services/supervisor.py`) | the watched task, heartbeat, back-off of each loop | run, stall, cancel, restart, switch off | every periodic loop |
| verification codes and login throttle (`services/verification.py`) | code, attempts, cooldown and send counters, login budget in Redis | issue, verify, take and hand back an attempt | login |
| sessions and tokens (`auth/`) | revocations, `token_version` | log in, out, everywhere | every request |
| maintenance mode (`services/maintenance.py`) | a settings row, a five-second cache per process | read, write, invalidate | every request |
| forwarder devices (`services/forwarder*.py`) | pairing secrets, last seen, one mail per outage | pair, authenticate, watch | the phone |
| match engine and listing reader (`crm/match_engine.py`, `ai/listing_reader.py`) | fingerprints of what was read and judged, attempt counts | one pass, a reread | the listings, each other |
| the listings of a run (`divar_scraper.py`, `skipped_listings.py`, `crm/lead_service.py`) | the listing's row, its lead, the skipped list, the job's counters and the session they live in | look, scrape, save, fill, resolve, count | other runs over the same listings, the CRM |
| reminders and appointments (`main.py`, `api/routes/crm.py`) | `remind_at`, `is_sent`; `start_at`, `sms_reminder_sent` | one pass a minute; create, move, delete | people |
| call queue, price watch, other AI agents (`crm/`, `ai/`) | a timestamp cursor, tags, vectors, a conversation | one pass, one answer | the listings |
| digest, backups, DR bundles, Google Cloud export | last day sent, parts sent, a buffer | send, record | mail, Telegram, buckets |
| CRM requests, permissions, parsers, captcha, proxies, SMS and e-mail sending, panels | rows | one transaction or a pure function each | |

What makes them correct, and what is hard about it:

* **Queue.** A job is run by one process, once; a job whose process is gone is
  closed out, one that is running is not; what was lost is put back. Hard: every
  fact is read one await before it is used, sweeps of several processes overlap,
  pods are replaced while runs last hours, Redis can lose an entry or everything.
* **Codes.** One SMS answers one prompt, the right one; a code that lands wakes
  its waiter; a challenge nobody answers ends. Hard: the phone posts an SMS more
  than once and usually *before* the prompt exists; a prompt can be closed,
  resent, switched or answered by a person between any two round trips.
* **Rotation.** A session is saved and a reveal billed under the number it belongs
  to, a round begins when everything is spent, a challenged number is left. Hard:
  two runs share the rows, and every opening and session may fail half-way.
* **Profile lock.** One browser per profile. Hard: leases expire, the refresher
  reads and extends in two steps, Redis can be away.
* **Scheduler.** A due schedule fires once, a missed one once. Hard: two commits,
  and a loop that is cancelled and started again between them.
* **Throttle.** A burst of guesses spends no more than the budget. Hard:
  counters read before the pipeline that writes them.
* **Passes over the listings.** What is stored about a listing is of the content it
  was computed from, and every change is seen. Hard: a pass holds its rows for
  minutes while they are edited and other passes write them.
* **A run's listings.** What a run reports is what it stored, and a number that was
  found is everywhere. Hard: four records committed one after the other, two runs
  that meet, and a rollback that takes back more than the statement that failed.
* **Reminders.** Each occurrence is texted once and none is passed over. Hard: the
  texts leave before the marks are committed, and people move what is being sent.

## 2. Plan

| order | module | proves or checks | state |
|---|---|---|---|
| 1 | `ScrapeQueue`, abstract `JobBoard`, `ScrapeQueueProofs` | one runner, orphans only, every job settles | done |
| 2 | `OtpStore`, abstract `SmsLedger`, `OtpStoreProofs` | one SMS one answer, wake-ups, waits end | done |
| 3 | `ProfileLock`, abstract `ProfileGuard`, `ProfileLockProofs` | one browser per profile up to the guard's boundary, leases kept, locks freed | done |
| 4 | `AccountRotation` (two runs over one owner's numbers; rests on `ProfileGuard`'s promise), `AccountRotationProofs` | right jar, right bill, rounds, challenges, pinned runs | done |
| 5 | `ScrapeScheduler` with the supervisor of its loop, `ScrapeSchedulerProofs` | how often a due schedule fires across crashes and restarts | done |
| 6 | `ListingPasses` (AI reader and match engine), `ListingPassesProofs` | facts and verdicts are of the content they speak of, no change is missed | done |
| 7 | `Reminders` (the minute's loop against people who edit), `RemindersProofs` | texted once, a new time is owed, nothing due is forgotten | done |
| 8 | `ScrapeRun` (two runs over their listings), `ScrapeRunProofs` | counters, rows, leads and the skipped list agree | done |
| 9 | `LoginThrottle` with the verification codes | budget under parallel attempts | after |
| 10 | price watch's cursor, the digest's and the forwarder watch's «once» | no change missed, at most or at least once | after |
| 11 | routing by click (`PickAccount`) as a pure function against a reference definition | | after |

Proofs follow the runs: type correctness and the one inductive invariant of each
module first, then the refinement of its abstract specification. Every module of
rows 1 to 8 has its proofs.

## 3. The scrape queue: `ScrapeQueue.tla`

A member of `Workers` is one process *incarnation* (`WORKER_ID` is new at every
start), so a restarted pod is another member and a rolling deploy is two members
alive at once. `row` is the status column, `queue` and `claim` are Redis, `at`
and `item` are where a process is in `consume`, `run` is its `_running` with the
place each run has reached, `freeing` the runs out of `_running` whose claim is
not released yet, `tag` what a sweep under way has decided about each row.
An await another actor can slip into ends an action:

* launch: `Admit`, `Insert`, `Enqueue` (`_launch_job` counts, commits, pushes);
  `EnqueueFails` is Redis down or the process gone in between.
* `consume`: `Count`, `Pop`/`PopNothing`, `PutBack`, `Claim`, `Take`/`Decline`,
  `TakeCut` (`_take` claims, reads the row, starts the run).
* the run: `ReadRow`, `Begin`, `Pause`, `ResumeRead`, `ResumeCommit`,
  `StopCancelled`, `Complete`, `Fail`, `FailUnwritten`, then `Leave` and `Release`.
* `sweep`: `Snapshot`, `Examine` per row, `Requeue`, `ReleaseOrphans`,
  `FailStalePending`, `SweepEnds`; any await in it may fail.
* processes: `Start`, `Sigterm`, `Exit` (drained), `Kill`. Redis: `Expire`,
  `Reassert` (the keeper writes a missing claim again), `Flush`.

`JobBoard.tla` is the promise: a row with a status and at most one process on it.
`ScrapeQueue` implements it with `status <- row` and `runner` read off `run`.

**Time.** A claim expires only when no live process keeps it: the keeper writes
every 30 s against a TTL of 90 s, so a live holder's claim does not lapse, and
`_take` and `release` finish inside one TTL. `age` is the part of the clock the
code looks at (under 5 minutes, over it, over 24 hours) and is no longer read
once a row has left `pending`. Statuses are the strings the code compares.

**Checked.**

| run | bounds | shows |
|---|---|---|
| `queue_safety` | 1 job, 2 processes, 2 faults | `OneRunner`, `NeverRerun`, `OnlyOrphansAreClosed`, `EndingsAreKept`, and that every step is a step of `JobBoard` |
| `queue_rollout` | 4 jobs, 2 processes, cap 2, no sweep or cancel in progress; or 1 job through one loss of all of Redis (constraint `RolloutOrOneJob`) | `CapOverrun`: the check-then-pop cap is passed by one job per other process at most, while Redis keeps the claims it counts; `DrainsOrphanNothing`; `OwnOrphansUntouched`: a process never closes out its own runs |
| `queue_liveness` | 1 job, 1 fault | `EveryJobSettles` |

One job is enough for the first, the last and the loss of Redis: jobs meet only in the list's
order, the cap and the sweep's batch, and what is checked there speaks of
one job; two processes are two incarnations, which is what a takeover, a rollout
or an overlap of two sweeps needs, and two faults are enough for a crash during
the repair of a lost entry. The cap and the rollout need several jobs and have
them. With several jobs that run stops exploring where a sweep starts, so it
says nothing about sweeps among them; the others do.

**Fairness** (`Fairness`). Each loop of a live process keeps taking its next step
(weak fairness): `consume`, `sweep_loop`, the release of a claim are coroutines
with no unbounded wait. A run's end gets strong fairness, because a run walks a
finite candidate list and its pauses interrupt rather than prevent it. Nobody
owes a launch, a cancel, a SIGTERM or a fault; faults are bounded by `MaxFaults`,
as nothing settles in a system that crashes for ever.

**What the repository says and the code does not keep**: a cancel can be
overwritten by `running` (`queue_revived`; TLC's counterexample is the evidence).
Two more are in section 11.

**Proved** (`ScrapeQueueProofs.tla`), for every finite set of processes and jobs,
every cap and every number of faults. Some of it holds whatever Redis loses, some
only until it loses its claims:

* With no further assumption, flushes included: `TypeCorrect`; `EndingsStay` and
  `OwnRunsAreSpared` (what a sweep may never close out); `RowsNeverReturn` (a deleted
  row stays deleted and no row becomes takeable again); `ClaimsChangeHandsFree` (a claim
  passes from one process to another only by being free); `NoProcessIsOverloaded`
  (no process runs more than its concurrency).
* Of the time before the first flush, with no assumption on how many there may be:
  `CapIsPassedByOneEach`, `RunsKeepNearTheCap` (the same of the jobs that run),
  `RolloutsOrphanNothing`, and `UntilRedisIsLost`: one runner, covered claims, single
  beginnings, spared runs and the steps of `JobBoard`.
* Under `NoFlush` (`MaxFlushes = 0`) the same as properties of whole behaviours:
  `ExclusiveRuns`, `ClaimsCoverRuns`, `NoJobRunsTwice`, `SweepsCloseOrphansOnly`,
  `QueueKeepsThePromise` (the refinement). The assumption is needed: a flush takes the
  claims, and a sweep of another process that runs before the keeper's next tick (30 s)
  closes out a live run, or puts back a job that somebody holds.

The argument is two inductive invariants, one in the other. `Always` survives a
flush: the types, `RowFollowsLaunch` (a row is there from its insert on, and under every
run and cancel), and `SweepSees` (a row a sweep took for running is not `pending` now, and
one it tagged `orphan` is not a run of its own process). `IInv` adds what rests on the
claims. `OneRunner` is not inductive: a second process is kept out by the claim, so
*whoever runs a job, is still to release it, or has claimed it and not looked yet, holds
its claim and is alive* (`HolderClaims`), and these three are exclusive in one process
(`OnePlace`). `NotBegun` and `Attended` tie the row to the run; `SweepKnows` says what may
be concluded from a row a sweep classified several awaits ago: one tagged `orphan` has no
runner *now*, because a row that has left `pending` is never taken again. `Counted` is the
cap's: claims and consumers past the check are together at most the cap and one per other
process; `Room` is that of one process. `UntilLost` joins the two: `Always`, and `IInv`
while `flushes = 0`. Each action keeps each part by a lemma of its own.

Stated of all times the cap's bound would be false: a flush forgets the claims of live
runs, the check counts none, and with several jobs each process fills up again before the
keepers write. `CapOverrun` speaks of the time before a flush, `NoProcessIsOverloaded` of
what is left after one.

Only model-checked: `EveryJobSettles` (liveness). After a flush neither `OneRunner` nor
`OnlyOrphansAreClosed` holds: with `MaxFlushes = 1` in the instance of `queue_safety`, TLC
finds a behaviour without any other fault against each.

## 4. One-time codes: `OtpStore.tla`

A member of `Keys` is the prompt key of one listing in one job, «{job_id}:{divar_id}».
A visit to the listing meets up to three challenges under that key (`Again`), is
closed (`Close`) and may come again: what a request began in one round can land in
the next. How many rounds there are is left open. `prompt` is the hash
(`up`: it exists; `ts`: as the set of SMS sent before its clock started),
`signal` the length of the wake-up list, `index` the index set, `held` the parked code per number, `used` the used marks; `stage`, `hand`,
`waited`, `before` are the extractor's place and its locals; `leave`, `dropping`,
`strikes` are the job's dismissal, switch and cancel and its unanswered prompts;
`post` (those in `People` are typed by a person) and `ask` are the requests in flight; `sent` is what Divar sent; `answered`
is history, the prompts each SMS was written to, one entry a write.

* extractor: `Click`, `Again`, `Close`; `Check`/`Skip`, `Open`, `ClaimNothing` or `Claim`,
  `ClaimWrite`, `ClaimSignal`; the loop `Top`, `Slice` or `Wake`, `Pop`;
  `TakeResend`, `CountResend`, `ResendClick`, `AutoResend`; `Leave`, `Unanswered`
  (a strike, and suppression at the last), `Dismissed`; `TakeSwitch`, `Revealed`.
* phone: `Arrive`, `Duplicate`, `Find`/`FindNone`, `Park`, `Use`, `Submit` or
  `Refused` and `Release`, `Signal`, `DropCopies`. A person's code is `Type`.
* panel: `AskRead`, `AskWrite`, `DismissOne`, `DismissDrops`, `DismissFlags`,
  `AskSwitch`, `Stop`, `ClearJob`. Divar: `Send`. Redis: `ParkedExpires`,
  `DismissExpires`.

`SmsLedger.tla` is the promise of «one SMS, one answer»: an SMS is reserved by
one poster at a time, may be given back, and answers one prompt for good.

**Assumed.** A number has one live challenge, and a job one open listing (the
profile lock). A used mark (600 s) outlives every
parked copy (120 s), a prompt's expiry (window + 60 s) its wait: marks and
prompts of a waiting extractor do not expire in the model. The staleness test
allows ten seconds, so a post of an SMS older than the prompt may be judged
either way. WATCH refuses a submit also when only the clock or the resend flag
was written in between; the model allows a refusal whenever the waiter is alive.
The number a post goes to is chosen before (the phone's label, corrected by
`_route_by_click`); it may be any, another one for each copy of an SMS.

**Checked.**

| run | bounds | shows |
|---|---|---|
| `otp_copies` | 2 listings of 2 jobs on 2 numbers, any number of rounds, 1 SMS, 2 posts under either number, prompts closed at will, no time to wait | `OneAnswer`, `UsedIsAccounted`, `RightAccount`, steps of `SmsLedger` |
| `otp_wait` | 1 listing, any number of rounds of 1 slice, 1 post of an SMS and 1 typed code, 1 resend request at a time, cap 1; close, dismiss, switch, cancel | `NoLostWakeup`; `ResendOverrun`: the cap is passed by at most the requests in flight; `EveryWaitEnds` |

Two posts of one SMS are two live copies, or a live one and a parked one; three
are the proofs'. In `otp_wait` each post and each resend request may be of an
earlier round than the prompt it lands on: a code written to a prompt that was
given up, a flag or a signal that comes after the DEL of the next `request()`. With
that DEL limited to the signals (`OpenOver`), the code of an earlier round sits in the
new prompt with no wake-up, and TLC finds it. `Patience` stands for 150
slices (or six hours of them) and `MaxResends` for 3: the code compares both with
a bound and nothing else. `Budget` is the number of accounts; one strike more or
less changes only when suppression comes.

**Fairness.** Weak fairness of each extractor's next step: it is a coroutine whose
longest wait is a two-second slice. Nobody owes a code, a click or an answer.

**Proved** (`OtpStoreProofs.tla`) for any challenges, jobs, numbers, messages, posts
and requests, from `MapsAssumption`, `NamesAssumption` (a typed code is no SMS,
`None` is nothing else, challenges and requests are finitely many) and
`NumbersAssumption`. The types come with shapes (`Shapes`): a post that has found a
prompt found one of its own number, and what is parked or taken was posted under the
number it is parked for; a post keeps its SMS and number for good (`Lasts`). Four
arguments rest on them:

* the ledger (`Book`): `OneAnswer` is not inductive, since nothing in it keeps two
  posts of an SMS from submitting. The strengthening counts *holders* of an SMS, the
  posts that submit or release it and the extractors that have taken its parked copy:
  a mark stands for an answer or for exactly one holder, an answer keeps its mark and
  has no holder, and the writes recorded are at most one. Only `Use`, `Release`, `Submit`, `Claim` and `ClaimWrite` touch a
  book, every other step is `Quiet` for it. `OneAnswer` and `UsedIsAccounted` follow;
* what those five steps do (`Moves`) is `Reserve`, `Return` or `Answer` of
  `SmsLedger`, which gives the refinement `KeepsTheLedger`; and each answer is from
  a post under the prompt's number, which gives `RightAccount`. `AnswersStand` is what a
  step may not do: take the mark of an SMS that has answered, or change its answer;
* wake-ups (`Woken`): `NoLostWakeup` also has to hold of a prompt that is open and
  whose extractor looks for a parked code, where a post may already have answered.
  Nothing is assumed of what earlier rounds left or still push: `Open` deletes the
  code together with the signals, a later code comes with a push of its own, and a
  signal more than there are codes cannot falsify it;
* the resend cap (`Capped`): the count, plus one if a resend is asked for or under
  way, plus the requests that read the prompt and have not written, is at most the cap
  plus all requests there can be. A request that writes, and a resend that is counted,
  only move what is owed from one term to another.

Only model-checked: `EveryWaitEnds` (liveness). **What the repository says and the
code does not keep** is in section 11.

## 5. The profile lock: `ProfileLock.tla`

`lock` and `ttl` are the Redis key of each number; `clean` the jobs whose WATCH has
seen no write yet; `profile_locks` and `in_use` each process's memory,
`refresher` its one refresh task; `job` where each job's browser is and what it
would release with. `cut`, `stalled`, `disturbed` say which processes cannot
reach Redis, have a blocked event loop, or ever were or met a flush.

* opening: `Acquire` (SET NX with a fresh token), `AcquireFallback` (Redis away),
  `AcquireReplyLost` (the SET landed, the answer did not); `Launched`,
  `LaunchFails` (releases), `SetupFails` (after the launch: nothing releases).
* closing: `CloseContext`, `Release` (the WATCHed read), `Delete`, `Stopped`.
* `_refresh_profile_locks`: `Wake`, `RefreshGet`, `RefreshExpire`, `PassFails`.
* `Tick` is one refresh interval (30 s) of Redis's clock; faults are `crash`,
  `cut`, `stall`, `flush`, `reply`, `setup`.

**Assumed.** A process that runs and reaches Redis completes a pass of its
refresher within an interval; the TTL is longer than the interval (`Times`).

**Checked** by `profile_lock`: three jobs in two processes on one number, one
opening each, two faults of any kinds, TTL of two intervals. One number is
enough: locks of different numbers meet only in the refresher's pass, which goes
on to the next item whatever became of the last. `OnlyLapsesShare` says exactly
where two browsers may share a profile, `LeasesAreKept` that a lease lapses only
under a disturbed process, `EveryLockIsFreed` (fairness: Redis's clock ticks and the
refresher runs) that a closed profile comes free, and `KeepsTheGuard` that every
step is a step of `ProfileGuard`: one browser per profile among those not excused.

**Proved** (`ProfileLockProofs.tla`) for any processes, jobs, numbers and faults, and
any TTL longer than the interval: `TypeCorrect`; `SharedOnlyByLapses`,
`HoldersLetGo` and `LockKeepsTheGuard` (the refinement) from `GuardInv`: a holder
that is not excused has the lock or its process's entry (`Held`), a WATCH that is
still clean saw the lock it will delete (`Watching`; so no late command takes
somebody else's lock, `HoldersLetGo`), and a process's set has only
its own jobs' numbers (`OwnSet`); and `LeasesLast` from `LeaseInv`, which says why
a lease outlives its refresher's sleep: the browser's lock and entry carry its
token, and the refresh task sleeps no longer than the lease has left, or is on
its way to it, or has been there. `EveryLockIsFreed` is only model-checked.

## 6. Rotation: `AccountRotation.tla`

Two runs of one owner over the owner's rows: `reveals`, `challenged`, `valid`,
`enabled` are columns of the number's row, `jar` whose session the row really
holds. `run` is a run's locals: the active number, the browser that is open, the
session in it, reveals since the last move, the candidates left. `turned` is a
history: runs during whose rotation another began a round or the pool grew.

* start: `Start`, `TryRestoreFails`, `TryOpenFails`, `Adopt`.
* a listing: `StayPut`, `Alone`, `Rotate`, `BrowserGone`, or `Ignore`/`Honour` of a
  person's request; `Skip`, `Reveal`, `Answers`, `Challenged`, `Walled`, `Verified`.
* a move: `Adopt`, `Count`, `Rest` (the round's two commits), `Reopen` (back to the
  active number's browser), `Nobody`, `Fallen`, `Note`; `Recycle`; `Finish`, `Close`.
* others: `RequestSwitch`, `SwitchOff`, `SwitchOn`, `Expire` (the session verifier
  writes `is_valid`), `Rested`.

**Assumed.** `ProfileGuard`'s promise: `Taken`, one browser per number.

**Checked** by `rotation`: thresholds 1 and 2 (the second run may be pinned), three
numbers, two listings and one, one failing opening or restore and one doing of
people or the clock. Three numbers are what a failed candidate between two
others needs; two runs are what the count-then-reset race needs. Safety only.

**Proved** (`AccountRotationProofs.tla`) for any runs, thresholds, listings, faults
and any finite set of numbers: `TypeCorrect` (with one browser per profile) and the
four properties. The invariant says of each run alone (`Local`) that between two
moves its browser, if it has one, is its number's and holds that number's session;
from that and `RightJar` nothing wrong is saved or billed, and whatever a failed move
leaves in the browser is gone before the next save, since it ends in `Reopen` or
`Close`. `Rounds` and `Leaving` tie a run to the rows the other runs write: a step
either lowers no count and adds no number, or puts the others in `turned`
(`RowsKept`), so each run's own step is all there is to prove (`Acting`).
`RotationsTryEachOnce` is about the order of a search: a run that leaves its number
goes through every other number of the pool once (`AfterOnce`: the sequence turned round
at a number has all the others, each once), drops only one it tried, and comes back to
its own with none left.

## 7. The scheduler and its supervisor: `ScrapeScheduler.tla`

`row` is the schedule's row; a member of `Loops` is one task the supervisor runs
`scheduler_loop` in, `Clicks` are requests to fire now; `proc` is where each is in
`tick` and `fire` and what it read (`due`, `cur`), `watched` the supervisor's
task. `jobs` and `cut` count launches per occurrence and those cut off before
their record: the history the property needs.

* people: `Create`, `Edit`, `Delete`, `Click`. The clock (hours): `Tock`.
* firing: `Tick` reads what is due; `Launch` commits and queues the job (or
  `Refuse`); `Record` commits `next_run_at`, `RecordOfGone` meets no row.
* failures: `DbFails` (the commit in flight lands or not), `Stall` then `Unwound`
  (the cancelled task ends), `Start` (only once it `Ended`), `Wake`, `Crash`.

**Checked** by `scheduler`: two schedules, days of two hours, two days, two loop
tasks, one click, one edit, deletion or click, one fault. An hour of a two-hour
day is enough for «before, at and after its hour», and the clock may pass several
occurrences before a tick. **Fairness**: the loop's steps, the supervisor's
restart; nobody owes an edit or a fault. The clock owes nothing either:
`DueIsFired` speaks of schedules whose time has come.

**Proved** (`ScrapeSchedulerProofs.tla`) for any schedules, tasks, clicks, length of
day and numbers of faults: `TypeCorrect`, `OnceCorrect`, `MissedCorrect`. That two
loops never overlap (`OneLoop`: a task that is not off is the watched one) comes
first and makes the rest possible. `OncePerOccurrence` alone is not inductive;
`OnceInv` adds that a loop's entries are distinct schedules of times not in the
future (`SoundLoops`), that no job was launched for the future (`Future`), that
what a tick still has to fire has no launch that was not cut off (`DueSettled`),
and that any other occurrence with such a launch has its record under way or is
no longer its row's next (`Accounted`). `DueIsFired` is only model-checked.

## 8. Reading and judging listings: `ListingPasses.tla`

`content` is the listing's content and its fingerprint in one; `facts`, `readFp`,
`attempts` are what the reader wrote, `judged` what the match engine marked;
`reading` and `matching` are the rows a pass has loaded, as they were then;
`streak` and `shared` are history: failed answers in a row on one content, and
listings two readers have had at once.

* reader: `Select` (a pass), `Reread` (the panel), then per row `ReadOk` or
  `ReadFails`; `Stop` (a gate error, a failed commit). An UPDATE writes the columns
  that differ from what was loaded (`Writes`).
* match engine: `Score` loads what is due, `MatchCommit` marks it, `MatchFails`.
* others: `Edit`, `Age` (past READ_WAIT_TIMEOUT), `Gate` (`reader_will_run` turns).

**Checked** by `passes`: one listing, two contents, two readers, two matchers, two
attempts, two edits or rereads. Listings do not meet: every pass treats a row by
itself, and the one commit of a match pass fails for all of its rows. Two
contents and two edits make a change and a change back. **Fairness**: listings grow
old; one match pass, the loop's, comes round and its commit succeeds again and
again (strong fairness: another pass's insert of the same match fails it at most
once per match). Nothing is owed by the reader, the gateway or people:
`EveryChangeIsJudged` holds whatever they do.

**Proved** (`ListingPassesProofs.tla`) for any listings, contents, readers, matchers
and bounds: `TypeCorrect`, `CurrentCorrect`, `GiveUpCorrect`, `VerdictsCorrect`. The
invariant `ReadInv` has three parts, for listings not shared: what a reader holds
of the read columns is what the row has (`Mirror`), facts are of the fingerprint
that was seen when the last reading did not fail (`ReadIsSeen`), and the count of
attempts is at most the streak of failures on that fingerprint (`CountsRun`).

## 9. Reminders and appointments: `Reminders.tla`

`row` is a reminder's or an appointment's row (`at`: `remind_at` or `start_at`;
`sent`: `is_sent` or `sms_reminder_sent`), `loop` the pass under way with the rows
as it loaded them, `patch` a PATCH of an appointment between its read and its
commit. `texts` and `lost` count the texts that left per occurrence, and those
whose pass was undone; `crossed` are times given to a row during a pass over it.

* the loop: `Wake` loads what is due, `Remind` per row, `CommitReminders`;
  `LoadEvents`, `Pass`, `CommitEvents`. `RowIsGone`, `PassFails` and `CannotCompare`
  undo a pass whose texts have left (`Undone`).
* people: `Create`, `UpdateReminder`, `Delete`, `UpdateEvent` then `CommitPatch`.

**Checked** by `reminders`: two of a reminder by SMS, a reminder in the panel and an
appointment, times 0 and 1, one edit, move or deletion, one fault, on PostgreSQL and
SQLite (`zoned`). Two rows are what «one fails, the other's mark is undone» needs;
rows of one table do not meet otherwise. Two times are enough for «before, at and
after», and for a reminder that repeats once. **Fairness**: the loop's steps, which
the supervisor restarts; the clock and people owe nothing. `EveryDueIsHandled`
excepts appointments on PostgreSQL, where it fails (section 11).

**Proved** (`RemindersProofs.tla`) for any reminders, appointments, times and numbers
of rows, edits and faults: `TypeCorrect`, `OncePerTime`, `Rescheduled`,
`NonePassedOver`. Each action is first brought down to one of seven kinds of step
(`Step`), and the invariant `PassInv` is about those: a text beyond those lost is in
the hands of the pass, or the row has left that time behind or is marked
(`Counted`); what the loop holds of a row is true still, or people have moved the row
and that is in `crossed` (`Follows`); what it has left is not texted yet (`Left`), and
what it has done is texted, past or not for a text (`Done`). With it `MovedIsOwed` and
`NoneIsSkipped` are inductive. `EveryDueIsHandled` is only model-checked.

## 10. The listings of a run: `ScrapeRun.tla`

`prop`, `lead` and `skipped` are the tables: the listing's row and its lead by what
they say of the number, the list of what was skipped. A counter is kept as *what it
counts each listing as*: `counted` in the row, `mem` in the run's session, where a
rollback or a refresh leaves what was committed (`Reread`) and a rollback expires
the job (`expired`). `at` is the place of a run, its listing and what `save_property`
loaded of it. `shared` and `struck` are history: listings two runs were on at once,
and those whose scrape met a fault.

* the loop of `start_scraping_job`: `Collect`, `Top`, `Look`, `Page`, `Note`,
  `Progress`, `Rotate`, `Finish`; `Tally` is what a save counts as.
* `save_property`: `Read`, `Insert`, `Fill`, `Resolve`, `Update`, `CreateLead`; a lost
  connection is tried once more (`SaveDrops`), anything else given up (`SaveFails`).
* failures: the handler of one listing (`Raises`), of the run (`RaisesHard`,
  `ReadsExpired`), `LooksInVain`, `LeadFails`, `NotebookFails`, `Crash`, `Cancel`.

**Checked** by `scrape_run`: a run over two links or a search of two listings, with a
target of one or for a whole day, and a run over one link or a day's one listing; one
fault or cancel anywhere. Two runs are what
the race for one row or one serial number needs; two candidates are what «the next
listing after one that raised» needs; the records of different listings meet only in
the serial number and the expired job, for both of which two listings suffice. One
fault shows each excuse (`struck`, `shared`, `links`, `raised`) needed; two faults on
one listing were not tried. Safety only. The account is required to give numbers
(`_phone_required`, which nothing clears).

**Proved** (`ScrapeRunProofs.tla`) for any runs, targets, pools and number of faults
and any finite set of listings (the length of a list of links is its `cap`):
`TypeCorrect` and the five properties. A step of one run leaves another's place and
counters alone (`Alone`) and changes only its own listing's records (`Away`), so each
argument is about one run on one listing:

* `EveryCandidateCounted` by `Seen`: memory covers what was committed; what was
  examined and left is counted or raised; a run with a target that met a listing that
  raised stands before the read of the expired job, or is over.
* `NewIsCreated` by `Rows`, `Mine`, `Records`, `Knows`: a row and who inserted it last
  (`Grows`); a run inserts only listings it examined, and examines each once, so what
  it counts «updated» it did not insert before, but in an attempt that failed.
* `LeadsAgree` and `SkipsAgree` by `Smooth`, for a listing neither `shared` nor
  `struck`: one run at most is on it (`Exclusive`), which knows where row and lead
  stand between their commits (`Course`) and that a search goes on with no listing
  that has its number (`Lacks`).
* `GapsAreListed` by `Tracked`, which holds with any number of runs on a listing: a
  gap is on the list, or somebody on the listing is about to store the number or to
  write it down. `Spoilt` shows that no run dies at the tally between the two
  without a fault.

`StoredNumbersStay` needs no such excuse: with two runs on a listing and faults between
any two commits, a stored number stays in the listing and in its lead, and nobody
inserts a listing a second time.

## 11. Disagreements seen without a run of their own

Seen in the model's steps, and some noted with the hazards; the steps are modelled as
the code has them, and the properties are stated so as to hold.

* A pending row a sweep has classified stale may be taken by the same process
  before the UPDATE that fails it, against «runs this process holds are never
  touched» (`scrape_queue.py:305-306`).
* A row that waited 24 hours in the list is failed with its entry still queued,
  against `scrape_queue.py:302-305`.
* A code can be parked just after the prompt it was meant for looked for it; the
  two wait beside each other until the code expires, against
  `scraper.py:1524-1525`. A claim throws away a held copy for a mark that is then
  given back. A resend request that read a prompt before it was closed writes the
  flag to a new hash without a TTL.
* The DEL at the head of `request()` clears the signals that are there, but `submit`
  pushes one a round trip after its EXEC (`otp_store.py:713`): the push of an earlier
  round that lands after the DEL wakes the new prompt on a code it was never given,
  `pop_code` deletes the prompt and the challenge is left, against «starts from a
  clean slate» (`otp_store.py:584-588`).
* A single worker whose job opened a profile through Redis opens it a second time
  while Redis is away, against «single-worker deployments stay safe»
  (`stealth.py:295-297`): the fallback set never learns of locks taken in Redis.
* A failed reading of a changed content is never retried, against `read_listing`'s
  «retried on a later pass»: the fingerprint is recorded and the older reading's
  date and version stand, so `_pending` no longer offers the listing, which keeps
  the facts of its older content.
* A fresher reading of the same content does not make a listing due for judging,
  against `match_engine.py:63-64`.
* A schedule edited between a tick's read and its record keeps the old hour's
  `next_run_at`, against `scraper.py:589-590`; one switched off then still fires.

* With two numbers and the current one walled, the pool of one is the other number,
  `len(pool) < 2` takes it for «nothing to rotate to» (`divar_scraper.py:3467`) and
  the run reveals on with the walled one, against «this account is done for»
  (`divar_scraper.py:3347`). A number just switched off is left only when its budget
  is spent if the run was still moving onto it (`auth.py:771`).
* On PostgreSQL an appointment's time comes back with a zone and is compared with
  `datetime.now()`, which has none: the pass raises at its first row, each minute,
  against «Text attendees whose appointment is coming up» (`main.py:838`).
* A PATCH that moves a reminder which has fired leaves `is_sent`: the new time never
  fires (`crm.py:2394`).
* The handler of one listing rolls its own `failed_items += 1` back and leaves the job
  expired: a whole-day run does not report the failure, a run with a target ends as
  failed at the next look at its counter, against «would turn one bad listing into a
  dead job» (`divar_scraper.py:4813-4814`).
* The rollback of `fill_lead_from_property` takes back the number that was about to
  be committed with it, and the message about it reads the expired listing and
  raises, against «a listing saved must not be un-saved over bookkeeping»
  (`divar_scraper.py:3980`).
* An insert whose answer was lost finds its own row at the second attempt, counts as
  an update and never gets a lead.
* `allocate_serial_no` is «Concurrency-safe enough for our single-writer scraper»
  (`models/property.py`), and up to three runs write: the second of two inserts that
  read the same MAX fails, and its listing, a reveal spent on it, counts as failed.
* A profile whose setup fails after the launch is not released
  (`stealth.py:642`): the process's refresher keeps it locked.

## 12. Not modelled

Each component's note in `PROJECT.json` says why. In short: pages, parsers,
captcha and model calls are outside or pure text; CRUD routes are one transaction
each and have no state between requests; what is left with a protocol of its own
(login throttle, price watch, once-a-day messages) is in the plan above, behind what the runs already ask. Their
hazards, known but not yet modelled: counters read before the pipeline that
writes them (`verification.py:168`), a cursor that passes a price move committed
late (`price_watch.py:83`), a digest sent again when its date was not recorded
(`digest.py:166`), a bundle removed once one chat has it (`dr_backup.py:201`), a
maintenance flag read before a write and cached after it (`maintenance.py:116`).

Inside the modelled parts these are left out: the content of listings and codes,
scores and customers, prices, images and logs of a run, login codes, what a code
function returns while Redis is away, a worker's death inside a challenge, the
seconds of a back-off, and real time beyond the comparisons named above.

## 13. Running it

`tlc -config ScrapeQueueSafety.cfg MCScrapeQueue.tla` and likewise for the other
`.cfg` files; `tlapm ScrapeQueueProofs.tla`, `OtpStoreProofs.tla`, `ProfileLockProofs.tla`,
`ScrapeSchedulerProofs.tla`, `ListingPassesProofs.tla`, `RemindersProofs.tla`,
`ScrapeRunProofs.tla`, `AccountRotationProofs.tla`. `queue_revived` states what the
repository says and the code does not keep, and ends in a counterexample. `TypeOK` documents the state
of each module; where there are proofs it is proved (`TypeCorrect`). A definition commented as a mutant is a
plausible bug in the definition after it: with it in place, TLC finds the property
it is listed with in `PROJECT.json` violated. Deadlock is not checked: when every
job has settled, every SMS was handled or every browser is closed, the system may
stop.

Every invariant and every action property of the passing runs, and each of the three
refinements, is also a theorem for all values of the constants. The six liveness
properties (`EveryJobSettles`, `EveryWaitEnds`, `EveryLockIsFreed`, `DueIsFired`,
`EveryChangeIsJudged`, `EveryDueIsHandled`) stay with TLC: each
needs ENABLED of a fair action and an induction over a bound (faults, slices, hours),
which the provers here do not have. There are no `RECURSIVE` operators.
