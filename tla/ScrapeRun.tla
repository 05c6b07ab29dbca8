----------------------------- MODULE ScrapeRun -----------------------------
(***************************************************************************)
(* The listings of a run (start_scraping_job and save_property of          *)
(* app/scraper/divar_scraper.py, app/services/skipped_listings.py,          *)
(* app/crm/lead_service.py).  Runs walk over their candidates and keep four *)
(* records of them: the listing's row, its lead, the list of what was       *)
(* skipped and the counters of the job.  Counters are attributes of an      *)
(* object of the run's session: a rollback takes back what was not          *)
(* committed and expires the object, and reading an expired attribute       *)
(* raises.  Other records are committed by sessions of their own.           *)
(***************************************************************************)
EXTENDS Naturals, FiniteSets

CONSTANTS
  Runs, Listings, None,
  Targets,      \* max_items a run over a search may be given; 0 is a whole day, without a target
  Pool,         \* bound: candidates of each run
  MaxFaults     \* bound: statements and listings that fail, crashes, cancels

ASSUME Limits == Targets \in [Runs -> SUBSET Nat] /\ Pool \in [Runs -> Nat] /\ MaxFaults \in Nat
ASSUME Apart == None \notin Runs \cup Listings
ASSUME Finite == IsFiniteSet(Listings)

VARIABLES
  prop,      \* the row of a listing: none, without a number, chat only, full
  lead,      \* its lead in the CRM: none, without a number, full
  skipped,   \* the skipped list: run and listing
  status,    \* the job's row ...
  counted,   \* ... and what its counters (and the run's tallies) say of each listing
  mem,       \* the same in the run's memory
  expired,   \* the run's job object has been expired by a rollback
  at,        \* where the run is, the listing it is on and what it knows of it
  links,     \* runs over a list of links (urls)
  cap,       \* max_items
  todo, examined,
  created,   \* history: the run that inserted a listing
  raised,    \* history: listings of a run that ended in its handler
  shared,    \* history: listings two runs were on at once
  struck,    \* history: listings whose scrape met a fault
  faults

tables == <<prop, lead, skipped, created>>
job == <<status, counted>>
session == <<mem, expired>>
loop == <<links, cap, todo, examined>>
history == <<raised, shared, struck>>
vars == <<tables, job, session, at, loop, history, faults>>

Contents == {"bare", "chat", "full"}
Counts == {"none", "new", "updated", "failed", "dropped"}
Saving == {"save", "insert", "fill", "resolve", "update", "lead"}
Places == {"idle", "top", "look", "page", "tally", "note", "progress", "filtered", "jot", "rotate", "over"} \cup Saving

\* res: what save_property did; again: its first attempt lost the connection.
Listing == [pc : Places, cur : Listings \cup {None}, got : Contents, was : Contents \cup {"none"},
            seen : SUBSET Listings, again : BOOLEAN, res : {"none", "created", "updated"}]
Place(pc, l) == [pc |-> pc, cur |-> l, got |-> "bare", was |-> "none", seen |-> {}, again |-> FALSE, res |-> "none"]

TypeOK ==
  /\ prop \in [Listings -> Contents \cup {"none"}] /\ lead \in [Listings -> {"none", "bare", "full"}]
  /\ skipped \subseteq Runs \X Listings
  /\ status \in [Runs -> {"running", "completed", "failed", "cancelled"}]
  /\ counted \in [Runs -> [Listings -> Counts]] /\ mem \in [Runs -> [Listings -> Counts]]
  /\ expired \subseteq Runs /\ at \in [Runs -> Listing]
  /\ links \subseteq Runs /\ cap \in [Runs -> Nat] /\ todo \in [Runs -> SUBSET Listings] /\ examined \in [Runs -> SUBSET Listings]
  /\ created \in [Listings -> Runs \cup {None}] /\ raised \in [Runs -> SUBSET Listings]
  /\ shared \subseteq Listings /\ struck \subseteq Listings /\ faults \in 0..MaxFaults

Uncounted == [l \in Listings |-> "none"]

Init ==
  /\ prop = [l \in Listings |-> "none"] /\ lead = [l \in Listings |-> "none"] /\ skipped = {}
  /\ status = [r \in Runs |-> "running"]
  /\ counted = [r \in Runs |-> Uncounted] /\ mem = [r \in Runs |-> Uncounted] /\ expired = {}
  /\ at = [r \in Runs |-> Place("idle", None)]
  /\ links = {} /\ cap = [r \in Runs |-> 0] /\ todo = [r \in Runs |-> {}] /\ examined = [r \in Runs |-> {}]
  /\ created = [l \in Listings |-> None] /\ raised = [r \in Runs |-> {}]
  /\ shared = {} /\ struck = {} /\ faults = 0

On(r) == at[r].cur
Goes(r, pc) == at' = [at EXCEPT ![r] = [@ EXCEPT !.pc = pc]]
Ends(r) == at' = [at EXCEPT ![r] = Place("over", None)]
Stored == {l \in Listings : prop[l] # "none"}

-----------------------------------------------------------------------------
\* The loop.

\* The candidates: the links, as many as are asked for, or what the search gives.
\* Divar may refuse, or the collection fail.
Collect(r) ==
  /\ at[r].pc = "idle"
  /\ \/ /\ \E S \in SUBSET Listings :
             /\ Cardinality(S) <= Pool[r] /\ todo' = [todo EXCEPT ![r] = S]
             /\ \/ \E n \in Targets[r] : cap' = [cap EXCEPT ![r] = n] /\ UNCHANGED links
                \/ /\ S # {} /\ links' = links \cup {r}
                   /\ cap' = [cap EXCEPT ![r] = Cardinality(S)]
        /\ Goes(r, "top") /\ UNCHANGED status
     \/ Ends(r) /\ status' = [status EXCEPT ![r] = "failed"] /\ UNCHANGED <<links, cap, todo>>
  /\ UNCHANGED <<tables, counted, session, examined, history, faults>>

Reached(r) == cap[r] > 0 /\ Cardinality({l \in Listings : mem[r][l] = "new"}) >= cap[r]

\* What a refresh, or a rollback, leaves of the counters; the tallies of what was
\* dropped are the run's own.
Reread(r) == [l \in Listings |-> IF mem[r][l] = "dropped" THEN "dropped" ELSE counted[r][l]]

\* The next candidate, once the job was read again and is not cancelled.
Top(r) ==
  /\ at[r].pc = "top" /\ todo[r] # {} /\ (cap[r] > 0 => r \notin expired) /\ ~Reached(r)
  /\ mem' = [mem EXCEPT ![r] = Reread(r)] /\ expired' = expired \ {r}
  /\ IF status[r] = "cancelled"
     THEN Ends(r) /\ UNCHANGED <<loop, shared>>
     ELSE /\ UNCHANGED <<links, cap>>
          /\ \E l \in todo[r] :
            /\ at' = [at EXCEPT ![r] = Place("look", l)]
            /\ todo' = [todo EXCEPT ![r] = @ \ {l}] /\ examined' = [examined EXCEPT ![r] = @ \cup {l}]
            /\ shared' = IF \E q \in Runs \ {r} : On(q) = l THEN shared \cup {l} ELSE shared
  /\ UNCHANGED <<tables, job, raised, struck, faults>>

\* Complete, or a poster who only chats: counted and left.
IsComplete(l) == prop[l] \in {"chat", "full"}

Look(r) ==
  /\ at[r].pc = "look"
  /\ IF r \notin links /\ IsComplete(On(r))
     THEN /\ mem' = [mem EXCEPT ![r][On(r)] = "updated"] /\ counted' = [counted EXCEPT ![r] = mem'[r]]
          /\ at' = [at EXCEPT ![r] = Place("top", None)]
     ELSE Goes(r, "page") /\ UNCHANGED <<mem, counted>>
  /\ UNCHANGED <<tables, status, expired, loop, history, faults>>

\* scrape_property_detail: an error, a deleted or off-category listing, one that a
\* filter drops, or one to keep, with what came of the reveal.
Page(r) ==
  /\ at[r].pc = "page"
  /\ \/ \E k \in {"failed", "dropped"} : mem' = [mem EXCEPT ![r][On(r)] = k] /\ Goes(r, "note")
     \/ mem' = [mem EXCEPT ![r][On(r)] = "dropped"] /\ Goes(r, "filtered")
     \/ /\ \E g \in Contents : at' = [at EXCEPT ![r] = [Place("save", On(r)) EXCEPT !.got = g]]
        /\ UNCHANGED mem
  /\ UNCHANGED <<tables, job, expired, loop, history, faults>>

\* skipped_listings.record; a filtered listing is written down after its commit.
Note(r) ==
  /\ at[r].pc \in {"note", "jot"}
  /\ skipped' = skipped \cup {<<r, On(r)>>}
  /\ Goes(r, IF at[r].pc = "note" THEN "progress" ELSE "rotate")
  /\ UNCHANGED <<prop, lead, created, job, session, loop, history, faults>>

\* Mutant of Progress: the counters wait for a later commit.
ProgressLater(r) ==
  /\ at[r].pc \in {"progress", "filtered"}
  /\ Goes(r, IF at[r].pc = "progress" THEN "rotate" ELSE "jot")
  /\ UNCHANGED <<tables, job, session, loop, history, faults>>

Progress(r) ==
  /\ at[r].pc \in {"progress", "filtered"}
  /\ counted' = [counted EXCEPT ![r] = mem[r]]
  /\ Goes(r, IF at[r].pc = "progress" THEN "rotate" ELSE "jot")
  /\ UNCHANGED <<tables, status, session, loop, history, faults>>

\* Another account perhaps, its number noted on the job, a commit and a pause.
Rotate(r) ==
  /\ at[r].pc = "rotate" /\ r \notin expired
  /\ at' = [at EXCEPT ![r] = Place("top", None)]
  /\ UNCHANGED <<tables, job, session, loop, history, faults>>

Finish(r) ==
  /\ at[r].pc = "top" /\ r \notin expired /\ (todo[r] = {} \/ Reached(r))
  /\ status' = [status EXCEPT ![r] = "completed"] /\ counted' = [counted EXCEPT ![r] = mem[r]]
  /\ Ends(r) /\ UNCHANGED <<tables, session, loop, history, faults>>

-----------------------------------------------------------------------------
\* save_property.

\* The row, and MAX + 1 for a new one's serial number.
Read(r) ==
  /\ at[r].pc = "save"
  /\ LET l == On(r)
         was == prop[l]
     IN at' = [at EXCEPT ![r] =
          [pc |-> IF was = "none" THEN "insert" ELSE IF "full" \in {was, at[r].got} THEN "fill" ELSE "update",
           cur |-> l, got |-> at[r].got, was |-> was, seen |-> Stored, again |-> at[r].again, res |-> "none"]]
  /\ UNCHANGED <<tables, job, session, loop, history, faults>>

\* save_property gives up: rolled back, nothing returned.
GivesUp(r) ==
  /\ at' = [at EXCEPT ![r] = [@ EXCEPT !.pc = "tally", !.res = "none"]]
  /\ mem' = [mem EXCEPT ![r] = Reread(r)] /\ expired' = expired \cup {r}

Inserted(r) ==
  /\ prop' = [prop EXCEPT ![On(r)] = at[r].got] /\ created' = [created EXCEPT ![On(r)] = r]

\* divar_id and serial_no are unique: a row another run inserted meanwhile, of this
\* listing or any other, fails the commit.
Insert(r) ==
  /\ at[r].pc = "insert"
  /\ IF Stored = at[r].seen
     THEN /\ Inserted(r) /\ UNCHANGED session
          /\ at' = [at EXCEPT ![r] = [@ EXCEPT !.pc = IF at[r].got = "full" THEN "fill" ELSE "lead",
                                               !.res = "created"]]
     ELSE GivesUp(r) /\ UNCHANGED <<prop, created>>
  /\ UNCHANGED <<lead, skipped, job, loop, history, faults>>

\* The columns that differ from what was loaded; a number is never taken away.
Rewritten(r) ==
  LET is == prop[On(r)]
  IN IF "full" \in {is, at[r].got} THEN "full" ELSE IF at[r].got = at[r].was THEN is ELSE at[r].got

\* Mutant of Filled: the lead of an updated listing is left alone.
FilledNever(r) == UNCHANGED <<prop, lead>>

\* fill_lead_from_property: its commit writes the listing too.
Filled(r) ==
  IF lead[On(r)] = "bare"
  THEN lead' = [lead EXCEPT ![On(r)] = "full"] /\ prop' = [prop EXCEPT ![On(r)] = Rewritten(r)]
  ELSE UNCHANGED <<prop, lead>>

Fill(r) ==
  /\ at[r].pc = "fill" /\ Filled(r) /\ Goes(r, "resolve")
  /\ UNCHANGED <<skipped, created, job, session, loop, history, faults>>

\* Mutant of Resolved: only for a listing that was stored before.
ResolvedIfStored(r) == IF at[r].was = "none" THEN skipped ELSE {s \in skipped : s[2] # On(r)}

Resolved(r) == {s \in skipped : s[2] # On(r)}

AfterResolve(r) == Goes(r, IF at[r].res = "created" THEN "lead" ELSE "update")

Resolve(r) ==
  /\ at[r].pc = "resolve" /\ skipped' = Resolved(r) /\ AfterResolve(r)
  /\ UNCHANGED <<prop, lead, created, job, session, loop, history, faults>>

Update(r) ==
  /\ at[r].pc = "update" /\ prop' = [prop EXCEPT ![On(r)] = Rewritten(r)]
  /\ at' = [at EXCEPT ![r] = [@ EXCEPT !.pc = "tally", !.res = "updated"]]
  /\ UNCHANGED <<lead, skipped, created, job, session, loop, history, faults>>

Led(r) == lead' = [lead EXCEPT ![On(r)] = IF @ # "none" THEN @ ELSE IF at[r].got = "full" THEN "full" ELSE "bare"]

\* process_new_property: the lead of a new listing, as this run knows it.
CreateLead(r) ==
  /\ at[r].pc = "lead" /\ Led(r) /\ Goes(r, "tally")
  /\ UNCHANGED <<prop, skipped, created, job, session, loop, history, faults>>

\* Mutant of Verdict: every success is «new».
VerdictNew(r) ==
  IF at[r].res = "none" \/ at[r].got = "bare" THEN "failed"
  ELSE IF at[r].got = "chat" THEN "dropped" ELSE "new"

\* What a saved listing counts as.
Verdict(r) ==
  IF at[r].res = "none" \/ at[r].got = "bare" THEN "failed"
  ELSE IF at[r].got = "chat" THEN "dropped"
  ELSE IF at[r].res = "created" THEN "new" ELSE "updated"

\* Mutant of IsNoted: a listing saved without a number is not written down.
IsNotedUnsaved(r) == at[r].res = "none"

IsNoted(r) == at[r].res = "none" \/ at[r].got # "full"

\* The job is read again where the save is known to have rolled back.
Guarded(r) == at[r].res = "none" \/ at[r].again

\* Only a tally of the run's own can be raised on an expired job.
Tally(r) ==
  /\ at[r].pc = "tally" /\ (r \in expired => Guarded(r) \/ Verdict(r) = "dropped")
  /\ mem' = [mem EXCEPT ![r][On(r)] = Verdict(r)]
  /\ expired' = IF Guarded(r) THEN expired \ {r} ELSE expired
  /\ Goes(r, IF IsNoted(r) THEN "note" ELSE "progress")
  /\ UNCHANGED <<tables, job, loop, history, faults>>
-----------------------------------------------------------------------------
\* Failures.

\* The run ends as failed, by its own outer handler or its caller's.
Dies(r) ==
  /\ status' = [status EXCEPT ![r] = "failed"] /\ Ends(r)
  /\ UNCHANGED <<tables, counted, session, loop>>

\* An attribute of the expired job is read.
ReadsExpired(r) ==
  /\ r \in expired
  /\ \/ at[r].pc = "top" /\ (cap[r] > 0 \/ todo[r] = {})
     \/ at[r].pc = "tally" /\ ~Guarded(r) /\ Verdict(r) # "dropped"
     \/ at[r].pc = "rotate"
  /\ Dies(r) /\ UNCHANGED <<history, faults>>

Fault == faults < MaxFaults /\ faults' = faults + 1
Strikes(r) == Fault /\ struck' = IF On(r) = None THEN struck ELSE struck \cup {On(r)}

\* The handler of a listing: it counts a failure, writes the listing down, and its
\* rollback takes the count back and expires the job.
Raises(r) ==
  /\ at[r].pc \in {"look", "page", "progress", "filtered", "rotate"} /\ r \notin expired
  /\ Strikes(r)
  /\ raised' = [raised EXCEPT ![r] = @ \cup {On(r)}] /\ skipped' = skipped \cup {<<r, On(r)>>}
  /\ mem' = [mem EXCEPT ![r] = Reread(r)] /\ expired' = expired \cup {r}
  /\ at' = [at EXCEPT ![r] = Place("top", None)]
  /\ UNCHANGED <<prop, lead, created, job, loop, shared>>

\* What failed has expired the job already (a refresh, a flush): the handler raises.
RaisesHard(r) ==
  /\ at[r].pc \in {"top", "look", "tally", "progress", "filtered", "rotate"}
  /\ Strikes(r) /\ Dies(r) /\ UNCHANGED <<raised, shared>>

\* property_exists says no when it cannot tell.
LooksInVain(r) ==
  /\ at[r].pc = "look" /\ Strikes(r) /\ Goes(r, "page")
  /\ UNCHANGED <<tables, job, session, loop, raised, shared>>

\* What a commit that raised did: nothing, or all of it with its answer lost.
Lands(r) ==
  /\ \/ UNCHANGED <<prop, lead, created>>
     \/ at[r].pc = "insert" /\ Stored = at[r].seen /\ Inserted(r) /\ UNCHANGED lead
     \/ at[r].pc = "update" /\ prop' = [prop EXCEPT ![On(r)] = Rewritten(r)] /\ UNCHANGED <<lead, created>>
     \/ at[r].pc = "fill" /\ Filled(r) /\ UNCHANGED created
     \/ at[r].pc = "lead" /\ Led(r) /\ UNCHANGED <<prop, created>>
  /\ UNCHANGED skipped

\* A connection lost in the save is tried once more.
SaveDrops(r) ==
  /\ at[r].pc \in {"save", "insert", "update"} /\ ~at[r].again
  /\ Strikes(r) /\ Lands(r)
  /\ at' = [at EXCEPT ![r] = [Place("save", On(r)) EXCEPT !.got = at[r].got, !.again = TRUE]]
  /\ mem' = [mem EXCEPT ![r] = Reread(r)] /\ expired' = expired \cup {r}
  /\ UNCHANGED <<job, loop, raised, shared>>

\* Any other error, a second lost connection, and an error while the lead is filled:
\* the rollback of fill_lead_from_property expires the listing, and reading its
\* divar_id raises once more where nothing was to raise.
SaveFails(r) ==
  /\ at[r].pc \in {"save", "insert", "update", "fill"}
  /\ Strikes(r) /\ Lands(r) /\ GivesUp(r)
  /\ UNCHANGED <<job, loop, raised, shared>>

\* An error in the CRM's pipeline is kept there, its rollback is not.
LeadFails(r) ==
  /\ at[r].pc = "lead" /\ Strikes(r) /\ Lands(r) /\ Goes(r, "tally")
  /\ mem' = [mem EXCEPT ![r] = Reread(r)] /\ expired' = expired \cup {r}
  /\ UNCHANGED <<job, loop, raised, shared>>

\* The skipped list's own session fails, and nobody hears of it.
NotebookFails(r) ==
  /\ Strikes(r)
  /\ \/ at[r].pc = "resolve" /\ AfterResolve(r)
     \/ at[r].pc \in {"note", "jot"} /\ Goes(r, IF at[r].pc = "note" THEN "progress" ELSE "rotate")
  /\ UNCHANGED <<tables, job, session, loop, raised, shared>>

Crash(r) ==
  /\ at[r].pc \notin {"idle", "over"} /\ Strikes(r) /\ Ends(r)
  /\ UNCHANGED <<tables, job, session, loop, raised, shared>>

Cancel(r) ==
  /\ status[r] = "running" /\ status' = [status EXCEPT ![r] = "cancelled"]
  /\ Fault /\ UNCHANGED <<tables, counted, session, at, loop, history>>

Next == \E r \in Runs :
  \/ Collect(r) \/ Top(r) \/ Look(r) \/ Page(r) \/ Note(r) \/ Progress(r) \/ Rotate(r) \/ Finish(r)
  \/ Read(r) \/ Insert(r) \/ Fill(r) \/ Resolve(r) \/ Update(r) \/ CreateLead(r) \/ Tally(r)
  \/ ReadsExpired(r) \/ Raises(r) \/ RaisesHard(r) \/ LooksInVain(r)
  \/ SaveDrops(r) \/ SaveFails(r) \/ LeadFails(r) \/ NotebookFails(r) \/ Crash(r) \/ Cancel(r)

Spec == Init /\ [][Next]_vars
-----------------------------------------------------------------------------
\* «Every candidate, accounted for» (divar_scraper.py:5038): a completed run has
\* counted each listing it examined, but for those that raised, whose count the
\* handler's own rollback takes back; and a run with a target that met one of these
\* does not complete at all.
EveryCandidateCounted == \A r \in Runs : status[r] = "completed" =>
  /\ \A l \in examined[r] : counted[r][l] # "none" \/ l \in raised[r]
  /\ cap[r] > 0 => raised[r] = {}

\* «New» is a listing this run inserted, with its number; «updated» one it did not
\* insert, unless the answer to its insert was lost (divar_scraper.py:4796-4806).
NewIsCreated == \A r \in Runs, l \in Listings :
  /\ counted[r][l] = "new" => created[l] = r /\ prop[l] = "full"
  /\ counted[r][l] = "updated" => prop[l] # "none" /\ (created[l] # r \/ l \in struck)

Settled(l) == \A r \in Runs : On(r) # l

\* The lead of a stored listing has the number if the listing has it, unless two
\* runs were on the listing at once or its scrape met a fault («make every other
\* record agree», divar_scraper.py:3972).
LeadsAgree == \A l \in Stored \ (shared \cup struck) :
  Settled(l) => lead[l] = IF prop[l] = "full" THEN "full" ELSE "bare"

\* The skipped list offers no listing whose number is stored, but for a link that
\* was scraped again in vain, two runs at once, or a fault
\* (skipped_listings.py:111-118).
SkipsAgree == \A s \in skipped :
  prop[s[2]] = "full" /\ Settled(s[2]) => s[1] \in links \/ s[2] \in shared \cup struck

\* What a run failed to get is on the skipped list until its number is stored,
\* whatever other runs do at the same time: the list is «what still needs a hand»
\* (skipped_listings.py:118).
GapsAreListed == \A l \in Listings \ struck : Settled(l) =>
  /\ prop[l] = "bare" => \E r \in Runs : <<r, l>> \in skipped
  /\ \A r \in Runs : counted[r][l] = "failed" => <<r, l>> \in skipped \/ prop[l] = "full"
=============================================================================
