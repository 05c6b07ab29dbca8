-------------------------- MODULE ScrapeRunProofs --------------------------
(***************************************************************************)
(* What holds of ScrapeRun for any runs, listings, targets and faults: the  *)
(* types, what a counter stands for, and that the listing's row, its lead   *)
(* and the skipped list agree.                                              *)
(***************************************************************************)
EXTENDS ScrapeRun, FiniteSetTheorems, TLAPS

(* Types.                                                                   *)

\* What a step makes of the place of a run, and of nobody else's.
Moved(r, p) == /\ at'[r] = p /\ at' \in [Runs -> Listing]
               /\ \A q \in Runs \ {r} : at'[q] = at[q]

Same(p, q) == /\ p.cur = q.cur /\ p.got = q.got /\ p.was = q.was /\ p.seen = q.seen
              /\ p.again = q.again /\ p.res = q.res

LEMMA Moving ==
    ASSUME TypeOK, NEW r \in Runs, NEW p \in Listing, at' = [at EXCEPT ![r] = p]
    PROVE  Moved(r, p)
BY DEF Moved, TypeOK

LEMMA Placing ==
    ASSUME TypeOK, NEW r \in Runs, NEW pc \in Places, NEW l \in Listings \cup {None},
           at' = [at EXCEPT ![r] = Place(pc, l)]
    PROVE  /\ Moved(r, at'[r]) /\ at'[r].pc = pc /\ at'[r].cur = l /\ at'[r].res = "none"
           /\ at'[r].again = FALSE
<1> DEFINE p == Place(pc, l)
<1>1. p \in Listing /\ p.pc = pc /\ p.cur = l /\ p.res = "none" /\ p.again = FALSE
      BY DEF Place, Listing, Contents
<1>2. at' = [at EXCEPT ![r] = p]  OBVIOUS
<1> HIDE DEF p
<1>3. Moved(r, p)  BY <1>1, <1>2, Moving
<1> QED BY <1>1, <1>3 DEF Moved

LEMMA Going ==
    ASSUME TypeOK, NEW r \in Runs, NEW pc \in Places, Goes(r, pc)
    PROVE  Moved(r, at'[r]) /\ at'[r].pc = pc /\ Same(at'[r], at[r])
<1> DEFINE p == [at[r] EXCEPT !.pc = pc]
<1>1. at[r] \in Listing  BY DEF TypeOK
<1>2. p \in Listing /\ p.pc = pc /\ Same(p, at[r])  BY <1>1 DEF Same, Listing
<1>3. at' = [at EXCEPT ![r] = p]  BY DEF Goes
<1> HIDE DEF p
<1>4. Moved(r, p)  BY <1>2, <1>3, Moving
<1> QED BY <1>2, <1>4 DEF Moved

LEMMA Looking ==
    ASSUME TypeOK, NEW r \in Runs, NEW l \in Listings, at' = [at EXCEPT ![r] = Place("look", l)]
    PROVE  at'[r].pc = "look" /\ at'[r].cur = l /\ at'[r].res = "none"
<1>1. "look" \in Places /\ l \in Listings \cup {None}  BY DEF Places
<1> QED BY <1>1, Placing

LEMMA Ending ==
    ASSUME TypeOK, NEW r \in Runs, Ends(r)
    PROVE  Moved(r, at'[r]) /\ at'[r].pc = "over" /\ at'[r].cur = None
<1>1. "over" \in Places /\ None \in Listings \cup {None}  BY DEF Places
<1>2. at' = [at EXCEPT ![r] = Place("over", None)]  BY DEF Ends
<1> QED BY <1>1, <1>2, Placing

\* A save that is answered: what it did is noted.
LEMMA Answering ==
    ASSUME TypeOK, NEW r \in Runs, NEW pc \in Places, NEW res \in {"none", "created", "updated"},
           at' = [at EXCEPT ![r] = [at[r] EXCEPT !.pc = pc, !.res = res]]
    PROVE  /\ Moved(r, at'[r]) /\ at'[r].pc = pc /\ at'[r].res = res
           /\ at'[r].cur = at[r].cur /\ at'[r].got = at[r].got /\ at'[r].was = at[r].was
           /\ at'[r].seen = at[r].seen /\ at'[r].again = at[r].again
<1> DEFINE p == [at[r] EXCEPT !.pc = pc, !.res = res]
<1>1. at[r] \in Listing  BY DEF TypeOK
<1>2. p \in Listing /\ p.pc = pc /\ p.res = res
      /\ p.cur = at[r].cur /\ p.got = at[r].got /\ p.was = at[r].was
      /\ p.seen = at[r].seen /\ p.again = at[r].again
      BY <1>1 DEF Listing
<1>3. at' = [at EXCEPT ![r] = p]  OBVIOUS
<1> HIDE DEF p
<1>4. Moved(r, p)  BY <1>2, <1>3, Moving
<1> QED BY <1>2, <1>4 DEF Moved

LEMMA RereadType == ASSUME TypeOK, NEW r \in Runs PROVE Reread(r) \in [Listings -> Counts]
BY DEF TypeOK, Reread, Counts

LEMMA RewrittenType ==
    ASSUME TypeOK, NEW r \in Runs, On(r) \in Listings, prop[On(r)] # "none"
    PROVE  Rewritten(r) \in Contents
<1>1. prop[On(r)] \in Contents /\ at[r].got \in Contents  BY DEF TypeOK, Listing
<1> QED BY <1>1 DEF Rewritten, Contents

\* A run between Top and Rotate is on a listing; from Fill on the listing is stored.
OnListing(r) ==
    /\ at[r].cur = None <=> at[r].pc \in {"idle", "top", "over"}
    /\ at[r].pc \in {"fill", "resolve", "update", "lead"} => prop[at[r].cur] # "none"
    /\ at[r].pc = "tally" /\ at[r].res # "none" => prop[at[r].cur] # "none"
    /\ at[r].pc \in {"fill", "resolve", "update"} /\ at[r].res # "created" => at[r].was # "none"
    /\ at[r].pc \in {"lead"} => at[r].res = "created"
    /\ at[r].pc \in {"fill", "resolve"} => at[r].res \in {"none", "created"}
    /\ at[r].pc = "update" => at[r].res = "none"
    /\ at[r].pc \in {"look", "page", "save", "insert"} => at[r].res = "none"

TypeInv == TypeOK /\ \A r \in Runs : OnListing(r)

LEMMA InitType == Init => TypeInv
<1> SUFFICES ASSUME Init PROVE TypeInv OBVIOUS
<1>1. "idle" \in Places /\ None \in Listings \cup {None}  BY DEF Places
<1>2. Place("idle", None) \in Listing  BY <1>1 DEF Place, Listing, Contents
<1>3. TypeOK  BY <1>2, Limits DEF Init, TypeOK, Uncounted, Counts
<1>4. \A r \in Runs : OnListing(r)  BY Apart DEF Init, OnListing, Place
<1> QED BY <1>3, <1>4 DEF TypeInv

\* The parts of the types.
PropOK == prop \in [Listings -> Contents \cup {"none"}] /\ created \in [Listings -> Runs \cup {None}]
LeadOK == lead \in [Listings -> {"none", "bare", "full"}]
JobOK == /\ status \in [Runs -> {"running", "completed", "failed", "cancelled"}]
         /\ counted \in [Runs -> [Listings -> Counts]]
SessionOK == mem \in [Runs -> [Listings -> Counts]] /\ expired \subseteq Runs
LoopOK == /\ links \subseteq Runs /\ cap \in [Runs -> Nat] /\ todo \in [Runs -> SUBSET Listings]
          /\ examined \in [Runs -> SUBSET Listings]
HistoryOK == /\ raised \in [Runs -> SUBSET Listings] /\ shared \subseteq Listings /\ struck \subseteq Listings
FaultsOK == faults \in 0..MaxFaults
SkippedOK == skipped \subseteq Runs \X Listings

LEMMA Parts ==
    TypeOK <=> /\ PropOK /\ LeadOK /\ SkippedOK /\ JobOK /\ SessionOK /\ at \in [Runs -> Listing]
               /\ LoopOK /\ HistoryOK /\ FaultsOK
BY DEF TypeOK, PropOK, LeadOK, SkippedOK, JobOK, SessionOK, LoopOK, HistoryOK, FaultsOK

\* A stored listing stays stored.
Keeps == \A l \in Listings : prop[l] # "none" => prop'[l] # "none"

\* Other runs stay where they are.
LEMMA OthersStay ==
    ASSUME TypeInv, NEW r \in Runs, Moved(r, at'[r]), Keeps, OnListing(r)'
    PROVE  \A q \in Runs : OnListing(q)'
<1>1. \A q \in Runs \ {r} : at[q].cur \in Listings \cup {None}  BY DEF TypeInv, TypeOK, Listing
<1>2. ASSUME NEW q \in Runs \ {r} PROVE OnListing(q)'
      BY <1>1, <1>2, Apart DEF TypeInv, OnListing, Moved, Keeps
<1> QED BY <1>2

LEMMA RewrittenKeeps ==
    ASSUME TypeInv, NEW r \in Runs, On(r) \in Listings, prop[On(r)] # "none",
           prop' = [prop EXCEPT ![On(r)] = Rewritten(r)]
    PROVE  Keeps /\ prop'[On(r)] # "none"
           /\ prop' \in [Listings -> Contents \cup {"none"}]
<1>1. Rewritten(r) \in Contents  BY RewrittenType DEF TypeInv
<1>2. Rewritten(r) # "none"  BY <1>1 DEF Contents
<1>3. prop \in [Listings -> Contents \cup {"none"}]  BY DEF TypeInv, TypeOK
<1> QED BY <1>1, <1>2, <1>3 DEF PropOK, Keeps

LEMMA InsertedKeeps ==
    ASSUME TypeInv, NEW r \in Runs, On(r) \in Listings, Inserted(r)
    PROVE  PropOK' /\ Keeps /\ prop'[On(r)] = at[r].got /\ prop'[On(r)] # "none"
<1>1. at[r].got \in Contents /\ at[r].got # "none"  BY DEF TypeInv, TypeOK, Listing, Contents
<1> QED BY <1>1 DEF Inserted, TypeInv, TypeOK, PropOK, Keeps

LEMMA LedType == ASSUME TypeInv, NEW r \in Runs, Led(r) PROVE LeadOK'
BY DEF TypeInv, TypeOK, Led, LeadOK

LEMMA FilledType ==
    ASSUME TypeInv, NEW r \in Runs, On(r) \in Listings, prop[On(r)] # "none", Filled(r), UNCHANGED created
    PROVE  LeadOK' /\ PropOK' /\ Keeps /\ prop'[On(r)] # "none"
<1>1. CASE lead[On(r)] = "bare"
      BY <1>1, RewrittenKeeps DEF Filled, TypeInv, TypeOK, LeadOK, PropOK
<1>2. CASE lead[On(r)] # "bare"
      BY <1>2 DEF Filled, TypeInv, TypeOK, LeadOK, PropOK, Keeps
<1> QED BY <1>1, <1>2

\* The counters in memory, taken back or with one entry more.
LEMMA MemType ==
    ASSUME TypeOK, NEW r \in Runs
    PROVE  /\ mem' = [mem EXCEPT ![r] = Reread(r)] => mem' \in [Runs -> [Listings -> Counts]]
           /\ \A l \in Listings, k \in Counts :
                 mem' = [mem EXCEPT ![r][l] = k] => mem' \in [Runs -> [Listings -> Counts]]
<1>1. mem \in [Runs -> [Listings -> Counts]]  BY DEF TypeOK
<1>2. \A l \in Listings, k \in Counts : [mem[r] EXCEPT ![l] = k] \in [Listings -> Counts]  BY <1>1
<1>3. ASSUME NEW m \in [Listings -> Counts], mem' = [mem EXCEPT ![r] = m]
      PROVE  mem' \in [Runs -> [Listings -> Counts]]
      BY <1>1, <1>3
<1>4. \A l, k : [mem EXCEPT ![r][l] = k] = [mem EXCEPT ![r] = [mem[r] EXCEPT ![l] = k]]  BY <1>1
<1>5. Reread(r) \in [Listings -> Counts]  BY RereadType
<1>6. mem' = [mem EXCEPT ![r] = Reread(r)] => mem' \in [Runs -> [Listings -> Counts]]  BY <1>3, <1>5
<1>7. ASSUME NEW l \in Listings, NEW k \in Counts, mem' = [mem EXCEPT ![r][l] = k]
      PROVE  mem' \in [Runs -> [Listings -> Counts]]
  <2> DEFINE m == [mem[r] EXCEPT ![l] = k]
  <2>1. m \in [Listings -> Counts]  BY <1>2
  <2>2. mem' = [mem EXCEPT ![r] = m]  BY <1>4, <1>7
  <2> HIDE DEF m
  <2> QED BY <1>3, <2>1, <2>2
<1> QED BY <1>6, <1>7

LEMMA Whole ==
    ASSUME TypeInv, NEW r \in Runs, Moved(r, at'[r]), Keeps, OnListing(r)',
           PropOK', LeadOK', SkippedOK', JobOK', SessionOK', LoopOK', HistoryOK', FaultsOK'
    PROVE  TypeInv'
<1>1. \A q \in Runs : OnListing(q)'  BY OthersStay
<1>2. at' \in [Runs -> Listing]  BY DEF Moved
<1>3. TypeOK'  BY <1>2, Parts DEF PropOK, LeadOK, SkippedOK, JobOK, SessionOK, LoopOK, HistoryOK, FaultsOK, TypeOK
<1> QED BY <1>1, <1>3 DEF TypeInv

LEMMA Unmoved ==
    ASSUME TypeInv
    PROVE  /\ UNCHANGED tables => PropOK' /\ LeadOK' /\ SkippedOK' /\ Keeps
           /\ UNCHANGED <<prop, created>> => PropOK' /\ Keeps
           /\ UNCHANGED lead => LeadOK'
           /\ UNCHANGED skipped => SkippedOK'
           /\ UNCHANGED job => JobOK'
           /\ UNCHANGED session => SessionOK'
           /\ UNCHANGED loop => LoopOK'
           /\ UNCHANGED history => HistoryOK'
           /\ UNCHANGED faults => FaultsOK'
BY DEF TypeInv, TypeOK, tables, job, session, loop, history,
       PropOK, LeadOK, SkippedOK, JobOK, SessionOK, LoopOK, HistoryOK, FaultsOK, Keeps

\* The run of a step: its place and the listing it is on.
LEMMA Here ==
    ASSUME TypeInv, NEW r \in Runs
    PROVE  /\ at[r] \in Listing /\ OnListing(r) /\ at[r].got \in Contents
           /\ at[r].cur # None => On(r) \in Listings
           /\ at[r].pc \notin {"idle", "top", "over"} => On(r) \in Listings /\ On(r) # None
BY Apart DEF TypeInv, TypeOK, OnListing, On, Listing

\* Steps of the loop.
LEMMA LoopType ==
    ASSUME TypeInv, NEW r \in Runs,
           \/ Collect(r) \/ Top(r) \/ Look(r) \/ Page(r) \/ Note(r) \/ Progress(r) \/ Rotate(r)
           \/ Finish(r)
    PROVE  TypeInv'
<1>0. /\ TypeOK /\ PropOK /\ LeadOK /\ SkippedOK /\ JobOK /\ SessionOK /\ LoopOK /\ HistoryOK /\ FaultsOK
      /\ OnListing(r) /\ at[r] \in Listing
      BY Parts, Here DEF TypeInv
<1>1. CASE Collect(r)
  <2>1. SkippedOK' /\ PropOK' /\ LeadOK' /\ Keeps /\ SessionOK' /\ HistoryOK' /\ FaultsOK'
        BY <1>1, Unmoved DEF Collect
  <2>2. CASE Ends(r) /\ status' = [status EXCEPT ![r] = "failed"] /\ UNCHANGED <<links, cap, todo>>
    <3>1. Moved(r, at'[r]) /\ OnListing(r)'  BY <1>0, <2>2, Ending DEF OnListing
    <3>2. JobOK' /\ LoopOK'  BY <1>0, <1>1, <2>2 DEF Collect, JobOK, LoopOK
    <3> QED BY <2>1, <3>1, <3>2, Whole
  <2>3. CASE /\ \E S \in SUBSET Listings :
                   /\ Cardinality(S) <= Pool[r] /\ todo' = [todo EXCEPT ![r] = S]
                   /\ \/ \E n \in Targets[r] : cap' = [cap EXCEPT ![r] = n] /\ UNCHANGED links
                      \/ /\ S # {} /\ links' = links \cup {r}
                         /\ cap' = [cap EXCEPT ![r] = Cardinality(S)]
             /\ Goes(r, "top") /\ UNCHANGED status
    <3>1. "top" \in Places  BY DEF Places
    <3>2. Moved(r, at'[r]) /\ OnListing(r)'  BY <1>0, <1>1, <2>3, <3>1, Going DEF Collect, OnListing, Same
    <3>3. \A S \in SUBSET Listings : Cardinality(S) <= Pool[r] => Cardinality(S) \in Nat
          BY Finite, FS_Subset, FS_CardinalityType
    <3>4. Targets[r] \subseteq Nat  BY Limits
    <3>5. JobOK' /\ LoopOK'  BY <1>0, <1>1, <2>3, <3>3, <3>4 DEF Collect, JobOK, LoopOK
    <3> QED BY <2>1, <3>2, <3>5, Whole
  <2> QED BY <1>1, <2>2, <2>3 DEF Collect
<1>2. CASE Top(r)
  <2>1. SkippedOK' /\ PropOK' /\ LeadOK' /\ Keeps /\ JobOK' /\ FaultsOK'
        BY <1>2, Unmoved DEF Top
  <2>2. SessionOK'  BY <1>0, <1>2, MemType DEF Top, SessionOK
  <2>3. CASE status[r] = "cancelled"
    <3>1. Ends(r) /\ UNCHANGED <<loop, shared>>  BY <1>2, <2>3 DEF Top
    <3>2. Moved(r, at'[r]) /\ OnListing(r)'  BY <1>0, <3>1, Ending DEF OnListing
    <3>3. LoopOK' /\ HistoryOK'  BY <1>0, <1>2, <3>1, Unmoved DEF Top, HistoryOK
    <3> QED BY <2>1, <2>2, <3>2, <3>3, Whole
  <2>4. CASE status[r] # "cancelled"
    <3>1. PICK l \in todo[r] :
            /\ at' = [at EXCEPT ![r] = Place("look", l)]
            /\ todo' = [todo EXCEPT ![r] = @ \ {l}] /\ examined' = [examined EXCEPT ![r] = @ \cup {l}]
            /\ shared' = IF \E q \in Runs \ {r} : On(q) = l THEN shared \cup {l} ELSE shared
          BY <1>2, <2>4 DEF Top
    <3>2. l \in Listings /\ "look" \in Places  BY <1>0 DEF LoopOK, Places
    <3>3. Moved(r, at'[r]) /\ OnListing(r)'
      <4>1. l \in Listings \cup {None} /\ l # None  BY <3>2, Apart
      <4>2. /\ Moved(r, at'[r]) /\ at'[r].pc = "look" /\ at'[r].cur = l /\ at'[r].res = "none"
            BY <1>0, <3>1, <3>2, <4>1, Placing
      <4> QED BY <4>1, <4>2 DEF OnListing
    <3>4. LoopOK' /\ HistoryOK'  BY <1>0, <1>2, <2>4, <3>1, <3>2 DEF Top, LoopOK, HistoryOK
    <3> QED BY <2>1, <2>2, <3>3, <3>4, Whole
  <2> QED BY <2>3, <2>4
<1>3. CASE Look(r)
  <2>1. /\ SkippedOK' /\ PropOK' /\ LeadOK' /\ Keeps /\ LoopOK' /\ HistoryOK' /\ FaultsOK'
        /\ On(r) \in Listings
        BY <1>3, Unmoved, Here DEF Look
  <2>2. JobOK' /\ SessionOK'
    <3>1. mem' \in [Runs -> [Listings -> Counts]]
          BY <1>0, <1>3, <2>1, MemType DEF Look, Counts, SessionOK
    <3> QED BY <1>0, <1>3, <3>1 DEF Look, JobOK, SessionOK
  <2>3. "top" \in Places /\ "page" \in Places /\ None \in Listings \cup {None}  BY DEF Places
  <2>4. Moved(r, at'[r]) /\ OnListing(r)'
    <3>1. CASE at' = [at EXCEPT ![r] = Place("top", None)]
          BY <1>0, <2>3, <3>1, Placing DEF OnListing
    <3>2. CASE Goes(r, "page")
          BY <1>0, <1>3, <2>3, <3>2, Going DEF Look, OnListing, Same
    <3> QED BY <1>3, <3>1, <3>2 DEF Look
  <2> QED BY <2>1, <2>2, <2>4, Whole
<1>4. CASE Page(r)
  <2>1. /\ SkippedOK' /\ PropOK' /\ LeadOK' /\ Keeps /\ JobOK' /\ LoopOK' /\ HistoryOK' /\ FaultsOK'
        /\ On(r) \in Listings
        BY <1>4, Unmoved, Here DEF Page
  <2>2. SessionOK'
        BY <1>0, <1>4, <2>1, MemType DEF Page, Counts, SessionOK
  <2>3. "note" \in Places /\ "filtered" \in Places /\ "save" \in Places  BY DEF Places, Saving
  <2>4. CASE Goes(r, "note") \/ Goes(r, "filtered")
    <3>1. Moved(r, at'[r]) /\ OnListing(r)'
          BY <1>0, <1>4, <2>1, <2>3, <2>4, Going, Apart DEF Page, OnListing, Moved, Same, On
    <3> QED BY <2>1, <2>2, <3>1, Whole
  <2>5. ASSUME NEW g \in Contents, at' = [at EXCEPT ![r] = [Place("save", On(r)) EXCEPT !.got = g]]
        PROVE  TypeInv'
    <3> DEFINE n == Place("save", On(r))
               p == [n EXCEPT !.got = g]
    <3>1. n \in Listing /\ n.pc = "save" /\ n.cur = On(r) /\ n.res = "none"
          BY <2>1, <2>3 DEF Place, Listing, Contents
    <3>2. at' = [at EXCEPT ![r] = p]  BY <2>5
    <3> HIDE DEF n
    <3>3. p \in Listing /\ p.pc = "save" /\ p.cur = On(r) /\ p.res = "none"  BY <3>1 DEF Listing
    <3> HIDE DEF p
    <3>4. Moved(r, p)  BY <1>0, <3>2, <3>3, Moving
    <3>5. Moved(r, at'[r]) /\ OnListing(r)'  BY <2>1, <3>3, <3>4, Apart DEF OnListing, Moved, On
    <3> QED BY <2>1, <2>2, <3>5, Whole
  <2> QED BY <1>4, <2>4, <2>5 DEF Page
<1>5. CASE Note(r)
  <2>1. /\ PropOK' /\ LeadOK' /\ Keeps /\ JobOK' /\ SessionOK' /\ LoopOK' /\ HistoryOK' /\ FaultsOK'
        /\ On(r) \in Listings
        BY <1>5, Unmoved, Here DEF Note
  <2>2. SkippedOK'  BY <1>0, <1>5, <2>1 DEF Note, SkippedOK
  <2>3. "progress" \in Places /\ "rotate" \in Places  BY DEF Places
  <2>4. Moved(r, at'[r]) /\ OnListing(r)'
        BY <1>0, <1>5, <2>3, Going DEF Note, OnListing, Moved, Same
  <2> QED BY <2>1, <2>2, <2>4, Whole
<1>6. CASE Progress(r)
  <2>1. /\ SkippedOK' /\ PropOK' /\ LeadOK' /\ Keeps /\ SessionOK' /\ LoopOK' /\ HistoryOK' /\ FaultsOK'
        BY <1>6, Unmoved DEF Progress
  <2>2. JobOK'  BY <1>0, <1>6 DEF Progress, JobOK, SessionOK
  <2>3. "jot" \in Places /\ "rotate" \in Places  BY DEF Places
  <2>4. Moved(r, at'[r]) /\ OnListing(r)'
        BY <1>0, <1>6, <2>3, Going DEF Progress, OnListing, Moved, Same
  <2> QED BY <2>1, <2>2, <2>4, Whole
<1>7. CASE Rotate(r)
  <2>1. /\ SkippedOK' /\ PropOK' /\ LeadOK' /\ Keeps /\ JobOK' /\ SessionOK' /\ LoopOK' /\ HistoryOK'
        /\ FaultsOK'
        BY <1>7, Unmoved DEF Rotate
  <2>2. "top" \in Places /\ None \in Listings \cup {None}  BY DEF Places
  <2>3. Moved(r, at'[r]) /\ OnListing(r)'  BY <1>0, <1>7, <2>2, Placing DEF Rotate, OnListing
  <2> QED BY <2>1, <2>3, Whole
<1>8. CASE Finish(r)
  <2>1. /\ SkippedOK' /\ PropOK' /\ LeadOK' /\ Keeps /\ SessionOK' /\ LoopOK' /\ HistoryOK' /\ FaultsOK'
        BY <1>8, Unmoved DEF Finish
  <2>2. JobOK'  BY <1>0, <1>8 DEF Finish, JobOK, SessionOK
  <2>3. Moved(r, at'[r]) /\ OnListing(r)'  BY <1>0, <1>8, Ending DEF Finish, OnListing
  <2> QED BY <2>1, <2>2, <2>3, Whole
<1> QED BY <1>1, <1>2, <1>3, <1>4, <1>5, <1>6, <1>7, <1>8

\* What Read makes of the place: the row it saw, and where that leads.
ReadPc(r) == IF prop[On(r)] = "none" THEN "insert"
             ELSE IF "full" \in {prop[On(r)], at[r].got} THEN "fill" ELSE "update"

LEMMA Reading ==
    ASSUME TypeInv, NEW r \in Runs, Read(r)
    PROVE  /\ Moved(r, at'[r]) /\ at'[r].pc = ReadPc(r) /\ at'[r].cur = at[r].cur
           /\ at'[r].got = at[r].got /\ at'[r].was = prop[On(r)] /\ at'[r].seen = Stored
           /\ at'[r].again = at[r].again /\ at'[r].res = "none"
<1> DEFINE p == [pc |-> ReadPc(r), cur |-> On(r), got |-> at[r].got, was |-> prop[On(r)],
                 seen |-> Stored, again |-> at[r].again, res |-> "none"]
<1>1. On(r) \in Listings /\ at[r] \in Listing /\ prop[On(r)] \in Contents \cup {"none"}
      BY Here DEF Read, TypeInv, TypeOK
<1>2. Stored \subseteq Listings /\ ReadPc(r) \in Places  BY DEF Stored, ReadPc, Places, Saving
<1>3. p \in Listing  BY <1>1, <1>2 DEF Listing, On
<1>4. /\ p.pc = ReadPc(r) /\ p.cur = at[r].cur /\ p.got = at[r].got /\ p.was = prop[On(r)]
      /\ p.seen = Stored /\ p.again = at[r].again /\ p.res = "none"
      BY DEF On
<1>5. at' = [at EXCEPT ![r] = p]  BY DEF Read, ReadPc
<1> HIDE DEF p
<1>6. Moved(r, p)  BY <1>3, <1>5, Moving DEF TypeInv
<1> QED BY <1>4, <1>6 DEF Moved

\* Steps of save_property.
LEMMA SaveType ==
    ASSUME TypeInv, NEW r \in Runs,
           Read(r) \/ Insert(r) \/ Fill(r) \/ Resolve(r) \/ Update(r) \/ CreateLead(r) \/ Tally(r)
    PROVE  TypeInv'
<1>0. /\ TypeOK /\ PropOK /\ LeadOK /\ SkippedOK /\ JobOK /\ SessionOK /\ LoopOK /\ HistoryOK /\ FaultsOK
      /\ OnListing(r) /\ at[r] \in Listing /\ On(r) \in Listings /\ On(r) # None
      BY Parts, Here DEF TypeInv, Read, Insert, Fill, Resolve, Update, CreateLead, Tally
<1>1. /\ JobOK' /\ LoopOK' /\ HistoryOK' /\ FaultsOK'
      BY Unmoved DEF Read, Insert, Fill, Resolve, Update, CreateLead, Tally
<1>2. CASE Read(r)
  <2>1. SkippedOK' /\ PropOK' /\ LeadOK' /\ Keeps /\ SessionOK' /\ UNCHANGED prop
        BY <1>2, Unmoved DEF Read, tables
  <2>2. Moved(r, at'[r]) /\ OnListing(r)'
        BY <1>0, <1>2, <2>1, Reading DEF OnListing, ReadPc, On
  <2> QED BY <1>1, <2>1, <2>2, Whole
<1>3. CASE Insert(r)
  <2>1. LeadOK' /\ SkippedOK'  BY <1>3, Unmoved DEF Insert
  <2>2. "fill" \in Places /\ "lead" \in Places /\ "tally" \in Places  BY DEF Places, Saving
  <2>3. CASE Stored = at[r].seen
    <3> DEFINE pc == IF at[r].got = "full" THEN "fill" ELSE "lead"
    <3>1. /\ Inserted(r) /\ UNCHANGED session
          /\ at' = [at EXCEPT ![r] = [at[r] EXCEPT !.pc = pc, !.res = "created"]]
          BY <1>3, <2>3 DEF Insert
    <3>2. pc \in Places /\ pc \in {"fill", "lead"}  BY <2>2
    <3> HIDE DEF pc
    <3>3. /\ Moved(r, at'[r]) /\ at'[r].pc = pc /\ at'[r].res = "created" /\ at'[r].cur = at[r].cur
          BY <1>0, <3>1, <3>2, Answering
    <3>4. PropOK' /\ Keeps /\ prop'[On(r)] # "none" /\ SessionOK'
          BY <1>0, <3>1, InsertedKeeps, Unmoved
    <3>5. OnListing(r)'  BY <1>0, <3>2, <3>3, <3>4 DEF OnListing, On
    <3> QED BY <1>1, <2>1, <3>3, <3>4, <3>5, Whole
  <2>4. CASE Stored # at[r].seen
    <3>1. GivesUp(r) /\ UNCHANGED <<prop, created>>  BY <1>3, <2>4 DEF Insert
    <3>2. /\ Moved(r, at'[r]) /\ at'[r].pc = "tally" /\ at'[r].res = "none" /\ at'[r].cur = at[r].cur
          BY <1>0, <2>2, <3>1, Answering DEF GivesUp
    <3>3. OnListing(r)'  BY <1>0, <3>2 DEF OnListing, On
    <3>4. SessionOK'  BY <1>0, <3>1, MemType DEF GivesUp, SessionOK
    <3>5. PropOK' /\ Keeps  BY <3>1, Unmoved
    <3> QED BY <1>1, <2>1, <3>2, <3>3, <3>4, <3>5, Whole
  <2> QED BY <2>3, <2>4
<1>4. CASE Fill(r)
  <2>1. SkippedOK' /\ SessionOK' /\ "resolve" \in Places  BY <1>4, Unmoved DEF Fill, Places, Saving
  <2>2. LeadOK' /\ PropOK' /\ Keeps /\ prop'[On(r)] # "none"
        BY <1>0, <1>4, FilledType DEF Fill, OnListing, On
  <2>3. Moved(r, at'[r]) /\ at'[r].pc = "resolve" /\ Same(at'[r], at[r])
        BY <1>0, <1>4, <2>1, Going DEF Fill
  <2>4. OnListing(r)'  BY <1>0, <1>4, <2>2, <2>3 DEF Fill, OnListing, Same, On
  <2> QED BY <1>1, <2>1, <2>2, <2>3, <2>4, Whole
<1>5. CASE Resolve(r)
  <2>1. /\ PropOK' /\ Keeps /\ LeadOK' /\ SessionOK' /\ UNCHANGED prop
        /\ "lead" \in Places /\ "update" \in Places
        BY <1>5, Unmoved DEF Resolve, Places, Saving
  <2>2. SkippedOK'  BY <1>0, <1>5 DEF Resolve, Resolved, SkippedOK
  <2>3. /\ Moved(r, at'[r]) /\ Same(at'[r], at[r])
        /\ at'[r].pc = IF at[r].res = "created" THEN "lead" ELSE "update"
        BY <1>0, <1>5, <2>1, Going DEF Resolve, AfterResolve
  <2>4. OnListing(r)'  BY <1>0, <1>5, <2>1, <2>3 DEF Resolve, OnListing, Same, On
  <2> QED BY <1>1, <2>1, <2>2, <2>3, <2>4, Whole
<1>6. CASE Update(r)
  <2>1. LeadOK' /\ SkippedOK' /\ SessionOK' /\ "tally" \in Places  BY <1>6, Unmoved DEF Update, Places
  <2>2. PropOK' /\ Keeps /\ prop'[On(r)] # "none"
        BY <1>0, <1>6, RewrittenKeeps DEF Update, PropOK, OnListing, On
  <2>3. /\ Moved(r, at'[r]) /\ at'[r].pc = "tally" /\ at'[r].cur = at[r].cur
        BY <1>0, <1>6, <2>1, Answering DEF Update
  <2>4. OnListing(r)'  BY <1>0, <2>2, <2>3 DEF OnListing, On
  <2> QED BY <1>1, <2>1, <2>2, <2>3, <2>4, Whole
<1>7. CASE CreateLead(r)
  <2>1. /\ PropOK' /\ Keeps /\ SkippedOK' /\ SessionOK' /\ LeadOK' /\ UNCHANGED prop /\ "tally" \in Places
        BY <1>7, Unmoved, LedType DEF CreateLead, Places
  <2>2. /\ Moved(r, at'[r]) /\ at'[r].pc = "tally" /\ Same(at'[r], at[r])
        BY <1>0, <1>7, <2>1, Going DEF CreateLead
  <2>3. OnListing(r)'  BY <1>0, <1>7, <2>1, <2>2 DEF CreateLead, OnListing, Same, On
  <2> QED BY <1>1, <2>1, <2>2, <2>3, Whole
<1>8. CASE Tally(r)
  <2>1. /\ PropOK' /\ Keeps /\ LeadOK' /\ SkippedOK' /\ "note" \in Places /\ "progress" \in Places
        BY <1>8, Unmoved DEF Tally, Places
  <2>2. Verdict(r) \in Counts  BY DEF Verdict, Counts
  <2>3. SessionOK'  BY <1>0, <1>8, <2>2, MemType DEF Tally, SessionOK
  <2>4. /\ Moved(r, at'[r]) /\ at'[r].pc \in {"note", "progress"} /\ Same(at'[r], at[r])
        BY <1>0, <1>8, <2>1, Going DEF Tally
  <2>5. OnListing(r)'  BY <1>0, <2>4 DEF OnListing, Same, On
  <2> QED BY <1>1, <2>1, <2>3, <2>4, <2>5, Whole
<1> QED BY <1>2, <1>3, <1>4, <1>5, <1>6, <1>7, <1>8

\* What a commit that raised leaves behind.
LEMMA LandsType ==
    ASSUME TypeInv, NEW r \in Runs, On(r) \in Listings, Lands(r)
    PROVE  PropOK' /\ LeadOK' /\ SkippedOK' /\ Keeps
<1>1. OnListing(r) /\ SkippedOK'  BY Here, Unmoved DEF Lands
<1>2. CASE UNCHANGED <<prop, lead, created>>  BY <1>1, <1>2, Unmoved
<1>3. CASE at[r].pc = "insert" /\ Stored = at[r].seen /\ Inserted(r) /\ UNCHANGED lead
      BY <1>1, <1>3, InsertedKeeps, Unmoved
<1>4. CASE at[r].pc = "update" /\ prop' = [prop EXCEPT ![On(r)] = Rewritten(r)] /\ UNCHANGED <<lead, created>>
      BY <1>1, <1>4, RewrittenKeeps, Unmoved DEF OnListing, On, PropOK, TypeInv, TypeOK
<1>5. CASE at[r].pc = "fill" /\ Filled(r) /\ UNCHANGED created
      BY <1>1, <1>5, FilledType DEF OnListing, On
<1>6. CASE at[r].pc = "lead" /\ Led(r) /\ UNCHANGED <<prop, created>>
      BY <1>1, <1>6, LedType, Unmoved
<1> QED BY <1>2, <1>3, <1>4, <1>5, <1>6 DEF Lands

LEMMA StrikesType ==
    ASSUME TypeInv, NEW r \in Runs, Strikes(r), UNCHANGED shared,
           UNCHANGED raised \/ (On(r) \in Listings /\ raised' = [raised EXCEPT ![r] = @ \cup {On(r)}])
    PROVE  HistoryOK' /\ FaultsOK'
<1>1. /\ raised \in [Runs -> SUBSET Listings] /\ shared \subseteq Listings /\ struck \subseteq Listings
      /\ faults \in 0..MaxFaults /\ MaxFaults \in Nat
      BY Limits DEF TypeInv, TypeOK
<1>2. On(r) # None => On(r) \in Listings  BY Here DEF On
<1>3. struck' \subseteq Listings /\ faults' \in 0..MaxFaults  BY <1>1, <1>2 DEF Strikes, Fault
<1>4. raised' \in [Runs -> SUBSET Listings]  BY <1>1
<1> QED BY <1>1, <1>3, <1>4 DEF HistoryOK, FaultsOK

\* A run goes back to the head of the loop, or ends, and nothing of it was written.
LEMMA FailType ==
    ASSUME TypeInv, NEW r \in Runs,
           \/ ReadsExpired(r) \/ Raises(r) \/ RaisesHard(r) \/ LooksInVain(r)
           \/ SaveDrops(r) \/ SaveFails(r) \/ LeadFails(r) \/ NotebookFails(r) \/ Crash(r) \/ Cancel(r)
    PROVE  TypeInv'
<1>0. /\ TypeOK /\ PropOK /\ LeadOK /\ SkippedOK /\ JobOK /\ SessionOK /\ LoopOK /\ HistoryOK /\ FaultsOK
      /\ OnListing(r) /\ at[r] \in Listing
      BY Parts, Here DEF TypeInv
<1>1. ASSUME Dies(r), HistoryOK', FaultsOK' PROVE TypeInv'
  <2>1. PropOK' /\ LeadOK' /\ SkippedOK' /\ Keeps /\ SessionOK' /\ LoopOK'  BY <1>1, Unmoved DEF Dies
  <2>2. JobOK'  BY <1>0, <1>1 DEF Dies, JobOK
  <2>3. Moved(r, at'[r]) /\ OnListing(r)'  BY <1>0, <1>1, Ending DEF Dies, OnListing
  <2> QED BY <1>1, <2>1, <2>2, <2>3, Whole
<1>2. CASE ReadsExpired(r)  BY <1>1, <1>2, Unmoved DEF ReadsExpired
<1>3. CASE RaisesHard(r)  BY <1>1, <1>3, StrikesType DEF RaisesHard
<1>4. CASE Raises(r)
  <2>1. On(r) \in Listings /\ "top" \in Places /\ None \in Listings \cup {None}
        BY <1>4, Here DEF Raises, Places
  <2>2. PropOK' /\ LeadOK' /\ Keeps /\ JobOK' /\ LoopOK'  BY <1>4, Unmoved DEF Raises
  <2>3. HistoryOK' /\ FaultsOK'  BY <1>4, <2>1, StrikesType DEF Raises
  <2>4. /\ skipped' = skipped \cup {<<r, On(r)>>} /\ at' = [at EXCEPT ![r] = Place("top", None)]
        /\ mem' = [mem EXCEPT ![r] = Reread(r)] /\ expired' = expired \cup {r}
        BY <1>4 DEF Raises
  <2>5. SkippedOK' /\ SessionOK' /\ Moved(r, at'[r]) /\ OnListing(r)'
    <3>1. SkippedOK'  BY <1>0, <2>1, <2>4 DEF SkippedOK
    <3>2. SessionOK'  BY <1>0, <2>4, MemType DEF SessionOK
    <3>3. Moved(r, at'[r]) /\ OnListing(r)'  BY <1>0, <2>1, <2>4, Placing DEF OnListing
    <3> QED BY <3>1, <3>2, <3>3
  <2> QED BY <2>2, <2>3, <2>4, <2>5, Whole
<1>5. CASE LooksInVain(r)
  <2>1. PropOK' /\ LeadOK' /\ SkippedOK' /\ Keeps /\ JobOK' /\ SessionOK' /\ LoopOK' /\ "page" \in Places
        BY <1>5, Unmoved DEF LooksInVain, Places
  <2>2. HistoryOK' /\ FaultsOK'  BY <1>5, StrikesType DEF LooksInVain
  <2>3. Moved(r, at'[r]) /\ OnListing(r)'  BY <1>0, <1>5, <2>1, Going DEF LooksInVain, OnListing, Same
  <2> QED BY <2>1, <2>2, <2>3, Whole
<1>6. CASE SaveDrops(r)
  <2>1. On(r) \in Listings /\ "save" \in Places /\ JobOK' /\ LoopOK'
        BY <1>6, Here, Unmoved DEF SaveDrops, Places, Saving
  <2>2. PropOK' /\ LeadOK' /\ SkippedOK' /\ Keeps  BY <1>6, <2>1, LandsType DEF SaveDrops
  <2>3. HistoryOK' /\ FaultsOK'  BY <1>6, StrikesType DEF SaveDrops
  <2>4. SessionOK'  BY <1>0, <1>6, MemType DEF SaveDrops, SessionOK
  <2> DEFINE n == Place("save", On(r))
             p == [n EXCEPT !.got = at[r].got, !.again = TRUE]
  <2>5. n \in Listing /\ n.pc = "save" /\ n.cur = On(r) /\ n.res = "none"
        BY <2>1 DEF Place, Listing, Contents
  <2>6. at' = [at EXCEPT ![r] = p] /\ at[r].got \in Contents  BY <1>6, Here DEF SaveDrops
  <2> HIDE DEF n
  <2>7. p \in Listing /\ p.pc = "save" /\ p.cur = On(r) /\ p.res = "none"  BY <2>5, <2>6 DEF Listing
  <2> HIDE DEF p
  <2>8. Moved(r, p)  BY <1>0, <2>6, <2>7, Moving
  <2>9. Moved(r, at'[r]) /\ OnListing(r)'  BY <2>1, <2>7, <2>8, Apart DEF OnListing, Moved, On
  <2> QED BY <2>1, <2>2, <2>3, <2>4, <2>9, Whole
<1>7. CASE SaveFails(r)
  <2>1. On(r) \in Listings /\ "tally" \in Places /\ JobOK' /\ LoopOK'
        BY <1>7, Here, Unmoved DEF SaveFails, Places
  <2>2. PropOK' /\ LeadOK' /\ SkippedOK' /\ Keeps  BY <1>7, <2>1, LandsType DEF SaveFails
  <2>3. HistoryOK' /\ FaultsOK'  BY <1>7, StrikesType DEF SaveFails
  <2>4. SessionOK'  BY <1>0, <1>7, MemType DEF SaveFails, GivesUp, SessionOK
  <2>5. /\ Moved(r, at'[r]) /\ at'[r].pc = "tally" /\ at'[r].res = "none" /\ at'[r].cur = at[r].cur
        BY <1>0, <1>7, <2>1, Answering DEF SaveFails, GivesUp
  <2>6. OnListing(r)'  BY <1>0, <1>7, <2>5 DEF SaveFails, OnListing, On
  <2> QED BY <2>1, <2>2, <2>3, <2>4, <2>5, <2>6, Whole
<1>8. CASE LeadFails(r)
  <2>1. On(r) \in Listings /\ "tally" \in Places /\ JobOK' /\ LoopOK'
        BY <1>8, Here, Unmoved DEF LeadFails, Places
  <2>2. PropOK' /\ LeadOK' /\ SkippedOK' /\ Keeps  BY <1>8, <2>1, LandsType DEF LeadFails
  <2>3. HistoryOK' /\ FaultsOK'  BY <1>8, StrikesType DEF LeadFails
  <2>4. SessionOK'  BY <1>0, <1>8, MemType DEF LeadFails, SessionOK
  <2>5. Moved(r, at'[r]) /\ at'[r].pc = "tally" /\ Same(at'[r], at[r])
        BY <1>0, <1>8, <2>1, Going DEF LeadFails
  <2>6. OnListing(r)'  BY <1>0, <1>8, <2>1, <2>2, <2>5 DEF LeadFails, OnListing, On, Same, Keeps
  <2> QED BY <2>1, <2>2, <2>3, <2>4, <2>5, <2>6, Whole
<1>9. CASE NotebookFails(r)
  <2>1. /\ PropOK' /\ LeadOK' /\ SkippedOK' /\ Keeps /\ JobOK' /\ SessionOK' /\ LoopOK' /\ UNCHANGED prop
        /\ {"lead", "update", "progress", "rotate"} \subseteq Places
        BY <1>9, Unmoved DEF NotebookFails, Places, Saving, tables
  <2>2. HistoryOK' /\ FaultsOK'  BY <1>9, StrikesType DEF NotebookFails
  <2>3. CASE at[r].pc = "resolve" /\ AfterResolve(r)
    <3>1. /\ Moved(r, at'[r]) /\ Same(at'[r], at[r])
          /\ at'[r].pc = IF at[r].res = "created" THEN "lead" ELSE "update"
          BY <1>0, <2>1, <2>3, Going DEF AfterResolve
    <3>2. OnListing(r)'  BY <1>0, <2>1, <2>3, <3>1 DEF OnListing, Same, On
    <3> QED BY <2>1, <2>2, <3>1, <3>2, Whole
  <2>4. CASE at[r].pc \in {"note", "jot"} /\ Goes(r, IF at[r].pc = "note" THEN "progress" ELSE "rotate")
    <3>1. /\ Moved(r, at'[r]) /\ Same(at'[r], at[r]) /\ at'[r].pc \in {"progress", "rotate"}
          BY <1>0, <2>1, <2>4, Going
    <3>2. OnListing(r)'  BY <1>0, <2>4, <3>1 DEF OnListing, Same
    <3> QED BY <2>1, <2>2, <3>1, <3>2, Whole
  <2> QED BY <1>9, <2>3, <2>4 DEF NotebookFails
<1>10. CASE Crash(r)
  <2>1. PropOK' /\ LeadOK' /\ SkippedOK' /\ Keeps /\ JobOK' /\ SessionOK' /\ LoopOK'
        BY <1>10, Unmoved DEF Crash
  <2>2. HistoryOK' /\ FaultsOK'  BY <1>10, StrikesType DEF Crash
  <2>3. Moved(r, at'[r]) /\ OnListing(r)'  BY <1>0, <1>10, Ending DEF Crash, OnListing
  <2> QED BY <2>1, <2>2, <2>3, Whole
<1>11. CASE Cancel(r)
  <2>1. PropOK' /\ LeadOK' /\ SkippedOK' /\ Keeps /\ SessionOK' /\ LoopOK' /\ HistoryOK' /\ UNCHANGED <<at, prop>>
        BY <1>11, Unmoved DEF Cancel, tables
  <2>2. JobOK' /\ FaultsOK'  BY <1>0, <1>11, Limits DEF Cancel, Fault, JobOK, FaultsOK
  <2>3. Moved(r, at'[r]) /\ OnListing(r)'  BY <1>0, <2>1 DEF Moved, OnListing, TypeOK
  <2> QED BY <2>1, <2>2, <2>3, Whole
<1> QED BY <1>2, <1>3, <1>4, <1>5, <1>6, <1>7, <1>8, <1>9, <1>10, <1>11

LEMMA TypeNext == TypeInv /\ [Next]_vars => TypeInv'
<1> SUFFICES ASSUME TypeInv, [Next]_vars PROVE TypeInv' OBVIOUS
<1>1. CASE UNCHANGED vars
      BY <1>1 DEF vars, tables, job, session, loop, history, TypeInv, TypeOK, OnListing
<1>2. CASE Next  BY <1>2, LoopType, SaveType, FailType DEF Next
<1> QED BY <1>1, <1>2

\* Every variable keeps its type, and a run is on a listing just while it scrapes
\* one (start_scraping_job and save_property).
THEOREM TypeCorrect == Spec => []TypeOK
<1>1. Spec => []TypeInv  BY InitType, TypeNext, PTL DEF Spec
<1>2. TypeInv => TypeOK  BY DEF TypeInv
<1> QED BY <1>1, <1>2, PTL

-----------------------------------------------------------------------------
(* What a step of a run leaves alone.                                      *)

Step(r) ==
  \/ Collect(r) \/ Top(r) \/ Look(r) \/ Page(r) \/ Note(r) \/ Progress(r) \/ Rotate(r) \/ Finish(r)
  \/ Read(r) \/ Insert(r) \/ Fill(r) \/ Resolve(r) \/ Update(r) \/ CreateLead(r) \/ Tally(r)
  \/ ReadsExpired(r) \/ Raises(r) \/ RaisesHard(r) \/ LooksInVain(r)
  \/ SaveDrops(r) \/ SaveFails(r) \/ LeadFails(r) \/ NotebookFails(r) \/ Crash(r) \/ Cancel(r)

\* What belongs to another run.
Alone(q) ==
  /\ at'[q] = at[q] /\ mem'[q] = mem[q] /\ counted'[q] = counted[q] /\ status'[q] = status[q]
  /\ todo'[q] = todo[q] /\ examined'[q] = examined[q] /\ raised'[q] = raised[q] /\ cap'[q] = cap[q]
  /\ (q \in expired' <=> q \in expired) /\ (q \in links' <=> q \in links)

LEMMA OthersApart == ASSUME TypeInv, NEW r \in Runs, Step(r), NEW q \in Runs \ {r} PROVE Alone(q)
<1>1. /\ at \in [Runs -> Listing] /\ JobOK /\ SessionOK /\ LoopOK /\ HistoryOK
      BY Parts DEF TypeInv
<1> USE <1>1 DEF Alone, JobOK, SessionOK, LoopOK, HistoryOK, job, session, loop, history
<1>2. CASE Collect(r)  BY <1>2 DEF Collect, Goes, Ends
<1>3. CASE Top(r)  BY <1>3 DEF Top, Ends
<1>4. CASE Look(r)  BY <1>4 DEF Look, Goes
<1>5. CASE Page(r)  BY <1>5 DEF Page, Goes
<1>6. CASE Note(r)  BY <1>6 DEF Note, Goes
<1>7. CASE Progress(r)  BY <1>7 DEF Progress, Goes
<1>8. CASE Rotate(r)  BY <1>8 DEF Rotate
<1>9. CASE Finish(r)  BY <1>9 DEF Finish, Ends
<1>10. CASE Read(r)  BY <1>10 DEF Read
<1>11. CASE Insert(r)  BY <1>11 DEF Insert, GivesUp
<1>12. CASE Fill(r)  BY <1>12 DEF Fill, Goes
<1>13. CASE Resolve(r)  BY <1>13 DEF Resolve, AfterResolve, Goes
<1>14. CASE Update(r)  BY <1>14 DEF Update
<1>15. CASE CreateLead(r)  BY <1>15 DEF CreateLead, Goes
<1>16. CASE Tally(r)  BY <1>16 DEF Tally, Goes
<1>17. CASE ReadsExpired(r)  BY <1>17 DEF ReadsExpired, Dies, Ends
<1>18. CASE Raises(r)  BY <1>18 DEF Raises
<1>19. CASE RaisesHard(r)  BY <1>19 DEF RaisesHard, Dies, Ends
<1>20. CASE LooksInVain(r)  BY <1>20 DEF LooksInVain, Goes
<1>21. CASE SaveDrops(r)  BY <1>21 DEF SaveDrops
<1>22. CASE SaveFails(r)  BY <1>22 DEF SaveFails, GivesUp
<1>23. CASE LeadFails(r)  BY <1>23 DEF LeadFails, Goes
<1>24. CASE NotebookFails(r)  BY <1>24 DEF NotebookFails, AfterResolve, Goes
<1>25. CASE Crash(r)  BY <1>25 DEF Crash, Ends
<1>26. CASE Cancel(r)  BY <1>26 DEF Cancel
<1> QED BY <1>2, <1>3, <1>4, <1>5, <1>6, <1>7, <1>8, <1>9, <1>10, <1>11, <1>12, <1>13, <1>14, <1>15,
           <1>16, <1>17, <1>18, <1>19, <1>20, <1>21, <1>22, <1>23, <1>24, <1>25, <1>26 DEF Step

\* What is recorded of a listing the run is not on.
Away(r, l) ==
  /\ prop'[l] = prop[l] /\ lead'[l] = lead[l] /\ created'[l] = created[l]
  /\ \A q \in Runs : <<q, l>> \in skipped' <=> <<q, l>> \in skipped
  /\ mem'[r][l] \in {mem[r][l], counted[r][l]} /\ counted'[r][l] \in {mem[r][l], counted[r][l]}
  /\ mem'[r][l] = "none" => mem[r][l] = "none" \/ counted[r][l] = "none"

LEMMA ListingsAway ==
    ASSUME TypeInv, NEW r \in Runs, Step(r), NEW l \in Listings, l # On(r)
    PROVE  Away(r, l)
<1>1. PropOK /\ LeadOK /\ JobOK /\ SessionOK  BY Parts DEF TypeInv
<1>2. On(r) = None \/ On(r) \in Listings  BY Here DEF On
<1> USE <1>1, <1>2 DEF Away, PropOK, LeadOK, JobOK, SessionOK, tables, job, session, Reread
<1>3. CASE Collect(r)  BY <1>3 DEF Collect
<1>4. CASE Top(r)  BY <1>4 DEF Top
<1>5. CASE Look(r)  BY <1>5 DEF Look
<1>6. CASE Page(r)  BY <1>6 DEF Page
<1>7. CASE Note(r)  BY <1>7 DEF Note
<1>8. CASE Progress(r)  BY <1>8 DEF Progress
<1>9. CASE Rotate(r)  BY <1>9 DEF Rotate
<1>10. CASE Finish(r)  BY <1>10 DEF Finish
<1>11. CASE Read(r)  BY <1>11 DEF Read
<1>12. CASE Insert(r)  BY <1>12 DEF Insert, Inserted, GivesUp
<1>13. CASE Fill(r)  BY <1>13 DEF Fill, Filled
<1>14. CASE Resolve(r)  BY <1>14 DEF Resolve, Resolved
<1>15. CASE Update(r)  BY <1>15 DEF Update
<1>16. CASE CreateLead(r)  BY <1>16 DEF CreateLead, Led
<1>17. CASE Tally(r)  BY <1>17 DEF Tally
<1>18. CASE ReadsExpired(r)  BY <1>18 DEF ReadsExpired, Dies
<1>19. CASE Raises(r)  BY <1>19 DEF Raises
<1>20. CASE RaisesHard(r)  BY <1>20 DEF RaisesHard, Dies
<1>21. CASE LooksInVain(r)  BY <1>21 DEF LooksInVain
<1>22. ASSUME Lands(r)
       PROVE  /\ prop'[l] = prop[l] /\ lead'[l] = lead[l] /\ created'[l] = created[l]
              /\ UNCHANGED skipped
       BY <1>22 DEF Lands, Inserted, Filled, Led
<1>23. CASE SaveDrops(r)  BY <1>22, <1>23 DEF SaveDrops
<1>24. CASE SaveFails(r)  BY <1>22, <1>24 DEF SaveFails, GivesUp
<1>25. CASE LeadFails(r)  BY <1>22, <1>25 DEF LeadFails
<1>26. CASE NotebookFails(r)  BY <1>26 DEF NotebookFails
<1>27. CASE Crash(r)  BY <1>27 DEF Crash
<1>28. CASE Cancel(r)  BY <1>28 DEF Cancel
<1> QED BY <1>3, <1>4, <1>5, <1>6, <1>7, <1>8, <1>9, <1>10, <1>11, <1>12, <1>13, <1>14, <1>15,
           <1>16, <1>17, <1>18, <1>19, <1>20, <1>21, <1>23, <1>24, <1>25, <1>26, <1>27, <1>28 DEF Step

\* Histories grow.
LEMMA HistoryGrows ==
    ASSUME NEW r \in Runs, Step(r)
    PROVE  struck \subseteq struck' /\ shared \subseteq shared' /\ links \subseteq links'
BY DEF Step, Collect, Top, Look, Page, Note, Progress, Rotate, Finish, Read, Insert, Fill, Resolve,
       Update, CreateLead, Tally, ReadsExpired, Raises, RaisesHard, LooksInVain, SaveDrops, SaveFails,
       LeadFails, NotebookFails, Crash, Cancel, Dies, Strikes, loop, history

-----------------------------------------------------------------------------
(* Every candidate, accounted for.                                         *)

\* A run has counted what it examined, the listing it is on excepted; what is in
\* memory covers what was committed; a run with a target that met a listing that
\* raised is about to read the expired job.
Seen(r) ==
  /\ at[r].pc = "idle" => examined[r] = {} /\ raised[r] = {}
  /\ todo[r] \cap examined[r] = {}
  /\ at[r].cur # None => at[r].cur \in examined[r]
  /\ \A l \in Listings : counted[r][l] # "none" => mem[r][l] # "none"
  /\ at[r].pc # "over" \/ status[r] = "completed" =>
        \A l \in examined[r] \ {at[r].cur} : counted[r][l] # "none" \/ l \in raised[r]
  /\ at[r].pc \in {"note", "progress", "filtered"} => mem[r][at[r].cur] # "none"
  /\ at[r].pc \in {"jot", "rotate"} => counted[r][at[r].cur] # "none"
  /\ status[r] = "completed" => at[r].pc = "over"
  /\ raised[r] # {} /\ cap[r] > 0 =>
        \/ at[r].pc = "top" /\ r \in expired
        \/ at[r].pc = "over" /\ status[r] # "completed"

LEMMA OthersSeen ==
    ASSUME TypeInv, NEW r \in Runs, Step(r), NEW q \in Runs \ {r}, Seen(q)
    PROVE  Seen(q)'
<1>1. Alone(q)  BY OthersApart
<1> QED BY <1>1 DEF Alone, Seen

\* The run goes on with its listing.
LEMMA OnwardSeen ==
    ASSUME NEW r \in Runs, Seen(r), at'[r].cur = at[r].cur,
           at[r].pc \notin {"idle", "top", "over"}, at'[r].pc \notin {"idle", "top", "over"},
           UNCHANGED <<status, todo, examined, raised, cap>>,
           \A l \in Listings : counted'[r][l] # "none" => mem'[r][l] # "none",
           \A l \in Listings : counted[r][l] # "none" => counted'[r][l] # "none",
           at'[r].pc \in {"note", "progress", "filtered"} => mem'[r][at[r].cur] # "none",
           at'[r].pc \in {"jot", "rotate"} => counted'[r][at[r].cur] # "none",
           examined[r] \subseteq Listings
    PROVE  Seen(r)'
BY DEF Seen

\* The run ends without completing.
LEMMA EndingSeen ==
    ASSUME NEW r \in Runs, Seen(r), at'[r].pc = "over", at'[r].cur = None, status'[r] # "completed",
           UNCHANGED <<mem, counted, todo, examined>>
    PROVE  Seen(r)'
BY DEF Seen

\* The parts of Seen: what was examined and counted, and the run's own course.
LEMMA StepSeen ==
    ASSUME TypeInv, TypeInv', NEW r \in Runs, Step(r), Seen(r)
    PROVE  Seen(r)'
<1>0. /\ TypeOK /\ PropOK /\ JobOK /\ SessionOK /\ LoopOK /\ HistoryOK /\ OnListing(r) /\ OnListing(r)'
      /\ at[r].cur # None => On(r) \in Listings
      BY Parts, Here DEF TypeInv
<1> USE <1>0 DEF JobOK, SessionOK, LoopOK, HistoryOK, job, session, loop, history
<1>1. \A l \in Listings : counted[r][l] # "none" => Reread(r)[l] # "none"  BY DEF Reread
<1>2. CASE Collect(r)
  <2>1. CASE Ends(r)  BY <1>2, <2>1, Ending DEF Collect, Seen
  <2>2. CASE Goes(r, "top")
    <3>1. at'[r].pc = "top" /\ at'[r].cur = None
          BY <1>2, <2>2, Going DEF Collect, Places, Same, OnListing
    <3> QED BY <1>2, <3>1 DEF Collect, Seen
  <2> QED BY <1>2, <2>1, <2>2 DEF Collect
<1>3. CASE Top(r)
  <2>1. mem' = [mem EXCEPT ![r] = Reread(r)]  BY <1>3 DEF Top
  <2>2. mem'[r] = Reread(r) /\ UNCHANGED <<counted, status, raised>> /\ at[r].cur = None
        /\ (cap[r] > 0 => r \notin expired)
        BY <1>3, <2>1 DEF Top, OnListing
  <2>3. CASE status[r] = "cancelled"
    <3>1. Ends(r) /\ UNCHANGED loop  BY <1>3, <2>3 DEF Top
    <3>2. at'[r].pc = "over" /\ at'[r].cur = None  BY <3>1, Ending
    <3> QED BY <1>1, <1>3, <2>2, <2>3, <3>1, <3>2 DEF Top, Seen
  <2>4. CASE status[r] # "cancelled"
    <3>1. PICK l \in todo[r] :
            /\ at' = [at EXCEPT ![r] = Place("look", l)]
            /\ todo' = [todo EXCEPT ![r] = @ \ {l}] /\ examined' = [examined EXCEPT ![r] = @ \cup {l}]
          BY <1>3, <2>4 DEF Top
    <3>2. l \in Listings /\ l \in Listings \cup {None} /\ "look" \in Places  BY DEF Places
    <3>3. at'[r].pc = "look" /\ at'[r].cur = l  BY <3>1, <3>2, Placing
    <3>4. cap' = cap  BY <1>3, <2>4 DEF Top
    <3>5. \A k \in examined[r] : counted[r][k] # "none" \/ k \in raised[r]
          BY <1>3, <2>2, Apart DEF Top, Seen
    <3> QED BY <1>1, <1>3, <2>2, <2>4, <3>1, <3>2, <3>3, <3>4, <3>5 DEF Top, Seen
  <2> QED BY <2>3, <2>4
<1>4. CASE Look(r)
  <2>1. On(r) \in Listings /\ UNCHANGED <<status, todo, examined, raised, cap>>  BY <1>4, Here DEF Look
  <2>2. CASE r \notin links /\ IsComplete(On(r))
    <3>1. /\ mem' = [mem EXCEPT ![r][On(r)] = "updated"] /\ counted' = [counted EXCEPT ![r] = mem'[r]]
          /\ at' = [at EXCEPT ![r] = Place("top", None)]
          BY <1>4, <2>2 DEF Look
    <3>2. /\ mem'[r] = [mem[r] EXCEPT ![On(r)] = "updated"] /\ counted'[r] = mem'[r]
          BY <3>1
    <3>3. "top" \in Places /\ None \in Listings \cup {None}  BY DEF Places
    <3>4. at'[r].pc = "top" /\ at'[r].cur = None  BY <3>1, <3>3, Placing
    <3> QED BY <1>4, <2>1, <3>2, <3>4 DEF Look, Seen, On
  <2>3. CASE ~(r \notin links /\ IsComplete(On(r)))
    <3>1. Goes(r, "page") /\ UNCHANGED <<mem, counted>> /\ "page" \in Places
          BY <1>4, <2>3 DEF Look, Places
    <3>2. at'[r].pc = "page" /\ at'[r].cur = at[r].cur  BY <3>1, Going DEF Same
    <3> QED BY <1>4, <2>1, <3>1, <3>2, OnwardSeen DEF Look, Seen
  <2> QED BY <2>2, <2>3
<1>5. CASE Page(r)
  <2>1. On(r) \in Listings /\ UNCHANGED <<status, counted, todo, examined, raised, cap>>
        BY <1>5, Here DEF Page
  <2>2. ASSUME NEW k \in {"failed", "dropped"}, mem' = [mem EXCEPT ![r][On(r)] = k],
               NEW pc \in {"note", "filtered"}, Goes(r, pc)
        PROVE  Seen(r)'
    <3>1. mem'[r] = [mem[r] EXCEPT ![On(r)] = k]  BY <2>2
    <3>2. pc \in Places  BY DEF Places
    <3>3. at'[r].pc = pc /\ at'[r].cur = at[r].cur  BY <2>2, <3>2, Going DEF Same
    <3> QED BY <1>5, <2>1, <3>1, <3>3, OnwardSeen DEF Page, Seen, On
  <2>3. ASSUME NEW g \in Contents, at' = [at EXCEPT ![r] = [Place("save", On(r)) EXCEPT !.got = g]], UNCHANGED mem
        PROVE  Seen(r)'
    <3>1. at'[r].pc = "save" /\ at'[r].cur = at[r].cur
          BY <1>0, <2>3 DEF Place, On, TypeOK
    <3> QED BY <1>5, <2>1, <2>3, <3>1, OnwardSeen DEF Page, Seen
  <2> QED BY <1>5, <2>2, <2>3 DEF Page
<1>6. CASE Note(r)
  <2>1. /\ at'[r].pc = (IF at[r].pc = "note" THEN "progress" ELSE "rotate") /\ at'[r].cur = at[r].cur
        /\ UNCHANGED <<status, counted, mem, todo, examined, raised, cap>>
        BY <1>6, Going DEF Note, Same, Places
  <2> QED BY <1>6, <2>1, OnwardSeen DEF Note, Seen
<1>7. CASE Progress(r)
  <2>1. /\ at'[r].pc = (IF at[r].pc = "progress" THEN "rotate" ELSE "jot") /\ at'[r].cur = at[r].cur
        /\ UNCHANGED <<status, mem, todo, examined, raised, cap>> /\ counted'[r] = mem[r]
        BY <1>7, Going DEF Progress, Same, Places
  <2> QED BY <1>7, <2>1, OnwardSeen DEF Progress, Seen
<1>8. CASE Rotate(r)
  <2>1. at'[r].pc = "top" /\ at'[r].cur = None /\ UNCHANGED <<status, counted, mem, todo, examined, raised, cap>>
        BY <1>8, Placing DEF Rotate, Places
  <2> QED BY <1>8, <2>1 DEF Rotate, Seen
<1>9. CASE Finish(r)
  <2>1. /\ at'[r].pc = "over" /\ at'[r].cur = None /\ UNCHANGED <<mem, todo, examined, raised, cap>>
        /\ counted'[r] = mem[r] /\ at[r].cur = None
        BY <1>9, Ending DEF Finish, OnListing
  <2>2. cap[r] > 0 => raised[r] = {}  BY <1>9 DEF Finish, Seen
  <2>3. \A l \in examined[r] : counted'[r][l] # "none" \/ l \in raised'[r]
        BY <1>9, <2>1, Apart DEF Finish, Seen
  <2> QED BY <1>9, <2>1, <2>2, <2>3 DEF Finish, Seen
<1>10. ASSUME at[r].pc \in {"save", "insert", "fill", "resolve", "update", "lead"},
              at'[r].pc \in {"save", "insert", "fill", "resolve", "update", "lead", "tally"},
              at'[r].cur = at[r].cur, UNCHANGED <<counted, status, raised, loop>>, mem'[r] \in {mem[r], Reread(r)}
       PROVE  Seen(r)'
  <2>1. \A l \in Listings : counted'[r][l] # "none" => mem'[r][l] # "none"  BY <1>1, <1>10 DEF Seen
  <2>2. /\ UNCHANGED <<status, todo, examined, raised, cap>> /\ examined[r] \subseteq Listings
        /\ \A l \in Listings : counted[r][l] # "none" => counted'[r][l] # "none"
        BY <1>10
  <2> QED BY <1>10, <2>1, <2>2, OnwardSeen
<1>11. CASE Read(r)
  <2>1. ReadPc(r) \in {"insert", "fill", "update"}  BY DEF ReadPc
  <2> QED BY <1>10, <1>11, <2>1, Reading DEF Read
<1>12. ASSUME GivesUp(r) PROVE at'[r].pc = "tally" /\ at'[r].cur = at[r].cur /\ mem'[r] = Reread(r)
  <2>1. "tally" \in Places /\ "none" \in {"none", "created", "updated"}  BY DEF Places
  <2>2. at' = [at EXCEPT ![r] = [at[r] EXCEPT !.pc = "tally", !.res = "none"]]
        /\ mem' = [mem EXCEPT ![r] = Reread(r)]
        BY <1>12 DEF GivesUp
  <2> QED BY <2>1, <2>2, Answering
<1>13. CASE Insert(r)
  <2>1. CASE GivesUp(r)  BY <1>10, <1>12, <1>13, <2>1 DEF Insert
  <2>2. CASE ~GivesUp(r)
    <3> DEFINE pc == IF at[r].got = "full" THEN "fill" ELSE "lead"
    <3>1. at' = [at EXCEPT ![r] = [at[r] EXCEPT !.pc = pc, !.res = "created"]] /\ UNCHANGED mem
          BY <1>13, <2>2 DEF Insert
    <3>2. pc \in Places /\ pc \in {"fill", "lead"}  BY DEF Places, Saving
    <3> HIDE DEF pc
    <3>3. at'[r].pc = pc /\ at'[r].cur = at[r].cur  BY <3>1, <3>2, Answering
    <3> QED BY <1>10, <1>13, <3>1, <3>2, <3>3 DEF Insert
  <2> QED BY <2>1, <2>2
<1>14. CASE Fill(r)
  <2>1. "resolve" \in Places  BY DEF Places, Saving
  <2> QED BY <1>10, <1>14, <2>1, Going DEF Fill, Same
<1>15. ASSUME AfterResolve(r) PROVE at'[r].pc \in {"lead", "update"} /\ at'[r].cur = at[r].cur
       BY <1>15, Going DEF AfterResolve, Places, Saving, Same
<1>16. CASE Resolve(r)  BY <1>10, <1>15, <1>16 DEF Resolve
<1>17. CASE Update(r)
  <2>1. /\ "tally" \in Places /\ "updated" \in {"none", "created", "updated"}
        /\ at' = [at EXCEPT ![r] = [at[r] EXCEPT !.pc = "tally", !.res = "updated"]]
        BY <1>17 DEF Update, Places
  <2>2. at'[r].pc = "tally" /\ at'[r].cur = at[r].cur  BY <2>1, Answering
  <2> QED BY <1>10, <1>17, <2>2 DEF Update
<1>18. CASE CreateLead(r)
  <2>1. "tally" \in Places  BY DEF Places
  <2> QED BY <1>10, <1>18, <2>1, Going DEF CreateLead, Same
<1>19. CASE Tally(r)
  <2>1. /\ On(r) \in Listings /\ UNCHANGED <<counted, status, raised, loop>>
        /\ mem' = [mem EXCEPT ![r][On(r)] = Verdict(r)] /\ Verdict(r) # "none"
        BY <1>19, Here DEF Tally, Verdict
  <2>2. mem'[r] = [mem[r] EXCEPT ![On(r)] = Verdict(r)]  BY <2>1
  <2>3. at'[r].pc \in {"note", "progress"} /\ at'[r].cur = at[r].cur
        BY <1>19, Going DEF Tally, Same, Places
  <2> QED BY <1>19, <2>1, <2>2, <2>3, OnwardSeen DEF Tally, Seen, On
<1>20. ASSUME Dies(r), at[r].pc # "over" PROVE Seen(r)'
  <2>1. at'[r].pc = "over" /\ at'[r].cur = None /\ status'[r] = "failed"
        BY <1>20, Ending DEF Dies
  <2> QED BY <1>20, <2>1, EndingSeen DEF Dies
<1>21. CASE ReadsExpired(r)  BY <1>20, <1>21 DEF ReadsExpired
<1>22. CASE RaisesHard(r)  BY <1>20, <1>22 DEF RaisesHard
<1>23. CASE Raises(r)
  <2>1. /\ at'[r].pc = "top" /\ at'[r].cur = None /\ UNCHANGED <<status, counted, todo, examined, cap>>
        /\ mem'[r] = Reread(r) /\ raised'[r] = raised[r] \cup {On(r)} /\ r \in expired'
        BY <1>23, Placing DEF Raises, Places
  <2> QED BY <1>1, <1>23, <2>1 DEF Raises, Seen, On
<1>24. CASE LooksInVain(r)
  <2>1. /\ at'[r].pc = "page" /\ at'[r].cur = at[r].cur
        /\ UNCHANGED <<counted, mem, status, todo, examined, cap, raised>>
        BY <1>24, Going DEF LooksInVain, Same, Places
  <2> QED BY <1>24, <2>1, OnwardSeen DEF LooksInVain, Seen
<1>25. CASE SaveDrops(r)
  <2>1. at'[r].pc = "save" /\ at'[r].cur = at[r].cur  BY <1>25 DEF SaveDrops, Place, On, TypeOK
  <2> QED BY <1>10, <1>25, <2>1 DEF SaveDrops
<1>26. CASE SaveFails(r)  BY <1>10, <1>12, <1>26 DEF SaveFails
<1>27. CASE LeadFails(r)
  <2>1. "tally" \in Places  BY DEF Places
  <2> QED BY <1>10, <1>27, <2>1, Going DEF LeadFails, Same
<1>28. CASE NotebookFails(r)
  <2>1. CASE at[r].pc = "resolve" /\ AfterResolve(r)  BY <1>10, <1>15, <1>28, <2>1 DEF NotebookFails
  <2>2. CASE at[r].pc \in {"note", "jot"} /\ Goes(r, IF at[r].pc = "note" THEN "progress" ELSE "rotate")
    <3>1. /\ at'[r].pc = (IF at[r].pc = "note" THEN "progress" ELSE "rotate") /\ at'[r].cur = at[r].cur
          /\ UNCHANGED <<status, counted, mem, todo, examined, raised, cap>>
          BY <1>28, <2>2, Going DEF NotebookFails, Same, Places
    <3> QED BY <2>2, <3>1, OnwardSeen DEF Seen
  <2> QED BY <1>28, <2>1, <2>2 DEF NotebookFails
<1>29. CASE Crash(r)
  <2>1. at'[r].pc = "over" /\ at'[r].cur = None  BY <1>29, Ending DEF Crash
  <2> QED BY <1>29, <2>1, EndingSeen DEF Crash, Seen
<1>30. CASE Cancel(r)  BY <1>30 DEF Cancel, Seen
<1> QED BY <1>2, <1>3, <1>4, <1>5, <1>6, <1>7, <1>8, <1>9, <1>11, <1>13, <1>14, <1>16, <1>17, <1>18,
           <1>19, <1>21, <1>22, <1>23, <1>24, <1>25, <1>26, <1>27, <1>28, <1>29, <1>30 DEF Step

\* What completed examined and counted, unless two failures on the way undid it.
LEMMA SeenCounts == ASSUME TypeInv, \A r \in Runs : Seen(r) PROVE EveryCandidateCounted
<1> SUFFICES ASSUME NEW r \in Runs, status[r] = "completed"
             PROVE  /\ \A l \in examined[r] : counted[r][l] # "none" \/ l \in raised[r]
                    /\ cap[r] > 0 => raised[r] = {}
    BY DEF EveryCandidateCounted
<1>1. at[r].pc = "over" /\ OnListing(r) /\ LoopOK  BY Parts DEF TypeInv, Seen
<1>2. at[r].cur = None /\ None \notin examined[r]  BY <1>1, Apart DEF OnListing, LoopOK
<1> QED BY <1>1, <1>2 DEF Seen

-----------------------------------------------------------------------------
(* Where each step leaves the run.                                         *)

\* It goes on with its listing, leaves it, saves it, or has an answer of the save.
Stays(r, pc) == at'[r].pc = pc /\ Same(at'[r], at[r])
Leaves(r, pc) == at'[r].pc = pc /\ at'[r].cur = None
Saves(r) == at'[r].pc = "save" /\ at'[r].cur = at[r].cur /\ at'[r].res = "none" /\ at'[r].was = "none"
Answers(r, pc, res) ==
  /\ at'[r].pc = pc /\ at'[r].res = res /\ at'[r].cur = at[r].cur /\ at'[r].got = at[r].got
  /\ at'[r].was = at[r].was

LEMMA LoopPlaces ==
    ASSUME TypeInv, NEW r \in Runs
    PROVE  /\ Collect(r) => Leaves(r, "top") \/ Leaves(r, "over")
           /\ Look(r) => IF r \notin links /\ IsComplete(On(r)) THEN Leaves(r, "top") ELSE Stays(r, "page")
           /\ Page(r) => \/ Stays(r, "note") /\ mem'[r][On(r)] \in {"failed", "dropped"}
                         \/ Stays(r, "filtered") /\ mem'[r][On(r)] = "dropped"
                         \/ Saves(r) /\ mem' = mem
           /\ Note(r) => Stays(r, IF at[r].pc = "note" THEN "progress" ELSE "rotate")
           /\ Progress(r) => Stays(r, IF at[r].pc = "progress" THEN "rotate" ELSE "jot")
           /\ Rotate(r) => Leaves(r, "top")
           /\ Finish(r) => Leaves(r, "over")
<1>0. /\ TypeOK /\ OnListing(r) /\ mem \in [Runs -> [Listings -> Counts]] /\ at \in [Runs -> Listing]
      /\ None \in Listings \cup {None}
      BY DEF TypeInv, TypeOK
<1>1. {"top", "over", "page", "note", "filtered", "progress", "rotate", "jot", "save"} \subseteq Places
      BY DEF Places, Saving
<1>2. ASSUME Ends(r) PROVE Leaves(r, "over")  BY <1>0, <1>2, Ending DEF Leaves
<1>3. ASSUME NEW pc \in Places, Goes(r, pc) PROVE Stays(r, pc)  BY <1>0, <1>3, Going DEF Stays
<1>4. ASSUME at' = [at EXCEPT ![r] = Place("top", None)] PROVE Leaves(r, "top")
      BY <1>0, <1>1, <1>4, Placing DEF Leaves
<1>5. Collect(r) => Leaves(r, "top") \/ Leaves(r, "over")
      BY <1>0, <1>1, <1>2, <1>3 DEF Collect, OnListing, Stays, Leaves, Same
<1>6. Look(r) => IF r \notin links /\ IsComplete(On(r)) THEN Leaves(r, "top") ELSE Stays(r, "page")
      BY <1>1, <1>3, <1>4 DEF Look
<1>7. ASSUME Page(r)
      PROVE  \/ Stays(r, "note") /\ mem'[r][On(r)] \in {"failed", "dropped"}
             \/ Stays(r, "filtered") /\ mem'[r][On(r)] = "dropped"
             \/ Saves(r) /\ mem' = mem
  <2>1. On(r) \in Listings  BY <1>7, Here DEF Page
  <2>2. CASE \E k \in {"failed", "dropped"} : mem' = [mem EXCEPT ![r][On(r)] = k] /\ Goes(r, "note")
        BY <1>0, <1>1, <1>3, <2>1, <2>2
  <2>3. CASE mem' = [mem EXCEPT ![r][On(r)] = "dropped"] /\ Goes(r, "filtered")
        BY <1>0, <1>1, <1>3, <2>1, <2>3
  <2>4. ASSUME NEW g \in Contents, at' = [at EXCEPT ![r] = [Place("save", On(r)) EXCEPT !.got = g]], mem' = mem
        PROVE  Saves(r) /\ mem' = mem
        BY <1>0, <2>4 DEF Saves, Place, On
  <2> QED BY <1>7, <2>2, <2>3, <2>4 DEF Page
<1>8. Note(r) => Stays(r, IF at[r].pc = "note" THEN "progress" ELSE "rotate")
      BY <1>1, <1>3 DEF Note
<1>9. Progress(r) => Stays(r, IF at[r].pc = "progress" THEN "rotate" ELSE "jot")
      BY <1>1, <1>3 DEF Progress
<1> QED BY <1>2, <1>4, <1>5, <1>6, <1>7, <1>8, <1>9 DEF Rotate, Finish

GaveUp(r) == Answers(r, "tally", "none") /\ mem'[r] = Reread(r) /\ expired' = expired \cup {r}

LEMMA SavePlaces ==
    ASSUME TypeInv, NEW r \in Runs
    PROVE  /\ GivesUp(r) => GaveUp(r)
           /\ Insert(r) =>
                 IF Stored = at[r].seen
                 THEN Answers(r, IF at[r].got = "full" THEN "fill" ELSE "lead", "created") /\ Inserted(r)
                 ELSE GaveUp(r) /\ UNCHANGED <<prop, created>>
           /\ Fill(r) => Stays(r, "resolve")
           /\ AfterResolve(r) => Stays(r, IF at[r].res = "created" THEN "lead" ELSE "update")
           /\ Update(r) => Answers(r, "tally", "updated")
           /\ CreateLead(r) => Stays(r, "tally")
           /\ Tally(r) => Stays(r, IF IsNoted(r) THEN "note" ELSE "progress") /\ mem'[r][On(r)] = Verdict(r)
<1>0. TypeOK /\ mem \in [Runs -> [Listings -> Counts]]  BY DEF TypeInv, TypeOK
<1>1. {"fill", "lead", "resolve", "update", "tally", "note", "progress"} \subseteq Places  BY DEF Places, Saving
<1>2. ASSUME NEW pc \in Places, Goes(r, pc) PROVE Stays(r, pc)  BY <1>0, <1>2, Going DEF Stays
<1>3. ASSUME NEW pc \in Places, NEW res \in {"none", "created", "updated"},
             at' = [at EXCEPT ![r] = [at[r] EXCEPT !.pc = pc, !.res = res]]
      PROVE  Answers(r, pc, res)
      BY <1>0, <1>3, Answering DEF Answers
<1>4. ASSUME GivesUp(r) PROVE GaveUp(r)
  <2>1. at' = [at EXCEPT ![r] = [at[r] EXCEPT !.pc = "tally", !.res = "none"]]
        /\ mem' = [mem EXCEPT ![r] = Reread(r)] /\ expired' = expired \cup {r}
        BY <1>4 DEF GivesUp
  <2> QED BY <1>0, <1>1, <1>3, <2>1 DEF GaveUp
<1>5. ASSUME Insert(r)
      PROVE  IF Stored = at[r].seen
             THEN Answers(r, IF at[r].got = "full" THEN "fill" ELSE "lead", "created") /\ Inserted(r)
             ELSE GaveUp(r) /\ UNCHANGED <<prop, created>>
  <2>1. CASE Stored = at[r].seen
    <3> DEFINE pc == IF at[r].got = "full" THEN "fill" ELSE "lead"
    <3>1. at' = [at EXCEPT ![r] = [at[r] EXCEPT !.pc = pc, !.res = "created"]] /\ Inserted(r)
          BY <1>5, <2>1 DEF Insert
    <3>2. pc \in Places  BY <1>1
    <3>3. Answers(r, pc, "created")
      <4> HIDE DEF pc
      <4> QED BY <1>3, <3>1, <3>2
    <3> QED BY <2>1, <3>1, <3>3
  <2> QED BY <1>4, <1>5, <2>1 DEF Insert
<1>6. ASSUME Update(r) PROVE Answers(r, "tally", "updated")
  <2>1. at' = [at EXCEPT ![r] = [at[r] EXCEPT !.pc = "tally", !.res = "updated"]]  BY <1>6 DEF Update
  <2> QED BY <1>1, <1>3, <2>1
<1>7. ASSUME Tally(r)
      PROVE  Stays(r, IF IsNoted(r) THEN "note" ELSE "progress") /\ mem'[r][On(r)] = Verdict(r)
  <2>1. On(r) \in Listings  BY <1>7, Here DEF Tally
  <2> QED BY <1>0, <1>1, <1>2, <1>7, <2>1 DEF Tally
<1> QED BY <1>1, <1>2, <1>4, <1>5, <1>6, <1>7 DEF Fill, AfterResolve, CreateLead

LEMMA FailPlaces ==
    ASSUME TypeInv, NEW r \in Runs
    PROVE  /\ ReadsExpired(r) \/ RaisesHard(r) \/ Crash(r) => Leaves(r, "over")
           /\ Raises(r) => Leaves(r, "top")
           /\ LooksInVain(r) => Stays(r, "page")
           /\ SaveDrops(r) => Saves(r)
           /\ SaveFails(r) => GaveUp(r)
           /\ LeadFails(r) => Stays(r, "tally")
           /\ NotebookFails(r) =>
                 \/ at[r].pc = "resolve" /\ Stays(r, IF at[r].res = "created" THEN "lead" ELSE "update")
                 \/ at[r].pc \in {"note", "jot"} /\ Stays(r, IF at[r].pc = "note" THEN "progress" ELSE "rotate")
           /\ Cancel(r) => at' = at
<1>0. TypeOK /\ at \in [Runs -> Listing]  BY DEF TypeInv, TypeOK
<1>1. {"top", "over", "page", "tally", "progress", "rotate"} \subseteq Places /\ None \in Listings \cup {None}
      BY DEF Places, Saving
<1>2. ASSUME Ends(r) PROVE Leaves(r, "over")  BY <1>0, <1>2, Ending DEF Leaves
<1>3. ASSUME NEW pc \in Places, Goes(r, pc) PROVE Stays(r, pc)  BY <1>0, <1>3, Going DEF Stays
<1>4. ReadsExpired(r) \/ RaisesHard(r) \/ Crash(r) => Leaves(r, "over")
      BY <1>2 DEF ReadsExpired, RaisesHard, Crash, Dies
<1>5. ASSUME Raises(r) PROVE Leaves(r, "top")
  <2>1. at' = [at EXCEPT ![r] = Place("top", None)]  BY <1>5 DEF Raises
  <2> QED BY <1>0, <1>1, <2>1, Placing DEF Leaves
<1>6. ASSUME SaveDrops(r) PROVE Saves(r)
  <2>1. at' = [at EXCEPT ![r] = [Place("save", On(r)) EXCEPT !.got = at[r].got, !.again = TRUE]]
        BY <1>6 DEF SaveDrops
  <2> QED BY <1>0, <2>1 DEF Saves, Place, On
<1>7. SaveFails(r) => GaveUp(r)  BY SavePlaces DEF SaveFails
<1>8. NotebookFails(r) =>
         \/ at[r].pc = "resolve" /\ Stays(r, IF at[r].res = "created" THEN "lead" ELSE "update")
         \/ at[r].pc \in {"note", "jot"} /\ Stays(r, IF at[r].pc = "note" THEN "progress" ELSE "rotate")
      BY <1>1, <1>3, SavePlaces DEF NotebookFails
<1> QED BY <1>1, <1>3, <1>4, <1>5, <1>6, <1>7, <1>8 DEF LooksInVain, LeadFails, Cancel

-----------------------------------------------------------------------------
(* What «new» and «updated» say.                                           *)

\* A row knows who inserted it, and that run examined it.
Rows == \A l \in Listings : prop[l] = "none" <=> created[l] = None
Mine(r) == \A l \in Listings : created[l] = r => l \in examined[r]

\* What a counter says of a listing, in memory as in the job's row.
Says(c, r, l) ==
  /\ c = "new" => created[l] = r /\ prop[l] = "full"
  /\ c = "updated" => prop[l] # "none" /\ (created[l] # r \/ l \in struck)
Records(r) == \A l \in Listings : Says(counted[r][l], r, l) /\ Says(mem[r][l], r, l)

\* What the save knows of the row it is at.
Knows(r) ==
  /\ at[r].pc = "insert" => at[r].was = "none" /\ at[r].cur \notin at[r].seen
  /\ at[r].pc \in {"fill", "resolve"} => "full" \in {at[r].was, at[r].got}
                          /\ (at[r].res = "created" => at[r].got = "full")
  /\ at[r].pc \in Saving /\ at[r].was = "full" => prop[at[r].cur] = "full"
  /\ at[r].pc \in Saving \cup {"tally"} /\ at[r].res = "created" => created[at[r].cur] = r
  /\ at[r].pc \in Saving \cup {"tally"} /\ at[r].res = "created" /\ at[r].got = "full" => prop[at[r].cur] = "full"
  /\ at[r].pc = "tally" /\ at[r].res = "updated" /\ at[r].got = "full" => prop[at[r].cur] = "full"
  /\ at[r].pc \in {"look", "page", "tally"} \cup Saving /\ at[r].res # "created" =>
        created[at[r].cur] # r \/ at[r].cur \in struck

\* The table: an insert, a rewrite, or nothing.
Rewrites(r) == prop' = [prop EXCEPT ![On(r)] = Rewritten(r)] /\ UNCHANGED created

LEMMA TableSteps ==
    ASSUME NEW r \in Runs, Step(r)
    PROVE  \/ UNCHANGED <<prop, created>>
           \/ at[r].pc = "insert" /\ Stored = at[r].seen /\ Inserted(r)
           \/ at[r].pc \in {"fill", "update"} /\ Rewrites(r)
<1>1. ASSUME Lands(r)
      PROVE  \/ UNCHANGED <<prop, created>>
             \/ at[r].pc = "insert" /\ Stored = at[r].seen /\ Inserted(r)
             \/ at[r].pc \in {"fill", "update"} /\ Rewrites(r)
      BY <1>1 DEF Lands, Filled, Rewrites
<1>2. CASE SaveDrops(r) \/ SaveFails(r) \/ LeadFails(r)
      BY <1>1, <1>2 DEF SaveDrops, SaveFails, LeadFails
<1>3. CASE Insert(r)  BY <1>3 DEF Insert
<1>4. CASE Fill(r)  BY <1>4 DEF Fill, Filled, Rewrites
<1>5. CASE Update(r)  BY <1>5 DEF Update, Rewrites
<1>6. CASE ~(SaveDrops(r) \/ SaveFails(r) \/ LeadFails(r) \/ Insert(r) \/ Fill(r) \/ Update(r))
      BY <1>6 DEF Step, Collect, Top, Look, Page, Note, Progress, Rotate, Finish, Read, Resolve,
                  CreateLead, Tally, ReadsExpired, Raises, RaisesHard, LooksInVain, NotebookFails, Crash,
                  Cancel, Dies, tables
<1> QED BY <1>2, <1>3, <1>4, <1>5, <1>6

\* A row stays, and so do its number and the run that inserted it.
Grows(r) ==
  /\ \A l \in Listings : prop[l] # "none" => prop'[l] # "none" /\ created'[l] = created[l]
  /\ \A l \in Listings : prop[l] = "full" => prop'[l] = "full"
  /\ \A l \in Listings : created'[l] \in {created[l], r}
  /\ \A l \in Listings : l # at[r].cur => created'[l] = created[l]

LEMMA TableGrows ==
    ASSUME TypeInv, NEW r \in Runs, Step(r), Rows, Knows(r)
    PROVE  Rows' /\ Grows(r)
<1>1. PropOK /\ OnListing(r) /\ at[r].got \in Contents /\ at[r].cur = On(r)
      BY Parts, Here DEF TypeInv, On
<1>2. CASE UNCHANGED <<prop, created>>  BY <1>2 DEF Rows, Grows
<1>3. CASE at[r].pc = "insert" /\ Stored = at[r].seen /\ Inserted(r)
  <2>1. On(r) \in Listings  BY <1>3, Here
  <2>2. prop[On(r)] = "none"  BY <1>1, <1>3, <2>1 DEF Knows, Stored
  <2>3. at[r].got # "none" /\ r # None  BY <1>1, Apart DEF Contents
  <2> QED BY <1>1, <1>3, <2>1, <2>2, <2>3 DEF Rows, Grows, Inserted, PropOK
<1>4. CASE at[r].pc \in {"fill", "update"} /\ Rewrites(r)
  <2>1. On(r) \in Listings /\ prop[On(r)] # "none"  BY <1>1, <1>4, Here DEF OnListing, On
  <2>2. Rewritten(r) \in Contents /\ Rewritten(r) # "none"  BY <2>1, RewrittenType DEF TypeInv, Contents
  <2>3. prop[On(r)] = "full" => Rewritten(r) = "full"  BY DEF Rewritten
  <2> QED BY <1>1, <1>4, <2>1, <2>2, <2>3 DEF Rows, Grows, Rewrites, PropOK
<1> QED BY <1>2, <1>3, <1>4, TableSteps

\* The same of a value, after the step.
WillSay(c, r, l) ==
  /\ c = "new" => created'[l] = r /\ prop'[l] = "full"
  /\ c = "updated" => prop'[l] # "none" /\ (created'[l] # r \/ l \in struck')

LEMMA SaysStill ==
    ASSUME Rows, NEW r \in Runs, NEW q \in Runs, Grows(r), struck \subseteq struck', NEW l \in Listings, NEW c,
           Says(c, q, l)
    PROVE  WillSay(c, q, l)
<1>1. c = "new" => prop[l] # "none"  BY DEF Says
<1> QED BY <1>1 DEF Says, WillSay, Grows

LEMMA OthersKnow ==
    ASSUME TypeInv, NEW r \in Runs, Step(r), Rows, Grows(r),
           NEW q \in Runs \ {r}, Knows(q), Mine(q), Records(q)
    PROVE  Knows(q)' /\ Mine(q)' /\ Records(q)'
<1>1. Alone(q) /\ struck \subseteq struck'  BY OthersApart, HistoryGrows
<1>2. Records(q)'  BY <1>1, SaysStill DEF Records, Alone, Says, WillSay
<1>3. Mine(q)'  BY <1>1 DEF Mine, Alone, Grows
<1>4. at[q].pc \in {"look", "page", "tally"} \cup Saving => at[q].cur \in Listings
      BY Here DEF Saving, On
<1>5. at[q].cur \in Listings /\ created[at[q].cur] = q => created'[at[q].cur] = q
      BY Apart DEF Rows, Grows
<1>6. Knows(q)'  BY <1>1, <1>4, <1>5 DEF Knows, Alone, Grows
<1> QED BY <1>2, <1>3, <1>6

\* What a step does to the counters of the run.
LEMMA Counting ==
    ASSUME TypeInv, NEW r \in Runs, Step(r), NEW l \in Listings
    PROVE  /\ \/ mem'[r][l] \in {mem[r][l], counted[r][l], "failed", "dropped"}
              \/ l = at[r].cur /\ mem'[r][l] = "updated" /\ at[r].pc = "look" /\ IsComplete(l)
              \/ l = at[r].cur /\ mem'[r][l] = Verdict(r) /\ at[r].pc = "tally"
           /\ counted'[r][l] \in {mem[r][l], mem'[r][l], counted[r][l]}
<1>1. CASE l # at[r].cur  BY <1>1, ListingsAway DEF Away, On
<1>2. CASE l = at[r].cur
  <2>0. On(r) = l /\ JobOK /\ SessionOK  BY <1>2, Parts DEF On, TypeInv
  <2>1. mem' = mem \/ mem'[r] = mem[r] => mem'[r][l] = mem[r][l]  OBVIOUS
  <2>2. mem' = [mem EXCEPT ![r] = Reread(r)] => mem'[r][l] \in {mem[r][l], counted[r][l], "dropped"}
        BY <2>0 DEF SessionOK, Reread
  <2> USE <2>0 DEF JobOK, SessionOK, job, session
  <2>3. CASE Top(r) \/ Raises(r) \/ SaveDrops(r) \/ SaveFails(r) \/ LeadFails(r)
        BY <2>2, <2>3 DEF Top, Raises, SaveDrops, SaveFails, LeadFails, GivesUp
  <2>4. CASE Insert(r)  BY <2>2, <2>4 DEF Insert, GivesUp
  <2>5. CASE Look(r)  BY <1>2, <2>5 DEF Look
  <2>6. CASE Page(r)  BY <2>6 DEF Page
  <2>7. CASE Tally(r)  BY <1>2, <2>7 DEF Tally
  <2>8. CASE Progress(r) \/ Finish(r)  BY <2>8 DEF Progress, Finish
  <2>9. CASE Collect(r) \/ Note(r) \/ Rotate(r) \/ Read(r) \/ Fill(r) \/ Resolve(r) \/ Update(r)
             \/ CreateLead(r) \/ ReadsExpired(r) \/ RaisesHard(r) \/ LooksInVain(r) \/ NotebookFails(r)
             \/ Crash(r) \/ Cancel(r)
        BY <2>9 DEF Collect, Note, Rotate, Read, Fill, Resolve, Update, CreateLead, ReadsExpired,
                    RaisesHard, LooksInVain, NotebookFails, Crash, Cancel, Dies
  <2> QED BY <2>3, <2>4, <2>5, <2>6, <2>7, <2>8, <2>9 DEF Step
<1> QED BY <1>1, <1>2

LEMMA RecordsStill ==
    ASSUME TypeInv, NEW r \in Runs, Step(r), Rows, Grows(r), Knows(r), Records(r)
    PROVE  Records(r)'
<1> SUFFICES ASSUME NEW l \in Listings PROVE WillSay(counted'[r][l], r, l) /\ WillSay(mem'[r][l], r, l)
    BY DEF Records, Says, WillSay
<1>0. struck \subseteq struck'  BY HistoryGrows
<1>1. ASSUME NEW c, c \in {mem[r][l], counted[r][l]} PROVE WillSay(c, r, l)
      BY <1>0, <1>1, SaysStill DEF Records
<1>2. ASSUME NEW c, c \in {"failed", "dropped"} PROVE WillSay(c, r, l)
      BY <1>2 DEF WillSay
<1>3. Says("updated", r, l) => WillSay("updated", r, l)  BY <1>0, SaysStill
<1>4. ASSUME l = at[r].cur, at[r].pc = "look", IsComplete(l) PROVE WillSay("updated", r, l)
  <2>1. at[r].res # "created"  BY <1>4, Here DEF OnListing
  <2>2. Says("updated", r, l)  BY <1>4, <2>1 DEF Says, Knows, IsComplete
  <2> QED BY <1>3, <2>2
<1>5. ASSUME l = at[r].cur, at[r].pc = "tally" PROVE WillSay(Verdict(r), r, l)
  <2>1. OnListing(r) /\ at[r].res \in {"none", "created", "updated"} /\ at[r].got \in Contents
        BY Here DEF Listing
  <2>2. Verdict(r) \in {"failed", "dropped", "new", "updated"}  BY DEF Verdict
  <2>3. Verdict(r) = "new" => at[r].res = "created" /\ at[r].got = "full"
        BY <2>1 DEF Verdict, Contents
  <2>4. Verdict(r) = "updated" => at[r].res = "updated" /\ at[r].got = "full"
        BY <2>1 DEF Verdict, Contents
  <2>5. Says(Verdict(r), r, l)  BY <1>5, <2>1, <2>3, <2>4 DEF Says, Knows, OnListing
  <2> QED BY <1>0, <2>5, SaysStill
<1>6. WillSay(mem'[r][l], r, l)  BY <1>1, <1>2, <1>4, <1>5, Counting
<1>7. WillSay(counted'[r][l], r, l)  BY <1>1, <1>6, Counting
<1> QED BY <1>6, <1>7

LEMMA MineStill ==
    ASSUME TypeInv, NEW r \in Runs, Step(r), Grows(r), Mine(r), Seen(r)
    PROVE  Mine(r)'
<1>1. LoopOK  BY Parts DEF TypeInv
<1>2. examined[r] \subseteq examined'[r]
  <2>1. CASE Top(r)  BY <1>1, <2>1 DEF Top, LoopOK, loop
  <2>2. CASE ~Top(r)
        BY <2>2 DEF Step, Collect, Look, Page, Note, Progress, Rotate, Finish, Read, Insert, Fill, Resolve,
                    Update, CreateLead, Tally, ReadsExpired, Raises, RaisesHard, LooksInVain, SaveDrops,
                    SaveFails, LeadFails, NotebookFails, Crash, Cancel, Dies, loop
  <2> QED BY <2>1, <2>2
<1>3. ASSUME NEW l \in Listings, created'[l] = r PROVE l \in examined[r]
      BY <1>3, Apart DEF Grows, Mine, Seen
<1> QED BY <1>2, <1>3 DEF Mine

\* A listing whose scrape meets a fault is marked.
LEMMA Struck ==
    ASSUME TypeInv, NEW r \in Runs, at[r].cur # None,
           Raises(r) \/ RaisesHard(r) \/ LooksInVain(r) \/ SaveDrops(r) \/ SaveFails(r) \/ LeadFails(r)
             \/ NotebookFails(r) \/ Crash(r)
    PROVE  at[r].cur \in struck'
<1>1. Strikes(r)  BY DEF Raises, RaisesHard, LooksInVain, SaveDrops, SaveFails, LeadFails, NotebookFails, Crash
<1> QED BY <1>1 DEF Strikes, On

LEMMA KnowsStill ==
    ASSUME TypeInv, NEW r \in Runs, Step(r), Rows, Grows(r), Knows(r), Mine(r), Seen(r)
    PROVE  Knows(r)'
<1>0. /\ OnListing(r) /\ at[r].got \in Contents /\ at[r].cur = On(r) /\ struck \subseteq struck' /\ PropOK
      /\ at[r].cur # None => at[r].cur \in Listings
      BY Here, HistoryGrows, Parts DEF On, TypeInv
<1>1. ASSUME at'[r].pc \notin {"look", "page", "tally"} \cup Saving PROVE Knows(r)'
      BY <1>1 DEF Knows, Saving
<1>2. at[r].pc \notin {"insert", "fill", "update"} => UNCHANGED <<prop, created>>  BY TableSteps
<1>3. at[r].pc # "insert" => UNCHANGED created  BY TableSteps DEF Rewrites
<1>4. at[r].pc \in {"look", "page", "save", "insert", "update"} => at[r].res = "none"  BY <1>0 DEF OnListing
<1>5. CASE Collect(r) \/ Note(r) \/ Progress(r) \/ Rotate(r) \/ Finish(r) \/ Tally(r) \/ ReadsExpired(r)
            \/ RaisesHard(r) \/ Crash(r) \/ Raises(r)
      BY <1>1, <1>5, LoopPlaces, SavePlaces, FailPlaces DEF Leaves, Stays, Saving
<1>6. CASE Top(r)
  <2>1. CASE status[r] = "cancelled"
    <3>1. Ends(r)  BY <1>6, <2>1 DEF Top
    <3>2. at'[r].pc = "over"  BY <3>1, Ending DEF TypeInv
    <3> QED BY <1>1, <3>2 DEF Saving
  <2>2. CASE status[r] # "cancelled"
    <3>1. PICK l \in todo[r] : at' = [at EXCEPT ![r] = Place("look", l)]  BY <1>6, <2>2 DEF Top
    <3>2. LoopOK /\ TypeOK  BY Parts DEF TypeInv
    <3>3. l \in Listings /\ l \in Listings \cup {None} /\ "look" \in Places  BY <3>2 DEF LoopOK, Places
    <3>4. at'[r].pc = "look" /\ at'[r].cur = l /\ at'[r].res = "none"  BY <3>1, <3>2, <3>3, Placing
    <3>5. created[l] # r /\ UNCHANGED created  BY <1>3, <1>6, <3>3 DEF Seen, Mine, Top
    <3> QED BY <3>4, <3>5 DEF Knows, Saving
  <2> QED BY <2>1, <2>2
<1>7. CASE Look(r) \/ LooksInVain(r)
  <2>1. Leaves(r, "top") \/ Stays(r, "page")  BY <1>7, LoopPlaces, FailPlaces
  <2>2. at[r].pc = "look" /\ UNCHANGED <<prop, created>>  BY <1>2, <1>7 DEF Look, LooksInVain
  <2> QED BY <1>0, <1>1, <1>4, <2>1, <2>2 DEF Leaves, Stays, Same, Knows, Saving
<1>8. CASE Page(r)
  <2>1. Stays(r, "note") \/ Stays(r, "filtered") \/ Saves(r)  BY <1>8, LoopPlaces
  <2>2. at[r].pc = "page" /\ UNCHANGED <<prop, created>>  BY <1>2, <1>8 DEF Page
  <2> QED BY <1>0, <1>1, <1>4, <2>1, <2>2 DEF Stays, Saves, Knows, Saving
<1>9. CASE Read(r)
  <2>1. at[r].pc = "save" /\ UNCHANGED <<prop, created>>  BY <1>2, <1>9 DEF Read
  <2>2. /\ at'[r].pc = ReadPc(r) /\ at'[r].cur = at[r].cur /\ at'[r].got = at[r].got
        /\ at'[r].was = prop[On(r)] /\ at'[r].seen = Stored /\ at'[r].res = "none"
        BY <1>9, Reading
  <2> QED BY <1>0, <1>4, <2>1, <2>2 DEF ReadPc, Knows, Saving, Stored
<1>10. ASSUME GaveUp(r), at[r].pc \in Saving,
              at[r].cur \in struck' \/ (at[r].res # "created" /\ UNCHANGED created)
       PROVE  Knows(r)'
       BY <1>0, <1>10 DEF GaveUp, Answers, Knows, Saving
<1>11. CASE Insert(r)
  <2>1. at[r].pc = "insert" /\ On(r) \in Listings  BY <1>11, Here DEF Insert
  <2>2. CASE Stored # at[r].seen
        BY <1>4, <1>10, <1>11, <2>1, <2>2, SavePlaces DEF Saving
  <2>3. CASE Stored = at[r].seen
    <3>1. Answers(r, IF at[r].got = "full" THEN "fill" ELSE "lead", "created") /\ Inserted(r)
          BY <1>11, <2>3, SavePlaces
    <3>2. created'[at[r].cur] = r /\ prop'[at[r].cur] = at[r].got  BY <1>0, <2>1, <3>1 DEF Inserted, PropOK
    <3>3. at[r].was = "none"  BY <2>1 DEF Knows
    <3> QED BY <3>1, <3>2, <3>3 DEF Answers, Knows, Saving
  <2> QED BY <2>2, <2>3
<1>12. ASSUME Stays(r, at'[r].pc),
              \/ at[r].pc = "fill" /\ at'[r].pc = "resolve"
              \/ at[r].pc = "resolve" /\ at'[r].pc \in {"update", "lead"}
              \/ at[r].pc = "lead" /\ at'[r].pc = "tally"
       PROVE  Knows(r)'
  <2>1. at[r].cur \in Listings /\ UNCHANGED created  BY <1>0, <1>3, <1>12 DEF OnListing
  <2> QED BY <1>0, <1>12, <2>1 DEF Stays, Same, Knows, Grows, Saving, OnListing
<1>13. CASE Fill(r)  BY <1>12, <1>13, SavePlaces DEF Fill, Stays
<1>14. CASE Resolve(r)  BY <1>12, <1>14, SavePlaces DEF Resolve, Stays
<1>15. CASE CreateLead(r) \/ LeadFails(r)
       BY <1>12, <1>15, SavePlaces, FailPlaces DEF CreateLead, LeadFails, Stays
<1>16. CASE Update(r)
  <2>1. Answers(r, "tally", "updated") /\ at[r].pc = "update" /\ On(r) \in Listings /\ UNCHANGED created
        BY <1>3, <1>16, SavePlaces, Here DEF Update
  <2>2. at[r].got = "full" => prop'[On(r)] = "full"  BY <1>0, <1>16, <2>1 DEF Update, Rewritten, PropOK
  <2> QED BY <1>0, <1>4, <2>1, <2>2 DEF Answers, Knows, Saving
<1>17. CASE SaveDrops(r)
  <2>1. Saves(r) /\ at[r].cur \in struck'  BY <1>0, <1>17, FailPlaces, Struck DEF SaveDrops, OnListing
  <2> QED BY <2>1 DEF Saves, Knows, Saving
<1>18. CASE SaveFails(r)
  <2>1. GaveUp(r) /\ at[r].pc \in Saving /\ at[r].cur \in struck'
        BY <1>0, <1>18, FailPlaces, Struck DEF SaveFails, OnListing, Saving
  <2> QED BY <1>10, <2>1
<1>19. CASE NotebookFails(r)
  <2>1. \/ at[r].pc = "resolve" /\ Stays(r, IF at[r].res = "created" THEN "lead" ELSE "update")
        \/ at[r].pc \in {"note", "jot"} /\ Stays(r, IF at[r].pc = "note" THEN "progress" ELSE "rotate")
        BY <1>19, FailPlaces
  <2> QED BY <1>1, <1>12, <2>1 DEF Stays, Saving
<1>20. CASE Cancel(r)
  <2>1. UNCHANGED <<at, prop, created>>  BY <1>20 DEF Cancel, tables
  <2> QED BY <1>0, <2>1 DEF Knows
<1> QED BY <1>5, <1>6, <1>7, <1>8, <1>9, <1>11, <1>13, <1>14, <1>15, <1>16, <1>17, <1>18, <1>19, <1>20 DEF Step

\* Rows, counters and the save's knowledge, together.
Kept == Rows /\ \A r \in Runs : Seen(r) /\ Mine(r) /\ Records(r) /\ Knows(r)

LEMMA InitKept == Init => Kept
<1> SUFFICES ASSUME Init PROVE Kept OBVIOUS
<1>1. Rows  BY DEF Init, Rows
<1>2. ASSUME NEW r \in Runs PROVE Seen(r) /\ Mine(r) /\ Records(r) /\ Knows(r)
  <2>1. /\ at[r].pc = "idle" /\ at[r].cur = None /\ examined[r] = {} /\ raised[r] = {} /\ todo[r] = {}
        /\ status[r] = "running" /\ cap[r] = 0 /\ counted[r] = Uncounted /\ mem[r] = Uncounted
        /\ \A l \in Listings : created[l] = None
        BY DEF Init, Place
  <2> QED BY <2>1, Apart DEF Seen, Mine, Records, Says, Knows, Uncounted, Saving
<1> QED BY <1>1, <1>2 DEF Kept

LEMMA NextKept == TypeInv /\ TypeInv' /\ Kept /\ [Next]_vars => Kept'
<1> SUFFICES ASSUME TypeInv, TypeInv', Kept, [Next]_vars PROVE Kept' OBVIOUS
<1>1. CASE UNCHANGED vars
      BY <1>1 DEF vars, tables, job, session, loop, history, Kept, Rows, Seen, Mine, Records, Says, Knows
<1>2. CASE Next
  <2>1. PICK q \in Runs : Step(q)  BY <1>2 DEF Next, Step
  <2>2. Rows' /\ Grows(q)  BY <2>1, TableGrows DEF Kept
  <2>3. ASSUME NEW r \in Runs PROVE (Seen(r) /\ Mine(r) /\ Records(r) /\ Knows(r))'
    <3>1. CASE r = q
          BY <2>1, <2>2, <3>1, StepSeen, MineStill, RecordsStill, KnowsStill DEF Kept
    <3>2. CASE r # q  BY <2>1, <2>2, <3>2, OthersSeen, OthersKnow DEF Kept
    <3> QED BY <3>1, <3>2
  <2> QED BY <2>2, <2>3 DEF Kept
<1> QED BY <1>1, <1>2

\* A completed run has counted each listing it examined, but for those that raised;
\* with a target it met none of these (start_scraping_job).
THEOREM EveryCandidateIsCounted == Spec => []EveryCandidateCounted
<1>1. Init => TypeInv /\ Kept  BY InitType, InitKept
<1>2. TypeInv /\ Kept /\ [Next]_vars => (TypeInv /\ Kept)'  BY TypeNext, NextKept
<1>3. TypeInv /\ Kept => EveryCandidateCounted  BY SeenCounts DEF Kept
<1> QED BY <1>1, <1>2, <1>3, PTL DEF Spec

\* «New» is a listing the run inserted, with its number; «updated» one it did not
\* insert, but for a lost answer (_save_property_attempt).
THEOREM NewIsWhatItCreated == Spec => []NewIsCreated
<1>1. Init => TypeInv /\ Kept  BY InitType, InitKept
<1>2. TypeInv /\ Kept /\ [Next]_vars => (TypeInv /\ Kept)'  BY TypeNext, NextKept
<1>3. TypeInv /\ Kept => NewIsCreated  BY DEF Kept, Records, Says, NewIsCreated
<1> QED BY <1>1, <1>2, <1>3, PTL DEF Spec

\* One step of the listings and their leads.
NothingIsLost == \A l \in Listings :
  /\ prop[l] # "none" => prop'[l] # "none" /\ created'[l] = created[l]
  /\ prop[l] = "full" => prop'[l] = "full"
  /\ lead[l] # "none" => lead'[l] # "none"
  /\ lead[l] = "full" => lead'[l] = "full"

LEMMA LeadGrows ==
    ASSUME TypeInv, NEW r \in Runs, Step(r), NEW l \in Listings
    PROVE  /\ lead[l] # "none" => lead'[l] # "none"
           /\ lead[l] = "full" => lead'[l] = "full"
<1> DEFINE Up == /\ lead[l] # "none" => lead'[l] # "none"
                 /\ lead[l] = "full" => lead'[l] = "full"
<1>1. LeadOK  BY Parts DEF TypeInv
<1>2. CASE UNCHANGED lead  BY <1>2
<1>3. ASSUME Led(r) PROVE Up  BY <1>1, <1>3 DEF Led, LeadOK
<1>4. ASSUME Filled(r) PROVE Up  BY <1>1, <1>4 DEF Filled, LeadOK
<1>5. CASE SaveDrops(r) \/ SaveFails(r) \/ LeadFails(r)
  <2>1. UNCHANGED lead \/ Filled(r) \/ Led(r)  BY <1>5 DEF SaveDrops, SaveFails, LeadFails, Lands
  <2> QED BY <1>3, <1>4, <2>1
<1>6. CASE Fill(r) \/ CreateLead(r)  BY <1>3, <1>4, <1>6 DEF Fill, CreateLead
<1>7. CASE ~(SaveDrops(r) \/ SaveFails(r) \/ LeadFails(r) \/ Fill(r) \/ CreateLead(r))
  <2>1. UNCHANGED lead
        BY <1>7 DEF Step, Collect, Top, Look, Page, Note, Progress, Rotate, Finish, Read, Insert, Resolve,
           Update, Tally, ReadsExpired, Raises, RaisesHard, LooksInVain, NotebookFails, Crash, Cancel,
           Dies, tables
  <2> QED BY <2>1
<1> QED BY <1>5, <1>6, <1>7

\* Whatever runs meet on a listing and whatever fails between their commits, a number
\* that was stored stays, in the listing and in its lead, and nobody inserts a listing
\* a second time (_save_property_attempt, fill_lead_from_property).
THEOREM StoredNumbersStay == Spec => [][NothingIsLost]_vars
<1>1. Init => TypeInv /\ Kept  BY InitType, InitKept
<1>2. TypeInv /\ Kept /\ [Next]_vars => (TypeInv /\ Kept)'  BY TypeNext, NextKept
<1>3. TypeInv /\ Kept /\ [Next]_vars => [NothingIsLost]_vars
  <2> SUFFICES ASSUME TypeInv, Kept, Next PROVE NothingIsLost  OBVIOUS
  <2>1. PICK r \in Runs : Step(r)  BY DEF Next, Step
  <2>2. Grows(r)  BY <2>1, TableGrows DEF Kept
  <2> QED BY <2>1, <2>2, LeadGrows DEF Grows, NothingIsLost
<1> QED BY <1>1, <1>2, <1>3, PTL DEF Spec

-----------------------------------------------------------------------------
(* The row, its lead and the skipped list, of a listing that one run at a   *)
(* time is on and whose scrape met no fault.                               *)

Exclusive == \A r, q \in Runs : r # q /\ at[r].cur = at[q].cur /\ at[r].cur # None => at[r].cur \in shared

\* How a run comes to a listing: at the head of the loop.
LEMMA Arriving ==
    ASSUME TypeInv, NEW r \in Runs, Step(r), NEW l \in Listings, at[r].cur # l, at'[r].cur = l
    PROVE  /\ at'[r].pc = "look" /\ at'[r].res = "none" /\ (l \notin shared' => \A q \in Runs \ {r} : at[q].cur # l)
           /\ UNCHANGED <<prop, lead, skipped, counted, links, struck>>
<1>1. ASSUME ~Top(r) PROVE at'[r].cur \in {at[r].cur, None}
      BY <1>1, LoopPlaces, SavePlaces, FailPlaces, Reading
      DEF Step, Leaves, Stays, Saves, Answers, GaveUp, Same, Fill, Resolve, Update, CreateLead, Tally
<1>2. Top(r)  BY <1>1, Apart
<1>3. CASE status[r] = "cancelled"
  <2>1. Ends(r)  BY <1>2, <1>3 DEF Top
  <2>2. at'[r].cur = None  BY <2>1, Ending DEF TypeInv
  <2> QED BY <2>2, Apart
<1>4. CASE status[r] # "cancelled"
  <2>1. PICK k \in todo[r] :
          /\ at' = [at EXCEPT ![r] = Place("look", k)]
          /\ shared' = IF \E q \in Runs \ {r} : On(q) = k THEN shared \cup {k} ELSE shared
        BY <1>2, <1>4 DEF Top
  <2>2. LoopOK /\ TypeOK  BY Parts DEF TypeInv
  <2>3. k \in Listings  BY <2>2 DEF LoopOK
  <2>4. at' = [at EXCEPT ![r] = Place("look", k)]  BY <2>1
  <2>5. at'[r].pc = "look" /\ at'[r].cur = k /\ at'[r].res = "none"  BY <2>2, <2>3, <2>4, Looking
  <2>6. UNCHANGED <<prop, lead, skipped, counted, links, struck>>  BY <1>2, <1>4 DEF Top, tables, job
  <2> QED BY <2>1, <2>5, <2>6 DEF On
<1> QED BY <1>3, <1>4

LEMMA ExclusiveStill ==
    ASSUME TypeInv, TypeInv', NEW r \in Runs, Step(r), Exclusive
    PROVE  Exclusive'
<1> SUFFICES ASSUME NEW p \in Runs, NEW q \in Runs, p # q, at'[p].cur = at'[q].cur, at'[p].cur # None,
                    at'[p].cur \notin shared'
             PROVE  FALSE
    BY DEF Exclusive
<1>1. shared \subseteq shared' /\ \A k \in Runs \ {r} : at'[k] = at[k]  BY HistoryGrows, OthersApart DEF Alone
<1>2. at'[p].cur \in Listings  BY DEF TypeInv, TypeOK, Listing
<1>3. PICK k \in Runs \ {r} : at[k].cur = at'[p].cur /\ at'[r].cur = at'[p].cur
  <2>1. CASE p # r /\ q # r  BY <1>1, <2>1 DEF Exclusive
  <2>2. CASE p = r \/ q = r  BY <1>1, <2>2
  <2> QED BY <2>1, <2>2
<1>4. at[r].cur # at'[p].cur  BY <1>1, <1>3 DEF Exclusive
<1> QED BY <1>2, <1>3, <1>4, Arriving

\* What a step does to the listing the run is on, where it meets no fault.
Calm(r) ==
  \/ Look(r) \/ Page(r) \/ Note(r) \/ Progress(r) \/ Rotate(r) \/ Read(r) \/ Insert(r) \/ Fill(r)
  \/ Resolve(r) \/ Update(r) \/ CreateLead(r) \/ Tally(r) \/ ReadsExpired(r) \/ Cancel(r)

LEMMA Unstruck ==
    ASSUME TypeInv, NEW r \in Runs, Step(r), at[r].cur # None, at[r].cur \notin struck'
    PROVE  Calm(r)
<1>1. at[r].pc \notin {"idle", "top", "over"}  BY Here DEF OnListing
<1>2. ~Collect(r) /\ ~Top(r) /\ ~Finish(r)  BY <1>1 DEF Collect, Top, Finish
<1> QED BY <1>2, Struck DEF Step, Calm

\* The lead and the row.
Agrees(l) == lead[l] = IF prop[l] = "none" THEN "none" ELSE IF prop[l] = "full" THEN "full" ELSE "bare"

Course(r) ==
  LET l == at[r].cur
  IN /\ at[r].pc \notin {"fill", "resolve", "lead"} \/ at[r].res # "created" => Agrees(l)
     /\ at[r].pc = "insert" => prop[l] = "none"
     /\ at[r].pc \in {"fill", "resolve", "lead"} /\ at[r].res = "created" => prop[l] = at[r].got /\ lead[l] = "none"
     /\ at[r].pc = "fill" /\ at[r].res # "created" => prop[l] = at[r].was
     /\ at[r].pc = "resolve" => prop[l] = "full"
     /\ at[r].pc = "update" => prop[l] = "full" \/ at[r].got # "full"

\* The list and the row: a run over a search goes on with no listing that has its
\* number, and finds it before it says that it did not.
Clear(l) == prop[l] = "full" => \A r \in Runs : <<r, l>> \in skipped => r \in links

Lacks(r) ==
  LET l == at[r].cur
  IN r \notin links =>
       /\ at[r].pc \in {"page", "save", "note", "filtered", "jot"} => prop[l] # "full"
       /\ at[r].pc \in {"fill", "resolve"} => at[r].got = "full"
       /\ at[r].pc \in {"update", "lead", "tally"} /\ prop[l] = "full" => at[r].got = "full"
       /\ at[r].pc = "tally" /\ prop[l] = "full" => at[r].res # "none"

LEMMA CourseStill ==
    ASSUME TypeInv, NEW r \in Runs, Calm(r), NEW l \in Listings, l = at[r].cur, Knows(r), Course(r)
    PROVE  IF at'[r].cur = l THEN Course(r)' ELSE Agrees(l)'
<1>0. /\ OnListing(r) /\ at[r].got \in Contents /\ at[r].cur = On(r) /\ PropOK /\ LeadOK
      /\ at[r].pc \notin {"idle", "top", "over"} /\ at[r].cur # None
      BY Here, Parts, Apart DEF On, TypeInv, OnListing
<1>1. CASE Look(r) \/ Page(r) \/ Note(r) \/ Progress(r) \/ Rotate(r) \/ Tally(r) \/ ReadsExpired(r)
  <2>1. /\ UNCHANGED <<prop, lead>> /\ at[r].pc \notin {"fill", "resolve", "lead"}
        /\ \/ at'[r].cur = None
           \/ at'[r].pc \notin {"insert", "fill", "resolve", "update", "lead"} /\ at'[r].cur = at[r].cur
        BY <1>0, <1>1, LoopPlaces, SavePlaces, FailPlaces
        DEF Look, Page, Note, Progress, Rotate, Tally, ReadsExpired, Dies, tables, Leaves, Stays, Saves, Same
  <2> QED BY <1>0, <2>1 DEF Course, Agrees
<1>2. CASE Read(r)
  <2>1. /\ at[r].pc = "save" /\ UNCHANGED <<prop, lead>> /\ at'[r].pc = ReadPc(r) /\ at'[r].cur = at[r].cur
        /\ at'[r].got = at[r].got /\ at'[r].was = prop[On(r)] /\ at'[r].res = "none"
        BY <1>2, Reading DEF Read, tables
  <2> QED BY <1>0, <2>1 DEF ReadPc, Course, Agrees
<1>3. CASE Insert(r)
  <2>1. at[r].pc = "insert" /\ lead[at[r].cur] = "none" /\ prop[at[r].cur] = "none" /\ UNCHANGED lead
        BY <1>3 DEF Insert, Course, Agrees
  <2>2. CASE Stored = at[r].seen
    <3>1. Answers(r, IF at[r].got = "full" THEN "fill" ELSE "lead", "created") /\ Inserted(r)
          BY <1>3, <2>2, SavePlaces
    <3>2. prop'[at[r].cur] = at[r].got  BY <1>0, <3>1 DEF Inserted, PropOK
    <3> QED BY <2>1, <3>1, <3>2 DEF Answers, Course, Agrees
  <2>3. CASE Stored # at[r].seen
    <3>1. GaveUp(r) /\ UNCHANGED prop  BY <1>3, <2>3, SavePlaces
    <3> QED BY <2>1, <3>1 DEF GaveUp, Answers, Course, Agrees
  <2> QED BY <2>2, <2>3
<1>4. CASE Fill(r)
  <2>1. at[r].pc = "fill" /\ Filled(r) /\ Stays(r, "resolve")  BY <1>4, SavePlaces DEF Fill
  <2>2. CASE at[r].res = "created"
    <3>1. UNCHANGED <<prop, lead>> /\ prop[at[r].cur] = at[r].got /\ at[r].got = "full" /\ lead[at[r].cur] = "none"
          BY <1>0, <2>1, <2>2 DEF Filled, Course, Knows
    <3> QED BY <2>1, <2>2, <3>1 DEF Stays, Same, Course
  <2>3. CASE at[r].res # "created"
    <3>1. prop[at[r].cur] = at[r].was /\ "full" \in {at[r].was, at[r].got} /\ prop[at[r].cur] # "none"
          /\ Agrees(at[r].cur)
          BY <1>0, <2>1, <2>3 DEF Course, Knows, OnListing
    <3>2. lead'[at[r].cur] = "full" /\ prop'[at[r].cur] = "full"
          BY <1>0, <2>1, <3>1 DEF Filled, Rewritten, Agrees, PropOK, LeadOK
    <3> QED BY <2>1, <2>3, <3>2 DEF Stays, Same, Course, Agrees
  <2> QED BY <2>2, <2>3
<1>5. CASE Resolve(r)
  <2>1. /\ at[r].pc = "resolve" /\ UNCHANGED <<prop, lead>>
        /\ Stays(r, IF at[r].res = "created" THEN "lead" ELSE "update")
        BY <1>5, SavePlaces DEF Resolve
  <2> QED BY <2>1 DEF Stays, Same, Course, Agrees
<1>6. CASE Update(r)
  <2>1. at[r].pc = "update" /\ Answers(r, "tally", "updated") /\ UNCHANGED lead
        /\ prop'[at[r].cur] = Rewritten(r)
        BY <1>0, <1>6, SavePlaces DEF Update, PropOK
  <2>2. prop[at[r].cur] # "none" /\ Agrees(at[r].cur) /\ (prop[at[r].cur] = "full" \/ at[r].got # "full")
        BY <1>0, <2>1 DEF OnListing, Course
  <2>3. Agrees(l)'  BY <1>0, <2>1, <2>2 DEF Rewritten, Agrees, Contents
  <2> QED BY <2>1, <2>3 DEF Answers, Course, Agrees
<1>7. CASE CreateLead(r)
  <2>1. at[r].pc = "lead" /\ at[r].res = "created" /\ Stays(r, "tally") /\ UNCHANGED prop /\ Led(r)
        BY <1>0, <1>7, SavePlaces DEF CreateLead, OnListing
  <2>2. prop[at[r].cur] = at[r].got /\ lead[at[r].cur] = "none"  BY <2>1 DEF Course
  <2> QED BY <1>0, <2>1, <2>2 DEF Led, LeadOK, Contents, Stays, Same, Course, Agrees
<1>8. CASE Cancel(r)
  <2>1. UNCHANGED <<at, prop, lead>>  BY <1>8 DEF Cancel, tables
  <2> QED BY <2>1 DEF Course, Agrees
<1> QED BY <1>1, <1>2, <1>3, <1>4, <1>5, <1>6, <1>7, <1>8 DEF Calm

\* What a step of save_property or of the loop writes in the skipped list.
LEMMA ClearStill ==
    ASSUME TypeInv, NEW r \in Runs, Calm(r), NEW l \in Listings, l = at[r].cur, Knows(r), Course(r), Lacks(r),
           at[r].pc \notin {"fill", "resolve"} => Clear(l)
    PROVE  /\ at'[r].cur = l => Lacks(r)'
           /\ at'[r].cur # l \/ at'[r].pc \notin {"fill", "resolve"} => Clear(l)'
<1>0. /\ OnListing(r) /\ at[r].got \in Contents /\ at[r].cur = On(r) /\ PropOK /\ LeadOK
      /\ at[r].pc \notin {"idle", "top", "over"} /\ at[r].cur # None /\ SkippedOK
      BY Here, Parts, Apart DEF On, TypeInv, OnListing
<1>1. CASE Look(r)
  <2>1. at[r].pc = "look" /\ UNCHANGED <<prop, skipped, links>>  BY <1>1 DEF Look, tables, loop
  <2>2. Leaves(r, "top") \/ (Stays(r, "page") /\ (r \notin links => ~IsComplete(l)))
        BY <1>0, <1>1, LoopPlaces
  <2> QED BY <1>0, <2>1, <2>2 DEF Leaves, Stays, Same, IsComplete, Lacks, Clear
<1>2. CASE Page(r)
  <2>1. at[r].pc = "page" /\ UNCHANGED <<prop, skipped, links>>  BY <1>2 DEF Page, tables, loop
  <2>2. (Stays(r, "note") \/ Stays(r, "filtered")) \/ Saves(r)  BY <1>2, LoopPlaces
  <2> QED BY <2>1, <2>2 DEF Stays, Same, Saves, Lacks, Clear
<1>3. CASE Note(r)
  <2>1. /\ at[r].pc \in {"note", "jot"} /\ UNCHANGED <<prop, links>> /\ skipped' = skipped \cup {<<r, l>>}
        /\ Stays(r, IF at[r].pc = "note" THEN "progress" ELSE "rotate")
        BY <1>0, <1>3, LoopPlaces DEF Note, loop
  <2> QED BY <2>1 DEF Stays, Same, Lacks, Clear
<1>4. CASE Progress(r)
  <2>1. /\ at[r].pc \in {"progress", "filtered"} /\ UNCHANGED <<prop, skipped, links>>
        /\ Stays(r, IF at[r].pc = "progress" THEN "rotate" ELSE "jot")
        BY <1>4, LoopPlaces DEF Progress, loop, tables
  <2> QED BY <2>1 DEF Stays, Same, Lacks, Clear
<1>5. CASE Rotate(r) \/ ReadsExpired(r)
  <2>1. at[r].pc \notin {"fill", "resolve"} /\ at'[r].cur = None /\ UNCHANGED <<prop, skipped, links>>
        BY <1>5, LoopPlaces, FailPlaces DEF Rotate, ReadsExpired, Dies, Leaves, tables, loop
  <2> QED BY <1>0, <2>1 DEF Clear
<1>6. CASE Read(r)
  <2>1. /\ at[r].pc = "save" /\ UNCHANGED <<prop, skipped, links>> /\ at'[r].pc = ReadPc(r) /\ at'[r].cur = at[r].cur
        /\ at'[r].got = at[r].got
        BY <1>6, Reading DEF Read, tables, loop
  <2> QED BY <1>0, <2>1 DEF ReadPc, Lacks, Clear
<1>7. CASE Insert(r)
  <2>1. at[r].pc = "insert" /\ prop[l] = "none" /\ UNCHANGED <<skipped, links>>
        BY <1>7 DEF Insert, Course, loop
  <2>2. CASE Stored = at[r].seen
    <3>1. Answers(r, IF at[r].got = "full" THEN "fill" ELSE "lead", "created") /\ Inserted(r)
          BY <1>7, <2>2, SavePlaces
    <3>2. prop'[l] = at[r].got  BY <1>0, <3>1 DEF Inserted, PropOK
    <3> QED BY <2>1, <3>1, <3>2 DEF Answers, Lacks, Clear
  <2>3. CASE Stored # at[r].seen
    <3>1. GaveUp(r) /\ UNCHANGED prop  BY <1>7, <2>3, SavePlaces
    <3> QED BY <2>1, <3>1 DEF GaveUp, Answers, Lacks, Clear
  <2> QED BY <2>2, <2>3
<1>8. CASE Fill(r)
  <2>1. at[r].pc = "fill" /\ Stays(r, "resolve") /\ UNCHANGED links  BY <1>8, SavePlaces DEF Fill, loop
  <2> QED BY <2>1 DEF Stays, Same, Lacks
<1>9. CASE Resolve(r)
  <2>1. /\ at[r].pc = "resolve" /\ UNCHANGED <<prop, links>> /\ \A q \in Runs : <<q, l>> \notin skipped'
        /\ Stays(r, IF at[r].res = "created" THEN "lead" ELSE "update")
        BY <1>0, <1>9, SavePlaces DEF Resolve, Resolved, loop
  <2> QED BY <2>1 DEF Stays, Same, Lacks, Clear
<1>10. CASE Update(r)
  <2>1. /\ at[r].pc = "update" /\ Answers(r, "tally", "updated") /\ UNCHANGED <<skipped, links>>
        /\ prop'[l] = Rewritten(r)
        BY <1>0, <1>10, SavePlaces DEF Update, PropOK, loop
  <2>2. prop[l] = "full" \/ at[r].got # "full"  BY <2>1 DEF Course
  <2>3. Rewritten(r) = "full" => prop[l] = "full"  BY <1>0, <2>2 DEF Rewritten
  <2> QED BY <2>1, <2>3 DEF Answers, Lacks, Clear
<1>11. CASE CreateLead(r)
  <2>1. at[r].pc = "lead" /\ at[r].res = "created" /\ Stays(r, "tally") /\ UNCHANGED <<prop, skipped, links>>
        BY <1>0, <1>11, SavePlaces DEF CreateLead, OnListing, loop
  <2> QED BY <2>1 DEF Stays, Same, Lacks, Clear
<1>12. CASE Tally(r)
  <2>1. /\ at[r].pc = "tally" /\ Stays(r, IF IsNoted(r) THEN "note" ELSE "progress")
        /\ UNCHANGED <<prop, skipped, links>>
        BY <1>12, SavePlaces DEF Tally, loop, tables
  <2> QED BY <2>1 DEF Stays, Same, IsNoted, Lacks, Clear
<1>13. CASE Cancel(r)
  <2>1. UNCHANGED <<at, prop, skipped, links>>  BY <1>13 DEF Cancel, tables, loop
  <2> QED BY <2>1 DEF Lacks, Clear
<1> QED BY <1>1, <1>2, <1>3, <1>4, <1>5, <1>6, <1>7, <1>8, <1>9, <1>10, <1>11, <1>12, <1>13 DEF Calm

\* All of it, for a listing.
Smooth(l) ==
  /\ Settled(l) => Agrees(l) /\ Clear(l)
  /\ \A r \in Runs : at[r].cur = l =>
        Course(r) /\ Lacks(r) /\ (at[r].pc \notin {"fill", "resolve"} => Clear(l))

LEMMA SmoothStill ==
    ASSUME TypeInv, TypeInv', NEW r \in Runs, Step(r), Exclusive, Knows(r), NEW l \in Listings,
           l \notin shared \cup struck => Smooth(l), l \notin shared' \cup struck'
    PROVE  Smooth(l)'
<1>1. Smooth(l)  BY HistoryGrows
<1>2. /\ \A q \in Runs \ {r} : at'[q] = at[q] /\ (q \in links' <=> q \in links)
      /\ links \subseteq links' /\ l \notin shared /\ l # None
      BY OthersApart, HistoryGrows, Apart DEF Alone
<1>3. CASE at[r].cur # l
  <2>1. /\ prop'[l] = prop[l] /\ lead'[l] = lead[l] /\ \A q \in Runs : <<q, l>> \in skipped' <=> <<q, l>> \in skipped
        BY <1>3, ListingsAway DEF Away, On
  <2>2. /\ Agrees(l) => Agrees(l)'
        /\ Clear(l) => Clear(l)'
        BY <1>2, <2>1 DEF Agrees, Clear
  <2>3. ASSUME NEW q \in Runs \ {r}, at[q].cur = l
        PROVE  /\ Course(q) => Course(q)'
               /\ Lacks(q) => Lacks(q)'
        BY <1>2, <2>1, <2>3 DEF Course, Agrees, Lacks
  <2>4. CASE at'[r].cur # l
        BY <1>1, <1>2, <1>3, <2>2, <2>3, <2>4 DEF Smooth, Settled, On
  <2>5. CASE at'[r].cur = l
    <3>1. /\ at'[r].pc = "look" /\ at'[r].res = "none" /\ \A q \in Runs \ {r} : at[q].cur # l
          BY <1>3, <2>5, Arriving
    <3>2. Agrees(l)' /\ Clear(l)'  BY <1>1, <1>3, <2>2, <3>1 DEF Smooth, Settled, On
    <3>3. Course(r)' /\ Lacks(r)'  BY <2>5, <3>1, <3>2 DEF Course, Agrees, Lacks
    <3> QED BY <1>2, <2>5, <3>1, <3>2, <3>3 DEF Smooth, Settled, On
  <2> QED BY <2>4, <2>5
<1>4. CASE at[r].cur = l
  <2>1. Calm(r)  BY <1>2, <1>4, Unstruck
  <2>2. Course(r) /\ Lacks(r) /\ (at[r].pc \notin {"fill", "resolve"} => Clear(l))  BY <1>1, <1>4 DEF Smooth
  <2>3. \A q \in Runs \ {r} : at[q].cur # l  BY <1>2, <1>4 DEF Exclusive
  <2>4. IF at'[r].cur = l THEN Course(r)' ELSE Agrees(l)'  BY <1>4, <2>1, <2>2, CourseStill
  <2>5. /\ at'[r].cur = l => Lacks(r)'
        /\ at'[r].cur # l \/ at'[r].pc \notin {"fill", "resolve"} => Clear(l)'
        BY <1>4, <2>1, <2>2, ClearStill
  <2> QED BY <1>2, <2>3, <2>4, <2>5 DEF Smooth, Settled, On
<1> QED BY <1>3, <1>4

AllSmooth == Exclusive /\ \A l \in Listings \ (shared \cup struck) : Smooth(l)

LEMMA InitSmooth == Init => AllSmooth
<1> SUFFICES ASSUME Init PROVE AllSmooth OBVIOUS
<1>1. \A r \in Runs : at[r].cur = None  BY DEF Init, Place
<1>2. \A l \in Listings : Agrees(l) /\ Clear(l)  BY DEF Init, Agrees, Clear
<1> QED BY <1>1, <1>2, Apart DEF AllSmooth, Exclusive, Smooth

LEMMA NextSmooth == TypeInv /\ TypeInv' /\ Kept /\ AllSmooth /\ [Next]_vars => AllSmooth'
<1> SUFFICES ASSUME TypeInv, TypeInv', Kept, AllSmooth, [Next]_vars PROVE AllSmooth' OBVIOUS
<1>1. CASE UNCHANGED vars
      BY <1>1 DEF vars, tables, job, session, loop, history, AllSmooth, Exclusive, Smooth, Settled, On, Agrees, Clear,
                  Course, Lacks
<1>2. CASE Next
  <2>1. PICK r \in Runs : Step(r)  BY <1>2 DEF Next, Step
  <2>2. Exclusive'  BY <2>1, ExclusiveStill DEF AllSmooth
  <2>3. ASSUME NEW l \in Listings, l \notin shared' \cup struck' PROVE Smooth(l)'
        BY <2>1, <2>3, SmoothStill DEF AllSmooth, Kept
  <2> QED BY <2>2, <2>3 DEF AllSmooth
<1> QED BY <1>1, <1>2

LEMMA Lasting == Spec => [](TypeInv /\ Kept /\ AllSmooth)
<1>1. Init => TypeInv /\ Kept /\ AllSmooth  BY InitType, InitKept, InitSmooth
<1>2. TypeInv /\ Kept /\ AllSmooth /\ [Next]_vars => (TypeInv /\ Kept /\ AllSmooth)'
      BY TypeNext, NextKept, NextSmooth
<1> QED BY <1>1, <1>2, PTL DEF Spec

\* The lead of a stored listing has the number if the listing has it, unless two runs
\* were on it at once or its scrape met a fault (fill_lead_from_property).
THEOREM LeadsAgreeWithListings == Spec => []LeadsAgree
<1>1. ASSUME AllSmooth PROVE LeadsAgree
      BY <1>1 DEF AllSmooth, Smooth, Agrees, LeadsAgree, Stored
<1> QED BY <1>1, Lasting, PTL

\* The skipped list offers no listing whose number is stored, but for a link scraped
\* again in vain, two runs at once, or a fault (resolve).
THEOREM SkipsAgreeWithListings == Spec => []SkipsAgree
<1>1. ASSUME TypeInv, AllSmooth PROVE SkipsAgree
  <2> SUFFICES ASSUME NEW s \in skipped, prop[s[2]] = "full", Settled(s[2]), s[2] \notin shared \cup struck
               PROVE  s[1] \in links
      BY DEF SkipsAgree
  <2>1. s \in Runs \X Listings  BY <1>1 DEF TypeInv, TypeOK
  <2>2. Clear(s[2]) /\ s = <<s[1], s[2]>> /\ s[1] \in Runs  BY <1>1, <2>1 DEF AllSmooth, Smooth
  <2> QED BY <2>2 DEF Clear
<1> QED BY <1>1, Lasting, PTL

-----------------------------------------------------------------------------
(* What is still missing is listed, whoever is on it.                      *)

\* An expired job is met at the head of the loop, after a fault, or where it is read again.
Spoilt(r) == r \in expired =>
  \/ at[r].pc \in {"top", "over"} \/ at[r].cur \in struck
  \/ at[r].pc = "tally" /\ at[r].res = "none"

LEMMA SpoiltStill ==
    ASSUME TypeInv, NEW r \in Runs, Step(r), NEW q \in Runs, Spoilt(q)
    PROVE  Spoilt(q)'
<1>0. /\ OnListing(r) /\ struck \subseteq struck' /\ (at[r].cur # None => On(r) \in Listings) /\ at[r].cur = On(r)
      /\ HistoryOK
      BY Here, HistoryGrows, Parts DEF On, TypeInv
<1>1. CASE q # r  BY <1>0, <1>1, OthersApart DEF Alone, Spoilt
<1>2. CASE q = r
  <2> SUFFICES Spoilt(r)'  BY <1>2
  <2>1. ASSUME at'[r].pc \in {"top", "over"} PROVE Spoilt(r)'  BY <2>1 DEF Spoilt
  <2>2. ASSUME at[r].cur \in struck', at'[r].cur = at[r].cur PROVE Spoilt(r)'  BY <2>2 DEF Spoilt
  <2>3. ASSUME at[r].pc \notin {"top", "over", "tally"}, at'[r].cur = at[r].cur, r \in expired' => r \in expired
        PROVE  Spoilt(r)'
        BY <1>0, <1>2, <2>3 DEF Spoilt
  <2>4. ASSUME r \notin expired' PROVE Spoilt(r)'  BY <2>4 DEF Spoilt
  <2>5. CASE Collect(r)
    <3>1. r \notin expired' \/ at'[r].pc \in {"top", "over"}  BY <2>5, LoopPlaces DEF Leaves
    <3> QED BY <2>1, <2>4, <3>1
  <2>6. CASE Top(r)  BY <2>4, <2>6 DEF Top
  <2>7. CASE Look(r)
    <3>1. at[r].pc = "look" /\ UNCHANGED expired /\ (Leaves(r, "top") \/ Stays(r, "page"))
          BY <2>7, LoopPlaces DEF Look
    <3> QED BY <2>1, <2>3, <3>1 DEF Leaves, Stays, Same
  <2>8. CASE Page(r)
    <3>1. at[r].pc = "page" /\ UNCHANGED expired /\ at'[r].cur = at[r].cur
          BY <2>8, LoopPlaces DEF Page, Stays, Saves, Same
    <3> QED BY <2>3, <3>1
  <2>9. CASE Note(r) \/ Progress(r) \/ Read(r) \/ Fill(r) \/ Resolve(r) \/ CreateLead(r) \/ Update(r)
    <3>1. at[r].pc \notin {"top", "over", "tally"} /\ UNCHANGED expired
          BY <2>9 DEF Note, Progress, Read, Fill, Resolve, CreateLead, Update, session
    <3>2. at'[r].cur = at[r].cur
          BY <2>9, LoopPlaces, SavePlaces, Reading DEF Stays, Same, Answers, Resolve
    <3> QED BY <2>3, <3>1, <3>2
  <2>10. CASE Rotate(r) \/ Finish(r) \/ ReadsExpired(r) \/ RaisesHard(r) \/ Crash(r) \/ Raises(r)
         BY <2>1, <2>10, LoopPlaces, FailPlaces DEF Leaves
  <2>11. CASE Insert(r)
    <3>1. CASE Stored = at[r].seen
      <4>1. at'[r].cur = at[r].cur  BY <2>11, <3>1, SavePlaces DEF Answers
      <4> QED BY <2>3, <2>11, <3>1, <4>1 DEF Insert, session
    <3>2. CASE Stored # at[r].seen
      <4>1. at'[r].pc = "tally" /\ at'[r].res = "none"  BY <2>11, <3>2, SavePlaces DEF GaveUp, Answers
      <4> QED BY <4>1 DEF Spoilt
    <3> QED BY <3>1, <3>2
  <2>12. CASE Tally(r)
    <3>1. CASE Guarded(r)  BY <2>4, <2>12, <3>1 DEF Tally
    <3>2. CASE ~Guarded(r)
      <4>1. at[r].pc = "tally" /\ UNCHANGED expired /\ at[r].res # "none" /\ at'[r].cur = at[r].cur
            BY <2>12, <3>2, SavePlaces DEF Tally, Guarded, Stays, Same
      <4> QED BY <1>0, <1>2, <4>1 DEF Spoilt
    <3> QED BY <3>1, <3>2
  <2>13. CASE LooksInVain(r) \/ SaveDrops(r) \/ SaveFails(r) \/ LeadFails(r) \/ NotebookFails(r)
    <3>1. at[r].cur # None  BY <1>0, <2>13 DEF LooksInVain, SaveDrops, SaveFails, LeadFails, NotebookFails, OnListing
    <3>2. at'[r].cur = at[r].cur
          BY <2>13, FailPlaces DEF Stays, Same, Saves, GaveUp, Answers
    <3> QED BY <2>2, <2>13, <3>1, <3>2, Struck
  <2>14. CASE Cancel(r)  BY <1>2, <1>0, <2>14 DEF Cancel, session, Spoilt
  <2> QED BY <1>2, <2>5, <2>6, <2>7, <2>8, <2>9, <2>10, <2>11, <2>12, <2>13, <2>14 DEF Step
<1> QED BY <1>1, <1>2

\* A run that is about to store the number, or to write the listing down.
WillFill(r) == at[r].pc = "update" /\ at[r].got = "full"
WillList(r) ==
  \/ at[r].pc = "note"
  \/ at[r].pc = "lead" /\ at[r].got # "full"
  \/ at[r].pc = "tally" /\ IsNoted(r)

Tracked(l) ==
  /\ prop[l] = "bare" =>
       \/ \E q \in Runs : <<q, l>> \in skipped
       \/ \E q \in Runs : at[q].cur = l /\ (WillFill(q) \/ WillList(q))
  /\ \A q \in Runs : "failed" \in {counted[q][l], mem[q][l]} =>
       \/ <<q, l>> \in skipped \/ prop[l] = "full"
       \/ \E p \in Runs : at[p].cur = l /\ WillFill(p)
       \/ at[q].cur = l /\ at[q].pc = "note"

\* A step that takes nothing off the list, and whose own gap it is about to list.
LEMMA TrackedPlain ==
    ASSUME NEW r \in Runs, NEW l \in Listings, Tracked(l), prop[l] = "full" => prop'[l] = "full",
           prop'[l] = "bare" => prop[l] = "bare" \/ (at'[r].cur = l /\ WillList(r)'),
           \A q \in Runs : <<q, l>> \in skipped => <<q, l>> \in skipped',
           \A q \in Runs \ {r} : at'[q] = at[q] /\ mem'[q] = mem[q] /\ counted'[q] = counted[q],
           at[r].cur = l /\ WillFill(r) => at'[r].cur = l /\ WillFill(r)',
           at[r].cur = l /\ WillList(r) => (at'[r].cur = l /\ WillList(r)') \/ <<r, l>> \in skipped',
           "failed" \in {counted'[r][l], mem'[r][l]} =>
              \/ "failed" \in {counted[r][l], mem[r][l]} \/ (at'[r].cur = l /\ at'[r].pc = "note"),
           at[r].cur = l /\ at[r].pc = "note" =>
              \/ <<r, l>> \in skipped' \/ (at'[r].cur = l /\ at'[r].pc = "note")
    PROVE  Tracked(l)'
<1>1. \A q \in Runs \ {r} : (WillFill(q)' <=> WillFill(q)) /\ (WillList(q)' <=> WillList(q))
      BY DEF WillFill, WillList, IsNoted
<1>2. (\E q \in Runs : at[q].cur = l /\ WillFill(q)) => \E q \in Runs : at'[q].cur = l /\ WillFill(q)'
      BY <1>1
<1>3. (\E q \in Runs : at[q].cur = l /\ WillList(q)) =>
        \/ \E q \in Runs : at'[q].cur = l /\ WillList(q)'
        \/ <<r, l>> \in skipped'
      BY <1>1
<1> QED BY <1>2, <1>3 DEF Tracked

LEMMA TrackedStill ==
    ASSUME TypeInv, NEW r \in Runs, Step(r), Grows(r), Knows(r), Spoilt(r),
           NEW l \in Listings, l \notin struck => Tracked(l), l \notin struck'
    PROVE  Tracked(l)'
<1>0. /\ Tracked(l) /\ l \notin struck /\ l # None /\ OnListing(r) /\ PropOK /\ JobOK /\ SessionOK /\ SkippedOK
      /\ \A q \in Runs \ {r} : at'[q] = at[q] /\ mem'[q] = mem[q] /\ counted'[q] = counted[q]
      /\ prop[l] = "full" => prop'[l] = "full"
      BY HistoryGrows, Apart, Here, Parts, OthersApart DEF Alone, TypeInv, Grows
<1>1. CASE prop'[l] = "full"  BY <1>1 DEF Tracked
<1>2. CASE at[r].cur # l
  <2>1. Away(r, l)  BY <1>2, ListingsAway DEF On
  <2> QED BY <1>0, <1>2, <2>1, TrackedPlain DEF Away
<1>3. CASE at[r].cur = l /\ prop'[l] # "full"
  <2>0. /\ On(r) = l /\ Calm(r) /\ at[r].got \in Contents /\ prop[l] # "full"
        /\ (r \in expired => at[r].pc \in {"top", "over"} \/ (at[r].pc = "tally" /\ at[r].res = "none"))
        BY <1>0, <1>3, Unstruck, Here DEF On, Spoilt
  <2>1. ASSUME UNCHANGED <<mem, counted, skipped>>, at[r].pc \notin {"update", "lead", "tally", "note"},
               prop'[l] = "bare" => prop[l] = "bare" \/ (at'[r].cur = l /\ WillList(r)')
        PROVE  Tracked(l)'
        BY <1>0, <2>1, TrackedPlain DEF WillFill, WillList
  <2>2. CASE Look(r)
    <3>1. at[r].pc = "look" /\ UNCHANGED <<prop, skipped>>  BY <2>2 DEF Look, tables
    <3>2. \/ UNCHANGED <<mem, counted>>
          \/ mem'[r][l] = "updated" /\ counted'[r][l] = "updated"
          BY <1>0, <2>0, <2>2 DEF Look, JobOK, SessionOK
    <3> QED BY <1>0, <3>1, <3>2, TrackedPlain DEF WillFill, WillList
  <2>3. CASE Page(r)
    <3>1. at[r].pc = "page" /\ UNCHANGED <<prop, skipped, counted>>  BY <2>3 DEF Page, tables, job
    <3>2. mem'[r][l] = "failed" => mem[r][l] = "failed" \/ (at'[r].cur = l /\ at'[r].pc = "note")
          BY <1>3, <2>0, <2>3, LoopPlaces DEF Stays, Same
    <3> QED BY <1>0, <3>1, <3>2, TrackedPlain DEF WillFill, WillList
  <2>4. CASE Note(r)
    <3>1. /\ at[r].pc \in {"note", "jot"} /\ UNCHANGED <<prop, mem, counted>>
          /\ skipped' = skipped \cup {<<r, l>>}
          BY <2>0, <2>4 DEF Note, job, session
    <3> QED BY <1>0, <3>1, TrackedPlain DEF WillFill
  <2>5. CASE Progress(r)
    <3>1. /\ at[r].pc \in {"progress", "filtered"} /\ UNCHANGED <<prop, mem, skipped>> /\ counted'[r] = mem[r]
          BY <1>0, <2>5 DEF Progress, tables, session, JobOK
    <3> QED BY <1>0, <3>1, TrackedPlain DEF WillFill, WillList
  <2>6. CASE Rotate(r) \/ Read(r)
    <3>1. at[r].pc \in {"rotate", "save"} /\ UNCHANGED <<prop, mem, counted, skipped>>
          BY <2>6 DEF Rotate, Read, tables, job, session
    <3> QED BY <2>1, <3>1
  <2>7. CASE Insert(r)
    <3>1. at[r].pc = "insert" /\ UNCHANGED <<skipped, counted>>  BY <2>7 DEF Insert, job
    <3>2. CASE Stored = at[r].seen
      <4>1. Answers(r, IF at[r].got = "full" THEN "fill" ELSE "lead", "created") /\ Inserted(r) /\ UNCHANGED mem
            BY <2>7, <3>2, SavePlaces DEF Insert, session
      <4>2. prop'[l] = at[r].got  BY <1>0, <2>0, <4>1 DEF Inserted, PropOK
      <4> QED BY <1>3, <2>1, <3>1, <4>1, <4>2 DEF Answers, WillList
    <3>3. CASE Stored # at[r].seen
      <4>1. mem'[r] = Reread(r) /\ UNCHANGED prop  BY <2>7, <3>3, SavePlaces DEF GaveUp
      <4>2. mem'[r][l] = "failed" => counted[r][l] = "failed"  BY <4>1 DEF Reread
      <4> QED BY <1>0, <3>1, <4>1, <4>2, TrackedPlain DEF WillFill, WillList
    <3> QED BY <3>2, <3>3
  <2>8. CASE Fill(r)
    <3>1. at[r].pc = "fill" /\ Filled(r) /\ UNCHANGED <<mem, counted, skipped>>  BY <2>8 DEF Fill, job, session
    <3>2. at[r].got = "full"  BY <1>3, <2>0, <3>1 DEF Knows, Saving
    <3>3. UNCHANGED prop  BY <1>0, <1>3, <2>0, <3>1, <3>2 DEF Filled, Rewritten, PropOK
    <3> QED BY <2>1, <3>1, <3>3
  <2>9. CASE Resolve(r)
    <3>1. /\ at[r].pc = "resolve" /\ Stays(r, IF at[r].res = "created" THEN "lead" ELSE "update")
          BY <2>9, SavePlaces DEF Resolve
    <3>2. at[r].got = "full" /\ at[r].res # "created"  BY <1>3, <2>0, <3>1 DEF Knows, Saving
    <3>3. at'[r].cur = l /\ WillFill(r)'  BY <1>3, <3>1, <3>2 DEF Stays, Same, WillFill
    <3> QED BY <3>3 DEF Tracked
  <2>10. CASE Update(r)
    <3>1. /\ at[r].pc = "update" /\ Answers(r, "tally", "updated") /\ UNCHANGED <<mem, counted, skipped>>
          /\ prop'[l] = Rewritten(r)
          BY <1>0, <2>0, <2>10, SavePlaces DEF Update, PropOK, job, session
    <3>2. at[r].got # "full"  BY <1>3, <3>1 DEF Rewritten
    <3>3. at'[r].cur = l /\ WillList(r)'  BY <1>3, <3>1, <3>2 DEF Answers, WillList, IsNoted
    <3> QED BY <1>0, <3>1, <3>2, <3>3, TrackedPlain DEF WillFill
  <2>11. CASE CreateLead(r)
    <3>1. /\ at[r].pc = "lead" /\ Stays(r, "tally") /\ UNCHANGED <<prop, mem, counted, skipped>>
          BY <2>11, SavePlaces DEF CreateLead, job, session
    <3>2. at[r].got # "full" => at'[r].cur = l /\ WillList(r)'
          BY <1>3, <3>1 DEF Stays, Same, WillList, IsNoted
    <3> QED BY <1>0, <3>1, <3>2, TrackedPlain DEF WillFill, WillList
  <2>12. CASE Tally(r)
    <3>1. /\ at[r].pc = "tally" /\ Stays(r, IF IsNoted(r) THEN "note" ELSE "progress")
          /\ mem'[r][l] = Verdict(r) /\ UNCHANGED <<prop, counted, skipped>>
          BY <2>0, <2>12, SavePlaces DEF Tally, tables, job
    <3>2. Verdict(r) = "failed" => IsNoted(r)  BY DEF Verdict, IsNoted
    <3>3. IsNoted(r) => at'[r].cur = l /\ at'[r].pc = "note"  BY <1>3, <3>1 DEF Stays, Same
    <3> QED BY <1>0, <3>1, <3>2, <3>3, TrackedPlain DEF WillFill, WillList
  <2>13. CASE ReadsExpired(r)
    <3>1. /\ at[r].pc \in {"top", "tally", "rotate"} /\ r \in expired /\ UNCHANGED <<prop, mem, counted, skipped>>
          /\ (at[r].pc = "tally" => ~Guarded(r))
          BY <2>13 DEF ReadsExpired, Dies, tables, session
    <3>2. at[r].pc # "tally"  BY <2>0, <3>1 DEF Guarded
    <3> QED BY <2>1, <3>1, <3>2
  <2>14. CASE Cancel(r)
    <3>1. UNCHANGED <<at, prop, mem, counted, skipped>>  BY <2>14 DEF Cancel, tables, session
    <3> QED BY <1>0, <3>1 DEF Tracked, WillFill, WillList, IsNoted
  <2> QED BY <2>0, <2>2, <2>3, <2>4, <2>5, <2>6, <2>7, <2>8, <2>9, <2>10, <2>11, <2>12, <2>13, <2>14 DEF Calm
<1> QED BY <1>1, <1>2, <1>3

AllTracked == (\A r \in Runs : Spoilt(r)) /\ \A l \in Listings \ struck : Tracked(l)

LEMMA InitTracked == Init => AllTracked
BY DEF Init, AllTracked, Spoilt, Tracked, Uncounted

LEMMA NextTracked == TypeInv /\ Kept /\ AllTracked /\ [Next]_vars => AllTracked'
<1> SUFFICES ASSUME TypeInv, Kept, AllTracked, [Next]_vars PROVE AllTracked' OBVIOUS
<1>1. CASE UNCHANGED vars
      BY <1>1 DEF vars, tables, job, session, loop, history, AllTracked, Spoilt, Tracked, WillFill, WillList, IsNoted
<1>2. CASE Next
  <2>1. PICK r \in Runs : Step(r)  BY <1>2 DEF Next, Step
  <2>2. Grows(r) /\ Knows(r) /\ Spoilt(r)  BY <2>1, TableGrows DEF Kept, AllTracked
  <2>3. \A q \in Runs : Spoilt(q)'  BY <2>1, SpoiltStill DEF AllTracked
  <2>4. ASSUME NEW l \in Listings, l \notin struck' PROVE Tracked(l)'
        BY <2>1, <2>2, <2>4, TrackedStill DEF AllTracked
  <2> QED BY <2>3, <2>4 DEF AllTracked
<1> QED BY <1>1, <1>2

\* What a run failed to get is on the skipped list until its number is stored, whatever
\* other runs do at the same time (record and resolve).
THEOREM GapsStayListed == Spec => []GapsAreListed
<1>1. Init => TypeInv /\ Kept /\ AllTracked  BY InitType, InitKept, InitTracked
<1>2. TypeInv /\ Kept /\ AllTracked /\ [Next]_vars => (TypeInv /\ Kept /\ AllTracked)'
      BY TypeNext, NextKept, NextTracked
<1>3. ASSUME AllTracked PROVE GapsAreListed
      BY <1>3 DEF AllTracked, Tracked, GapsAreListed, Settled, On
<1> QED BY <1>1, <1>2, <1>3, PTL DEF Spec
=============================================================================
