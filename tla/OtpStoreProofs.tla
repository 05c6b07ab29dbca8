--------------------------- MODULE OtpStoreProofs ---------------------------
(***************************************************************************)
(* What holds of OtpStore for any challenges, jobs, numbers, messages and   *)
(* requests in flight: the types, «one SMS, one answer» and the refinement  *)
(* of SmsLedger, the number a code goes to, the wake-ups, the resend cap.   *)
(***************************************************************************)
EXTENDS OtpStore, FiniteSetTheorems, SequenceTheorems, TLAPS

(* Types.                                                                   *)

PromptType == [up : BOOLEAN, ts : SUBSET Sms, code : Codes \cup {None},
               resend : BOOLEAN, resends : Nat]
PostType == [pc : {"none", "arrived", "parking", "found", "submitting", "signalling",
                   "landed", "releasing", "done"},
             sms : Codes \cup {None}, acct : Accounts \cup {None}, key : Keys \cup {None}]

\* A post of the phone carries an SMS and a number, and the prompt it has found is
\* one of that number.
PostShape(p) ==
    /\ post[p].pc = "none" => post[p] = NoPost
    /\ post[p].pc \in {"arrived", "parking", "found", "landed", "releasing"} => post[p].sms \in Sms
    /\ post[p].pc \in {"submitting", "signalling"} => post[p].sms \in Codes
    /\ post[p].pc \in {"found", "submitting", "signalling", "releasing"} => post[p].key \in Keys
    /\ post[p].sms \in Sms => /\ post[p].acct \in Accounts
                              /\ post[p].key # None => AccountOf[post[p].key] = post[p].acct

\* What is parked under a number, or taken by its extractor, was posted under it.
HeldShape(a) == held[a] # None => post[held[a]].sms \in Sms /\ post[held[a]].acct = a
HandShape(k) == stage[k] = "claiming" =>
    hand[k] # None /\ post[hand[k]].sms \in Sms /\ post[hand[k]].acct = AccountOf[k]

Shapes == /\ \A p \in Posts : PostShape(p)
          /\ \A a \in Accounts : HeldShape(a)
          /\ \A k \in Keys : HandShape(k)

TypeInv == TypeOK /\ Shapes

LEMMA Kinds ==
    ASSUME TypeInv
    PROVE  /\ prompt \in [Keys -> PromptType] /\ post \in [Posts -> PostType]
           /\ \A k \in Keys : JobOf[k] \in Jobs /\ AccountOf[k] \in Accounts
<1>1. prompt \in [Keys -> PromptType]  BY DEF TypeInv, TypeOK, PromptType
<1>2. post \in [Posts -> PostType]  BY DEF TypeInv, TypeOK, PostType
<1>3. \A k \in Keys : JobOf[k] \in Jobs /\ AccountOf[k] \in Accounts  BY MapsAssumption
<1>4. QED BY <1>1, <1>2, <1>3

LEMMA TypeInit == Init => TypeInv
<1> SUFFICES ASSUME Init PROVE TypeInv OBVIOUS
<1>1. TypeOK  BY NumbersAssumption DEF Init, TypeOK, NoPrompt, NoPost
<1>2. Shapes
      BY NamesAssumption DEF Init, Shapes, PostShape, HeldShape, HandShape, NoPost, Codes
<1> QED BY <1>1, <1>2 DEF TypeInv

\* A post keeps its SMS and its number.
Lasts(p) == post[p].sms \in Sms => post'[p].sms = post[p].sms /\ post'[p].acct = post[p].acct

\* What is parked and what is taken may change hands, as long as posts last.
LEMMA ShapesLast ==
    ASSUME TypeInv, \A p \in Posts : Lasts(p) /\ PostShape(p)',
           \A a \in Accounts : held'[a] \in {held[a], None} \/ HeldShape(a)',
           \A k \in Keys : /\ stage'[k] = "claiming" => stage[k] = "claiming" /\ hand'[k] = hand[k]
    PROVE  Shapes'
<1>1. ASSUME NEW a \in Accounts PROVE HeldShape(a)'
      BY <1>1 DEF TypeInv, TypeOK, Shapes, HeldShape, Lasts
<1>2. ASSUME NEW k \in Keys PROVE HandShape(k)'
      BY <1>2 DEF TypeInv, TypeOK, Shapes, HandShape, Lasts
<1> QED BY <1>1, <1>2 DEF Shapes

\* The extractor, the panel and Redis leave the posts alone.
LEMMA SamePosts ==
    ASSUME TypeInv, UNCHANGED post
    PROVE  \A p \in Posts : Lasts(p) /\ PostShape(p)'
BY DEF TypeInv, Shapes, PostShape, Lasts

LEMMA NoPromptType == NoPrompt \in PromptType
BY DEF NoPrompt, PromptType

LEMMA FreshType == ASSUME TypeInv PROVE Fresh \in PromptType
<1>1. sent \subseteq Sms  BY DEF TypeInv, TypeOK
<1> QED BY <1>1 DEF Fresh, NoPrompt, PromptType

LEMMA Bumped ==
    ASSUME NEW q \in PromptType, NEW n \in Nat
    PROVE  [q EXCEPT !.up = TRUE, !.resend = FALSE, !.resends = n] \in PromptType
BY DEF PromptType

LEMMA CountType == ASSUME TypeInv, NEW k \in Keys PROVE Count(k) \in PromptType
<1>1. prompt[k] \in PromptType  BY Kinds
<1>2. prompt[k].resends + 1 \in Nat  BY <1>1 DEF PromptType
<1>3. Count(k) = [prompt[k] EXCEPT !.up = TRUE, !.resend = FALSE, !.resends = prompt[k].resends + 1]
      BY Zenon DEF Count
<1> QED BY <1>1, <1>2, <1>3, Bumped, Zenon

\* A code is written to a prompt, whether it is there or not.
LEMMA CodeType ==
    ASSUME NEW f \in [Keys -> PromptType], NEW k \in Keys, NEW c \in Codes \cup {None}
    PROVE  /\ [f EXCEPT ![k].up = TRUE, ![k].code = c] \in [Keys -> PromptType]
           /\ [f EXCEPT ![k].code = c] \in [Keys -> PromptType]
           /\ [f EXCEPT ![k].up = TRUE, ![k].resend = TRUE] \in [Keys -> PromptType]
<1> DEFINE C == Codes \cup {None}
           T == [up : BOOLEAN, ts : SUBSET Sms, code : C, resend : BOOLEAN, resends : Nat]
<1>1. T = PromptType  BY Zenon DEF PromptType
<1>2. c \in C /\ f \in [Keys -> T]  BY <1>1, Zenon
<1> HIDE DEF C
<1>3. [f EXCEPT ![k].up = TRUE, ![k].code = c] \in [Keys -> T]  BY <1>2
<1>4. [f EXCEPT ![k].code = c] \in [Keys -> T]  BY <1>2
<1>5. [f EXCEPT ![k].up = TRUE, ![k].resend = TRUE] \in [Keys -> T]  BY <1>2
<1> QED BY <1>1, <1>3, <1>4, <1>5, Zenon

\* One more answer of an SMS.
LEMMA AnswerType ==
    ASSUME TypeInv, NEW s \in Sms, NEW k \in Keys
    PROVE  [answered EXCEPT ![s] = Append(@, k)] \in [Sms -> Seq(Keys)]
<1>1. answered \in [Sms -> Seq(Keys)]  BY DEF TypeInv, TypeOK
<1>2. answered[s] \in Seq(Keys)  BY <1>1
<1>3. Append(answered[s], k) \in Seq(Keys)  BY <1>2, AppendProperties
<1> QED BY <1>1, <1>3

LEMMA RestartedType ==
    ASSUME TypeInv, NEW k \in Keys, Restarted(k)
    PROVE  prompt' \in [Keys -> PromptType]
<1>1. sent \subseteq Sms  BY DEF TypeInv, TypeOK
<1>2. [prompt[k] EXCEPT !.ts = sent] \in PromptType  BY <1>1, Kinds DEF PromptType
<1> QED BY <1>2, Kinds DEF Restarted

StoreOK == prompt \in [Keys -> PromptType] /\ signal \in [Keys -> Nat] /\ index \subseteq Keys

LEMMA WithoutType == ASSUME TypeInv, NEW ks, Without(ks) PROVE StoreOK'
BY Kinds, NoPromptType DEF Without, StoreOK, TypeInv, TypeOK

\* The challenge of an extractor that writes to no post and takes nothing.
LEMMA ExtractType == ASSUME TypeInv, NEW k \in Keys, Extract(k) \/ Visit(k) PROVE TypeInv'
<1> USE DEF TypeInv, TypeOK
<1>1. CASE Click(k)
  <2>1. TypeOK'  BY <1>1 DEF Click, store, copies, asks, poster
  <2>2. Shapes'  BY <1>1, SamePosts, ShapesLast DEF Click, copies, poster
  <2> QED BY <2>1, <2>2
<1>20. CASE Again(k)
  <2>1. TypeOK'  BY <1>20 DEF Again, store, copies, asks, poster
  <2>2. Shapes'  BY <1>20, SamePosts, ShapesLast DEF Again, copies, poster
  <2> QED BY <2>1, <2>2
<1>21. CASE Close(k)
  <2>1. TypeOK'  BY <1>21 DEF Close, store, copies, asks, poster
  <2>2. Shapes'  BY <1>21, SamePosts, ShapesLast DEF Close, copies, poster
  <2> QED BY <2>1, <2>2
<1>2. CASE Check(k)
  <2>1. TypeOK'  BY <1>2 DEF Check, store, copies, asks, poster
  <2>2. Shapes'  BY <1>2, SamePosts, ShapesLast DEF Check, copies, poster
  <2> QED BY <2>1, <2>2
<1>3. CASE Skip(k)
  <2>1. TypeOK'  BY <1>3 DEF Skip, Ends, store, copies, asks, poster
  <2>2. Shapes'  BY <1>3, SamePosts, ShapesLast DEF Skip, Ends, copies, poster
  <2> QED BY <2>1, <2>2
<1>4. CASE Open(k)
  <2>1. prompt' \in [Keys -> PromptType]  BY <1>4, FreshType, Kinds DEF Open
  <2>2. TypeOK'  BY <1>4, <2>1 DEF Open, PromptType, copies, asks, poster
  <2>3. Shapes'  BY <1>4, SamePosts, ShapesLast DEF Open, copies, poster
  <2> QED BY <2>2, <2>3
<1>5. CASE ClaimNothing(k)
  <2>1. TypeOK'  BY <1>5 DEF ClaimNothing, store, asks, poster
  <2>2. Shapes'  BY <1>5, SamePosts, ShapesLast DEF ClaimNothing, poster
  <2> QED BY <2>1, <2>2
<1>6. CASE Claim(k)
  <2>1. /\ Parked(k) \in Posts /\ post[Parked(k)].sms \in Sms
        /\ post[Parked(k)].acct = AccountOf[k] /\ Parked(k) # None
        BY <1>6, Kinds DEF Claim, Usable, Parked, Shapes, HeldShape
  <2>2. /\ Purged(post[Parked(k)].sms) \in [Accounts -> Posts \cup {None}]
        /\ \A a \in Accounts : Purged(post[Parked(k)].sms)[a] \in {held[a], None}
        BY DEF Purged
  <2>3. /\ held' \in [Accounts -> Posts \cup {None}]
        /\ \A a \in Accounts : held'[a] \in {held[a], None}
        BY <1>6, <2>2 DEF Claim
  <2>4. TypeOK'  BY <1>6, <2>1, <2>3 DEF Claim, store, asks, poster
  <2>5. UNCHANGED post  BY <1>6 DEF Claim, poster
  <2>6. \A a \in Accounts : HeldShape(a)'  BY <2>3, <2>5 DEF Shapes, HeldShape
  <2>7. \A l \in Keys : HandShape(l)'  BY <1>6, <2>1, <2>5 DEF Claim, Shapes, HandShape
  <2> QED BY <2>4, <2>5, <2>6, <2>7, SamePosts DEF Shapes
<1>7. CASE ClaimWrite(k)
  <2>1. hand[k] \in Posts /\ post[hand[k]].sms \in Codes /\ post[hand[k]].sms \in Sms
        BY <1>7 DEF ClaimWrite, Shapes, HandShape, Codes
  <2>2. prompt' \in [Keys -> PromptType]
        BY <1>7, <2>1, CodeType, Kinds DEF ClaimWrite
  <2>3. answered' \in [Sms -> Seq(Keys)]  BY <1>7, <2>1, AnswerType DEF ClaimWrite
  <2>4. TypeOK'  BY <1>7, <2>2, <2>3 DEF ClaimWrite, PromptType, copies, asks, poster
  <2>5. Shapes'  BY <1>7, SamePosts, ShapesLast DEF ClaimWrite, copies, poster
  <2> QED BY <2>4, <2>5
<1>8. CASE ClaimSignal(k)
  <2>1. TypeOK'  BY <1>8 DEF ClaimSignal, copies, asks, poster
  <2>2. Shapes'  BY <1>8, SamePosts, ShapesLast DEF ClaimSignal, copies, poster
  <2> QED BY <2>1, <2>2
<1>9. CASE Top(k)
  <2>1. TypeOK'  BY <1>9 DEF Top, store, copies, asks, poster
  <2>2. Shapes'  BY <1>9, SamePosts, ShapesLast DEF Top, copies, poster
  <2> QED BY <2>1, <2>2
<1>10. CASE Slice(k)
  <2>1. TypeOK'  BY <1>10 DEF Slice, store, copies, asks, poster
  <2>2. Shapes'  BY <1>10, SamePosts, ShapesLast DEF Slice, copies, poster
  <2> QED BY <2>1, <2>2
<1>11. CASE Wake(k)
  <2>1. signal' \in [Keys -> Nat]  BY <1>11 DEF Wake
  <2>2. TypeOK'  BY <1>11, <2>1 DEF Wake, copies, asks, poster
  <2>3. Shapes'  BY <1>11, SamePosts, ShapesLast DEF Wake, copies, poster
  <2> QED BY <2>2, <2>3
<1>12. CASE Pop(k)
  <2>1. prompt' \in [Keys -> PromptType]  BY <1>12, NoPromptType, Kinds DEF Pop
  <2>2. TypeOK'  BY <1>12, <2>1 DEF Pop, Ends, PromptType, copies, asks, poster
  <2>3. Shapes'  BY <1>12, SamePosts, ShapesLast DEF Pop, Ends, copies, poster
  <2> QED BY <2>2, <2>3
<1>13. CASE TakeResend(k)
  <2>1. TypeOK'  BY <1>13 DEF TakeResend, store, copies, asks, poster
  <2>2. Shapes'  BY <1>13, SamePosts, ShapesLast DEF TakeResend, copies, poster
  <2> QED BY <2>1, <2>2
<1>14. CASE CountResend(k)
  <2>1. prompt' \in [Keys -> PromptType]  BY <1>14, CountType, Kinds DEF CountResend
  <2>2. TypeOK'  BY <1>14, <2>1 DEF CountResend, PromptType, copies, asks, poster
  <2>3. Shapes'  BY <1>14, SamePosts, ShapesLast DEF CountResend, copies, poster
  <2> QED BY <2>2, <2>3
<1>15. CASE ResendClick(k)
  <2>1. prompt' \in [Keys -> PromptType]  BY <1>15, RestartedType DEF ResendClick
  <2>2. TypeOK'  BY <1>15, <2>1 DEF ResendClick, PromptType, copies, asks, poster
  <2>3. Shapes'  BY <1>15, SamePosts, ShapesLast DEF ResendClick, copies, poster
  <2> QED BY <2>2, <2>3
<1>16. CASE AutoResend(k)
  <2>1. prompt' \in [Keys -> PromptType]  BY <1>16, RestartedType DEF AutoResend
  <2>2. TypeOK'  BY <1>16, <2>1 DEF AutoResend, PromptType, copies, waiter, asks, poster
  <2>3. Shapes'  BY <1>16, SamePosts, ShapesLast DEF AutoResend, copies, waiter, poster
  <2> QED BY <2>2, <2>3
<1>17. CASE Leave(k)
  <2>1. StoreOK'  BY <1>17, WithoutType DEF Leave
  <2>2. TypeOK'  BY <1>17, <2>1 DEF StoreOK, Leave, Ends, PromptType, copies, asks, poster
  <2>3. Shapes'  BY <1>17, SamePosts, ShapesLast DEF Leave, Ends, copies, poster
  <2> QED BY <2>2, <2>3
<1>18. CASE Unanswered(k)
  <2>1. PICK ks : Without(ks)  BY <1>18 DEF Unanswered, Strike
  <2>2. StoreOK'  BY <2>1, WithoutType
  <2>3. strikes' \in [Jobs -> Nat]
    <3>1. strikes[JobOf[k]] \in Nat /\ strikes[JobOf[k]] + 1 \in Nat /\ strikes \in [Jobs -> Nat]
          BY Kinds
    <3>2. \/ strikes' = [strikes EXCEPT ![JobOf[k]] = strikes[JobOf[k]] + 1]
          \/ strikes' = [strikes EXCEPT ![JobOf[k]] = strikes[JobOf[k]]]
          BY <1>18, Zenon DEF Unanswered, Strike
    <3> QED BY <3>1, <3>2
  <2>4. leave' \in [Jobs -> SUBSET {"dismissed", "switch", "stopped"}]
        BY <1>18 DEF Unanswered, Strike
  <2>5. TypeOK'
        BY <1>18, <2>2, <2>3, <2>4 DEF StoreOK, Unanswered, Ends, PromptType, copies, poster
  <2>6. Shapes'  BY <1>18, SamePosts, ShapesLast DEF Unanswered, Ends, copies, poster
  <2> QED BY <2>5, <2>6
<1>19. CASE Dismissed(k)
  <2>1. TypeOK'  BY <1>19 DEF Dismissed, Ends, store, copies, asks, poster
  <2>2. Shapes'  BY <1>19, SamePosts, ShapesLast DEF Dismissed, Ends, copies, poster
  <2> QED BY <2>1, <2>2
<1> QED BY <1>1, <1>2, <1>3, <1>4, <1>5, <1>6, <1>7, <1>8, <1>9, <1>10, <1>11, <1>12, <1>13,
           <1>14, <1>15, <1>16, <1>17, <1>18, <1>19, <1>20, <1>21 DEF Extract, Visit

\* One post moves on.
LEMMA PostMoves ==
    ASSUME TypeInv, NEW p \in Posts, NEW r \in PostType, post' = [post EXCEPT ![p] = r],
           Lasts(p), PostShape(p)'
    PROVE  /\ post' \in [Posts -> PostType] /\ post'[p] = r
           /\ \A q \in Posts : Lasts(q) /\ PostShape(q)'
           /\ \A q \in Posts \ {p} : post'[q] = post[q]
<1>1. post' \in [Posts -> PostType] /\ post'[p] = r /\ \A q \in Posts \ {p} : post'[q] = post[q]
      BY Kinds
<1>2. ASSUME NEW q \in Posts \ {p} PROVE Lasts(q) /\ PostShape(q)'
      BY <1>1 DEF TypeInv, Shapes, PostShape, Lasts
<1> QED BY <1>1, <1>2

\* It goes on, with the prompt it has found perhaps, or is done.
LEMMA PostGoes ==
    ASSUME TypeInv, NEW p \in Posts,
           NEW pc \in {"parking", "submitting", "signalling", "landed", "releasing"}, Goes(p, pc),
           pc \in {"parking", "landed", "releasing"} => post[p].sms \in Sms,
           pc \in {"submitting", "signalling", "releasing"} => post[p].sms \in Codes /\ post[p].key \in Keys
    PROVE  /\ post' \in [Posts -> PostType]
           /\ post'[p].pc = pc /\ post'[p].sms = post[p].sms
           /\ post'[p].acct = post[p].acct /\ post'[p].key = post[p].key
           /\ \A q \in Posts : Lasts(q) /\ PostShape(q)'
           /\ \A q \in Posts \ {p} : post'[q] = post[q]
<1>1. post[p] \in PostType  BY Kinds
<1>2. [post[p] EXCEPT !.pc = pc] \in PostType  BY <1>1 DEF PostType
<1>3. post' = [post EXCEPT ![p] = [post[p] EXCEPT !.pc = pc]]  BY Kinds DEF Goes
<1>4. post'[p] = [post[p] EXCEPT !.pc = pc]  BY <1>3, Kinds
<1>5. /\ post'[p].pc = pc /\ post'[p].sms = post[p].sms
      /\ post'[p].acct = post[p].acct /\ post'[p].key = post[p].key
      BY <1>1, <1>4 DEF PostType
<1>6. PostShape(p)  BY DEF TypeInv, Shapes
<1>7. Lasts(p) /\ PostShape(p)'  BY <1>5, <1>6 DEF PostShape, Lasts
<1> QED BY <1>2, <1>3, <1>5, <1>7, PostMoves

LEMMA PostDone ==
    ASSUME TypeInv, NEW p \in Posts, Done(p)
    PROVE  /\ post' \in [Posts -> PostType]
           /\ post'[p].pc = "done" /\ post'[p].sms = post[p].sms
           /\ post'[p].acct = post[p].acct /\ post'[p].key = None
           /\ \A q \in Posts : Lasts(q) /\ PostShape(q)'
           /\ \A q \in Posts \ {p} : post'[q] = post[q]
<1>1. post[p] \in PostType  BY Kinds
<1>2. [post[p] EXCEPT !.pc = "done", !.key = None] \in PostType  BY <1>1 DEF PostType
<1>3. post' = [post EXCEPT ![p] = [post[p] EXCEPT !.pc = "done", !.key = None]]  BY Kinds DEF Done
<1>4. post'[p] = [post[p] EXCEPT !.pc = "done", !.key = None]  BY <1>3, Kinds
<1>5. /\ post'[p].pc = "done" /\ post'[p].sms = post[p].sms
      /\ post'[p].acct = post[p].acct /\ post'[p].key = None
      BY <1>1, <1>4 DEF PostType
<1>6. PostShape(p)  BY DEF TypeInv, Shapes
<1>7. Lasts(p) /\ PostShape(p)'  BY <1>5, <1>6 DEF PostShape, Lasts
<1> QED BY <1>2, <1>3, <1>5, <1>7, PostMoves

LEMMA NoPostType ==
    /\ NoPost \in PostType
    /\ NoPost.pc = "none" /\ NoPost.sms = None /\ NoPost.acct = None /\ NoPost.key = None
BY DEF NoPost, PostType

LEMMA PurgedType ==
    ASSUME TypeInv, NEW s
    PROVE  /\ Purged(s) \in [Accounts -> Posts \cup {None}]
           /\ \A a \in Accounts : Purged(s)[a] \in {held[a], None}
BY DEF Purged, TypeInv, TypeOK

Kept == TypeInv' /\ \A q \in Posts : Lasts(q)

LEMMA InboundType == ASSUME TypeInv, NEW p \in Posts, Inbound(p) PROVE Kept
<1>1. ASSUME post' \in [Posts -> PostType], \A q \in Posts : Lasts(q) /\ PostShape(q)',
             held' \in [Accounts -> Posts \cup {None}],
             \A a \in Accounts : held'[a] \in {held[a], None} \/ HeldShape(a)',
             used' \subseteq Sms, StoreOK', answered' \in [Sms -> Seq(Keys)],
             UNCHANGED <<waiter, asks, ask, sent>>
      PROVE  Kept
  <2>1. TypeOK'  BY <1>1 DEF TypeInv, TypeOK, StoreOK, PromptType, PostType, waiter, asks
  <2>2. Shapes'  BY <1>1, ShapesLast DEF waiter
  <2> QED BY <1>1, <2>1, <2>2 DEF TypeInv, Kept
<1>2. /\ StoreOK /\ post[p] \in PostType /\ PostShape(p) /\ used \subseteq Sms /\ sent \subseteq Sms
      /\ held \in [Accounts -> Posts \cup {None}] /\ answered \in [Sms -> Seq(Keys)]
      BY Kinds DEF TypeInv, TypeOK, StoreOK, Shapes
<1>3. UNCHANGED store => StoreOK'  BY <1>2 DEF store, StoreOK
<1>4. CASE Duplicate(p)  BY <1>1, <1>2, <1>3, <1>4, PostDone DEF Duplicate, copies
<1>5. CASE FindNone(p)  BY <1>1, <1>2, <1>3, <1>5, PostDone, PostGoes DEF FindNone, copies, PostShape
<1>6. CASE Park(p)
  <2>1. post[p].sms \in Sms /\ post[p].acct \in Accounts  BY <1>2, <1>6 DEF Park, PostShape
  <2>2. held' = [held EXCEPT ![post[p].acct] = p] /\ Done(p)  BY <1>6 DEF Park
  <2>3. HeldShape(post[p].acct)'  BY <1>2, <2>1, <2>2, PostDone DEF HeldShape
  <2>4. \A a \in Accounts \ {post[p].acct} : held'[a] = held[a]  BY <1>2, <2>2
  <2>5. held' \in [Accounts -> Posts \cup {None}]  BY <1>2, <2>1, <2>2
  <2> QED BY <1>1, <1>2, <1>3, <1>6, <2>2, <2>3, <2>4, <2>5, PostDone DEF Park
<1>7. CASE Use(p)
  <2>1. post[p].sms \in Sms /\ post[p].key \in Keys  BY <1>2, <1>7 DEF Use, PostShape
  <2>2. CASE post[p].sms \in used
        BY <1>1, <1>2, <1>3, <1>7, <2>2, PostDone DEF Use, Mark
  <2>3. CASE post[p].sms \notin used
        BY <1>1, <1>2, <1>3, <1>7, <2>1, <2>3, PostGoes DEF Use, Mark, Codes
  <2> QED BY <2>2, <2>3
<1>8. CASE Submit(p)
  <2>1. post[p].sms \in Codes /\ post[p].key \in Keys  BY <1>2, <1>8 DEF Submit, PostShape
  <2>2. prompt' \in [Keys -> PromptType]  BY <1>8, <2>1, Kinds, CodeType DEF Submit
  <2>3. StoreOK'  BY <1>2, <1>8, <2>2 DEF Submit, StoreOK
  <2>4. answered' \in [Sms -> Seq(Keys)]  BY <1>2, <1>8, <2>1, AnswerType DEF Submit, Codes
  <2> QED BY <1>1, <1>2, <1>8, <2>1, <2>3, <2>4, PostGoes DEF Submit, copies
<1>9. CASE Refused(p)
  <2>1. post[p].sms \in Codes /\ post[p].key \in Keys  BY <1>2, <1>9 DEF Refused, PostShape
  <2> QED BY <1>1, <1>2, <1>3, <1>9, <2>1, PostDone, PostGoes DEF Refused, copies, Codes
<1>10. CASE Release(p)
       BY <1>1, <1>2, <1>3, <1>10, PostDone DEF Release, Released
<1>11. CASE Signal(p)
  <2>1. post[p].sms \in Codes /\ post[p].key \in Keys  BY <1>2, <1>11 DEF Signal, PostShape
  <2>2. StoreOK'
    <3> DEFINE n == signal[post[p].key] + 1
    <3>1. n \in Nat /\ signal' = [signal EXCEPT ![post[p].key] = n]  BY <1>2, <1>11, <2>1 DEF Signal, StoreOK
    <3> HIDE DEF n
    <3> QED BY <1>2, <1>11, <3>1 DEF Signal, StoreOK
  <2> QED BY <1>1, <1>2, <1>11, <2>1, <2>2, PostDone, PostGoes DEF Signal, copies, Codes
<1>12. CASE DropCopies(p)
       BY <1>1, <1>2, <1>3, <1>12, PostDone, PurgedType DEF DropCopies
<1>13. ASSUME NEW s \in Sms, NEW a \in Accounts, Arrive(p, s, a) PROVE Kept
  <2>1. post[p] = NoPost  BY <1>2, <1>13 DEF Arrive, PostShape
  <2> DEFINE n == NoPost
             r == [n EXCEPT !.pc = "arrived", !.sms = s, !.acct = a]
  <2>2. /\ r \in PostType /\ r.pc = "arrived" /\ r.sms = s /\ r.acct = a /\ r.key = None
    <3>1. s \in Codes  BY DEF Codes
    <3>2. n \in PostType /\ n.acct = None /\ n.key = None  BY NoPostType
    <3> HIDE DEF n
    <3> QED BY <3>1, <3>2 DEF PostType
  <2>3. post' = [post EXCEPT ![p] = r]  BY <1>13 DEF Arrive
  <2> HIDE DEF r
  <2>4. post'[p] = r  BY <2>3, Kinds
  <2>5. Lasts(p) /\ PostShape(p)'  BY <2>1, <2>2, <2>4, NamesAssumption DEF Lasts, PostShape, NoPost
  <2> QED BY <1>1, <1>2, <1>3, <1>13, <2>2, <2>3, <2>5, PostMoves DEF Arrive, copies
<1>14. ASSUME NEW k \in Keys, Find(p, k) PROVE Kept
  <2>1. CASE Done(p)  BY <1>1, <1>2, <1>3, <1>14, <2>1, PostDone DEF Find, copies
  <2>2. CASE post' = [post EXCEPT ![p].pc = "found", ![p].key = k]
    <3> DEFINE r == [post[p] EXCEPT !.pc = "found", !.key = k]
    <3>1. r \in PostType  BY <1>2 DEF PostType
    <3>2. post' = [post EXCEPT ![p] = r]  BY <2>2, Kinds
    <3>3. post'[p] = r  BY <3>2, Kinds
    <3>4. /\ post'[p].pc = "found" /\ post'[p].key = k /\ post'[p].sms = post[p].sms
          /\ post'[p].acct = post[p].acct
          BY <1>2, <3>3 DEF PostType
    <3>5. AccountOf[k] = post[p].acct /\ post[p].pc = "arrived"  BY <1>14 DEF Find, Candidates
    <3>6. Lasts(p) /\ PostShape(p)'  BY <1>2, <3>4, <3>5 DEF Lasts, PostShape
    <3> QED BY <1>1, <1>2, <1>3, <1>14, <3>1, <3>2, <3>6, PostMoves DEF Find, copies
  <2> QED BY <1>14, <2>1, <2>2 DEF Find
<1>15. ASSUME NEW k \in Keys, Type(p, k) PROVE Kept
  <2>1. post[p] = NoPost  BY <1>2, <1>15 DEF Type, PostShape
  <2> DEFINE n == NoPost
             r == [n EXCEPT !.pc = "submitting", !.sms = Typed, !.key = k]
  <2>2. /\ r \in PostType /\ r.pc = "submitting" /\ r.sms = Typed /\ r.acct = None /\ r.key = k
    <3>1. Typed \in Codes  BY DEF Codes
    <3>2. n \in PostType /\ n.acct = None /\ n.key = None  BY NoPostType
    <3> HIDE DEF n
    <3> QED BY <3>1, <3>2 DEF PostType
  <2>3. post' = [post EXCEPT ![p] = r]  BY <1>15 DEF Type
  <2> HIDE DEF r
  <2>4. post'[p] = r  BY <2>3, Kinds
  <2>5. Lasts(p) /\ PostShape(p)'
        BY <2>1, <2>2, <2>4, NamesAssumption DEF Lasts, PostShape, NoPost, Codes
  <2> QED BY <1>1, <1>2, <1>3, <1>15, <2>2, <2>3, <2>5, PostMoves DEF Type, copies
<1> QED BY <1>4, <1>5, <1>6, <1>7, <1>8, <1>9, <1>10, <1>11, <1>12, <1>13, <1>14, <1>15 DEF Inbound

\* The panel, the clock of Redis, Divar: no post moves, nothing is parked.
LEMMA OthersType ==
    ASSUME TypeInv,
           \/ \E k \in Keys : DismissOne(k)
           \/ \E x \in Askers : AskWrite(x) \/ \E k \in Keys : AskRead(x, k)
           \/ \E j \in Jobs : OfJob(j)
           \/ \E a \in Accounts : ParkedExpires(a)
           \/ \E s \in Sms : Send(s)
           \/ UNCHANGED vars
    PROVE  TypeInv'
<1>1. ASSUME UNCHANGED <<waiter, post, used, answered>>, StoreOK',
             held' \in [Accounts -> Posts \cup {None}], \A a \in Accounts : held'[a] \in {held[a], None},
             leave' \in [Jobs -> SUBSET {"dismissed", "switch", "stopped"}],
             dropping' \subseteq Jobs, strikes' \in [Jobs -> Nat],
             ask' \in [Askers -> Keys \cup {None}], sent' \subseteq Sms
      PROVE  TypeInv'
  <2>1. TypeOK'  BY <1>1 DEF TypeInv, TypeOK, StoreOK, PromptType, waiter
  <2>2. Shapes'  BY <1>1, SamePosts, ShapesLast DEF waiter
  <2> QED BY <2>1, <2>2 DEF TypeInv
<1>2. /\ StoreOK /\ held \in [Accounts -> Posts \cup {None}] /\ sent \subseteq Sms
      /\ leave \in [Jobs -> SUBSET {"dismissed", "switch", "stopped"}] /\ dropping \subseteq Jobs
      /\ strikes \in [Jobs -> Nat] /\ ask \in [Askers -> Keys \cup {None}]
      BY Kinds DEF TypeInv, TypeOK, StoreOK
<1>3. UNCHANGED store => StoreOK'  BY <1>2 DEF store, StoreOK
<1>4. ASSUME NEW k \in Keys, DismissOne(k) PROVE TypeInv'
      BY <1>1, <1>2, <1>4, WithoutType DEF DismissOne, copies, asks, poster
<1>5. ASSUME NEW x \in Askers, AskWrite(x) PROVE TypeInv'
  <2>1. ask[x] \in Keys  BY <1>2, <1>5 DEF AskWrite
  <2>2. prompt' \in [Keys -> PromptType]
        BY <1>5, <2>1, Kinds, CodeType DEF AskWrite
  <2>3. StoreOK'  BY <1>2, <1>5, <2>2 DEF AskWrite, StoreOK
  <2>4. ask' \in [Askers -> Keys \cup {None}]  BY <1>2, <1>5 DEF AskWrite
  <2> QED BY <1>1, <1>2, <1>5, <2>3, <2>4 DEF AskWrite, copies, asks
<1>6. ASSUME NEW x \in Askers, NEW k \in Keys, AskRead(x, k) PROVE TypeInv'
      BY <1>1, <1>2, <1>3, <1>6 DEF AskRead, copies, asks
<1>7. ASSUME NEW a \in Accounts, ParkedExpires(a) PROVE TypeInv'
      BY <1>1, <1>2, <1>3, <1>7 DEF ParkedExpires, asks, poster
<1>8. ASSUME NEW s \in Sms, Send(s) PROVE TypeInv'
      BY <1>1, <1>2, <1>3, <1>8 DEF Send, copies, asks
<1>9. ASSUME UNCHANGED vars PROVE TypeInv'
      BY <1>1, <1>2, <1>3, <1>9 DEF vars, store, waiter
<1>10. ASSUME NEW j \in Jobs, OfJob(j) PROVE TypeInv'
  <2>1. CASE Revealed(j)  BY <1>1, <1>2, <1>3, <2>1 DEF Revealed, copies, poster
  <2>2. CASE TakeSwitch(j)  BY <1>1, <1>2, <1>3, <2>2 DEF TakeSwitch, copies, poster
  <2>3. CASE DismissDrops(j)  BY <1>1, <1>2, <2>3, WithoutType DEF DismissDrops, copies, poster
  <2>4. CASE DismissFlags(j)  BY <1>1, <1>2, <1>3, <2>4 DEF DismissFlags, copies, poster
  <2>5. CASE DismissExpires(j)  BY <1>1, <1>2, <1>3, <2>5 DEF DismissExpires, copies, poster
  <2>6. CASE AskSwitch(j)  BY <1>1, <1>2, <1>3, <2>6 DEF AskSwitch, copies, poster
  <2>7. CASE Stop(j)  BY <1>1, <1>2, <1>3, <2>7 DEF Stop, copies, poster
  <2>8. CASE ClearJob(j)  BY <1>1, <1>2, <2>8, WithoutType DEF ClearJob, copies, poster
  <2> QED BY <1>10, <2>1, <2>2, <2>3, <2>4, <2>5, <2>6, <2>7, <2>8 DEF OfJob
<1> QED BY <1>4, <1>5, <1>6, <1>7, <1>8, <1>9, <1>10

LEMMA TypeNext == TypeInv /\ [Next]_vars => TypeInv'
BY ExtractType, InboundType, OthersType DEF Next, Kept

\* Every variable keeps its type; what is parked or taken was posted under its
\* number (otp_store.py and otp_inbound).
THEOREM TypeCorrect == Spec => []TypeOK
<1>1. Spec => []TypeInv  BY TypeInit, TypeNext, PTL DEF Spec
<1>2. TypeInv => TypeOK  BY DEF TypeInv
<1> QED BY <1>1, <1>2, PTL

-----------------------------------------------------------------------------
(* One SMS, one answer.                                                    *)

Holds(p, s) == post[p].pc \in {"submitting", "releasing"} /\ post[p].sms = s
Takes(k, s) == stage[k] = "claiming" /\ post[hand[k]].sms = s

\* A mark stands for an answer or for one holder, a post or an extractor; an
\* answer keeps its mark and has no holder any more.
Book(s) ==
    /\ answered[s] # <<>> => s \in used
    /\ Len(answered[s]) <= 1
    /\ \A p \in Posts : Holds(p, s) => s \in used /\ answered[s] = <<>>
    /\ \A k \in Keys : Takes(k, s) => s \in used /\ answered[s] = <<>>
    /\ \A p, q \in Posts : Holds(p, s) /\ Holds(q, s) => p = q
    /\ \A k, l \in Keys : Takes(k, s) /\ Takes(l, s) => k = l
    /\ \A p \in Posts, k \in Keys : ~(Holds(p, s) /\ Takes(k, s))
    /\ s \in used /\ answered[s] = <<>> =>
          (\E p \in Posts : Holds(p, s)) \/ (\E k \in Keys : Takes(k, s))

LedgerInv == TypeInv /\ \A s \in Sms : Book(s)

LEMMA LedgerInit == Init => LedgerInv
<1> SUFFICES ASSUME Init PROVE LedgerInv OBVIOUS
<1>1. \A p \in Posts : post[p].pc = "none"  BY DEF Init, NoPost
<1>2. \A s \in Sms : Book(s)  BY <1>1 DEF Init, Book, Holds, Takes
<1> QED BY <1>2, TypeInit DEF LedgerInv

\* An SMS nobody takes, gives back or answers.
LEMMA SameBook ==
    ASSUME NEW s, Book(s), s \in used' <=> s \in used, answered'[s] = answered[s],
           \A p \in Posts : Holds(p, s)' <=> Holds(p, s),
           \A k \in Keys : Takes(k, s)' <=> Takes(k, s)
    PROVE  Book(s)'
BY DEF Book

\* The step of an extractor that is not about a parked code it may use, of the
\* panel, of Redis or of Divar.
Quiet == /\ UNCHANGED <<used, answered, post, hand>>
         /\ \A k \in Keys : stage'[k] = "claiming" <=> stage[k] = "claiming"

LEMMA QuietExtract ==
    ASSUME TypeInv, NEW k \in Keys, Visit(k) \/ Extract(k), ~Claim(k), ~ClaimWrite(k)
    PROVE  Quiet
<1>0. stage \in [Keys -> {"none", "clicked", "asking", "opened", "claiming",
                          "signalling", "waiting", "blocked", "popping", "resending",
                          "clicking", "over"}]
      BY DEF TypeInv, TypeOK
<1> USE <1>0 DEF Quiet, copies, poster
<1>1. CASE Visit(k)  BY <1>1 DEF Visit, Click, Again, Close
<1>2. CASE Check(k)  BY <1>2 DEF Check
<1>3. CASE Skip(k)  BY <1>3 DEF Skip, Ends
<1>4. CASE Open(k)  BY <1>4 DEF Open
<1>5. CASE ClaimNothing(k)  BY <1>5 DEF ClaimNothing
<1>6. CASE ClaimSignal(k)  BY <1>6 DEF ClaimSignal
<1>7. CASE Top(k)  BY <1>7 DEF Top
<1>8. CASE Slice(k)  BY <1>8 DEF Slice
<1>9. CASE Wake(k)  BY <1>9 DEF Wake
<1>10. CASE Pop(k)  BY <1>10 DEF Pop, Ends
<1>11. CASE TakeResend(k)  BY <1>11 DEF TakeResend
<1>12. CASE CountResend(k)  BY <1>12 DEF CountResend
<1>13. CASE ResendClick(k)  BY <1>13 DEF ResendClick
<1>14. CASE AutoResend(k)  BY <1>14 DEF AutoResend, waiter
<1>15. CASE Leave(k)  BY <1>15 DEF Leave, Ends
<1>16. CASE Unanswered(k)  BY <1>16 DEF Unanswered, Ends
<1>17. CASE Dismissed(k)  BY <1>17 DEF Dismissed, Ends
<1> QED BY <1>1, <1>2, <1>3, <1>4, <1>5, <1>6, <1>7, <1>8, <1>9, <1>10, <1>11, <1>12, <1>13,
           <1>14, <1>15, <1>16, <1>17 DEF Extract

LEMMA QuietOthers ==
    ASSUME \/ \E k \in Keys : DismissOne(k)
           \/ \E x \in Askers : AskWrite(x) \/ \E k \in Keys : AskRead(x, k)
           \/ \E j \in Jobs : OfJob(j)
           \/ \E a \in Accounts : ParkedExpires(a)
           \/ \E s \in Sms : Send(s)
           \/ UNCHANGED vars
    PROVE  Quiet
<1> USE DEF Quiet, copies, poster, waiter
<1>1. ASSUME NEW k \in Keys, DismissOne(k) PROVE Quiet  BY <1>1 DEF DismissOne
<1>2. ASSUME NEW x \in Askers, AskWrite(x) PROVE Quiet  BY <1>2 DEF AskWrite
<1>3. ASSUME NEW x \in Askers, NEW k \in Keys, AskRead(x, k) PROVE Quiet  BY <1>3 DEF AskRead
<1>4. ASSUME NEW a \in Accounts, ParkedExpires(a) PROVE Quiet  BY <1>4 DEF ParkedExpires
<1>5. ASSUME NEW s \in Sms, Send(s) PROVE Quiet  BY <1>5 DEF Send
<1>6. ASSUME UNCHANGED vars PROVE Quiet  BY <1>6 DEF vars
<1>7. ASSUME NEW j \in Jobs, OfJob(j) PROVE Quiet
  <2>1. CASE Revealed(j)  BY <2>1 DEF Revealed
  <2>2. CASE TakeSwitch(j)  BY <2>2 DEF TakeSwitch
  <2>3. CASE DismissDrops(j)  BY <2>3 DEF DismissDrops
  <2>4. CASE DismissFlags(j)  BY <2>4 DEF DismissFlags
  <2>5. CASE DismissExpires(j)  BY <2>5 DEF DismissExpires
  <2>6. CASE AskSwitch(j)  BY <2>6 DEF AskSwitch
  <2>7. CASE Stop(j)  BY <2>7 DEF Stop
  <2>8. CASE ClearJob(j)  BY <2>8 DEF ClearJob
  <2> QED BY <1>7, <2>1, <2>2, <2>3, <2>4, <2>5, <2>6, <2>7, <2>8 DEF OfJob
<1> QED BY <1>1, <1>2, <1>3, <1>4, <1>5, <1>6, <1>7

LEMMA QuietBook == ASSUME Quiet, NEW s \in Sms, Book(s) PROVE Book(s)'
<1>1. s \in used' <=> s \in used  BY DEF Quiet
<1>2. answered'[s] = answered[s]  BY DEF Quiet
<1>3. \A p \in Posts : Holds(p, s)' <=> Holds(p, s)  BY DEF Quiet, Holds
<1>4. \A k \in Keys : Takes(k, s)' <=> Takes(k, s)  BY DEF Quiet, Takes
<1> QED BY <1>1, <1>2, <1>3, <1>4, SameBook

LEMMA TakesLast ==
    ASSUME TypeInv, \A q \in Posts : Lasts(q), UNCHANGED <<stage, hand>>,
           NEW k \in Keys, NEW s \in Sms
    PROVE  Takes(k, s)' <=> Takes(k, s)
<1>1. CASE stage[k] # "claiming"  BY <1>1 DEF Takes
<1>2. CASE stage[k] = "claiming"
  <2>1. hand[k] \in Posts /\ post[hand[k]].sms \in Sms
        BY <1>2 DEF TypeInv, TypeOK, Shapes, HandShape
  <2> QED BY <2>1 DEF Takes, Lasts
<1> QED BY <1>1, <1>2

\* A post moves, and holds an SMS after it just when it did before.
LEMMA PostBook ==
    ASSUME TypeInv, NEW p \in Posts, Kept, UNCHANGED waiter,
           \A q \in Posts \ {p} : post'[q] = post[q],
           NEW s \in Sms, Book(s), s \in used' <=> s \in used, answered'[s] = answered[s],
           Holds(p, s)' <=> Holds(p, s)
    PROVE  Book(s)'
<1>1. \A q \in Posts : Holds(q, s)' <=> Holds(q, s)  BY DEF Holds
<1>2. \A k \in Keys : Takes(k, s)' <=> Takes(k, s)  BY TakesLast DEF waiter, Kept
<1> QED BY <1>1, <1>2, SameBook

LEMMA InboundBook ==
    ASSUME LedgerInv, NEW p \in Posts, Inbound(p), NEW s \in Sms
    PROVE  Book(s)'
<1>1. /\ TypeInv /\ Kept /\ Book(s) /\ post[p] \in PostType /\ PostShape(p)
      /\ answered \in [Sms -> Seq(Keys)]
      BY InboundType, Kinds DEF LedgerInv, TypeInv, TypeOK, Shapes
<1>2. UNCHANGED waiter
      BY DEF Inbound, Duplicate, FindNone, Park, Use, Submit, Refused, Release, Signal, DropCopies,
             Arrive, Find, Type
<1>3. \A q \in Posts \ {p} : post'[q] = post[q]
      BY Kinds, <1>1 DEF Inbound, Duplicate, FindNone, Park, Use, Mark, Submit, Refused, Release,
             Signal, DropCopies, Arrive, Find, Type, Goes, Done
<1>4. ASSUME UNCHANGED <<used, answered>>, Holds(p, s)' <=> Holds(p, s) PROVE Book(s)'
      BY <1>1, <1>2, <1>3, <1>4, PostBook
<1>5. ASSUME post[p].pc \notin {"submitting", "releasing"},
             post'[p].pc \notin {"submitting", "releasing"}
      PROVE  Holds(p, s)' <=> Holds(p, s)
      BY <1>5 DEF Holds
<1>6. CASE Duplicate(p)  BY <1>1, <1>4, <1>5, <1>6, PostDone DEF Duplicate, copies
<1>7. CASE FindNone(p)
      BY <1>1, <1>4, <1>5, <1>7, PostDone, PostGoes DEF FindNone, copies, PostShape
<1>8. CASE Park(p)  BY <1>1, <1>4, <1>5, <1>8, PostDone DEF Park
<1>9. CASE DropCopies(p)  BY <1>1, <1>4, <1>5, <1>9, PostDone DEF DropCopies
<1>10. CASE Signal(p)
  <2>1. post[p].sms \in Codes /\ post[p].key \in Keys  BY <1>1, <1>10 DEF Signal, PostShape
  <2> QED BY <1>1, <1>4, <1>5, <1>10, <2>1, PostDone, PostGoes DEF Signal, copies, Codes
<1>11. CASE Refused(p)
  <2>1. post[p].sms \in Codes /\ post[p].key \in Keys  BY <1>1, <1>11 DEF Refused, PostShape
  <2>2. CASE post[p].sms = Typed
        BY <1>1, <1>4, <1>11, <2>2, PostDone, NamesAssumption DEF Refused, copies, Holds
  <2>3. CASE post[p].sms # Typed
        BY <1>1, <1>4, <1>11, <2>1, <2>3, PostGoes DEF Refused, copies, Holds, Codes
  <2> QED BY <2>2, <2>3
<1>12. ASSUME NEW t \in Sms, NEW a \in Accounts, Arrive(p, t, a) PROVE Book(s)'
  <2> DEFINE n == NoPost
             r == [n EXCEPT !.pc = "arrived", !.sms = t, !.acct = a]
  <2>1. n \in PostType  BY NoPostType
  <2>2. post' = [post EXCEPT ![p] = r]  BY <1>12 DEF Arrive
  <2> HIDE DEF n
  <2>3. r \in PostType /\ r.pc = "arrived"
    <3>1. t \in Codes  BY DEF Codes
    <3> QED BY <2>1, <3>1 DEF PostType
  <2> HIDE DEF r
  <2>4. post'[p].pc = "arrived"  BY <1>1, <2>2, <2>3, Kinds
  <2> QED BY <1>4, <1>5, <1>12, <2>4 DEF Arrive, copies
<1>13. ASSUME NEW k \in Keys, Find(p, k) PROVE Book(s)'
  <2>1. CASE Done(p)  BY <1>1, <1>4, <1>5, <1>13, <2>1, PostDone DEF Find, copies
  <2>2. CASE post' = [post EXCEPT ![p].pc = "found", ![p].key = k]
    <3>1. post'[p].pc = "found"  BY <2>2, <1>1, Kinds DEF PostType
    <3> QED BY <1>4, <1>5, <1>13, <3>1 DEF Find, copies
  <2> QED BY <1>13, <2>1, <2>2 DEF Find
<1>14. ASSUME NEW k \in Keys, Type(p, k) PROVE Book(s)'
  <2> DEFINE n == NoPost
             r == [n EXCEPT !.pc = "submitting", !.sms = Typed, !.key = k]
  <2>1. n \in PostType  BY NoPostType
  <2>2. post' = [post EXCEPT ![p] = r]  BY <1>14 DEF Type
  <2> HIDE DEF n
  <2>3. r \in PostType /\ r.sms = Typed
    <3>1. Typed \in Codes  BY DEF Codes
    <3> QED BY <2>1, <3>1 DEF PostType
  <2> HIDE DEF r
  <2>4. post'[p].sms = Typed  BY <1>1, <2>2, <2>3, Kinds
  <2>5. Holds(p, s)' <=> Holds(p, s)  BY <1>14, <2>4, NamesAssumption DEF Holds, Type
  <2> QED BY <1>4, <1>14, <2>5 DEF Type, copies
<1>15. ASSUME UNCHANGED answered, used' \ {post[p].sms} = used \ {post[p].sms}, s # post[p].sms,
              post'[p].sms = post[p].sms
       PROVE  Book(s)'
  <2>1. s \in used' <=> s \in used  BY <1>15
  <2>2. Holds(p, s)' <=> Holds(p, s)  BY <1>15 DEF Holds
  <2> QED BY <1>1, <1>2, <1>3, <1>15, <2>1, <2>2, PostBook
<1>16. \A q \in Posts \ {p} : Holds(q, s)' <=> Holds(q, s)  BY <1>3 DEF Holds
<1>17. \A k \in Keys : Takes(k, s)' <=> Takes(k, s)  BY <1>1, <1>2, TakesLast DEF waiter, Kept
\* Use takes a free SMS: nobody holds it, it answered nothing.
<1>18. CASE Use(p)
  <2>1. post[p].sms \in Sms /\ post[p].key \in Keys  BY <1>1, <1>18 DEF Use, PostShape
  <2>2. CASE post[p].sms \in used
        BY <1>1, <1>4, <1>5, <1>18, <2>2, PostDone DEF Use, Mark
  <2>3. CASE post[p].sms \notin used
    <3>1. /\ used' = used \cup {post[p].sms} /\ UNCHANGED answered
          /\ post'[p].pc = "submitting" /\ post'[p].sms = post[p].sms
          BY <1>1, <1>18, <2>1, <2>3, PostGoes DEF Use, Mark, Codes
    <3>2. CASE s # post[p].sms  BY <1>15, <3>1, <3>2
    <3>3. CASE s = post[p].sms
      <4>1. answered[s] = <<>> /\ s \in used'  BY <1>1, <2>3, <3>1, <3>3 DEF Book
      <4>2. \A q \in Posts \ {p} : ~Holds(q, s)'  BY <1>1, <1>16, <2>3, <3>3 DEF Book
      <4>3. \A k \in Keys : ~Takes(k, s)'  BY <1>1, <1>17, <2>3, <3>3 DEF Book
      <4>4. Holds(p, s)'  BY <3>1, <3>3 DEF Holds
      <4> QED BY <3>1, <4>1, <4>2, <4>3, <4>4 DEF Book
    <3> QED BY <3>2, <3>3
  <2> QED BY <2>2, <2>3
<1>19. CASE Release(p)
  <2>1. post'[p].pc = "done" /\ post'[p].sms = post[p].sms  BY <1>1, <1>19, PostDone DEF Release
  <2>2. used' = used \ {post[p].sms} /\ UNCHANGED answered  BY <1>19 DEF Release, Released
  <2>3. CASE s # post[p].sms  BY <1>15, <2>1, <2>2, <2>3
  <2>4. CASE s = post[p].sms
    <3>1. Holds(p, s)  BY <1>19, <2>4 DEF Release, Holds
    <3>2. answered[s] = <<>> /\ s \notin used'  BY <1>1, <2>2, <2>4, <3>1 DEF Book
    <3>3. \A q \in Posts : ~Holds(q, s)'  BY <1>1, <1>16, <2>1, <3>1 DEF Book, Holds
    <3>4. \A k \in Keys : ~Takes(k, s)'  BY <1>1, <1>17, <3>1 DEF Book
    <3> QED BY <2>2, <3>2, <3>3, <3>4 DEF Book
  <2> QED BY <2>3, <2>4
\* Submit answers the SMS it holds, and lets go of it.
<1>20. CASE Submit(p)
  <2>1. post[p].sms \in Codes /\ post[p].key \in Keys  BY <1>1, <1>20 DEF Submit, PostShape
  <2>2. post'[p].pc = "signalling" /\ post'[p].sms = post[p].sms /\ UNCHANGED used
        BY <1>1, <1>20, <2>1, PostGoes DEF Submit, copies
  <2>3. CASE s # post[p].sms
    <3>1. answered'[s] = answered[s]  BY <1>1, <1>20, <2>1, <2>3 DEF Submit, Codes
    <3>2. Holds(p, s)' <=> Holds(p, s)  BY <2>2, <2>3 DEF Holds
    <3> QED BY <1>1, <1>2, <1>3, <2>2, <3>1, <3>2, PostBook
  <2>4. CASE s = post[p].sms
    <3>1. Holds(p, s)  BY <1>20, <2>4 DEF Submit, Holds
    <3>2. answered[s] = <<>> /\ s \in used'  BY <1>1, <2>2, <3>1 DEF Book
    <3>3. answered'[s] = <<post[p].key>>
          BY <1>1, <1>20, <2>1, <2>4, <3>2, NamesAssumption DEF Submit
    <3>4. \A q \in Posts : ~Holds(q, s)'  BY <1>1, <1>16, <2>2, <3>1 DEF Book, Holds
    <3>5. \A k \in Keys : ~Takes(k, s)'  BY <1>1, <1>17, <3>1 DEF Book
    <3> QED BY <3>2, <3>3, <3>4, <3>5 DEF Book
  <2> QED BY <2>3, <2>4
<1> QED BY <1>6, <1>7, <1>8, <1>9, <1>10, <1>11, <1>12, <1>13, <1>14, <1>18, <1>19, <1>20 DEF Inbound

\* The extractor's part: a parked code is taken, then written.
LEMMA ClaimBook ==
    ASSUME LedgerInv, NEW k \in Keys, Claim(k) \/ ClaimWrite(k), NEW s \in Sms
    PROVE  Book(s)'
<1>1. /\ TypeInv /\ Book(s) /\ DOMAIN stage = Keys /\ stage = [l \in Keys |-> stage[l]] /\ hand \in [Keys -> Posts \cup {None}]
      /\ answered \in [Sms -> Seq(Keys)] /\ HandShape(k) /\ UNCHANGED post
      BY DEF LedgerInv, TypeInv, TypeOK, Shapes, Claim, ClaimWrite, poster
<1>2. \A p \in Posts : Holds(p, s)' <=> Holds(p, s)  BY <1>1 DEF Holds
<1>3. \A l \in Keys \ {k} : Takes(l, s)' <=> Takes(l, s)
      BY <1>1 DEF Claim, ClaimWrite, Takes
<1>4. CASE Claim(k)
  <2> DEFINE t == post[Parked(k)].sms
  <2>1. /\ t \notin used /\ stage[k] = "opened" /\ used' = used \cup {t} /\ UNCHANGED answered
        /\ stage'[k] = "claiming" /\ post'[hand'[k]].sms = t
        BY <1>1, <1>4 DEF Claim, Usable
  <2> HIDE DEF t
  <2>2. CASE s # t
    <3>1. Takes(k, s)' <=> Takes(k, s)  BY <2>1, <2>2 DEF Takes
    <3>2. s \in used' <=> s \in used  BY <2>1, <2>2
    <3> QED BY <1>1, <1>2, <1>3, <2>1, <3>1, <3>2, SameBook
  <2>3. CASE s = t
    <3>1. answered[s] = <<>> /\ s \in used'  BY <1>1, <2>1, <2>3 DEF Book
    <3>2. \A p \in Posts : ~Holds(p, s)'  BY <1>1, <1>2, <2>1, <2>3 DEF Book
    <3>3. \A l \in Keys \ {k} : ~Takes(l, s)'  BY <1>1, <1>3, <2>1, <2>3 DEF Book
    <3>4. Takes(k, s)'  BY <2>1, <2>3 DEF Takes
    <3> QED BY <2>1, <3>1, <3>2, <3>3, <3>4 DEF Book
  <2> QED BY <2>2, <2>3
<1>5. CASE ClaimWrite(k)
  <2> DEFINE t == post[hand[k]].sms
  <2>1. /\ t \in Sms /\ stage[k] = "claiming" /\ stage'[k] = "signalling" /\ UNCHANGED used
        /\ answered' = [answered EXCEPT ![t] = Append(answered[t], k)]
        BY <1>1, <1>5 DEF ClaimWrite, HandShape, copies
  <2>2. Takes(k, t) /\ \A u : u # t => ~Takes(k, u)  BY <2>1 DEF Takes
  <2> HIDE DEF t
  <2>3. ~Takes(k, s)'  BY <2>1 DEF Takes
  <2>4. CASE s # t  BY <1>1, <1>2, <1>3, <2>1, <2>2, <2>3, <2>4, SameBook
  <2>5. CASE s = t
    <3>1. answered[s] = <<>> /\ s \in used'  BY <1>1, <2>1, <2>2, <2>5 DEF Book
    <3>2. answered'[s] = <<k>>  BY <1>1, <2>1, <2>5, <3>1
    <3>3. \A p \in Posts : ~Holds(p, s)'  BY <1>1, <1>2, <2>2, <2>5 DEF Book
    <3>4. \A l \in Keys : ~Takes(l, s)'  BY <1>1, <1>3, <2>2, <2>3, <2>5 DEF Book
    <3> QED BY <3>1, <3>2, <3>3, <3>4 DEF Book
  <2> QED BY <2>4, <2>5
<1> QED BY <1>4, <1>5

LEMMA LedgerNext == LedgerInv /\ [Next]_vars => LedgerInv'
<1> SUFFICES ASSUME LedgerInv, [Next]_vars PROVE LedgerInv' OBVIOUS
<1>1. TypeInv /\ TypeInv' /\ \A s \in Sms : Book(s)  BY TypeNext DEF LedgerInv
<1>2. ASSUME NEW s \in Sms PROVE Book(s)'
  <2>1. CASE \E p \in Posts : Inbound(p)  BY <2>1, InboundBook
  <2>2. CASE \E k \in Keys : Claim(k) \/ ClaimWrite(k)  BY <2>2, ClaimBook
  <2>3. CASE \E k \in Keys : (Visit(k) \/ Extract(k)) /\ ~Claim(k) /\ ~ClaimWrite(k)
        BY <1>1, <2>3, QuietExtract, QuietBook
  <2>4. CASE \/ \E k \in Keys : DismissOne(k)
             \/ \E x \in Askers : AskWrite(x) \/ \E k \in Keys : AskRead(x, k)
             \/ \E j \in Jobs : OfJob(j)
             \/ \E a \in Accounts : ParkedExpires(a)
             \/ \E t \in Sms : Send(t)
             \/ UNCHANGED vars
        BY <1>1, <2>4, QuietOthers, QuietBook
  <2> QED BY <2>1, <2>2, <2>3, <2>4 DEF Next
<1> QED BY <1>1, <1>2 DEF LedgerInv

THEOREM LedgerHolds == Spec => []LedgerInv
BY LedgerInit, LedgerNext, PTL DEF Spec

\* «One SMS, one answer» (otp_store.use_sms): whatever number of posts of a text,
\* prompts, rounds and extractors, an SMS is written to a prompt once at most.
THEOREM OneAnswerHolds == Spec => []OneAnswer
<1>1. LedgerInv => OneAnswer  BY DEF LedgerInv, Book, OneAnswer
<1> QED BY <1>1, LedgerHolds, PTL

\* No used mark is left behind by any path of otp_inbound or of the extractor's
\* claim, and none is missing (use_sms, release_sms).
THEOREM MarksAccounted == Spec => []UsedIsAccounted
<1>1. LedgerInv => UsedIsAccounted
      BY DEF LedgerInv, Book, UsedIsAccounted, InHand, Holds, Takes
<1> QED BY <1>1, LedgerHolds, PTL

-----------------------------------------------------------------------------
(* The steps of SmsLedger, and the number an answer goes to.               *)

\* The post an answer came from was one under the number of its prompt.
Under(s, k) == \E p \in Posts : post[p].sms = s /\ post[p].acct = AccountOf[k]

MarksSms(s) == s \notin used /\ used' = used \cup {s} /\ UNCHANGED answered
FreesSms(s) == s \in used /\ answered[s] = <<>> /\ used' = used \ {s} /\ UNCHANGED answered
SpendsSms(s, k) == /\ s \in used /\ answered[s] = <<>> /\ UNCHANGED used
                  /\ answered' = [answered EXCEPT ![s] = <<k>>] /\ Under(s, k)

Moves == \/ UNCHANGED <<used, answered>>
         \/ \E s \in Sms : MarksSms(s) \/ FreesSms(s) \/ \E k \in Keys : SpendsSms(s, k)

LEMMA MovesNext == LedgerInv /\ [Next]_vars => Moves
<1> SUFFICES ASSUME LedgerInv, [Next]_vars PROVE Moves OBVIOUS
<1>1. /\ TypeInv /\ answered \in [Sms -> Seq(Keys)] /\ post \in [Posts -> PostType]
      /\ \A s \in Sms : Book(s)
      BY Kinds DEF LedgerInv, TypeInv, TypeOK
<1>2. ASSUME UNCHANGED <<used, answered>> PROVE Moves  BY <1>2 DEF Moves
<1>3. ASSUME NEW p \in Posts, Inbound(p) PROVE Moves
  <2>1. PostShape(p)  BY <1>1 DEF TypeInv, Shapes
  <2>2. CASE Use(p)
    <3>1. post[p].sms \in Sms  BY <2>1, <2>2 DEF Use, PostShape
    <3> QED BY <2>2, <3>1 DEF Use, Mark, Moves, MarksSms
  <2>3. CASE Release(p)
    <3>1. post[p].sms \in Sms /\ Holds(p, post[p].sms)  BY <2>1, <2>3 DEF Release, PostShape, Holds
    <3>2. post[p].sms \in used /\ answered[post[p].sms] = <<>>  BY <1>1, <3>1 DEF Book
    <3> QED BY <2>3, <3>1, <3>2 DEF Release, Released, Moves, FreesSms
  <2>4. CASE Submit(p)
    <3>1. CASE post[p].sms = Typed  BY <1>2, <2>4, <3>1 DEF Submit, copies
    <3>2. CASE post[p].sms # Typed
      <4>1. post[p].sms \in Sms /\ post[p].key \in Keys /\ Holds(p, post[p].sms)
            BY <2>1, <2>4, <3>2 DEF Submit, PostShape, Codes, Holds
      <4>2. post[p].sms \in used /\ answered[post[p].sms] = <<>>  BY <1>1, <4>1 DEF Book
      <4>3. Under(post[p].sms, post[p].key)
            BY <2>1, <4>1, NamesAssumption DEF Under, PostShape
      <4>4. answered' = [answered EXCEPT ![post[p].sms] = <<post[p].key>>] /\ UNCHANGED used
            BY <2>4, <3>2, <4>2, <1>1, <4>1 DEF Submit, copies
      <4> QED BY <4>1, <4>2, <4>3, <4>4 DEF Moves, SpendsSms
    <3> QED BY <3>1, <3>2
  <2>5. CASE ~Use(p) /\ ~Release(p) /\ ~Submit(p)
        BY <1>2, <1>3, <2>5 DEF Inbound, Duplicate, FindNone, Park, Refused, Signal, DropCopies,
           Arrive, Find, Type, copies
  <2> QED BY <2>2, <2>3, <2>4, <2>5
<1>4. ASSUME NEW k \in Keys, Claim(k) PROVE Moves
  <2>1. post[Parked(k)].sms \in Sms /\ post[Parked(k)].sms \notin used
        BY <1>1, <1>4, Kinds DEF Claim, Usable, Parked, TypeInv, Shapes, HeldShape
  <2> QED BY <1>4, <2>1 DEF Claim, Moves, MarksSms
<1>5. ASSUME NEW k \in Keys, ClaimWrite(k) PROVE Moves
  <2> DEFINE s == post[hand[k]].sms
  <2>1. s \in Sms /\ hand[k] \in Posts /\ post[hand[k]].acct = AccountOf[k]
        BY <1>1, <1>5 DEF ClaimWrite, TypeInv, TypeOK, Shapes, HandShape
  <2>2. Takes(k, s)  BY <1>5 DEF ClaimWrite, Takes
  <2>3. s \in used /\ answered[s] = <<>>  BY <1>1, <2>1, <2>2 DEF Book
  <2>4. Under(s, k)  BY <2>1 DEF Under
  <2>5. answered' = [answered EXCEPT ![s] = <<k>>] /\ UNCHANGED used
        BY <1>1, <1>5, <2>1, <2>3 DEF ClaimWrite, copies
  <2> HIDE DEF s
  <2> QED BY <2>1, <2>3, <2>4, <2>5 DEF Moves, SpendsSms
<1>6. ASSUME Quiet PROVE Moves  BY <1>2, <1>6 DEF Quiet
<1>7. CASE \E k \in Keys : (Visit(k) \/ Extract(k)) /\ ~Claim(k) /\ ~ClaimWrite(k)
      BY <1>1, <1>6, <1>7, QuietExtract
<1>8. CASE \/ \E k \in Keys : DismissOne(k)
           \/ \E x \in Askers : AskWrite(x) \/ \E k \in Keys : AskRead(x, k)
           \/ \E j \in Jobs : OfJob(j)
           \/ \E a \in Accounts : ParkedExpires(a)
           \/ \E t \in Sms : Send(t)
           \/ UNCHANGED vars
      BY <1>6, <1>8, QuietOthers
<1> QED BY <1>3, <1>4, <1>5, <1>7, <1>8 DEF Next

Reserved == {s \in used : answered[s] = <<>>}

LEMMA LedgerStep == LedgerInv /\ Moves => [Ledger!Next]_(Ledger!vars)
<1> SUFFICES ASSUME LedgerInv, Moves PROVE [Ledger!Next]_(Ledger!vars) OBVIOUS
<1>1. /\ used \subseteq Sms /\ answered \in [Sms -> Seq(Keys)] /\ \A s \in Sms : Book(s)
      BY DEF LedgerInv, TypeInv, TypeOK
<1>2. CASE UNCHANGED <<used, answered>>  BY <1>2 DEF Ledger!vars
<1>3. ASSUME NEW s \in Sms, MarksSms(s) PROVE Ledger!Reserve(s)
  <2>1. answered[s] = <<>>  BY <1>1, <1>3 DEF Book, MarksSms
  <2> QED BY <1>1, <1>3, <2>1 DEF MarksSms, Ledger!Reserve, Ledger!Unspent
<1>4. ASSUME NEW s \in Sms, FreesSms(s) PROVE Ledger!Return(s)
      BY <1>1, <1>4 DEF FreesSms, Ledger!Return
<1>5. ASSUME NEW s \in Sms, NEW k \in Keys, SpendsSms(s, k) PROVE Ledger!Answer(s, k)
  <2>1. answered'[s] = <<k>> /\ \A t \in Sms \ {s} : answered'[t] = answered[t]
        BY <1>1, <1>5 DEF SpendsSms
  <2> QED BY <1>1, <1>5, <2>1 DEF SpendsSms, Ledger!Answer
<1> QED BY <1>2, <1>3, <1>4, <1>5 DEF Moves, Ledger!Next

\* The detailed store implements the ledger: whatever the phones, the panel and the
\* extractors do, each step takes a free SMS, gives one back, answers with one that
\* is taken, or leaves the ledger alone (otp_store.py).
THEOREM LedgerKept == Spec => KeepsTheLedger
<1>1. Init => Ledger!Init  BY DEF Init, Ledger!Init
<1>2. Spec => [][Moves]_vars
  <2>1. LedgerInv /\ [Next]_vars => [Moves]_vars  BY MovesNext
  <2> QED BY <2>1, LedgerHolds, PTL DEF Spec
<1>3. LedgerInv /\ [Moves]_vars => [Ledger!Next]_(Ledger!vars)
  <2>1. UNCHANGED vars => Moves  BY DEF vars, Moves
  <2> QED BY <2>1, LedgerStep
<1> QED BY <1>1, <1>2, <1>3, LedgerHolds, PTL DEF Spec, Ledger!Spec, KeepsTheLedger

\* One step of the SMS that have answered.
Stand == \A s \in Sms : answered[s] # <<>> => s \in used' /\ answered'[s] = answered[s]

\* The mark of an SMS that answered is never given back, however many posters of it
\* hold a refused submit of their own, and the answer is never another's (release_sms,
\* submit).
THEOREM AnswersStand == Spec => [][Stand]_vars
<1>1. ASSUME LedgerInv, Moves PROVE Stand
  <2>1. /\ answered \in [Sms -> Seq(Keys)]
        /\ \A s \in Sms : answered[s] # <<>> => s \in used
        BY <1>1 DEF LedgerInv, TypeInv, TypeOK, Book
  <2> QED BY <1>1, <2>1 DEF Moves, MarksSms, FreesSms, SpendsSms, Stand
<1>2. LedgerInv /\ [Next]_vars => [Stand]_vars  BY <1>1, MovesNext
<1> QED BY <1>2, LedgerHolds, PTL DEF Spec

LEMMA PostsLast == ASSUME TypeInv, [Next]_vars PROVE \A p \in Posts : Lasts(p)
<1>1. CASE \E p \in Posts : Inbound(p)  BY <1>1, InboundType DEF Kept
<1>2. ASSUME UNCHANGED post PROVE \A p \in Posts : Lasts(p)  BY <1>2 DEF Lasts
<1>3. ASSUME NEW k \in Keys, Claim(k) \/ ClaimWrite(k) PROVE \A p \in Posts : Lasts(p)
      BY <1>2, <1>3 DEF Claim, ClaimWrite, poster
<1>4. ASSUME Quiet PROVE \A p \in Posts : Lasts(p)  BY <1>2, <1>4 DEF Quiet
<1> QED BY <1>1, <1>3, <1>4, QuietExtract, QuietOthers DEF Next

\* An SMS answers a prompt only of a number it was posted under, however late a
\* parked code is claimed and whichever prompts are open (find_pending_for_account,
\* _claim_early).
THEOREM RightAccountHolds == Spec => []RightAccount
<1> DEFINE Inv == LedgerInv /\ RightAccount
<1>1. Init => Inv  BY LedgerInit DEF Init, RightAccount
<1>2. Inv /\ [Next]_vars => Inv'
  <2> SUFFICES ASSUME Inv, [Next]_vars PROVE RightAccount'  BY LedgerNext
  <2>1. Moves /\ TypeInv /\ answered \in [Sms -> Seq(Keys)]  BY MovesNext DEF LedgerInv, TypeInv, TypeOK
  <2>2. ASSUME NEW s \in Sms, NEW i \in 1..Len(answered'[s]) PROVE Under(s, answered'[s][i])
    <3>1. CASE answered'[s] = answered[s]  BY <3>1 DEF RightAccount, Under
    <3>2. CASE answered'[s] # answered[s]
      <4>1. PICK k \in Keys : SpendsSms(s, k)
            BY <2>1, <3>2 DEF Moves, MarksSms, FreesSms, SpendsSms
      <4>2. answered'[s] = <<k>>  BY <2>1, <4>1 DEF SpendsSms
      <4>3. i = 1  BY <4>2
      <4> QED BY <4>1, <4>2, <4>3 DEF SpendsSms
    <3> QED BY <3>1, <3>2
  <2>3. \A s \in Sms : \A k : Under(s, k) => Under(s, k)'
        BY <2>1, PostsLast DEF Under, Lasts
  <2> QED BY <2>2, <2>3 DEF RightAccount, Under
<1> QED BY <1>1, <1>2, PTL DEF Spec

-----------------------------------------------------------------------------
(* Wake-ups.                                                               *)

Signals(p, k) == post[p].pc = "signalling" /\ post[p].key = k

\* From the moment the prompt is opened, except where the extractor is about to
\* signal itself or to read.
Awaits(k) == stage[k] \in {"opened", "waiting", "blocked", "resending", "clicking"}

Woken(k) == Awaits(k) /\ prompt[k].code # None => signal[k] > 0 \/ \E p \in Posts : Signals(p, k)

\* A prompt that is cleared, or keeps its code with its signal.
Calm(k) == \/ prompt'[k].code = None
           \/ /\ prompt'[k].code = prompt[k].code /\ signal'[k] = signal[k]
              /\ Awaits(k)' => Awaits(k)

LEMMA CalmWoken ==
    ASSUME NEW k \in Keys, Woken(k), Calm(k), \A p \in Posts : Signals(p, k) => Signals(p, k)'
    PROVE  Woken(k)'
BY DEF Woken, Calm

LEMMA WithoutCalm ==
    ASSUME TypeInv, NEW ks, Without(ks), NEW k \in Keys, Awaits(k)' => Awaits(k)
    PROVE  Calm(k)
<1>1. CASE k \in ks  BY <1>1 DEF Without, Calm, NoPrompt
<1>2. CASE k \notin ks  BY <1>2 DEF Without, Calm
<1> QED BY <1>1, <1>2

LEMMA ExtractWoken ==
    ASSUME TypeInv, NEW k \in Keys, Visit(k) \/ Extract(k) \/ DismissOne(k), NEW l \in Keys, Woken(l)
    PROVE  Woken(l)'
<1>1. /\ prompt \in [Keys -> PromptType] /\ signal \in [Keys -> Nat]
      /\ stage \in [Keys -> {"none", "clicked", "asking", "opened", "claiming",
                          "signalling", "waiting", "blocked", "popping", "resending",
                          "clicking", "over"}]
      BY Kinds DEF TypeInv, TypeOK
<1>2. UNCHANGED post
      BY DEF Visit, Click, Again, Close, Extract, Check, Skip, Open, ClaimNothing, Claim, ClaimWrite, ClaimSignal, Top,
             Slice, Wake, Pop, TakeResend, CountResend, ResendClick, AutoResend, Leave, Unanswered,
             Dismissed, DismissOne, poster
<1>3. \A p \in Posts : Signals(p, l) => Signals(p, l)'  BY <1>2 DEF Signals
<1>4. ASSUME Calm(l) PROVE Woken(l)'  BY <1>3, <1>4, CalmWoken
<1>5. ASSUME UNCHANGED store, Awaits(l)' => Awaits(l) PROVE Woken(l)'
      BY <1>4, <1>5 DEF store, Calm
<1>6. CASE Visit(k)  BY <1>1, <1>5, <1>6 DEF Visit, Click, Again, Close, Awaits
<1>7. CASE Check(k)  BY <1>1, <1>5, <1>7 DEF Check, Awaits
<1>8. CASE Skip(k)  BY <1>1, <1>5, <1>8 DEF Skip, Ends, Awaits
<1>9. CASE Open(k)  BY <1>1, <1>4, <1>9 DEF Open, Fresh, NoPrompt, Calm, Awaits
<1>10. CASE ClaimNothing(k)  BY <1>1, <1>5, <1>10 DEF ClaimNothing, Awaits
<1>11. CASE Claim(k)  BY <1>1, <1>5, <1>11 DEF Claim, Awaits
<1>12. CASE ClaimWrite(k)
  <2>1. CASE l = k  BY <1>1, <1>12, <2>1 DEF ClaimWrite, Woken, Awaits
  <2>2. CASE l # k  BY <1>1, <1>4, <1>12, <2>2 DEF ClaimWrite, Calm, Awaits
  <2> QED BY <2>1, <2>2
<1>13. CASE ClaimSignal(k)
  <2>1. CASE l = k  BY <1>1, <1>13, <2>1 DEF ClaimSignal, Woken
  <2>2. CASE l # k  BY <1>1, <1>4, <1>13, <2>2 DEF ClaimSignal, Calm, Awaits
  <2> QED BY <2>1, <2>2
<1>14. CASE Top(k)  BY <1>1, <1>5, <1>14 DEF Top, Awaits
<1>15. CASE Slice(k)  BY <1>1, <1>5, <1>15 DEF Slice, Awaits
<1>16. CASE Wake(k)
  <2>1. CASE l = k  BY <1>1, <1>16, <2>1 DEF Wake, Woken, Awaits
  <2>2. CASE l # k  BY <1>1, <1>4, <1>16, <2>2 DEF Wake, Calm, Awaits
  <2> QED BY <2>1, <2>2
<1>17. CASE Pop(k)  BY <1>1, <1>4, <1>17 DEF Pop, Ends, NoPrompt, Calm, Awaits
<1>18. CASE TakeResend(k)  BY <1>1, <1>5, <1>18 DEF TakeResend, Awaits
<1>19. CASE CountResend(k)
  <2>1. Count(k).code = prompt[k].code  BY <1>1 DEF Count, PromptType
  <2>2. prompt'[l].code = prompt[l].code  BY <1>1, <1>19, <2>1 DEF CountResend
  <2> QED BY <1>1, <1>4, <1>19, <2>2 DEF CountResend, Calm, Awaits
<1>20. ASSUME Restarted(k) PROVE prompt'[l].code = prompt[l].code
  <2>1. [prompt[k] EXCEPT !.ts = sent].code = prompt[k].code  BY <1>1 DEF PromptType
  <2> QED BY <1>1, <1>20, <2>1 DEF Restarted
<1>21. CASE ResendClick(k)  BY <1>1, <1>4, <1>20, <1>21 DEF ResendClick, Calm, Awaits
<1>22. CASE AutoResend(k)  BY <1>1, <1>4, <1>20, <1>22 DEF AutoResend, Calm, Awaits, waiter
<1>23. CASE Leave(k)
  <2>1. Awaits(l)' => Awaits(l)  BY <1>1, <1>23 DEF Leave, Ends, Awaits
  <2> QED BY <1>4, <1>23, <2>1, WithoutCalm DEF Leave
<1>24. CASE Unanswered(k)
  <2>1. Awaits(l)' => Awaits(l)  BY <1>1, <1>24 DEF Unanswered, Ends, Awaits
  <2> QED BY <1>4, <1>24, <2>1, WithoutCalm DEF Unanswered, Strike
<1>25. CASE Dismissed(k)  BY <1>1, <1>5, <1>25 DEF Dismissed, Ends, Awaits
<1>26. CASE DismissOne(k)
  <2>1. Awaits(l)' => Awaits(l)  BY <1>26 DEF DismissOne, waiter, Awaits
  <2> QED BY <1>4, <1>26, <2>1, WithoutCalm DEF DismissOne
<1> QED BY <1>6, <1>7, <1>8, <1>9, <1>10, <1>11, <1>12, <1>13, <1>14, <1>15, <1>16, <1>17, <1>18,
           <1>19, <1>21, <1>22, <1>23, <1>24, <1>25, <1>26 DEF Extract

LEMMA InboundWoken ==
    ASSUME TypeInv, NEW p \in Posts, Inbound(p), NEW l \in Keys, Woken(l)
    PROVE  Woken(l)'
<1>1. /\ prompt \in [Keys -> PromptType] /\ signal \in [Keys -> Nat] /\ PostShape(p)
      /\ post \in [Posts -> PostType]
      BY Kinds DEF TypeInv, TypeOK, Shapes
<1>2. UNCHANGED waiter
      BY DEF Inbound, Duplicate, FindNone, Park, Use, Submit, Refused, Release, Signal, DropCopies,
             Arrive, Find, Type
<1>3. Awaits(l)' <=> Awaits(l)  BY <1>2 DEF waiter, Awaits
<1>4. \A q \in Posts \ {p} : Signals(q, l)' <=> Signals(q, l)
  <2>1. \A q \in Posts \ {p} : post'[q] = post[q]
      BY <1>1 DEF Inbound, Duplicate, FindNone, Park, Use, Mark, Submit, Refused, Release,
             Signal, DropCopies, Arrive, Find, Type, Goes, Done
  <2> QED BY <2>1 DEF Signals
<1>5. CASE Submit(p)
  <2>1. post[p].sms \in Codes /\ post[p].key \in Keys  BY <1>1, <1>5 DEF Submit, PostShape
  <2>2. CASE l = post[p].key
    <3>1. Signals(p, l)'  BY <1>5, <2>1, <2>2, PostGoes DEF Submit, Signals
    <3> QED BY <3>1 DEF Woken
  <2>3. CASE l # post[p].key
    <3>1. Calm(l)  BY <1>1, <1>3, <1>5, <2>3 DEF Submit, Calm
    <3>2. ~Signals(p, l)  BY <1>5 DEF Submit, Signals
    <3> QED BY <1>4, <3>1, <3>2, CalmWoken
  <2> QED BY <2>2, <2>3
<1>6. CASE Signal(p)
  <2>1. post[p].sms \in Codes /\ post[p].key \in Keys  BY <1>1, <1>6 DEF Signal, PostShape
  <2>2. CASE l = post[p].key
    <3>1. signal'[l] > 0  BY <1>1, <1>6, <2>1, <2>2 DEF Signal
    <3> QED BY <3>1 DEF Woken
  <2>3. CASE l # post[p].key
    <3>1. Calm(l)  BY <1>1, <1>3, <1>6, <2>3 DEF Signal, Calm
    <3>2. ~Signals(p, l)  BY <2>3 DEF Signals
    <3> QED BY <1>4, <3>1, <3>2, CalmWoken
  <2> QED BY <2>2, <2>3
<1>7. CASE ~Submit(p) /\ ~Signal(p)
  <2>1. UNCHANGED store
        BY <1>7 DEF Inbound, Duplicate, FindNone, Park, Use, Refused, Release, DropCopies,
             Arrive, Find, Type
  <2>2. post[p].pc # "signalling"
        BY <1>7 DEF Inbound, Duplicate, FindNone, Park, Use, Refused, Release, DropCopies,
             Arrive, Find, Type
  <2>3. Calm(l)  BY <1>3, <2>1 DEF store, Calm
  <2> QED BY <1>4, <2>2, <2>3, CalmWoken DEF Signals
<1> QED BY <1>5, <1>6, <1>7

LEMMA OthersWoken ==
    ASSUME TypeInv,
           \/ \E x \in Askers : AskWrite(x) \/ \E k \in Keys : AskRead(x, k)
           \/ \E j \in Jobs : OfJob(j)
           \/ \E a \in Accounts : ParkedExpires(a)
           \/ \E s \in Sms : Send(s)
           \/ UNCHANGED vars,
           NEW l \in Keys, Woken(l)
    PROVE  Woken(l)'
<1>1. /\ prompt \in [Keys -> PromptType] /\ ask \in [Askers -> Keys \cup {None}]
      BY Kinds DEF TypeInv, TypeOK
<1>2. UNCHANGED <<post, stage>>
      BY DEF AskWrite, AskRead, OfJob, Revealed, TakeSwitch, DismissDrops, DismissFlags,
             DismissExpires, AskSwitch, Stop, ClearJob, ParkedExpires, Send, vars, poster, waiter
<1>3. (Awaits(l)' <=> Awaits(l)) /\ \A p \in Posts : Signals(p, l)' <=> Signals(p, l)
      BY <1>2 DEF Awaits, Signals
<1>4. ASSUME Calm(l) PROVE Woken(l)'  BY <1>3, <1>4, CalmWoken
<1>5. ASSUME NEW x \in Askers, AskWrite(x) PROVE Calm(l)
  <2>1. ask[x] \in Keys  BY <1>1, <1>5 DEF AskWrite
  <2>2. prompt'[l].code = prompt[l].code /\ UNCHANGED signal
        BY <1>1, <1>5, <2>1 DEF AskWrite, PromptType
  <2> QED BY <1>3, <2>2 DEF Calm
<1>6. ASSUME NEW j \in Jobs, DismissDrops(j) \/ ClearJob(j) PROVE Calm(l)
      BY <1>3, <1>6, WithoutCalm DEF DismissDrops, ClearJob
<1>7. ASSUME UNCHANGED store PROVE Calm(l)  BY <1>3, <1>7 DEF store, Calm
<1>8. ASSUME NEW j \in Jobs, OfJob(j), ~DismissDrops(j), ~ClearJob(j) PROVE Calm(l)
      BY <1>7, <1>8 DEF OfJob, Revealed, TakeSwitch, DismissFlags, DismissExpires, AskSwitch, Stop
<1>9. ASSUME \/ \E x \in Askers, k \in Keys : AskRead(x, k)
             \/ \E a \in Accounts : ParkedExpires(a)
             \/ \E s \in Sms : Send(s)
             \/ UNCHANGED vars
      PROVE  Calm(l)
      BY <1>7, <1>9 DEF AskRead, ParkedExpires, Send, vars, store
<1> QED BY <1>4, <1>5, <1>6, <1>8, <1>9

\* An extractor that waits on an answered prompt has its wake-up there or coming
\* (submit writes the code before it pushes the signal, contact_extractor.py waits
\* on the signal): no code is left unread until the timeout, however often a listing
\* meets a challenge and whatever an earlier round under its key still writes or
\* pushes (request() deletes the code with the signals, never the signals alone).
THEOREM NoLostWakeupHolds == Spec => []NoLostWakeup
<1> DEFINE Inv == TypeInv /\ \A k \in Keys : Woken(k)
<1>1. Init => Inv  BY TypeInit DEF Init, Woken, Awaits
<1>2. Inv /\ [Next]_vars => Inv'
      BY TypeNext, ExtractWoken, InboundWoken, OthersWoken DEF Next
<1>3. Inv => NoLostWakeup  BY DEF NoLostWakeup, Woken, Awaits, Signals
<1> QED BY <1>1, <1>2, <1>3, PTL DEF Spec

-----------------------------------------------------------------------------
(* The resend cap: what was counted for a prompt, what its extractor is     *)
(* about to count and the requests that read it never pass the cap and the  *)
(* requests there can be.                                                   *)

Asked(k) == {x \in Askers : ask[x] = k}
Flag(k) == IF prompt[k].resend \/ stage[k] = "resending" THEN 1 ELSE 0
Owed(k) == prompt[k].resends + Flag(k) + Cardinality(Asked(k))
Capped(k) == Owed(k) <= MaxResends + Cardinality(Askers)

LEMMA AskedSize ==
    ASSUME NEW k \in Keys
    PROVE  /\ IsFiniteSet(Asked(k)) /\ Cardinality(Asked(k)) \in Nat /\ Cardinality(Askers) \in Nat
           /\ Cardinality(Asked(k)) <= Cardinality(Askers)
<1>1. Asked(k) \subseteq Askers  BY DEF Asked
<1> QED BY <1>1, NamesAssumption, FS_Subset, FS_CardinalityType

\* Nothing is added to what is owed.
Eased(k) == /\ prompt'[k].resends <= prompt[k].resends
            /\ prompt'[k].resend => prompt[k].resend
            /\ stage'[k] = "resending" => stage[k] = "resending" \/ prompt[k].resend

LEMMA EasedCapped ==
    ASSUME TypeInv, TypeInv', NEW k \in Keys, Capped(k), Eased(k), UNCHANGED ask
    PROVE  Capped(k)'
<1>1. prompt[k].resends \in Nat /\ prompt'[k].resends \in Nat
      /\ prompt[k].resend \in BOOLEAN /\ prompt'[k].resend \in BOOLEAN
  <2>1. prompt[k] \in PromptType  BY Kinds
  <2>2. prompt'[k] \in PromptType  BY DEF TypeInv, TypeOK, PromptType
  <2> QED BY <2>1, <2>2 DEF PromptType
<1>2. Cardinality(Asked(k)') = Cardinality(Asked(k))  BY DEF Asked
<1>3. Flag(k)' <= Flag(k) /\ Flag(k)' \in Nat /\ Flag(k) \in Nat  BY DEF Flag, Eased
<1> HIDE DEF Flag
<1>4. Cardinality(Asked(k)) \in Nat /\ Cardinality(Askers) \in Nat /\ MaxResends \in Nat
      BY AskedSize, NumbersAssumption
<1> QED BY <1>1, <1>2, <1>3, <1>4 DEF Capped, Owed, Eased

LEMMA WithoutEased ==
    ASSUME TypeInv, NEW ks, Without(ks), NEW k \in Keys,
           stage'[k] = "resending" => stage[k] = "resending"
    PROVE  Eased(k)
<1>1. prompt[k] \in PromptType  BY Kinds
<1>2. CASE k \in ks  BY <1>1, <1>2 DEF Without, Eased, NoPrompt, PromptType
<1>3. CASE k \notin ks  BY <1>1, <1>3 DEF Without, Eased, PromptType
<1> QED BY <1>2, <1>3

LEMMA ExtractCapped ==
    ASSUME TypeInv, TypeInv', NEW k \in Keys, Visit(k) \/ Extract(k) \/ DismissOne(k),
           NEW l \in Keys, Capped(l)
    PROVE  Capped(l)'
<1>1. /\ prompt \in [Keys -> PromptType] /\ prompt[l].resends \in Nat /\ prompt[l].resend \in BOOLEAN
      /\ stage \in [Keys -> {"none", "clicked", "asking", "opened", "claiming",
                          "signalling", "waiting", "blocked", "popping", "resending",
                          "clicking", "over"}]
      BY Kinds DEF TypeInv, TypeOK, PromptType
<1>2. UNCHANGED ask
      BY DEF Visit, Click, Again, Close, Extract, Check, Skip, Open, ClaimNothing, Claim, ClaimWrite, ClaimSignal, Top,
             Slice, Wake, Pop, TakeResend, CountResend, ResendClick, AutoResend, Leave, Unanswered,
             Dismissed, DismissOne, poster
<1>3. ASSUME Eased(l) PROVE Capped(l)'  BY <1>2, <1>3, EasedCapped
<1>4. ASSUME UNCHANGED prompt, stage'[l] = "resending" => stage[l] = "resending" PROVE Capped(l)'
      BY <1>1, <1>3, <1>4 DEF Eased
<1>5. CASE \/ Visit(k) \/ Check(k) \/ Skip(k) \/ ClaimNothing(k) \/ Claim(k) \/ ClaimSignal(k)
           \/ Top(k) \/ Slice(k) \/ Wake(k) \/ Dismissed(k)
      BY <1>1, <1>4, <1>5 DEF Visit, Click, Again, Close, Check, Skip, ClaimNothing, Claim, ClaimSignal, Top, Slice, Wake,
         Dismissed, Ends, store
<1>6. CASE Open(k)
      BY <1>1, <1>3, <1>6 DEF Open, Fresh, NoPrompt, Eased
<1>7. CASE ClaimWrite(k)
  <2>1. prompt'[l].resends = prompt[l].resends /\ prompt'[l].resend = prompt[l].resend
    <3> DEFINE c == post[hand[k]].sms
    <3>1. prompt' = [prompt EXCEPT ![k].up = TRUE, ![k].code = c]  BY <1>7 DEF ClaimWrite
    <3> HIDE DEF c
    <3> QED BY <1>1, <3>1 DEF PromptType
  <2> QED BY <1>1, <1>3, <1>7, <2>1 DEF ClaimWrite, Eased
<1>8. CASE Pop(k)  BY <1>1, <1>3, <1>8 DEF Pop, Ends, NoPrompt, Eased
<1>9. CASE TakeResend(k)
      BY <1>1, <1>3, <1>9 DEF TakeResend, store, Eased
\* What was asked for becomes what was counted.
<1>10. CASE CountResend(k)
  <2>1. CASE l # k  BY <1>1, <1>3, <1>10, <2>1 DEF CountResend, Eased
  <2>2. CASE l = k
    <3>1. prompt'[k].resends = prompt[k].resends + 1 /\ prompt'[k].resend = FALSE
      <4>1. Count(k).resends = prompt[k].resends + 1 /\ Count(k).resend = FALSE
            BY <1>1 DEF Count, PromptType
      <4> QED BY <1>1, <1>10, <4>1 DEF CountResend
    <3>2. Flag(k) = 1 /\ Flag(k)' = 0  BY <1>1, <1>10, <3>1 DEF CountResend, Flag
    <3>3. Cardinality(Asked(k)') = Cardinality(Asked(k))  BY <1>2 DEF Asked
    <3>4. Cardinality(Asked(k)) \in Nat /\ Cardinality(Askers) \in Nat /\ MaxResends \in Nat
          BY AskedSize, NumbersAssumption
    <3> QED BY <1>1, <2>2, <3>1, <3>2, <3>3, <3>4 DEF Capped, Owed
  <2> QED BY <2>1, <2>2
<1>11. ASSUME Restarted(k)
       PROVE  prompt'[l].resends = prompt[l].resends /\ prompt'[l].resend = prompt[l].resend
  <2>1. /\ [prompt[k] EXCEPT !.ts = sent].resends = prompt[k].resends
        /\ [prompt[k] EXCEPT !.ts = sent].resend = prompt[k].resend
        BY <1>1 DEF PromptType
  <2> QED BY <1>1, <1>11, <2>1 DEF Restarted
<1>12. CASE ResendClick(k)
       BY <1>1, <1>3, <1>11, <1>12 DEF ResendClick, Eased
<1>13. CASE AutoResend(k)
       BY <1>1, <1>3, <1>11, <1>13 DEF AutoResend, Eased, waiter
<1>14. CASE Leave(k)
  <2>1. stage'[l] = "resending" => stage[l] = "resending"  BY <1>1, <1>14 DEF Leave, Ends
  <2> QED BY <1>3, <1>14, <2>1, WithoutEased DEF Leave
<1>15. CASE Unanswered(k)
  <2>1. stage'[l] = "resending" => stage[l] = "resending"  BY <1>1, <1>15 DEF Unanswered, Ends
  <2> QED BY <1>3, <1>15, <2>1, WithoutEased DEF Unanswered, Strike
<1>16. CASE DismissOne(k)
  <2>1. stage'[l] = "resending" => stage[l] = "resending"  BY <1>16 DEF DismissOne, waiter
  <2> QED BY <1>3, <1>16, <2>1, WithoutEased DEF DismissOne
<1> QED BY <1>5, <1>6, <1>7, <1>8, <1>9, <1>10, <1>12, <1>13, <1>14, <1>15, <1>16 DEF Extract

LEMMA InboundCapped ==
    ASSUME TypeInv, TypeInv', NEW p \in Posts, Inbound(p), NEW l \in Keys, Capped(l)
    PROVE  Capped(l)'
<1>1. /\ prompt \in [Keys -> PromptType] /\ prompt[l].resends \in Nat /\ prompt[l].resend \in BOOLEAN
      /\ PostShape(p)
      BY Kinds DEF TypeInv, Shapes, PromptType
<1>2. UNCHANGED <<waiter, ask>>
      BY DEF Inbound, Duplicate, FindNone, Park, Use, Submit, Refused, Release, Signal, DropCopies,
             Arrive, Find, Type
<1>3. prompt'[l].resends = prompt[l].resends /\ prompt'[l].resend = prompt[l].resend
  <2>1. CASE Submit(p)
    <3> DEFINE c == post[p].sms
               k == post[p].key
    <3>1. prompt' = [prompt EXCEPT ![k].code = c]  BY <2>1 DEF Submit
    <3> HIDE DEF c, k
    <3> QED BY <1>1, <3>1 DEF PromptType
  <2>2. CASE ~Submit(p)
        BY <2>2 DEF Inbound, Duplicate, FindNone, Park, Use, Refused, Release, Signal, DropCopies,
             Arrive, Find, Type, store
  <2> QED BY <2>1, <2>2
<1>4. Eased(l)  BY <1>1, <1>2, <1>3 DEF Eased, waiter
<1> QED BY <1>2, <1>4, EasedCapped

\* A request in flight becomes a raised flag; a request that reads the hash below
\* the cap finds room for every request there can be.
LEMMA AskCapped ==
    ASSUME TypeInv, TypeInv', NEW x \in Askers, NEW l \in Keys, Capped(l),
           AskWrite(x) \/ \E k \in Keys : AskRead(x, k)
    PROVE  Capped(l)'
<1>1. /\ prompt \in [Keys -> PromptType] /\ prompt[l].resends \in Nat /\ prompt[l].resend \in BOOLEAN
      /\ ask \in [Askers -> Keys \cup {None}] /\ MaxResends \in Nat
      BY Kinds, NumbersAssumption DEF TypeInv, TypeOK, PromptType
<1>2. UNCHANGED stage  BY DEF AskWrite, AskRead, waiter
<1>3. IsFiniteSet(Asked(l)) /\ Cardinality(Asked(l)) \in Nat /\ Cardinality(Askers) \in Nat
      BY AskedSize
<1>4. IsFiniteSet(Asked(l)') /\ Cardinality(Asked(l)') \in Nat
      /\ Cardinality(Asked(l)') <= Cardinality(Askers)
  <2>1. Asked(l)' \subseteq Askers  BY DEF Asked
  <2> QED BY <2>1, NamesAssumption, FS_Subset, FS_CardinalityType
<1>5. CASE AskWrite(x)
  <2>1. ask[x] \in Keys  BY <1>1, <1>5 DEF AskWrite
  <2>2. prompt'[l].resends = prompt[l].resends  BY <1>1, <1>5, <2>1 DEF AskWrite, PromptType
  <2>3. CASE ask[x] # l
    <3>1. prompt'[l].resend = prompt[l].resend  BY <1>1, <1>5, <2>1, <2>3 DEF AskWrite, PromptType
    <3>2. Asked(l)' = Asked(l)  BY <1>1, <1>5, <2>3, NamesAssumption DEF AskWrite, Asked
    <3> QED BY <1>2, <2>2, <3>1, <3>2 DEF Capped, Owed, Flag
  <2>4. CASE ask[x] = l
    <3>1. Asked(l)' = Asked(l) \ {x} /\ x \in Asked(l)
          BY <1>1, <1>5, <2>4, NamesAssumption DEF AskWrite, Asked
    <3>2. Cardinality(Asked(l)') = Cardinality(Asked(l)) - 1
          BY <1>3, <3>1, FS_RemoveElement
    <3>3. Flag(l)' <= 1 /\ Flag(l) >= 0 /\ Flag(l) \in Nat /\ Flag(l)' \in Nat  BY DEF Flag
    <3> HIDE DEF Flag
    <3> QED BY <1>1, <1>3, <1>4, <2>2, <3>2, <3>3 DEF Capped, Owed
  <2> QED BY <2>3, <2>4
<1>6. ASSUME NEW k \in Keys, AskRead(x, k) PROVE Capped(l)'
  <2>1. UNCHANGED prompt /\ ask' = [ask EXCEPT ![x] = k] /\ ask[x] = None
        BY <1>6 DEF AskRead, store
  <2>2. CASE l # k
    <3>1. Asked(l)' = Asked(l)  BY <1>1, <2>1, <2>2, NamesAssumption DEF Asked
    <3> QED BY <1>2, <2>1, <3>1 DEF Capped, Owed, Flag
  <2>3. CASE l = k
    <3>1. prompt'[l].resends < MaxResends  BY <1>6, <2>1, <2>3 DEF AskRead, MayAsk
    <3>2. Flag(l)' <= 1 /\ Flag(l)' \in Nat  BY DEF Flag
    <3> QED BY <1>1, <1>3, <1>4, <2>1, <3>1, <3>2 DEF Capped, Owed
  <2> QED BY <2>2, <2>3
<1> QED BY <1>5, <1>6

LEMMA OthersCapped ==
    ASSUME TypeInv, TypeInv',
           \/ \E j \in Jobs : OfJob(j)
           \/ \E a \in Accounts : ParkedExpires(a)
           \/ \E s \in Sms : Send(s)
           \/ UNCHANGED vars,
           NEW l \in Keys, Capped(l)
    PROVE  Capped(l)'
<1>1. prompt[l].resends \in Nat /\ prompt[l].resend \in BOOLEAN  BY Kinds DEF PromptType
<1>2. UNCHANGED <<ask, stage>>
      BY DEF OfJob, Revealed, TakeSwitch, DismissDrops, DismissFlags,
             DismissExpires, AskSwitch, Stop, ClearJob, ParkedExpires, Send, vars, poster, waiter
<1>3. Eased(l)
  <2>1. CASE UNCHANGED prompt  BY <1>1, <1>2, <2>1 DEF Eased
  <2>2. ASSUME NEW j \in Jobs, DismissDrops(j) \/ ClearJob(j) PROVE Eased(l)
        BY <1>2, <2>2, WithoutEased DEF DismissDrops, ClearJob
  <2>3. ASSUME NEW j \in Jobs, OfJob(j), ~DismissDrops(j), ~ClearJob(j) PROVE UNCHANGED prompt
        BY <2>3 DEF OfJob, Revealed, TakeSwitch, DismissFlags, DismissExpires, AskSwitch, Stop, store
  <2>4. ASSUME \/ \E a \in Accounts : ParkedExpires(a)
               \/ \E s \in Sms : Send(s)
               \/ UNCHANGED vars
        PROVE  UNCHANGED prompt
        BY <2>4 DEF ParkedExpires, Send, vars, store
  <2> QED BY <2>1, <2>2, <2>3, <2>4
<1> QED BY <1>2, <1>3, EasedCapped

\* The cap of resends is read in one round trip and raised in another (ask_resend,
\* take_resend): it is passed by the requests in flight, and by no more.
THEOREM ResendCapHolds == Spec => []ResendOverrun
<1> DEFINE Inv == TypeInv /\ \A k \in Keys : Capped(k)
<1>1. Init => Inv
  <2> SUFFICES ASSUME Init, NEW k \in Keys PROVE Capped(k)  BY TypeInit
  <2>1. Asked(k) = {}  BY NamesAssumption DEF Init, Asked
  <2>2. prompt[k].resends = 0 /\ Flag(k) = 0  BY DEF Init, NoPrompt, Flag
  <2>3. Cardinality(Askers) \in Nat /\ MaxResends \in Nat  BY AskedSize, NumbersAssumption
  <2> QED BY <2>1, <2>2, <2>3, FS_EmptySet DEF Capped, Owed
<1>2. Inv /\ [Next]_vars => Inv'
      BY TypeNext, ExtractCapped, InboundCapped, AskCapped, OthersCapped DEF Next
<1>3. Inv => ResendOverrun
  <2> SUFFICES ASSUME Inv, NEW k \in Keys
               PROVE  prompt[k].resends <= MaxResends + Cardinality(Askers)
      BY DEF ResendOverrun
  <2>1. prompt[k].resends \in Nat  BY Kinds DEF PromptType
  <2>2. Flag(k) \in Nat  BY DEF Flag
  <2>3. Cardinality(Asked(k)) \in Nat /\ Cardinality(Askers) \in Nat /\ MaxResends \in Nat
        BY AskedSize, NumbersAssumption
  <2> QED BY <2>1, <2>2, <2>3 DEF Capped, Owed
<1> QED BY <1>1, <1>2, <1>3, PTL DEF Spec
=============================================================================
