------------------------- MODULE ProfileJob_proofs -------------------------
(***************************************************************************)
(* Proofs about ProfileJob, for any ad groups, targets and policies, any   *)
(* number of attachments, attempts and jobs, whatever seller and faults do.*)
(***************************************************************************)
EXTENDS ProfileJob, TLAPS

-----------------------------------------------------------------------------
(* Type correctness.                                                       *)

\* A call is only made while there are attempts left, and targets are only
\* set to a bid that Amazon accepted for the ad group.
Working ==
    /\ pub \in Calls => tries >= 1
    /\ pub \in {"fetchTargets", "updateTargets"} => change.new \in Bids

\* The lookup is built from its beginning.
Fresh == prep \in {"attached", "policies", "adGroups"} => next = 1 /\ lookup = Nothing

\* Appending to a sequence keeps its type and its elements.
LEMMA AppendFacts ==
    ASSUME NEW S, NEW q \in Seq(S), NEW e \in S
    PROVE  /\ Append(q, e) \in Seq(S)
           /\ DOMAIN q = 1 .. Len(q) /\ Len(q) \in Nat
           /\ Len(Append(q, e)) = Len(q) + 1
           /\ DOMAIN Append(q, e) = 1 .. Len(q) + 1
           /\ \A i \in 1 .. Len(q) : Append(q, e)[i] = q[i]
           /\ Append(q, e)[Len(q) + 1] = e
OBVIOUS

\* What evaluating a policy makes of a bid is a number.
LEMMA NewBidType == \A b \in Bids, r \in Results : NewBid(b, r) \in Int
<1> SUFFICES ASSUME NEW b \in Bids, NEW r \in Results PROVE NewBid(b, r) \in Int
  OBVIOUS
<1>1. b \in Int /\ r.amount \in Int /\ r.operator \in {"=", "+", "-"}
  BY AmazonAssumption, JobAssumption
<1>2. (b * r.amount) \div 100 \in Int
  <2>1. b * r.amount \in Int
    BY <1>1
  <2> QED BY <2>1
<1> QED BY <1>1, <1>2 DEF NewBid

\* Types hold before the first job.
LEMMA InitType == Init => TypeOK /\ Fresh /\ Working
<1> SUFFICES ASSUME Init PROVE TypeOK /\ Fresh /\ Working
  OBVIOUS
<1>1. AmazonTypeOK
  BY DEF Init, AmazonInit, AmazonTypeOK
<1>2. PrepTypeOK /\ Fresh
  BY DEF Init, PrepInit, PrepTypeOK, Nothing, Fresh
<1>3. PublishTypeOK /\ Working
  BY PublishAssumption DEF Init, PublishInit, PublishTypeOK, Working, NoTargets, Calls, BidRecord
<1>4. HandlerTypeOK
  BY DEF Init, HandlerTypeOK
<1> QED BY <1>1, <1>2, <1>3, <1>4 DEF TypeOK

\* What a step leaves alone keeps its type.
LEMMA Untouched ==
    ASSUME TypeOK, Fresh, Working
    PROVE  /\ UNCHANGED amazon => AmazonTypeOK'
           /\ UNCHANGED preparation => PrepTypeOK' /\ Fresh'
           /\ UNCHANGED <<publishing, records>> => PublishTypeOK' /\ Working'
           /\ UNCHANGED handler => HandlerTypeOK'
<1>1. UNCHANGED amazon => AmazonTypeOK'
  BY DEF TypeOK, AmazonTypeOK, amazon
<1>2. UNCHANGED preparation => PrepTypeOK' /\ Fresh'
  BY DEF TypeOK, PrepTypeOK, Fresh, preparation, fetches
<1>3. UNCHANGED <<publishing, records>> => PublishTypeOK' /\ Working'
  BY DEF TypeOK, PublishTypeOK, Working, publishing, records
<1>4. UNCHANGED handler => HandlerTypeOK'
  BY DEF TypeOK, HandlerTypeOK, handler
<1> QED BY <1>1, <1>2, <1>3, <1>4

\* What the user service returns is a sequence.
LEMMA AttachmentsType == \A a \in Attachments : a \in Seq(Attachment)
<1> SUFFICES ASSUME NEW a \in Attachments PROVE a \in Seq(Attachment)
  OBVIOUS
<1>1. PICK n \in 0 .. MaxAttached : a \in [1 .. n -> Attachment]
  BY DEF Attachments
<1>2. n \in Nat
  BY PreparationAssumption
<1> QED BY <1>1, <1>2

\* Every step of the preparation keeps its types: it makes entries of what
\* was fetched.
LEMMA PrepStepType == TypeOK /\ Fresh /\ PrepStep => PrepTypeOK' /\ Fresh'
<1> SUFFICES ASSUME TypeOK, Fresh, PrepStep PROVE PrepTypeOK' /\ Fresh'
  OBVIOUS
<1> USE DEF TypeOK, PrepTypeOK, Fresh, fetches
<1>1. ASSUME NEW p \in {"attached", "policies", "adGroups"}, PrepFails(p) PROVE PrepTypeOK' /\ Fresh'
  BY <1>1 DEF PrepFails
<1>2. CASE FetchAttachedPolicies
  <2>1. attached' \in Seq(Attachment) /\ Len(attached') \in Nat
    BY <1>2, AttachmentsType DEF FetchAttachedPolicies
  <2>2. prep = "attached" /\ prep' \in {"done", "policies"}
        /\ UNCHANGED <<policies, fetched, next, lookup>>
    BY <1>2 DEF FetchAttachedPolicies
  <2> QED BY <2>1, <2>2
<1>3. CASE FetchPolicies
  <2>1. policies' \in SUBSET Policies
    BY <1>3 DEF FetchPolicies, PoliciesReturned
  <2> QED BY <1>3, <2>1 DEF FetchPolicies
<1>4. CASE FetchAdGroups
  <2>1. DOMAIN fetched' \in SUBSET AdGroups /\ \A g \in DOMAIN fetched' : fetched'[g] \in BidOrNone
    BY <1>4 DEF FetchAdGroups, AmazonTypeOK
  <2> QED BY <1>4, <2>1 DEF FetchAdGroups
<1>5. CASE BuildEntry
  <2>1. next \in 1 .. Len(attached) /\ Len(attached) \in Nat
    BY <1>5 DEF BuildEntry
  <2>2. attached[next] \in Attachment
    BY <2>1
  <2>3. DOMAIN lookup' \in SUBSET AdGroups /\ \A g \in DOMAIN lookup' : lookup'[g] \in Entry
    BY <1>5, <2>2 DEF BuildEntry, Attachment, Entry
  <2> QED BY <1>5, <2>1, <2>3 DEF BuildEntry
<1>6. CASE BuildDone
  BY <1>6 DEF BuildDone
<1> QED BY <1>1, <1>2, <1>3, <1>4, <1>5, <1>6 DEF PrepStep

\* A call that succeeds, fails or is made again leaves its control in order.
LEMMA ControlType ==
    ASSUME TypeOK, pub \in Calls, Working
    PROVE  /\ Again => /\ pub' \in {pub, "error"} /\ tries' \in 0 .. MaxAttempts
                       /\ (pub' \in Calls => tries' >= 1)
                       /\ UNCHANGED <<change, targets>>
           /\ \A step : GoTo(step) => /\ pub' = step /\ tries' = MaxAttempts
                                      /\ tries' \in 0 .. MaxAttempts /\ tries' >= 1
                                      /\ UNCHANGED <<change, targets>>
<1> USE PublishAssumption
<1>1. tries \in 0 .. MaxAttempts /\ tries >= 1
  BY DEF TypeOK, PublishTypeOK, Working
<1>2. \A step : GoTo(step) => /\ pub' = step /\ tries' = MaxAttempts
                             /\ tries' \in 0 .. MaxAttempts /\ tries' >= 1
                             /\ UNCHANGED <<change, targets>>
  BY DEF GoTo
<1>3. Again => /\ pub' \in {pub, "error"} /\ tries' \in 0 .. MaxAttempts
              /\ (pub' \in Calls => tries' >= 1)
              /\ UNCHANGED <<change, targets>>
  BY <1>1, <1>2 DEF Again, Calls
<1> QED BY <1>2, <1>3

\* Bids set at Amazon are bids.
LEMMA SetBidsType ==
    ASSUME TypeOK
    PROVE  /\ \A g \in AdGroups, b \in Bids : SetDefaultBid(g, b) => AmazonTypeOK'
           /\ \A S \in SUBSET Targets, b \in Bids : SetTargetBids(S, b) => AmazonTypeOK'
<1> USE DEF TypeOK, AmazonTypeOK, BidOrNone
<1>1. ASSUME NEW g \in AdGroups, NEW b \in Bids, SetDefaultBid(g, b) PROVE AmazonTypeOK'
  <2>1. PICK F \in SUBSET {t \in TargetsOf(g) : targetBid[t] # NoBid} :
          targetBid' = [t \in Targets |-> IF t \in F THEN b ELSE targetBid[t]]
    BY <1>1 DEF SetDefaultBid
  <2>2. targetBid' \in [Targets -> BidOrNone]
    BY <2>1
  <2> QED BY <1>1, <2>2 DEF SetDefaultBid
<1>2. ASSUME NEW S \in SUBSET Targets, NEW b \in Bids, SetTargetBids(S, b) PROVE AmazonTypeOK'
  BY <1>2 DEF SetTargetBids
<1> QED BY <1>1, <1>2

\* A record is one of its type.
LEMMA RecordType == TypeOK /\ Working /\ pub = "record" => Record \in BidRecord
<1> SUFFICES ASSUME TypeOK, Working, pub = "record" PROVE Record \in BidRecord
  OBVIOUS
<1>1. tries \in 1 .. MaxAttempts /\ change \in BidChange /\ job \in Nat
  BY DEF TypeOK, PublishTypeOK, Working, Calls
<1>2. MaxAttempts - tries \in 0 .. MaxAttempts - 1
  BY <1>1, PublishAssumption
<1> QED BY <1>1, <1>2 DEF Record, BidRecord, BidChange

\* Every step of publishing keeps its types, and those of Amazon.
LEMMA PublishStepType ==
    TypeOK /\ Working /\ PublishStep => AmazonTypeOK' /\ PublishTypeOK' /\ Working'
<1> SUFFICES ASSUME TypeOK, Working, PublishStep
             PROVE  AmazonTypeOK' /\ PublishTypeOK' /\ Working'
  OBVIOUS
<1>1. pub \in Calls
  BY DEF PublishStep, Calls, CallFails, FetchAdGroup, UpdateAdGroup, UpdateAdGroupUnanswered,
         UpdateAdGroupRefused, FetchTargets, UpdateTargets, UpdateTargetsUnanswered, CreateBid
<1>2. change \in BidChange /\ change.adGroup \in AdGroups
  BY <1>1 DEF TypeOK, PublishTypeOK, Calls, BidChange
<1> USE ControlType, <1>1, <1>2
<1>3. CASE CallFails
  <2>1. UNCHANGED <<amazon, records>> /\ Again
    BY <1>3 DEF CallFails
  <2> QED BY <2>1 DEF TypeOK, AmazonTypeOK, PublishTypeOK, Working, amazon, records, Calls
<1>4. CASE FetchAdGroup
  <2>1. /\ UNCHANGED <<amazon, records>> /\ (GoTo("updateAdGroup") \/ GoTo("error"))
    BY <1>4 DEF FetchAdGroup
  <2> QED BY <2>1 DEF TypeOK, AmazonTypeOK, PublishTypeOK, Working, amazon, records, Calls
<1>5. CASE UpdateAdGroup
  <2>1. PICK b \in Bids : /\ SetByService(b)
                         /\ \/ b = change.new /\ GoTo("fetchTargets")
                            \/ b # change.new /\ GoTo("error")
    BY <1>5 DEF UpdateAdGroup
  <2>2. AmazonTypeOK'
    BY <2>1, SetBidsType DEF SetByService
  <2> QED BY <2>1, <2>2 DEF SetByService, TypeOK, PublishTypeOK, Working, Calls
<1>6. CASE UpdateAdGroupUnanswered
  <2>1. pub = "updateAdGroup" /\ change.new \in Bids /\ SetByService(change.new) /\ Again
    BY <1>6 DEF UpdateAdGroupUnanswered
  <2>2. AmazonTypeOK'
    BY <2>1, SetBidsType DEF SetByService
  <2> QED BY <2>1, <2>2 DEF SetByService, TypeOK, PublishTypeOK, Working, Calls
<1>7. CASE UpdateAdGroupRefused
  <2>1. UNCHANGED <<amazon, records>> /\ GoTo("error")
    BY <1>7 DEF UpdateAdGroupRefused
  <2> QED BY <2>1 DEF TypeOK, AmazonTypeOK, PublishTypeOK, Working, amazon, records, Calls
<1>8. CASE FetchTargets
  <2>1. /\ pub = "fetchTargets" /\ pub' = "updateTargets" /\ tries' = MaxAttempts
        /\ UNCHANGED <<change, amazon, records>>
        /\ targets' = [t \in TargetsOf(change.adGroup) |-> targetBid[t]]
    BY <1>8 DEF FetchTargets
  <2>2. DOMAIN targets' \in SUBSET Targets /\ \A t \in DOMAIN targets' : targets'[t] \in BidOrNone
    BY <2>1 DEF TargetsOf, TypeOK, AmazonTypeOK
  <2> QED BY <2>1, <2>2, PublishAssumption
          DEF TypeOK, AmazonTypeOK, PublishTypeOK, Working, amazon, records, Calls
<1>9. CASE UpdateTargets \/ UpdateTargetsUnanswered
  <2>1. pub = "updateTargets" /\ change.new \in Bids /\ TargetBidUpdates \in SUBSET Targets
    BY <1>9 DEF UpdateTargets, UpdateTargetsUnanswered, Working, TargetBidUpdates,
                TypeOK, PublishTypeOK
  <2>2. PICK S \in SUBSET Targets, b \in Bids : SetTargetBids(S, b)
    BY <1>9, <2>1 DEF UpdateTargets, UpdateTargetsUnanswered
  <2>3. UNCHANGED records /\ (GoTo("record") \/ GoTo("error") \/ Again)
    BY <1>9 DEF UpdateTargets, UpdateTargetsUnanswered
  <2>4. AmazonTypeOK'
    BY <2>2, SetBidsType
  <2> QED BY <2>1, <2>3, <2>4 DEF TypeOK, PublishTypeOK, Working, records, Calls
<1>10. CASE CreateBid
  <2>1. pub = "record" /\ bidLog' = Append(bidLog, Record)
        /\ UNCHANGED <<amazon, job, touched, unchanged>> /\ (Again \/ GoTo("ok"))
    BY <1>10 DEF CreateBid
  <2>2. bidLog' \in Seq(BidRecord)
    BY <2>1, RecordType, AppendFacts DEF TypeOK, PublishTypeOK
  <2>3. unrecorded' \in SUBSET AdGroups
    BY <1>10 DEF CreateBid, TypeOK, PublishTypeOK
  <2> QED BY <2>1, <2>2, <2>3 DEF TypeOK, AmazonTypeOK, PublishTypeOK, Working, amazon, Calls
<1> QED BY <1>3, <1>4, <1>5, <1>6, <1>7, <1>8, <1>9, <1>10 DEF PublishStep

\* A change that is handed over to be published is a bid change.
LEMMA PublishChangeType ==
    \A c \in BidChange : TypeOK /\ PublishChange(c) => AmazonTypeOK' /\ PublishTypeOK' /\ Working'
<1> SUFFICES ASSUME NEW c \in BidChange, TypeOK, PublishChange(c)
             PROVE  AmazonTypeOK' /\ PublishTypeOK' /\ Working'
  OBVIOUS
<1>1. /\ change' = c /\ targets' = NoTargets /\ tries' = MaxAttempts
      /\ pub' \in {"record", "ok", "fetchAdGroup"}
      /\ unchanged' \in {unchanged, unchanged \union {c.adGroup}}
      /\ UNCHANGED <<amazon, bidLog, job, touched, unrecorded>>
  BY DEF PublishChange
<1>2. c.adGroup \in AdGroups
  BY DEF BidChange
<1>3. tries' \in 0 .. MaxAttempts /\ tries' >= 1
  BY <1>1, PublishAssumption
<1>4. DOMAIN targets' \in SUBSET Targets /\ \A t \in DOMAIN targets' : targets'[t] \in BidOrNone
  BY <1>1 DEF NoTargets
<1>5. AmazonTypeOK'
  BY <1>1 DEF TypeOK, AmazonTypeOK, amazon
<1> QED BY <1>1, <1>2, <1>3, <1>4, <1>5 DEF TypeOK, PublishTypeOK, Working, Calls

\* What is handed over is one.
LEMMA EvaluatedType ==
    ASSUME TypeOK, NEW g \in AdGroups, RowEvaluated(g)
    PROVE  \E c \in BidChange : /\ PublishChange(c)
                                /\ c.adGroup = g /\ c.live = lookup[g].live
<1>1. PICK r \in Results :
        PublishChange([adGroup |-> g, old |-> lookup[g].bid,
                       new |-> NewBid(lookup[g].bid, r), live |-> lookup[g].live])
  BY DEF RowEvaluated, Evaluations
<1>2. lookup[g] \in Entry /\ lookup[g].bid # NoBid
  BY DEF RowEvaluated, TypeOK, PrepTypeOK
<1>3. lookup[g].bid \in Bids /\ lookup[g].live \in BOOLEAN
  BY <1>2 DEF Entry, BidOrNone
<1>4. NewBid(lookup[g].bid, r) \in Int
  BY <1>3, NewBidType
<1> DEFINE c == [adGroup |-> g, old |-> lookup[g].bid,
                 new |-> NewBid(lookup[g].bid, r), live |-> lookup[g].live]
<1>5. c \in BidChange /\ c.adGroup = g /\ c.live = lookup[g].live
  BY <1>3, <1>4 DEF BidChange
<1> QED BY <1>1, <1>5

\* Forgetting a job leaves the types of an idle handler.
LEMMA ForgetType ==
    TypeOK /\ Forget => TypeOK' /\ Fresh' /\ Working'
<1> SUFFICES ASSUME TypeOK, Forget PROVE TypeOK' /\ Fresh' /\ Working'
  OBVIOUS
<1> USE DEF Forget
<1>1. AmazonTypeOK'
  BY DEF TypeOK, AmazonTypeOK, amazon
<1>2. PrepTypeOK' /\ Fresh'
  BY DEF PrepTypeOK, Fresh, Nothing
<1>3. PublishTypeOK' /\ Working'
  BY PublishAssumption DEF TypeOK, PublishTypeOK, Working, NoTargets, records, Calls
<1>4. HandlerTypeOK'
  BY DEF HandlerTypeOK
<1> QED BY <1>1, <1>2, <1>3, <1>4 DEF TypeOK

\* So every step of a job keeps all types,
LEMMA JobStepType ==
    TypeOK /\ Fresh /\ Working /\ JobStep => TypeOK' /\ Fresh' /\ Working'
<1> SUFFICES ASSUME TypeOK, Fresh, Working, JobStep PROVE TypeOK' /\ Fresh' /\ Working'
  OBVIOUS
<1> USE Untouched
<1>1. CASE Prepare
  BY <1>1, PrepStepType DEF Prepare, TypeOK
<1>2. CASE Join \/ JoinFails \/ RowsDone
  <2>1. UNCHANGED <<amazon, preparation, publishing, records>>
    BY <1>2 DEF Join, JoinFails, RowsDone
  <2>2. HandlerTypeOK'
    BY <1>2 DEF Join, JoinFails, RowsDone, TypeOK, HandlerTypeOK
  <2> QED BY <2>1, <2>2 DEF TypeOK
<1>3. ASSUME NEW g \in AdGroups, RowSkipped(g) \/ RowFails(g) PROVE TypeOK' /\ Fresh' /\ Working'
  <2>1. UNCHANGED <<amazon, preparation, publishing, records>>
    BY <1>3 DEF RowSkipped, RowFails
  <2>2. HandlerTypeOK'
    BY <1>3 DEF RowSkipped, RowFails, TypeOK, HandlerTypeOK
  <2> QED BY <2>1, <2>2 DEF TypeOK
<1>4. ASSUME NEW g \in AdGroups, RowEvaluated(g) PROVE TypeOK' /\ Fresh' /\ Working'
  <2>1. AmazonTypeOK' /\ PublishTypeOK' /\ Working'
    BY <1>4, EvaluatedType, PublishChangeType
  <2> QED BY <1>4, <2>1 DEF RowEvaluated, TypeOK
<1>5. CASE RowPublishing
  <2>1. AmazonTypeOK' /\ PublishTypeOK' /\ Working'
    BY <1>5, PublishStepType DEF RowPublishing
  <2> QED BY <1>5, <2>1 DEF RowPublishing, TypeOK
<1>6. CASE RowPublished
  <2>1. change.adGroup \in AdGroups
    BY <1>6 DEF RowPublished, TypeOK, PublishTypeOK, BidChange
  <2>2. HandlerTypeOK'
    BY <1>6, <2>1 DEF RowPublished, TypeOK, HandlerTypeOK
  <2>3. /\ pub' = "off" /\ change' = NoChange /\ targets' = NoTargets /\ tries' = 0
        /\ UNCHANGED records
    BY <1>6 DEF RowPublished
  <2>4. PublishTypeOK' /\ Working'
    BY <2>3, PublishAssumption
       DEF TypeOK, PublishTypeOK, Working, NoTargets, records, Calls
  <2> QED BY <1>6, <2>2, <2>4 DEF RowPublished, TypeOK
<1>7. CASE Finish
  BY <1>7, ForgetType DEF Finish
<1> QED BY <1>1, <1>2, <1>3, <1>4, <1>5, <1>6, <1>7 DEF JobStep

\* and so does every other step.
LEMMA NextType ==
    TypeOK /\ Fresh /\ Working /\ [Next]_vars => TypeOK' /\ Fresh' /\ Working'
<1> SUFFICES ASSUME TypeOK, Fresh, Working, [Next]_vars PROVE TypeOK' /\ Fresh' /\ Working'
  OBVIOUS
<1> USE Untouched
<1>1. CASE Start
  <2>1. AmazonTypeOK'
    BY <1>1 DEF Start
  <2>2. PrepTypeOK' /\ Fresh'
    BY <1>1 DEF Start, PrepStart, PrepTypeOK, Fresh, Nothing
  <2>3. PublishTypeOK' /\ Working'
    BY <1>1 DEF Start, TypeOK, PublishTypeOK, Working, publishing
  <2>4. HandlerTypeOK'
    BY <1>1 DEF Start, TypeOK, HandlerTypeOK
  <2> QED BY <2>1, <2>2, <2>3, <2>4 DEF TypeOK
<1>2. CASE JobStep
  BY <1>2, JobStepType
<1>3. CASE Crash
  BY <1>3, ForgetType DEF Crash
<1>4. CASE Seller
  <2>1. PICK g \in AdGroups : SellerChanges(g)
    BY <1>4 DEF Seller
  <2>2. AmazonTypeOK'
    BY <2>1 DEF SellerChanges, TypeOK, AmazonTypeOK, BidOrNone
  <2> QED BY <1>4, <2>2 DEF Seller, TypeOK
<1>5. CASE UNCHANGED vars
  BY <1>5 DEF vars, TypeOK
<1> QED BY <1>1, <1>2, <1>3, <1>4, <1>5 DEF Next

\* Type correctness, for any number of ad groups, attachments and attempts.
THEOREM TypeCorrect == Spec => []TypeOK
<1>1. Init => TypeOK /\ Fresh /\ Working
  BY InitType
<1>2. TypeOK /\ Fresh /\ Working /\ [Next]_vars => (TypeOK /\ Fresh /\ Working)'
  BY NextType
<1> QED BY <1>1, <1>2, PTL DEF Spec

-----------------------------------------------------------------------------
(* The lookup, and whom it lets change Amazon.                             *)

\* The lookup is right before its construction, and every iteration keeps it.
LEMMA PrepStepLookup ==
    TypeOK /\ Fresh /\ LookupIsFirst /\ PrepStep => LookupIsFirst'
<1> SUFFICES ASSUME TypeOK, Fresh, LookupIsFirst, PrepStep PROVE LookupIsFirst'
  OBVIOUS
<1>1. CASE prep' \notin {"build", "done"}
  BY <1>1 DEF LookupIsFirst
<1>2. CASE FetchAttachedPolicies \/ FetchAdGroups
  <2>1. next' = 1 /\ lookup' = Nothing
    BY <1>2 DEF FetchAttachedPolicies, FetchAdGroups, Fresh
  <2> QED BY <2>1 DEF LookupIsFirst, Nothing
<1>3. CASE BuildEntry
  <2> DEFINE a == attached[next]
  <2>1. /\ prep = "build" /\ next \in 1 .. Len(attached) /\ next' = next + 1
        /\ UNCHANGED <<prep, attached, policies, fetched>>
    BY <1>3 DEF BuildEntry, fetches, TypeOK, PrepTypeOK
  <2>2. /\ \A g \in DOMAIN lookup : \E i \in 1 .. next - 1 :
             /\ IsFirst(i, g)
             /\ g \in DOMAIN fetched /\ lookup[g].bid = fetched[g]
             /\ lookup[g].live = attached[i].live
             /\ lookup[g].policy =
                  IF attached[i].policy \in policies THEN attached[i].policy ELSE NoPolicy
        /\ \A i \in 1 .. next - 1 :
             attached[i].adGroup \in DOMAIN fetched => attached[i].adGroup \in DOMAIN lookup
    BY <2>1 DEF LookupIsFirst
  <2>3. \A i \in 1 .. next : \A g : IsFirst(i, g)' <=> IsFirst(i, g)
    BY <2>1 DEF IsFirst
  <2>4. /\ 1 .. next' - 1 = 1 .. next /\ next \in 1 .. next
        /\ \A i \in 1 .. next : i = next \/ i \in 1 .. next - 1
        /\ 1 .. next - 1 \subseteq 1 .. next
    BY <2>1
  <2>5. CASE a.adGroup \in DOMAIN fetched \ DOMAIN lookup
    <3>1. IsFirst(next, a.adGroup)
      BY <2>2, <2>5 DEF IsFirst
    <3>2. /\ DOMAIN lookup' = DOMAIN lookup \union {a.adGroup}
          /\ \A g \in DOMAIN lookup : lookup'[g] = lookup[g]
          /\ lookup'[a.adGroup] =
               [bid |-> fetched[a.adGroup], live |-> a.live,
                policy |-> IF a.policy \in policies THEN a.policy ELSE NoPolicy]
      BY <1>3, <2>5 DEF BuildEntry
    <3>3. \A g \in DOMAIN lookup' : \E i \in 1 .. next :
             /\ IsFirst(i, g)
             /\ g \in DOMAIN fetched /\ lookup'[g].bid = fetched[g]
             /\ lookup'[g].live = attached[i].live
             /\ lookup'[g].policy =
                  IF attached[i].policy \in policies THEN attached[i].policy ELSE NoPolicy
      <4> TAKE g \in DOMAIN lookup'
      <4>1. CASE g \in DOMAIN lookup
        BY <2>2, <2>4, <3>2, <4>1
      <4>2. CASE g = a.adGroup
        BY <2>4, <2>5, <3>1, <3>2, <4>2
      <4> QED BY <3>2, <4>1, <4>2
    <3>4. \A i \in 1 .. next :
             attached[i].adGroup \in DOMAIN fetched => attached[i].adGroup \in DOMAIN lookup'
      BY <2>2, <2>4, <3>2
    <3> QED BY <2>1, <2>3, <2>4, <3>3, <3>4 DEF LookupIsFirst
  <2>6. CASE a.adGroup \notin DOMAIN fetched \ DOMAIN lookup
    <3>1. lookup' = lookup
      BY <1>3, <2>6 DEF BuildEntry
    <3>2. \A i \in 1 .. next :
             attached[i].adGroup \in DOMAIN fetched => attached[i].adGroup \in DOMAIN lookup
      BY <2>2, <2>4, <2>6
    <3>3. \A g \in DOMAIN lookup : \E i \in 1 .. next :
             /\ IsFirst(i, g)
             /\ g \in DOMAIN fetched /\ lookup[g].bid = fetched[g]
             /\ lookup[g].live = attached[i].live
             /\ lookup[g].policy =
                  IF attached[i].policy \in policies THEN attached[i].policy ELSE NoPolicy
      BY <2>2, <2>4
    <3> QED BY <2>1, <2>3, <2>4, <3>1, <3>2, <3>3 DEF LookupIsFirst
  <2> QED BY <2>5, <2>6
<1>4. CASE BuildDone
  BY <1>4 DEF BuildDone, LookupIsFirst, IsFirst, fetches
<1> QED BY <1>1, <1>2, <1>3, <1>4 DEF PrepStep, PrepFails, FetchPolicies

\* What leaves the preparation alone leaves the lookup right.
LEMMA LookupUntouched == LookupIsFirst /\ UNCHANGED preparation => LookupIsFirst'
BY DEF LookupIsFirst, IsFirst, preparation, fetches

\* Only a new job, its preparation and its end touch the lookup.
LEMMA NextLookup ==
    TypeOK /\ Fresh /\ LookupIsFirst /\ [Next]_vars => LookupIsFirst'
<1> SUFFICES ASSUME TypeOK, Fresh, LookupIsFirst, [Next]_vars PROVE LookupIsFirst'
  OBVIOUS
<1>1. CASE Start \/ Forget
  <2>1. prep' \in {"attached", "off"}
    BY <1>1 DEF Start, PrepStart, Forget
  <2> QED BY <2>1 DEF LookupIsFirst
<1>2. CASE Prepare
  BY <1>2, PrepStepLookup DEF Prepare
<1>3. CASE UNCHANGED preparation
  BY <1>3, LookupUntouched
<1> QED BY <1>1, <1>2, <1>3
        DEF Next, JobStep, Join, JoinFails, RowSkipped, RowFails, RowEvaluated, RowPublishing,
            RowPublished, RowsDone, Finish, Crash, Seller, vars

\* The lookup is made of the first attachments, however many there are.
THEOREM LookupIsFirstHolds == Spec => []LookupIsFirst
<1>1. Init => TypeOK /\ Fresh /\ Working /\ LookupIsFirst
  BY InitType DEF Init, PrepInit, LookupIsFirst
<1>2. TypeOK /\ Fresh /\ Working /\ LookupIsFirst /\ [Next]_vars
        => (TypeOK /\ Fresh /\ Working /\ LookupIsFirst)'
  BY NextType, NextLookup
<1> QED BY <1>1, <1>2, PTL DEF Spec

\* Which way publishing goes: forwards or to its error, with one change.
LEMMA PublishMoves ==
    ASSUME PublishStep
    PROVE  /\ pub \in Calls /\ UNCHANGED <<change, job, unchanged>>
           /\ pub = "fetchAdGroup" => pub' \in {"fetchAdGroup", "updateAdGroup", "error"}
           /\ pub = "updateAdGroup" => pub' \in {"updateAdGroup", "fetchTargets", "error"}
           /\ pub = "fetchTargets" => pub' \in {"fetchTargets", "updateTargets", "error"}
           /\ pub = "updateTargets" => pub' \in {"updateTargets", "record", "error"}
           /\ pub = "record" => pub' \in {"record", "ok", "error"}
<1> USE DEF GoTo, Again, Calls
<1>1. CASE CallFails
  BY <1>1 DEF CallFails, records
<1>2. CASE FetchAdGroup
  BY <1>2 DEF FetchAdGroup, records
<1>3. CASE UpdateAdGroup
  BY <1>3 DEF UpdateAdGroup, SetByService
<1>4. CASE UpdateAdGroupUnanswered
  BY <1>4 DEF UpdateAdGroupUnanswered, SetByService
<1>5. CASE UpdateAdGroupRefused
  BY <1>5 DEF UpdateAdGroupRefused, records
<1>6. CASE FetchTargets
  BY <1>6 DEF FetchTargets, records
<1>7. CASE UpdateTargets
  BY <1>7 DEF UpdateTargets, records
<1>8. CASE UpdateTargetsUnanswered
  BY <1>8 DEF UpdateTargetsUnanswered, records
<1>9. CASE CreateBid
  BY <1>9 DEF CreateBid
<1> QED BY <1>1, <1>2, <1>3, <1>4, <1>5, <1>6, <1>7, <1>8, <1>9 DEF PublishStep

\* What it leaves behind: a default bid that has no record yet, a record, or
\* neither of them.
LEMMA PublishLeaves ==
    ASSUME PublishStep
    PROVE  \/ UNCHANGED <<touched, unrecorded, bidLog>>
           \/ /\ pub = "updateAdGroup" /\ UNCHANGED bidLog
              /\ touched' = touched \union {change.adGroup}
              /\ unrecorded' = unrecorded \union {change.adGroup}
           \/ /\ pub = "record" /\ UNCHANGED <<touched, amazon>>
              /\ bidLog' = Append(bidLog, Record)
              /\ unrecorded' = IF change.live THEN unrecorded \ {change.adGroup} ELSE unrecorded
<1>1. CASE UpdateAdGroup \/ UpdateAdGroupUnanswered
  BY <1>1 DEF UpdateAdGroup, UpdateAdGroupUnanswered, SetByService
<1>2. CASE CreateBid
  BY <1>2 DEF CreateBid
<1>3. CASE ~(UpdateAdGroup \/ UpdateAdGroupUnanswered) /\ ~CreateBid
  BY <1>3 DEF PublishStep, CallFails, FetchAdGroup, UpdateAdGroupRefused, FetchTargets,
              UpdateTargets, UpdateTargetsUnanswered, records
<1> QED BY <1>1, <1>2, <1>3

\* Where the parts of a job are: publishing is at a row not yet dealt with,
\* for the entry of its ad group, and nothing happened to Amazon before.
Phases ==
    /\ at = "rows" => prep = "done"
    /\ at \in {"idle", "prepare"} => done = {}
    /\ at = "prepare" => touched = {} /\ state = "PENDING"
    /\ pub # "off" =>
         /\ at = "rows"
         /\ change.adGroup \in (report \ done) \intersect DOMAIN lookup
         /\ change.live = lookup[change.adGroup].live

\* Amazon is called about entries that are live only.
LiveOnly ==
    /\ pub \in Calls \ {"record"} => change.live
    /\ at \in {"rows", "ended"} =>
         \A g \in touched : prep = "done" /\ g \in DOMAIN lookup /\ lookup[g].live

\* Every step keeps the phases,
LEMMA NextPhases ==
    TypeOK /\ Phases /\ [Next]_vars => Phases'
<1> SUFFICES ASSUME TypeOK, Phases, [Next]_vars PROVE Phases'
  OBVIOUS
<1> USE DEF Phases
<1>1. CASE Start
  BY <1>1 DEF Start, publishing
<1>2. CASE Prepare
  BY <1>2 DEF Prepare, handler, publishing, records
<1>3. CASE Join \/ JoinFails \/ RowsDone
  BY <1>3 DEF Join, JoinFails, RowsDone, preparation, publishing, records, fetches
<1>4. ASSUME NEW g \in AdGroups, RowSkipped(g) \/ RowFails(g) PROVE Phases'
  BY <1>4 DEF RowSkipped, RowFails, AtRow, preparation, publishing, records, fetches
<1>5. ASSUME NEW g \in AdGroups, RowEvaluated(g) PROVE Phases'
  <2>1. PICK c \in BidChange : PublishChange(c) /\ c.adGroup = g /\ c.live = lookup[g].live
    BY <1>5, EvaluatedType
  <2>2. change' = c /\ UNCHANGED touched
    BY <2>1 DEF PublishChange
  <2> QED BY <1>5, <2>1, <2>2 DEF RowEvaluated, AtRow, preparation, handler, fetches
<1>6. CASE RowPublishing
  <2>1. PublishStep /\ at = "rows" /\ UNCHANGED <<preparation, handler>>
    BY <1>6 DEF RowPublishing
  <2>2. pub # "off" /\ UNCHANGED change
    BY <2>1, PublishMoves DEF Calls
  <2> QED BY <2>1, <2>2 DEF preparation, handler, fetches
<1>7. CASE RowPublished
  BY <1>7 DEF RowPublished, preparation, records, fetches
<1>8. CASE Forget
  BY <1>8 DEF Forget
<1>9. CASE Seller \/ UNCHANGED vars
  BY <1>9 DEF Seller, vars, preparation, publishing, records, handler, fetches
<1> QED BY <1>1, <1>2, <1>3, <1>4, <1>5, <1>6, <1>7, <1>8, <1>9
        DEF Next, JobStep, Finish, Crash

\* and the entries that Amazon is called about stay live.
LEMMA NextLiveOnly ==
    TypeOK /\ Phases /\ LiveOnly /\ [Next]_vars => LiveOnly'
<1> SUFFICES ASSUME TypeOK, Phases, LiveOnly, [Next]_vars PROVE LiveOnly'
  OBVIOUS
<1> USE DEF Phases, LiveOnly
<1>1. CASE Start \/ Forget
  <2>1. at' \in {"prepare", "idle"} /\ (pub' = "off" \/ UNCHANGED <<pub, change>>)
    BY <1>1 DEF Start, Forget, publishing
  <2> QED BY <2>1 DEF Calls
<1>2. CASE Prepare
  BY <1>2 DEF Prepare, handler, publishing, records
<1>3. CASE Join \/ JoinFails \/ RowsDone
  BY <1>3 DEF Join, JoinFails, RowsDone, preparation, publishing, records, fetches
<1>4. ASSUME NEW g \in AdGroups, RowSkipped(g) \/ RowFails(g) PROVE LiveOnly'
  BY <1>4 DEF RowSkipped, RowFails, AtRow, preparation, publishing, records, fetches
<1>5. ASSUME NEW g \in AdGroups, RowEvaluated(g) PROVE LiveOnly'
  <2>1. PICK c \in BidChange : PublishChange(c)
    BY <1>5, EvaluatedType
  <2>2. UNCHANGED touched /\ (pub' \in Calls \ {"record"} => change'.live)
    BY <2>1 DEF PublishChange, Calls
  <2> QED BY <1>5, <2>2 DEF RowEvaluated, preparation, handler, fetches
<1>6. CASE RowPublishing
  <2>1. PublishStep /\ at = "rows" /\ UNCHANGED <<preparation, handler>>
    BY <1>6 DEF RowPublishing
  <2>2. pub' \in Calls \ {"record"} => pub \in Calls \ {"record"}
    BY <2>1, PublishMoves DEF Calls
  <2>3. UNCHANGED change /\ pub \in Calls
    BY <2>1, PublishMoves
  <2>4. touched' = touched \/ (pub = "updateAdGroup" /\ touched' = touched \union {change.adGroup})
    BY <2>1, PublishLeaves
  <2>5. UNCHANGED <<prep, lookup, at>>
    BY <2>1 DEF preparation, handler
  <2> QED BY <2>1, <2>2, <2>3, <2>4, <2>5 DEF Calls
<1>7. CASE RowPublished
  BY <1>7 DEF RowPublished, preparation, records, fetches, Calls
<1>8. CASE Seller \/ UNCHANGED vars
  BY <1>8 DEF Seller, vars, preparation, publishing, records, handler, fetches
<1> QED BY <1>1, <1>2, <1>3, <1>4, <1>5, <1>6, <1>7, <1>8
        DEF Next, JobStep, Finish, Crash

\* The invariant the remaining proofs rest on.
Core == TypeOK /\ Fresh /\ Working /\ LookupIsFirst /\ Phases /\ LiveOnly

\* It holds before the first job and after every step.
LEMMA InitCore == Init => Core
<1> SUFFICES ASSUME Init PROVE Core
  OBVIOUS
<1>1. at = "idle" /\ done = {} /\ pub = "off" /\ prep = "off" /\ touched = {}
  BY DEF Init, PrepInit, PublishInit
<1> QED BY <1>1, InitType DEF Core, LookupIsFirst, Phases, LiveOnly, Calls

LEMMA NextCore == Core /\ [Next]_vars => Core'
BY NextType, NextLookup, NextPhases, NextLiveOnly DEF Core

\* Only live policies change bids at Amazon.
THEOREM OnlyLivePoliciesChangeBidsHolds == Spec => []OnlyLivePoliciesChangeBids
<1>1. Core => OnlyLivePoliciesChangeBids
  <2> SUFFICES ASSUME Core, NEW g \in touched, at # "idle"
               PROVE  \E i \in DOMAIN attached : IsFirst(i, g) /\ attached[i].live
    BY DEF OnlyLivePoliciesChangeBids
  <2>1. at \in {"rows", "ended"}
    BY DEF Core, Phases, TypeOK, HandlerTypeOK
  <2>2. prep = "done" /\ g \in DOMAIN lookup /\ lookup[g].live
    BY <2>1 DEF Core, LiveOnly
  <2>3. PICK i \in 1 .. next - 1 : IsFirst(i, g) /\ lookup[g].live = attached[i].live
    BY <2>2 DEF Core, LookupIsFirst
  <2>4. i \in DOMAIN attached
    <3>1. attached \in Seq(Attachment) /\ next \in 1 .. Len(attached) + 1
      BY DEF Core, TypeOK, PrepTypeOK
    <3> QED BY <3>1
  <2> QED BY <2>2, <2>3, <2>4
<1>2. Core /\ [Next]_vars => Core'
  BY NextCore
<1> QED BY <1>1, <1>2, InitCore, PTL DEF Spec

-----------------------------------------------------------------------------
(* What is recorded, and what was done.                                    *)

\* How far a change has come at Amazon, if no seller interferes.
Progress ==
    /\ pub \in {"fetchTargets", "updateTargets", "record"} /\ change.live
         /\ change.adGroup \notin seller => bid[change.adGroup] = change.new
    /\ pub = "updateTargets" =>
         /\ DOMAIN targets = TargetsOf(change.adGroup)
         /\ change.adGroup \notin seller =>
              \A t \in TargetsOf(change.adGroup) : targetBid[t] \in {targets[t], change.new}
    /\ pub = "record" /\ change.live /\ change.adGroup \notin seller =>
         \A t \in TargetsOf(change.adGroup) : targetBid[t] \in {NoBid, change.new}

\* A new default bid is the ad group's, and undoes what the seller did there.
LEMMA SetByServiceFacts ==
    ASSUME TypeOK, change.adGroup \in AdGroups, NEW b \in Bids, SetByService(b)
    PROVE  /\ bid'[change.adGroup] = b
           /\ \A g \in AdGroups \ {change.adGroup} :
                bid'[g] = bid[g] /\ \A t \in TargetsOf(g) : targetBid'[t] = targetBid[t]
           /\ seller' = seller \ {change.adGroup}
BY DEF SetByService, SetDefaultBid, TypeOK, AmazonTypeOK, TargetsOf

\* What the seller does to one ad group is seen nowhere else.
LEMMA SellerFacts ==
    ASSUME TypeOK, Seller
    PROVE  \E g \in AdGroups :
             /\ seller' = seller \union {g}
             /\ \A h \in AdGroups \ {g} :
                  bid'[h] = bid[h] /\ \A t \in TargetsOf(h) : targetBid'[t] = targetBid[t]
<1>1. PICK g \in AdGroups : SellerChanges(g)
  BY DEF Seller
<1>2. ASSUME NEW h \in AdGroups \ {g}
      PROVE  bid'[h] = bid[h] /\ \A t \in TargetsOf(h) : targetBid'[t] = targetBid[t]
  BY <1>1 DEF SellerChanges, TypeOK, AmazonTypeOK, TargetsOf
<1> QED BY <1>1, <1>2 DEF SellerChanges

\* Each step of publishing brings the change as far as it says.
LEMMA PublishProgress == Core /\ Progress /\ PublishStep => Progress'
<1> SUFFICES ASSUME Core, Progress, PublishStep PROVE Progress'
  OBVIOUS
<1> USE DEF Progress
<1>1. UNCHANGED change /\ pub \in Calls
  BY PublishMoves
<1>2. change.adGroup \in AdGroups /\ change \in BidChange
  BY <1>1 DEF Core, TypeOK, PublishTypeOK, Calls, BidChange
<1>3. CASE CallFails
  BY <1>3, <1>1 DEF CallFails, Again, GoTo, amazon
<1>4. CASE FetchAdGroup \/ UpdateAdGroupRefused
  <2>1. pub' \in {"updateAdGroup", "error"}
    BY <1>4 DEF FetchAdGroup, UpdateAdGroupRefused, GoTo
  <2> QED BY <2>1
<1>5. CASE UpdateAdGroup
  <2>1. PICK b \in Bids : /\ SetByService(b)
                         /\ \/ b = change.new /\ GoTo("fetchTargets")
                            \/ b # change.new /\ GoTo("error")
    BY <1>5 DEF UpdateAdGroup
  <2>2. pub' = "error" \/ (pub' = "fetchTargets" /\ b = change.new)
    BY <2>1 DEF GoTo
  <2>3. bid'[change.adGroup] = b
    BY <1>2, <2>1, SetByServiceFacts DEF Core
  <2> QED BY <1>1, <2>2, <2>3
<1>6. CASE UpdateAdGroupUnanswered
  <2>1. pub' \in {"updateAdGroup", "error"}
    BY <1>6 DEF UpdateAdGroupUnanswered, Again, GoTo
  <2> QED BY <2>1
<1>7. CASE FetchTargets
  BY <1>1, <1>7 DEF FetchTargets, amazon
<1>8. CASE UpdateTargets
  <2>1. CASE pub' = "error"
    BY <2>1
  <2>2. CASE SetTargetBids(TargetBidUpdates, change.new) /\ GoTo("record")
    <3>1. /\ pub = "updateTargets" /\ UNCHANGED <<bid, seller>>
          /\ targetBid' = [t \in Targets |->
                             IF t \in TargetBidUpdates THEN change.new ELSE targetBid[t]]
          /\ pub' = "record"
      BY <1>8, <2>2 DEF UpdateTargets, SetTargetBids, GoTo
    <3>2. ASSUME change.adGroup \notin seller, NEW t \in TargetsOf(change.adGroup)
          PROVE  targetBid'[t] \in {NoBid, change.new}
      <4>1. t \in Targets /\ t \in DOMAIN targets /\ targetBid[t] \in {targets[t], change.new}
        BY <3>1, <3>2 DEF TargetsOf
      <4> QED BY <3>1, <4>1 DEF TargetBidUpdates
    <3> QED BY <1>1, <3>1, <3>2
  <2> QED BY <1>8, <2>1, <2>2 DEF UpdateTargets, GoTo
<1>9. CASE UpdateTargetsUnanswered
  <2>1. PICK S \in SUBSET TargetBidUpdates : SetTargetBids(S, change.new)
    BY <1>9 DEF UpdateTargetsUnanswered
  <2>2. /\ pub = "updateTargets" /\ UNCHANGED <<bid, seller>>
        /\ pub' \in {"updateTargets", "error"} /\ (pub' = "updateTargets" => UNCHANGED targets)
    BY <1>9, <2>1 DEF UpdateTargetsUnanswered, SetTargetBids, Again, GoTo
  <2>3. ASSUME NEW t \in TargetsOf(change.adGroup)
        PROVE  targetBid'[t] \in {targetBid[t], change.new}
    BY <2>1 DEF SetTargetBids, TargetsOf
  <2> QED BY <1>1, <2>2, <2>3
<1>10. CASE CreateBid
  <2>1. UNCHANGED amazon /\ pub = "record" /\ pub' \in {"record", "ok", "error"}
    BY <1>10 DEF CreateBid, Again, GoTo
  <2> QED BY <1>1, <2>1 DEF amazon
<1> QED BY <1>3, <1>4, <1>5, <1>6, <1>7, <1>8, <1>9, <1>10 DEF PublishStep

\* Every other step leaves it there, unless it is the seller's.
LEMMA NextProgress == Core /\ Progress /\ [Next]_vars => Progress'
<1> SUFFICES ASSUME Core, Progress, [Next]_vars PROVE Progress'
  OBVIOUS
<1> USE DEF Progress
<1>1. CASE UNCHANGED <<amazon, publishing>>
  BY <1>1 DEF amazon, publishing
<1>2. CASE pub' \in {"off", "ok", "fetchAdGroup"}
  BY <1>2
<1>3. ASSUME NEW g \in AdGroups, RowEvaluated(g) PROVE Progress'
  <2>1. PICK c \in BidChange : PublishChange(c)
    BY <1>3, EvaluatedType DEF Core
  <2>2. pub' \in {"ok", "fetchAdGroup"} \/ (pub' = "record" /\ ~change'.live)
    BY <2>1 DEF PublishChange
  <2> QED BY <2>2
<1>4. CASE RowPublishing
  BY <1>4, PublishProgress DEF RowPublishing
<1>5. CASE Seller
  <2>1. PICK g \in AdGroups :
          /\ seller' = seller \union {g}
          /\ \A h \in AdGroups \ {g} :
               bid'[h] = bid[h] /\ \A t \in TargetsOf(h) : targetBid'[t] = targetBid[t]
    BY <1>5, SellerFacts DEF Core
  <2>2. UNCHANGED publishing
    BY <1>5 DEF Seller
  <2>3. pub # "off" => change.adGroup \in AdGroups
    BY DEF Core, TypeOK, PublishTypeOK, BidChange
  <2> QED BY <2>1, <2>2, <2>3 DEF publishing
<1> QED BY <1>1, <1>2, <1>3, <1>4, <1>5
        DEF Next, JobStep, Start, Prepare, Join, JoinFails, RowSkipped, RowFails,
            RowPublished, RowsDone, Finish, Crash, Forget, vars

\* A live change is recorded after it was made in full.
THEOREM RecordedIsDoneHolds == Spec => []RecordedIsDone
<1>1. Init => Core /\ Progress
  BY InitCore DEF Init, PublishInit, Progress
<1>2. Core /\ Progress /\ [Next]_vars => (Core /\ Progress)'
  BY NextCore, NextProgress
<1>3. Core /\ Progress => RecordedIsDone
  BY DEF Progress, RecordedIsDone, Aligned
<1> QED BY <1>1, <1>2, <1>3, PTL DEF Spec

\* What was set at Amazon is on the list of what lacks a record until it has one.
Unfinished == pub \in {"fetchTargets", "updateTargets"} => change.adGroup \in unrecorded

LEMMA NextUnfinished == Core /\ Unfinished /\ [Next]_vars => Unfinished'
<1> SUFFICES ASSUME Core, Unfinished, [Next]_vars PROVE Unfinished'
  OBVIOUS
<1> USE DEF Unfinished
<1>1. CASE UNCHANGED <<pub, change, unrecorded>>
  BY <1>1
<1>2. CASE pub' \notin {"fetchTargets", "updateTargets"}
  BY <1>2
<1>3. ASSUME NEW g \in AdGroups, RowEvaluated(g) PROVE Unfinished'
  <2>1. PICK c \in BidChange : PublishChange(c)
    BY <1>3, EvaluatedType DEF Core
  <2>2. pub' \in {"ok", "fetchAdGroup", "record"}
    BY <2>1 DEF PublishChange
  <2> QED BY <2>2
<1>4. CASE RowPublishing
  <2>1. PublishStep /\ UNCHANGED change
    BY <1>4, PublishMoves DEF RowPublishing
  <2>2. CASE UpdateAdGroup \/ UpdateAdGroupUnanswered
    BY <2>1, <2>2 DEF UpdateAdGroup, UpdateAdGroupUnanswered, SetByService
  <2>3. CASE FetchTargets \/ UpdateTargets \/ UpdateTargetsUnanswered
    BY <2>1, <2>3 DEF FetchTargets, UpdateTargets, UpdateTargetsUnanswered, records
  <2>4. CASE CallFails
    BY <2>1, <2>4 DEF CallFails, Again, GoTo, records
  <2>5. CASE FetchAdGroup \/ UpdateAdGroupRefused \/ CreateBid
    BY <2>5 DEF FetchAdGroup, UpdateAdGroupRefused, CreateBid, Again, GoTo
  <2> QED BY <2>1, <2>2, <2>3, <2>4, <2>5 DEF PublishStep
<1> QED BY <1>1, <1>2, <1>3, <1>4
        DEF Next, JobStep, Start, Prepare, Join, JoinFails, RowSkipped, RowFails,
            RowPublished, RowsDone, Finish, Crash, Forget, Seller, vars, publishing, records

\* Every step that sets a target apart from its ad group is the seller's, or
\* one of a change that has no record yet.
LEMMA NextAligned ==
    Core /\ Progress /\ Unfinished /\ OnlyUnfinishedMisaligns /\ [Next]_vars
        => OnlyUnfinishedMisaligns'
<1> SUFFICES ASSUME Core, Progress, Unfinished, OnlyUnfinishedMisaligns, [Next]_vars,
                    NEW g \in AdGroups, g \notin seller', g \notin unrecorded'
             PROVE  Aligned(g)'
  BY DEF OnlyUnfinishedMisaligns
<1>1. Aligned(g) \/ g \in seller \/ g \in unrecorded
  BY DEF OnlyUnfinishedMisaligns
<1>2. CASE UNCHANGED <<bid, targetBid, seller, unrecorded>>
  BY <1>1, <1>2 DEF Aligned
<1>3. CASE Seller
  <2>1. PICK h \in AdGroups :
          /\ seller' = seller \union {h}
          /\ \A k \in AdGroups \ {h} :
               bid'[k] = bid[k] /\ \A t \in TargetsOf(k) : targetBid'[t] = targetBid[t]
    BY <1>3, SellerFacts DEF Core
  <2>2. UNCHANGED unrecorded
    BY <1>3 DEF Seller, records
  <2> QED BY <1>1, <2>1, <2>2 DEF Aligned
<1>4. CASE UpdateAdGroup \/ UpdateAdGroupUnanswered
  <2>1. PICK b \in Bids : SetByService(b)
    BY <1>4 DEF UpdateAdGroup, UpdateAdGroupUnanswered
  <2>2. change.adGroup \in AdGroups
    BY <1>4 DEF UpdateAdGroup, UpdateAdGroupUnanswered, Core, TypeOK, PublishTypeOK, BidChange
  <2>3. unrecorded' = unrecorded \union {change.adGroup}
    BY <2>1 DEF SetByService
  <2>4. /\ bid'[g] = bid[g] /\ \A t \in TargetsOf(g) : targetBid'[t] = targetBid[t]
        /\ seller' = seller \ {change.adGroup}
    BY <2>1, <2>2, <2>3, SetByServiceFacts DEF Core
  <2> QED BY <1>1, <2>3, <2>4 DEF Aligned
<1>5. CASE UpdateTargets \/ UpdateTargetsUnanswered
  <2>1. PICK S \in SUBSET TargetBidUpdates, b \in Bids \union {change.new} : SetTargetBids(S, b)
    BY <1>5 DEF UpdateTargets, UpdateTargetsUnanswered
  <2>2. /\ UNCHANGED <<bid, seller, unrecorded>>
        /\ DOMAIN targets = TargetsOf(change.adGroup) /\ change.adGroup \in unrecorded
    BY <1>5, <2>1
       DEF UpdateTargets, UpdateTargetsUnanswered, SetTargetBids, records, Progress, Unfinished
  <2>3. g # change.adGroup
    BY <2>2
  <2>4. \A t \in TargetsOf(g) : targetBid'[t] = targetBid[t]
    BY <2>1, <2>2, <2>3 DEF SetTargetBids, TargetBidUpdates, TargetsOf
  <2> QED BY <1>1, <2>2, <2>4 DEF Aligned
<1>6. CASE CreateBid
  <2>1. /\ pub = "record" /\ UNCHANGED <<bid, targetBid, seller>>
        /\ unrecorded' = IF change.live THEN unrecorded \ {change.adGroup} ELSE unrecorded
    BY <1>6 DEF CreateBid, amazon
  <2>2. change.live /\ change.adGroup = g => Aligned(g)
    BY <2>1 DEF Progress, Aligned
  <2> QED BY <1>1, <2>1, <2>2 DEF Aligned
<1>7. CASE PublishStep /\ ~(\/ UpdateAdGroup \/ UpdateAdGroupUnanswered \/ UpdateTargets
                          \/ UpdateTargetsUnanswered \/ CreateBid)
  BY <1>2, <1>7 DEF PublishStep, CallFails, FetchAdGroup, UpdateAdGroupRefused, FetchTargets,
                    amazon, records
<1>8. ASSUME NEW h \in AdGroups, RowEvaluated(h)
      PROVE  UNCHANGED <<bid, targetBid, seller, unrecorded>>
  <2>1. PICK c : PublishChange(c)
    BY <1>8 DEF RowEvaluated
  <2> QED BY <2>1 DEF PublishChange, amazon
<1> QED BY <1>2, <1>3, <1>4, <1>5, <1>6, <1>7, <1>8
        DEF Next, JobStep, Start, Prepare, Join, JoinFails, RowSkipped, RowFails, RowPublishing,
            RowPublished, RowsDone, Finish, Crash, Forget, vars, amazon, records

\* Targets that differ from their ad group are the seller's doing, or that of
\* a change without a record.
THEOREM OnlyUnfinishedMisalignsHolds == Spec => []OnlyUnfinishedMisaligns
<1>1. Init => Core /\ Progress /\ Unfinished /\ OnlyUnfinishedMisaligns
  <2>1. Init => Progress /\ Unfinished
    BY DEF Init, PublishInit, Progress, Unfinished
  <2>2. Init => OnlyUnfinishedMisaligns
    BY DEF Init, AmazonInit, OnlyUnfinishedMisaligns
  <2> QED BY <2>1, <2>2, InitCore
<1>2. Core /\ Progress /\ Unfinished /\ OnlyUnfinishedMisaligns /\ [Next]_vars
        => (Core /\ Progress /\ Unfinished /\ OnlyUnfinishedMisaligns)'
  BY NextCore, NextProgress, NextUnfinished, NextAligned
<1> QED BY <1>1, <1>2, PTL DEF Spec

\* Every step keeps the records an account of the bids.
LEMMA NextLog == Core /\ Progress /\ LogFollowsBids /\ [Next]_vars => LogFollowsBids'
<1> SUFFICES ASSUME Core, Progress, LogFollowsBids, [Next]_vars PROVE LogFollowsBids'
  OBVIOUS
<1> DEFINE LastOf(log, i) ==
             \A j \in i + 1 .. Len(log) : log[j].adGroup = log[i].adGroup => ~log[j].live
<1>1. /\ bidLog \in Seq(BidRecord) /\ Len(bidLog) \in Nat /\ DOMAIN bidLog = 1 .. Len(bidLog)
      /\ \A i \in DOMAIN bidLog : bidLog[i].adGroup \in AdGroups
  <2>1. bidLog \in Seq(BidRecord)
    BY DEF Core, TypeOK, PublishTypeOK
  <2>2. Len(bidLog) \in Nat /\ DOMAIN bidLog = 1 .. Len(bidLog)
        /\ \A i \in DOMAIN bidLog : bidLog[i] \in BidRecord
    BY <2>1
  <2> QED BY <2>1, <2>2 DEF BidRecord
<1>2. \A i \in DOMAIN bidLog :
        bidLog[i].live /\ LastOf(bidLog, i) /\ bidLog[i].adGroup \notin seller \union unrecorded
          => bid[bidLog[i].adGroup] = bidLog[i].new
  BY DEF LogFollowsBids
<1>3. SUFFICES \A i \in DOMAIN bidLog' :
        bidLog'[i].live /\ LastOf(bidLog', i) /\ bidLog'[i].adGroup \notin seller' \union unrecorded'
          => bid'[bidLog'[i].adGroup] = bidLog'[i].new
  BY DEF LogFollowsBids
<1>4. CASE UNCHANGED <<bidLog, bid, seller, unrecorded>>
  BY <1>2, <1>4
<1>5. CASE Seller
  <2>1. PICK g \in AdGroups :
          /\ seller' = seller \union {g}
          /\ \A h \in AdGroups \ {g} : bid'[h] = bid[h]
    BY <1>5, SellerFacts DEF Core
  <2>2. UNCHANGED <<bidLog, unrecorded>>
    BY <1>5 DEF Seller, records
  <2> QED BY <1>1, <1>2, <2>1, <2>2
<1>6. CASE UpdateAdGroup \/ UpdateAdGroupUnanswered
  <2>1. PICK b \in Bids : SetByService(b)
    BY <1>6 DEF UpdateAdGroup, UpdateAdGroupUnanswered
  <2>2. change.adGroup \in AdGroups
    BY <1>6 DEF UpdateAdGroup, UpdateAdGroupUnanswered, Core, TypeOK, PublishTypeOK, BidChange
  <2>3. /\ \A h \in AdGroups \ {change.adGroup} : bid'[h] = bid[h]
        /\ seller' = seller \ {change.adGroup}
    BY <2>1, <2>2, SetByServiceFacts DEF Core
  <2>4. UNCHANGED bidLog /\ unrecorded' = unrecorded \union {change.adGroup}
    BY <2>1 DEF SetByService
  <2> QED BY <1>1, <1>2, <2>3, <2>4
<1>7. CASE CreateBid
  <2>1. /\ pub = "record" /\ bidLog' = Append(bidLog, Record) /\ UNCHANGED <<bid, seller>>
        /\ unrecorded' = IF change.live THEN unrecorded \ {change.adGroup} ELSE unrecorded
    BY <1>7 DEF CreateBid, amazon
  <2>2. Record \in BidRecord /\ Record.adGroup = change.adGroup
        /\ Record.live = change.live /\ Record.new = change.new
    BY <2>1, RecordType DEF Core, Record
  <2>3. /\ DOMAIN bidLog' = 1 .. Len(bidLog) + 1 /\ Len(bidLog') = Len(bidLog) + 1
        /\ \A i \in 1 .. Len(bidLog) : bidLog'[i] = bidLog[i]
        /\ bidLog'[Len(bidLog) + 1] = Record
    BY <1>1, <2>1, <2>2, AppendFacts
  <2> SUFFICES ASSUME NEW i \in DOMAIN bidLog', bidLog'[i].live, LastOf(bidLog', i),
                      bidLog'[i].adGroup \notin seller' \union unrecorded'
               PROVE  bid'[bidLog'[i].adGroup] = bidLog'[i].new
    OBVIOUS
  <2>4. CASE i = Len(bidLog) + 1
    BY <2>1, <2>2, <2>3, <2>4 DEF Progress
  <2>5. CASE i \in 1 .. Len(bidLog)
    <3>1. bidLog[i] = bidLog'[i] /\ LastOf(bidLog, i)
      BY <1>1, <2>3, <2>5
    <3>2. Len(bidLog) + 1 \in i + 1 .. Len(bidLog')
      BY <1>1, <2>3, <2>5
    <3>3. change.adGroup = bidLog[i].adGroup => ~change.live
      BY <2>2, <2>3, <3>1, <3>2
    <3> QED BY <1>1, <1>2, <2>1, <2>5, <3>1, <3>3
  <2> QED BY <1>1, <2>3, <2>4, <2>5
<1>8. CASE PublishStep /\ ~(UpdateAdGroup \/ UpdateAdGroupUnanswered \/ CreateBid)
  BY <1>4, <1>8 DEF PublishStep, CallFails, FetchAdGroup, UpdateAdGroupRefused, FetchTargets,
                    UpdateTargets, UpdateTargetsUnanswered, SetTargetBids, amazon, records
<1>9. ASSUME NEW g \in AdGroups, RowEvaluated(g) PROVE UNCHANGED <<bidLog, bid, seller, unrecorded>>
  BY <1>9 DEF RowEvaluated, PublishChange, amazon
<1> QED BY <1>4, <1>5, <1>6, <1>7, <1>8, <1>9
        DEF Next, JobStep, Start, Prepare, Join, JoinFails, RowSkipped, RowFails, RowPublishing,
            RowPublished, RowsDone, Finish, Crash, Forget, vars, records, amazon

\* The records are an account of the bids at Amazon.
THEOREM LogFollowsBidsHolds == Spec => []LogFollowsBids
<1>1. Init => Core /\ Progress /\ LogFollowsBids
  BY InitCore DEF Init, PublishInit, Progress, LogFollowsBids
<1>2. Core /\ Progress /\ LogFollowsBids /\ [Next]_vars => (Core /\ Progress /\ LogFollowsBids)'
  BY NextCore, NextProgress, NextLog
<1> QED BY <1>1, <1>2, PTL DEF Spec

\* The records of the current job: of rows dealt with, or of the change that
\* is being published, by attempts before this one.
Numbered ==
    /\ \A i \in DOMAIN bidLog : bidLog[i].job <= job
    /\ at = "prepare" => \A i \in DOMAIN bidLog : bidLog[i].job # job
    /\ at = "rows" => \A i \in DOMAIN bidLog : bidLog[i].job = job =>
         \/ bidLog[i].adGroup \in done
         \/ pub \in {"record", "ok", "error"} /\ bidLog[i].adGroup = change.adGroup
    /\ pub = "record" => \A i \in DOMAIN bidLog :
         bidLog[i].job = job /\ bidLog[i].adGroup = change.adGroup =>
           /\ bidLog[i].attempt < MaxAttempts - tries
           /\ \A f \in {"old", "new", "live"} : bidLog[i][f] = change[f]

\* The log is a sequence of records.
LEMMA LogType ==
    ASSUME Core
    PROVE  /\ bidLog \in Seq(BidRecord) /\ Len(bidLog) \in Nat /\ job \in Nat
           /\ DOMAIN bidLog = 1 .. Len(bidLog)
           /\ \A i \in DOMAIN bidLog : /\ bidLog[i].adGroup \in AdGroups
                                       /\ bidLog[i].job \in Nat /\ bidLog[i].attempt \in Nat
<1>1. bidLog \in Seq(BidRecord) /\ job \in Nat
  BY DEF Core, TypeOK, PublishTypeOK
<1>2. Len(bidLog) \in Nat /\ DOMAIN bidLog = 1 .. Len(bidLog)
      /\ \A i \in DOMAIN bidLog : bidLog[i] \in BidRecord
  BY <1>1
<1>3. \A i \in DOMAIN bidLog : bidLog[i].attempt \in 0 .. MaxAttempts - 1
  BY <1>2 DEF BidRecord
<1>4. 0 .. MaxAttempts - 1 \subseteq Nat
  BY PublishAssumption
<1> QED BY <1>1, <1>2, <1>3, <1>4 DEF BidRecord

\* What CreateBid adds to the log.
LEMMA CreateBidFacts ==
    ASSUME Core, CreateBid
    PROVE  /\ pub = "record" /\ pub' \in {"record", "ok", "error"}
           /\ pub' = "record" => tries \in Nat /\ tries' = tries - 1
           /\ UNCHANGED <<change, job, touched, unchanged>>
           /\ DOMAIN bidLog' = DOMAIN bidLog \union {Len(bidLog) + 1}
           /\ \A i \in DOMAIN bidLog : bidLog'[i] = bidLog[i] /\ i < Len(bidLog) + 1
           /\ bidLog'[Len(bidLog) + 1] = Record
           /\ Record.job = job /\ Record.adGroup = change.adGroup
           /\ Record.attempt = MaxAttempts - tries
           /\ \A f \in {"old", "new", "live"} : Record[f] = change[f]
<1>1. pub = "record" /\ bidLog' = Append(bidLog, Record) /\ UNCHANGED <<job, touched, unchanged>>
  BY DEF CreateBid
<1>2. UNCHANGED change /\ pub' \in {"record", "ok", "error"}
      /\ (pub' = "record" => tries' = tries - 1)
  BY DEF CreateBid, Again, GoTo
<1>3. tries \in Nat
  <2>1. tries \in 0 .. MaxAttempts
    BY DEF Core, TypeOK, PublishTypeOK
  <2> QED BY <2>1, PublishAssumption
<1>4. /\ DOMAIN bidLog' = DOMAIN bidLog \union {Len(bidLog) + 1}
      /\ \A i \in DOMAIN bidLog : bidLog'[i] = bidLog[i] /\ i < Len(bidLog) + 1
      /\ bidLog'[Len(bidLog) + 1] = Record
  BY <1>1, LogType, RecordType, AppendFacts DEF Core
<1> QED BY <1>1, <1>2, <1>3, <1>4 DEF Record

\* Every step numbers the records in this way.
LEMMA NextNumbered == Core /\ Numbered /\ [Next]_vars => Numbered'
<1> SUFFICES ASSUME Core, Numbered, [Next]_vars PROVE Numbered'
  OBVIOUS
<1> USE LogType DEF Numbered
<1>1. CASE UNCHANGED <<bidLog, job, at, done, pub, change, tries>>
  BY <1>1
<1>2. CASE Start
  <2>1. job' = job + 1 /\ at' = "prepare" /\ UNCHANGED <<bidLog, pub>> /\ pub = "off"
    BY <1>2 DEF Start, publishing, Core, Phases
  <2> QED BY <2>1
<1>3. CASE Forget
  BY <1>3 DEF Forget, records
<1>4. CASE Join \/ JoinFails \/ RowsDone
  <2>1. /\ at = "prepare" \/ at' = "ended"
        /\ at' \in {"rows", "ended"} /\ UNCHANGED <<bidLog, job, pub>> /\ pub' = "off"
    BY <1>4 DEF Join, JoinFails, RowsDone, publishing, records, Core, Phases
  <2> QED BY <2>1
<1>5. ASSUME NEW g \in AdGroups, RowSkipped(g) \/ RowFails(g) PROVE Numbered'
  BY <1>5 DEF RowSkipped, RowFails, AtRow, publishing, records
<1>6. ASSUME NEW g \in AdGroups, RowEvaluated(g) PROVE Numbered'
  <2>1. PICK c \in BidChange : PublishChange(c) /\ c.adGroup = g
    BY <1>6, EvaluatedType DEF Core
  <2>2. at = "rows" /\ pub = "off" /\ g \notin done /\ UNCHANGED <<at, done>>
    BY <1>6 DEF RowEvaluated, AtRow, handler
  <2>3. UNCHANGED <<bidLog, job>> /\ change'.adGroup = g
    BY <2>1 DEF PublishChange
  <2> QED BY <2>2, <2>3
<1>7. CASE RowPublishing
  <2>1. PublishStep /\ at = "rows" /\ UNCHANGED <<at, done>>
    BY <1>7 DEF RowPublishing, handler
  <2>2. UNCHANGED <<change, job>> /\ pub # "off" /\ change.adGroup \notin done
    BY <2>1, PublishMoves DEF Calls, Core, Phases
  <2>3. CASE CreateBid
    <3>1. ASSUME NEW i \in DOMAIN bidLog', bidLog'[i].job = job
          PROVE  \/ i \in DOMAIN bidLog
                 \/ bidLog'[i] = Record
      BY <2>3, CreateBidFacts
    <3>2. \A i \in DOMAIN bidLog' : bidLog'[i].job <= job'
      BY <2>3, CreateBidFacts
    <3>3. \A i \in DOMAIN bidLog' : bidLog'[i].job = job' =>
            bidLog'[i].adGroup \in done \/ bidLog'[i].adGroup = change.adGroup
      BY <2>1, <2>3, CreateBidFacts
    <3>4. pub' = "record" => \A i \in DOMAIN bidLog' :
            bidLog'[i].job = job' /\ bidLog'[i].adGroup = change'.adGroup =>
              /\ bidLog'[i].attempt < MaxAttempts - tries'
              /\ \A f \in {"old", "new", "live"} : bidLog'[i][f] = change'[f]
      <4> SUFFICES ASSUME pub' = "record", NEW i \in DOMAIN bidLog',
                          bidLog'[i].job = job', bidLog'[i].adGroup = change'.adGroup
                   PROVE  /\ bidLog'[i].attempt < MaxAttempts - tries'
                          /\ \A f \in {"old", "new", "live"} : bidLog'[i][f] = change'[f]
        OBVIOUS
      <4>1. tries \in Nat /\ tries' = tries - 1 /\ MaxAttempts \in Nat
        BY <2>3, CreateBidFacts, PublishAssumption
      <4>2. CASE i \in DOMAIN bidLog
        <5>1. bidLog'[i] = bidLog[i] /\ bidLog[i].attempt \in Nat
          BY <2>3, <4>2, CreateBidFacts
        <5>2. /\ bidLog[i].attempt < MaxAttempts - tries
              /\ \A f \in {"old", "new", "live"} : bidLog[i][f] = change[f]
          BY <2>2, <2>3, <4>2, <5>1, CreateBidFacts
        <5> QED BY <2>2, <4>1, <5>1, <5>2
      <4>3. CASE bidLog'[i] = Record
        BY <2>2, <2>3, <4>1, <4>3, CreateBidFacts
      <4> QED BY <2>2, <3>1, <4>2, <4>3
    <3> QED BY <2>1, <2>3, <3>2, <3>3, <3>4, CreateBidFacts
  <2>4. CASE ~CreateBid
    <3>1. UNCHANGED bidLog
      BY <2>1, <2>4 DEF PublishStep, CallFails, FetchAdGroup, UpdateAdGroup,
           UpdateAdGroupUnanswered, UpdateAdGroupRefused, FetchTargets, UpdateTargets,
           UpdateTargetsUnanswered, SetByService, records
    <3>2. CASE pub = "record"
      <4>1. CallFails
        BY <2>1, <2>4, <3>2 DEF PublishStep, FetchAdGroup, UpdateAdGroup,
           UpdateAdGroupUnanswered, UpdateAdGroupRefused, FetchTargets, UpdateTargets,
           UpdateTargetsUnanswered
      <4>2. pub' = "error" \/ (pub' = "record" /\ tries' = tries - 1)
        BY <3>2, <4>1 DEF CallFails, Again, GoTo
      <4>3. tries \in 0 .. MaxAttempts /\ MaxAttempts \in Nat
        BY PublishAssumption DEF Core, TypeOK, PublishTypeOK
      <4> QED BY <2>1, <2>2, <3>1, <3>2, <4>2, <4>3
    <3>3. CASE pub # "record"
      <4>1. \A i \in DOMAIN bidLog : bidLog[i].job = job => bidLog[i].adGroup # change.adGroup
        BY <2>1, <2>2, <3>3, PublishMoves DEF Calls
      <4> QED BY <2>1, <2>2, <3>1, <4>1
    <3> QED BY <3>2, <3>3
  <2> QED BY <2>3, <2>4
<1>8. CASE RowPublished
  BY <1>8 DEF RowPublished, records
<1> QED BY <1>1, <1>2, <1>3, <1>4, <1>5, <1>6, <1>7, <1>8
        DEF Next, JobStep, Prepare, Finish, Crash, Seller, vars, publishing, records, handler

\* A record that is added is a repetition, if anything, of the job's change.
LEMMA NextOneChange ==
    Core /\ Numbered /\ OneChangePerJob /\ [Next]_vars => OneChangePerJob'
<1> SUFFICES ASSUME Core, Numbered, OneChangePerJob, [Next]_vars PROVE OneChangePerJob'
  OBVIOUS
<1>1. CASE UNCHANGED bidLog
  BY <1>1 DEF OneChangePerJob
<1>2. CASE CreateBid
  <2> SUFFICES ASSUME NEW i \in DOMAIN bidLog', NEW j \in DOMAIN bidLog', i < j,
                      bidLog'[i].job = bidLog'[j].job, bidLog'[i].adGroup = bidLog'[j].adGroup
               PROVE  /\ bidLog'[i].attempt < bidLog'[j].attempt
                      /\ \A f \in {"old", "new", "live"} : bidLog'[i][f] = bidLog'[j][f]
    BY DEF OneChangePerJob
  <2>1. i \in DOMAIN bidLog
    BY <1>2, CreateBidFacts, LogType
  <2>2. CASE j \in DOMAIN bidLog
    <3>1. bidLog'[i] = bidLog[i] /\ bidLog'[j] = bidLog[j]
      BY <1>2, <2>1, <2>2, CreateBidFacts
    <3> QED BY <2>1, <2>2, <3>1 DEF OneChangePerJob
  <2>3. CASE bidLog'[j] = Record
    <3>1. bidLog'[i] = bidLog[i] /\ bidLog[i].job = job /\ bidLog[i].adGroup = change.adGroup
      BY <1>2, <2>1, <2>3, CreateBidFacts
    <3>2. /\ bidLog[i].attempt < MaxAttempts - tries
          /\ \A f \in {"old", "new", "live"} : bidLog[i][f] = change[f]
      BY <1>2, <2>1, <3>1, CreateBidFacts DEF Numbered
    <3> QED BY <1>2, <2>3, <3>1, <3>2, CreateBidFacts
  <2> QED BY <1>2, <2>2, <2>3, CreateBidFacts
<1>3. ASSUME ~CreateBid PROVE UNCHANGED bidLog
  <2>1. ASSUME NEW g \in AdGroups, RowEvaluated(g) PROVE UNCHANGED bidLog
    BY <2>1 DEF RowEvaluated, PublishChange
  <2>2. CASE PublishStep
    BY <1>3, <2>2 DEF PublishStep, CallFails, FetchAdGroup, UpdateAdGroup,
         UpdateAdGroupUnanswered, UpdateAdGroupRefused, FetchTargets, UpdateTargets,
         UpdateTargetsUnanswered, SetByService, records
  <2> QED BY <2>1, <2>2
          DEF Next, JobStep, Start, Prepare, Join, JoinFails, RowSkipped, RowFails, RowPublishing,
              RowPublished, RowsDone, Finish, Crash, Forget, Seller, vars, records
<1> QED BY <1>1, <1>2, <1>3

\* One change per ad group and job, however often its record is repeated.
THEOREM OneChangePerJobHolds == Spec => []OneChangePerJob
<1>1. Init => Core /\ Numbered /\ OneChangePerJob
  BY InitCore DEF Init, PublishInit, Numbered, OneChangePerJob
<1>2. Core /\ Numbered /\ OneChangePerJob /\ [Next]_vars => (Core /\ Numbered /\ OneChangePerJob)'
  BY NextCore, NextNumbered, NextOneChange
<1> QED BY <1>1, <1>2, PTL DEF Spec

-----------------------------------------------------------------------------
(* Success.                                                                *)

\* The job has recorded a change of the ad group, or it needed none.
Accounted(g) == g \in unchanged \/ Recorded(g)

\* As long as no error was noted, every row dealt with is accounted for, and
\* only the change that is being published may lack its record.
Succeeding ==
    at \in {"rows", "ended"} /\ state = "PENDING" =>
      /\ \A g \in touched \intersect unrecorded : pub \notin {"off", "ok"} /\ g = change.adGroup
      /\ \A g \in done \intersect DOMAIN lookup : Accounted(g)
      /\ pub = "ok" => Accounted(change.adGroup)
      /\ at = "ended" => report \subseteq done

\* Publishing a change succeeds with its record.
LEMMA PublishSucceeding ==
    Core /\ Succeeding /\ RowPublishing => Succeeding'
<1> SUFFICES ASSUME Core, Succeeding, RowPublishing, state' = "PENDING" PROVE Succeeding'
  BY DEF Succeeding
<1>1. /\ PublishStep /\ at = "rows" /\ at' = "rows" /\ state = "PENDING"
      /\ UNCHANGED <<done, lookup, report>>
  BY DEF RowPublishing, handler, preparation
<1>2. /\ \A g \in touched \intersect unrecorded : pub \notin {"off", "ok"} /\ g = change.adGroup
      /\ \A g \in done \intersect DOMAIN lookup : Accounted(g)
  BY <1>1 DEF Succeeding
<1>3. UNCHANGED <<change, job, unchanged>> /\ pub \in Calls /\ pub' # "off"
  BY <1>1, PublishMoves DEF Calls
<1>4. CASE CreateBid
  <2>1. \A g : Recorded(g) => Recorded(g)'
    BY <1>3, <1>4, CreateBidFacts DEF Recorded
  <2>2. Recorded(change.adGroup)'
    BY <1>3, <1>4, CreateBidFacts DEF Recorded
  <2>3. \A g : Accounted(g) => Accounted(g)'
    BY <1>3, <2>1 DEF Accounted
  <2>4. touched' \intersect unrecorded' = {}
    <3>1. touched' = touched
          /\ unrecorded' = IF change.live THEN unrecorded \ {change.adGroup} ELSE unrecorded
      BY <1>4 DEF CreateBid
    <3>2. change.adGroup \in touched => change.live
      BY <1>1, <1>3 DEF Core, Phases, LiveOnly, Calls
    <3> QED BY <1>2, <3>1, <3>2
  <2> QED BY <1>1, <1>2, <1>3, <2>2, <2>3, <2>4 DEF Succeeding, Accounted
<1>5. CASE ~CreateBid
  <2>1. UNCHANGED bidLog
    BY <1>1, <1>5 DEF PublishStep, CallFails, FetchAdGroup, UpdateAdGroup,
         UpdateAdGroupUnanswered, UpdateAdGroupRefused, FetchTargets, UpdateTargets,
         UpdateTargetsUnanswered, SetByService, records
  <2>2. \A g : Accounted(g)' <=> Accounted(g)
    BY <1>3, <2>1 DEF Accounted, Recorded
  <2>3. pub' # "ok"
    <3>1. CASE pub = "record"
      <4>1. CallFails
        BY <1>1, <1>5, <3>1 DEF PublishStep, FetchAdGroup, UpdateAdGroup,
           UpdateAdGroupUnanswered, UpdateAdGroupRefused, FetchTargets, UpdateTargets,
           UpdateTargetsUnanswered
      <4> QED BY <3>1, <4>1 DEF CallFails, Again, GoTo
    <3>2. CASE pub # "record"
      BY <1>1, <3>2, PublishMoves DEF Calls
    <3> QED BY <3>1, <3>2
  <2>4. touched' \intersect unrecorded' \subseteq (touched \intersect unrecorded) \union {change.adGroup}
    BY <1>1, <1>5, PublishLeaves DEF PublishStep, CallFails, FetchAdGroup, UpdateAdGroup,
         UpdateAdGroupUnanswered, UpdateAdGroupRefused, FetchTargets, UpdateTargets,
         UpdateTargetsUnanswered, SetByService, records
  <2> QED BY <1>1, <1>2, <1>3, <2>2, <2>3, <2>4 DEF Succeeding
<1> QED BY <1>4, <1>5

\* Every step of a job without an error keeps it so.
LEMMA NextSucceeding == Core /\ Succeeding /\ [Next]_vars => Succeeding'
<1> SUFFICES ASSUME Core, Succeeding, [Next]_vars PROVE Succeeding'
  OBVIOUS
<1>1. CASE at' \notin {"rows", "ended"} \/ state' # "PENDING"
  BY <1>1 DEF Succeeding
<1>2. CASE Join
  <2>1. at' = "rows" \/ state' = "FAILED"
    BY <1>2 DEF Join
  <2>2. UNCHANGED <<touched, done, pub>> /\ at = "prepare"
    BY <1>2 DEF Join, records, publishing
  <2>3. touched = {} /\ done = {} /\ pub = "off"
    BY <2>2 DEF Core, Phases
  <2> QED BY <2>1, <2>2, <2>3 DEF Succeeding
<1>3. ASSUME UNCHANGED <<records, lookup>> PROVE \A g : Accounted(g)' <=> Accounted(g)
  BY <1>3 DEF Accounted, Recorded, records
<1>4. CASE RowsDone
  <2>1. /\ UNCHANGED <<records, publishing, lookup, state, report, done>>
        /\ at = "rows" /\ pub = "off" /\ report \subseteq done
    BY <1>4 DEF RowsDone, preparation
  <2> QED BY <1>3, <2>1 DEF Succeeding, records, publishing
<1>5. ASSUME NEW g \in AdGroups, RowSkipped(g) PROVE Succeeding'
  <2>1. /\ UNCHANGED <<records, publishing, lookup, state, report, at>> /\ at = "rows"
        /\ g \notin DOMAIN lookup /\ done' = done \union {g}
    BY <1>5 DEF RowSkipped, AtRow, preparation
  <2> QED BY <1>3, <2>1 DEF Succeeding, records, publishing
<1>6. ASSUME NEW g \in AdGroups, RowEvaluated(g) PROVE Succeeding'
  <2>1. PICK c \in BidChange : PublishChange(c)
    BY <1>6, EvaluatedType DEF Core
  <2>2. at = "rows" /\ pub = "off" /\ UNCHANGED <<at, done, lookup, state>>
    BY <1>6 DEF RowEvaluated, AtRow, handler, preparation
  <2>3. /\ UNCHANGED <<bidLog, job, touched, unrecorded>> /\ change' = c
        /\ unchanged \subseteq unchanged' /\ (pub' = "ok" => c.adGroup \in unchanged')
    BY <2>1 DEF PublishChange
  <2>4. \A h : Accounted(h) => Accounted(h)'
    BY <2>3 DEF Accounted, Recorded
  <2>5. pub' = "ok" => Accounted(change.adGroup)'
    BY <2>3 DEF Accounted
  <2> QED BY <2>2, <2>3, <2>4, <2>5 DEF Succeeding
<1>7. CASE RowPublishing
  BY <1>7, PublishSucceeding
<1>8. CASE RowPublished /\ state' = "PENDING"
  <2>1. /\ UNCHANGED <<records, lookup, at, report>> /\ at = "rows" /\ pub = "ok"
        /\ state = "PENDING" /\ done' = done \union {change.adGroup} /\ pub' = "off"
    BY <1>8 DEF RowPublished, preparation
  <2> QED BY <1>3, <2>1 DEF Succeeding, records
<1>9. CASE UNCHANGED <<records, publishing, handler, lookup>>
  BY <1>3, <1>9 DEF Succeeding, records, publishing, handler
<1> QED BY <1>1, <1>2, <1>4, <1>5, <1>6, <1>7, <1>8, <1>9
        DEF Next, JobStep, Start, Prepare, JoinFails, RowFails, Finish, Crash, Forget, Seller,
            vars, preparation, handler

\* A job that reports PENDING recorded what it did and left nothing out.
THEOREM SuccessIsCompleteHolds == Spec => []SuccessIsComplete
<1>1. Init => Core /\ Succeeding
  BY InitCore DEF Init, Succeeding
<1>2. Core /\ Succeeding /\ [Next]_vars => (Core /\ Succeeding)'
  BY NextCore, NextSucceeding
<1>3. Core /\ Succeeding => SuccessIsComplete
  <2> SUFFICES ASSUME Core, Succeeding, at = "ended", state = "PENDING"
               PROVE  /\ touched \intersect unrecorded = {}
                      /\ \A g \in report \intersect DOMAIN lookup : g \in unchanged \/ Recorded(g)
    BY DEF SuccessIsComplete
  <2>1. pub = "off"
    BY DEF Core, Phases
  <2> QED BY <2>1 DEF Succeeding, Accounted
<1> QED BY <1>1, <1>2, <1>3, PTL DEF Spec
=============================================================================
