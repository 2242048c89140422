------------------------ MODULE HandleMessage_proofs ------------------------
(***************************************************************************)
(* Proofs about HandleMessage, for every set of messages, whatever regions *)
(* the Ads client rejects, for reports of any length, and whether or not   *)
(* the calls to Amazon and to the services fail.                           *)
(***************************************************************************)
EXTENDS HandleMessage, TLAPS

-----------------------------------------------------------------------------
(* Type correctness.  The results of the workers are made in many places,  *)
(* so what the posting operators leave behind is stated once.              *)

\* The report worker posts a result and stops.
LEMMA PostReportType ==
    ASSUME TypeOK, NEW err \in Errors, NEW own \in BOOLEAN, NEW also \in BOOLEAN,
           PostReport(err, own, also)
    PROVE  rep' = "off" /\ repRes' \in Result /\ workCancelled' \in BOOLEAN
BY DEF PostReport, Result, TypeOK, ContextsTypeOK

\* So does the preparation worker.
LEMMA PostPrepType ==
    ASSUME TypeOK, NEW err \in Errors, NEW own \in BOOLEAN, PostPrep(err, own)
    PROVE  prep' = "off" /\ prepRes' \in Result /\ workCancelled' \in BOOLEAN
BY DEF PostPrep, Result, TypeOK, ContextsTypeOK

\* selectProcessingError returns an index and an error.
LEMMA SelectType ==
    \A e1, e2 \in Errors : SelectProcessingError(e1, e2) \in {-1, 0, 1} \X Errors
BY DEF SelectProcessingError, NoError, Errors

\* The literals the actions assign have their types.
LEMMA ConstantTypes ==
    /\ "nil" \in Errors /\ "canceled" \in Errors /\ "other" \in Errors
    /\ Empty \in Result /\ NoError \in {-1, 0, 1} \X Errors
    /\ "PENDING" \in States /\ "FAILED" \in States /\ "SOME ERRORS" \in States
BY DEF Empty, Result, NoError, Errors, States

\* Counting rows down stays within the bound.
LEMMA RowBounds ==
    /\ 0 \in 0 .. MaxRows
    /\ \A n \in 0 .. MaxRows : n > 0 => n - 1 \in 0 .. MaxRows
BY ConstantsAssumption

\* Types hold before the first message.
LEMMA InitType == Init => TypeOK
<1> SUFFICES ASSUME Init PROVE TypeOK
  OBVIOUS
<1> USE ConstantTypes DEF Init, MessageOrNone
<1>1. HandlerTypeOK
  <2>1. client \in [token : MessageOrNone, region : MessageOrNone]
    OBVIOUS
  <2>2. driven \in [state : States, timeout : {0, 60}, applied : BOOLEAN]
    BY DEF NotDriven
  <2>3. rows \in 0 .. MaxRows
    BY RowBounds
  <2> QED BY <2>1, <2>2, <2>3 DEF HandlerTypeOK
<1>2. ContextsTypeOK /\ ReporterTypeOK /\ PreparerTypeOK
  BY DEF ContextsTypeOK, ReporterTypeOK, PreparerTypeOK
<1> QED BY <1>1, <1>2 DEF TypeOK

\* What a step leaves alone keeps its type.
LEMMA Untouched ==
    ASSUME TypeOK
    PROVE  /\ UNCHANGED handler => HandlerTypeOK'
           /\ UNCHANGED <<reporter, report>> => ReporterTypeOK'
           /\ UNCHANGED preparer => PreparerTypeOK'
           /\ UNCHANGED <<cancelled, workCancelled>> => ContextsTypeOK'
<1>1. UNCHANGED handler => HandlerTypeOK'
  BY DEF TypeOK, HandlerTypeOK, handler
<1>2. UNCHANGED <<reporter, report>> => ReporterTypeOK'
  BY DEF TypeOK, ReporterTypeOK, reporter
<1>3. UNCHANGED preparer => PreparerTypeOK'
  BY DEF TypeOK, PreparerTypeOK, preparer
<1>4. UNCHANGED <<cancelled, workCancelled>> => ContextsTypeOK'
  BY DEF TypeOK, ContextsTypeOK
<1> QED BY <1>1, <1>2, <1>3, <1>4

\* Taking a message keeps the types, with either kind of region.
LEMMA StartType == \A m \in Messages : TypeOK /\ Start(m) => TypeOK'
<1> SUFFICES ASSUME TypeOK, NEW m \in Messages, Start(m) PROVE TypeOK'
  OBVIOUS
<1>1. HandlerTypeOK'
  <2>1. client' \in [token : MessageOrNone, region : MessageOrNone]
    BY DEF TypeOK, HandlerTypeOK, Start, MessageOrNone
  <2>2. hm' \in {"idle", "await", "decode", "evaluate", "drive"} /\ driven' = driven
    BY DEF Start
  <2>3. msg' \in MessageOrNone /\ state' \in States /\ rows' \in 0 .. MaxRows /\ rowFailed' \in BOOLEAN
    BY RowBounds, ConstantTypes DEF Start, MessageOrNone
  <2>4. selected' \in {-1, 0, 1} \X Errors
    BY ConstantTypes DEF Start
  <2> QED BY <2>1, <2>2, <2>3, <2>4 DEF HandlerTypeOK, TypeOK
<1>2. ContextsTypeOK'
  BY DEF TypeOK, ContextsTypeOK, Start
<1>3. ReporterTypeOK' /\ PreparerTypeOK'
  <2>1. CASE m \in BadRegions
    BY <2>1, Untouched DEF Start
  <2>2. CASE m \notin BadRegions
    BY <2>2, ConstantTypes DEF TypeOK, ReporterTypeOK, PreparerTypeOK, Start, MessageOrNone
  <2> QED BY <2>1, <2>2
<1> QED BY <1>1, <1>2, <1>3 DEF TypeOK

\* So does every step of the handler,
LEMMA HandlerStepType == TypeOK /\ HandlerStep => TypeOK'
<1> SUFFICES ASSUME TypeOK, HandlerStep PROVE TypeOK'
  OBVIOUS
<1>1. UNCHANGED <<cancelled, reporter, report, preparer>> /\ workCancelled' \in BOOLEAN
  BY DEF HandlerStep, Collect, Decode, RowSucceeds, RowFails, RowsDone, Drive,
         TypeOK, ContextsTypeOK
<1>0. RowSucceeds \/ RowFails \/ RowsDone => rows' \in 0 .. MaxRows
  <2>1. rows \in 0 .. MaxRows
    BY DEF TypeOK, HandlerTypeOK
  <2> QED BY <2>1, RowBounds DEF RowSucceeds, RowFails, RowsDone
<1>2. HandlerTypeOK'
  <2> USE DEF TypeOK, HandlerTypeOK
  <2>1. CASE Collect
    <3>1. repRes.err \in Errors /\ prepRes.err \in Errors
      BY <2>1 DEF ReporterTypeOK, PreparerTypeOK, Collect, Result
    <3>2. selected' \in {-1, 0, 1} \X Errors
      BY <2>1, <3>1, SelectType DEF Collect
    <3>3. /\ hm' \in {"decode", "drive"} /\ state' \in States
          /\ UNCHANGED <<msg, rows, rowFailed, client, driven>>
      BY <2>1, ConstantTypes DEF Collect
    <3> QED BY <3>2, <3>3
  <2>2. CASE Decode
    BY <2>2, ConstantsAssumption, ConstantTypes DEF Decode
  <2>3. CASE RowSucceeds \/ RowFails \/ RowsDone
    BY <1>0, <2>3, ConstantTypes DEF RowSucceeds, RowFails, RowsDone
  <2>4. CASE Drive
    <3>1. driven' \in [state : States, timeout : {0, 60}, applied : BOOLEAN]
      <4>1. Timeout \in {0, 60}
        BY DEF Timeout
      <4> QED BY <2>4, <4>1 DEF Drive
    <3> QED BY <2>4, <3>1 DEF Drive
  <2> QED BY <2>1, <2>2, <2>3, <2>4 DEF HandlerStep
<1>3. ContextsTypeOK'
  BY <1>1 DEF TypeOK, ContextsTypeOK
<1> QED BY <1>1, <1>2, <1>3, Untouched DEF TypeOK

\* of the report worker,
LEMMA ReporterStepType == TypeOK /\ ReporterStep => TypeOK'
<1> SUFFICES ASSUME TypeOK, ReporterStep PROVE TypeOK'
  OBVIOUS
<1>1. UNCHANGED <<cancelled, handler, preparer, repMsg>>
  BY DEF ReporterStep, Request, Refresh, Sleep, CancelReport, FetchReport
<1>2. \A err : AdsFails(err) => err \in Errors
  BY ConstantTypes DEF AdsFails
<1>3. /\ rep' \in {"off", "request", "refresh", "sleep", "cancel", "fetch"}
      /\ refreshErr' \in Errors /\ repRes' \in Result /\ workCancelled' \in BOOLEAN
      /\ report' \in {"none", "pending", "completed", "failed", "cancelled"}
  <2> USE DEF TypeOK, ReporterTypeOK, ContextsTypeOK
  <2>1. CASE Request
    BY <1>2, <2>1, PostReportType DEF Request
  <2>2. CASE Refresh
    BY <1>2, <2>2, PostReportType, ConstantTypes DEF Refresh, ReportIs
  <2>3. CASE Sleep
    BY <2>3, ConstantTypes DEF Sleep
  <2>4. CASE CancelReport
    <3>1. \A e : (IF "canceled" \in {e, refreshErr} THEN "canceled" ELSE "other") \in Errors
      BY ConstantTypes
    <3> QED BY <2>4, <3>1, PostReportType DEF CancelReport
  <2>5. CASE FetchReport
    BY <1>2, <2>5, PostReportType, ConstantTypes DEF FetchReport
  <2> QED BY <2>1, <2>2, <2>3, <2>4, <2>5 DEF ReporterStep
<1> QED BY <1>1, <1>3, Untouched DEF TypeOK, ReporterTypeOK, ContextsTypeOK

\* and of the preparation worker.
LEMMA PreparerStepType == TypeOK /\ PreparerStep => TypeOK'
<1> SUFFICES ASSUME TypeOK, PreparerStep PROVE TypeOK'
  OBVIOUS
<1>1. UNCHANGED <<cancelled, handler, reporter, report, prepMsg>>
  BY DEF PreparerStep, FetchAttachedPolicies, FetchPolicies, FetchAdGroups
<1>2. /\ prep' \in {"off", "attached", "policies", "adGroups"}
      /\ attached' \in BOOLEAN /\ prepRes' \in Result /\ workCancelled' \in BOOLEAN
  <2> USE DEF TypeOK, PreparerTypeOK, ContextsTypeOK, PrepFails
  <2>1. CASE FetchAttachedPolicies
    BY <2>1, PostPrepType, ConstantTypes DEF FetchAttachedPolicies
  <2>2. CASE FetchPolicies
    BY <2>2, PostPrepType, ConstantTypes DEF FetchPolicies
  <2>3. CASE FetchAdGroups
    BY <2>3, PostPrepType, ConstantTypes DEF FetchAdGroups
  <2> QED BY <2>1, <2>2, <2>3 DEF PreparerStep
<1> QED BY <1>1, <1>2, Untouched DEF TypeOK, PreparerTypeOK, ContextsTypeOK

\* Every step keeps the types.
LEMMA NextType == TypeOK /\ [Next]_vars => TypeOK'
<1> SUFFICES ASSUME TypeOK, [Next]_vars PROVE TypeOK'
  OBVIOUS
<1>1. CASE Signal
  BY <1>1, Untouched DEF Signal, TypeOK, ContextsTypeOK
<1>2. CASE ReportProgress
  BY <1>2, Untouched DEF ReportProgress, TypeOK, ReporterTypeOK, reporter
<1>3. CASE UNCHANGED vars
  BY <1>3, Untouched DEF vars, TypeOK
<1> QED BY <1>1, <1>2, <1>3, StartType, HandlerStepType, ReporterStepType, PreparerStepType
        DEF Next

\* All variables keep their types.
THEOREM TypeCorrect == Spec => []TypeOK
BY InitType, NextType, PTL DEF Spec

-----------------------------------------------------------------------------
(* Credentials.  The client may be read by the workers because             *)
(* handleMessage waits for both: while one runs, its message is the one    *)
(* handleMessage is at, and its channel is empty.                          *)

Joined ==
    /\ rep # "off" => hm = "await" /\ repMsg = msg /\ repRes = Empty
    /\ prep # "off" => hm = "await" /\ prepMsg = msg /\ prepRes = Empty
    /\ hm \in {"await", "decode", "evaluate"} => client = [token |-> msg, region |-> msg]

\* The state of the job follows its rows.
RowsInv ==
    /\ hm \in {"await", "decode"} => state = "PENDING" /\ ~rowFailed /\ rows = 0
    /\ hm = "evaluate" => state # "FAILED"
    /\ StateMatchesRows

\* A failure somebody is responsible for.
Guilty(res) == res.err = "other" /\ res.own = TRUE
Culprit == Guilty(repRes) \/ Guilty(prepRes)

\* While handleMessage waits, every cancellation has its cause: SIGTERM, or
\* a worker whose own failure is in its channel.
CausesKnown ==
    /\ hm = "await" /\ workCancelled => cancelled \/ Culprit
    /\ hm = "await" /\ "canceled" \in {repRes.err, prepRes.err} => cancelled \/ Culprit
    /\ rep = "cancel" => refreshErr \in {"canceled", "other"}
    /\ rep = "cancel" /\ refreshErr = "canceled" => cancelled \/ Culprit
    /\ repRes.err = "other" => Guilty(repRes)
    /\ prepRes.err = "other" /\ hm = "await" =>
            Guilty(prepRes) \/ cancelled \/ repRes.err = "other"

BlameInv ==
    /\ CausesKnown
    /\ hm = "await" => selected = NoError
    /\ BlameIsOwn

JobInv == TypeOK /\ Joined /\ RowsInv /\ BlameInv

\* The invariants of a job hold before the first message.
LEMMA InitJob == Init => Joined /\ RowsInv /\ BlameInv
BY DEF Init, Joined, RowsInv, StateMatchesRows, BlameInv, CausesKnown, Culprit, BlameIsOwn,
       Guilty, NoError, Empty

\* Every step keeps the workers within their message.
LEMMA NextJoined == TypeOK /\ Joined /\ [Next]_vars => Joined'
<1> SUFFICES ASSUME TypeOK, Joined, [Next]_vars PROVE Joined'
  OBVIOUS
<1> USE DEF Joined, handler, reporter, preparer
<1>1. CASE Signal \/ ReportProgress \/ UNCHANGED vars
  BY <1>1 DEF Signal, ReportProgress, vars
<1>2. ASSUME NEW m \in Messages, Start(m) PROVE Joined'
  BY <1>2 DEF Start
<1>3. CASE HandlerStep
  BY <1>3 DEF HandlerStep, Collect, Decode, RowSucceeds, RowFails, RowsDone, Drive
<1>4. CASE ReporterStep
  <2>1. rep # "off" /\ UNCHANGED <<handler, preparer, repMsg>>
    BY <1>4 DEF ReporterStep, Request, Refresh, Sleep, CancelReport, FetchReport
  <2>2. rep' = "off" \/ repRes' = repRes
    BY <1>4 DEF ReporterStep, Request, Refresh, ReportIs, Sleep, CancelReport, FetchReport, PostReport
  <2> QED BY <2>1, <2>2
<1>5. CASE PreparerStep
  <2>1. prep # "off" /\ UNCHANGED <<handler, reporter, prepMsg>>
    BY <1>5 DEF PreparerStep, FetchAttachedPolicies, FetchPolicies, FetchAdGroups
  <2>2. prep' = "off" \/ prepRes' = prepRes
    BY <1>5 DEF PreparerStep, FetchAttachedPolicies, FetchPolicies, FetchAdGroups, PrepFails, PostPrep
  <2> QED BY <2>1, <2>2
<1> QED BY <1>1, <1>2, <1>3, <1>4, <1>5 DEF Next

\* Every step keeps state and rowFailed together.
LEMMA NextRows == TypeOK /\ RowsInv /\ [Next]_vars => RowsInv'
<1> SUFFICES ASSUME TypeOK, RowsInv, [Next]_vars PROVE RowsInv'
  OBVIOUS
<1> USE DEF RowsInv, StateMatchesRows
<1>1. CASE UNCHANGED handler
  BY <1>1 DEF handler
<1>2. ASSUME NEW m \in Messages, Start(m) PROVE RowsInv'
  BY <1>2 DEF Start
<1>3. CASE Collect
  BY <1>3 DEF Collect
<1>4. CASE Decode
  BY <1>4 DEF Decode
<1>5. CASE RowSucceeds \/ RowFails \/ RowsDone
  <2>1. CASE RowSucceeds
    BY <2>1 DEF RowSucceeds
  <2>2. CASE RowFails
    BY <2>2 DEF RowFails
  <2>3. CASE RowsDone
    BY <2>3 DEF RowsDone
  <2> QED BY <1>5, <2>1, <2>2, <2>3
<1>6. CASE Drive
  BY <1>6 DEF Drive
<1>7. Signal \/ ReporterStep \/ PreparerStep \/ ReportProgress => UNCHANGED handler
  BY DEF Signal, ReporterStep, Request, Refresh, Sleep, CancelReport, FetchReport,
         PreparerStep, FetchAttachedPolicies, FetchPolicies, FetchAdGroups, ReportProgress
<1> QED BY <1>1, <1>2, <1>3, <1>4, <1>5, <1>6, <1>7 DEF Next, HandlerStep, vars

-----------------------------------------------------------------------------
(* Blame.  A worker posts once per message (its channel is empty while it  *)
(* runs), so a culprit stays known until handleMessage has chosen.         *)

\* What the report worker leaves behind, field by field.
LEMMA PostedReport ==
    ASSUME NEW err, NEW own, NEW also, PostReport(err, own, also)
    PROVE  /\ rep' = "off" /\ repRes'.err = err /\ repRes'.own = own
           /\ workCancelled' = (workCancelled \/ also)
BY DEF PostReport

\* What the preparation worker leaves behind, field by field.
LEMMA PostedPrep ==
    ASSUME NEW err, NEW own, PostPrep(err, own)
    PROVE  /\ prepRes'.err = err /\ prepRes'.own = own
           /\ workCancelled' = (workCancelled \/ err # "nil")
BY DEF PostPrep

\* Whatever the report worker does, its failure is its own or has a cause.
LEMMA ReporterBlame == JobInv /\ ReporterStep => BlameInv'
<1> SUFFICES ASSUME JobInv, ReporterStep PROVE BlameInv'
  OBVIOUS
<1>1. /\ rep # "off" /\ hm = "await" /\ selected = NoError
      /\ repRes.err = "empty" /\ ~Guilty(repRes)
  <2>1. rep # "off"
    BY DEF ReporterStep, Request, Refresh, Sleep, CancelReport, FetchReport
  <2> QED BY <2>1 DEF JobInv, Joined, BlameInv, Empty, Guilty
<1>2. UNCHANGED <<cancelled, hm, selected, prepRes>>
  BY DEF handler, preparer, ReporterStep, Request, Refresh, Sleep, CancelReport, FetchReport
<1>3. /\ WorkDone => cancelled \/ Guilty(prepRes)
      /\ prepRes.err = "other" => Guilty(prepRes) \/ cancelled
      /\ prepRes.err = "canceled" => cancelled \/ Guilty(prepRes)
      /\ rep = "cancel" => refreshErr \in {"canceled", "other"}
      /\ rep = "cancel" /\ refreshErr = "canceled" => cancelled \/ Guilty(prepRes)
  BY <1>1 DEF JobInv, BlameInv, CausesKnown, Culprit, WorkDone
<1> DEFINE Posted == /\ rep' = "off"
                     /\ repRes'.err = "other" => Guilty(repRes')
                     /\ repRes'.err = "canceled" => cancelled \/ Guilty(prepRes)
                     /\ workCancelled' => workCancelled \/ repRes'.err \in {"canceled", "other"}
           Waits == /\ repRes' = repRes /\ workCancelled' = workCancelled
                    /\ rep' = "cancel" =>
                        /\ refreshErr' \in {"canceled", "other"}
                        /\ refreshErr' = "canceled" => cancelled \/ Guilty(prepRes)
<1>4. \A err : AdsFails(err) => \/ err = "other"
                                \/ err = "canceled" /\ (cancelled \/ Guilty(prepRes))
  BY <1>3 DEF AdsFails
<1>5. ASSUME NEW err, NEW own, NEW also, PostReport(err, own, also),
             \/ err = "other" /\ own = TRUE
             \/ err = "canceled" /\ (cancelled \/ Guilty(prepRes))
             \/ err = "nil" /\ also = FALSE
      PROVE  Posted
  <2>1. /\ rep' = "off" /\ repRes'.err = err /\ repRes'.own = own
        /\ workCancelled' = (workCancelled \/ also)
    BY <1>5, PostedReport
  <2> QED BY <1>5, <2>1 DEF Guilty
<1>5a. ASSUME NEW err, AdsFails(err), NEW also, PostReport(err, err = "other", also)
       PROVE  Posted
  <2>1. CASE err = "other"
    <3>1. PostReport(err, TRUE, also)
      BY <1>5a, <2>1 DEF PostReport
    <3> QED BY <1>5, <2>1, <3>1
  <2>2. CASE err # "other"
    <3>1. PostReport(err, FALSE, also)
      BY <1>5a, <2>2 DEF PostReport
    <3>2. err = "canceled" /\ (cancelled \/ Guilty(prepRes))
      BY <1>4, <1>5a, <2>2
    <3> QED BY <1>5, <3>1, <3>2
  <2> QED BY <2>1, <2>2
<1>6. Posted \/ Waits
  <2>1. CASE Request
    <3>1. CASE ~WorkDone /\ report' = "pending" /\ rep' = "refresh" /\ UNCHANGED <<repRes, workCancelled>>
      BY <3>1
    <3>2. ASSUME NEW err \in Errors, AdsFails(err), PostReport(err, err = "other", FALSE)
          PROVE  Posted
      BY <1>5a, <3>2
    <3> QED BY <2>1, <3>1, <3>2 DEF Request
  <2>2. CASE Refresh
    <3>1. CASE ReportIs(report)
      BY <1>5, <3>1 DEF ReportIs
    <3>2. CASE \E err \in Errors : /\ AdsFails(err) /\ rep' = "cancel" /\ refreshErr' = err
                                   /\ UNCHANGED <<repRes, workCancelled>>
      BY <1>4, <3>2
    <3> QED BY <2>2, <3>1, <3>2 DEF Refresh
  <2>3. CASE Sleep
    BY <1>3, <2>3 DEF Sleep
  <2>4. CASE CancelReport
    <3>1. rep = "cancel"
      BY <2>4 DEF CancelReport
    <3>2. CASE PostReport(refreshErr, refreshErr = "other", TRUE)
      BY <1>3, <1>5, <3>1, <3>2
    <3>3. ASSUME NEW err \in Errors, AdsFails(err),
                 PostReport(IF "canceled" \in {err, refreshErr} THEN "canceled" ELSE "other",
                            refreshErr = "other", TRUE)
          PROVE  Posted
      <4>1. CASE "canceled" \in {err, refreshErr}
        BY <1>3, <1>4, <1>5, <3>1, <3>3, <4>1
      <4>2. CASE "canceled" \notin {err, refreshErr}
        BY <1>3, <1>5, <3>1, <3>3, <4>2
      <4> QED BY <4>1, <4>2
    <3> QED BY <2>4, <3>2, <3>3 DEF CancelReport
  <2>5. CASE FetchReport
    <3>1. CASE PostReport("nil", FALSE, FALSE)
      BY <1>5, <3>1
    <3>2. ASSUME NEW err \in Errors, AdsFails(err), PostReport(err, err = "other", TRUE)
          PROVE  Posted
      BY <1>5a, <3>2
    <3> QED BY <2>5, <3>1, <3>2 DEF FetchReport
  <2> QED BY <2>1, <2>2, <2>3, <2>4, <2>5 DEF ReporterStep
<1>7. BlameIsOwn'
  BY <1>1, <1>2 DEF BlameIsOwn, NoError
<1>8. CausesKnown'
  <2>1. Guilty(prepRes)' <=> Guilty(prepRes)
    BY <1>2 DEF Guilty
  <2>2. CASE Posted
    BY <1>1, <1>2, <1>3, <2>1, <2>2 DEF CausesKnown, Culprit, WorkDone
  <2>3. CASE Waits
    BY <1>1, <1>2, <1>3, <2>1, <2>3 DEF CausesKnown, Culprit, WorkDone
  <2> QED BY <1>6, <2>2, <2>3
<1> QED BY <1>1, <1>2, <1>7, <1>8 DEF BlameInv

\* The preparation worker likewise; its later errors do not say that they are
\* cancellations, and then SIGTERM or the report worker is behind them.
LEMMA PreparerBlame == JobInv /\ PreparerStep => BlameInv'
<1> SUFFICES ASSUME JobInv, PreparerStep PROVE BlameInv'
  OBVIOUS
<1>1. /\ prep # "off" /\ hm = "await" /\ selected = NoError
      /\ prepRes.err = "empty" /\ ~Guilty(prepRes)
  <2>1. prep # "off"
    BY DEF PreparerStep, FetchAttachedPolicies, FetchPolicies, FetchAdGroups
  <2> QED BY <2>1 DEF JobInv, Joined, BlameInv, Empty, Guilty
<1>2. UNCHANGED <<cancelled, hm, selected, rep, refreshErr, repRes>>
  BY DEF handler, reporter, PreparerStep, FetchAttachedPolicies, FetchPolicies, FetchAdGroups
<1>3. /\ WorkDone => cancelled \/ Guilty(repRes)
      /\ repRes.err = "other" => Guilty(repRes)
      /\ repRes.err = "canceled" => cancelled \/ Guilty(repRes)
      /\ rep = "cancel" => refreshErr \in {"canceled", "other"}
      /\ rep = "cancel" /\ refreshErr = "canceled" => cancelled \/ Guilty(repRes)
  BY <1>1 DEF JobInv, BlameInv, CausesKnown, Culprit, WorkDone
<1> DEFINE Posted == /\ prepRes'.err = "other" => Guilty(prepRes') \/ cancelled \/ Guilty(repRes)
                     /\ prepRes'.err = "canceled" => cancelled \/ Guilty(repRes)
                     /\ workCancelled' => workCancelled \/ prepRes'.err \in {"canceled", "other"}
           Waits == prepRes' = prepRes /\ workCancelled' = workCancelled
<1>4. ASSUME NEW err, NEW own, PostPrep(err, own),
             \/ err = "other" /\ own = TRUE
             \/ err \in {"canceled", "other"} /\ (cancelled \/ Guilty(repRes))
             \/ err = "nil"
      PROVE  Posted
  <2>1. /\ prepRes'.err = err /\ prepRes'.own = own
        /\ workCancelled' = (workCancelled \/ err # "nil")
    BY <1>4, PostedPrep
  <2> QED BY <1>4, <2>1 DEF Guilty
<1>5. ASSUME NEW faults, NEW wrapped, PrepFails(faults, wrapped) PROVE Posted
  <2>1. CASE WorkDone /\ PostPrep(IF wrapped THEN "canceled" ELSE "other", FALSE)
    <3>1. CASE wrapped
      BY <1>3, <1>4, <2>1, <3>1
    <3>2. CASE ~wrapped
      BY <1>3, <1>4, <2>1, <3>2
    <3> QED BY <3>1, <3>2
  <2>2. CASE ~WorkDone /\ faults /\ PostPrep("other", TRUE)
    BY <1>4, <2>2
  <2> QED BY <1>5, <2>1, <2>2 DEF PrepFails
<1>6. Posted \/ Waits
  <2>1. CASE FetchAttachedPolicies
    BY <1>4, <1>5, <2>1 DEF FetchAttachedPolicies
  <2>2. CASE FetchPolicies
    BY <1>5, <2>2 DEF FetchPolicies
  <2>3. CASE FetchAdGroups
    BY <1>4, <1>5, <2>3 DEF FetchAdGroups
  <2> QED BY <2>1, <2>2, <2>3 DEF PreparerStep
<1>7. BlameIsOwn'
  BY <1>1, <1>2 DEF BlameIsOwn, NoError
<1>8. CausesKnown'
  <2>1. Guilty(repRes)' <=> Guilty(repRes)
    BY <1>2 DEF Guilty
  <2>2. CASE Posted
    BY <1>1, <1>2, <1>3, <2>1, <2>2 DEF CausesKnown, Culprit, WorkDone, Guilty
  <2>3. CASE Waits
    BY <1>1, <1>2, <1>3, <2>1, <2>3 DEF CausesKnown, Culprit, WorkDone, Guilty
  <2> QED BY <1>6, <2>2, <2>3
<1> QED BY <1>1, <1>2, <1>7, <1>8 DEF BlameInv

\* handleMessage's choice, from what the channels hold.
LEMMA CollectBlame == JobInv /\ Collect => BlameInv'
<1> SUFFICES ASSUME JobInv, Collect PROVE BlameInv'
  OBVIOUS
<1>1. /\ hm = "await" /\ hm' \in {"decode", "drive"}
      /\ UNCHANGED <<cancelled, rep, refreshErr, repRes, prepRes>>
      /\ selected' = SelectProcessingError(repRes.err, prepRes.err)
  BY DEF Collect, reporter, preparer
<1>2. rep = "off"
  BY DEF JobInv, Joined, Collect
<1>3. /\ repRes.err = "other" => Guilty(repRes)
      /\ prepRes.err = "other" => Guilty(prepRes) \/ cancelled \/ repRes.err = "other"
      /\ "canceled" \in {repRes.err, prepRes.err} => cancelled \/ Culprit
  BY <1>1 DEF JobInv, BlameInv, CausesKnown
<1>4. selected' \in {<<0, "other">>, <<1, "other">>, <<-1, "canceled">>, NoError}
  BY <1>1 DEF SelectProcessingError
<1>5. selected' = <<0, "other">> => repRes.err = "other"
  BY <1>1 DEF SelectProcessingError, NoError
<1>6. selected' = <<1, "other">> => prepRes.err = "other" /\ repRes.err # "other"
  BY <1>1 DEF SelectProcessingError, NoError
<1>7. selected' = <<-1, "canceled">> =>
        /\ "other" \notin {repRes.err, prepRes.err}
        /\ "canceled" \in {repRes.err, prepRes.err}
  BY <1>1 DEF SelectProcessingError, NoError
<1>8. BlameIsOwn'
  <2>1. CASE selected' = <<0, "other">>
    BY <1>1, <1>3, <1>5, <2>1 DEF BlameIsOwn, Guilty
  <2>2. CASE selected' = <<1, "other">>
    BY <1>1, <1>3, <1>6, <2>2 DEF BlameIsOwn, Guilty
  <2>3. CASE selected' = <<-1, "canceled">>
    BY <1>1, <1>3, <1>7, <2>3 DEF BlameIsOwn, Guilty, Culprit
  <2>4. CASE selected' = NoError
    BY <2>4 DEF BlameIsOwn, NoError
  <2> QED BY <1>4, <2>1, <2>2, <2>3, <2>4
<1>9. CausesKnown'
  BY <1>1, <1>2, <1>3 DEF CausesKnown, Guilty
<1> QED BY <1>1, <1>8, <1>9 DEF BlameInv

\* Every step keeps what the results say of their authors.
LEMMA NextBlame == JobInv /\ [Next]_vars => BlameInv'
<1> SUFFICES ASSUME JobInv, [Next]_vars PROVE BlameInv'
  OBVIOUS
<1>1. CASE UNCHANGED <<workCancelled, hm, selected, rep, refreshErr, repRes, prepRes>>
           /\ (cancelled => cancelled')
  BY <1>1 DEF JobInv, BlameInv, CausesKnown, Culprit, Guilty, BlameIsOwn
<1>2. CASE Signal \/ ReportProgress \/ UNCHANGED vars
  BY <1>1, <1>2 DEF Signal, ReportProgress, vars, handler, reporter, preparer
<1>3. ASSUME NEW m \in Messages, Start(m) PROVE BlameInv'
  <2>1. rep = "off" /\ selected' = NoError
    BY <1>3 DEF JobInv, Joined, Start
  <2>2. CASE m \in BadRegions
    BY <1>3, <2>1, <2>2
       DEF Start, JobInv, BlameInv, CausesKnown, Guilty, BlameIsOwn, NoError, reporter, preparer
  <2>3. CASE m \notin BadRegions
    BY <1>3, <2>1, <2>3
       DEF Start, BlameInv, CausesKnown, Guilty, BlameIsOwn, NoError, Empty
  <2> QED BY <2>2, <2>3
<1>4. CASE Decode \/ RowSucceeds \/ RowFails \/ RowsDone \/ Drive
  <2>1. /\ hm # "await" /\ hm' # "await"
        /\ UNCHANGED <<cancelled, selected, rep, refreshErr, repRes, prepRes>>
    BY <1>4 DEF Decode, RowSucceeds, RowFails, RowsDone, Drive, reporter, preparer
  <2>2. rep = "off"
    BY <2>1 DEF JobInv, Joined
  <2> QED BY <2>1, <2>2 DEF JobInv, BlameInv, CausesKnown, Guilty, BlameIsOwn
<1> QED BY <1>2, <1>3, <1>4, CollectBlame, ReporterBlame, PreparerBlame DEF Next, HandlerStep

\* The invariants of a job hold in every reachable state.
LEMMA AlwaysJobInv == Spec => []JobInv
<1>1. Init => JobInv
  BY InitType, InitJob DEF JobInv
<1>2. JobInv /\ [Next]_vars => JobInv'
  BY NextType, NextJoined, NextRows, NextBlame DEF JobInv
<1> QED BY <1>1, <1>2, PTL DEF Spec

\* Amazon is called with the credentials of the right message, however the
\* workers of a message interleave, fail and are cancelled.
THEOREM CredentialsMatchHolds == Spec => []CredentialsMatch
<1>1. JobInv => CredentialsMatch
  BY DEF JobInv, Joined, CredentialsMatch
<1> QED BY <1>1, AlwaysJobInv, PTL

\* The job is SOME ERRORS exactly when one of its rows failed.
THEOREM StateMatchesRowsHolds == Spec => []StateMatchesRows
<1>1. JobInv => StateMatchesRows
  BY DEF JobInv, RowsInv
<1> QED BY <1>1, AlwaysJobInv, PTL

\* Without SIGTERM handleMessage blames a side that failed by itself.
THEOREM BlameIsOwnHolds == Spec => []BlameIsOwn
<1>1. JobInv => BlameIsOwn
  BY DEF JobInv, BlameInv
<1> QED BY <1>1, AlwaysJobInv, PTL

-----------------------------------------------------------------------------
(* What the join makes of the results, and how polling ends.               *)

\* A worker's channel is full when the worker is done with this message,
Posting ==
    hm = "await" => /\ rep = "off" => repRes.err \in Errors
                    /\ prep = "off" => prepRes.err \in Errors

\* and a worker's failure has stopped handleMessage from using its data.
FailureKnown ==
    LET workFailed == {repRes.err, prepRes.err} # {"nil"} IN
    /\ hm \in {"decode", "evaluate"} => ~workFailed
    /\ hm = "drive" /\ msg \notin BadRegions /\ workFailed => state = "FAILED"

ResultsInv == Posting /\ FailureKnown

\* Nothing was posted before the first message.
LEMMA InitResults == Init => ResultsInv
BY DEF Init, ResultsInv, Posting, FailureKnown

\* A result is not mistaken for an empty channel.
LEMMA ResultsAreFull ==
    /\ "empty" \notin Errors /\ Empty.err = "empty"
    /\ \A res : res.err \in Errors => res # Empty
BY DEF Errors, Empty

\* Only two results without an error let handleMessage go on.
LEMMA SelectsFailure ==
    ASSUME NEW e1 \in Errors, NEW e2 \in Errors
    PROVE  SelectProcessingError(e1, e2)[2] = "nil" <=> {e1, e2} = {"nil"}
BY DEF SelectProcessingError, NoError, Errors

\* Every path of the report worker that ends it leaves a result.
LEMMA ReporterPosts == TypeOK /\ ReporterStep /\ rep' = "off" => repRes'.err \in Errors
<1> SUFFICES ASSUME TypeOK, ReporterStep, rep' = "off" PROVE repRes'.err \in Errors
  OBVIOUS
<1>1. \A err \in Errors : \A own, also : PostReport(err, own, also) => repRes'.err \in Errors
  BY DEF PostReport
<1>2. CASE Request
  BY <1>1, <1>2 DEF Request
<1>3. CASE Refresh
  BY <1>1, <1>3, ConstantTypes DEF Refresh, ReportIs
<1>4. CASE Sleep
  BY <1>4 DEF Sleep
<1>5. CASE CancelReport
  <2>1. refreshErr \in Errors
    BY DEF TypeOK, ReporterTypeOK
  <2>2. \A e : (IF "canceled" \in {e, refreshErr} THEN "canceled" ELSE "other") \in Errors
    BY ConstantTypes
  <2> QED BY <1>1, <1>5, <2>1, <2>2 DEF CancelReport
<1>6. CASE FetchReport
  BY <1>1, <1>6, ConstantTypes DEF FetchReport
<1> QED BY <1>2, <1>3, <1>4, <1>5, <1>6 DEF ReporterStep

\* So does every path of the preparation worker.
LEMMA PreparerPosts == PreparerStep /\ prep' = "off" => prepRes'.err \in Errors
<1> SUFFICES ASSUME PreparerStep, prep' = "off" PROVE prepRes'.err \in Errors
  OBVIOUS
<1>1. \A err \in Errors : \A own : PostPrep(err, own) => prepRes'.err \in Errors
  BY DEF PostPrep
<1>2. \A faults, wrapped : PrepFails(faults, wrapped) => prepRes'.err \in Errors
  BY <1>1, ConstantTypes DEF PrepFails
<1> QED BY <1>1, <1>2, ConstantTypes
        DEF PreparerStep, FetchAttachedPolicies, FetchPolicies, FetchAdGroups

\* Every step keeps the results and what they mean.
LEMMA NextResults == TypeOK /\ Joined /\ ResultsInv /\ [Next]_vars => ResultsInv'
<1> SUFFICES ASSUME TypeOK, Joined, ResultsInv, [Next]_vars PROVE ResultsInv'
  OBVIOUS
<1> USE DEF ResultsInv
<1>1. CASE UNCHANGED <<handler, reporter, preparer>>
  BY <1>1 DEF handler, reporter, preparer, Posting, FailureKnown
<1>2. ASSUME NEW m \in Messages, Start(m) PROVE ResultsInv'
  BY <1>2 DEF Start, Posting, FailureKnown
<1>3. CASE Collect
  <2>1. /\ repRes.err \in Errors /\ prepRes.err \in Errors
        /\ msg' = msg /\ repRes' = repRes /\ prepRes' = prepRes
    BY <1>3 DEF Collect, Joined, Posting, reporter, preparer
  <2>2. selected'[2] = "nil" <=> {repRes.err, prepRes.err} = {"nil"}
    BY <1>3, <2>1, SelectsFailure DEF Collect
  <2>3. \/ hm' = "decode" /\ selected'[2] = "nil"
        \/ hm' = "drive" /\ state' = "FAILED"
    BY <1>3 DEF Collect
  <2>4. Posting'
    BY <2>3 DEF Posting
  <2> QED BY <2>1, <2>2, <2>3, <2>4 DEF FailureKnown
<1>4. CASE Decode \/ RowSucceeds \/ RowFails \/ RowsDone \/ Drive
  <2>1. /\ UNCHANGED <<msg, reporter, preparer>> /\ hm # "await" /\ hm' # "await"
        /\ hm' \in {"decode", "evaluate", "drive"} => hm \in {"decode", "evaluate"}
        /\ hm' # "decode"
    BY <1>4 DEF Decode, RowSucceeds, RowFails, RowsDone, Drive
  <2> QED BY <2>1 DEF Posting, FailureKnown, reporter, preparer
<1>5. CASE ReporterStep
  <2>1. UNCHANGED <<handler, preparer>> /\ rep # "off"
    BY <1>5 DEF ReporterStep, Request, Refresh, Sleep, CancelReport, FetchReport
  <2>2. hm = "await" /\ (rep' = "off" => repRes'.err \in Errors)
    BY <1>5, <2>1, ReporterPosts DEF Joined
  <2> QED BY <2>1, <2>2 DEF Posting, FailureKnown, handler, preparer
<1>6. CASE PreparerStep
  <2>1. UNCHANGED <<handler, reporter>> /\ prep # "off"
    BY <1>6 DEF PreparerStep, FetchAttachedPolicies, FetchPolicies, FetchAdGroups
  <2>2. hm = "await" /\ (prep' = "off" => prepRes'.err \in Errors)
    BY <1>6, <2>1, PreparerPosts DEF Joined
  <2> QED BY <2>1, <2>2 DEF Posting, FailureKnown, handler, reporter
<1> QED BY <1>1, <1>2, <1>3, <1>4, <1>5, <1>6 DEF Next, HandlerStep, Signal, ReportProgress, vars

\* The results are as described in every reachable state.
LEMMA AlwaysResults == Spec => [](TypeOK /\ Joined /\ RowsInv /\ ResultsInv)
<1>1. Init => TypeOK /\ Joined /\ RowsInv /\ ResultsInv
  BY InitType, InitJob, InitResults
<1> QED BY <1>1, NextType, NextJoined, NextRows, NextResults, PTL DEF Spec

\* Each worker delivers exactly one result per message, and never waits to.
THEOREM OneResultEachHolds == Spec => []OneResultEach
<1>1. TypeOK /\ Joined /\ ResultsInv => OneResultEach
  BY ResultsAreFull DEF Joined, ResultsInv, Posting, OneResultEach
<1> QED BY <1>1, AlwaysResults, PTL

\* Whatever a worker fails of, its job is FAILED and waits an hour: of the ways
\* a job fails only the rejected region is driven without a timeout.
THEOREM FailedWorkWaitsAnHourHolds == Spec => FailedWorkWaitsAnHour
<1> DEFINE Waits == LET workFailed == {repRes.err, prepRes.err} # {"nil"} IN
       /\ hm = "evaluate" => ~workFailed
       /\ hm = "drive" /\ hm' = "idle" /\ msg \notin BadRegions /\ workFailed =>
            driven'.state = "FAILED" /\ driven'.timeout = 60
<1>1. ResultsInv /\ [Next]_vars => Waits
  <2> SUFFICES ASSUME ResultsInv, [Next]_vars, hm = "drive", hm' = "idle", state = "FAILED"
               PROVE  driven'.state = "FAILED" /\ driven'.timeout = 60
    BY DEF ResultsInv, FailureKnown
  <2>1. ReporterStep \/ PreparerStep => UNCHANGED handler
    BY DEF ReporterStep, Request, Refresh, Sleep, CancelReport, FetchReport,
           PreparerStep, FetchAttachedPolicies, FetchPolicies, FetchAdGroups
  <2>2. Drive
    BY <2>1 DEF Next, Start, HandlerStep, Collect, Decode, RowSucceeds, RowFails, RowsDone,
                Signal, ReportProgress, vars, handler
  <2> QED BY <2>2 DEF Drive, Timeout
<1> QED BY <1>1, AlwaysResults, PTL DEF Spec, FailedWorkWaitsAnHour

\* When its context is done or Amazon is done with the report, the report worker
\* goes through its remaining states at most once.
THEOREM PollingWindsDownHolds == Spec => PollingWindsDown
<1> DEFINE Down == Settled /\ rep # "off" =>
                     Settled' /\ (UNCHANGED reporter \/ ReporterRank' < ReporterRank)
<1>1. TypeOK /\ Joined /\ [Next]_vars => Down
  <2> SUFFICES ASSUME TypeOK, Joined, [Next]_vars, Settled, rep # "off"
               PROVE  Settled' /\ (UNCHANGED reporter \/ ReporterRank' < ReporterRank)
    OBVIOUS
  <2>0. hm = "await"
    BY DEF Joined
  <2>1. CASE UNCHANGED reporter /\ (WorkDone => WorkDone') /\ (report # "pending" => report' # "pending")
    BY <2>1 DEF Settled, reporter
  <2>2. CASE Signal \/ ReportProgress \/ UNCHANGED vars
    BY <2>1, <2>2 DEF Signal, ReportProgress, vars, WorkDone
  <2>3. CASE HandlerStep
    <3>1. /\ UNCHANGED <<cancelled, reporter, report>>
          /\ workCancelled' = workCancelled \/ workCancelled' = TRUE
      BY <2>3 DEF HandlerStep, Collect, Decode, RowSucceeds, RowFails, RowsDone, Drive
    <3>2. WorkDone => WorkDone'
      BY <3>1, Zenon DEF WorkDone
    <3> QED BY <2>1, <3>1, <3>2
  <2>4. CASE PreparerStep
    <3>1. UNCHANGED <<cancelled, reporter, report>>
      BY <2>4 DEF PreparerStep, FetchAttachedPolicies, FetchPolicies, FetchAdGroups
    <3>2. workCancelled' = workCancelled \/ \E x : workCancelled' = (workCancelled \/ x)
      BY <2>4, Zenon DEF PreparerStep, FetchAttachedPolicies, FetchPolicies, FetchAdGroups,
                         PrepFails, PostPrep
    <3>3. WorkDone => WorkDone'
      BY <3>1, <3>2, Zenon DEF WorkDone
    <3> QED BY <2>1, <3>1, <3>3
  <2>5. CASE ReporterStep
    <3>1. /\ cancelled' = cancelled
          /\ workCancelled' = workCancelled \/ \E x : workCancelled' = (workCancelled \/ x)
      BY <2>5, Zenon DEF ReporterStep, Request, Refresh, ReportIs, Sleep, CancelReport,
                         FetchReport, PostReport
    <3>2. WorkDone => WorkDone'
      BY <3>1, Zenon DEF WorkDone
    <3>3. CASE Request
      <4>1. WorkDone /\ rep = "request" /\ rep' = "off"
        BY <2>5, <3>3 DEF Request, Settled, PostReport
      <4> QED BY <3>2, <4>1 DEF Settled, ReporterRank
    <3>4. CASE Refresh
      <4>1. rep = "refresh" /\ rep' \in {"fetch", "cancel", "off"} /\ report' = report
        BY <3>4 DEF Refresh, ReportIs, Settled, PostReport
      <4> QED BY <3>2, <4>1 DEF Settled, ReporterRank
    <3>5. CASE Sleep
      BY <3>2, <3>5 DEF Sleep, Settled, ReporterRank
    <3>6. CASE CancelReport \/ FetchReport
      <4>1. /\ rep \in {"cancel", "fetch"} /\ rep' = "off"
            /\ report # "pending" => report' # "pending"
        BY <3>6 DEF CancelReport, FetchReport, PostReport
      <4> QED BY <3>2, <4>1 DEF Settled, ReporterRank
    <3> QED BY <2>5, <3>3, <3>4, <3>5, <3>6 DEF ReporterStep
  <2>6. \A m \in Messages : ~Start(m)
    BY <2>0 DEF Start
  <2> QED BY <2>2, <2>3, <2>4, <2>5, <2>6 DEF Next
<1> QED BY <1>1, AlwaysResults, PTL DEF Spec, PollingWindsDown

-----------------------------------------------------------------------------
(* The task group.                                                         *)

Outcomes == [t \in {0, 1} |-> IF t = 0 THEN Outcome(repRes) ELSE Outcome(prepRes)]

\* What the contract sees of a result.
LEMMA OutcomeFacts ==
    /\ Outcome(Empty) = "pending"
    /\ \A res \in Result : res.err \in Errors =>
         /\ Outcome(res) \in {"done", "failed", "stopped"}
         /\ Outcome(res) = "done" <=> res.err = "nil"
         /\ Outcome(res) = "stopped" <=> res.err # "nil" /\ res.own = FALSE
    /\ \A res : Guilty(res) => Outcome(res) = "failed"
<1>1. Outcome(Empty) = "pending"
  BY DEF Outcome, Empty
<1>2. ASSUME NEW res \in Result, res.err \in Errors
      PROVE  /\ Outcome(res) \in {"done", "failed", "stopped"}
             /\ Outcome(res) = "done" <=> res.err = "nil"
             /\ Outcome(res) = "stopped" <=> res.err # "nil" /\ res.own = FALSE
  <2>1. res # Empty /\ res.own \in BOOLEAN
    BY <1>2, ResultsAreFull DEF Result
  <2> QED BY <2>1 DEF Outcome
<1>3. ASSUME NEW res, Guilty(res) PROVE Outcome(res) = "failed"
  BY <1>3 DEF Guilty, Outcome, Empty
<1> QED BY <1>1, <1>2, <1>3

\* A worker that is stopped has been interrupted, or the other one has failed.
LEMMA ReporterStopped ==
    JobInv /\ ReporterStep /\ rep' = "off" /\ repRes'.err # "nil" /\ repRes'.own = FALSE
        => cancelled \/ Guilty(prepRes)
<1> SUFFICES ASSUME JobInv, ReporterStep, rep' = "off",
                    repRes'.err # "nil", repRes'.own = FALSE
             PROVE  cancelled \/ Guilty(prepRes)
  OBVIOUS
<1>1. hm = "await" /\ ~Guilty(repRes)
  <2>1. rep # "off"
    BY DEF ReporterStep, Request, Refresh, Sleep, CancelReport, FetchReport
  <2> QED BY <2>1 DEF JobInv, Joined, Guilty, Empty
<1>2. WorkDone => cancelled \/ Guilty(prepRes)
  BY <1>1 DEF JobInv, BlameInv, CausesKnown, Culprit, WorkDone
<1>3. \A err : AdsFails(err) => WorkDone \/ err = "other"
  BY DEF AdsFails
<1>4. CASE Request \/ FetchReport
  <2>1. \/ \E err : AdsFails(err) /\ repRes'.own = (err = "other")
        \/ repRes'.err = "nil"
    BY <1>4, PostedReport DEF Request, FetchReport
  <2> QED BY <1>2, <1>3, <2>1
<1>5. CASE Refresh \/ Sleep
  BY <1>5, PostedReport DEF Refresh, Sleep, ReportIs
<1>6. CASE CancelReport
  <2>1. rep = "cancel" /\ repRes'.own = (refreshErr = "other")
    BY <1>6, PostedReport DEF CancelReport
  <2>2. refreshErr = "canceled"
    BY <2>1 DEF JobInv, BlameInv, CausesKnown
  <2> QED BY <1>1, <2>1, <2>2 DEF JobInv, BlameInv, CausesKnown, Culprit
<1> QED BY <1>4, <1>5, <1>6 DEF ReporterStep

LEMMA PreparerStopped ==
    JobInv /\ PreparerStep /\ prep' = "off" /\ prepRes'.err # "nil" /\ prepRes'.own = FALSE
        => cancelled \/ Guilty(repRes)
<1> SUFFICES ASSUME JobInv, PreparerStep, prep' = "off",
                    prepRes'.err # "nil", prepRes'.own = FALSE
             PROVE  cancelled \/ Guilty(repRes)
  OBVIOUS
<1>1. hm = "await" /\ ~Guilty(prepRes)
  <2>1. prep # "off"
    BY DEF PreparerStep, FetchAttachedPolicies, FetchPolicies, FetchAdGroups
  <2> QED BY <2>1 DEF JobInv, Joined, Guilty, Empty
<1>2. WorkDone => cancelled \/ Guilty(repRes)
  BY <1>1 DEF JobInv, BlameInv, CausesKnown, Culprit, WorkDone
<1>3. \A faults, wrapped : PrepFails(faults, wrapped) => WorkDone \/ prepRes'.own = TRUE
  BY PostedPrep DEF PrepFails
<1>4. \A own : PostPrep("nil", own) => prepRes'.err = "nil"
  BY PostedPrep
<1> QED BY <1>2, <1>3, <1>4
        DEF PreparerStep, FetchAttachedPolicies, FetchPolicies, FetchAdGroups

\* A worker's step is nothing to the contract, or the end of its task.
LEMMA ReporterRefines ==
    JobInv /\ ReporterStep => [Contract!Next]_(Contract!vars)
<1> SUFFICES ASSUME JobInv, ReporterStep PROVE [Contract!Next]_(Contract!vars)
  OBVIOUS
<1>1. UNCHANGED <<cancelled, hm, selected, prepRes>> /\ rep # "off" /\ hm = "await" /\ repRes = Empty
  <2>1. UNCHANGED <<cancelled, hm, selected, prepRes>> /\ rep # "off"
    BY DEF handler, preparer, ReporterStep, Request, Refresh, Sleep, CancelReport, FetchReport
  <2> QED BY <2>1 DEF JobInv, Joined
<1>2. CASE rep' # "off"
  <2>1. repRes' = repRes
    BY <1>2, PostedReport DEF ReporterStep, Request, Refresh, ReportIs, Sleep, CancelReport, FetchReport
  <2> QED BY <1>1, <2>1 DEF Contract!vars, Phase
<1>3. CASE rep' = "off"
  <2>1. repRes'.err \in Errors /\ repRes' \in Result
    BY <1>3, ReporterPosts, ReporterStepType DEF JobInv, TypeOK, ReporterTypeOK
  <2>2. Outcome(repRes)' = "stopped" => cancelled \/ Outcome(prepRes) = "failed"
    BY <1>3, <2>1, ReporterStopped, OutcomeFacts
  <2>3. Outcomes[0] = "pending" /\ Outcomes[1] = Outcome(prepRes)
    BY <1>1, OutcomeFacts DEF Outcomes
  <2>4. Outcomes' = [Outcomes EXCEPT ![0] = Outcome(repRes)']
    BY <1>1 DEF Outcomes
  <2>5. PICK o \in {"done", "failed", "stopped"} : o = Outcome(repRes')
    BY <2>1, OutcomeFacts
  <2>6. Contract!End(0, o)
    BY <1>1, <2>2, <2>3, <2>4, <2>5 DEF Contract!End, Phase, Outcomes
  <2> QED BY <2>6 DEF Contract!Next
<1> QED BY <1>2, <1>3

LEMMA PreparerRefines ==
    JobInv /\ PreparerStep => [Contract!Next]_(Contract!vars)
<1> SUFFICES ASSUME JobInv, PreparerStep PROVE [Contract!Next]_(Contract!vars)
  OBVIOUS
<1>1. UNCHANGED <<cancelled, hm, selected, repRes>> /\ prep # "off" /\ hm = "await" /\ prepRes = Empty
  <2>1. UNCHANGED <<cancelled, hm, selected, repRes>> /\ prep # "off"
    BY DEF handler, reporter, PreparerStep, FetchAttachedPolicies, FetchPolicies, FetchAdGroups
  <2> QED BY <2>1 DEF JobInv, Joined
<1>2. CASE prep' # "off"
  <2>1. prepRes' = prepRes
    BY <1>2 DEF PreparerStep, FetchAttachedPolicies, FetchPolicies, FetchAdGroups, PrepFails, PostPrep
  <2> QED BY <1>1, <2>1 DEF Contract!vars, Phase
<1>3. CASE prep' = "off"
  <2>1. prepRes'.err \in Errors /\ prepRes' \in Result
    BY <1>3, PreparerPosts, PreparerStepType DEF JobInv, TypeOK, PreparerTypeOK
  <2>2. Outcome(prepRes)' = "stopped" => cancelled \/ Outcome(repRes) = "failed"
    BY <1>3, <2>1, PreparerStopped, OutcomeFacts
  <2>3. Outcomes[1] = "pending" /\ Outcomes[0] = Outcome(repRes)
    BY <1>1, OutcomeFacts DEF Outcomes
  <2>4. Outcomes' = [Outcomes EXCEPT ![1] = Outcome(prepRes)']
    <3>1. Outcome(repRes)' = Outcome(repRes)
      BY <1>1 DEF Outcome
    <3>2. Outcomes' = [t \in {0, 1} |-> IF t = 1 THEN Outcome(prepRes)' ELSE Outcome(repRes)]
      BY <3>1 DEF Outcomes
    <3> QED BY <3>2 DEF Outcomes
  <2>5. PICK o \in {"done", "failed", "stopped"} : o = Outcome(prepRes')
    BY <2>1, OutcomeFacts
  <2>6. Contract!End(1, o)
    BY <1>1, <2>2, <2>3, <2>4, <2>5 DEF Contract!End, Phase, Outcomes
  <2> QED BY <2>6 DEF Contract!Next
<1> QED BY <1>2, <1>3

\* The join goes by both results, and blames as the contract allows.
LEMMA CollectRefines == JobInv /\ ResultsInv /\ Collect => Contract!Next
<1> SUFFICES ASSUME JobInv, ResultsInv, Collect PROVE Contract!Next
  OBVIOUS
<1>1. /\ hm = "await" /\ UNCHANGED <<cancelled, repRes, prepRes>>
      /\ selected' = SelectProcessingError(repRes.err, prepRes.err)
      /\ selected = NoError
      /\ repRes.err \in Errors /\ prepRes.err \in Errors
      /\ repRes \in Result /\ prepRes \in Result
  BY DEF Collect, reporter, preparer, JobInv, Joined, BlameInv, ResultsInv, Posting,
         TypeOK, ReporterTypeOK, PreparerTypeOK
<1>2. /\ Outcomes[0] = Outcome(repRes) /\ Outcomes[1] = Outcome(prepRes)
      /\ Outcomes' = Outcomes
  BY <1>1 DEF Outcomes
<1>3. /\ \A t \in {0, 1} : Outcomes[t] # "pending"
      /\ Outcomes[0] = "done" <=> repRes.err = "nil"
      /\ Outcomes[1] = "done" <=> prepRes.err = "nil"
  BY <1>1, <1>2, OutcomeFacts
<1>4. CASE repRes.err = "nil" /\ prepRes.err = "nil"
  <2>1. selected' = NoError
    BY <1>1, <1>4 DEF SelectProcessingError
  <2>2. hm' = "decode"
    BY <2>1 DEF Collect, NoError
  <2>3. Contract!JoinGood
    BY <1>1, <1>2, <1>3, <1>4, <2>1, <2>2 DEF Contract!JoinGood, Phase, Outcomes
  <2> QED BY <2>3 DEF Contract!Next
<1>5. CASE ~(repRes.err = "nil" /\ prepRes.err = "nil")
  <2>1. hm' = "drive"
    BY <1>1, <1>5, SelectsFailure DEF Collect
  <2>2. /\ selected'[1] \in {-1, 0, 1}
        /\ selected'[1] = 0 => repRes.err = "other"
        /\ selected'[1] = 1 => prepRes.err = "other" /\ repRes.err # "other"
        /\ selected'[1] = -1 => /\ "other" \notin {repRes.err, prepRes.err}
                                /\ "canceled" \in {repRes.err, prepRes.err}
    BY <1>1, <1>5 DEF SelectProcessingError, NoError, Errors
  <2>3. /\ repRes.err = "other" => Guilty(repRes)
        /\ prepRes.err = "other" => Guilty(prepRes) \/ cancelled \/ repRes.err = "other"
        /\ "canceled" \in {repRes.err, prepRes.err} => cancelled \/ Culprit
    BY <1>1 DEF JobInv, BlameInv, CausesKnown
  <2> DEFINE b == selected'[1]
  <2>4. \/ b \in {0, 1} /\ Outcomes[b] = "failed"
        \/ cancelled /\ (b = -1 \/ Outcomes[b] = "stopped")
    <3>1. CASE b = 0
      BY <1>2, <2>2, <2>3, <3>1, OutcomeFacts
    <3>2. CASE b = 1
      BY <1>1, <1>2, <2>2, <2>3, <3>2, OutcomeFacts
    <3>3. CASE b = -1
      BY <2>2, <2>3, <3>3 DEF Culprit, Guilty
    <3> QED BY <2>2, <3>1, <3>2, <3>3
  <2>5. Contract!JoinBad(b)
    BY <1>1, <1>2, <1>3, <1>5, <2>1, <2>4 DEF Contract!JoinBad, Phase, Outcomes
  <2> QED BY <2>2, <2>5 DEF Contract!Next
<1> QED BY <1>4, <1>5

\* The workers of a job are a task group: one stops because of SIGTERM or the
\* other's failure only, both are joined, and who is blamed did fail.
THEOREM ImplementsTaskGroupHolds == Spec => ImplementsTaskGroup
<1>1. Init => Contract!Init
  BY OutcomeFacts DEF Init, Contract!Init, Phase, NoError
<1>2. JobInv /\ ResultsInv /\ [Next]_vars => [Contract!Next]_(Contract!vars)
  <2> SUFFICES ASSUME JobInv, ResultsInv, [Next]_vars PROVE [Contract!Next]_(Contract!vars)
    OBVIOUS
  <2>1. CASE UNCHANGED <<hm, selected, repRes, prepRes>> /\ (cancelled' = cancelled \/ cancelled')
    BY <2>1 DEF Contract!Next, Contract!Interrupt, Contract!vars, Phase
  <2>2. CASE Signal \/ ReportProgress \/ RowSucceeds \/ RowFails \/ UNCHANGED vars
    BY <2>1, <2>2 DEF Signal, ReportProgress, RowSucceeds, RowFails, vars, handler, reporter, preparer
  <2>3. ASSUME NEW m \in Messages, Start(m) PROVE Contract!Next
    <3>1. hm = "idle" /\ selected' = NoError /\ cancelled' = cancelled
      BY <2>3 DEF Start
    <3>2. CASE m \in BadRegions
      BY <2>3, <3>1, <3>2 DEF Start, Contract!Reject, Contract!Next, Phase, NoError, reporter, preparer
    <3>3. CASE m \notin BadRegions
      BY <2>3, <3>1, <3>3, OutcomeFacts DEF Start, Contract!Fork, Contract!Next, Phase, NoError
    <3> QED BY <3>2, <3>3
  <2>4. CASE Decode \/ RowsDone \/ Drive
    <3>1. /\ UNCHANGED <<cancelled, selected, repRes, prepRes>>
          /\ \/ hm = "decode" /\ hm' \in {"evaluate", "drive"}
             \/ hm = "evaluate" /\ hm' = "drive"
             \/ hm = "drive" /\ hm' = "idle"
      BY <2>4 DEF Decode, RowsDone, Drive, reporter, preparer
    <3> QED BY <3>1 DEF Contract!Close, Contract!Next, Contract!vars, Phase
  <2> QED BY <2>2, <2>3, <2>4, CollectRefines, ReporterRefines, PreparerRefines
          DEF Next, HandlerStep
<1> QED BY <1>1, <1>2, AlwaysJobInv, AlwaysResults, PTL
        DEF Spec, Contract!Spec, ImplementsTaskGroup
=============================================================================
