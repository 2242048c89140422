--------------------------- MODULE HandleMessage ---------------------------
(***************************************************************************)
(* handleMessage of one processor, run for one message after another: the  *)
(* report worker and the preparation worker run in parallel under a shared *)
(* work context, handleMessage joins them, picks the error to blame,       *)
(* evaluates the report rows and drives the schedule.                      *)
(*                                                                         *)
(* External, and modelled from how they are used: a call made under a      *)
(* cancelled context fails with an error that is context.Canceled and is   *)
(* not carried out; retries.Retry is one call that succeeds or fails (its  *)
(* attempts only repeat); Amazon generates a report in its own time.       *)
(***************************************************************************)
EXTENDS Integers

CONSTANTS
    Messages,       \* the jobs that arrive, with their own token and region
    BadRegions,     \* the messages whose region the Ads client rejects
    MaxRows,        \* bound: the most rows a decoded report has
    AdsFaults,      \* TRUE: calls to Amazon may fail
    ServiceFaults,  \* TRUE: calls to the user and policy service may fail
    None            \* "no message"

ASSUME ConstantsAssumption ==
    /\ BadRegions \subseteq Messages
    /\ MaxRows \in Nat
    /\ {AdsFaults, ServiceFaults} \subseteq BOOLEAN
    /\ None \notin Messages

Errors == {"nil", "canceled", "other"}

\* What is in a result channel; "own" is history: the worker failed by
\* itself, not because the context was cancelled under it.
Empty == [err |-> "empty", own |-> FALSE]
Result == [err : Errors, own : BOOLEAN] \union {Empty}

NoError == <<-1, "nil">>

VARIABLES
    cancelled,      \* the processor's context (SIGTERM)
    workCancelled,  \* cancel was called on workCtx
    hm,             \* where handleMessage is
    msg,            \* its message
    state,          \* its local variable state
    selected,       \* what selectProcessingError returned: <<index, error>>
    rows,           \* report rows still to be evaluated
    rowFailed,      \* history: some row of this job failed
    client,         \* the Ads client: whose token and whose region it has
    rep, repMsg,    \* the report worker: where it is, the message it is for
    refreshErr,     \* the error of the Refresh that made it cancel the report
    report,         \* Amazon: the report of the current request
    repRes,         \* reportCh
    prep, prepMsg,  \* the preparation worker, likewise
    attached,       \* the preparation found attached policies
    prepRes,        \* prepCh
    driven          \* history: the request that drove the last schedule

handler == <<hm, msg, state, selected, rows, rowFailed, client, driven>>
reporter == <<rep, repMsg, refreshErr, repRes>>
preparer == <<prep, prepMsg, attached, prepRes>>
vars == <<cancelled, workCancelled, handler, reporter, report, preparer>>

NotDriven == [state |-> "PENDING", timeout |-> 0, applied |-> FALSE]

Init ==
    /\ cancelled = FALSE /\ workCancelled = FALSE
    /\ hm = "idle" /\ msg = None /\ state = "PENDING"
    /\ selected = NoError /\ rows = 0 /\ rowFailed = FALSE
    /\ client = [token |-> None, region |-> None]
    /\ rep = "off" /\ repMsg = None /\ refreshErr = "nil" /\ repRes = Empty
    /\ report = "none"
    /\ prep = "off" /\ prepMsg = None /\ attached = FALSE /\ prepRes = Empty
    /\ driven = NotDriven

\* workCtx is done: by its own cancel function or with its parent.
WorkDone == cancelled \/ workCancelled

Signal ==
    /\ ~cancelled
    /\ cancelled' = TRUE
    /\ UNCHANGED <<workCancelled, handler, reporter, report, preparer>>

-----------------------------------------------------------------------------
(* handleMessage.                                                          *)

\* The token is set before the region, so a rejected region leaves the client
\* with this message's token and the region of an earlier one.
Start(m) ==
    /\ hm = "idle"
    /\ msg' = m
    /\ state' = "PENDING" /\ selected' = NoError /\ rows' = 0 /\ rowFailed' = FALSE
    /\ IF m \in BadRegions
         THEN /\ client' = [client EXCEPT !.token = m]
              /\ hm' = "drive"
              /\ UNCHANGED <<workCancelled, reporter, report, preparer>>
         ELSE /\ client' = [token |-> m, region |-> m]
              /\ hm' = "await"
              /\ workCancelled' = FALSE
              /\ rep' = "request" /\ repMsg' = m /\ refreshErr' = "nil"
              /\ prep' = "attached" /\ prepMsg' = m /\ attached' = FALSE
              /\ repRes' = Empty /\ prepRes' = Empty
              /\ report' = "none"
    /\ UNCHANGED <<cancelled, driven>>

\* Mutant: the first error, cancellation or not.
SelectFirstError(reportErr, prepErr) ==
    CASE reportErr # "nil" -> <<0, reportErr>>
      [] reportErr = "nil" /\ prepErr # "nil" -> <<1, prepErr>>
      [] OTHER -> NoError

\* Mutant: being cancelled is not an error.
SelectRealError(reportErr, prepErr) ==
    CASE reportErr = "other" -> <<0, "other">>
      [] reportErr # "other" /\ prepErr = "other" -> <<1, "other">>
      [] OTHER -> NoError

\* The first error that is not a cancellation, else a cancellation, else none.
SelectProcessingError(reportErr, prepErr) ==
    CASE reportErr = "other" -> <<0, "other">>
      [] reportErr # "other" /\ prepErr = "other" -> <<1, "other">>
      [] "other" \notin {reportErr, prepErr} /\ "canceled" \in {reportErr, prepErr}
            -> <<-1, "canceled">>
      [] OTHER -> NoError

\* Mutant: the report's error is returned before the preparation is joined.
CollectEarly ==
    /\ hm = "await"
    /\ repRes # Empty
    /\ repRes.err = "nil" => prepRes # Empty
    /\ selected' = SelectProcessingError(repRes.err, prepRes.err)
    /\ IF selected'[2] = "nil"
         THEN hm' = "decode" /\ UNCHANGED state
         ELSE hm' = "drive" /\ state' = "FAILED"
    /\ UNCHANGED <<cancelled, workCancelled, msg, rows, rowFailed, client,
                   driven, reporter, report, preparer>>

\* Both channels deliver; nothing goes on while a worker is still running.
Collect ==
    /\ hm = "await"
    /\ repRes # Empty /\ prepRes # Empty
    /\ selected' = SelectProcessingError(repRes.err, prepRes.err)
    /\ IF selected'[2] = "nil"
         THEN hm' = "decode" /\ UNCHANGED state
         ELSE hm' = "drive" /\ state' = "FAILED"
    /\ UNCHANGED <<cancelled, workCancelled, msg, rows, rowFailed, client,
                   driven, reporter, report, preparer>>

Decode ==
    /\ hm = "decode"
    /\ \/ \E n \in 0 .. MaxRows :
            rows' = n /\ hm' = "evaluate" /\ UNCHANGED state
       \/ hm' = "drive" /\ state' = "FAILED" /\ UNCHANGED rows
    /\ UNCHANGED <<cancelled, workCancelled, msg, selected, rowFailed, client,
                   driven, reporter, report, preparer>>

\* Mutant: every row sets the state of the job.
RowResetsState ==
    /\ hm = "evaluate" /\ rows > 0
    /\ rows' = rows - 1
    /\ state' = "PENDING"
    /\ UNCHANGED <<cancelled, workCancelled, hm, msg, selected, rowFailed,
                   client, driven, reporter, report, preparer>>

\* Mutant: one row more than the report has.
RowPastTheEnd ==
    /\ hm = "evaluate" /\ rows >= 0
    /\ rows' = rows - 1
    /\ UNCHANGED <<cancelled, workCancelled, hm, msg, state, selected, rowFailed,
                   client, driven, reporter, report, preparer>>

\* A row without an attached policy, or whose change was published.
RowSucceeds ==
    /\ hm = "evaluate" /\ rows > 0
    /\ rows' = rows - 1
    /\ UNCHANGED <<cancelled, workCancelled, hm, msg, state, selected, rowFailed,
                   client, driven, reporter, report, preparer>>

\* A row whose policy is missing, or could not be evaluated, or has no bid, or
\* whose change could not be published.
RowFails ==
    /\ hm = "evaluate" /\ rows > 0
    /\ attached
    /\ rows' = rows - 1
    /\ state' = "SOME ERRORS"
    /\ rowFailed' = TRUE
    /\ UNCHANGED <<cancelled, workCancelled, hm, msg, selected, client, driven,
                   reporter, report, preparer>>

RowsDone ==
    /\ hm = "evaluate" /\ rows = 0
    /\ hm' = "drive"
    /\ UNCHANGED <<cancelled, workCancelled, msg, state, selected, rows, rowFailed,
                   client, driven, reporter, report, preparer>>

\* The deferred cancel(nil) runs before the deferred drive.
Timeout == IF state = "FAILED" THEN 60 ELSE 0

Drive ==
    /\ hm = "drive"
    /\ workCancelled' = TRUE
    /\ \E applied \in BOOLEAN :
        /\ applied => ~cancelled
        /\ ~applied => cancelled \/ ServiceFaults
        /\ driven' = [state |-> state, timeout |-> Timeout, applied |-> applied]
    /\ hm' = "idle"
    /\ UNCHANGED <<cancelled, msg, state, selected, rows, rowFailed, client,
                   reporter, report, preparer>>

-----------------------------------------------------------------------------
(* runReportWorker and handleReport.                                       *)

\* Of a call: it may succeed, may fail by itself, and under a done workCtx
\* does only fail, with context.Canceled.
AdsFails(err) ==
    \/ WorkDone /\ err = "canceled"
    \/ ~WorkDone /\ AdsFaults /\ err = "other"

\* cancel, then the result: one step, for handleMessage waits for the result
\* and the other worker only for the cancellation.
PostReport(err, own, alsoCancel) ==
    /\ rep' = "off"
    /\ repRes' = [err |-> err, own |-> own]
    /\ workCancelled' = (workCancelled \/ alsoCancel)

Request ==
    /\ rep = "request"
    /\ \/ ~WorkDone /\ report' = "pending" /\ rep' = "refresh"
          /\ UNCHANGED <<repRes, workCancelled>>
       \/ \E err \in Errors :
            AdsFails(err) /\ PostReport(err, err = "other", FALSE) /\ UNCHANGED report
    /\ UNCHANGED <<cancelled, handler, repMsg, refreshErr, preparer>>

ReportIs(st) ==
    \/ st = "pending" /\ rep' = "sleep" /\ UNCHANGED <<repRes, workCancelled>>
    \/ st = "completed" /\ rep' = "fetch" /\ UNCHANGED <<repRes, workCancelled>>
    \/ st = "failed" /\ PostReport("other", TRUE, TRUE)

\* Mutant: the refresh does not run under the work context.
RefreshOutsideContext ==
    /\ rep = "refresh"
    /\ ReportIs(report)
    /\ UNCHANGED <<cancelled, handler, repMsg, refreshErr, report, preparer>>

Refresh ==
    /\ rep = "refresh"
    /\ \/ ~WorkDone /\ ReportIs(report) /\ UNCHANGED refreshErr
       \/ \E err \in Errors :
            /\ AdsFails(err) /\ rep' = "cancel" /\ refreshErr' = err
            /\ UNCHANGED <<repRes, workCancelled>>
    /\ UNCHANGED <<cancelled, handler, repMsg, report, preparer>>

\* The 30 second timer against workCtx.Done().
Sleep ==
    /\ rep = "sleep"
    /\ \/ rep' = "refresh" /\ UNCHANGED refreshErr
       \/ WorkDone /\ rep' = "cancel" /\ refreshErr' = "canceled"
    /\ UNCHANGED <<cancelled, workCancelled, handler, repMsg, repRes, report, preparer>>

\* cancelReport under the same workCtx; the errors are joined, and a joined
\* error is context.Canceled when one of them is.
CancelReport ==
    /\ rep = "cancel"
    /\ \/ /\ ~WorkDone
          /\ report' = (IF report = "pending" THEN "cancelled" ELSE report)
          /\ PostReport(refreshErr, refreshErr = "other", TRUE)
       \/ \E err \in Errors :
            /\ AdsFails(err)
            /\ PostReport(IF "canceled" \in {err, refreshErr} THEN "canceled" ELSE "other",
                          refreshErr = "other", TRUE)
            /\ UNCHANGED report
    /\ UNCHANGED <<cancelled, handler, repMsg, refreshErr, preparer>>

FetchReport ==
    /\ rep = "fetch"
    /\ \/ ~WorkDone /\ PostReport("nil", FALSE, FALSE)
       \/ \E err \in Errors : AdsFails(err) /\ PostReport(err, err = "other", TRUE)
    /\ UNCHANGED <<cancelled, handler, repMsg, refreshErr, report, preparer>>

\* Amazon generates the report, in its own time.
ReportProgress ==
    /\ report = "pending"
    /\ report' \in {"completed", "failed"}
    /\ UNCHANGED <<cancelled, workCancelled, handler, reporter, preparer>>

-----------------------------------------------------------------------------
(* runPreparationWorker and prepareProfileData.                            *)

\* Mutant: the channel gets a result on success only.
PostPrepIfNil(err, own) ==
    /\ prep' = "off"
    /\ prepRes' = IF err = "nil" THEN [err |-> err, own |-> own] ELSE prepRes
    /\ workCancelled' = (workCancelled \/ err # "nil")

PostPrep(err, own) ==
    /\ prep' = "off"
    /\ prepRes' = [err |-> err, own |-> own]
    /\ workCancelled' = (workCancelled \/ err # "nil")

\* The error of a failed fetch, which is context.Canceled only if it is
\* wrapped with %w: the attached policies' is, the other two use %v.
PrepFails(faults, wrapped) ==
    \/ WorkDone /\ PostPrep(IF wrapped THEN "canceled" ELSE "other", FALSE)
    \/ ~WorkDone /\ faults /\ PostPrep("other", TRUE)

FetchAttachedPolicies ==
    /\ prep = "attached"
    /\ \/ /\ ~WorkDone
          /\ \/ PostPrep("nil", FALSE) /\ UNCHANGED attached
             \/ prep' = "policies" /\ attached' = TRUE /\ UNCHANGED <<prepRes, workCancelled>>
       \/ PrepFails(ServiceFaults, TRUE) /\ UNCHANGED attached
    /\ UNCHANGED <<cancelled, handler, reporter, report, prepMsg>>

FetchPolicies ==
    /\ prep = "policies"
    /\ \/ ~WorkDone /\ prep' = "adGroups" /\ UNCHANGED <<prepRes, workCancelled>>
       \/ PrepFails(ServiceFaults, FALSE)
    /\ UNCHANGED <<cancelled, handler, reporter, report, prepMsg, attached>>

FetchAdGroups ==
    /\ prep = "adGroups"
    /\ \/ ~WorkDone /\ PostPrep("nil", FALSE)
       \/ PrepFails(AdsFaults, FALSE)
    /\ UNCHANGED <<cancelled, handler, reporter, report, prepMsg, attached>>

-----------------------------------------------------------------------------
HandlerStep ==
    Collect \/ Decode \/ RowSucceeds \/ RowFails \/ RowsDone \/ Drive
ReporterStep == Request \/ Refresh \/ Sleep \/ CancelReport \/ FetchReport
PreparerStep == FetchAttachedPolicies \/ FetchPolicies \/ FetchAdGroups

Next ==
    \/ Signal
    \/ \E m \in Messages : Start(m)
    \/ HandlerStep
    \/ ReporterStep
    \/ PreparerStep
    \/ ReportProgress

Spec == Init /\ [][Next]_vars

\* The three goroutines run on; Amazon, SIGTERM and new messages owe nothing.
FairSpec ==
    /\ Spec
    /\ WF_vars(HandlerStep) /\ WF_vars(ReporterStep) /\ WF_vars(PreparerStep)

-----------------------------------------------------------------------------
(* Properties.                                                             *)

States == {"PENDING", "FAILED", "SOME ERRORS"}
MessageOrNone == Messages \union {None}

ContextsTypeOK == cancelled \in BOOLEAN /\ workCancelled \in BOOLEAN

HandlerTypeOK ==
    /\ hm \in {"idle", "await", "decode", "evaluate", "drive"}
    /\ msg \in MessageOrNone
    /\ state \in States
    /\ selected \in {-1, 0, 1} \X Errors
    /\ rows \in 0 .. MaxRows
    /\ rowFailed \in BOOLEAN
    /\ client \in [token : MessageOrNone, region : MessageOrNone]
    /\ driven \in [state : States, timeout : {0, 60}, applied : BOOLEAN]

ReporterTypeOK ==
    /\ rep \in {"off", "request", "refresh", "sleep", "cancel", "fetch"}
    /\ repMsg \in MessageOrNone
    /\ refreshErr \in Errors
    /\ repRes \in Result
    /\ report \in {"none", "pending", "completed", "failed", "cancelled"}

PreparerTypeOK ==
    /\ prep \in {"off", "attached", "policies", "adGroups"}
    /\ prepMsg \in MessageOrNone
    /\ attached \in BOOLEAN
    /\ prepRes \in Result

TypeOK == ContextsTypeOK /\ HandlerTypeOK /\ ReporterTypeOK /\ PreparerTypeOK

\* Every call to Amazon is made with the token and the region of the message
\* it is made for, although one client serves all the messages of a processor
\* and the workers read it from goroutines of their own: no worker outlives
\* its message.
CredentialsMatch ==
    /\ rep # "off" => client = [token |-> repMsg, region |-> repMsg]
    /\ prep # "off" => client = [token |-> prepMsg, region |-> prepMsg]
    /\ hm = "evaluate" => client = [token |-> msg, region |-> msg]

\* The side handleMessage blames did fail by itself; only SIGTERM makes it
\* blame a victim (the preparation, whose later errors hide the cancellation)
\* or nobody (the branch "just for completeness").
BlameIsOwn ==
    /\ selected[1] = 0 => repRes.own
    /\ selected[1] = 1 => prepRes.own \/ cancelled
    /\ selected[1] = -1 => selected = NoError \/ cancelled

\* A row that failed decides the state of the whole job whatever the rows
\* after it do, and SOME ERRORS is never reported for anything else.
StateMatchesRows ==
    hm \in {"evaluate", "drive"} =>
        /\ state = "SOME ERRORS" <=> rowFailed
        /\ state = "FAILED" => rows = 0 /\ hm = "drive"

\* While handleMessage waits, each worker either runs, with its channel empty,
\* or has left its one result there: no send ever waits, and no error path of
\* a worker ends without a result.
OneResultEach ==
    hm = "await" => /\ rep = "off" <=> repRes # Empty
                    /\ prep = "off" <=> prepRes # Empty

\* The two workers as a task group: 0 is the report worker, 1 the preparation.
Phase ==
    CASE hm = "idle" -> "idle"
      [] hm = "await" -> "running"
      [] hm \in {"decode", "evaluate"} -> "good"
      [] hm = "drive" -> "over"
Outcome(res) ==
    CASE res = Empty -> "pending"
      [] res.err = "nil" -> "done"
      [] res.err # "nil" /\ res.own -> "failed"
      [] OTHER -> "stopped"
Contract == INSTANCE TaskGroup WITH
    Tasks <- {0, 1}, Nobody <- -1,
    interrupted <- cancelled,
    phase <- Phase,
    outcome <- [t \in {0, 1} |-> IF t = 0 THEN Outcome(repRes) ELSE Outcome(prepRes)],
    blamed <- selected[1]

\* A worker is stopped by SIGTERM or by the other's failure only, both are joined
\* before anything goes on, and who is blamed did fail.
ImplementsTaskGroup == Contract!Spec

\* A job of which a worker failed, for whatever reason, is driven to FAILED
\* and waits its hour; no row is evaluated on half of the data.
FailedWorkWaitsAnHour ==
    [][LET workFailed == {repRes.err, prepRes.err} # {"nil"} IN
       /\ hm = "evaluate" => ~workFailed
       /\ hm = "drive" /\ hm' = "idle" /\ msg \notin BadRegions /\ workFailed =>
            driven'.state = "FAILED" /\ driven'.timeout = 60]_vars

\* Once the work context is done or Amazon has finished with the report, it
\* stays so while the report worker runs, and each of the worker's steps brings
\* it nearer to its end: there is no round of polling after the last.
Settled == WorkDone \/ (report # "pending" /\ rep # "request")
ReporterRank ==
    CASE rep = "sleep" -> 3
      [] rep = "refresh" -> 2
      [] rep \in {"request", "cancel", "fetch"} -> 1
      [] OTHER -> 0
PollingWindsDown ==
    [][Settled /\ rep # "off" =>
        Settled' /\ (UNCHANGED reporter \/ ReporterRank' < ReporterRank)]_vars

\* Once the work context is done the report worker ends, without waiting for
\* Amazon to finish the report: preparation errors and SIGTERM stop the
\* polling.
CancelStopsPolling == WorkDone /\ rep # "off" ~> rep = "off"

\* Unless Amazon leaves a report pending for ever, every message handleMessage
\* takes is handled to the end: the two channels always deliver, on every
\* error path of both workers.
JobEnds == []<>(report # "pending") => (hm # "idle" ~> hm = "idle")

\* "On failure, we should drive the policy back exactly 1 hour".
FailureWaitsAnHour ==
    [][hm = "drive" /\ hm' = "idle" /\ (msg \in BadRegions \/ selected[2] # "nil")
        => driven'.timeout = 60]_vars

\* "We were cancelled by another goroutine, so we must cancel the report
\* generation": no job leaves Amazon generating its report.
ReportNotLeftRunning == hm = "idle" => report # "pending"
=============================================================================
