----------------------------- MODULE ProfileJob -----------------------------
(***************************************************************************)
(* One profile's jobs, one after another, as handleMessage runs them: the  *)
(* preparation takes its snapshot, the report decides which ad groups are  *)
(* looked at, each row's policy is evaluated and its bid change published. *)
(* Between any two steps the seller may change bids and the process may    *)
(* die.  HandleMessage has the goroutines and the errors of this; here are *)
(* the bids and what is recorded of them.                                  *)
(***************************************************************************)
EXTENDS Preparation, Publish

CONSTANTS
    Results,    \* what evaluating a policy may yield
    MaxJobs     \* bound: jobs of the profile

ASSUME JobAssumption ==
    /\ \A r \in Results :
         r.operator \in {"=", "+", "-"} /\ r.amount \in Int /\ r.percentage \in BOOLEAN
    /\ MaxJobs \in Nat

VARIABLES
    at,         \* where handleMessage is
    state,      \* its local variable state
    report,     \* the ad groups the decoded report has a row for
    done        \* the rows dealt with

handler == <<at, state, report, done>>
vars == <<amazon, preparation, publishing, records, handler>>

Init ==
    /\ AmazonInit /\ PrepInit /\ PublishInit
    /\ at = "idle" /\ state = "PENDING" /\ report = {} /\ done = {}

Start ==
    /\ at = "idle"
    /\ job < MaxJobs
    /\ job' = job + 1
    /\ touched' = {} /\ unchanged' = {}
    /\ at' = "prepare" /\ state' = "PENDING"
    /\ PrepStart
    /\ UNCHANGED <<amazon, publishing, bidLog, unrecorded, report, done>>

Prepare ==
    /\ at = "prepare"
    /\ PrepStep
    /\ UNCHANGED <<amazon, publishing, records, handler>>

\* Both workers delivered and the report was decoded; its rows are in any order.
Join ==
    /\ at = "prepare" /\ prep = "done"
    /\ \/ at' = "rows" /\ report' \in SUBSET AdGroups /\ UNCHANGED state
       \/ Faults /\ at' = "ended" /\ state' = "FAILED" /\ UNCHANGED report
    /\ UNCHANGED <<amazon, preparation, publishing, records, done>>

JoinFails ==
    /\ at = "prepare" /\ prep = "failed"
    /\ at' = "ended" /\ state' = "FAILED"
    /\ UNCHANGED <<amazon, preparation, publishing, records, report, done>>

AtRow(g) == at = "rows" /\ pub = "off" /\ g \in report \ done

\* Nothing (enabled) is attached to the ad group.
RowSkipped(g) ==
    /\ AtRow(g)
    /\ g \notin DOMAIN lookup
    /\ done' = done \union {g}
    /\ UNCHANGED <<amazon, preparation, publishing, records, at, state, report>>

\* No policy, a policy that cannot be evaluated, or no bid to change.
RowFails(g) ==
    /\ AtRow(g)
    /\ g \in DOMAIN lookup
    /\ lookup[g].policy = NoPolicy \/ lookup[g].bid = NoBid \/ Faults
    /\ done' = done \union {g}
    /\ state' = "SOME ERRORS"
    /\ UNCHANGED <<amazon, preparation, publishing, records, at, report>>

\* evaluate: what bidscript may make of the policy and the row's metrics.
Evaluations(policy) == IF policy = NoPolicy THEN {} ELSE Results

\* A percentage is one of the bid, "=" takes the amount as it is, and nothing
\* keeps the result within bounds.  (Floating point in the code.)
NewBid(old, r) ==
    LET adjustment == IF r.percentage THEN (old * r.amount) \div 100 ELSE r.amount
    IN  CASE r.operator = "=" -> r.amount
          [] r.operator = "+" -> old + adjustment
          [] r.operator = "-" -> old - adjustment

RowEvaluated(g) ==
    /\ AtRow(g)
    /\ g \in DOMAIN lookup
    /\ lookup[g].bid # NoBid
    /\ \E r \in Evaluations(lookup[g].policy) :
         PublishChange([adGroup |-> g, old |-> lookup[g].bid,
                        new |-> NewBid(lookup[g].bid, r), live |-> lookup[g].live])
    /\ UNCHANGED <<preparation, handler>>

RowPublishing ==
    /\ at = "rows"
    /\ PublishStep
    /\ UNCHANGED <<preparation, handler>>

\* Mutant: a row whose change could not be published is taken up again.
RowTakenUpAgain ==
    /\ at = "rows" /\ pub \in {"ok", "error"}
    /\ done' = IF pub = "error" THEN done ELSE done \union {change.adGroup}
    /\ state' = IF pub = "error" THEN "SOME ERRORS" ELSE state
    /\ pub' = "off" /\ change' = NoChange /\ targets' = NoTargets /\ tries' = 0
    /\ UNCHANGED <<amazon, preparation, records, at, report>>

RowPublished ==
    /\ at = "rows" /\ pub \in {"ok", "error"}
    /\ done' = done \union {change.adGroup}
    /\ state' = IF pub = "error" THEN "SOME ERRORS" ELSE state
    /\ pub' = "off" /\ change' = NoChange /\ targets' = NoTargets /\ tries' = 0
    /\ UNCHANGED <<amazon, preparation, records, at, report>>

RowsDone ==
    /\ at = "rows" /\ pub = "off"
    /\ report \subseteq done
    /\ at' = "ended"
    /\ UNCHANGED <<amazon, preparation, publishing, records, state, report, done>>

\* The job's memory is gone, when it was driven or with the process.
Forget ==
    /\ at' = "idle" /\ state' = "PENDING" /\ report' = {} /\ done' = {}
    /\ prep' = "off" /\ attached' = <<>> /\ policies' = {} /\ fetched' = Nothing
    /\ next' = 1 /\ lookup' = Nothing
    /\ pub' = "off" /\ change' = NoChange /\ targets' = NoTargets /\ tries' = 0
    /\ UNCHANGED <<amazon, records>>

Finish == at = "ended" /\ Forget
Crash == at \in {"prepare", "rows"} /\ Forget

JobStep ==
    \/ Prepare \/ Join \/ JoinFails
    \/ \E g \in AdGroups : RowSkipped(g) \/ RowFails(g) \/ RowEvaluated(g)
    \/ RowPublishing \/ RowPublished \/ RowsDone \/ Finish

Seller ==
    /\ \E g \in AdGroups : SellerChanges(g)
    /\ UNCHANGED <<preparation, publishing, records, handler>>

Next == Start \/ JobStep \/ Crash \/ Seller

Spec == Init /\ [][Next]_vars

-----------------------------------------------------------------------------
(* Properties.                                                             *)

HandlerTypeOK ==
    /\ at \in {"idle", "prepare", "rows", "ended"}
    /\ state \in {"PENDING", "FAILED", "SOME ERRORS"}
    /\ report \in SUBSET AdGroups
    /\ done \in SUBSET AdGroups

TypeOK == AmazonTypeOK /\ PrepTypeOK /\ PublishTypeOK /\ HandlerTypeOK

\* Amazon is changed only for ad groups whose first attachment is live: a
\* policy on trial stays on trial whatever else is attached, fails, is
\* retried or runs again after a crash.
OnlyLivePoliciesChangeBids ==
    \A g \in touched : at = "idle" \/
        \E i \in DOMAIN attached : IsFirst(i, g) /\ attached[i].live

\* A job that reports PENDING did what it says: each ad group of the report
\* that has a policy was recorded or needed no change, and none was changed
\* at Amazon without a record.
Recorded(g) == \E i \in DOMAIN bidLog : bidLog[i].job = job /\ bidLog[i].adGroup = g
SuccessIsComplete ==
    at = "ended" /\ state = "PENDING" =>
        /\ touched \intersect unrecorded = {}
        /\ \A g \in report \intersect DOMAIN lookup : g \in unchanged \/ Recorded(g)

\* A live change is recorded after it was made in full: the ad group and all
\* its targets that have a bid have the new one (unless the seller interfered).
RecordedIsDone ==
    pub = "record" /\ change.live /\ change.adGroup \notin seller =>
        /\ bid[change.adGroup] = change.new
        /\ Aligned(change.adGroup)

\* The record is an account of the bids: the last live record of an ad group
\* names its bid at Amazon, unless the seller changed it since or a job that
\* failed or died did not get as far as its record.
LogFollowsBids ==
    \A i \in DOMAIN bidLog :
        LET g == bidLog[i].adGroup
            last == \A j \in i + 1 .. Len(bidLog) : bidLog[j].adGroup = g => ~bidLog[j].live
        IN  bidLog[i].live /\ last /\ g \notin seller \union unrecorded
                => bid[g] = bidLog[i].new

\* One job records one change of an ad group; what is recorded again is the
\* same change, by a retry after an answer that got lost, and not more often
\* than there are attempts.
OneChangePerJob ==
    \A i, j \in DOMAIN bidLog :
        i < j /\ bidLog[i].job = bidLog[j].job /\ bidLog[i].adGroup = bidLog[j].adGroup =>
            /\ bidLog[i].attempt < bidLog[j].attempt
            /\ \A f \in {"old", "new", "live"} : bidLog[i][f] = bidLog[j][f]

\* Targets differ from their ad group only where the seller made them differ,
\* or where a job set the ad group's bid and did not get as far as its record.
OnlyUnfinishedMisaligns == \A g \in AdGroups : Aligned(g) \/ g \in seller \union unrecorded

\* "No point making a request if no change": what is skipped needs nothing.
SkippedNeedsNothing == \A g \in unchanged : Aligned(g)
=============================================================================
