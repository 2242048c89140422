------------------------------ MODULE Publish ------------------------------
(***************************************************************************)
(* publishChange: a live change of a bid is made at Amazon, first for the  *)
(* ad group and then for its targets, and recorded at the user service; a  *)
(* change that is not live is only recorded.  An update repeats what it    *)
(* asks for, a record is added once more with every attempt carried out.   *)
(***************************************************************************)
EXTENDS Amazon, ServiceCall, Sequences, Functions

CONSTANTS
    MaxAttempts,    \* changeBidMaxAttempts and writeChangeLogMaxAttempts
    NoChange        \* no bid change is being published

\* bidChangeResult
BidChange == [adGroup : AdGroups, old : Bids, new : Int, live : BOOLEAN]

ASSUME PublishAssumption ==
    /\ MaxAttempts \in Nat \ {0}
    /\ NoChange \notin BidChange

VARIABLES
    pub,        \* where publishChange is; "ok" and "error" when it returned
    change,     \* the bidChangeResult
    targets,    \* the targets fetched, with their bids
    tries,      \* attempts left of the call being made
    bidLog,     \* user service: the recorded changes
    job,        \* history: the number of the job
    touched,    \* history: ad groups whose default bid this job set
    unrecorded, \* history: ad groups whose default bid some job set last
                \* without a record of it
    unchanged   \* history: ad groups this job found to need no change

publishing == <<pub, change, targets, tries>>
records == <<bidLog, job, touched, unrecorded, unchanged>>

NoTargets == [t \in {} |-> NoBid]

\* The calls publishChange makes, each of them retried.
Calls == {"fetchAdGroup", "updateAdGroup", "fetchTargets", "updateTargets", "record"}

PublishInit ==
    /\ pub = "off" /\ change = NoChange /\ targets = NoTargets /\ tries = 0
    /\ bidLog = <<>> /\ job = 0
    /\ touched = {} /\ unrecorded = {} /\ unchanged = {}

\* Mutant: a change that is not live is made at Amazon, too.
PublishAlwaysLive(c) ==
    /\ change' = c
    /\ targets' = NoTargets /\ tries' = MaxAttempts
    /\ IF c.old = c.new
         THEN pub' = "ok" /\ unchanged' = unchanged \union {c.adGroup}
         ELSE pub' = "fetchAdGroup" /\ UNCHANGED unchanged
    /\ UNCHANGED <<amazon, bidLog, job, touched, unrecorded>>

\* No request is made for a live bid that is to stay what it was when it was
\* fetched.
PublishChange(c) ==
    /\ change' = c
    /\ targets' = NoTargets /\ tries' = MaxAttempts
    /\ \/ ~c.live /\ pub' = "record" /\ UNCHANGED unchanged
       \/ c.live /\ c.old = c.new /\ pub' = "ok" /\ unchanged' = unchanged \union {c.adGroup}
       \/ c.live /\ c.old # c.new /\ pub' = "fetchAdGroup" /\ UNCHANGED unchanged
    /\ UNCHANGED <<amazon, bidLog, job, touched, unrecorded>>

GoTo(step) ==
    /\ pub' = step
    /\ tries' = MaxAttempts
    /\ UNCHANGED <<change, targets>>

\* Mutant: one attempt too many.
OnceMore ==
    \/ tries > 0 /\ tries' = tries - 1 /\ UNCHANGED <<pub, change, targets>>
    \/ tries = 0 /\ GoTo("error")

\* retries.Retry after an error: another attempt, or publishChange returns it.
Again ==
    \/ tries > 1 /\ tries' = tries - 1 /\ UNCHANGED <<pub, change, targets>>
    \/ tries = 1 /\ GoTo("error")

\* Exactly one enabled ad group must come back, with a bid to change.
FetchAdGroup ==
    /\ pub = "fetchAdGroup"
    /\ IF change.adGroup \in enabled /\ bid[change.adGroup] # NoBid
         THEN GoTo("updateAdGroup") ELSE GoTo("error")
    /\ UNCHANGED <<amazon, records>>

SetByService(b) ==
    /\ SetDefaultBid(change.adGroup, b)
    /\ touched' = touched \union {change.adGroup}
    /\ unrecorded' = unrecorded \union {change.adGroup}
    /\ UNCHANGED <<bidLog, job, unchanged>>

\* Mutant: the answer is not compared with the bid that was asked for.
UpdateAdGroupUnchecked ==
    /\ pub = "updateAdGroup"
    /\ \E b \in Bids : SetByService(b) /\ (b # change.new => Faults)
    /\ GoTo("fetchTargets")

\* Amazon sets the bid, or (a wrong answer) another one.
UpdateAdGroup ==
    /\ pub = "updateAdGroup"
    /\ \E b \in Bids :
         /\ SetByService(b)
         /\ \/ b = change.new /\ GoTo("fetchTargets")
            \/ b # change.new /\ Faults /\ GoTo("error")

\* The bid is set, and the answer is lost.
UpdateAdGroupUnanswered ==
    /\ pub = "updateAdGroup"
    /\ Faults
    /\ change.new \in Bids
    /\ SetByService(change.new)
    /\ Again

\* Amazon answers without a success: a bid out of bounds, say.
UpdateAdGroupRefused ==
    /\ pub = "updateAdGroup"
    /\ Faults \/ change.new \notin Bids
    /\ GoTo("error")
    /\ UNCHANGED <<amazon, records>>

FetchTargets ==
    /\ pub = "fetchTargets"
    /\ targets' = [t \in TargetsOf(change.adGroup) |-> targetBid[t]]
    /\ pub' = "updateTargets" /\ tries' = MaxAttempts
    /\ UNCHANGED <<change, amazon, records>>

\* buildTargetBidUpdates
TargetBidUpdates ==
    {t \in DOMAIN targets : targets[t] # NoBid /\ targets[t] # change.new}

\* Mutant: an answer without an error will do.
UpdateTargetsUncounted ==
    /\ pub = "updateTargets"
    /\ \E S \in SUBSET TargetBidUpdates :
         /\ SetTargetBids(S, change.new)
         /\ S # TargetBidUpdates => Faults
    /\ GoTo("record")
    /\ UNCHANGED records

\* All targets that differ are updated in one call, if there are any; Amazon
\* may refuse some, or answer with another bid, and then the change failed.
UpdateTargets ==
    /\ pub = "updateTargets"
    /\ \/ SetTargetBids(TargetBidUpdates, change.new) /\ GoTo("record")
       \/ /\ Faults /\ TargetBidUpdates # {}
          /\ \E S \in SUBSET TargetBidUpdates, b \in Bids : SetTargetBids(S, b)
          /\ GoTo("error")
    /\ UNCHANGED records

UpdateTargetsUnanswered ==
    /\ pub = "updateTargets"
    /\ Faults
    /\ \E S \in SUBSET TargetBidUpdates \ {{}} : SetTargetBids(S, change.new)
    /\ Again
    /\ UNCHANGED records

Record ==
    [job |-> job, adGroup |-> change.adGroup, old |-> change.old, new |-> change.new,
     live |-> change.live, attempt |-> MaxAttempts - tries]

\* Mutant: a record that could not be written does not matter.
CreateBidIgnored ==
    /\ pub = "record"
    /\ \/ /\ bidLog' = Append(bidLog, Record)
          /\ unrecorded' = IF change.live THEN unrecorded \ {change.adGroup} ELSE unrecorded
       \/ Faults /\ UNCHANGED <<bidLog, unrecorded>>
    /\ GoTo("ok")
    /\ UNCHANGED <<amazon, job, touched, unchanged>>

\* The user service records the change, whatever its reply makes of it here.
CreateBid ==
    /\ pub = "record"
    /\ bidLog' = Append(bidLog, Record)
    /\ unrecorded' = IF change.live THEN unrecorded \ {change.adGroup} ELSE unrecorded
    /\ \E reply \in RepliesTo(TRUE) :
         /\ IsError(reply) => Faults
         /\ IF IsError(reply) THEN Again ELSE GoTo("ok")
    /\ UNCHANGED <<amazon, job, touched, unchanged>>

\* A call that was not carried out.
CallFails ==
    /\ pub \in Calls
    /\ pub = "updateTargets" => TargetBidUpdates # {}
    /\ Faults
    /\ Again
    /\ UNCHANGED <<amazon, records>>

PublishStep ==
    \/ CallFails
    \/ FetchAdGroup
    \/ UpdateAdGroup \/ UpdateAdGroupUnanswered \/ UpdateAdGroupRefused
    \/ FetchTargets
    \/ UpdateTargets \/ UpdateTargetsUnanswered
    \/ CreateBid

-----------------------------------------------------------------------------
BidRecord == [job : Nat, adGroup : AdGroups, old : Bids, new : Int,
              live : BOOLEAN, attempt : 0 .. MaxAttempts - 1]

PublishTypeOK ==
    /\ pub \in Calls \union {"off", "ok", "error"}
    /\ change \in BidChange \union {NoChange}
    /\ pub # "off" => change \in BidChange
    /\ DOMAIN targets \in SUBSET Targets
    /\ \A t \in DOMAIN targets : targets[t] \in BidOrNone
    /\ tries \in 0 .. MaxAttempts
    /\ bidLog \in Seq(BidRecord)
    /\ job \in Nat
    /\ touched \in SUBSET AdGroups
    /\ unrecorded \in SUBSET AdGroups
    /\ unchanged \in SUBSET AdGroups
=============================================================================
