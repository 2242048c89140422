----------------------------- MODULE TaskGroup -----------------------------
(***************************************************************************)
(* What handleMessage promises of the parallel part of a job: the tasks    *)
(* run side by side, "either side can stop the other", nothing goes on     *)
(* before both have ended, only complete results are worked with, and who  *)
(* is blamed for a failure did fail.                                       *)
(***************************************************************************)
CONSTANTS
    Tasks,
    Nobody      \* nobody is blamed

VARIABLES
    interrupted,    \* the whole group is told to stop, from outside
    phase,          \* "idle", "running", "good": all tasks are done and their
                    \* results are worked with, "over": the job is to be closed
    outcome,        \* outcome[t]: "pending", "done", "failed" by itself, or
                    \* "stopped" because of somebody else
    blamed          \* the task blamed for the failure of the group

vars == <<interrupted, phase, outcome, blamed>>

Init ==
    /\ interrupted = FALSE
    /\ phase = "idle"
    /\ outcome = [t \in Tasks |-> "pending"]
    /\ blamed = Nobody

Interrupt ==
    /\ interrupted' = TRUE
    /\ UNCHANGED <<phase, outcome, blamed>>

Fork ==
    /\ phase = "idle"
    /\ phase' = "running"
    /\ outcome' = [t \in Tasks |-> "pending"]
    /\ blamed' = Nobody
    /\ UNCHANGED interrupted

\* The job is rejected before its tasks are made.
Reject ==
    /\ phase = "idle"
    /\ phase' = "over"
    /\ blamed' = Nobody
    /\ UNCHANGED <<interrupted, outcome>>

\* Only an interrupt, or a failure that is there already, stops a task.
End(t, o) ==
    /\ phase = "running"
    /\ outcome[t] = "pending"
    /\ o = "stopped" => interrupted \/ \E u \in Tasks : outcome[u] = "failed"
    /\ outcome' = [outcome EXCEPT ![t] = o]
    /\ UNCHANGED <<interrupted, phase, blamed>>

JoinGood ==
    /\ phase = "running"
    /\ \A t \in Tasks : outcome[t] = "done"
    /\ phase' = "good"
    /\ UNCHANGED <<interrupted, outcome, blamed>>

\* An interrupt may leave nobody to blame, or one who was only stopped.
JoinBad(b) ==
    /\ phase = "running"
    /\ \A t \in Tasks : outcome[t] # "pending"
    /\ \E t \in Tasks : outcome[t] # "done"
    /\ \/ b \in Tasks /\ outcome[b] = "failed"
       \/ interrupted /\ (b = Nobody \/ outcome[b] = "stopped")
    /\ phase' = "over"
    /\ blamed' = b
    /\ UNCHANGED <<interrupted, outcome>>

Close ==
    /\ \/ phase = "good" /\ phase' = "over"
       \/ phase = "over" /\ phase' = "idle"
    /\ UNCHANGED <<interrupted, outcome, blamed>>

Next ==
    \/ Interrupt \/ Fork \/ Reject
    \/ \E t \in Tasks, o \in {"done", "failed", "stopped"} : End(t, o)
    \/ JoinGood
    \/ \E b \in Tasks \union {Nobody} : JoinBad(b)
    \/ Close

Spec == Init /\ [][Next]_vars
=============================================================================
