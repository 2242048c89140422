--------------------------- MODULE ScheduleLedger ---------------------------
(***************************************************************************)
(* What the service promises about the schedules of the user service: a    *)
(* due schedule is claimed (marked PROCESSING) by at most one job at a     *)
(* time, and only the job that holds the claim moves the schedule to its   *)
(* next state.  How claims travel (receiver, channels, processors) is the  *)
(* business of Dispatch, which implements this specification.              *)
(***************************************************************************)
CONSTANTS
    Schedules,  \* the (user, profile) pairs that have a schedule
    Results     \* the states a job may drive its schedule to

VARIABLES
    status,     \* status[s]: the schedule state users see
    due,        \* due[s]: due_at has passed
    held        \* the schedules some job currently answers for

vars == <<status, due, held>>

Init ==
    /\ status \in [Schedules -> Results \union {"PROCESSING"}]
    /\ due \in [Schedules -> BOOLEAN]
    /\ held = {}

\* A due schedule nobody holds is marked; the mark may be made without the
\* claimant learning of it (the answer was lost), and then nobody holds it.
Claim(s) ==
    /\ due[s]
    /\ status[s] # "PROCESSING"
    /\ s \notin held
    /\ status' = [status EXCEPT ![s] = "PROCESSING"]
    /\ held' \in {held, held \union {s}}
    /\ UNCHANGED due

\* The holder drives the schedule on, and either knows it did or will repeat.
Report(s, st) ==
    /\ s \in held
    /\ status' = [status EXCEPT ![s] = st]
    /\ due' = [due EXCEPT ![s] = FALSE]
    /\ held' \in {held, held \ {s}}

\* A holder gives up without an answer, or all of them die at once.
Abandon(S) ==
    /\ S \subseteq held
    /\ held' = held \ S
    /\ UNCHANGED <<status, due>>

BecomeDue(s) ==
    /\ ~due[s]
    /\ due' = [due EXCEPT ![s] = TRUE]
    /\ UNCHANGED <<status, held>>

Next ==
    \/ \E s \in Schedules :
         \/ Claim(s)
         \/ \E st \in Results : Report(s, st)
         \/ BecomeDue(s)
    \/ \E S \in SUBSET held : Abandon(S)

Spec == Init /\ [][Next]_vars
=============================================================================
