---------------------------- MODULE SingleFlight ----------------------------
(***************************************************************************)
(* What profileLoadCoordinator promises: per user there is one flight at a *)
(* time, everybody who asks meanwhile joins it, and all who are in it when *)
(* it lands get the one outcome it has.  Nobody else's cancellation, and   *)
(* no later flight, changes what a caller got.                             *)
(***************************************************************************)
CONSTANTS
    Users,
    Callers,    \* the goroutines that call Load
    Outcomes,   \* what a flight may end with
    Pending, Nothing

VARIABLES
    flight,     \* flight[u]: who waits for the fetch of user u, {} if none runs
    outcome     \* outcome[c]: what c got, Pending in a flight

vars == <<flight, outcome>>

Init ==
    /\ flight = [u \in Users |-> {}]
    /\ outcome = [c \in Callers |-> Nothing]

\* The first to join starts the flight.
Join(c, u) ==
    /\ outcome[c] = Nothing
    /\ flight' = [flight EXCEPT ![u] = @ \union {c}]
    /\ outcome' = [outcome EXCEPT ![c] = Pending]

Land(u, r) ==
    /\ flight[u] # {}
    /\ outcome' = [c \in Callers |-> IF c \in flight[u] THEN r ELSE outcome[c]]
    /\ flight' = [flight EXCEPT ![u] = {}]

\* A passenger whose context is done leaves a flight that goes on.
GiveUp(c, u) ==
    /\ c \in flight[u]
    /\ flight[u] # {c}
    /\ flight' = [flight EXCEPT ![u] = @ \ {c}]
    /\ outcome' = [outcome EXCEPT ![c] = Nothing]

Leave(c) ==
    /\ outcome[c] \in Outcomes
    /\ outcome' = [outcome EXCEPT ![c] = Nothing]
    /\ UNCHANGED flight

Next ==
    \/ \E c \in Callers, u \in Users : Join(c, u) \/ GiveUp(c, u)
    \/ \E u \in Users, r \in Outcomes : Land(u, r)
    \/ \E c \in Callers : Leave(c)

Spec == Init /\ [][Next]_vars
=============================================================================
