----------------------------- MODULE MCDispatch -----------------------------
(* Instances of Dispatch for TLC: of two processors the one has the        *)
(* schedules a, c and d, the other has b.                                  *)
EXTENDS Dispatch, TLC

CONSTANTS a, b, c, d

MCProfileID == [s \in Schedules |-> ((a :> 4) @@ (b :> 7) @@ (c :> 6) @@ (d :> 8))[s]]
=============================================================================
