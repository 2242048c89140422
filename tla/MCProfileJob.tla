---------------------------- MODULE MCProfileJob ----------------------------
(* Instances of ProfileJob for TLC: bids 1 and 2, and policies that set,   *)
(* lower and double them, also past what Amazon accepts.  Policies are     *)
(* interchangeable.                                                        *)
EXTENDS ProfileJob, TLC

Symmetry == Permutations(Policies)

MCAdGroupOf == [t \in Targets |-> CHOOSE g \in AdGroups : TRUE]
MCBids == {1, 2}
MCResults == [operator : {"="}, amount : {2}, percentage : {FALSE}]
    \union [operator : {"-"}, amount : {1}, percentage : {FALSE}]
    \union [operator : {"+"}, amount : {100}, percentage : {TRUE}]
=============================================================================
