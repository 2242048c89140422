-------------------------- MODULE MCHandleMessage --------------------------
(* Instances of HandleMessage for TLC: two proper messages and one whose   *)
(* region the Ads client rejects.                                          *)
EXTENDS HandleMessage

CONSTANTS m1, m2, bad
=============================================================================
