---------------------------- MODULE MC_Reimupwr ----------------------------
(* Instances of Reimupwr for TLC: a config with no discharge delay and   *)
(* one with a two-second delay, next to the built-in default of ten.     *)
EXTENDS Reimupwr

MC_ConfDelays == {0, 2}
=============================================================================
