---------------------------- MODULE MCInteractions ----------------------------
(* An instance of Interactions for TLC: the constants are in the cfgs.     *)
EXTENDS Interactions
=============================================================================
