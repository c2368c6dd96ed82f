---------------------------- MODULE MCMobileApp ----------------------------
(* Instances of MobileApp for TLC: the constants are in the cfgs.          *)
EXTENDS MobileApp
=============================================================================
