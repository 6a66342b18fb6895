---------------------------- MODULE MCMatterPrune ----------------------------
(* Small instances of MatterPrune for TLC.                                 *)
EXTENDS MatterPrune
=============================================================================
