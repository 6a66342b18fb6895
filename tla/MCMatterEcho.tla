----------------------------- MODULE MCMatterEcho -----------------------------
(* Setpoints inside and outside the range of a heating endpoint.             *)
EXTENDS MatterEcho
=============================================================================
