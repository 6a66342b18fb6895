------------------------- MODULE MCMatterRegistration -------------------------
(* One device that is a light with two clusters, or a thermostat; its states *)
(* and its names are only compared.                                          *)
EXTENDS MatterRegistration, TLC

Symmetry == Permutations(Value) \cup Permutations(Name)
=============================================================================
