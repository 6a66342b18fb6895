-------------------------- MODULE MCThermostatStatus --------------------------
(* Two thermostats whose program and sensor numbers are crossed, as in the   *)
(* installation the CHANGELOG describes; only one has a telling name.        *)
EXTENDS ThermostatStatus

CONSTANTS bagno, matrimoniale

MCOwnId       == [o \in Output |-> IF o = bagno THEN 1 ELSE 2]
MCProgramOf   == [o \in Output |-> IF o = bagno THEN 2 ELSE 1]
MCSensorOf    == [o \in Output |-> IF o = bagno THEN 1 ELSE 2]
MCManual      == [o \in Output |-> None]
MCNamedSensor == [o \in Output |-> IF o = bagno THEN MCSensorOf[o] ELSE None]
=============================================================================
