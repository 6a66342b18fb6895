------------------------ MODULE MCCommandDispatcher ------------------------
(***************************************************************************)
(* A thermostat with a setpoint command and a mode command, a second       *)
(* thermostat, and the direct READ of the initial synchronisation.         *)
(***************************************************************************)
EXTENDS CommandDispatcher, TLC

CONSTANTS Setpoint, Mode, Other, Sync, ThermostatA, ThermostatB

MCDeviceOf ==
    [c \in Cmd |-> CASE c \in {Setpoint, Mode} -> ThermostatA
                     [] c = Other -> ThermostatB
                     [] c = Sync  -> None]
MCScript ==
    [c \in Cmd |-> CASE c = Setpoint -> <<"prime", "write">>
                     [] c \in {Mode, Other} -> <<"write">>
                     [] c = Sync -> <<"sync">>]
Symmetry == Permutations(Id)
=============================================================================
