--------------------------- MODULE MCThermostatWrite ---------------------------
(* Two outputs of one program, heating and cooling, and one of another.       *)
EXTENDS ThermostatWrite

CONSTANTS o1, o2, o3, c1, c2, c3

A(o, k, v) == [output |-> o, kind |-> k, value |-> v]

\* The programs are 1 and 2; their sensors have the ids 2 and 1, as in the
\* installation of CHANGELOG 2.1.3; the outputs are 11 to 13.
MCOwnId   == [o \in Output |-> CASE o = o1 -> 11 [] o = o2 -> 12 [] o = o3 -> 13]
MCEntryOf == [o \in Output |-> IF o = o3 THEN 2 ELSE 1]
MCAsk     ==
    [c \in Call |-> CASE c = c1 -> A(o1, "setpoint", "high")
                      [] c = c2 -> A(o1, "mode", "cool")
                      [] c = c3 -> A(o2, "mode", "off")]

Unknown  == [o \in Output |-> None]
Sensor   == [o \in Output |-> IF MCEntryOf[o] = 1 THEN 2 ELSE 1]
Programs == [manual |-> Unknown, program |-> MCEntryOf, domus |-> Sensor, hasPrograms |-> TRUE]
Manual   == [manual |-> MCEntryOf, program |-> Unknown, domus |-> Sensor, hasPrograms |-> TRUE]
NoLists  == [manual |-> Unknown, program |-> Unknown, domus |-> Unknown, hasPrograms |-> FALSE]
MCInitConfig == [ACT_MODE : {"AUTO"}, ACT_SEA : {"WIN", "SUM"}, WIN : {"low"}, SUM : {"low"}]

MCWiring == {Programs, Manual, NoLists}
=============================================================================
