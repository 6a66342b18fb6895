----------------------------- MODULE ThermostatIds -----------------------------
(* Which configuration entry belongs to an output, as the status side sees it *)
(* (websocket-client/thermostat-config-sync.ts).                              *)
EXTENDS Integers

CONSTANT None       \* undefined

\* a ?? b
OrElse(a, b) == IF a # None THEN a ELSE b

\* resolveThermostatConfigId: the manual, the program's and the cached id, if
\* entries has that id; without any program also the sensor's and the own id.
ConfigId(manual, program, cached, domus, own, hasPrograms, entries) ==
    LET Usable(i) == IF i \in entries THEN i ELSE None
        linked == OrElse(Usable(manual), OrElse(Usable(program), Usable(cached)))
    IN  IF linked = None /\ ~hasPrograms
        THEN OrElse(Usable(domus), Usable(own))
        ELSE linked
=============================================================================
