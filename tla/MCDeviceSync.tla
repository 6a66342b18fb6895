----------------------------- MODULE MCDeviceSync -----------------------------
(* A panel with a zone, an output and a sensor, which is excluded.           *)
EXTENDS DeviceSync, TLC

CONSTANTS zone, output, gate, hidden

MCKindOf ==
    [i \in Item |-> CASE i = zone   -> "zone"
                      [] i = gate   -> "gate"
                      [] i = output -> "output"
                      [] OTHER      -> "sensor"]
=============================================================================
