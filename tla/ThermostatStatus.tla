--------------------------- MODULE ThermostatStatus ---------------------------
(***************************************************************************)
(* What HomeKit shows of thermostats (websocket-client/                    *)
(* thermostat-status-updater.ts, thermostat-config-sync.ts,                *)
(* domus-thermostat-mapping-runtime.ts, domus-thermostat-mapper.ts,        *)
(* system-temperature-updater.ts, and the thermostat parts of              *)
(* message-service.ts and status-updater.ts).                              *)
(*                                                                         *)
(* A thermostat is an output.  Its program has another number and its room *)
(* sensor a third, and the panel reports its state under the number of the *)
(* sensor.  The client learns of these from lists, and five kinds of       *)
(* messages may set a setpoint or a room temperature.                      *)
(***************************************************************************)
EXTENDS ThermostatIds, Sequences

CONSTANTS
    Output,         \* the thermostats
    Id,             \* the numbers of outputs, programs and sensors
    OwnId,          \* the number of each output,
    ProgramOf,      \* of its program
    SensorOf,       \* and of the sensor in its room
    ManualSensor,   \* manualPairs: sensors the configuration gives
    NamedSensor,    \* the one sensor whose name matches the output's best
    Setpoint,
    Default,        \* the setpoint of a new device object
    Panels,         \* what panels tell: see PanelKind
    WireBound       \* messages of the panel the client has not handled

\* A "domus" panel lists its programs and reports by sensor.  The others list none:
\* a "standalone" one has no sensors and reports by output, a "plain" one reports
\* setpoints with the statuses of its outputs.
PanelKind == {"domus", "standalone", "plain"}

ASSUME IdAssumption ==
    /\ OwnId \in [Output -> Id] /\ ProgramOf \in [Output -> Id] /\ SensorOf \in [Output -> Id]
    /\ ManualSensor \in [Output -> Id \cup {None}] /\ NamedSensor \in [Output -> Id \cup {None}]
    /\ None \notin Id \cup Setpoint /\ Default \in Setpoint
ASSUME PanelsAssumption == Panels \subseteq PanelKind /\ WireBound \in Nat \ {0}

VARIABLES
    panel, target,     \* the panel: its kind and the setpoint of each thermostat
    link,              \* "down" or "up": logged in
    answered,          \* how many of the requests of this login it has answered
    wire,              \* its messages the client has not handled
    device,            \* the thermostats among state.devices
    hasPrograms,       \* thermostatProgramById and the maps made with it
    toDomus,           \* thermostatToDomus
    cfg,               \* thermostatCfgById
    commandId,         \* thermostatCommandIdByOutputId
    parked,            \* pendingTemperatureStatuses
    fresh,             \* outputs with a recent real-time state
    heard,             \* sensors with a recent status of their own: domusLatest
    synced,            \* hasCompletedInitialSync
    reread             \* history: the client read entries again since the last sync

panelVars == <<panel, target>>
linkVars == <<link, answered, wire, synced>>
mapVars == <<hasPrograms, toDomus, cfg, commandId>>
statusVars == <<device, parked, fresh, heard>>
vars == <<panelVars, linkVars, mapVars, statusVars, reread>>

\* What a device shows: a setpoint, whose it is, and where its room temperature is
\* from.
Source == {"default", "status", "output", "domus", "system"}
Device == [target : Setpoint, of : Output \cup {None}, current : Source]

ASSUME NoneAssumption == None \notin Device

NewDevice == [target |-> Default, of |-> None, current |-> "default"]

-----------------------------------------------------------------------------
(* Numbers                                                                 *)

\* The panel's own: the entry of a thermostat, the number it reports it under.
EntryOf == IF panel = "domus" THEN ProgramOf ELSE OwnId
ReportedAs == IF panel = "domus" THEN SensorOf ELSE OwnId

\* What it says of thermostats O, under their numbers.
Says(O, number) == [i \in {number[o] : o \in O} |-> target[CHOOSE o \in O : number[o] = i]]
Whose(i, number) == CHOOSE o \in Output : number[o] = i

Program(o, known) == IF known THEN ProgramOf[o] ELSE None
ProgramSensor(o, known) == IF known THEN SensorOf[o] ELSE None

\* buildDomusThermostatMapping and refreshDomusThermostatMapping: the configured
\* sensor, the program's, or the one of the best name, if there are sensors.
Mapping(known) ==
    IF panel = "standalone" THEN toDomus
    ELSE [o \in Output |->
            OrElse(ManualSensor[o], OrElse(ProgramSensor(o, known), NamedSensor[o]))]

\* variant: the number of a status is taken for that of a program
Expected_Program(o, map, known) == OrElse(Program(o, known), OwnId[o])

\* variant: only sensors are expected
Expected_NoOwn(o, map, known) == OrElse(map[o], ProgramSensor(o, known))

\* resolveExpectedSensorId, and the output's own number if there is none
Expected(o, map, known) == OrElse(map[o], OrElse(ProgramSensor(o, known), OwnId[o]))

-----------------------------------------------------------------------------
(* What messages do to the devices dev                                     *)

\* applyThermostatConfigSnapshot: a device takes the setpoint of its entry.
ConfigOf(o, map, known, entries) ==
    ConfigId(None, Program(o, known), commandId[o], map[o], OwnId[o], known,
             {i \in Id : entries[i] # None})

WithConfig(dev, map, known, entries) ==
    [o \in Output |->
        LET e == ConfigOf(o, map, known, entries)
        IN  IF dev[o] = None \/ e = None THEN dev[o]
            ELSE [dev[o] EXCEPT !.target = entries[e], !.of = Whose(e, EntryOf)]]

Remembered(dev, map, known, entries) ==
    [o \in Output |-> IF dev[o] = None THEN commandId[o]
                      ELSE OrElse(ConfigOf(o, map, known, entries), commandId[o])]

\* updateTemperatureStatuses: the devices whose sensor is in S take its status.
Takes(o, dev, S, map, known) == dev[o] # None /\ Expected(o, map, known) \in DOMAIN S

WithStatus(dev, S, map, known) ==
    [o \in Output |->
        IF ~Takes(o, dev, S, map, known) THEN dev[o]
        ELSE LET s == Expected(o, map, known)
             IN  [target |-> S[s], of |-> Whose(s, ReportedAs), current |-> "status"]]

\* A status that fits no device is parked, one that fits is no longer.
Park(dev, S, map, known) ==
    [s \in Id |->
        IF s \notin DOMAIN S THEN parked[s]
        ELSE IF \E o \in Output : dev[o] # None /\ Expected(o, map, known) = s THEN None ELSE S[s]]

Parked == [s \in {i \in Id : parked[i] # None} |-> parked[s]]

\* updateOutputStatuses, of outputs that report a setpoint
WithOutputs(dev, S) ==
    [o \in Output |->
        IF dev[o] = None \/ OwnId[o] \notin DOMAIN S \/ o \in fresh THEN dev[o]
        ELSE [target |-> S[OwnId[o]], of |-> o, current |-> "output"]]

\* variant: a sensor overrules a real-time state
Overrules_Always(o) == TRUE

\* Other sources are not taken while there is a recent real-time state.
Overrules(o) == o \notin fresh

\* updateSensorStatuses, of the room temperature
WithSensors(dev, H) ==
    [o \in Output |->
        IF dev[o] # None /\ toDomus[o] \in H /\ Overrules(o)
        THEN [dev[o] EXCEPT !.current = "domus"] ELSE dev[o]]

\* updateSystemTemperatures, when nothing nearer to the room was heard of late
WithSystem(dev, freshNow, H) ==
    [o \in Output |->
        IF dev[o] = None \/ o \in freshNow \/ toDomus[o] \in H THEN dev[o]
        ELSE [dev[o] EXCEPT !.current = "system"]]

-----------------------------------------------------------------------------
(* Messages and actions                                                    *)

Requests == <<"MULTI_TYPES", "STATUS_OUTPUTS", "STATUS_BUS_HA_SENSORS", "STATUS_SYSTEM",
              "PRG_THERMOSTATS", "CFG_THERMOSTATS", "REGISTER">>

Message(type, S) == [type |-> type, values |-> S]

Sensors == IF panel = "standalone" THEN {} ELSE {SensorOf[o] : o \in Output}

\* What is said of thermostats O in a message of this type.
About(type, O) ==
    CASE type = "STATUS_OUTPUTS" /\ panel = "plain" -> Says(O, OwnId)
      [] type = "CFG_THERMOSTATS"                   -> Says(O, EntryOf)
      [] type \in {"STATUS_TEMPERATURES", "REGISTER"} /\ panel # "plain" -> Says(O, ReportedAs)
      [] type = "REGISTER" /\ panel = "plain"       -> Says(O, OwnId)
      [] OTHER -> <<>>

Init ==
    /\ panel \in Panels
    /\ target \in [Output -> Setpoint]
    /\ link = "down" /\ answered = 0 /\ wire = <<>> /\ synced = FALSE
    /\ device = [o \in Output |-> None]
    /\ hasPrograms \in {FALSE, panel = "domus"}        \* from the KSA cache
    /\ toDomus = [o \in Output |-> None]
    /\ cfg = [i \in Id |-> None]
    /\ commandId = [o \in Output |-> None]
    /\ parked = [i \in Id |-> None]
    /\ fresh = {} /\ heard = {}
    /\ reread = FALSE

Connect ==
    /\ link = "down" /\ link' = "up"
    /\ answered' = 0 /\ synced' = FALSE
    /\ UNCHANGED <<panelVars, wire, mapVars, statusVars, reread>>

Disconnect ==
    /\ link = "up" /\ link' = "down"
    /\ wire' = <<>>
    /\ UNCHANGED <<panelVars, answered, synced, mapVars, statusVars, reread>>

\* The panel answers the next request; all are sent at the login.
Answer ==
    /\ link = "up" /\ answered < Len(Requests) /\ Len(wire) < WireBound
    /\ answered' = answered + 1
    /\ wire' = Append(wire, Message(Requests[answered + 1], About(Requests[answered + 1], Output)))
    /\ UNCHANGED <<panelVars, link, synced, mapVars, statusVars, reread>>

Notifies == link = "up" /\ answered = Len(Requests)

\* A setpoint is changed; a registered client is told.
PanelChanges(o, v) ==
    /\ target[o] # v
    /\ target' = [target EXCEPT ![o] = v]
    /\ IF Notifies
       THEN /\ Len(wire) < WireBound
            /\ LET type == IF panel = "plain" THEN "STATUS_OUTPUTS" ELSE "STATUS_TEMPERATURES"
                   number == IF panel = "plain" THEN OwnId[o] ELSE ReportedAs[o]
               IN  wire' = Append(wire, Message(type, [i \in {number} |-> v]))
       ELSE UNCHANGED wire
    /\ UNCHANGED <<panel, link, answered, synced, mapVars, statusVars, reread>>

\* A sensor, or the panel's own thermometer, reports.
PanelReports ==
    /\ Notifies /\ Len(wire) < WireBound
    /\ \E type \in {"STATUS_BUS_HA_SENSORS", "STATUS_SYSTEM"} :
          wire' = Append(wire, Message(type, <<>>))
    /\ UNCHANGED <<panelVars, link, answered, synced, mapVars, statusVars, reread>>

Receive(type) == wire # <<>> /\ Head(wire).type = type /\ wire' = Tail(wire)

\* The end of every list about thermostats: their setpoints are taken from the
\* entries, then the parked statuses are tried again.
Relink(dev, map, known, entries) ==
    LET configured == WithConfig(dev, map, known, entries)
    IN  /\ device' = WithStatus(configured, Parked, map, known)
        /\ commandId' = Remembered(dev, map, known, entries)
        /\ parked' = Park(dev, Parked, map, known)
        /\ fresh' = fresh \cup {o \in Output : Takes(o, dev, Parked, map, known)}

\* MULTI_TYPES: every output gets a new device object.
HandleOutputs ==
    /\ Receive("MULTI_TYPES")
    /\ toDomus' = Mapping(hasPrograms)
    /\ Relink([o \in Output |-> NewDevice], Mapping(hasPrograms), hasPrograms, cfg)
    /\ UNCHANGED <<panelVars, link, answered, synced, hasPrograms, cfg, heard, reread>>

\* PRG_THERMOSTATS replaces what was known of programs.
HandlePrograms ==
    /\ Receive("PRG_THERMOSTATS")
    /\ hasPrograms' = (panel = "domus")
    /\ toDomus' = IF device = [o \in Output |-> None] THEN toDomus ELSE Mapping(panel = "domus")
    /\ Relink(device, toDomus', panel = "domus", cfg)
    /\ UNCHANGED <<panelVars, link, answered, synced, cfg, heard, reread>>

\* CFG_THERMOSTATS, all entries at the login or those in S
TakeEntries(S) ==
    LET entries == [i \in Id |-> IF i \in DOMAIN S THEN S[i] ELSE cfg[i]]
    IN  cfg' = entries /\ Relink(device, toDomus, hasPrograms, entries)

HandleEntries ==
    /\ Receive("CFG_THERMOSTATS")
    /\ TakeEntries(Head(wire).values)
    /\ UNCHANGED <<panelVars, link, answered, synced, hasPrograms, toDomus, heard, reread>>

\* A command looks for its entry (ThermostatWrite): the answer has one, or none.
HandleReread ==
    /\ link = "up" /\ synced
    /\ \E o \in Output, S \in {About("CFG_THERMOSTATS", {}), About("CFG_THERMOSTATS", Output)} :
          TakeEntries([i \in DOMAIN S \cap {EntryOf[o]} |-> S[i]])
    /\ reread' = TRUE
    /\ UNCHANGED <<panelVars, linkVars, hasPrograms, toDomus, heard>>

HandleOutputStatus ==
    /\ Receive("STATUS_OUTPUTS")
    /\ device' = WithOutputs(device, Head(wire).values)
    /\ UNCHANGED <<panelVars, link, answered, synced, mapVars, parked, fresh, heard, reread>>

HandleSensorStatus ==
    /\ Receive("STATUS_BUS_HA_SENSORS")
    /\ device' = WithSensors(device, Sensors)
    /\ heard' = heard \cup Sensors
    /\ UNCHANGED <<panelVars, link, answered, synced, mapVars, parked, fresh, reread>>

HandleSystemStatus ==
    /\ Receive("STATUS_SYSTEM")
    /\ device' = WithSystem(device, fresh, heard)
    /\ UNCHANGED <<panelVars, link, answered, synced, mapVars, parked, fresh, heard, reread>>

HandleTemperatures ==
    /\ Receive("STATUS_TEMPERATURES")
    /\ LET S == Head(wire).values
       IN  /\ device' = WithStatus(device, S, toDomus, hasPrograms)
           /\ parked' = Park(device, S, toDomus, hasPrograms)
           /\ fresh' = fresh \cup {o \in Output : Takes(o, device, S, toDomus, hasPrograms)}
    /\ UNCHANGED <<panelVars, link, answered, synced, mapVars, heard, reread>>

\* handleRealtimeResponse: all statuses at once, then the sync is complete.
HandleSnapshot ==
    /\ Receive("REGISTER")
    /\ LET said  == Head(wire).values
           S     == IF panel = "plain" THEN <<>> ELSE said
           outs  == IF panel = "plain" THEN WithOutputs(device, said) ELSE device
           rooms == WithSensors(outs, Sensors)
       IN  /\ fresh' = fresh \cup {o \in Output : Takes(o, rooms, S, toDomus, hasPrograms)}
           /\ device' = WithSystem(WithStatus(rooms, S, toDomus, hasPrograms), fresh', heard \cup Sensors)
           /\ parked' = Park(device, S, toDomus, hasPrograms)
    /\ heard' = heard \cup Sensors
    /\ synced' = TRUE
    /\ reread' = FALSE
    /\ UNCHANGED <<panelVars, link, answered, mapVars>>

\* sensorFreshnessMs pass without another status.
Expire ==
    /\ \/ \E o \in fresh : fresh' = fresh \ {o} /\ UNCHANGED heard
       \/ \E s \in heard : heard' = heard \ {s} /\ UNCHANGED fresh
    /\ UNCHANGED <<panelVars, linkVars, mapVars, device, parked, reread>>

Next ==
    \/ Connect \/ Disconnect \/ Answer \/ PanelReports \/ Expire
    \/ \E o \in Output, v \in Setpoint : PanelChanges(o, v)
    \/ HandleOutputs \/ HandlePrograms \/ HandleEntries \/ HandleReread
    \/ HandleOutputStatus \/ HandleSensorStatus \/ HandleSystemStatus
    \/ HandleTemperatures \/ HandleSnapshot

Spec == Init /\ [][Next]_vars

-----------------------------------------------------------------------------
(* Properties                                                              *)

MessageType == {Requests[n] : n \in 1..Len(Requests)} \cup {"STATUS_TEMPERATURES"}

TypeOK ==
    /\ panel \in PanelKind
    /\ target \in [Output -> Setpoint]
    /\ link \in {"down", "up"} /\ answered \in 0..Len(Requests)
    /\ wire \in Seq([type : MessageType, values : UNION {[I -> Setpoint] : I \in SUBSET Id}])
    /\ device \in [Output -> Device \cup {None}]
    /\ hasPrograms \in BOOLEAN /\ synced \in BOOLEAN /\ reread \in BOOLEAN
    /\ toDomus \in [Output -> Id \cup {None}]
    /\ cfg \in [Id -> Setpoint \cup {None}]
    /\ commandId \in [Output -> Id \cup {None}]
    /\ parked \in [Id -> Setpoint \cup {None}]
    /\ fresh \subseteq Output /\ heard \subseteq Id

\* No thermostat ever shows the setpoint of another, although the numbers of
\* outputs, programs and sensors are the same and cross ("a setpoint or mode change
\* on one was silently applied to the other", CHANGELOG 2.1.3, is fixed).
OwnSetpoint == \A o \in Output : device[o] # None => device[o].of \in {o, None}

\* When the sync is complete and nothing is under way, every thermostat shows the
\* panel's setpoint, although lists, entries and statuses each set it; unless the
\* client has read an entry since, which brings back all the entries it has.
ShowsPanels ==
    (synced /\ link = "up" /\ wire = <<>> /\ ~reread) =>
        \A o \in Output : device[o] # None /\ device[o].target = target[o]

\* While the real-time state of a thermostat is recent, its room temperature is not
\* that of a sensor or of the panel ("STATUS_SYSTEM fallback no longer overwrites
\* mapped Domus/realtime thermostat data", CHANGELOG), although the device object may
\* be replaced meanwhile.
RealtimeWins ==
    \A o \in fresh : device[o] # None => device[o].current \in {"status", "default"}

=============================================================================
