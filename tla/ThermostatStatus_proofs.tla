------------------------ MODULE ThermostatStatus_proofs ------------------------
(***************************************************************************)
(* What ThermostatStatus keeps for every installation, every kind of panel *)
(* and any number of messages under way.                                   *)
(***************************************************************************)
EXTENDS ThermostatStatus, TLAPS, SequenceTheorems

USE IdAssumption, PanelsAssumption, NoneAssumption

Devices == [Output -> Device \cup {None}]
Maps == [Output -> Id \cup {None}]
Values == [Id -> Setpoint \cup {None}]
Statement == UNION {[I -> Setpoint] : I \in SUBSET Id}
Envelope == [type : MessageType, values : Statement]

Numbers(f) == {f[o] : o \in Output}

\* What a message of each type may speak of.
Addressed(m) ==
    /\ m.type = "CFG_THERMOSTATS" => DOMAIN m.values \subseteq Numbers(EntryOf)
    /\ m.type = "REGISTER" => DOMAIN m.values = Numbers(ReportedAs)
    /\ m.type = "STATUS_TEMPERATURES" => panel # "plain" /\ DOMAIN m.values \subseteq Numbers(ReportedAs)
    /\ m.type = "STATUS_OUTPUTS" => DOMAIN m.values = {} \/ panel = "plain"
    /\ m.type \notin {"CFG_THERMOSTATS", "REGISTER", "STATUS_TEMPERATURES", "STATUS_OUTPUTS"}
       => DOMAIN m.values = {}

\* The keys of what the client remembers are numbers the panel used.
Keyed(entries, waiting) ==
    /\ \A i \in Id : entries[i] # None => i \in Numbers(EntryOf)
    /\ \A i \in Id : waiting[i] # None => i \in Numbers(ReportedAs)

Types ==
    /\ TypeOK
    /\ panel \in Panels
    /\ \A n \in DOMAIN wire : Addressed(wire[n])
    /\ Keyed(cfg, parked)

-----------------------------------------------------------------------------
(* Messages                                                                *)

LEMMA RequestsAre ==
  /\ Len(Requests) = 7 /\ DOMAIN Requests = 1..7
  /\ Requests[1] = "MULTI_TYPES" /\ Requests[2] = "STATUS_OUTPUTS"
  /\ Requests[3] = "STATUS_BUS_HA_SENSORS" /\ Requests[4] = "STATUS_SYSTEM"
  /\ Requests[5] = "PRG_THERMOSTATS" /\ Requests[6] = "CFG_THERMOSTATS"
  /\ Requests[7] = "REGISTER"
  /\ \A n \in 1..7 : Requests[n] \in MessageType
BY DEF Requests, MessageType

LEMMA TypesAre ==
  MessageType = {"MULTI_TYPES", "STATUS_OUTPUTS", "STATUS_BUS_HA_SENSORS", "STATUS_SYSTEM",
                 "PRG_THERMOSTATS", "CFG_THERMOSTATS", "REGISTER", "STATUS_TEMPERATURES"}
<1>1. 1..7 = {1, 2, 3, 4, 5, 6, 7}
  OBVIOUS
<1> QED
  BY <1>1, RequestsAre DEF MessageType

LEMMA NumberTypes ==
  /\ EntryOf \in [Output -> Id] /\ ReportedAs \in [Output -> Id]
  /\ Numbers(EntryOf) \subseteq Id /\ Numbers(ReportedAs) \subseteq Id
BY DEF EntryOf, ReportedAs, Numbers

LEMMA SaysType ==
  ASSUME target \in [Output -> Setpoint], NEW O \in SUBSET Output, NEW f \in [Output -> Id]
  PROVE  Says(O, f) \in Statement /\ DOMAIN Says(O, f) = {f[o] : o \in O}
<1>1. {f[o] : o \in O} \in SUBSET Id
  OBVIOUS
<1>2. \A i \in {f[o] : o \in O} : target[CHOOSE o \in O : f[o] = i] \in Setpoint
  OBVIOUS
<1>3. Says(O, f) \in [{f[o] : o \in O} -> Setpoint]
  BY <1>2 DEF Says
<1> QED
  BY <1>1, <1>3 DEF Statement, Says

LEMMA SaysAll ==
  ASSUME target \in [Output -> Setpoint], NEW f \in [Output -> Id]
  PROVE  Says(Output, f) \in Statement /\ DOMAIN Says(Output, f) = Numbers(f)
<1>1. Output \in SUBSET Output
  OBVIOUS
<1> QED
  BY <1>1, SaysType DEF Numbers

LEMMA NothingSaid == <<>> \in Statement /\ DOMAIN <<>> = {}
<1>1. <<>> \in [{} -> Setpoint] /\ DOMAIN <<>> = {}
  OBVIOUS
<1> QED
  BY <1>1 DEF Statement

\* An answer is addressed as it should be.
LEMMA AnswerType ==
  ASSUME target \in [Output -> Setpoint], panel \in PanelKind, NEW r \in MessageType \ {"STATUS_TEMPERATURES"}
  PROVE  Message(r, About(r, Output)) \in Envelope /\ Addressed(Message(r, About(r, Output)))
<1> DEFINE m == Message(r, About(r, Output))
<1>1. m.type = r /\ m.values = About(r, Output)
  BY DEF Message
<1>0. About(r, Output) \in Statement => m \in Envelope
  BY DEF Message, Envelope
<1>2. CASE r = "CFG_THERMOSTATS"
  <2>1. About(r, Output) = Says(Output, EntryOf)
    BY <1>2 DEF About
  <2>2. About(r, Output) \in Statement /\ DOMAIN About(r, Output) = Numbers(EntryOf)
    BY <2>1, SaysAll, NumberTypes
  <2> QED
    BY <1>1, <1>0, <1>2, <2>2 DEF Addressed
<1>3. CASE r = "REGISTER"
  <2>1. About(r, Output) = Says(Output, ReportedAs)
    BY <1>3 DEF About, ReportedAs, PanelKind
  <2>2. About(r, Output) \in Statement /\ DOMAIN About(r, Output) = Numbers(ReportedAs)
    BY <2>1, SaysAll, NumberTypes
  <2> QED
    BY <1>1, <1>0, <1>3, <2>2 DEF Addressed
<1>4. CASE r = "STATUS_OUTPUTS" /\ panel = "plain"
  <2>1. About(r, Output) = Says(Output, OwnId)
    BY <1>4 DEF About
  <2>2. About(r, Output) \in Statement
    BY <2>1, SaysAll
  <2> QED
    BY <1>1, <1>0, <1>4, <2>2 DEF Addressed
<1>5. CASE r \notin {"CFG_THERMOSTATS", "REGISTER"} /\ ~(r = "STATUS_OUTPUTS" /\ panel = "plain")
  <2>1. About(r, Output) = <<>>
    BY <1>5 DEF About
  <2> QED
    BY <1>1, <1>0, <1>5, <2>1, NothingSaid DEF Addressed
<1> QED
  BY <1>2, <1>3, <1>4, <1>5

-----------------------------------------------------------------------------
(* What messages do to devices                                             *)

\* The devices of after are those of before.
SameDevices(before, after) ==
    after \in Devices /\ \A o \in Output : after[o] = None <=> before[o] = None

LEMMA WhoseIs ==
  ASSUME NEW f, NEW i \in Numbers(f)
  PROVE  Whose(i, f) \in Output /\ f[Whose(i, f)] = i
BY DEF Whose, Numbers

LEMMA DeviceRetargeted ==
  ASSUME NEW d \in Device, NEW t \in Setpoint, NEW w \in Output \cup {None}, NEW e,
         e = [d EXCEPT !.target = t, !.of = w]
  PROVE  e \in Device /\ e.current = d.current /\ e.of = w /\ e.target = t
BY DEF Device

LEMMA DeviceWarmed ==
  ASSUME NEW d \in Device, NEW c \in Source, NEW e, e = [d EXCEPT !.current = c]
  PROVE  e \in Device /\ e.target = d.target /\ e.of = d.of /\ e.current = c
BY DEF Device

LEMMA DeviceIs ==
  ASSUME NEW t \in Setpoint, NEW w \in Output \cup {None}, NEW c \in Source
  PROVE  [target |-> t, of |-> w, current |-> c] \in Device
BY DEF Device

\* Only the sensor's and the own number may be tried besides the program's and the one
\* remembered, and only without programs.
LEMMA ConfigIdIn ==
  ASSUME NEW p, NEW c, NEW d, NEW w, NEW h, NEW E, NEW e,
         e = ConfigId(None, p, c, d, w, h, E), e # None
  PROVE  e \in E /\ (e \in {p, c} \/ (~h /\ e \in {d, w}))
BY Zenon DEF ConfigId, OrElse

LEMMA ConfigOfIn ==
  ASSUME NEW o \in Output, NEW map, NEW known, NEW entries, NEW e,
         e = ConfigOf(o, map, known, entries), e # None
  PROVE  /\ e \in Id /\ entries[e] # None
         /\ \/ e \in {Program(o, known), commandId[o]}
            \/ ~known /\ e \in {map[o], OwnId[o]}
<1> DEFINE E == {i \in Id : entries[i] # None}
<1>1. e = ConfigId(None, Program(o, known), commandId[o], map[o], OwnId[o], known, E)
  BY DEF ConfigOf
<1> QED
  BY <1>1, ConfigIdIn

LEMMA ConfigStep ==
  ASSUME NEW dev \in Devices, NEW map, NEW known, NEW entries \in Values,
         \A i \in Id : entries[i] # None => i \in Numbers(EntryOf), commandId \in Maps
  PROVE  /\ SameDevices(dev, WithConfig(dev, map, known, entries))
         /\ \A o \in Output : dev[o] # None =>
                WithConfig(dev, map, known, entries)[o].current = dev[o].current
         /\ Remembered(dev, map, known, entries) \in Maps
<1> DEFINE W == WithConfig(dev, map, known, entries)
<1>1. ASSUME NEW o \in Output
      PROVE  /\ W[o] \in Device \cup {None}
             /\ W[o] = None <=> dev[o] = None
             /\ dev[o] # None => W[o].current = dev[o].current
  <2> DEFINE e == ConfigOf(o, map, known, entries)
  <2>1. W[o] = IF dev[o] = None \/ e = None THEN dev[o]
               ELSE [dev[o] EXCEPT !.target = entries[e], !.of = Whose(e, EntryOf)]
    BY DEF WithConfig
  <2>2. CASE dev[o] = None \/ e = None
    <3>1. W[o] = dev[o] /\ dev[o] \in Device \cup {None}
      BY <2>1, <2>2 DEF Devices
    <3> QED
      BY <3>1
  <2>3. CASE dev[o] # None /\ e # None
    <3>1. e \in Id /\ entries[e] # None
      BY <2>3, ConfigOfIn
    <3>2. entries[e] \in Setpoint /\ Whose(e, EntryOf) \in Output /\ dev[o] \in Device
      BY <2>3, <3>1, WhoseIs DEF Values, Devices
    <3>3. PICK d, t, w : d = dev[o] /\ t = entries[e] /\ w = Whose(e, EntryOf)
      OBVIOUS
    <3>4. W[o] = [d EXCEPT !.target = t, !.of = w]
      BY <2>1, <2>3, <3>3
    <3>5. d \in Device /\ t \in Setpoint /\ w \in Output
      BY <3>2, <3>3
    <3>6. PICK x : x = W[o]
      OBVIOUS
    <3>7. x = [d EXCEPT !.target = t, !.of = w]
      BY <3>4, <3>6
    <3>8. x \in Device /\ x.current = d.current
      BY <3>5, <3>7 DEF Device
    <3> QED
      BY <2>3, <3>3, <3>6, <3>8
  <2> QED
    BY <2>2, <2>3
<1>2. W \in Devices
  BY <1>1 DEF WithConfig, Devices
<1>3. ASSUME NEW o \in Output
      PROVE  Remembered(dev, map, known, entries)[o] \in Id \cup {None}
  BY ConfigOfIn DEF Remembered, OrElse, Maps
<1>4. Remembered(dev, map, known, entries) \in Maps
  BY <1>3 DEF Remembered, Maps
<1> QED
  BY <1>1, <1>2, <1>4 DEF SameDevices

LEMMA StatusStep ==
  ASSUME NEW dev \in Devices, NEW S \in Statement, DOMAIN S \subseteq Numbers(ReportedAs),
         NEW map, NEW known
  PROVE  /\ SameDevices(dev, WithStatus(dev, S, map, known))
         /\ \A o \in Output : Takes(o, dev, S, map, known) =>
                WithStatus(dev, S, map, known)[o].current = "status"
         /\ \A o \in Output : ~Takes(o, dev, S, map, known) => WithStatus(dev, S, map, known)[o] = dev[o]
<1> DEFINE W == WithStatus(dev, S, map, known)
<1>0. "status" \in Source
  BY DEF Source
<1>1. ASSUME NEW o \in Output, Takes(o, dev, S, map, known)
      PROVE  W[o] \in Device /\ W[o].current = "status" /\ dev[o] # None
  <2>1. PICK s : s = Expected(o, map, known)
    OBVIOUS
  <2>2. s \in DOMAIN S /\ dev[o] # None
    BY <1>1, <2>1 DEF Takes
  <2>3. S[s] \in Setpoint /\ Whose(s, ReportedAs) \in Output
    BY <2>2, WhoseIs DEF Statement
  <2>4. W[o] = [target |-> S[s], of |-> Whose(s, ReportedAs), current |-> "status"]
    BY <1>1, <2>1 DEF WithStatus
  <2> QED
    BY <1>0, <2>2, <2>3, <2>4, DeviceIs
<1>2. ASSUME NEW o \in Output, ~Takes(o, dev, S, map, known)
      PROVE  W[o] = dev[o]
  BY <1>2 DEF WithStatus
<1>3. W \in Devices
  BY <1>1, <1>2 DEF WithStatus, Devices
<1> QED
  BY <1>1, <1>2, <1>3 DEF SameDevices

LEMMA OutputsStep ==
  ASSUME NEW dev \in Devices, NEW S \in Statement
  PROVE  /\ SameDevices(dev, WithOutputs(dev, S))
         /\ \A o \in fresh \cap Output : WithOutputs(dev, S)[o] = dev[o]
<1>0. "output" \in Source
  BY DEF Source
<1>1. ASSUME NEW o \in Output, dev[o] # None, OwnId[o] \in DOMAIN S
      PROVE  [target |-> S[OwnId[o]], of |-> o, current |-> "output"] \in Device
  <2>1. S[OwnId[o]] \in Setpoint
    BY <1>1 DEF Statement
  <2> QED
    BY <1>0, <2>1, DeviceIs
<1> QED
  BY <1>1 DEF SameDevices, WithOutputs, Devices

LEMMA SensorsStep ==
  ASSUME NEW dev \in Devices, NEW H
  PROVE  /\ SameDevices(dev, WithSensors(dev, H))
         /\ \A o \in fresh \cap Output : WithSensors(dev, H)[o] = dev[o]
         /\ \A o \in Output : dev[o] # None =>
                /\ WithSensors(dev, H)[o].target = dev[o].target
                /\ WithSensors(dev, H)[o].of = dev[o].of
<1> DEFINE W == WithSensors(dev, H)
<1>0. "domus" \in Source
  BY DEF Source
<1>1. ASSUME NEW o \in Output
      PROVE  \/ W[o] = dev[o]
             \/ /\ dev[o] # None /\ W[o] \in Device
                /\ W[o].target = dev[o].target /\ W[o].of = dev[o].of
  <2>1. W[o] = dev[o] \/ (dev[o] # None /\ W[o] = [dev[o] EXCEPT !.current = "domus"])
    BY DEF WithSensors
  <2>2. PICK d : d = dev[o]
    OBVIOUS
  <2>3. d \in Device \/ d = None
    BY <2>2 DEF Devices
  <2> QED
    BY <1>0, <2>1, <2>2, <2>3, DeviceWarmed
<1>3. \A o \in fresh \cap Output : WithSensors(dev, H)[o] = dev[o]
  BY DEF WithSensors, Overrules
<1>4. W \in Devices
  BY <1>1 DEF WithSensors, Devices
<1> QED
  BY <1>1, <1>3, <1>4 DEF SameDevices

LEMMA SystemStep ==
  ASSUME NEW dev \in Devices, NEW recent, NEW H
  PROVE  /\ SameDevices(dev, WithSystem(dev, recent, H))
         /\ \A o \in recent \cap Output : WithSystem(dev, recent, H)[o] = dev[o]
         /\ \A o \in Output : dev[o] # None =>
                /\ WithSystem(dev, recent, H)[o].target = dev[o].target
                /\ WithSystem(dev, recent, H)[o].of = dev[o].of
<1> DEFINE W == WithSystem(dev, recent, H)
<1>0. "system" \in Source
  BY DEF Source
<1>1. ASSUME NEW o \in Output
      PROVE  \/ W[o] = dev[o]
             \/ /\ dev[o] # None /\ W[o] \in Device
                /\ W[o].target = dev[o].target /\ W[o].of = dev[o].of
  <2>1. W[o] = dev[o] \/ (dev[o] # None /\ W[o] = [dev[o] EXCEPT !.current = "system"])
    BY DEF WithSystem
  <2>2. PICK d : d = dev[o]
    OBVIOUS
  <2>3. d \in Device \/ d = None
    BY <2>2 DEF Devices
  <2> QED
    BY <1>0, <2>1, <2>2, <2>3, DeviceWarmed
<1>3. \A o \in recent \cap Output : WithSystem(dev, recent, H)[o] = dev[o]
  BY DEF WithSystem
<1>4. W \in Devices
  BY <1>1 DEF WithSystem, Devices
<1> QED
  BY <1>1, <1>3, <1>4 DEF SameDevices

LEMMA ParkStep ==
  ASSUME NEW dev, NEW S \in Statement, DOMAIN S \subseteq Numbers(ReportedAs), parked \in Values,
         \A i \in Id : parked[i] # None => i \in Numbers(ReportedAs), NEW map, NEW known
  PROVE  /\ Park(dev, S, map, known) \in Values
         /\ \A i \in Id : Park(dev, S, map, known)[i] # None => i \in Numbers(ReportedAs)
<1>1. \A s \in DOMAIN S : S[s] \in Setpoint
  BY DEF Statement
<1> QED
  BY <1>1 DEF Park, Values

LEMMA ParkedType ==
  ASSUME parked \in Values, \A i \in Id : parked[i] # None => i \in Numbers(ReportedAs)
  PROVE  /\ Parked \in Statement /\ DOMAIN Parked = {i \in Id : parked[i] # None}
         /\ DOMAIN Parked \subseteq Numbers(ReportedAs)
<1> DEFINE D == {i \in Id : parked[i] # None}
<1>1. D \in SUBSET Id /\ DOMAIN Parked = D
  BY DEF Parked
<1>2. Parked \in [D -> Setpoint]
  BY DEF Parked, Values
<1> QED
  BY <1>1, <1>2 DEF Statement

\* The end of a list keeps the types, and room temperatures of a status stay.
LEMMA RelinkStep ==
  ASSUME NEW dev \in Devices, NEW map, NEW known, NEW entries \in Values,
         Keyed(entries, parked), commandId \in Maps, parked \in Values, fresh \subseteq Output,
         Relink(dev, map, known, entries)
  PROVE  /\ SameDevices(dev, device') /\ commandId' \in Maps /\ parked' \in Values
         /\ fresh \subseteq fresh' /\ fresh' \subseteq Output
         /\ Keyed(entries, parked')
         /\ \A o \in fresh' : dev[o] # None =>
                device'[o].current = "status" \/ (o \in fresh /\ device'[o].current = dev[o].current)
<1> DEFINE C == WithConfig(dev, map, known, entries)
<1>1. /\ SameDevices(dev, C) /\ commandId' \in Maps
      /\ \A o \in Output : dev[o] # None => C[o].current = dev[o].current
  BY ConfigStep DEF Keyed, Relink
<1>2. /\ Parked \in Statement /\ DOMAIN Parked \subseteq Numbers(ReportedAs)
      /\ parked' \in Values /\ Keyed(entries, parked')
  BY ParkedType, ParkStep DEF Keyed, Relink
<1>3. C \in Devices /\ device' = WithStatus(C, Parked, map, known)
  BY <1>1 DEF SameDevices, Relink
<1>4. /\ SameDevices(C, device')
      /\ \A o \in Output : Takes(o, C, Parked, map, known) => device'[o].current = "status"
      /\ \A o \in Output : ~Takes(o, C, Parked, map, known) => device'[o] = C[o]
  BY <1>2, <1>3, StatusStep
<1>5. \A o \in Output : Takes(o, C, Parked, map, known) <=> Takes(o, dev, Parked, map, known)
  BY <1>1 DEF Takes, SameDevices
<1>6. fresh' = fresh \cup {o \in Output : Takes(o, dev, Parked, map, known)}
  BY DEF Relink
<1> QED
  BY <1>1, <1>2, <1>4, <1>5, <1>6 DEF SameDevices

-----------------------------------------------------------------------------
(* Types, and the source of room temperatures                              *)

Kept == Types /\ RealtimeWins

LEMMA WireIs ==
  ASSUME Types
  PROVE  wire \in Seq(Envelope) /\ DOMAIN wire = 1..Len(wire) /\ Len(wire) \in Nat
<1>1. wire \in Seq(Envelope)
  BY DEF Types, TypeOK, Envelope, Statement
<1> QED
  BY <1>1

LEMMA WireGrows ==
  ASSUME Types, UNCHANGED panel, NEW m \in Envelope, Addressed(m), wire' = Append(wire, m)
  PROVE  /\ wire' \in Seq(Envelope) /\ Len(wire') = Len(wire) + 1
         /\ \A n \in 1..Len(wire) : wire'[n] = wire[n]
         /\ wire'[Len(wire) + 1] = m
         /\ (\A n \in DOMAIN wire : Addressed(wire[n]))'
<1>1. /\ wire' \in Seq(Envelope) /\ Len(wire') = Len(wire) + 1 /\ DOMAIN wire' = 1..(Len(wire) + 1)
      /\ \A n \in 1..Len(wire) : wire'[n] = wire[n]
      /\ wire'[Len(wire) + 1] = m
  BY WireIs
<1>2. \A n \in DOMAIN wire' : Addressed(wire'[n])
  BY <1>1, WireIs DEF Types
<1>3. ASSUME NEW x PROVE Addressed(x)' <=> Addressed(x)
  BY DEF Addressed, Numbers, EntryOf, ReportedAs
<1> QED
  BY <1>1, <1>2, <1>3

LEMMA WireTaken ==
  ASSUME Types, UNCHANGED panel, NEW type, Receive(type)
  PROVE  /\ Head(wire) = wire[1] /\ wire[1] \in Envelope /\ Addressed(wire[1]) /\ wire[1].type = type
         /\ wire[1].values \in Statement /\ Len(wire) \in Nat \ {0}
         /\ wire' \in Seq(Envelope) /\ Len(wire') = Len(wire) - 1
         /\ \A n \in 1..Len(wire') : wire'[n] = wire[n + 1] /\ n + 1 \in 1..Len(wire)
         /\ (\A n \in DOMAIN wire : Addressed(wire[n]))'
<1>1. /\ Head(wire) = wire[1] /\ Len(wire) \in Nat \ {0} /\ wire[1] \in Envelope /\ wire[1].type = type
      /\ wire' \in Seq(Envelope) /\ Len(wire') = Len(wire) - 1
      /\ \A n \in 1..Len(wire') : wire'[n] = wire[n + 1] /\ n + 1 \in 1..Len(wire)
  BY WireIs DEF Receive
<1>2. Addressed(wire[1]) /\ \A n \in DOMAIN wire' : Addressed(wire'[n])
  <2>1. 1 \in DOMAIN wire /\ DOMAIN wire' = 1..Len(wire') /\ DOMAIN wire = 1..Len(wire)
    BY <1>1, WireIs
  <2>2. \A n \in 1..Len(wire') : n + 1 \in DOMAIN wire /\ Addressed(wire[n + 1])
    BY <1>1, <2>1 DEF Types
  <2>3. Addressed(wire[1])
    BY <2>1 DEF Types
  <2> QED
    BY <1>1, <2>1, <2>2, <2>3
<1>3. ASSUME NEW x PROVE Addressed(x)' <=> Addressed(x)
  BY DEF Addressed, Numbers, EntryOf, ReportedAs
<1>4. wire[1].values \in Statement
  BY <1>1 DEF Envelope
<1>5. (\A n \in DOMAIN wire : Addressed(wire[n]))'
  BY <1>2, <1>3
<1> QED
  BY <1>1, <1>2, <1>4, <1>5

LEMMA MappingType == ASSUME Types, NEW known PROVE Mapping(known) \in Maps
BY DEF Types, TypeOK, Maps, Mapping, ProgramSensor, OrElse

LEMMA InitKept == Init => Kept
<1> SUFFICES ASSUME Init PROVE Kept
  OBVIOUS
<1>1. hasPrograms \in BOOLEAN /\ synced \in BOOLEAN /\ reread \in BOOLEAN
  BY DEF Init
<1>2. wire \in Seq(Envelope) /\ DOMAIN wire = {}
  BY DEF Init
<1>3. answered \in 0..Len(Requests) /\ panel \in PanelKind /\ panel \in Panels
  BY RequestsAre DEF Init
<1>4. TypeOK
  BY <1>1, <1>2, <1>3 DEF Init, TypeOK, Envelope, Statement
<1> QED
  BY <1>2, <1>3, <1>4 DEF Init, Kept, Types, Keyed, RealtimeWins

\* What a step must do to keep all this.
LEMMA KeptBy ==
  ASSUME Types, UNCHANGED panel, target' \in [Output -> Setpoint],
         link' \in {"down", "up"}, answered' \in 0..Len(Requests),
         wire' \in Seq(Envelope), (\A n \in DOMAIN wire : Addressed(wire[n]))',
         hasPrograms' \in BOOLEAN, synced' \in BOOLEAN, reread' \in BOOLEAN,
         device' \in Devices, toDomus' \in Maps, cfg' \in Values, commandId' \in Maps,
         parked' \in Values, Keyed(cfg, parked)', fresh' \subseteq Output, heard' \subseteq Id
  PROVE  Types'
<1>1. TypeOK'
  BY DEF Types, TypeOK, Envelope, Statement, Devices, Maps, Values
<1> QED
  BY <1>1 DEF Types

\* Every list ends in the same way.
LEMMA RelinkKept ==
  ASSUME Kept, NEW dev \in Devices, NEW map, NEW known, NEW entries \in Values,
         \A i \in Id : entries[i] # None => i \in Numbers(EntryOf),
         \A o \in fresh : dev[o] # None => dev[o].current \in {"status", "default"},
         Relink(dev, map, known, entries)
  PROVE  /\ SameDevices(dev, device') /\ commandId' \in Maps /\ parked' \in Values
         /\ fresh' \subseteq Output /\ Keyed(entries, parked')
         /\ RealtimeWins'
<1>1. /\ Keyed(entries, parked) /\ commandId \in Maps /\ parked \in Values /\ fresh \subseteq Output
  BY DEF Kept, Types, TypeOK, Keyed, Maps, Values
<1>2. /\ SameDevices(dev, device') /\ commandId' \in Maps /\ parked' \in Values
      /\ fresh' \subseteq Output /\ Keyed(entries, parked')
      /\ \A o \in fresh' : dev[o] # None =>
            device'[o].current = "status" \/ (o \in fresh /\ device'[o].current = dev[o].current)
  BY <1>1, RelinkStep
<1>3. RealtimeWins'
  BY <1>2 DEF RealtimeWins, SameDevices
<1> QED
  BY <1>2, <1>3

LEMMA EntriesKept ==
  ASSUME Kept, NEW S \in Statement, DOMAIN S \subseteq Numbers(EntryOf), UNCHANGED panel, TakeEntries(S)
  PROVE  /\ SameDevices(device, device') /\ commandId' \in Maps /\ parked' \in Values
         /\ fresh' \subseteq Output /\ Keyed(cfg, parked)' /\ cfg' \in Values
         /\ RealtimeWins'
<1> DEFINE entries == [i \in Id |-> IF i \in DOMAIN S THEN S[i] ELSE cfg[i]]
<1>1. \A i \in DOMAIN S : S[i] \in Setpoint
  BY DEF Statement
<1>2. entries \in Values /\ \A i \in Id : entries[i] # None => i \in Numbers(EntryOf)
  BY <1>1 DEF Kept, Types, TypeOK, Keyed, Values
<1>3. cfg' = entries /\ Relink(device, toDomus, hasPrograms, entries)
  BY DEF TakeEntries
<1>4. device \in Devices
  BY DEF Kept, Types, TypeOK, Devices
<1>5. /\ SameDevices(device, device') /\ commandId' \in Maps /\ parked' \in Values
      /\ fresh' \subseteq Output /\ Keyed(entries, parked') /\ RealtimeWins'
  BY <1>2, <1>3, <1>4, RelinkKept DEF Kept, RealtimeWins
<1>6. Numbers(EntryOf)' = Numbers(EntryOf) /\ Numbers(ReportedAs)' = Numbers(ReportedAs)
  BY DEF Numbers, EntryOf, ReportedAs
<1>7. Keyed(cfg, parked)'
  BY <1>3, <1>5, <1>6 DEF Keyed
<1> QED
  BY <1>2, <1>3, <1>5, <1>7

\* A command reads the entry of one thermostat, or none.
LEMMA RereadIs ==
  ASSUME Types, NEW S \in {About("CFG_THERMOSTATS", {}), About("CFG_THERMOSTATS", Output)}
  PROVE  S \in Statement
<1>1. target \in [Output -> Setpoint]
  BY DEF Types, TypeOK
<1>2. About("CFG_THERMOSTATS", Output) = Says(Output, EntryOf) /\ About("CFG_THERMOSTATS", {}) = Says({}, EntryOf)
  BY DEF About
<1>3. {} \in SUBSET Output
  OBVIOUS
<1>4. Says(Output, EntryOf) \in Statement
  BY <1>1, SaysAll, NumberTypes
<1>5. Says({}, EntryOf) \in Statement
  BY <1>1, <1>3, SaysType, NumberTypes
<1> QED
  BY <1>2, <1>4, <1>5

LEMMA HandledKept ==
  ASSUME Kept, UNCHANGED <<panelVars, link, answered>>, NEW type, Receive(type),
         hasPrograms' \in BOOLEAN, synced' \in BOOLEAN, reread' \in BOOLEAN,
         SameDevices(device, device') \/ device' \in Devices, toDomus' \in Maps, cfg' \in Values,
         commandId' \in Maps, parked' \in Values, Keyed(cfg, parked)', fresh' \subseteq Output,
         heard' \subseteq Id, RealtimeWins'
  PROVE  Kept'
<1>1. UNCHANGED panel /\ Types
  BY DEF panelVars, Kept
<1>2. wire' \in Seq(Envelope) /\ (\A n \in DOMAIN wire : Addressed(wire[n]))'
  BY <1>1, WireTaken
<1>3. /\ target' \in [Output -> Setpoint] /\ link' \in {"down", "up"} /\ answered' \in 0..Len(Requests)
      /\ device' \in Devices
  BY <1>1 DEF Types, TypeOK, panelVars, SameDevices
<1>4. Types'
  BY <1>1, <1>2, <1>3, KeptBy
<1> QED
  BY <1>4 DEF Kept

\* The types of what a step leaves alone.
LEMMA TypesAsAre ==
  ASSUME Types
  PROVE  /\ target \in [Output -> Setpoint] /\ link \in {"down", "up"} /\ answered \in 0..Len(Requests)
         /\ wire \in Seq(Envelope) /\ \A n \in DOMAIN wire : Addressed(wire[n])
         /\ hasPrograms \in BOOLEAN /\ synced \in BOOLEAN /\ reread \in BOOLEAN
         /\ device \in Devices /\ toDomus \in Maps /\ cfg \in Values /\ commandId \in Maps
         /\ parked \in Values /\ Keyed(cfg, parked) /\ fresh \subseteq Output /\ heard \subseteq Id
BY DEF Types, TypeOK, Devices, Maps, Values, Envelope, Statement

LEMMA SamePanel ==
  ASSUME UNCHANGED panel
  PROVE  /\ Numbers(EntryOf)' = Numbers(EntryOf) /\ Numbers(ReportedAs)' = Numbers(ReportedAs)
         /\ \A x, y : Keyed(x, y)' <=> Keyed(x, y)
         /\ \A x : Addressed(x)' <=> Addressed(x)
<1>1. Numbers(EntryOf)' = Numbers(EntryOf) /\ Numbers(ReportedAs)' = Numbers(ReportedAs)
  BY DEF Numbers, EntryOf, ReportedAs
<1>2. ASSUME NEW x, NEW y PROVE Keyed(x, y)' <=> Keyed(x, y)
  BY <1>1 DEF Keyed
<1>3. ASSUME NEW x PROVE Addressed(x)' <=> Addressed(x)
  BY <1>1 DEF Addressed
<1> QED
  BY <1>1, <1>2, <1>3

\* A change is told to a registered client.
LEMMA ChangeIs ==
  ASSUME Types, NEW o \in Output, NEW v \in Setpoint, PanelChanges(o, v), Notifies
  PROVE  \E m \in Envelope :
            /\ wire' = Append(wire, m) /\ Addressed(m)
            /\ m.type \in {"STATUS_OUTPUTS", "STATUS_TEMPERATURES"}
            /\ DOMAIN m.values = {ReportedAs[o]} /\ m.values[ReportedAs[o]] = v
<1> DEFINE type == IF panel = "plain" THEN "STATUS_OUTPUTS" ELSE "STATUS_TEMPERATURES"
           S == [i \in {ReportedAs[o]} |-> v]
           m == Message(type, S)
<1>1. wire' = Append(wire, m)
  BY DEF PanelChanges, ReportedAs
<1>2. S \in Statement /\ DOMAIN S = {ReportedAs[o]} /\ S[ReportedAs[o]] = v
  <2>1. ReportedAs[o] \in Id
    BY NumberTypes
  <2>2. {ReportedAs[o]} \in SUBSET Id /\ S \in [{ReportedAs[o]} -> Setpoint]
    BY <2>1
  <2> QED
    BY <2>2 DEF Statement
<1>3. m.type = type /\ m.values = S
  BY DEF Message
<1>4. m \in Envelope
  BY <1>2, TypesAre DEF Message, Envelope
<1>5. ReportedAs[o] \in Numbers(ReportedAs)
  BY DEF Numbers
<1>6. Addressed(m)
  BY <1>2, <1>3, <1>5 DEF Addressed
<1> QED
  BY <1>1, <1>2, <1>3, <1>4, <1>6

LEMMA PostedKept ==
  ASSUME Kept, UNCHANGED <<panel, link, synced, mapVars, statusVars, reread>>,
         target' \in [Output -> Setpoint], answered' \in 0..Len(Requests),
         NEW m \in Envelope, Addressed(m), wire' = Append(wire, m)
  PROVE  Kept'
<1>1. Types
  BY DEF Kept
<1>2. wire' \in Seq(Envelope) /\ (\A n \in DOMAIN wire : Addressed(wire[n]))'
  BY <1>1, WireGrows
<1>3. Keyed(cfg, parked)'
  BY <1>1, TypesAsAre, SamePanel DEF mapVars, statusVars
<1>4. Types'
  BY <1>1, <1>2, <1>3, TypesAsAre, KeptBy DEF mapVars, statusVars
<1> QED
  BY <1>4 DEF Kept, RealtimeWins, statusVars

LEMMA PanelKept ==
  ASSUME Kept, \/ Connect \/ Disconnect \/ Answer \/ PanelReports \/ Expire \/ UNCHANGED vars
               \/ \E o \in Output, v \in Setpoint : PanelChanges(o, v)
  PROVE  Kept'
<1>0. Types
  BY DEF Kept
<1>1. CASE \/ Connect \/ Disconnect \/ Expire \/ UNCHANGED vars
           \/ \E o \in Output, v \in Setpoint : PanelChanges(o, v) /\ ~Notifies
  <2>0. /\ target \in [Output -> Setpoint] /\ link \in {"down", "up"}
        /\ answered \in 0..Len(Requests) /\ synced \in BOOLEAN
    BY <1>0, TypesAsAre
  <2>1. /\ UNCHANGED <<panel, mapVars, device, parked, reread>>
        /\ fresh' \subseteq fresh /\ heard' \subseteq heard
        /\ target' \in [Output -> Setpoint]
    <3>1. CASE Connect \/ Disconnect \/ UNCHANGED vars
      BY <2>0, <3>1 DEF Connect, Disconnect, vars, panelVars, mapVars, statusVars
    <3>2. CASE Expire
      BY <2>0, <3>2 DEF Expire, panelVars, mapVars
    <3>3. ASSUME NEW o \in Output, NEW v \in Setpoint, PanelChanges(o, v)
          PROVE  target' \in [Output -> Setpoint] /\ UNCHANGED <<panel, mapVars, statusVars, reread>>
      BY <2>0, <3>3 DEF PanelChanges
    <3> QED
      BY <1>1, <3>1, <3>2, <3>3 DEF statusVars
  <2>2. link' \in {"down", "up"} /\ answered' \in 0..Len(Requests) /\ synced' \in BOOLEAN
    <3>1. CASE Connect
      <4>1. link' = "up" /\ answered' = 0
        BY <3>1 DEF Connect
      <4>2. synced' = FALSE
        BY <3>1, Zenon DEF Connect
      <4>3. synced' \in BOOLEAN
        BY <4>2, Zenon
      <4> QED
        BY <4>1, <4>3, RequestsAre
    <3>2. ASSUME NEW o \in Output, NEW v \in Setpoint, PanelChanges(o, v)
          PROVE  UNCHANGED <<link, answered, synced>>
      BY <3>2 DEF PanelChanges
    <3>3. CASE Disconnect \/ Expire \/ UNCHANGED vars
      <4>1. link' \in {"down", link} /\ UNCHANGED <<answered, synced>>
        BY <3>3 DEF Disconnect, Expire, vars, linkVars
      <4> QED
        BY <2>0, <4>1
    <3> QED
      BY <1>1, <2>0, <3>1, <3>2, <3>3
  <2>3. wire' = wire \/ wire' = <<>>
    BY <1>1 DEF Connect, Disconnect, Expire, PanelChanges, vars, linkVars
  <2>4. wire' \in Seq(Envelope) /\ (\A n \in DOMAIN wire : Addressed(wire[n]))'
    <3>1. CASE wire' = <<>>
      BY <3>1
    <3>2. CASE wire' = wire
      <4>1. ASSUME NEW n \in DOMAIN wire PROVE Addressed(wire[n])'
        BY <1>0, <2>1, <3>2, SamePanel DEF Types
      <4> QED
        BY <1>0, <3>2, <4>1, TypesAsAre
    <3> QED
      BY <2>3, <3>1, <3>2
  <2>5. Keyed(cfg, parked)'
    BY <1>0, <2>1, TypesAsAre, SamePanel DEF mapVars
  <2>6. Types'
    BY <1>0, <2>1, <2>2, <2>4, <2>5, TypesAsAre, KeptBy DEF mapVars
  <2> QED
    BY <2>1, <2>6 DEF Kept, RealtimeWins
<1>2. CASE Answer
  <2> DEFINE r == Requests[answered + 1]
             m == Message(r, About(r, Output))
  <2>1. answered' \in 0..Len(Requests) /\ r \in MessageType \ {"STATUS_TEMPERATURES"}
    <3>1. answered \in 0..6 /\ answered' = answered + 1
      BY <1>0, <1>2, TypesAsAre, RequestsAre DEF Answer
    <3> QED
      BY <3>1, RequestsAre
  <2>2. m \in Envelope /\ Addressed(m)
    BY <1>0, <2>1, AnswerType, TypesAsAre DEF Types, TypeOK
  <2>3. wire' = Append(wire, m) /\ UNCHANGED <<panelVars, link, synced, mapVars, statusVars, reread>>
    BY <1>2 DEF Answer
  <2> QED
    BY <1>0, <2>1, <2>2, <2>3, PostedKept, TypesAsAre DEF panelVars
<1>3. CASE PanelReports
  <2>1. PICK type \in {"STATUS_BUS_HA_SENSORS", "STATUS_SYSTEM"} : wire' = Append(wire, Message(type, <<>>))
    BY <1>3 DEF PanelReports
  <2>2. Message(type, <<>>) \in Envelope /\ Addressed(Message(type, <<>>))
    BY NothingSaid, TypesAre DEF Message, Envelope, Addressed
  <2>3. UNCHANGED <<panelVars, link, answered, synced, mapVars, statusVars, reread>>
    BY <1>3 DEF PanelReports
  <2> QED
    BY <1>0, <2>1, <2>2, <2>3, PostedKept, TypesAsAre DEF panelVars
<1>4. ASSUME NEW o \in Output, NEW v \in Setpoint, PanelChanges(o, v), Notifies
      PROVE  Kept'
  <2>1. PICK m \in Envelope : wire' = Append(wire, m) /\ Addressed(m)
    BY <1>0, <1>4, ChangeIs
  <2>2. /\ UNCHANGED <<panel, link, answered, synced, mapVars, statusVars, reread>>
        /\ target' \in [Output -> Setpoint]
    BY <1>0, <1>4, TypesAsAre DEF PanelChanges
  <2> QED
    BY <1>0, <2>1, <2>2, PostedKept, TypesAsAre
<1> QED
  BY <1>1, <1>2, <1>3, <1>4

\* No device object goes.
Grows == \A o \in Output : device[o] # None => device'[o] # None

LEMMA SensorNumbers == Sensors \subseteq Id
BY DEF Sensors

LEMMA OneType == ~(HandleOutputs /\ HandlePrograms) /\ ~(HandleOutputs /\ HandleEntries)
BY DEF HandleOutputs, HandlePrograms, HandleEntries, Receive

LEMMA ListKept ==
  ASSUME Kept, HandleOutputs \/ HandlePrograms \/ HandleEntries
  PROVE  Kept' /\ Grows /\ (HandleOutputs => \A o \in Output : device'[o] # None)
<1> USE TypesAsAre
<1>0. Types /\ RealtimeWins
  BY DEF Kept
<1>1. CASE HandleOutputs
  <2> DEFINE dev == [o \in Output |-> NewDevice]
             map == Mapping(hasPrograms)
  <2>1. /\ Receive("MULTI_TYPES") /\ toDomus' = map /\ Relink(dev, map, hasPrograms, cfg)
        /\ UNCHANGED <<panelVars, link, answered, synced, hasPrograms, cfg, heard, reread>>
    BY <1>1 DEF HandleOutputs
  <2>2. NewDevice \in Device /\ NewDevice.current = "default"
    BY DEF NewDevice, Device, Source
  <2>3. dev \in Devices /\ \A o \in Output : dev[o].current \in {"status", "default"}
    BY <2>2 DEF Devices
  <2>4. map \in Maps
    BY <1>0, MappingType
  <2>5. /\ SameDevices(dev, device') /\ commandId' \in Maps /\ parked' \in Values
        /\ fresh' \subseteq Output /\ Keyed(cfg, parked') /\ RealtimeWins'
    <3>1. \A i \in Id : cfg[i] # None => i \in Numbers(EntryOf)
      BY <1>0 DEF Keyed
    <3>2. \A o \in fresh : dev[o] # None => dev[o].current \in {"status", "default"}
      BY <1>0, <2>3
    <3>3. cfg \in Values
      BY <1>0
    <3> HIDE DEF dev, map
    <3> QED
      BY <2>1, <2>3, <3>1, <3>2, <3>3, RelinkKept
  <2>6. Keyed(cfg, parked)'
    BY <2>1, <2>5, SamePanel DEF panelVars
  <2>7. hasPrograms' \in BOOLEAN /\ synced' \in BOOLEAN /\ reread' \in BOOLEAN /\ heard' \subseteq Id /\ cfg' \in Values
    BY <1>0, <2>1
  <2>8. device' \in Devices
    BY <2>5 DEF SameDevices
  <2>9. UNCHANGED <<panelVars, link, answered>>
    BY <2>1
  <2>10. Kept'
    BY <2>1, <2>4, <2>5, <2>6, <2>7, <2>8, <2>9, HandledKept
  <2>11. \A o \in Output : device'[o] # None
    <3>1. \A o \in Output : dev[o] # None
      BY <2>2
    <3> HIDE DEF dev
    <3> QED
      BY <2>5, <3>1 DEF SameDevices
  <2> QED
    BY <2>10, <2>11 DEF Grows
<1>2. CASE HandlePrograms
  <2> DEFINE known == (panel = "domus")
  <2>1. /\ Receive("PRG_THERMOSTATS") /\ Relink(device, toDomus', known, cfg)
        /\ toDomus' = toDomus \/ toDomus' = Mapping(known)
        /\ UNCHANGED <<panelVars, link, answered, synced, cfg, heard, reread>>
    BY <1>2 DEF HandlePrograms
  <2>2. hasPrograms' \in BOOLEAN
    BY <1>2, Zenon DEF HandlePrograms
  <2>3. toDomus' \in Maps
    <3>1. Mapping(known) \in Maps
      BY <1>0, MappingType
    <3> QED
      BY <1>0, <2>1, <3>1
  <2>4. /\ SameDevices(device, device') /\ commandId' \in Maps /\ parked' \in Values
        /\ fresh' \subseteq Output /\ Keyed(cfg, parked') /\ RealtimeWins'
    <3>1. \A i \in Id : cfg[i] # None => i \in Numbers(EntryOf)
      BY <1>0 DEF Keyed
    <3>2. \A o \in fresh : device[o] # None => device[o].current \in {"status", "default"}
      BY <1>0 DEF RealtimeWins
    <3>3. cfg \in Values /\ device \in Devices
      BY <1>0
    <3> HIDE DEF known
    <3> QED
      BY <2>1, <3>1, <3>2, <3>3, RelinkKept
  <2>5. Keyed(cfg, parked)'
    BY <2>1, <2>4, SamePanel DEF panelVars
  <2>6. synced' \in BOOLEAN /\ reread' \in BOOLEAN /\ heard' \subseteq Id /\ cfg' \in Values
    BY <1>0, <2>1
  <2>7. UNCHANGED <<panelVars, link, answered>>
    BY <2>1
  <2>8. Kept'
    BY <2>1, <2>2, <2>3, <2>4, <2>5, <2>6, <2>7, HandledKept
  <2> QED
    BY <1>2, <2>4, <2>8, OneType DEF Grows, SameDevices
<1>3. CASE HandleEntries
  <2>1. /\ Receive("CFG_THERMOSTATS") /\ TakeEntries(wire[1].values)
        /\ UNCHANGED <<panelVars, link, answered, synced, hasPrograms, toDomus, heard, reread>>
    <3>1. Head(wire) = wire[1]
      BY <1>0, <1>3, WireTaken DEF HandleEntries, panelVars
    <3> QED
      BY <1>3, <3>1 DEF HandleEntries
  <2>2. wire[1].values \in Statement /\ DOMAIN wire[1].values \subseteq Numbers(EntryOf)
    BY <1>0, <2>1, WireTaken DEF panelVars, Addressed
  <2>3. /\ SameDevices(device, device') /\ commandId' \in Maps /\ parked' \in Values
        /\ fresh' \subseteq Output /\ Keyed(cfg, parked)' /\ cfg' \in Values /\ RealtimeWins'
    BY <2>1, <2>2, EntriesKept DEF panelVars
  <2>4. hasPrograms' \in BOOLEAN /\ synced' \in BOOLEAN /\ reread' \in BOOLEAN /\ heard' \subseteq Id /\ toDomus' \in Maps
    BY <1>0, <2>1
  <2>5. UNCHANGED <<panelVars, link, answered>>
    BY <2>1
  <2>6. Kept'
    BY <2>1, <2>3, <2>4, <2>5, HandledKept
  <2> QED
    BY <1>3, <2>3, <2>6, OneType DEF Grows, SameDevices
<1> QED
  BY <1>1, <1>2, <1>3

LEMMA StatusKept ==
  ASSUME Kept, HandleOutputStatus \/ HandleSensorStatus \/ HandleSystemStatus \/ HandleTemperatures
  PROVE  Kept' /\ Grows
<1> USE TypesAsAre
<1>0. Types /\ RealtimeWins
  BY DEF Kept
<1>1. CASE HandleOutputStatus \/ HandleSensorStatus \/ HandleSystemStatus
  <2>1. /\ UNCHANGED <<panelVars, link, answered, synced, mapVars, parked, fresh, reread>>
        /\ heard' \subseteq Id
        /\ \E type : Receive(type)
    BY <1>0, <1>1, SensorNumbers DEF HandleOutputStatus, HandleSensorStatus, HandleSystemStatus
  <2>2. SameDevices(device, device') /\ \A o \in fresh : device'[o] = device[o]
    <3>1. CASE HandleOutputStatus
      <4>1. Head(wire).values \in Statement /\ device' = WithOutputs(device, Head(wire).values)
        BY <1>0, <2>1, <3>1, WireTaken DEF HandleOutputStatus, panelVars
      <4> QED
        BY <1>0, <4>1, OutputsStep
    <3>2. CASE HandleSensorStatus
      BY <1>0, <3>2, SensorsStep DEF HandleSensorStatus
    <3>3. CASE HandleSystemStatus
      BY <1>0, <3>3, SystemStep DEF HandleSystemStatus
    <3> QED
      BY <1>1, <3>1, <3>2, <3>3
  <2>3. RealtimeWins'
    BY <1>0, <2>1, <2>2 DEF RealtimeWins, SameDevices
  <2>4. Keyed(cfg, parked)' /\ cfg' \in Values /\ commandId' \in Maps /\ parked' \in Values /\ toDomus' \in Maps
    BY <1>0, <2>1, SamePanel DEF mapVars, panelVars
  <2>5. hasPrograms' \in BOOLEAN /\ synced' \in BOOLEAN /\ reread' \in BOOLEAN /\ fresh' \subseteq Output
    BY <1>0, <2>1 DEF mapVars
  <2>6. UNCHANGED <<panelVars, link, answered>>
    BY <2>1
  <2>7. Kept'
    BY <2>1, <2>2, <2>3, <2>4, <2>5, <2>6, HandledKept
  <2> QED
    BY <2>2, <2>7 DEF Grows, SameDevices
<1>2. CASE HandleTemperatures
  <2> DEFINE S == Head(wire).values
  <2>1. /\ UNCHANGED <<panelVars, link, answered, synced, mapVars, heard, reread>>
        /\ Receive("STATUS_TEMPERATURES")
        /\ device' = WithStatus(device, S, toDomus, hasPrograms)
        /\ parked' = Park(device, S, toDomus, hasPrograms)
        /\ fresh' = fresh \cup {o \in Output : Takes(o, device, S, toDomus, hasPrograms)}
    BY <1>2 DEF HandleTemperatures
  <2>2. S \in Statement /\ DOMAIN S \subseteq Numbers(ReportedAs)
    BY <1>0, <2>1, WireTaken DEF panelVars, Addressed
  <2> HIDE DEF S
  <2>3. /\ SameDevices(device, device')
        /\ \A o \in Output : Takes(o, device, S, toDomus, hasPrograms) => device'[o].current = "status"
        /\ \A o \in Output : ~Takes(o, device, S, toDomus, hasPrograms) => device'[o] = device[o]
    BY <1>0, <2>1, <2>2, StatusStep
  <2>4. RealtimeWins' /\ fresh' \subseteq Output
    BY <1>0, <2>1, <2>3 DEF RealtimeWins, SameDevices
  <2>5. parked' \in Values /\ Keyed(cfg, parked)'
    <3>1. parked' \in Values /\ \A i \in Id : parked'[i] # None => i \in Numbers(ReportedAs)
      BY <1>0, <2>1, <2>2, ParkStep DEF Keyed
    <3>2. Keyed(cfg, parked')
      BY <1>0, <3>1 DEF Keyed
    <3> QED
      BY <2>1, <3>1, <3>2, SamePanel DEF mapVars, panelVars
  <2>6. cfg' \in Values /\ commandId' \in Maps /\ toDomus' \in Maps /\ heard' \subseteq Id
    BY <1>0, <2>1 DEF mapVars
  <2>7. hasPrograms' \in BOOLEAN /\ synced' \in BOOLEAN /\ reread' \in BOOLEAN
    BY <1>0, <2>1 DEF mapVars
  <2>8. UNCHANGED <<panelVars, link, answered>>
    BY <2>1
  <2>9. Kept'
    BY <2>1, <2>3, <2>4, <2>5, <2>6, <2>7, <2>8, HandledKept
  <2> QED
    BY <2>3, <2>9 DEF Grows, SameDevices
<1> QED
  BY <1>1, <1>2

LEMMA RereadKept ==
  ASSUME Kept, HandleReread
  PROVE  Kept' /\ Grows
<1>0. Types
  BY DEF Kept
<1>1. PICK o \in Output, S \in {About("CFG_THERMOSTATS", {}), About("CFG_THERMOSTATS", Output)} :
         TakeEntries([i \in DOMAIN S \cap {EntryOf[o]} |-> S[i]])
  BY DEF HandleReread
<1>2. PICK T : T = [i \in DOMAIN S \cap {EntryOf[o]} |-> S[i]]
  OBVIOUS
<1>3. T \in Statement /\ DOMAIN T \subseteq Numbers(EntryOf)
  <2>1. S \in Statement
    BY <1>0, RereadIs
  <2>2. DOMAIN T \in SUBSET Id /\ T \in [DOMAIN T -> Setpoint]
    BY <1>2, <2>1 DEF Statement
  <2>3. EntryOf[o] \in Numbers(EntryOf)
    BY DEF Numbers
  <2> QED
    BY <1>2, <2>2, <2>3 DEF Statement
<1> USE TypesAsAre
<1>4. UNCHANGED <<panelVars, linkVars, hasPrograms, toDomus, heard>> /\ TakeEntries(T)
  BY <1>1, <1>2 DEF HandleReread
<1>5. reread' \in BOOLEAN
  BY Zenon DEF HandleReread
<1>6. /\ SameDevices(device, device') /\ commandId' \in Maps /\ parked' \in Values
      /\ fresh' \subseteq Output /\ Keyed(cfg, parked)' /\ cfg' \in Values /\ RealtimeWins'
  BY <1>3, <1>4, EntriesKept DEF panelVars
<1>7. /\ target' \in [Output -> Setpoint] /\ link' \in {"down", "up"} /\ answered' \in 0..Len(Requests)
      /\ toDomus' \in Maps /\ heard' \subseteq Id /\ UNCHANGED panel
  BY <1>0, <1>4 DEF panelVars, linkVars
<1>8. hasPrograms' \in BOOLEAN /\ synced' \in BOOLEAN
  BY <1>0, <1>4 DEF linkVars
<1>9. wire' \in Seq(Envelope) /\ (\A n \in DOMAIN wire : Addressed(wire[n]))'
  <2>1. wire' = wire
    BY <1>4 DEF linkVars
  <2>2. ASSUME NEW n \in DOMAIN wire PROVE Addressed(wire[n])'
    BY <1>0, <1>7, <2>1, SamePanel
  <2> QED
    BY <1>0, <2>1, <2>2
<1>10. device' \in Devices
  BY <1>6 DEF SameDevices
<1>11. Types'
  BY <1>0, <1>5, <1>6, <1>7, <1>8, <1>9, <1>10, KeptBy
<1>12. Kept'
  BY <1>6, <1>11 DEF Kept
<1>13. Grows
  BY <1>6 DEF Grows, SameDevices
<1> QED
  BY <1>12, <1>13

\* The devices after a snapshot: what it says of rooms is S, of outputs U.
SnapshotRooms(U) == WithSensors(IF panel = "plain" THEN WithOutputs(device, U) ELSE device, Sensors)

LEMMA SnapshotIs ==
  ASSUME Types, HandleSnapshot
  PROVE  \E S \in Statement, U \in Statement :
            /\ U = wire[1].values /\ S = IF panel = "plain" THEN <<>> ELSE U
            /\ DOMAIN U = Numbers(ReportedAs) /\ DOMAIN S \subseteq Numbers(ReportedAs)
            /\ fresh' = fresh \cup {o \in Output : Takes(o, SnapshotRooms(U), S, toDomus, hasPrograms)}
            /\ device' = WithSystem(WithStatus(SnapshotRooms(U), S, toDomus, hasPrograms), fresh', heard \cup Sensors)
            /\ parked' = Park(device, S, toDomus, hasPrograms)
            /\ UNCHANGED <<panelVars, link, answered, mapVars>>
<1>0. Receive("REGISTER") /\ UNCHANGED <<panelVars, link, answered, mapVars>>
  BY DEF HandleSnapshot
<1> DEFINE U == wire[1].values
           S == IF panel = "plain" THEN <<>> ELSE U
<1>1. /\ Head(wire) = wire[1] /\ U \in Statement /\ DOMAIN U = Numbers(ReportedAs)
  BY <1>0, WireTaken DEF panelVars, Addressed
<1>2. S \in Statement /\ DOMAIN S \subseteq Numbers(ReportedAs)
  BY <1>1, NothingSaid
<1>3. /\ fresh' = fresh \cup {o \in Output : Takes(o, SnapshotRooms(U), S, toDomus, hasPrograms)}
      /\ device' = WithSystem(WithStatus(SnapshotRooms(U), S, toDomus, hasPrograms), fresh', heard \cup Sensors)
      /\ parked' = Park(device, S, toDomus, hasPrograms)
  BY <1>1 DEF HandleSnapshot, SnapshotRooms
<1> QED
  BY <1>0, <1>1, <1>2, <1>3

LEMMA RoomsAre ==
  ASSUME Types, NEW U \in Statement
  PROVE  /\ SameDevices(device, SnapshotRooms(U))
         /\ \A o \in fresh : SnapshotRooms(U)[o] = device[o]
<1> DEFINE outs == IF panel = "plain" THEN WithOutputs(device, U) ELSE device
<1>0. device \in Devices /\ fresh \subseteq Output
  BY TypesAsAre
<1>1. SameDevices(device, outs) /\ \A o \in fresh : outs[o] = device[o]
  BY <1>0, OutputsStep DEF SameDevices
<1>2. outs \in Devices
  BY <1>1 DEF SameDevices
<1> HIDE DEF outs
<1>3. SameDevices(outs, WithSensors(outs, Sensors)) /\ \A o \in fresh : WithSensors(outs, Sensors)[o] = outs[o]
  BY <1>0, <1>2, SensorsStep
<1>4. SnapshotRooms(U) = WithSensors(outs, Sensors)
  BY DEF SnapshotRooms, outs
<1> QED
  BY <1>1, <1>3, <1>4 DEF SameDevices

LEMMA SnapshotKept ==
  ASSUME Kept, HandleSnapshot
  PROVE  Kept' /\ Grows
<1> USE TypesAsAre
<1>0. Types /\ RealtimeWins
  BY DEF Kept
<1>1. PICK S \in Statement, U \in Statement :
        /\ U = wire[1].values /\ S = IF panel = "plain" THEN <<>> ELSE U
        /\ DOMAIN U = Numbers(ReportedAs) /\ DOMAIN S \subseteq Numbers(ReportedAs)
        /\ fresh' = fresh \cup {o \in Output : Takes(o, SnapshotRooms(U), S, toDomus, hasPrograms)}
        /\ device' = WithSystem(WithStatus(SnapshotRooms(U), S, toDomus, hasPrograms), fresh', heard \cup Sensors)
        /\ parked' = Park(device, S, toDomus, hasPrograms)
        /\ UNCHANGED <<panelVars, link, answered, mapVars>>
  BY <1>0, SnapshotIs
<1>2. PICK rooms : rooms = SnapshotRooms(U)
  OBVIOUS
<1>3. SameDevices(device, rooms) /\ \A o \in fresh : rooms[o] = device[o]
  BY <1>0, <1>2, RoomsAre
<1>4. PICK taken : taken = WithStatus(rooms, S, toDomus, hasPrograms)
  OBVIOUS
<1>5. /\ SameDevices(rooms, taken)
      /\ \A o \in Output : Takes(o, rooms, S, toDomus, hasPrograms) => taken[o].current = "status"
      /\ \A o \in Output : ~Takes(o, rooms, S, toDomus, hasPrograms) => taken[o] = rooms[o]
  BY <1>1, <1>3, <1>4, StatusStep DEF SameDevices
<1>6. /\ SameDevices(taken, device') /\ fresh' \subseteq Output
      /\ \A o \in fresh' : device'[o] = taken[o]
  <2>1. device' = WithSystem(taken, fresh', heard \cup Sensors)
    BY <1>1, <1>2, <1>4
  <2>2. fresh' \subseteq Output
    BY <1>0, <1>1
  <2>3. taken \in Devices
    BY <1>5 DEF SameDevices
  <2> QED
    BY <2>1, <2>2, <2>3, SystemStep
<1>7. SameDevices(device, device')
  BY <1>3, <1>5, <1>6 DEF SameDevices
<1>8. RealtimeWins'
  <2>1. SUFFICES ASSUME NEW o \in fresh', device'[o] # None
                 PROVE  device'[o].current \in {"status", "default"}
    BY DEF RealtimeWins
  <2>2. o \in Output /\ device[o] # None /\ device'[o] = taken[o]
    BY <2>1, <1>6, <1>7 DEF SameDevices
  <2>3. CASE Takes(o, rooms, S, toDomus, hasPrograms)
    BY <1>5, <2>2, <2>3
  <2>4. CASE ~Takes(o, rooms, S, toDomus, hasPrograms)
    <3>1. o \in fresh
      BY <1>1, <1>2, <2>1, <2>4
    <3>2. taken[o] = rooms[o] /\ rooms[o] = device[o]
      BY <1>3, <1>5, <2>2, <2>4, <3>1
    <3> QED
      BY <1>0, <2>2, <3>1, <3>2 DEF RealtimeWins
  <2> QED
    BY <2>3, <2>4
<1>9. parked' \in Values /\ Keyed(cfg, parked)'
  <2>1. parked' \in Values /\ \A i \in Id : parked'[i] # None => i \in Numbers(ReportedAs)
    BY <1>0, <1>1, ParkStep DEF Keyed
  <2>2. Keyed(cfg, parked')
    BY <1>0, <2>1 DEF Keyed
  <2> QED
    BY <1>1, <2>1, <2>2, SamePanel DEF mapVars, panelVars
<1>10. cfg' \in Values /\ commandId' \in Maps /\ toDomus' \in Maps /\ heard' \subseteq Id
  BY <1>0, <1>1, SensorNumbers DEF mapVars, HandleSnapshot
<1>11. hasPrograms' \in BOOLEAN
  BY <1>0, <1>1 DEF mapVars
<1>12. synced' \in BOOLEAN /\ reread' \in BOOLEAN
  BY Zenon DEF HandleSnapshot
<1>13. UNCHANGED <<panelVars, link, answered>> /\ Receive("REGISTER")
  BY <1>1 DEF HandleSnapshot
<1>14. Kept'
  BY <1>6, <1>7, <1>8, <1>9, <1>10, <1>11, <1>12, <1>13, HandledKept
<1> QED
  BY <1>7, <1>14 DEF Grows, SameDevices

LEMMA StepKept == Kept /\ [Next]_vars => Kept'
BY PanelKept, ListKept, StatusKept, RereadKept, SnapshotKept DEF Next

LEMMA KeptInvariant == Spec => []Kept
<1>1. Init => Kept
  BY InitKept
<1>2. Kept /\ [Next]_vars => Kept'
  BY StepKept
<1> QED
  BY <1>1, <1>2, PTL DEF Spec

\* What the variables are, for any installation: among the rest, that a message speaks of
\* thermostats under their entries' or their sensors' numbers, as the panel's kind wants it.
THEOREM TypeCorrect == Spec => []TypeOK
<1>1. Kept => TypeOK
  BY DEF Kept, Types
<1> QED
  BY <1>1, KeptInvariant, PTL

\* While the real-time state of a thermostat is recent, no sensor and no system status
\* replaces its room temperature, in whatever order lists and statuses come.
THEOREM RealtimeCorrect == Spec => []RealtimeWins
<1>1. Kept => RealtimeWins
  BY DEF Kept
<1> QED
  BY <1>1, KeptInvariant, PTL

-----------------------------------------------------------------------------
(* Whose setpoint a thermostat shows                                       *)

\* What the next theorems assume of the installation.  No two thermostats have the same
\* output, program or sensor; a configured sensor is the right one; and where a panel
\* lists no programs but has sensors, no sensor has the number of another's entry.
Numbered ==
    \A o, p \in Output :
        OwnId[o] = OwnId[p] \/ ProgramOf[o] = ProgramOf[p] \/ SensorOf[o] = SensorOf[p] => o = p
Configured == "domus" \in Panels => \A o \in Output : ManualSensor[o] \in {None, SensorOf[o]}
Apart ==
    "plain" \in Panels =>
        \A o, p \in Output : ManualSensor[o] = OwnId[p] \/ NamedSensor[o] = OwnId[p] => o = p

\* A map of sensors leads to no entry of another thermostat.
Right(map, known) ==
    /\ panel = "domus" /\ known => \A o \in Output : map[o] \in {None, SensorOf[o]}
    /\ panel = "standalone" => \A o \in Output : map[o] = None
    /\ panel = "plain" => \A o, p \in Output : map[o] = OwnId[p] => o = p

Linked ==
    /\ panel # "domus" => ~hasPrograms
    /\ Right(toDomus, hasPrograms)
    /\ \A o \in Output : commandId[o] \in {None, EntryOf[o]}
    /\ (\A o \in Output : device[o] = None) => \A o \in Output : toDomus[o] = None

\* Of a panel with programs nothing is used before the list of them, and a plain one
\* reports nothing by sensor.
Unlisted ==
    /\ panel = "domus" /\ ~hasPrograms =>
          /\ \A i \in Id : cfg[i] = None /\ parked[i] = None
          /\ ~synced
    /\ panel = "plain" => fresh = {} /\ \A i \in Id : parked[i] = None

\* The two lists, where they stand among the requests, and what comes after them.
Lists == {"MULTI_TYPES", "PRG_THERMOSTATS"}
Place(L) == IF L = "MULTI_TYPES" THEN 1 ELSE 5
Later(L) ==
    IF L = "MULTI_TYPES" THEN MessageType \ {"MULTI_TYPES"}
    ELSE {"CFG_THERMOSTATS", "STATUS_TEMPERATURES", "REGISTER"}

Has(L) ==
    IF L = "MULTI_TYPES" THEN \A o \in Output : device[o] # None
    ELSE panel = "domus" => hasPrograms

Coming(L, n) == \E m \in 1..(n - 1) : wire[m].type = L

\* A message that needs a list comes when the client has it, or after it.
ListFirst(L) ==
    /\ \A n \in 1..Len(wire) : wire[n].type \in Later(L) => Has(L) \/ Coming(L, n)
    /\ link = "up" /\ answered >= Place(L) => Has(L) \/ Coming(L, Len(wire) + 1)
ListsFirst == \A L \in Lists : ListFirst(L)

-----------------------------------------------------------------------------
(* Lists come first                                                        *)

LEMMA HasKept ==
  ASSUME UNCHANGED panel, Grows, panel = "domus" /\ hasPrograms => hasPrograms', NEW L \in Lists, Has(L)
  PROVE  Has(L)'
BY DEF Has, Grows

LEMMA ListUsed ==
  ASSUME Types, ListsFirst, NEW L \in Lists, NEW type \in Later(L), Receive(type), UNCHANGED panel
  PROVE  Has(L)
<1>1. wire[1].type = type /\ 1 \in 1..Len(wire)
  BY WireTaken
<1>2. Has(L) \/ Coming(L, 1)
  BY <1>1 DEF ListsFirst, ListFirst
<1>3. ~Coming(L, 1)
  BY DEF Coming
<1> QED
  BY <1>2, <1>3

LEMMA TakenListFirst ==
  ASSUME Types, UNCHANGED <<panel, link, answered>>, NEW type, Receive(type), NEW L \in Lists,
         ListFirst(L), Has(L) => Has(L)', type = L => Has(L)'
  PROVE  ListFirst(L)'
<1>1. /\ wire[1].type = type /\ Len(wire') = Len(wire) - 1 /\ Len(wire) \in Nat
      /\ \A n \in 1..Len(wire') : wire'[n] = wire[n + 1] /\ n + 1 \in 1..Len(wire)
  BY WireTaken
<1>2. ASSUME NEW n \in 1..(Len(wire') + 1), Has(L) \/ Coming(L, n + 1)
      PROVE  (Has(L))' \/ \E m \in 1..(n - 1) : wire'[m].type = L
  <2>1. CASE Has(L)
    BY <2>1
  <2>2. CASE Coming(L, n + 1)
    <3>1. PICK m \in 1..n : wire[m].type = L
      BY <2>2 DEF Coming
    <3>2. CASE m = 1
      BY <1>1, <3>1, <3>2
    <3>3. CASE m # 1
      <4>1. m - 1 \in 1..(n - 1) /\ m - 1 \in 1..Len(wire')
        BY <1>1, <3>3
      <4>2. wire'[m - 1] = wire[m]
        BY <1>1, <4>1
      <4> QED
        BY <3>1, <4>1, <4>2
    <3> QED
      BY <3>2, <3>3
  <2> QED
    BY <1>2, <2>1, <2>2
<1>3. ASSUME NEW n \in 1..Len(wire'), wire'[n].type \in Later(L)
      PROVE  (Has(L))' \/ \E m \in 1..(n - 1) : wire'[m].type = L
  <2>1. n + 1 \in 1..Len(wire) /\ wire[n + 1].type \in Later(L) /\ n \in 1..(Len(wire') + 1)
    BY <1>1, <1>3
  <2>2. Has(L) \/ Coming(L, n + 1)
    BY <2>1 DEF ListFirst
  <2> QED
    BY <1>2, <2>1, <2>2
<1>4. ASSUME link' = "up", answered' >= Place(L)
      PROVE  (Has(L))' \/ \E m \in 1..Len(wire') : wire'[m].type = L
  BY <1>1, <1>2, <1>4 DEF ListFirst
<1> QED
  BY <1>1, <1>3, <1>4 DEF ListFirst, Coming, Later, Place

LEMMA PostedListFirst ==
  ASSUME Types, UNCHANGED <<panel, link>>, NEW m \in Envelope, wire' = Append(wire, m),
         NEW L \in Lists, ListFirst(L), Has(L) => Has(L)',
         m.type \in Later(L) => Has(L) \/ Coming(L, Len(wire) + 1),
         link = "up" /\ answered' >= Place(L) => Has(L) \/ Coming(L, Len(wire) + 1) \/ m.type = L
  PROVE  ListFirst(L)'
<1>1. /\ Len(wire') = Len(wire) + 1 /\ Len(wire) \in Nat /\ wire'[Len(wire) + 1] = m
      /\ \A n \in 1..Len(wire) : wire'[n] = wire[n]
  BY WireIs
<1>2. ASSUME NEW n \in 1..(Len(wire) + 1), Has(L) \/ Coming(L, n)
      PROVE  (Has(L))' \/ \E k \in 1..(n - 1) : wire'[k].type = L
  <2>1. CASE Has(L)
    BY <2>1
  <2>2. CASE Coming(L, n)
    <3>1. PICK k \in 1..(n - 1) : wire[k].type = L
      BY <2>2 DEF Coming
    <3>2. wire'[k] = wire[k]
      BY <1>1, <3>1
    <3> QED
      BY <3>1, <3>2
  <2> QED
    BY <1>2, <2>1, <2>2
<1>3. ASSUME NEW n \in 1..Len(wire'), wire'[n].type \in Later(L)
      PROVE  (Has(L))' \/ \E k \in 1..(n - 1) : wire'[k].type = L
  <2>1. CASE n = Len(wire) + 1
    BY <1>1, <1>2, <1>3, <2>1
  <2>2. CASE n # Len(wire) + 1
    <3>1. n \in 1..Len(wire) /\ wire'[n] = wire[n]
      BY <1>1, <2>2
    <3>2. Has(L) \/ Coming(L, n)
      BY <1>3, <3>1 DEF ListFirst
    <3> QED
      BY <1>1, <1>2, <3>1, <3>2
  <2> QED
    BY <2>1, <2>2
<1>4. ASSUME link' = "up", answered' >= Place(L)
      PROVE  (Has(L))' \/ \E k \in 1..Len(wire') : wire'[k].type = L
  <2>1. CASE m.type = L
    BY <1>1, <2>1
  <2>2. CASE Has(L) \/ Coming(L, Len(wire) + 1)
    <3>1. (Has(L))' \/ \E k \in 1..(Len(wire) + 1 - 1) : wire'[k].type = L
      BY <1>1, <1>2, <2>2
    <3> QED
      BY <1>1, <3>1
  <2> QED
    BY <1>4, <2>1, <2>2
<1> QED
  BY <1>1, <1>3, <1>4 DEF ListFirst, Coming, Later, Place

LEMMA SameListFirst ==
  ASSUME UNCHANGED wire, NEW L \in Lists, ListFirst(L), Has(L) => Has(L)',
         link' = "up" /\ answered' >= Place(L) => link = "up" /\ answered >= Place(L)
  PROVE  ListFirst(L)'
<1>1. ASSUME NEW n PROVE Coming(L, n)' <=> Coming(L, n)
  BY DEF Coming
<1> QED
  BY <1>1 DEF ListFirst, Later, Place

\* A step of the panel, or of the link, leaves alone what the client has.
LEMMA PanelLists ==
  ASSUME Kept, ListsFirst,
         \/ Connect \/ Disconnect \/ Answer \/ PanelReports \/ Expire \/ UNCHANGED vars
         \/ \E o \in Output, v \in Setpoint : PanelChanges(o, v)
  PROVE  ListsFirst' /\ UNCHANGED <<panel, device, mapVars>>
<1>0. Types /\ Len(wire) \in Nat /\ answered \in 0..7
  BY WireIs, TypesAsAre, RequestsAre DEF Kept
<1>1. UNCHANGED <<panel, device, mapVars>>
  <2>1. ASSUME NEW o \in Output, NEW v \in Setpoint, PanelChanges(o, v)
        PROVE  UNCHANGED <<panel, device, mapVars>>
    BY <2>1 DEF PanelChanges, statusVars
  <2>2. CASE Connect \/ Disconnect \/ Answer \/ PanelReports \/ Expire \/ UNCHANGED vars
    BY <2>2 DEF Connect, Disconnect, Answer, PanelReports, Expire, vars, panelVars, statusVars
  <2> QED
    BY <2>1, <2>2
<1>2. \A L \in Lists : Has(L) => Has(L)'
  BY <1>1 DEF Has, mapVars
<1>3. SUFFICES ASSUME NEW L \in Lists, ListFirst(L) PROVE ListFirst(L)'
  BY <1>1 DEF ListsFirst
<1>4. L \in {"MULTI_TYPES", "PRG_THERMOSTATS"} /\ Place(L) \in {1, 5}
  BY <1>3 DEF Lists, Place
<1>5. CASE Connect
  <2>1. UNCHANGED wire /\ answered' = 0
    BY <1>5 DEF Connect
  <2> QED
    BY <1>2, <1>3, <1>4, <2>1, SameListFirst
<1>6. CASE Disconnect
  BY <1>6 DEF Disconnect, ListFirst
<1>7. CASE Expire \/ UNCHANGED vars
  <2>1. UNCHANGED <<wire, link, answered>>
    BY <1>7 DEF Expire, vars, linkVars
  <2> QED
    BY <1>2, <1>3, <2>1, SameListFirst
<1>8. CASE Answer
  <2> DEFINE k == answered + 1
             m == Message(Requests[k], About(Requests[k], Output))
  <2>1. k \in 1..7 /\ answered' = k /\ link = "up" /\ UNCHANGED link /\ wire' = Append(wire, m)
    BY <1>0, <1>8, RequestsAre DEF Answer
  <2>2. m.type = Requests[k] /\ Requests[k] \in MessageType \ {"STATUS_TEMPERATURES"}
    BY <2>1, RequestsAre DEF Message
  <2>3. m \in Envelope
    BY <1>0, <2>2, AnswerType, TypesAsAre DEF Types, TypeOK
  <2>4. answered >= Place(L) => Has(L) \/ Coming(L, Len(wire) + 1)
    BY <1>3, <2>1 DEF ListFirst
  <2>5. k >= Place(L) => answered >= Place(L) \/ k = Place(L)
    BY <1>0, <1>4, <2>1
  <2>6. k = Place(L) => Requests[k] = L
    BY <1>4, RequestsAre DEF Place
  <2>7. Requests[k] \in Later(L) => k > Place(L)
    BY <1>4, <2>1, RequestsAre DEF Place, Later
  <2>8. m.type \in Later(L) => Has(L) \/ Coming(L, Len(wire) + 1)
    BY <1>0, <1>4, <2>1, <2>2, <2>4, <2>7
  <2>9. answered' >= Place(L) => Has(L) \/ Coming(L, Len(wire) + 1) \/ m.type = L
    BY <2>1, <2>2, <2>4, <2>5, <2>6
  <2> HIDE DEF m, k
  <2> QED
    BY <1>0, <1>1, <1>2, <1>3, <2>1, <2>3, <2>8, <2>9, PostedListFirst
<1>9. ASSUME NEW m \in Envelope, wire' = Append(wire, m), Notifies, UNCHANGED <<link, answered>>
      PROVE  ListFirst(L)'
  <2>1. link = "up" /\ answered = 7
    BY <1>9, RequestsAre DEF Notifies
  <2>2. Has(L) \/ Coming(L, Len(wire) + 1)
    BY <1>3, <1>4, <2>1 DEF ListFirst
  <2> QED
    BY <1>0, <1>1, <1>2, <1>3, <1>9, <2>2, PostedListFirst
<1>10. CASE PanelReports
  <2>1. PICK type \in {"STATUS_BUS_HA_SENSORS", "STATUS_SYSTEM"} : wire' = Append(wire, Message(type, <<>>))
    BY <1>10 DEF PanelReports
  <2>2. Message(type, <<>>) \in Envelope
    BY NothingSaid, TypesAre DEF Message, Envelope
  <2> QED
    BY <1>9, <1>10, <2>1, <2>2 DEF PanelReports
<1>11. ASSUME NEW o \in Output, NEW v \in Setpoint, PanelChanges(o, v)
       PROVE  ListFirst(L)'
  <2>1. CASE Notifies
    <3>1. PICK m \in Envelope : wire' = Append(wire, m)
      BY <1>0, <1>11, <2>1, ChangeIs
    <3> QED
      BY <1>9, <1>11, <2>1, <3>1 DEF PanelChanges
  <2>2. CASE ~Notifies
    BY <1>2, <1>3, <1>11, <2>2, SameListFirst DEF PanelChanges
  <2> QED
    BY <2>1, <2>2
<1> QED
  BY <1>5, <1>6, <1>7, <1>8, <1>10, <1>11

Handles ==
    \/ HandleOutputs \/ HandlePrograms \/ HandleEntries \/ HandleOutputStatus \/ HandleSensorStatus
    \/ HandleSystemStatus \/ HandleTemperatures \/ HandleSnapshot

\* Every message but a list of programs leaves alone what is known of them.
LEMMA HandlesIs ==
  ASSUME Handles
  PROVE  \E type \in MessageType :
            /\ Receive(type) /\ UNCHANGED <<panel, target, link, answered>>
            /\ type = "MULTI_TYPES" <=> HandleOutputs
            /\ type = "PRG_THERMOSTATS" <=> HandlePrograms
            /\ type = "REGISTER" <=> HandleSnapshot
            /\ ~HandlePrograms => UNCHANGED hasPrograms
            /\ HandlePrograms => hasPrograms' = (panel = "domus")
            /\ ~HandleSnapshot => UNCHANGED <<synced, reread>>
<1> DEFINE type == Head(wire).type
<1>1. /\ HandleOutputs => type = "MULTI_TYPES"
      /\ HandlePrograms => type = "PRG_THERMOSTATS"
      /\ HandleSnapshot => type = "REGISTER"
      /\ HandleEntries => type = "CFG_THERMOSTATS"
      /\ HandleOutputStatus => type = "STATUS_OUTPUTS"
      /\ HandleSensorStatus => type = "STATUS_BUS_HA_SENSORS"
      /\ HandleSystemStatus => type = "STATUS_SYSTEM"
      /\ HandleTemperatures => type = "STATUS_TEMPERATURES"
  BY DEF HandleOutputs, HandlePrograms, HandleEntries, HandleOutputStatus, HandleSensorStatus,
         HandleSystemStatus, HandleTemperatures, HandleSnapshot, Receive
<1>2. type \in MessageType
  BY <1>1, TypesAre DEF Handles
<1>3. /\ type = "MULTI_TYPES" <=> HandleOutputs
      /\ type = "PRG_THERMOSTATS" <=> HandlePrograms
      /\ type = "REGISTER" <=> HandleSnapshot
  BY <1>1 DEF Handles
<1>4. Receive(type) /\ UNCHANGED <<panel, target, link, answered>>
  BY DEF Handles, HandleOutputs, HandlePrograms, HandleEntries, HandleOutputStatus, HandleSensorStatus,
         HandleSystemStatus, HandleTemperatures, HandleSnapshot, Receive, panelVars
<1>5. ~HandlePrograms => UNCHANGED hasPrograms
  BY Zenon DEF Handles, HandleOutputs, HandleEntries, HandleOutputStatus, HandleSensorStatus,
         HandleSystemStatus, HandleTemperatures, HandleSnapshot, mapVars
<1>6. HandlePrograms => hasPrograms' = (panel = "domus")
  BY Zenon DEF HandlePrograms
<1>7. ~HandleSnapshot => UNCHANGED <<synced, reread>>
  BY Zenon DEF Handles, HandleOutputs, HandlePrograms, HandleEntries, HandleOutputStatus, HandleSensorStatus,
         HandleSystemStatus, HandleTemperatures
<1> QED
  BY <1>2, <1>3, <1>4, <1>5, <1>6, <1>7, Zenon

LEMMA ClientLists ==
  ASSUME Kept, ListsFirst, Handles \/ HandleReread
  PROVE  ListsFirst'
<1>0. Types
  BY DEF Kept
<1>1. Grows /\ (HandleOutputs => \A o \in Output : device'[o] # None)
  BY ListKept, StatusKept, SnapshotKept, RereadKept DEF Handles, HandleOutputs, HandleReread, Receive
<1>2. CASE Handles
  <2>1. PICK type \in MessageType :
            /\ Receive(type) /\ UNCHANGED <<panel, target, link, answered>>
            /\ type = "MULTI_TYPES" <=> HandleOutputs
            /\ type = "PRG_THERMOSTATS" <=> HandlePrograms
            /\ type = "REGISTER" <=> HandleSnapshot
            /\ ~HandlePrograms => UNCHANGED hasPrograms
            /\ HandlePrograms => hasPrograms' = (panel = "domus")
            /\ ~HandleSnapshot => UNCHANGED <<synced, reread>>
    BY <1>2, HandlesIs
  <2>2. panel = "domus" /\ hasPrograms => hasPrograms'
    BY <2>1
  <2>3. type = "MULTI_TYPES" => \A o \in Output : device'[o] # None
    BY <1>1, <2>1
  <2>4. type = "PRG_THERMOSTATS" /\ panel' = "domus" => hasPrograms'
    BY <2>1
  <2>5. SUFFICES ASSUME NEW L \in Lists, ListFirst(L) PROVE ListFirst(L)'
    BY <2>1 DEF ListsFirst
  <2>6. L \in {"MULTI_TYPES", "PRG_THERMOSTATS"}
    BY DEF Lists
  <2>7. Has(L) => Has(L)'
    BY <1>1, <2>1, <2>2, HasKept
  <2>8. type = L => Has(L)'
    BY <2>3, <2>4, <2>6 DEF Has
  <2> QED
    BY <1>0, <2>1, <2>5, <2>7, <2>8, TakenListFirst
<1>3. CASE HandleReread
  <2>1. UNCHANGED <<wire, link, answered, panel, hasPrograms>>
    BY <1>3 DEF HandleReread, linkVars, panelVars
  <2>2. SUFFICES ASSUME NEW L \in Lists, ListFirst(L) PROVE ListFirst(L)'
    BY DEF ListsFirst
  <2>3. Has(L) => Has(L)'
    BY <1>1, <2>1, HasKept
  <2> QED
    BY <2>1, <2>2, <2>3, SameListFirst
<1> QED
  BY <1>2, <1>3

-----------------------------------------------------------------------------
(* Numbers lead to the thermostat's own                                    *)

\* Without its programs a panel with some is asked nothing; the others have none.
Ready(known, entries) ==
    /\ panel # "domus" => ~known
    /\ panel = "domus" /\ ~known => \A i \in Id : entries[i] = None /\ parked[i] = None
    /\ panel = "plain" => \A i \in Id : parked[i] = None

LEMMA MappingRight ==
  ASSUME Configured, Apart, Types, Linked, NEW known, panel # "domus" => ~known
  PROVE  Right(Mapping(known), known)
<1>1. panel \in Panels /\ panel \in PanelKind
  BY DEF Types, TypeOK
<1>2. CASE panel = "domus" /\ known
  <2>1. ASSUME NEW o \in Output PROVE Mapping(known)[o] \in {None, SensorOf[o]}
    BY <1>1, <1>2 DEF Configured, Mapping, OrElse, ProgramSensor
  <2> QED
    BY <1>2, <2>1 DEF Right
<1>3. CASE panel = "plain"
  <2>1. ASSUME NEW o \in Output, NEW p \in Output, Mapping(known)[o] = OwnId[p] PROVE o = p
    <3>1. Mapping(known)[o] \in {ManualSensor[o], NamedSensor[o]}
      BY <1>3 DEF Mapping, OrElse, ProgramSensor
    <3> QED
      BY <1>1, <1>3, <2>1, <3>1 DEF Apart
  <2> QED
    BY <1>3, <2>1 DEF Right
<1>4. CASE panel = "standalone"
  BY <1>4 DEF Right, Mapping, Linked
<1>5. CASE panel = "domus" /\ ~known
  BY <1>5 DEF Right
<1> QED
  BY <1>1, <1>2, <1>3, <1>4, <1>5 DEF PanelKind

LEMMA ConfigOfRight ==
  ASSUME Types, NEW map, NEW known, NEW entries, Right(map, known), Ready(known, entries),
         \A i \in Id : entries[i] # None => i \in Numbers(EntryOf), NEW o \in Output,
         commandId[o] \in {None, EntryOf[o]}
  PROVE  ConfigOf(o, map, known, entries) \in {None, EntryOf[o]}
<1>1. PICK e : e = ConfigOf(o, map, known, entries)
  OBVIOUS
<1>2. SUFFICES ASSUME e # None PROVE e = EntryOf[o]
  BY <1>1
<1>3. /\ e \in Id /\ entries[e] # None
      /\ \/ e \in {Program(o, known), commandId[o]}
         \/ ~known /\ e \in {map[o], OwnId[o]}
  BY <1>1, <1>2, ConfigOfIn
<1>4. PICK p \in Output : e = EntryOf[p]
  BY <1>3 DEF Numbers
<1>5. CASE panel = "domus"
  <2>1. known
    BY <1>3, <1>5 DEF Ready
  <2> QED
    BY <1>2, <1>3, <1>5, <2>1 DEF Program, EntryOf
<1>6. CASE panel # "domus"
  <2>1. ~known /\ EntryOf = OwnId
    BY <1>6 DEF Ready, EntryOf
  <2>2. e \in {commandId[o], map[o], OwnId[o]}
    BY <1>2, <1>3, <2>1 DEF Program
  <2>3. map[o] = e => e = OwnId[o]
    BY <1>2, <1>4, <1>6, <2>1 DEF Right, Types, TypeOK, PanelKind
  <2> QED
    BY <1>2, <2>1, <2>2, <2>3
<1> QED
  BY <1>5, <1>6

LEMMA ExpectedRight ==
  ASSUME Types, NEW map, NEW known, Right(map, known), panel # "plain",
         panel # "domus" => ~known, panel = "domus" => known, NEW o \in Output
  PROVE  Expected(o, map, known) = ReportedAs[o]
BY DEF Expected, OrElse, ProgramSensor, Right, ReportedAs, Types, TypeOK, PanelKind

LEMMA OwnNumber ==
  ASSUME Numbered, NEW o \in Output
  PROVE  Whose(EntryOf[o], EntryOf) = o /\ Whose(ReportedAs[o], ReportedAs) = o
<1>1. \A p, q \in Output : EntryOf[p] = EntryOf[q] \/ ReportedAs[p] = ReportedAs[q] => p = q
  BY DEF Numbered, EntryOf, ReportedAs
<1> QED
  BY <1>1 DEF Whose

\* Of what may be parked.
LEMMA NothingParked ==
  ASSUME Types, \A i \in Id : parked[i] = None
  PROVE  DOMAIN Parked = {}
BY DEF Parked

LEMMA NothingTaken ==
  ASSUME NEW dev \in Devices, parked \in Values, NEW S, DOMAIN S = {}, NEW map, NEW known
  PROVE  /\ WithStatus(dev, S, map, known) = dev /\ Park(dev, S, map, known) = parked
         /\ \A o \in Output : ~Takes(o, dev, S, map, known)
BY DEF WithStatus, Park, Takes, Devices, Values

\* What the end of a list does to the numbers and to whose setpoints are shown.
LEMMA RelinkRight ==
  ASSUME Numbered, Types, NEW dev \in Devices, NEW map, NEW known, NEW entries \in Values,
         Right(map, known), Ready(known, entries), Keyed(entries, parked),
         \A o \in Output : commandId[o] \in {None, EntryOf[o]},
         Relink(dev, map, known, entries)
  PROVE  /\ \A o \in Output : commandId'[o] \in {None, EntryOf[o]}
         /\ DOMAIN Parked = {} => UNCHANGED <<parked, fresh>>
         /\ (\A o \in Output : dev[o] # None => dev[o].of \in {o, None})
            => \A o \in Output : device'[o] # None => device'[o].of \in {o, None}
<1>1. \A o \in Output : ConfigOf(o, map, known, entries) \in {None, EntryOf[o]}
  BY ConfigOfRight DEF Keyed
<1>2. \A o \in Output : commandId'[o] \in {None, EntryOf[o]}
  BY <1>1 DEF Relink, Remembered, OrElse
<1>3. DOMAIN Parked = {} => UNCHANGED <<parked, fresh>>
  BY NothingTaken, TypesAsAre DEF Relink
<1>4. ASSUME \A o \in Output : dev[o] # None => dev[o].of \in {o, None},
             NEW o \in Output, device'[o] # None
      PROVE  device'[o].of \in {o, None}
  <2> DEFINE C == WithConfig(dev, map, known, entries)
  <2>1. SameDevices(dev, C)
    BY ConfigStep, TypesAsAre DEF Keyed
  <2>2. C[o] # None => C[o].of \in {o, None}
    <3>1. PICK e : e = ConfigOf(o, map, known, entries)
      OBVIOUS
    <3>2. C[o] = IF dev[o] = None \/ e = None THEN dev[o]
                 ELSE [dev[o] EXCEPT !.target = entries[e], !.of = Whose(e, EntryOf)]
      BY <3>1 DEF WithConfig
    <3>3. CASE dev[o] = None \/ e = None
      BY <1>4, <3>2, <3>3
    <3>4. CASE dev[o] # None /\ e # None
      <4>1. e = EntryOf[o] /\ Whose(e, EntryOf) = o
        BY <1>1, <3>1, <3>4, OwnNumber
      <4>2. PICK d : d = dev[o]
        OBVIOUS
      <4>3. d \in Device
        BY <3>4, <4>2 DEF Devices
      <4>4. PICK t : t = entries[e]
        OBVIOUS
      <4>5. C[o] = [d EXCEPT !.target = t, !.of = o]
        BY <3>2, <3>4, <4>1, <4>2, <4>4
      <4>6. PICK x : x = C[o]
        OBVIOUS
      <4>7. x = [d EXCEPT !.target = t, !.of = o]
        BY <4>5, <4>6
      <4>8. x.of = o
        BY <4>3, <4>7 DEF Device
      <4> QED
        BY <4>6, <4>8
    <3> QED
      BY <3>3, <3>4
  <2>3. device' = WithStatus(C, Parked, map, known)
    BY DEF Relink
  <2> HIDE DEF C
  <2>4. CASE ~Takes(o, C, Parked, map, known)
    BY <1>4, <2>2, <2>3, <2>4 DEF WithStatus
  <2>5. CASE Takes(o, C, Parked, map, known)
    <3>1. panel # "plain" /\ (panel = "domus" => known)
      BY <2>5, ParkedType, TypesAsAre DEF Takes, Ready, Keyed
    <3>2. Expected(o, map, known) = ReportedAs[o]
      BY <3>1, ExpectedRight DEF Ready
    <3>3. device'[o].of = Whose(ReportedAs[o], ReportedAs)
      BY <2>3, <2>5, <3>2 DEF WithStatus
    <3> QED
      BY <3>3, OwnNumber
  <2> QED
    BY <2>4, <2>5
<1> QED
  BY <1>2, <1>3, <1>4

\* After a list, or an entry read again, the numbers are still right.
LEMMA RelinkLinked ==
  ASSUME Numbered, Kept, Kept', Linked, Unlisted, UNCHANGED panel,
         NEW dev \in Devices, NEW map, NEW known, NEW entries,
         toDomus' = map, hasPrograms' = known, cfg' = entries,
         Right(map, known), Ready(known, entries), Relink(dev, map, known, entries),
         (\A o \in Output : device'[o] = None) => \A o \in Output : map[o] = None,
         panel = "domus" /\ ~known => ~synced'
  PROVE  /\ Linked' /\ Unlisted'
         /\ (\A o \in Output : dev[o] # None => dev[o].of \in {o, None}) => OwnSetpoint'
<1>0. Types /\ parked \in Values
  BY TypesAsAre DEF Kept
<1>1. entries \in Values /\ Keyed(entries, parked)
  <2>1. entries \in Values /\ Keyed(cfg, parked)'
    BY DEF Kept, Types, TypeOK, Values
  <2>2. \A i \in Id : entries[i] # None => i \in Numbers(EntryOf)
    BY <2>1, SamePanel DEF Keyed
  <2> QED
    BY <1>0, <2>1, <2>2, TypesAsAre DEF Keyed
<1>2. \A o \in Output : commandId[o] \in {None, EntryOf[o]}
  BY DEF Linked
<1>3. /\ \A o \in Output : commandId'[o] \in {None, EntryOf[o]}
      /\ DOMAIN Parked = {} => UNCHANGED <<parked, fresh>>
      /\ (\A o \in Output : dev[o] # None => dev[o].of \in {o, None})
         => \A o \in Output : device'[o] # None => device'[o].of \in {o, None}
  BY <1>0, <1>1, <1>2, RelinkRight
<1>4. Linked'
  <2>1. panel' # "domus" => ~hasPrograms'
    BY DEF Ready
  <2>2. Right(toDomus, hasPrograms)'
    BY DEF Right
  <2>3. EntryOf' = EntryOf
    BY DEF EntryOf
  <2> QED
    BY <1>3, <2>1, <2>2, <2>3 DEF Linked
<1>5. Unlisted'
  <2>1. CASE panel = "domus" /\ ~known
    <3>1. \A i \in Id : entries[i] = None /\ parked[i] = None
      BY <2>1 DEF Ready
    <3>2. UNCHANGED parked
      BY <1>0, <1>3, <3>1, NothingParked
    <3> QED
      BY <2>1, <3>1, <3>2 DEF Unlisted
  <2>2. CASE panel = "plain"
    <3>1. UNCHANGED <<parked, fresh>> /\ \A i \in Id : parked[i] = None
      BY <1>0, <1>3, <2>2, NothingParked DEF Ready
    <3> QED
      BY <2>2, <3>1 DEF Unlisted
  <2>3. CASE panel # "plain" /\ (panel = "domus" => known)
    BY <2>3 DEF Unlisted
  <2> QED
    BY <2>1, <2>2, <2>3
<1> QED
  BY <1>3, <1>4, <1>5 DEF OwnSetpoint

LEMMA ListLinked ==
  ASSUME Numbered, Configured, Apart, Kept, Linked, Unlisted, ListsFirst,
         HandleOutputs \/ HandlePrograms \/ HandleEntries \/ HandleReread
  PROVE  Linked' /\ Unlisted' /\ (OwnSetpoint => OwnSetpoint')
<1>0. /\ Types /\ device \in Devices /\ toDomus \in Maps
      /\ panel # "domus" => ~hasPrograms
      /\ panel = "plain" => \A i \in Id : parked[i] = None
  BY TypesAsAre DEF Kept, Linked, Unlisted
<1>1. Kept' /\ Grows
  BY ListKept, RereadKept
<1>2. CASE HandleOutputs
  <2> DEFINE dev == [o \in Output |-> NewDevice]
             map == Mapping(hasPrograms)
  <2>1. /\ toDomus' = map /\ Relink(dev, map, hasPrograms, cfg)
        /\ UNCHANGED <<panel, hasPrograms, cfg, synced>>
    BY <1>2 DEF HandleOutputs, panelVars
  <2>2. NewDevice \in Device /\ NewDevice.of = None
    BY DEF NewDevice, Device, Source
  <2>3. dev \in Devices /\ \A o \in Output : dev[o].of = None
    BY <2>2 DEF Devices
  <2>4. Right(map, hasPrograms)
    BY <1>0, MappingRight
  <2>5. Ready(hasPrograms, cfg)
    BY <1>0 DEF Ready, Unlisted
  <2>6. (\A o \in Output : device'[o] = None) => \A o \in Output : map[o] = None
    BY <1>2, ListKept
  <2>7. panel = "domus" /\ ~hasPrograms => ~synced'
    BY <2>1 DEF Unlisted
  <2>8. UNCHANGED panel /\ hasPrograms' = hasPrograms /\ cfg' = cfg
    BY <2>1
  <2> HIDE DEF dev, map
  <2>9. /\ Linked' /\ Unlisted'
        /\ (\A o \in Output : dev[o] # None => dev[o].of \in {o, None}) => OwnSetpoint'
    BY <1>1, <2>1, <2>3, <2>4, <2>5, <2>6, <2>7, <2>8, RelinkLinked
  <2> QED
    BY <2>3, <2>9
<1>3. CASE HandlePrograms
  <2> DEFINE known == (panel = "domus")
  <2>1. /\ UNCHANGED <<panel, cfg, synced>>
        /\ toDomus' = IF device = [o \in Output |-> None] THEN toDomus ELSE Mapping(known)
        /\ Relink(device, toDomus', known, cfg)
    BY <1>3 DEF HandlePrograms, panelVars
  <2>2. hasPrograms' = known
    BY <1>3 DEF HandlePrograms
  <2>3. device = [o \in Output |-> None] <=> \A o \in Output : device[o] = None
    BY <1>0 DEF Devices
  <2>4. Right(toDomus', known)
    <3>1. CASE device = [o \in Output |-> None]
      <4>1. \A o \in Output : toDomus'[o] = None
        BY <2>1, <2>3, <3>1 DEF Linked
      <4> QED
        BY <4>1 DEF Right
    <3>2. CASE device # [o \in Output |-> None]
      BY <1>0, <2>1, <3>2, MappingRight
    <3> QED
      BY <3>1, <3>2
  <2>5. Ready(known, cfg)
    BY <1>0 DEF Ready
  <2>6. (\A o \in Output : device'[o] = None) => \A o \in Output : toDomus'[o] = None
    <3>1. SUFFICES ASSUME \A o \in Output : device'[o] = None PROVE \A o \in Output : toDomus'[o] = None
      OBVIOUS
    <3>2. \A o \in Output : device[o] = None
      BY <1>1, <3>1 DEF Grows
    <3> QED
      BY <2>1, <2>3, <3>2 DEF Linked
  <2>7. panel = "domus" /\ ~known => ~synced'
    OBVIOUS
  <2>8. UNCHANGED panel /\ cfg' = cfg
    BY <2>1
  <2> HIDE DEF known
  <2>9. /\ Linked' /\ Unlisted'
        /\ (\A o \in Output : device[o] # None => device[o].of \in {o, None}) => OwnSetpoint'
    BY <1>0, <1>1, <2>1, <2>2, <2>4, <2>5, <2>6, <2>7, <2>8, RelinkLinked
  <2> QED
    BY <2>9 DEF OwnSetpoint
<1>4. CASE HandleEntries \/ HandleReread
  <2>1. /\ Relink(device, toDomus, hasPrograms, cfg')
        /\ UNCHANGED <<panel, hasPrograms, toDomus, synced>>
    BY <1>4 DEF HandleEntries, HandleReread, TakeEntries, panelVars, linkVars
  <2>2. panel = "domus" => hasPrograms
    <3>1. CASE HandleReread
      BY <3>1 DEF HandleReread, Unlisted
    <3>2. CASE HandleEntries
      <4>1. "PRG_THERMOSTATS" \in Lists /\ "CFG_THERMOSTATS" \in Later("PRG_THERMOSTATS")
        BY DEF Lists, Later
      <4>2. Receive("CFG_THERMOSTATS")
        BY <3>2 DEF HandleEntries
      <4>3. Has("PRG_THERMOSTATS")
        BY <1>0, <2>1, <4>1, <4>2, ListUsed
      <4> QED
        BY <4>3 DEF Has
    <3> QED
      BY <1>4, <3>1, <3>2
  <2>3. Ready(hasPrograms, cfg')
    BY <1>0, <2>2 DEF Ready
  <2>4. (\A o \in Output : device'[o] = None) => \A o \in Output : toDomus[o] = None
    BY <1>1 DEF Grows, Linked
  <2>5. PICK entries : entries = cfg'
    OBVIOUS
  <2>6. UNCHANGED panel /\ toDomus' = toDomus /\ hasPrograms' = hasPrograms /\ cfg' = entries
    BY <2>1, <2>5
  <2>7. Right(toDomus, hasPrograms)
    BY DEF Linked
  <2>8. Relink(device, toDomus, hasPrograms, entries) /\ Ready(hasPrograms, entries)
    BY <2>1, <2>3, <2>5
  <2>9. /\ Linked' /\ Unlisted'
        /\ (\A o \in Output : device[o] # None => device[o].of \in {o, None}) => OwnSetpoint'
    BY <1>0, <1>1, <2>2, <2>4, <2>6, <2>7, <2>8, RelinkLinked
  <2> QED
    BY <2>9 DEF OwnSetpoint
<1> QED
  BY <1>2, <1>3, <1>4

LEMMA RoomsOwn ==
  ASSUME Types, OwnSetpoint, NEW U \in Statement, NEW o \in Output, SnapshotRooms(U)[o] # None
  PROVE  SnapshotRooms(U)[o].of \in {o, None}
<1> DEFINE outs == IF panel = "plain" THEN WithOutputs(device, U) ELSE device
<1>1. device \in Devices
  BY TypesAsAre
<1>2. outs \in Devices /\ (outs[o] # None => outs[o].of \in {o, None})
  <2>1. outs \in Devices
    BY <1>1, OutputsStep DEF SameDevices
  <2>2. outs[o] # None => outs[o].of \in {o, None}
    BY DEF WithOutputs, OwnSetpoint
  <2> QED
    BY <2>1, <2>2
<1>3. SnapshotRooms(U) = WithSensors(outs, Sensors)
  BY DEF SnapshotRooms
<1> HIDE DEF outs
<1> QED
  BY <1>2, <1>3, SensorsStep DEF SameDevices

\* What a thermostat takes from a status of rooms is its own.
LEMMA StatusRight ==
  ASSUME Numbered, Types, NEW map, NEW known, Right(map, known), panel # "domus" => ~known,
         NEW dev, NEW S, DOMAIN S = {} \/ (panel # "plain" /\ (panel = "domus" => known)),
         NEW o \in Output
  PROVE  /\ Takes(o, dev, S, map, known) <=>
               dev[o] # None /\ ReportedAs[o] \in DOMAIN S
         /\ WithStatus(dev, S, map, known)[o] =
               IF dev[o] # None /\ ReportedAs[o] \in DOMAIN S
               THEN [target |-> S[ReportedAs[o]], of |-> o, current |-> "status"] ELSE dev[o]
<1>1. CASE DOMAIN S = {}
  BY <1>1 DEF Takes, WithStatus
<1>2. CASE DOMAIN S # {}
  <2>1. Expected(o, map, known) = ReportedAs[o]
    BY <1>2, ExpectedRight
  <2>2. Whose(ReportedAs[o], ReportedAs) = o
    BY OwnNumber
  <2> QED
    BY <2>1, <2>2 DEF Takes, WithStatus
<1> QED
  BY <1>1, <1>2

LEMMA StatusTaken ==
  ASSUME Numbered, Types, Right(toDomus, hasPrograms), panel # "domus" => ~hasPrograms,
         NEW dev, NEW S, DOMAIN S = {} \/ (panel # "plain" /\ (panel = "domus" => hasPrograms)),
         NEW o \in Output, NEW after, after = WithStatus(dev, S, toDomus, hasPrograms)
  PROVE  /\ dev[o] # None /\ ReportedAs[o] \in DOMAIN S =>
               after[o].of = o /\ after[o].target = S[ReportedAs[o]]
         /\ ~(dev[o] # None /\ ReportedAs[o] \in DOMAIN S) => after[o] = dev[o]
<1>1. after[o] = IF dev[o] # None /\ ReportedAs[o] \in DOMAIN S
                 THEN [target |-> S[ReportedAs[o]], of |-> o, current |-> "status"] ELSE dev[o]
  BY StatusRight
<1> QED
  BY <1>1

\* A status of rooms, or the snapshot, is handled when programs are known.
LEMMA StatusReady ==
  ASSUME Types, ListsFirst, HandleTemperatures \/ HandleSnapshot
  PROVE  /\ panel = "domus" => hasPrograms
         /\ \A o \in Output : device[o] # None
<1>1. /\ {"STATUS_TEMPERATURES", "REGISTER"} \subseteq Later("PRG_THERMOSTATS")
      /\ {"STATUS_TEMPERATURES", "REGISTER"} \subseteq Later("MULTI_TYPES")
      /\ Lists = {"MULTI_TYPES", "PRG_THERMOSTATS"}
  BY TypesAre DEF Later, Lists
<1>2. PICK type \in {"STATUS_TEMPERATURES", "REGISTER"} : Receive(type) /\ UNCHANGED panel
  BY DEF HandleTemperatures, HandleSnapshot, panelVars
<1>3. Has("PRG_THERMOSTATS") /\ Has("MULTI_TYPES")
  BY <1>1, <1>2, ListUsed
<1> QED
  BY <1>3 DEF Has

LEMMA StatusLinked ==
  ASSUME Numbered, Kept, Linked, Unlisted, ListsFirst,
         HandleOutputStatus \/ HandleSensorStatus \/ HandleSystemStatus \/ HandleTemperatures \/ HandleSnapshot
  PROVE  Linked' /\ Unlisted' /\ (OwnSetpoint => OwnSetpoint')
<1>0. /\ Types /\ device \in Devices /\ parked \in Values /\ fresh \subseteq Output
      /\ panel # "domus" => ~hasPrograms
      /\ Right(toDomus, hasPrograms)
  BY TypesAsAre DEF Kept, Linked
<1>1. Grows /\ UNCHANGED <<panel, toDomus, hasPrograms, commandId, cfg>>
  BY StatusKept, SnapshotKept DEF HandleOutputStatus, HandleSensorStatus, HandleSystemStatus, HandleTemperatures,
     HandleSnapshot, mapVars, panelVars
<1>2. Linked'
  <2>1. Right(toDomus, hasPrograms)' /\ EntryOf' = EntryOf
    BY <1>0, <1>1 DEF Right, EntryOf
  <2>2. (\A o \in Output : device'[o] = None) => \A o \in Output : toDomus[o] = None
    BY <1>1 DEF Grows, Linked
  <2> QED
    BY <1>1, <2>1, <2>2 DEF Linked
<1>3. CASE HandleOutputStatus \/ HandleSensorStatus \/ HandleSystemStatus
  <2>1. UNCHANGED <<parked, fresh, synced>>
    BY <1>3 DEF HandleOutputStatus, HandleSensorStatus, HandleSystemStatus
  <2>2. Unlisted'
    BY <1>1, <2>1 DEF Unlisted
  <2>3. ASSUME OwnSetpoint, NEW o \in Output, device'[o] # None
        PROVE  device'[o].of \in {o, None}
    <3>1. CASE HandleOutputStatus
      <4>1. device' = WithOutputs(device, Head(wire).values)
        BY <3>1 DEF HandleOutputStatus
      <4> QED
        BY <2>3, <4>1 DEF WithOutputs, OwnSetpoint
    <3>2. CASE HandleSensorStatus
      <4>1. device' = WithSensors(device, Sensors)
        BY <3>2 DEF HandleSensorStatus
      <4>2. device[o] # None /\ device'[o].of = device[o].of
        BY <1>0, <2>3, <4>1, SensorsStep DEF SameDevices
      <4> QED
        BY <2>3, <4>2 DEF OwnSetpoint
    <3>3. CASE HandleSystemStatus
      <4>1. device' = WithSystem(device, fresh, heard)
        BY <3>3 DEF HandleSystemStatus
      <4>2. device[o] # None /\ device'[o].of = device[o].of
        BY <1>0, <2>3, <4>1, SystemStep DEF SameDevices
      <4> QED
        BY <2>3, <4>2 DEF OwnSetpoint
    <3> QED
      BY <1>3, <3>1, <3>2, <3>3
  <2> QED
    BY <1>2, <2>2, <2>3 DEF OwnSetpoint
<1>4. CASE HandleTemperatures
  <2> DEFINE S == Head(wire).values
  <2>1. /\ device' = WithStatus(device, S, toDomus, hasPrograms)
        /\ parked' = Park(device, S, toDomus, hasPrograms) /\ UNCHANGED synced
        /\ fresh' = fresh \cup {o \in Output : Takes(o, device, S, toDomus, hasPrograms)}
    BY <1>4 DEF HandleTemperatures
  <2>2. panel # "plain" /\ (panel = "domus" => hasPrograms)
    <3>1. Receive("STATUS_TEMPERATURES") /\ UNCHANGED panel
      BY <1>1, <1>4 DEF HandleTemperatures
    <3>2. Addressed(wire[1]) /\ wire[1].type = "STATUS_TEMPERATURES"
      BY <1>0, <3>1, WireTaken
    <3>3. panel # "plain"
      BY <3>2 DEF Addressed
    <3>4. panel = "domus" => hasPrograms
      BY <1>0, <1>4, StatusReady
    <3> QED
      BY <3>3, <3>4
  <2>3. Unlisted'
    BY <1>1, <2>2 DEF Unlisted
  <2>4. ASSUME OwnSetpoint, NEW o \in Output, device'[o] # None
        PROVE  device'[o].of \in {o, None}
    <3>1. device'[o] = device[o] \/ device'[o].of = o
      BY <1>0, <2>1, <2>2, StatusTaken
    <3> QED
      BY <2>4, <3>1 DEF OwnSetpoint
  <2> QED
    BY <1>2, <2>3, <2>4 DEF OwnSetpoint
<1>5. CASE HandleSnapshot
  <2>1. PICK S \in Statement, U \in Statement :
        /\ U = wire[1].values /\ S = IF panel = "plain" THEN <<>> ELSE U
        /\ DOMAIN U = Numbers(ReportedAs) /\ DOMAIN S \subseteq Numbers(ReportedAs)
        /\ fresh' = fresh \cup {o \in Output : Takes(o, SnapshotRooms(U), S, toDomus, hasPrograms)}
        /\ device' = WithSystem(WithStatus(SnapshotRooms(U), S, toDomus, hasPrograms), fresh', heard \cup Sensors)
        /\ parked' = Park(device, S, toDomus, hasPrograms)
        /\ UNCHANGED <<panelVars, link, answered, mapVars>>
    BY <1>0, <1>5, SnapshotIs
  <2>2. panel = "domus" => hasPrograms
    BY <1>0, <1>5, StatusReady
  <2>3. PICK rooms : rooms = SnapshotRooms(U)
    OBVIOUS
  <2>4. SameDevices(device, rooms)
    BY <1>0, <2>3, RoomsAre
  <2>5. DOMAIN S = {} \/ (panel # "plain" /\ (panel = "domus" => hasPrograms))
    BY <2>1, <2>2, NothingSaid
  <2>6. Unlisted'
    <3>1. CASE panel = "plain"
      <4>1. DOMAIN S = {}
        BY <2>1, <3>1, NothingSaid
      <4>2. fresh' = fresh /\ parked' = parked
        <5>1. \A o \in Output : ~Takes(o, rooms, S, toDomus, hasPrograms)
          BY <4>1 DEF Takes
        <5>2. \A o : o \in fresh' <=> o \in fresh
          BY <2>1, <2>3, <5>1
        <5>3. Park(device, S, toDomus, hasPrograms) = parked
          BY <1>0, <4>1, NothingTaken
        <5> QED
          BY <2>1, <5>2, <5>3
      <4> QED
        BY <1>1, <3>1, <4>2 DEF Unlisted
    <3>2. CASE panel # "plain"
      BY <1>1, <2>2, <3>2 DEF Unlisted
    <3> QED
      BY <3>1, <3>2
  <2>7. PICK taken : taken = WithStatus(rooms, S, toDomus, hasPrograms)
    OBVIOUS
  <2>8. taken \in Devices /\ SameDevices(rooms, taken)
    BY <2>1, <2>4, <2>7, StatusStep DEF SameDevices
  <2>9. ASSUME OwnSetpoint, NEW o \in Output, device'[o] # None
        PROVE  device'[o].of \in {o, None}
    <3>1. device' = WithSystem(taken, fresh', heard \cup Sensors)
      BY <2>1, <2>3, <2>7
    <3>2. taken[o] # None /\ device'[o].of = taken[o].of
      BY <2>8, <2>9, <3>1, SystemStep DEF SameDevices
    <3>3. taken[o] = rooms[o] \/ taken[o].of = o
      BY <1>0, <2>5, <2>7, StatusTaken
    <3>4. rooms[o] # None /\ rooms[o].of \in {o, None}
      BY <1>0, <2>3, <2>8, <2>9, <3>2, RoomsOwn DEF SameDevices
    <3> QED
      BY <3>2, <3>3, <3>4
  <2> QED
    BY <1>2, <2>6, <2>9 DEF OwnSetpoint
<1> QED
  BY <1>3, <1>4, <1>5

LEMMA PanelLinked ==
  ASSUME Kept, Linked, Unlisted, ListsFirst,
         \/ Connect \/ Disconnect \/ Answer \/ PanelReports \/ Expire \/ UNCHANGED vars
         \/ \E o \in Output, v \in Setpoint : PanelChanges(o, v)
  PROVE  Linked' /\ Unlisted' /\ (OwnSetpoint => OwnSetpoint')
<1>1. UNCHANGED <<panel, device, hasPrograms, toDomus, cfg, commandId>>
  BY PanelLists DEF mapVars
<1>2. Linked'
  <2>1. Right(toDomus, hasPrograms)' /\ EntryOf' = EntryOf
    BY <1>1 DEF Right, EntryOf, Linked
  <2> QED
    BY <1>1, <2>1 DEF Linked
<1>3. parked' = parked /\ fresh' \subseteq fresh /\ (~synced => ~synced')
  <2>1. ASSUME NEW o \in Output, NEW v \in Setpoint, PanelChanges(o, v)
        PROVE  UNCHANGED <<parked, fresh, synced>>
    BY <2>1 DEF PanelChanges, statusVars
  <2>2. CASE Connect
    BY <2>2 DEF Connect, statusVars
  <2>3. CASE Expire
    BY <2>3 DEF Expire, statusVars, linkVars
  <2>4. CASE Disconnect \/ Answer \/ PanelReports \/ UNCHANGED vars
    BY <2>4 DEF Disconnect, Answer, PanelReports, vars, statusVars, linkVars
  <2> QED
    BY <2>1, <2>2, <2>3, <2>4
<1>4. Unlisted'
  BY <1>1, <1>3 DEF Unlisted
<1> QED
  BY <1>1, <1>2, <1>4 DEF OwnSetpoint

Linkage == Kept /\ Linked /\ Unlisted /\ ListsFirst

LEMMA InitLinkage == Init => Linkage /\ OwnSetpoint
<1> SUFFICES ASSUME Init PROVE Linkage /\ OwnSetpoint
  OBVIOUS
<1>1. panel # "domus" => ~hasPrograms
  BY Zenon DEF Init
<1>2. ~synced
  BY Zenon DEF Init
<1>3. Right(toDomus, hasPrograms)
  BY DEF Init, Right
<1>4. Linked
  BY <1>1, <1>3 DEF Init, Linked
<1>5. Unlisted
  BY <1>2 DEF Init, Unlisted
<1>6. ListsFirst
  BY DEF Init, ListsFirst, ListFirst
<1>7. OwnSetpoint
  BY DEF Init, OwnSetpoint
<1> QED
  BY <1>4, <1>5, <1>6, <1>7, InitKept DEF Linkage

LEMMA StepLinkage ==
  ASSUME Numbered, Configured, Apart, Linkage, [Next]_vars
  PROVE  Linkage' /\ (OwnSetpoint => OwnSetpoint')
<1>1. Kept' /\ Kept /\ Linked /\ Unlisted /\ ListsFirst
  BY StepKept DEF Linkage
<1>2. CASE \/ Connect \/ Disconnect \/ Answer \/ PanelReports \/ Expire \/ UNCHANGED vars
           \/ \E o \in Output, v \in Setpoint : PanelChanges(o, v)
  BY <1>1, <1>2, PanelLists, PanelLinked DEF Linkage
<1>3. CASE HandleOutputs \/ HandlePrograms \/ HandleEntries \/ HandleReread
  BY <1>1, <1>3, ClientLists, ListLinked DEF Linkage, Handles
<1>4. CASE HandleOutputStatus \/ HandleSensorStatus \/ HandleSystemStatus \/ HandleTemperatures \/ HandleSnapshot
  BY <1>1, <1>4, ClientLists, StatusLinked DEF Linkage, Handles
<1> QED
  BY <1>2, <1>3, <1>4 DEF Next

\* On an installation whose thermostats have outputs, programs and sensors of their own, and
\* right configured sensors, no thermostat ever shows the setpoint of another, in whatever
\* order the lists, entries and statuses come and however often the link is lost between.
THEOREM OwnCorrect ==
  ASSUME Numbered, Configured, Apart PROVE Spec => []OwnSetpoint
<1>1. Init => Linkage /\ OwnSetpoint
  BY InitLinkage
<1>2. Linkage /\ OwnSetpoint /\ [Next]_vars => Linkage' /\ OwnSetpoint'
  BY StepLinkage
<1> QED
  BY <1>1, <1>2, PTL DEF Spec

-----------------------------------------------------------------------------
(* The panel's setpoint                                                    *)

Notices == {"STATUS_OUTPUTS", "STATUS_TEMPERATURES", "STATUS_BUS_HA_SENSORS", "STATUS_SYSTEM"}

Registered == link = "up" /\ answered = 7

\* The snapshot ends the answers: only notices follow it.
SnapshotLast ==
    /\ Registered /\ ~synced => \E n \in 1..Len(wire) : wire[n].type = "REGISTER"
    /\ \A n \in 1..Len(wire) : wire[n].type = "REGISTER" =>
          /\ Registered
          /\ \A m \in 1..Len(wire) : m > n => wire[m].type \in Notices
    /\ link = "up" /\ synced => answered = 7 /\ \A n \in 1..Len(wire) : wire[n].type \in Notices

Tells(n, o) == wire[n].type # "CFG_THERMOSTATS" /\ ReportedAs[o] \in DOMAIN wire[n].values

\* The last message that tells of a thermostat has its setpoint, or else none does and
\* the client shows it.
LastTells(o) ==
    \E n \in 1..Len(wire) :
        /\ Tells(n, o) /\ wire[n].values[ReportedAs[o]] = target[o]
        /\ \A m \in 1..Len(wire) : m > n => ~Tells(m, o)
Shows(o) ==
    /\ \A n \in 1..Len(wire) : ~Tells(n, o)
    /\ synced /\ (~reread => device[o] # None /\ device[o].target = target[o])
UpToDate == Registered => \A o \in Output : LastTells(o) \/ Shows(o)

\* A message taken from the wire, or added to it, moves or keeps the others.
LEMMA TakenSnapshotLast ==
  ASSUME Types, SnapshotLast, UNCHANGED <<link, answered>>, UNCHANGED panel, NEW type, Receive(type),
         type = "REGISTER" => synced', type # "REGISTER" => UNCHANGED synced
  PROVE  SnapshotLast'
<1>1. /\ wire[1].type = type /\ Len(wire') = Len(wire) - 1 /\ Len(wire) \in Nat \ {0}
      /\ \A n \in 1..Len(wire') : wire'[n] = wire[n + 1] /\ n + 1 \in 1..Len(wire)
  BY WireTaken
<1>2. Registered' <=> Registered
  BY DEF Registered
<1>3. ASSUME Registered', ~synced'
      PROVE  \E n \in 1..Len(wire') : wire'[n].type = "REGISTER"
  <2>1. Registered /\ ~synced /\ type # "REGISTER"
    <3>1. Registered
      BY <1>2, <1>3
    <3>2. type # "REGISTER"
      BY <1>3, Zenon
    <3>3. ~synced
      BY <1>3, <3>2, Zenon
    <3> QED
      BY <3>1, <3>2, <3>3
  <2>2. PICK n \in 1..Len(wire) : wire[n].type = "REGISTER"
    BY <2>1 DEF SnapshotLast
  <2>3. n - 1 \in 1..Len(wire') /\ wire'[n - 1] = wire[n]
    BY <1>1, <2>1, <2>2
  <2> QED
    BY <2>2, <2>3
<1>4. ASSUME NEW n \in 1..Len(wire'), wire'[n].type = "REGISTER"
      PROVE  Registered' /\ \A m \in 1..Len(wire') : m > n => wire'[m].type \in Notices
  <2>1. n + 1 \in 1..Len(wire) /\ wire[n + 1].type = "REGISTER"
    BY <1>1, <1>4
  <2>2. Registered /\ \A m \in 1..Len(wire) : m > n + 1 => wire[m].type \in Notices
    BY <2>1 DEF SnapshotLast
  <2>3. \A m \in 1..Len(wire') : m > n => wire'[m].type \in Notices
    BY <1>1, <2>2
  <2> QED
    BY <1>2, <2>2, <2>3
<1>5. ASSUME link' = "up", synced'
      PROVE  answered' = 7 /\ \A n \in 1..Len(wire') : wire'[n].type \in Notices
  <2>1. CASE type = "REGISTER"
    <3>1. Registered /\ \A m \in 1..Len(wire) : m > 1 => wire[m].type \in Notices
      BY <1>1, <2>1 DEF SnapshotLast
    <3> QED
      BY <1>1, <3>1 DEF Registered
  <2>2. CASE type # "REGISTER"
    <3>1. link = "up" /\ synced
      BY <1>5, <2>2, Zenon
    <3>2. answered = 7 /\ \A n \in 1..Len(wire) : wire[n].type \in Notices
      BY <3>1 DEF SnapshotLast
    <3> QED
      BY <1>1, <3>2
  <2> QED
    BY <2>1, <2>2
<1> QED
  BY <1>3, <1>4, <1>5 DEF SnapshotLast, Notices

LEMMA PostedSnapshotLast ==
  ASSUME Types, SnapshotLast, UNCHANGED link, UNCHANGED synced, NEW m \in Envelope, wire' = Append(wire, m),
         link = "up",
         \/ answered = 7 /\ UNCHANGED answered /\ m.type \in Notices
         \/ answered < 7 /\ answered' = answered + 1 /\ (m.type = "REGISTER" <=> answered' = 7)
  PROVE  SnapshotLast'
<1>1. /\ Len(wire') = Len(wire) + 1 /\ Len(wire) \in Nat /\ wire'[Len(wire) + 1] = m
      /\ \A n \in 1..Len(wire) : wire'[n] = wire[n]
  BY WireIs
<1>2. CASE answered = 7 /\ UNCHANGED answered /\ m.type \in Notices
  <2>1. Registered /\ Registered' /\ m.type # "REGISTER"
    BY <1>2 DEF Registered, Notices
  <2>2. ASSUME ~synced'
        PROVE  \E n \in 1..Len(wire') : wire'[n].type = "REGISTER"
    <3>1. ~synced
      BY <2>2, Zenon
    <3>2. PICK n \in 1..Len(wire) : wire[n].type = "REGISTER"
      BY <2>1, <3>1 DEF SnapshotLast
    <3> QED
      BY <1>1, <3>2
  <2>3. ASSUME NEW n \in 1..Len(wire'), wire'[n].type = "REGISTER"
        PROVE  \A k \in 1..Len(wire') : k > n => wire'[k].type \in Notices
    <3>1. n \in 1..Len(wire) /\ wire[n].type = "REGISTER"
      BY <1>1, <2>1, <2>3
    <3>2. \A k \in 1..Len(wire) : k > n => wire[k].type \in Notices
      BY <3>1 DEF SnapshotLast
    <3> QED
      BY <1>1, <1>2, <3>2
  <2>4. ASSUME synced'
        PROVE  \A n \in 1..Len(wire') : wire'[n].type \in Notices
    <3>1. synced
      BY <2>4, Zenon
    <3>2. \A n \in 1..Len(wire) : wire[n].type \in Notices
      BY <3>1 DEF SnapshotLast
    <3> QED
      BY <1>1, <1>2, <3>2
  <2> QED
    BY <1>2, <2>1, <2>2, <2>3, <2>4 DEF SnapshotLast, Notices
<1>3. CASE answered < 7 /\ answered' = answered + 1 /\ (m.type = "REGISTER" <=> answered' = 7)
  <2>1. answered \in Nat /\ ~Registered
    BY <1>3, TypesAsAre, RequestsAre DEF Registered
  <2>2. ~synced /\ ~synced'
    <3>1. ~synced
      BY <1>3, <2>1 DEF SnapshotLast
    <3> QED
      BY <3>1, Zenon
  <2>3. \A n \in 1..Len(wire) : wire[n].type # "REGISTER"
    BY <2>1 DEF SnapshotLast
  <2>4. Registered' <=> m.type = "REGISTER"
    BY <1>3 DEF Registered
  <2>5. \A n \in 1..Len(wire') : wire'[n].type = "REGISTER" => n = Len(wire) + 1 /\ m.type = "REGISTER"
    BY <1>1, <2>3
  <2>6. m.type = "REGISTER" => \E n \in 1..Len(wire') : wire'[n].type = "REGISTER"
    BY <1>1
  <2>7. \A n \in 1..Len(wire') : wire'[n].type = "REGISTER" =>
           Registered' /\ \A k \in 1..Len(wire') : k > n => wire'[k].type \in Notices
    BY <1>1, <2>4, <2>5
  <2> QED
    BY <2>2, <2>4, <2>6, <2>7 DEF SnapshotLast, Notices
<1> QED
  BY <1>2, <1>3

LEMMA StepSnapshotLast ==
  ASSUME Kept, SnapshotLast, [Next]_vars
  PROVE  SnapshotLast'
<1>0. Types /\ Len(wire) \in Nat /\ answered \in 0..7
  BY WireIs, TypesAsAre, RequestsAre DEF Kept
<1>1. CASE Handles
  <2>1. PICK type \in MessageType :
            /\ Receive(type) /\ UNCHANGED <<panel, target, link, answered>>
            /\ type = "MULTI_TYPES" <=> HandleOutputs
            /\ type = "PRG_THERMOSTATS" <=> HandlePrograms
            /\ type = "REGISTER" <=> HandleSnapshot
            /\ ~HandlePrograms => UNCHANGED hasPrograms
            /\ HandlePrograms => hasPrograms' = (panel = "domus")
            /\ ~HandleSnapshot => UNCHANGED <<synced, reread>>
    BY <1>1, HandlesIs
  <2>2. HandleSnapshot => synced'
    BY Zenon DEF HandleSnapshot
  <2>3. type # "REGISTER" => UNCHANGED synced
    BY <2>1
  <2>4. type = "REGISTER" => synced'
    BY <2>1, <2>2
  <2> QED
    BY <1>0, <2>1, <2>3, <2>4, TakenSnapshotLast
<1>2. CASE Connect
  <2>1. wire' = wire /\ answered' = 0 /\ link = "down"
    BY <1>2 DEF Connect
  <2>2. ~synced'
    BY <1>2, Zenon DEF Connect
  <2>3. \A n \in 1..Len(wire) : wire[n].type # "REGISTER"
    BY <2>1 DEF SnapshotLast, Registered
  <2> QED
    BY <2>1, <2>2, <2>3 DEF SnapshotLast, Registered
<1>3. CASE Disconnect
  BY <1>3 DEF Disconnect, SnapshotLast, Registered
<1>4. ASSUME UNCHANGED <<wire, link, answered, synced>>
      PROVE  SnapshotLast'
  BY <1>4 DEF SnapshotLast, Registered, Notices
<1>5. CASE Expire \/ HandleReread \/ UNCHANGED vars
  BY <1>4, <1>5 DEF Expire, HandleReread, vars, linkVars
<1>6. CASE Answer
  <2> DEFINE k == answered + 1
             m == Message(Requests[k], About(Requests[k], Output))
  <2>1. /\ k \in 1..7 /\ answered < 7 /\ answered' = k /\ link = "up" /\ UNCHANGED <<link, synced>>
        /\ wire' = Append(wire, m)
    BY <1>0, <1>6, RequestsAre DEF Answer
  <2>2. m.type = Requests[k] /\ Requests[k] \in MessageType \ {"STATUS_TEMPERATURES"}
    BY <2>1, RequestsAre DEF Message
  <2>3. m \in Envelope
    BY <1>0, <2>2, AnswerType, TypesAsAre DEF Types, TypeOK
  <2>4. m.type = "REGISTER" <=> answered' = 7
    BY <2>1, <2>2, RequestsAre
  <2> HIDE DEF m
  <2> QED
    BY <1>0, <2>1, <2>3, <2>4, PostedSnapshotLast
<1>7. ASSUME NEW m \in Envelope, wire' = Append(wire, m), m.type \in Notices, Notifies,
             UNCHANGED <<link, answered, synced>>
      PROVE  SnapshotLast'
  BY <1>0, <1>7, PostedSnapshotLast, RequestsAre DEF Notifies
<1>8. CASE PanelReports
  <2>1. PICK type \in {"STATUS_BUS_HA_SENSORS", "STATUS_SYSTEM"} : wire' = Append(wire, Message(type, <<>>))
    BY <1>8 DEF PanelReports
  <2>2. Message(type, <<>>) \in Envelope /\ Message(type, <<>>).type \in Notices
    BY NothingSaid, TypesAre DEF Message, Envelope, Notices
  <2>3. Notifies /\ UNCHANGED <<link, answered, synced>>
    BY <1>8 DEF PanelReports
  <2> QED
    BY <1>7, <2>1, <2>2, <2>3
<1>9. ASSUME NEW o \in Output, NEW v \in Setpoint, PanelChanges(o, v)
      PROVE  SnapshotLast'
  <2>1. UNCHANGED <<link, answered, synced>> /\ (~Notifies => UNCHANGED wire)
    BY <1>9 DEF PanelChanges
  <2>2. CASE Notifies
    <3>1. PICK m \in Envelope : wire' = Append(wire, m) /\ m.type \in {"STATUS_OUTPUTS", "STATUS_TEMPERATURES"}
      BY <1>0, <1>9, <2>2, ChangeIs
    <3>2. m.type \in Notices
      BY <3>1 DEF Notices
    <3> QED
      BY <1>7, <2>1, <2>2, <3>1, <3>2
  <2> QED
    BY <1>4, <2>1, <2>2
<1> QED
  BY <1>1, <1>2, <1>3, <1>5, <1>6, <1>8, <1>9 DEF Next, Handles

-----------------------------------------------------------------------------
(* Whom the messages tell of                                               *)

\* What a message taken from the wire leaves of what the others tell.
LEMMA TakenTells ==
  ASSUME Types, UNCHANGED panel, NEW type, Receive(type), NEW o \in Output, target'[o] = target[o]
  PROVE  /\ LastTells(o) /\ (~Tells(1, o) \/ wire[1].values[ReportedAs[o]] # target[o]) => LastTells(o)'
         /\ LastTells(o) => LastTells(o)'
               \/ /\ Tells(1, o) /\ wire[1].values[ReportedAs[o]] = target[o]
                  /\ \A m \in 1..Len(wire) : m > 1 => ~Tells(m, o)
         /\ (\A m \in 1..Len(wire) : m > 1 => ~Tells(m, o)) =>
               \A n \in 1..Len(wire') : ~Tells(n, o)'
<1>1. /\ Len(wire') = Len(wire) - 1 /\ Len(wire) \in Nat \ {0}
      /\ \A n \in 1..Len(wire') : wire'[n] = wire[n + 1] /\ n + 1 \in 1..Len(wire)
  BY WireTaken
<1>2. ReportedAs' = ReportedAs
  BY DEF ReportedAs
<1>3. \A n \in 1..Len(wire') : Tells(n, o)' <=> Tells(n + 1, o)
  BY <1>1, <1>2 DEF Tells
<1>4. ASSUME NEW n \in 1..Len(wire), n # 1, Tells(n, o), wire[n].values[ReportedAs[o]] = target[o],
             \A m \in 1..Len(wire) : m > n => ~Tells(m, o)
      PROVE  LastTells(o)'
  <2>1. PICK k : k = n - 1
    OBVIOUS
  <2>2. k \in 1..Len(wire') /\ k + 1 = n
    BY <1>1, <1>4, <2>1
  <2>3. Tells(k, o)' /\ wire'[k].values[ReportedAs'[o]] = target'[o]
    BY <1>1, <1>2, <1>3, <1>4, <2>2
  <2>4. ASSUME NEW m \in 1..Len(wire'), m > k
        PROVE  ~Tells(m, o)'
    BY <1>1, <1>3, <1>4, <2>2, <2>4
  <2> QED
    BY <2>2, <2>3, <2>4 DEF LastTells
<1>5. (\A m \in 1..Len(wire) : m > 1 => ~Tells(m, o)) => \A n \in 1..Len(wire') : ~Tells(n, o)'
  BY <1>1, <1>3
<1> QED
  BY <1>4, <1>5 DEF LastTells

LEMMA TellsOfType ==
  ASSUME Types, UNCHANGED panel, NEW type, Receive(type), NEW o \in Output
  PROVE  /\ Tells(1, o) <=> type # "CFG_THERMOSTATS" /\ ReportedAs[o] \in DOMAIN wire[1].values
         /\ type \in {"MULTI_TYPES", "PRG_THERMOSTATS", "CFG_THERMOSTATS", "STATUS_BUS_HA_SENSORS", "STATUS_SYSTEM"}
               => ~Tells(1, o)
         /\ type = "REGISTER" => Tells(1, o)
         /\ type = "STATUS_OUTPUTS" /\ Tells(1, o) => panel = "plain"
<1>1. wire[1].type = type /\ Addressed(wire[1])
  BY WireTaken
<1>2. ReportedAs[o] \in Numbers(ReportedAs)
  BY DEF Numbers
<1> QED
  BY <1>1, <1>2 DEF Tells, Addressed

\* A notice is what its thermostat shows next, and the others show what they showed.
LEMMA NoticeShows ==
  ASSUME Numbered, Linkage, NEW o \in Output,
         HandleOutputStatus \/ HandleSensorStatus \/ HandleSystemStatus \/ HandleTemperatures
  PROVE  /\ Tells(1, o) => device'[o] # None /\ device'[o].target = wire[1].values[ReportedAs[o]]
         /\ ~Tells(1, o) /\ device[o] # None => device'[o] # None /\ device'[o].target = device[o].target
<1>0. /\ Types /\ device \in Devices /\ ListsFirst /\ Unlisted
      /\ panel # "domus" => ~hasPrograms
      /\ Right(toDomus, hasPrograms)
  BY TypesAsAre DEF Kept, Linked, Linkage
<1>1. UNCHANGED panel
  BY DEF HandleOutputStatus, HandleSensorStatus, HandleSystemStatus, HandleTemperatures, panelVars
<1>2. CASE HandleOutputStatus
  <2>1. Receive("STATUS_OUTPUTS") /\ device' = WithOutputs(device, Head(wire).values)
    BY <1>2 DEF HandleOutputStatus
  <2>2. Head(wire) = wire[1] /\ Addressed(wire[1]) /\ wire[1].type = "STATUS_OUTPUTS"
    BY <1>0, <1>1, <2>1, WireTaken
  <2>3. Tells(1, o) <=> ReportedAs[o] \in DOMAIN wire[1].values
    BY <1>0, <1>1, <2>1, TellsOfType
  <2>4. DOMAIN wire[1].values = {} \/ (panel = "plain" /\ fresh = {} /\ ReportedAs[o] = OwnId[o])
    BY <1>0, <2>2 DEF Addressed, Unlisted, ReportedAs
  <2>5. device[o] # None
    <3>1. "MULTI_TYPES" \in Lists /\ "STATUS_OUTPUTS" \in Later("MULTI_TYPES")
      BY TypesAre DEF Lists, Later
    <3>2. Has("MULTI_TYPES")
      BY <1>0, <1>1, <2>1, <3>1, ListUsed
    <3> QED
      BY <3>2 DEF Has
  <2>6. Tells(1, o) => device'[o] = [target |-> wire[1].values[ReportedAs[o]], of |-> o, current |-> "output"]
    BY <2>1, <2>2, <2>3, <2>4, <2>5 DEF WithOutputs
  <2>7. ~Tells(1, o) => device'[o] = device[o]
    BY <2>1, <2>2, <2>3, <2>4 DEF WithOutputs
  <2>8. device' \in Devices /\ device'[o] # None
    BY <1>0, <1>1, <2>1, <2>2, <2>5, OutputsStep, WireTaken DEF SameDevices
  <2> QED
    BY <2>6, <2>7, <2>8
<1>3. CASE HandleSensorStatus
  <2>1. Receive("STATUS_BUS_HA_SENSORS") /\ device' = WithSensors(device, Sensors)
    BY <1>3 DEF HandleSensorStatus
  <2> QED
    BY <1>0, <1>1, <2>1, TellsOfType, SensorsStep DEF SameDevices
<1>4. CASE HandleSystemStatus
  <2>1. Receive("STATUS_SYSTEM") /\ device' = WithSystem(device, fresh, heard)
    BY <1>4 DEF HandleSystemStatus
  <2> QED
    BY <1>0, <1>1, <2>1, TellsOfType, SystemStep DEF SameDevices
<1>5. CASE HandleTemperatures
  <2>1. Receive("STATUS_TEMPERATURES") /\ device' = WithStatus(device, Head(wire).values, toDomus, hasPrograms)
    BY <1>5 DEF HandleTemperatures
  <2>2. /\ Head(wire) = wire[1] /\ Addressed(wire[1]) /\ wire[1].type = "STATUS_TEMPERATURES"
        /\ wire[1].values \in Statement
    BY <1>0, <1>1, <2>1, WireTaken
  <2>3. panel # "plain" /\ DOMAIN wire[1].values \subseteq Numbers(ReportedAs)
    BY <2>2 DEF Addressed
  <2>4. panel = "domus" => hasPrograms
    BY <1>0, <1>5, StatusReady
  <2>5. device[o] # None
    BY <1>0, <1>5, StatusReady
  <2>6. Tells(1, o) <=> ReportedAs[o] \in DOMAIN wire[1].values
    BY <1>0, <1>1, <2>1, TellsOfType
  <2>7. device' = WithStatus(device, wire[1].values, toDomus, hasPrograms)
    BY <2>1, <2>2
  <2>8. /\ ReportedAs[o] \in DOMAIN wire[1].values => device'[o].target = wire[1].values[ReportedAs[o]]
        /\ ReportedAs[o] \notin DOMAIN wire[1].values => device'[o] = device[o]
    BY <1>0, <2>3, <2>4, <2>5, <2>7, StatusTaken
  <2>9. device'[o] # None
    BY <1>0, <2>2, <2>3, <2>5, <2>7, StatusStep DEF SameDevices
  <2> QED
    BY <2>6, <2>8, <2>9
<1> QED
  BY <1>2, <1>3, <1>4, <1>5

\* After the snapshot every thermostat shows what it says.
LEMMA SnapshotShows ==
  ASSUME Numbered, Linkage, NEW o \in Output, HandleSnapshot
  PROVE  device'[o] # None /\ device'[o].target = wire[1].values[ReportedAs[o]]
<1>0. /\ Types /\ device \in Devices /\ ListsFirst /\ Unlisted
      /\ panel # "domus" => ~hasPrograms
      /\ Right(toDomus, hasPrograms)
  BY TypesAsAre DEF Kept, Linked, Linkage
<1>1. PICK S \in Statement, U \in Statement :
        /\ U = wire[1].values /\ S = IF panel = "plain" THEN <<>> ELSE U
        /\ DOMAIN U = Numbers(ReportedAs) /\ DOMAIN S \subseteq Numbers(ReportedAs)
        /\ fresh' = fresh \cup {p \in Output : Takes(p, SnapshotRooms(U), S, toDomus, hasPrograms)}
        /\ device' = WithSystem(WithStatus(SnapshotRooms(U), S, toDomus, hasPrograms), fresh', heard \cup Sensors)
        /\ parked' = Park(device, S, toDomus, hasPrograms)
        /\ UNCHANGED <<panelVars, link, answered, mapVars>>
  BY <1>0, SnapshotIs
<1>2. panel = "domus" => hasPrograms
  BY <1>0, StatusReady
<1>3. device[o] # None
  BY <1>0, StatusReady
<1>4. PICK rooms : rooms = SnapshotRooms(U)
  OBVIOUS
<1>5. SameDevices(device, rooms)
  BY <1>0, <1>4, RoomsAre
<1>6. PICK taken : taken = WithStatus(rooms, S, toDomus, hasPrograms)
  OBVIOUS
<1>7. SameDevices(rooms, taken)
  BY <1>1, <1>5, <1>6, StatusStep DEF SameDevices
<1>8. device' = WithSystem(taken, fresh', heard \cup Sensors) /\ taken \in Devices
  BY <1>1, <1>4, <1>6, <1>7 DEF SameDevices
<1>9. taken[o] # None /\ rooms[o] # None
  BY <1>3, <1>5, <1>7 DEF SameDevices
<1>10. device'[o] # None /\ device'[o].target = taken[o].target
  BY <1>8, <1>9, SystemStep DEF SameDevices
<1>11. ReportedAs[o] \in DOMAIN U
  BY <1>1 DEF Numbers
<1>12. CASE panel # "plain"
  <2>1. S = U
    BY <1>1, <1>12
  <2>2. taken[o].target = U[ReportedAs[o]]
    BY <1>0, <1>2, <1>6, <1>9, <1>11, <1>12, <2>1, StatusTaken
  <2> QED
    BY <1>1, <1>10, <2>2
<1>13. CASE panel = "plain"
  <2>1. DOMAIN S = {}
    BY <1>1, <1>13, NothingSaid
  <2>2. taken[o] = rooms[o]
    BY <1>0, <1>6, <2>1, StatusTaken
  <2>3. fresh = {} /\ ReportedAs[o] = OwnId[o]
    BY <1>0, <1>13 DEF Unlisted, ReportedAs
  <2>4. PICK outs : outs = WithOutputs(device, U)
    OBVIOUS
  <2>5. outs[o] = [target |-> U[ReportedAs[o]], of |-> o, current |-> "output"]
    BY <1>3, <1>11, <2>3, <2>4 DEF WithOutputs
  <2>6. outs \in Devices /\ outs[o] # None
    BY <1>0, <1>3, <2>4, OutputsStep DEF SameDevices
  <2>7. rooms = WithSensors(outs, Sensors)
    BY <1>4, <1>13, <2>4 DEF SnapshotRooms
  <2>8. rooms[o].target = outs[o].target
    BY <2>6, <2>7, SensorsStep
  <2> QED
    BY <1>1, <1>10, <2>2, <2>5, <2>8
<1> QED
  BY <1>12, <1>13

LEMMA TakenUpToDate ==
  ASSUME Numbered, Linkage, SnapshotLast, UpToDate, Handles
  PROVE  UpToDate'
<1>0. Types
  BY DEF Linkage, Kept
<1>1. PICK type \in MessageType :
          /\ Receive(type) /\ UNCHANGED <<panel, target, link, answered>>
          /\ type = "MULTI_TYPES" <=> HandleOutputs
          /\ type = "PRG_THERMOSTATS" <=> HandlePrograms
          /\ type = "REGISTER" <=> HandleSnapshot
          /\ ~HandlePrograms => UNCHANGED hasPrograms
          /\ HandlePrograms => hasPrograms' = (panel = "domus")
          /\ ~HandleSnapshot => UNCHANGED <<synced, reread>>
  BY HandlesIs
<1>2. SUFFICES ASSUME Registered', NEW o \in Output PROVE LastTells(o)' \/ Shows(o)'
  BY DEF UpToDate
<1>3. Registered /\ (LastTells(o) \/ Shows(o))
  BY <1>1, <1>2 DEF Registered, UpToDate
<1>4. wire[1].type = type /\ 1 \in 1..Len(wire) /\ Len(wire) \in Nat /\ Addressed(wire[1])
  BY <1>0, <1>1, WireTaken
<1>5. /\ LastTells(o) => LastTells(o)'
               \/ /\ Tells(1, o) /\ wire[1].values[ReportedAs[o]] = target[o]
                  /\ \A m \in 1..Len(wire) : m > 1 => ~Tells(m, o)
      /\ (\A m \in 1..Len(wire) : m > 1 => ~Tells(m, o)) => \A n \in 1..Len(wire') : ~Tells(n, o)'
  BY <1>0, <1>1, TakenTells
<1>6. Shows(o) => ~Tells(1, o)
  BY <1>4 DEF Shows
<1>7. CASE type \in {"MULTI_TYPES", "PRG_THERMOSTATS", "CFG_THERMOSTATS"}
  <2>1. ~synced
    BY <1>3, <1>4, <1>7 DEF SnapshotLast, Registered, Notices
  <2>2. LastTells(o)
    BY <1>3, <2>1 DEF Shows
  <2>3. ~Tells(1, o)
    BY <1>0, <1>1, <1>7, TellsOfType
  <2> QED
    BY <1>5, <2>2, <2>3
<1>8. CASE type = "REGISTER"
  <2>1. LastTells(o)
    BY <1>0, <1>1, <1>3, <1>6, <1>8, TellsOfType
  <2>2. device'[o] # None /\ device'[o].target = wire[1].values[ReportedAs[o]]
    BY <1>1, <1>8, SnapshotShows
  <2>3. synced'
    BY <1>1, <1>8, Zenon DEF HandleSnapshot
  <2>4. CASE \A m \in 1..Len(wire) : m > 1 => ~Tells(m, o)
    <3>1. (\A n \in 1..Len(wire) : ~Tells(n, o))'
      BY <1>5, <2>4
    <3>2. LastTells(o)' \/ device'[o].target = target'[o]
      BY <1>1, <1>5, <2>1, <2>2
    <3> QED
      BY <2>2, <2>3, <3>1, <3>2 DEF Shows
  <2>5. CASE LastTells(o)'
    BY <2>5
  <2> QED
    BY <1>5, <2>1, <2>4, <2>5
<1>9. CASE type \in Notices
  <2>1. HandleOutputStatus \/ HandleSensorStatus \/ HandleSystemStatus \/ HandleTemperatures
    BY <1>1, <1>9 DEF Handles, HandleEntries, Receive, Notices
  <2>2. UNCHANGED <<synced, reread>>
    BY <1>1, <1>9 DEF Notices
  <2>3. /\ Tells(1, o) => device'[o] # None /\ device'[o].target = wire[1].values[ReportedAs[o]]
        /\ ~Tells(1, o) /\ device[o] # None => device'[o] # None /\ device'[o].target = device[o].target
    BY <2>1, NoticeShows
  <2>4. CASE Shows(o)
    <3>1. \A n \in 1..Len(wire) : ~Tells(n, o)
      BY <2>4 DEF Shows
    <3>2. (\A n \in 1..Len(wire) : ~Tells(n, o))'
      BY <1>5, <3>1
    <3>3. synced' /\ (~reread' => device'[o] # None /\ device'[o].target = target'[o])
      BY <1>1, <1>6, <2>2, <2>3, <2>4 DEF Shows
    <3> QED
      BY <3>2, <3>3 DEF Shows
  <2>5. CASE LastTells(o) /\ ~LastTells(o)'
    <3>1. /\ Tells(1, o) /\ wire[1].values[ReportedAs[o]] = target[o]
          /\ \A m \in 1..Len(wire) : m > 1 => ~Tells(m, o)
      BY <1>5, <2>5
    <3>2. synced
      <4>1. SUFFICES ASSUME ~synced PROVE FALSE
        OBVIOUS
      <4>2. PICK n \in 1..Len(wire) : wire[n].type = "REGISTER"
        BY <1>3, <4>1 DEF SnapshotLast
      <4>3. n > 1
        BY <1>4, <1>9, <4>2 DEF Notices
      <4>4. Tells(n, o)
        <5>1. Addressed(wire[n]) /\ ReportedAs[o] \in Numbers(ReportedAs)
          BY <1>0, <4>2, WireIs DEF Types, Numbers
        <5> QED
          BY <4>2, <5>1 DEF Tells, Addressed
      <4> QED
        BY <3>1, <4>3, <4>4
    <3>3. (\A n \in 1..Len(wire) : ~Tells(n, o))'
      BY <1>5, <3>1
    <3>4. synced' /\ device'[o] # None /\ device'[o].target = target'[o]
      BY <1>1, <2>2, <2>3, <3>1, <3>2
    <3> QED
      BY <3>3, <3>4 DEF Shows
  <2> QED
    BY <1>3, <2>4, <2>5
<1>10. type \in {"MULTI_TYPES", "PRG_THERMOSTATS", "CFG_THERMOSTATS", "REGISTER"} \cup Notices
  BY TypesAre DEF Notices
<1> QED
  BY <1>7, <1>8, <1>9, <1>10

\* A message added to the wire: the thermostats it tells of have what it says, the others
\* what the client last heard.
LEMMA PostedUpToDate ==
  ASSUME Types, UNCHANGED <<panel, device, synced, reread>>, NEW m \in Envelope, m.type # "CFG_THERMOSTATS",
         wire' = Append(wire, m), NEW o \in Output,
         \/ ReportedAs[o] \in DOMAIN m.values /\ m.values[ReportedAs[o]] = target'[o]
         \/ ReportedAs[o] \notin DOMAIN m.values /\ target'[o] = target[o] /\ (LastTells(o) \/ Shows(o))
  PROVE  LastTells(o)' \/ Shows(o)'
<1>1. /\ Len(wire') = Len(wire) + 1 /\ Len(wire) \in Nat /\ wire'[Len(wire) + 1] = m
      /\ \A n \in 1..Len(wire) : wire'[n] = wire[n]
  BY WireIs
<1>2. ReportedAs' = ReportedAs
  BY DEF ReportedAs
<1>3. PICK last : last = Len(wire) + 1
  OBVIOUS
<1>4. \A n \in 1..Len(wire) : Tells(n, o)' <=> Tells(n, o)
  BY <1>1, <1>2 DEF Tells
<1>5. wire'[last] = m /\ (Tells(last, o)' <=> ReportedAs[o] \in DOMAIN m.values)
  BY <1>1, <1>2, <1>3 DEF Tells
<1>6. CASE ReportedAs[o] \in DOMAIN m.values /\ m.values[ReportedAs[o]] = target'[o]
  <2>1. last \in 1..Len(wire') /\ \A n \in 1..Len(wire') : ~(n > last)
    BY <1>1, <1>3
  <2>2. Tells(last, o)' /\ wire'[last].values[ReportedAs'[o]] = target'[o]
    BY <1>2, <1>6, <1>5
  <2> QED
    BY <2>1, <2>2 DEF LastTells
<1>7. CASE /\ ReportedAs[o] \notin DOMAIN m.values /\ target'[o] = target[o]
           /\ LastTells(o) \/ Shows(o)
  <2>1. CASE LastTells(o)
    <3>1. PICK n \in 1..Len(wire) :
            /\ Tells(n, o) /\ wire[n].values[ReportedAs[o]] = target[o]
            /\ \A k \in 1..Len(wire) : k > n => ~Tells(k, o)
      BY <2>1 DEF LastTells
    <3>2. n \in 1..Len(wire') /\ Tells(n, o)' /\ wire'[n].values[ReportedAs'[o]] = target'[o]
      BY <1>1, <1>2, <1>7, <1>4, <3>1
    <3>3. ASSUME NEW k \in 1..Len(wire'), k > n PROVE ~Tells(k, o)'
      BY <1>1, <1>3, <1>7, <1>4, <1>5, <3>1, <3>3
    <3> QED
      BY <3>2, <3>3 DEF LastTells
  <2>2. CASE Shows(o)
    <3>1. ASSUME NEW k \in 1..Len(wire') PROVE ~Tells(k, o)'
      BY <1>1, <1>3, <1>7, <1>4, <1>5, <2>2, <3>1 DEF Shows
    <3>2. synced' /\ (~reread' => device'[o] # None /\ device'[o].target = target'[o])
      BY <1>7, <2>2 DEF Shows
    <3> QED
      BY <3>1, <3>2 DEF Shows
  <2> QED
    BY <1>7, <2>1, <2>2
<1> QED
  BY <1>6, <1>7

LEMMA PanelUpToDate ==
  ASSUME Numbered, Linkage, SnapshotLast, UpToDate,
         \/ Connect \/ Disconnect \/ Answer \/ PanelReports \/ Expire \/ HandleReread \/ UNCHANGED vars
         \/ \E o \in Output, v \in Setpoint : PanelChanges(o, v)
  PROVE  UpToDate'
<1>0. Types /\ answered \in 0..7 /\ target \in [Output -> Setpoint] /\ device \in Devices
  BY TypesAsAre, RequestsAre DEF Linkage, Kept
<1>1. CASE Connect \/ Disconnect
  <2>1. ~Registered'
    BY <1>1 DEF Connect, Disconnect, Registered
  <2> QED
    BY <2>1 DEF UpToDate
<1>2. CASE Expire \/ HandleReread \/ UNCHANGED vars
  <2>1. UNCHANGED <<panel, target, link, answered, wire, synced>> /\ (UNCHANGED <<device, reread>> \/ reread')
    <3>1. CASE Expire \/ UNCHANGED vars
      BY <1>2, <3>1 DEF Expire, vars, linkVars, panelVars, statusVars
    <3>2. CASE HandleReread
      <4>1. reread'
        BY <3>2, Zenon DEF HandleReread
      <4> QED
        BY <3>2, <4>1 DEF HandleReread, linkVars, panelVars
    <3> QED
      BY <1>2, <3>1, <3>2
  <2>2. SUFFICES ASSUME Registered', NEW o \in Output PROVE LastTells(o)' \/ Shows(o)'
    BY DEF UpToDate
  <2>3. LastTells(o) \/ Shows(o)
    BY <2>1, <2>2 DEF UpToDate, Registered
  <2>4. ReportedAs' = ReportedAs
    BY <2>1 DEF ReportedAs
  <2>5. \A n : Tells(n, o)' <=> Tells(n, o)
    BY <2>1, <2>4 DEF Tells
  <2>6. CASE LastTells(o)
    BY <2>1, <2>4, <2>5, <2>6 DEF LastTells
  <2>7. CASE Shows(o)
    <3>1. (\A n \in 1..Len(wire) : ~Tells(n, o))'
      BY <2>1, <2>5, <2>7 DEF Shows
    <3>2. synced' /\ (~reread' => device'[o] # None /\ device'[o].target = target'[o])
      BY <2>1, <2>7 DEF Shows
    <3> QED
      BY <3>1, <3>2 DEF Shows
  <2> QED
    BY <2>3, <2>6, <2>7
<1>3. CASE Answer
  <2> DEFINE r == Requests[answered + 1]
             m == Message(r, About(r, Output))
  <2>1. SUFFICES ASSUME Registered' PROVE UpToDate'
    BY DEF UpToDate
  <2>2. answered + 1 = 7 /\ r = "REGISTER"
    BY <1>0, <1>3, <2>1, RequestsAre DEF Answer, Registered
  <2>3. /\ wire' = Append(wire, m) /\ UNCHANGED <<panel, target, device, synced, reread>>
    BY <1>3 DEF Answer, panelVars, statusVars
  <2>4. m.values = Says(Output, ReportedAs) /\ m.type = "REGISTER"
    BY <2>2 DEF Message, About, ReportedAs, PanelKind
  <2>5. m \in Envelope
    BY <1>0, <2>2, AnswerType, TypesAre DEF Types, TypeOK
  <2>6. ASSUME NEW o \in Output
        PROVE  ReportedAs[o] \in DOMAIN m.values /\ m.values[ReportedAs[o]] = target[o]
    <3>1. \A p \in Output : ReportedAs[p] = ReportedAs[o] => p = o
      BY DEF Numbered, ReportedAs
    <3>2. (CHOOSE p \in Output : ReportedAs[p] = ReportedAs[o]) = o
      BY <3>1
    <3>3. ReportedAs[o] \in {ReportedAs[p] : p \in Output}
      OBVIOUS
    <3>4. Says(Output, ReportedAs)[ReportedAs[o]] = target[CHOOSE p \in Output : ReportedAs[p] = ReportedAs[o]]
      BY <3>3 DEF Says
    <3>5. DOMAIN Says(Output, ReportedAs) = {ReportedAs[p] : p \in Output}
      BY DEF Says
    <3> QED
      BY <2>4, <3>2, <3>3, <3>4, <3>5
  <2> HIDE DEF m
  <2>7. ASSUME NEW o \in Output PROVE LastTells(o)' \/ Shows(o)'
    <3>1. ReportedAs[o] \in DOMAIN m.values /\ m.values[ReportedAs[o]] = target'[o]
      BY <2>3, <2>6
    <3> QED
      BY <1>0, <2>3, <2>4, <2>5, <3>1, PostedUpToDate
  <2> QED
    BY <2>7 DEF UpToDate
<1>4. CASE PanelReports
  <2>1. PICK type \in {"STATUS_BUS_HA_SENSORS", "STATUS_SYSTEM"} : wire' = Append(wire, Message(type, <<>>))
    BY <1>4 DEF PanelReports
  <2>2. PICK m \in Envelope : wire' = Append(wire, m) /\ m.type # "CFG_THERMOSTATS" /\ DOMAIN m.values = {}
    BY <2>1, NothingSaid, TypesAre DEF Message, Envelope
  <2>3. Registered /\ UNCHANGED <<panel, target, device, synced, reread>>
    BY <1>4, RequestsAre DEF PanelReports, Notifies, Registered, panelVars, statusVars
  <2>4. ASSUME NEW o \in Output PROVE LastTells(o)' \/ Shows(o)'
    <3>1. ReportedAs[o] \notin DOMAIN m.values /\ target'[o] = target[o] /\ (LastTells(o) \/ Shows(o))
      BY <2>2, <2>3 DEF UpToDate
    <3> QED
      BY <1>0, <2>2, <2>3, <3>1, PostedUpToDate
  <2> QED
    BY <2>4 DEF UpToDate
<1>5. ASSUME NEW o \in Output, NEW v \in Setpoint, PanelChanges(o, v)
      PROVE  UpToDate'
  <2>1. /\ target' = [target EXCEPT ![o] = v]
        /\ UNCHANGED <<panel, link, answered, device, synced, reread>>
    BY <1>5 DEF PanelChanges, statusVars
  <2>2. CASE ~Notifies
    <3>1. ~Registered'
      BY <2>1, <2>2, RequestsAre DEF Notifies, Registered
    <3> QED
      BY <3>1 DEF UpToDate
  <2>3. CASE Notifies
    <3>1. PICK m \in Envelope :
            /\ wire' = Append(wire, m) /\ Addressed(m)
            /\ m.type \in {"STATUS_OUTPUTS", "STATUS_TEMPERATURES"}
            /\ DOMAIN m.values = {ReportedAs[o]} /\ m.values[ReportedAs[o]] = v
      BY <1>0, <1>5, <2>3, ChangeIs
    <3>2. Registered
      BY <2>3, RequestsAre DEF Notifies, Registered
    <3>3. ASSUME NEW p \in Output PROVE LastTells(p)' \/ Shows(p)'
      <4>1. CASE p = o
        <5>1. ReportedAs[p] \in DOMAIN m.values /\ m.values[ReportedAs[p]] = target'[p]
          BY <1>0, <2>1, <3>1, <4>1
        <5> QED
          BY <1>0, <2>1, <3>1, <5>1, PostedUpToDate
      <4>2. CASE p # o
        <5>1. ReportedAs[p] # ReportedAs[o]
          BY <4>2 DEF Numbered, ReportedAs
        <5>2. ReportedAs[p] \notin DOMAIN m.values /\ target'[p] = target[p] /\ (LastTells(p) \/ Shows(p))
          BY <1>0, <2>1, <3>1, <3>2, <4>2, <5>1 DEF UpToDate
        <5> QED
          BY <1>0, <2>1, <3>1, <5>2, PostedUpToDate
      <4> QED
        BY <4>1, <4>2
    <3> QED
      BY <3>3 DEF UpToDate
  <2> QED
    BY <2>2, <2>3
<1> QED
  BY <1>1, <1>2, <1>3, <1>4, <1>5

Heard == Linkage /\ SnapshotLast /\ UpToDate

LEMMA StepHeard ==
  ASSUME Numbered, Configured, Apart, Heard, [Next]_vars
  PROVE  Heard'
<1>1. Linkage' /\ Linkage /\ Kept /\ SnapshotLast /\ UpToDate
  BY StepLinkage DEF Heard, Linkage
<1>2. SnapshotLast'
  BY <1>1, StepSnapshotLast
<1>3. UpToDate'
  BY <1>1, TakenUpToDate, PanelUpToDate DEF Next, Handles
<1> QED
  BY <1>1, <1>2, <1>3 DEF Heard

\* On the same installations, a client whose sync is complete and that has handled every
\* message shows for each thermostat the setpoint the panel has, whatever set it on the way;
\* unless it has read an entry since.
THEOREM PanelCorrect ==
  ASSUME Numbered, Configured, Apart PROVE Spec => []ShowsPanels
<1>1. Init => Heard
  <2>1. Init => Linkage
    BY InitLinkage
  <2>2. Init => SnapshotLast /\ UpToDate
    <3> SUFFICES ASSUME Init PROVE SnapshotLast /\ UpToDate
      OBVIOUS
    <3>1. link = "down" /\ wire = <<>>
      BY DEF Init
    <3> QED
      BY <3>1 DEF SnapshotLast, UpToDate, Registered
  <2> QED
    BY <2>1, <2>2 DEF Heard
<1>2. Heard /\ [Next]_vars => Heard'
  BY StepHeard
<1>3. Heard => ShowsPanels
  <2>1. SUFFICES ASSUME Heard, synced, link = "up", wire = <<>>, ~reread, NEW o \in Output
                 PROVE  device[o] # None /\ device[o].target = target[o]
    BY DEF ShowsPanels
  <2>2. Registered
    BY <2>1 DEF Heard, SnapshotLast, Registered
  <2>3. LastTells(o) \/ Shows(o)
    BY <2>1, <2>2 DEF Heard, UpToDate
  <2> QED
    BY <2>1, <2>3 DEF LastTells, Shows
<1> QED
  BY <1>1, <1>2, <1>3, PTL DEF Spec
=============================================================================
