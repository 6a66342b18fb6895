------------------------------ MODULE MatterEcho ------------------------------
(***************************************************************************)
(* One thermostat as a Matter endpoint (platform/                          *)
(* matter-thermostat-handlers.ts, -echo-tracker.ts, -mapper.ts).           *)
(*                                                                         *)
(* matter.js calls the endpoint's handlers when a controller changes an    *)
(* attribute, and again for the values the plugin itself pushes.  A        *)
(* handler that took such an echo for a command would write it to the      *)
(* panel, whose broadcast makes the plugin push again.                     *)
(***************************************************************************)
EXTENDS Integers, Sequences

CONSTANTS
    None,
    Temp,              \* setpoints, in degrees; both sides agree on the unit
    Mode,              \* the modes that occur
    MaxAsks,           \* bound on the controllers' commands
    MaxEvents,         \* bound on keypad changes, refused writes, reconnections
                       \* and new registrations together
    LateEcho           \* may an echo come after the next push or after 10 s?

Attr == {"heat", "cool", "mode"}

\* SystemModeEnum.  The client's modes map to these numbers one to one
\* (domainModeToMatterSystemMode), so a device's mode is the number, too.
ModeOff == 0
ModeAuto == 1
ModeCool == 3
ModeHeat == 4
DomainMode == {ModeOff, ModeAuto, ModeCool, ModeHeat}
Unknown == 99      \* any mode the plugin does not know
Device == [target : Temp, mode : Mode]

ASSUME TempAssumption  == Temp \subseteq Int /\ 21 \in Temp /\ None \notin Int
ASSUME ModeAssumption  == Mode \subseteq DomainMode /\ {ModeOff, ModeHeat} \subseteq Mode
ASSUME BoundAssumption == MaxAsks \in Nat /\ MaxEvents \in Nat /\ LateEcho \in BOOLEAN

VARIABLES
    cooling,      \* thermostatSupportsCooling: what the name suggests
    panel,        \* the thermostat itself
    requests,     \* writes the panel has not taken, in order (CommandDispatcher)
    live,         \* the client's device
    held,         \* the device the handlers were built with
    linked,       \* whether that is the client's device
    dirty,        \* an update for the endpoint is queued
    pushed,       \* what matter.js was given last
    tracker,      \* entries of MatterThermostatEchoTracker; None after 10 s
    echoes,       \* handler calls that matter.js owes for pushes
    overtaken,    \* history: attributes a command changed since
    asks, events

vars == <<cooling, panel, requests, live, held, linked, dirty, pushed, tracker, echoes,
          overtaken, asks, events>>
handlerVars == <<tracker, requests>>

-----------------------------------------------------------------------------
(* Conversions                                                             *)

Clamp(t, low, high) == IF t < low THEN low ELSE IF t > high THEN high ELSE t
NormalHeat(t) == Clamp(t, 5, 30)
NormalCool(t) == Clamp(t, 16, 35)

\* variant: the cooling setpoint is always the default
CoolFor_Default(heat) == 24

\* The cooling setpoint shown beside a heating setpoint: the default, or a dead
\* band above.  (The code also lowers the heating setpoint if the gap is still
\* too small; it never is, as 30 + 2 <= 35.)
CoolFor(heat) == Clamp(heat + 2, 24, 35)

\* buildThermostatMatterState: what the endpoint of a device shows
Payload(d) ==
    LET heat == NormalHeat(d.target)
    IN  [heat |-> heat,
         cool |-> CoolFor(heat),
         mode |-> IF ~cooling /\ d.mode \in {ModeCool, ModeAuto} THEN ModeHeat ELSE d.mode]

-----------------------------------------------------------------------------
(* The handlers                                                            *)

IsEcho(a, v) == tracker[a] = v

RecordIntent(a, v) == tracker' = [tracker EXCEPT ![a] = v]

\* sendTemp and setThermostatMode; what they throw is swallowed
Send(field, v) == requests' = Append(requests, [field |-> field, value |-> v])

Ignore == UNCHANGED handlerVars

\* occupiedHeatingSetpointChange
HeatChange(v) ==
    LET value == NormalHeat(v)
    IN  IF IsEcho("heat", v) THEN Ignore
        ELSE /\ RecordIntent("heat", value)
             /\ IF held.target = value THEN UNCHANGED requests ELSE Send("target", value)

\* occupiedCoolingSetpointChange
CoolChange(v) ==
    LET value == NormalCool(v)
    IN  IF ~cooling \/ IsEcho("cool", v) THEN Ignore
        ELSE RecordIntent("cool", value) /\ Send("target", value)

\* systemModeChange, with matterSystemModeToKlares4Mode
ModeChange(m) ==
    IF IsEcho("mode", m) \/ m \notin (IF cooling THEN DomainMode ELSE {ModeOff, ModeHeat}) THEN Ignore
    ELSE /\ RecordIntent("mode", m)
         /\ IF held.mode = m THEN UNCHANGED requests ELSE Send("mode", m)

\* setpointRaiseLower
RaiseLower(by) ==
    LET value == NormalHeat(held.target + by)
    IN  IF IsEcho("heat", value) THEN Ignore
        ELSE RecordIntent("heat", value) /\ Send("target", value)

Change(a, v) ==
    \/ a = "heat" /\ HeatChange(v)
    \/ a = "cool" /\ CoolChange(v)
    \/ a = "mode" /\ ModeChange(v)

-----------------------------------------------------------------------------
(* Steps                                                                   *)

Overtake(a) ==
    overtaken' = IF \E e \in echoes : e.attr = a THEN overtaken \cup {a} ELSE overtaken

\* A controller changes an attribute.
Command ==
    /\ asks < MaxAsks
    /\ asks' = asks + 1
    /\ \/ \E a \in Attr : \E v \in IF a = "mode" THEN Mode \cup {Unknown} ELSE Temp :
            Change(a, v) /\ Overtake(a)
       \/ \E by \in {-1, 1} : RaiseLower(by) /\ Overtake("heat")
    /\ UNCHANGED <<cooling, panel, live, held, linked, dirty, pushed, echoes, events>>

\* matter.js calls a handler for a value the plugin pushed.
Echo ==
    /\ \E e \in echoes :
        /\ Change(e.attr, e.value)
        /\ echoes' = echoes \ {e}
        /\ overtaken' = overtaken \ {e.attr}
    /\ UNCHANGED <<cooling, panel, live, held, linked, dirty, pushed, asks, events>>

\* The panel takes a write and may leave the mode or select one.
Take ==
    /\ requests # <<>>
    /\ LET r == Head(requests)
       IN  IF r.field = "mode" THEN panel' = [panel EXCEPT !.mode = r.value]
           ELSE \E m \in {panel.mode, ModeHeat} : panel' = [target |-> r.value, mode |-> m]
    /\ requests' = Tail(requests)
    /\ UNCHANGED <<cooling, live, held, linked, dirty, pushed, tracker, echoes, overtaken,
                   asks, events>>

\* Something the plugin does not expect.
Event ==
    /\ events < MaxEvents
    /\ events' = events + 1
    /\ UNCHANGED <<cooling, asks>>

\* The panel refuses a write, or does not answer it in time.
Refuse ==
    /\ Event
    /\ requests # <<>>
    /\ requests' = Tail(requests)
    /\ UNCHANGED <<panel, live, held, linked, dirty, pushed, tracker, echoes, overtaken>>

Keypad ==
    /\ Event
    /\ \E d \in Device : panel' = d
    /\ UNCHANGED <<requests, live, held, linked, dirty, pushed, tracker, echoes, overtaken>>

\* variant: an update is queued for a new setpoint only
Queues_Setpoint(d) == d.target # live.target

\* enqueueStateFor and scheduleFlush: whether the update is queued, on top of
\* what is
Queues(d) == TRUE

\* A broadcast of the panel changes the client's device, and so the handlers'
\* one as long as it is the same object.
Status ==
    /\ live # panel
    /\ live' = panel
    /\ held' = IF linked THEN panel ELSE held
    /\ dirty' = (dirty \/ Queues(panel))
    /\ UNCHANGED <<cooling, panel, requests, linked, pushed, tracker, echoes, overtaken,
                   asks, events>>

\* A new session builds the device anew.  addOrUpdateAccessory keeps the
\* registration and its handlers, and queues the new device's state.
Reconnect ==
    /\ Event
    /\ live' = [target |-> 21, mode |-> ModeOff]
    /\ linked' = FALSE
    /\ dirty' = TRUE
    /\ UNCHANGED <<panel, requests, held, pushed, tracker, echoes, overtaken>>

\* variant: systemMode is not recorded
Recorded_SetpointsOnly(p) == [p EXCEPT !.mode = tracker.mode]

\* recordPushed
Recorded(p) == p

\* matter.js is given values, and owes the handlers a call for each.
Give(p) ==
    /\ LateEcho \/ echoes = {}
    /\ pushed' = p
    /\ tracker' = Recorded(p)
    /\ echoes' = echoes \cup {[attr |-> a, value |-> p[a]] : a \in Attr}
    /\ dirty' = FALSE
    /\ UNCHANGED overtaken

\* updateAccessoryState, when the queue is flushed
Push ==
    /\ dirty
    /\ Give(Payload(live))
    /\ UNCHANGED <<cooling, panel, requests, live, held, linked, asks, events>>

\* registerAccessory for a new name: new handlers for the client's device
Register ==
    /\ Event
    /\ Give(Payload(live))
    /\ held' = live
    /\ linked' = TRUE
    /\ UNCHANGED <<panel, requests, live>>

\* 10 s after it was recorded an entry no longer counts.
Expire ==
    /\ LateEcho \/ echoes = {}
    /\ \E a \in Attr : tracker[a] # None /\ tracker' = [tracker EXCEPT ![a] = None]
    /\ UNCHANGED <<cooling, panel, requests, live, held, linked, dirty, pushed, echoes,
                   overtaken, asks, events>>

Init ==
    /\ cooling \in BOOLEAN
    /\ live = [target |-> 21, mode |-> ModeOff]
    /\ panel = live
    /\ held = live /\ linked = TRUE
    /\ pushed = Payload(live)
    /\ tracker = pushed
    /\ echoes = {[attr |-> a, value |-> pushed[a]] : a \in Attr}
    /\ requests = <<>> /\ dirty = FALSE /\ overtaken = {}
    /\ asks = 0 /\ events = 0

Next ==
    \/ Command \/ Echo \/ Take \/ Refuse \/ Keypad \/ Status \/ Reconnect \/ Push \/ Register
    \/ Expire

Spec == Init /\ [][Next]_vars

\* matter.js delivers what it owes, the panel answers and broadcasts, and the
\* flush timer fires.  Nothing else has to happen.
FairSpec == Spec /\ WF_vars(Echo) /\ WF_vars(Take) /\ WF_vars(Status) /\ WF_vars(Push)

-----------------------------------------------------------------------------
(* Properties                                                              *)

DeviceType == [target : Int, mode : DomainMode]
Request == [field : {"target"}, value : Int] \cup [field : {"mode"}, value : DomainMode]
Shown == [Attr -> Int]

\* Every variable keeps the shape the code gives it.
TypeOK ==
    /\ cooling \in BOOLEAN /\ linked \in BOOLEAN /\ dirty \in BOOLEAN
    /\ panel \in DeviceType /\ live \in DeviceType /\ held \in DeviceType
    /\ requests \in Seq(Request)
    /\ pushed \in Shown
    /\ tracker \in [Attr -> Int \cup {None}]
    /\ echoes \subseteq [attr : Attr, value : Int]
    /\ overtaken \subseteq Attr
    /\ asks \in 0..MaxAsks /\ events \in 0..MaxEvents

\* Whatever the panel reports, and whatever a new session starts from, matter.js
\* is only given values its Thermostat cluster accepts: setpoints in their ranges
\* and a dead band apart, and no cooling mode on a zone that only heats.
AcceptableState ==
    /\ pushed.heat \in 5..30 /\ pushed.cool \in 16..35 /\ pushed.cool - pushed.heat >= 2
    /\ ~cooling => pushed.mode \in {ModeOff, ModeHeat}

\* A handler call that echoes a push writes nothing to the panel, unless a
\* controller changed the attribute between the push and the call: then the
\* tracker no longer knows the value (matter-thermostat-handlers.ts:9).
EchoWritesNothing ==
    [][\A e \in echoes \ echoes' : e.attr \notin overtaken => requests' = requests]_vars

\* No loop keeps itself alive (CHANGELOG, 2.1.3): once controllers and people
\* at the keypad stop, writes and pushes cease, and Matter shows the panel's state.
ComesToRest ==
    <>[](requests = <<>> /\ ~dirty /\ live = panel /\ pushed = Payload(panel))

\* What the panel's setpoint will be, as far as the client can know.
Expected ==
    LET writes == SelectSeq(requests, LAMBDA r : r.field = "target")
    IN  IF writes = <<>> THEN live.target ELSE writes[Len(writes)].value

\* A command is dropped only "if Lares4 already holds the requested setpoint"
\* (matter-thermostat-handlers.ts:74).  Not kept: the handler looks at the
\* device it was built with, and not at a write that is still on its way.
DroppedOnlyIfHeld ==
    [][asks' # asks /\ tracker'.heat # tracker.heat /\ requests' = requests
        => tracker'.heat = Expected]_vars

=============================================================================
