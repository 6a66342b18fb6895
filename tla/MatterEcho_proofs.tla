--------------------------- MODULE MatterEcho_proofs ---------------------------
(* What MatterEcho keeps for every set of setpoints, every number of commands *)
(* and events, and both kinds of zone.                                        *)
EXTENDS MatterEcho, TLAPS

USE TempAssumption, ModeAssumption, BoundAssumption
USE DEF DomainMode

-----------------------------------------------------------------------------
(* Conversions                                                             *)

LEMMA HeatInRange == ASSUME NEW t \in Int PROVE NormalHeat(t) \in 5..30
  BY DEF NormalHeat, Clamp

LEMMA CoolInRange ==
  ASSUME NEW h \in 5..30
  PROVE  CoolFor(h) \in 16..35 /\ CoolFor(h) - h >= 2
  BY DEF CoolFor, Clamp

LEMMA PayloadType ==
  ASSUME cooling \in BOOLEAN, NEW d \in DeviceType
  PROVE  /\ Payload(d) \in Shown
         /\ Payload(d).heat \in 5..30
         /\ Payload(d).cool \in 16..35
         /\ Payload(d).cool - Payload(d).heat >= 2
         /\ ~cooling => Payload(d).mode \in {ModeOff, ModeHeat}
<1> DEFINE h == NormalHeat(d.target)
           c == CoolFor(h)
           m == IF ~cooling /\ d.mode \in {ModeCool, ModeAuto} THEN ModeHeat ELSE d.mode
<1>1. h \in 5..30
  BY HeatInRange DEF DeviceType
<1>2. c \in 16..35 /\ c - h >= 2
  BY <1>1, CoolInRange
<1>3. m \in DomainMode /\ (~cooling => m \in {ModeOff, ModeHeat})
  BY DEF DeviceType
<1>4. Payload(d) = [heat |-> h, cool |-> c, mode |-> m]
  BY DEF Payload
<1> HIDE DEF h, c, m
<1>5. m \in Int /\ h \in Int /\ c \in Int
  BY <1>1, <1>2, <1>3 DEF ModeOff, ModeAuto, ModeCool, ModeHeat
<1>6. [heat |-> h, cool |-> c, mode |-> m] \in Shown
  BY <1>5 DEF Shown, Attr
<1> QED
  BY <1>1, <1>2, <1>3, <1>4, <1>6

-----------------------------------------------------------------------------
(* Types                                                                   *)

LEMMA SendType ==
  ASSUME TypeOK, NEW f, NEW v, [field |-> f, value |-> v] \in Request, Send(f, v)
  PROVE  requests' \in Seq(Request)
  BY DEF TypeOK, Send

\* A handler keeps the tracker's and the queue's types.
LEMMA ChangeType ==
  ASSUME TypeOK, NEW a \in Attr, NEW v \in Int, Change(a, v)
  PROVE  tracker' \in [Attr -> Int \cup {None}] /\ requests' \in Seq(Request)
<1>1. CASE a = "heat" /\ HeatChange(v)
  <2>1. NormalHeat(v) \in Int
    BY HeatInRange
  <2>2. [field |-> "target", value |-> NormalHeat(v)] \in Request
    BY <2>1 DEF Request
  <2> QED
    BY <1>1, <2>1, <2>2, SendType DEF HeatChange, Ignore, handlerVars, RecordIntent, TypeOK
<1>2. CASE a = "cool" /\ CoolChange(v)
  <2>1. NormalCool(v) \in Int
    BY DEF NormalCool, Clamp
  <2>2. [field |-> "target", value |-> NormalCool(v)] \in Request
    BY <2>1 DEF Request
  <2> QED
    BY <1>2, <2>1, <2>2, SendType DEF CoolChange, Ignore, handlerVars, RecordIntent, TypeOK
<1>3. CASE a = "mode" /\ ModeChange(v)
  <2>1. CASE v \in DomainMode
    <3>1. [field |-> "mode", value |-> v] \in Request
      BY <2>1 DEF Request
    <3> QED
      BY <1>3, <3>1, SendType DEF ModeChange, Ignore, handlerVars, RecordIntent, TypeOK
  <2>2. CASE v \notin DomainMode
    BY <1>3, <2>2 DEF ModeChange, Ignore, handlerVars, TypeOK
  <2> QED
    BY <2>1, <2>2
<1> QED
  BY <1>1, <1>2, <1>3 DEF Change

LEMMA RaiseType ==
  ASSUME TypeOK, NEW by \in Int, RaiseLower(by)
  PROVE  tracker' \in [Attr -> Int \cup {None}] /\ requests' \in Seq(Request)
<1>1. NormalHeat(held.target + by) \in Int
  BY HeatInRange DEF TypeOK, DeviceType
<1>2. [field |-> "target", value |-> NormalHeat(held.target + by)] \in Request
  BY <1>1 DEF Request
<1> QED
  BY <1>1, <1>2, SendType DEF RaiseLower, Ignore, handlerVars, RecordIntent, TypeOK

LEMMA InitType == Init => TypeOK
<1> SUFFICES ASSUME Init PROVE TypeOK
  OBVIOUS
<1>1. live \in DeviceType /\ panel \in DeviceType /\ held \in DeviceType
  BY DEF Init, DeviceType, ModeOff
<1>2. pushed \in Shown /\ tracker \in [Attr -> Int \cup {None}]
  BY <1>1, PayloadType DEF Init, Shown
<1>3. echoes \subseteq [attr : Attr, value : Int]
  BY <1>2 DEF Init, Shown
<1>4. cooling \in BOOLEAN /\ linked \in BOOLEAN /\ dirty \in BOOLEAN
  BY Zenon DEF Init
<1>5. requests \in Seq(Request) /\ overtaken \subseteq Attr
  BY DEF Init
<1>6. asks \in 0..MaxAsks /\ events \in 0..MaxEvents
  BY DEF Init
<1> QED
  BY <1>1, <1>2, <1>3, <1>4, <1>5, <1>6, Zenon DEF TypeOK

\* Values are given to matter.js only by Push and Register.
LEMMA GiveType ==
  ASSUME TypeOK, Give(Payload(live))
  PROVE  /\ pushed' \in Shown /\ pushed' = Payload(live)
         /\ tracker' \in [Attr -> Int \cup {None}] /\ dirty' \in BOOLEAN
         /\ echoes' \subseteq [attr : Attr, value : Int]
<1>1. Payload(live) \in Shown
  BY PayloadType DEF TypeOK
<1>2. dirty' \in BOOLEAN
  BY Zenon DEF Give
<1>3. /\ pushed' = Payload(live) /\ tracker' = Payload(live)
      /\ echoes' = echoes \cup {[attr |-> a, value |-> Payload(live)[a]] : a \in Attr}
  BY DEF Give, Recorded
<1>4. pushed' \in Shown /\ tracker' \in [Attr -> Int \cup {None}]
  BY <1>1, <1>3 DEF Shown
<1>5. echoes' \subseteq [attr : Attr, value : Int]
  BY <1>1, <1>3 DEF Shown, TypeOK
<1> QED
  BY <1>2, <1>3, <1>4, <1>5

LEMMA StepType == TypeOK /\ [Next]_vars => TypeOK'
<1> SUFFICES ASSUME TypeOK, [Next]_vars PROVE TypeOK'
  OBVIOUS
<1> USE DEF TypeOK
<1>1. CASE Command
  <2>1. tracker' \in [Attr -> Int \cup {None}] /\ requests' \in Seq(Request)
        /\ overtaken' \subseteq Attr
    <3>1. CASE \E a \in Attr : \E v \in IF a = "mode" THEN Mode \cup {Unknown} ELSE Temp :
                  Change(a, v) /\ Overtake(a)
      <4> PICK a \in Attr : \E v \in IF a = "mode" THEN Mode \cup {Unknown} ELSE Temp :
                  Change(a, v) /\ Overtake(a)
        BY <3>1
      <4> PICK v \in (IF a = "mode" THEN Mode \cup {Unknown} ELSE Temp) :
                  Change(a, v) /\ Overtake(a)
        OBVIOUS
      <4>1. v \in Int
        BY DEF Unknown, ModeOff, ModeAuto, ModeCool, ModeHeat
      <4> QED
        BY <4>1, ChangeType DEF Overtake
    <3>2. CASE \E by \in {-1, 1} : RaiseLower(by) /\ Overtake("heat")
      BY <3>2, RaiseType DEF Overtake, Attr
    <3> QED
      BY <1>1, <3>1, <3>2 DEF Command
  <2> QED
    BY <1>1, <2>1 DEF Command
<1>2. CASE Echo
  <2> PICK e \in echoes : /\ Change(e.attr, e.value)
                          /\ echoes' = echoes \ {e}
                          /\ overtaken' = overtaken \ {e.attr}
    BY <1>2 DEF Echo
  <2>1. tracker' \in [Attr -> Int \cup {None}] /\ requests' \in Seq(Request)
    BY ChangeType
  <2> QED
    BY <1>2, <2>1 DEF Echo
<1>3. CASE Take
  <2>1. Head(requests) \in Request /\ Tail(requests) \in Seq(Request)
    BY <1>3 DEF Take
  <2>2. panel' \in DeviceType
    BY <1>3, <2>1 DEF Take, Request, DeviceType, ModeHeat
  <2> QED
    BY <1>3, <2>1, <2>2 DEF Take
<1>4. CASE Refuse
  BY <1>4 DEF Refuse, Event
<1>5. CASE Keypad
  <2>1. panel' \in DeviceType
    BY <1>5 DEF Keypad, Device, DeviceType
  <2> QED
    BY <1>5, <2>1 DEF Keypad, Event
<1>6. CASE Status
  BY <1>6 DEF Status, Queues
<1>7. CASE Reconnect
  <2>1. live' \in DeviceType
    BY <1>7 DEF Reconnect, DeviceType, ModeOff
  <2>2. linked' \in BOOLEAN /\ dirty' \in BOOLEAN
    BY <1>7, Zenon DEF Reconnect
  <2> QED
    BY <1>7, <2>1, <2>2 DEF Reconnect, Event
<1>8. CASE Push
  BY <1>8, GiveType DEF Push, Give
<1>9. CASE Register
  <2>1. linked' \in BOOLEAN
    BY <1>9, Zenon DEF Register
  <2>2. held' \in DeviceType /\ overtaken' \subseteq Attr /\ events' \in 0..MaxEvents
    BY <1>9 DEF Register, Event, Give
  <2>3. Give(Payload(live)) /\ UNCHANGED <<panel, requests, live, cooling, asks>>
    BY <1>9 DEF Register, Event
  <2> QED
    BY <2>1, <2>2, <2>3, GiveType
<1>10. CASE Expire
  BY <1>10 DEF Expire
<1>11. CASE UNCHANGED vars
  BY <1>11 DEF vars
<1> QED
  BY <1>1, <1>2, <1>3, <1>4, <1>5, <1>6, <1>7, <1>8, <1>9, <1>10, <1>11 DEF Next

\* The types of the endpoint, its tracker and its requests.
THEOREM TypeCorrect == Spec => []TypeOK
  BY InitType, StepType, PTL DEF Spec

-----------------------------------------------------------------------------
(* What matter.js is given                                                 *)

LEMMA StepAcceptable == TypeOK /\ AcceptableState /\ [Next]_vars => AcceptableState'
<1> SUFFICES ASSUME TypeOK, AcceptableState, [Next]_vars PROVE AcceptableState'
  OBVIOUS
<1>1. cooling' = cooling
  BY DEF Next, Command, Echo, Take, Refuse, Keypad, Status, Reconnect, Push, Register, Expire,
         Event, vars
<1>2. CASE Give(Payload(live))
  BY <1>1, <1>2, GiveType, PayloadType DEF TypeOK, AcceptableState
<1>3. CASE UNCHANGED pushed
  BY <1>1, <1>3 DEF AcceptableState
<1> QED
  BY <1>2, <1>3 DEF Next, Command, Echo, Take, Refuse, Keypad, Status, Reconnect, Push,
                    Register, Expire, vars

\* Whatever the panel reports, the values pushed and registered are within the
\* limits of the Thermostat cluster (buildThermostatMatterState).
THEOREM AcceptableCorrect == Spec => []AcceptableState
<1>1. Init => AcceptableState
  <2> SUFFICES ASSUME Init PROVE AcceptableState
    OBVIOUS
  <2>1. TypeOK
    BY InitType
  <2> QED
    BY <2>1, PayloadType DEF Init, TypeOK, AcceptableState
<1> QED
  BY <1>1, StepAcceptable, TypeCorrect, PTL DEF Spec

-----------------------------------------------------------------------------
(* Echoes                                                                  *)

\* Unless a command overtook it, an echo on its way is what the tracker holds;
\* and no two echoes on their way concern one attribute.
EchoesKnown ==
    /\ \A e \in echoes : e.attr \notin overtaken => tracker[e.attr] = e.value
    /\ \A e, f \in echoes : e.attr = f.attr => e = f

LEMMA KnownEchoIgnored ==
  ASSUME TypeOK, NEW e \in echoes, tracker[e.attr] = e.value, Change(e.attr, e.value)
  PROVE  UNCHANGED handlerVars
  BY DEF Change, HeatChange, CoolChange, ModeChange, IsEcho, Ignore

\* A handler touches the entry of its own attribute only.
LEMMA OwnEntry ==
  ASSUME TypeOK, NEW a \in Attr, NEW v, Change(a, v), NEW b \in Attr, b # a
  PROVE  tracker'[b] = tracker[b]
  BY DEF Change, HeatChange, CoolChange, ModeChange, RecordIntent, Ignore, handlerVars, TypeOK

LEMMA RaiseEntry ==
  ASSUME TypeOK, NEW by, RaiseLower(by), NEW b \in Attr, b # "heat"
  PROVE  tracker'[b] = tracker[b]
  BY DEF RaiseLower, RecordIntent, Ignore, handlerVars, TypeOK

LEMMA StepKnown ==
  ASSUME ~LateEcho
  PROVE  TypeOK /\ EchoesKnown /\ [Next]_vars => EchoesKnown'
<1> SUFFICES ASSUME TypeOK, EchoesKnown, [Next]_vars PROVE EchoesKnown'
  OBVIOUS
<1>1. CASE Command
  <2> PICK a \in Attr : /\ Overtake(a)
                        /\ \A b \in Attr \ {a} : tracker'[b] = tracker[b]
    <3>1. CASE \E a \in Attr : \E v \in IF a = "mode" THEN Mode \cup {Unknown} ELSE Temp :
                  Change(a, v) /\ Overtake(a)
      BY <3>1, OwnEntry
    <3>2. CASE \E by \in {-1, 1} : RaiseLower(by) /\ Overtake("heat")
      BY <3>2, RaiseEntry DEF Attr
    <3> QED
      BY <1>1, <3>1, <3>2 DEF Command
  <2>1. echoes' = echoes
    BY <1>1 DEF Command
  <2> QED
    BY <2>1 DEF EchoesKnown, Overtake, TypeOK
<1>2. CASE Echo
  <2> PICK e \in echoes : /\ Change(e.attr, e.value)
                          /\ echoes' = echoes \ {e}
                          /\ overtaken' = overtaken \ {e.attr}
    BY <1>2 DEF Echo
  <2>1. \A f \in echoes' : f.attr # e.attr /\ f.attr \in Attr
    BY DEF EchoesKnown, TypeOK
  <2>2. \A f \in echoes' : tracker'[f.attr] = tracker[f.attr]
    BY <2>1, OwnEntry DEF TypeOK
  <2> QED
    BY <2>1, <2>2 DEF EchoesKnown
<1>3. CASE Give(Payload(live))
  <2>1. /\ tracker' = Payload(live)
        /\ echoes' = {[attr |-> a, value |-> Payload(live)[a]] : a \in Attr}
    BY <1>3 DEF Give, Recorded
  <2> QED
    BY <2>1 DEF EchoesKnown
<1>4. CASE Expire
  <2>1. echoes' = {}
    BY <1>4 DEF Expire
  <2> QED
    BY <2>1 DEF EchoesKnown
<1>5. CASE UNCHANGED <<tracker, echoes, overtaken>>
  BY <1>5 DEF EchoesKnown
<1> QED
  BY <1>1, <1>2, <1>3, <1>4, <1>5 DEF Next, Take, Refuse, Keypad, Status, Reconnect, Push,
                                      Register, vars

\* As long as matter.js delivers its calls before the next push and within 10 s,
\* no echo is forwarded to the panel unless a command overtook it.
THEOREM EchoCorrect == ASSUME ~LateEcho PROVE Spec => EchoWritesNothing
<1>1. Init => EchoesKnown
  BY DEF Init, EchoesKnown
<1>2. TypeOK /\ EchoesKnown /\ [Next]_vars
        => [\A e \in echoes \ echoes' : e.attr \notin overtaken => requests' = requests]_vars
  <2> SUFFICES ASSUME TypeOK, EchoesKnown, Next, NEW e \in echoes \ echoes',
                      e.attr \notin overtaken
               PROVE  requests' = requests
    OBVIOUS
  <2>1. CASE Echo
    <3>1. Change(e.attr, e.value)
      BY <2>1 DEF Echo
    <3>2. tracker[e.attr] = e.value
      BY DEF EchoesKnown
    <3> QED
      BY <3>1, <3>2, KnownEchoIgnored DEF handlerVars
  <2>2. CASE ~Echo
    BY <2>2 DEF Next, Command, Take, Refuse, Keypad, Status, Reconnect, Push, Register, Expire,
                Give
  <2> QED
    BY <2>1, <2>2
<1> QED
  BY <1>1, <1>2, StepKnown, TypeCorrect, PTL DEF Spec, EchoWritesNothing

=============================================================================
