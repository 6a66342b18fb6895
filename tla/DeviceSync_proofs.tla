--------------------------- MODULE DeviceSync_proofs ---------------------------
(* What DeviceSync keeps for every panel, every configuration and every bound *)
(* on the messages under way.                                                 *)
EXTENDS DeviceSync, TLAPS, SequenceTheorems

USE KindAssumption, ItemAssumption, StatusAssumption, BoundAssumption, PanelsAssumption

RequestName == {"ZONES", "MULTI_TYPES", "STATUS_OUTPUTS", "STATUS_BUS_HA_SENSORS", "REGISTER"}

\* What the panel sends never speaks of the status of a scenario.
Sendable == {m \in Message : \A i \in DOMAIN m.values : KindOf[i] # "scenario"}

\* The inductive invariant.
IInv == TypeOK /\ wire \in Seq(Sendable)

-----------------------------------------------------------------------------
(* Lemmas                                                                  *)

LEMMA RequestsAre ==
  /\ Len(Requests) = 5
  /\ \A n \in 1..5 : Requests[n] \in RequestName
  /\ {Requests[n] : n \in 1..Len(Requests)} = RequestName
  BY DEF Requests, RequestName

LEMMA ListSendable ==
  ASSUME NEW L \in SUBSET Item
  PROVE  List(L) \in Sendable
<1>1. [i \in {} |-> Default] \in [{} -> Status]
  OBVIOUS
<1>2. [i \in {} |-> Default] \in UNION {[D -> Status] : D \in SUBSET Item}
  BY <1>1
<1> QED
  BY <1>2 DEF List, Sendable, Message

LEMMA StatusSendable ==
  ASSUME NEW D \in SUBSET Item, NEW S \in [D -> Status], \A i \in D : KindOf[i] # "scenario"
  PROVE  Statuses(S) \in Sendable /\ Snapshot(S) \in Sendable
<1>1. S \in UNION {[E -> Status] : E \in SUBSET Item} /\ DOMAIN S = D
  OBVIOUS
<1> QED
  BY <1>1 DEF Statuses, Snapshot, Sendable, Message

\* What an answer says now concerns no scenario.
LEMMA NowSendable ==
  ASSUME TypeOK, NEW r \in RequestName \ {"ZONES", "MULTI_TYPES"}
  PROVE  /\ Statuses(Now(listed \cap About(r))) \in Sendable
         /\ Snapshot(Now(listed \cap About(r))) \in Sendable
<1> DEFINE D == listed \cap About(r)
<1>1. D \in SUBSET Item /\ \A i \in D : KindOf[i] # "scenario"
  BY DEF TypeOK, About, RequestName
<1>2. Now(D) \in [D -> Status]
  BY <1>1 DEF Now, TypeOK
<1> QED
  BY <1>1, <1>2, StatusSendable

LEMMA WithoutType ==
  ASSUME NEW T, NEW s \in Seq(T), NEW k \in 1..Len(s)
  PROVE  Without(s, k) \in Seq(T)
<1>1. SubSeq(s, 1, k - 1) \in Seq(T)
  BY SubSeqProperties
<1>2. SubSeq(s, k + 1, Len(s)) \in Seq(T)
  BY SubSeqProperties
<1> QED
  BY <1>1, <1>2, ConcatProperties DEF Without

\* Handling a status keeps the types.
LEMMA ApplyType ==
  ASSUME TypeOK, NEW m \in Sendable, Apply(m.values)
  PROVE  /\ devices' \in [Item -> Status \cup {None}]
         /\ pending' \in [Item -> Status \cup {None}]
         /\ shown' \in [Item -> Status]
<1>1. PICK D \in SUBSET Item : m.values \in [D -> Status]
  BY DEF Sendable, Message
<1>2. \A i \in DOMAIN m.values : m.values[i] \in Status
  BY <1>1
<1> QED
  BY <1>2 DEF Apply, UpdateAccessory, TypeOK

LEMMA DiscoverType ==
  ASSUME TypeOK, NEW L \in SUBSET Item, Discover(L)
  PROVE  /\ devices' \in [Item -> Status \cup {None}]
         /\ pending' \in [Item -> Status \cup {None}]
         /\ shown' \in [Item -> Status]
         /\ active' \subseteq Item /\ accessories' \subseteq Item
<1>1. \A i \in Item : FirstStatus(i) \in Status
  BY DEF FirstStatus, Waits, TypeOK
<1>2. \A i \in Item : ShownAfter(i) \in Status
  BY <1>1 DEF ShownAfter, TypeOK
<1> QED
  BY <1>1, <1>2 DEF Discover, TakePending, TypeOK

-----------------------------------------------------------------------------
(* Types                                                                   *)

LEMMA InitType == Init => IInv
<1> SUFFICES ASSUME Init PROVE IInv
  OBVIOUS
<1>1. registered \in BOOLEAN /\ synced \in BOOLEAN /\ reconnected \in BOOLEAN
  BY Zenon DEF Init
<1>2. wire \in Seq(Message) /\ wire \in Seq(Sendable) /\ asked \in Seq(RequestName)
  BY DEF Init
<1>3. sent \in 0..Len(Requests)
  BY RequestsAre DEF Init
<1>4. /\ devices \in [Item -> Status \cup {None}] /\ pending \in [Item -> Status \cup {None}]
      /\ shown \in [Item -> Status]
  BY DEF Init
<1> QED
  BY <1>1, <1>2, <1>3, <1>4, RequestsAre DEF Init, IInv, TypeOK

LEMMA StepType == IInv /\ [Next]_vars => IInv'
<1> SUFFICES ASSUME IInv, [Next]_vars PROVE IInv'
  OBVIOUS
<1> USE DEF IInv, TypeOK
<1>0. \A s \in Seq(Sendable) : s \in Seq(Message)
  BY DEF Sendable
<1>1. CASE Connect
  <2>1. synced' \in BOOLEAN
    BY <1>1, Zenon DEF Connect, OpenResets
  <2> QED
    BY <1>1, <2>1, RequestsAre DEF Connect, OpenResets, panelVars, homeVars
<1>2. CASE SendNext
  <2>1. sent' \in 0..5 /\ Requests[sent + 1] \in RequestName
    BY <1>2, RequestsAre DEF SendNext
  <2>2. asked' \in Seq(RequestName)
    BY <1>2, <2>1, RequestsAre DEF SendNext
  <2> QED
    BY <1>2, <2>1, <2>2, RequestsAre DEF SendNext, panelVars, clientVars, homeVars
<1>3. ASSUME NEW k \in 1..Len(asked), Answer(k)
      PROVE  IInv'
  <2> DEFINE r == asked[k]
  <2>1. r \in RequestName
    BY RequestsAre
  <2>2. asked' \in Seq(RequestName)
    BY <1>3, WithoutType, RequestsAre DEF Answer
  <2>3. wire' \in Seq(Sendable) /\ registered' \in BOOLEAN
    <3>1. CASE r \in {"ZONES", "MULTI_TYPES"}
      <4>1. PICK L \in SUBSET Item : wire' = Append(wire, List(L)) /\ UNCHANGED registered
        BY <1>3, <3>1 DEF Answer
      <4> QED
        BY <4>1, ListSendable
    <3>2. CASE r = "REGISTER"
      <4>1. wire' = Append(wire, Snapshot(Now(listed \cap About(r))))
        BY <1>3, <3>2 DEF Answer
      <4>2. registered' = TRUE
        BY <1>3, <3>2 DEF Answer
      <4>3. r \in RequestName \ {"ZONES", "MULTI_TYPES"}
        BY <2>1, <3>2
      <4>4. Snapshot(Now(listed \cap About(r))) \in Sendable
        BY <4>3, NowSendable
      <4>5. wire' \in Seq(Sendable)
        BY <4>1, <4>4
      <4>6. registered' \in BOOLEAN
        BY <4>2, Zenon
      <4> QED
        BY <4>5, <4>6
    <3>3. CASE r \notin {"ZONES", "MULTI_TYPES", "REGISTER"}
      <4>1. wire' = Append(wire, Statuses(Now(listed \cap About(r)))) /\ UNCHANGED registered
        BY <1>3, <3>3 DEF Answer
      <4>2. r \in RequestName \ {"ZONES", "MULTI_TYPES"}
        BY <2>1, <3>3
      <4>3. Statuses(Now(listed \cap About(r))) \in Sendable
        BY <4>2, NowSendable
      <4> QED
        BY <4>1, <4>3
    <3> QED
      BY <3>1, <3>2, <3>3
  <2> QED
    BY <1>0, <1>3, <2>2, <2>3, RequestsAre DEF Answer, panelVars, clientVars, homeVars
<1>4. ASSUME NEW i \in Item, NEW v \in Status, PanelChanges(i, v)
      PROVE  IInv'
  <2> DEFINE S == [j \in {i} |-> v]
  <2>1. S \in [{i} -> Status] /\ KindOf[i] # "scenario"
    BY <1>4 DEF PanelChanges
  <2> HIDE DEF S
  <2>2. Statuses(S) \in Sendable
    BY <2>1, StatusSendable
  <2>3. wire' = Append(wire, Statuses(S)) \/ wire' = wire
    BY <1>4 DEF PanelChanges, S
  <2>4. wire' \in Seq(Sendable)
    BY <2>2, <2>3
  <2> QED
    BY <1>0, <1>4, <2>4 DEF PanelChanges, clientVars, homeVars
<1>5. ASSUME NEW i \in Item, PanelEdited(i)
      PROVE  IInv'
  BY <1>5 DEF PanelEdited, linkVars, clientVars, homeVars
<1>6. CASE HandleList
  <2>1. Head(wire) \in Sendable /\ Tail(wire) \in Seq(Sendable)
    BY <1>6 DEF HandleList
  <2>2. Head(wire).items \in SUBSET Item
    BY <2>1 DEF Sendable, Message
  <2> QED
    BY <1>0, <1>6, <2>1, <2>2, DiscoverType DEF HandleList, panelVars
<1>7. CASE HandleStatus
  <2>1. Head(wire) \in Sendable /\ Tail(wire) \in Seq(Sendable)
    BY <1>7 DEF HandleStatus
  <2> QED
    BY <1>0, <1>7, <2>1, ApplyType DEF HandleStatus, panelVars
<1>8. CASE HandleSnapshot
  <2>1. Head(wire) \in Sendable /\ Tail(wire) \in Seq(Sendable)
    BY <1>8 DEF HandleSnapshot
  <2>2. accessories' \subseteq Item /\ active' \subseteq Item
    BY <1>8 DEF HandleSnapshot, CompleteSync
  <2>3. synced' \in BOOLEAN
    BY <1>8, Zenon DEF HandleSnapshot, CompleteSync
  <2> QED
    BY <1>0, <1>8, <2>1, <2>2, <2>3, ApplyType DEF HandleSnapshot, panelVars
<1>9. CASE Disconnect
  <2>1. registered' \in BOOLEAN /\ reconnected' \in BOOLEAN
    BY <1>9, Zenon DEF Disconnect
  <2> QED
    BY <1>9, <2>1 DEF Disconnect, panelVars, clientVars, homeVars
<1>10. CASE Boot
  <2>1. registered' \in BOOLEAN /\ reconnected' \in BOOLEAN /\ synced' \in BOOLEAN
    BY <1>10, Zenon DEF Boot
  <2> QED
    BY <1>10, <2>1, RequestsAre DEF Boot, panelVars
<1>11. CASE UNCHANGED vars
  BY <1>11 DEF vars, panelVars, linkVars, clientVars, homeVars
<1> QED
  BY <1>1, <1>2, <1>3, <1>4, <1>5, <1>6, <1>7, <1>8, <1>9, <1>10, <1>11 DEF Next

\* The types of the panel's messages and of what the client makes of them.
THEOREM TypeCorrect == Spec => []TypeOK
<1>1. IInv => TypeOK
  BY DEF IInv
<1> QED
  BY <1>1, InitType, StepType, PTL DEF Spec

-----------------------------------------------------------------------------
(* Parked statuses                                                         *)

\* A status is parked only where no device takes it; scenarios have none.
LEMMA ApplyParks ==
  ASSUME TypeOK, ParkedIsUnknown, NEW m \in Sendable, Apply(m.values)
  PROVE  ParkedIsUnknown'
<1> SUFFICES ASSUME NEW i \in Item, pending'[i] # None, KindOf[i] # "gate"
             PROVE  devices'[i] = None
  BY DEF ParkedIsUnknown, Waits
<1>1. CASE i \notin DOMAIN m.values
  BY <1>1 DEF Apply, ParkedIsUnknown, Waits, TypeOK
<1>2. CASE i \in DOMAIN m.values
  <2>1. ~Matches(i)
    BY <1>2 DEF Apply
  <2>2. KindOf[i] \in {"zone", "output", "sensor"}
    BY <1>2 DEF Sendable, Kind
  <2>3. devices[i] = None
    BY <2>1, <2>2 DEF Matches, OutputMatches, SensorMatches, ZoneMatches
  <2> QED
    BY <2>1, <2>3 DEF Apply
<1> QED
  BY <1>1, <1>2

LEMMA StepParks == IInv /\ ParkedIsUnknown /\ [Next]_vars => ParkedIsUnknown'
<1> SUFFICES ASSUME IInv, ParkedIsUnknown, [Next]_vars PROVE ParkedIsUnknown'
  OBVIOUS
<1>1. CASE HandleStatus \/ HandleSnapshot
  <2>1. Head(wire) \in Sendable
    BY <1>1 DEF HandleStatus, HandleSnapshot, IInv
  <2> QED
    BY <1>1, <2>1, ApplyParks DEF HandleStatus, HandleSnapshot, IInv
<1>2. CASE HandleList
  BY <1>2 DEF HandleList, Discover, TakePending, ParkedIsUnknown, Waits, IInv, TypeOK
<1>3. CASE Connect
  BY <1>3 DEF Connect, OpenResets, ParkedIsUnknown, Waits
<1>4. CASE Boot
  BY <1>4 DEF Boot, ParkedIsUnknown, Waits
<1>5. CASE UNCHANGED <<devices, pending>>
  BY <1>5 DEF ParkedIsUnknown, Waits
<1> QED
  BY <1>1, <1>2, <1>3, <1>4, <1>5
     DEF Next, SendNext, Disconnect, Answer, PanelEdited, PanelChanges, clientVars, vars

\* A status is parked only for a device the client does not know, whatever the
\* panel sends and in which order (StatusUpdater, applyPending...Status).
THEOREM ParkedCorrect == Spec => []ParkedIsUnknown
<1>1. Init => ParkedIsUnknown
  BY DEF Init, ParkedIsUnknown, Waits
<1> QED
  BY <1>1, InitType, StepType, StepParks, PTL DEF Spec

-----------------------------------------------------------------------------
(* Pruning                                                                 *)

\* How many requests of this connection the panel has answered.
Answered == sent - Len(asked)

\* The request whose answer lists i.
ListOf(i) == IF KindOf[i] = "zone" THEN 1 ELSE 2

IsSnapshot(m) == m.type = "REALTIME_RES"

\* The items the client has an object for.
Known == {i \in Item : devices[i] # None}

\* What it has an object for, unless excluded, is discovered and has an accessory.
Owned == Known \ Excluded \subseteq active /\ active \subseteq accessories

\* The client has been told of i, or will be before it handles a snapshot.
Told(q, known, i) ==
    \/ i \in known
    \/ \E n \in DOMAIN q : /\ q[n].type = "list" /\ i \in q[n].items
                           /\ \A m \in DOMAIN q : IsSnapshot(q[m]) => n < m

\* The panel answers in the order it was asked in, the registration last.
InTurn ==
    /\ registered <=> link = "up" /\ Answered = 5
    /\ link = "down" => asked = <<>> /\ wire = <<>> /\ ~registered
    /\ Len(asked) <= sent
    /\ \A n \in 1..Len(asked) : asked[n] = Requests[Answered + n]

\* Every item of an answered list is told before the snapshot, which comes last.
ListsFirst ==
    /\ \A m \in DOMAIN wire : IsSnapshot(wire[m]) => Answered = 5
    /\ link = "up" =>
         \A i \in listed : ListOf(i) <= Answered => Told(wire, Known, i)

Thorough == InTurn /\ ListsFirst

\* What the message at the front carries.
LEMMA HeadValues ==
  ASSUME IInv, wire # <<>>
  PROVE  /\ Head(wire) \in Message /\ Head(wire).items \in SUBSET Item
         /\ \E D \in SUBSET Item : Head(wire).values \in [D -> Status]
<1>1. Head(wire) \in Message
  BY DEF IInv, TypeOK
<1> QED
  BY <1>1 DEF Message

LEMMA ApplyKnows ==
  ASSUME IInv, NEW D \in SUBSET Item, NEW S \in [D -> Status], Apply(S)
  PROVE  Known' = Known
  BY DEF Apply, Known, Matches, OutputMatches, SensorMatches, ZoneMatches, IInv, TypeOK

LEMMA DiscoverKnows ==
  ASSUME IInv, NEW L \in SUBSET Item, Discover(L)
  PROVE  Known' = Known \cup L
  BY DEF Discover, Known, FirstStatus, Waits, IInv, TypeOK

LEMMA AppendTold ==
  ASSUME NEW q \in Seq(Message), NEW x \in Message, NEW known, NEW i, Told(q, known, i)
  PROVE  Told(Append(q, x), known, i)
<1>1. CASE i \in known
  BY <1>1 DEF Told
<1>2. ASSUME NEW n \in DOMAIN q, q[n].type = "list", i \in q[n].items,
             \A m \in DOMAIN q : IsSnapshot(q[m]) => n < m
      PROVE  Told(Append(q, x), known, i)
  <2>1. /\ DOMAIN Append(q, x) = 1..(Len(q) + 1) /\ DOMAIN q = 1..Len(q) /\ Len(q) \in Nat
        /\ \A m \in DOMAIN q : Append(q, x)[m] = q[m]
    OBVIOUS
  <2>2. n \in DOMAIN Append(q, x) /\ Append(q, x)[n] = q[n]
    BY <2>1
  <2>3. ASSUME NEW m \in DOMAIN Append(q, x), IsSnapshot(Append(q, x)[m]) PROVE n < m
    <3>1. CASE m \in DOMAIN q
      BY <1>2, <2>1, <2>3, <3>1
    <3>2. CASE m \notin DOMAIN q
      BY <2>1, <3>2
    <3> QED
      BY <3>1, <3>2
  <2> QED
    BY <1>2, <2>2, <2>3 DEF Told
<1> QED
  BY <1>1, <1>2 DEF Told

LEMMA ListTold ==
  ASSUME NEW q \in Seq(Message), \A m \in DOMAIN q : ~IsSnapshot(q[m]),
         NEW L \in SUBSET Item, NEW i \in L, NEW known
  PROVE  Told(Append(q, List(L)), known, i)
<1>1. PICK x : x = List(L)
  OBVIOUS
<1>2. x \in Message /\ x.type = "list" /\ x.items = L
  BY <1>1, ListSendable DEF List, Sendable
<1>3. /\ DOMAIN Append(q, x) = 1..(Len(q) + 1) /\ DOMAIN q = 1..Len(q) /\ Len(q) \in Nat
      /\ \A m \in DOMAIN q : Append(q, x)[m] = q[m]
      /\ Append(q, x)[Len(q) + 1] = x
  BY <1>2
<1>4. \A m \in DOMAIN Append(q, x) : ~IsSnapshot(Append(q, x)[m])
  <2> SUFFICES ASSUME NEW m \in DOMAIN Append(q, x), m \notin DOMAIN q
               PROVE  ~IsSnapshot(Append(q, x)[m])
    BY <1>3
  <2>1. m = Len(q) + 1
    BY <1>3
  <2> QED
    BY <1>2, <1>3, <2>1 DEF IsSnapshot
<1>5. Len(q) + 1 \in DOMAIN Append(q, x)
  BY <1>3
<1> QED
  BY <1>1, <1>2, <1>3, <1>4, <1>5 DEF Told

LEMMA TailTold ==
  ASSUME NEW q \in Seq(Message), q # <<>>, NEW known, NEW more, known \subseteq more, NEW i,
         Told(q, known, i), Head(q).type = "list" /\ i \in Head(q).items => i \in more
  PROVE  Told(Tail(q), more, i)
<1>1. CASE i \in known
  BY <1>1 DEF Told
<1>2. ASSUME NEW n \in DOMAIN q, q[n].type = "list", i \in q[n].items,
             \A m \in DOMAIN q : IsSnapshot(q[m]) => n < m
      PROVE  Told(Tail(q), more, i)
  <2>1. /\ DOMAIN Tail(q) = 1..(Len(q) - 1) /\ DOMAIN q = 1..Len(q) /\ Len(q) \in Nat
        /\ \A m \in DOMAIN Tail(q) : Tail(q)[m] = q[m + 1]
        /\ Head(q) = q[1]
    OBVIOUS
  <2>2. CASE n = 1
    BY <1>2, <2>1, <2>2 DEF Told
  <2>3. CASE n # 1
    <3>1. n - 1 \in DOMAIN Tail(q) /\ Tail(q)[n - 1] = q[n]
      BY <2>1, <2>3
    <3>2. ASSUME NEW m \in DOMAIN Tail(q), IsSnapshot(Tail(q)[m]) PROVE n - 1 < m
      <4>1. m + 1 \in DOMAIN q /\ Tail(q)[m] = q[m + 1] /\ m \in Int /\ n \in Int
        BY <2>1
      <4>2. n < m + 1
        BY <1>2, <3>2, <4>1
      <4> QED
        BY <4>1, <4>2
    <3> QED
      BY <1>2, <3>1, <3>2 DEF Told
  <2> QED
    BY <2>2, <2>3
<1> QED
  BY <1>1, <1>2 DEF Told

LEMMA SnapshotTold ==
  ASSUME NEW q \in Seq(Message), q # <<>>, IsSnapshot(Head(q)), NEW known, NEW i, Told(q, known, i)
  PROVE  i \in known
<1>1. 1 \in DOMAIN q /\ Head(q) = q[1] /\ DOMAIN q = 1..Len(q) /\ Len(q) \in Nat
  OBVIOUS
<1> QED
  BY <1>1 DEF Told

\* The first of the requests that wait is the next of all.
LEMMA FirstAsked ==
  ASSUME IInv, InTurn, panel = "orderly", NEW k \in 1..Len(asked), Answer(k)
  PROVE  /\ asked[k] = Requests[Answered + 1] /\ Answered + 1 \in 1..5
         /\ sent' = sent /\ Answered' = Answered + 1 /\ InTurn'
<1>1. k = 1 /\ asked' = Without(asked, 1) /\ sent' = sent /\ link' = link
  BY DEF Answer
<1>2. asked \in Seq(RequestName) /\ sent \in 0..5
  BY RequestsAre DEF IInv, TypeOK
<1>3. Len(asked) \in Nat /\ Len(asked) <= sent /\ Len(asked) >= 1
  BY <1>2 DEF InTurn
<1>4. Answered \in Int /\ Answered + 1 \in 1..5 /\ asked[k] = Requests[Answered + 1]
  BY <1>1, <1>2, <1>3 DEF InTurn, Answered
<1>5. asked' = Tail(asked)
  <2>1. SubSeq(asked, 1, 0) = <<>> /\ SubSeq(asked, 2, Len(asked)) = Tail(asked)
    BY <1>2, <1>3
  <2>2. Tail(asked) \in Seq(RequestName)
    BY <1>2, <1>3
  <2> QED
    BY <1>1, <2>1, <2>2 DEF Without
<1>6. /\ Len(asked') = Len(asked) - 1 /\ Answered' = Answered + 1
      /\ \A n \in 1..Len(asked') : asked'[n] = asked[n + 1] /\ n + 1 \in 1..Len(asked)
  BY <1>1, <1>2, <1>3, <1>5 DEF Answered
<1>7. ASSUME NEW n \in 1..Len(asked') PROVE asked'[n] = Requests[Answered' + n]
  <2>1. n + 1 \in 1..Len(asked) /\ asked'[n] = asked[n + 1]
    BY <1>6
  <2>2. asked[n + 1] = Requests[Answered + (n + 1)]
    BY <2>1 DEF InTurn
  <2>3. Answered + (n + 1) = Answered' + n
    BY <1>4, <1>6
  <2> QED
    BY <2>1, <2>2, <2>3
<1>8. link # "down"
  BY <1>3 DEF InTurn
<1>9. registered' <=> link' = "up" /\ Answered' = 5
  <2>1. ~registered /\ link = "up"
    BY <1>4, <1>8 DEF InTurn, IInv, TypeOK
  <2>2. registered' <=> Requests[Answered + 1] = "REGISTER"
    BY <1>4, <2>1 DEF Answer
  <2>3. Requests[Answered + 1] = "REGISTER" <=> Answered + 1 = 5
    BY <1>4 DEF Requests
  <2> QED
    BY <1>1, <1>6, <2>1, <2>2, <2>3
<1> QED
  BY <1>1, <1>2, <1>3, <1>4, <1>6, <1>7, <1>8, <1>9 DEF InTurn

LEMMA AnswerTells ==
  ASSUME IInv, IInv', Thorough, panel = "orderly", NEW k \in 1..Len(asked), Answer(k)
  PROVE  Thorough'
<1>1. /\ asked[k] = Requests[Answered + 1] /\ Answered + 1 \in 1..5
      /\ Answered' = Answered + 1 /\ InTurn'
  BY FirstAsked DEF Thorough
<1>2. Answered \in 0..4
  BY <1>1, RequestsAre DEF Answered, IInv, TypeOK
<1>3. /\ link' = link /\ listed' = listed /\ Known' = Known
      /\ wire \in Seq(Message) /\ listed \in SUBSET Item
  BY DEF Answer, panelVars, clientVars, Known, IInv, TypeOK
<1>4. \A m \in DOMAIN wire : ~IsSnapshot(wire[m])
  BY <1>2 DEF Thorough, ListsFirst
<1>5. ASSUME NEW x \in Message, wire' = Append(wire, x), IsSnapshot(x) => Answered' = 5,
             \A i \in listed : ListOf(i) = Answered' => Told(wire', Known, i)
      PROVE  Thorough'
  <2>1. /\ DOMAIN Append(wire, x) = 1..(Len(wire) + 1) /\ DOMAIN wire = 1..Len(wire) /\ Len(wire) \in Nat
        /\ \A m \in DOMAIN wire : Append(wire, x)[m] = wire[m]
        /\ Append(wire, x)[Len(wire) + 1] = x
    BY <1>3
  <2>2. ASSUME NEW m \in DOMAIN Append(wire, x), IsSnapshot(Append(wire, x)[m]) PROVE Answered' = 5
    <3>1. CASE m \in DOMAIN wire
      BY <1>4, <2>1, <2>2, <3>1
    <3>2. CASE m \notin DOMAIN wire
      <4>1. m = Len(wire) + 1
        BY <2>1, <3>2
      <4> QED
        BY <1>5, <2>1, <2>2, <4>1
    <3> QED
      BY <3>1, <3>2
  <2>3. ASSUME link = "up", NEW i \in listed, ListOf(i) <= Answered'
        PROVE  Told(wire', Known, i)
    <3>1. CASE ListOf(i) = Answered'
      BY <1>5, <3>1
    <3>2. CASE ListOf(i) # Answered'
      <4>1. ListOf(i) <= Answered
        BY <1>1, <1>2, <2>3, <3>2 DEF ListOf
      <4>2. Told(wire, Known, i)
        BY <2>3, <4>1 DEF Thorough, ListsFirst
      <4> QED
        BY <1>3, <1>5, <4>2, AppendTold
    <3> QED
      BY <3>1, <3>2
  <2> QED
    BY <1>1, <1>3, <1>5, <2>2, <2>3 DEF Thorough, ListsFirst
<1>6. CASE Answered \in {0, 1}
  <2>1. PICK L : L = listed \cap About(asked[k])
    OBVIOUS
  <2>2. asked[k] \in {"ZONES", "MULTI_TYPES"}
    BY <1>1, <1>6 DEF Requests
  <2>3. wire' = Append(wire, List(L)) /\ L \in SUBSET Item
    BY <1>3, <2>1, <2>2 DEF Answer
  <2>4. List(L) \in Message /\ ~IsSnapshot(List(L))
    <3>1. List(L).type = "list"
      BY DEF List
    <3> QED
      BY <2>3, <3>1, ListSendable DEF Sendable, IsSnapshot
  <2>5. ASSUME NEW i \in listed, ListOf(i) = Answered' PROVE Told(wire', Known, i)
    <3>1. i \in About(asked[k])
      BY <1>1, <1>3, <1>6, <2>5 DEF About, ListOf, Requests
    <3>2. i \in L
      BY <2>1, <3>1
    <3> QED
      BY <1>3, <1>4, <2>3, <3>2, ListTold
  <2> QED
    BY <1>5, <2>3, <2>4, <2>5
<1>7. CASE Answered \notin {0, 1}
  <2>1. asked[k] \in RequestName \ {"ZONES", "MULTI_TYPES"} /\ (asked[k] = "REGISTER" => Answered = 4)
    BY <1>1, <1>2, <1>7 DEF Requests, RequestName
  <2>2. PICK S : S = Now(listed \cap About(asked[k]))
    OBVIOUS
  <2>3. Statuses(S) \in Message /\ Snapshot(S) \in Message /\ ~IsSnapshot(Statuses(S))
    <3>1. Statuses(S).type = "status"
      BY DEF Statuses
    <3> QED
      BY <2>1, <2>2, <3>1, NowSendable DEF Sendable, IsSnapshot, IInv
  <2>4. \/ wire' = Append(wire, Statuses(S))
        \/ wire' = Append(wire, Snapshot(S)) /\ Answered' = 5
    BY <1>1, <2>1, <2>2 DEF Answer
  <2>5. \A i \in listed : ListOf(i) # Answered'
    BY <1>1, <1>2, <1>7 DEF ListOf
  <2> QED
    BY <1>5, <2>3, <2>4, <2>5
<1> QED
  BY <1>6, <1>7

\* A message is handled: the list it was, if it was one, is known.
LEMMA HandledTells ==
  ASSUME IInv, Thorough, wire # <<>>, wire' = Tail(wire),
         UNCHANGED <<listed, link, registered, sent, asked>>, Known \subseteq Known',
         Head(wire).type = "list" => Head(wire).items \subseteq Known'
  PROVE  Thorough'
<1>1. wire \in Seq(Message) /\ Answered' = Answered
  BY DEF IInv, TypeOK, Answered
<1>2. InTurn'
  BY <1>1 DEF Thorough, InTurn
<1>3. /\ DOMAIN Tail(wire) = 1..(Len(wire) - 1) /\ DOMAIN wire = 1..Len(wire) /\ Len(wire) \in Nat
      /\ \A m \in DOMAIN Tail(wire) : Tail(wire)[m] = wire[m + 1]
  BY <1>1
<1>4. ASSUME NEW m \in DOMAIN Tail(wire), IsSnapshot(Tail(wire)[m]) PROVE Answered = 5
  <2>1. m + 1 \in DOMAIN wire /\ IsSnapshot(wire[m + 1])
    BY <1>3, <1>4
  <2> QED
    BY <2>1 DEF Thorough, ListsFirst
<1>5. ASSUME link = "up", NEW i \in listed, ListOf(i) <= Answered
      PROVE  Told(Tail(wire), Known', i)
  <2>1. Told(wire, Known, i)
    BY <1>5 DEF Thorough, ListsFirst
  <2>2. Head(wire).type = "list" /\ i \in Head(wire).items => i \in Known'
    BY <1>5
  <2> QED
    BY <1>1, <2>1, <2>2, TailTold
<1> QED
  BY <1>1, <1>2, <1>4, <1>5 DEF Thorough, ListsFirst

\* A snapshot finds everything the panel lists among the discovered items.
LEMMA AllKnown ==
  ASSUME IInv, Thorough, wire # <<>>, Head(wire).type = "REALTIME_RES"
  PROVE  listed \subseteq Known
<1>1. /\ wire \in Seq(Message) /\ 1 \in DOMAIN wire /\ Head(wire) = wire[1]
      /\ IsSnapshot(Head(wire))
  BY DEF IInv, TypeOK, IsSnapshot
<1>2. Answered = 5 /\ link = "up"
  BY <1>1 DEF Thorough, ListsFirst, InTurn, IInv, TypeOK
<1> SUFFICES ASSUME NEW i \in listed PROVE i \in Known
  OBVIOUS
<1>3. Told(wire, Known, i)
  BY <1>2 DEF Thorough, ListsFirst, ListOf
<1> QED
  BY <1>1, <1>3, SnapshotTold

LEMMA ThoroughNext ==
  ASSUME IInv, IInv', Thorough, panel = "orderly", [Next]_vars
  PROVE  Thorough'
<1> USE DEF panelVars, linkVars, clientVars, homeVars
<1>1. CASE Connect
  <2>1. asked' = <<>> /\ wire' = <<>> /\ sent' = 0 /\ link' = "up" /\ ~registered'
    BY <1>1 DEF Connect, Thorough, InTurn
  <2>2. Len(asked') = 0
    BY <2>1
  <2>3. Answered' = 0
    <3>1. Answered' = sent' - Len(asked')
      BY DEF Answered
    <3>2. sent' - Len(asked') = 0 - 0
      BY <2>1, <2>2
    <3> QED
      BY <3>1, <3>2
  <2> QED
    BY <2>1, <2>2, <2>3 DEF Thorough, InTurn, ListsFirst, ListOf
<1>2. CASE SendNext
  <2>1. asked \in Seq(RequestName) /\ sent \in 0..5 /\ Len(asked) \in Nat /\ link = "up"
    BY <1>2, RequestsAre DEF IInv, TypeOK, SendNext
  <2>2. /\ sent' = sent + 1 /\ asked' = Append(asked, Requests[sent + 1]) /\ sent + 1 \in 1..5
        /\ UNCHANGED <<link, registered, listed, wire>> /\ Known' = Known
    BY <1>2, <2>1, RequestsAre DEF SendNext, Known
  <2>3. /\ Len(asked') = Len(asked) + 1 /\ asked'[Len(asked) + 1] = Requests[sent + 1]
        /\ \A n \in 1..Len(asked) : asked'[n] = asked[n]
    BY <2>1, <2>2, RequestsAre
  <2>4. Answered' = Answered /\ Answered + (Len(asked) + 1) = sent + 1
    BY <2>1, <2>2, <2>3 DEF Answered
  <2>5. ASSUME NEW n \in 1..Len(asked') PROVE asked'[n] = Requests[Answered' + n]
    <3>1. CASE n \in 1..Len(asked)
      BY <2>3, <2>4, <3>1 DEF Thorough, InTurn
    <3>2. CASE n = Len(asked) + 1
      BY <2>3, <2>4, <3>2
    <3> QED
      BY <2>1, <2>3, <3>1, <3>2
  <2> QED
    BY <2>1, <2>2, <2>3, <2>4, <2>5 DEF Thorough, InTurn, ListsFirst
<1>3. CASE Disconnect \/ Boot
  <2>1. asked' = <<>> /\ wire' = <<>> /\ link' = "down" /\ ~registered' /\ sent' \in Nat
    BY <1>3, RequestsAre DEF Disconnect, Boot, IInv, TypeOK
  <2>2. Len(asked') = 0
    BY <2>1
  <2> QED
    BY <2>1, <2>2 DEF Thorough, InTurn, ListsFirst
<1>4. CASE HandleList
  <2>1. /\ wire # <<>> /\ wire' = Tail(wire) /\ Known' = Known \cup Head(wire).items
        /\ UNCHANGED <<listed, link, registered, sent, asked>>
    BY <1>4, HeadValues, DiscoverKnows DEF HandleList
  <2> QED
    BY <2>1, HandledTells
<1>5. CASE HandleStatus
  <2>1. /\ wire # <<>> /\ Head(wire).type = "status" /\ wire' = Tail(wire)
        /\ UNCHANGED <<listed, link, registered, sent, asked>> /\ Known' = Known
    BY <1>5, HeadValues, ApplyKnows DEF HandleStatus
  <2> QED
    BY <2>1, HandledTells
<1>6. CASE HandleSnapshot
  <2>1. /\ wire # <<>> /\ Head(wire).type = "REALTIME_RES" /\ wire' = Tail(wire)
        /\ UNCHANGED <<listed, link, registered, sent, asked>> /\ Known' = Known
    BY <1>6, HeadValues, ApplyKnows DEF HandleSnapshot
  <2> QED
    BY <2>1, HandledTells
<1>7. ASSUME NEW k \in 1..Len(asked), Answer(k) PROVE Thorough'
  BY <1>7, AnswerTells
<1>8. ASSUME NEW i \in Item, PanelEdited(i) PROVE Thorough'
  BY <1>8 DEF PanelEdited, Known, Thorough, InTurn, ListsFirst, Answered
<1>9. ASSUME NEW i \in Item, NEW v \in Status, PanelChanges(i, v) PROVE Thorough'
  <2>1. UNCHANGED <<listed, link, registered, sent, asked>> /\ Answered' = Answered /\ Known' = Known
    BY <1>9 DEF PanelChanges, Answered, clientVars, Known
  <2>2. CASE wire' = wire
    BY <2>1, <2>2 DEF Thorough, InTurn, ListsFirst
  <2>3. CASE wire' # wire
    <3>1. PICK x : x = Statuses([j \in {i} |-> v])
      OBVIOUS
    <3>2. wire' = Append(wire, x) /\ ~IsSnapshot(x)
      BY <1>9, <2>3, <3>1 DEF PanelChanges, Statuses, IsSnapshot
    <3>3. x \in Message
      <4>1. KindOf[i] # "scenario"
        BY <1>9, <2>3 DEF PanelChanges
      <4>2. {i} \in SUBSET Item /\ [j \in {i} |-> v] \in [{i} -> Status]
        OBVIOUS
      <4>3. Statuses([j \in {i} |-> v]) \in Sendable
        BY <4>1, <4>2, StatusSendable
      <4> QED
        BY <3>1, <4>3 DEF Sendable
    <3>4. wire \in Seq(Message)
      BY DEF IInv, TypeOK
    <3>5. /\ DOMAIN Append(wire, x) = 1..(Len(wire) + 1) /\ DOMAIN wire = 1..Len(wire)
          /\ Len(wire) \in Nat /\ Append(wire, x)[Len(wire) + 1] = x
          /\ \A m \in DOMAIN wire : Append(wire, x)[m] = wire[m]
      BY <3>3, <3>4
    <3>6. ASSUME NEW m \in DOMAIN Append(wire, x), IsSnapshot(Append(wire, x)[m]) PROVE Answered = 5
      <4>1. m \in DOMAIN wire
        BY <3>2, <3>5, <3>6
      <4> QED
        BY <3>5, <3>6, <4>1 DEF Thorough, ListsFirst
    <3>7. ASSUME link = "up", NEW j \in listed, ListOf(j) <= Answered
          PROVE  Told(Append(wire, x), Known, j)
      BY <3>3, <3>4, <3>7, AppendTold DEF Thorough, ListsFirst
    <3>8. registered
      BY <1>9, <2>3 DEF PanelChanges
    <3>9. InTurn'
      BY <2>1, <3>8 DEF Thorough, InTurn
    <3> QED
      BY <2>1, <3>2, <3>6, <3>7, <3>9 DEF Thorough, ListsFirst
  <2> QED
    BY <2>2, <2>3
<1>10. CASE UNCHANGED vars
  BY <1>10 DEF vars, Known, Thorough, InTurn, ListsFirst, Answered
<1> QED
  BY <1>1, <1>2, <1>3, <1>4, <1>5, <1>6, <1>7, <1>8, <1>9, <1>10 DEF Next

LEMMA InitOwned == Init => Owned
  BY DEF Init, Owned, Known

LEMMA StepOwned == IInv /\ Owned /\ [Next]_vars => Owned'
<1> SUFFICES ASSUME IInv, Owned, [Next]_vars PROVE Owned'
  OBVIOUS
<1> USE DEF Owned
<1>1. CASE HandleList
  <2>1. Known' = Known \cup Head(wire).items
    BY <1>1, HeadValues, DiscoverKnows DEF HandleList
  <2>2. /\ active' = active \cup (Head(wire).items \ Excluded)
        /\ accessories' = accessories \cup (Head(wire).items \ Excluded)
    BY <1>1 DEF HandleList, Discover
  <2> QED
    BY <2>1, <2>2
<1>2. CASE HandleStatus
  <2>1. Known' = Known /\ UNCHANGED <<active, accessories>>
    BY <1>2, HeadValues, ApplyKnows DEF HandleStatus
  <2> QED
    BY <2>1
<1>3. CASE HandleSnapshot
  <2>1. Known' = Known
    BY <1>3, HeadValues, ApplyKnows DEF HandleSnapshot
  <2>2. active' = active /\ active \subseteq accessories'
    BY <1>3 DEF HandleSnapshot, CompleteSync, Stale
  <2> QED
    BY <2>1, <2>2
<1>4. CASE Boot
  BY <1>4 DEF Boot, Known
<1>5. CASE ~(HandleList \/ HandleStatus \/ HandleSnapshot \/ Boot)
  <2>1. UNCHANGED <<devices, active, accessories>>
    BY <1>5 DEF Next, Connect, SendNext, Disconnect, Answer, PanelEdited, PanelChanges,
                clientVars, homeVars, vars
  <2> QED
    BY <2>1 DEF Known
<1> QED
  BY <1>1, <1>2, <1>3, <1>4, <1>5

LEMMA PruneSpares ==
  ASSUME IInv, Owned, Thorough, [Next]_vars
  PROVE  \A i \in accessories \ accessories' : i \notin listed \/ i \in Excluded
<1>1. CASE HandleSnapshot
  <2>1. wire # <<>> /\ Head(wire).type = "REALTIME_RES"
    BY <1>1 DEF HandleSnapshot
  <2>2. accessories \ accessories' \subseteq accessories \ active
    BY <1>1 DEF HandleSnapshot, CompleteSync, Stale
  <2> QED
    BY <2>1, <2>2, AllKnown DEF Owned
<1>2. CASE ~HandleSnapshot
  <2>1. accessories \subseteq accessories'
    BY <1>2 DEF Next, Connect, SendNext, Disconnect, Boot, HandleList, Discover, HandleStatus,
                Answer, PanelEdited, PanelChanges, homeVars, vars
  <2> QED
    BY <2>1
<1> QED
  BY <1>1, <1>2

\* The prune after a sync (pruneStaleAccessories) never takes an accessory whose device
\* the panel still lists and the configuration does not exclude, over any number of
\* reconnections and restarts; if lists come back whole.
THEOREM PruneCorrect == ASSUME "partial" \notin Panels PROVE Spec => PrunedOnlyIfGone
<1> DEFINE Orderly == panel \in Panels /\ (panel = "orderly" => Thorough)
<1>1. Init => Orderly
  BY RequestsAre DEF Init, Thorough, InTurn, ListsFirst, Answered
<1>2. IInv /\ IInv' /\ Orderly /\ [Next]_vars => Orderly'
  <2>1. [Next]_vars => panel' = panel
    BY DEF Next, Connect, SendNext, Disconnect, Boot, HandleList, HandleStatus, HandleSnapshot,
           Answer, PanelEdited, PanelChanges, panelVars, vars
  <2> QED
    BY <2>1, ThoroughNext
<1>3. IInv /\ Owned /\ Orderly /\ [Next]_vars =>
          (panel # "reordering" =>
             \A i \in accessories \ accessories' : i \notin listed \/ i \in Excluded)
  BY PruneSpares DEF PanelKind
<1> QED
  BY <1>1, <1>2, <1>3, InitType, StepType, InitOwned, StepOwned, PTL DEF Spec, PrunedOnlyIfGone

-----------------------------------------------------------------------------
(* Statuses                                                                *)

\* The items whose statuses reach their device.
Reporting == {i \in Item : KindOf[i] \in {"zone", "output", "sensor"}}

\* The messages that carry a status of i, and those that list it or carry one.
Telling(i)    == {m \in Message : m.type # "list" /\ i \in DOMAIN m.values}
Mentioning(i) == {m \in Message : i \in m.items \/ i \in DOMAIN m.values}

\* No message of A is under way.
Silent(q, A) == \A n \in DOMAIN q : q[n] \notin A

\* A message carries the status v of i, and none of A follows it.
Carries(q, A, i, v) ==
    \E n \in DOMAIN q :
        /\ q[n].type # "list" /\ i \in DOMAIN q[n].values /\ q[n].values[i] = v
        /\ \A m \in DOMAIN q : m > n => q[m] \notin A

\* The client has what the panel has, and shows it.
Has(i) ==
    /\ devices[i] = panelStatus[i]
    /\ i \notin Excluded => shown[i] = panelStatus[i]

\* The last word about i is its status, under way or arrived.
Current(i) ==
    \/ Carries(wire, Mentioning(i), i, panelStatus[i])
    \/ Silent(wire, Mentioning(i)) /\ Has(i)

\* Once the panel notifies the client, it is so for every item.
UpToDate == registered => \A i \in listed \cap Reporting : Current(i)

LEMMA AppendCarries ==
  ASSUME NEW q \in Seq(Message), NEW x \in Message, x.type # "list",
         NEW i, i \in DOMAIN x.values, NEW A
  PROVE  Carries(Append(q, x), A, i, x.values[i])
<1>1. /\ DOMAIN Append(q, x) = 1..(Len(q) + 1) /\ Len(q) \in Nat
      /\ Append(q, x)[Len(q) + 1] = x
  OBVIOUS
<1>2. Len(q) + 1 \in DOMAIN Append(q, x) /\ \A m \in DOMAIN Append(q, x) : ~(m > Len(q) + 1)
  BY <1>1
<1> QED
  BY <1>1, <1>2 DEF Carries

LEMMA AppendSpares ==
  ASSUME NEW q \in Seq(Message), NEW x \in Message, NEW A, x \notin A, NEW i, NEW v
  PROVE  /\ Carries(q, A, i, v) => Carries(Append(q, x), A, i, v)
         /\ Silent(q, A) => Silent(Append(q, x), A)
<1>1. /\ DOMAIN Append(q, x) = 1..(Len(q) + 1) /\ DOMAIN q = 1..Len(q) /\ Len(q) \in Nat
      /\ \A m \in DOMAIN q : Append(q, x)[m] = q[m] /\ m \in DOMAIN Append(q, x)
      /\ Append(q, x)[Len(q) + 1] = x
  OBVIOUS
<1>2. \A m \in DOMAIN Append(q, x) : m \notin DOMAIN q => Append(q, x)[m] \notin A
  <2> SUFFICES ASSUME NEW m \in DOMAIN Append(q, x), m \notin DOMAIN q
               PROVE  Append(q, x)[m] \notin A
    OBVIOUS
  <2>1. m = Len(q) + 1
    BY <1>1
  <2> QED
    BY <1>1, <2>1
<1>3. ASSUME NEW n \in DOMAIN q, q[n].type # "list", i \in DOMAIN q[n].values,
             q[n].values[i] = v, \A m \in DOMAIN q : m > n => q[m] \notin A
      PROVE  Carries(Append(q, x), A, i, v)
  <2>1. \A m \in DOMAIN Append(q, x) : m > n => Append(q, x)[m] \notin A
    BY <1>1, <1>2, <1>3
  <2> QED
    BY <1>1, <1>3, <2>1 DEF Carries
<1>4. Carries(q, A, i, v) => Carries(Append(q, x), A, i, v)
  BY <1>3 DEF Carries
<1>5. Silent(q, A) => Silent(Append(q, x), A)
  BY <1>1, <1>2 DEF Silent
<1> QED
  BY <1>4, <1>5

\* The message handled was that status of i, or leaves it under way.
LEMMA TailCarries ==
  ASSUME NEW q \in Seq(Message), q # <<>>, NEW A, NEW i, NEW v, Carries(q, A, i, v)
  PROVE  \/ Carries(Tail(q), A, i, v)
         \/ /\ Silent(Tail(q), A)
            /\ Head(q).type # "list" /\ i \in DOMAIN Head(q).values /\ Head(q).values[i] = v
<1>1. /\ DOMAIN Tail(q) = 1..(Len(q) - 1) /\ DOMAIN q = 1..Len(q) /\ Len(q) \in Nat
      /\ \A m \in DOMAIN Tail(q) : Tail(q)[m] = q[m + 1] /\ m + 1 \in DOMAIN q
      /\ Head(q) = q[1]
  OBVIOUS
<1>2. PICK n \in DOMAIN q :
        /\ q[n].type # "list" /\ i \in DOMAIN q[n].values /\ q[n].values[i] = v
        /\ \A m \in DOMAIN q : m > n => q[m] \notin A
  BY DEF Carries
<1>3. CASE n = 1
  <2>1. Silent(Tail(q), A)
    BY <1>1, <1>2, <1>3 DEF Silent
  <2> QED
    BY <1>1, <1>2, <1>3, <2>1
<1>4. CASE n # 1
  <2>1. n - 1 \in DOMAIN Tail(q) /\ Tail(q)[n - 1] = q[n]
    BY <1>1, <1>4
  <2>2. \A m \in DOMAIN Tail(q) : m > n - 1 => Tail(q)[m] \notin A
    BY <1>1, <1>2
  <2> QED
    BY <1>2, <2>1, <2>2 DEF Carries
<1> QED
  BY <1>3, <1>4

LEMMA TailSilent ==
  ASSUME NEW q \in Seq(Message), q # <<>>, NEW A, Silent(q, A)
  PROVE  Silent(Tail(q), A) /\ Head(q) \notin A
<1>1. /\ DOMAIN Tail(q) = 1..(Len(q) - 1) /\ DOMAIN q = 1..Len(q) /\ Len(q) \in Nat
      /\ \A m \in DOMAIN Tail(q) : Tail(q)[m] = q[m + 1] /\ m + 1 \in DOMAIN q
      /\ Head(q) = q[1] /\ 1 \in DOMAIN q
  OBVIOUS
<1> QED
  BY <1>1 DEF Silent

\* When the last word about i is at the front, the client has an object for i.
LEMMA LastIsKnown ==
  ASSUME IInv, wire # <<>>, NEW i, Told(wire, Known, i), Silent(Tail(wire), Mentioning(i)),
         Head(wire).type # "list"
  PROVE  i \in Known
<1>1. wire \in Seq(Message)
  BY DEF IInv, TypeOK
<1>2. /\ DOMAIN Tail(wire) = 1..(Len(wire) - 1) /\ DOMAIN wire = 1..Len(wire) /\ Len(wire) \in Nat
      /\ \A m \in DOMAIN Tail(wire) : Tail(wire)[m] = wire[m + 1]
      /\ Head(wire) = wire[1]
      /\ \A m \in DOMAIN wire : wire[m] \in Message
  BY <1>1
<1> SUFFICES ASSUME NEW n \in DOMAIN wire, wire[n].type = "list", i \in wire[n].items
             PROVE  FALSE
  BY DEF Told
<1>3. n # 1
  BY <1>2
<1>4. /\ n - 1 \in DOMAIN Tail(wire) /\ Tail(wire)[n - 1] = wire[n]
      /\ wire[n] \in Message
  BY <1>2, <1>3
<1> QED
  BY <1>4 DEF Silent, Mentioning

\* A status reaches the object of its item and, unless excluded, its accessory.
LEMMA ApplyReaches ==
  ASSUME IInv, Owned, NEW D \in SUBSET Item, NEW S \in [D -> Status], Apply(S),
         NEW i \in Reporting
  PROVE  /\ i \notin D => devices'[i] = devices[i] /\ shown'[i] = shown[i]
         /\ i \in D \cap Known => devices'[i] = S[i] /\ (i \notin Excluded => shown'[i] = S[i])
<1>1. i \in Item /\ DOMAIN S = D
  BY DEF Reporting
<1>2. CASE i \notin D
  BY <1>1, <1>2 DEF Apply, UpdateAccessory
<1>3. CASE i \in D \cap Known
  <2>1. Matches(i)
    BY <1>3 DEF Reporting, Known, Matches, OutputMatches, SensorMatches, ZoneMatches
  <2>2. i \notin Excluded => i \in accessories
    BY <1>3 DEF Owned
  <2> QED
    BY <1>1, <1>3, <2>1, <2>2 DEF Apply, UpdateAccessory
<1> QED
  BY <1>2, <1>3

LEMMA HandledArrives ==
  ASSUME IInv, Thorough, UpToDate, registered, wire # <<>>, wire' = Tail(wire),
         UNCHANGED panelStatus, NEW i \in listed \cap Reporting,
         Head(wire) \notin Mentioning(i) => devices'[i] = devices[i] /\ shown'[i] = shown[i],
         Head(wire).type # "list" /\ i \in DOMAIN Head(wire).values /\ i \in Known
           => /\ devices'[i] = Head(wire).values[i]
              /\ i \notin Excluded => shown'[i] = Head(wire).values[i]
  PROVE  Current(i)'
<1>1. wire \in Seq(Message)
  BY DEF IInv, TypeOK
<1>2. CASE Carries(wire, Mentioning(i), i, panelStatus[i])
  <2>1. CASE Carries(Tail(wire), Mentioning(i), i, panelStatus[i])
    BY <2>1 DEF Current
  <2>2. CASE /\ Silent(Tail(wire), Mentioning(i)) /\ Head(wire).type # "list"
             /\ i \in DOMAIN Head(wire).values /\ Head(wire).values[i] = panelStatus[i]
    <3>1. Told(wire, Known, i)
      BY DEF Thorough, InTurn, ListsFirst, ListOf
    <3>2. i \in Known
      BY <2>2, <3>1, LastIsKnown
    <3> QED
      BY <2>2, <3>2 DEF Current, Has
  <2> QED
    BY <1>1, <1>2, <2>1, <2>2, TailCarries
<1>3. CASE Silent(wire, Mentioning(i)) /\ Has(i)
  <2>1. Silent(Tail(wire), Mentioning(i)) /\ Head(wire) \notin Mentioning(i)
    BY <1>1, <1>3, TailSilent
  <2> QED
    BY <1>3, <2>1 DEF Current, Has
<1> QED
  BY <1>2, <1>3 DEF UpToDate, Current

LEMMA UpToDateNext ==
  ASSUME IInv, IInv', Owned, Thorough, panel = "orderly", UpToDate, [Next]_vars
  PROVE  UpToDate'
<1> USE DEF panelVars, linkVars, clientVars, homeVars
<1>0. wire \in Seq(Message)
  BY DEF IInv, TypeOK
<1>1. CASE HandleList
  <2> SUFFICES ASSUME registered', NEW i \in listed' \cap Reporting
               PROVE  Current(i)'
    BY DEF UpToDate
  <2>1. /\ UNCHANGED <<panelStatus, listed, registered>> /\ wire # <<>> /\ wire' = Tail(wire)
        /\ Head(wire).type = "list"
    BY <1>1 DEF HandleList
  <2>2. i \in Item /\ Head(wire) \in Message
    BY <2>1, HeadValues DEF Reporting
  <2>3. Head(wire) \notin Mentioning(i) => devices'[i] = devices[i] /\ shown'[i] = shown[i]
    BY <1>1, <2>2 DEF HandleList, Discover, Mentioning
  <2> QED
    BY <2>1, <2>3, HandledArrives
<1>2. CASE HandleStatus \/ HandleSnapshot
  <2> SUFFICES ASSUME registered', NEW i \in listed' \cap Reporting
               PROVE  Current(i)'
    BY DEF UpToDate
  <2>1. /\ UNCHANGED <<panelStatus, listed, registered>> /\ wire # <<>> /\ wire' = Tail(wire)
        /\ Apply(Head(wire).values)
    BY <1>2 DEF HandleStatus, HandleSnapshot
  <2>2. PICK D \in SUBSET Item : Head(wire).values \in [D -> Status]
    BY <2>1, HeadValues
  <2>3. DOMAIN Head(wire).values = D /\ Head(wire) \in Message
    BY <2>1, <2>2, HeadValues
  <2>4. i \in Reporting /\ i \in listed
    BY <2>1
  <2>5. /\ i \notin D => devices'[i] = devices[i] /\ shown'[i] = shown[i]
        /\ i \in D \cap Known => /\ devices'[i] = Head(wire).values[i]
                                 /\ i \notin Excluded => shown'[i] = Head(wire).values[i]
    BY <2>1, <2>2, <2>4, ApplyReaches
  <2> QED
    BY <2>1, <2>3, <2>4, <2>5, HandledArrives DEF Mentioning
<1>3. ASSUME NEW k \in 1..Len(asked), Answer(k) PROVE UpToDate'
  <2>1. /\ asked[k] = Requests[Answered + 1] /\ Answered + 1 \in 1..5
        /\ Answered' = Answered + 1 /\ InTurn'
    BY <1>3, FirstAsked DEF Thorough
  <2> SUFFICES ASSUME registered', NEW i \in listed' \cap Reporting
               PROVE  Current(i)'
    BY DEF UpToDate
  <2>2. Answered' = 5 /\ asked[k] = "REGISTER"
    BY <2>1, RequestsAre DEF InTurn, Requests
  <2>3. PICK S : S = Now(listed \cap About("REGISTER"))
    OBVIOUS
  <2>4. wire' = Append(wire, Snapshot(S)) /\ UNCHANGED <<panelStatus, listed>>
    BY <1>3, <2>2, <2>3 DEF Answer
  <2>5. Snapshot(S) \in Message
    BY <2>3, NowSendable DEF IInv, Sendable, RequestName
  <2>6. i \in listed \cap About("REGISTER")
    BY <2>4 DEF Reporting, About
  <2>7. i \in DOMAIN S /\ S[i] = panelStatus[i]
    BY <2>3, <2>6 DEF Now
  <2>8. Snapshot(S).values = S /\ Snapshot(S).type # "list"
    BY DEF Snapshot
  <2>9. Carries(Append(wire, Snapshot(S)), Mentioning(i), i, Snapshot(S).values[i])
    BY <1>0, <2>5, <2>7, <2>8, AppendCarries
  <2> QED
    BY <2>4, <2>7, <2>8, <2>9 DEF Current
<1>4. ASSUME NEW j \in Item, NEW v \in Status, PanelChanges(j, v) PROVE UpToDate'
  <2> SUFFICES ASSUME registered', NEW i \in listed' \cap Reporting
               PROVE  Current(i)'
    BY DEF UpToDate
  <2>1. PICK x : x = Statuses([n \in {j} |-> v])
    OBVIOUS
  <2>2. /\ wire' = Append(wire, x) /\ UNCHANGED <<listed, registered, devices, shown>>
        /\ panelStatus' = [panelStatus EXCEPT ![j] = v]
    BY <1>4, <2>1 DEF PanelChanges
  <2>3. x \in Message
    <3>1. KindOf[j] # "scenario"
      BY <1>4 DEF PanelChanges
    <3>2. {j} \in SUBSET Item /\ [n \in {j} |-> v] \in [{j} -> Status]
      OBVIOUS
    <3> QED
      BY <2>1, <3>1, <3>2, StatusSendable DEF Sendable
  <2>4. x.type # "list" /\ x.items = {j} /\ DOMAIN x.values = {j} /\ x.values[j] = v
    BY <2>1 DEF Statuses
  <2>5. i \in Item /\ i \in listed /\ i \in Reporting /\ panelStatus \in [Item -> Status]
    BY <2>2 DEF Reporting, IInv, TypeOK
  <2>6. CASE i = j
    <3>1. Carries(Append(wire, x), Mentioning(i), i, x.values[i])
      BY <1>0, <2>3, <2>4, <2>6, AppendCarries
    <3> QED
      BY <2>2, <2>4, <2>5, <2>6, <3>1 DEF Current
  <2>7. CASE i # j
    <3>1. x \notin Mentioning(i) /\ panelStatus'[i] = panelStatus[i]
      BY <2>2, <2>4, <2>5, <2>7 DEF Mentioning
    <3>2. Current(i)
      BY <2>2, <2>5 DEF UpToDate
    <3>3. Carries(wire, Mentioning(i), i, panelStatus[i]) =>
          Carries(Append(wire, x), Mentioning(i), i, panelStatus[i])
      BY <1>0, <2>3, <3>1, AppendSpares
    <3>4. Silent(wire, Mentioning(i)) => Silent(Append(wire, x), Mentioning(i))
      BY <1>0, <2>3, <3>1, AppendSpares
    <3> QED
      BY <2>2, <3>1, <3>2, <3>3, <3>4 DEF Current, Has
  <2> QED
    BY <2>6, <2>7
<1>5. CASE Connect \/ Disconnect \/ Boot \/ (\E i \in Item : PanelEdited(i))
  <2>1. ~registered'
    BY <1>5 DEF Connect, Disconnect, Boot, PanelEdited, Thorough, InTurn, IInv, TypeOK
  <2> QED
    BY <2>1 DEF UpToDate
<1>6. CASE SendNext \/ UNCHANGED vars
  <2>1. UNCHANGED <<panelStatus, listed, registered, wire, devices, shown>>
    BY <1>6 DEF SendNext, vars
  <2> QED
    BY <2>1 DEF UpToDate, Current, Carries, Silent, Has
<1> QED
  BY <1>1, <1>2, <1>3, <1>4, <1>5, <1>6 DEF Next

\* At rest, nothing is under way that the panel or the client still owes.
LEMMA RestHas ==
  ASSUME IInv, Owned, Thorough, UpToDate, panel = "orderly"
  PROVE  StatusIsPanels
<1> SUFFICES ASSUME link = "up", wire = <<>>, sent = Len(Requests), asked = <<>>,
                    NEW i \in listed \cap Reporting
             PROVE  /\ devices[i] = panelStatus[i]
                    /\ i \notin Excluded => i \in accessories /\ shown[i] = panelStatus[i]
  BY DEF StatusIsPanels, Reporting, IInv, TypeOK
<1>1. Answered = 5
  <2>1. Len(asked) = 0
    OBVIOUS
  <2> QED
    BY <2>1, RequestsAre DEF Answered
<1>2. Has(i)
  BY <1>1 DEF Thorough, InTurn, UpToDate, Current, Carries
<1>3. i \in Known
  <2>1. Told(wire, Known, i)
    BY <1>1 DEF Thorough, ListsFirst, ListOf
  <2> QED
    BY <2>1 DEF Told
<1> QED
  BY <1>2, <1>3 DEF Has, Owned

-----------------------------------------------------------------------------
(* Statuses in any order                                                   *)

\* Request n is still to be sent or to be answered.
Open(n) == n > sent \/ \E k \in 1..Len(asked) : asked[k] = Requests[n]

\* On the first connection of a boot each request is asked once.
AskedOnce ==
    /\ link = "down" => sent = 0 /\ wire = <<>>
    /\ \A k \in 1..Len(asked) : \E n \in 1..sent : asked[k] = Requests[n]
    /\ \A j, k \in 1..Len(asked) : asked[j] = asked[k] => j = k
    /\ registered <=> ~Open(5)

\* The messages that list i.
ListsOn(q, i) == {n \in DOMAIN q : q[n].type = "list" /\ i \in q[n].items}

\* So one message lists an item, and until it is handled the client knows of none.
ListedOnce ==
    \A i \in Item :
        /\ Open(ListOf(i)) => i \notin Known
        /\ Open(ListOf(i)) \/ i \in Known => ListsOn(wire, i) = {}
        /\ \A m, n \in ListsOn(wire, i) : m = n
        /\ i \in listed /\ ~Open(ListOf(i)) => i \in Known \/ ListsOn(wire, i) # {}

\* The status of an item without an object waits for its object.
Keeps(i) == IF i \in Known THEN Has(i) ELSE pending[i] = panelStatus[i]

Coming(i) ==
    \/ Carries(wire, Telling(i), i, panelStatus[i])
    \/ Silent(wire, Telling(i)) /\ Keeps(i)

\* Once the panel notifies the client, the last status of an item is on its way, or
\* has been kept: no list can undo it.
Arriving == registered => \A i \in listed \cap Reporting : Coming(i)

FirstSync == AskedOnce /\ ListedOnce /\ Arriving

LEMMA RequestsDiffer ==
  /\ \A m, n \in 1..5 : Requests[m] = Requests[n] => m = n
  /\ Requests[1] = "ZONES" /\ Requests[2] = "MULTI_TYPES" /\ Requests[5] = "REGISTER"
  BY DEF Requests

\* What is left of a sequence without its k-th element.
LEMMA WithoutElements ==
  ASSUME NEW T, NEW s \in Seq(T), NEW k \in 1..Len(s)
  PROVE  /\ Len(Without(s, k)) = Len(s) - 1
         /\ \A j \in 1..(Len(s) - 1) : Without(s, k)[j] = IF j < k THEN s[j] ELSE s[j + 1]
<1>1. Len(s) \in Nat /\ k \in Nat /\ k >= 1 /\ k <= Len(s)
  OBVIOUS
<1>2. /\ SubSeq(s, 1, k - 1) \in Seq(T) /\ Len(SubSeq(s, 1, k - 1)) = k - 1
      /\ \A j \in 1..(k - 1) : SubSeq(s, 1, k - 1)[j] = s[j]
  BY <1>1
<1>3. /\ SubSeq(s, k + 1, Len(s)) \in Seq(T) /\ Len(SubSeq(s, k + 1, Len(s))) = Len(s) - k
      /\ \A j \in 1..(Len(s) - k) : SubSeq(s, k + 1, Len(s))[j] = s[j + k]
  BY <1>1
<1> DEFINE a == SubSeq(s, 1, k - 1)
           b == SubSeq(s, k + 1, Len(s))
<1> HIDE DEF a, b
<1>4. /\ Len(a \o b) = Len(a) + Len(b)
      /\ \A j \in 1..(Len(a) + Len(b)) : (a \o b)[j] = IF j <= Len(a) THEN a[j] ELSE b[j - Len(a)]
      /\ Without(s, k) = a \o b
  BY <1>2, <1>3, ConcatProperties DEF Without, a, b
<1>5. /\ Len(a) = k - 1 /\ \A j \in 1..(k - 1) : a[j] = s[j]
      /\ Len(b) = Len(s) - k /\ \A j \in 1..(Len(s) - k) : b[j] = s[j + k]
  BY <1>2, <1>3 DEF a, b
<1>6. ASSUME NEW j \in 1..(Len(s) - 1)
      PROVE  Without(s, k)[j] = IF j < k THEN s[j] ELSE s[j + 1]
  <2>1. CASE j < k
    BY <1>1, <1>4, <1>5, <2>1
  <2>2. CASE ~(j < k)
    <3>1. Without(s, k)[j] = b[j - (k - 1)]
      BY <1>1, <1>4, <1>5, <2>2
    <3>2. j - (k - 1) \in 1..(Len(s) - k) /\ (j - (k - 1)) + k = j + 1
      BY <1>1, <2>2
    <3> QED
      BY <1>5, <2>2, <3>1, <3>2
  <2> QED
    BY <2>1, <2>2
<1> QED
  BY <1>1, <1>4, <1>5, <1>6

\* An answer closes its request and no other.
LEMMA AnswerCloses ==
  ASSUME IInv, AskedOnce, NEW k \in 1..Len(asked), Answer(k)
  PROVE  /\ AskedOnce'
         /\ \E n \in 1..5 : /\ asked[k] = Requests[n] /\ Open(n) /\ ~Open(n)'
                            /\ \A m \in 1..5 : m # n => (Open(m)' <=> Open(m))
<1>1. asked \in Seq(RequestName) /\ sent \in 0..5 /\ Len(asked) \in Nat
  BY RequestsAre DEF IInv, TypeOK
<1>2. asked' = Without(asked, k) /\ sent' = sent /\ link' = link
  BY DEF Answer
<1>3. /\ Len(asked') = Len(asked) - 1
      /\ \A j \in 1..Len(asked') : asked'[j] = IF j < k THEN asked[j] ELSE asked[j + 1]
  BY <1>1, <1>2, WithoutElements
<1>4. PICK n \in 1..5 : asked[k] = Requests[n] /\ n <= sent
  BY <1>1 DEF AskedOnce
<1>5. \A j \in 1..Len(asked') :
          \E h \in 1..Len(asked) : h # k /\ asked'[j] = asked[h] /\ h = IF j < k THEN j ELSE j + 1
  BY <1>1, <1>3
<1>6. \A h \in 1..Len(asked) : h # k => \E j \in 1..Len(asked') : asked'[j] = asked[h]
  <2> SUFFICES ASSUME NEW h \in 1..Len(asked), h # k
               PROVE  \E j \in 1..Len(asked') : asked'[j] = asked[h]
    OBVIOUS
  <2>1. CASE h < k
    BY <1>1, <1>3, <2>1
  <2>2. CASE h > k
    <3>1. h - 1 \in 1..Len(asked') /\ ~(h - 1 < k) /\ (h - 1) + 1 = h
      BY <1>1, <1>3, <2>2
    <3>2. asked'[h - 1] = asked[(h - 1) + 1]
      BY <1>3, <3>1
    <3> QED
      BY <3>1, <3>2
  <2> QED
    BY <1>1, <2>1, <2>2
<1>7. ~Open(n)'
  <2>1. \A j \in 1..Len(asked') : asked'[j] # Requests[n]
    BY <1>4, <1>5 DEF AskedOnce
  <2>2. ~(n > sent')
    BY <1>1, <1>2, <1>4
  <2> QED
    BY <2>1, <2>2 DEF Open
<1>8. \A m \in 1..5 : m # n => (Open(m)' <=> Open(m))
  BY <1>1, <1>2, <1>4, <1>5, <1>6, RequestsDiffer DEF Open
<1>9. Open(n)
  BY <1>4 DEF Open
<1>10. registered' <=> ~Open(5)'
  <2>1. CASE n = 5
    BY <1>4, <1>7, <2>1, RequestsDiffer DEF Answer
  <2>2. CASE n # 5
    <3>1. asked[k] # "REGISTER"
      BY <1>4, <2>2, RequestsDiffer
    <3>2. registered' = registered
      BY <3>1 DEF Answer
    <3> QED
      BY <1>8, <2>2, <3>2 DEF AskedOnce
  <2> QED
    BY <2>1, <2>2
<1>11. link # "down"
  BY <1>1, <1>4 DEF AskedOnce
<1>12. \A j, h \in 1..Len(asked') : asked'[j] = asked'[h] => j = h
  <2> SUFFICES ASSUME NEW j \in 1..Len(asked'), NEW h \in 1..Len(asked'), asked'[j] = asked'[h]
               PROVE  j = h
    OBVIOUS
  <2>1. PICK a \in 1..Len(asked) : asked'[j] = asked[a] /\ a = IF j < k THEN j ELSE j + 1
    BY <1>5
  <2>2. PICK b \in 1..Len(asked) : asked'[h] = asked[b] /\ b = IF h < k THEN h ELSE h + 1
    BY <1>5
  <2>3. a = b
    BY <2>1, <2>2 DEF AskedOnce
  <2> QED
    BY <1>1, <1>3, <2>1, <2>2, <2>3
<1>13. \A j \in 1..Len(asked') : \E m \in 1..sent' : asked'[j] = Requests[m]
  BY <1>2, <1>5 DEF AskedOnce
<1> QED
  BY <1>2, <1>4, <1>7, <1>8, <1>9, <1>10, <1>11, <1>12, <1>13 DEF AskedOnce

\* Sending a request leaves it open.
LEMMA SendLeavesOpen ==
  ASSUME IInv, AskedOnce, SendNext
  PROVE  AskedOnce' /\ \A n \in 1..5 : Open(n)' <=> Open(n)
<1>1. asked \in Seq(RequestName) /\ sent \in 0..5 /\ Len(asked) \in Nat /\ link = "up"
  BY RequestsAre DEF IInv, TypeOK, SendNext
<1>2. /\ sent' = sent + 1 /\ asked' = Append(asked, Requests[sent + 1]) /\ sent + 1 \in 1..5
      /\ UNCHANGED <<link, registered, wire>>
  BY <1>1, RequestsAre DEF SendNext
<1>3. /\ Len(asked') = Len(asked) + 1 /\ asked'[Len(asked) + 1] = Requests[sent + 1]
      /\ \A n \in 1..Len(asked) : asked'[n] = asked[n]
  BY <1>1, <1>2, RequestsAre
<1>4. \A k \in 1..Len(asked') :
          (k \in 1..Len(asked) /\ asked'[k] = asked[k])
          \/ (k = Len(asked) + 1 /\ asked'[k] = Requests[sent + 1])
  BY <1>1, <1>3
<1>5. \A k \in 1..Len(asked) : asked[k] # Requests[sent + 1]
  <2> SUFFICES ASSUME NEW k \in 1..Len(asked), asked[k] = Requests[sent + 1] PROVE FALSE
    OBVIOUS
  <2>1. PICK n \in 1..sent : asked[k] = Requests[n]
    BY DEF AskedOnce
  <2>2. n \in 1..5 /\ n # sent + 1
    BY <1>1
  <2> QED
    BY <1>2, <2>1, <2>2, RequestsDiffer
<1>6. \A j, k \in 1..Len(asked') : asked'[j] = asked'[k] => j = k
  BY <1>1, <1>3, <1>4, <1>5 DEF AskedOnce
<1>7. \A k \in 1..Len(asked') : \E n \in 1..sent' : asked'[k] = Requests[n]
  <2> SUFFICES ASSUME NEW k \in 1..Len(asked') PROVE \E n \in 1..sent' : asked'[k] = Requests[n]
    OBVIOUS
  <2>1. CASE k = Len(asked) + 1
    BY <1>1, <1>2, <1>3, <2>1
  <2>2. CASE k # Len(asked) + 1
    <3>1. k \in 1..Len(asked) /\ asked'[k] = asked[k]
      BY <1>4, <2>2
    <3>2. PICK n \in 1..sent : asked[k] = Requests[n]
      BY <3>1 DEF AskedOnce
    <3>3. n \in 1..sent'
      BY <1>1, <1>2
    <3> QED
      BY <3>1, <3>2, <3>3
  <2> QED
    BY <2>1, <2>2
<1>8. \A n \in 1..5 : Open(n)' <=> Open(n)
  <2> SUFFICES ASSUME NEW n \in 1..5 PROVE Open(n)' <=> Open(n)
    OBVIOUS
  <2>1. CASE n = sent + 1
    BY <1>1, <1>2, <1>3, <2>1 DEF Open
  <2>2. CASE n # sent + 1
    <3>1. n > sent' <=> n > sent
      BY <1>1, <1>2, <2>2
    <3>2. (\E k \in 1..Len(asked') : asked'[k] = Requests[n])
             <=> \E k \in 1..Len(asked) : asked[k] = Requests[n]
      BY <1>1, <1>2, <1>3, <1>4, <2>2, RequestsDiffer
    <3> QED
      BY <3>1, <3>2 DEF Open
  <2> QED
    BY <2>1, <2>2
<1> QED
  BY <1>1, <1>2, <1>6, <1>7, <1>8 DEF AskedOnce

LEMMA AppendLists ==
  ASSUME NEW q \in Seq(Message), NEW x \in Message, NEW i
  PROVE  ListsOn(Append(q, x), i) =
             ListsOn(q, i) \cup {n \in {Len(q) + 1} : x.type = "list" /\ i \in x.items}
<1>1. /\ DOMAIN Append(q, x) = 1..(Len(q) + 1) /\ DOMAIN q = 1..Len(q) /\ Len(q) \in Nat
      /\ \A m \in DOMAIN q : Append(q, x)[m] = q[m]
      /\ Append(q, x)[Len(q) + 1] = x
  OBVIOUS
<1>2. DOMAIN Append(q, x) = DOMAIN q \cup {Len(q) + 1} /\ Len(q) + 1 \notin DOMAIN q
  BY <1>1
<1> QED
  BY <1>1, <1>2 DEF ListsOn

LEMMA TailLists ==
  ASSUME NEW q \in Seq(Message), q # <<>>, NEW i
  PROVE  /\ \A n \in ListsOn(Tail(q), i) : n + 1 \in ListsOn(q, i) /\ n \in Nat \ {0}
         /\ \A n \in ListsOn(q, i) :
               (n = 1 /\ Head(q).type = "list" /\ i \in Head(q).items) \/ n - 1 \in ListsOn(Tail(q), i)
         /\ Head(q).type = "list" /\ i \in Head(q).items => 1 \in ListsOn(q, i)
<1>1. /\ DOMAIN Tail(q) = 1..(Len(q) - 1) /\ DOMAIN q = 1..Len(q) /\ Len(q) \in Nat /\ Len(q) >= 1
      /\ \A m \in DOMAIN Tail(q) : Tail(q)[m] = q[m + 1]
      /\ Head(q) = q[1]
  OBVIOUS
<1>2. ASSUME NEW n \in ListsOn(q, i)
      PROVE  (n = 1 /\ Head(q).type = "list" /\ i \in Head(q).items) \/ n - 1 \in ListsOn(Tail(q), i)
  <2>1. CASE n = 1
    BY <1>1, <2>1 DEF ListsOn
  <2>2. CASE n # 1
    <3>1. n - 1 \in DOMAIN Tail(q) /\ Tail(q)[n - 1] = q[n]
      BY <1>1, <2>2 DEF ListsOn
    <3> QED
      BY <3>1 DEF ListsOn
  <2> QED
    BY <2>1, <2>2
<1>3. ASSUME NEW n \in ListsOn(Tail(q), i) PROVE n + 1 \in ListsOn(q, i) /\ n \in Nat \ {0}
  <2>1. n \in 1..(Len(q) - 1) /\ Tail(q)[n] = q[n + 1] /\ n + 1 \in DOMAIN q
    BY <1>1 DEF ListsOn
  <2> QED
    BY <1>1, <2>1 DEF ListsOn
<1>4. Head(q).type = "list" /\ i \in Head(q).items => 1 \in ListsOn(q, i)
  BY <1>1 DEF ListsOn
<1> QED
  BY <1>2, <1>3, <1>4

\* A message is handled: its list was the only one of its items.
LEMMA HandledLists ==
  ASSUME IInv, ListedOnce, wire # <<>>, wire' = Tail(wire), UNCHANGED <<listed, sent, asked>>,
         NEW L, Known' = Known \cup L,
         L = IF Head(wire).type = "list" THEN Head(wire).items ELSE {}
  PROVE  ListedOnce' /\ L \cap Known = {}
<1>1. wire \in Seq(Message) /\ \A n \in 1..5 : Open(n)' <=> Open(n)
  BY DEF IInv, TypeOK, Open
<1>2. ASSUME NEW i \in Item
      PROVE  /\ i \notin L \/ i \notin Known
             /\ (Open(ListOf(i)) => i \notin Known')
             /\ (Open(ListOf(i)) \/ i \in Known' => ListsOn(wire', i) = {})
             /\ (\A m, n \in ListsOn(wire', i) : m = n)
             /\ (i \in listed /\ ~Open(ListOf(i)) => i \in Known' \/ ListsOn(wire', i) # {})
  <2> DEFINE A == ListsOn(wire, i)
             B == ListsOn(Tail(wire), i)
  <2> HIDE DEF A, B
  <2>1. /\ \A n \in B : n + 1 \in A /\ n \in Nat \ {0}
        /\ \A n \in A : (n = 1 /\ i \in L) \/ n - 1 \in B
        /\ i \in L => 1 \in A
    BY <1>1, TailLists DEF A, B
  <2>2. /\ Open(ListOf(i)) => i \notin Known
        /\ Open(ListOf(i)) \/ i \in Known => A = {}
        /\ \A m, n \in A : m = n
        /\ i \in listed /\ ~Open(ListOf(i)) => i \in Known \/ A # {}
    BY DEF ListedOnce, A
  <2>3. \A m, n \in B : m = n
    BY <2>1, <2>2
  <2>4. i \in L => B = {}
    BY <2>1, <2>2
  <2>5. A = {} => B = {}
    BY <2>1
  <2>6. A # {} => i \in L \/ B # {}
    BY <2>1
  <2>7. wire' = Tail(wire)
    OBVIOUS
  <2> QED
    BY <2>1, <2>2, <2>3, <2>4, <2>5, <2>6, <2>7 DEF B
<1>3. \A i \in Item : ListOf(i) \in 1..5
  BY DEF ListOf
<1>4. L \cap Known = {}
  <2>1. L \subseteq Item
    BY HeadValues
  <2> QED
    BY <1>2, <2>1
<1> QED
  BY <1>1, <1>2, <1>3, <1>4 DEF ListedOnce

\* An answer that lists i closes the one request for it.
LEMMA AnswerLists ==
  ASSUME IInv, AskedOnce, ListedOnce, panel = "reordering", NEW k \in 1..Len(asked), Answer(k)
  PROVE  ListedOnce'
<1>1. PICK n \in 1..5 : /\ asked[k] = Requests[n] /\ Open(n) /\ ~Open(n)'
                        /\ \A m \in 1..5 : m # n => (Open(m)' <=> Open(m))
  BY AnswerCloses
<1>2. wire \in Seq(Message) /\ listed \in SUBSET Item /\ Known' = Known /\ listed' = listed
  BY DEF Answer, panelVars, clientVars, Known, IInv, TypeOK
<1>3. \A i \in Item : ListOf(i) \in {1, 2}
  BY DEF ListOf
<1>4. CASE n \in {1, 2}
  <2>1. PICK L : L = listed \cap About(asked[k])
    OBVIOUS
  <2>2. asked[k] \in {"ZONES", "MULTI_TYPES"}
    BY <1>1, <1>4, RequestsDiffer
  <2>3. wire' = Append(wire, List(L)) /\ L \in SUBSET Item
    BY <1>2, <2>1, <2>2 DEF Answer
  <2>4. PICK x : x = List(L)
    OBVIOUS
  <2>5. x \in Message /\ x.type = "list" /\ x.items = L
    BY <2>3, <2>4, ListSendable DEF List, Sendable
  <2>6. \A i \in Item : i \in L <=> i \in listed /\ ListOf(i) = n
    BY <1>1, <1>4, <2>1, RequestsDiffer DEF About, ListOf
  <2>7. ASSUME NEW i \in Item
        PROVE  ListsOn(wire', i) = ListsOn(wire, i) \cup {m \in {Len(wire) + 1} : i \in L}
    BY <1>2, <2>3, <2>4, <2>5, AppendLists
  <2> QED
    BY <1>1, <1>2, <1>3, <2>6, <2>7 DEF ListedOnce
<1>5. CASE n \notin {1, 2}
  <2>1. asked[k] \notin {"ZONES", "MULTI_TYPES"} /\ asked[k] \in RequestName
    BY <1>1, <1>5, RequestsDiffer, RequestsAre
  <2>2. PICK S : S = Now(listed \cap About(asked[k]))
    OBVIOUS
  <2>3. PICK x : x \in {Statuses(S), Snapshot(S)} /\ wire' = Append(wire, x)
    BY <2>1, <2>2 DEF Answer
  <2>4. x \in Message /\ x.type # "list"
    <3>1. Statuses(S) \in Message /\ Snapshot(S) \in Message
      BY <2>1, <2>2, NowSendable DEF Sendable, IInv
    <3> QED
      BY <2>3, <3>1 DEF Statuses, Snapshot
  <2>5. ASSUME NEW i \in Item PROVE ListsOn(wire', i) = ListsOn(wire, i)
    <3>1. ListsOn(Append(wire, x), i) =
              ListsOn(wire, i) \cup {m \in {Len(wire) + 1} : x.type = "list" /\ i \in x.items}
      BY <1>2, <2>4, AppendLists
    <3>2. wire' = Append(wire, x)
      BY <2>3
    <3> QED
      BY <2>4, <3>1, <3>2
  <2>6. \A i \in Item : Open(ListOf(i))' <=> Open(ListOf(i))
    BY <1>1, <1>3, <1>5
  <2> QED
    BY <1>2, <2>5, <2>6 DEF ListedOnce
<1> QED
  BY <1>4, <1>5

\* A new object takes the status that waits for it.
LEMMA ListKeeps ==
  ASSUME IInv, NEW L \in SUBSET Item, Discover(L), UNCHANGED panelStatus,
         NEW i \in Reporting, i \notin L \cap Known, Keeps(i)
  PROVE  Keeps(i)'
<1>1. i \in Item /\ panelStatus[i] \in Status /\ KindOf[i] \in {"zone", "output", "sensor"}
  BY DEF Reporting, IInv, TypeOK
<1>2. Known' = Known \cup L
  BY DiscoverKnows
<1>3. CASE i \in L
  <2>1. pending[i] = panelStatus[i]
    BY <1>3 DEF Keeps
  <2>2. FirstStatus(i) = panelStatus[i]
    BY <1>1, <2>1 DEF FirstStatus, Waits
  <2>3. i \notin Excluded => ShownAfter(i) = panelStatus[i]
    BY <1>1, <2>2 DEF ShownAfter
  <2> QED
    BY <1>1, <1>2, <1>3, <2>2, <2>3 DEF Discover, Keeps, Has
<1>4. CASE i \notin L
  BY <1>1, <1>2, <1>4 DEF Discover, TakePending, Keeps, Has
<1> QED
  BY <1>3, <1>4

\* A status reaches the object or waits for it.
LEMMA StatusKeeps ==
  ASSUME IInv, Owned, NEW D \in SUBSET Item, NEW S \in [D -> Status], Apply(S),
         UNCHANGED panelStatus, NEW i \in Reporting,
         IF i \in D THEN S[i] = panelStatus[i] ELSE Keeps(i)
  PROVE  Keeps(i)'
<1>1. i \in Item /\ DOMAIN S = D
  BY DEF Reporting
<1>2. Known' = Known
  BY ApplyKnows
<1>3. CASE i \in Known
  BY <1>2, <1>3, ApplyReaches DEF Keeps, Has
<1>4. CASE i \notin Known
  <2>1. ~Matches(i)
    BY <1>1, <1>4 DEF Known, Matches, OutputMatches, SensorMatches, ZoneMatches
  <2> QED
    BY <1>1, <1>2, <1>4, <2>1 DEF Apply, Keeps
<1> QED
  BY <1>3, <1>4

\* A message handled had the last status of i, or leaves it on its way, or has none.
LEMMA HandledComes ==
  ASSUME IInv, wire # <<>>, wire' = Tail(wire), UNCHANGED panelStatus, NEW i, Coming(i),
         Head(wire) \in Telling(i) /\ Head(wire).values[i] = panelStatus[i] => Keeps(i)',
         Head(wire) \notin Telling(i) /\ Keeps(i) => Keeps(i)'
  PROVE  Coming(i)'
<1>1. wire \in Seq(Message) /\ Head(wire) \in Message
  BY HeadValues DEF IInv, TypeOK
<1>2. CASE Carries(wire, Telling(i), i, panelStatus[i])
  <2>1. \/ Carries(Tail(wire), Telling(i), i, panelStatus[i])
        \/ /\ Silent(Tail(wire), Telling(i))
           /\ Head(wire).type # "list" /\ i \in DOMAIN Head(wire).values
           /\ Head(wire).values[i] = panelStatus[i]
    BY <1>1, <1>2, TailCarries
  <2> QED
    BY <1>1, <2>1 DEF Telling, Coming
<1>3. CASE Silent(wire, Telling(i)) /\ Keeps(i)
  <2>1. Silent(Tail(wire), Telling(i)) /\ Head(wire) \notin Telling(i)
    BY <1>1, <1>3, TailSilent
  <2> QED
    BY <1>3, <2>1 DEF Coming
<1> QED
  BY <1>2, <1>3 DEF Coming

\* A message is added: it carries the status of i, or none and that of i stays.
LEMMA AddedComes ==
  ASSUME IInv, NEW x \in Message, wire' = Append(wire, x), UNCHANGED <<devices, pending, shown>>,
         NEW i,
         IF x \in Telling(i) THEN x.values[i] = panelStatus'[i]
                             ELSE Coming(i) /\ panelStatus'[i] = panelStatus[i]
  PROVE  Coming(i)'
<1>1. wire \in Seq(Message)
  BY DEF IInv, TypeOK
<1>2. CASE x \in Telling(i)
  <2>1. x.type # "list" /\ i \in DOMAIN x.values
    BY <1>2 DEF Telling
  <2>2. Carries(Append(wire, x), Telling(i), i, x.values[i])
    BY <1>1, <2>1, AppendCarries
  <2> QED
    BY <1>2, <2>2 DEF Coming
<1>3. CASE x \notin Telling(i)
  <2>1. Carries(wire, Telling(i), i, panelStatus[i]) =>
          Carries(Append(wire, x), Telling(i), i, panelStatus[i])
    BY <1>1, <1>3, AppendSpares
  <2>2. Silent(wire, Telling(i)) => Silent(Append(wire, x), Telling(i))
    BY <1>1, <1>3, AppendSpares
  <2>3. Keeps(i) /\ panelStatus'[i] = panelStatus[i] => Keeps(i)'
    BY DEF Keeps, Known, Has
  <2> QED
    BY <1>3, <2>1, <2>2, <2>3 DEF Coming
<1> QED
  BY <1>2, <1>3

\* What an answer says of i is its status.
LEMMA AnswerComes ==
  ASSUME IInv, AskedOnce, Arriving, panel = "reordering", NEW k \in 1..Len(asked), Answer(k)
  PROVE  Arriving'
<1> SUFFICES ASSUME registered', NEW i \in listed' \cap Reporting
             PROVE  Coming(i)'
  BY DEF Arriving
<1>1. asked[k] \in RequestName /\ listed \in SUBSET Item
  BY RequestsAre DEF IInv, TypeOK
<1>2. /\ UNCHANGED <<panelStatus, listed, devices, pending, shown>>
      /\ i \in listed /\ i \in Reporting
  BY DEF Answer, panelVars, clientVars, homeVars
<1>3. asked[k] # "REGISTER" => Coming(i)
  BY <1>2 DEF Answer, Arriving
<1>4. PICK here : here = listed \cap About(asked[k])
  OBVIOUS
<1>5. CASE asked[k] \in {"ZONES", "MULTI_TYPES"}
  <2>1. PICK x : x = List(here)
    OBVIOUS
  <2>2. wire' = Append(wire, x)
    BY <1>4, <1>5, <2>1 DEF Answer
  <2>3. x \in Message /\ x \notin Telling(i)
    BY <1>1, <1>4, <2>1, ListSendable DEF List, Sendable, Telling
  <2> QED
    BY <1>2, <1>3, <1>5, <2>2, <2>3, AddedComes
<1>6. CASE asked[k] \notin {"ZONES", "MULTI_TYPES"}
  <2>1. PICK S : S = Now(here)
    OBVIOUS
  <2>2. PICK x : /\ x = IF asked[k] = "REGISTER" THEN Snapshot(S) ELSE Statuses(S)
                 /\ wire' = Append(wire, x)
    BY <1>4, <1>6, <2>1 DEF Answer
  <2>3. x \in Message
    BY <1>1, <1>4, <1>6, <2>1, <2>2, NowSendable DEF Sendable, IInv
  <2>4. x.values = S /\ DOMAIN S = here /\ \A j \in here : S[j] = panelStatus[j]
    BY <2>1, <2>2 DEF Statuses, Snapshot, Now
  <2>5. asked[k] = "REGISTER" => x \in Telling(i)
    <3>1. asked[k] = "REGISTER" => i \in here
      BY <1>2, <1>4 DEF About, Reporting
    <3>2. x.type # "list"
      BY <2>2 DEF Statuses, Snapshot
    <3> QED
      BY <2>3, <2>4, <3>1, <3>2 DEF Telling
  <2>6. x \in Telling(i) => x.values[i] = panelStatus'[i]
    BY <1>2, <2>4 DEF Telling
  <2> QED
    BY <1>2, <1>3, <2>2, <2>3, <2>5, <2>6, AddedComes
<1> QED
  BY <1>5, <1>6

LEMMA ChangeComes ==
  ASSUME IInv, Arriving, NEW j \in Item, NEW v \in Status, PanelChanges(j, v)
  PROVE  Arriving'
<1> SUFFICES ASSUME registered', NEW i \in listed' \cap Reporting
             PROVE  Coming(i)'
  BY DEF Arriving
<1>1. PICK x : x = Statuses([n \in {j} |-> v])
  OBVIOUS
<1>2. /\ wire' = Append(wire, x) /\ UNCHANGED <<listed, registered, devices, pending, shown>>
      /\ panelStatus' = [panelStatus EXCEPT ![j] = v] /\ KindOf[j] # "scenario"
  BY <1>1 DEF PanelChanges, clientVars, homeVars
<1>3. x \in Message
  <2>1. {j} \in SUBSET Item /\ [n \in {j} |-> v] \in [{j} -> Status]
    OBVIOUS
  <2> QED
    BY <1>1, <1>2, <2>1, StatusSendable DEF Sendable
<1>4. x.type # "list" /\ DOMAIN x.values = {j} /\ x.values[j] = v
  BY <1>1 DEF Statuses
<1>5. Coming(i) /\ panelStatus \in [Item -> Status]
  BY <1>2 DEF Arriving, IInv, TypeOK
<1>6. IF x \in Telling(i) THEN x.values[i] = panelStatus'[i]
                          ELSE Coming(i) /\ panelStatus'[i] = panelStatus[i]
  BY <1>2, <1>3, <1>4, <1>5 DEF Telling
<1> QED
  BY <1>2, <1>3, <1>6, AddedComes

\* A boot leaves nothing known and nothing under way.
LEMMA NothingYet ==
  ASSUME sent = 0, asked = <<>>, wire = <<>>, ~registered, Known = {}
  PROVE  FirstSync
<1>1. Len(asked) = 0 /\ \A n \in 1..5 : Open(n)
  BY DEF Open
<1>2. \A i \in Item : ListsOn(wire, i) = {} /\ ListOf(i) \in 1..5
  BY DEF ListsOn, ListOf
<1> QED
  BY <1>1, <1>2 DEF FirstSync, AskedOnce, ListedOnce, Arriving

LEMMA FirstSyncNext ==
  ASSUME IInv, Owned, panel = "reordering", [Next]_vars,
         ~reconnected => FirstSync, ~reconnected'
  PROVE  FirstSync'
<1> USE DEF panelVars, linkVars, clientVars, homeVars
<1>1. CASE Boot
  <2>1. /\ sent' = 0 /\ asked' = <<>> /\ wire' = <<>> /\ ~registered' /\ Known' = {}
    BY <1>1 DEF Boot, Known
  <2>2. Len(asked') = 0 /\ \A n \in 1..5 : Open(n)'
    BY <2>1 DEF Open
  <2>3. \A i \in Item : ListsOn(wire', i) = {} /\ ListOf(i) \in 1..5
    BY <2>1 DEF ListsOn, ListOf
  <2> QED
    BY <2>1, <2>2, <2>3 DEF FirstSync, AskedOnce, ListedOnce, Arriving
<1> SUFFICES ASSUME ~Boot PROVE FirstSync'
  BY <1>1
<1>2. ~Disconnect
  BY DEF Disconnect
<1>3. FirstSync
  <2>1. reconnected' = reconnected
    BY <1>2 DEF Next, Connect, SendNext, HandleList, HandleStatus, HandleSnapshot, Answer,
                PanelEdited, PanelChanges, vars
  <2> QED
    BY <2>1, Zenon
<1>4. wire \in Seq(Message) /\ sent \in 0..5
  BY RequestsAre DEF IInv, TypeOK
<1>5. \A i \in Item : ListOf(i) \in 1..5
  BY DEF ListOf
<1>6. CASE UNCHANGED <<panelStatus, sent, asked, wire, devices, shown, registered>>
           /\ (UNCHANGED <<link, listed, pending>> \/ link = "down")
  <2>1. CASE UNCHANGED <<link, listed, pending>>
    BY <1>3, <1>6, <2>1 DEF FirstSync, AskedOnce, ListedOnce, Arriving, Open, Known, ListsOn,
                            Coming, Carries, Silent, Keeps, Has
  <2>2. CASE link = "down"
    <3>1. sent = 0 /\ wire = <<>> /\ ~registered
      <4>1. sent = 0 /\ wire = <<>> /\ (registered <=> ~Open(5))
        BY <1>3, <2>2 DEF FirstSync, AskedOnce
      <4> QED
        BY <4>1 DEF Open
    <3>2. \A n \in 1..5 : Open(n) /\ Open(n)'
      BY <1>6, <3>1 DEF Open
    <3>3. AskedOnce'
      BY <1>3, <1>6, <3>1, <3>2 DEF FirstSync, AskedOnce
    <3>4. ListedOnce'
      BY <1>3, <1>5, <1>6, <3>2 DEF FirstSync, ListedOnce, Known, ListsOn
    <3>5. Arriving'
      BY <1>6, <3>1 DEF Arriving
    <3> QED
      BY <3>3, <3>4, <3>5 DEF FirstSync
  <2> QED
    BY <1>6, <2>1, <2>2
<1>7. CASE Connect \/ (\E i \in Item : PanelEdited(i)) \/ UNCHANGED vars
  <2>1. sent = 0 \/ link # "down"
    BY <1>3 DEF FirstSync, AskedOnce
  <2> QED
    BY <1>6, <1>7, <2>1 DEF Connect, PanelEdited, vars
<1>8. CASE SendNext
  <2>1. AskedOnce' /\ \A n \in 1..5 : Open(n)' <=> Open(n)
    BY <1>3, <1>8, SendLeavesOpen DEF FirstSync
  <2>2. UNCHANGED <<panelStatus, listed, registered, wire, devices, pending, shown>>
    BY <1>8 DEF SendNext
  <2>3. ListedOnce'
    BY <1>3, <1>5, <2>1, <2>2 DEF FirstSync, ListedOnce, Known, ListsOn
  <2>4. Arriving'
    BY <1>3, <2>2 DEF FirstSync, Arriving, Coming, Carries, Silent, Keeps, Has, Known
  <2> QED
    BY <2>1, <2>3, <2>4 DEF FirstSync
<1>9. ASSUME NEW k \in 1..Len(asked), Answer(k) PROVE FirstSync'
  BY <1>3, <1>9, AnswerCloses, AnswerLists, AnswerComes DEF FirstSync
<1>10. ASSUME NEW j \in Item, NEW v \in Status, PanelChanges(j, v) PROVE FirstSync'
  <2>1. Arriving'
    BY <1>3, <1>10, ChangeComes DEF FirstSync
  <2>2. /\ UNCHANGED <<listed, registered, link, sent, asked, devices>>
        /\ \/ wire' = wire
           \/ wire' = Append(wire, Statuses([n \in {j} |-> v])) /\ registered
    BY <1>10 DEF PanelChanges
  <2>3. ~Open(5) => link # "down"
    BY <1>3, <1>4 DEF FirstSync, AskedOnce, Open
  <2>4. AskedOnce'
    BY <1>3, <2>2, <2>3 DEF FirstSync, AskedOnce, Open
  <2>5. \A i \in Item : ListsOn(wire', i) = ListsOn(wire, i)
    <3>1. PICK x : x = Statuses([n \in {j} |-> v])
      OBVIOUS
    <3>2. x \in Message /\ x.type # "list"
      <4>1. KindOf[j] # "scenario" /\ {j} \in SUBSET Item /\ [n \in {j} |-> v] \in [{j} -> Status]
        BY <1>10 DEF PanelChanges
      <4>2. Statuses([n \in {j} |-> v]) \in Message
        BY <4>1, StatusSendable DEF Sendable
      <4> QED
        BY <3>1, <4>2 DEF Statuses
    <3>3. ASSUME NEW i \in Item PROVE ListsOn(Append(wire, x), i) = ListsOn(wire, i)
      <4>1. ListsOn(Append(wire, x), i) =
                ListsOn(wire, i) \cup {n \in {Len(wire) + 1} : x.type = "list" /\ i \in x.items}
        BY <1>4, <3>2, AppendLists
      <4> QED
        BY <3>2, <4>1
    <3> QED
      BY <2>2, <3>1, <3>3
  <2>6. ListedOnce'
    BY <1>3, <1>5, <2>2, <2>5 DEF FirstSync, ListedOnce, Known, Open
  <2> QED
    BY <2>1, <2>4, <2>6 DEF FirstSync
<1>11. CASE HandleList \/ HandleStatus \/ HandleSnapshot
  <2>1. /\ wire # <<>> /\ wire' = Tail(wire)
        /\ UNCHANGED <<panelStatus, listed, registered, link, sent, asked>>
    BY <1>11 DEF HandleList, HandleStatus, HandleSnapshot
  <2>2. Head(wire) \in Message /\ Head(wire).items \in SUBSET Item
    BY <2>1, HeadValues
  <2>3. PICK L : L = IF Head(wire).type = "list" THEN Head(wire).items ELSE {}
    OBVIOUS
  <2>4. Known' = Known \cup L
    <3>1. CASE HandleList
      BY <2>2, <2>3, <3>1, DiscoverKnows DEF HandleList
    <3>2. CASE HandleStatus \/ HandleSnapshot
      <4>1. L = {} /\ Apply(Head(wire).values)
        BY <2>3, <3>2 DEF HandleStatus, HandleSnapshot
      <4>2. PICK D \in SUBSET Item : Head(wire).values \in [D -> Status]
        BY <2>1, HeadValues
      <4> QED
        BY <4>1, <4>2, ApplyKnows
    <3> QED
      BY <1>11, <3>1, <3>2
  <2>5. ListedOnce' /\ L \cap Known = {}
    BY <1>3, <2>1, <2>3, <2>4, HandledLists DEF FirstSync
  <2>6. AskedOnce'
    <3>1. link # "down"
      BY <1>3, <2>1 DEF FirstSync, AskedOnce
    <3> QED
      BY <1>3, <2>1, <3>1 DEF FirstSync, AskedOnce, Open
  <2>7. Arriving'
    <3> SUFFICES ASSUME registered', NEW i \in listed' \cap Reporting
                 PROVE  Coming(i)'
      BY DEF Arriving
    <3>1. Coming(i) /\ i \in Reporting
      BY <1>3, <2>1 DEF FirstSync, Arriving
    <3>2. CASE HandleList
      <4>1. Head(wire) \notin Telling(i) /\ Discover(Head(wire).items) /\ L = Head(wire).items
        BY <2>3, <3>2 DEF HandleList, Telling
      <4>2. Keeps(i) => Keeps(i)'
        BY <2>1, <2>2, <2>5, <3>1, <4>1, ListKeeps
      <4> QED
        BY <2>1, <3>1, <4>1, <4>2, HandledComes
    <3>3. CASE HandleStatus \/ HandleSnapshot
      <4>1. PICK D \in SUBSET Item : Head(wire).values \in [D -> Status]
        BY <2>1, HeadValues
      <4>2. Apply(Head(wire).values) /\ Head(wire).type # "list"
        BY <3>3 DEF HandleStatus, HandleSnapshot
      <4>3. Head(wire) \in Telling(i) <=> i \in D
        BY <2>2, <4>1, <4>2 DEF Telling
      <4>4. (IF i \in D THEN Head(wire).values[i] = panelStatus[i] ELSE Keeps(i)) => Keeps(i)'
        BY <2>1, <3>1, <4>1, <4>2, StatusKeeps
      <4> QED
        BY <2>1, <3>1, <4>3, <4>4, HandledComes
    <3> QED
      BY <1>11, <3>2, <3>3
  <2> QED
    BY <2>5, <2>6, <2>7 DEF FirstSync
<1> QED
  BY <1>2, <1>7, <1>8, <1>9, <1>10, <1>11 DEF Next

\* At rest every request is answered, and what was kept is what the panel has.
LEMMA RestKeeps ==
  ASSUME IInv, Owned, FirstSync, panel = "reordering"
  PROVE  StatusIsPanels
<1> SUFFICES ASSUME wire = <<>>, sent = Len(Requests), asked = <<>>,
                    NEW i \in listed \cap Reporting
             PROVE  /\ devices[i] = panelStatus[i]
                    /\ i \notin Excluded => i \in accessories /\ shown[i] = panelStatus[i]
  BY DEF StatusIsPanels, Reporting, IInv, TypeOK
<1>1. \A n \in 1..5 : ~Open(n)
  <2>1. Len(asked) = 0
    OBVIOUS
  <2> QED
    BY <2>1, RequestsAre DEF Open
<1>2. i \in Item /\ i \in listed /\ ListOf(i) \in 1..5
  BY DEF Reporting, ListOf
<1>3. i \in Known
  BY <1>1, <1>2 DEF FirstSync, ListedOnce, ListsOn
<1>4. Has(i)
  BY <1>1, <1>3 DEF FirstSync, AskedOnce, Arriving, Coming, Carries, Keeps
<1> QED
  BY <1>2, <1>3, <1>4 DEF Has, Owned

\* Each connection replaces the device objects by new ones with default statuses, and
\* after its sync every device and its accessory has the panel's status again
\* (requestSystemData, StatusUpdater, AccessoryRegistry), if the panel answers in turn;
\* on the first connection of a boot, whatever order it answers in.
THEOREM StatusCorrect == Spec => []StatusIsPanels
<1> DEFINE Orderly    == panel = "orderly" => Thorough /\ UpToDate
           Reordering == panel = "reordering" /\ ~reconnected => FirstSync
<1>1. Init => Orderly /\ Reordering
  <2>1. Init => Orderly
    BY RequestsAre DEF Init, Thorough, InTurn, ListsFirst, Answered, UpToDate
  <2>2. Init => FirstSync
    BY NothingYet DEF Init, Known
  <2> QED
    BY <2>1, <2>2
<1>2. IInv /\ IInv' /\ Owned /\ Orderly /\ Reordering /\ [Next]_vars => Orderly' /\ Reordering'
  <2>1. [Next]_vars => panel' = panel
    BY DEF Next, Connect, SendNext, Disconnect, Boot, HandleList, HandleStatus, HandleSnapshot,
           Answer, PanelEdited, PanelChanges, panelVars, vars
  <2> QED
    BY <2>1, ThoroughNext, UpToDateNext, FirstSyncNext
<1>3. IInv /\ Owned /\ Orderly /\ Reordering => StatusIsPanels
  <2>1. panel \notin {"orderly", "reordering"} => StatusIsPanels
    BY DEF StatusIsPanels
  <2>2. panel = "reordering" /\ reconnected => StatusIsPanels
    BY DEF StatusIsPanels
  <2> QED
    BY <2>1, <2>2, RestHas, RestKeeps
<1> QED
  BY <1>1, <1>2, <1>3, InitType, StepType, InitOwned, StepOwned, PTL DEF Spec

=============================================================================
