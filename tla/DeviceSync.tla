------------------------------ MODULE DeviceSync ------------------------------
(***************************************************************************)
(* From the panel's lists and statuses to the accessories of HomeKit:      *)
(* MessageService and StatusUpdater (websocket-client/), the router        *)
(* (websocket/protocol-router.ts), the platform's handlers                 *)
(* (platform/index.ts) and AccessoryRegistry (platform/).                  *)
(*                                                                         *)
(* After each login the client asks for its lists, then for the statuses,  *)
(* and last registers for real-time notifications; it waits for no answer. *)
(* Each list makes new device objects with default statuses.  The answer   *)
(* to the registration completes the sync, and a completed sync prunes     *)
(* the accessories that no list of this boot has named.                    *)
(***************************************************************************)
EXTENDS Naturals, Sequences

CONSTANTS
    Item,            \* zones, outputs, sensors and scenarios of the panel
    KindOf,          \* what each of them is
    Excluded,        \* the items the configuration excludes
    None,            \* undefined
    Status,          \* statuses, of which a new device object has Default
    Default,
    WireBound,       \* messages of the panel under way to the client
    Panels           \* how panels may answer; see PanelKind

\* An orderly panel answers requests one after the other, a reordering one in any
\* order.  From a partial one a list may come back short: refused, or broken off
\* in the client by an item whose handling throws.
PanelKind == {"orderly", "reordering", "partial"}
Kind == {"zone", "output", "gate", "sensor", "scenario"}

ASSUME KindAssumption    == KindOf \in [Item -> Kind]
ASSUME ItemAssumption    == Excluded \subseteq Item
ASSUME StatusAssumption  == Default \in Status /\ None \notin Status
ASSUME BoundAssumption   == WireBound \in Nat \ {0}
ASSUME PanelsAssumption  == Panels \subseteq PanelKind /\ Panels # {}

VARIABLES
    panel,                   \* the kind of panel
    listed, panelStatus,     \* what it lists, and how each item is
    registered,              \* the panel sends notifications on this connection
    link,                    \* "down" or "up": logged in
    sent,                    \* requests sent since the login
    asked,                   \* those the panel has not answered, in order
    wire,                    \* messages of the panel the client has not handled
    devices,                 \* state.devices: the status of each object
    pending,                 \* pendingZoneStatuses, ...OutputStatuses, ...SensorStatuses
    synced,                  \* hasCompletedInitialSync
    accessories,             \* HomeKit's accessories, which survive a restart
    active,                  \* activeDiscoveredUUIDs
    shown,                   \* what the handler of each accessory last showed
    reconnected              \* history: not the first connection since the boot

panelVars  == <<panel, listed, panelStatus>>
linkVars   == <<registered, link, sent, asked, wire>>
clientVars == <<devices, pending, synced>>
homeVars   == <<accessories, active, shown>>
vars == <<panelVars, linkVars, clientVars, homeVars, reconnected>>

-----------------------------------------------------------------------------
(* Requests, answers, and what the client does with them                   *)

\* variant: the registration goes out before the lists
Requests_RegisterFirst ==
    <<"REGISTER", "ZONES", "MULTI_TYPES", "STATUS_OUTPUTS", "STATUS_BUS_HA_SENSORS">>

\* requestSystemData, without the thermostat entries and the panel's own
\* temperatures
Requests ==
    <<"ZONES", "MULTI_TYPES", "STATUS_OUTPUTS", "STATUS_BUS_HA_SENSORS", "REGISTER">>

\* The items a list or a status answer speaks of.
About(r) ==
    CASE r = "ZONES"       -> {i \in Item : KindOf[i] = "zone"}
      [] r = "MULTI_TYPES" -> {i \in Item : KindOf[i] # "zone"}
      [] r = "STATUS_OUTPUTS"        -> {i \in Item : KindOf[i] \in {"output", "gate"}}
      [] r = "STATUS_BUS_HA_SENSORS" -> {i \in Item : KindOf[i] = "sensor"}
      [] OTHER -> {i \in Item : KindOf[i] # "scenario"}

List(L)      == [type |-> "list", items |-> L, values |-> [i \in {} |-> Default]]
Statuses(S)  == [type |-> "status", items |-> DOMAIN S, values |-> S]
Snapshot(S)  == [type |-> "REALTIME_RES", items |-> DOMAIN S, values |-> S]
Message == [type : {"list", "status", "REALTIME_RES"}, items : SUBSET Item,
            values : UNION {[D -> Status] : D \in SUBSET Item}]

Now(items) == [i \in items |-> panelStatus[i]]

\* Which devices a status finds.  A gate is only looked for as a light, a cover
\* and a thermostat, so its statuses are parked for good.
OutputMatches(i) == KindOf[i] = "output" /\ devices[i] # None
SensorMatches(i) == KindOf[i] = "sensor" /\ devices[i] # None
ZoneMatches(i)   == KindOf[i] = "zone" /\ devices[i] # None
Matches(i) == OutputMatches(i) \/ SensorMatches(i) \/ ZoneMatches(i)

\* variant: the update reaches the device but not its accessory
UpdateAccessory_Silent(S) == shown

\* updateAccessory, for the devices whose status arrived
UpdateAccessory(S) ==
    [i \in Item |-> IF i \in DOMAIN S /\ Matches(i) /\ i \in accessories
                    THEN S[i] ELSE shown[i]]

\* updateOutputStatuses, updateSensorStatuses and updateZoneStatuses
Apply(S) ==
    /\ devices' = [i \in Item |-> IF i \in DOMAIN S /\ Matches(i) THEN S[i] ELSE devices[i]]
    /\ pending' = [i \in Item |-> IF i \notin DOMAIN S THEN pending[i]
                                  ELSE IF Matches(i) THEN None ELSE S[i]]
    /\ shown' = UpdateAccessory(S)

\* A parked status that the new object of i finds.
Waits(i) == pending[i] # None /\ KindOf[i] # "gate"

FirstStatus(i) == IF Waits(i) THEN pending[i] ELSE Default

\* variant: parked statuses stay parked
TakePending_Keep(L) == pending

\* applyPendingOutputStatus, applyPendingSensorStatus, applyPendingZoneStatus
TakePending(L) == [i \in Item |-> IF i \in L /\ Waits(i) THEN None ELSE pending[i]]

\* What HomeKit shows of a discovered item: a cached accessory takes the new
\* object (a scenario has nothing to update), a new one starts from it.  The
\* accessory of an excluded item may still be there, and then a parked status
\* reaches it.
ShownAfter(i) ==
    CASE i \notin Excluded /\ KindOf[i] = "scenario" /\ i \in accessories -> shown[i]
      [] i \notin Excluded -> FirstStatus(i)
      [] i \in Excluded /\ i \in accessories /\ Waits(i) -> FirstStatus(i)
      [] OTHER -> shown[i]

\* handleDeviceDiscovered and addAccessory, for every item of a list
Discover(L) ==
    /\ devices' = [i \in Item |-> IF i \in L THEN FirstStatus(i) ELSE devices[i]]
    /\ pending' = TakePending(L)
    /\ active' = active \cup (L \ Excluded)
    /\ accessories' = accessories \cup (L \ Excluded)
    /\ shown' = [i \in Item |-> IF i \in L THEN ShownAfter(i) ELSE shown[i]]

\* pruneStaleAccessories: what it removes
Stale == IF active = {} THEN {} ELSE accessories \ active

\* handleInitialSyncComplete on the first REALTIME_RES of a connection
CompleteSync ==
    IF synced
    THEN UNCHANGED <<synced, accessories, active>>
    ELSE /\ synced' = TRUE
         /\ accessories' = accessories \ Stale
         /\ active' = active \ Stale

-----------------------------------------------------------------------------
(* Actions                                                                 *)

Init ==
    /\ panel \in Panels
    /\ listed \in SUBSET Item
    /\ panelStatus \in [Item -> Status]
    /\ registered = FALSE
    /\ link = "down"
    /\ sent = 0
    /\ asked = <<>>
    /\ wire = <<>>
    /\ devices = [i \in Item |-> None]
    /\ pending = [i \in Item |-> None]
    /\ synced = FALSE
    /\ accessories \in SUBSET Item      \* configureAccessory, for each cached one
    /\ active = {}
    /\ shown = [i \in Item |-> Default]
    /\ reconnected = FALSE

\* the open handler
OpenResets == synced' = FALSE /\ pending' = [i \in Item |-> None]

\* A connection opens and its login succeeds.
Connect ==
    /\ link = "down"
    /\ link' = "up"
    /\ OpenResets
    /\ sent' = 0
    /\ UNCHANGED <<panelVars, registered, asked, wire, devices, homeVars, reconnected>>

\* requestSystemData sends its next request; it awaits only the sending.
SendNext ==
    /\ link = "up" /\ sent < Len(Requests)
    /\ sent' = sent + 1
    /\ asked' = Append(asked, Requests[sent + 1])
    /\ UNCHANGED <<panelVars, registered, link, wire, clientVars, homeVars, reconnected>>

Without(s, k) == SubSeq(s, 1, k - 1) \o SubSeq(s, k + 1, Len(s))

\* The panel answers a request with what holds now.
Answer(k) ==
    LET r == asked[k]
        here == listed \cap About(r)
    IN  /\ Len(wire) < WireBound
        /\ panel = "reordering" \/ k = 1
        /\ asked' = Without(asked, k)
        /\ CASE r \in {"ZONES", "MULTI_TYPES"} ->
                  /\ \E L \in IF panel = "partial" THEN SUBSET here ELSE {here} :
                        wire' = Append(wire, List(L))
                  /\ UNCHANGED registered
             [] r = "REGISTER" ->
                  wire' = Append(wire, Snapshot(Now(here))) /\ registered' = TRUE
             [] OTHER ->
                  wire' = Append(wire, Statuses(Now(here))) /\ UNCHANGED registered
        /\ UNCHANGED <<panelVars, link, sent, clientVars, homeVars, reconnected>>

\* Something happens at an item.  A registered client is notified.
PanelChanges(i, v) ==
    /\ i \in listed /\ KindOf[i] # "scenario" /\ panelStatus[i] # v
    /\ panelStatus' = [panelStatus EXCEPT ![i] = v]
    /\ IF registered
       THEN /\ Len(wire) < WireBound
            /\ wire' = Append(wire, Statuses([j \in {i} |-> v]))
       ELSE UNCHANGED wire
    /\ UNCHANGED <<panel, listed, registered, link, sent, asked, clientVars, homeVars, reconnected>>

\* The installer adds an item to the panel or takes it away.
PanelEdited(i) ==
    /\ link = "down"
    /\ listed' = IF i \in listed THEN listed \ {i} ELSE listed \cup {i}
    /\ UNCHANGED <<panel, panelStatus, linkVars, clientVars, homeVars, reconnected>>

\* handleReadResponse with a list
HandleList ==
    /\ wire # <<>> /\ Head(wire).type = "list"
    /\ Discover(Head(wire).items)
    /\ wire' = Tail(wire)
    /\ UNCHANGED <<panelVars, registered, link, sent, asked, synced, reconnected>>

\* handleReadResponse with statuses, and handleStatusUpdate
HandleStatus ==
    /\ wire # <<>> /\ Head(wire).type = "status"
    /\ Apply(Head(wire).values)
    /\ wire' = Tail(wire)
    /\ UNCHANGED <<panelVars, registered, link, sent, asked, synced, accessories, active, reconnected>>

\* handleRealtimeResponse
HandleSnapshot ==
    /\ wire # <<>> /\ Head(wire).type = "REALTIME_RES"
    /\ Apply(Head(wire).values)
    /\ CompleteSync
    /\ wire' = Tail(wire)
    /\ UNCHANGED <<panelVars, registered, link, sent, asked, reconnected>>

\* The connection ends; what was under way is lost.
Disconnect ==
    /\ link = "up"
    /\ link' = "down"
    /\ registered' = FALSE
    /\ asked' = <<>>
    /\ wire' = <<>>
    /\ reconnected' = TRUE
    /\ UNCHANGED <<panelVars, sent, clientVars, homeVars>>

\* Homebridge restarts: only its cached accessories survive, with the device of
\* their context.
Boot ==
    /\ link' = "down" /\ registered' = FALSE /\ sent' = 0
    /\ asked' = <<>> /\ wire' = <<>>
    /\ devices' = [i \in Item |-> None]
    /\ pending' = [i \in Item |-> None]
    /\ synced' = FALSE
    /\ active' = {}
    /\ reconnected' = FALSE
    /\ UNCHANGED <<panelVars, accessories, shown>>

Next ==
    \/ Connect \/ SendNext \/ Disconnect \/ Boot
    \/ HandleList \/ HandleStatus \/ HandleSnapshot
    \/ \E k \in 1..Len(asked) : Answer(k)
    \/ \E i \in Item : PanelEdited(i) \/ \E v \in Status : PanelChanges(i, v)

Spec == Init /\ [][Next]_vars

-----------------------------------------------------------------------------
(* Properties                                                              *)

\* Every variable keeps the shape the code gives it.
TypeOK ==
    /\ panel \in PanelKind
    /\ listed \subseteq Item
    /\ panelStatus \in [Item -> Status]
    /\ registered \in BOOLEAN
    /\ link \in {"down", "up"}
    /\ sent \in 0..Len(Requests)
    /\ asked \in Seq({Requests[n] : n \in 1..Len(Requests)})
    /\ wire \in Seq(Message)
    /\ devices \in [Item -> Status \cup {None}]
    /\ pending \in [Item -> Status \cup {None}]
    /\ synced \in BOOLEAN
    /\ accessories \subseteq Item
    /\ active \subseteq Item
    /\ shown \in [Item -> Status]
    /\ reconnected \in BOOLEAN

\* Statuses are parked only for devices that are not known yet, whatever order
\* the panel answers in: a status parked for a known device would be applied
\* when the device is listed again, over a newer one.
ParkedIsUnknown ==
    \A i \in Item : Waits(i) => devices[i] = None

\* When the sync is complete and no message is under way, every device that
\* reports statuses has the panel's, and so has its accessory, although each
\* connection replaces the device objects by new ones with default statuses; and
\* on the first connection of a boot in whatever order the panel answers, since
\* the statuses that precede their device are parked.
StatusIsPanels ==
    (/\ panel = "orderly" \/ (panel = "reordering" /\ ~reconnected)
     /\ synced /\ link = "up" /\ wire = <<>> /\ sent = Len(Requests) /\ asked = <<>>)
    => \A i \in listed :
            KindOf[i] \in {"zone", "output", "sensor"} =>
                /\ devices[i] = panelStatus[i]
                /\ i \notin Excluded => i \in accessories /\ shown[i] = panelStatus[i]

\* Pruning takes an accessory out of HomeKit only when its device is no longer
\* on the panel or is excluded ("a failed/partial sync can no longer wipe every
\* cached HomeKit accessory", CHANGELOG), if lists come before the registration.
PrunedOnlyIfGone ==
    [][panel # "reordering" =>
       \A i \in accessories \ accessories' : i \notin listed \/ i \in Excluded]_vars
=============================================================================
