# TLA+ model of homebridge-plugin-klares4

The plugin connects Homebridge to a Ksenia Lares4 panel over one WebSocket. It
lists the panel's devices, shows them in HomeKit (HAP) and, when Matter is
enabled, as Matter endpoints, and turns commands of either side into requests to
the panel. The modules here model the parts of it whose correctness depends on
the order of events: sockets, timers, promises, restarts, and messages that set
the same state from several sides. Paths below are those of the repository,
relative to `src/src/` unless they start with `src/`.

* [Inventory](#inventory)
* [Modules](#modules)
* [Runs](#runs)
* [Fairness](#fairness)
* [Proofs](#proofs)
* [What the models found](#what-the-models-found)
* [Not modelled](#not-modelled)
* [Plan](#plan)

## Inventory

The program is one Node.js process. Nothing runs in parallel, but every callback
(a socket event, a timer, a promise continuation, a call from Homebridge) may run
between two `await`s of another, and all services of the client share one
mutable object, `WebSocketClientState`.

| component | state | operations | what is hard |
|---|---|---|---|
| **WebSocket connection**: `websocket-client/connection-service.ts`, `websocket/ws-transport.ts`, `websocket-client/state.ts` | `ws`, `isConnected`, `idLogin`, `pendingLogin`, `isManualClose`, reconnect and heartbeat timers, back-off count, `lastPongReceived` | `connect`, the handlers of open, close, error, pong and message, the login timeout, `startHeartbeat`, `forceReconnect`, `scheduleReconnect`, `disconnect` | events of an old socket arrive after a new one was made, and every handler writes the shared state |
| **Command dispatcher**: `websocket/command-dispatcher.ts` | `commandQueues` (a promise per device), `pendingCommands` (per message id, with a timeout) | `enqueueDeviceCommand`, `registerPendingCommand`, `resolvePendingCommand`, `clearPendingCommand`, `rejectAllPendingCommands`, `clearCommandQueues` | the queue is only a chain of promises; ids may collide; answers may come early, late or with another id |
| **Command service**: `websocket-client/command-service.ts` | none of its own | switch, dim, cover, scenario and gate commands, `requestSystemData`, `sendKseniaCommand` | a command spans several requests |
| **Thermostat commands**: `websocket-client/thermostat-command-*.ts`, `thermostat-write-payload.ts` | the copies of configuration entries, the season hint and the remembered entry of each output | find the entry, patch the copy, write it back whole | several outputs share an entry, and the copy is patched across `await`s |
| **Thermostat state**: `thermostat-status-updater.ts`, `thermostat-config-sync.ts`, `domus-thermostat-mapper.ts`, `domus-thermostat-mapping-runtime.ts`, `system-temperature-updater.ts` | links between outputs, programs and sensors; parked statuses; which real-time states are recent | five kinds of messages set a setpoint or a room temperature | outputs, programs and sensors are numbered with the same numbers |
| **Message routing**: `message-service.ts`, `websocket/protocol-router.ts`, `status-updater.ts`, `websocket/device-state-projector.ts`, `device-parsers.ts` | `devices`, statuses kept for devices not yet known, `hasCompletedInitialSync` | login answer, lists, snapshots, real-time statuses, completion of the sync | statuses before their device, lists in any order, a second sync after a reconnect |
| **HAP registry**: `platform/accessory-registry.ts`, `accessory-handler-service.ts` | cached accessories, those discovered in this boot | restore, add, update, prune | prune after a partial discovery |
| **Platform**: `platform/index.ts`, `platform-lifecycle-service.ts` | the services | boot, discovery, initial sync complete, shutdown | the HAP and Matter sides see each discovery and each sync |
| **Matter registry**: `platform/matter-accessory-registry.ts`, `matter-registration-recovery.ts`, `matter-register-probe.ts`, `matter-state-update-queue.ts`, `matter-state-updates.ts`, `matter-fallback-store.ts`, `matter-name-finalizer.ts` | registrations and their status, queued updates, thermostats that fell back to a temperature sensor | register, probe, recover, fall back, update, rename, remove | registration is several awaited calls to Homebridge while discovery, status and renaming go on |
| **Matter prune tracker**: `platform/matter-prune-tracker.ts` | missing counters, their file, the devices seen in this boot | record, prune pass, load and save | decisions spread over restarts, awaited unregisters, overlapping passes, failing writes |
| **Matter names**: `platform/matter-name-*.ts` | the persisted map of names, taken slots | allocate one by one or in a batch, displace, store | unique names from an incremental and a batch algorithm |
| **Matter thermostat handlers**: `platform/matter-thermostat-handlers.ts`, `-echo-tracker.ts`, `-mapper.ts` | recently pushed and asked values | record, match, expire, convert | telling an echo from a command |
| **HomeKit accessories**: `accessories/*.ts` | characteristic values; the simulated travel of a cover | get, set, status | travel timer against real-time positions |
| **MQTT bridge**: `mqtt-bridge/*.ts`, `mqtt/*.ts` | client, index of names | subscribe, command, publish | the names of two devices may coincide |
| **KSA import, device list, configuration files** | files | import, debounced save | sequential input and output |
| **Debug capture, telemetry, helpers** | buffers | capture, report | nothing depends on them |

How they interact: the **connection** gives each message to the router; the
router hands `LOGIN_RES` to the message service (which settles `pendingLogin`),
answers to the **dispatcher**, and everything to the status and device parsers.
A **command** is a closure on the queue of its device; it checks the login when
called, and `sendKseniaCommand` checks the socket when it runs. The connection's
close handler, `forceReconnect` and `disconnect` reject all pending commands.
Every discovered device goes to the HAP registry and, with Matter enabled, to the
Matter registry, whose state updates come from the same statuses. A completed
sync calls the **platform**, which prunes HAP accessories, computes the batch of
names, renames endpoints and starts a Matter prune pass.

What makes each correct, in the terms of the properties:

* connection: the shared state always describes the socket in use; no socket is
  left open without a reference to it; recovery from an outage is always armed,
  and happens; `connect()` resolves only for its own login.
* dispatcher: a line per device, served in order; every call settles; the table
  holds no stale entry; an answer is used once, for a request of its kind, and is
  not lost.
* thermostat commands: a command reaches the entry of its own output, takes
  effect, and changes nothing else.
* thermostat state: each thermostat shows its own setpoint, the latest one, and
  the room temperature of the best source.
* routing and HAP: a status that precedes its device is not lost; HomeKit ends up
  with the panel's state; pruning spares what the panel still has.
* Matter registry: once it is quiet, every endpoint exists, in the right shape,
  with the latest state and name.
* prune tracker: an endpoint is removed only after the threshold of misses and
  only if it is no longer exposed; an endpoint to be removed is removed.
* names: two endpoints never share a voice name.
* handlers: an echo is not written back; the loop through the panel comes to rest.

## Modules

| module | extends | contents |
|---|---|---|
| `KlaresConnection` | Naturals | the connection and the login |
| `CommandDispatcher` | Naturals, Sequences | queues, pending table, `sendKseniaCommand` |
| `TicketServer` | Naturals | what the dispatcher promises, abstractly |
| `ThermostatIds` | Integers | which entry belongs to an output; shared by the next two |
| `ThermostatWrite` | ThermostatIds | commands to thermostats, down to the panel's entries |
| `ThermostatStatus` | ThermostatIds | what HomeKit shows of thermostats |
| `DeviceSync` | Naturals, Sequences | login to HomeKit: requests, lists, statuses, sync, HAP registry |
| `MatterRegistration` | SequencesExt | one Matter endpoint: register, recover, update, rename |
| `MatterPrune` | Integers | counters, prune passes, restarts |
| `MatterNames` | Naturals, Sequences, FiniteSets | names of endpoints |
| `MatterEcho` | Integers, Sequences | thermostat handlers, echo tracker, the loop through the panel |

Each specification has an `MC...` module with the values of its constants; eight modules
`..._proofs` hold the theorems. `ThermostatIds` is shared by the two thermostat
modules because the code shares `resolveThermostatConfigId` between the sides;
`MCCommandDispatcher` checks and `CommandDispatcher_proofs` proves that
`CommandDispatcher` implements `TicketServer`. `ThermostatWrite` takes from
`CommandDispatcher` what that module establishes, a queue per output and an
answer or a timeout for each request, and `MatterEcho` takes that writes reach
the panel in order. `MatterPlatform_proofs` extends `MatterPrune` and `MatterNames`,
which share no state; what would be called `Init`, `Next` or `Spec` in the latter is
`NamesInit`, `NamesNext`, `NamesSpec` there.

Operators with a suffix after an underscore (`CloseIfOpen_Leak`, `Targets_All`)
are wrong variants of the operator they precede. No behaviour uses them. Each
stands for a mistake that the property it is paired with in `PROJECT.json`
detects.

### KlaresConnection

*State.* `Socket` are the WebSocket objects; a closed one may be taken for a later
connection. `sock` is `readyState`, with the `CLOSING` of a socket that was never
open told apart (`"aborting"`), because ws emits an error before its close event.
`promise`, `viaTimer`, `loginTimer`, `terminateTimer` are what closures hold for
one connection: the promise of `connect()`, whether the reconnect timer called
it, its login timeout, the timer of `terminateIfNotClosed`. The other variables
are fields of `WebSocketClientState` under their names. `idLogin` is the socket on
which the session id was granted, which says all that matters about the id.
`ticksSincePong` is the age of `lastPongReceived` in heartbeat intervals.

*Actions.* One per handler, together with the promise continuations that run
before the next event: a rejected `connect()` that came from the timer schedules
the next attempt in the same step (`Retries`), a resolved one resets the back-off
(`AttemptsAfterLogin`).

| action | code |
|---|---|
| `Start` | `initializeLares4` |
| `Open`, `CloseEvent`, `ConnectFails`, `ErrorEvent`, `Pong` | the handlers in `connect()` |
| `LoginSendFails` | the callback of the LOGIN request |
| `LoginOk`, `LoginRefused` | `handleLoginResponse` |
| `LoginTimeout` | the timer armed in the open handler |
| `Ping`, `IdleTick`, `ForceReconnect` | a tick of `startHeartbeat` |
| `ReconnectFires`, `TerminateFires` | `scheduleReconnect`, `terminateIfNotClosed` |
| `Disconnect` | `disconnect()` |

*Timing.* Durations are not modelled, but two orders that durations decide are
constants. `LateClose`: ws waits 30 s for the panel's close frame, so a closing
handshake may outlast the reconnect delay (5 s by default). `FastReconnect`: the
configured `reconnectInterval` may be below the 3 s after which `forceReconnect`
destroys its socket. Both are `FALSE` where a panel that answers a close frame is
examined, and `TRUE` in the runs that examine a slow close.

### CommandDispatcher

*State.* A call (`Cmd`) is one closure given to `enqueueDeviceCommand`, or one
direct call. It has a script of requests: `prime` (the READ that fills the
thermostat configuration cache, whose failure is swallowed), `write`
(`WRITE_CFG`), `user` (`CMD_USR`, not awaited), `sync` (a READ not awaited).
`phase` and `step` are the program counter of its closure; `pred` is the promise
it is chained to, `tail` the map `commandQueues`; `pending`, `timer` and `promise`
are `pendingCommands`, the timeouts and the promises of
`registerPendingCommand`. `link` is the socket as the dispatcher sees it.
`owed` are requests sent and not answered. `order`, `clock`, `orphaned` and
`ackedBy` are history variables: no action reads them.

*Promises.* A continuation runs before the next event. `Quiet` says that none is
due; every event requires it. So the order of events is free, the order of
continuations is that of the language, and among continuations that are due
together any order is allowed, which contains the real one.

*Ids.* `UniqueIds` keeps ids drawn at random from coinciding with one in use; with
`FALSE` they may coincide. `EchoIds` makes the panel answer with the id of the
request; with `FALSE` an answer may carry any id.

*What it implements.* `TicketServer` has customers, tickets and lines: `Join` takes
the next number, `Serve` lets customers at the front of their line become busy or
leave with a result that is final, `Shutdown` forgets the lines. `Service` is its
instance with `status` the phase of a call, in which all the requests of its script are one
"busy", `ticket <- order`, `next <- clock` and `loose <- orphaned`; the property is
`ServesInOrder == Service!Spec`.

### ThermostatWrite

*State.* `entries` are the panel's configuration entries, each with a mode, an
active season and a setpoint per season. `cfg`, `hint` and `commandId` are the
client's `thermostatCfgById`, `thermostatWriteSeasonById` and
`thermostatCommandIdByOutputId`; `wiring` is what it was told of programs, sensors
and manual pairs. `pc`, `todo`, `otherwise`, `target` and `payload` are the locals
of a command between its awaits, `inbox` and `outbox` the two directions of the
wire. `behind`, `overlapped` and `unhinted` are history.

| action | code |
|---|---|
| `Start`, `Resolve` | `resolveThermostatCommandId`: the candidates, each read in turn; then the season hint and the queue |
| `Run`, `Build` | the closure on the queue: `primeThermostatConfigCache`, then the payload and its write |
| `HandleRead`, `HandleWritten` | answers: `applyThermostatConfigSnapshot` with all the cache, `resolvePendingCommand` |
| `TimeOut`, `Waited` | the timeout of a read (swallowed) or of a write (fails) |
| `PanelReads`, `PanelWrites`, `PanelRefuses`, `Keypad` | the panel (external) |

*Abstraction.* An entry has the four fields whose merge matters; all others are
copied like the setpoint of the season not in use. Two setpoints are enough to
tell a value from another.

### ThermostatStatus

*State.* `device` says of each thermostat which setpoint it shows, whose it is and
where its room temperature came from. `toDomus`, `cfg`, `commandId`, `hasPrograms`
are the links, `parked` the statuses of sensors nobody is linked to, `fresh` and
`heard` what `Date.now()` comparisons find recent; `Expire` lets time pass.
`PanelKind` names the three kinds of panels the code has branches for.

*Actions.* One per kind of message: `HandleOutputs` and `HandlePrograms` (lists),
`HandleEntries` and `HandleReread` (`CFG_THERMOSTATS`), `HandleOutputStatus`,
`HandleSensorStatus`, `HandleSystemStatus`, `HandleTemperatures` (answers and
notifications), `HandleSnapshot` (`REALTIME_RES`). `Answer`, `PanelChanges` and
`PanelReports` are the panel.

*Abstraction.* How well a sensor's name matches an output's is given
(`NamedSensor`). Humidity and modes follow the same path as the setpoint.

### DeviceSync

*State.* `devices` and `pending` hold one status per item, or `None`; `asked` and
`wire` are the requests the panel has not answered and its messages the client has
not handled; `accessories`, `active`, `shown` are HomeKit's side. `panel` is orderly,
reordering or partial (see `PanelKind`).

| action | code |
|---|---|
| `Connect`, `SendNext` | the open handler, a granted login, and the calls of `requestSystemData`, which await the sending but no answer |
| `HandleList` | `parseZones` etc., `applyPending...Status`, `handleDeviceDiscovered`, `addAccessory` |
| `HandleStatus` | `updateZoneStatuses` and its like, `updateAccessory` |
| `HandleSnapshot` | `REALTIME_RES`: its statuses, then `handleInitialSyncComplete` and `pruneStaleAccessories` |
| `Disconnect` | the connection ends; what was under way is lost |
| `Boot` | a restart: Homebridge restores the accessories |
| `Answer`, `PanelChanges`, `PanelEdited` | the panel (external) |

*Abstraction.* The fields of a status are one value; `Default` is that of a new
object. The thermostats, which have sources of their own, are in the module above.

### MatterRegistration

*State.* `regs` are the registration objects made in this boot and `current` is the
one in the map; each call of `registerAccessory` is a `chain` of awaits and
remembers what it awaits. `endpoint` is what Homebridge's Matter server has, with
its shape, its name, what it shows and whether it answers. `timer` and `flushes`
are the update queue: several flushes may await at a time. `pass` are the rename
passes, `marker` the fallback store, which survives.

*Actions.* `StatusUpdate` (merge into the queue), `Discover`, `ChainStep` (a
disjunct per `await` of `registerWithRecovery` that ends: `RegisterEnds`,
`ProbeAnswers`, `ProbeTimesOut`, `PurgeEnds`, `AgainEnds`, `FallbackEnds`), `Flush`,
`PushEnds`, `Displace` (a new name), `StartPass` and `PassGoesOn` (the finalizer),
`Restart`. `ComesUp` is Matter's: a registered endpoint begins to answer.

*Abstraction.* Devices share no part of this state but the fallback file, of which
each has its own line; so the module follows one. A cluster's values are one
value, and a light has two clusters so that a flush takes more than one step.

### MatterNames

*State.* `slots` is `slotOwners` (owner and base of each taken name), `nameOf` the map
`uuidToName`, `store` the file. *Actions.* `Map(d)` is `resolve` of a device not
known to the registry, `Finalize` the batch of a completed sync and its file,
`Restart` seeds a registry from the file; `PanelRenames` and `PanelEdits` change the
panel. *The batch.* `NamesOf(D)` is a recursive function on the devices: each takes the
first of its `Candidates` that none of those `Before` it in the sorted order has. The
candidates are those of `computeMatterNameMap` and `uniqueUuidFallback` in their order;
the loop over numbers has no end in the code, here it has as many as there are devices,
which is more than the others can have taken. *Abstraction.* Names are sequences of
parts, and a number is as many strokes. Cleaning a label of what a voice assistant
cannot say is left out; labels here are clean already. So is cutting a long name to 32
characters, which the code does to the label and never to the suffix. It would make the
numbered names of a long label the same name, as the number is cut, and the loop would
not end; that needs nine tags of a device that are all taken, by ids that agree in their
last twelve characters or by labels that imitate them.

### MatterEcho

*State.* `held` is the device object the handlers closed over, `live` the client's;
after a reconnection they differ (`linked`). `tracker` has an entry per attribute,
`echoes` the handler calls matter.js still owes for a push, `requests` the writes
the panel has not taken. *Actions.* `Command` and `Echo` run one of the four
handlers, `Push` is the flush of an update with its recorded values, `Register`
a new registration, `Reconnect` a new device object, `Expire` the 10 s of an
entry, `Take`, `Refuse`, `Keypad` the panel, `Status` its broadcast.
`LateEcho` is an assumption about matter.js: with `FALSE` it calls the handlers of
a push before the next push and within 10 s.

### MatterPrune

*State.* `panel` and `exposed` are the surroundings: the devices listed and the
configuration (which only a restart changes). `cache` and `saved` survive the
process. `missing`, `countersDirty`, `active` and `cachedDevices` are the fields of
the tracker and the registry; `registrations` the status of each registration.
`pass` is the state of each prune pass in progress: what it visited, which
endpoint it awaits, whether Homebridge has already forgotten it. `misses` and
`streak` are history.

*Actions.* `Discover`, `Accept`, `Complete`, `Fail` are the registration as far as
pruning reads it. `StartPass` and `Resume` run a pass up to the next `await`
(`Stretch`): both loops of `runPruneCycle`, the counters they write and, at the
end, the one write of the file. `Forget`, `Unregistered`, `Rejected` are the two
halves of an unregister and its failure. `Boot` ends the process at any point
where `CrashInPass` allows it, and starts it again. `Save` clears the dirty flag
first, as the code does, and with `FaultyDisk` leaves the new file, the old one or
an unreadable one, which a boot ignores.

*Abstraction.* Counters saturate at the threshold: a greater count is compared with
the threshold and with zero only. The order in which a loop visits endpoints is
any order, since discovery decides the order of the maps.

## Runs

| run | instance | what it shows |
|---|---|---|
| `connection` | 3 sockets, back-off of 4, timely closes, fair | `NoOrphanSocket`, `SessionOnCurrentSocket`, `RecoveryArmed`, `LoginTimerOwned`, `ResolvesOnOwnLogin`, `Recovers`, `DeadPeerDetected` |
| `connection_stuck` | 3 sockets, late closes, fast reconnect | `OutageIsHandled` is violated |
| `dispatcher` | 3 calls, 2 devices, 4 ids, unique and echoed, fair | `OneInFlight`, `NeverStranded`, `AnswerNotLost`, `OneAnswerOneCommand`, `EveryCallSettles` |
| `dispatcher_collisions` | 3 calls, one direct, 2 ids that collide, answers with any id | `EntryIsLive`, `NoSilentSuccess`, `ServesInOrder` (implements `TicketServer`) |
| `prune` | 2 endpoints, 2 passes, threshold 3, restarts between passes, slow probes, fair | `RemovedOnlyAfterMisses`, `ExposedNeverPruned`, `DisabledIsRemoved` |
| `sync` | a zone, an output, an excluded sensor, 2 statuses, orderly and reordering panels | `ParkedIsUnknown`, `StatusIsPanels`, `PrunedOnlyIfGone` |
| `thermostat_status` | 2 thermostats with crossed numbers, 3 kinds of panels, 2 setpoints | `OwnSetpoint`, `ShowsPanels`, `RealtimeWins` |
| `thermostat_write` | 3 outputs of 2 entries, 3 commands, 3 wirings, both seasons, 2 faults | `TypeOK`, `CopyIsEntry`, `RoutedToOwnEntry`, `OneWriterPerOutput`, `NothingElseChanges`, `SetpointTakesEffect` |
| `thermostat_summer` | the same without faults | `SetpointAlwaysTakesEffect` is violated |
| `registration` | a light or a thermostat, 2 states, 2 names, 1 rename pass, 2 registrations, 2 flushes, 3 faults | `ReadyWhenRegistered`, `ShowsLatest`, `NameArrives`, `ShapeRemembered`, `OneChain` |
| `names` | a cover and two contacts whose ids end alike, 2 labels | `DistinctAfterBatch`, `CleanNameToTheHigher` |
| `echo` | 2 setpoints, one out of range, 3 modes, 2 commands, 1 event, fair | `AcceptableState`, `EchoWritesNothing`, `ComesToRest` |

*Bounds.* Three sockets are one in use, one on its way out and one that a timer
still refers to; with timely closes no more than that is ever alive, because a
connection is only made when the earlier ones are closing. `MaxAttempts` is where
the back-off stops growing: with a base of 5 s, `base * 2^n` reaches the cap of 60 s
at 4. Two calls of a device are enough for order, a third for another device is
there to share the pending table, a `prime` before a `write` makes two requests
of one call. Four ids let three calls draw unused ones while late answers are on
the way; two ids for three calls force collisions. The prune threshold is the
program's own (3); two endpoints let a pass await one while the other changes,
two passes overlap. In `sync` and `thermostat_status` two messages may be under way
to the client: enough for a notification to overtake an answer in its effect; an
older one behind them would be handled before both anyway, since a socket keeps
the order. In `thermostat_write` two outputs share an entry and two of the
three commands share an output, so writes meet in one queue and across queues;
the three wirings are programs listed, manual pairs only, and nothing known. In
`registration` a second registration (a rename or a discovery) meets the chain of
the first, two flushes overlap, and three failures take a thermostat through
every branch of the recovery. In `names` two contacts share their short tag, so that
the long one is needed; a fourth device with the same name would be needed to come to
the numbered names, which the theorems cover. In `echo` one setpoint (36) has to be clamped, 21 is the
default; the three modes include one a heating-only zone does not have.
Counters are bounded by the sets of calls, by `PongLimit`, the threshold, `MaxRegs`,
`MaxFlushes`, `MaxFaults`, `MaxAsks`, `MaxEvents` and `WireBound`, each a constant
declared in its module.

*Deadlock.* TLC checks it for `prune`, `sync`, `thermostat_status` and `names`, where the
panel always may do something. The other systems may stop: the connection after
`disconnect()`, the dispatcher and the thermostat commands when every call has
settled, a registration and an endpoint when the bounded events are used up.

*What one run leaves out and another has.* Collisions and foreign ids are a run of
their own: with them an answer can be lost, which `AnswerNotLost` would report at
once, and a call may wait for ever, against `EveryCallSettles`. The `prune` run has
no crash inside a pass: if the process may stop in every pass, it may stop in each
just before the second endpoint, for ever, and nothing is removed. Crashes inside
a pass and failing writes of the file are covered by the theorems of
`MatterPlatform_proofs`, which hold for every value of `CrashInPass` and `FaultyDisk`.
`sync` has no partial panel, whose short lists make the client prune what it still
has (see below).

*Types.* One type invariant per module, each proved; that of `ThermostatWrite` is part of a
run as well.

*Mutants.* Each property of a passing run comes with a wrong variant of a modelled
definition under which TLC finds it violated.

## Fairness

* `KlaresConnection!TimersFire`: Node fires armed timers; ws ends a closing
  handshake after its own 30 s. Weak fairness per timer and per closing socket.
* `HandshakesEnd`: a handshake succeeds or fails. `handshakeTimeout` is not set,
  so this is the operating system's promise, not the client's; it is part of
  `FairSpec` and the properties depend on it.
* `PanelComesBack` is not in `FairSpec`: it is the premise of `Recovers`. Strong
  fairness, since the panel may go away between two attempts.
* `CommandDispatcher!Progress`: due continuations run, ws reports each send,
  timeouts fire. No fairness for the panel or for the network.
* `MatterPrune!FairSpec`: syncs keep completing, a pass goes on, Homebridge
  answers. Strong fairness of `Forget` for each endpoint: Homebridge may refuse an
  unregister many times, but not always. There is no fairness for restarts,
  discovery or the panel.
* `MatterEcho!FairSpec`: weak fairness of `Echo`, `Take`, `Status` and `Push`:
  matter.js makes the calls it owes, the panel takes what it is sent and
  broadcasts changes, queued updates are flushed. None for controllers or people;
  both are bounded, which is what "once they stop" means.

## Proofs

The theorems hold for every value of the constants that satisfies the
assumptions stated in the modules: any number of sockets, calls, devices, ids,
endpoints, entries and passes, any threshold, any combination of faults and
timings, unless a hypothesis is named.

| module | theorem | states | hypothesis, argument |
|---|---|---|---|
| `KlaresConnection_proofs` | `TypeCorrect` | `TypeOK` | inductive by itself |
| | `HeartbeatCorrect`, `ConnectedCorrect` | `HeartbeatGuards`, `ConnectedToSomething` | `SessionUnderHeartbeat` |
| | `NoOrphanCorrect`, `SessionCorrect`, `LoginTimerCorrect`, `RecoveryCorrect`, `OwnLoginCorrect` | `NoOrphanSocket`, `SessionOnCurrentSocket`, `LoginTimerOwned`, `RecoveryArmed`, `ResolvesOnOwnLogin` | `~LateClose`; `IInv` |
| `CommandDispatcher_proofs` | `TypeCorrect`, `EntryCorrect` | `TypeOK`, `EntryIsLive` | inductive |
| | `FifoCorrect` | `DeviceFifo` | `Chain` |
| | `Implements` | `ServesInOrder` | `StepMoves`, `Chain` |
| | `NoSilentSuccessCorrect` | `NoSilentSuccess` | `Acknowledged` |
| | `OneAnswerCorrect` | `OneAnswerOneCommand` | `UsedOnce` |
| | `NeverStrandedCorrect` | `NeverStranded` | `UniqueIds`; `Tabled` |
| | `AnswerNotLostCorrect` | `AnswerNotLost` | `UniqueIds`, `EchoIds`; `Tabled` |
| | `OneInFlightCorrect` | `OneInFlight` | `UniqueIds`; `Earlier`, `Linked` |
| `MatterPlatform_proofs` | `TypeCorrect`, `MissesCorrect`, `ExposedCorrect` | `TypeOK`, `RemovedOnlyAfterMisses`, `ExposedNeverPruned` | `CountsBacked`, `Justified`, `DiscoveredFirst` |
| | `BatchGood` (a lemma) | what a batch computes | none; `Solvable`, `FreeExists` |
| | `NamesTypeCorrect`, `DistinctCorrect`, `CleanNameCorrect` | `NamesTypeOK`, `DistinctAfterBatch`, `CleanNameToTheHigher` | `NamesInv` |
| `DeviceSync_proofs` | `TypeCorrect`, `ParkedCorrect` | `TypeOK`, `ParkedIsUnknown` | the messages are ones a panel sends |
| | `PruneCorrect` | `PrunedOnlyIfGone` | `"partial" \notin Panels`; `Thorough`, `Owned` |
| | `StatusCorrect` | `StatusIsPanels` | for orderly panels `UpToDate` besides, for reordering ones `FirstSync` |
| `MatterEcho_proofs` | `TypeCorrect`, `AcceptableCorrect` | `TypeOK`, `AcceptableState` | inductive |
| | `EchoCorrect` | `EchoWritesNothing` | `~LateEcho`; `EchoesKnown` |
| `ThermostatWrite_proofs` | `OneWriterCorrect` | `OneWriterPerOutput` | `Lines` |
| | `CopiesAgree` | `CopyIsEntry` | `Letters`, `Fresh` |
| | `SetpointInEffect` | `SetpointTakesEffect` | `Setpoints` |
| | `RestOfEntryKept` | `NothingElseChanges` | `Spares` |
| | `RoutedCorrect` | `RoutedToOwnEntry` | `Truthful`; `Ways` |
| | `TypeCorrect` | `TypeOK` | `Ways`, `Holdings` |
| `ThermostatStatus_proofs` | `TypeCorrect`, `RealtimeCorrect` | `TypeOK`, `RealtimeWins` | inductive together |
| | `OwnCorrect` | `OwnSetpoint` | `Numbered`, `Configured`, `Apart`; `Linkage` |
| | `PanelCorrect` | `ShowsPanels` | the same; `SnapshotLast`, `UpToDate` besides |
| `MatterRegistration_proofs` | `TypeCorrect`, `OneChainWorks`, `FallbackRemembered`, `PushedWhenReady`, `NameGetsThere`, `LatestShown` | `TypeOK`, `OneChain`, `ShapeRemembered`, `ReadyWhenRegistered`, `NameArrives`, `ShowsLatest` | `OnePass`; `IInv` |

*Session and heartbeat.* `HeartbeatGuards` speaks of a client that is logged in on
an open socket, a conjunction of four variables that different handlers write. Its
inductive form is `SessionUnderHeartbeat`: whoever holds a session id has a
heartbeat timer. Only `LoginOk` sets the id, and starts the timer; only
`ForceReconnect` and `Disconnect` stop it, and both drop the id first.
`ConnectedToSomething` is inductive with the types: a socket that takes the last
open one away does so in its close handler, which resets the flag. Both hold
with late closes and with fast reconnects.

*One socket at a time.* With timely closes the five properties of the connection
follow from one invariant. `OnlyCurrent`: every socket but the current one is
closed. `TimerMeansOut`: when a reconnection is scheduled, the current socket is
closed or on its way out. `Owned`: login request, login timeout, pending login
and session id are those of the current socket, while it is open or closing.
`Armed`: a socket that was closed on purpose or has closed has a reconnection
scheduled, an open one a session or a login under its timeout. `Untouched`: before
the first `connect()` nothing is under way. None of these is inductive alone:
a reconnection keeps `OnlyCurrent` because of `TimerMeansOut`, and a handler that
writes the shared state writes the current socket's because of `OnlyCurrent`.

*Order of calls.* `DeviceFifo` is not inductive: that no earlier call of the device
is unfinished when a call starts follows from how the promises are chained.
`Chain` adds that order numbers grow with the calls (`Numbered`), that every
unfinished call ahead of a queued one is its predecessor or ahead of it
(`Chained`), and that the map holds the last call of the device, or nothing when
all have settled (`TailIsLast`). A settling call deletes its entry only when it is
the last, so a call that finds no entry has nobody to wait for. `FrontStep` shows
that any step in which only calls at the front move keeps `Chain`; each action is
an instance of it, except `Call`, which adds a link, and `Disconnect`, after which
the calls made before are no longer ordered with those made after. `StepMoves`
says the same of every step in the terms of `TicketServer`, which gives the
refinement.

*Answers.* `Tabled` says that the table is injective on the calls that wait and
that each of them is in it under its id, with its timeout running. This is what
an id drawn twice destroys, hence the hypothesis. With it, the one entry a call
waits under is only taken out by its own answer, its own timeout or a close.

*One request at a time.* `disconnect()` forgets the queues while a call of a queue
may still run, so a later call of the same device does not wait for it. That two
requests are nevertheless never on the wire together is because requests go out
only on an open socket, and before one is open again everything made before
`disconnect()` has failed (`Linked`). For the calls that were only queued this is
an induction along the chain: among the queued calls take the one made first
(`Least`, from the well-foundedness of finite subsets in the library); it is
chained to a call made before it (`Earlier`), which is neither queued nor running,
so its continuation is due, and a socket cannot open while one is.

*Pruning after a sync.* `Thorough` is about an orderly panel: it answers in the order
it was asked and notifies from its last answer on (`InTurn`), and for every item of a
list it has answered the client has an object, or a message that lists the item comes
before any snapshot (`ListsFirst`). The snapshot is the last answer, so when it is
handled the client has an object for everything the panel lists. `Owned` says that
each object, unless excluded, is among the discovered items and has an accessory, so
the prune that follows spares it.

*Statuses.* `UpToDate` says of a client that is notified that the last message about
an item, among those under way, carries its status in the panel, or that no message
is about it and the client already has that status and shows it. The lists, which
reset the objects, come before the answer to the registration, which carries all
statuses; by `ListsFirst` the status then finds the object. When nothing is under way
the second alternative is `StatusIsPanels`. A panel that reorders may send a list after
the registration, so on the first connection of a boot another argument carries it,
`FirstSync`: each request is asked once (`AskedOnce`), hence one message lists an item
and the client has no object of it before it handles that one (`ListedOnce`), and a
status that finds no object waits for it (`Arriving`). On a later connection the
objects of the one before are there, a list replaces them, and nothing waits: there
the order of answers matters.

*Misses.* The counters in memory, those on disk and the history are three copies
that crashes and failed writes pull apart. `CountsBacked` says that neither memory
nor disk ever claims more misses than there were; a truncated file claims none.
`Justified` says of a pass that awaits an unregister that its endpoint had
reached the threshold and is not exposed. That needs `DiscoveredFirst`: only an
exposed device is ever registered in this boot, and it is active then, so the
first loop never selects one, and only the second does, which asks for the
exposure.

*Echoes.* `EchoesKnown`: the value of every call matter.js still owes is the one the
tracker remembers for that attribute, unless a command has changed it since; and
no two such calls concern one attribute. `Push` and `Register` record what they
give, so they re-establish this; only an entry that expires, or a push that comes,
before the echoes could break it, which is what `~LateEcho` rules out.

*Writes to thermostats.* Five layers, each over the one before. `Lines`: a command
at work is at the head of its output's line, one that is queued is in it.
`Letters`: a write under way is what its command made of it, a command has one,
and a command that no longer waits for its write has left the entry `behind`.
`Fresh`: for every entry that is not `behind`, the last answer about it on its way
to the client, or else the client's copy, agrees with the entry; this gives
`CopyIsEntry`. `Setpoints`: a setpoint under way is in the season the write names,
unless the client had no hint. `Spares`: of two writes to an entry in the panel's
inbox the later one was built while the other was under way (`Ordered`), and a
write that was not agrees with the entry outside the fields it was asked to change.

*Where writes go.* `Ways(G)` follows an id from where the client learns it to the
command that uses it: what is remembered, the candidates left, the id to fall back on
and the target of a command for output `o` are all in `G[o]`. It holds for any `G` that
contains what the client is told (`Closed`), so one induction serves twice. With all
ids it gives the types. With the ids that are not another thermostat's entry it gives
`RoutedToOwnEntry`; that these contain what the client is told is `Truthful`, which
`thermostat_write`'s wirings satisfy: sensors there do have the numbers of other
thermostats' entries, but the panel lists its programs, or pairs are configured, so the
sensors' numbers are not tried. `Holdings` adds what entries, copies, payloads and
answers are made of; a write must be a configuration for the entry to stay one, and by
`Letters` it is its command's payload.

*What a thermostat shows.* `ListsFirst`: a message that needs a list is handled when the
client has it, since it was asked for first. So when an entry or a status is handled,
the links are what the lists say (`Linked`): a remembered entry is the output's own, and
a linked sensor is the right one. A panel that lists programs is the delicate case:
before its list nothing of it is used (`Unlisted`), because without programs the client
would take sensors' numbers for entries'. These give `OwnSetpoint` for installations
whose numbers are distinct among outputs, among programs and among sensors
(`Numbered`), and nothing is assumed between these kinds, where the numbers do overlap. `SnapshotLast`:
the snapshot is the last answer, and only notices follow it. `UpToDate`: of the messages
under way that tell of a thermostat the last one has its setpoint, or there is none and
the client shows it; entries read again are the exception the property names. That
`RealtimeWins` is inductive by itself with the types is because each of the messages
that could replace a room temperature looks at the same time stamps.

*Registration.* `Lone`: registrations and their chains are made together, all chains but
the last are done, and a pass renames only a registered endpoint, whose chain is done.
So the endpoint changes by one hand at a time, and the rest describes the last
registration and its chain: what the chain is doing (`Worked`, `Counted`), that what is
pending is one state for all clusters, the latest one unless the device object was
replaced meanwhile, and that somebody will flush it (`Owed`), and that the endpoint has
the name it was registered under (`Known`). Flushes of a light take two steps and may
overlap: by `Ordered` a later one is never ahead of an earlier one, so the last value
pushed to a cluster is that of the last flush, and `Latest` says that it is the state.
All six need `OnePass`: that the passes of two completed syncs do not await the
unregistering of one endpoint at the same time.

*Names.* Two questions about the batch come first. Is there a name for each device? A
device has as many numbered names as there are devices, they differ in length, and each
of the others has taken one at the most (`FreeExists`, by the pigeonhole principle).
Does the recursion define anything? `NamesOf(D)` is a function chosen to satisfy its
equation, so one has to exist. The prover has no induction with the statement as a
parameter; instead, of the sets of devices that are closed under who comes before and
on which the equation can be solved, take one that leaves out as few as possible. If it
left out any, the first of these (`FirstOf`) could be added (`Extend`). With that,
`BatchGood`: no name is taken twice, and a device that does not have its label finds it
taken by one before it. The invariant `NamesInv` carries this through the incremental
names. `Holders` and `Slotted`: a slot belongs to the device that has its name, and
every name has a slot; but two devices may have the name of one slot, since a displaced
device does not look who has its new name. `LostToTheHigher` is `CleanNameToTheHigher`
with the label a device was named from in place of the one it has now. It is inductive
because outranking is transitive: when the one who holds what a device has lost is itself
displaced, the new holder outranks both. `GoodTable(store)` keeps the file, which a failed
write leaves as the table of an earlier batch, fit for a restart.
`DistinctAfterBatch` survives `Map` because the mapped device is not among the seeded.

*Left to TLC.* Everything under fairness (`Recovers`, `DeadPeerDetected`,
`EveryCallSettles`, `DisabledIsRemoved`, `ComesToRest`): the prover has no ENABLED. All
other properties of the passing runs are proved. No module declares a recursive
operator.

## What the models found

Two statements of the repository are not what the code does; each has a run that
ends in a counterexample and an entry under `findings` in `PROJECT.json`.

1. `connection_stuck`: with `reconnectInterval` below 3 s, the late close of the
   socket that `forceReconnect` abandoned clears `isConnected`, consumes
   `isManualClose` and schedules nothing.
2. `thermostat_summer`: a setpoint for a program in summer, sent before any mode
   command of this boot, is put into the winter season by the one half of the
   payload and left out by the other; the entry is written back as it was and
   the command succeeds.

Further properties are stated in the modules, and the code does not keep them.
No run checks them; they mark where the properties that do hold end.

| property | what happens |
|---|---|
| `CommandDispatcher!AwaitsOwnAnswer` | the answer of a write that timed out acknowledges the next write |
| `CommandDispatcher!EveryCallSettles` with colliding ids | the entry of one call is overwritten by another's, and its timeout finds nothing |
| `KlaresConnection!NoReconnectAfterDisconnect` | an attempt that fails after `disconnect()` schedules the next, but the process ends then |
| `KlaresConnection!NoOrphanSocket` with `LateClose` | a socket that closes after its successor opened schedules another `connect()`, which overwrites `state.ws` |
| `MatterPrune!MissesConsecutive` | a device seen while its registration is not complete keeps its old misses |
| `MatterPrune!GoneIsRemoved` | an endpoint whose device left the panel, of a type still exposed, is never removed |
| `DeviceSync!PrunedOnlyIfGone` with a partial panel | a list that came back short makes the sync prune what it did not name |
| `ThermostatWrite!RoutedToOwnEntry` without `Truthful` | an output whose own number is the entry of another thermostat: when no candidate can be read (the reads time out) and nothing is remembered, the resolver falls back on the output's number |
| `ThermostatStatus!OwnSetpoint` without `Apart` | on a panel without programs a mapped sensor's number is tried as an entry before the output's own: a sensor with the number of another output gives its thermostat that one's setpoint |
| `MatterRegistration!OneChain`, and with it the other five, with two overlapping passes | nobody waits for `finalizeNameMap` (`platform/index.ts:231`), so a second completed sync may find the endpoint registered under its old name while the first pass awaits its unregistering: both register it anew, two chains probe and recover one endpoint, and its attempts exceed three |
| `MatterRegistration!ShowsState` | a fallback or a rename started from a device object that a discovery has since replaced, and shows its state until the next status |
| `MatterNames!Distinct` | a device displaced from its clean name takes a suffixed name without looking who has it: cover 1 "Finestra" takes the name of contact 2, which becomes "Finestra Sens." beside contact 3 of that name; until the next batch |
| `MatterNames!OrderIndependent` | incremental names depend on the order of discovery; until the next batch |
| `MatterEcho!DroppedOnlyIfHeld` | the handler compares with the device it was built with, not with a write still on its way |
| `MatterEcho!ComesToRest`, `EchoWritesNothing` with `LateEcho` | an echo that comes after the next push, or after 10 s, is a command to the handler |

In `matter-thermostat-mapper.ts` the branch that lowers the heating setpoint when
the dead band is still too small cannot be reached: a clamped heating setpoint
leaves room for the band below 35.

## Not modelled

* Texts, logs, checksums, TLS options, payload layouts and units.
* `accessories/*.ts`: they copy values into HomeKit's characteristics and back. The
  simulated travel of a cover has timers of its own and would be the next module;
  the panel's next status corrects the position it shows.
* The mappers other than that of thermostats: field by field, covered by unit tests.
* The MQTT bridge: what it adds to the same commands is the text of topics and
  payloads.
* KSA import, device list, configuration files: sequential file operations at boot
  or debounced output that nothing reads back. Debug capture, telemetry and helpers:
  nothing depends on them.
* Rejections nobody handles: what they do is up to Homebridge.
* ws, Homebridge, matter.js and the panel appear only as far as the code uses
  them, and their actions are marked external in the map.

## Plan

1. **Done**: connection, dispatcher and its abstract specification, prune tracker,
   synchronisation with the HAP registry, both sides of thermostats, Matter
   registration, names and echoes; theorems as above.
2. `KlaresClient`: `KlaresConnection` and `CommandDispatcher` composed, with the link of
   the one the socket of the other. It would say what becomes of a command queued
   before a reconnection and sent before the new login is answered.
3. `CoverMotion`: the travel timer of a cover against its real-time positions.
