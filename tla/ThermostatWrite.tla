---------------------------- MODULE ThermostatWrite ----------------------------
(***************************************************************************)
(* Commands to thermostats (websocket-client/command-service.ts and        *)
(* thermostat-command-id-resolver.ts, -command-payload.ts,                 *)
(* -write-payload.ts, -config-sync.ts).                                    *)
(*                                                                         *)
(* The panel keeps a configuration entry per thermostat program and only   *)
(* takes whole entries.  A command finds out which entry is its output's,  *)
(* patches the client's copy of it and writes the result back.  Between    *)
(* these steps other commands, answers and people at the keypad go on.     *)
(***************************************************************************)
EXTENDS ThermostatIds, Sequences

CONSTANTS
    Output,        \* outputs that are thermostats
    Id,            \* ids of outputs, programs and sensors: the same numbers
    OwnId,         \* the id of each output
    EntryOf,       \* the entry that really drives the output's thermostat
    Wiring,        \* what the client may know of this: see WiringType
    Call, Ask,     \* commands, and what each asks for
    Temp,          \* setpoints
    InitConfig,    \* how entries may be at first
    MaxFaults      \* bound on keypad edits, refused writes and requests given up

Season == {"WIN", "SUM"}
Mode == {"off", "heat", "cool", "auto"}
Field == {"ACT_MODE", "ACT_SEA", "WIN", "SUM"}     \* WIN and SUM: their TM

\* manualCommandPairs, thermostatProgramIdByOutputId, thermostatToDomus, and
\* whether PRG_THERMOSTATS was received at all
WiringType == [manual : [Output -> Id \cup {None}], program : [Output -> Id \cup {None}],
               domus : [Output -> Id \cup {None}], hasPrograms : BOOLEAN]

ASSUME IdAssumption   == OwnId \in [Output -> Id] /\ EntryOf \in [Output -> Id] /\ None \notin Id
ASSUME AskAssumption  == Ask \in [Call -> [output : Output, kind : {"mode"}, value : Mode]
                                          \cup [output : Output, kind : {"setpoint"}, value : Temp]]
ASSUME WiringAssumption == Wiring \subseteq WiringType

Entry == {EntryOf[o] : o \in Output}
Config == [ACT_MODE : {"OFF", "MAN", "AUTO"}, ACT_SEA : Season, WIN : Temp, SUM : Temp]
PartialConfig == {[f \in F |-> g[f]] : F \in SUBSET Field, g \in Config}

ASSUME ConfigAssumption == InitConfig \subseteq Config /\ MaxFaults \in Nat

VARIABLES
    entries,      \* the panel's entries
    inbox,        \* requests the panel has not answered
    outbox,       \* answers the client has not handled
    faults,       \* how many there were so far
    wiring,
    cfg,          \* thermostatCfgById
    hint,         \* thermostatWriteSeasonById
    commandId,    \* thermostatCommandIdByOutputId
    pc,           \* where each command is
    todo,         \* resolving: the candidates that are left
    otherwise,    \* and the id to take when none can be read
    target,       \* the entry a command has resolved to
    payload,      \* what it writes
    queue,        \* the commands of each output, in order (CommandDispatcher)
    behind,       \* history: entries whose copy a keypad edit, a refused or an
                  \* unacknowledged write has left behind
    overlapped,   \* history: commands built while a write to the entry was under way
    unhinted      \* history: setpoints built for an entry that has no season hint

panelVars  == <<entries, inbox, outbox, faults, wiring>>
cacheVars  == <<cfg, hint, commandId>>
callVars   == <<pc, todo, otherwise, target, payload, queue>>
history    == <<behind, overlapped, unhinted>>
vars == <<panelVars, cacheVars, callVars, history>>

-----------------------------------------------------------------------------
(* Resolving the entry                                                     *)

\* ids are tried when they are known
Known(i) == IF i = None THEN <<>> ELSE <<i>>

\* variant: the sensor's id is tried first, as if it were the program's
Candidates_SensorFirst(o) ==
    Known(wiring.domus[o]) \o Known(wiring.manual[o]) \o Known(wiring.program[o])

\* resolveThermostatCommandId: the ids it primes, in order
Candidates(o) ==
    LET unlinked == IF wiring.domus[o] = OwnId[o] THEN <<OwnId[o]>>
                    ELSE Known(wiring.domus[o]) \o <<OwnId[o]>>
    IN  Known(wiring.manual[o]) \o Known(wiring.program[o])
        \o (IF commandId[o] # None \/ wiring.hasPrograms THEN <<>> ELSE unlinked)

\* the id it takes when none of them has an entry
Otherwise(o) == OrElse(commandId[o], OwnId[o])

\* applyThermostatConfigSnapshot, with the entries now: the ids it remembers
Remembered(now) ==
    [o \in Output |->
        OrElse(ConfigId(wiring.manual[o], wiring.program[o], commandId[o], wiring.domus[o],
                         OwnId[o], wiring.hasPrograms, {i \in Id : now[i] # None}), commandId[o])]

-----------------------------------------------------------------------------
(* Payloads                                                                *)

\* buildThermostatModeCfgPayload
ModePatch(m) ==
    CASE m = "off"  -> [ACT_MODE |-> "OFF"]
      [] m = "heat" -> [ACT_MODE |-> "MAN", ACT_SEA |-> "WIN"]
      [] m = "cool" -> [ACT_MODE |-> "MAN", ACT_SEA |-> "SUM"]
      [] m = "auto" -> [ACT_MODE |-> "AUTO"]

\* { ...g, ...p }: the fields of g, and those of p instead of the same in g
Onto(p, g) == [f \in DOMAIN p \cup DOMAIN g |-> IF f \in DOMAIN p THEN p[f] ELSE g[f]]

Copy(i) == IF cfg[i] = None THEN <<>> ELSE cfg[i]

\* buildThermostatModeCommandPayload
ModePayload(i, m) == Onto(ModePatch(m), Copy(i))

\* variant: the entry's own season comes before the hint
SetpointPayload_EntryFirst(i, t) ==
    LET patched == OrElse(hint[i], "WIN")
        cached  == IF "ACT_SEA" \in DOMAIN Copy(i) THEN Copy(i)["ACT_SEA"] ELSE None
        active  == OrElse(cached, OrElse(hint[i], patched))
        setpoint == IF active = patched THEN [s \in {active} |-> t] ELSE <<>>
    IN  Onto(setpoint, Onto([ACT_MODE |-> "MAN", ACT_SEA |-> active], Copy(i)))

\* buildThermostatSetpointCommandPayload.  The setpoint is put into the season of
\* the hint, or WIN; the season written is that of the hint, or the entry's.
SetpointPayload(i, t) ==
    LET patched == OrElse(hint[i], "WIN")
        cached  == IF "ACT_SEA" \in DOMAIN Copy(i) THEN Copy(i)["ACT_SEA"] ELSE None
        active  == OrElse(hint[i], OrElse(cached, patched))
        setpoint == IF active = patched THEN [s \in {active} |-> t] ELSE <<>>
    IN  Onto(setpoint, Onto([ACT_MODE |-> "MAN", ACT_SEA |-> active], Copy(i)))

PayloadOf(c) ==
    IF Ask[c].kind = "mode" THEN ModePayload(target[c], Ask[c].value)
    ELSE SetpointPayload(target[c], Ask[c].value)

\* variant: every mode is taken for a season
HintAfter_Every(i, a) == IF a.kind = "mode" THEN [hint EXCEPT ![i] = a.value] ELSE hint

\* updateThermostatSeasonHint
HintAfter(i, a) ==
    CASE a.kind = "mode" /\ a.value = "cool" -> [hint EXCEPT ![i] = "SUM"]
      [] a.kind = "mode" /\ a.value = "heat" -> [hint EXCEPT ![i] = "WIN"]
      [] OTHER -> hint

-----------------------------------------------------------------------------
(* Steps of a command                                                      *)

Request(c, op, i, p) == [call |-> c, op |-> op, id |-> i, config |-> p]

Unfinished == {"queued", "priming", "primeLate", "ready", "writing"}

Init ==
    /\ entries \in [Entry -> InitConfig]
    /\ wiring \in Wiring
    /\ inbox = <<>> /\ outbox = <<>> /\ faults = 0
    /\ cfg = [i \in Id |-> None]
    /\ hint = [i \in Id |-> None]
    /\ commandId = [o \in Output |-> None]
    /\ pc = [c \in Call |-> "idle"]
    /\ todo = [c \in Call |-> <<>>]
    /\ otherwise = [c \in Call |-> None]
    /\ target = [c \in Call |-> None]
    /\ payload = [c \in Call |-> <<>>]
    /\ queue = [o \in Output |-> <<>>]
    /\ behind = {}
    /\ overlapped = {}
    /\ unhinted = {}

\* variant: commands do not wait for each other
IsNext_Always(c) == TRUE

\* The commands of an output run one after the other.
IsNext(c) == c = Head(queue[Ask[c].output])

\* A command's continuation that is due runs before the next event.
Due(c) == \/ pc[c] \in {"resolving", "ready"}
          \/ pc[c] = "queued" /\ IsNext(c)
Quiet == \A c \in Call : ~Due(c)

\* setThermostatMode and setThermostatTemperature are called.
Start(c) ==
    /\ Quiet /\ pc[c] = "idle"
    /\ pc' = [pc EXCEPT ![c] = "resolving"]
    /\ todo' = [todo EXCEPT ![c] = Candidates(Ask[c].output)]
    /\ otherwise' = [otherwise EXCEPT ![c] = Otherwise(Ask[c].output)]
    /\ UNCHANGED <<panelVars, cacheVars, target, payload, queue, history>>

\* The command knows its entry i: a mode sets the hint, and it joins the queue.
Enqueue(c, i) ==
    /\ pc' = [pc EXCEPT ![c] = "queued"]
    /\ target' = [target EXCEPT ![c] = i]
    /\ hint' = HintAfter(i, Ask[c])
    /\ queue' = [queue EXCEPT ![Ask[c].output] = Append(@, c)]

\* resolveThermostatCommandId: the next candidate is cached, or has to be read; a
\* command without candidates left takes the other id.
Resolve(c) ==
    /\ pc[c] = "resolving"
    /\ \/ /\ todo[c] = <<>>
          /\ Enqueue(c, otherwise[c])
          /\ UNCHANGED <<inbox, commandId>>
       \/ /\ todo[c] # <<>> /\ cfg[Head(todo[c])] # None
          /\ commandId' = [commandId EXCEPT ![Ask[c].output] = Head(todo[c])]
          /\ Enqueue(c, Head(todo[c]))
          /\ UNCHANGED inbox
       \/ /\ todo[c] # <<>> /\ cfg[Head(todo[c])] = None
          /\ pc' = [pc EXCEPT ![c] = "reading"]
          /\ inbox' = Append(inbox, Request(c, "READ", Head(todo[c]), <<>>))
          /\ UNCHANGED <<target, hint, queue, commandId>>
    /\ UNCHANGED <<entries, outbox, faults, wiring, cfg, todo, otherwise, payload, history>>

\* The command's turn has come: a setpoint makes sure of its entry first.
Run(c) ==
    /\ pc[c] = "queued" /\ IsNext(c)
    /\ IF Ask[c].kind = "setpoint" /\ cfg[target[c]] = None
       THEN /\ pc' = [pc EXCEPT ![c] = "priming"]
            /\ inbox' = Append(inbox, Request(c, "READ", target[c], <<>>))
       ELSE pc' = [pc EXCEPT ![c] = "ready"] /\ UNCHANGED inbox
    /\ UNCHANGED <<entries, outbox, faults, wiring, cacheVars, todo, otherwise, target,
                   payload, queue, history>>

WritesUnderWay(i) ==
    \E m \in {inbox[n] : n \in DOMAIN inbox} \cup {outbox[n] : n \in DOMAIN outbox} :
        m.op = "WRITE_CFG" /\ m.id = i

\* It patches the copy and sends the result.
Build(c) ==
    /\ pc[c] = "ready"
    /\ overlapped' = IF WritesUnderWay(target[c]) THEN overlapped \cup {c} ELSE overlapped
    /\ unhinted' = IF hint[target[c]] = None THEN unhinted \cup {c} ELSE unhinted
    /\ pc' = [pc EXCEPT ![c] = "writing"]
    /\ payload' = [payload EXCEPT ![c] = PayloadOf(c)]
    /\ inbox' = Append(inbox, Request(c, "WRITE_CFG", target[c], PayloadOf(c)))
    /\ UNCHANGED <<entries, outbox, faults, wiring, cacheVars, todo, otherwise, target,
                   queue, behind>>

\* What primeThermostatConfigCache returns to: the loop, or the queued command.
AfterRead(c, found) ==
    IF pc[c] \in {"reading", "readLate"}
    THEN /\ pc' = [pc EXCEPT ![c] = "resolving"]
         /\ todo' = IF found THEN todo ELSE [todo EXCEPT ![c] = Tail(@)]
    ELSE pc' = [pc EXCEPT ![c] = "ready"] /\ UNCHANGED todo

Fault == faults < MaxFaults /\ faults' = faults + 1

Leave(c, how) ==
    /\ pc' = [pc EXCEPT ![c] = how]
    /\ queue' = [queue EXCEPT ![Ask[c].output] = Tail(@)]

\* 2.5 s pass without an answer, or the connection closes: a read is looked at
\* once more 150 ms later, a write has failed.
TimeOut(c) ==
    /\ Quiet /\ Fault
    /\ \/ /\ pc[c] \in {"reading", "priming"}
          /\ pc' = [pc EXCEPT ![c] = IF @ = "reading" THEN "readLate" ELSE "primeLate"]
          /\ UNCHANGED <<queue, behind>>
       \/ /\ pc[c] = "writing"
          /\ Leave(c, "failed")
          /\ behind' = behind \cup {target[c]}
    /\ UNCHANGED <<entries, inbox, outbox, wiring, cacheVars, todo, otherwise, target,
                   payload, overlapped, unhinted>>

Waited(c) ==
    /\ Quiet /\ pc[c] \in {"readLate", "primeLate"}
    /\ AfterRead(c, cfg[IF pc[c] = "readLate" THEN Head(todo[c]) ELSE target[c]] # None)
    /\ UNCHANGED <<panelVars, cacheVars, otherwise, target, payload, queue, history>>

-----------------------------------------------------------------------------
(* The panel                                                               *)

\* It answers a READ with the entry, if there is one.
PanelReads ==
    /\ Quiet /\ inbox # <<>> /\ Head(inbox).op = "READ"
    /\ inbox' = Tail(inbox)
    /\ LET r == Head(inbox)
       IN  outbox' = Append(outbox, IF r.id \in Entry
                                    THEN [r EXCEPT !.config = entries[r.id]] ELSE r)
    /\ UNCHANGED <<entries, faults, wiring, cacheVars, callVars, history>>

\* It takes what a write contains, and so undoes what changed since the copy that the
\* payload was built on.
PanelWrites ==
    /\ Quiet /\ inbox # <<>> /\ Head(inbox).op = "WRITE_CFG" /\ Head(inbox).id \in Entry
    /\ entries' = [entries EXCEPT ![Head(inbox).id] = Onto(Head(inbox).config, @)]
    /\ inbox' = Tail(inbox)
    /\ outbox' = Append(outbox, Head(inbox))
    /\ UNCHANGED <<faults, wiring, cacheVars, callVars, history>>

\* It refuses a write, one to no entry in any case; the client does not look at the result of the answer.
PanelRefuses ==
    /\ Quiet /\ inbox # <<>> /\ Head(inbox).op = "WRITE_CFG"
    /\ IF Head(inbox).id \in Entry THEN Fault ELSE UNCHANGED faults
    /\ inbox' = Tail(inbox)
    /\ outbox' = Append(outbox, Head(inbox))
    /\ behind' = behind \cup {Head(inbox).id}
    /\ UNCHANGED <<entries, wiring, cacheVars, callVars, overlapped, unhinted>>

\* Somebody changes a thermostat at its keypad; only its status is notified.
Keypad(i, f, v) ==
    /\ Quiet /\ Fault
    /\ entries' = [entries EXCEPT ![i][f] = v]
    /\ behind' = behind \cup {i}
    /\ UNCHANGED <<inbox, outbox, wiring, cacheVars, callVars, overlapped, unhinted>>

\* handleReadResponse with CFG_THERMOSTATS: the copy is replaced, the ids of the
\* outputs are resolved again, and whoever waits for this read goes on.
HandleRead ==
    /\ Quiet /\ outbox # <<>> /\ Head(outbox).op = "READ"
    /\ LET r == Head(outbox)
           now == IF r.config = <<>> THEN cfg ELSE [cfg EXCEPT ![r.id] = r.config]
       IN  /\ cfg' = now
           /\ commandId' = IF r.config = <<>> THEN commandId ELSE Remembered(now)
           /\ IF pc[r.call] \in {"reading", "priming"}
              THEN AfterRead(r.call, now[r.id] # None)
              ELSE UNCHANGED <<pc, todo>>
    /\ outbox' = Tail(outbox)
    /\ UNCHANGED <<entries, inbox, faults, wiring, hint, otherwise, target, payload, queue, history>>

\* variant: the copy is left as it was
CfgAfterWrite_Keep(r) == cfg

CfgAfterWrite(r) == [cfg EXCEPT ![r.id] = payload[r.call]]

\* WRITE_CFG_RES: what was written becomes the copy; a late one finds nobody.
HandleWritten ==
    /\ Quiet /\ outbox # <<>> /\ Head(outbox).op = "WRITE_CFG"
    /\ LET r == Head(outbox)
       IN  IF pc[r.call] = "writing"
           THEN Leave(r.call, "done") /\ cfg' = CfgAfterWrite(r)
           ELSE UNCHANGED <<pc, queue, cfg>>
    /\ outbox' = Tail(outbox)
    /\ UNCHANGED <<entries, inbox, faults, wiring, hint, commandId, todo, otherwise,
                   target, payload, history>>

Next ==
    \/ \E c \in Call : Start(c) \/ Resolve(c) \/ Run(c) \/ Build(c) \/ TimeOut(c) \/ Waited(c)
    \/ PanelReads \/ PanelWrites \/ PanelRefuses \/ HandleRead \/ HandleWritten
    \/ \E i \in Entry : \E v \in Temp, f \in Season : Keypad(i, f, v)
    \/ \E i \in Entry, v \in Season : Keypad(i, "ACT_SEA", v)

Spec == Init /\ [][Next]_vars

-----------------------------------------------------------------------------
(* Properties                                                              *)

TypeOK ==
    /\ entries \in [Entry -> Config]
    /\ \A i \in Id : cfg[i] = None \/ cfg[i] \in PartialConfig
    /\ hint \in [Id -> Season \cup {None}]
    /\ commandId \in [Output -> Id \cup {None}]
    /\ target \in [Call -> Id \cup {None}]
    /\ wiring \in WiringType
    /\ faults \in 0..MaxFaults
    /\ \A o \in Output : queue[o] \in Seq(Call)
    /\ pc \in [Call -> Unfinished \cup {"idle", "resolving", "reading", "readLate", "done", "failed"}]

\* The fields a command is asked to change.
Asked(c) ==
    IF Ask[c].kind = "setpoint" THEN {"ACT_MODE", "ACT_SEA", payload[c]["ACT_SEA"]}
    ELSE IF Ask[c].value \in {"heat", "cool"} THEN {"ACT_MODE", "ACT_SEA"} ELSE {"ACT_MODE"}

\* A setpoint or a mode leaves the rest of the entry as the panel has it, although
\* a whole entry is written: unless somebody changed the entry behind the client's
\* back, or a command for another output of the same entry was written meanwhile.
NothingElseChanges ==
    [][\A c \in Call :
         (/\ inbox # <<>> /\ Head(inbox).call = c /\ Head(inbox).op = "WRITE_CFG"
          /\ entries' # entries /\ faults' = faults
          /\ target[c] \notin behind /\ c \notin overlapped)
         => \A f \in Field \ Asked(c) : entries'[target[c]][f] = entries[target[c]][f]]_vars

\* Between a client that has seen all answers and a panel nobody else has touched,
\* the copy of an entry is the entry, in the fields it has.
CopyIsEntry ==
    \A i \in Entry :
        (/\ cfg[i] # None /\ i \notin behind
         /\ \A n \in DOMAIN inbox : inbox[n].id # i
         /\ \A n \in DOMAIN outbox : outbox[n].id # i)
        => \A f \in DOMAIN cfg[i] : cfg[i][f] = entries[i][f]

\* Commands change only the entry that drives their output's thermostat.
RoutedToOwnEntry ==
    \A c \in Call : target[c] # None => target[c] \in {EntryOf[Ask[c].output]} \cup (Id \ Entry)

\* The commands of one output never overtake each other's writes, nor start from a
\* copy that an earlier one of them is about to replace.
OneWriterPerOutput ==
    \A c, d \in Call :
        c # d /\ pc[c] = "writing" /\ pc[d] \in {"writing", "ready", "priming", "primeLate"}
        => Ask[c].output # Ask[d].output

\* A setpoint is acknowledged whose entry nobody else changed or is writing.
SetpointDone(c) ==
    /\ pc[c] = "writing" /\ pc'[c] = "done" /\ Ask[c].kind = "setpoint"
    /\ target[c] \in Entry \ behind
    /\ \A d \in Call \ {c} : target[d] = target[c] => pc[d] # "writing"

\* The panel takes the setpoint from the season it is in.
InEffect(c) == LET e == entries[target[c]] IN e[e["ACT_SEA"]] = Ask[c].value

\* When a setpoint is acknowledged it is the one in effect at the panel: in winter,
\* and in summer once a mode command has told the client the season.
SetpointTakesEffect ==
    [][\A c \in Call : SetpointDone(c) /\ (c \in unhinted => payload[c]["ACT_SEA"] = "WIN")
                      => InEffect(c)]_vars

\* The same in every season ("commands from any ecosystem reach the panel
\* correctly", README.md).  The code does not keep it: a client that has just
\* started puts the setpoint of an entry in summer nowhere, writes the entry back as
\* it was and reports success.
SetpointAlwaysTakesEffect ==
    [][\A c \in Call : SetpointDone(c) => InEffect(c)]_vars
=============================================================================
