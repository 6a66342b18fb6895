------------------------- MODULE CommandDispatcher -------------------------
(***************************************************************************)
(* How device commands reach the panel: the per-device promise queues and  *)
(* the table of pending commands of CommandDispatcher (websocket/command-  *)
(* dispatcher.ts), driven by sendKseniaCommand of CommandService           *)
(* (websocket-client/command-service.ts).                                  *)
(*                                                                         *)
(* A command is one call: a closure given to enqueueDeviceCommand, or a    *)
(* direct call such as requestSystemData. It issues the requests of its    *)
(* script one after the other. A request is a READ or WRITE_CFG that waits *)
(* for its answer, or a message that is only sent.                         *)
(*                                                                         *)
(* Promise continuations run before the next event of the process: an      *)
(* event (a callback of ws, a timer, a frame) is enabled only when Quiet.  *)
(*                                                                         *)
(* An operator with a suffix, such as Clear_Leak, is a wrong variant of    *)
(* the operator that follows it. No behaviour of the specification uses    *)
(* them; they show which mistake in the code each property would reveal.   *)
(***************************************************************************)
EXTENDS Naturals, Sequences

CONSTANTS
    Cmd,          \* calls; each is made at most once
    None,         \* undefined
    Device,       \* device ids: the keys of commandQueues
    DeviceOf,     \* the device of a queued call, None for a direct one
    Script,       \* the requests a call makes
    Id,           \* message ids: floor(random * 100000)
    UniqueIds,    \* do the ids drawn differ from all those in use?
    EchoIds       \* does the panel answer with the id of the request?

\* prime is the READ of primeThermostatConfigCache, whose failure is swallowed;
\* write is WRITE_CFG; user is CMD_USR and sync a READ of requestSystemData,
\* both without awaitResponse.
Kind == {"prime", "write", "user", "sync"}
Awaits(k) == k \in {"prime", "write"}
AnswerTo == [k \in Kind |-> CASE k = "write" -> "WRITE_CFG_RES"
                              [] k = "user"  -> "CMD_USR_RES"
                              [] OTHER       -> "READ_RES"]

Answer == [cmd : Cmd, step : Nat, id : Id]   \* to a request of a call

ASSUME NoneAssumption   == None \notin Cmd \cup Device \cup Id \cup Answer
ASSUME DeviceAssumption == DeviceOf \in [Cmd -> Device \cup {None}]
ASSUME ScriptAssumption ==
    /\ Script \in [Cmd -> Seq(Kind)]
    /\ \A c \in Cmd : Len(Script[c]) > 0 /\ Script[c][Len(Script[c])] # "prime"
ASSUME IdAssumption == UniqueIds \in BOOLEAN /\ EchoIds \in BOOLEAN

VARIABLES
    phase,     \* how far the call is
    step,      \* its request: an index of Script[c]
    id,        \* the message id of that request
    pred,      \* the promise the call is chained to, as the call that owns it
    tail,      \* commandQueues
    pending,   \* pendingCommands
    timer,     \* is the timeout of the request running?
    promise,   \* the promise of registerPendingCommand
    link,      \* state.ws: "open", "closing" (frames still arrive) or "down"
    owed,      \* requests on the wire which the panel has not answered
    \* history
    order,     \* when the call was made
    clock,     \* number of calls made
    orphaned,  \* calls whose queue clearCommandQueues forgot
    ackedBy    \* the request whose answer resolved the promise

lineVars == <<pred, tail, order, clock, orphaned>>
callVars == <<phase, step, id>>
tableVars == <<pending, timer, promise, ackedBy>>
vars == <<callVars, lineVars, tableVars, link, owed>>

InFlight == {"sending", "waiting"}
Running  == InFlight \cup {"next", "pause"}   \* pause: the 150 ms after a failed prime
Settled  == {"ok", "failed"}
Phase    == {"new", "queued"} \cup Running \cup Settled
Active(c) == phase[c] \in Running \cup {"queued"}

Request(c)   == Script[c][step[c]]
OwnAnswer(c) == [cmd |-> c, step |-> step[c], id |-> id[c]]

TypeOK ==
    /\ phase \in [Cmd -> Phase]
    /\ step \in [Cmd -> Nat] /\ \A c \in Cmd : step[c] \in 1..Len(Script[c])
    /\ id \in [Cmd -> Id \cup {None}]
    /\ \A c \in Cmd : phase[c] \in InFlight => id[c] \in Id
    /\ pred \in [Cmd -> Cmd \cup {None}]
    /\ tail \in [Device -> Cmd \cup {None}]
    /\ pending \in [Id -> Cmd \cup {None}]
    /\ timer \in [Cmd -> BOOLEAN]
    /\ promise \in [Cmd -> {"none", "open", "ok", "rejected"}]
    /\ link \in {"open", "closing", "down"}
    /\ owed \in SUBSET Answer
    /\ \A o \in owed : o.step \in 1..Len(Script[o.cmd])
    /\ order \in [Cmd -> Nat] /\ clock \in Nat
    /\ orphaned \in SUBSET Cmd
    /\ ackedBy \in [Cmd -> Answer \cup {None}]

Init ==
    /\ phase = [c \in Cmd |-> "new"]
    /\ step = [c \in Cmd |-> 1]
    /\ id = [c \in Cmd |-> None]
    /\ pred = [c \in Cmd |-> None]
    /\ tail = [d \in Device |-> None]
    /\ pending = [i \in Id |-> None]
    /\ timer = [c \in Cmd |-> FALSE]
    /\ promise = [c \in Cmd |-> "none"]
    /\ link = "open"
    /\ owed = {}
    /\ order = [c \in Cmd |-> 0] /\ clock = 0
    /\ orphaned = {}
    /\ ackedBy = [c \in Cmd |-> None]
-----------------------------------------------------------------------------
\* Continuations that are due: a queued call whose predecessor has settled,
\* and a call whose last request is over.
Ready(c) == /\ phase[c] = "queued"
            /\ pred[c] \in {None} \cup {p \in Cmd : phase[p] \in Settled}
Quiet == \A c \in Cmd : ~Ready(c) /\ phase[c] # "next"

\* How the closure goes on when the await of its request returns or throws:
\* only primeThermostatConfigCache catches the error.
PhaseAfter(c, ok) ==
    CASE ok /\ step[c] < Len(Script[c]) -> "next"
      [] ok /\ step[c] = Len(Script[c]) -> "ok"
      [] ~ok /\ Request(c) = "prime"    -> "pause"
      [] ~ok /\ Request(c) # "prime"    -> "failed"

Return(S, ok) ==
    /\ phase' = [c \in Cmd |-> IF c \in S THEN PhaseAfter(c, ok) ELSE phase[c]]
    /\ step' = [c \in Cmd |-> IF c \in S /\ PhaseAfter(c, ok) \in Running
                              THEN step[c] + 1 ELSE step[c]]
    /\ UNCHANGED <<id, pred, order, clock>>

\* The .finally of enqueueDeviceCommand, for every call that settles.
Finally ==
    tail' = [d \in Device |->
              IF tail[d] # None /\ phase'[tail[d]] \in Settled THEN None ELSE tail[d]]

Finish(S, ok) == Return(S, ok) /\ Finally /\ UNCHANGED orphaned

\* Calls of S that already await the answer; one that still awaits the send
\* callback notices later.
Waiting(S) == {c \in S : phase[c] = "waiting"}

\* clearPendingCommand: whatever call owns the entry loses it and its timer.
Clear_Leak(i) == UNCHANGED <<pending, timer>>
Clear(i) ==
    /\ pending' = [pending EXCEPT ![i] = None]
    /\ timer' = [c \in Cmd |-> timer[c] /\ pending[i] # c]

\* rejectAllPendingCommands
RejectAll_Silent ==
    /\ pending' = [i \in Id |-> None]
    /\ timer' = [c \in Cmd |-> timer[c] /\ \A i \in Id : pending[i] # c]
    /\ Return({}, FALSE)
    /\ UNCHANGED <<promise, ackedBy>>
RejectAll ==
    LET S == {pending[i] : i \in Id} \ {None}
    IN  /\ pending' = [i \in Id |-> None]
        /\ timer' = [c \in Cmd |-> timer[c] /\ c \notin S]
        /\ promise' = [c \in Cmd |-> IF c \in S THEN "rejected" ELSE promise[c]]
        /\ Return(Waiting(S), FALSE)
        /\ UNCHANGED ackedBy
-----------------------------------------------------------------------------
\* enqueueDeviceCommand, or the direct call of an async method.
ChainTo_Nothing(c) == None
ChainTo(c) == IF DeviceOf[c] = None THEN None ELSE tail[DeviceOf[c]]

Call(c) ==
    /\ phase[c] = "new"
    /\ phase' = [phase EXCEPT ![c] = "queued"]
    /\ pred' = [pred EXCEPT ![c] = ChainTo(c)]
    /\ tail' = IF DeviceOf[c] = None THEN tail
               ELSE [tail EXCEPT ![DeviceOf[c]] = c]
    /\ order' = [order EXCEPT ![c] = clock]
    /\ clock' = clock + 1
    /\ UNCHANGED <<step, id, orphaned, tableVars, link, owed>>

\* sendKseniaCommand up to its first await.
CanRun(c) == Ready(c) \/ phase[c] \in {"next", "pause"}

\* Ids of requests that are in the table, on the wire or under way.
IdsInUse == {id[e] : e \in {e \in Cmd : phase[e] \in InFlight}} \cup {o.id : o \in owed}

\* One unused id is as good as another.
Fresh(i) == i \notin IdsInUse /\ i = CHOOSE j \in Id : j \notin IdsInUse

\* registerPendingCommand
Register(c, i) ==
    /\ pending' = [pending EXCEPT ![i] = c]
    /\ timer' = [timer EXCEPT ![c] = TRUE]
    /\ promise' = [promise EXCEPT ![c] = "open"]

Issue(c, i) ==
    /\ CanRun(c)
    /\ link = "open"
    /\ UniqueIds => Fresh(i)
    /\ phase' = [phase EXCEPT ![c] = "sending"]
    /\ id' = [id EXCEPT ![c] = i]
    /\ owed' = owed \cup {[cmd |-> c, step |-> step[c], id |-> i]}
    /\ ackedBy' = [ackedBy EXCEPT ![c] = None]
    /\ IF Awaits(Request(c))
       THEN Register(c, i)
       ELSE promise' = [promise EXCEPT ![c] = "none"] /\ UNCHANGED <<pending, timer>>
    /\ UNCHANGED <<step, lineVars, link>>

\* 'WebSocket not connected'
IssueFails(c) ==
    /\ CanRun(c)
    /\ link # "open"
    /\ Finish({c}, FALSE)
    /\ UNCHANGED <<tableVars, link, owed>>

\* The configuration is in the cache: primeThermostatConfigCache returns.
SkipPrime(c) ==
    /\ CanRun(c)
    /\ Request(c) = "prime"
    /\ Finish({c}, TRUE)
    /\ UNCHANGED <<tableVars, link, owed>>
-----------------------------------------------------------------------------
\* The callback of ws.send.
SendDone(c) ==
    /\ Quiet
    /\ phase[c] = "sending"
    /\ CASE promise[c] = "open" ->
              /\ phase' = [phase EXCEPT ![c] = "waiting"]
              /\ UNCHANGED <<step, id, lineVars, pending, timer>>
         [] promise[c] = "rejected" -> Clear(id[c]) /\ Finish({c}, FALSE)
         [] OTHER -> Finish({c}, TRUE) /\ UNCHANGED <<pending, timer>>
    /\ UNCHANGED <<promise, ackedBy, link, owed>>

SendFail(c) ==
    /\ Quiet
    /\ phase[c] = "sending"
    /\ Clear(id[c])
    /\ owed' = owed \ {OwnAnswer(c)}
    /\ Finish({c}, FALSE)
    /\ UNCHANGED <<promise, ackedBy, link>>

\* The timeout callback of registerPendingCommand.
TimeOut(c) ==
    /\ Quiet
    /\ timer[c]
    /\ timer' = [timer EXCEPT ![c] = FALSE]
    /\ pending' = [pending EXCEPT ![id[c]] = None]
    /\ promise' = [promise EXCEPT ![c] = "rejected"]
    /\ Finish(Waiting({c}), FALSE)
    /\ UNCHANGED <<ackedBy, link, owed>>

\* resolvePendingCommand: the calls a message with this id and CMD resolves.
Compatible_AnyKind(cmd) == {c \in Cmd : \E i \in Id : pending[i] = c}
Compatible(cmd) ==
    {c \in Cmd : (\E i \in Id : pending[i] = c) /\ AnswerTo[Request(c)] = cmd}
Sole(S) == IF \E c \in S : S = {c} THEN S ELSE {}

Targets_All(i, cmd) ==
    IF pending[i] # None THEN {pending[i]} \cap Compatible(cmd) ELSE Compatible(cmd)
Targets_Fallback(i, cmd) == Sole(Compatible(cmd))
Targets(i, cmd) ==
    IF pending[i] # None THEN {pending[i]} \cap Compatible(cmd)
                         ELSE Sole(Compatible(cmd))

Receive(o, i) ==
    LET S == Targets(i, AnswerTo[Script[o.cmd][o.step]])
    IN  /\ Quiet
        /\ link # "down"
        /\ o \in owed
        /\ EchoIds => i = o.id
        /\ owed' = owed \ {o}
        /\ pending' = [j \in Id |-> IF pending[j] \in S THEN None ELSE pending[j]]
        /\ timer' = [c \in Cmd |-> timer[c] /\ c \notin S]
        /\ promise' = [c \in Cmd |-> IF c \in S THEN "ok" ELSE promise[c]]
        /\ ackedBy' = [c \in Cmd |-> IF c \in S THEN o ELSE ackedBy[c]]
        /\ Finish(Waiting(S), TRUE)
        /\ UNCHANGED link
-----------------------------------------------------------------------------
\* The panel, the network or a refused login starts the closing handshake.
LinkCloses ==
    /\ Quiet
    /\ link = "open"
    /\ link' = "closing"
    /\ UNCHANGED <<callVars, lineVars, tableVars, owed>>

\* The close event of state.ws.  ws has run every send callback by then.
CloseEvent ==
    /\ Quiet
    /\ link # "down"
    /\ \A c \in Cmd : phase[c] # "sending"
    /\ RejectAll /\ Finally
    /\ link' = "down"
    /\ owed' = {}
    /\ UNCHANGED orphaned

ForceReconnect ==
    /\ Quiet
    /\ link # "down"
    /\ RejectAll /\ Finally
    /\ link' = "closing"
    /\ UNCHANGED <<owed, orphaned>>

\* disconnect(): clearCommandQueues, then the rejections, whose .finally
\* handlers find no entry of theirs.
Disconnect ==
    /\ Quiet
    /\ tail' = [d \in Device |-> None]
    /\ orphaned' = {c \in Cmd : phase[c] # "new"}
    /\ RejectAll
    /\ link' = IF link = "open" THEN "closing" ELSE link
    /\ UNCHANGED owed

\* connect() has opened a new socket.  It comes about a second after the close at
\* the earliest (reconnectInterval >= 1000 ms), so every 150 ms pause is over.
Reopen ==
    /\ Quiet
    /\ link = "down"
    /\ \A c \in Cmd : phase[c] # "pause"
    /\ link' = "open"
    /\ UNCHANGED <<callVars, lineVars, tableVars, owed>>

CallStep(c) ==
    \/ Call(c)
    \/ \E i \in Id : Issue(c, i)
    \/ IssueFails(c)
    \/ SkipPrime(c)
    \/ SendDone(c)
    \/ SendFail(c)
    \/ TimeOut(c)

Next ==
    \/ \E c \in Cmd : CallStep(c)
    \/ \E o \in owed, i \in Id : Receive(o, i)
    \/ LinkCloses \/ CloseEvent \/ ForceReconnect \/ Disconnect \/ Reopen

Spec == Init /\ [][Next]_vars

\* The event loop runs every due continuation, timers fire, and ws reports the
\* outcome of every send.  The panel need not answer, the link need not come up.
Progress(c) ==
    /\ WF_vars((\E i \in Id : Issue(c, i)) \/ IssueFails(c) \/ SkipPrime(c))
    /\ WF_vars(SendDone(c) \/ SendFail(c))
    /\ WF_vars(TimeOut(c))
FairSpec == Spec /\ \A c \in Cmd : Progress(c)
-----------------------------------------------------------------------------
\* e is an unfinished call made before c, in the same queue.
Ahead(e, c) ==
    /\ DeviceOf[e] = DeviceOf[c] /\ DeviceOf[c] \in Device
    /\ e \notin orphaned /\ c \notin orphaned
    /\ Active(e)
    /\ order[e] < order[c]

\* A queued call starts only when every earlier call for its device has settled:
\* the promise chain of enqueueDeviceCommand keeps the order, although a settling
\* call may delete the entry of the map while others are being chained.
DeviceFifo == \A c, e \in Cmd : phase[c] \in Running => ~Ahead(e, c)

\* No two requests of one device are on the wire together, not even when
\* disconnect() has forgotten the queue of a call that is still running.
OneInFlight ==
    \A c, e \in Cmd :
        /\ DeviceOf[c] = DeviceOf[e] /\ DeviceOf[c] # None
        /\ phase[c] \in InFlight /\ phase[e] \in InFlight
        => c = e

\* An entry of pendingCommands belongs to the call that is now using this id, and
\* its timeout runs: nothing is left behind that a later message could resolve.
EntryIsLive ==
    \A i \in Id, c \in Cmd : pending[i] = c =>
        /\ phase[c] \in InFlight
        /\ id[c] = i
        /\ timer[c] /\ promise[c] = "open"

\* The timeout of a call that awaits its answer is running: it cannot wait for
\* ever and hold up the queue of its device.
NeverStranded == \A c \in Cmd : phase[c] = "waiting" => timer[c]

\* A request whose promise is open has not been answered yet: resolvePending-
\* Command never drops the answer of a request that is waiting for it, even when
\* it arrives before the callback of the send.
AnswerNotLost ==
    \A c \in Cmd : phase[c] \in InFlight /\ promise[c] = "open" => OwnAnswer(c) \in owed

\* One message resolves one command: the fallback for mismatched ids of
\* resolvePendingCommand does not let two commands share an answer.
OneAnswerOneCommand ==
    \A c, e \in Cmd : c # e /\ ackedBy[c] # None => ackedBy[c] # ackedBy[e]

\* A write succeeds only on a WRITE_CFG_RES received after it was issued,
\* whatever ids the panel answers with (sendKseniaCommand, awaitResponse).
NoSilentSuccess ==
    \A c \in Cmd : phase[c] = "ok" /\ Request(c) = "write" =>
        ackedBy[c] # None /\ Script[ackedBy[c].cmd][ackedBy[c].step] = "write"

\* A write waits for the answer to itself (README.md:112).  resolvePendingCommand
\* does not keep this: the late answer of a command that timed out resolves the
\* command that follows it.
AwaitsOwnAnswer ==
    \A c \in Cmd : promise[c] = "ok" /\ phase[c] \in {"sending", "ok"} =>
        ackedBy[c] = OwnAnswer(c)

\* The calls for one device are served one after the other in the order they were
\* made, and each settles once with a result that stands: the promise chains and
\* the pending table of CommandDispatcher implement the ticket server.
Service == INSTANCE TicketServer
    WITH Customer <- Cmd, ticket <- order, next <- clock, loose <- orphaned,
         status <- [c \in Cmd |-> IF phase[c] \in Running THEN "busy" ELSE phase[c]]
ServesInOrder == Service!Spec

\* Every call settles, whether or not the panel answers and whatever happens to
\* the connection, so no device queue is blocked for good.
EveryCallSettles == \A c \in Cmd : phase[c] = "queued" ~> phase[c] \in Settled
=============================================================================
