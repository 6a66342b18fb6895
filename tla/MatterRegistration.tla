-------------------------- MODULE MatterRegistration --------------------------
(***************************************************************************)
(* How a device becomes a Matter endpoint and its state gets there         *)
(* (platform/matter-accessory-registry.ts, matter-registration-recovery.ts,*)
(* matter-register-probe.ts, matter-state-update-queue.ts,                 *)
(* matter-state-updates.ts, matter-fallback-store.ts and                   *)
(* matter-name-finalizer.ts).                                              *)
(*                                                                         *)
(* Each call of registerAccessory makes a registration and a chain of      *)
(* awaits that registers, probes and recovers it.  Meanwhile the client    *)
(* reports states, the panel is discovered again, updates are flushed and  *)
(* a pass may rename the endpoint, which makes another registration.       *)
(* Devices do not share any of this: the module follows one.               *)
(***************************************************************************)
EXTENDS Naturals, Sequences, SequencesExt

CONSTANTS
    None,
    Kinds,         \* what the device may be: "light" or "thermostat"
    Value,         \* its states
    Name,          \* names the name service may give it
    Pass,          \* rename passes that can overlap
    MaxRegs,       \* bound on registrations of one boot
    MaxFlushes,    \* bound on flushes that await their updates together
    MaxFaults      \* bound on calls that fail or come up late

Cluster == {"onOff", "levelControl", "thermostat", "temperature"}
ShapeName == {"light", "thermostat", "temperature"}

\* An endpoint as the server has it: what it shows of each cluster, if it was told.
Endpoint ==
    [shape : ShapeName, name : Name, answers : {"yes", "late", "no"},
     shows : UNION {[S -> Value \cup {None}] : S \in SUBSET Cluster}]

ASSUME KindsAssumption == Kinds \subseteq {"light", "thermostat"}
ASSUME NoneAssumption  == None \notin Name \cup Value \cup Endpoint
ASSUME BoundAssumption == MaxRegs \in Nat /\ MaxFlushes \in Nat /\ MaxFaults \in Nat

VARIABLES
    kind, value,     \* the device and its state
    wanted,          \* the name resolveName gives
    endpoint,        \* the endpoint that Homebridge's Matter server has
    faults,
    marker,          \* thermostatFallbackUUIDs, the fallback store
    regs, current,   \* the registrations made, and which one is in the map: 0 for none
    chain,           \* where the awaits of each call of registerAccessory are
    timer,           \* flushTimers
    flushes,         \* the updates each running flush has left; it awaits the first
    pass,            \* rename passes
    deferred         \* history: the name changed, and no rename pass could tell the server since

device == <<kind, value, wanted>>
server == <<endpoint, faults>>
updates == <<timer, flushes>>
vars == <<device, server, marker, regs, current, chain, updates, pass, deferred>>

-----------------------------------------------------------------------------
(* Devices and their updates                                               *)

\* A device object d: None is the one of the client, of which every reader sees the
\* state now; one that a new discovery has replaced keeps its last state.
StateOf(d) == IF d = None THEN value ELSE d

\* A thermostat is registered as a temperature sensor once it had to be.
Shape == IF kind = "thermostat" /\ marker THEN "temperature" ELSE kind

Clusters(shape) == IF shape = "light" THEN <<"onOff", "levelControl">> ELSE <<shape>>

\* buildStateUpdates
Updates(shape, v) == [c \in ToSet(Clusters(shape)) |-> v]

\* A flush takes the updates in the order they were built.
InOrder(pending) ==
    LET Of(c) == IF c \in DOMAIN pending THEN <<[cluster |-> c, value |-> pending[c]]>> ELSE <<>>
    IN  Of("onOff") \o Of("levelControl") \o Of("thermostat") \o Of("temperature")

NewReg(d, v) ==
    [status |-> "pending", shape |-> Shape, name |-> wanted, liveName |-> None,
     attempts |-> 0, pending |-> Updates(Shape, v), dev |-> d]

Init ==
    /\ kind \in Kinds /\ value \in Value /\ wanted \in Name
    /\ endpoint = None /\ faults = 0
    /\ marker = FALSE
    /\ regs = <<>> /\ current = 0 /\ chain = <<>>
    /\ timer = FALSE /\ flushes = <<>>
    /\ pass = [p \in Pass |-> [at |-> "idle", dev |-> None]]
    /\ deferred = FALSE

-----------------------------------------------------------------------------
(* The registry                                                            *)

\* registerAccessory of device object d in state v, with registrations R, chains C
Register(d, v, R, C) ==
    /\ Len(R) < MaxRegs
    /\ regs' = Append(R, NewReg(d, v)) /\ current' = Len(R) + 1
    /\ chain' = Append(C, [at |-> "registering", reg |-> Len(R) + 1, dev |-> d])

\* enqueueStateFor the client's device object, in state v: what waits for the same
\* cluster is replaced.
Enqueued(r, v) ==
    LET new == Updates(Shape, v)
    IN  [r EXCEPT !.pending = [c \in DOMAIN new \cup DOMAIN @ |->
                                  IF c \in DOMAIN new THEN new[c] ELSE r.pending[c]],
                  !.dev = None]

\* variant: updates wait for the next one
Flushed_Never(R, cur) == timer

\* scheduleFlush, with registrations R
Flushed(R, cur) == timer \/ (cur # 0 /\ R[cur].pending # <<>>)

\* The client's device object is in state v: it reports that, or it is a new object
\* that a discovery made, while R and C have kept the old one.
Update(v, R, C, isNew) ==
    /\ value' = v
    /\ \/ current = 0 /\ Register(None, v, R, C) /\ UNCHANGED timer
       \/ /\ current # 0 /\ R[current].status = "failed"
          /\ regs' = R /\ chain' = C
          /\ UNCHANGED <<current, timer>>
       \/ /\ current # 0 /\ R[current].status # "failed"
          /\ LET refreshed == IF isNew /\ R[current].status = "registered"
                              THEN [R[current] EXCEPT !.shape = Shape, !.name = wanted]
                              ELSE R[current]
             IN  regs' = [R EXCEPT ![current] = Enqueued(refreshed, v)]
          /\ timer' = IF isNew /\ R[current].status = "pending" THEN timer
                      ELSE Flushed(regs', current)
          /\ chain' = C
          /\ UNCHANGED current
    /\ UNCHANGED <<kind, wanted, server, marker, flushes, deferred>>

\* updateAccessoryState
StatusUpdate(v) == Update(v, regs, chain, FALSE) /\ UNCHANGED pass

\* addOrUpdateAccessory, after the client has made a new object
Keep(x) == IF "at" \in DOMAIN x /\ x.at \in {"idle", "done"} THEN x ELSE [x EXCEPT !.dev = StateOf(@)]
Discover(v) ==
    /\ Update(v, [n \in DOMAIN regs |-> Keep(regs[n])], [n \in DOMAIN chain |-> Keep(chain[n])], TRUE)
    /\ pass' = [p \in Pass |-> Keep(pass[p])]

-----------------------------------------------------------------------------
(* A chain: register, probe, recover                                       *)

\* A call of registerPlatformAccessories ends: the endpoint is there and answers, or
\* does not yet, or it was refused.
Outcome == {"yes", "late", "error"}
CallEnds(how, shape, name) ==
    /\ faults' = IF how = "yes" THEN faults ELSE faults + 1
    /\ faults' <= MaxFaults
    /\ endpoint' = IF how = "error" THEN endpoint
                   ELSE [shape |-> shape, name |-> name, answers |-> how,
                         shows |-> [c \in ToSet(Clusters(shape)) |-> None]]

Done == [at |-> "done", reg |-> 0, dev |-> None]

\* completeRegistration, up to the probe: of the registration there is now.
Completing(k, R) ==
    IF current # 0 /\ R[current].status = "pending"
    THEN [chain[k] EXCEPT !.at = "probing", !.reg = current]
    ELSE Done

Failed(r) == [r EXCEPT !.status = "failed", !.pending = <<>>]

ChainGoes(k, R, next) ==
    /\ regs' = R
    /\ chain' = [chain EXCEPT ![k] = next]
    /\ UNCHANGED <<device, current, flushes, pass, deferred>>

RegisterEnds(k, how) ==
    /\ chain[k].at = "registering"
    /\ LET r == chain[k].reg
           named == [regs EXCEPT ![r].liveName = regs[r].name]
       IN  /\ CallEnds(how, regs[r].shape, regs[r].name)
           /\ CASE how # "error"      -> ChainGoes(k, named, Completing(k, named))
                [] how = "error" /\ kind = "thermostat" ->
                     ChainGoes(k, regs, [chain[k] EXCEPT !.at = "fallback", !.reg = current])
                [] OTHER -> ChainGoes(k, [regs EXCEPT ![current] = Failed(@)],
                                      Done)
    /\ UNCHANGED <<marker, timer>>

\* handleMissingRegisteredAccessory, unless it falls back: one more registration,
\* another one after a purge, and no more.
Retried(k, R) ==
    LET r == chain[k].reg
    IN  CASE R[r].attempts = 1 -> ChainGoes(k, R, [chain[k] EXCEPT !.at = "again"])
          [] R[r].attempts = 2 -> ChainGoes(k, R, [chain[k] EXCEPT !.at = "purging"])
          [] OTHER -> ChainGoes(k, [R EXCEPT ![r] = Failed(@)], Done)

\* What registerFallbackAccessory makes of the registration.
FallenBack(r, d) ==
    [status |-> "pending", shape |-> "temperature", name |-> wanted, liveName |-> wanted,
     attempts |-> 0, pending |-> Updates("temperature", StateOf(d)), dev |-> d]

\* variant: the fallback is not stored
MarkerAfter_Forget(how) == marker

MarkerAfter(how) == marker \/ how # "error"

FallbackEnds(k, how) ==
    /\ chain[k].at \in {"fallback", "recovering"}
    /\ CallEnds(how, "temperature", wanted)
    /\ marker' = MarkerAfter(how)
    /\ LET r == chain[k].reg
           fallen == [regs EXCEPT ![r] = FallenBack(@, chain[k].dev)]
       IN  CASE how # "error" -> ChainGoes(k, fallen, Completing(k, fallen))
             [] how = "error" /\ chain[k].at = "recovering" -> Retried(k, regs)
             [] OTHER -> ChainGoes(k, [regs EXCEPT ![r] = Failed(@)],
                                   Done)
    /\ UNCHANGED timer

\* variant: a settle time instead of the probe
Queryable_Always(r) == TRUE

\* probeUntilQueryable asks for the cluster of the first update, or of the accessory.
Queryable(r) ==
    LET asked == IF r.pending = <<>> THEN Head(Clusters(r.shape))
                 ELSE InOrder(r.pending)[1].cluster
    IN  endpoint # None /\ endpoint.answers = "yes" /\ asked \in DOMAIN endpoint.shows

ProbeAnswers(k) ==
    /\ chain[k].at = "probing" /\ Queryable(regs[chain[k].reg])
    /\ ChainGoes(k, [regs EXCEPT ![chain[k].reg].status = "registered"],
                 Done)
    /\ marker' = IF regs[chain[k].reg].shape = "thermostat" THEN FALSE ELSE marker
    /\ timer' = Flushed(regs', current)
    /\ UNCHANGED server

ProbeTimesOut(k) ==
    /\ chain[k].at = "probing" /\ ~Queryable(regs[chain[k].reg])
    /\ LET r == chain[k].reg
           missed == [regs EXCEPT ![r].attempts = @ + 1]
       IN  IF kind = "thermostat" /\ ~marker
           THEN ChainGoes(k, missed, [chain[k] EXCEPT !.at = "recovering", !.dev = regs[r].dev])
           ELSE Retried(k, missed)
    /\ UNCHANGED <<server, marker, timer>>

PurgeEnds(k) ==
    /\ chain[k].at = "purging"
    /\ endpoint' = None
    /\ ChainGoes(k, regs, [chain[k] EXCEPT !.at = "again"])
    /\ UNCHANGED <<faults, marker, timer>>

AgainEnds(k, how) ==
    /\ chain[k].at = "again"
    /\ LET r == chain[k].reg
           named == [regs EXCEPT ![r].liveName = regs[r].name]
       IN  /\ CallEnds(how, regs[r].shape, regs[r].name)
           /\ IF how # "error" THEN ChainGoes(k, named, Completing(k, named))
              ELSE ChainGoes(k, [regs EXCEPT ![r] = Failed(@)], Done)
    /\ UNCHANGED <<marker, timer>>

ChainStep(k) ==
    \/ ProbeAnswers(k) \/ ProbeTimesOut(k) \/ PurgeEnds(k)
    \/ \E how \in Outcome : RegisterEnds(k, how) \/ FallbackEnds(k, how) \/ AgainEnds(k, how)

\* The endpoint comes up after all.
ComesUp ==
    /\ endpoint # None /\ endpoint.answers = "late"
    /\ endpoint' = [endpoint EXCEPT !.answers = "yes"]
    /\ UNCHANGED <<device, faults, marker, regs, current, chain, updates, pass, deferred>>

-----------------------------------------------------------------------------
(* Flushes                                                                 *)

\* updateAccessoryState of the server: an update that finds no endpoint, or another
\* one, is lost.
Pushed(u) ==
    IF endpoint # None /\ endpoint.answers = "yes" /\ u.cluster \in DOMAIN endpoint.shows
    THEN [endpoint EXCEPT !.shows[u.cluster] = u.value]
    ELSE endpoint

\* The timer is due: everything pending is taken, and the first of it pushed.
Flush ==
    /\ timer /\ timer' = FALSE
    /\ IF current # 0 /\ regs[current].status = "registered" /\ regs[current].pending # <<>>
       THEN LET list == InOrder(regs[current].pending)
            IN  /\ Len(flushes) < MaxFlushes
                /\ flushes' = Append(flushes, list)
                /\ endpoint' = Pushed(list[1])
                /\ regs' = [regs EXCEPT ![current].pending = <<>>]
       ELSE UNCHANGED <<flushes, endpoint, regs>>
    /\ UNCHANGED <<device, faults, marker, current, chain, pass, deferred>>

\* An update has been taken: those of one cluster are in their order.
PushEnds(n) ==
    /\ \A m \in 1..(n - 1) : flushes[m][1].cluster # flushes[n][1].cluster
    /\ LET left == Tail(flushes[n])
       IN  IF left = <<>>
           THEN flushes' = RemoveAt(flushes, n) /\ UNCHANGED endpoint
           ELSE flushes' = [flushes EXCEPT ![n] = left] /\ endpoint' = Pushed(left[1])
    /\ UNCHANGED <<device, faults, marker, regs, current, chain, timer, pass, deferred>>

-----------------------------------------------------------------------------
(* Renames and restarts                                                    *)

\* Another device takes this one's name; nothing is told to the server.
Displace(n) ==
    /\ wanted' = n
    /\ deferred' = TRUE
    /\ UNCHANGED <<kind, value, server, marker, regs, current, chain, updates, pass>>

\* variant: a registration that is still pending is refreshed too
Refreshes_Pending(n) == regs[current].status # "failed" /\ regs[current].liveName # n

\* variant: the name of the accessory is compared, not the one the server was told
Refreshes_Mapped(n) == regs[current].status = "registered" /\ regs[current].name # n

\* A registered endpoint under another name is registered anew.
Refreshes(n) == regs[current].status = "registered" /\ regs[current].liveName # n

\* finalizeNameMap: the initial sync is complete, and the names are computed anew.
StartPass(p, n) ==
    /\ pass[p].at = "idle"
    /\ wanted' = n
    /\ current # 0
    /\ deferred' = (regs[current].status # "registered" /\ regs[current].liveName # n)
    /\ pass' = IF Refreshes(n)
               THEN [pass EXCEPT ![p] = [at |-> "unregistering", dev |-> None]] ELSE pass
    /\ UNCHANGED <<kind, value, server, marker, regs, current, chain, updates>>

\* The old endpoint is gone, and the device is registered under its new name.
PassGoesOn(p) ==
    /\ pass[p].at = "unregistering"
    /\ endpoint' = None
    /\ pass' = [pass EXCEPT ![p] = [at |-> "idle", dev |-> None]]
    /\ Register(pass[p].dev, StateOf(pass[p].dev), regs, chain)
    /\ UNCHANGED <<device, faults, marker, updates, deferred>>

\* The process is restarted.  The server has stored the endpoint, but no accessory.
Restart ==
    /\ endpoint' = IF endpoint = None THEN None ELSE [endpoint EXCEPT !.answers = "no"]
    /\ regs' = <<>> /\ current' = 0 /\ chain' = <<>>
    /\ timer' = FALSE /\ flushes' = <<>>
    /\ pass' = [p \in Pass |-> [at |-> "idle", dev |-> None]]
    /\ deferred' = FALSE
    /\ UNCHANGED <<device, faults, marker>>

Next ==
    \/ \E v \in Value : StatusUpdate(v) \/ Discover(v)
    \/ \E k \in DOMAIN chain : ChainStep(k)
    \/ ComesUp
    \/ Flush
    \/ \E n \in DOMAIN flushes : PushEnds(n)
    \/ \E n \in Name : Displace(n)
    \/ \E p \in Pass : PassGoesOn(p) \/ \E n \in Name : StartPass(p, n)
    \/ Restart

Spec == Init /\ [][Next]_vars

-----------------------------------------------------------------------------
(* Properties                                                              *)

Reg ==
    [status : {"pending", "registered", "failed"}, shape : ShapeName,
     name : Name, liveName : Name \cup {None}, attempts : 0..3, dev : Value \cup {None},
     pending : UNION {[S -> Value] : S \in SUBSET Cluster}]

Chain ==
    [at : {"registering", "fallback", "probing", "recovering", "purging", "again", "done"},
     reg : Nat, dev : Value \cup {None}]

TypeOK ==
    /\ kind \in Kinds /\ value \in Value /\ wanted \in Name
    /\ endpoint \in Endpoint \cup {None}
    /\ faults \in 0..MaxFaults
    /\ marker \in BOOLEAN /\ timer \in BOOLEAN /\ deferred \in BOOLEAN
    /\ regs \in Seq(Reg) /\ current \in 0..Len(regs)
    /\ chain \in Seq(Chain) /\ Len(chain) = Len(regs)
    /\ flushes \in Seq(Seq([cluster : Cluster, value : Value]))
    /\ pass \in [Pass -> [at : {"idle", "unregistering"}, dev : Value \cup {None}]]

Renaming == \E p \in Pass : pass[p].at = "unregistering"

\* Nothing of the registry is under way.
Settled ==
    /\ \A k \in DOMAIN chain : chain[k] = Done
    /\ ~timer /\ flushes = <<>> /\ ~Renaming

IsRegistered == current # 0 /\ regs[current].status = "registered"

\* An endpoint for which updates may be pushed is there, and has answered ("State
\* updates are no longer pushed before the Matter endpoint is actually ready",
\* CHANGELOG), and has the clusters the updates are for: a thermostat that fell back
\* is not sent what its updates were before.
ReadyWhenRegistered ==
    (IsRegistered /\ ~Renaming) =>
        /\ endpoint # None /\ endpoint.answers = "yes"
        /\ DOMAIN regs[current].pending \subseteq DOMAIN endpoint.shows

\* Once nothing is under way, the endpoint shows the state of the device, whatever
\* came in while it was registered, recovered, renamed or flushed.
ShowsState ==
    (Settled /\ IsRegistered) => \A c \in DOMAIN endpoint.shows : endpoint.shows[c] = value

\* The same, unless a fallback or a rename was built from a device object that a
\* discovery had replaced meanwhile.
ShowsLatest == (current # 0 /\ regs[current].dev = None) => ShowsState

\* And it has the name it should have, unless the name was taken after the last
\* rename pass, or that pass came while the endpoint was being registered.
NameArrives == (Settled /\ IsRegistered /\ ~deferred) => endpoint.name = wanted

\* A thermostat is stored as a temperature sensor just when the fallback store says
\* so: a restart registers it as what it was.
ShapeRemembered == endpoint # None => ((endpoint.shape = "temperature") = marker)

\* A registration is worked on by one chain: it is not recovered twice at a time.
OneChain ==
    \A j, k \in DOMAIN chain :
        (j # k /\ chain[j] # Done) => chain[j].reg # chain[k].reg
=============================================================================
