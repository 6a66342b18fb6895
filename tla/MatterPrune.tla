----------------------------- MODULE MatterPrune -----------------------------
(***************************************************************************)
(* When the plugin unregisters a Matter endpoint that discovery no longer  *)
(* yields (platform/matter-prune-tracker.ts, with the parts of             *)
(* platform/matter-accessory-registry.ts and platform/index.ts that feed   *)
(* it).                                                                    *)
(*                                                                         *)
(* A boot restores the endpoints Homebridge has cached and the missing     *)
(* counters saved in klares4-matter-prune.json.  Each initial sync then    *)
(* starts a prune pass over the registrations and over the cached          *)
(* endpoints; a pass is synchronous up to an unregister, which it awaits,  *)
(* so a reconnect can start a second pass meanwhile.  The counters are     *)
(* written to disk once, when a pass ends, and the process may stop at any *)
(* point of it.                                                            *)
(***************************************************************************)
EXTENDS Integers

CONSTANTS
    Uuid,         \* Matter endpoints
    Run,          \* prune passes that can be in progress together
    Threshold,    \* MATTER_PRUNE_STALE_THRESHOLD_CYCLES
    CrashInPass,  \* TRUE: the process may stop while a pass awaits an unregister
    FaultyDisk,   \* TRUE: writing the counters may fail
    SlowProbe     \* TRUE: a pass may start while a registration is pending or failed

ASSUME ThresholdAssumption == Threshold \in Nat \ {0}
ASSUME FaultAssumption == {CrashInPass, FaultyDisk, SlowProbe} \subseteq BOOLEAN

VARIABLES
    panel,          \* the devices the panel lists
    exposed,        \* the devices the configuration of this boot exposes to Matter
    cache,          \* Homebridge's persisted cache of Matter endpoints
    saved,          \* the counters on disk
    missing,        \* missingCycleCounts
    countersDirty,
    registrations,  \* status of each registration, "none" when there is none
    active,         \* activeDiscoveredUUIDs
    cachedDevices,  \* endpoints the boot restored and nothing has unregistered since
    pass,           \* each prune pass: where it stands, what it visited, what it awaits
    misses,         \* history: passes that ever found the endpoint missing
    streak          \* history: consecutive passes that started without the device

endpoints == <<panel, exposed, cache>>
counters == <<saved, missing, countersDirty>>
registry == <<registrations, active, cachedDevices>>
history == <<misses, streak>>
vars == <<endpoints, counters, registry, pass, history>>

------------------------------------------------------------------------------
(* Counters.  Above the threshold one value is as good as the next: they   *)
(* saturate there, which keeps the model finite and loses nothing.         *)

Count == 0..Threshold

Zero == [u \in Uuid |-> 0]

\* One more, up to the threshold.
More(n) == IF n < Threshold THEN n + 1 ELSE Threshold

NoPass == [at |-> "idle", visited |-> {}, loop |-> 1]

Init ==
    /\ panel \in SUBSET Uuid
    /\ exposed \in SUBSET Uuid
    /\ cache \in SUBSET Uuid
    /\ saved = Zero
    /\ missing = Zero
    /\ countersDirty = FALSE
    /\ registrations = [u \in Uuid |-> "none"]
    /\ active = {}
    /\ cachedDevices = cache
    /\ pass = [r \in Run |-> NoPass]
    /\ misses = Zero
    /\ streak = Zero

------------------------------------------------------------------------------
(* Registration, as far as pruning sees it.                                *)

\* A device on the panel is discovered, or pushes a status, and is exposed.
Discover(u) ==
    /\ u \in panel \cap exposed
    /\ active' = active \cup {u}
    /\ registrations' = [registrations EXCEPT ![u] = IF @ = "none" THEN "pending" ELSE @]
    /\ UNCHANGED <<endpoints, counters, cachedDevices, pass, history>>

\* Homebridge accepts the registration and caches the endpoint.
Accept(u) ==
    /\ registrations[u] = "pending"
    /\ cache' = cache \cup {u}
    /\ UNCHANGED <<panel, exposed, counters, registry, pass, history>>

\* The probe finds the endpoint queryable.
Complete(u) ==
    /\ registrations[u] = "pending" /\ u \in cache
    /\ registrations' = [registrations EXCEPT ![u] = "registered"]
    /\ UNCHANGED <<endpoints, counters, active, cachedDevices, pass, history>>

\* Registration, or every attempt to recover it, fails.
Fail(u) ==
    /\ registrations[u] = "pending"
    /\ registrations' = [registrations EXCEPT ![u] = "failed"]
    /\ UNCHANGED <<endpoints, counters, active, cachedDevices, pass, history>>

------------------------------------------------------------------------------
(* One prune pass.                                                         *)

Registered == {u \in Uuid : registrations[u] = "registered"}

\* variant: one miss too few is enough.
Crosses_OffByOne(u) == missing[u] + 2 >= Threshold

\* recordMissing says that one more miss reaches the threshold.
Crosses(u) == missing[u] + 1 >= Threshold

\* variant: the second loop does not ask whether the type is exposed.
CachedOnly_AnyType == {u \in cachedDevices : registrations[u] = "none"}

\* What the second loop prunes: cached endpoints without a registration whose
\* type the configuration no longer exposes.
CachedOnly ==
    {u \in cachedDevices : registrations[u] = "none" /\ u \notin exposed}

\* recordSeen for `seen`, recordMissing for `absent`.
Record(seen, absent) ==
    /\ missing' = [u \in Uuid |-> IF u \in absent THEN More(missing[u])
                                  ELSE IF u \in seen THEN 0 ELSE missing[u]]
    /\ misses' = [u \in Uuid |-> IF u \in absent THEN More(misses[u]) ELSE misses[u]]

Touched(seen, absent) ==
    countersDirty \/ absent # {} \/ \E u \in seen : missing[u] > 0

\* variant: the counters live in memory only.
Save_InMemory(touched) ==
    /\ countersDirty' = FALSE
    /\ UNCHANGED saved

\* saveCountersIfDirty: the flag is cleared before the write, and a failed
\* write may leave the old file or a truncated one, which a boot ignores.
Save(touched) ==
    /\ countersDirty' = FALSE
    /\ saved' \in IF ~touched THEN {saved}
                  ELSE {missing'} \cup IF FaultyDisk THEN {saved, Zero} ELSE {}

\* The synchronous stretch of pass r from where it stands, having visited v:
\* it stops at the first endpoint that crosses the threshold, whose unregister
\* it awaits, or ends.  The first loop goes over the registrations, the
\* second over the cached endpoints; both visit in an order left open here.
Stretch(r, v, loop) ==
    LET seen == IF loop = 1 THEN (Registered \cap active) \ v ELSE {}
        first == IF loop = 1 THEN (Registered \ active) \ v ELSE {}
        second == CachedOnly \ v
        inFirst == \E u \in first : Crosses(u)
        here == IF inFirst THEN first ELSE second
        optional == {u \in (IF inFirst THEN seen \cup first ELSE second) :
                        u \in seen \/ ~Crosses(u)}
        done == IF inFirst THEN {} ELSE seen \cup first
    IN  \/ \E c \in {u \in here : Crosses(u)}, some \in SUBSET optional :
              LET now == done \cup some \cup {c}
              IN  /\ Record(now \cap seen, now \ seen)
                  /\ countersDirty' = TRUE
                  /\ pass' = [pass EXCEPT ![r] =
                                [at |-> "asked", on |-> c, visited |-> v \cup now,
                                 loop |-> IF inFirst THEN 1 ELSE 2]]
                  /\ UNCHANGED saved
        \/ /\ \A u \in first \cup second : ~Crosses(u)
           /\ Record(seen, first \cup second)
           /\ Save(Touched(seen, first \cup second))
           /\ pass' = [pass EXCEPT ![r] = NoPass]

\* An initial sync completes, on the first connection of a boot or on a later
\* one, and a pass starts.
StartPass(r) ==
    /\ pass[r].at = "idle"
    /\ SlowProbe \/ active \subseteq Registered
    /\ streak' = [u \in Uuid |-> IF u \in active THEN 0 ELSE More(streak[u])]
    /\ Stretch(r, {}, 1)
    /\ UNCHANGED <<endpoints, registry>>

\* Homebridge carries out the unregister and forgets the endpoint.
Forget(r) ==
    /\ pass[r].at = "asked"
    /\ cache' = cache \ {pass[r].on}
    /\ pass' = [pass EXCEPT ![r].at = "forgotten"]
    /\ UNCHANGED <<panel, exposed, counters, registry, history>>

\* The unregister resolves: the plugin forgets the endpoint too.
Unregistered(r) ==
    LET u == pass[r].on
    IN  /\ pass[r].at = "forgotten"
        /\ registrations' = [registrations EXCEPT ![u] = "none"]
        /\ cachedDevices' = cachedDevices \ {u}
        /\ missing' = [missing EXCEPT ![u] = 0]
        /\ countersDirty' = TRUE
        /\ pass' = [pass EXCEPT ![r].at = "resumed"]
        /\ UNCHANGED <<endpoints, saved, active, history>>

\* The unregister rejects: the counter stays and the pass goes on.
Rejected(r) ==
    /\ pass[r].at = "asked"
    /\ pass' = [pass EXCEPT ![r].at = "resumed"]
    /\ UNCHANGED <<endpoints, counters, registry, history>>

\* The pass continues after the unregister it awaited.
Resume(r) ==
    /\ pass[r].at = "resumed"
    /\ Stretch(r, pass[r].visited, pass[r].loop)
    /\ UNCHANGED <<endpoints, registry, streak>>

------------------------------------------------------------------------------
(* The surroundings.                                                       *)

\* A device is added to the panel or taken from it.
PanelChanges(u) ==
    /\ panel' = IF u \in panel THEN panel \ {u} ELSE panel \cup {u}
    /\ UNCHANGED <<exposed, cache, counters, registry, pass, history>>

\* The process ends and starts again, perhaps with another configuration:
\* the constructor loads the counters and Homebridge hands back its cache.
Boot ==
    /\ CrashInPass \/ \A r \in Run : pass[r].at = "idle"
    /\ exposed' \in SUBSET Uuid
    /\ missing' = saved
    /\ countersDirty' = FALSE
    /\ registrations' = [u \in Uuid |-> "none"]
    /\ active' = {}
    /\ cachedDevices' = cache
    /\ pass' = [r \in Run |-> NoPass]
    /\ UNCHANGED <<panel, cache, saved, history>>

Next ==
    \/ \E u \in Uuid : Discover(u) \/ Accept(u) \/ Complete(u) \/ Fail(u) \/ PanelChanges(u)
    \/ \E r \in Run : StartPass(r) \/ Forget(r) \/ Unregistered(r) \/ Rejected(r) \/ Resume(r)
    \/ Boot

Spec == Init /\ [][Next]_vars

\* Syncs keep completing (reconnects or restarts), a pass in progress goes on,
\* and Homebridge does not refuse the same unregister for ever.
FairSpec ==
    /\ Spec
    /\ WF_vars(\E r \in Run : StartPass(r))
    /\ \A r \in Run : WF_vars(Unregistered(r)) /\ WF_vars(Resume(r))
    /\ \A u \in Uuid : SF_vars(\E r \in Run : pass[r].at = "asked" /\ pass[r].on = u /\ Forget(r))

------------------------------------------------------------------------------
(* Properties.                                                             *)

PassType ==
    {NoPass} \cup [at : {"asked", "forgotten", "resumed"}, on : Uuid,
                   visited : SUBSET Uuid, loop : {1, 2}]

\* Every variable keeps the shape the code gives it.
TypeOK ==
    /\ panel \subseteq Uuid /\ exposed \subseteq Uuid /\ cache \subseteq Uuid
    /\ saved \in [Uuid -> Count] /\ missing \in [Uuid -> Count]
    /\ countersDirty \in BOOLEAN
    /\ registrations \in [Uuid -> {"none", "pending", "registered", "failed"}]
    /\ active \subseteq Uuid /\ cachedDevices \subseteq Uuid
    /\ pass \in [Run -> PassType]
    /\ misses \in [Uuid -> Count] /\ streak \in [Uuid -> Count]

\* An endpoint leaves Homebridge's cache only after `Threshold` passes found it
\* missing, whatever restarts, crashes inside a pass, overlapping passes and
\* failed writes of the counters came between them.
RemovedOnlyAfterMisses ==
    [][\A u \in cache \ cache' : misses[u] = Threshold]_vars

\* Pruning never unregisters an endpoint the running configuration exposes,
\* however incomplete discovery was and however many passes overlap.
ExposedNeverPruned ==
    [][\A u \in cache \ cache' : u \notin exposed]_vars

\* The misses that remove an endpoint are consecutive: no sync since the first
\* of them had seen the device (the class comment of MatterPruneTracker).
MissesConsecutive ==
    [][\A u \in cache \ cache' : streak[u] = Threshold]_vars

\* An endpoint whose type stays disabled is eventually unregistered, and stays
\* so (README, "removed automatically after 3 consecutive discovery cycles").
DisabledIsRemoved ==
    \A u \in Uuid : <>[](u \notin exposed) => <>[](u \notin cache)

\* An endpoint whose device stays away from the panel is eventually
\* unregistered (the constructor's comment on persisted counters).
GoneIsRemoved ==
    \A u \in Uuid : <>[](u \notin panel) => <>[](u \notin cache)

=============================================================================
