------------------------- MODULE MatterPlatform_proofs -------------------------
(***************************************************************************)
(* Two parts of the Matter platform that share no state, proved apart:     *)
(*   - what pruning may unregister, for every set of endpoints, any number *)
(*     of overlapping passes, every threshold and every combination of the *)
(*     faults (restarts inside a pass, failed writes, slow probes);        *)
(*   - which names endpoints have, for every set of devices, priorities,   *)
(*     labels, suffixes and tags.                                          *)
(***************************************************************************)
EXTENDS MatterPrune, MatterNames, FiniteSetTheorems, SequenceTheorems, TLAPS

-----------------------------------------------------------------------------
(* Pruning                                                                 *)

(* The types, in parts, so that a step cites only what it needs.           *)
CountersType ==
    /\ saved \in [Uuid -> Count] /\ missing \in [Uuid -> Count]
    /\ countersDirty \in BOOLEAN

RegistryType ==
    /\ panel \subseteq Uuid /\ exposed \subseteq Uuid /\ cache \subseteq Uuid
    /\ registrations \in [Uuid -> {"none", "pending", "registered", "failed"}]
    /\ active \subseteq Uuid /\ cachedDevices \subseteq Uuid

HistoryType == misses \in [Uuid -> Count] /\ streak \in [Uuid -> Count]

PassesType == pass \in [Run -> PassType]

\* No counter, in memory or on disk, runs ahead of the misses that happened.
CountsBacked ==
    \A u \in Uuid : missing[u] <= misses[u] /\ saved[u] <= misses[u]

\* What a pass asks Homebridge to unregister was missed often enough and is not
\* exposed.
Justified ==
    \A r \in Run : pass[r].at \in {"asked", "forgotten"} =>
        misses[pass[r].on] = Threshold /\ pass[r].on \notin exposed

\* Only exposed devices are discovered, and whatever is registered was
\* discovered since the boot: the first loop of a pass finds nothing absent.
DiscoveredFirst ==
    /\ active \subseteq exposed
    /\ \A u \in Uuid : registrations[u] # "none" => u \in active

IInv == TypeOK /\ CountsBacked /\ Justified /\ DiscoveredFirst

LEMMA TypeParts ==
    TypeOK <=> CountersType /\ RegistryType /\ HistoryType /\ PassesType
  BY DEF TypeOK, CountersType, RegistryType, HistoryType, PassesType

LEMMA MoreType == \A n \in Count : More(n) \in Count /\ n <= More(n)
  BY ThresholdAssumption, SMT DEF More, Count

LEMMA MoreMonotone == \A m, n \in Count : m <= n => More(m) <= More(n)
  BY ThresholdAssumption, SMT DEF More, Count

LEMMA ZeroType == Zero \in [Uuid -> Count]
  BY ThresholdAssumption, SMT DEF Zero, Count

\* recordSeen and recordMissing keep the counters typed and backed.
LEMMA RecordKeeps ==
    ASSUME missing \in [Uuid -> Count], misses \in [Uuid -> Count],
           NEW seen, NEW absent, Record(seen, absent)
    PROVE  /\ missing' \in [Uuid -> Count] /\ misses' \in [Uuid -> Count]
           /\ \A u \in Uuid : misses[u] <= misses'[u]
           /\ (\A u \in Uuid : missing[u] <= misses[u]) =>
                 \A u \in Uuid : missing'[u] <= misses'[u]
  <1>1. missing' \in [Uuid -> Count] /\ misses' \in [Uuid -> Count]
    BY ThresholdAssumption, MoreType DEF Record, Count
  <1>2. \A u \in Uuid : misses[u] <= misses'[u]
    <2>1. TAKE u \in Uuid
    <2>2. misses[u] \in Count OBVIOUS
    <2>3. misses'[u] = IF u \in absent THEN More(misses[u]) ELSE misses[u]
      BY DEF Record
    <2> QED BY <2>2, <2>3, MoreType, ThresholdAssumption DEF Count
  <1>3. ASSUME \A u \in Uuid : missing[u] <= misses[u], NEW u \in Uuid
        PROVE  missing'[u] <= misses'[u]
    <2>1. missing[u] \in Count /\ misses[u] \in Count /\ missing[u] <= misses[u]
      BY <1>3
    <2>2. misses'[u] = IF u \in absent THEN More(misses[u]) ELSE misses[u]
      BY DEF Record
    <2>3. missing'[u] = IF u \in absent THEN More(missing[u])
                        ELSE IF u \in seen THEN 0 ELSE missing[u]
      BY DEF Record
    <2> QED BY <2>1, <2>2, <2>3, MoreMonotone, ThresholdAssumption DEF Count
  <1> QED BY <1>1, <1>2, <1>3

\* Writing the counters keeps the disk typed and backed.
LEMMA SaveKeeps ==
    ASSUME CountersType, missing' \in [Uuid -> Count], misses' \in [Uuid -> Count],
           NEW touched \in BOOLEAN, Save(touched)
    PROVE  /\ saved' \in [Uuid -> Count] /\ countersDirty' \in BOOLEAN
           /\ (\A u \in Uuid : saved[u] <= misses'[u] /\ missing'[u] <= misses'[u]) =>
                 \A u \in Uuid : saved'[u] <= misses'[u]
  <1>1. countersDirty' \in BOOLEAN
    BY DEF Save
  <1>2. saved' = saved \/ saved' = missing' \/ saved' = Zero
    BY FaultAssumption DEF Save
  <1>3. saved' \in [Uuid -> Count]
    BY <1>2, ZeroType DEF CountersType
  <1>4. ASSUME \A u \in Uuid : saved[u] <= misses'[u] /\ missing'[u] <= misses'[u],
               NEW u \in Uuid
        PROVE  saved'[u] <= misses'[u]
    <2>1. misses'[u] \in Count OBVIOUS
    <2>2. CASE saved' = saved BY <2>2, <1>4
    <2>3. CASE saved' = missing' BY <2>3, <1>4
    <2>4. CASE saved' = Zero
      BY <2>1, <2>4, ThresholdAssumption DEF Zero, Count
    <2> QED BY <1>2, <2>2, <2>3, <2>4
  <1> QED BY <1>1, <1>3, <1>4

\* What a stretch of pass r leaves: the counters typed and backed, and the pass
\* over, or waiting for an unregister that is justified.
StretchResult(r) ==
    /\ missing' \in [Uuid -> Count] /\ misses' \in [Uuid -> Count]
    /\ saved' \in [Uuid -> Count] /\ countersDirty' \in BOOLEAN
    /\ \A u \in Uuid : misses[u] <= misses'[u]
    /\ \A u \in Uuid : missing'[u] <= misses'[u] /\ saved'[u] <= misses'[u]
    /\ \/ pass' = [pass EXCEPT ![r] = NoPass]
       \/ \E c \in Uuid, w \in SUBSET Uuid, l \in {1, 2} :
             /\ pass' = [pass EXCEPT ![r] =
                           [at |-> "asked", on |-> c, visited |-> w, loop |-> l]]
             /\ misses'[c] = Threshold /\ c \notin exposed

LEMMA SavedStaysBacked ==
    ASSUME CountersType, HistoryType, CountsBacked, misses' \in [Uuid -> Count],
           \A u \in Uuid : misses[u] <= misses'[u]
    PROVE  \A u \in Uuid : saved[u] <= misses'[u]
  <1>1. TAKE u \in Uuid
  <1>2. saved[u] \in Count /\ misses[u] \in Count /\ misses'[u] \in Count
    BY DEF CountersType, HistoryType
  <1>3. saved[u] <= misses[u] /\ misses[u] <= misses'[u]
    BY DEF CountsBacked
  <1> QED BY <1>2, <1>3, ThresholdAssumption DEF Count

LEMMA StretchKeeps ==
    ASSUME CountersType, RegistryType, HistoryType, PassesType,
           CountsBacked, DiscoveredFirst,
           NEW r \in Run, NEW v \in SUBSET Uuid, NEW loop \in {1, 2},
           Stretch(r, v, loop)
    PROVE  StretchResult(r)
  <1> DEFINE seen == IF loop = 1 THEN (Registered \cap active) \ v ELSE {}
             first == IF loop = 1 THEN (Registered \ active) \ v ELSE {}
             second == CachedOnly \ v
             inFirst == \E u \in first : Crosses(u)
             here == IF inFirst THEN first ELSE second
             optional == {u \in (IF inFirst THEN seen \cup first ELSE second) :
                            u \in seen \/ ~Crosses(u)}
             done == IF inFirst THEN {} ELSE seen \cup first
             Asks(c, some) ==
               LET now == done \cup some \cup {c}
               IN  /\ Record(now \cap seen, now \ seen)
                   /\ countersDirty' = TRUE
                   /\ pass' = [pass EXCEPT ![r] =
                                 [at |-> "asked", on |-> c, visited |-> v \cup now,
                                  loop |-> IF inFirst THEN 1 ELSE 2]]
                   /\ UNCHANGED saved
             Ends == /\ \A u \in first \cup second : ~Crosses(u)
                     /\ Record(seen, first \cup second)
                     /\ Save(Touched(seen, first \cup second))
                     /\ pass' = [pass EXCEPT ![r] = NoPass]
  <1>1. first = {}
    BY DEF DiscoveredFirst, Registered, RegistryType
  <1>2. seen \subseteq Uuid /\ second \subseteq Uuid
    BY DEF RegistryType, Registered, CachedOnly
  <1>3. missing \in [Uuid -> Count] /\ misses \in [Uuid -> Count]
        /\ \A u \in Uuid : missing[u] <= misses[u]
    BY DEF CountersType, HistoryType, CountsBacked
  <1>4. ASSUME NEW c \in {u \in here : Crosses(u)}, NEW some \in SUBSET optional,
               Asks(c, some)
        PROVE  StretchResult(r)
    <2> DEFINE now == done \cup some \cup {c}
    <2>1. ~inFirst
      BY <1>1
    <2>2. c \in second /\ Crosses(c) /\ c \in Uuid
      BY <1>2, <2>1, <1>4
    <2>3. c \notin exposed /\ c \notin seen
      BY <2>2 DEF CachedOnly, Registered
    <2>4. now \subseteq Uuid
      BY <1>1, <1>2, <2>1, <2>2
    <2>5. Record(now \cap seen, now \ seen) /\ countersDirty' = TRUE /\ saved' = saved
      BY <1>4
    <2>6. pass' = [pass EXCEPT ![r] = [at |-> "asked", on |-> c, visited |-> v \cup now,
                                       loop |-> 2]]
      BY <1>4, <2>1
    <2>7. c \in now \ seen /\ v \cup now \in SUBSET Uuid
      BY <2>3, <2>4
    <2> HIDE DEF seen, first, second, inFirst, here, optional, done, Asks, Ends, now
    <2>8. /\ missing' \in [Uuid -> Count] /\ misses' \in [Uuid -> Count]
          /\ \A u \in Uuid : misses[u] <= misses'[u]
          /\ \A u \in Uuid : missing'[u] <= misses'[u]
      BY <1>3, <2>5, RecordKeeps
    <2>9. \A u \in Uuid : saved'[u] <= misses'[u]
      BY <2>5, <2>8, SavedStaysBacked
    <2>10. misses'[c] = Threshold
      <3>1. misses'[c] = More(misses[c])
        BY <2>2, <2>5, <2>7 DEF Record
      <3>2. missing[c] \in Count /\ misses[c] \in Count /\ missing[c] <= misses[c]
            /\ missing[c] + 1 >= Threshold
        BY <1>3, <2>2 DEF Crosses
      <3> QED BY <3>1, <3>2, ThresholdAssumption DEF Count, More
    <2>11. saved' \in [Uuid -> Count] /\ countersDirty' \in BOOLEAN
      BY <2>5 DEF CountersType
    <2> QED BY <2>2, <2>3, <2>6, <2>7, <2>8, <2>9, <2>10, <2>11, Zenon DEF StretchResult
  <1>5. ASSUME Ends
        PROVE  StretchResult(r)
    <2> DEFINE absent == first \cup second
               touched == Touched(seen, absent)
    <2>1. Record(seen, absent) /\ Save(touched) /\ pass' = [pass EXCEPT ![r] = NoPass]
      BY <1>5
    <2>2. touched \in BOOLEAN
      BY DEF Touched, CountersType
    <2> HIDE DEF seen, first, second, inFirst, here, optional, done, Asks, Ends, absent, touched
    <2>3. /\ missing' \in [Uuid -> Count] /\ misses' \in [Uuid -> Count]
          /\ \A u \in Uuid : misses[u] <= misses'[u]
          /\ \A u \in Uuid : missing'[u] <= misses'[u]
      BY <1>3, <2>1, RecordKeeps
    <2>4. \A u \in Uuid : saved[u] <= misses'[u]
      BY <2>3, SavedStaysBacked
    <2>5. /\ saved' \in [Uuid -> Count] /\ countersDirty' \in BOOLEAN
          /\ \A u \in Uuid : saved'[u] <= misses'[u]
      BY <2>1, <2>2, <2>3, <2>4, SaveKeeps
    <2> QED BY <2>1, <2>3, <2>5, Zenon DEF StretchResult
  <1>6. Ends \/ \E c \in {u \in here : Crosses(u)}, some \in SUBSET optional : Asks(c, some)
    BY Zenon DEF Stretch
  <1> QED BY <1>4, <1>5, <1>6, Zenon

------------------------------------------------------------------------------
(* The invariant is inductive.                                             *)

LEMMA IInvInit == Init => IInv
  <1> SUFFICES ASSUME Init PROVE IInv
    OBVIOUS
  <1>1. CountersType /\ HistoryType
    BY ZeroType DEF Init, CountersType, HistoryType
  <1>2. RegistryType /\ PassesType
    BY DEF Init, RegistryType, PassesType, PassType
  <1>3. CountsBacked
    <2>1. missing = Zero /\ misses = Zero /\ saved = Zero
      BY DEF Init
    <2>2. \A u \in Uuid : Zero[u] = 0
      BY DEF Zero
    <2>3. ASSUME NEW u \in Uuid
          PROVE  missing[u] <= misses[u] /\ saved[u] <= misses[u]
      <3>1. missing[u] = 0 /\ misses[u] = 0 /\ saved[u] = 0
        BY <2>1, <2>2
      <3> QED BY <3>1, SMT
    <2> QED BY <2>3 DEF CountsBacked
  <1>4. Justified /\ DiscoveredFirst
    BY DEF Init, Justified, DiscoveredFirst, NoPass
  <1> QED BY <1>1, <1>2, <1>3, <1>4, TypeParts DEF IInv

\* A pass that is not idle has the fields of one that awaits an unregister.
LEMMA InProgress ==
    ASSUME PassesType, NEW r \in Run, pass[r].at # "idle"
    PROVE  /\ pass[r].on \in Uuid /\ pass[r].visited \in SUBSET Uuid
           /\ pass[r].loop \in {1, 2}
           /\ pass[r] \in [at : {"asked", "forgotten", "resumed"}, on : Uuid,
                           visited : SUBSET Uuid, loop : {1, 2}]
  BY DEF PassesType, PassType, NoPass

\* A stretch keeps the invariant.
LEMMA StretchIInv ==
    ASSUME IInv, streak' \in [Uuid -> Count], UNCHANGED <<endpoints, registry>>,
           NEW r \in Run, NEW v \in SUBSET Uuid, NEW loop \in {1, 2},
           Stretch(r, v, loop)
    PROVE  IInv'
  <1>1. CountersType /\ RegistryType /\ HistoryType /\ PassesType
        /\ CountsBacked /\ DiscoveredFirst /\ Justified
    BY TypeParts DEF IInv
  <1>2. StretchResult(r)
    BY <1>1, StretchKeeps
  <1>3. CountersType' /\ HistoryType' /\ CountsBacked'
    BY <1>2 DEF StretchResult, CountersType, HistoryType, CountsBacked
  <1>4. RegistryType' /\ DiscoveredFirst'
    BY <1>1 DEF RegistryType, DiscoveredFirst, endpoints, registry
  <1>5. \A q \in Run : pass'[q] \in PassType
        /\ (pass'[q].at \in {"asked", "forgotten"} =>
              misses'[pass'[q].on] = Threshold /\ pass'[q].on \notin exposed)
    <2>1. SUFFICES ASSUME NEW q \in Run
                   PROVE  /\ pass'[q] \in PassType
                          /\ (pass'[q].at \in {"asked", "forgotten"} =>
                                misses'[pass'[q].on] = Threshold /\ pass'[q].on \notin exposed)
      OBVIOUS
    <2>2. ASSUME q # r
          PROVE  pass'[q] = pass[q]
      BY <1>1, <1>2, <2>2 DEF StretchResult, PassesType
    <2>3. CASE q # r /\ pass[q].at \in {"asked", "forgotten"}
      <3>1. pass[q].on \in Uuid
        BY <1>1, <2>3, InProgress
      <3>2. misses[pass[q].on] = Threshold /\ pass[q].on \notin exposed
        BY <1>1, <2>3 DEF Justified
      <3>3. misses[pass[q].on] <= misses'[pass[q].on] /\ misses'[pass[q].on] \in Count
        BY <1>2, <3>1 DEF StretchResult
      <3>4. misses'[pass[q].on] = Threshold
        BY <3>2, <3>3, ThresholdAssumption DEF Count
      <3> QED BY <1>1, <2>2, <2>3, <3>2, <3>4 DEF PassesType
    <2>4. CASE q # r /\ pass[q].at \notin {"asked", "forgotten"}
      BY <1>1, <2>2, <2>4 DEF PassesType
    <2>5. CASE q = r
      <3>1. CASE pass' = [pass EXCEPT ![r] = NoPass]
        BY <1>1, <2>5, <3>1 DEF PassesType, PassType, NoPass
      <3>2. ASSUME NEW c \in Uuid, NEW w \in SUBSET Uuid, NEW l \in {1, 2},
                   pass' = [pass EXCEPT ![r] =
                              [at |-> "asked", on |-> c, visited |-> w, loop |-> l]],
                   misses'[c] = Threshold, c \notin exposed
            PROVE  /\ pass'[q] \in PassType
                   /\ (pass'[q].at \in {"asked", "forgotten"} =>
                         misses'[pass'[q].on] = Threshold /\ pass'[q].on \notin exposed)
        <4>1. pass'[q] = [at |-> "asked", on |-> c, visited |-> w, loop |-> l]
          BY <1>1, <2>5, <3>2 DEF PassesType
        <4>2. pass'[q] \in PassType /\ pass'[q].on = c
          BY <4>1 DEF PassType
        <4> QED BY <3>2, <4>2
      <3> QED BY <1>2, <3>1, <3>2 DEF StretchResult
    <2> QED BY <2>3, <2>4, <2>5
  <1>6. pass' \in [Run -> PassType]
    <2>1. pass' = [q \in Run |-> pass'[q]]
      BY <1>1, <1>2 DEF StretchResult, PassesType
    <2> QED BY <1>5, <2>1
  <1>7. PassesType' /\ Justified'
    BY <1>5, <1>6 DEF PassesType, Justified, PassType, endpoints
  <1> QED BY <1>3, <1>4, <1>7, TypeParts, PTL DEF IInv

LEMMA IInvNext == IInv /\ [Next]_vars => IInv'
  <1> SUFFICES ASSUME IInv, [Next]_vars PROVE IInv'
    OBVIOUS
  <1>1. CountersType /\ RegistryType /\ HistoryType /\ PassesType
        /\ CountsBacked /\ DiscoveredFirst /\ Justified
    BY TypeParts DEF IInv
  <1>2. SUFFICES /\ CountersType' /\ RegistryType' /\ HistoryType' /\ PassesType'
                 /\ CountsBacked' /\ DiscoveredFirst' /\ Justified'
                 \/ IInv'
    BY TypeParts, PTL DEF IInv
  <1> USE <1>1
  <1>3. ASSUME UNCHANGED <<counters, history, pass, exposed, active>>,
               RegistryType', DiscoveredFirst'
        PROVE  IInv'
    <2>1. CountersType' /\ HistoryType' /\ PassesType' /\ CountsBacked' /\ Justified'
      BY <1>3 DEF CountersType, HistoryType, PassesType, CountsBacked, Justified,
                  counters, history
    <2> QED BY <1>3, <2>1, TypeParts, PTL DEF IInv
  <1>4. ASSUME NEW u \in Uuid, Discover(u)
        PROVE  IInv'
    <2>1. RegistryType' /\ DiscoveredFirst'
      BY <1>4 DEF Discover, RegistryType, DiscoveredFirst, endpoints
    <2>2. CountersType' /\ HistoryType' /\ PassesType' /\ CountsBacked' /\ Justified'
      BY <1>4 DEF Discover, CountersType, HistoryType, PassesType, CountsBacked, Justified,
                  counters, history, endpoints
    <2> QED BY <2>1, <2>2, TypeParts, PTL DEF IInv
  <1>5. ASSUME NEW u \in Uuid, Accept(u) \/ Complete(u) \/ Fail(u) \/ PanelChanges(u)
        PROVE  IInv'
    <2>1. UNCHANGED <<counters, history, pass, exposed, active>>
      BY <1>5 DEF Accept, Complete, Fail, PanelChanges, endpoints, registry
    <2>2. RegistryType' /\ DiscoveredFirst'
      BY <1>5 DEF Accept, Complete, Fail, PanelChanges, RegistryType, DiscoveredFirst,
                  endpoints, registry
    <2> QED BY <1>3, <2>1, <2>2
  <1>6. ASSUME NEW r \in Run, StartPass(r)
        PROVE  IInv'
    <2>1. streak' \in [Uuid -> Count]
      BY <1>6, MoreType, ThresholdAssumption DEF StartPass, HistoryType, Count
    <2> QED BY <1>6, <2>1, StretchIInv DEF StartPass
  <1>7. ASSUME NEW r \in Run, Resume(r)
        PROVE  IInv'
    <2>1. pass[r].visited \in SUBSET Uuid /\ pass[r].loop \in {1, 2}
      BY <1>7, InProgress DEF Resume
    <2>2. streak' \in [Uuid -> Count]
      BY <1>7 DEF Resume, HistoryType
    <2> QED BY <1>7, <2>1, <2>2, StretchIInv DEF Resume
  <1>8. ASSUME NEW r \in Run, Forget(r) \/ Unregistered(r) \/ Rejected(r)
        PROVE  IInv'
    <2> DEFINE u == pass[r].on
    <2>1. PICK next \in {"forgotten", "resumed"} :
            /\ pass' = [pass EXCEPT ![r].at = next]
            /\ next = "forgotten" => pass[r].at = "asked"
      BY <1>8 DEF Forget, Unregistered, Rejected
    <2>2. pass[r].at # "idle"
      BY <1>8 DEF Forget, Unregistered, Rejected
    <2>3. u \in Uuid
      BY <2>2, InProgress
    <2>4. PassesType' /\ Justified'
      <3>1. pass[r] \in [at : {"asked", "forgotten", "resumed"}, on : Uuid,
                         visited : SUBSET Uuid, loop : {1, 2}]
        BY <2>2, InProgress
      <3>2. pass' = [pass EXCEPT ![r] = [pass[r] EXCEPT !.at = next]]
        BY <2>1
      <3>3. [pass[r] EXCEPT !.at = next] \in PassType
        BY <3>1 DEF PassType
      <3>4. PassesType'
        BY <3>2, <3>3 DEF PassesType
      <3>5. UNCHANGED <<misses, exposed>>
        BY <1>8 DEF Forget, Unregistered, Rejected, history, endpoints
      <3>6. ASSUME NEW q \in Run, pass'[q].at \in {"asked", "forgotten"}
            PROVE  misses[pass'[q].on] = Threshold /\ pass'[q].on \notin exposed
        <4>1. CASE q # r
          BY <3>2, <3>6, <4>1 DEF PassesType, Justified
        <4>2. CASE q = r
          <5>1. pass'[q] = [pass[r] EXCEPT !.at = next]
            BY <3>2, <4>2 DEF PassesType
          <5>2. pass'[q].at = next /\ pass'[q].on = pass[r].on
            BY <3>1, <5>1
          <5>3. pass[r].at = "asked"
            BY <2>1, <3>6, <5>2
          <5> QED BY <5>2, <5>3 DEF Justified
        <4> QED BY <4>1, <4>2
      <3> QED BY <3>4, <3>5, <3>6 DEF Justified
    <2>5. RegistryType' /\ DiscoveredFirst'
      BY <1>8, <2>3 DEF Forget, Unregistered, Rejected, RegistryType, DiscoveredFirst,
                        endpoints, registry
    <2>6. HistoryType'
      BY <1>8 DEF Forget, Unregistered, Rejected, HistoryType, history
    <2>7. saved' = saved /\ misses' = misses
      BY <1>8 DEF Forget, Unregistered, Rejected, counters, history
    <2>8. missing' = missing \/ missing' = [missing EXCEPT ![u] = 0]
      BY <1>8 DEF Forget, Unregistered, Rejected, counters
    <2>9. CountersType'
      <3>1. countersDirty' \in BOOLEAN
        BY <1>8 DEF Forget, Unregistered, Rejected, counters, CountersType
      <3>2. missing' \in [Uuid -> Count]
        BY <2>8, ThresholdAssumption DEF CountersType, Count
      <3> QED BY <2>7, <3>1, <3>2 DEF CountersType
    <2>10. CountsBacked'
      BY <2>7, <2>8, ThresholdAssumption DEF CountsBacked, CountersType, HistoryType, Count
    <2> QED BY <2>4, <2>5, <2>6, <2>9, <2>10, TypeParts, PTL DEF IInv
  <1>9. ASSUME Boot
        PROVE  IInv'
    <2>1. CountersType' /\ HistoryType' /\ CountsBacked'
      BY <1>9 DEF Boot, CountersType, HistoryType, CountsBacked, history
    <2>2. RegistryType' /\ DiscoveredFirst'
      BY <1>9 DEF Boot, RegistryType, DiscoveredFirst
    <2>3. PassesType' /\ Justified'
      BY <1>9 DEF Boot, PassesType, PassType, Justified, NoPass
    <2> QED BY <2>1, <2>2, <2>3, TypeParts, PTL DEF IInv
  <1>10. ASSUME UNCHANGED vars
         PROVE  IInv'
    <2>1. UNCHANGED <<counters, history, pass, exposed, active>>
      BY <1>10 DEF vars, endpoints, registry
    <2>2. RegistryType' /\ DiscoveredFirst'
      BY <1>10 DEF vars, RegistryType, DiscoveredFirst, endpoints, registry
    <2> QED BY <1>3, <2>1, <2>2
  <1> QED BY <1>4, <1>5, <1>6, <1>7, <1>8, <1>9, <1>10 DEF Next

LEMMA Invariance == Spec => []IInv
  BY IInvInit, IInvNext, PTL DEF Spec

------------------------------------------------------------------------------
(* Theorems.                                                               *)

\* Every variable keeps its type, for any number of endpoints and passes.
THEOREM TypeCorrect == Spec => []TypeOK
  BY Invariance, PTL DEF IInv

\* Only Forget takes an endpoint out of Homebridge's cache, and it is justified.
LEMMA OnlyForgetRemoves ==
    ASSUME IInv, [Next]_vars, NEW u \in cache \ cache'
    PROVE  misses[u] = Threshold /\ u \notin exposed
  <1>1. PICK r \in Run : Forget(r)
    BY DEF Next, vars, endpoints, Discover, Accept, Complete, Fail, PanelChanges,
           StartPass, Unregistered, Rejected, Resume, Boot
  <1>2. u = pass[r].on /\ pass[r].at = "asked"
    BY <1>1 DEF Forget
  <1> QED BY <1>2 DEF IInv, Justified

\* Whatever restarts, crashes inside a pass, failed writes and overlapping
\* passes occur, an endpoint is unregistered only after Threshold misses.
THEOREM MissesCorrect == Spec => RemovedOnlyAfterMisses
  <1>1. IInv /\ [Next]_vars => [\A u \in cache \ cache' : misses[u] = Threshold]_vars
    BY OnlyForgetRemoves
  <1> QED BY <1>1, Invariance, PTL DEF Spec, RemovedOnlyAfterMisses

\* Pruning never takes an endpoint that the running configuration exposes.
THEOREM ExposedCorrect == Spec => ExposedNeverPruned
  <1>1. IInv /\ [Next]_vars => [\A u \in cache \ cache' : u \notin exposed]_vars
    BY OnlyForgetRemoves
  <1> QED BY <1>1, Invariance, PTL DEF Spec, ExposedNeverPruned

-----------------------------------------------------------------------------
(* Names: what the batch computes                                          *)

USE DeviceAssumption, NameAssumption

\* A set of subsets of a finite set has a smallest one.
LEMMA Smallest ==
  ASSUME NEW X, IsFiniteSet(X), NEW T \in SUBSET (SUBSET X), T # {}
  PROVE  \E s \in T : \A t \in T : ~(t \subseteq s /\ t # s)
<1> DEFINE R == StrictSubsetOrdering(X)
<1>1. T \subseteq FiniteSubsetsOf(X)
  BY FS_FiniteSubsetsOfFinite
<1>2. PICK s \in T : \A t \in T : <<t, s>> \notin R
  BY <1>1, FS_StrictSubsetOrderingWellFounded, WFMin
<1> QED
  BY <1>2 DEF StrictSubsetOrdering

\* Of two devices one outranks the other; nobody outranks himself.
LEMMA OutranksOrder ==
  ASSUME NEW d \in Device, NEW e \in Device
  PROVE  /\ ~Outranks(d, d)
         /\ d # e => Outranks(d, e) \/ Outranks(e, d)
         /\ \A x \in Device : Outranks(d, e) /\ Outranks(e, x) => Outranks(d, x)
  BY DEF Outranks

\* One sequence after another
LEMMA Concat ==
  ASSUME NEW A, NEW s \in Seq(A), NEW t \in Seq(A)
  PROVE  /\ s \o t \in Seq(A)
         /\ Len(s \o t) = Len(s) + Len(t) /\ Len(s \o t) \in Nat
         /\ DOMAIN (s \o t) = 1..Len(s \o t)
         /\ \A i \in 1..Len(s) : (s \o t)[i] = s[i]
         /\ \A i \in 1..Len(t) : (s \o t)[Len(s) + i] = t[i]
  OBVIOUS

\* What the ways to make a name longer give
LEMMA TagType ==
  ASSUME NEW n \in Name, NEW d \in Device, NEW l \in DOMAIN Tag[d]
  PROVE  Tagged(n, d, l) \in Name /\ Len(Tagged(n, d, l)) = Len(n) + 1
<1>1. Tag[d] \in Seq(Part)
  OBVIOUS
<1>2. Tag[d][l] \in Part
  BY <1>1
<1> QED
  BY <1>2 DEF Tagged, Name

LEMMA TypedType ==
  ASSUME NEW n \in Name, NEW d \in Device
  PROVE  Typed(n, d) \in Name \cup {None}
  BY DEF Typed, Name

LEMMA NumberType ==
  ASSUME NEW n \in Name, NEW k \in Nat
  PROVE  Numbered(n, k) \in Name /\ Len(Numbered(n, k)) = Len(n) + k
<1> DEFINE s == [i \in 1..k |-> "I"]
<1>1. s \in [1..k -> Part]
  BY Zenon
<1> HIDE DEF s
<1>3. s \in Seq(Part) /\ Len(s) = k
  BY <1>1
<1>2. n \o s \in Seq(Part) /\ Len(n \o s) = Len(n) + Len(s)
  BY <1>3, ConcatProperties DEF Name
<1> QED
  BY <1>3, <1>2 DEF Numbered, Name, s

\* A device would like its label best, and has as many numbered names as there are
\* devices.
LEMMA CandidatesType ==
  ASSUME label \in [Device -> Label], NEW d \in Device, Cardinality(Device) \in Nat
  PROVE  /\ Candidates(d) \in Seq(Name) /\ Len(Candidates(d)) \in Nat
         /\ 1 \in DOMAIN Candidates(d) /\ Candidates(d)[1] = label[d]
         /\ \A k \in 1..Cardinality(Device) :
               \E i \in DOMAIN Candidates(d) :
                  Candidates(d)[i] = Tagged(Numbered(label[d], k + 1), d, 1)
<1> DEFINE b == label[d]
           N == Cardinality(Device)
           s1 == <<b>>
           s2 == IF Typed(b, d) = None THEN <<>> ELSE <<Typed(b, d)>>
           s3 == [l \in DOMAIN Tag[d] |-> Tagged(b, d, l)]
           s4 == [k \in 1..N |-> Tagged(Numbered(b, k + 1), d, 1)]
<1>0. b \in Name
  OBVIOUS
<1>tag. Tag[d] \in Seq(Part) /\ Len(Tag[d]) \in Nat /\ DOMAIN Tag[d] = 1..Len(Tag[d]) /\ 1 \in DOMAIN Tag[d]
  BY EmptySeq
<1>1. s1 \in Seq(Name) /\ Len(s1) = 1 /\ s1[1] = b
  BY <1>0
<1>2. s2 \in Seq(Name)
  BY <1>0, TypedType
<1>3. s3 \in Seq(Name)
  <2>1. \A l \in DOMAIN Tag[d] : Tagged(b, d, l) \in Name
    BY <1>0, TagType
  <2>2. s3 \in [1..Len(Tag[d]) -> Name]
    BY <2>1, <1>tag
  <2> QED
    BY <2>2, <1>tag
<1>4. s4 \in Seq(Name) /\ Len(s4) = N
  <2>1. \A k \in 1..N : Tagged(Numbered(b, k + 1), d, 1) \in Name
    <3> TAKE k \in 1..N
    <3>1. Numbered(b, k + 1) \in Name
      BY <1>0, NumberType
    <3> QED
      BY <3>1, <1>tag, TagType
  <2>2. s4 \in [1..N -> Name]
    BY <2>1
  <2> HIDE DEF s4
  <2> QED
    BY <2>2
<1>5. Candidates(d) = ((s1 \o s2) \o s3) \o s4
  BY DEF Candidates
<1>6. \A k \in 1..N : s4[k] = Tagged(Numbered(b, k + 1), d, 1)
  OBVIOUS
<1> HIDE DEF s1, s2, s3, s4, b
<1>len. Len(s2) \in Nat
  BY <1>2
<1>7. /\ s1 \o s2 \in Seq(Name) /\ Len(s1 \o s2) = 1 + Len(s2)
      /\ (s1 \o s2)[1] = b
  <2>1. /\ s1 \o s2 \in Seq(Name) /\ Len(s1 \o s2) = Len(s1) + Len(s2)
        /\ \A i \in 1..Len(s1) : (s1 \o s2)[i] = s1[i]
    <3>1. s1 \in Seq(Name)
      BY <1>1
    <3> QED
      BY <3>1, <1>2, Concat
  <2>2. 1 \in 1..Len(s1)
    BY <1>1
  <2> QED
    BY <1>1, <2>1, <2>2
<1> DEFINE s12 == s1 \o s2
<1>8. s12 \in Seq(Name) /\ Len(s12) \in Nat /\ Len(s12) >= 1 /\ s12[1] = b
  BY <1>7, <1>len
<1> HIDE DEF s12
<1> DEFINE s123 == s12 \o s3
<1>9. s123 \in Seq(Name) /\ Len(s123) \in Nat /\ Len(s123) >= 1 /\ s123[1] = b
  <2>1. /\ s123 \in Seq(Name) /\ Len(s123) = Len(s12) + Len(s3) /\ Len(s123) \in Nat
        /\ \A i \in 1..Len(s12) : s123[i] = s12[i]
    BY <1>8, <1>3, Concat
  <2>2. Len(s3) \in Nat /\ 1 \in 1..Len(s12)
    BY <1>3, <1>8
  <2> HIDE DEF s123
  <2> QED
    BY <1>8, <2>1, <2>2
<1> HIDE DEF s123
<1> DEFINE c == s123 \o s4
<1>10. /\ c \in Seq(Name) /\ Len(c) = Len(s123) + N /\ DOMAIN c = 1..Len(c)
       /\ c[1] = b
       /\ \A i \in 1..N : c[Len(s123) + i] = s4[i]
  <2>1. /\ c \in Seq(Name) /\ Len(c) = Len(s123) + Len(s4) /\ DOMAIN c = 1..Len(c)
        /\ \A i \in 1..Len(s123) : c[i] = s123[i]
        /\ \A i \in 1..Len(s4) : c[Len(s123) + i] = s4[i]
    <3>1. s123 \in Seq(Name) /\ s4 \in Seq(Name)
      BY <1>9, <1>4
    <3> QED
      BY <3>1, Concat
  <2>2. 1 \in 1..Len(s123)
    BY <1>9
  <2> HIDE DEF c
  <2> QED
    BY <1>4, <1>9, <2>1, <2>2
<1>11. Candidates(d) = c
  BY <1>5 DEF c, s123, s12
<1> HIDE DEF c
<1>12. \A k \in 1..N : Len(s123) + k \in DOMAIN c
  BY <1>9, <1>10
<1>13. \A k \in 1..N : \E i \in DOMAIN c : c[i] = Tagged(Numbered(b, k + 1), d, 1)
  BY <1>6, <1>10, <1>12
<1>14. 1 \in DOMAIN c /\ Len(c) \in Nat
  BY <1>9, <1>10
<1> QED
  BY <1>10, <1>11, <1>13, <1>14 DEF b

\* What other devices have taken: a name each at the most
ByOthers(d, taken) ==
    \E S \in SUBSET (Device \ {d}) : \E w : taken = {w[e] : e \in S}

\* There is a name nobody has, and a device has its label if nobody has taken it: of
\* the numbered names, which all differ, the others have too few for all to be taken.
LEMMA FreeExists ==
  ASSUME label \in [Device -> Label], NEW d \in Device, NEW taken, ByOthers(d, taken)
  PROVE  /\ Free(Candidates(d), taken) \in Name \ taken
         /\ label[d] \notin taken => Free(Candidates(d), taken) = label[d]
<1>a. PICK S \in SUBSET (Device \ {d}) : \E w : taken = {w[e] : e \in S}
  BY DEF ByOthers
<1>b. PICK w : taken = {w[e] : e \in S}
  BY <1>a
<1> DEFINE c == Candidates(d)
           N == Cardinality(Device)
           cand(k) == Tagged(Numbered(label[d], k + 1), d, 1)
           free(i) == c[i] \notin taken /\ \A j \in 1..(i - 1) : c[j] \in taken
<1>1. N \in Nat /\ IsFiniteSet(S) /\ Cardinality(S) < N
  <2>1. N \in Nat
    BY FS_CardinalityType
  <2>2. IsFiniteSet(Device \ {d}) /\ Cardinality(Device \ {d}) = N - 1
    BY FS_RemoveElement
  <2>3. IsFiniteSet(S) /\ Cardinality(S) <= Cardinality(Device \ {d})
    BY <2>2, FS_Subset
  <2>4. Cardinality(S) \in Nat
    BY <2>3, FS_CardinalityType
  <2> QED
    BY <2>1, <2>2, <2>3, <2>4
<1>2. /\ c \in Seq(Name) /\ Len(c) \in Nat /\ DOMAIN c = 1..Len(c)
      /\ 1 \in DOMAIN c /\ c[1] = label[d]
      /\ \A k \in 1..N : \E i \in DOMAIN c : c[i] = cand(k)
  BY <1>1, CandidatesType
<1>3. \A k, m \in 1..N : cand(k) = cand(m) => k = m
  <2> SUFFICES ASSUME NEW k \in 1..N, NEW m \in 1..N, cand(k) = cand(m)
               PROVE  k = m
    OBVIOUS
  <2> DEFINE b == label[d]
  <2>1. b \in Name /\ Len(b) \in Nat
    BY DEF Name
  <2>2. 1 \in DOMAIN Tag[d]
    BY EmptySeq
  <2>3. \A i \in 1..N : Len(cand(i)) = Len(b) + (i + 1) + 1
    <3> TAKE i \in 1..N
    <3> DEFINE j == i + 1
               nb == Numbered(b, j)
    <3>0. j \in Nat
      BY <1>1
    <3> HIDE DEF b, j
    <3>1. nb \in Name /\ Len(nb) = Len(b) + j
      BY <2>1, <3>0, NumberType
    <3> HIDE DEF nb
    <3>2. Len(Tagged(nb, d, 1)) = Len(nb) + 1
      BY <3>1, <2>2, TagType
    <3> QED
      <4>1. Len(cand(i)) = Len(nb) + 1
        BY <3>2 DEF nb, j, b
      <4> HIDE DEF cand
      <4> QED
        BY <3>1, <4>1 DEF j
  <2>4. Len(cand(k)) = Len(b) + (k + 1) + 1 /\ Len(cand(m)) = Len(b) + (m + 1) + 1
    BY <2>3
  <2> HIDE DEF cand, b
  <2> QED
    BY <1>1, <2>1, <2>4
<1> HIDE DEF c, cand
<1>4. \E i \in DOMAIN c : c[i] \notin taken
  <2> SUFFICES ASSUME \A i \in DOMAIN c : c[i] \in taken
               PROVE  FALSE
    OBVIOUS
  <2>1. \A k \in 1..N : cand(k) \in taken
    BY <1>2
  <2>2. \A k \in 1..N : \E e \in S : w[e] = cand(k)
    BY <1>b, <2>1
  <2> DEFINE f == [k \in 1..N |-> CHOOSE e \in S : w[e] = cand(k)]
  <2>3. f \in [1..N -> S] /\ \A k \in 1..N : w[f[k]] = cand(k)
    BY <2>2
  <2> HIDE DEF f
  <2>4. IsFiniteSet(1..N) /\ Cardinality(1..N) = N
    BY <1>1, FS_Interval
  <2>5. Cardinality(S) < Cardinality(1..N)
    BY <1>1, <2>4
  <2>6. PICK k \in 1..N, m \in 1..N : k # m /\ f[k] = f[m]
    <3> DEFINE T == 1..N
    <3>1. IsFiniteSet(T) /\ Cardinality(S) < Cardinality(T) /\ f \in [T -> S]
      BY <2>3, <2>4, <2>5
    <3> HIDE DEF T
    <3>2. \E x, y \in T : x # y /\ f[x] = f[y]
      BY <1>1, <3>1, FS_PigeonHole
    <3> QED
      BY <3>2 DEF T
  <2>7. cand(k) = cand(m)
    BY <2>3, <2>6
  <2> QED
    BY <1>3, <2>6, <2>7
<1>5. \E i \in DOMAIN c : free(i)
  <2> DEFINE A == {i \in DOMAIN c : c[i] \notin taken}
             T == {1..i : i \in A}
             X == 1..Len(c)
  <2>1. IsFiniteSet(X) /\ T \in SUBSET (SUBSET X) /\ T # {}
    <3>1. IsFiniteSet(X)
      BY <1>2, FS_Interval
    <3>2. \A i \in A : 1..i \subseteq X
      BY <1>2
    <3> QED
      BY <1>4, <3>1, <3>2
  <2>2. PICK s \in T : \A t \in T : ~(t \subseteq s /\ t # s)
    <3> HIDE DEF T, X
    <3> QED
      BY <2>1, Smallest
  <2>3. PICK i \in A : s = 1..i
    OBVIOUS
  <2>4. ASSUME NEW j \in 1..(i - 1) PROVE c[j] \in taken
    <3>1. j \in DOMAIN c /\ 1..j \subseteq 1..i /\ i \in 1..i /\ i \notin 1..j
      BY <1>2
    <3>2. 1..j \subseteq s /\ 1..j # s
      BY <2>3, <3>1
    <3>3. 1..j \notin T
      BY <2>2, <3>2
    <3> QED
      BY <3>1, <3>3
  <2> QED
    BY <2>4
<1> DEFINE i == CHOOSE i \in DOMAIN c : free(i)
<1>6. i \in DOMAIN c /\ free(i)
  BY <1>5
<1>7. Free(c, taken) = c[i]
  BY DEF Free
<1>8. Free(c, taken) \in Name /\ Free(c, taken) \notin taken
  <2> HIDE DEF i
  <2> QED
    BY <1>2, <1>6, <1>7
<1>9. label[d] \notin taken => Free(c, taken) = label[d]
  <2> HIDE DEF i
  <2>1. i \in Nat /\ i >= 1
    BY <1>2, <1>6
  <2> SUFFICES ASSUME c[1] \notin taken PROVE i = 1
    BY <1>2, <1>7
  <2>2. ~(1 \in 1..(i - 1))
    BY <1>6
  <2> QED
    BY <2>1, <2>2
<1> QED
  BY <1>8, <1>9 DEF c

-----------------------------------------------------------------------------
\* The recursion over the sorted devices has a solution, and what it gives.
Taken(D, w, d) == {w[e] : e \in Before(D, d)}

Solves(D, w, I) == \A d \in I : w[d] = Free(Candidates(d), Taken(D, w, d))

Closed(D, I) == I \subseteq D /\ \A d \in I : Before(D, d) \subseteq I

\* Some device outranks all of the others.
LEMMA FirstOf ==
  ASSUME NEW S \in SUBSET Device, S # {}
  PROVE  \E m \in S : Before(S, m) = {}
<1> DEFINE T == {Before(S, m) : m \in S}
<1>1. T \in SUBSET (SUBSET Device) /\ T # {}
  <2>1. \A m \in S : Before(S, m) \in SUBSET Device
    BY DEF Before
  <2>2. T \in SUBSET (SUBSET Device)
    BY <2>1, Zenon
  <2>3. PICK m \in S : TRUE
    OBVIOUS
  <2>4. Before(S, m) \in T
    OBVIOUS
  <2> QED
    BY <2>2, <2>4
<1>2. PICK s \in T : \A t \in T : ~(t \subseteq s /\ t # s)
  <2> DEFINE X == Device
  <2>1. IsFiniteSet(X) /\ T \in SUBSET (SUBSET X) /\ T # {}
    BY <1>1
  <2> HIDE DEF T, X
  <2> QED
    BY <2>1, Smallest
<1>3. PICK m \in S : s = Before(S, m)
  OBVIOUS
<1>4. ASSUME NEW e \in Before(S, m) PROVE FALSE
  <2>1. e \in S /\ e \in Device /\ m \in Device /\ Outranks(e, m)
    BY <1>4 DEF Before
  <2>2. Before(S, e) \subseteq Before(S, m)
    <3> SUFFICES ASSUME NEW x \in S, Outranks(x, e) PROVE Outranks(x, m)
      BY DEF Before
    <3> QED
      BY <2>1, OutranksOrder
  <2>3. e \notin Before(S, e)
    BY <2>1, OutranksOrder DEF Before
  <2>4. Before(S, e) # Before(S, m)
    BY <1>4, <2>3
  <2>5. Before(S, e) \in T
    BY <2>1
  <2> QED
    BY <1>2, <1>3, <2>2, <2>4, <2>5
<1> QED
  BY <1>4

\* Those who come before a device are others.
LEMMA TakenByOthers ==
  ASSUME NEW D \in SUBSET Device, NEW w, NEW d \in D
  PROVE  ByOthers(d, Taken(D, w, d))
<1> DEFINE S == Before(D, d)
<1>1. S \in SUBSET (Device \ {d})
  BY OutranksOrder DEF Before
<1>2. Taken(D, w, d) = {w[e] : e \in S}
  BY DEF Taken
<1> HIDE DEF S
<1> QED
  BY <1>1, <1>2 DEF ByOthers

\* One device more
LEMMA Extend ==
  ASSUME label \in [Device -> Label], NEW D \in SUBSET Device,
         NEW w \in [D -> Name], NEW I, Closed(D, I), Solves(D, w, I),
         NEW m \in D \ I, Before(D \ I, m) = {}
  PROVE  \E v \in [D -> Name] : Closed(D, I \cup {m}) /\ Solves(D, v, I \cup {m})
<1> DEFINE n == Free(Candidates(m), Taken(D, w, m))
           v == [w EXCEPT ![m] = n]
<1>1. Before(D, m) \subseteq I
  BY DEF Before
<1>2. n \in Name
  BY TakenByOthers, FreeExists
<1> HIDE DEF n
<1>3. v \in [D -> Name]
  BY <1>2
<1>4. Closed(D, I \cup {m})
  BY <1>1 DEF Closed
<1>5. ASSUME NEW d \in I \cup {m} PROVE Taken(D, v, d) = Taken(D, w, d)
  <2>1. Before(D, d) \subseteq I
    BY <1>1, <1>5 DEF Closed
  <2>2. \A e \in Before(D, d) : v[e] = w[e]
    BY <2>1 DEF Closed
  <2> QED
    BY <2>2 DEF Taken
<1>6. ASSUME NEW d \in I \cup {m} PROVE v[d] = Free(Candidates(d), Taken(D, v, d))
  <2>1. CASE d = m
    <3>1. v[m] = n
      OBVIOUS
    <3> QED
      BY <2>1, <3>1, <1>5 DEF n
  <2>2. CASE d \in I
    <3>1. v[d] = w[d]
      BY <2>2
    <3>2. w[d] = Free(Candidates(d), Taken(D, w, d))
      BY <2>2 DEF Solves
    <3> QED
      BY <3>1, <3>2, <1>5
  <2> QED
    BY <2>1, <2>2
<1> HIDE DEF v
<1>7. Solves(D, v, I \cup {m})
  BY <1>6 DEF Solves
<1> QED
  BY <1>3, <1>4, <1>7

\* Of the sets of devices, closed under who comes before, on which the recursion has a
\* solution, one that leaves out the fewest leaves out none.
LEMMA Solvable ==
  ASSUME label \in [Device -> Label], NEW D \in SUBSET Device
  PROVE  \E w \in [D -> Name] : Solves(D, w, D)
<1> DEFINE Partial(I) == Closed(D, I) /\ \E w \in [D -> Name] : Solves(D, w, I)
           T == {J \in SUBSET D : Partial(D \ J)}
<1>1. IsFiniteSet(D)
  BY FS_Subset
<1>2. D \in T
  <2>1. D \ D = {}
    OBVIOUS
  <2>2. Closed(D, {})
    BY DEF Closed
  <2>3. [d \in D |-> <<>>] \in [D -> Name]
    BY DEF Name
  <2>4. \E w \in [D -> Name] : Solves(D, w, {})
    BY <2>3 DEF Solves
  <2> QED
    BY <2>1, <2>2, <2>4
<1>3. PICK J \in T : \A K \in T : ~(K \subseteq J /\ K # J)
  <2>1. T \in SUBSET (SUBSET D)
    OBVIOUS
  <2> DEFINE X == D
  <2> HIDE DEF T, X
  <2>2. IsFiniteSet(X) /\ T \in SUBSET (SUBSET X) /\ T # {}
    BY <1>1, <1>2, <2>1 DEF X
  <2> QED
    BY <2>2, Smallest
<1>4. PICK w \in [D -> Name] : Solves(D, w, D \ J)
  OBVIOUS
<1>5. Closed(D, D \ J) /\ J \subseteq D
  OBVIOUS
<1>6. ASSUME J # {} PROVE FALSE
  <2>1. J \in SUBSET Device /\ D \ (D \ J) = J
    BY <1>5
  <2>2. PICK m \in J : Before(J, m) = {}
    BY <1>6, <2>1, FirstOf
  <2> DEFINE I == D \ J
             K == J \ {m}
  <2>3. I \cup {m} = D \ K /\ K \subseteq J /\ K # J /\ K \in SUBSET D /\ m \in D \ I
    BY <1>5
  <2>4. \E v \in [D -> Name] : Closed(D, I \cup {m}) /\ Solves(D, v, I \cup {m})
    <3>1. Closed(D, I) /\ Solves(D, w, I) /\ Before(D \ I, m) = {} /\ m \in D \ I
      BY <1>4, <1>5, <2>1, <2>2, <2>3
    <3> HIDE DEF I
    <3> QED
      BY <3>1, Extend
  <2> HIDE DEF I, K
  <2>5. Partial(D \ K)
    <3> DEFINE A == I \cup {m}
               B == D \ K
    <3>1. A = B
      BY <2>3
    <3>2. Closed(D, A) /\ \E v \in [D -> Name] : Solves(D, v, A)
      BY <2>4
    <3> HIDE DEF A, B
    <3>3. Closed(D, B) /\ \E v \in [D -> Name] : Solves(D, v, B)
      BY <3>1, <3>2
    <3> QED
      BY <3>3 DEF B
  <2> HIDE DEF Partial
  <2>6. K \in T
    BY <2>3, <2>5
  <2> QED
    BY <1>3, <2>3, <2>6
<1>7. D \ J = D
  BY <1>6
<1> QED
  BY <1>4, <1>7

\* A batch computes the names the loop over the sorted devices would.
LEMMA NamesOfSolves ==
  ASSUME label \in [Device -> Label], NEW D \in SUBSET Device
  PROVE  NamesOf(D) \in [D -> Name] /\ Solves(D, NamesOf(D), D)
<1>1. PICK w \in [D -> Name] : Solves(D, w, D)
  BY Solvable
<1> DEFINE P(g) == g = [d \in D |-> Free(Candidates(d), {g[e] : e \in Before(D, d)})]
           names == NamesOf(D)
<1>2. P(w)
  BY <1>1 DEF Solves, Taken
<1>3. names = CHOOSE g : P(g)
  BY DEF NamesOf
<1>4. P(names)
  <2> HIDE DEF P, names
  <2> QED
    BY <1>2, <1>3
<1> HIDE DEF names
<1>5. DOMAIN names = D /\ names = [d \in D |-> names[d]]
  BY <1>4
<1>6. Solves(D, names, D)
  BY <1>4 DEF Solves, Taken
<1>7. ASSUME NEW d \in D PROVE names[d] \in Name
  <2>1. names[d] = Free(Candidates(d), Taken(D, names, d))
    BY <1>6 DEF Solves
  <2> QED
    BY <2>1, TakenByOthers, FreeExists
<1> QED
  BY <1>5, <1>6, <1>7 DEF names

-----------------------------------------------------------------------------
(* What a table of names, computed or stored, promises                      *)

Entry == [name : Name, base : Label] \cup {NoEntry}

Owned(entries) == {d \in Device : entries[d] # NoEntry}

GoodTable(entries) ==
    /\ \A d, e \in Owned(entries) : d # e => entries[d].name # entries[e].name
    /\ \A d \in Owned(entries) : entries[d].name # entries[d].base =>
          \E e \in Owned(entries) : entries[e].name = entries[d].base /\ Outranks(e, d)

\* A device that has an entry has a name there.
LEMMA EntryType ==
  ASSUME NEW entries \in [Device -> Entry], NEW d \in Device
  PROVE  /\ d \in Owned(entries) => entries[d] \in [name : Name, base : Label]
         /\ d \in Owned(entries) <=> entries[d].name # None
         /\ entries[d].name \in Name \cup {None}
         /\ entries[d].base \in Label \cup {None}
<1>1. CASE entries[d] = NoEntry
  BY <1>1 DEF Owned, NoEntry
<1>2. CASE entries[d] # NoEntry
  <2>1. entries[d] \in [name : Name, base : Label]
    BY <1>2 DEF Entry
  <2>2. entries[d].name \in Name /\ entries[d].base \in Label
    BY <2>1
  <2> QED
    BY <1>2, <2>1, <2>2 DEF Owned
<1> QED
  BY <1>1, <1>2

\* What a batch computes is a good table: a device takes a name that none before it has,
\* and leaves its label only to one that comes before.
LEMMA BatchGood ==
  ASSUME label \in [Device -> Label], NEW D \in SUBSET Device
  PROVE  /\ Batch(D) \in [Device -> Entry]
         /\ GoodTable(Batch(D))
<1> DEFINE names == NamesOf(D)
           b == Batch(D)
<1>1. names \in [D -> Name] /\ Solves(D, names, D)
  BY NamesOfSolves
<1>2. \A d \in Device : b[d] = IF d \in D THEN [name |-> names[d], base |-> label[d]]
                                           ELSE NoEntry
  BY DEF Batch
<1>3. b = [d \in Device |-> b[d]]
  BY DEF Batch
<1> HIDE DEF names, b
<1>4. ASSUME NEW d \in D
      PROVE  /\ b[d] = [name |-> names[d], base |-> label[d]]
             /\ b[d] \in [name : Name, base : Label] /\ b[d] # NoEntry
             /\ b[d].name = names[d] /\ b[d].base = label[d]
  <2>1. b[d] = [name |-> names[d], base |-> label[d]]
    BY <1>2
  <2>2. names[d] \in Name /\ label[d] \in Label
    BY <1>1
  <2>3. b[d] \in [name : Name, base : Label]
    BY <2>1, <2>2
  <2>4. b[d].name = names[d] /\ b[d].name # None /\ b[d].base = label[d]
    BY <2>1, <2>2
  <2> QED
    BY <2>1, <2>3, <2>4 DEF NoEntry
<1>5. b \in [Device -> Entry]
  <2>1. ASSUME NEW d \in Device PROVE b[d] \in Entry
    BY <1>2, <1>4 DEF Entry
  <2> QED
    BY <1>3, <2>1
<1>6. Owned(b) = D
  BY <1>2, <1>4 DEF Owned
<1>7. ASSUME NEW d \in D, NEW e \in D, Outranks(e, d) PROVE names[d] # names[e]
  <2>1. names[d] = Free(Candidates(d), Taken(D, names, d))
    BY <1>1 DEF Solves
  <2>2. names[d] \notin Taken(D, names, d)
    BY <2>1, TakenByOthers, FreeExists
  <2> QED
    BY <1>7, <2>2 DEF Taken, Before
<1>8. ASSUME NEW d \in D, names[d] # label[d]
      PROVE  \E e \in D : names[e] = label[d] /\ Outranks(e, d)
  <2>1. names[d] = Free(Candidates(d), Taken(D, names, d))
    BY <1>1 DEF Solves
  <2>2. label[d] \in Taken(D, names, d)
    BY <1>8, <2>1, TakenByOthers, FreeExists
  <2> QED
    BY <2>2 DEF Taken, Before
<1>9. GoodTable(b)
  <2>1. ASSUME NEW d \in D, NEW e \in D, d # e PROVE names[d] # names[e]
    <3>1. Outranks(d, e) \/ Outranks(e, d)
      BY <2>1, OutranksOrder
    <3> QED
      BY <1>7, <3>1
  <2>2. ASSUME NEW d \in D, NEW e \in D, d # e PROVE b[d].name # b[e].name
    <3>1. b[d].name = names[d] /\ b[e].name = names[e]
      BY <1>4
    <3> QED
      BY <2>1, <2>2, <3>1
  <2>3. ASSUME NEW d \in D, b[d].name # b[d].base
        PROVE  \E e \in D : b[e].name = b[d].base /\ Outranks(e, d)
    BY <1>4, <1>8, <2>3
  <2> QED
    BY <1>6, <2>2, <2>3 DEF GoodTable
<1> QED
  BY <1>5, <1>9 DEF b

-----------------------------------------------------------------------------
(* The inductive invariant                                                  *)

SlotsType ==
    /\ DOMAIN slots \subseteq Name
    /\ \A n \in DOMAIN slots : slots[n] \in [dev : Device, base : Label]

\* A slot belongs to a device that has that name, and every name has a slot.
Holders == \A n \in DOMAIN slots : nameOf[slots[n].dev] = n
Slotted == \A d \in Named : nameOf[d] \in DOMAIN slots

\* Whoever lost the label it was named from lost it to a device that outranks it.
LostToTheHigher ==
    \A d \in Named : /\ from[d] \in Label
                     /\ nameOf[d] # from[d] =>
                           \E e \in Named : nameOf[e] = from[d] /\ Outranks(e, d)

NamesInv ==
    /\ NamesTypeOK /\ Holders /\ Slotted /\ LostToTheHigher
    /\ seeded \subseteq Named /\ DistinctAfterBatch
    /\ GoodTable(store)

LEMMA SlotsTyped == NamesTypeOK => SlotsType
  BY DEF NamesTypeOK, SlotsType

\* A registry that is seeded with a good table
LEMMA SeedsInv ==
  ASSUME NEW entries, entries \in [Device -> Entry], GoodTable(entries), Seeds(entries)
  PROVE  /\ SlotsType' /\ Holders' /\ Slotted' /\ LostToTheHigher'
         /\ nameOf' \in [Device -> Name \cup {None}]
         /\ from' \in [Device -> Label \cup {None}]
         /\ seeded' \subseteq Named' /\ seeded' \subseteq Device /\ DistinctAfterBatch'
<1> DEFINE owned == Owned(entries)
           ownerOf(n) == CHOOSE d \in owned : entries[d].name = n
           taken == {entries[d].name : d \in owned}
<1>1. /\ nameOf' = Names(entries) /\ seeded' = owned
      /\ from' = [d \in Device |-> entries[d].base]
      /\ slots' = [n \in taken |-> [dev |-> ownerOf(n), base |-> entries[ownerOf(n)].base]]
  BY DEF Seeds, Owned
<1>2. \A d \in Device : nameOf'[d] = entries[d].name /\ from'[d] = entries[d].base
  BY <1>1 DEF Names
<1>3. nameOf' \in [Device -> Name \cup {None}] /\ from' \in [Device -> Label \cup {None}]
  BY <1>1, EntryType DEF Names
<1>4. Named' = owned /\ owned \subseteq Device
  <2>1. \A d \in Device : d \in owned <=> nameOf'[d] # None
    BY <1>2, EntryType
  <2>2. owned \subseteq Device
    BY DEF Owned
  <2> HIDE DEF owned
  <2> QED
    BY <2>1, <2>2 DEF Named
<1>5. ASSUME NEW n \in taken
      PROVE  /\ ownerOf(n) \in owned /\ entries[ownerOf(n)].name = n
             /\ n \in Name /\ entries[ownerOf(n)].base \in Label
  <2>1. \E d \in owned : entries[d].name = n
    OBVIOUS
  <2>2. ownerOf(n) \in owned /\ entries[ownerOf(n)].name = n
    BY <2>1
  <2> DEFINE o == ownerOf(n)
  <2> HIDE DEF o
  <2>3. o \in Device /\ entries[o] \in [name : Name, base : Label]
    BY <1>4, <2>2, EntryType DEF o
  <2>4. entries[o].name \in Name /\ entries[o].base \in Label
    BY <2>3
  <2> QED
    BY <2>2, <2>4 DEF o
<1>6. \A d \in owned : entries[d].name \in taken /\ entries[d].base \in Label
  BY <1>4, EntryType
<1> HIDE DEF ownerOf, taken
<1>7. DOMAIN slots' = taken
  BY <1>1
<1>8. ASSUME NEW n \in taken
      PROVE  /\ slots'[n] = [dev |-> ownerOf(n), base |-> entries[ownerOf(n)].base]
             /\ slots'[n].dev = ownerOf(n)
             /\ slots'[n] \in [dev : Device, base : Label]
  <2>1. slots'[n] = [dev |-> ownerOf(n), base |-> entries[ownerOf(n)].base]
    BY <1>1
  <2>2. ownerOf(n) \in Device /\ entries[ownerOf(n)].base \in Label
    BY <1>4, <1>5
  <2> QED
    BY <2>1, <2>2
<1>9. SlotsType'
  BY <1>5, <1>7, <1>8 DEF SlotsType
<1>10. Holders'
  <2>1. ASSUME NEW n \in taken PROVE nameOf'[slots'[n].dev] = n
    BY <1>2, <1>4, <1>5, <1>8
  <2> QED
    BY <1>7, <2>1 DEF Holders
<1>11. Slotted'
  BY <1>2, <1>4, <1>6, <1>7 DEF Slotted
<1>12. LostToTheHigher'
  <2>1. ASSUME NEW d \in owned, entries[d].name # entries[d].base
        PROVE  \E e \in owned : entries[e].name = entries[d].base /\ Outranks(e, d)
    BY <2>1 DEF GoodTable
  <2>2. ASSUME NEW d \in owned
        PROVE  /\ from'[d] \in Label
               /\ nameOf'[d] # from'[d] =>
                     \E e \in owned : nameOf'[e] = from'[d] /\ Outranks(e, d)
    BY <1>2, <1>4, <1>6, <2>1
  <2> QED
    BY <1>4, <2>2 DEF LostToTheHigher, Outranks
<1>13. DistinctAfterBatch'
  <2>1. ASSUME NEW d \in owned, NEW e \in owned, d # e PROVE nameOf'[d] # nameOf'[e]
    BY <1>2, <1>4, <2>1, Zenon DEF GoodTable
  <2> QED
    BY <1>4, <2>1 DEF DistinctAfterBatch, Distinct
<1> QED
  BY <1>1, <1>3, <1>4, <1>9, <1>10, <1>11, <1>12, <1>13

\* Incremental suffixes
LEMMA SuffixType ==
  ASSUME NEW d \in Device, NEW b \in Label
  PROVE  SuffixFor(d, b) \in Name
<1>1. b \in Name /\ 1 \in DOMAIN Tag[d]
  BY EmptySeq
<1>2. Tagged(b, d, 1) \in Name /\ Typed(b, d) \in Name \cup {None}
  BY <1>1, TagType, TypedType
<1> QED
  BY <1>2 DEF SuffixFor

\* One name more, its base being the label: what the three ways of it share.
LEMMA NamedMore ==
  ASSUME NamesTypeOK, NEW d \in Device, nameOf[d] = None, nameOf'[d] \in Name,
         from' = [from EXCEPT ![d] = label[d]],
         nameOf' \in [Device -> Name \cup {None}],
         \A e \in Device : e # d => (nameOf'[e] = None <=> nameOf[e] = None)
  PROVE  /\ Named' = Named \cup {d} /\ d \notin Named
         /\ from'[d] = label[d] /\ \A e \in Named : from'[e] = from[e]
         /\ from' \in [Device -> Label \cup {None}]
<1>1. None \notin Name /\ label[d] \in Label /\ from \in [Device -> Label \cup {None}]
  BY DEF NamesTypeOK
<1> QED
  BY <1>1, Zenon DEF Named

\* A device that is not known is given its label, displaces the holder, or gives way.
LEMMA MapInv ==
  ASSUME NamesInv, NEW d \in Device, Map(d)
  PROVE  NamesInv'
<1> DEFINE n == label[d]
           owner == Slot(n)
           suffixed == SuffixFor(d, n)
<1>1. /\ d \in listed /\ nameOf[d] = None /\ Resolve(d)
      /\ from' = [from EXCEPT ![d] = label[d]]
      /\ label' = label /\ listed' = listed /\ store' = store /\ seeded' = seeded
  BY DEF Map, panelState
<1>2. /\ n \in Label /\ n \in Name /\ NamesTypeOK /\ SlotsType /\ suffixed \in Name
      /\ nameOf \in [Device -> Name \cup {None}] /\ None \notin Name
  BY SlotsTyped, SuffixType DEF NamesInv, NamesTypeOK
<1>3. /\ Holders /\ Slotted /\ LostToTheHigher /\ d \notin Named
      /\ Named \subseteq Device
  BY <1>1 DEF NamesInv, Named
<1>4. \A m \in DOMAIN slots : slots[m].dev \in Device /\ slots[m].base \in Label
  BY <1>2 DEF SlotsType
<1>5. \A m \in DOMAIN slots : slots[m].dev \in Named /\ slots[m].dev # d
  BY <1>1, <1>2, <1>3, <1>4 DEF Holders, SlotsType, Named
\* What the rest of the invariant needs of a step
<1>6. ASSUME nameOf' \in [Device -> Name \cup {None}], nameOf'[d] \in Name,
             \A e \in Device : e # d => (nameOf'[e] = None <=> nameOf[e] = None),
             SlotsType', Holders', Slotted', LostToTheHigher'
      PROVE  NamesInv'
  <2>1. /\ Named' = Named \cup {d} /\ d \notin Named
        /\ from' \in [Device -> Label \cup {None}]
    BY <1>1, <1>2, <1>6, NamedMore
  <2>2. NamesTypeOK'
    BY <1>1, <1>2, <1>6, <2>1 DEF NamesTypeOK, SlotsType
  <2>3. seeded' \subseteq Named' /\ ~(Named' \subseteq seeded')
    BY <1>1, <2>1 DEF NamesInv
  <2>4. DistinctAfterBatch'
    BY <2>3 DEF DistinctAfterBatch
  <2>5. GoodTable(store)'
    BY <1>1 DEF NamesInv, GoodTable, Owned, Outranks
  <2> QED
    BY <1>6, <2>2, <2>3, <2>4, <2>5 DEF NamesInv
<1>7. CASE owner = None /\ slots' = With(slots, n, d, n) /\ nameOf' = [nameOf EXCEPT ![d] = n]
  <2>1. n \notin DOMAIN slots
    BY <1>4, <1>7 DEF Slot
  <2>2. /\ nameOf' \in [Device -> Name \cup {None}] /\ nameOf'[d] = n
        /\ \A e \in Device : e # d => nameOf'[e] = nameOf[e]
    BY <1>2, <1>7
  <2>3. /\ Named' = Named \cup {d} /\ d \notin Named
        /\ from'[d] = n /\ \A e \in Named : from'[e] = from[e]
    BY <1>1, <1>2, <2>2, NamedMore
  <2>4. /\ DOMAIN slots' = DOMAIN slots \cup {n} /\ slots'[n] = [dev |-> d, base |-> n]
        /\ \A m \in DOMAIN slots : m # n => slots'[m] = slots[m]
    BY <1>7 DEF With
  <2>5. SlotsType'
    BY <1>2, <2>4 DEF SlotsType
  <2>6. Holders'
    <3>1. ASSUME NEW m \in DOMAIN slots' PROVE nameOf'[slots'[m].dev] = m
      <4>1. CASE m = n
        BY <2>2, <2>4, <4>1
      <4>2. CASE m # n
        <5>1. m \in DOMAIN slots /\ slots'[m] = slots[m]
          BY <2>4, <4>2
        <5>2. nameOf[slots[m].dev] = m /\ slots[m].dev \in Device /\ slots[m].dev # d
          BY <1>3, <1>4, <1>5, <5>1 DEF Holders
        <5> QED
          BY <2>2, <5>1, <5>2
      <4> QED
        BY <4>1, <4>2
    <3> QED
      BY <3>1 DEF Holders
  <2>7. Slotted'
    BY <1>3, <2>2, <2>3, <2>4 DEF Slotted
  <2>8. LostToTheHigher'
    BY <1>2, <1>3, <2>2, <2>3 DEF LostToTheHigher, Outranks
  <2> QED
    BY <1>2, <1>6, <2>2, <2>5, <2>6, <2>7, <2>8
<1>8. CASE /\ owner # None /\ ~Displaces(d, owner)
           /\ slots' = With(slots, suffixed, d, n)
           /\ nameOf' = [nameOf EXCEPT ![d] = suffixed]
  <2>1. n \in DOMAIN slots /\ owner = slots[n].dev
    BY <1>8 DEF Slot
  <2>2. /\ nameOf' \in [Device -> Name \cup {None}] /\ nameOf'[d] = suffixed
        /\ \A e \in Device : e # d => nameOf'[e] = nameOf[e]
    BY <1>2, <1>8
  <2>3. /\ Named' = Named \cup {d} /\ d \notin Named
        /\ from'[d] = n /\ \A e \in Named : from'[e] = from[e]
    BY <1>1, <1>2, <2>2, NamedMore
  <2> HIDE DEF suffixed, owner
  <2>4. /\ DOMAIN slots' = DOMAIN slots \cup {suffixed}
        /\ slots'[suffixed] = [dev |-> d, base |-> n]
        /\ \A m \in DOMAIN slots : m # suffixed => slots'[m] = slots[m]
    BY <1>8 DEF With
  <2>5. SlotsType'
    BY <1>2, <2>4 DEF SlotsType
  <2>6. Holders'
    <3>1. ASSUME NEW m \in DOMAIN slots' PROVE nameOf'[slots'[m].dev] = m
      <4>1. CASE m = suffixed
        BY <2>2, <2>4, <4>1
      <4>2. CASE m # suffixed
        <5>1. m \in DOMAIN slots /\ slots'[m] = slots[m]
          BY <2>4, <4>2
        <5>2. nameOf[slots[m].dev] = m /\ slots[m].dev \in Device /\ slots[m].dev # d
          BY <1>3, <1>4, <1>5, <5>1 DEF Holders
        <5> QED
          BY <2>2, <5>1, <5>2
      <4> QED
        BY <4>1, <4>2
    <3> QED
      BY <3>1 DEF Holders
  <2>7. Slotted'
    BY <1>3, <2>2, <2>3, <2>4 DEF Slotted
  <2>8. owner \in Named /\ nameOf[owner] = n /\ Outranks(owner, d)
    <3>1. owner \in Named /\ owner # d /\ nameOf[owner] = n
      BY <1>3, <1>5, <2>1 DEF Holders
    <3> QED
      BY <1>3, <1>8, <3>1, OutranksOrder DEF Displaces
  <2>9. ASSUME NEW e \in Named, nameOf[e] # from[e]
        PROVE  \E x \in Named' : nameOf'[x] = from'[e] /\ Outranks(x, e)
    BY <1>3, <2>2, <2>3, <2>9 DEF LostToTheHigher
  <2>10. LostToTheHigher'
    <3>1. ASSUME NEW e \in Named'
          PROVE  /\ from'[e] \in Label
                 /\ nameOf'[e] # from'[e] =>
                       \E x \in Named' : nameOf'[x] = from'[e] /\ Outranks(x, e)
      <4>1. CASE e = d
        BY <1>2, <1>3, <2>2, <2>3, <2>8, <4>1
      <4>2. CASE e \in Named
        <5>1. nameOf'[e] = nameOf[e] /\ from'[e] = from[e] /\ from[e] \in Label
          BY <1>3, <2>2, <2>3, <4>2 DEF LostToTheHigher
        <5> QED
          BY <2>9, <4>2, <5>1
      <4> QED
        BY <2>3, <4>1, <4>2
    <3> QED
      BY <3>1 DEF LostToTheHigher, Outranks
  <2> QED
    BY <1>2, <1>6, <2>2, <2>5, <2>6, <2>7, <2>10
<1>9. CASE /\ owner # None /\ Displaces(d, owner)
           /\ slots' = With(With(slots, SuffixFor(owner, slots[n].base), owner, slots[n].base),
                            n, d, n)
           /\ nameOf' = [nameOf EXCEPT ![owner] = SuffixFor(owner, slots[n].base), ![d] = n]
  <2> DEFINE base == slots[n].base
             moved == SuffixFor(owner, base)
             S == With(slots, moved, owner, base)
  <2>1. n \in DOMAIN slots /\ owner = slots[n].dev
    BY <1>9 DEF Slot
  <2>2. owner \in Named /\ owner \in Device /\ owner # d /\ nameOf[owner] = n /\ base \in Label
    BY <1>3, <1>4, <1>5, <2>1 DEF Holders
  <2>3. moved \in Name
    BY <2>2, SuffixType
  <2> HIDE DEF moved, owner
  <2>4. /\ nameOf' \in [Device -> Name \cup {None}] /\ nameOf'[d] = n /\ nameOf'[owner] = moved
        /\ \A e \in Device : e # d /\ e # owner => nameOf'[e] = nameOf[e]
    BY <1>2, <1>9, <2>2, <2>3 DEF moved
  <2>5. \A e \in Device : e # d => (nameOf'[e] = None <=> nameOf[e] = None)
    BY <1>2, <2>2, <2>3, <2>4
  <2>6. /\ Named' = Named \cup {d} /\ d \notin Named
        /\ from'[d] = n /\ \A e \in Named : from'[e] = from[e]
    BY <1>1, <1>2, <2>4, <2>5, NamedMore
  <2>7. /\ DOMAIN slots' = DOMAIN slots \cup {moved, n} /\ slots'[n] = [dev |-> d, base |-> n]
        /\ moved # n => slots'[moved] = [dev |-> owner, base |-> base]
        /\ \A m \in DOMAIN slots : m # n /\ m # moved => slots'[m] = slots[m]
    <3>1. /\ DOMAIN S = DOMAIN slots \cup {moved} /\ S[moved] = [dev |-> owner, base |-> base]
          /\ \A m \in DOMAIN slots : m # moved => S[m] = slots[m]
      BY DEF With
    <3>2. slots' = With(S, n, d, n)
      BY <1>9 DEF moved
    <3> HIDE DEF S
    <3>3. /\ DOMAIN slots' = DOMAIN S \cup {n} /\ slots'[n] = [dev |-> d, base |-> n]
          /\ \A m \in DOMAIN S : m # n => slots'[m] = S[m]
      BY <3>2 DEF With
    <3> QED
      BY <3>1, <3>3
  <2> HIDE DEF base, S
  <2>8. SlotsType'
    <3>1. [dev |-> d, base |-> n] \in [dev : Device, base : Label]
      BY <1>2
    <3>2. [dev |-> owner, base |-> base] \in [dev : Device, base : Label]
      BY <2>2
    <3>3. ASSUME NEW m \in DOMAIN slots' PROVE m \in Name /\ slots'[m] \in [dev : Device, base : Label]
      <4>1. CASE m = n
        BY <1>2, <2>7, <3>1, <4>1
      <4>2. CASE m = moved /\ m # n
        BY <2>3, <2>7, <3>2, <4>2
      <4>3. CASE m # n /\ m # moved
        BY <1>2, <2>7, <4>3 DEF SlotsType
      <4> QED
        BY <4>1, <4>2, <4>3
    <3> QED
      BY <3>3 DEF SlotsType
  <2>9. Holders'
    <3>1. ASSUME NEW m \in DOMAIN slots' PROVE nameOf'[slots'[m].dev] = m
      <4>1. CASE m = n
        BY <2>4, <2>7, <4>1
      <4>2. CASE m = moved /\ m # n
        BY <2>4, <2>7, <4>2
      <4>3. CASE m # n /\ m # moved
        <5>1. m \in DOMAIN slots /\ slots'[m] = slots[m]
          BY <2>7, <4>3
        <5>2. nameOf[slots[m].dev] = m /\ slots[m].dev \in Device /\ slots[m].dev # d
          BY <1>3, <1>4, <1>5, <5>1 DEF Holders
        <5>3. slots[m].dev # owner
          BY <2>2, <4>3, <5>2
        <5> QED
          BY <2>4, <5>1, <5>2, <5>3
      <4> QED
        BY <4>1, <4>2, <4>3
    <3> QED
      BY <3>1 DEF Holders
  <2>10. Slotted'
    <3>1. ASSUME NEW e \in Named' PROVE nameOf'[e] \in DOMAIN slots'
      BY <1>3, <2>4, <2>6, <2>7 DEF Slotted
    <3> QED
      BY <3>1 DEF Slotted
  <2>11. Outranks(d, owner)
    BY <1>9 DEF Displaces
  <2>12. ASSUME NEW e \in Named
         PROVE  /\ from'[e] \in Label
                /\ nameOf'[e] # from'[e] =>
                      \E x \in Named' : nameOf'[x] = from'[e] /\ Outranks(x, e)
    <3>1. from'[e] = from[e] /\ from[e] \in Label /\ e # d /\ e \in Device
      BY <1>3, <2>6 DEF LostToTheHigher
    <3>2. d \in Named' /\ nameOf'[d] = n /\ Named \subseteq Named'
      BY <2>4, <2>6
    <3>3. ASSUME NEW x \in Named, nameOf[x] = from[e], Outranks(x, e)
          PROVE  \E y \in Named' : nameOf'[y] = from'[e] /\ Outranks(y, e)
      <4>1. CASE x = owner
        <5>1. from'[e] = n /\ Outranks(d, e)
          BY <2>2, <2>11, <3>1, <3>3, <4>1, OutranksOrder
        <5> QED
          BY <3>2, <5>1
      <4>2. CASE x # owner
        <5>1. nameOf'[x] = nameOf[x] /\ x \in Named'
          BY <1>3, <2>4, <3>2, <4>2
        <5> QED
          BY <3>1, <3>3, <5>1
      <4> QED
        BY <4>1, <4>2
    <3>4. CASE nameOf[e] # from[e]
      <4>1. PICK x \in Named : nameOf[x] = from[e] /\ Outranks(x, e)
        BY <1>3, <3>4 DEF LostToTheHigher
      <4> QED
        BY <3>1, <3>3, <4>1
    <3>5. CASE nameOf[e] = from[e] /\ e = owner
      <4>1. from'[e] = n
        BY <2>2, <3>1, <3>5
      <4> QED
        BY <2>11, <3>1, <3>2, <3>5, <4>1
    <3>6. CASE nameOf[e] = from[e] /\ e # owner
      BY <2>4, <3>1, <3>6
    <3> QED
      BY <3>4, <3>5, <3>6
  <2>13. LostToTheHigher'
    <3>1. from'[d] \in Label /\ nameOf'[d] = from'[d]
      BY <1>2, <2>4, <2>6
    <3>2. ASSUME NEW e \in Named'
          PROVE  /\ from'[e] \in Label
                 /\ nameOf'[e] # from'[e] =>
                       \E x \in Named' : nameOf'[x] = from'[e] /\ Outranks(x, e)
      BY <2>6, <2>12, <3>1
    <3> QED
      BY <3>2 DEF LostToTheHigher, Outranks
  <2> QED
    BY <1>2, <1>6, <2>4, <2>5, <2>8, <2>9, <2>10, <2>13
<1> QED
  BY <1>1, <1>7, <1>8, <1>9 DEF Resolve

\* The invariant is inductive.
LEMMA NamesInitInv == NamesInit => NamesInv
<1> SUFFICES ASSUME NamesInit PROVE NamesInv
  OBVIOUS
<1>1. Named = {} /\ DOMAIN slots = {}
  BY DEF NamesInit, Named
<1>2. /\ nameOf \in [Device -> Name \cup {None}] /\ from \in [Device -> Label \cup {None}]
      /\ store \in [Device -> Entry] /\ \A d \in Device : store[d] = NoEntry
      /\ seeded = {} /\ label \in [Device -> Label] /\ listed \subseteq Device
  BY DEF NamesInit, Entry
<1>3. NamesTypeOK
  BY <1>1, <1>2 DEF NamesTypeOK, Entry
<1>4. Owned(store) = {}
  BY <1>2 DEF Owned
<1> QED
  BY <1>1, <1>2, <1>3, <1>4
  DEF NamesInv, Holders, Slotted, LostToTheHigher, DistinctAfterBatch, Distinct, GoodTable

\* What seeding leaves to show
LEMMA SeededInv ==
  ASSUME NamesInv, NEW entries, entries \in [Device -> Entry], GoodTable(entries),
         Seeds(entries), store' \in {store, entries}, UNCHANGED panelState
  PROVE  NamesInv'
<1>1. /\ SlotsType' /\ Holders' /\ Slotted' /\ LostToTheHigher'
      /\ nameOf' \in [Device -> Name \cup {None}] /\ from' \in [Device -> Label \cup {None}]
      /\ seeded' \subseteq Named' /\ seeded' \subseteq Device /\ DistinctAfterBatch'
  BY SeedsInv
<1>2. store \in [Device -> Entry] /\ GoodTable(store)
  BY DEF NamesInv, NamesTypeOK, Entry
<1>3. store' \in [Device -> Entry]
  BY <1>2
<1>4. GoodTable(store')
  BY <1>2
<1>5. GoodTable(store)'
  BY <1>4 DEF GoodTable, Owned, Outranks
<1>6. label' \in [Device -> Label] /\ listed' \subseteq Device
  BY DEF NamesInv, NamesTypeOK, panelState
<1>7. NamesTypeOK'
  BY <1>1, <1>3, <1>6 DEF NamesTypeOK, SlotsType, Entry
<1> QED
  BY <1>1, <1>5, <1>7 DEF NamesInv

LEMMA NamesNextInv == NamesInv /\ [NamesNext]_namesVars => NamesInv'
<1> SUFFICES ASSUME NamesInv, [NamesNext]_namesVars PROVE NamesInv'
  OBVIOUS
<1>1. ASSUME NEW d \in Device, Map(d) PROVE NamesInv'
  BY <1>1, MapInv
<1>2. CASE Finalize
  <2>1. Batch(listed) \in [Device -> Entry] /\ GoodTable(Batch(listed))
    BY BatchGood DEF NamesInv, NamesTypeOK
  <2>2. /\ Seeds(Batch(listed)) /\ store' \in {store, Batch(listed)} /\ UNCHANGED panelState
    BY <1>2 DEF Finalize
  <2> DEFINE b == Batch(listed)
  <2> HIDE DEF b
  <2>3. b \in [Device -> Entry] /\ GoodTable(b) /\ Seeds(b) /\ store' \in {store, b}
    BY <2>1, <2>2 DEF b
  <2> QED
    BY <2>2, <2>3, SeededInv
<1>3. CASE Restart
  <2>1. store \in [Device -> Entry] /\ GoodTable(store)
    BY DEF NamesInv, NamesTypeOK, Entry
  <2>2. Seeds(store) /\ store' \in {store, store} /\ UNCHANGED panelState
    BY <1>3 DEF Restart
  <2> QED
    BY <2>1, <2>2, SeededInv
\* The panel is edited: labels and lists change, names do not.
<1>4. ASSUME UNCHANGED <<slots, nameOf, store, seeded, from>>,
             label' \in [Device -> Label], listed' \subseteq Device
      PROVE  NamesInv'
  <2>1. NamesTypeOK'
    BY <1>4 DEF NamesInv, NamesTypeOK, Entry
  <2>2. Named' = Named
    BY <1>4 DEF Named
  <2>3. Holders' /\ Slotted' /\ LostToTheHigher'
    BY <1>4, <2>2 DEF NamesInv, Holders, Slotted, LostToTheHigher, Outranks
  <2>4. seeded' \subseteq Named' /\ DistinctAfterBatch'
    BY <1>4, <2>2 DEF NamesInv, DistinctAfterBatch, Distinct
  <2>5. GoodTable(store)'
    BY <1>4 DEF NamesInv, GoodTable, Owned, Outranks
  <2> QED
    BY <2>1, <2>3, <2>4, <2>5 DEF NamesInv
<1>5. label \in [Device -> Label] /\ listed \subseteq Device
  BY DEF NamesInv, NamesTypeOK
<1>6. ASSUME NEW d \in Device, PanelEdits(d) PROVE NamesInv'
  <2>1. /\ UNCHANGED <<slots, nameOf, store, seeded, from>>
        /\ label' \in [Device -> Label] /\ listed' \subseteq Device
    BY <1>5, <1>6 DEF PanelEdits
  <2> QED
    BY <1>4, <2>1
<1>7. ASSUME NEW d \in Device, NEW n \in Label, PanelRenames(d, n) PROVE NamesInv'
  <2>1. /\ UNCHANGED <<slots, nameOf, store, seeded, from>>
        /\ label' \in [Device -> Label] /\ listed' \subseteq Device
    BY <1>5, <1>7 DEF PanelRenames
  <2> QED
    BY <1>4, <2>1
<1>8. CASE UNCHANGED namesVars
  <2>1. /\ UNCHANGED <<slots, nameOf, store, seeded, from>>
        /\ label' \in [Device -> Label] /\ listed' \subseteq Device
    BY <1>5, <1>8 DEF namesVars, panelState
  <2> QED
    BY <1>4, <2>1
<1> QED
  BY <1>1, <1>2, <1>3, <1>6, <1>7, <1>8 DEF NamesNext

LEMMA NamesInvHolds == NamesSpec => []NamesInv
  BY NamesInitInv, NamesNextInv, PTL DEF NamesSpec

\* Who has a name, which slot it occupies, what the file holds.
THEOREM NamesTypeCorrect == NamesSpec => []NamesTypeOK
<1>1. NamesInv => NamesTypeOK
  BY DEF NamesInv
<1> QED
  BY <1>1, NamesInvHolds, PTL

\* After a batch, or a boot from a stored map, no two endpoints have one name until a
\* device is mapped that it did not know.
THEOREM DistinctCorrect == NamesSpec => []DistinctAfterBatch
<1>1. NamesInv => DistinctAfterBatch
  BY DEF NamesInv
<1> QED
  BY <1>1, NamesInvHolds, PTL

\* A clean name is lost only to a device that outranks the loser and has it.
THEOREM CleanNameCorrect == NamesSpec => []CleanNameToTheHigher
<1>1. NamesInv => CleanNameToTheHigher
  BY DEF NamesInv, LostToTheHigher, CleanNameToTheHigher, Named
<1> QED
  BY <1>1, NamesInvHolds, PTL
=============================================================================
