------------------------ MODULE MatterRegistration_proofs ------------------------
(***************************************************************************)
(* Proofs about MatterRegistration, for any states, names and bounds, and  *)
(* passes that do not overlap.                                             *)
(*                                                                         *)
(* Everything rests on Lone: only the last registration is worked on, by   *)
(* the chain that was made with it.                                        *)
(***************************************************************************)
EXTENDS MatterRegistration, TLAPS, SequenceTheorems

USE KindsAssumption, NoneAssumption, BoundAssumption

Push(c, v) == [cluster |-> c, value |-> v]

\* Registrations and chains are made together.  All are done but perhaps the last,
\* which is the one in the map; only a registered one is renamed.
Lone ==
    /\ current = Len(regs)
    /\ \A k \in DOMAIN chain : k # current => chain[k] = Done
    /\ Renaming => IsRegistered

\* The endpoint and the fallback store agree on what the device is.
Shaped ==
    /\ marker => kind = "thermostat"
    /\ endpoint # None =>
          endpoint.shape = Shape /\ DOMAIN endpoint.shows = ToSet(Clusters(Shape))

\* Chain c works on registration r, the last one, until it is registered or failed.
Worked(r, c) ==
    /\ c = Done <=> r.status # "pending"
    /\ c.at = "done" => c = Done
    /\ r.status = "pending" => c.reg = current
    /\ c.at \in {"fallback", "recovering"} => kind = "thermostat"
    /\ r.shape = Shape

\* It is registered three times at most; a fallback may come after the third.
Counted(r, c) == r.status = "pending" /\ c.at # "recovering" => r.attempts <= 2

\* What is pending is one state for all clusters of what the device is now, the
\* latest one if r follows the client's object; somebody will flush it.
Owed(r) ==
    /\ \/ r.pending = <<>> /\ r.status # "pending"
       \/ \E v \in Value : r.pending = Updates(Shape, v) /\ (r.dev = None => v = value)
    /\ r.status = "registered" /\ r.pending # <<>> => timer
    /\ r.status = "failed" => r.pending = <<>>

\* The endpoint has the name it was registered under, and that will do, or a pass
\* sees that it does not.
Known(r, c) ==
    /\ r.liveName # None /\ endpoint # None => endpoint.name = r.liveName
    /\ c.at = "probing" \/ r.status = "registered" => r.liveName # None
    /\ r.status = "pending" /\ r.liveName # None => r.liveName = r.name
    /\ ~deferred /\ r.status = "pending" => r.name = wanted
    /\ ~deferred /\ r.status = "registered" => r.liveName = wanted \/ Renaming

\* A registered endpoint is there and answers.
Answering(r) == r.status = "registered" => endpoint # None /\ endpoint.answers = "yes"

Sound(r, c) == Worked(r, c) /\ Counted(r, c) /\ Owed(r) /\ Known(r, c) /\ Answering(r)

\* Flushes that overlap push a cluster in the order they were made.
Ordered ==
    /\ kind = "thermostat" => \A n \in DOMAIN flushes : Len(flushes[n]) = 1
    /\ kind = "light" =>
          /\ \A n \in DOMAIN flushes : \E v \in Value :
                flushes[n] \in {<<Push("onOff", v), Push("levelControl", v)>>,
                                <<Push("levelControl", v)>>}
          /\ \A m, n \in DOMAIN flushes : m < n => Len(flushes[m]) <= Len(flushes[n])

\* The last flush has a cluster left.
Half(q) == q # <<>> /\ Len(q[Len(q)]) = 2

\* With nothing pending, the endpoint shows the state, or the last flush is about to
\* push it.
Latest(r) ==
    r.status = "registered" /\ r.pending = <<>> /\ r.dev = None =>
       /\ \A c \in DOMAIN endpoint.shows :
             endpoint.shows[c] = value \/ (c = "levelControl" /\ Half(flushes))
       /\ Half(flushes) => flushes[Len(flushes)][2].value = value

\* The inductive invariant.
IInv ==
    /\ TypeOK /\ Lone /\ Shaped /\ Ordered
    /\ current # 0 => Sound(regs[current], chain[current]) /\ Latest(regs[current])

-----------------------------------------------------------------------------
(* Updates                                                                 *)

LEMMA ClustersAre ==
  /\ Shape \in ShapeName => ToSet(Clusters(Shape)) \in SUBSET Cluster
  /\ Clusters("light") = <<"onOff", "levelControl">>
  /\ ToSet(Clusters("light")) = {"onOff", "levelControl"}
  /\ \A s \in {"thermostat", "temperature"} : Clusters(s) = <<s>> /\ ToSet(Clusters(s)) = {s}
  BY DEF Clusters, ToSet, ShapeName, Cluster

LEMMA ShapeType == TypeOK => Shape \in ShapeName
  BY DEF TypeOK, Shape, ShapeName

LEMMA UpdatesType ==
  ASSUME TypeOK, NEW v \in Value
  PROVE  /\ Updates(Shape, v) \in [ToSet(Clusters(Shape)) -> Value]
         /\ Updates(Shape, v) \in UNION {[S -> Value] : S \in SUBSET Cluster}
         /\ Updates(Shape, v) # <<>>
<1>1. Shape \in ShapeName /\ ToSet(Clusters(Shape)) \in SUBSET Cluster
  BY ShapeType, ClustersAre
<1>2. Updates(Shape, v) \in [ToSet(Clusters(Shape)) -> Value]
  BY DEF Updates
<1>3. ToSet(Clusters(Shape)) # {}
  BY <1>1, ClustersAre DEF ShapeName
<1> QED
  BY <1>1, <1>2, <1>3

LEMMA InOrderLight ==
  ASSUME NEW v
  PROVE  InOrder(Updates("light", v)) = <<Push("onOff", v), Push("levelControl", v)>>
<1> DEFINE U == Updates("light", v)
<1>1. DOMAIN U = {"onOff", "levelControl"} /\ U["onOff"] = v /\ U["levelControl"] = v
  BY ClustersAre DEF Updates
<1> HIDE DEF U
<1>2. InOrder(U) = <<Push("onOff", v)>> \o <<Push("levelControl", v)>> \o <<>> \o <<>>
  BY <1>1, Zenon DEF InOrder, Push
<1> QED
  BY <1>2 DEF U

LEMMA InOrderOne ==
  ASSUME NEW s \in {"thermostat", "temperature"}, NEW v
  PROVE  InOrder(Updates(s, v)) = <<Push(s, v)>>
<1> DEFINE U == Updates(s, v)
<1>1. DOMAIN U = {s} /\ U[s] = v
  BY ClustersAre DEF Updates
<1> HIDE DEF U
<1>2. CASE s = "thermostat"
  <2>1. InOrder(U) = <<>> \o <<>> \o <<Push(s, v)>> \o <<>>
    BY <1>1, <1>2 DEF InOrder, Push
  <2> QED
    BY <2>1 DEF U
<1>3. CASE s = "temperature"
  <2>1. InOrder(U) = <<>> \o <<>> \o <<>> \o <<Push(s, v)>>
    BY <1>1, <1>3 DEF InOrder, Push
  <2> QED
    BY <2>1 DEF U
<1> QED
  BY <1>2, <1>3

-----------------------------------------------------------------------------
(* The steps of a chain                                                    *)

LEMMA DoneType == Done \in Chain
  BY DEF Done, Chain, TypeOK

\* A chain that is not done is the last one and works on the registration in the map.
LEMMA TheOneAtWork ==
  ASSUME IInv, NEW k \in DOMAIN chain, chain[k].at # "done"
  PROVE  /\ k = current /\ current \in DOMAIN regs /\ current \in DOMAIN chain /\ current # 0
         /\ regs[current] \in Reg /\ chain[current] \in Chain
         /\ regs[current].status = "pending" /\ chain[k].reg = current
         /\ Sound(regs[current], chain[current])
<1>1. chain[k] # Done
  BY DEF Done
<1>2. k = current
  BY <1>1 DEF IInv, Lone
<1>3. DOMAIN regs = 1..Len(regs) /\ DOMAIN chain = 1..Len(chain) /\ Len(chain) = Len(regs) /\ Len(regs) \in Nat
  BY DEF IInv, TypeOK
<1>4. current \in DOMAIN regs /\ current # 0 /\ regs[current] \in Reg /\ chain[current] \in Chain
  BY <1>2, <1>3 DEF IInv, TypeOK
<1>5. Sound(regs[current], chain[current])
  BY <1>4 DEF IInv
<1>6. regs[current].status = "pending" /\ chain[k].reg = current
  BY <1>1, <1>2, <1>5 DEF Sound, Worked
<1> QED
  BY <1>2, <1>3, <1>4, <1>5, <1>6

\* A step of that chain which leaves the registration as r and the chain as c.
LEMMA ChainWorks ==
  ASSUME IInv, current \in DOMAIN regs, current \in DOMAIN chain, current # 0,
         regs[current].status = "pending",
         NEW r \in Reg, NEW c \in Chain, ChainGoes(current, [regs EXCEPT ![current] = r], c),
         endpoint' \in Endpoint \cup {None}, faults' \in 0..MaxFaults,
         marker' \in BOOLEAN, timer' \in BOOLEAN, Shaped', Sound(r, c)',
         r.status = "registered" => r.pending # <<>>
  PROVE  IInv'
<1>1. /\ regs' = [regs EXCEPT ![current] = r] /\ chain' = [chain EXCEPT ![current] = c]
      /\ UNCHANGED <<kind, value, wanted, current, flushes, pass, deferred>>
  BY DEF ChainGoes, device
<1>2. /\ regs' \in Seq(Reg) /\ Len(regs') = Len(regs) /\ regs'[current] = r
      /\ chain' \in Seq(Chain) /\ Len(chain') = Len(chain) /\ chain'[current] = c
      /\ DOMAIN chain' = DOMAIN chain
      /\ \A k \in DOMAIN chain : k # current => chain'[k] = chain[k]
  BY <1>1 DEF IInv, TypeOK
<1>3. TypeOK'
  BY <1>1, <1>2 DEF IInv, TypeOK
<1>4. ~Renaming'
  BY <1>1 DEF IInv, Lone, IsRegistered, Renaming
<1>5. Lone'
  BY <1>1, <1>2, <1>4 DEF IInv, Lone
<1>6. Ordered'
  BY <1>1 DEF IInv, Ordered
<1>7. Sound(regs[current], chain[current])'
  BY <1>1, <1>2 DEF Sound, Worked, Owed, Known, Answering, Counted
<1>8. Latest(regs[current])'
  BY <1>1, <1>2 DEF Latest
<1> QED
  BY <1>3, <1>5, <1>6, <1>7, <1>8 DEF IInv

\* What a call of the server leaves.
LEMMA CallAnswers ==
  ASSUME TypeOK, NEW how \in Outcome, NEW s \in ShapeName, NEW n \in Name, CallEnds(how, s, n)
  PROVE  /\ endpoint' \in Endpoint \cup {None} /\ faults' \in 0..MaxFaults
         /\ how = "error" => endpoint' = endpoint
         /\ how # "error" => /\ endpoint' # None /\ endpoint'.shape = s /\ endpoint'.name = n
                             /\ DOMAIN endpoint'.shows = ToSet(Clusters(s))
<1>1. faults' \in 0..MaxFaults
  BY DEF CallEnds, TypeOK
<1>2. CASE how = "error"
  BY <1>1, <1>2 DEF CallEnds, TypeOK
<1>3. CASE how # "error"
  <2> DEFINE S == [c \in ToSet(Clusters(s)) |-> None]
  <2>1. ToSet(Clusters(s)) \in SUBSET Cluster
    BY ClustersAre DEF ShapeName, Cluster
  <2>2. S \in [ToSet(Clusters(s)) -> Value \cup {None}] /\ DOMAIN S = ToSet(Clusters(s))
    OBVIOUS
  <2>3. S \in UNION {[D -> Value \cup {None}] : D \in SUBSET Cluster}
    BY <2>1, <2>2
  <2>4. endpoint' = [shape |-> s, name |-> n, answers |-> how, shows |-> S]
    BY <1>3 DEF CallEnds
  <2> HIDE DEF S
  <2>5. how \in {"yes", "late", "no"}
    BY <1>3 DEF Outcome
  <2>6. endpoint' \in Endpoint
    BY <2>3, <2>4, <2>5 DEF Endpoint
  <2> QED
    BY <1>1, <1>3, <2>2, <2>4, <2>6
<1> QED
  BY <1>2, <1>3

\* An endpoint of the right shape.
LEMMA NamedWell ==
  ASSUME IInv, UNCHANGED <<kind, marker>>,
         endpoint' = endpoint \/ endpoint' = None
         \/ (endpoint'.shape = Shape /\ DOMAIN endpoint'.shows = ToSet(Clusters(Shape)))
  PROVE  Shaped' /\ Shape' = Shape
  BY DEF IInv, Shaped, Shape

\* A registration that has failed.
LEMMA NothingPending == <<>> \in UNION {[S -> Value] : S \in SUBSET Cluster}
<1>1. <<>> \in [{} -> Value]
  OBVIOUS
<1> QED
  BY <1>1

LEMMA FailedSound ==
  ASSUME NEW r \in Reg, NEW c, r.shape = Shape, Known(r, c), UNCHANGED <<kind, marker, endpoint>>
  PROVE  Failed(r) \in Reg /\ Sound(Failed(r), Done)' /\ Failed(r).status = "failed"
<1>1. /\ Failed(r).status = "failed" /\ Failed(r).pending = <<>>
      /\ Failed(r).liveName = r.liveName /\ Failed(r).shape = r.shape /\ Failed(r).dev = r.dev
      /\ Failed(r).name = r.name /\ Failed(r).attempts = r.attempts
  BY DEF Failed, Reg
<1>2. Failed(r) \in Reg
  BY NothingPending DEF Failed, Reg
<1>3. Worked(Failed(r), Done)'
  <2>1. Done.at = "done"
    BY DEF Done
  <2>2. r.shape = Shape /\ Shape' = Shape
    BY DEF Shape
  <2> QED
    BY <1>1, <2>1, <2>2 DEF Worked
<1>4. Owed(Failed(r))'
  BY <1>1 DEF Owed
<1>5. Known(Failed(r), Done)'
  BY <1>1 DEF Sound, Known, Done
<1> QED
  BY <1>1, <1>2, <1>3, <1>4, <1>5 DEF Sound, Answering, Counted

\* The registration fails, and the chain is done.
LEMMA Fails ==
  ASSUME IInv, current \in DOMAIN regs, current \in DOMAIN chain, current # 0,
         regs[current].status = "pending",
         NEW r \in Reg, NEW c, r.shape = Shape, Known(r, c),
         ChainGoes(current, [regs EXCEPT ![current] = Failed(r)], Done),
         faults' \in 0..MaxFaults, UNCHANGED <<endpoint, marker, timer>>
  PROVE  IInv'
<1>1. UNCHANGED <<kind, marker, endpoint>>
  BY DEF ChainGoes, device
<1>2. Failed(r) \in Reg /\ Sound(Failed(r), Done)' /\ Failed(r).status = "failed"
  BY <1>1, FailedSound
<1>3. Shaped' /\ Shape' = Shape
  BY <1>1, NamedWell
<1>4. endpoint' \in Endpoint \cup {None} /\ marker' \in BOOLEAN /\ timer' \in BOOLEAN
  BY DEF IInv, TypeOK
<1> QED
  BY <1>2, <1>3, <1>4, DoneType, ChainWorks

\* The registration stays what it was but for its attempts, and the chain goes on.
LEMMA GoesOn ==
  ASSUME IInv, current \in DOMAIN regs, current \in DOMAIN chain, current # 0,
         regs[current].status = "pending",
         NEW r \in Reg, NEW c \in Chain, r.status = "pending", Sound(r, c),
         ChainGoes(current, [regs EXCEPT ![current] = r], c),
         faults' \in 0..MaxFaults, endpoint' = endpoint \/ endpoint' = None,
         UNCHANGED <<marker, timer>>
  PROVE  IInv'
<1>1. UNCHANGED <<kind, value, wanted, current, pass, deferred, marker, timer>>
  BY DEF ChainGoes, device
<1>2. Shaped' /\ Shape' = Shape
  BY <1>1, NamedWell
<1>3. endpoint' \in Endpoint \cup {None} /\ marker' \in BOOLEAN /\ timer' \in BOOLEAN
  BY DEF IInv, TypeOK
<1>4. Worked(r, c)'
  BY <1>1, <1>2 DEF Sound, Worked
<1>5. Owed(r)'
  BY <1>1, <1>2 DEF Sound, Owed, Updates
<1>6. Known(r, c)' /\ Answering(r)' /\ Counted(r, c)'
  BY <1>1 DEF Sound, Known, Answering, Renaming
<1>7. Sound(r, c)'
  BY <1>4, <1>5, <1>6 DEF Sound
<1> QED
  BY <1>2, <1>3, <1>7, ChainWorks

\* A call has registered the endpoint, which is probed now.
LEMMA Registers ==
  ASSUME IInv, current \in DOMAIN regs, current \in DOMAIN chain, current # 0,
         regs[current].status = "pending", regs[current] \in Reg, chain[current] \in Chain,
         chain[current].at \in {"registering", "again"},
         NEW how \in Outcome, how # "error",
         Sound(regs[current], chain[current]),
         CallEnds(how, regs[current].shape, regs[current].name),
         NEW R, R = [regs EXCEPT ![current].liveName = regs[current].name],
         ChainGoes(current, R, Completing(current, R)),
         UNCHANGED <<marker, timer>>
  PROVE  IInv'
<1>a. PICK r0 : r0 = regs[current]
  OBVIOUS
<1>b. PICK r : r = [r0 EXCEPT !.liveName = r0.name]
  OBVIOUS
<1>c. PICK c : c = [chain[current] EXCEPT !.at = "probing", !.reg = current]
  OBVIOUS
<1>0. r0 \in Reg /\ r0.status = "pending" /\ Sound(r0, chain[current])
  BY <1>a
<1>1. r \in Reg /\ r.status = "pending" /\ r.liveName = r0.name /\ r.name = r0.name
      /\ r.shape = r0.shape /\ r.attempts = r0.attempts /\ r.pending = r0.pending /\ r.dev = r0.dev
  BY <1>b, <1>0 DEF Reg
<1>2. current \in Nat
  BY DEF IInv, TypeOK
<1>3. c \in Chain /\ c.at = "probing" /\ c.reg = current
  BY <1>c, <1>2 DEF Chain
<1>4. R = [regs EXCEPT ![current] = r] /\ R[current] = r
  BY <1>a, <1>b DEF IInv, TypeOK
<1>5. Completing(current, R) = c
  BY <1>1, <1>4, <1>c DEF Completing
<1>6. ChainGoes(current, [regs EXCEPT ![current] = r], c)
  BY <1>4, <1>5
<1>7. UNCHANGED <<kind, value, wanted, current, pass, deferred, marker, timer>>
  BY <1>6 DEF ChainGoes, device
<1>8. r0.shape = Shape /\ r0.attempts <= 2
  BY <1>0 DEF Sound, Worked, Counted
<1>9. r0.shape \in ShapeName /\ r0.name \in Name
  BY <1>0 DEF Reg
<1>10. /\ endpoint' \in Endpoint \cup {None} /\ faults' \in 0..MaxFaults
       /\ endpoint'.shape = r0.shape /\ endpoint'.name = r0.name
       /\ DOMAIN endpoint'.shows = ToSet(Clusters(r0.shape))
  BY <1>9, <1>a, CallAnswers DEF IInv
<1>11. Shaped' /\ Shape' = Shape
  BY <1>7, <1>8, <1>10, NamedWell
<1>12. Worked(r, c)'
  <2>1. c # Done
    BY <1>3 DEF Done
  <2> QED
    BY <1>1, <1>3, <1>7, <1>8, <1>11, <2>1 DEF Worked
<1>13. Owed(r)'
  BY <1>0, <1>1, <1>7, <1>11 DEF Sound, Owed, Updates
<1>14. r0.name # None
  BY <1>9
<1>15. Known(r, c)' /\ Answering(r)' /\ Counted(r, c)'
  BY <1>0, <1>1, <1>3, <1>7, <1>10, <1>8, <1>14 DEF Sound, Known, Answering, Counted
<1>16. Sound(r, c)'
  BY <1>12, <1>13, <1>15 DEF Sound
<1>17. marker' \in BOOLEAN /\ timer' \in BOOLEAN
  BY <1>7 DEF IInv, TypeOK
<1> QED
  BY <1>1, <1>3, <1>6, <1>10, <1>11, <1>16, <1>17, ChainWorks

\* A probe has timed out, or the fallback was refused: another attempt, or none.
LEMMA Retries ==
  ASSUME IInv, current \in DOMAIN regs, current \in DOMAIN chain, current # 0,
         regs[current].status = "pending",
         chain[current] \in Chain, chain[current].at # "done",
         NEW r \in Reg, r.status = "pending",
         Worked(r, chain[current]), Owed(r), Known(r, chain[current]), Answering(r),
         NEW R, R = [regs EXCEPT ![current] = r], Retried(current, R),
         faults' \in 0..MaxFaults, UNCHANGED <<endpoint, marker, timer>>
  PROVE  IInv'
<1>1. R[current] = r
  BY DEF IInv, TypeOK
<1>0. chain[current].reg = current
  BY TheOneAtWork
<1>2. CASE r.attempts = 1
  <2>1. PICK d : d = [chain[current] EXCEPT !.at = "again"]
    OBVIOUS
  <2>2. d \in Chain /\ d.at = "again" /\ d.reg = current
    BY <1>0, <2>1 DEF Chain
  <2>3. ChainGoes(current, [regs EXCEPT ![current] = r], d)
    <3>1. R[chain[current].reg].attempts = r.attempts
      BY <1>0, <1>1
    <3>2. ChainGoes(current, R, [chain[current] EXCEPT !.at = "again"])
      BY <3>1, <1>2 DEF Retried
    <3> QED
      BY <3>2, <2>1
  <2>4. Sound(r, d)
    <3>1. d # Done
      BY <2>2 DEF Done
    <3>2. r.attempts <= 2 /\ r.shape = Shape
      BY <1>2 DEF Worked
    <3> QED
      BY <2>2, <3>1, <3>2 DEF Sound, Worked, Known, Counted
  <2> QED
    BY <2>2, <2>3, <2>4, GoesOn
<1>3. CASE r.attempts = 2
  <2>1. PICK d : d = [chain[current] EXCEPT !.at = "purging"]
    OBVIOUS
  <2>2. d \in Chain /\ d.at = "purging" /\ d.reg = current
    BY <1>0, <2>1 DEF Chain
  <2>3. ChainGoes(current, [regs EXCEPT ![current] = r], d)
    <3>1. R[chain[current].reg].attempts = r.attempts
      BY <1>0, <1>1
    <3>2. ChainGoes(current, R, [chain[current] EXCEPT !.at = "purging"])
      BY <3>1, <1>3 DEF Retried
    <3> QED
      BY <3>2, <2>1
  <2>4. Sound(r, d)
    <3>1. d # Done
      BY <2>2 DEF Done
    <3>2. r.attempts <= 2 /\ r.shape = Shape
      BY <1>3 DEF Worked
    <3> QED
      BY <2>2, <3>1, <3>2 DEF Sound, Worked, Known, Counted
  <2> QED
    BY <2>2, <2>3, <2>4, GoesOn
<1>4. CASE r.attempts # 1 /\ r.attempts # 2
  <2>1. ChainGoes(current, [R EXCEPT ![current] = Failed(@)], Done)
    BY <1>0, <1>4, <1>1 DEF Retried
  <2>2. [R EXCEPT ![current] = Failed(@)] = [regs EXCEPT ![current] = Failed(r)]
    BY <1>1
  <2>3. r.shape = Shape
    BY DEF Worked
  <2> QED
    BY <2>1, <2>2, <2>3, Fails
<1> QED
  BY <1>2, <1>3, <1>4

\* RegisterEnds(k, how)
LEMMA RegisterEndsStep ==
  ASSUME IInv, NEW k \in DOMAIN chain, NEW how \in Outcome, RegisterEnds(k, how)
  PROVE  IInv'
<1>1. chain[k].at = "registering" /\ UNCHANGED <<marker, timer>>
  BY DEF RegisterEnds
<1>2. /\ k = current /\ current \in DOMAIN regs /\ current \in DOMAIN chain /\ current # 0
      /\ regs[current] \in Reg /\ chain[current] \in Chain
      /\ regs[current].status = "pending" /\ chain[k].reg = current
      /\ Sound(regs[current], chain[current])
  BY <1>1, TheOneAtWork
<1>3. CallEnds(how, regs[current].shape, regs[current].name)
  BY <1>2 DEF RegisterEnds
<1>4. regs[current].shape \in ShapeName /\ regs[current].name \in Name
  BY <1>2 DEF Reg
<1>5. faults' \in 0..MaxFaults /\ (how = "error" => UNCHANGED endpoint)
  BY <1>3, <1>4, CallAnswers DEF IInv
<1>6. CASE how # "error"
  <2>1. PICK R : R = [regs EXCEPT ![current].liveName = regs[current].name]
    OBVIOUS
  <2>2. ChainGoes(current, R, Completing(current, R))
    BY <1>2, <1>6, <2>1 DEF RegisterEnds
  <2> QED
    BY <1>1, <1>2, <1>3, <1>6, <2>1, <2>2, Registers
<1>7. CASE how = "error" /\ kind = "thermostat"
  <2>1. PICK c : c = [chain[current] EXCEPT !.at = "fallback", !.reg = current]
    OBVIOUS
  <2>2. c \in Chain /\ c.at = "fallback" /\ c.reg = current
    <3>1. current \in Nat
      BY DEF IInv, TypeOK
    <3> QED
      BY <1>2, <2>1, <3>1 DEF Chain
  <2>3. ChainGoes(current, regs, c)
    BY <1>2, <1>7, <2>1 DEF RegisterEnds
  <2>4. regs = [regs EXCEPT ![current] = regs[current]]
    BY DEF IInv, TypeOK
  <2>5. Sound(regs[current], c)
    <3>1. c # Done
      BY <2>2 DEF Done
    <3>2. Worked(regs[current], c)
      BY <1>1, <1>2, <1>7, <2>2, <3>1 DEF Sound, Worked
    <3> QED
      BY <1>1, <1>2, <2>2, <3>2 DEF Sound, Known, Counted
  <2> QED
    BY <1>1, <1>2, <1>5, <1>7, <2>2, <2>3, <2>4, <2>5, GoesOn
<1>8. CASE how = "error" /\ kind # "thermostat"
  <2>1. ChainGoes(current, [regs EXCEPT ![current] = Failed(@)], Done)
    BY <1>2, <1>8 DEF RegisterEnds
  <2>2. regs[current].shape = Shape /\ Known(regs[current], chain[current])
    BY <1>2 DEF Sound, Worked
  <2> QED
    BY <1>1, <1>2, <1>5, <1>8, <2>1, <2>2, Fails
<1> QED
  BY <1>6, <1>7, <1>8

\* AgainEnds(k, how)
LEMMA AgainEndsStep ==
  ASSUME IInv, NEW k \in DOMAIN chain, NEW how \in Outcome, AgainEnds(k, how)
  PROVE  IInv'
<1>1. chain[k].at = "again" /\ UNCHANGED <<marker, timer>>
  BY DEF AgainEnds
<1>2. /\ k = current /\ current \in DOMAIN regs /\ current \in DOMAIN chain /\ current # 0
      /\ regs[current] \in Reg /\ chain[current] \in Chain
      /\ regs[current].status = "pending" /\ chain[k].reg = current
      /\ Sound(regs[current], chain[current])
  BY <1>1, TheOneAtWork
<1>3. CallEnds(how, regs[current].shape, regs[current].name)
  BY <1>2 DEF AgainEnds
<1>4. regs[current].shape \in ShapeName /\ regs[current].name \in Name
  BY <1>2 DEF Reg
<1>5. faults' \in 0..MaxFaults /\ (how = "error" => UNCHANGED endpoint)
  BY <1>3, <1>4, CallAnswers DEF IInv
<1>6. CASE how # "error"
  <2>1. PICK R : R = [regs EXCEPT ![current].liveName = regs[current].name]
    OBVIOUS
  <2>2. ChainGoes(current, R, Completing(current, R))
    BY <1>2, <1>6, <2>1 DEF AgainEnds
  <2> QED
    BY <1>1, <1>2, <1>3, <1>6, <2>1, <2>2, Registers
<1>7. CASE how = "error"
  <2>1. ChainGoes(current, [regs EXCEPT ![current] = Failed(@)], Done)
    BY <1>2, <1>7 DEF AgainEnds
  <2>2. regs[current].shape = Shape /\ Known(regs[current], chain[current])
    BY <1>2 DEF Sound, Worked
  <2> QED
    BY <1>1, <1>2, <1>5, <1>7, <2>1, <2>2, Fails
<1> QED
  BY <1>6, <1>7

\* ProbeTimesOut(k)
LEMMA ProbeTimesOutStep ==
  ASSUME IInv, NEW k \in DOMAIN chain, ProbeTimesOut(k)
  PROVE  IInv'
<1>1. chain[k].at = "probing" /\ UNCHANGED <<endpoint, faults, marker, timer>>
  BY DEF ProbeTimesOut, server
<1>2. /\ k = current /\ current \in DOMAIN regs /\ current \in DOMAIN chain /\ current # 0
      /\ regs[current] \in Reg /\ chain[current] \in Chain
      /\ regs[current].status = "pending" /\ chain[k].reg = current
      /\ Sound(regs[current], chain[current])
  BY <1>1, TheOneAtWork
<1>3. PICK r : r = [regs[current] EXCEPT !.attempts = @ + 1]
  OBVIOUS
<1>4. regs[current].attempts \in 0..2
  BY <1>1, <1>2 DEF Sound, Counted, Reg
<1>5. r \in Reg /\ r.status = "pending"
  BY <1>2, <1>3, <1>4 DEF Reg
<1>6. /\ r.name = regs[current].name /\ r.liveName = regs[current].liveName
      /\ r.shape = regs[current].shape /\ r.pending = regs[current].pending
      /\ r.dev = regs[current].dev /\ r.status = regs[current].status
  BY <1>2, <1>3 DEF Reg
<1>7. Worked(r, chain[current]) /\ Owed(r) /\ Known(r, chain[current]) /\ Answering(r)
  BY <1>2, <1>6 DEF Sound, Worked, Owed, Known, Answering
<1>8. PICK R : R = [regs EXCEPT ![current].attempts = @ + 1]
  OBVIOUS
<1>9. R = [regs EXCEPT ![current] = r]
  BY <1>3, <1>8
<1>10. faults' \in 0..MaxFaults
  BY <1>1 DEF IInv, TypeOK
<1>11. CASE kind = "thermostat" /\ ~marker
  <2>1. PICK c : c = [chain[current] EXCEPT !.at = "recovering", !.dev = regs[current].dev]
    OBVIOUS
  <2>2. c \in Chain /\ c.at = "recovering" /\ c.reg = current
    BY <1>2, <2>1 DEF Chain, Reg
  <2>3. ChainGoes(current, R, c)
    BY <1>2, <1>8, <1>11, <2>1 DEF ProbeTimesOut
  <2>4. c # Done
    BY <2>2 DEF Done
  <2>5. r.shape = Shape
    BY <1>7 DEF Worked
  <2>6. Worked(r, c)
    BY <1>5, <1>11, <2>2, <2>4, <2>5 DEF Worked
  <2>7. Sound(r, c)
    BY <1>5, <1>7, <2>2, <2>6 DEF Sound, Known, Counted
  <2> QED
    BY <1>1, <1>2, <1>5, <1>9, <1>10, <2>2, <2>3, <2>7, GoesOn
<1>12. CASE ~(kind = "thermostat" /\ ~marker)
  <2>1. Retried(current, R)
    BY <1>2, <1>8, <1>12 DEF ProbeTimesOut
  <2>2. chain[current].at # "done"
    BY <1>1, <1>2
  <2> QED
    BY <1>1, <1>2, <1>5, <1>7, <1>9, <1>10, <2>1, <2>2, Retries
<1> QED
  BY <1>11, <1>12

\* PurgeEnds(k)
LEMMA PurgeEndsStep ==
  ASSUME IInv, NEW k \in DOMAIN chain, PurgeEnds(k)
  PROVE  IInv'
<1>1. chain[k].at = "purging" /\ endpoint' = None /\ UNCHANGED <<faults, marker, timer>>
  BY DEF PurgeEnds
<1>2. /\ k = current /\ current \in DOMAIN regs /\ current \in DOMAIN chain /\ current # 0
      /\ regs[current] \in Reg /\ chain[current] \in Chain
      /\ regs[current].status = "pending" /\ chain[k].reg = current
      /\ Sound(regs[current], chain[current])
  BY <1>1, TheOneAtWork
<1>3. PICK c : c = [chain[current] EXCEPT !.at = "again"]
  OBVIOUS
<1>4. c \in Chain /\ c.at = "again" /\ c.reg = current
  BY <1>2, <1>3 DEF Chain
<1>5. ChainGoes(current, regs, c)
  BY <1>2, <1>3 DEF PurgeEnds
<1>6. regs = [regs EXCEPT ![current] = regs[current]]
  BY DEF IInv, TypeOK
<1>7. c # Done
  BY <1>4 DEF Done
<1>8. Sound(regs[current], c)
  BY <1>1, <1>2, <1>4, <1>7 DEF Sound, Worked, Known, Counted
<1>9. faults' \in 0..MaxFaults
  BY <1>1 DEF IInv, TypeOK
<1> QED
  BY <1>1, <1>2, <1>4, <1>5, <1>6, <1>8, <1>9, GoesOn

\* ProbeAnswers(k)
LEMMA ProbeAnswersStep ==
  ASSUME IInv, NEW k \in DOMAIN chain, ProbeAnswers(k)
  PROVE  IInv'
<1>1. chain[k].at = "probing" /\ UNCHANGED <<endpoint, faults>>
  BY DEF ProbeAnswers, server
<1>2. /\ k = current /\ current \in DOMAIN regs /\ current \in DOMAIN chain /\ current # 0
      /\ regs[current] \in Reg /\ chain[current] \in Chain
      /\ regs[current].status = "pending" /\ chain[k].reg = current
      /\ Sound(regs[current], chain[current])
  BY <1>1, TheOneAtWork
<1>3. PICK r : r = [regs[current] EXCEPT !.status = "registered"]
  OBVIOUS
<1>4. /\ r \in Reg /\ r.status = "registered"
      /\ r.name = regs[current].name /\ r.liveName = regs[current].liveName
      /\ r.shape = regs[current].shape /\ r.pending = regs[current].pending
      /\ r.dev = regs[current].dev
  BY <1>2, <1>3 DEF Reg
<1>5. ChainGoes(current, [regs EXCEPT ![current] = r], Done)
  BY <1>2, <1>3 DEF ProbeAnswers
<1>6. UNCHANGED <<kind, value, wanted, current, pass, deferred>>
  BY <1>5 DEF ChainGoes, device
<1>7. regs'[current] = r
  BY <1>2, <1>5 DEF ChainGoes, IInv, TypeOK
<1>8. regs[current].shape = Shape
  BY <1>2 DEF Sound, Worked
<1>9. marker' = marker
  <2>1. regs[current].shape = "thermostat" => ~marker
    BY <1>8 DEF Shape
  <2>2. marker' = IF regs[current].shape = "thermostat" THEN FALSE ELSE marker
    BY <1>2 DEF ProbeAnswers
  <2>3. marker \in BOOLEAN
    BY DEF IInv, TypeOK
  <2> QED
    BY <2>1, <2>2, <2>3
<1>10. Shaped' /\ Shape' = Shape
  BY <1>1, <1>6, <1>9, NamedWell
<1>11. r.pending # <<>> /\ \E v \in Value : r.pending = Updates(Shape, v) /\ (r.dev = None => v = value)
  <2>1. PICK v \in Value : r.pending = Updates(Shape, v) /\ (r.dev = None => v = value)
    BY <1>2, <1>4 DEF Sound, Owed
  <2>2. Updates(Shape, v) # <<>>
    BY UpdatesType DEF IInv
  <2> QED
    BY <2>1, <2>2
<1>12. timer' = TRUE
  BY <1>2, <1>6, <1>7, <1>11 DEF ProbeAnswers, Flushed, IInv, TypeOK
<1>13. Owed(r)'
  BY <1>4, <1>6, <1>10, <1>11, <1>12 DEF Owed, Updates
<1>14. Worked(r, Done)' /\ Counted(r, Done)'
  BY <1>4, <1>8, <1>10 DEF Worked, Counted, Done
<1>15. endpoint # None /\ endpoint.answers = "yes"
  BY <1>2 DEF ProbeAnswers, Queryable
<1>16. Known(r, Done)' /\ Answering(r)'
  BY <1>1, <1>2, <1>4, <1>6, <1>15 DEF Sound, Known, Answering, Renaming
<1>17. Sound(r, Done)'
  BY <1>13, <1>14, <1>16 DEF Sound
<1>18. /\ endpoint' \in Endpoint \cup {None} /\ faults' \in 0..MaxFaults
       /\ marker' \in BOOLEAN /\ timer' \in BOOLEAN
  BY <1>1, <1>9, <1>12 DEF IInv, TypeOK
<1> QED
  BY <1>2, <1>4, <1>5, <1>10, <1>11, <1>17, <1>18, DoneType, ChainWorks

\* FallbackEnds(k, how)
LEMMA FallbackEndsStep ==
  ASSUME IInv, NEW k \in DOMAIN chain, NEW how \in Outcome, FallbackEnds(k, how)
  PROVE  IInv'
<1>1. chain[k].at \in {"fallback", "recovering"} /\ UNCHANGED timer
      /\ CallEnds(how, "temperature", wanted) /\ marker' = (marker \/ how # "error")
  BY DEF FallbackEnds, MarkerAfter
<1>2. /\ k = current /\ current \in DOMAIN regs /\ current \in DOMAIN chain /\ current # 0
      /\ regs[current] \in Reg /\ chain[current] \in Chain
      /\ regs[current].status = "pending" /\ chain[k].reg = current
      /\ Sound(regs[current], chain[current])
  BY <1>1, TheOneAtWork
<1>3. kind = "thermostat" /\ regs[current].shape = Shape
  BY <1>1, <1>2 DEF Sound, Worked
<1>4. wanted \in Name /\ wanted # None /\ "temperature" \in ShapeName /\ TypeOK
  BY DEF IInv, TypeOK, ShapeName
<1>5. /\ endpoint' \in Endpoint \cup {None} /\ faults' \in 0..MaxFaults
      /\ how = "error" => endpoint' = endpoint
      /\ how # "error" => /\ endpoint' # None /\ endpoint'.shape = "temperature"
                          /\ endpoint'.name = wanted
                          /\ DOMAIN endpoint'.shows = ToSet(Clusters("temperature"))
  BY <1>1, <1>4, CallAnswers
<1>6. marker' \in BOOLEAN /\ timer' \in BOOLEAN
  BY <1>1, <1>4 DEF TypeOK
<1>7. CASE how # "error"
  <2>1. PICK r : r = FallenBack(regs[current], chain[current].dev)
    OBVIOUS
  <2>2. PICK R : R = [regs EXCEPT ![current] = r]
    OBVIOUS
  <2>3. R[current] = r
    BY <1>2, <2>2
  <2>4. PICK c : c = [chain[current] EXCEPT !.at = "probing", !.reg = current]
    OBVIOUS
  <2>5. current \in Nat
    BY <1>4 DEF TypeOK
  <2>6. c \in Chain /\ c.at = "probing" /\ c.reg = current
    BY <1>2, <2>4, <2>5 DEF Chain
  <2>7. r.status = "pending"
    BY <2>1 DEF FallenBack
  <2>8. ChainGoes(current, R, Completing(current, R))
    BY <1>2, <1>7, <2>1, <2>2 DEF FallbackEnds
  <2>9. ChainGoes(current, [regs EXCEPT ![current] = r], c)
    BY <1>2, <2>2, <2>3, <2>4, <2>7, <2>8 DEF Completing
  <2>10. UNCHANGED <<kind, value, wanted, current, pass, deferred>>
    BY <2>9 DEF ChainGoes, device
  <2>11. marker' = TRUE
    BY <1>1, <1>7
  <2>12. Shape' = "temperature"
    BY <1>3, <2>10, <2>11 DEF Shape
  <2>13. Shaped'
    BY <1>3, <1>5, <1>7, <2>10, <2>11, <2>12 DEF Shaped
  <2>14. PICK v : v = StateOf(chain[current].dev)
    OBVIOUS
  <2>15. v \in Value /\ (chain[current].dev = None => v = value)
    BY <1>2, <1>4, <2>14 DEF StateOf, Chain, TypeOK
  <2>16. PICK U : U = Updates("temperature", v)
    OBVIOUS
  <2>17. U \in [{"temperature"} -> Value] /\ U # <<>>
    BY <2>15, <2>16, ClustersAre DEF Updates
  <2>18. U \in UNION {[S -> Value] : S \in SUBSET Cluster}
    BY <2>17 DEF Cluster
  <2>19. /\ r.shape = "temperature" /\ r.name = wanted /\ r.liveName = wanted
         /\ r.attempts = 0 /\ r.pending = U /\ r.dev = chain[current].dev
    BY <2>1, <2>14, <2>16 DEF FallenBack
  <2>20. r \in Reg
    <3>1. chain[current].dev \in Value \cup {None}
      BY <1>2 DEF Chain
    <3>2. r = [status |-> "pending", shape |-> "temperature", name |-> wanted, liveName |-> wanted,
               attempts |-> 0, pending |-> U, dev |-> chain[current].dev]
      BY <2>1, <2>14, <2>16 DEF FallenBack
    <3> QED
      BY <1>4, <2>18, <3>1, <3>2 DEF Reg
  <2>21. c # Done
    BY <2>6 DEF Done
  <2>22. Worked(r, c)' /\ Counted(r, c)'
    BY <1>3, <2>6, <2>7, <2>10, <2>12, <2>19, <2>21 DEF Worked, Counted
  <2>23. Owed(r)'
    <3>1. Updates(Shape', v) = U
      BY <2>12, <2>16
    <3> QED
      BY <2>7, <2>10, <2>15, <2>19, <3>1 DEF Owed, Updates
  <2>24. Known(r, c)' /\ Answering(r)'
    BY <1>4, <1>5, <1>7, <2>7, <2>10, <2>19 DEF Known, Answering
  <2>25. Sound(r, c)'
    BY <2>22, <2>23, <2>24 DEF Sound
  <2> QED
    BY <1>2, <1>5, <1>6, <2>6, <2>7, <2>9, <2>13, <2>20, <2>25, ChainWorks
<1>8. CASE how = "error" /\ chain[k].at = "recovering"
  <2>1. Retried(current, regs) /\ marker' = marker
    BY <1>1, <1>2, <1>4, <1>8 DEF FallbackEnds, TypeOK
  <2>2. regs = [regs EXCEPT ![current] = regs[current]]
    BY <1>4 DEF TypeOK
  <2>3. Worked(regs[current], chain[current]) /\ Owed(regs[current])
        /\ Known(regs[current], chain[current]) /\ Answering(regs[current])
    BY <1>2 DEF Sound
  <2>4. chain[current].at # "done"
    BY <1>2, <1>8
  <2> QED
    BY <1>1, <1>2, <1>5, <1>8, <2>1, <2>2, <2>3, <2>4, Retries
<1>9. CASE how = "error" /\ chain[k].at # "recovering"
  <2>1. ChainGoes(current, [regs EXCEPT ![current] = Failed(@)], Done) /\ marker' = marker
    BY <1>1, <1>2, <1>4, <1>9 DEF FallbackEnds, TypeOK
  <2>2. Known(regs[current], chain[current])
    BY <1>2 DEF Sound
  <2> QED
    BY <1>1, <1>2, <1>3, <1>5, <1>9, <2>1, <2>2, Fails
<1> QED
  BY <1>7, <1>8, <1>9

LEMMA ChainSteps ==
  ASSUME IInv, NEW k \in DOMAIN chain, ChainStep(k)
  PROVE  IInv'
  BY ProbeAnswersStep, ProbeTimesOutStep, PurgeEndsStep, RegisterEndsStep, FallbackEndsStep,
     AgainEndsStep DEF ChainStep

-----------------------------------------------------------------------------
(* New registrations and updates                                           *)

\* A new registration, which is the N-th.
LEMMA NewSound ==
  ASSUME TypeOK, UNCHANGED <<kind, marker, wanted, deferred>>, NEW N \in Nat, current' = N,
         NEW d \in Value \cup {None}, NEW v \in Value, d = None => v = value',
         NEW r, r = NewReg(d, v),
         NEW c, c = [at |-> "registering", reg |-> N, dev |-> d]
  PROVE  r \in Reg /\ r.status = "pending" /\ c \in Chain /\ Sound(r, c)'
<1>1. Shape' = Shape /\ Shape \in ShapeName
  BY ShapeType DEF Shape
<1>2. PICK U : U = Updates(Shape, v)
  OBVIOUS
<1>3. U \in UNION {[S -> Value] : S \in SUBSET Cluster}
  BY <1>2, UpdatesType
<1>4. r = [status |-> "pending", shape |-> Shape, name |-> wanted, liveName |-> None,
           attempts |-> 0, pending |-> U, dev |-> d]
  BY <1>2 DEF NewReg
<1>5. r \in Reg /\ r.status = "pending"
  BY <1>1, <1>3, <1>4 DEF Reg, TypeOK
<1>6. c \in Chain /\ c.at = "registering" /\ c.reg = N
  BY DEF Chain
<1>7. c # Done
  BY <1>6 DEF Done
<1>8. Worked(r, c)' /\ Counted(r, c)'
  BY <1>1, <1>4, <1>6, <1>7 DEF Worked, Counted
<1>9. Owed(r)'
  <2>1. Updates(Shape', v) = U
    BY <1>1, <1>2
  <2> QED
    BY <1>4, <2>1 DEF Owed, Updates
<1>10. Known(r, c)' /\ Answering(r)'
  BY <1>4, <1>6 DEF Known, Answering
<1> QED
  BY <1>5, <1>6, <1>8, <1>9, <1>10 DEF Sound

\* R and C are regs and chain but for the device objects that what is not done
\* follows.
Alike(R, C) ==
    /\ R \in Seq(Reg) /\ Len(R) = Len(regs) /\ C \in Seq(Chain) /\ Len(C) = Len(chain)
    /\ \A n \in DOMAIN regs : \E d \in Value \cup {None} : R[n] = [regs[n] EXCEPT !.dev = d]
    /\ \A n \in DOMAIN chain :
          \/ chain[n] = Done /\ C[n] = Done
          \/ chain[n].at # "done" /\ \E d \in Value \cup {None} : C[n] = [chain[n] EXCEPT !.dev = d]

\* What is enqueued replaces what was pending.
LEMMA EnqueuedAll ==
  ASSUME TypeOK, NEW r \in Reg, NEW v \in Value,
         r.pending = <<>> \/ \E w \in Value : r.pending = Updates(Shape, w)
  PROVE  Enqueued(r, v) = [r EXCEPT !.pending = Updates(Shape, v), !.dev = None]
<1> DEFINE U == Updates(Shape, v)
           Merged == [c \in DOMAIN U \cup DOMAIN r.pending |->
                         IF c \in DOMAIN U THEN U[c] ELSE r.pending[c]]
<1>1. Enqueued(r, v) = [r EXCEPT !.pending = Merged, !.dev = None]
  BY DEF Enqueued
<1>2. U = [c \in DOMAIN U |-> U[c]]
  BY DEF Updates
<1>3. DOMAIN r.pending \subseteq DOMAIN U
  <2>1. CASE r.pending = <<>>
    <3>1. DOMAIN r.pending = {}
      BY <2>1
    <3> QED
      BY <3>1
  <2>2. CASE \E w \in Value : r.pending = Updates(Shape, w)
    BY <2>2 DEF Updates
  <2> QED
    BY <2>1, <2>2
<1>4. Merged = U
  <2> HIDE DEF U
  <2>1. DOMAIN U \cup DOMAIN r.pending = DOMAIN U
    BY <1>3
  <2>2. Merged = [c \in DOMAIN U |-> U[c]]
    BY <2>1
  <2> QED
    BY <1>2, <2>2
<1>5. Merged = Updates(Shape, v)
  BY <1>4
<1> HIDE DEF Merged
<1> QED
  BY <1>1, <1>5

\* registerAccessory, when all that was registered is done
LEMMA RegisterStep ==
  ASSUME IInv, NEW R \in Seq(Reg), NEW C \in Seq(Chain), Len(C) = Len(R),
         \A k \in DOMAIN C : C[k] = Done,
         NEW d \in Value \cup {None}, NEW v \in Value, d = None => v = value',
         Register(d, v, R, C), UNCHANGED <<kind, marker, wanted, deferred, flushes>>,
         value' \in Value, endpoint' \in Endpoint \cup {None}, faults' \in 0..MaxFaults,
         timer' \in BOOLEAN, Shaped', ~Renaming',
         pass' \in [Pass -> [at : {"idle", "unregistering"}, dev : Value \cup {None}]]
  PROVE  IInv'
<1>1. PICK N \in Nat : N = Len(R) + 1
  OBVIOUS
<1>2. PICK r : r = NewReg(d, v)
  OBVIOUS
<1>3. PICK c : c = [at |-> "registering", reg |-> N, dev |-> d]
  OBVIOUS
<1>4. regs' = Append(R, r) /\ current' = N /\ chain' = Append(C, c)
  BY <1>1, <1>2, <1>3 DEF Register
<1>5. r \in Reg /\ r.status = "pending" /\ c \in Chain /\ Sound(r, c)'
  BY <1>2, <1>3, <1>4, NewSound DEF IInv
<1>6. /\ regs' \in Seq(Reg) /\ Len(regs') = N /\ regs'[N] = r
      /\ chain' \in Seq(Chain) /\ Len(chain') = N /\ chain'[N] = c /\ DOMAIN chain' = 1..N
      /\ \A k \in 1..N : k # N => chain'[k] = C[k]
  BY <1>1, <1>4, <1>5
<1>7. TypeOK'
  BY <1>4, <1>6 DEF IInv, TypeOK
<1>8. Lone'
  <2>1. \A k \in 1..N : k # N => k \in DOMAIN C
    BY <1>1
  <2> QED
    BY <1>4, <1>6, <2>1 DEF Lone
<1>9. Ordered'
  BY DEF IInv, Ordered
<1>10. Sound(regs[current], chain[current])' /\ Latest(regs[current])'
  BY <1>4, <1>5, <1>6 DEF Sound, Worked, Counted, Owed, Known, Answering, Latest
<1> QED
  BY <1>7, <1>8, <1>9, <1>10 DEF IInv

\* A step that makes no registration and leaves the one in the map as r, its chain as c.
LEMMA KeepStep ==
  ASSUME IInv, current \in DOMAIN regs, current # 0, UNCHANGED <<kind, marker, current>>,
         NEW r \in Reg, NEW c \in Chain,
         regs' \in Seq(Reg), Len(regs') = Len(regs), regs'[current] = r,
         chain' \in Seq(Chain), Len(chain') = Len(chain), chain'[current] = c,
         \A k \in DOMAIN chain : chain[k] = Done => chain'[k] = Done,
         value' \in Value, wanted' \in Name, timer' \in BOOLEAN, deferred' \in BOOLEAN,
         endpoint' \in Endpoint \cup {None}, faults' \in 0..MaxFaults,
         flushes' \in Seq(Seq([cluster : Cluster, value : Value])),
         pass' \in [Pass -> [at : {"idle", "unregistering"}, dev : Value \cup {None}]],
         Renaming' => r.status = "registered",
         Shaped', Ordered', Sound(r, c)', Latest(r)'
  PROVE  IInv'
<1>1. DOMAIN chain' = DOMAIN chain
  BY DEF IInv, TypeOK
<1>2. TypeOK'
  BY <1>1 DEF IInv, TypeOK
<1>3. Lone'
  BY <1>1 DEF IInv, Lone, IsRegistered
<1>4. Sound(regs[current], chain[current])'
  BY DEF Sound, Worked, Counted, Owed, Known, Answering
<1>5. Latest(regs[current])'
  BY DEF Latest
<1> QED
  BY <1>2, <1>3, <1>4, <1>5 DEF IInv

\* Update(v, R, C, isNew)
LEMMA UpdateStep ==
  ASSUME IInv, NEW v \in Value, NEW R, NEW C, Alike(R, C), NEW isNew \in BOOLEAN,
         Update(v, R, C, isNew), Renaming' = Renaming,
         pass' \in [Pass -> [at : {"idle", "unregistering"}, dev : Value \cup {None}]]
  PROVE  IInv'
<1>1. /\ value' = v /\ UNCHANGED <<kind, wanted, endpoint, faults, marker, flushes, deferred>>
  BY DEF Update, server
<1>0. \/ current = 0 /\ Register(None, v, R, C) /\ UNCHANGED timer
      \/ /\ current # 0 /\ R[current].status = "failed"
         /\ regs' = R /\ chain' = C /\ UNCHANGED <<current, timer>>
      \/ /\ current # 0 /\ R[current].status # "failed"
         /\ regs' = [R EXCEPT ![current] =
                Enqueued(IF isNew /\ R[current].status = "registered"
                         THEN [R[current] EXCEPT !.shape = Shape, !.name = wanted]
                         ELSE R[current], v)]
         /\ timer' = IF isNew /\ R[current].status = "pending" THEN timer
                     ELSE Flushed(regs', current)
         /\ chain' = C /\ UNCHANGED current
  BY DEF Update
<1>2. /\ R \in Seq(Reg) /\ Len(R) = Len(regs) /\ C \in Seq(Chain) /\ Len(C) = Len(chain)
      /\ \A k \in DOMAIN chain : chain[k] = Done => C[k] = Done
  BY DEF Alike, Done
<1>3. Shaped' /\ Shape' = Shape
  BY <1>1, NamedWell
<1>4. Ordered'
  BY <1>1 DEF IInv, Ordered
<1>5. /\ value' \in Value /\ wanted' \in Name /\ deferred' \in BOOLEAN /\ marker' \in BOOLEAN
      /\ endpoint' \in Endpoint \cup {None} /\ faults' \in 0..MaxFaults
      /\ flushes' \in Seq(Seq([cluster : Cluster, value : Value]))
  BY <1>1 DEF IInv, TypeOK
<1>6. CASE current = 0
  <2>1. Register(None, v, R, C) /\ UNCHANGED timer
    BY <1>0, <1>6
  <2>2. Len(regs) = 0 /\ Len(chain) = 0 /\ ~Renaming
    BY <1>6 DEF IInv, TypeOK, Lone, IsRegistered
  <2>3. Len(C) = Len(R) /\ DOMAIN C = {} /\ timer' \in BOOLEAN
    BY <1>2, <2>1, <2>2 DEF IInv, TypeOK
  <2> QED
    BY <1>1, <1>2, <1>3, <1>5, <2>1, <2>2, <2>3, RegisterStep
<1>7. ASSUME current # 0
      PROVE  /\ current \in DOMAIN regs /\ current \in DOMAIN chain
             /\ regs[current] \in Reg /\ chain[current] \in Chain /\ C[current] \in Chain
             /\ Sound(regs[current], chain[current])
             /\ R[current] \in Reg
             /\ \E d : R[current] = [regs[current] EXCEPT !.dev = d]
             /\ R[current].status = regs[current].status
             /\ C[current].at = chain[current].at /\ C[current].reg = chain[current].reg
             /\ (C[current] = Done <=> chain[current] = Done)
  <2>1. current \in DOMAIN regs /\ current \in DOMAIN chain
    BY <1>7 DEF IInv, TypeOK
  <2>2. regs[current] \in Reg /\ chain[current] \in Chain /\ Sound(regs[current], chain[current])
    BY <1>7, <2>1 DEF IInv, TypeOK
  <2>3. R[current] \in Reg /\ C[current] \in Chain
    BY <1>2, <2>1 DEF IInv, TypeOK
  <2>4. \E d : R[current] = [regs[current] EXCEPT !.dev = d]
    BY <2>1 DEF Alike
  <2>5. R[current].status = regs[current].status
    BY <2>2, <2>4 DEF Reg
  <2>6. CASE chain[current].at = "done"
    BY <2>1, <2>2, <2>3, <2>4, <2>5, <2>6 DEF Alike
  <2>7. CASE chain[current].at # "done"
    <3>0. chain[current] # Done
      BY <2>7 DEF Done
    <3>1. PICK d : C[current] = [chain[current] EXCEPT !.dev = d]
      BY <2>1, <3>0 DEF Alike
    <3>2. C[current].at = chain[current].at /\ C[current].reg = chain[current].reg
      BY <2>2, <3>1 DEF Chain
    <3>3. C[current] # Done /\ chain[current] # Done
      BY <2>7, <3>2 DEF Done
    <3> QED
      BY <2>1, <2>2, <2>3, <2>4, <2>5, <3>2, <3>3
  <2> QED
    BY <2>6, <2>7
<1>8. CASE current # 0 /\ regs[current].status = "failed"
  <2>1. regs' = R /\ chain' = C /\ UNCHANGED <<current, timer>>
    BY <1>0, <1>7, <1>8
  <2>2. PICK r : r = R[current]
    OBVIOUS
  <2>3. /\ r \in Reg /\ r.status = "failed" /\ r.pending = regs[current].pending
        /\ r.name = regs[current].name /\ r.liveName = regs[current].liveName
        /\ r.shape = regs[current].shape
    BY <1>7, <1>8, <2>2 DEF Reg
  <2>4. chain[current] = Done /\ C[current] = Done
    BY <1>7, <1>8 DEF Sound, Worked
  <2>5. r.pending = <<>> /\ r.shape = Shape
    BY <1>7, <1>8, <2>3 DEF Sound, Worked, Owed
  <2>6. Worked(r, Done)' /\ Counted(r, Done)' /\ Owed(r)' /\ Answering(r)'
    <3>1. Done.at = "done"
      BY DEF Done
    <3>2. Worked(r, Done)' /\ Counted(r, Done)'
      BY <1>3, <2>3, <2>5, <3>1 DEF Worked, Counted
    <3> QED
      BY <2>3, <2>5, <3>2 DEF Owed, Answering
  <2>7. Known(r, Done)'
    BY <1>1, <1>7, <1>8, <2>3, <2>4 DEF Sound, Known, Done
  <2>8. Sound(r, Done)' /\ Latest(r)'
    BY <2>3, <2>6, <2>7 DEF Sound, Latest
  <2>9. ~Renaming'
    BY <1>8 DEF IInv, Lone, IsRegistered
  <2>10. timer' \in BOOLEAN
    BY <2>1 DEF IInv, TypeOK
  <2> QED
    BY <1>1, <1>2, <1>3, <1>4, <1>5, <1>7, <1>8, <2>1, <2>2, <2>3, <2>4, <2>8, <2>9, <2>10,
       DoneType, KeepStep
<1>9. CASE current # 0 /\ regs[current].status # "failed"
  <2>1. PICK q : q = IF isNew /\ R[current].status = "registered"
                     THEN [R[current] EXCEPT !.shape = Shape, !.name = wanted] ELSE R[current]
    OBVIOUS
  <2>2. regs' = [R EXCEPT ![current] = Enqueued(q, v)] /\ chain' = C /\ current' = current
    BY <1>0, <1>7, <1>9, <2>1
  <2>3. Shape \in ShapeName /\ wanted \in Name
    BY ShapeType DEF IInv, TypeOK
  <2>4. regs[current].shape = Shape
    BY <1>7, <1>9 DEF Sound, Worked
  <2>5. /\ q \in Reg /\ q.status = regs[current].status /\ q.pending = regs[current].pending
        /\ q.liveName = regs[current].liveName /\ q.attempts = regs[current].attempts
        /\ q.shape = Shape
        /\ q.name # regs[current].name => q.status = "registered"
    <3>1. PICK d : R[current] = [regs[current] EXCEPT !.dev = d]
      BY <1>7, <1>9
    <3>2. PICK r : r = R[current]
      OBVIOUS
    <3>3. /\ r \in Reg /\ r.status = regs[current].status /\ r.pending = regs[current].pending
          /\ r.liveName = regs[current].liveName /\ r.attempts = regs[current].attempts
          /\ r.shape = Shape /\ r.name = regs[current].name
      BY <1>7, <1>9, <2>4, <3>1, <3>2 DEF Reg
    <3>4. q = IF isNew /\ r.status = "registered"
              THEN [r EXCEPT !.shape = Shape, !.name = wanted] ELSE r
      BY <2>1, <3>2
    <3>5. CASE isNew /\ r.status = "registered"
      <4>1. q = [r EXCEPT !.shape = Shape, !.name = wanted]
        BY <3>4, <3>5
      <4> QED
        BY <2>3, <3>3, <3>5, <4>1 DEF Reg
    <3>6. CASE ~(isNew /\ r.status = "registered")
      BY <3>3, <3>4, <3>6
    <3> QED
      BY <3>5, <3>6
  <2>6. q.pending = <<>> \/ \E w \in Value : q.pending = Updates(Shape, w)
    BY <1>7, <1>9, <2>5 DEF Sound, Owed
  <2>7. PICK U : U = Updates(Shape, v)
    OBVIOUS
  <2>8. U \in UNION {[S -> Value] : S \in SUBSET Cluster} /\ U # <<>>
    BY <2>7, UpdatesType DEF IInv
  <2>9. PICK r : r = [q EXCEPT !.pending = U, !.dev = None]
    OBVIOUS
  <2>10. Enqueued(q, v) = r
    BY <2>5, <2>6, <2>7, <2>9, EnqueuedAll DEF IInv
  <2>11. /\ r \in Reg /\ r.status = q.status /\ r.pending = U /\ r.liveName = q.liveName
         /\ r.attempts = q.attempts /\ r.shape = Shape /\ r.name = q.name /\ r.dev = None
    BY <2>5, <2>8, <2>9 DEF Reg
  <2>12. regs' = [R EXCEPT ![current] = r]
    BY <2>2, <2>10
  <2>13. regs' \in Seq(Reg) /\ Len(regs') = Len(regs) /\ regs'[current] = r
    BY <1>2, <1>7, <1>9, <2>11, <2>12 DEF IInv, TypeOK
  <2>14. PICK c : c = C[current]
    OBVIOUS
  <2>15. /\ c \in Chain /\ c.at = chain[current].at /\ c.reg = chain[current].reg
         /\ (c = Done <=> chain[current] = Done)
    BY <1>7, <1>9, <2>14
  <2>16. timer' \in BOOLEAN /\ (r.status = "registered" => timer')
    <3>1. R[current].status = r.status
      BY <1>7, <1>9, <2>5, <2>11
    <3>2. timer' = IF isNew /\ R[current].status = "pending" THEN timer ELSE Flushed(regs', current)
      BY <1>0, <1>7, <1>9
    <3>3. Flushed(regs', current) = TRUE
      BY <1>9, <2>8, <2>11, <2>13 DEF Flushed, IInv, TypeOK
    <3> QED
      BY <3>1, <3>2, <3>3 DEF IInv, TypeOK
  <2>17. Worked(r, c)' /\ Counted(r, c)'
    BY <1>1, <1>3, <1>7, <1>9, <2>2, <2>5, <2>11, <2>15 DEF Sound, Worked, Counted
  <2>18. Owed(r)'
    <3>1. Updates(Shape', v) = U
      BY <1>3, <2>7
    <3> QED
      BY <1>1, <1>9, <2>5, <2>11, <2>16, <3>1 DEF Owed, Updates
  <2>19. Known(r, c)' /\ Answering(r)'
    BY <1>1, <1>7, <1>9, <2>5, <2>11, <2>15 DEF Sound, Known, Answering
  <2>20. Sound(r, c)'
    BY <2>17, <2>18, <2>19 DEF Sound
  <2>21. Latest(r)'
    BY <2>8, <2>11 DEF Latest
  <2>22. Renaming' => r.status = "registered"
    BY <2>5, <2>11 DEF IInv, Lone, IsRegistered
  <2>23. \A k \in DOMAIN chain : chain[k] = Done => chain'[k] = Done
    BY <1>2, <2>2
  <2> QED
    BY <1>1, <1>2, <1>3, <1>4, <1>5, <1>7, <1>9, <2>2, <2>11, <2>13, <2>14, <2>15, <2>16,
       <2>20, <2>21, <2>22, <2>23, KeepStep
<1> QED
  BY <1>6, <1>8, <1>9

\* What a step of the registry keeps: a device object follows the client's, or stays.
LEMMA DoneAlone ==
  ASSUME IInv, NEW k \in DOMAIN chain, chain[k].at = "done"
  PROVE  chain[k] = Done
<1>1. CASE k = current
  <2>1. current # 0
    BY <1>1 DEF IInv, TypeOK
  <2> QED
    BY <1>1, <2>1 DEF IInv, Sound, Worked
<1>2. CASE k # current
  BY <1>2 DEF IInv, Lone
<1> QED
  BY <1>1, <1>2

LEMMA StatusUpdateStep ==
  ASSUME IInv, NEW v \in Value, StatusUpdate(v)
  PROVE  IInv'
<1>1. \A r \in Reg : r = [r EXCEPT !.dev = r.dev] /\ r.dev \in Value \cup {None}
  BY DEF Reg
<1>2. \A c \in Chain : c = [c EXCEPT !.dev = c.dev] /\ c.dev \in Value \cup {None}
  BY DEF Chain
<1>3. regs \in Seq(Reg) /\ chain \in Seq(Chain)
  BY DEF IInv, TypeOK
<1>4. Alike(regs, chain)
  <2>1. \A n \in DOMAIN regs : \E d \in Value \cup {None} : regs[n] = [regs[n] EXCEPT !.dev = d]
    BY <1>1, <1>3
  <2>2. \A n \in DOMAIN chain : \E d \in Value \cup {None} : chain[n] = [chain[n] EXCEPT !.dev = d]
    BY <1>2, <1>3
  <2> QED
    BY <1>3, <2>1, <2>2, DoneAlone DEF Alike
<1>5. Update(v, regs, chain, FALSE) /\ pass' = pass
  BY DEF StatusUpdate
<1>6. Renaming' = Renaming
  BY <1>5 DEF Renaming
<1> QED
  BY <1>4, <1>5, <1>6, UpdateStep DEF IInv, TypeOK

LEMMA DiscoverStep ==
  ASSUME IInv, NEW v \in Value, Discover(v)
  PROVE  IInv'
<1>1. PICK R : R = [n \in DOMAIN regs |-> Keep(regs[n])]
  OBVIOUS
<1>2. PICK C : C = [n \in DOMAIN chain |-> Keep(chain[n])]
  OBVIOUS
<1>3. Update(v, R, C, TRUE) /\ pass' = [p \in Pass |-> Keep(pass[p])]
  BY <1>1, <1>2 DEF Discover
<1>4. \A d \in Value \cup {None} : StateOf(d) \in Value \cup {None}
  BY DEF StateOf, IInv, TypeOK
<1>5. \A n \in DOMAIN regs : R[n] \in Reg /\ \E d \in Value \cup {None} : R[n] = [regs[n] EXCEPT !.dev = d]
  <2> TAKE n \in DOMAIN regs
  <2>1. regs[n] \in Reg
    BY DEF IInv, TypeOK
  <2>2. "at" \notin DOMAIN regs[n]
    BY <2>1 DEF Reg
  <2>3. R[n] = [regs[n] EXCEPT !.dev = StateOf(@)]
    BY <1>1, <2>2 DEF Keep
  <2>4. PICK d \in Value \cup {None} : d = StateOf(regs[n].dev)
    BY <1>4, <2>1 DEF Reg
  <2>5. R[n] = [regs[n] EXCEPT !.dev = d]
    BY <2>3, <2>4
  <2> QED
    BY <2>1, <2>5 DEF Reg
<1>6. \A n \in DOMAIN chain :
         /\ C[n] \in Chain
         /\ \/ chain[n] = Done /\ C[n] = Done
            \/ /\ chain[n].at # "done"
               /\ \E d \in Value \cup {None} : C[n] = [chain[n] EXCEPT !.dev = d]
  <2> TAKE n \in DOMAIN chain
  <2>1. chain[n] \in Chain
    BY DEF IInv, TypeOK
  <2>2. "at" \in DOMAIN chain[n]
    BY <2>1 DEF Chain
  <2>3. CASE chain[n].at = "done"
    <3>1. C[n] = chain[n]
      BY <1>2, <2>2, <2>3 DEF Keep
    <3>2. chain[n] = Done
      BY <2>3, DoneAlone
    <3>3. C[n] = Done
      BY <3>1, <3>2
    <3> QED
      BY <3>2, <3>3, DoneType
  <2>4. CASE chain[n].at # "done"
    <3>1. chain[n].at # "idle"
      BY <2>1 DEF Chain
    <3>2. C[n] = [chain[n] EXCEPT !.dev = StateOf(@)]
      BY <1>2, <2>2, <2>4, <3>1 DEF Keep
    <3>3. PICK d \in Value \cup {None} : d = StateOf(chain[n].dev)
      BY <1>4, <2>1 DEF Chain
    <3>4. C[n] = [chain[n] EXCEPT !.dev = d]
      BY <3>2, <3>3
    <3> QED
      BY <2>1, <2>4, <3>4 DEF Chain
  <2> QED
    BY <2>3, <2>4
<1>7. R \in Seq(Reg) /\ Len(R) = Len(regs) /\ C \in Seq(Chain) /\ Len(C) = Len(chain)
  <2>1. DOMAIN regs = 1..Len(regs) /\ DOMAIN chain = 1..Len(chain)
        /\ Len(regs) \in Nat /\ Len(chain) \in Nat
    BY DEF IInv, TypeOK
  <2>2. R \in [1..Len(regs) -> Reg] /\ C \in [1..Len(chain) -> Chain]
    BY <1>1, <1>2, <1>5, <1>6, <2>1
  <2> QED
    BY <2>1, <2>2
<1>8. Alike(R, C)
  BY <1>5, <1>6, <1>7 DEF Alike
<1>9. \A p \in Pass : /\ pass'[p].at = pass[p].at
                      /\ pass'[p] \in [at : {"idle", "unregistering"}, dev : Value \cup {None}]
  <2> TAKE p \in Pass
  <2>1. pass[p] \in [at : {"idle", "unregistering"}, dev : Value \cup {None}]
    BY DEF IInv, TypeOK
  <2>2. pass'[p] = Keep(pass[p])
    BY <1>3
  <2>3. PICK d \in Value \cup {None} : d = StateOf(pass[p].dev)
    BY <1>4, <2>1
  <2>4. Keep(pass[p]) = pass[p] \/ Keep(pass[p]) = [pass[p] EXCEPT !.dev = d]
    BY <2>3 DEF Keep
  <2> QED
    BY <2>1, <2>2, <2>4
<1>10. pass' \in [Pass -> [at : {"idle", "unregistering"}, dev : Value \cup {None}]]
  BY <1>3, <1>9
<1>11. Renaming' = Renaming
  BY <1>9 DEF Renaming
<1> QED
  BY <1>3, <1>8, <1>10, <1>11, UpdateStep

-----------------------------------------------------------------------------
(* Flushes                                                                 *)

\* What a pushed update changes of the endpoint.
LEMMA PushedKeeps ==
  ASSUME TypeOK, NEW c \in Cluster, NEW v \in Value
  PROVE  /\ Pushed(Push(c, v)) \in Endpoint \cup {None}
         /\ endpoint = None => Pushed(Push(c, v)) = None
         /\ endpoint # None =>
               /\ Pushed(Push(c, v)) # None
               /\ Pushed(Push(c, v)).shape = endpoint.shape
               /\ Pushed(Push(c, v)).name = endpoint.name
               /\ Pushed(Push(c, v)).answers = endpoint.answers
               /\ DOMAIN Pushed(Push(c, v)).shows = DOMAIN endpoint.shows
               /\ \A d \in DOMAIN endpoint.shows : d # c =>
                     Pushed(Push(c, v)).shows[d] = endpoint.shows[d]
               /\ endpoint.answers = "yes" /\ c \in DOMAIN endpoint.shows =>
                     Pushed(Push(c, v)).shows[c] = v
<1> DEFINE w == [endpoint EXCEPT !.shows[c] = v]
<1>1. CASE endpoint # None /\ endpoint.answers = "yes" /\ c \in DOMAIN endpoint.shows
  <2>1. endpoint \in Endpoint
    BY <1>1 DEF TypeOK
  <2>2. Pushed(Push(c, v)) = w
    BY <1>1 DEF Pushed, Push
  <2>3. PICK S \in SUBSET Cluster : endpoint.shows \in [S -> Value \cup {None}]
    BY <2>1 DEF Endpoint
  <2>4. PICK f : f = [endpoint.shows EXCEPT ![c] = v]
    OBVIOUS
  <2>5. /\ f \in [S -> Value \cup {None}] /\ f[c] = v
        /\ \A d \in DOMAIN endpoint.shows : d # c => f[d] = endpoint.shows[d]
    BY <1>1, <2>3, <2>4
  <2>6. w = [endpoint EXCEPT !.shows = f]
    BY <2>4
  <2>7. f \in UNION {[D -> Value \cup {None}] : D \in SUBSET Cluster}
    BY <2>5
  <2>8. /\ w \in Endpoint /\ w.shape = endpoint.shape /\ w.name = endpoint.name
        /\ w.answers = endpoint.answers /\ w.shows = f
    BY <2>1, <2>6, <2>7 DEF Endpoint
  <2>9. w # None /\ DOMAIN f = DOMAIN endpoint.shows
    BY <2>3, <2>5, <2>8
  <2> HIDE DEF w
  <2> QED
    BY <1>1, <2>2, <2>5, <2>8, <2>9
<1>2. CASE ~(endpoint # None /\ endpoint.answers = "yes" /\ c \in DOMAIN endpoint.shows)
  <2>1. Pushed(Push(c, v)) = endpoint
    BY <1>2 DEF Pushed, Push
  <2> QED
    BY <1>2, <2>1 DEF TypeOK
<1> QED
  BY <1>1, <1>2

\* ComesUp
LEMMA ComesUpStep ==
  ASSUME IInv, ComesUp
  PROVE  IInv'
<1>1. /\ endpoint # None /\ endpoint.answers = "late"
      /\ endpoint' = [endpoint EXCEPT !.answers = "yes"]
      /\ UNCHANGED <<kind, value, wanted, faults, marker, regs, current, chain, timer, flushes,
                     pass, deferred>>
  BY DEF ComesUp, device, updates
<1>2. /\ endpoint' \in Endpoint /\ endpoint'.shape = endpoint.shape /\ endpoint'.name = endpoint.name
      /\ endpoint'.shows = endpoint.shows /\ endpoint'.answers = "yes"
  BY <1>1 DEF IInv, TypeOK, Endpoint
<1>3. TypeOK'
  BY <1>1, <1>2 DEF IInv, TypeOK
<1>4. Lone' /\ Ordered'
  BY <1>1 DEF IInv, Lone, Ordered, Renaming, IsRegistered
<1>5. Shaped' /\ Shape' = Shape
  BY <1>1, <1>2, NamedWell DEF IInv, Shaped
<1>6. ASSUME current # 0
      PROVE  Sound(regs[current], chain[current])' /\ Latest(regs[current])'
  <2>1. PICK r : r = regs[current]
    OBVIOUS
  <2>2. PICK c : c = chain[current]
    OBVIOUS
  <2>3. Sound(r, c)
    BY <1>6, <2>1, <2>2 DEF IInv
  <2>4. r.status # "registered"
    BY <1>1, <2>3 DEF Sound, Answering
  <2>5. Worked(r, c)' /\ Counted(r, c)' /\ Owed(r)' /\ Answering(r)' /\ Latest(r)'
    BY <1>1, <1>5, <2>3, <2>4 DEF Sound, Worked, Counted, Owed, Answering, Latest, Updates
  <2>6. Known(r, c)'
    BY <1>1, <1>2, <2>3, <2>4 DEF Sound, Known, IInv, TypeOK
  <2>7. r = regs'[current'] /\ c = chain'[current']
    BY <1>1, <2>1, <2>2
  <2> QED
    BY <2>5, <2>6, <2>7 DEF Sound, Worked, Counted, Owed, Known, Answering, Latest
<1> QED
  BY <1>1, <1>3, <1>4, <1>5, <1>6 DEF IInv

\* What a flush takes: a light's two clusters, or the one of a thermostat.
LEMMA Taken ==
  ASSUME TypeOK, NEW v \in Value
  PROVE  /\ kind = "light" =>
               InOrder(Updates(Shape, v)) = <<Push("onOff", v), Push("levelControl", v)>>
         /\ kind = "thermostat" =>
               /\ Shape \in {"thermostat", "temperature"}
               /\ InOrder(Updates(Shape, v)) = <<Push(Shape, v)>>
         /\ InOrder(Updates(Shape, v)) \in Seq([cluster : Cluster, value : Value])
<1>1. kind \in {"light", "thermostat"} /\ (kind = "light" => Shape = "light")
      /\ (kind = "thermostat" => Shape \in {"thermostat", "temperature"})
  BY DEF TypeOK, Shape
<1>2. \A c \in Cluster : Push(c, v) \in [cluster : Cluster, value : Value]
  BY DEF Push
<1>3. {"onOff", "levelControl", "thermostat", "temperature"} = Cluster
  BY DEF Cluster
<1>4. CASE kind = "light"
  <2>1. InOrder(Updates(Shape, v)) = <<Push("onOff", v), Push("levelControl", v)>>
    BY <1>1, <1>4, InOrderLight
  <2>2. "onOff" \in Cluster /\ "levelControl" \in Cluster
    BY <1>3
  <2> QED
    BY <1>2, <1>4, <2>1, <2>2
<1>5. CASE kind = "thermostat"
  <2>1. InOrder(Updates(Shape, v)) = <<Push(Shape, v)>>
    BY <1>1, <1>5, InOrderOne
  <2>2. Shape \in Cluster
    BY <1>1, <1>3, <1>5
  <2> QED
    BY <1>1, <1>2, <1>5, <2>1, <2>2
<1> QED
  BY <1>1, <1>4, <1>5

\* Flush
LEMMA FlushStep ==
  ASSUME IInv, Flush
  PROVE  IInv'
<1>1. /\ timer /\ timer' = FALSE
      /\ UNCHANGED <<kind, value, wanted, faults, marker, current, chain, pass, deferred>>
  BY DEF Flush, device
<1>2. CASE current # 0 /\ regs[current].status = "registered" /\ regs[current].pending # <<>>
  <2>1. PICK r0 : r0 = regs[current]
    OBVIOUS
  <2>2. /\ current \in DOMAIN regs /\ current \in DOMAIN chain /\ r0 \in Reg
        /\ chain[current] \in Chain /\ Sound(r0, chain[current])
    BY <1>2, <2>1 DEF IInv, TypeOK
  <2>3. chain[current] = Done /\ r0.shape = Shape
    BY <1>2, <2>1, <2>2 DEF Sound, Worked
  <2>4. PICK v \in Value : r0.pending = Updates(Shape, v) /\ (r0.dev = None => v = value)
    BY <1>2, <2>1, <2>2 DEF Sound, Owed
  <2>5. PICK list : list = InOrder(r0.pending)
    OBVIOUS
  <2>6. PICK r : r = [r0 EXCEPT !.pending = <<>>]
    OBVIOUS
  <2>7. /\ flushes' = Append(flushes, list) /\ endpoint' = Pushed(list[1])
        /\ regs' = [regs EXCEPT ![current] = r]
    BY <1>2, <2>1, <2>5, <2>6 DEF Flush
  <2>8. /\ r \in Reg /\ r.status = "registered" /\ r.pending = <<>> /\ r.shape = Shape
        /\ r.name = r0.name /\ r.liveName = r0.liveName /\ r.dev = r0.dev
    BY <1>2, <2>1, <2>2, <2>3, <2>6, NothingPending DEF Reg
  <2>9. /\ regs' \in Seq(Reg) /\ Len(regs') = Len(regs) /\ regs'[current] = r
    BY <2>2, <2>7, <2>8 DEF IInv, TypeOK
  <2>10. /\ kind = "light" => list = <<Push("onOff", v), Push("levelControl", v)>>
         /\ kind = "thermostat" => Shape \in {"thermostat", "temperature"} /\ list = <<Push(Shape, v)>>
         /\ list \in Seq([cluster : Cluster, value : Value])
    BY <2>4, <2>5, Taken DEF IInv
  <2>11. /\ flushes' \in Seq(Seq([cluster : Cluster, value : Value]))
         /\ flushes' # <<>> /\ flushes'[Len(flushes')] = list
         /\ \A n \in DOMAIN flushes' :
               n = Len(flushes') \/ (n \in DOMAIN flushes /\ flushes'[n] = flushes[n])
         /\ \A n \in DOMAIN flushes' : n \in 1..Len(flushes') /\ Len(flushes') \in Nat
    <3>1. flushes \in Seq(Seq([cluster : Cluster, value : Value]))
      BY DEF IInv, TypeOK
    <3> QED
      BY <2>7, <2>10, <3>1
  <2>12. PICK c \in Cluster : list[1] = Push(c, v) /\ c = IF kind = "light" THEN "onOff" ELSE Shape
    <3>1. kind \in {"light", "thermostat"} /\ {"onOff", "thermostat", "temperature"} \subseteq Cluster
      BY DEF IInv, TypeOK, Cluster
    <3> QED
      BY <2>10, <3>1
  <2>13. endpoint # None /\ endpoint.answers = "yes" /\ endpoint.shape = Shape
         /\ DOMAIN endpoint.shows = ToSet(Clusters(Shape))
    BY <1>2, <2>1, <2>2 DEF Sound, Answering, IInv, Shaped
  <2>14. PICK e : e = Pushed(Push(c, v))
    OBVIOUS
  <2>15. /\ e \in Endpoint \cup {None} /\ e # None /\ e.shape = Shape /\ e.name = endpoint.name
         /\ e.answers = "yes" /\ DOMAIN e.shows = ToSet(Clusters(Shape))
         /\ c \in ToSet(Clusters(Shape)) => e.shows[c] = v
    BY <2>13, <2>14, PushedKeeps DEF IInv
  <2>16. endpoint' = e
    BY <2>7, <2>12, <2>14
  <2>17. Shaped' /\ Shape' = Shape
    BY <1>1, <2>15, <2>16, NamedWell
  <2>18. Ordered'
    <3>1. CASE kind = "thermostat"
      <4>1. Len(list) = 1
        BY <2>10, <3>1
      <4> QED
        BY <1>1, <2>11, <3>1, <4>1 DEF IInv, Ordered
    <3>2. CASE kind = "light"
      <4>1. /\ Len(list) = 2
            /\ \A w \in Value : Len(<<Push("levelControl", w)>>) = 1
            /\ \A w \in Value : Len(<<Push("onOff", w), Push("levelControl", w)>>) = 2
        BY <2>10, <3>2
      <4>2. \A n \in DOMAIN flushes : Len(flushes[n]) = 1 \/ Len(flushes[n]) = 2
        BY <3>2, <4>1 DEF IInv, Ordered
      <4>3. \A n \in DOMAIN flushes' : \E w \in Value :
               flushes'[n] \in {<<Push("onOff", w), Push("levelControl", w)>>,
                                <<Push("levelControl", w)>>}
        <5> TAKE n \in DOMAIN flushes'
        <5>1. CASE n = Len(flushes')
          BY <2>10, <2>11, <3>2, <5>1
        <5>2. CASE n # Len(flushes')
          BY <2>11, <3>2, <5>2 DEF IInv, Ordered
        <5> QED
          BY <5>1, <5>2
      <4>4. \A m, n \in DOMAIN flushes' : m < n => Len(flushes'[m]) <= Len(flushes'[n])
        <5> SUFFICES ASSUME NEW m \in DOMAIN flushes', NEW n \in DOMAIN flushes', m < n
                     PROVE  Len(flushes'[m]) <= Len(flushes'[n])
          OBVIOUS
        <5>1. m # Len(flushes')
          BY <2>11
        <5>2. m \in DOMAIN flushes /\ flushes'[m] = flushes[m]
          BY <2>11, <5>1
        <5>3. CASE n = Len(flushes')
          <6>1. Len(flushes'[m]) = 1 \/ Len(flushes'[m]) = 2
            BY <4>2, <5>2
          <6>2. flushes'[Len(flushes')] = list
            BY <2>11
          <6>3. Len(flushes'[n]) = 2
            BY <4>1, <5>3, <6>2
          <6>4. CASE Len(flushes'[m]) = 1
            BY <6>3, <6>4
          <6>5. CASE Len(flushes'[m]) = 2
            BY <6>3, <6>5
          <6> QED
            BY <6>1, <6>4, <6>5
        <5>4. CASE n # Len(flushes')
          <6>1. n \in DOMAIN flushes /\ flushes'[n] = flushes[n]
            BY <2>11, <5>4
          <6> QED
            BY <3>2, <5>2, <6>1 DEF IInv, Ordered
        <5> QED
          BY <5>3, <5>4
      <4> QED
        BY <1>1, <3>2, <4>3, <4>4 DEF Ordered
    <3> QED
      BY <3>1, <3>2 DEF IInv, TypeOK
  <2>19. Latest(r)'
    <3> SUFFICES ASSUME r.dev = None
                 PROVE  /\ \A d \in DOMAIN endpoint'.shows :
                              endpoint'.shows[d] = value
                              \/ (d = "levelControl" /\ Half(flushes'))
                        /\ Half(flushes') => flushes'[Len(flushes')][2].value = value
      BY <1>1 DEF Latest, Half
    <3>1. v = value
      BY <2>4, <2>8
    <3>2. CASE kind = "light"
      <4>1. Half(flushes') /\ flushes'[Len(flushes')][2].value = v
        BY <2>10, <2>11, <3>2 DEF Half, Push
      <4>2. Shape = "light" /\ DOMAIN e.shows = {"onOff", "levelControl"} /\ e.shows["onOff"] = v
        BY <2>12, <2>15, <3>2, ClustersAre DEF Shape
      <4> QED
        BY <2>16, <3>1, <4>1, <4>2
    <3>3. CASE kind = "thermostat"
      <4>1. Len(list) = 1
        BY <2>10, <3>3
      <4>2. ~Half(flushes')
        BY <2>11, <4>1 DEF Half
      <4>3. DOMAIN e.shows = {Shape} /\ e.shows[Shape] = v
        BY <2>10, <2>12, <2>15, <3>3, ClustersAre
      <4> QED
        BY <2>16, <3>1, <4>2, <4>3
    <3> QED
      BY <3>2, <3>3 DEF IInv, TypeOK
  <2>20. Sound(r, Done)'
    <3>1. Worked(r, Done)' /\ Counted(r, Done)' /\ Owed(r)'
      <4>1. Done.at = "done"
        BY DEF Done
      <4> QED
        BY <2>8, <2>17, <4>1 DEF Worked, Counted, Owed
    <3>2. Known(r, Done)' /\ Answering(r)'
      BY <1>1, <1>2, <2>1, <2>2, <2>3, <2>8, <2>13, <2>15, <2>16 DEF Sound, Known, Answering, Renaming
    <3> QED
      BY <3>1, <3>2 DEF Sound
  <2>21. Renaming' => r.status = "registered"
    BY <2>8
  <2> QED
    BY <1>1, <1>2, <2>2, <2>3, <2>8, <2>9, <2>11, <2>15, <2>16, <2>17, <2>18, <2>19, <2>20, <2>21,
       KeepStep DEF IInv, TypeOK
<1>3. CASE ~(current # 0 /\ regs[current].status = "registered" /\ regs[current].pending # <<>>)
  <2>1. UNCHANGED <<flushes, endpoint, regs>>
    BY <1>3 DEF Flush
  <2>2. TypeOK' /\ Lone' /\ Shaped' /\ Ordered'
    BY <1>1, <2>1 DEF IInv, TypeOK, Lone, IsRegistered, Renaming, Shaped, Shape, Ordered
  <2>3. ASSUME current # 0
        PROVE  Sound(regs[current], chain[current])' /\ Latest(regs[current])'
    <3>1. PICK r : r = regs[current]
      OBVIOUS
    <3>2. PICK c : c = chain[current]
      OBVIOUS
    <3>3. Sound(r, c) /\ Latest(r)
      BY <2>3, <3>1, <3>2 DEF IInv
    <3>4. Shape' = Shape
      BY <1>1 DEF Shape
    <3>5. r = regs'[current'] /\ c = chain'[current']
      BY <1>1, <2>1, <3>1, <3>2
    <3>6. Worked(r, c)' /\ Counted(r, c)' /\ Known(r, c)' /\ Answering(r)' /\ Latest(r)'
      BY <1>1, <2>1, <3>3, <3>4 DEF Sound, Worked, Counted, Known, Answering, Latest, Renaming
    <3>7. Owed(r)'
      BY <1>1, <1>3, <2>3, <3>1, <3>3, <3>4 DEF Sound, Owed, Updates
    <3> QED
      BY <3>5, <3>6, <3>7 DEF Sound, Worked, Counted, Owed, Known, Answering, Latest
  <2> QED
    BY <1>1, <2>2, <2>3 DEF IInv
<1> QED
  BY <1>2, <1>3

\* The sequence without its n-th element.
LEMMA Removed ==
  ASSUME NEW S, NEW q \in Seq(S), NEW n \in DOMAIN q
  PROVE  /\ RemoveAt(q, n) \in Seq(S) /\ Len(RemoveAt(q, n)) = Len(q) - 1
         /\ \A i \in DOMAIN RemoveAt(q, n) :
               /\ i \in DOMAIN q /\ i + 1 \in DOMAIN q
               /\ RemoveAt(q, n)[i] = IF i < n THEN q[i] ELSE q[i + 1]
<1>1. n \in 1..Len(q) /\ Len(q) \in Nat /\ DOMAIN q = 1..Len(q)
  BY LenProperties
<1>2. PICK a : a = SubSeq(q, 1, n - 1)
  OBVIOUS
<1>3. PICK b : b = SubSeq(q, n + 1, Len(q))
  OBVIOUS
<1>4. a \in Seq(S) /\ Len(a) = n - 1 /\ \A i \in 1..(n - 1) : a[i] = q[i]
  <2>1. 1 \in 1..(Len(q) + 1) /\ n - 1 \in (1 - 1)..Len(q) /\ n - 1 - 1 + 1 = n - 1
    BY <1>1
  <2>2. \A i \in 1..(n - 1) : 1 + i - 1 = i
    BY <1>1
  <2> QED
    BY <1>2, <2>1, <2>2, SubSeqProperties
<1>5. b \in Seq(S) /\ Len(b) = Len(q) - n /\ \A i \in 1..(Len(q) - n) : b[i] = q[n + i]
  <2>1. /\ n + 1 \in 1..(Len(q) + 1) /\ Len(q) \in ((n + 1) - 1)..Len(q)
        /\ Len(q) - (n + 1) + 1 = Len(q) - n
    BY <1>1
  <2>2. \A i \in 1..(Len(q) - n) : (n + 1) + i - 1 = n + i
    BY <1>1
  <2> QED
    BY <1>3, <2>1, <2>2, SubSeqProperties
<1>6. RemoveAt(q, n) = a \o b
  BY <1>2, <1>3 DEF RemoveAt
<1>7. /\ a \o b \in Seq(S) /\ Len(a \o b) = Len(a) + Len(b)
      /\ \A i \in 1..(Len(a) + Len(b)) :
            (a \o b)[i] = IF i <= Len(a) THEN a[i] ELSE b[i - Len(a)]
  BY <1>4, <1>5, ConcatProperties
<1>8. Len(a) + Len(b) = Len(q) - 1
  BY <1>1, <1>4, <1>5
<1>9. DOMAIN (a \o b) = 1..(Len(q) - 1)
  BY <1>7, <1>8, LenProperties
<1>10. \A i \in 1..(Len(q) - 1) : /\ i \in DOMAIN q /\ i + 1 \in DOMAIN q
                                  /\ (a \o b)[i] = IF i < n THEN q[i] ELSE q[i + 1]
  <2> TAKE i \in 1..(Len(q) - 1)
  <2>1. i \in DOMAIN q /\ i + 1 \in DOMAIN q
    BY <1>1
  <2>2. CASE i < n
    <3>1. i <= Len(a) /\ i \in 1..(n - 1)
      BY <1>1, <1>4, <2>2
    <3>2. (a \o b)[i] = a[i]
      BY <1>7, <1>8, <3>1
    <3> QED
      BY <1>4, <2>1, <2>2, <3>1, <3>2
  <2>3. CASE ~(i < n)
    <3>1. ~(i <= Len(a)) /\ i - Len(a) \in 1..(Len(q) - n) /\ n + (i - Len(a)) = i + 1
      BY <1>1, <1>4, <2>3
    <3>2. (a \o b)[i] = b[i - Len(a)]
      BY <1>7, <1>8, <3>1
    <3>3. b[i - Len(a)] = q[n + (i - Len(a))]
      BY <1>5, <3>1
    <3> QED
      BY <2>1, <2>3, <3>1, <3>2, <3>3
  <2> QED
    BY <2>2, <2>3
<1> QED
  BY <1>6, <1>7, <1>8, <1>9, <1>10

\* A push changes nothing but the flushes and what the endpoint shows.
LEMMA PushesOn ==
  ASSUME IInv, UNCHANGED <<kind, value, wanted, faults, marker, regs, current, chain, timer, pass,
                           deferred>>,
         flushes' \in Seq(Seq([cluster : Cluster, value : Value])), Ordered',
         endpoint' \in Endpoint \cup {None}, endpoint = None => endpoint' = None,
         endpoint # None =>
            /\ endpoint' # None /\ endpoint'.shape = endpoint.shape
            /\ endpoint'.name = endpoint.name /\ endpoint'.answers = endpoint.answers
            /\ DOMAIN endpoint'.shows = DOMAIN endpoint.shows,
         \A r \in Reg : Latest(r) /\ r.status = "registered" /\ Sound(r, Done) => Latest(r)'
  PROVE  IInv'
<1>1. TypeOK' /\ Lone'
  BY DEF IInv, TypeOK, Lone, Renaming, IsRegistered
<1>2. Shaped' /\ Shape' = Shape
  BY NamedWell DEF IInv, Shaped
<1>3. ASSUME current # 0
      PROVE  Sound(regs[current], chain[current])' /\ Latest(regs[current])'
  <2>1. PICK r : r = regs[current]
    OBVIOUS
  <2>2. PICK c : c = chain[current]
    OBVIOUS
  <2>3. Sound(r, c) /\ Latest(r) /\ r \in Reg
    BY <1>3, <2>1, <2>2 DEF IInv, TypeOK
  <2>4. Worked(r, c)' /\ Counted(r, c)' /\ Owed(r)'
    BY <1>2, <2>3 DEF Sound, Worked, Counted, Owed, Updates
  <2>5. Known(r, c)' /\ Answering(r)'
    BY <2>3 DEF Sound, Known, Answering, Renaming
  <2>6. Latest(r)'
    <3>1. CASE r.status = "registered"
      <4>1. c = Done
        BY <2>3, <3>1 DEF Sound, Worked
      <4> QED
        BY <2>3, <3>1, <4>1
    <3>2. CASE r.status # "registered"
      BY <3>2 DEF Latest
    <3> QED
      BY <3>1, <3>2
  <2>7. r = regs'[current] /\ c = chain'[current]
    BY <2>1, <2>2
  <2> QED
    BY <2>4, <2>5, <2>6, <2>7 DEF Sound, Worked, Counted, Owed, Known, Answering, Latest
<1> QED
  BY <1>1, <1>2, <1>3 DEF IInv

\* PushEnds(n), of a light: the first of two clusters, of the last flush that has two ...
LEMMA PushFirst ==
  ASSUME IInv, kind = "light", NEW n \in DOMAIN flushes, PushEnds(n), NEW v \in Value,
         flushes[n] = <<Push("onOff", v), Push("levelControl", v)>>
  PROVE  IInv'
<1>1. UNCHANGED <<kind, value, wanted, faults, marker, regs, current, chain, timer, pass, deferred>>
  BY DEF PushEnds, device
<1>2. flushes \in Seq(Seq([cluster : Cluster, value : Value]))
      /\ Len(flushes) \in Nat /\ DOMAIN flushes = 1..Len(flushes)
  BY DEF IInv, TypeOK
<1>3. PICK left : left = <<Push("levelControl", v)>>
  OBVIOUS
<1>4. /\ left \in Seq([cluster : Cluster, value : Value]) /\ left # <<>> /\ Len(left) = 1
      /\ left[1] = Push("levelControl", v)
  <2>1. Push("levelControl", v) \in [cluster : Cluster, value : Value]
    BY DEF Push, Cluster
  <2> QED
    BY <1>3, <2>1
<1>5. Tail(flushes[n]) = left
  BY <1>3
<1>6. PICK q : q = [flushes EXCEPT ![n] = left]
  OBVIOUS
<1>7. PICK e : e = Pushed(Push("levelControl", v))
  OBVIOUS
<1>8. flushes' = q /\ endpoint' = e
  BY <1>4, <1>5, <1>6, <1>7 DEF PushEnds
<1>9. /\ q \in Seq(Seq([cluster : Cluster, value : Value])) /\ Len(q) = Len(flushes)
      /\ DOMAIN q = DOMAIN flushes /\ q[n] = left
      /\ \A i \in DOMAIN q : i # n => q[i] = flushes[i]
  BY <1>2, <1>4, <1>6
<1>10. "levelControl" \in Cluster
  BY DEF Cluster
<1>11. \A w \in Value : /\ Len(<<Push("onOff", w), Push("levelControl", w)>>) = 2
                        /\ <<Push("onOff", w), Push("levelControl", w)>>[1].cluster = "onOff"
                        /\ Len(<<Push("levelControl", w)>>) = 1
  <2>1. \A w \in Value : Push("onOff", w).cluster = "onOff"
    BY DEF Push
  <2>2. \A w \in Value : /\ Len(<<Push("onOff", w), Push("levelControl", w)>>) = 2
                         /\ <<Push("onOff", w), Push("levelControl", w)>>[1] = Push("onOff", w)
                         /\ Len(<<Push("levelControl", w)>>) = 1
    OBVIOUS
  <2> QED
    BY <2>1, <2>2
<1>12. Len(flushes[n]) = 2 /\ flushes[n][1].cluster = "onOff"
  BY <1>11
<1>13. \A i \in DOMAIN flushes : \E w \in Value :
          flushes[i] \in {<<Push("onOff", w), Push("levelControl", w)>>, <<Push("levelControl", w)>>}
  BY DEF IInv, Ordered
<1>14. \A i \in DOMAIN flushes : i < n => Len(flushes[i]) = 1
  <2> SUFFICES ASSUME NEW i \in DOMAIN flushes, i < n
               PROVE  Len(flushes[i]) = 1
    OBVIOUS
  <2>1. flushes[i][1].cluster # "onOff"
    <3>1. i \in 1..(n - 1)
      BY <1>2
    <3> QED
      BY <1>12, <3>1 DEF PushEnds
  <2>2. PICK w \in Value :
           flushes[i] \in {<<Push("onOff", w), Push("levelControl", w)>>, <<Push("levelControl", w)>>}
    BY <1>13
  <2>3. flushes[i] # <<Push("onOff", w), Push("levelControl", w)>>
    BY <1>11, <2>1
  <2> QED
    BY <1>11, <2>2, <2>3
<1>15. \A i \in DOMAIN flushes : n < i => Len(flushes[i]) = 2
  <2> SUFFICES ASSUME NEW i \in DOMAIN flushes, n < i
               PROVE  Len(flushes[i]) = 2
    OBVIOUS
  <2>1. Len(flushes[n]) <= Len(flushes[i])
    BY DEF IInv, Ordered
  <2>2. Len(flushes[i]) = 1 \/ Len(flushes[i]) = 2
    BY <1>11, <1>13
  <2>3. Len(flushes[i]) # 1
    <3> SUFFICES ASSUME Len(flushes[i]) = 1
                 PROVE  FALSE
      OBVIOUS
    <3> QED
      BY <1>12, <2>1
  <2> QED
    BY <2>2, <2>3
<1>16. Ordered'
  <2>1. \A i \in DOMAIN q : \E w \in Value :
           q[i] \in {<<Push("onOff", w), Push("levelControl", w)>>, <<Push("levelControl", w)>>}
    BY <1>3, <1>9, <1>13
  <2>2. \A i \in DOMAIN q : (i <= n => Len(q[i]) = 1) /\ (n < i => Len(q[i]) = 2)
    <3> TAKE i \in DOMAIN q
    <3>1. CASE i = n
      BY <1>2, <1>4, <1>9, <3>1
    <3>2. CASE i # n
      <4>1. i \in DOMAIN flushes /\ q[i] = flushes[i]
        BY <1>9, <3>2
      <4>2. i <= n => i < n
        BY <1>2, <3>2, <4>1
      <4> QED
        BY <1>14, <1>15, <4>1, <4>2
    <3> QED
      BY <3>1, <3>2
  <2>3. \A i, j \in DOMAIN q : i < j => Len(q[i]) <= Len(q[j])
    <3> SUFFICES ASSUME NEW i \in DOMAIN q, NEW j \in DOMAIN q, i < j
                 PROVE  Len(q[i]) <= Len(q[j])
      OBVIOUS
    <3>1. i \in Nat /\ j \in Nat /\ n \in Nat
      BY <1>2, <1>9
    <3>2. CASE i <= n /\ j <= n
      <4>1. Len(q[i]) = 1 /\ Len(q[j]) = 1
        BY <2>2, <3>2
      <4> QED
        BY <4>1
    <3>3. CASE i <= n /\ n < j
      <4>1. Len(q[i]) = 1 /\ Len(q[j]) = 2
        BY <2>2, <3>3
      <4> QED
        BY <4>1
    <3>4. CASE n < i
      <4>1. n < j
        BY <3>1, <3>4
      <4>2. Len(q[i]) = 2 /\ Len(q[j]) = 2
        BY <2>2, <3>4, <4>1
      <4> QED
        BY <4>2
    <3> QED
      BY <3>1, <3>2, <3>3, <3>4
  <2> QED
    BY <1>1, <1>8, <2>1, <2>3 DEF Ordered
<1>17. ASSUME NEW r \in Reg, Latest(r), r.status = "registered", Sound(r, Done)
       PROVE  Latest(r)'
  <2> SUFFICES ASSUME r.pending = <<>>, r.dev = None
               PROVE  /\ \A d \in DOMAIN e.shows :
                            e.shows[d] = value \/ (d = "levelControl" /\ Half(q))
                      /\ Half(q) => q[Len(q)][2].value = value
    BY <1>1, <1>8 DEF Latest, Half
  <2>1. endpoint # None /\ endpoint.answers = "yes"
    BY <1>17 DEF Sound, Answering
  <2>2. DOMAIN endpoint.shows = {"onOff", "levelControl"}
    BY <2>1, ClustersAre DEF IInv, Shaped, Shape
  <2>3. /\ DOMAIN e.shows = {"onOff", "levelControl"}
        /\ e.shows["onOff"] = endpoint.shows["onOff"] /\ e.shows["levelControl"] = v
    BY <1>7, <1>10, <2>1, <2>2, PushedKeeps DEF IInv
  <2>4. endpoint.shows["onOff"] = value
    BY <1>17, <2>2 DEF Latest
  <2>5. Len(flushes) \in DOMAIN flushes /\ flushes # <<>>
    BY <1>2
  <2>6. CASE n = Len(flushes)
    <3>1. Half(flushes) /\ flushes[Len(flushes)][2] = Push("levelControl", v)
      BY <1>12, <2>5, <2>6 DEF Half
    <3>2. v = value
      BY <1>17, <3>1 DEF Latest, Push
    <3>3. ~Half(q)
      <4>1. q[Len(q)] = left
        BY <1>9, <2>6
      <4> QED
        BY <1>4, <4>1 DEF Half
    <3> QED
      BY <2>3, <2>4, <3>2, <3>3
  <2>7. CASE n # Len(flushes)
    <3>1. n < Len(flushes)
      BY <1>2, <2>7
    <3>2. Len(flushes[Len(flushes)]) = 2
      BY <1>15, <2>5, <3>1
    <3>3. q[Len(q)] = flushes[Len(flushes)]
      BY <1>9, <2>5, <2>7
    <3>4. q # <<>>
      BY <1>2, <1>9
    <3>5. Half(flushes) /\ Half(q)
      BY <2>5, <3>2, <3>3, <3>4 DEF Half
    <3>6. q[Len(q)][2].value = value
      BY <1>17, <3>3, <3>5 DEF Latest
    <3> QED
      BY <2>3, <2>4, <3>5, <3>6
  <2> QED
    BY <2>6, <2>7
<1>18. /\ e \in Endpoint \cup {None} /\ (endpoint = None => e = None)
       /\ endpoint # None =>
             /\ e # None /\ e.shape = endpoint.shape /\ e.name = endpoint.name
             /\ e.answers = endpoint.answers /\ DOMAIN e.shows = DOMAIN endpoint.shows
  BY <1>7, <1>10, PushedKeeps DEF IInv
<1> QED
  BY <1>1, <1>8, <1>9, <1>16, <1>17, <1>18, PushesOn

\* ... and the second, of the first flush.
LEMMA PushSecond ==
  ASSUME IInv, kind = "light", NEW n \in DOMAIN flushes, PushEnds(n), NEW v \in Value,
         flushes[n] = <<Push("levelControl", v)>>
  PROVE  IInv'
<1>1. UNCHANGED <<kind, value, wanted, faults, marker, regs, current, chain, timer, pass, deferred>>
  BY DEF PushEnds, device
<1>2. flushes \in Seq(Seq([cluster : Cluster, value : Value]))
      /\ Len(flushes) \in Nat /\ DOMAIN flushes = 1..Len(flushes)
  BY DEF IInv, TypeOK
<1>3. Tail(flushes[n]) = <<>>
  OBVIOUS
<1>4. PICK q : q = RemoveAt(flushes, n)
  OBVIOUS
<1>5. flushes' = q /\ endpoint' = endpoint
  BY <1>3, <1>4 DEF PushEnds
<1>6. /\ q \in Seq(Seq([cluster : Cluster, value : Value])) /\ Len(q) = Len(flushes) - 1
      /\ \A i \in DOMAIN q : /\ i \in DOMAIN flushes /\ i + 1 \in DOMAIN flushes
                             /\ q[i] = IF i < n THEN flushes[i] ELSE flushes[i + 1]
  <2> DEFINE S == Seq([cluster : Cluster, value : Value])
  <2>1. flushes \in Seq(S)
    BY <1>2
  <2> HIDE DEF S
  <2>2. /\ q \in Seq(S) /\ Len(q) = Len(flushes) - 1
        /\ \A i \in DOMAIN q : /\ i \in DOMAIN flushes /\ i + 1 \in DOMAIN flushes
                               /\ q[i] = IF i < n THEN flushes[i] ELSE flushes[i + 1]
    BY <1>4, <2>1, Removed
  <2> QED
    BY <2>2 DEF S
<1>7. /\ flushes[n][1].cluster = "levelControl" /\ Len(flushes[n]) = 1
      /\ \A w \in Value : Len(<<Push("onOff", w), Push("levelControl", w)>>) = 2
      /\ \A w \in Value : Len(<<Push("levelControl", w)>>) = 1
      /\ \A w \in Value : <<Push("levelControl", w)>>[1].cluster = "levelControl"
  <2>1. \A w \in Value : Push("levelControl", w).cluster = "levelControl"
    BY DEF Push
  <2>2. \A w \in Value : <<Push("levelControl", w)>>[1] = Push("levelControl", w)
                         /\ Len(<<Push("levelControl", w)>>) = 1
    OBVIOUS
  <2>3. \A w \in Value : Len(<<Push("onOff", w), Push("levelControl", w)>>) = 2
    OBVIOUS
  <2>4. flushes[n][1] = Push("levelControl", v) /\ Len(flushes[n]) = 1
    BY <2>2
  <2> QED
    BY <2>1, <2>2, <2>3, <2>4
<1>8. n = 1
  <2> SUFFICES ASSUME n # 1
               PROVE  FALSE
    OBVIOUS
  <2>1. 1 \in DOMAIN flushes /\ 1 \in 1..(n - 1) /\ 1 < n
    BY <1>2
  <2>2. Len(flushes[1]) <= Len(flushes[n])
    BY <2>1 DEF IInv, Ordered
  <2>3. PICK w \in Value : flushes[1] \in {<<Push("onOff", w), Push("levelControl", w)>>,
                                           <<Push("levelControl", w)>>}
    BY <2>1 DEF IInv, Ordered
  <2>4. flushes[1] # <<Push("onOff", w), Push("levelControl", w)>>
    <3> SUFFICES ASSUME flushes[1] = <<Push("onOff", w), Push("levelControl", w)>>
                 PROVE  FALSE
      OBVIOUS
    <3>1. Len(flushes[1]) = 2
      BY <1>7
    <3> QED
      BY <1>7, <2>2, <3>1
  <2>5. flushes[1][1].cluster = "levelControl"
    BY <1>7, <2>3, <2>4
  <2> QED
    BY <1>7, <2>1, <2>5 DEF PushEnds
<1>9. \A i \in DOMAIN q : i + 1 \in DOMAIN flushes /\ q[i] = flushes[i + 1]
  <2> TAKE i \in DOMAIN q
  <2>1. i \in DOMAIN flushes /\ ~(i < n)
    BY <1>2, <1>6, <1>8
  <2> QED
    BY <1>6, <2>1
<1>10. Ordered'
  <2>1. \A i \in DOMAIN q : \E w \in Value :
           q[i] \in {<<Push("onOff", w), Push("levelControl", w)>>, <<Push("levelControl", w)>>}
    BY <1>9 DEF IInv, Ordered
  <2>2. \A i, j \in DOMAIN q : i < j => Len(q[i]) <= Len(q[j])
    <3> SUFFICES ASSUME NEW i \in DOMAIN q, NEW j \in DOMAIN q, i < j
                 PROVE  Len(q[i]) <= Len(q[j])
      OBVIOUS
    <3>1. i \in DOMAIN flushes /\ j \in DOMAIN flushes
      BY <1>6
    <3>2. i + 1 < j + 1
      BY <1>2, <3>1
    <3> QED
      BY <1>9, <3>2 DEF IInv, Ordered
  <2> QED
    BY <1>1, <1>5, <2>1, <2>2 DEF Ordered
<1>11. \A r \in Reg : Latest(r) => Latest(r)'
  <2>1. q # <<>> => q[Len(q)] = flushes[Len(flushes)] /\ flushes # <<>>
    <3> SUFFICES ASSUME q # <<>>
                 PROVE  q[Len(q)] = flushes[Len(flushes)] /\ flushes # <<>>
      OBVIOUS
    <3>1. Len(q) \in DOMAIN q
      BY <1>6
    <3>2. Len(q) + 1 = Len(flushes)
      BY <1>2, <1>6
    <3> QED
      BY <1>2, <1>9, <3>1, <3>2
  <2>2. q = <<>> => Len(flushes) = 1
    <3>1. ASSUME q = <<>>
          PROVE  Len(flushes) - 1 = 0
      <4>1. Len(q) = 0
        BY <3>1
      <4> QED
        BY <1>6, <4>1
    <3>2. Len(flushes) \in Nat
      BY <1>2
    <3>3. \A m \in Nat : m - 1 = 0 => m = 1
      OBVIOUS
    <3> QED
      BY <3>1, <3>2, <3>3, Zenon
  <2>3. Half(q) <=> Half(flushes)
    <3>1. CASE q = <<>>
      <4>1. Len(flushes) = n
        BY <1>8, <2>2, <3>1
      <4>2. Len(flushes[Len(flushes)]) = 1
        BY <1>7, <4>1
      <4>3. ~Half(flushes)
        BY <4>2 DEF Half
      <4> QED
        BY <3>1, <4>3 DEF Half
    <3>2. CASE q # <<>>
      BY <2>1, <3>2 DEF Half
    <3> QED
      BY <3>1, <3>2
  <2>4. Half(flushes)' <=> Half(flushes)
    BY <1>5, <2>3 DEF Half
  <2>5. Half(flushes) => flushes'[Len(flushes')] = flushes[Len(flushes)]
    BY <1>5, <2>1, <2>3 DEF Half
  <2> QED
    BY <1>1, <1>5, <2>4, <2>5 DEF Latest
<1> QED
  BY <1>1, <1>5, <1>6, <1>10, <1>11, PushesOn DEF IInv, TypeOK

LEMMA TailOfOne ==
  ASSUME NEW S, NEW q \in Seq(S), Len(q) = 1
  PROVE  Tail(q) = <<>>
<1>1. q # <<>>
  BY EmptySeq
<1>2. Tail(q) \in Seq(S) /\ Len(Tail(q)) = 0
  BY <1>1, HeadTailProperties
<1> QED
  BY <1>2, EmptySeq

\* PushEnds(n), of a thermostat: the one cluster.
LEMMA PushOnly ==
  ASSUME IInv, kind = "thermostat", NEW n \in DOMAIN flushes, PushEnds(n)
  PROVE  IInv'
<1>1. UNCHANGED <<kind, value, wanted, faults, marker, regs, current, chain, timer, pass, deferred>>
  BY DEF PushEnds, device
<1> DEFINE S == Seq([cluster : Cluster, value : Value])
<1>2. flushes \in Seq(S) /\ Len(flushes) \in Nat /\ DOMAIN flushes = 1..Len(flushes)
  BY DEF IInv, TypeOK
<1>3. \A i \in DOMAIN flushes : Len(flushes[i]) = 1
  BY DEF IInv, Ordered
<1>4. Tail(flushes[n]) = <<>>
  <2>1. flushes[n] \in Seq([cluster : Cluster, value : Value]) /\ Len(flushes[n]) = 1
    BY <1>2, <1>3
  <2> QED
    BY <2>1, TailOfOne
<1> HIDE DEF S
<1>5. PICK q : q = RemoveAt(flushes, n)
  OBVIOUS
<1>6. flushes' = q /\ endpoint' = endpoint
  BY <1>4, <1>5 DEF PushEnds
<1>7. /\ q \in Seq(S)
      /\ \A i \in DOMAIN q : /\ i \in DOMAIN flushes /\ i + 1 \in DOMAIN flushes
                             /\ q[i] = IF i < n THEN flushes[i] ELSE flushes[i + 1]
  BY <1>2, <1>5, Removed
<1>8. \A i \in DOMAIN q : Len(q[i]) = 1
  BY <1>3, <1>7
<1>9. Ordered'
  BY <1>1, <1>6, <1>8 DEF Ordered
<1>10. \A p \in Seq(S) : (\A i \in DOMAIN p : Len(p[i]) = 1) => ~Half(p)
  <2> SUFFICES ASSUME NEW p \in Seq(S), \A i \in DOMAIN p : Len(p[i]) = 1, p # <<>>
               PROVE  Len(p[Len(p)]) = 1
    BY DEF Half
  <2>1. Len(p) \in DOMAIN p
    OBVIOUS
  <2> QED
    BY <2>1
<1>11. ~Half(flushes) /\ ~Half(q)
  BY <1>2, <1>3, <1>7, <1>8, <1>10
<1>12. \A r \in Reg : Latest(r) => Latest(r)'
  BY <1>1, <1>6, <1>11 DEF Latest, Half
<1> QED
  BY <1>1, <1>6, <1>7, <1>9, <1>12, PushesOn DEF IInv, TypeOK, S

LEMMA PushEndsStep ==
  ASSUME IInv, NEW n \in DOMAIN flushes, PushEnds(n)
  PROVE  IInv'
<1>1. kind = "light" \/ kind = "thermostat"
  BY DEF IInv, TypeOK
<1>2. CASE kind = "light"
  <2>1. PICK v \in Value : flushes[n] \in {<<Push("onOff", v), Push("levelControl", v)>>,
                                           <<Push("levelControl", v)>>}
    BY <1>2 DEF IInv, Ordered
  <2> QED
    BY <1>2, <2>1, PushFirst, PushSecond
<1> QED
  BY <1>1, <1>2, PushOnly

-----------------------------------------------------------------------------
(* Renames and restarts                                                    *)

\* A step that only concerns names leaves the registration what it was but for that.
LEMMA NameStep ==
  ASSUME IInv, UNCHANGED <<kind, value, endpoint, faults, marker, regs, current, chain, timer, flushes>>,
         wanted' \in Name, deferred' \in BOOLEAN,
         pass' \in [Pass -> [at : {"idle", "unregistering"}, dev : Value \cup {None}]],
         Renaming' => IsRegistered,
         \A r \in Reg, c \in Chain :
            current # 0 /\ r = regs[current] /\ c = chain[current] /\ Known(r, c) => Known(r, c)'
  PROVE  IInv'
<1>1. TypeOK' /\ Lone'
  BY DEF IInv, TypeOK, Lone, IsRegistered
<1>2. Shaped' /\ Shape' = Shape
  BY NamedWell DEF IInv, Shaped
<1>3. Ordered'
  BY DEF IInv, Ordered
<1>4. ASSUME current # 0
      PROVE  Sound(regs[current], chain[current])' /\ Latest(regs[current])'
  <2>1. PICK r : r = regs[current]
    OBVIOUS
  <2>2. PICK c : c = chain[current]
    OBVIOUS
  <2>3. Sound(r, c) /\ Latest(r) /\ r \in Reg /\ c \in Chain
    BY <1>4, <2>1, <2>2 DEF IInv, TypeOK
  <2>4. Known(r, c)'
    BY <1>4, <2>1, <2>2, <2>3 DEF Sound
  <2>5. Worked(r, c)' /\ Counted(r, c)' /\ Owed(r)' /\ Answering(r)' /\ Latest(r)'
    BY <1>2, <2>3 DEF Sound, Worked, Counted, Owed, Answering, Latest, Updates
  <2>6. r = regs'[current] /\ c = chain'[current]
    BY <2>1, <2>2
  <2> QED
    BY <2>4, <2>5, <2>6 DEF Sound, Worked, Counted, Owed, Known, Answering, Latest
<1> QED
  BY <1>1, <1>2, <1>3, <1>4 DEF IInv

LEMMA DisplaceStep ==
  ASSUME IInv, NEW n \in Name, Displace(n)
  PROVE  IInv'
<1>1. /\ wanted' = n /\ deferred' = TRUE
      /\ UNCHANGED <<kind, value, endpoint, faults, marker, regs, current, chain, timer, flushes, pass>>
  BY DEF Displace, server, updates
<1>2. pass' \in [Pass -> [at : {"idle", "unregistering"}, dev : Value \cup {None}]]
  BY <1>1 DEF IInv, TypeOK
<1>3. Renaming' => IsRegistered
  BY <1>1 DEF IInv, Lone, Renaming
<1>4. \A r \in Reg, c \in Chain : Known(r, c) => Known(r, c)'
  BY <1>1 DEF Known
<1> QED
  BY <1>1, <1>2, <1>3, <1>4, NameStep

LEMMA StartPassStep ==
  ASSUME IInv, NEW p \in Pass, NEW n \in Name, StartPass(p, n)
  PROVE  IInv'
<1>1. /\ wanted' = n /\ current # 0
      /\ deferred' = (regs[current].status # "registered" /\ regs[current].liveName # n)
      /\ UNCHANGED <<kind, value, endpoint, faults, marker, regs, current, chain, timer, flushes>>
  BY DEF StartPass, server, updates
<1>2. pass' = IF Refreshes(n) THEN [pass EXCEPT ![p] = [at |-> "unregistering", dev |-> None]] ELSE pass
  BY DEF StartPass
<1>3. pass \in [Pass -> [at : {"idle", "unregistering"}, dev : Value \cup {None}]]
  BY DEF IInv, TypeOK
<1>4. pass' \in [Pass -> [at : {"idle", "unregistering"}, dev : Value \cup {None}]]
  BY <1>2, <1>3
<1>5. Refreshes(n) => Renaming' /\ IsRegistered
  <2>1. ASSUME Refreshes(n)
        PROVE  Renaming'
    <3>1. pass'[p].at = "unregistering"
      BY <1>2, <1>3, <2>1
    <3> QED
      BY <3>1 DEF Renaming
  <2> QED
    BY <1>1, <2>1 DEF Refreshes, IsRegistered
<1>6. Renaming' => IsRegistered
  <2>1. ~Refreshes(n) => Renaming' = Renaming
    BY <1>2 DEF Renaming
  <2> QED
    BY <1>5, <2>1 DEF IInv, Lone
<1>7. ASSUME NEW r \in Reg, NEW c \in Chain, r = regs[current], c = chain[current], Known(r, c)
      PROVE  Known(r, c)'
  <2>1. n # None
    OBVIOUS
  <2>2. r.status = "registered" => r.liveName = n \/ Renaming'
    BY <1>5, <1>7 DEF Refreshes
  <2>3. r.status = "pending" /\ ~deferred' => r.liveName = n /\ r.name = n
    BY <1>1, <1>7, <2>1 DEF Known
  <2> QED
    BY <1>1, <1>7, <2>2, <2>3 DEF Known
<1> QED
  BY <1>1, <1>4, <1>6, <1>7, NameStep DEF IInv, TypeOK

\* Passes do not overlap.
OnePass == \A p, q \in Pass : p = q

LEMMA PassGoesOnStep ==
  ASSUME OnePass, IInv, NEW p \in Pass, PassGoesOn(p)
  PROVE  IInv'
<1>1. /\ pass[p].at = "unregistering" /\ endpoint' = None
      /\ pass' = [pass EXCEPT ![p] = [at |-> "idle", dev |-> None]]
      /\ Register(pass[p].dev, StateOf(pass[p].dev), regs, chain)
      /\ UNCHANGED <<kind, value, wanted, faults, marker, timer, flushes, deferred>>
  BY DEF PassGoesOn, device, updates
<1>2. pass \in [Pass -> [at : {"idle", "unregistering"}, dev : Value \cup {None}]]
  BY DEF IInv, TypeOK
<1>3. pass' \in [Pass -> [at : {"idle", "unregistering"}, dev : Value \cup {None}]]
  BY <1>1, <1>2
<1>4. ~Renaming'
  <2>1. pass'[p].at = "idle"
    BY <1>1, <1>2
  <2>2. \A q \in Pass : q = p
    BY DEF OnePass
  <2> QED
    BY <2>1, <2>2 DEF Renaming
<1>5. PICK d : d = pass[p].dev
  OBVIOUS
<1>6. PICK v : v = StateOf(d)
  OBVIOUS
<1>7. d \in Value \cup {None} /\ v \in Value /\ (d = None => v = value')
  BY <1>1, <1>2, <1>5, <1>6 DEF StateOf, IInv, TypeOK
<1>8. IsRegistered
  BY <1>1 DEF Renaming, IInv, Lone
<1>9. /\ regs \in Seq(Reg) /\ chain \in Seq(Chain) /\ Len(chain) = Len(regs)
      /\ timer' \in BOOLEAN /\ value' \in Value /\ faults' \in 0..MaxFaults
  BY <1>1 DEF IInv, TypeOK
<1>10. \A k \in DOMAIN chain : chain[k] = Done
  <2>1. chain[current] = Done
    BY <1>8 DEF IInv, IsRegistered, Sound, Worked
  <2> QED
    BY <2>1 DEF IInv, Lone
<1>11. Shaped'
  BY <1>1, NamedWell
<1>12. Register(d, v, regs, chain)
  BY <1>1, <1>5, <1>6
<1> QED
  BY <1>1, <1>3, <1>4, <1>7, <1>9, <1>10, <1>11, <1>12, RegisterStep

\* The process has started, and nothing is registered yet.
Fresh ==
    /\ kind \in Kinds /\ value \in Value /\ wanted \in Name /\ faults \in 0..MaxFaults
    /\ endpoint \in Endpoint \cup {None} /\ marker \in BOOLEAN /\ Shaped
    /\ timer = FALSE /\ deferred = FALSE
    /\ regs = <<>> /\ current = 0 /\ chain = <<>> /\ flushes = <<>>
    /\ pass = [p \in Pass |-> [at |-> "idle", dev |-> None]]

LEMMA FreshIInv == Fresh => IInv
<1> SUFFICES ASSUME Fresh
             PROVE  IInv
  OBVIOUS
<1>1. pass \in [Pass -> [at : {"idle", "unregistering"}, dev : Value \cup {None}]]
  <2>1. [at |-> "idle", dev |-> None] \in [at : {"idle", "unregistering"}, dev : Value \cup {None}]
    OBVIOUS
  <2> QED
    BY <2>1 DEF Fresh
<1>2. /\ regs \in Seq(Reg) /\ current \in 0..Len(regs)
      /\ chain \in Seq(Chain) /\ Len(chain) = Len(regs)
      /\ flushes \in Seq(Seq([cluster : Cluster, value : Value]))
  BY DEF Fresh
<1>3. TypeOK
  BY <1>1, <1>2 DEF Fresh, TypeOK
<1>4. ~Renaming
  BY DEF Fresh, Renaming
<1>5. Lone /\ Ordered
  BY <1>4 DEF Fresh, Lone, Ordered
<1> QED
  BY <1>3, <1>5 DEF Fresh, IInv

LEMMA RestartStep ==
  ASSUME IInv, Restart
  PROVE  IInv'
<1>1. /\ endpoint' = IF endpoint = None THEN None ELSE [endpoint EXCEPT !.answers = "no"]
      /\ regs' = <<>> /\ current' = 0 /\ chain' = <<>> /\ timer' = FALSE /\ flushes' = <<>>
      /\ pass' = [q \in Pass |-> [at |-> "idle", dev |-> None]] /\ deferred' = FALSE
      /\ UNCHANGED <<kind, value, wanted, faults, marker>>
  BY DEF Restart, device
<1>2. endpoint' \in Endpoint \cup {None} /\ Shaped'
  <2>1. CASE endpoint = None
    BY <1>1, <2>1, NamedWell
  <2>2. CASE endpoint # None
    <3>1. endpoint' = [endpoint EXCEPT !.answers = "no"] /\ endpoint \in Endpoint
      BY <1>1, <2>2 DEF IInv, TypeOK
    <3>2. /\ endpoint' \in Endpoint /\ endpoint'.shape = endpoint.shape
          /\ endpoint'.shows = endpoint.shows
      BY <3>1 DEF Endpoint
    <3> QED
      BY <1>1, <2>2, <3>2, NamedWell DEF IInv, Shaped
  <2> QED
    BY <2>1, <2>2
<1>3. Fresh'
  BY <1>1, <1>2 DEF Fresh, IInv, TypeOK
<1> QED
  BY <1>3, FreshIInv, PTL

-----------------------------------------------------------------------------
(* Results                                                                 *)

LEMMA InitIInv == Init => IInv
<1> SUFFICES ASSUME Init
             PROVE  IInv
  OBVIOUS
<1>1. Shaped
  BY DEF Init, Shaped
<1>2. 0 \in 0..MaxFaults /\ FALSE \in BOOLEAN
  OBVIOUS
<1>3. Fresh
  BY <1>1, <1>2, Zenon DEF Init, Fresh
<1> QED
  BY <1>3, FreshIInv

LEMMA NextIInv ==
  ASSUME OnePass, IInv, [Next]_vars
  PROVE  IInv'
<1>1. CASE \E v \in Value : StatusUpdate(v) \/ Discover(v)
  BY <1>1, StatusUpdateStep, DiscoverStep
<1>2. CASE \E k \in DOMAIN chain : ChainStep(k)
  BY <1>2, ChainSteps
<1>3. CASE \E n \in DOMAIN flushes : PushEnds(n)
  BY <1>3, PushEndsStep
<1>4. CASE \E n \in Name : Displace(n)
  BY <1>4, DisplaceStep
<1>5. CASE \E p \in Pass : PassGoesOn(p) \/ \E n \in Name : StartPass(p, n)
  BY <1>5, PassGoesOnStep, StartPassStep
<1>6. CASE UNCHANGED vars
  <2>1. UNCHANGED <<kind, value, wanted, endpoint, faults, marker, regs, current, chain, timer,
                    flushes, pass, deferred>>
    BY <1>6 DEF vars, device, server, updates
  <2>2. Renaming' = Renaming /\ IsRegistered' = IsRegistered
    BY <2>1 DEF Renaming, IsRegistered
  <2>3. \A r \in Reg, c \in Chain : Known(r, c) => Known(r, c)'
    BY <2>1, <2>2 DEF Known
  <2> QED
    BY <2>1, <2>2, <2>3, NameStep DEF IInv, TypeOK, Lone
<1> QED
  BY <1>1, <1>2, <1>3, <1>4, <1>5, <1>6, ComesUpStep, FlushStep, RestartStep DEF Next

LEMMA Inductive ==
  ASSUME OnePass
  PROVE  Spec => []IInv
<1>1. IInv /\ [Next]_vars => IInv'
  BY NextIInv
<1> QED
  BY <1>1, InitIInv, PTL DEF Spec

\* What the variables are: a chain, a registration and a flush stay within the values of
\* matter-accessory-registry.ts, and there is a chain for each registration.
THEOREM TypeCorrect ==
  ASSUME OnePass
  PROVE  Spec => []TypeOK
<1>1. IInv => TypeOK
  BY DEF IInv
<1> QED
  BY <1>1, Inductive, PTL

\* A registration is worked on by one chain, whatever fails and however often it is
\* recovered or renamed: there is one chain that is not done at all.
THEOREM OneChainWorks ==
  ASSUME OnePass
  PROVE  Spec => []OneChain
<1>1. IInv => OneChain
  <2> SUFFICES ASSUME IInv, NEW j \in DOMAIN chain, NEW k \in DOMAIN chain,
                      j # k, chain[j] # Done
               PROVE  chain[j].reg # chain[k].reg
    BY DEF OneChain
  <2>1. j = current /\ chain[k] = Done
    BY DEF IInv, Lone
  <2>2. current # 0
    BY <2>1 DEF IInv, TypeOK
  <2>3. Worked(regs[current], chain[current])
    BY <2>2 DEF IInv, Sound
  <2>4. chain[j].reg = current
    BY <2>1, <2>3 DEF Worked, IInv, TypeOK, Reg
  <2>5. chain[k].reg = 0
    BY <2>1 DEF Done
  <2> QED
    BY <2>2, <2>4, <2>5
<1> QED
  BY <1>1, Inductive, PTL

\* The fallback store says what the endpoint is stored as, over recoveries, purges and
\* restarts.
THEOREM FallbackRemembered ==
  ASSUME OnePass
  PROVE  Spec => []ShapeRemembered
<1>1. IInv => ShapeRemembered
  <2> SUFFICES ASSUME IInv, endpoint # None
               PROVE  (endpoint.shape = "temperature") = marker
    BY DEF ShapeRemembered
  <2>1. endpoint.shape = Shape /\ (marker => kind = "thermostat") /\ marker \in BOOLEAN
        /\ kind \in {"light", "thermostat"}
    BY DEF IInv, Shaped, TypeOK
  <2> QED
    BY <2>1 DEF Shape
<1> QED
  BY <1>1, Inductive, PTL

\* An endpoint that updates are pushed to is there, has answered, and has their clusters.
THEOREM PushedWhenReady ==
  ASSUME OnePass
  PROVE  Spec => []ReadyWhenRegistered
<1>1. IInv => ReadyWhenRegistered
  <2> SUFFICES ASSUME IInv, IsRegistered
               PROVE  /\ endpoint # None /\ endpoint.answers = "yes"
                      /\ DOMAIN regs[current].pending \subseteq DOMAIN endpoint.shows
    BY DEF ReadyWhenRegistered
  <2>1. Sound(regs[current], chain[current]) /\ regs[current].status = "registered"
    BY DEF IInv, IsRegistered
  <2>2. endpoint # None /\ endpoint.answers = "yes"
    BY <2>1 DEF Sound, Answering
  <2>3. DOMAIN endpoint.shows = ToSet(Clusters(Shape))
    BY <2>2 DEF IInv, Shaped
  <2>4. regs[current].pending = <<>> \/ \E v \in Value : regs[current].pending = Updates(Shape, v)
    BY <2>1 DEF Sound, Owed
  <2>5. \A v \in Value : DOMAIN Updates(Shape, v) = ToSet(Clusters(Shape))
    BY DEF Updates
  <2>6. regs[current].pending = <<>> => DOMAIN regs[current].pending = {}
    OBVIOUS
  <2> QED
    BY <2>2, <2>3, <2>4, <2>5, <2>6
<1> QED
  BY <1>1, Inductive, PTL

\* Once nothing is under way the endpoint has the name it should have, unless the name was
\* taken after the last pass, or the pass came while it was being registered.
THEOREM NameGetsThere ==
  ASSUME OnePass
  PROVE  Spec => []NameArrives
<1>1. IInv => NameArrives
  <2> SUFFICES ASSUME IInv, Settled, IsRegistered, ~deferred
               PROVE  endpoint.name = wanted
    BY DEF NameArrives
  <2>1. Sound(regs[current], chain[current]) /\ regs[current].status = "registered"
    BY DEF IInv, IsRegistered
  <2>2. endpoint # None
    BY <2>1 DEF Sound, Answering
  <2>3. regs[current].liveName = wanted /\ regs[current].liveName # None
    BY <2>1 DEF Sound, Known, Settled
  <2> QED
    BY <2>1, <2>2, <2>3 DEF Sound, Known
<1> QED
  BY <1>1, Inductive, PTL

\* Once nothing is under way the endpoint shows the latest state, whatever came in while it
\* was registered, recovered, renamed or flushed.
THEOREM LatestShown ==
  ASSUME OnePass
  PROVE  Spec => []ShowsLatest
<1>1. IInv => ShowsLatest
  <2> SUFFICES ASSUME IInv, regs[current].dev = None, Settled, IsRegistered,
                      NEW c \in DOMAIN endpoint.shows
               PROVE  endpoint.shows[c] = value
    BY DEF ShowsLatest, ShowsState
  <2>1. /\ Sound(regs[current], chain[current]) /\ Latest(regs[current])
        /\ regs[current].status = "registered"
    BY DEF IInv, IsRegistered
  <2>2. regs[current].pending = <<>>
    BY <2>1 DEF Sound, Owed, Settled
  <2>3. ~Half(flushes)
    BY DEF Half, Settled
  <2> QED
    BY <2>1, <2>2, <2>3 DEF Latest
<1> QED
  BY <1>1, Inductive, PTL

=============================================================================
