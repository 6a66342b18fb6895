--------------------- MODULE CommandDispatcher_proofs ---------------------
(****************************************************************************)
(* Proofs about CommandDispatcher: type correctness, the order of the calls *)
(* of one device, the table of pending commands, and which answers settle   *)
(* which calls.                                                             *)
(****************************************************************************)
EXTENDS CommandDispatcher, TLAPS, FiniteSetTheorems

LEMMA PhaseAfterType ==
    ASSUME TypeOK, NEW c \in Cmd, NEW ok \in BOOLEAN
    PROVE  /\ PhaseAfter(c, ok) \in {"next", "pause", "ok", "failed"}
           /\ PhaseAfter(c, ok) \in Running => step[c] + 1 \in 1..Len(Script[c])
<1>1. step[c] \in 1..Len(Script[c]) /\ step[c] \in Nat /\ Len(Script[c]) \in Nat
  BY ScriptAssumption DEF TypeOK
<1>2. step[c] = Len(Script[c]) => Request(c) # "prime"
  BY ScriptAssumption DEF Request
<1>3. CASE ok
  BY <1>1, <1>2, <1>3 DEF PhaseAfter, Running, InFlight
<1>4. CASE ~ok
  BY <1>1, <1>2, <1>4 DEF PhaseAfter, Running, InFlight
<1> QED
  BY <1>3, <1>4

\* What Return leaves well-typed.
CallTypes ==
    /\ phase \in [Cmd -> Phase]
    /\ step \in [Cmd -> Nat] /\ \A c \in Cmd : step[c] \in 1..Len(Script[c])
    /\ id \in [Cmd -> Id \cup {None}]
    /\ \A c \in Cmd : phase[c] \in InFlight => id[c] \in Id
    /\ pred \in [Cmd -> Cmd \cup {None}]
    /\ order \in [Cmd -> Nat] /\ clock \in Nat

TableTypes ==
    /\ pending \in [Id -> Cmd \cup {None}]
    /\ timer \in [Cmd -> BOOLEAN]
    /\ promise \in [Cmd -> {"none", "open", "ok", "rejected"}]
    /\ ackedBy \in [Cmd -> Answer \cup {None}]

LEMMA ReturnType ==
    ASSUME TypeOK, NEW S \in SUBSET Cmd, NEW ok \in BOOLEAN, Return(S, ok)
    PROVE  CallTypes'
<1>1. phase' \in [Cmd -> Phase]
  BY PhaseAfterType DEF Return, TypeOK, Phase, Settled, Running
<1>2. step' \in [Cmd -> Nat]
  BY DEF Return, TypeOK
<1>3. \A c \in Cmd : step'[c] \in 1..Len(Script[c])
  BY PhaseAfterType DEF Return, TypeOK
<1>4. \A c \in Cmd : phase'[c] \in InFlight => id'[c] \in Id
  BY PhaseAfterType DEF Return, TypeOK, InFlight
<1> QED
  BY <1>1, <1>2, <1>3, <1>4 DEF Return, TypeOK, CallTypes

LEMMA FinallyType ==
    ASSUME TypeOK, Finally
    PROVE  tail' \in [Device -> Cmd \cup {None}]
BY DEF TypeOK, Finally

LEMMA RejectAllType ==
    ASSUME TypeOK, RejectAll
    PROVE  CallTypes' /\ TableTypes'
<1> DEFINE S == {pending[i] : i \in Id} \ {None}
<1>1. Waiting(S) \in SUBSET Cmd
  BY DEF TypeOK, Waiting
<1>2. CallTypes'
  BY <1>1, ReturnType DEF RejectAll
<1>3. timer' \in [Cmd -> BOOLEAN]
  BY Zenon DEF RejectAll, TypeOK
<1> QED
  BY <1>2, <1>3 DEF RejectAll, TypeOK, TableTypes

LEMMA ClearType ==
    ASSUME TypeOK, NEW i \in Id, Clear(i)
    PROVE  pending' \in [Id -> Cmd \cup {None}] /\ timer' \in [Cmd -> BOOLEAN]
<1>1. timer' \in [Cmd -> BOOLEAN]
  BY Zenon DEF Clear, TypeOK
<1> QED
  BY <1>1 DEF Clear, TypeOK

\* TypeOK in the parts the lemmas above establish.
LEMMA TypeParts ==
    TypeOK <=> /\ CallTypes /\ TableTypes
               /\ tail \in [Device -> Cmd \cup {None}]
               /\ link \in {"open", "closing", "down"}
               /\ owed \in SUBSET Answer
               /\ \A o \in owed : o.step \in 1..Len(Script[o.cmd])
               /\ orphaned \in SUBSET Cmd
BY DEF TypeOK, CallTypes, TableTypes

LEMMA TypeInit == Init => TypeOK
BY ScriptAssumption DEF Init, TypeOK, Phase, InFlight, Answer

LEMMA TypeNext == TypeOK /\ [Next]_vars => TypeOK'
<1> SUFFICES ASSUME TypeOK, [Next]_vars PROVE TypeOK'
  OBVIOUS
<1>a. TypeOK'
          <=> /\ CallTypes' /\ TableTypes'
              /\ tail' \in [Device -> Cmd \cup {None}]
              /\ link' \in {"open", "closing", "down"}
              /\ owed' \in SUBSET Answer
              /\ \A o \in owed' : o.step \in 1..Len(Script[o.cmd])
              /\ orphaned' \in SUBSET Cmd
  BY DEF TypeOK, CallTypes, TableTypes
<1>b. CallTypes /\ TableTypes
  BY TypeParts
<1>1. ASSUME NEW c \in Cmd, Call(c) PROVE TypeOK'
  <2>1. CallTypes'
    <3>1. pred' \in [Cmd -> Cmd \cup {None}]
      BY <1>1, DeviceAssumption DEF Call, TypeOK, ChainTo
    <3>2. phase' \in [Cmd -> Phase] /\ order' \in [Cmd -> Nat] /\ clock' \in Nat
      BY <1>1 DEF Call, TypeOK, Phase
    <3>3. \A e \in Cmd : phase'[e] \in InFlight => phase[e] \in InFlight
      BY <1>1 DEF Call, TypeOK, InFlight
    <3> QED
      BY <1>1, <3>1, <3>2, <3>3 DEF Call, TypeOK, CallTypes
  <2>2. tail' \in [Device -> Cmd \cup {None}]
    BY <1>1, DeviceAssumption DEF Call, TypeOK
  <2> QED
    BY <2>1, <2>2, <1>1 DEF Call, TypeOK, CallTypes, tableVars
<1>2. ASSUME NEW c \in Cmd, NEW i \in Id, Issue(c, i) PROVE TypeOK'
  <2>1. CallTypes'
    BY <1>2 DEF Issue, TypeOK, CallTypes, Phase, InFlight, Running, lineVars
  <2>2. TableTypes'
    <3>1. CASE Awaits(Request(c))
      <4>1. timer' \in [Cmd -> BOOLEAN]
        BY <1>2, <3>1, Zenon DEF Issue, TypeOK, Register
      <4>2. pending' \in [Id -> Cmd \cup {None}]
        BY <1>2, <3>1 DEF Issue, TypeOK, Register
      <4>3. promise' \in [Cmd -> {"none", "open", "ok", "rejected"}]
        BY <1>2, <3>1 DEF Issue, TypeOK, Register
      <4> QED
        BY <4>1, <4>2, <4>3, <1>2 DEF Issue, TypeOK, TableTypes
    <3>2. CASE ~Awaits(Request(c))
      BY <1>2, <3>2 DEF Issue, TypeOK, TableTypes
    <3> QED
      BY <3>1, <3>2
  <2>3. owed' \in SUBSET Answer /\ \A o \in owed' : o.step \in 1..Len(Script[o.cmd])
    BY <1>2 DEF Issue, TypeOK, Answer
  <2> QED
    BY <2>1, <2>2, <2>3, <1>2, <1>a DEF Issue, TypeOK, lineVars
<1>3. ASSUME NEW c \in Cmd, IssueFails(c) PROVE TypeOK'
  BY <1>3, <1>a, <1>b, ReturnType, FinallyType
     DEF IssueFails, Finish, TypeOK, TableTypes, tableVars
<1>4. ASSUME NEW c \in Cmd, SkipPrime(c) PROVE TypeOK'
  BY <1>4, <1>a, <1>b, ReturnType, FinallyType
     DEF SkipPrime, Finish, TypeOK, TableTypes, tableVars
<1>5. ASSUME NEW c \in Cmd, SendDone(c) PROVE TypeOK'
  <2>0. id[c] \in Id
    BY <1>5 DEF SendDone, TypeOK, InFlight
  <2>1. CASE promise[c] = "open"
    <3>1. phase' = [phase EXCEPT ![c] = "waiting"]
          /\ UNCHANGED <<step, id, lineVars, tableVars, link, owed>>
      BY <1>5, <2>1 DEF SendDone, tableVars
    <3>2. CallTypes'
      BY <3>1, <2>0 DEF TypeOK, CallTypes, Phase, InFlight, Running, lineVars
    <3> QED
      BY <3>1, <3>2, <1>a DEF TypeOK, TableTypes, lineVars, tableVars
  <2>2. CASE promise[c] = "rejected"
    <3>1. Clear(id[c]) /\ Finish({c}, FALSE) /\ UNCHANGED <<promise, ackedBy, link, owed>>
      BY <1>5, <2>2 DEF SendDone
    <3> QED
      BY <3>1, <2>0, <1>a, <1>b, ReturnType, FinallyType, ClearType
         DEF Finish, TypeOK, TableTypes
  <2>3. CASE promise[c] \notin {"open", "rejected"}
    <3>1. Finish({c}, TRUE) /\ UNCHANGED <<tableVars, link, owed>>
      BY <1>5, <2>3 DEF SendDone, tableVars
    <3> QED
      BY <3>1, <1>a, <1>b, ReturnType, FinallyType
         DEF Finish, TypeOK, TableTypes, tableVars
  <2> QED
    BY <2>1, <2>2, <2>3
<1>6. ASSUME NEW c \in Cmd, SendFail(c) PROVE TypeOK'
  <2>0. id[c] \in Id
    BY <1>6 DEF SendFail, TypeOK, InFlight
  <2> QED
    BY <1>6, <2>0, <1>a, <1>b, ReturnType, FinallyType, ClearType
       DEF SendFail, Finish, TypeOK, TableTypes
<1>7. ASSUME NEW c \in Cmd, TimeOut(c) PROVE TypeOK'
  <2>1. CallTypes'
    BY <1>7, ReturnType DEF TimeOut, Finish, Waiting
  <2>2. TableTypes'
    BY <1>7 DEF TimeOut, TypeOK, TableTypes
  <2> QED
    BY <2>1, <2>2, <1>7, <1>a, FinallyType DEF TimeOut, Finish, TypeOK
<1>8. ASSUME NEW o \in owed, NEW i \in Id, Receive(o, i) PROVE TypeOK'
  <2> DEFINE S == Targets(i, AnswerTo[Script[o.cmd][o.step]])
  <2>1. S \in SUBSET Cmd
    BY DEF Targets, Compatible, Sole, TypeOK
  <2>2. CallTypes'
    BY <1>8, <2>1, ReturnType DEF Receive, Finish, Waiting
  <2>3. timer' \in [Cmd -> BOOLEAN]
    BY <1>8, Zenon DEF Receive, TypeOK
  <2>4. TableTypes'
    BY <1>8, <2>3 DEF Receive, TypeOK, TableTypes
  <2> QED
    BY <2>2, <2>4, <1>8, <1>a, FinallyType DEF Receive, Finish, TypeOK
<1>9. CASE LinkCloses
  BY <1>9 DEF LinkCloses, TypeOK, callVars, lineVars, tableVars
<1>10. CASE CloseEvent
  BY <1>10, <1>a, RejectAllType, FinallyType DEF CloseEvent, TypeOK
<1>11. CASE ForceReconnect
  BY <1>11, <1>a, RejectAllType, FinallyType DEF ForceReconnect, TypeOK
<1>12. CASE Disconnect
  BY <1>12, <1>a, RejectAllType DEF Disconnect, TypeOK
<1>13. CASE Reopen
  BY <1>13 DEF Reopen, TypeOK, callVars, lineVars, tableVars
<1>14. CASE UNCHANGED vars
  BY <1>14 DEF vars, TypeOK, callVars, lineVars, tableVars
<1> QED
  BY <1>1, <1>2, <1>3, <1>4, <1>5, <1>6, <1>7, <1>8, <1>9, <1>10, <1>11, <1>12,
     <1>13, <1>14 DEF Next, CallStep

\* The state of the dispatcher is well-formed whatever calls are made, whatever
\* ids are drawn and whatever the panel answers: no call runs off its script, and
\* a request on the wire has an id.
THEOREM TypeCorrect == Spec => []TypeOK
BY TypeInit, TypeNext, PTL DEF Spec
-----------------------------------------------------------------------------
\* The order of the calls of one device.  DeviceFifo is not inductive: one needs
\* that the calls chained behind a call are those made after it, and that the map
\* holds the last of them.
Front(c) == \A e \in Cmd : ~Ahead(e, c)

Numbered ==
    /\ \A c \in orphaned : phase[c] # "new"
    /\ \A c \in Cmd : order[c] <= clock /\ (Active(c) => order[c] < clock)
    /\ \A c, e \in Cmd : Active(c) /\ Active(e) /\ order[c] = order[e] => c = e

\* A queued call is chained to the last of the calls ahead of it.
Chained ==
    \A c, e \in Cmd : phase[c] = "queued" /\ Ahead(e, c) =>
        /\ pred[c] \in Cmd /\ Active(pred[c])
        /\ pred[c] \notin orphaned /\ DeviceOf[pred[c]] = DeviceOf[c]
        /\ order[e] <= order[pred[c]]

\* commandQueues holds the last unfinished call of a device.
TailIsLast ==
    \A e \in Cmd : Active(e) /\ DeviceOf[e] \in Device /\ e \notin orphaned =>
        \E t \in Cmd : /\ tail[DeviceOf[e]] = t
                      /\ Active(t)
                      /\ t \notin orphaned /\ DeviceOf[t] = DeviceOf[e]
                      /\ order[e] <= order[t]

Chain == Numbered /\ Chained /\ TailIsLast /\ DeviceFifo

LEMMA RunnersInFront ==
    ASSUME TypeOK, Chain, NEW c \in Cmd
    PROVE  /\ phase[c] \in Running => Active(c) /\ Front(c)
           /\ Ready(c) => Active(c) /\ Front(c)
<1>1. phase[c] \in Running => Active(c) /\ Front(c)
  BY DEF Chain, DeviceFifo, Front, Active
<1>2. ASSUME Ready(c) PROVE Active(c) /\ Front(c)
  <2>1. phase[c] = "queued" /\ Active(c)
    BY <1>2 DEF Ready, Active
  <2>2. ASSUME NEW e \in Cmd, Ahead(e, c) PROVE FALSE
    <3>1. pred[c] \in Cmd /\ Active(pred[c])
      BY <2>1, <2>2 DEF Chain, Chained
    <3>2. phase[pred[c]] \in Settled
      BY <1>2, <3>1, NoneAssumption DEF Ready
    <3> QED
      BY <3>1, <3>2 DEF Active, Settled, Running, InFlight
  <2> QED
    BY <2>1, <2>2 DEF Front
<1> QED
  BY <1>1, <1>2

\* Every step but Call and Disconnect moves only calls that are in front.
LEMMA FrontStep ==
    ASSUME TypeOK, Chain,
           UNCHANGED <<pred, order, clock, orphaned>>,
           \A c \in Cmd : \/ phase'[c] = phase[c]
                          \/ /\ Active(c) /\ Front(c)
                             /\ phase'[c] \in Running \cup Settled,
           \A d \in Device : \/ tail'[d] = tail[d]
                             \/ tail[d] \in Cmd /\ phase'[tail[d]] \in Settled
    PROVE  Chain'
<1>1. \A c \in Cmd : Active(c)' => Active(c)
  BY DEF Active
<1>2. \A c, e \in Cmd : Ahead(e, c)' => Ahead(e, c)
  BY <1>1 DEF Ahead
<1>3. \A c \in Cmd : phase'[c] \in Settled => ~Active(c)'
  BY DEF Active, Settled, Running, InFlight
<1>4. Numbered'
  BY <1>1 DEF Chain, Numbered, TypeOK, Running, InFlight, Settled
<1>5. DeviceFifo'
  <2> SUFFICES ASSUME NEW c \in Cmd, NEW e \in Cmd, phase'[c] \in Running, Ahead(e, c)'
               PROVE  FALSE
    BY DEF DeviceFifo
  <2>1. Ahead(e, c)
    BY <1>2
  <2>2. Front(c)
    BY RunnersInFront
  <2> QED
    BY <2>1, <2>2 DEF Front
<1>6. Chained'
  <2> SUFFICES ASSUME NEW c \in Cmd, NEW e \in Cmd, phase'[c] = "queued", Ahead(e, c)'
               PROVE  /\ pred[c] \in Cmd /\ Active(pred[c])'
                      /\ pred[c] \notin orphaned /\ DeviceOf[pred[c]] = DeviceOf[c]
                      /\ order[e] <= order[pred[c]]
    BY DEF Chained
  <2> DEFINE p == pred[c]
  <2>1. Ahead(e, c) /\ phase[c] = "queued"
    BY <1>2 DEF Running, InFlight, Settled
  <2>2. /\ p \in Cmd /\ Active(p) /\ p \notin orphaned /\ DeviceOf[p] = DeviceOf[c]
        /\ order[e] <= order[p]
    BY <2>1 DEF Chain, Chained
  <2>3. ASSUME ~Active(p)' PROVE FALSE
    <3>1. Front(p)
      BY <2>2, <2>3 DEF Active
    <3>2. ~Ahead(e, p)
      BY <3>1 DEF Front
    <3>3. Active(e) /\ Active(e)' /\ e # p
      BY <2>1, <2>3 DEF Ahead
    <3>4. order[e] # order[p]
      BY <3>3, <2>2 DEF Chain, Numbered
    <3>5. order[e] < order[p]
      BY <3>4, <2>2 DEF TypeOK
    <3> QED
      BY <3>2, <3>5, <2>1, <2>2 DEF Ahead
  <2> QED
    BY <2>2, <2>3
<1>7. TailIsLast'
  <2> SUFFICES ASSUME NEW e \in Cmd, Active(e)', DeviceOf[e] \in Device, e \notin orphaned
               PROVE  \E t \in Cmd : /\ tail'[DeviceOf[e]] = t
                                    /\ Active(t)'
                                    /\ t \notin orphaned /\ DeviceOf[t] = DeviceOf[e]
                                    /\ order[e] <= order[t]
    BY DEF TailIsLast
  <2>0. Active(e)
    BY <1>1
  <2>1. PICK t \in Cmd : /\ tail[DeviceOf[e]] = t
                        /\ Active(t)
                        /\ t \notin orphaned /\ DeviceOf[t] = DeviceOf[e]
                        /\ order[e] <= order[t]
    BY <2>0 DEF Chain, TailIsLast
  <2>2. ASSUME ~Active(t)' PROVE FALSE
    <3>1. Front(t) /\ e # t
      BY <2>1, <2>2 DEF Active
    <3>2. order[e] # order[t]
      BY <3>1, <2>0, <2>1 DEF Chain, Numbered
    <3>3. order[e] < order[t]
      BY <3>2, <2>1 DEF TypeOK
    <3> QED
      BY <3>1, <3>3, <2>0, <2>1 DEF Ahead, Front
  <2>3. tail'[DeviceOf[e]] = t
    BY <2>1, <2>2, <1>3
  <2> QED
    BY <2>1, <2>2, <2>3
<1> QED
  BY <1>4, <1>5, <1>6, <1>7 DEF Chain

\* The calls a Finish moves are running ones, or the one call c that may run.
LEMMA ReturnMoves ==
    ASSUME TypeOK, NEW S \in SUBSET Cmd, NEW ok \in BOOLEAN, Return(S, ok)
    PROVE  \A c \in Cmd : \/ phase'[c] = phase[c]
                          \/ c \in S /\ phase'[c] \in Running \cup Settled
BY PhaseAfterType DEF Return, Running, Settled

LEMMA FinishStep ==
    ASSUME TypeOK, Chain, NEW S \in SUBSET Cmd, NEW ok \in BOOLEAN, Finish(S, ok),
           \A c \in S : Active(c) /\ Front(c)
    PROVE  Chain'
<1>1. \A c \in Cmd : \/ phase'[c] = phase[c]
                     \/ /\ Active(c) /\ Front(c)
                        /\ phase'[c] \in Running \cup Settled
  BY ReturnMoves DEF Finish
<1>2. \A d \in Device : \/ tail'[d] = tail[d]
                        \/ tail[d] \in Cmd /\ phase'[tail[d]] \in Settled
  BY DEF Finish, Finally, TypeOK
<1> QED
  BY <1>1, <1>2, FrontStep DEF Finish, Return

LEMMA SameLines ==
    ASSUME TypeOK, Chain, UNCHANGED <<phase, lineVars>>
    PROVE  Chain'
BY DEF lineVars, Chain, Numbered, Chained, TailIsLast, DeviceFifo, Ahead, Active

LEMMA CallStepsChain ==
    ASSUME TypeOK, Chain, NEW c \in Cmd, Call(c)
    PROVE  Chain'
<1>1. /\ phase[c] = "new" /\ ~Active(c)
      /\ phase' = [phase EXCEPT ![c] = "queued"]
      /\ pred' = [pred EXCEPT ![c] = ChainTo(c)]
      /\ order' = [order EXCEPT ![c] = clock]
      /\ clock' = clock + 1 /\ orphaned' = orphaned
  BY DEF Call, Active, Running, InFlight
<1>2. Active(c)' /\ order'[c] = clock
  BY <1>1 DEF Active, TypeOK
<1>3. \A e \in Cmd : e # c => /\ Active(e)' <=> Active(e)
                            /\ order'[e] = order[e] /\ pred'[e] = pred[e]
                            /\ phase'[e] = phase[e]
  BY <1>1 DEF Active, TypeOK
<1>4. \A e \in Cmd : e # c /\ Active(e) => order[e] < clock /\ order[e] \in Nat
  BY DEF Chain, Numbered, TypeOK
<1>12. \A e \in Cmd : order[e] <= clock /\ order[e] \in Nat /\ clock \in Nat
  BY DEF Chain, Numbered, TypeOK
<1>5. \A e \in Cmd : ~Ahead(c, e)'
  <2> SUFFICES ASSUME NEW e \in Cmd, Ahead(c, e)' PROVE FALSE
    OBVIOUS
  <2>1. CASE e = c
    BY <2>1, <1>2 DEF Ahead, TypeOK
  <2>2. CASE e # c
    BY <2>2, <1>2, <1>3, <1>12 DEF Ahead
  <2> QED
    BY <2>1, <2>2
<1>6. \A e, f \in Cmd : f # c /\ Ahead(e, f)' => e # c /\ Ahead(e, f)
  BY <1>1, <1>3, <1>5 DEF Ahead
<1>7. Numbered'
  BY <1>1, <1>2, <1>3, <1>4, <1>12 DEF Chain, Numbered, TypeOK
<1>8. DeviceFifo'
  BY <1>1, <1>3, <1>6 DEF Chain, DeviceFifo, TypeOK, Running, InFlight
<1>9. \A e \in Cmd : Active(e) /\ DeviceOf[e] \in Device /\ e \notin orphaned =>
         \E t \in Cmd : /\ tail[DeviceOf[e]] = t
                       /\ Active(t)
                       /\ t \notin orphaned /\ DeviceOf[t] = DeviceOf[e]
                       /\ order[e] <= order[t]
  BY DEF Chain, TailIsLast
<1>10. Chained'
  <2> SUFFICES ASSUME NEW f \in Cmd, NEW e \in Cmd, phase'[f] = "queued", Ahead(e, f)'
               PROVE  /\ pred'[f] \in Cmd /\ Active(pred[f])'
                      /\ pred'[f] \notin orphaned /\ DeviceOf[pred'[f]] = DeviceOf[f]
                      /\ order'[e] <= order'[pred'[f]]
    BY <1>1 DEF Chained
  <2>1. CASE f # c
    <3>1. e # c /\ Ahead(e, f) /\ phase[f] = "queued" /\ pred'[f] = pred[f]
      BY <2>1, <1>3, <1>6
    <3>2. PICK p \in Cmd : /\ pred[f] = p /\ Active(p)
                          /\ p \notin orphaned /\ DeviceOf[p] = DeviceOf[f]
                          /\ order[e] <= order[p]
      BY <3>1 DEF Chain, Chained
    <3>3. p # c /\ Active(p)' /\ order'[p] = order[p] /\ order'[e] = order[e]
      BY <3>1, <3>2, <1>1, <1>3
    <3>4. Active(pred[f])' <=> Active(p)'
      BY <3>1, <3>2 DEF Active
    <3> QED
      BY <3>1, <3>2, <3>3, <3>4
  <2>2. CASE f = c
    <3>1. e # c /\ Active(e) /\ DeviceOf[e] = DeviceOf[c] /\ DeviceOf[c] \in Device
          /\ e \notin orphaned /\ order'[e] = order[e]
      BY <2>2, <1>1, <1>3, <1>5 DEF Ahead
    <3>2. PICK t \in Cmd : /\ tail[DeviceOf[c]] = t
                          /\ Active(t)
                          /\ t \notin orphaned /\ DeviceOf[t] = DeviceOf[c]
                          /\ order[e] <= order[t]
      BY <3>1, <1>9
    <3>3. t # c /\ Active(t)' /\ order'[t] = order[t]
      BY <3>2, <1>1, <1>3
    <3>4. pred'[c] = t
      BY <3>1, <3>2, <1>1, NoneAssumption DEF ChainTo, TypeOK
    <3>5. Active(pred[c])' <=> Active(t)'
      BY <3>4 DEF Active
    <3> QED
      BY <2>2, <3>1, <3>2, <3>3, <3>4, <3>5
  <2> QED
    BY <2>1, <2>2
<1>11. TailIsLast'
  <2> SUFFICES ASSUME NEW e \in Cmd, Active(e)', DeviceOf[e] \in Device, e \notin orphaned
               PROVE  \E t \in Cmd : /\ tail'[DeviceOf[e]] = t
                                    /\ Active(t)'
                                    /\ t \notin orphaned /\ DeviceOf[t] = DeviceOf[e]
                                    /\ order'[e] <= order'[t]
    BY <1>1 DEF TailIsLast
  <2>1. CASE DeviceOf[e] = DeviceOf[c]
    <3>1. tail'[DeviceOf[e]] = c
      BY <2>1, NoneAssumption DEF Call, TypeOK
    <3>2. order'[e] <= order'[c]
      BY <1>2, <1>3, <1>4 DEF TypeOK
    <3>3. c \notin orphaned
      BY <1>1 DEF Chain, Numbered
    <3> QED
      BY <2>1, <3>1, <3>2, <3>3, <1>2
  <2>2. CASE DeviceOf[e] # DeviceOf[c]
    <3>1. e # c /\ Active(e) /\ order'[e] = order[e]
      BY <2>2, <1>3
    <3>2. PICK t \in Cmd : /\ tail[DeviceOf[e]] = t
                          /\ Active(t)
                          /\ t \notin orphaned /\ DeviceOf[t] = DeviceOf[e]
                          /\ order[e] <= order[t]
      BY <3>1, <1>9
    <3>3. t # c /\ Active(t)' /\ order'[t] = order[t]
      BY <3>2, <1>1, <1>3
    <3>4. tail'[DeviceOf[e]] = tail[DeviceOf[e]]
      BY <2>2, DeviceAssumption DEF Call, TypeOK
    <3> QED
      BY <3>1, <3>2, <3>3, <3>4
  <2> QED
    BY <2>1, <2>2
<1> QED
  BY <1>7, <1>8, <1>10, <1>11 DEF Chain

LEMMA ChainInit == Init => Chain
BY DEF Init, Chain, Numbered, Chained, TailIsLast, DeviceFifo, Active, Running,
       InFlight

LEMMA WaitingInFront ==
    ASSUME TypeOK, Chain, NEW S
    PROVE  Waiting(S) \subseteq S /\ \A c \in Waiting(S) \cap Cmd : Active(c) /\ Front(c)
<1>1. \A c \in Waiting(S) : phase[c] \in Running
  BY DEF Waiting, Running, InFlight
<1> QED
  BY <1>1, RunnersInFront DEF Waiting

LEMMA RejectAllMoves ==
    ASSUME TypeOK, Chain, RejectAll
    PROVE  /\ UNCHANGED <<pred, order, clock>>
           /\ \A c \in Cmd : \/ phase'[c] = phase[c]
                            \/ /\ Active(c) /\ Front(c)
                               /\ phase'[c] \in Running \cup Settled
<1> DEFINE S == {pending[i] : i \in Id} \ {None}
<1>1. S \in SUBSET Cmd /\ Waiting(S) \in SUBSET Cmd
  BY DEF TypeOK, Waiting
<1>2. Return(Waiting(S), FALSE)
  BY DEF RejectAll
<1>3. \A c \in Cmd : \/ phase'[c] = phase[c]
                     \/ c \in Waiting(S) /\ phase'[c] \in Running \cup Settled
  BY <1>1, <1>2, ReturnMoves
<1> QED
  BY <1>1, <1>2, <1>3, WaitingInFront DEF Return

LEMMA ChainNext == TypeOK /\ Chain /\ [Next]_vars => Chain'
<1> SUFFICES ASSUME TypeOK, Chain, [Next]_vars PROVE Chain'
  OBVIOUS
<1>0. ASSUME NEW c \in Cmd, CanRun(c) \/ phase[c] = "sending"
      PROVE  Active(c) /\ Front(c)
  BY <1>0, RunnersInFront DEF CanRun, Running, InFlight
<1>16. ASSUME NEW c \in Cmd, NEW ok \in BOOLEAN, CanRun(c) \/ phase[c] = "sending",
              Finish({c}, ok)
       PROVE  Chain'
  BY <1>0, <1>16, FinishStep
<1>1. ASSUME NEW c \in Cmd, Call(c) PROVE Chain'
  BY <1>1, CallStepsChain
<1>2. ASSUME NEW c \in Cmd, NEW i \in Id, Issue(c, i) PROVE Chain'
  <2>1. Active(c) /\ Front(c)
    BY <1>0, <1>2 DEF Issue
  <2>2. UNCHANGED lineVars /\ phase' = [phase EXCEPT ![c] = "sending"]
    BY <1>2 DEF Issue
  <2>3. \A e \in Cmd : \/ phase'[e] = phase[e]
                       \/ /\ Active(e) /\ Front(e)
                          /\ phase'[e] \in Running \cup Settled
    BY <2>1, <2>2 DEF TypeOK, Running, InFlight
  <2> QED
    BY <2>2, <2>3, FrontStep DEF lineVars
<1>3. ASSUME NEW c \in Cmd, IssueFails(c) PROVE Chain'
  BY <1>16, <1>3 DEF IssueFails
<1>4. ASSUME NEW c \in Cmd, SkipPrime(c) PROVE Chain'
  BY <1>16, <1>4 DEF SkipPrime
<1>5. ASSUME NEW c \in Cmd, SendDone(c) PROVE Chain'
  <2>0. Active(c) /\ Front(c)
    BY <1>0, <1>5 DEF SendDone
  <2>1. CASE promise[c] = "open"
    <3>1. phase' = [phase EXCEPT ![c] = "waiting"] /\ UNCHANGED lineVars
      BY <1>5, <2>1 DEF SendDone
    <3>2. \A e \in Cmd : \/ phase'[e] = phase[e]
                         \/ /\ Active(e) /\ Front(e)
                            /\ phase'[e] \in Running \cup Settled
      BY <2>0, <3>1 DEF TypeOK, Running, InFlight
    <3> QED
      BY <3>1, <3>2, FrontStep DEF lineVars
  <2>2. CASE promise[c] # "open"
    <3>1. PICK ok \in BOOLEAN : Finish({c}, ok)
      BY <1>5, <2>2 DEF SendDone
    <3> QED
      BY <2>0, <3>1, FinishStep
  <2> QED
    BY <2>1, <2>2
<1>6. ASSUME NEW c \in Cmd, SendFail(c) PROVE Chain'
  BY <1>16, <1>6 DEF SendFail
<1>7. ASSUME NEW c \in Cmd, TimeOut(c) PROVE Chain'
  <2>1. Finish(Waiting({c}), FALSE) /\ Waiting({c}) \in SUBSET Cmd
    BY <1>7 DEF TimeOut, Waiting
  <2> QED
    BY <2>1, WaitingInFront, FinishStep
<1>8. ASSUME NEW o \in owed, NEW i \in Id, Receive(o, i) PROVE Chain'
  <2> DEFINE S == Targets(i, AnswerTo[Script[o.cmd][o.step]])
  <2>1. Waiting(S) \in SUBSET Cmd
    BY DEF Targets, Compatible, Sole, TypeOK, Waiting
  <2>2. Finish(Waiting(S), TRUE)
    BY <1>8 DEF Receive
  <2> QED
    BY <2>1, <2>2, WaitingInFront, FinishStep
<1>9. CASE LinkCloses
  BY <1>9, SameLines DEF LinkCloses, callVars
<1>10. ASSUME RejectAll, Finally, UNCHANGED orphaned PROVE Chain'
  <2>1. \A d \in Device : \/ tail'[d] = tail[d]
                          \/ tail[d] \in Cmd /\ phase'[tail[d]] \in Settled
    BY <1>10 DEF Finally, TypeOK
  <2> QED
    BY <1>10, <2>1, RejectAllMoves, FrontStep
<1>11. CASE CloseEvent
  BY <1>10, <1>11 DEF CloseEvent
<1>12. CASE ForceReconnect
  BY <1>10, <1>12 DEF ForceReconnect
<1>13. CASE Disconnect
  \* Every unfinished call is orphaned; only the numbers are left to show.
  <2>1. /\ UNCHANGED <<pred, order, clock>>
        /\ \A c \in Cmd : \/ phase'[c] = phase[c]
                         \/ /\ Active(c) /\ Front(c)
                            /\ phase'[c] \in Running \cup Settled
    BY <1>13, RejectAllMoves DEF Disconnect
  <2>2. orphaned' = {c \in Cmd : phase[c] # "new"}
    BY <1>13 DEF Disconnect
  <2>3. \A c \in Cmd : Active(c)' => Active(c) /\ c \in orphaned'
    BY <2>1, <2>2 DEF Active, Running, InFlight
  <2>4. Numbered'
    BY <2>1, <2>2, <2>3 DEF Chain, Numbered, TypeOK, Running, InFlight, Settled
  <2>5. \A c, e \in Cmd : ~Ahead(e, c)'
    BY <2>3 DEF Ahead
  <2> QED
    BY <2>3, <2>4, <2>5 DEF Chain, Chained, TailIsLast, DeviceFifo
<1>14. CASE Reopen
  BY <1>14, SameLines DEF Reopen, callVars
<1>15. CASE UNCHANGED vars
  BY <1>15, SameLines DEF vars, callVars
<1> QED
  BY <1>1, <1>2, <1>3, <1>4, <1>5, <1>6, <1>7, <1>8, <1>9, <1>11, <1>12, <1>13,
     <1>14, <1>15 DEF Next, CallStep

\* The calls of a device run one at a time and in the order they were made, for
\* any number of calls and devices, any ids and any answers of the panel.
THEOREM FifoCorrect == Spec => []DeviceFifo
<1>1. Init => TypeOK /\ Chain
  BY TypeInit, ChainInit
<1>2. TypeOK /\ Chain /\ [Next]_vars => (TypeOK /\ Chain)'
  BY TypeNext, ChainNext
<1>3. Chain => DeviceFifo
  BY DEF Chain
<1> QED
  BY <1>1, <1>2, <1>3, PTL DEF Spec
-----------------------------------------------------------------------------
\* EntryIsLive is inductive together with the types.  A step keeps it when it
\* keeps the entries that are left and does not move the calls that own them.
LEMMA EntriesKept ==
    ASSUME TypeOK, EntryIsLive,
           \A i \in Id, c \in Cmd : pending'[i] = c =>
                /\ pending[i] = c
                /\ phase'[c] \in InFlight /\ id'[c] = id[c]
                /\ timer'[c] = timer[c] /\ promise'[c] = promise[c]
    PROVE  EntryIsLive'
BY DEF EntryIsLive

LEMMA FinishKeeps ==
    ASSUME NEW S, NEW ok, Finish(S, ok) \/ Return(S, ok)
    PROVE  \A c \in Cmd : c \notin S => phase'[c] = phase[c] /\ id'[c] = id[c]
BY DEF Finish, Return

LEMMA ClearKeeps ==
    ASSUME TypeOK, EntryIsLive, NEW d \in Cmd, id[d] \in Id, Clear(id[d])
    PROVE  \A i \in Id, c \in Cmd : pending'[i] = c =>
              /\ pending[i] = c /\ c # d /\ timer'[c] = timer[c]
<1> SUFFICES ASSUME NEW i \in Id, NEW c \in Cmd, pending'[i] = c
             PROVE  pending[i] = c /\ c # d /\ timer'[c] = timer[c]
  OBVIOUS
<1>1. i # id[d] /\ pending[i] = c
  BY NoneAssumption DEF Clear, TypeOK
<1>2. c # d /\ pending[id[d]] # c
  BY <1>1 DEF EntryIsLive
<1>3. timer[c] \in BOOLEAN /\ timer'[c] = (timer[c] /\ pending[id[d]] # c)
  BY DEF Clear, TypeOK
<1> QED
  BY <1>1, <1>2, <1>3

LEMMA RejectAllEmpties ==
    ASSUME TypeOK, RejectAll
    PROVE  EntryIsLive'
BY NoneAssumption DEF RejectAll, EntryIsLive

LEMMA EntryNext == TypeOK /\ EntryIsLive /\ [Next]_vars => EntryIsLive'
<1> SUFFICES ASSUME TypeOK, EntryIsLive, [Next]_vars PROVE EntryIsLive'
  OBVIOUS
<1>0. \A i \in Id, c \in Cmd : pending[i] = c =>
         phase[c] \in InFlight /\ id[c] = i /\ timer[c] /\ promise[c] = "open"
  BY DEF EntryIsLive
<1>1. ASSUME NEW c \in Cmd, Call(c) PROVE EntryIsLive'
  BY <1>1, EntriesKept, <1>0 DEF Call, tableVars, TypeOK, InFlight
<1>2. ASSUME NEW c \in Cmd, NEW i \in Id, Issue(c, i) PROVE EntryIsLive'
  <2>1. phase[c] \notin InFlight
    BY <1>2 DEF Issue, CanRun, Ready, InFlight
  <2>2. phase' = [phase EXCEPT ![c] = "sending"] /\ id' = [id EXCEPT ![c] = i]
    BY <1>2 DEF Issue
  <2>3. CASE Awaits(Request(c))
    <3>1. /\ pending' = [pending EXCEPT ![i] = c]
          /\ timer' = [timer EXCEPT ![c] = TRUE]
          /\ promise' = [promise EXCEPT ![c] = "open"]
      BY <1>2, <2>3 DEF Issue, Register
    <3> SUFFICES ASSUME NEW j \in Id, NEW e \in Cmd, pending'[j] = e
                 PROVE  /\ phase'[e] \in InFlight /\ id'[e] = j
                        /\ timer'[e] /\ promise'[e] = "open"
      BY DEF EntryIsLive
    <3>2. CASE j = i
      BY <3>1, <3>2, <2>2 DEF TypeOK, InFlight
    <3>3. CASE j # i
      <4>1. pending[j] = e /\ e # c
        BY <3>1, <3>3, <2>1, <1>0 DEF TypeOK
      <4>2. phase[e] \in InFlight /\ id[e] = j /\ timer[e] /\ promise[e] = "open"
        BY <4>1, <1>0
      <4>3. phase'[e] = phase[e] /\ id'[e] = id[e] /\ promise'[e] = promise[e]
        BY <4>1, <3>1, <2>2 DEF TypeOK
      <4>4. timer'[e]
        BY <4>1, <4>2, <3>1 DEF TypeOK
      <4> QED
        BY <4>2, <4>3, <4>4
    <3> QED
      BY <3>2, <3>3
  <2>4. CASE ~Awaits(Request(c))
    <3>1. promise' = [promise EXCEPT ![c] = "none"] /\ UNCHANGED <<pending, timer>>
      BY <1>2, <2>4 DEF Issue
    <3>2. \A j \in Id, e \in Cmd : pending[j] = e => e # c
      BY <2>1, <1>0
    <3> QED
      BY <2>2, <3>1, <3>2, <1>0, EntriesKept DEF TypeOK
  <2> QED
    BY <2>3, <2>4
<1>3. ASSUME NEW c \in Cmd, NEW ok \in BOOLEAN, CanRun(c), Finish({c}, ok), UNCHANGED tableVars
      PROVE  EntryIsLive'
  <2>1. phase[c] \notin InFlight
    BY <1>3 DEF CanRun, Ready, InFlight
  <2>2. \A j \in Id, e \in Cmd : pending[j] = e => e # c
    BY <2>1, <1>0
  <2> QED
    BY <1>0, <1>3, <2>2, FinishKeeps, EntriesKept DEF tableVars
<1>4. ASSUME NEW c \in Cmd, IssueFails(c) \/ SkipPrime(c) PROVE EntryIsLive'
  BY <1>3, <1>4 DEF IssueFails, SkipPrime
<1>5. ASSUME NEW c \in Cmd, NEW ok \in BOOLEAN, phase[c] = "sending",
             Clear(id[c]), Finish({c}, ok), UNCHANGED promise
      PROVE  EntryIsLive'
  <2>1. id[c] \in Id
    BY <1>5 DEF TypeOK, InFlight
  <2>2. \A j \in Id, e \in Cmd : pending'[j] = e =>
            pending[j] = e /\ e # c /\ timer'[e] = timer[e]
    BY <1>5, <2>1, ClearKeeps
  <2> QED
    BY <1>0, <1>5, <2>2, FinishKeeps, EntriesKept
<1>6. ASSUME NEW c \in Cmd, SendDone(c) PROVE EntryIsLive'
  <2>0. phase[c] = "sending" /\ UNCHANGED promise
    BY <1>6 DEF SendDone
  <2>1. CASE promise[c] = "open"
    <3>1. phase' = [phase EXCEPT ![c] = "waiting"] /\ UNCHANGED <<id, pending, timer>>
      BY <1>6, <2>1 DEF SendDone
    <3> QED
      BY <2>0, <3>1, <1>0, EntriesKept DEF TypeOK, InFlight
  <2>2. CASE promise[c] = "rejected"
    BY <1>5, <1>6, <2>0, <2>2 DEF SendDone
  <2>3. CASE promise[c] \notin {"open", "rejected"}
    <3>1. Finish({c}, TRUE) /\ UNCHANGED <<pending, timer>>
      BY <1>6, <2>3 DEF SendDone
    <3>2. \A j \in Id, e \in Cmd : pending[j] = e => e # c
      BY <2>3, <1>0
    <3> QED
      <4>1. \A e \in Cmd : e # c => phase'[e] = phase[e] /\ id'[e] = id[e]
        <5>1. \A e \in Cmd : e \notin {c} => phase'[e] = phase[e] /\ id'[e] = id[e]
          BY <3>1, FinishKeeps
        <5> QED
          BY <5>1
      <4> QED
        BY <1>0, <2>0, <3>1, <3>2, <4>1, EntriesKept
  <2> QED
    BY <2>1, <2>2, <2>3
<1>7. ASSUME NEW c \in Cmd, SendFail(c) PROVE EntryIsLive'
  BY <1>5, <1>7 DEF SendFail
<1>8. ASSUME NEW c \in Cmd, TimeOut(c) PROVE EntryIsLive'
  <2>1. /\ timer' = [timer EXCEPT ![c] = FALSE]
        /\ pending' = [pending EXCEPT ![id[c]] = None]
        /\ promise' = [promise EXCEPT ![c] = "rejected"]
        /\ Finish(Waiting({c}), FALSE)
    BY <1>8 DEF TimeOut
  <2>2. \A e \in Cmd : e # c => e \notin Waiting({c})
    BY DEF Waiting
  <2>3. ASSUME NEW j \in Id, NEW e \in Cmd, pending'[j] = e
        PROVE  pending[j] = e /\ e # c
    <3>1. j # id[c] /\ pending[j] = e
      BY <2>1, <2>3, NoneAssumption DEF TypeOK
    <3> QED
      BY <3>1, <1>0
  <2>4. \A e \in Cmd : e # c => timer'[e] = timer[e] /\ promise'[e] = promise[e]
    BY <2>1 DEF TypeOK
  <2> QED
    <3>1. \A e \in Cmd : e # c => phase'[e] = phase[e] /\ id'[e] = id[e]
      BY <2>1, <2>2, FinishKeeps
    <3> QED
      BY <1>0, <2>3, <2>4, <3>1, EntriesKept
<1>9. ASSUME NEW o \in owed, NEW i \in Id, Receive(o, i) PROVE EntryIsLive'
  <2> DEFINE S == Targets(i, AnswerTo[Script[o.cmd][o.step]])
  <2>1. /\ pending' = [j \in Id |-> IF pending[j] \in S THEN None ELSE pending[j]]
        /\ timer' = [c \in Cmd |-> timer[c] /\ c \notin S]
        /\ promise' = [c \in Cmd |-> IF c \in S THEN "ok" ELSE promise[c]]
        /\ Finish(Waiting(S), TRUE)
    BY <1>9 DEF Receive
  <2>2. \A e \in Cmd : e \notin S => e \notin Waiting(S)
    BY DEF Waiting
  <2>3. \A j \in Id, e \in Cmd : pending'[j] = e => pending[j] = e /\ e \notin S
    BY <2>1, NoneAssumption
  <2>4. \A e \in Cmd : e \notin S => timer'[e] = timer[e] /\ promise'[e] = promise[e]
    <3>1. \A e \in Cmd : timer[e] \in BOOLEAN
      BY DEF TypeOK
    <3> HIDE DEF S
    <3>2. \A e \in Cmd : e \notin S => timer'[e] = timer[e]
      BY <2>1, <3>1, Zenon
    <3> QED
      BY <2>1, <3>2
  <2> HIDE DEF S
  <2>5. \A e \in Cmd : e \notin S => phase'[e] = phase[e] /\ id'[e] = id[e]
    BY <2>1, <2>2, FinishKeeps
  <2> QED
    BY <1>0, <2>3, <2>4, <2>5, EntriesKept
<1>10. ASSUME RejectAll PROVE EntryIsLive'
  BY <1>10, RejectAllEmpties
<1>11. ASSUME UNCHANGED <<callVars, tableVars>> PROVE EntryIsLive'
  BY <1>11 DEF EntryIsLive, callVars, tableVars
<1>12. CASE LinkCloses \/ Reopen \/ UNCHANGED vars
  BY <1>11, <1>12 DEF LinkCloses, Reopen, vars
<1>13. CASE CloseEvent \/ ForceReconnect \/ Disconnect
  BY <1>10, <1>13 DEF CloseEvent, ForceReconnect, Disconnect
<1> QED
  BY <1>1, <1>2, <1>4, <1>6, <1>7, <1>8, <1>9, <1>12, <1>13 DEF Next, CallStep

\* No entry of pendingCommands outlives its request, even when two requests drew
\* the same id and the later registration overwrote the earlier one.
THEOREM EntryCorrect == Spec => []EntryIsLive
<1>1. Init => TypeOK /\ EntryIsLive
  BY TypeInit, NoneAssumption DEF Init, EntryIsLive
<1>2. TypeOK /\ EntryIsLive /\ [Next]_vars => (TypeOK /\ EntryIsLive)'
  BY TypeNext, EntryNext
<1> QED
  BY <1>1, <1>2, PTL DEF Spec
-----------------------------------------------------------------------------
(* CommandDispatcher implements TicketServer.                              *)

\* Only calls in front move, to a run or to their result.
Moves ==
    \A c \in Cmd : \/ phase'[c] = phase[c]
                   \/ /\ Active(c) /\ Front(c)
                      /\ phase'[c] \in Running \cup Settled

LEMMA FinishMoves ==
    ASSUME TypeOK, Chain, NEW S \in SUBSET Cmd, NEW ok \in BOOLEAN, Finish(S, ok),
           \A c \in S : Active(c) /\ Front(c)
    PROVE  Moves /\ UNCHANGED <<order, clock, orphaned>>
<1>1. Return(S, ok) /\ UNCHANGED orphaned
  BY DEF Finish
<1>2. \A c \in Cmd : \/ phase'[c] = phase[c]
                     \/ c \in S /\ phase'[c] \in Running \cup Settled
  BY <1>1, ReturnMoves
<1> QED
  BY <1>1, <1>2 DEF Moves, Return

LEMMA StepMoves ==
    ASSUME TypeOK, Chain, [Next]_vars
    PROVE  \/ \E c \in Cmd : Call(c)
           \/ /\ Moves /\ UNCHANGED <<order, clock>>
              /\ orphaned' \in {orphaned, {c \in Cmd : phase[c] # "new"}}
<1> DEFINE Goal == /\ Moves /\ UNCHANGED <<order, clock>>
                   /\ orphaned' \in {orphaned, {c \in Cmd : phase[c] # "new"}}
<1>0. ASSUME NEW c \in Cmd, CanRun(c) \/ phase[c] = "sending"
      PROVE  Active(c) /\ Front(c)
  BY <1>0, RunnersInFront DEF CanRun, Running, InFlight
<1>1. ASSUME NEW c \in Cmd, NEW ok \in BOOLEAN, CanRun(c) \/ phase[c] = "sending",
             Finish({c}, ok)
      PROVE  Goal
  BY <1>0, <1>1, FinishMoves
<1>2. ASSUME NEW c \in Cmd, Active(c), Front(c), NEW p \in Running,
             phase' = [phase EXCEPT ![c] = p], UNCHANGED lineVars
      PROVE  Goal
  BY <1>2 DEF Moves, TypeOK, lineVars
<1>3. ASSUME NEW c \in Cmd, NEW i \in Id, Issue(c, i) PROVE Goal
  <2>1. phase' = [phase EXCEPT ![c] = "sending"] /\ UNCHANGED lineVars /\ "sending" \in Running
    BY <1>3 DEF Issue, Running, InFlight
  <2> QED
    BY <1>0, <1>2, <1>3, <2>1 DEF Issue
<1>4. ASSUME NEW c \in Cmd, IssueFails(c) \/ SkipPrime(c) \/ SendFail(c) PROVE Goal
  BY <1>1, <1>4 DEF IssueFails, SkipPrime, SendFail
<1>5. ASSUME NEW c \in Cmd, SendDone(c) PROVE Goal
  <2>0. phase[c] = "sending" /\ "waiting" \in Running
    BY <1>5 DEF SendDone, Running, InFlight
  <2>1. CASE promise[c] = "open"
    <3>1. phase' = [phase EXCEPT ![c] = "waiting"] /\ UNCHANGED lineVars
      BY <1>5, <2>1 DEF SendDone
    <3> QED
      BY <1>0, <1>2, <2>0, <3>1
  <2>2. CASE promise[c] # "open"
    <3>1. PICK ok \in BOOLEAN : Finish({c}, ok)
      BY <1>5, <2>2 DEF SendDone
    <3> QED
      BY <1>1, <2>0, <3>1
  <2> QED
    BY <2>1, <2>2
<1>6. ASSUME NEW S, Waiting(S) \in SUBSET Cmd, NEW ok \in BOOLEAN, Finish(Waiting(S), ok)
      PROVE  Goal
  BY <1>6, WaitingInFront, FinishMoves
<1>7. ASSUME NEW c \in Cmd, TimeOut(c) PROVE Goal
  <2>1. Finish(Waiting({c}), FALSE) /\ Waiting({c}) \in SUBSET Cmd
    BY <1>7 DEF TimeOut, Waiting
  <2> QED
    BY <1>6, <2>1
<1>8. ASSUME NEW o \in owed, NEW i \in Id, Receive(o, i) PROVE Goal
  <2> DEFINE S == Targets(i, AnswerTo[Script[o.cmd][o.step]])
  <2>1. Waiting(S) \in SUBSET Cmd
    BY DEF Targets, Compatible, Sole, TypeOK, Waiting
  <2>2. Finish(Waiting(S), TRUE)
    BY <1>8 DEF Receive
  <2> QED
    BY <1>6, <2>1, <2>2
<1>9. CASE LinkCloses \/ Reopen \/ UNCHANGED vars
  BY <1>9 DEF LinkCloses, Reopen, vars, callVars, lineVars, Moves
<1>10. CASE CloseEvent \/ ForceReconnect \/ Disconnect
  <2>1. RejectAll /\ orphaned' \in {orphaned, {c \in Cmd : phase[c] # "new"}}
    BY <1>10 DEF CloseEvent, ForceReconnect, Disconnect
  <2> QED
    BY <2>1, RejectAllMoves DEF Moves
<1> QED
  BY <1>3, <1>4, <1>5, <1>7, <1>8, <1>9, <1>10 DEF Next, CallStep

\* The status a call has for the ticket server.
Shown == [c \in Cmd |-> IF phase[c] \in Running THEN "busy" ELSE phase[c]]

LEMMA ShownBefore ==
    ASSUME TypeOK, NEW c \in Cmd, NEW e \in Cmd
    PROVE  Service!Before(e, c) <=> Ahead(e, c)
<1>1. Shown[e] \in {"queued", "busy"} <=> Active(e)
  <2>1. Shown[e] = IF phase[e] \in Running THEN "busy" ELSE phase[e]
    BY DEF Shown
  <2>2. CASE phase[e] \in Running
    BY <2>1, <2>2 DEF Active
  <2>3. CASE phase[e] \notin Running
    BY <2>1, <2>3 DEF Active, TypeOK, Phase, Settled
  <2> QED
    BY <2>2, <2>3
<1> QED
  BY <1>1 DEF Service!Before, Service!Unserved, Ahead, Shown

LEMMA ServiceInit == Init => Service!Init
BY DEF Init, Service!Init, Running, InFlight

LEMMA ServiceNext == TypeOK /\ Chain /\ [Next]_vars => [Service!Next]_Service!vars
<1> SUFFICES ASSUME TypeOK, Chain, [Next]_vars PROVE Service!Next
  OBVIOUS
<1>1. ASSUME NEW c \in Cmd, Call(c) PROVE Service!Join(c)
  <2>1. phase[c] = "new" /\ "new" \notin Running /\ "queued" \notin Running
    BY <1>1 DEF Call, Running, InFlight
  <2>2. Shown' = [Shown EXCEPT ![c] = "queued"]
    BY <1>1, <2>1 DEF Call, Shown, TypeOK
  <2> QED
    BY <1>1, <2>1, <2>2 DEF Service!Join, Call, Shown
<1>2. ASSUME Moves, UNCHANGED <<order, clock>> PROVE Service!Move
  <2>1. Shown' \in [Cmd -> Service!Status]
    <3>1. \A c \in Cmd : phase'[c] \in Phase
      BY <1>2 DEF Moves, TypeOK, Phase
    <3> QED
      BY <3>1 DEF Shown, Phase, Service!Status, Service!Unserved, Service!Result,
                  Settled
  <2>2. ASSUME NEW c \in Cmd, Shown'[c] # Shown[c]
        PROVE  /\ Shown[c] \in Service!Unserved /\ Service!Front(c)
               /\ Shown'[c] \in {"busy"} \cup Service!Result
    <3>1. Active(c) /\ Front(c) /\ phase'[c] \in Running \cup Settled
      BY <1>2, <2>2 DEF Moves, Shown
    <3>2. Service!Front(c)
      BY <3>1, ShownBefore DEF Service!Front, Front
    <3> QED
      BY <3>1, <3>2 DEF Shown, Active, Service!Unserved, Service!Result, Settled, Running, InFlight
  <2> QED
    BY <1>2, <2>1, <2>2 DEF Service!Move, Shown
<1>3. ASSUME Moves, UNCHANGED <<order, clock>>,
             orphaned' \in {orphaned, {c \in Cmd : phase[c] # "new"}}
      PROVE  Service!Serve \/ Service!Shutdown
  <2>1. {c \in Cmd : Shown[c] # "new"} = {c \in Cmd : phase[c] # "new"}
    BY DEF Shown, Running, InFlight
  <2> QED
    BY <1>2, <1>3, <2>1 DEF Service!Serve, Service!Shutdown, Shown
<1> QED
  BY <1>1, <1>3, StepMoves DEF Service!Next

\* Every behaviour of the promise chains, the pending table and the socket is one of
\* the ticket server, for any calls, devices, scripts, ids and answers.
THEOREM Implements == Spec => ServesInOrder
<1>1. Init => TypeOK /\ Chain /\ Service!Init
  BY TypeInit, ChainInit, ServiceInit
<1>2. TypeOK /\ Chain /\ [Next]_vars => (TypeOK /\ Chain)' /\ [Service!Next]_Service!vars
  BY TypeNext, ChainNext, ServiceNext
<1> QED
  BY <1>1, <1>2, PTL DEF Spec, ServesInOrder, Service!Spec

-----------------------------------------------------------------------------
(* Answers                                                                  *)

LEMMA RequestKind ==
    ASSUME TypeOK, NEW c \in Cmd
    PROVE  Request(c) \in Kind
BY ScriptAssumption DEF TypeOK, Request

\* At most one command is the target of a message.
LEMMA OneTarget ==
    ASSUME TypeOK, EntryIsLive, NEW i \in Id, NEW k
    PROVE  /\ Targets(i, k) \in SUBSET Cmd
           /\ \A c \in Targets(i, k) : /\ phase[c] \in InFlight
                                       /\ promise[c] = "open"
                                       /\ AnswerTo[Request(c)] = k
           /\ \A c, e \in Targets(i, k) : c = e
<1>1. \A c \in Compatible(k) : /\ c \in Cmd /\ phase[c] \in InFlight
                               /\ promise[c] = "open" /\ AnswerTo[Request(c)] = k
  BY DEF Compatible, EntryIsLive
<1>2. Targets(i, k) \subseteq Compatible(k)
  BY DEF Targets, Sole
<1>3. \A c, e \in Targets(i, k) : c = e
  BY DEF Targets, Sole
<1> QED
  BY <1>1, <1>2, <1>3

\* Return as it concerns one call.
LEMMA ReturnOf ==
    ASSUME TypeOK, NEW S \in SUBSET Cmd, NEW ok \in BOOLEAN, Return(S, ok), NEW c \in Cmd
    PROVE  /\ id'[c] = id[c]
           /\ c \notin S => phase'[c] = phase[c] /\ step'[c] = step[c]
           /\ c \in S => \/ phase'[c] \in {"next", "pause"} /\ step'[c] = step[c] + 1
                         \/ phase'[c] \in Settled /\ step'[c] = step[c]
           /\ c \in S /\ phase'[c] = "ok" => ok
<1>1. PhaseAfter(c, ok) \in {"next", "pause", "ok", "failed"}
  BY PhaseAfterType
<1>2. PhaseAfter(c, ok) = "ok" => ok
  <2>1. step[c] \in 1..Len(Script[c]) /\ step[c] \in Nat /\ Len(Script[c]) \in Nat
    BY ScriptAssumption DEF TypeOK
  <2> QED
    BY <2>1 DEF PhaseAfter
<1> QED
  BY <1>1, <1>2 DEF Return, TypeOK, Running, InFlight, Settled
-----------------------------------------------------------------------------
\* A request that waits for an answer has a promise, and what resolved it was the
\* answer to a write if it is one.
Backed(c) ==
    /\ ackedBy[c] # None
    /\ Request(c) = "write" => Script[ackedBy[c].cmd][ackedBy[c].step] = "write"

Acknowledged ==
    \A c \in Cmd :
        /\ phase[c] = "sending" /\ Awaits(Request(c)) => promise[c] # "none"
        /\ phase[c] = "sending" /\ promise[c] = "ok" => Backed(c)
        /\ phase[c] = "ok" /\ Request(c) = "write" => Backed(c)

\* A step keeps Acknowledged when no call succeeds by it and no promise of a call
\* that is still sending changes, except to rejected.
LEMMA AcknowledgedKept ==
    ASSUME TypeOK, Acknowledged, TypeOK',
           \A c \in Cmd :
               \/ /\ phase'[c] = phase[c] /\ step'[c] = step[c] /\ ackedBy'[c] = ackedBy[c]
                  /\ promise'[c] \in {promise[c], "rejected"}
               \/ phase'[c] \notin {"sending", "ok"}
    PROVE  Acknowledged'
<1> SUFFICES ASSUME NEW c \in Cmd
             PROVE  /\ phase'[c] = "sending" /\ Awaits(Request(c))' => promise'[c] # "none"
                    /\ phase'[c] = "sending" /\ promise'[c] = "ok" => Backed(c)'
                    /\ phase'[c] = "ok" /\ Request(c)' = "write" => Backed(c)'
  BY DEF Acknowledged
<1>1. CASE phase'[c] \notin {"sending", "ok"}
  BY <1>1
<1>2. CASE /\ phase'[c] = phase[c] /\ step'[c] = step[c] /\ ackedBy'[c] = ackedBy[c]
           /\ promise'[c] \in {promise[c], "rejected"}
  BY <1>2 DEF Acknowledged, Request, Backed, Awaits
<1> QED
  BY <1>1, <1>2

LEMMA AcknowledgedNext ==
    TypeOK /\ EntryIsLive /\ Acknowledged /\ [Next]_vars => Acknowledged'
<1> SUFFICES ASSUME TypeOK, EntryIsLive, Acknowledged, [Next]_vars PROVE Acknowledged'
  OBVIOUS
<1>0. TypeOK'
  BY TypeNext
<1>a. ASSUME NEW S \in SUBSET Cmd, Return(S, FALSE), UNCHANGED ackedBy,
             \A c \in Cmd : promise'[c] \in {promise[c], "rejected"}
      PROVE  Acknowledged'
  <2>1. \A c \in Cmd : \/ phase'[c] = phase[c] /\ step'[c] = step[c]
                       \/ phase'[c] \notin {"sending", "ok"}
    BY <1>a, ReturnOf DEF Settled
  <2> QED
    BY <1>0, <1>a, <2>1, AcknowledgedKept
<1>1. ASSUME NEW c \in Cmd, Call(c) PROVE Acknowledged'
  BY <1>0, <1>1, AcknowledgedKept DEF Call, TypeOK, tableVars
<1>2. ASSUME NEW c \in Cmd, NEW i \in Id, Issue(c, i) PROVE Acknowledged'
  <2>1. /\ phase' = [phase EXCEPT ![c] = "sending"] /\ step' = step
        /\ ackedBy' = [ackedBy EXCEPT ![c] = None]
        /\ promise' = [promise EXCEPT ![c] = IF Awaits(Request(c)) THEN "open" ELSE "none"]
    BY <1>2 DEF Issue, Register
  <2> SUFFICES ASSUME NEW e \in Cmd
               PROVE  /\ phase'[e] = "sending" /\ Awaits(Request(e))' => promise'[e] # "none"
                      /\ phase'[e] = "sending" /\ promise'[e] = "ok" => Backed(e)'
                      /\ phase'[e] = "ok" /\ Request(e)' = "write" => Backed(e)'
    BY DEF Acknowledged
  <2>2. CASE e = c
    BY <2>1, <2>2 DEF TypeOK, Request
  <2>3. CASE e # c
    BY <2>1, <2>3 DEF TypeOK, Request, Backed, Acknowledged, Awaits
  <2> QED
    BY <2>2, <2>3
<1>3. ASSUME NEW c \in Cmd, IssueFails(c) PROVE Acknowledged'
  BY <1>3, <1>a DEF IssueFails, Finish, tableVars
<1>4. ASSUME NEW c \in Cmd, SkipPrime(c) PROVE Acknowledged'
  <2>1. Return({c}, TRUE) /\ Request(c) = "prime" /\ UNCHANGED tableVars
    BY <1>4 DEF SkipPrime, Finish
  <2>2. step[c] < Len(Script[c])
    BY <2>1, ScriptAssumption DEF TypeOK, Request
  <2>3. phase'[c] = "next"
    BY <2>1, <2>2 DEF Return, PhaseAfter, TypeOK
  <2>4. \A e \in Cmd : e # c => phase'[e] = phase[e] /\ step'[e] = step[e]
    BY <2>1, ReturnOf
  <2> QED
    BY <1>0, <2>1, <2>3, <2>4, AcknowledgedKept DEF tableVars
<1>5. ASSUME NEW c \in Cmd, SendDone(c) PROVE Acknowledged'
  <2>0. phase[c] = "sending" /\ UNCHANGED <<promise, ackedBy>>
    BY <1>5 DEF SendDone
  <2>1. CASE promise[c] = "open"
    <3>1. phase' = [phase EXCEPT ![c] = "waiting"] /\ step' = step
      BY <1>5, <2>1 DEF SendDone
    <3> QED
      BY <1>0, <2>0, <3>1, AcknowledgedKept DEF TypeOK
  <2>2. CASE promise[c] = "rejected"
    BY <1>5, <2>0, <2>2, <1>a DEF SendDone, Finish
  <2>3. CASE promise[c] \notin {"open", "rejected"}
    <3>1. Return({c}, TRUE)
      BY <1>5, <2>3 DEF SendDone, Finish
    <3>2. \A e \in Cmd : e # c => phase'[e] = phase[e] /\ step'[e] = step[e]
      BY <3>1, ReturnOf
    <3>3. phase'[c] # "sending" /\ (phase'[c] = "ok" => step'[c] = step[c])
      BY <3>1, ReturnOf DEF Settled
    <3>4. phase'[c] = "ok" /\ Request(c)' = "write" => Backed(c)'
      <4>1. Request(c) = "write" => promise[c] = "ok"
        BY <2>0, <2>3 DEF Acknowledged, Awaits, TypeOK
      <4> QED
        BY <2>0, <3>3, <4>1 DEF Acknowledged, Backed, Request
    <3> SUFFICES ASSUME NEW e \in Cmd
                 PROVE  /\ phase'[e] = "sending" /\ Awaits(Request(e))' => promise'[e] # "none"
                        /\ phase'[e] = "sending" /\ promise'[e] = "ok" => Backed(e)'
                        /\ phase'[e] = "ok" /\ Request(e)' = "write" => Backed(e)'
      BY DEF Acknowledged
    <3>5. CASE e = c
      BY <3>3, <3>4, <3>5
    <3>6. CASE e # c
      BY <2>0, <3>2, <3>6 DEF Acknowledged, Backed, Request, Awaits
    <3> QED
      BY <3>5, <3>6
  <2> QED
    BY <2>1, <2>2, <2>3
<1>6. ASSUME NEW c \in Cmd, SendFail(c) PROVE Acknowledged'
  BY <1>6, <1>a DEF SendFail, Finish
<1>7. ASSUME NEW c \in Cmd, TimeOut(c) PROVE Acknowledged'
  <2>1. Waiting({c}) \in SUBSET Cmd
    BY DEF Waiting
  <2> QED
    BY <1>7, <2>1, <1>a DEF TimeOut, Finish, TypeOK
<1>8. ASSUME NEW o \in owed, NEW i \in Id, Receive(o, i) PROVE Acknowledged'
  <2> DEFINE k == AnswerTo[Script[o.cmd][o.step]]
             S == Targets(i, k)
  <2>1. /\ promise' = [c \in Cmd |-> IF c \in S THEN "ok" ELSE promise[c]]
        /\ ackedBy' = [c \in Cmd |-> IF c \in S THEN o ELSE ackedBy[c]]
        /\ Return(Waiting(S), TRUE)
    BY <1>8 DEF Receive, Finish
  <2>2. /\ S \in SUBSET Cmd
        /\ \A c \in S : phase[c] \in InFlight /\ AnswerTo[Request(c)] = k
    BY OneTarget
  <2>3. o \in Answer /\ Script[o.cmd][o.step] \in Kind
    BY ScriptAssumption DEF TypeOK, Answer
  <2>4. \A c \in S : Request(c) = "write" => Script[o.cmd][o.step] = "write"
    BY <2>2, <2>3, RequestKind DEF AnswerTo, Kind
  <2> HIDE DEF S, k
  <2>5. Waiting(S) \in SUBSET Cmd /\ Waiting(S) = {c \in S : phase[c] = "waiting"}
    BY <2>2 DEF Waiting
  <2> SUFFICES ASSUME NEW c \in Cmd
               PROVE  /\ phase'[c] = "sending" /\ Awaits(Request(c))' => promise'[c] # "none"
                      /\ phase'[c] = "sending" /\ promise'[c] = "ok" => Backed(c)'
                      /\ phase'[c] = "ok" /\ Request(c)' = "write" => Backed(c)'
    BY DEF Acknowledged
  <2>6. CASE c \notin S
    <3>1. phase'[c] = phase[c] /\ step'[c] = step[c]
      BY <2>1, <2>5, <2>6, ReturnOf
    <3> QED
      BY <2>1, <2>6, <3>1 DEF Acknowledged, Backed, Request, Awaits
  <2>7. CASE c \in S
    <3>1. promise'[c] = "ok" /\ ackedBy'[c] = o /\ o # None
      BY <2>1, <2>3, <2>7, NoneAssumption
    <3>2. phase'[c] \in {"sending", "ok"} => step'[c] = step[c]
      BY <2>1, <2>2, <2>5, <2>7, ReturnOf DEF Settled
    <3>3. phase'[c] \in {"sending", "ok"} => Backed(c)'
      BY <2>4, <2>7, <3>1, <3>2 DEF Backed, Request
    <3> QED
      BY <3>1, <3>3
  <2> QED
    BY <2>6, <2>7
<1>9. ASSUME RejectAll PROVE Acknowledged'
  <2> DEFINE S == {pending[i] : i \in Id} \ {None}
  <2>1. Waiting(S) \in SUBSET Cmd
    BY DEF TypeOK, Waiting
  <2> QED
    BY <1>9, <2>1, <1>a DEF RejectAll, TypeOK
<1>10. CASE CloseEvent \/ ForceReconnect \/ Disconnect
  BY <1>9, <1>10 DEF CloseEvent, ForceReconnect, Disconnect
<1>11. CASE LinkCloses \/ Reopen \/ UNCHANGED vars
  BY <1>0, <1>11, AcknowledgedKept DEF LinkCloses, Reopen, vars, callVars, tableVars
<1> QED
  BY <1>1, <1>2, <1>3, <1>4, <1>5, <1>6, <1>7, <1>8, <1>10, <1>11 DEF Next, CallStep

\* A write succeeds only on an answer to a write that arrived after it was issued,
\* even when ids collide and the panel answers with ids of its own.
THEOREM NoSilentSuccessCorrect == Spec => []NoSilentSuccess
<1>1. Init => TypeOK /\ EntryIsLive /\ Acknowledged
  BY TypeInit, NoneAssumption DEF Init, EntryIsLive, Acknowledged
<1>2. TypeOK /\ EntryIsLive /\ Acknowledged /\ [Next]_vars
          => (TypeOK /\ EntryIsLive /\ Acknowledged)'
  BY TypeNext, EntryNext, AcknowledgedNext
<1>3. Acknowledged => NoSilentSuccess
  BY DEF Acknowledged, Backed, NoSilentSuccess
<1> QED
  BY <1>1, <1>2, <1>3, PTL DEF Spec
-----------------------------------------------------------------------------
\* A request is issued once, and its answer leaves the wire when it is used.
Issued(o) ==
    \/ o.step < step[o.cmd]
    \/ o.step = step[o.cmd] /\ phase[o.cmd] \in InFlight \cup Settled

UsedOnce ==
    /\ \A o \in owed : Issued(o)
    /\ \A c \in Cmd : ackedBy[c] # None => Issued(ackedBy[c]) /\ ackedBy[c] \notin owed
    /\ OneAnswerOneCommand

\* Calls go forward through their scripts.
LEMMA Forward ==
    ASSUME TypeOK, [Next]_vars, NEW c \in Cmd
    PROVE  \/ step'[c] = step[c] + 1
           \/ /\ step'[c] = step[c]
              /\ phase[c] \in InFlight \cup Settled => phase'[c] \in InFlight \cup Settled
<1> DEFINE Goal == \/ step'[c] = step[c] + 1
                   \/ /\ step'[c] = step[c]
                      /\ phase[c] \in InFlight \cup Settled
                             => phase'[c] \in InFlight \cup Settled
<1>1. ASSUME NEW S \in SUBSET Cmd, NEW ok \in BOOLEAN, Return(S, ok) PROVE Goal
  BY <1>1, ReturnOf
<1>2. ASSUME RejectAll PROVE Goal
  <2> DEFINE S == {pending[i] : i \in Id} \ {None}
  <2>1. Waiting(S) \in SUBSET Cmd
    BY DEF TypeOK, Waiting
  <2> QED
    BY <1>1, <1>2, <2>1 DEF RejectAll
<1>3. ASSUME NEW d \in Cmd, Call(d) PROVE Goal
  BY <1>3 DEF Call, TypeOK, InFlight, Settled
<1>4. ASSUME NEW d \in Cmd, NEW i \in Id, Issue(d, i) PROVE Goal
  BY <1>4 DEF Issue, TypeOK, InFlight
<1>5. ASSUME NEW d \in Cmd, IssueFails(d) \/ SkipPrime(d) \/ SendFail(d) PROVE Goal
  BY <1>1, <1>5 DEF IssueFails, SkipPrime, SendFail, Finish
<1>6. ASSUME NEW d \in Cmd, SendDone(d) PROVE Goal
  <2>1. CASE promise[d] = "open"
    BY <1>6, <2>1 DEF SendDone, TypeOK, InFlight
  <2>2. CASE promise[d] # "open"
    BY <1>1, <1>6, <2>2 DEF SendDone, Finish
  <2> QED
    BY <2>1, <2>2
<1>7. ASSUME NEW d \in Cmd, TimeOut(d) PROVE Goal
  <2>1. Waiting({d}) \in SUBSET Cmd
    BY DEF Waiting
  <2> QED
    BY <1>1, <1>7, <2>1 DEF TimeOut, Finish
<1>8. ASSUME NEW o \in owed, NEW i \in Id, Receive(o, i) PROVE Goal
  <2> DEFINE S == Targets(i, AnswerTo[Script[o.cmd][o.step]])
  <2>1. Waiting(S) \in SUBSET Cmd
    BY DEF Targets, Compatible, Sole, TypeOK, Waiting
  <2> QED
    BY <1>1, <1>8, <2>1 DEF Receive, Finish
<1>9. CASE CloseEvent \/ ForceReconnect \/ Disconnect
  BY <1>2, <1>9 DEF CloseEvent, ForceReconnect, Disconnect
<1>10. CASE LinkCloses \/ Reopen \/ UNCHANGED vars
  BY <1>10 DEF LinkCloses, Reopen, vars, callVars
<1> QED
  BY <1>3, <1>4, <1>5, <1>6, <1>7, <1>8, <1>9, <1>10 DEF Next, CallStep

LEMMA IssuedStable ==
    ASSUME TypeOK, [Next]_vars, NEW o \in Answer, Issued(o)
    PROVE  Issued(o)'
<1>1. o.cmd \in Cmd /\ o.step \in Nat /\ step[o.cmd] \in Nat
  BY DEF Answer, TypeOK
<1> QED
  BY <1>1, Forward DEF Issued

\* Steps that use no answer.
LEMMA UsedOnceKept ==
    ASSUME TypeOK, UsedOnce, [Next]_vars, owed' \subseteq owed, UNCHANGED ackedBy
    PROVE  UsedOnce'
<1>1. \A o \in owed' : Issued(o)'
  BY IssuedStable DEF UsedOnce, TypeOK
<1>2. ASSUME NEW c \in Cmd, ackedBy'[c] # None
      PROVE  (Issued(ackedBy[c]) /\ ackedBy[c] \notin owed)'
  <2>1. PICK a \in Answer : a = ackedBy[c] /\ a = ackedBy'[c]
    BY <1>2 DEF TypeOK
  <2>2. Issued(a) /\ a \notin owed
    BY <1>2, <2>1 DEF UsedOnce
  <2>3. Issued(a)'
    BY <2>2, IssuedStable
  <2> QED
    BY <2>1, <2>2, <2>3 DEF Issued
<1> QED
  BY <1>1, <1>2 DEF UsedOnce, OneAnswerOneCommand, Issued

LEMMA UsedOnceNext ==
    TypeOK /\ EntryIsLive /\ UsedOnce /\ [Next]_vars => UsedOnce'
<1> SUFFICES ASSUME TypeOK, EntryIsLive, UsedOnce, [Next]_vars PROVE UsedOnce'
  OBVIOUS
<1>1. ASSUME NEW c \in Cmd, NEW i \in Id, Issue(c, i) PROVE UsedOnce'
  <2> DEFINE n == [cmd |-> c, step |-> step[c], id |-> i]
  <2>1. /\ owed' = owed \cup {n} /\ step' = step
        /\ phase' = [phase EXCEPT ![c] = "sending"]
        /\ ackedBy' = [ackedBy EXCEPT ![c] = None]
    BY <1>1 DEF Issue
  <2>2. phase[c] \notin InFlight \cup Settled
    BY <1>1 DEF Issue, CanRun, Ready, InFlight, Settled
  <2>3. n \in Answer /\ ~Issued(n) /\ Issued(n)'
    BY <2>1, <2>2 DEF Answer, Issued, TypeOK, InFlight
  <2>4. \A o \in owed' : Issued(o)'
    BY <2>1, <2>3, IssuedStable DEF UsedOnce, TypeOK
  <2>5. ASSUME NEW e \in Cmd, ackedBy'[e] # None
        PROVE  (Issued(ackedBy[e]) /\ ackedBy[e] \notin owed)'
    <3>1. e # c /\ ackedBy'[e] = ackedBy[e] /\ ackedBy[e] \in Answer
      BY <2>1, <2>5 DEF TypeOK
    <3>2. PICK a \in Answer : a = ackedBy[e]
      BY <3>1
    <3>3. Issued(a) /\ a \notin owed
      BY <2>5, <3>1, <3>2 DEF UsedOnce
    <3>4. Issued(a)'
      BY <3>3, IssuedStable
    <3>5. a # n
      BY <2>3, <3>3 DEF Issued
    <3> QED
      BY <2>1, <3>1, <3>2, <3>3, <3>4, <3>5 DEF Issued
  <2>6. OneAnswerOneCommand'
    BY <2>1 DEF UsedOnce, OneAnswerOneCommand, TypeOK
  <2> QED
    BY <2>4, <2>5, <2>6 DEF UsedOnce, Issued
<1>2. ASSUME NEW o \in owed, NEW i \in Id, Receive(o, i) PROVE UsedOnce'
  <2> DEFINE S == Targets(i, AnswerTo[Script[o.cmd][o.step]])
  <2>1. /\ owed' = owed \ {o}
        /\ ackedBy' = [c \in Cmd |-> IF c \in S THEN o ELSE ackedBy[c]]
    BY <1>2 DEF Receive
  <2>2. \A c, e \in S : c = e
    BY OneTarget
  <2>3. o \in Answer /\ Issued(o) /\ Issued(o)'
    BY IssuedStable DEF UsedOnce, TypeOK
  <2> HIDE DEF S
  <2>4. \A p \in owed' : Issued(p)'
    BY <2>1, IssuedStable DEF UsedOnce, TypeOK
  <2>5. ASSUME NEW e \in Cmd, ackedBy'[e] # None
        PROVE  (Issued(ackedBy[e]) /\ ackedBy[e] \notin owed)'
    <3>1. CASE e \in S
      <4>1. ackedBy'[e] = o
        BY <2>1, <3>1
      <4> QED
        BY <2>1, <2>3, <4>1 DEF Issued
    <3>2. CASE e \notin S
      <4>1. ackedBy'[e] = ackedBy[e] /\ ackedBy[e] \in Answer
        BY <2>1, <2>5, <3>2 DEF TypeOK
      <4>2. PICK a \in Answer : a = ackedBy[e]
        BY <4>1
      <4>3. Issued(a) /\ a \notin owed
        BY <2>5, <4>1, <4>2 DEF UsedOnce
      <4>4. Issued(a)'
        BY <4>3, IssuedStable
      <4> QED
        BY <2>1, <4>1, <4>2, <4>3, <4>4 DEF Issued
    <3> QED
      BY <3>1, <3>2
  <2>6. ASSUME NEW c \in Cmd, NEW e \in Cmd, c # e, ackedBy'[c] # None
        PROVE  ackedBy'[c] # ackedBy'[e]
    <3>1. \A f \in Cmd : ackedBy[f] # o
      BY <2>3, NoneAssumption DEF UsedOnce
    <3> QED
      BY <2>1, <2>2, <2>6, <3>1 DEF UsedOnce, OneAnswerOneCommand
  <2> QED
    BY <2>4, <2>5, <2>6 DEF UsedOnce, OneAnswerOneCommand, Issued
<1>3. CASE /\ \A c \in Cmd, i \in Id : ~Issue(c, i)
           /\ \A o \in owed, i \in Id : ~Receive(o, i)
  <2>1. owed' \subseteq owed /\ UNCHANGED ackedBy
    BY <1>3 DEF Next, CallStep, Call, IssueFails, SkipPrime, SendDone, SendFail, TimeOut,
           LinkCloses, CloseEvent, ForceReconnect, Disconnect, Reopen, RejectAll, vars, tableVars
  <2> QED
    BY <2>1, UsedOnceKept
<1> QED
  BY <1>1, <1>2, <1>3

\* One answer of the panel settles one command, however it was matched to it.
THEOREM OneAnswerCorrect == Spec => []OneAnswerOneCommand
<1>1. Init => TypeOK /\ EntryIsLive /\ UsedOnce
  BY TypeInit, NoneAssumption DEF Init, EntryIsLive, UsedOnce, OneAnswerOneCommand
<1>2. TypeOK /\ EntryIsLive /\ UsedOnce /\ [Next]_vars
          => (TypeOK /\ EntryIsLive /\ UsedOnce)'
  BY TypeNext, EntryNext, UsedOnceNext
<1>3. UsedOnce => OneAnswerOneCommand
  BY DEF UsedOnce
<1> QED
  BY <1>1, <1>2, <1>3, PTL DEF Spec
-----------------------------------------------------------------------------
\* With ids that do not collide: a request that waits is in the table, under its
\* timeout; and when the panel echoes ids, its answer is still on the wire.
Apart == \A c, e \in Cmd : phase[c] \in InFlight /\ phase[e] \in InFlight /\ c # e => id[c] # id[e]
Awaited(c) ==
    /\ phase[c] \in InFlight /\ promise[c] = "open"
          => pending[id[c]] = c /\ timer[c] /\ (EchoIds => OwnAnswer(c) \in owed)
    /\ phase[c] = "waiting" => promise[c] = "open"
    /\ timer[c] => phase[c] \in InFlight /\ promise[c] = "open"
Tabled == Apart /\ \A c \in Cmd : Awaited(c)

LEMMA ApartKept ==
    ASSUME Apart, \A c \in Cmd : phase'[c] \in InFlight => phase[c] \in InFlight /\ id'[c] = id[c]
    PROVE  Apart'
BY DEF Apart

\* What a step must leave alone of a call that it does not move.
LEMMA AwaitedKept ==
    ASSUME NEW c \in Cmd, Awaited(c),
           phase'[c] = phase[c], step'[c] = step[c], id'[c] = id[c],
           promise'[c] = promise[c], timer'[c] = timer[c],
           pending[id[c]] = c => pending'[id[c]] = c,
           OwnAnswer(c) \in owed => OwnAnswer(c) \in owed'
    PROVE  Awaited(c)'
<1>1. OwnAnswer(c)' = OwnAnswer(c)
  BY DEF OwnAnswer
<1> QED
  BY <1>1 DEF Awaited

LEMMA ReturnApart ==
    ASSUME TypeOK, Apart, NEW S \in SUBSET Cmd, NEW ok \in BOOLEAN, Return(S, ok)
    PROVE  /\ Apart'
           /\ \A c \in S : phase'[c] \notin InFlight
           /\ \A c \in Cmd \ S : phase'[c] = phase[c] /\ step'[c] = step[c] /\ id'[c] = id[c]
<1>1. \A c \in S : phase'[c] \notin InFlight
  BY ReturnOf DEF InFlight, Settled
<1>2. \A c \in Cmd \ S : phase'[c] = phase[c] /\ step'[c] = step[c] /\ id'[c] = id[c]
  BY ReturnOf
<1> QED
  BY <1>1, <1>2, ApartKept

\* The calls of S, and no others, lose their entries, their timers and, with result
\* r, their promises; no answer another call waits for is consumed.
Strikes(S, r) ==
    /\ \A c \in S : timer'[c] = FALSE /\ promise'[c] = r
    /\ \A c \in Cmd \ S :
          /\ timer'[c] = timer[c] /\ promise'[c] = promise[c]
          /\ \A i \in Id : pending[i] = c => pending'[i] = c
          /\ phase[c] \in InFlight /\ promise[c] = "open" /\ EchoIds /\ OwnAnswer(c) \in owed
                => OwnAnswer(c) \in owed'

LEMMA StruckTabled ==
    ASSUME TypeOK, Tabled, NEW S \in SUBSET Cmd, NEW ok \in BOOLEAN, NEW r \in {"ok", "rejected"},
           Return(Waiting(S), ok), Strikes(S, r)
    PROVE  Tabled'
<1>1. Waiting(S) \in SUBSET Cmd /\ Waiting(S) = {c \in S : phase[c] = "waiting"}
  BY DEF Waiting
<1>2. Apart /\ \A c \in Cmd : Awaited(c)
  BY DEF Tabled
<1>3. Apart'
  BY <1>1, <1>2, ReturnApart
<1>4. ASSUME NEW e \in S PROVE Awaited(e)'
  <2>1. timer'[e] = FALSE /\ promise'[e] = r /\ r # "open"
    BY DEF Strikes
  <2>2. phase'[e] # "waiting"
    <3>1. CASE e \in Waiting(S)
      BY <1>1, <1>2, <3>1, ReturnApart DEF InFlight
    <3>2. CASE e \notin Waiting(S)
      BY <1>1, <1>2, <3>2, ReturnApart
    <3> QED
      BY <3>1, <3>2
  <2> QED
    BY <2>1, <2>2 DEF Awaited
<1>5. ASSUME NEW e \in Cmd \ S PROVE Awaited(e)'
  <2>1. phase'[e] = phase[e] /\ step'[e] = step[e] /\ id'[e] = id[e]
    BY <1>1, <1>2, ReturnApart
  <2>2. timer'[e] = timer[e] /\ promise'[e] = promise[e]
    BY DEF Strikes
  <2>3. OwnAnswer(e)' = OwnAnswer(e)
    BY <2>1 DEF OwnAnswer
  <2>4. phase[e] \in InFlight => id[e] \in Id
    BY DEF TypeOK
  <2>5. phase[e] \in InFlight /\ promise[e] = "open"
          => pending'[id[e]] = e /\ timer[e] /\ (EchoIds => OwnAnswer(e) \in owed')
    BY <1>2, <2>4 DEF Awaited, Strikes
  <2> QED
    BY <1>2, <2>1, <2>2, <2>3, <2>5 DEF Awaited
<1> QED
  BY <1>3, <1>4, <1>5 DEF Tabled

LEMMA TabledNext ==
    ASSUME UniqueIds, TypeOK, EntryIsLive, Tabled, [Next]_vars
    PROVE  Tabled'
<1>0. /\ Apart
      /\ \A c \in Cmd : Awaited(c) /\ timer[c] \in BOOLEAN
      /\ \A c \in Cmd : phase[c] \in InFlight => id[c] \in Id
  BY DEF Tabled, TypeOK
<1>1. ASSUME NEW c \in Cmd, Call(c) PROVE Tabled'
  <2>1. /\ phase' = [phase EXCEPT ![c] = "queued"] /\ phase[c] = "new"
        /\ UNCHANGED <<step, id, tableVars, owed>>
    BY <1>1 DEF Call
  <2>2. Apart'
    BY <1>0, <2>1, ApartKept DEF TypeOK, InFlight
  <2>3. ASSUME NEW e \in Cmd PROVE Awaited(e)'
    <3>1. CASE e = c
      BY <1>0, <2>1, <3>1 DEF Awaited, TypeOK, InFlight, tableVars
    <3>2. CASE e # c
      BY <1>0, <2>1, <3>2, AwaitedKept DEF TypeOK, tableVars
    <3> QED
      BY <3>1, <3>2
  <2> QED
    BY <2>2, <2>3 DEF Tabled
<1>2. ASSUME NEW c \in Cmd, NEW i \in Id, Issue(c, i) PROVE Tabled'
  <2>1. /\ phase' = [phase EXCEPT ![c] = "sending"] /\ step' = step
        /\ id' = [id EXCEPT ![c] = i]
        /\ owed' = owed \cup {[cmd |-> c, step |-> step[c], id |-> i]}
    BY <1>2 DEF Issue
  <2>2. \A e \in Cmd : phase[e] \in InFlight => id[e] # i
    BY <1>2 DEF Issue, Fresh, IdsInUse
  <2>3. phase[c] \notin InFlight /\ ~timer[c]
    BY <1>2, <1>0 DEF Issue, CanRun, Ready, InFlight, Awaited
  <2>4. Apart'
    BY <2>1, <2>2 DEF Tabled, Apart, TypeOK
  <2>5. Awaited(c)'
    <3>1. CASE Awaits(Request(c))
      <4>1. /\ pending' = [pending EXCEPT ![i] = c]
            /\ timer' = [timer EXCEPT ![c] = TRUE]
            /\ promise' = [promise EXCEPT ![c] = "open"]
        BY <1>2, <3>1 DEF Issue, Register
      <4>2. OwnAnswer(c)' \in owed'
        BY <2>1 DEF OwnAnswer, TypeOK
      <4> QED
        BY <2>1, <4>1, <4>2 DEF Awaited, TypeOK, InFlight
    <3>2. CASE ~Awaits(Request(c))
      BY <1>2, <2>1, <2>3, <3>2 DEF Issue, Awaited, TypeOK, InFlight
    <3> QED
      BY <3>1, <3>2
  <2>6. ASSUME NEW e \in Cmd, e # c PROVE Awaited(e)'
    <3>1. /\ phase'[e] = phase[e] /\ step'[e] = step[e] /\ id'[e] = id[e]
          /\ OwnAnswer(e) \in owed => OwnAnswer(e) \in owed'
      BY <2>1, <2>6 DEF TypeOK
    <3>2. CASE Awaits(Request(c))
      <4>1. /\ pending' = [pending EXCEPT ![i] = c]
            /\ timer'[e] = timer[e] /\ promise'[e] = promise[e]
        BY <1>2, <2>6, <3>2 DEF Issue, Register, TypeOK
      <4>2. CASE phase[e] \in InFlight
        BY <1>0, <2>2, <3>1, <4>1, <4>2, AwaitedKept DEF TypeOK
      <4>3. CASE phase[e] \notin InFlight
        BY <1>0, <3>1, <4>1, <4>3 DEF Awaited, InFlight
      <4> QED
        BY <4>2, <4>3
    <3>3. CASE ~Awaits(Request(c))
      <4>1. UNCHANGED <<pending, timer>> /\ promise'[e] = promise[e]
        BY <1>2, <2>6, <3>3 DEF Issue, TypeOK
      <4> QED
        BY <1>0, <3>1, <4>1, AwaitedKept
    <3> QED
      BY <3>2, <3>3
  <2> QED
    BY <2>4, <2>5, <2>6 DEF Tabled
<1>3. ASSUME NEW c \in Cmd, NEW ok \in BOOLEAN, Return({c}, ok), ~timer[c],
             UNCHANGED <<tableVars, owed>>
      PROVE  Tabled'
  <2>1. Apart' /\ phase'[c] \notin InFlight
    BY <1>0, <1>3, ReturnApart
  <2>2. ASSUME NEW e \in Cmd, e # c PROVE Awaited(e)'
    <3>1. phase'[e] = phase[e] /\ step'[e] = step[e] /\ id'[e] = id[e]
      BY <1>0, <1>3, <2>2, ReturnApart
    <3> QED
      BY <1>0, <1>3, <3>1, AwaitedKept DEF tableVars
  <2>3. Awaited(c)'
    BY <1>3, <2>1 DEF Awaited, tableVars, InFlight
  <2> QED
    BY <2>1, <2>2, <2>3 DEF Tabled
<1>4. ASSUME NEW c \in Cmd, IssueFails(c) \/ SkipPrime(c) PROVE Tabled'
  <2>1. ~timer[c]
    BY <1>0, <1>4 DEF IssueFails, SkipPrime, CanRun, Ready, Awaited, InFlight
  <2> QED
    BY <1>3, <1>4, <2>1 DEF IssueFails, SkipPrime, Finish
<1>5. ASSUME NEW c \in Cmd, NEW ok \in BOOLEAN, phase[c] = "sending", Clear(id[c]),
             Return({c}, ok), UNCHANGED promise, owed' \in {owed, owed \ {OwnAnswer(c)}}
      PROVE  Tabled'
  <2>1. Apart' /\ phase'[c] \notin InFlight
    BY <1>0, <1>5, ReturnApart
  <2>2. id[c] \in Id /\ \A e \in Cmd : phase[e] \in InFlight /\ e # c => id[e] # id[c]
    BY <1>0, <1>5 DEF Apart, InFlight
  <2>3. \A e \in Cmd : e # c => pending[id[c]] # e
    BY <2>2 DEF EntryIsLive
  <2>4. pending' = [pending EXCEPT ![id[c]] = None]
    BY <1>5 DEF Clear
  <2>5. \A e \in Cmd : timer'[e] = (timer[e] /\ pending[id[c]] # e)
    BY <1>5, Zenon DEF Clear
  <2>6. ASSUME NEW e \in Cmd, e # c PROVE Awaited(e)'
    <3>1. phase'[e] = phase[e] /\ step'[e] = step[e] /\ id'[e] = id[e]
      BY <1>0, <1>5, <2>6, ReturnApart
    <3>2. OwnAnswer(e) \in owed => OwnAnswer(e) \in owed'
      BY <1>5, <2>6 DEF OwnAnswer
    <3>3. timer'[e] = timer[e] /\ promise'[e] = promise[e]
      BY <1>0, <1>5, <2>3, <2>5, <2>6
    <3>4. CASE phase[e] \in InFlight
      <4>1. pending'[id[e]] = pending[id[e]]
        BY <1>0, <2>2, <2>4, <2>6, <3>4 DEF TypeOK
      <4> QED
        BY <1>0, <3>1, <3>2, <3>3, <4>1, AwaitedKept
    <3>5. CASE phase[e] \notin InFlight
      BY <1>0, <3>1, <3>3, <3>5 DEF Awaited, InFlight
    <3> QED
      BY <3>4, <3>5
  <2>7. Awaited(c)'
    <3>1. ~timer'[c]
      <4>1. timer[c] => pending[id[c]] = c
        BY <1>0 DEF Awaited
      <4> QED
        BY <2>5, <4>1
    <3> QED
      BY <2>1, <3>1 DEF Awaited, InFlight
  <2> QED
    BY <2>1, <2>6, <2>7 DEF Tabled
<1>6. ASSUME NEW c \in Cmd, SendDone(c) PROVE Tabled'
  <2>0. phase[c] = "sending" /\ UNCHANGED <<promise, ackedBy, owed>>
    BY <1>6 DEF SendDone
  <2>1. CASE promise[c] = "open"
    <3>1. phase' = [phase EXCEPT ![c] = "waiting"] /\ UNCHANGED <<step, id, pending, timer>>
      BY <1>6, <2>1 DEF SendDone
    <3>2. Apart'
      BY <1>0, <2>0, <3>1, ApartKept DEF TypeOK, InFlight
    <3>3. ASSUME NEW e \in Cmd PROVE Awaited(e)'
      <4>1. CASE e = c
        BY <1>0, <2>0, <2>1, <3>1, <4>1 DEF Awaited, OwnAnswer, TypeOK, InFlight
      <4>2. CASE e # c
        BY <1>0, <2>0, <3>1, <4>2, AwaitedKept DEF TypeOK
      <4> QED
        BY <4>1, <4>2
    <3> QED
      BY <3>2, <3>3 DEF Tabled
  <2>2. CASE promise[c] = "rejected"
    BY <1>5, <1>6, <2>0, <2>2 DEF SendDone, Finish
  <2>3. CASE promise[c] \notin {"open", "rejected"}
    <3>1. ~timer[c]
      BY <1>0, <2>3 DEF Awaited
    <3> QED
      BY <1>3, <1>6, <2>0, <2>3, <3>1 DEF SendDone, Finish, tableVars
  <2> QED
    BY <2>1, <2>2, <2>3
<1>7. ASSUME NEW c \in Cmd, SendFail(c) PROVE Tabled'
  BY <1>5, <1>7 DEF SendFail, Finish
<1>8. ASSUME NEW c \in Cmd, TimeOut(c) PROVE Tabled'
  <2>1. /\ timer[c] /\ timer' = [timer EXCEPT ![c] = FALSE]
        /\ pending' = [pending EXCEPT ![id[c]] = None]
        /\ promise' = [promise EXCEPT ![c] = "rejected"]
        /\ Return(Waiting({c}), FALSE) /\ UNCHANGED owed
    BY <1>8 DEF TimeOut, Finish
  <2>2. id[c] \in Id /\ pending[id[c]] = c
    BY <1>0, <2>1 DEF Awaited
  <2>3. \A e \in Cmd : e \notin {c} => \A i \in Id : pending[i] = e => pending'[i] = e
    BY <2>1, <2>2 DEF TypeOK
  <2>4. \A e \in Cmd : e \in {c} => timer'[e] = FALSE /\ promise'[e] = "rejected"
    BY <2>1 DEF TypeOK
  <2>5. \A e \in Cmd : e \notin {c} => timer'[e] = timer[e] /\ promise'[e] = promise[e]
    BY <2>1 DEF TypeOK
  <2>6. Strikes({c}, "rejected")
    BY <2>1, <2>3, <2>4, <2>5 DEF Strikes
  <2> QED
    BY <2>1, <2>6, StruckTabled
<1>9. ASSUME NEW o \in owed, NEW i \in Id, Receive(o, i) PROVE Tabled'
  <2> DEFINE k == AnswerTo[Script[o.cmd][o.step]]
             S == Targets(i, k)
  <2>1. /\ owed' = owed \ {o} /\ (EchoIds => i = o.id)
        /\ pending' = [j \in Id |-> IF pending[j] \in S THEN None ELSE pending[j]]
        /\ timer' = [c \in Cmd |-> timer[c] /\ c \notin S]
        /\ promise' = [c \in Cmd |-> IF c \in S THEN "ok" ELSE promise[c]]
        /\ Return(Waiting(S), TRUE)
    BY <1>9 DEF Receive, Finish
  <2>2. S \in SUBSET Cmd
    BY OneTarget
  <2>3. ASSUME NEW c \in Cmd, c \notin S, phase[c] \in InFlight, promise[c] = "open",
               EchoIds, OwnAnswer(c) \in owed
        PROVE  OwnAnswer(c) # o
    <3>1. pending[id[c]] = c /\ c # None
      BY <1>0, <2>3, NoneAssumption DEF Awaited
    <3>2. ASSUME OwnAnswer(c) = o PROVE FALSE
      <4>1. o.cmd = c /\ o.step = step[c] /\ i = id[c]
        BY <2>1, <2>3, <3>2 DEF OwnAnswer
      <4>2. k = AnswerTo[Request(c)]
        BY <4>1 DEF Request
      <4>3. c \in Compatible(k)
        BY <3>1, <4>1, <4>2 DEF Compatible
      <4> QED
        BY <2>3, <3>1, <4>1, <4>3 DEF Targets
    <3> QED
      BY <3>2
  <2> HIDE DEF S, k
  <2>4. \A c \in Cmd : c \in S => timer'[c] = FALSE /\ promise'[c] = "ok"
    BY <2>1
  <2>5. \A c \in Cmd : c \notin S => timer'[c] = timer[c]
    BY <1>0, <2>1, Zenon
  <2>6. \A c \in Cmd : c \notin S => /\ promise'[c] = promise[c]
                                     /\ \A j \in Id : pending[j] = c => pending'[j] = c
    BY <2>1
  <2>7. Strikes(S, "ok")
    BY <2>1, <2>2, <2>3, <2>4, <2>5, <2>6 DEF Strikes
  <2> QED
    BY <2>1, <2>2, <2>7, StruckTabled
<1>10. ASSUME RejectAll, owed' = owed \/ (owed' = {} /\ link' = "down") PROVE Tabled'
  <2> DEFINE S == {pending[i] : i \in Id} \ {None}
  <2>0. S \in SUBSET Cmd
    BY DEF TypeOK
  <2>1. /\ timer' = [c \in Cmd |-> timer[c] /\ c \notin S]
        /\ promise' = [c \in Cmd |-> IF c \in S THEN "rejected" ELSE promise[c]]
        /\ Return(Waiting(S), FALSE)
    BY <1>10, Zenon DEF RejectAll
  <2>2. \A c \in Cmd : c \notin S => \A i \in Id : pending[i] # c
    BY NoneAssumption
  <2>3. \A c \in Cmd : c \notin S => ~(phase[c] \in InFlight /\ promise[c] = "open")
    BY <1>0, <2>2 DEF Awaited
  <2> HIDE DEF S
  <2>4. \A c \in Cmd : c \in S => timer'[c] = FALSE /\ promise'[c] = "rejected"
    BY <2>1
  <2>5. \A c \in Cmd : c \notin S => timer'[c] = timer[c]
    BY <1>0, <2>1, Zenon
  <2>6. \A c \in Cmd : c \notin S => promise'[c] = promise[c]
    BY <2>1
  <2>7. Strikes(S, "rejected")
    BY <2>0, <2>2, <2>3, <2>4, <2>5, <2>6 DEF Strikes
  <2> QED
    BY <2>0, <2>1, <2>7, StruckTabled
<1>11. CASE CloseEvent \/ ForceReconnect \/ Disconnect
  BY <1>10, <1>11 DEF CloseEvent, ForceReconnect, Disconnect
<1>12. CASE LinkCloses \/ Reopen \/ UNCHANGED vars
  <2>1. UNCHANGED <<callVars, tableVars, owed>>
    BY <1>12 DEF LinkCloses, Reopen, vars
  <2> QED
    BY <1>0, <2>1 DEF Tabled, Apart, Awaited, OwnAnswer, callVars, tableVars
<1> QED
  BY <1>1, <1>2, <1>4, <1>6, <1>7, <1>8, <1>9, <1>11, <1>12 DEF Next, CallStep

LEMMA TabledInvariant == UniqueIds => (Spec => []Tabled)
<1> SUFFICES ASSUME UniqueIds PROVE Spec => []Tabled
  OBVIOUS
<1>1. Init => TypeOK /\ EntryIsLive /\ Tabled
  BY TypeInit, NoneAssumption
     DEF Init, EntryIsLive, Tabled, Apart, Awaited, InFlight
<1>2. TypeOK /\ EntryIsLive /\ Tabled /\ [Next]_vars
          => (TypeOK /\ EntryIsLive /\ Tabled)'
  BY TypeNext, EntryNext, TabledNext
<1> QED
  BY <1>1, <1>2, PTL DEF Spec

\* As long as ids do not collide, no call waits without a timeout.
THEOREM NeverStrandedCorrect == UniqueIds => (Spec => []NeverStranded)
<1>1. Tabled => NeverStranded
  BY DEF Tabled, Awaited, NeverStranded, InFlight
<1> QED
  BY <1>1, TabledInvariant, PTL

\* And if the panel echoes them, the answer a call waits for is never dropped.
THEOREM AnswerNotLostCorrect == UniqueIds /\ EchoIds => (Spec => []AnswerNotLost)
<1> SUFFICES ASSUME UniqueIds, EchoIds PROVE Spec => []AnswerNotLost
  OBVIOUS
<1>1. Tabled => AnswerNotLost
  BY DEF Tabled, Awaited, AnswerNotLost
<1>2. Spec => []Tabled
  BY TabledInvariant
<1> QED
  BY <1>1, <1>2, PTL
-----------------------------------------------------------------------------
(* One request of a device at a time: when the socket opens again, nothing *)
(* is left of the calls whose queue disconnect() has forgotten.            *)

\* Every set of natural numbers has a least element.
LEMMA Least ==
    ASSUME NEW T \in SUBSET Nat, T # {}
    PROVE  \E n \in T : \A k \in T : ~(k < n)
<1> DEFINE R == StrictSubsetOrdering(Nat)
           I == {0..n : n \in T}
<1>1. I \subseteq FiniteSubsetsOf(Nat) /\ I # {}
  <2>1. ASSUME NEW n \in T PROVE 0..n \in SUBSET Nat /\ IsFiniteSet(0..n)
    <3>1. n \in Int /\ 0 \in Int
      OBVIOUS
    <3> QED
      BY <3>1, FS_Interval
  <2> QED
    BY <2>1 DEF FiniteSubsetsOf
<1>2. PICK x \in I : \A y \in I : <<y, x>> \notin R
  BY <1>1, FS_StrictSubsetOrderingWellFounded, WFMin
<1>3. PICK n \in T : x = 0..n
  OBVIOUS
<1>4. ASSUME NEW k \in T, k < n PROVE <<0..k, 0..n>> \in R
  <2>1. 0..k \subseteq 0..n /\ n \in 0..n /\ n \notin 0..k
    BY <1>4
  <2>2. 0..k \in SUBSET Nat /\ 0..n \in SUBSET Nat /\ 0..k # 0..n
    BY <2>1
  <2> QED
    BY <2>1, <2>2 DEF StrictSubsetOrdering
<1> QED
  BY <1>2, <1>3, <1>4

\* A call is chained to one made before it.
Earlier ==
    /\ \A c \in Cmd : phase[c] # "new" => order[c] < clock
    /\ \A d \in Device : tail[d] # None => phase[tail[d]] # "new"
    /\ \A c \in Cmd : phase[c] = "queued" /\ pred[c] # None =>
            phase[pred[c]] # "new" /\ order[pred[c]] < order[c]

LEMMA LinesShrink ==
    ASSUME TypeOK, [Next]_vars, \A c \in Cmd : ~Call(c)
    PROVE  pred' = pred /\ \A d \in Device : tail'[d] \in {tail[d], None}
<1>1. ASSUME NEW S, NEW ok, Finish(S, ok)
      PROVE  pred' = pred /\ \A d \in Device : tail'[d] \in {tail[d], None}
  BY <1>1 DEF Finish, Return, Finally
<1>2. ASSUME NEW c \in Cmd, CallStep(c)
      PROVE  pred' = pred /\ \A d \in Device : tail'[d] \in {tail[d], None}
  <2>1. CASE \E i \in Id : Issue(c, i)
    BY <2>1 DEF Issue, lineVars
  <2>2. CASE IssueFails(c) \/ SkipPrime(c) \/ SendFail(c) \/ TimeOut(c)
    BY <1>1, <2>2 DEF IssueFails, SkipPrime, SendFail, TimeOut
  <2>3. CASE SendDone(c)
    <3>1. CASE promise[c] = "open"
      BY <2>3, <3>1 DEF SendDone, lineVars
    <3>2. CASE promise[c] # "open"
      BY <1>1, <2>3, <3>2 DEF SendDone
    <3> QED
      BY <3>1, <3>2
  <2> QED
    BY <1>2, <2>1, <2>2, <2>3 DEF CallStep
<1>3. ASSUME NEW o \in owed, NEW i \in Id, Receive(o, i)
      PROVE  pred' = pred /\ \A d \in Device : tail'[d] \in {tail[d], None}
  BY <1>1, <1>3 DEF Receive
<1>4. CASE CloseEvent \/ ForceReconnect \/ Disconnect
  BY <1>4 DEF CloseEvent, ForceReconnect, Disconnect, RejectAll, Return, Finally
<1>5. CASE LinkCloses \/ Reopen \/ UNCHANGED vars
  BY <1>5 DEF LinkCloses, Reopen, lineVars, vars
<1> QED
  BY <1>2, <1>3, <1>4, <1>5 DEF Next

LEMMA EarlierNext ==
    ASSUME TypeOK, Chain, Earlier, [Next]_vars
    PROVE  Earlier'
<1>1. ASSUME NEW c \in Cmd, Call(c) PROVE Earlier'
  <2>1. /\ phase' = [phase EXCEPT ![c] = "queued"] /\ order' = [order EXCEPT ![c] = clock]
        /\ pred' = [pred EXCEPT ![c] = ChainTo(c)] /\ clock' = clock + 1 /\ phase[c] = "new"
        /\ tail' = IF DeviceOf[c] = None THEN tail ELSE [tail EXCEPT ![DeviceOf[c]] = c]
    BY <1>1 DEF Call
  <2>2. \A e \in Cmd : phase'[e] # "new" => order'[e] < clock'
    BY <2>1 DEF Earlier, TypeOK
  <2>3. \A d \in Device : tail'[d] # None => phase'[tail'[d]] # "new"
    BY <2>1, DeviceAssumption DEF Earlier, TypeOK
  <2>4. ASSUME NEW e \in Cmd, phase'[e] = "queued", pred'[e] # None
        PROVE  phase'[pred'[e]] # "new" /\ order'[pred'[e]] < order'[e]
    <3>1. CASE e = c
      <4>1. PICK p : p = ChainTo(c)
        OBVIOUS
      <4>2. pred'[c] = p /\ p # None
        BY <2>1, <2>4, <3>1, <4>1 DEF TypeOK
      <4>3. DeviceOf[c] # None /\ p = tail[DeviceOf[c]]
        BY <4>1, <4>2 DEF ChainTo
      <4>4. DeviceOf[c] \in Device
        BY <4>3, DeviceAssumption
      <4>5. p \in Cmd /\ phase[p] # "new" /\ order[p] < clock
        <5>1. PICK d \in Device : d = DeviceOf[c]
          BY <4>4
        <5>2. p = tail[d] /\ tail[d] # None
          BY <4>2, <4>3, <5>1
        <5>3. p \in Cmd /\ phase[p] # "new"
          BY <5>1, <5>2 DEF Earlier, TypeOK
        <5> QED
          BY <5>3 DEF Earlier
      <4>6. p # c
        BY <2>1, <4>5
      <4>7. phase'[p] = phase[p] /\ order'[p] = order[p] /\ order'[c] = clock
        BY <2>1, <4>5, <4>6 DEF TypeOK
      <4>8. pred'[e] = p /\ order'[e] = clock
        BY <3>1, <4>2, <4>7
      <4> QED
        BY <4>5, <4>7, <4>8
    <3>2. CASE e # c
      BY <2>1, <2>4, <3>2 DEF Earlier, TypeOK
    <3> QED
      BY <3>1, <3>2
  <2> QED
    BY <2>2, <2>3, <2>4 DEF Earlier
<1>2. ASSUME \A c \in Cmd : ~Call(c) PROVE Earlier'
  <2>1. Moves /\ UNCHANGED <<order, clock>>
    BY <1>2, StepMoves
  <2>2. ASSUME NEW c \in Cmd
        PROVE  /\ phase[c] # "new" => phase'[c] # "new"
               /\ phase'[c] # "new" => phase[c] # "new"
               /\ phase'[c] = "queued" => phase[c] = "queued"
    BY <2>1 DEF Moves, Active, Running, InFlight, Settled
  <2>3. pred' = pred /\ \A d \in Device : tail'[d] \in {tail[d], None}
    BY <1>2, LinesShrink
  <2>4. order' = order /\ clock' = clock /\ pred' = pred
    BY <2>1, <2>3
  <2>5. \A d \in Device : tail'[d] # None => phase'[tail'[d]] # "new"
    <3> SUFFICES ASSUME NEW d \in Device, tail'[d] # None PROVE phase'[tail'[d]] # "new"
      OBVIOUS
    <3>1. PICK e : e = tail'[d]
      OBVIOUS
    <3>2. e = tail[d] /\ e \in Cmd /\ phase[e] # "new"
      BY <2>3, <3>1 DEF Earlier, TypeOK
    <3>3. phase'[e] # "new"
      BY <2>2, <3>2
    <3> QED
      BY <3>1, <3>3
  <2>6. ASSUME NEW e \in Cmd, phase'[e] = "queued", pred'[e] # None
        PROVE  phase'[pred'[e]] # "new" /\ order'[pred'[e]] < order'[e]
    <3>1. PICK p : p = pred[e]
      OBVIOUS
    <3>2. phase[e] = "queued" /\ p # None /\ p \in Cmd
      <4>1. phase[e] = "queued"
        BY <2>2, <2>6
      <4>2. p # None
        BY <2>4, <2>6, <3>1
      <4> QED
        BY <3>1, <4>1, <4>2 DEF TypeOK
    <3>3. phase[p] # "new" /\ order[p] < order[e]
      BY <3>1, <3>2 DEF Earlier
    <3>4. phase'[p] # "new"
      BY <2>2, <3>2, <3>3
    <3>5. pred'[e] = p /\ order'[p] = order[p] /\ order'[e] = order[e]
      BY <2>4, <3>1
    <3> QED
      BY <3>3, <3>4, <3>5
  <2>7. \A e \in Cmd : phase'[e] # "new" => order'[e] < clock'
    BY <2>2, <2>4 DEF Earlier
  <2> QED
    BY <2>5, <2>6, <2>7 DEF Earlier
<1> QED
  BY <1>1, <1>2

\* When no continuation is due and no call is running, none is queued either.
LEMMA NobodyQueued ==
    ASSUME TypeOK, Earlier, Quiet, \A c \in Cmd : phase[c] \notin Running
    PROVE  \A c \in Cmd : ~Active(c)
<1> DEFINE T == {order[c] : c \in {e \in Cmd : phase[e] = "queued"}}
<1> SUFFICES ASSUME T # {} PROVE FALSE
  BY DEF Active
<1>1. T \in SUBSET Nat
  BY DEF TypeOK
<1>2. PICK n \in T : \A k \in T : ~(k < n)
  BY <1>1, Least
<1>3. PICK c \in Cmd : phase[c] = "queued" /\ order[c] = n
  OBVIOUS
<1>4. pred[c] # None /\ pred[c] \in Cmd /\ phase[pred[c]] \notin Settled
  BY <1>3 DEF Quiet, Ready, TypeOK
<1>5. phase[pred[c]] = "queued" /\ order[pred[c]] < n
  BY <1>3, <1>4 DEF Earlier, TypeOK, Phase
<1> QED
  BY <1>2, <1>4, <1>5

\* A request goes out only by Issue, and only while the socket is open.
LEMMA InFlightSteps ==
    ASSUME TypeOK, [Next]_vars, NEW c \in Cmd, phase'[c] \in InFlight
    PROVE  \/ phase[c] \in InFlight
           \/ /\ \E i \in Id : Issue(c, i)
              /\ link = "open" /\ link' = link /\ orphaned' = orphaned /\ order' = order
              /\ \A e \in Cmd : e # c => phase'[e] = phase[e]
<1>1. ASSUME NEW S \in SUBSET Cmd, NEW ok \in BOOLEAN, Return(S, ok) PROVE phase[c] \in InFlight
  BY <1>1, ReturnOf DEF InFlight, Settled
<1>2. ASSUME NEW e \in Cmd, NEW i \in Id, Issue(e, i), e # c PROVE phase[c] \in InFlight
  BY <1>2 DEF Issue, TypeOK
<1>3. ASSUME NEW i \in Id, Issue(c, i)
      PROVE  /\ link = "open" /\ link' = link /\ orphaned' = orphaned /\ order' = order
             /\ \A e \in Cmd : e # c => phase'[e] = phase[e]
  BY <1>3 DEF Issue, lineVars, TypeOK
<1>4. ASSUME NEW e \in Cmd, Call(e) PROVE phase[c] \in InFlight
  BY <1>4 DEF Call, TypeOK, InFlight
<1>5. ASSUME NEW e \in Cmd, IssueFails(e) \/ SkipPrime(e) \/ SendFail(e) PROVE phase[c] \in InFlight
  BY <1>1, <1>5 DEF IssueFails, SkipPrime, SendFail, Finish
<1>6. ASSUME NEW e \in Cmd, SendDone(e) PROVE phase[c] \in InFlight
  <2>1. CASE promise[e] = "open"
    BY <1>6, <2>1 DEF SendDone, TypeOK, InFlight
  <2>2. CASE promise[e] # "open"
    BY <1>1, <1>6, <2>2 DEF SendDone, Finish
  <2> QED
    BY <2>1, <2>2
<1>7. ASSUME NEW e \in Cmd, TimeOut(e) PROVE phase[c] \in InFlight
  <2>1. Return(Waiting({e}), FALSE) /\ Waiting({e}) \in SUBSET Cmd
    BY <1>7 DEF TimeOut, Finish, Waiting
  <2> QED
    BY <1>1, <2>1
<1>8. ASSUME NEW o \in owed, NEW i \in Id, Receive(o, i) PROVE phase[c] \in InFlight
  <2> DEFINE S == Targets(i, AnswerTo[Script[o.cmd][o.step]])
  <2>1. Return(Waiting(S), TRUE)
    BY <1>8 DEF Receive, Finish
  <2>2. Waiting(S) \in SUBSET Cmd
    BY DEF Targets, Compatible, Sole, TypeOK, Waiting
  <2> QED
    BY <1>1, <2>1, <2>2
<1>9. CASE CloseEvent \/ ForceReconnect \/ Disconnect
  <2> DEFINE S == {pending[i] : i \in Id} \ {None}
  <2>1. Return(Waiting(S), FALSE)
    BY <1>9 DEF CloseEvent, ForceReconnect, Disconnect, RejectAll
  <2>2. Waiting(S) \in SUBSET Cmd
    BY DEF TypeOK, Waiting
  <2> QED
    BY <1>1, <2>1, <2>2
<1>10. CASE LinkCloses \/ Reopen \/ UNCHANGED vars
  BY <1>10 DEF LinkCloses, Reopen, callVars, vars
<1> QED
  BY <1>2, <1>3, <1>4, <1>5, <1>6, <1>7, <1>8, <1>9, <1>10 DEF Next, CallStep

\* Nothing is on a wire that is down, and of the forgotten calls none is left on one
\* that is open again.
Linked ==
    /\ link = "down" => \A c \in Cmd : phase[c] \notin InFlight
    /\ link = "open" => \A c \in orphaned : ~Active(c)

LEMMA LinkedNext ==
    ASSUME TypeOK, Chain, Earlier, Tabled, Linked, [Next]_vars
    PROVE  Linked'
<1>1. CASE CloseEvent
  <2> DEFINE S == {pending[i] : i \in Id} \ {None}
  <2>1. Return(Waiting(S), FALSE) /\ link' = "down" /\ \A c \in Cmd : phase[c] # "sending"
    BY <1>1 DEF CloseEvent, RejectAll
  <2>2. Waiting(S) \in SUBSET Cmd
    BY DEF TypeOK, Waiting
  <2>3. ASSUME NEW c \in Cmd PROVE phase'[c] \notin InFlight
    <3>1. CASE phase[c] = "waiting"
      <4>1. pending[id[c]] = c /\ id[c] \in Id
        BY <3>1 DEF Tabled, Awaited, InFlight, TypeOK
      <4>2. c \in Waiting(S)
        BY <3>1, <4>1, NoneAssumption DEF Waiting
      <4> QED
        BY <2>1, <2>2, <4>2, ReturnOf DEF InFlight, Settled
    <3>2. CASE phase[c] # "waiting"
      BY <1>1, <2>1, <3>2, InFlightSteps DEF InFlight, Issue, CloseEvent
    <3> QED
      BY <3>1, <3>2
  <2> QED
    BY <2>1, <2>3 DEF Linked
<1>2. CASE Reopen
  <2>1. /\ Quiet /\ link = "down" /\ UNCHANGED <<callVars, lineVars>>
        /\ \A c \in Cmd : phase[c] \notin Running
    BY <1>2 DEF Reopen, Linked, Quiet, Running
  <2>2. \A c \in Cmd : ~Active(c)
    BY <2>1, NobodyQueued
  <2> QED
    BY <1>2, <2>1, <2>2 DEF Reopen, Linked, Active, callVars, lineVars, TypeOK
<1>3. CASE Disconnect
  <2>1. link' # "open" /\ (link' = "down" => link = "down") /\ ~\E c \in Cmd, i \in Id : Issue(c, i)
    BY <1>3 DEF Disconnect, Issue, Quiet, CanRun, TypeOK
  <2> QED
    BY <2>1, InFlightSteps DEF Linked
<1>4. ASSUME ~CloseEvent, ~Reopen, ~Disconnect PROVE Linked'
  <2>1. link' = link \/ link' = "closing"
    BY <1>4 DEF Next, CallStep, Call, Issue, IssueFails, SkipPrime, SendDone, SendFail, TimeOut,
                Receive, LinkCloses, ForceReconnect, vars
  <2>2. ASSUME link' = "down" PROVE \A c \in Cmd : phase'[c] \notin InFlight
    BY <2>1, <2>2, InFlightSteps DEF Linked
  <2>3. ASSUME link' = "open", NEW c \in orphaned' PROVE ~Active(c)'
    <3>1. orphaned' = orphaned
      BY <1>4 DEF Next, CallStep, Call, Issue, IssueFails, SkipPrime, SendDone, SendFail, TimeOut,
                  Receive, LinkCloses, ForceReconnect, CloseEvent, Finish, lineVars, vars
    <3>2. c \in Cmd /\ ~Active(c) /\ phase[c] # "new"
      BY <2>1, <2>3, <3>1 DEF Linked, Chain, Numbered, TypeOK
    <3>3. phase'[c] = phase[c]
      <4>1. CASE \E e \in Cmd : Call(e)
        BY <3>2, <4>1 DEF Call, TypeOK
      <4>2. CASE Moves
        BY <3>2, <4>2 DEF Moves
      <4> QED
        BY <4>1, <4>2, StepMoves
    <3> QED
      BY <3>2, <3>3 DEF Active
  <2> QED
    BY <2>2, <2>3 DEF Linked
<1> QED
  BY <1>1, <1>2, <1>3, <1>4

LEMMA OneInFlightNext ==
    ASSUME TypeOK, Chain, Linked, OneInFlight, [Next]_vars
    PROVE  OneInFlight'
<1>1. ASSUME NEW c \in Cmd, NEW e \in Cmd, c # e, DeviceOf[c] = DeviceOf[e], DeviceOf[c] # None,
             phase'[c] \in InFlight, phase[c] \notin InFlight, phase[e] \in InFlight
      PROVE  FALSE
  <2>1. link = "open" /\ \E i \in Id : Issue(c, i)
    BY <1>1, InFlightSteps
  <2>2. Active(c) /\ Front(c)
    BY <2>1, RunnersInFront DEF Issue, CanRun, Running, InFlight
  <2>3. Active(e) /\ Front(e)
    BY <1>1, RunnersInFront DEF Running
  <2>4. c \notin orphaned /\ e \notin orphaned
    BY <2>1, <2>2, <2>3 DEF Linked
  <2>5. DeviceOf[c] \in Device
    BY <1>1, DeviceAssumption
  <2>6. order[c] \in Nat /\ order[e] \in Nat /\ order[c] # order[e]
    BY <1>1, <2>2, <2>3 DEF Chain, Numbered, TypeOK
  <2>7. order[c] < order[e] \/ order[e] < order[c]
    BY <2>6
  <2> QED
    BY <1>1, <2>2, <2>3, <2>4, <2>5, <2>7 DEF Front, Ahead
<1>2. ASSUME NEW c \in Cmd, NEW e \in Cmd, c # e, DeviceOf[c] = DeviceOf[e], DeviceOf[c] # None,
             phase'[c] \in InFlight, phase'[e] \in InFlight
      PROVE  FALSE
  <2>1. CASE phase[c] \in InFlight /\ phase[e] \in InFlight
    BY <1>2, <2>1 DEF OneInFlight
  <2>2. CASE phase[c] \notin InFlight
    <3>1. phase'[e] = phase[e]
      BY <1>2, <2>2, InFlightSteps
    <3> QED
      BY <1>1, <1>2, <2>2, <3>1
  <2>3. CASE phase[e] \notin InFlight
    <3>1. phase'[c] = phase[c]
      BY <1>2, <2>3, InFlightSteps
    <3> QED
      BY <1>1, <1>2, <2>3, <3>1
  <2> QED
    BY <2>1, <2>2, <2>3
<1> QED
  BY <1>2 DEF OneInFlight

\* As long as ids do not collide, a device never has two requests on the wire, not even
\* when disconnect() has forgotten the queue of a call that is still running: its
\* command must have failed before a socket is open again.
THEOREM OneInFlightCorrect == UniqueIds => (Spec => []OneInFlight)
<1> SUFFICES ASSUME UniqueIds PROVE Spec => []OneInFlight
  OBVIOUS
<1>1. Init => TypeOK /\ Chain /\ Earlier /\ Linked /\ OneInFlight
  BY TypeInit, ChainInit DEF Init, Earlier, Linked, OneInFlight, InFlight
<1>2. TypeOK /\ Chain /\ Earlier /\ Linked /\ OneInFlight /\ Tabled /\ [Next]_vars
          => (TypeOK /\ Chain /\ Earlier /\ Linked /\ OneInFlight)'
  BY TypeNext, ChainNext, EarlierNext, LinkedNext, OneInFlightNext
<1>3. Spec => []Tabled
  BY TabledInvariant
<1> QED
  BY <1>1, <1>2, <1>3, PTL DEF Spec
=============================================================================
