------------------------ MODULE ThermostatWrite_proofs ------------------------
(***************************************************************************)
(* What ThermostatWrite keeps for every installation, every number of      *)
(* outputs and commands, and any number of faults.                         *)
(***************************************************************************)
EXTENDS ThermostatWrite, TLAPS, SequenceTheorems

-----------------------------------------------------------------------------
(* Sequences of messages, of whose configurations nothing is assumed       *)

Box(q) == \E S : q \in Seq(S)

LEMMA EmptyBox == Box(<<>>)
<1>1. <<>> \in Seq({})
  OBVIOUS
<1> QED
  BY <1>1 DEF Box

LEMMA BoxLength ==
  ASSUME NEW q, Box(q)
  PROVE  Len(q) \in Nat /\ DOMAIN q = 1..Len(q)
BY DEF Box

LEMMA BoxAppend ==
  ASSUME NEW q, Box(q), NEW m
  PROVE  /\ Box(Append(q, m))
         /\ DOMAIN Append(q, m) = DOMAIN q \cup {Len(q) + 1} /\ Len(q) + 1 \notin DOMAIN q
         /\ \A n \in DOMAIN q : Append(q, m)[n] = q[n]
         /\ Append(q, m)[Len(q) + 1] = m
<1>1. PICK S : q \in Seq(S)
  BY DEF Box
<1>2. q \in Seq(S \cup {m})
  BY <1>1
<1>3. /\ Append(q, m) \in Seq(S \cup {m}) /\ Len(Append(q, m)) = Len(q) + 1
      /\ Append(q, m)[Len(q) + 1] = m /\ \A n \in 1..Len(q) : Append(q, m)[n] = q[n]
  BY <1>2
<1>4. Box(Append(q, m))
  BY <1>3 DEF Box
<1>5. DOMAIN Append(q, m) = 1..(Len(q) + 1) /\ DOMAIN q = 1..Len(q) /\ Len(q) \in Nat
  BY <1>3, <1>2
<1>6. DOMAIN Append(q, m) = DOMAIN q \cup {Len(q) + 1} /\ Len(q) + 1 \notin DOMAIN q
  BY <1>5
<1> QED
  BY <1>3, <1>4, <1>5, <1>6

LEMMA BoxTail ==
  ASSUME NEW q, Box(q), q # <<>>
  PROVE  /\ Box(Tail(q))
         /\ 1 \in DOMAIN q /\ Head(q) = q[1]
         /\ \A n \in DOMAIN Tail(q) : n \in Int /\ n + 1 \in DOMAIN q /\ n + 1 > 1 /\ Tail(q)[n] = q[n + 1]
         /\ \A n \in DOMAIN q : n \in Int /\ (n # 1 => n - 1 \in DOMAIN Tail(q) /\ Tail(q)[n - 1] = q[n])
<1>1. PICK S : q \in Seq(S)
  BY DEF Box
<1>2. /\ Tail(q) \in Seq(S) /\ Len(Tail(q)) = Len(q) - 1 /\ Len(q) \in Nat \ {0}
      /\ \A n \in 1..(Len(q) - 1) : Tail(q)[n] = q[n + 1]
  BY <1>1
<1>3. DOMAIN Tail(q) = 1..(Len(q) - 1) /\ DOMAIN q = 1..Len(q)
  BY <1>1, <1>2
<1>4. Head(q) = q[1]
  BY <1>1
<1> QED
  BY <1>2, <1>3, <1>4 DEF Box

-----------------------------------------------------------------------------
(* Types                                                                   *)

Stage == Unfinished \cup {"idle", "resolving", "reading", "readLate", "done", "failed"}

IsMessage(m) ==
    /\ m = [call |-> m.call, op |-> m.op, id |-> m.id, config |-> m.config]
    /\ m.call \in Call

CallTypes == pc \in [Call -> Stage] /\ queue \in [Output -> Seq(Call)]

MailTypes ==
    /\ Box(inbox) /\ \A n \in DOMAIN inbox : IsMessage(inbox[n])
    /\ Box(outbox) /\ \A n \in DOMAIN outbox : IsMessage(outbox[n])

MapTypes ==
    /\ entries = [i \in Entry |-> entries[i]] /\ \A i \in Entry : Field \subseteq DOMAIN entries[i]
    /\ cfg = [i \in Id |-> cfg[i]]
    /\ hint \in [Id -> Season \cup {None}]
    /\ target = [c \in Call |-> target[c]] /\ payload = [c \in Call |-> payload[c]]
    /\ faults \in Nat

\* Less than TypeOK says: nothing of what configurations hold (see Holdings).
Types == CallTypes /\ MailTypes /\ MapTypes

LEMMA RequestIsMessage ==
  ASSUME NEW c \in Call, NEW op, NEW i, NEW p
  PROVE  /\ IsMessage(Request(c, op, i, p))
         /\ Request(c, op, i, p).call = c /\ Request(c, op, i, p).op = op
         /\ Request(c, op, i, p).id = i /\ Request(c, op, i, p).config = p
BY DEF IsMessage, Request

\* A message is put into a box.
LEMMA Posted ==
  ASSUME NEW q, Box(q), \A n \in DOMAIN q : IsMessage(q[n]), NEW m, IsMessage(m)
  PROVE  Box(Append(q, m)) /\ \A n \in DOMAIN Append(q, m) : IsMessage(Append(q, m)[n])
BY BoxAppend

\* The first message is taken out of a box.
LEMMA Taken ==
  ASSUME NEW q, Box(q), \A n \in DOMAIN q : IsMessage(q[n]), q # <<>>
  PROVE  /\ Box(Tail(q)) /\ \A n \in DOMAIN Tail(q) : IsMessage(Tail(q)[n])
         /\ IsMessage(Head(q))
BY BoxTail

LEMMA InitTypes == Init => Types
<1> SUFFICES ASSUME Init PROVE Types
  OBVIOUS
<1>1. CallTypes
  BY DEF Init, CallTypes, Stage
<1>2. MailTypes
  BY EmptyBox DEF Init, MailTypes
<1>3. MapTypes
  <2>1. entries \in [Entry -> Config]
    BY ConfigAssumption DEF Init
  <2>2. \A g \in Config : Field \subseteq DOMAIN g
    BY DEF Config, Field
  <2>3. entries = [i \in Entry |-> entries[i]] /\ \A i \in Entry : Field \subseteq DOMAIN entries[i]
    BY <2>1, <2>2
  <2>4. hint \in [Id -> Season \cup {None}] /\ cfg = [i \in Id |-> cfg[i]]
    BY DEF Init
  <2>5. target = [c \in Call |-> target[c]] /\ payload = [c \in Call |-> payload[c]] /\ faults \in Nat
    BY DEF Init
  <2> QED
    BY <2>3, <2>4, <2>5 DEF MapTypes
<1> QED
  BY <1>1, <1>2, <1>3 DEF Types

LEMMA OutputOf == \A c \in Call : Ask[c].output \in Output
BY AskAssumption

LEMMA HintType ==
  ASSUME hint \in [Id -> Season \cup {None}], NEW i, NEW a
  PROVE  HintAfter(i, a) \in [Id -> Season \cup {None}]
BY DEF HintAfter, Season

LEMMA EnqueueTypes ==
  ASSUME Types, NEW c \in Call, NEW i, Enqueue(c, i)
  PROVE  CallTypes' /\ hint' \in [Id -> Season \cup {None}] /\ target' = [d \in Call |-> target'[d]]
<1>1. CallTypes'
  <2>1. Append(queue[Ask[c].output], c) \in Seq(Call)
    BY OutputOf DEF Types, CallTypes
  <2>2. queue' \in [Output -> Seq(Call)]
    BY <2>1 DEF Types, CallTypes, Enqueue
  <2>3. pc' \in [Call -> Stage]
    BY DEF Types, CallTypes, Enqueue, Stage, Unfinished
  <2> QED
    BY <2>2, <2>3 DEF CallTypes
<1>2. hint' \in [Id -> Season \cup {None}]
  BY HintType DEF Types, MapTypes, Enqueue
<1>3. target' = [d \in Call |-> target'[d]]
  BY DEF Types, MapTypes, Enqueue
<1> QED
  BY <1>1, <1>2, <1>3

LEMMA AfterReadTypes ==
  ASSUME CallTypes, NEW c \in Call, NEW found, AfterRead(c, found)
  PROVE  pc' \in [Call -> Stage]
BY DEF CallTypes, AfterRead, Stage, Unfinished

LEMMA LeaveTypes ==
  ASSUME CallTypes, NEW c \in Call, NEW how \in {"done", "failed"}, Leave(c, how),
         queue[Ask[c].output] # <<>>
  PROVE  CallTypes'
<1>1. Ask[c].output \in Output
  BY OutputOf
<1>2. Tail(queue[Ask[c].output]) \in Seq(Call)
  BY <1>1 DEF CallTypes
<1> QED
  BY <1>1, <1>2 DEF CallTypes, Leave, Stage

-----------------------------------------------------------------------------
(* The line of each output                                                 *)

AtWork == {"priming", "primeLate", "ready", "writing"}

\* A command at work is at the head of its line, one that is queued is in it.
InLine(c) ==
    /\ pc[c] \in AtWork => queue[Ask[c].output] # <<>> /\ Head(queue[Ask[c].output]) = c
    /\ pc[c] = "queued" =>
          \E n \in DOMAIN queue[Ask[c].output] : queue[Ask[c].output][n] = c

Lines == \A c \in Call : InLine(c)

LEMMA LinesKept ==
  ASSUME Types, Lines, queue' = queue,
         \A c \in Call : /\ pc'[c] \in AtWork => pc[c] \in AtWork \/ (pc[c] = "queued" /\ IsNext(c))
                         /\ pc'[c] = "queued" => pc[c] = "queued"
  PROVE  Lines'
<1> SUFFICES ASSUME NEW c \in Call PROVE InLine(c)'
  BY DEF Lines
<1>1. queue[Ask[c].output] \in Seq(Call)
  BY OutputOf DEF Types, CallTypes
<1> QED
  BY <1>1 DEF Lines, InLine, IsNext

LEMMA EnqueueLines ==
  ASSUME Types, Lines, NEW c \in Call, NEW i, pc[c] = "resolving", Enqueue(c, i)
  PROVE  Lines'
<1> SUFFICES ASSUME NEW d \in Call PROVE InLine(d)'
  BY DEF Lines
<1> DEFINE o == Ask[d].output
<1>1. queue[o] \in Seq(Call) /\ queue \in [Output -> Seq(Call)] /\ o \in Output
  BY OutputOf DEF Types, CallTypes
<1>2. pc'[c] = "queued" /\ (d # c => pc'[d] = pc[d])
  BY DEF Enqueue, Types, CallTypes
<1>3. queue'[o] = IF o = Ask[c].output THEN Append(queue[o], c) ELSE queue[o]
  BY <1>1 DEF Enqueue
<1>4. CASE d # c
  <2>1. InLine(d)
    BY DEF Lines
  <2>2. queue[o] # <<>> => Append(queue[o], c) # <<>> /\ Head(Append(queue[o], c)) = Head(queue[o])
    BY <1>1
  <2>3. \A n \in DOMAIN queue[o] : n \in DOMAIN Append(queue[o], c) /\ Append(queue[o], c)[n] = queue[o][n]
    BY <1>1
  <2> QED
    BY <1>2, <1>3, <1>4, <2>1, <2>2, <2>3 DEF InLine
<1>5. CASE d = c
  <2>1. /\ Len(queue[o]) + 1 \in DOMAIN Append(queue[o], c)
        /\ Append(queue[o], c)[Len(queue[o]) + 1] = c
    BY <1>1
  <2> QED
    BY <1>2, <1>3, <1>5, <2>1 DEF InLine, AtWork
<1> QED
  BY <1>4, <1>5

LEMMA LeaveLines ==
  ASSUME Types, Lines, NEW c \in Call, NEW how \in {"done", "failed"}, pc[c] = "writing", Leave(c, how)
  PROVE  CallTypes' /\ Lines'
<1>1. queue[Ask[c].output] # <<>> /\ Head(queue[Ask[c].output]) = c
  BY DEF Lines, InLine, AtWork
<1>2. CallTypes'
  BY <1>1, LeaveTypes DEF Types
<1> SUFFICES ASSUME NEW d \in Call PROVE InLine(d)'
  BY <1>2 DEF Lines
<1> DEFINE o == Ask[d].output
<1>3. queue[o] \in Seq(Call) /\ queue \in [Output -> Seq(Call)] /\ o \in Output
  BY OutputOf DEF Types, CallTypes
<1>4. pc'[c] = how /\ (d # c => pc'[d] = pc[d])
  BY DEF Leave, Types, CallTypes
<1>5. InLine(d)
  BY DEF Lines
<1>6. CASE d = c
  BY <1>4, <1>6 DEF InLine, AtWork
<1>7. CASE o # Ask[c].output
  <2>1. queue'[o] = queue[o] /\ d # c
    BY <1>3, <1>7 DEF Leave
  <2> QED
    BY <1>4, <1>5, <2>1 DEF InLine
<1>8. CASE d # c /\ o = Ask[c].output
  <2>1. queue'[o] = Tail(queue[o])
    BY <1>3, <1>8 DEF Leave
  <2>2. pc[d] \notin AtWork
    BY <1>1, <1>5, <1>8 DEF InLine
  <2>3. ASSUME pc[d] = "queued"
        PROVE  \E n \in DOMAIN queue'[o] : queue'[o][n] = d
    <3>1. PICK n \in DOMAIN queue[o] : queue[o][n] = d
      BY <1>5, <2>3 DEF InLine
    <3>2. n # 1
      BY <1>1, <1>3, <1>8, <3>1
    <3>3. n - 1 \in DOMAIN Tail(queue[o]) /\ Tail(queue[o])[n - 1] = queue[o][n]
      <4>1. Box(queue[o]) /\ queue[o] # <<>>
        BY <1>1, <1>3, <1>8 DEF Box
      <4> QED
        BY <4>1, <3>1, <3>2, BoxTail
    <3> QED
      BY <2>1, <3>1, <3>3
  <2> QED
    BY <1>4, <1>8, <2>2, <2>3 DEF InLine
<1> QED
  BY <1>6, <1>7, <1>8

\* The first answer is a message.
LEMMA FirstAnswer ==
  ASSUME Types, outbox # <<>>
  PROVE  Head(outbox).call \in Call /\ Box(Tail(outbox))
         /\ \A n \in DOMAIN Tail(outbox) : IsMessage(Tail(outbox)[n])
BY Taken DEF Types, MailTypes, IsMessage

\* So is the first request, and it stays one when the panel answers it.
LEMMA FirstRequest ==
  ASSUME Types, inbox # <<>>
  PROVE  /\ IsMessage(Head(inbox)) /\ Box(Tail(inbox))
         /\ \A n \in DOMAIN Tail(inbox) : IsMessage(Tail(inbox)[n])
         /\ \A g : IsMessage([Head(inbox) EXCEPT !.config = g])
<1>1. IsMessage(Head(inbox)) /\ Box(Tail(inbox)) /\ \A n \in DOMAIN Tail(inbox) : IsMessage(Tail(inbox)[n])
  BY Taken DEF Types, MailTypes
<1>2. ASSUME NEW g PROVE IsMessage([Head(inbox) EXCEPT !.config = g])
  BY <1>1 DEF IsMessage
<1> QED
  BY <1>1, <1>2

LEMMA RequestPosted ==
  ASSUME Types, NEW c \in Call, NEW op, NEW i, NEW p,
         inbox' = Append(inbox, Request(c, op, i, p)), outbox' = outbox
  PROVE  MailTypes'
BY Posted, RequestIsMessage DEF Types, MailTypes

LEMMA AnswerPosted ==
  ASSUME Types, inbox # <<>>, inbox' = Tail(inbox), NEW m, IsMessage(m), outbox' = Append(outbox, m)
  PROVE  MailTypes'
BY Posted, FirstRequest DEF Types, MailTypes

\* A step of a command keeps types and lines.
LEMMA CallSteps ==
  ASSUME Types, Lines, NEW c \in Call,
         Start(c) \/ Resolve(c) \/ Run(c) \/ Build(c) \/ TimeOut(c) \/ Waited(c)
  PROVE  Types' /\ Lines'
<1> USE DEF panelVars, cacheVars, callVars, history
<1>0. CallTypes /\ MailTypes /\ MapTypes
  BY DEF Types
<1>1. CASE Start(c)
  <2>1. CallTypes'
    BY <1>0, <1>1 DEF Start, CallTypes, Stage
  <2>2. MailTypes' /\ MapTypes'
    BY <1>0, <1>1 DEF Start, MailTypes, MapTypes
  <2>3. Lines'
    BY <1>0, <1>1, LinesKept DEF Start, CallTypes, AtWork
  <2> QED
    BY <2>1, <2>2, <2>3 DEF Types
<1>2. CASE Resolve(c)
  <2>1. CASE \E i : Enqueue(c, i) /\ UNCHANGED <<inbox, outbox>>
    <3>1. PICK i : Enqueue(c, i) /\ UNCHANGED <<inbox, outbox>>
      BY <2>1
    <3>2. Lines'
      BY <1>2, <3>1, EnqueueLines DEF Resolve
    <3>3. CallTypes' /\ hint' \in [Id -> Season \cup {None}] /\ target' = [d \in Call |-> target'[d]]
      BY <3>1, EnqueueTypes
    <3>4. MailTypes'
      BY <1>0, <3>1 DEF MailTypes
    <3>5. MapTypes'
      BY <1>0, <1>2, <3>3 DEF MapTypes, Resolve
    <3> QED
      BY <3>2, <3>3, <3>4, <3>5 DEF Types
  <2>2. CASE /\ pc' = [pc EXCEPT ![c] = "reading"]
             /\ inbox' = Append(inbox, Request(c, "READ", Head(todo[c]), <<>>))
             /\ UNCHANGED <<target, hint, queue, commandId>>
    <3>1. MailTypes'
      BY <1>2, <2>2, RequestPosted DEF Resolve
    <3>2. CallTypes' /\ MapTypes'
      BY <1>0, <1>2, <2>2 DEF Resolve, CallTypes, MapTypes, Stage
    <3>3. Lines'
      BY <1>0, <2>2, LinesKept DEF CallTypes, AtWork
    <3> QED
      BY <3>1, <3>2, <3>3 DEF Types
  <2> QED
    BY <1>2, <2>1, <2>2 DEF Resolve
<1>3. CASE Run(c)
  <2>1. MailTypes'
    <3>1. CASE inbox' = inbox
      BY <1>0, <1>3, <3>1 DEF Run, MailTypes
    <3>2. CASE inbox' = Append(inbox, Request(c, "READ", target[c], <<>>))
      BY <1>3, <3>2, RequestPosted DEF Run
    <3> QED
      BY <1>3, <3>1, <3>2 DEF Run
  <2>2. CallTypes' /\ MapTypes'
    BY <1>0, <1>3 DEF Run, CallTypes, MapTypes, Stage, Unfinished
  <2>3. Lines'
    BY <1>0, <1>3, LinesKept DEF Run, CallTypes, AtWork
  <2> QED
    BY <2>1, <2>2, <2>3 DEF Types
<1>4. CASE Build(c)
  <2>1. MailTypes'
    BY <1>4, RequestPosted DEF Build
  <2>2. CallTypes'
    BY <1>0, <1>4 DEF Build, CallTypes, Stage, Unfinished
  <2>3. MapTypes'
    BY <1>0, <1>4 DEF Build, MapTypes
  <2>4. Lines'
    BY <1>0, <1>4, LinesKept DEF Build, CallTypes, AtWork
  <2> QED
    BY <2>1, <2>2, <2>3, <2>4 DEF Types
<1>5. CASE TimeOut(c)
  <2>1. MailTypes' /\ MapTypes'
    BY <1>0, <1>5 DEF TimeOut, Fault, MailTypes, MapTypes
  <2>2. CASE pc[c] = "writing" /\ Leave(c, "failed")
    BY <2>1, <2>2, LeaveLines DEF Types
  <2>3. CASE /\ pc[c] \in {"reading", "priming"}
             /\ pc' = [pc EXCEPT ![c] = IF @ = "reading" THEN "readLate" ELSE "primeLate"]
             /\ UNCHANGED <<queue, behind>>
    <3>1. CallTypes'
      BY <1>0, <2>3 DEF CallTypes, Stage, Unfinished
    <3>2. Lines'
      BY <1>0, <2>3, LinesKept DEF CallTypes, AtWork
    <3> QED
      BY <2>1, <3>1, <3>2 DEF Types
  <2> QED
    BY <1>5, <2>2, <2>3 DEF TimeOut
<1>6. CASE Waited(c)
  <2>1. MailTypes' /\ MapTypes'
    BY <1>0, <1>6 DEF Waited, MailTypes, MapTypes
  <2>2. PICK found : AfterRead(c, found)
    BY <1>6 DEF Waited
  <2>3. CallTypes'
    BY <1>0, <1>6, <2>2, AfterReadTypes DEF Waited, CallTypes
  <2>4. Lines'
    BY <1>0, <1>6, <2>2, LinesKept DEF Waited, AfterRead, CallTypes, AtWork
  <2> QED
    BY <2>1, <2>3, <2>4 DEF Types
<1> QED
  BY <1>1, <1>2, <1>3, <1>4, <1>5, <1>6

\* What a write contains comes first, the rest of the entry stays.
LEMMA Merged ==
  ASSUME NEW p, NEW g
  PROVE  /\ DOMAIN Onto(p, g) = DOMAIN p \cup DOMAIN g
         /\ \A f \in DOMAIN p : Onto(p, g)[f] = p[f]
         /\ \A f \in DOMAIN g \ DOMAIN p : Onto(p, g)[f] = g[f]
BY DEF Onto

\* A step of the panel keeps types and lines.
LEMMA PanelSteps ==
  ASSUME Types, Lines,
         \/ PanelReads \/ PanelWrites \/ PanelRefuses
         \/ \E i \in Entry, f \in Field : \E v : Keypad(i, f, v)
  PROVE  Types' /\ Lines'
<1> USE DEF panelVars, cacheVars, callVars, history
<1>0. CallTypes /\ MailTypes /\ MapTypes
  BY DEF Types
<1>1. CallTypes' /\ Lines'
  <2>1. UNCHANGED <<pc, queue>>
    BY DEF PanelReads, PanelWrites, PanelRefuses, Keypad
  <2> QED
    BY <1>0, <2>1, LinesKept DEF CallTypes
<1>2. CASE PanelReads
  <2>1. MailTypes'
    <3>1. PICK m : IsMessage(m) /\ outbox' = Append(outbox, m)
      BY <1>2, FirstRequest DEF PanelReads
    <3> QED
      BY <1>2, <3>1, AnswerPosted DEF PanelReads
  <2>2. MapTypes'
    BY <1>0, <1>2 DEF PanelReads, MapTypes
  <2> QED
    BY <1>1, <2>1, <2>2 DEF Types
<1>3. CASE PanelWrites
  <2>1. MailTypes'
    BY <1>3, FirstRequest, AnswerPosted DEF PanelWrites
  <2> DEFINE m == Head(inbox)
  <2>2. m.id \in Entry /\ entries' = [entries EXCEPT ![m.id] = Onto(m.config, entries[m.id])]
    BY <1>3 DEF PanelWrites
  <2>3. entries' = [i \in Entry |-> entries'[i]]
    BY <1>0, <2>2 DEF MapTypes
  <2>4. \A i \in Entry : Field \subseteq DOMAIN entries'[i]
    <3>1. Field \subseteq DOMAIN Onto(m.config, entries[m.id])
      <4>1. Field \subseteq DOMAIN entries[m.id]
        BY <1>0, <2>2 DEF MapTypes
      <4>2. DOMAIN Onto(m.config, entries[m.id]) = DOMAIN m.config \cup DOMAIN entries[m.id]
        BY Merged
      <4> QED
        BY <4>1, <4>2
    <3> QED
      BY <1>0, <2>2, <3>1 DEF MapTypes
  <2>5. MapTypes'
    BY <1>0, <1>3, <2>3, <2>4 DEF PanelWrites, MapTypes
  <2> QED
    BY <1>1, <2>1, <2>5 DEF Types
<1>4. CASE PanelRefuses
  <2>1. MailTypes'
    BY <1>4, FirstRequest, AnswerPosted DEF PanelRefuses
  <2>2. MapTypes'
    BY <1>0, <1>4 DEF PanelRefuses, Fault, MapTypes
  <2> QED
    BY <1>1, <2>1, <2>2 DEF Types
<1>5. ASSUME NEW i \in Entry, NEW f \in Field, NEW v, Keypad(i, f, v)
      PROVE  Types' /\ Lines'
  <2>1. MailTypes'
    BY <1>0, <1>5 DEF Keypad, MailTypes
  <2>2. entries' = [j \in Entry |-> entries'[j]] /\ \A j \in Entry : Field \subseteq DOMAIN entries'[j]
    <3>1. entries' = [entries EXCEPT ![i] = [entries[i] EXCEPT ![f] = v]]
      BY <1>5 DEF Keypad
    <3>2. DOMAIN [entries[i] EXCEPT ![f] = v] = DOMAIN entries[i]
      OBVIOUS
    <3> QED
      BY <1>0, <3>1, <3>2 DEF MapTypes
  <2>3. MapTypes'
    BY <1>0, <1>5, <2>2 DEF Keypad, Fault, MapTypes
  <2> QED
    BY <1>1, <2>1, <2>3 DEF Types
<1> QED
  BY <1>2, <1>3, <1>4, <1>5

\* So does the handling of an answer.
LEMMA AnswerSteps ==
  ASSUME Types, Lines, HandleRead \/ HandleWritten
  PROVE  Types' /\ Lines'
<1> USE DEF panelVars, cacheVars, callVars, history
<1> DEFINE r == Head(outbox)
<1>0. CallTypes /\ MailTypes /\ MapTypes
  BY DEF Types
<1>1. outbox # <<>> /\ outbox' = Tail(outbox) /\ inbox' = inbox /\ r.call \in Call
  BY FirstAnswer DEF HandleRead, HandleWritten
<1>2. MailTypes'
  BY <1>0, <1>1, FirstAnswer DEF MailTypes
<1>3. CASE HandleRead
  <2>1. MapTypes'
    BY <1>0, <1>3 DEF HandleRead, MapTypes
  <2>2. CASE UNCHANGED <<pc, queue>>
    BY <1>0, <1>2, <2>1, <2>2, LinesKept DEF CallTypes, Types
  <2>3. CASE pc[r.call] \in {"reading", "priming"} /\ queue' = queue /\ \E found : AfterRead(r.call, found)
    <3>1. PICK found : AfterRead(r.call, found)
      BY <2>3
    <3>2. CallTypes'
      BY <1>0, <1>1, <2>3, <3>1, AfterReadTypes DEF CallTypes
    <3>3. Lines'
      BY <1>0, <1>1, <2>3, <3>1, LinesKept DEF AfterRead, CallTypes, AtWork
    <3> QED
      BY <1>2, <2>1, <3>2, <3>3 DEF Types
  <2> QED
    BY <1>3, <2>2, <2>3 DEF HandleRead
<1>4. CASE HandleWritten
  <2>1. MapTypes'
    BY <1>0, <1>4 DEF HandleWritten, CfgAfterWrite, MapTypes
  <2>2. CASE UNCHANGED <<pc, queue>>
    BY <1>0, <1>2, <2>1, <2>2, LinesKept DEF CallTypes, Types
  <2>3. CASE pc[r.call] = "writing" /\ Leave(r.call, "done")
    BY <1>1, <1>2, <2>1, <2>3, LeaveLines DEF Types
  <2> QED
    BY <1>4, <2>2, <2>3 DEF HandleWritten
<1> QED
  BY <1>3, <1>4

LEMMA StepLines == Types /\ Lines /\ [Next]_vars => Types' /\ Lines'
<1> SUFFICES ASSUME Types, Lines, [Next]_vars PROVE Types' /\ Lines'
  OBVIOUS
<1>1. CASE UNCHANGED vars
  <2>1. Types'
    BY <1>1 DEF vars, panelVars, cacheVars, callVars, Types, CallTypes, MailTypes, MapTypes
  <2>2. Lines'
    BY <1>1 DEF vars, callVars, Lines, InLine
  <2> QED
    BY <2>1, <2>2
<1>2. Season \subseteq Field /\ "ACT_SEA" \in Field
  BY DEF Season, Field
<1> QED
  BY <1>1, <1>2, CallSteps, PanelSteps, AnswerSteps DEF Next

LEMMA InitLines == Init => Types /\ Lines
BY InitTypes DEF Init, Lines, InLine, AtWork

LEMMA LinesInvariant == Spec => [](Types /\ Lines)
BY InitLines, StepLines, PTL DEF Spec

\* The commands of one output never overtake each other's writes, nor does one of
\* them start from a copy that an earlier one is about to replace (CommandDispatcher
\* serves them in order): for any number of commands and outputs.
THEOREM OneWriterCorrect == Spec => []OneWriterPerOutput
<1>1. Lines => OneWriterPerOutput
  BY DEF Lines, InLine, OneWriterPerOutput, AtWork
<1> QED
  BY <1>1, LinesInvariant, PTL

-----------------------------------------------------------------------------
(* Writes under way                                                        *)

IsWrite(m) == m.op = "WRITE_CFG"

\* A write under way is what its command made of it; once the command no longer waits
\* for it, the copy of the entry is known to be behind.
Sent(m) ==
    IsWrite(m) => /\ m.id = target[m.call] /\ m.config = payload[m.call]
                  /\ \/ pc[m.call] = "writing"
                     \/ pc[m.call] = "failed" /\ m.id \in behind

\* A command has one write under way.
Once(q) == \A n, k \in DOMAIN q : IsWrite(q[n]) /\ IsWrite(q[k]) /\ q[n].call = q[k].call => n = k

Apart ==
    \A n \in DOMAIN inbox, k \in DOMAIN outbox :
        IsWrite(inbox[n]) /\ IsWrite(outbox[k]) => inbox[n].call # outbox[k].call

In(q) == {q[n] : n \in DOMAIN q}
Mail == In(inbox) \cup In(outbox)

Letters ==
    /\ \A m \in Mail : Sent(m)
    /\ Once(inbox) /\ Once(outbox) /\ Apart

\* What a step must leave alone, of a command that may have a write under way.
Steady(c) ==
    pc[c] \in {"writing", "failed"} =>
        /\ target'[c] = target[c] /\ payload'[c] = payload[c]
        /\ \/ pc'[c] = pc[c]
           \/ pc'[c] = "failed" /\ target[c] \in behind'

LEMMA InAppend == ASSUME NEW q, Box(q), NEW m PROVE In(Append(q, m)) = In(q) \cup {m}
BY BoxAppend DEF In

LEMMA InTail == ASSUME NEW q, Box(q), q # <<>> PROVE In(Tail(q)) \subseteq In(q) /\ Head(q) \in In(q)
BY BoxTail DEF In

LEMMA MailIsMessages == ASSUME Types PROVE \A m \in Mail : IsMessage(m)
BY DEF Types, MailTypes, Mail, In

LEMMA SentKept ==
  ASSUME behind \subseteq behind', NEW m, IsMessage(m), Steady(m.call), Sent(m)
  PROVE  Sent(m)'
BY DEF Steady, Sent

LEMMA LettersKept ==
  ASSUME Types, Letters, behind \subseteq behind', \A c \in Call : Steady(c), UNCHANGED <<inbox, outbox>>
  PROVE  Letters'
<1>1. \A m \in Mail : Sent(m)'
  BY SentKept, MailIsMessages DEF Letters, IsMessage
<1> QED
  BY <1>1 DEF Letters, Once, Apart, Mail

\* A request is sent: a read, or the first write of a command.
LEMMA LettersPosted ==
  ASSUME Types, Letters, behind \subseteq behind', \A c \in Call : Steady(c),
         NEW m, IsMessage(m), Sent(m)',
         IsWrite(m) => pc[m.call] \notin {"writing", "failed"},
         inbox' = Append(inbox, m), outbox' = outbox
  PROVE  Letters'
<1>1. /\ DOMAIN inbox' = DOMAIN inbox \cup {Len(inbox) + 1} /\ inbox'[Len(inbox) + 1] = m
      /\ \A n \in DOMAIN inbox : inbox'[n] = inbox[n]
  BY BoxAppend DEF Types, MailTypes
<1>2. \A e \in Mail : Sent(e)'
  BY SentKept, MailIsMessages DEF Letters, IsMessage
<1>3. Mail' = Mail \cup {m}
  BY InAppend DEF Mail, Types, MailTypes
<1>4. \A e \in Mail : IsWrite(e) /\ IsWrite(m) => e.call # m.call
  BY DEF Letters, Sent
<1>5. Once(inbox)'
  <2>1. \A n \in DOMAIN inbox : IsWrite(inbox[n]) /\ IsWrite(m) => inbox[n].call # m.call
    BY <1>4 DEF Mail, In
  <2> QED
    BY <1>1, <2>1 DEF Letters, Once
<1>6. Apart'
  <2>1. \A k \in DOMAIN outbox : IsWrite(outbox[k]) /\ IsWrite(m) => outbox[k].call # m.call
    BY <1>4 DEF Mail, In
  <2> QED
    BY <1>1, <2>1 DEF Letters, Apart
<1> QED
  BY <1>2, <1>3, <1>5, <1>6 DEF Letters, Once

\* The panel answers the first request.
LEMMA LettersServed ==
  ASSUME Types, Letters, behind \subseteq behind', \A c \in Call : Steady(c), inbox # <<>>,
         NEW m, IsMessage(m), m.op = Head(inbox).op, m.call = Head(inbox).call, Sent(m)',
         inbox' = Tail(inbox), outbox' = Append(outbox, m)
  PROVE  Letters'
<1>1. /\ DOMAIN outbox' = DOMAIN outbox \cup {Len(outbox) + 1} /\ outbox'[Len(outbox) + 1] = m
      /\ \A n \in DOMAIN outbox : outbox'[n] = outbox[n]
      /\ Len(outbox) + 1 \notin DOMAIN outbox
  BY BoxAppend DEF Types, MailTypes
<1>2. /\ 1 \in DOMAIN inbox /\ Head(inbox) = inbox[1]
      /\ \A n \in DOMAIN inbox' : n \in Int /\ n + 1 \in DOMAIN inbox /\ n + 1 > 1 /\ inbox'[n] = inbox[n + 1]
  BY BoxTail DEF Types, MailTypes
<1>3. \A e \in Mail : Sent(e)'
  BY SentKept, MailIsMessages DEF Letters, IsMessage
<1>4. Mail' \subseteq Mail \cup {m}
  BY InAppend, InTail DEF Mail, Types, MailTypes
<1>5. Once(inbox)'
  BY <1>2 DEF Letters, Once
<1>6. Once(outbox)'
  <2>1. \A k \in DOMAIN outbox : IsWrite(outbox[k]) /\ IsWrite(m) => outbox[k].call # m.call
    BY <1>2 DEF Letters, Apart, IsWrite
  <2> QED
    BY <1>1, <2>1 DEF Letters, Once
<1>7. Apart'
  <2>1. \A n \in DOMAIN inbox' : IsWrite(inbox'[n]) /\ IsWrite(m) => inbox'[n].call # m.call
    BY <1>2 DEF Letters, Once, IsWrite
  <2>2. \A n \in DOMAIN inbox', k \in DOMAIN outbox :
            IsWrite(inbox'[n]) /\ IsWrite(outbox[k]) => inbox'[n].call # outbox[k].call
    BY <1>2 DEF Letters, Apart
  <2> QED
    BY <1>1, <2>1, <2>2 DEF Apart
<1> QED
  BY <1>3, <1>4, <1>5, <1>6, <1>7 DEF Letters

\* The first answer is handled.
LEMMA LettersTaken ==
  ASSUME Types, Letters, behind \subseteq behind', outbox # <<>>,
         \A c \in Call : Steady(c) \/ (c = Head(outbox).call /\ IsWrite(Head(outbox))),
         inbox' = inbox, outbox' = Tail(outbox)
  PROVE  Letters'
<1>1. /\ 1 \in DOMAIN outbox /\ Head(outbox) = outbox[1]
      /\ \A n \in DOMAIN outbox' : n \in Int /\ n + 1 \in DOMAIN outbox /\ n + 1 > 1 /\ outbox'[n] = outbox[n + 1]
  BY BoxTail DEF Types, MailTypes
<1>2. Mail' \subseteq Mail
  BY InTail DEF Mail, Types, MailTypes
<1>3. ASSUME NEW e \in Mail', IsWrite(e), IsWrite(Head(outbox))
      PROVE  e.call # Head(outbox).call
  <2>1. CASE e \in In(inbox)
    BY <1>1, <1>3, <2>1 DEF Letters, Apart, In
  <2>2. CASE e \in In(outbox')
    BY <1>1, <1>3, <2>2 DEF Letters, Once, In
  <2> QED
    BY <1>3, <2>1, <2>2 DEF Mail
<1>4. ASSUME NEW e \in Mail' PROVE Sent(e)'
  <2>1. IsMessage(e) /\ Sent(e) /\ e.call \in Call
    BY <1>2, MailIsMessages DEF Letters, IsMessage
  <2>2. CASE ~IsWrite(e)
    BY <2>2 DEF Sent, IsWrite
  <2>3. CASE IsWrite(e)
    <3>1. Steady(e.call)
      BY <1>3, <2>1, <2>3
    <3> QED
      BY <2>1, <3>1, SentKept
  <2> QED
    BY <2>2, <2>3
<1>5. Once(outbox)' /\ Apart'
  BY <1>1 DEF Letters, Once, Apart
<1> QED
  BY <1>4, <1>5 DEF Letters, Once

LEMMA StepLetters ==
  ASSUME Types, Letters, [Next]_vars
  PROVE  Letters'
<1> USE DEF panelVars, cacheVars, callVars, history
<1>0. CallTypes /\ MapTypes /\ MailTypes
  BY DEF Types
<1>1. ASSUME NEW c \in Call, Start(c) \/ TimeOut(c) \/ Waited(c)
      PROVE  Letters'
  <2>1. behind \subseteq behind' /\ UNCHANGED <<inbox, outbox, target, payload>>
    BY <1>1 DEF Start, TimeOut, Waited
  <2>2. \A d \in Call : Steady(d)
    BY <1>0, <1>1, <2>1 DEF Start, TimeOut, Waited, AfterRead, Leave, Steady, CallTypes
  <2> QED
    BY <2>1, <2>2, LettersKept
<1>2. ASSUME NEW c \in Call, Resolve(c) \/ Run(c)
      PROVE  Letters'
  <2>1. behind \subseteq behind' /\ UNCHANGED <<outbox, payload>>
    BY <1>2 DEF Resolve, Run
  <2>2. \A d \in Call : Steady(d)
    BY <1>0, <1>2, <2>1 DEF Resolve, Run, Enqueue, Steady, CallTypes, MapTypes
  <2>3. CASE inbox' = inbox
    BY <2>1, <2>2, <2>3, LettersKept
  <2>4. ASSUME NEW i, inbox' = Append(inbox, Request(c, "READ", i, <<>>))
        PROVE  Letters'
    <3>1. PICK m : m = Request(c, "READ", i, <<>>)
      OBVIOUS
    <3>2. IsMessage(m) /\ m.op = "READ"
      BY <3>1, RequestIsMessage DEF Request
    <3>3. ~IsWrite(m) /\ Sent(m)'
      BY <3>2 DEF IsWrite, Sent
    <3> QED
      BY <2>1, <2>2, <2>4, <3>1, <3>2, <3>3, LettersPosted
  <2> QED
    BY <1>2, <2>3, <2>4 DEF Resolve, Run
<1>3. ASSUME NEW c \in Call, Build(c)
      PROVE  Letters'
  <2>1. PICK m : m = Request(c, "WRITE_CFG", target[c], PayloadOf(c))
    OBVIOUS
  <2>2. behind \subseteq behind' /\ UNCHANGED <<outbox, target>> /\ inbox' = Append(inbox, m)
    BY <1>3, <2>1 DEF Build
  <2>3. \A d \in Call : Steady(d)
    BY <1>0, <1>3, <2>2 DEF Build, Steady, CallTypes, MapTypes
  <2>4. IsMessage(m) /\ m.call = c /\ m.id = target[c] /\ m.config = PayloadOf(c)
    BY <2>1, RequestIsMessage DEF Request
  <2>5. pc[c] = "ready" /\ pc'[c] = "writing" /\ payload'[c] = PayloadOf(c)
    BY <1>0, <1>3 DEF Build, CallTypes, MapTypes
  <2>6. Sent(m)'
    BY <2>2, <2>4, <2>5 DEF Sent
  <2> QED
    BY <2>2, <2>3, <2>4, <2>5, <2>6, LettersPosted
<1>4. ASSUME PanelReads \/ PanelWrites \/ PanelRefuses
      PROVE  Letters'
  <2>1. behind \subseteq behind' /\ inbox # <<>> /\ inbox' = Tail(inbox) /\ UNCHANGED <<pc, target, payload>>
    BY <1>4 DEF PanelReads, PanelWrites, PanelRefuses
  <2>2. \A d \in Call : Steady(d)
    BY <2>1 DEF Steady
  <2>3. IsMessage(Head(inbox)) /\ Sent(Head(inbox)) /\ Head(inbox).call \in Call
    BY <1>0, <2>1, InTail, FirstRequest DEF Letters, Mail, MailTypes, IsMessage
  <2>4. CASE outbox' = Append(outbox, Head(inbox))
    <3>1. \A m : IsMessage(m) /\ Sent(m) => Sent(m)'
      BY <2>1, <2>2, SentKept DEF IsMessage
    <3>2. \A m : m = Head(inbox) => Sent(m)'
      BY <2>3, <3>1
    <3> QED
      BY <2>1, <2>2, <2>3, <2>4, <3>2, LettersServed
  <2>5. CASE PanelReads
    <3> DEFINE r == Head(inbox)
    <3>1. PICK m : m = IF r.id \in Entry THEN [r EXCEPT !.config = entries[r.id]] ELSE r
      OBVIOUS
    <3>2. r.op = "READ" /\ outbox' = Append(outbox, m)
      BY <2>5, <3>1 DEF PanelReads
    <3>3. IsMessage(m) /\ m.op = r.op /\ m.call = r.call
      BY <2>3, <3>1 DEF IsMessage
    <3>4. Sent(m)'
      BY <3>2, <3>3 DEF Sent, IsWrite
    <3> QED
      BY <2>1, <2>2, <3>2, <3>3, <3>4, LettersServed
  <2> QED
    BY <1>4, <2>4, <2>5 DEF PanelWrites, PanelRefuses
<1>5. ASSUME NEW i, NEW f, NEW v, Keypad(i, f, v)
      PROVE  Letters'
  <2>1. behind \subseteq behind' /\ UNCHANGED <<inbox, outbox, pc, target, payload>>
    BY <1>5 DEF Keypad
  <2>2. \A d \in Call : Steady(d)
    BY <2>1 DEF Steady
  <2> QED
    BY <2>1, <2>2, LettersKept
<1>6. ASSUME HandleRead \/ HandleWritten
      PROVE  Letters'
  <2>1. behind' = behind /\ outbox # <<>> /\ outbox' = Tail(outbox) /\ UNCHANGED <<inbox, target, payload>>
    BY <1>6 DEF HandleRead, HandleWritten
  <2>2. ASSUME NEW d \in Call
        PROVE  Steady(d) \/ (d = Head(outbox).call /\ IsWrite(Head(outbox)))
    <3>1. CASE HandleRead
      BY <1>0, <2>1, <3>1 DEF HandleRead, AfterRead, Steady, CallTypes
    <3>2. CASE HandleWritten
      BY <1>0, <2>1, <3>2 DEF HandleWritten, Leave, Steady, CallTypes, IsWrite
    <3> QED
      BY <1>6, <3>1, <3>2
  <2> QED
    BY <2>1, <2>2, LettersTaken
<1>7. CASE UNCHANGED vars
  <2>1. UNCHANGED <<inbox, outbox, pc, target, payload, behind>>
    BY <1>7 DEF vars
  <2> QED
    BY <2>1, LettersKept DEF Steady
<1> QED
  BY <1>1, <1>2, <1>3, <1>4, <1>5, <1>6, <1>7 DEF Next

LEMMA LettersInvariant == Spec => [](Types /\ Lines /\ Letters)
<1>1. Init => Letters
  BY DEF Init, Letters, Mail, In, Once, Apart
<1> QED
  BY <1>1, LinesInvariant, StepLetters, PTL DEF Spec

-----------------------------------------------------------------------------
(* Copies                                                                  *)

Agrees(p, e) == \A f \in DOMAIN p : p[f] = e[f]

NoWrite(q, i, n) == \A k \in DOMAIN q : k > n => ~(IsWrite(q[k]) /\ q[k].id = i)

\* The last answer of q about i tells what the entry e is, or else the copy does.
FreshIn(q, copy, e, i) ==
    /\ \A n \in DOMAIN q : q[n].id = i /\ NoWrite(q, i, n) => Agrees(q[n].config, e)
    /\ NoWrite(q, i, 0) /\ copy # None => Agrees(copy, e)

Fresh == \A i \in Entry \ behind : FreshIn(outbox, cfg[i], entries[i], i)

LEMMA FreshAppend ==
  ASSUME NEW q, Box(q), NEW copy, NEW e, NEW i, FreshIn(q, copy, e, i), NEW m,
         m.id # i \/ (~IsWrite(m) /\ Agrees(m.config, e))
  PROVE  FreshIn(Append(q, m), copy, e, i)
<1>1. \A n : NoWrite(Append(q, m), i, n) => NoWrite(q, i, n)
  BY BoxAppend DEF NoWrite
<1>2. ASSUME NEW n \in DOMAIN Append(q, m), Append(q, m)[n].id = i, NoWrite(Append(q, m), i, n)
      PROVE  Agrees(Append(q, m)[n].config, e)
  BY <1>1, <1>2, BoxAppend DEF FreshIn
<1> QED
  BY <1>1, <1>2 DEF FreshIn

\* A write the panel has just taken is what the entry is.
LEMMA FreshWrite ==
  ASSUME NEW q, Box(q), NEW copy, NEW e, NEW i, NEW m, IsWrite(m), m.id = i, Agrees(m.config, e)
  PROVE  FreshIn(Append(q, m), copy, e, i)
<1>1. DOMAIN q = 1..Len(q) /\ Len(q) \in Nat
  BY BoxLength
<1>2. /\ DOMAIN Append(q, m) = DOMAIN q \cup {Len(q) + 1}
      /\ Append(q, m)[Len(q) + 1] = m
  BY BoxAppend
<1>3. \A n \in DOMAIN q : ~NoWrite(Append(q, m), i, n)
  BY <1>1, <1>2 DEF NoWrite
<1>4. ~NoWrite(Append(q, m), i, 0)
  BY <1>1, <1>2 DEF NoWrite
<1> QED
  BY <1>2, <1>3, <1>4 DEF FreshIn

\* An answer becomes the copy, or is about another entry, or is no write.
LEMMA FreshTail ==
  ASSUME NEW q, Box(q), q # <<>>, NEW copy, NEW e, NEW i, FreshIn(q, copy, e, i), NEW new,
         \/ Head(q).id = i /\ new = Head(q).config
         \/ new = copy /\ ~(IsWrite(Head(q)) /\ Head(q).id = i)
  PROVE  FreshIn(Tail(q), new, e, i)
<1>1. /\ 1 \in DOMAIN q /\ Head(q) = q[1]
      /\ \A n \in DOMAIN Tail(q) : n \in Int /\ n + 1 \in DOMAIN q /\ n + 1 > 1 /\ Tail(q)[n] = q[n + 1]
      /\ \A n \in DOMAIN q : n \in Int /\ (n # 1 => n - 1 \in DOMAIN Tail(q) /\ Tail(q)[n - 1] = q[n])
  BY BoxTail
<1>2. ASSUME NEW n \in DOMAIN Tail(q), NoWrite(Tail(q), i, n) PROVE NoWrite(q, i, n + 1)
  <2> SUFFICES ASSUME NEW k \in DOMAIN q, k > n + 1 PROVE ~(IsWrite(q[k]) /\ q[k].id = i)
    BY DEF NoWrite
  <2>1. k # 1 /\ k - 1 > n /\ k - 1 \in DOMAIN Tail(q) /\ Tail(q)[k - 1] = q[k]
    BY <1>1
  <2> QED
    BY <1>2, <2>1 DEF NoWrite
<1>3. ASSUME NoWrite(Tail(q), i, 0) PROVE NoWrite(q, i, 1)
  <2> SUFFICES ASSUME NEW k \in DOMAIN q, k > 1 PROVE ~(IsWrite(q[k]) /\ q[k].id = i)
    BY DEF NoWrite
  <2>1. k # 1 /\ k - 1 > 0 /\ k - 1 \in DOMAIN Tail(q) /\ Tail(q)[k - 1] = q[k]
    BY <1>1
  <2> QED
    BY <1>3, <2>1 DEF NoWrite
<1>4. ASSUME NEW n \in DOMAIN Tail(q), Tail(q)[n].id = i, NoWrite(Tail(q), i, n)
      PROVE  Agrees(Tail(q)[n].config, e)
  BY <1>1, <1>2, <1>4 DEF FreshIn
<1>5. ASSUME NoWrite(Tail(q), i, 0), new # None PROVE Agrees(new, e)
  <2>1. CASE Head(q).id = i /\ new = Head(q).config
    BY <1>1, <1>3, <1>5, <2>1 DEF FreshIn
  <2>2. CASE new = copy /\ ~(IsWrite(Head(q)) /\ Head(q).id = i)
    <3>1. NoWrite(q, i, 0)
      <4> SUFFICES ASSUME NEW k \in DOMAIN q PROVE ~(IsWrite(q[k]) /\ q[k].id = i)
        BY DEF NoWrite
      <4>1. k = 1 \/ k > 1
        BY BoxLength
      <4> QED
        BY <1>1, <1>3, <1>5, <2>2, <4>1 DEF NoWrite
    <3> QED
      BY <1>5, <2>2, <3>1 DEF FreshIn
  <2> QED
    BY <2>1, <2>2
<1> QED
  BY <1>4, <1>5 DEF FreshIn

LEMMA EntriesAreIds == Entry \subseteq Id
BY IdAssumption DEF Entry

LEMMA StepFresh ==
  ASSUME Types, Letters, Fresh, [Next]_vars
  PROVE  Fresh'
<1> USE DEF panelVars, cacheVars, callVars, history
<1>0. CallTypes /\ MapTypes /\ MailTypes
  BY DEF Types
<1>1. ASSUME behind \subseteq behind', UNCHANGED <<outbox, cfg, entries>>
      PROVE  Fresh'
  BY <1>1 DEF Fresh
<1>2. ASSUME NEW c \in Call, Start(c) \/ Resolve(c) \/ Run(c) \/ Build(c) \/ TimeOut(c) \/ Waited(c)
      PROVE  Fresh'
  BY <1>1, <1>2 DEF Start, Resolve, Run, Build, TimeOut, Waited
<1>3. ASSUME NEW i \in Entry, NEW f, NEW v, Keypad(i, f, v)
      PROVE  Fresh'
  <2>1. \A j \in Entry \ behind' : j \notin behind /\ entries'[j] = entries[j]
    BY <1>0, <1>3 DEF Keypad, MapTypes
  <2> QED
    BY <1>3, <2>1 DEF Keypad, Fresh
<1>4. CASE PanelReads
  <2> DEFINE r == Head(inbox)
  <2>1. PICK m : m = IF r.id \in Entry THEN [r EXCEPT !.config = entries[r.id]] ELSE r
    OBVIOUS
  <2>2. r.op = "READ" /\ outbox' = Append(outbox, m) /\ UNCHANGED <<cfg, entries, behind>>
    BY <1>4, <2>1 DEF PanelReads
  <2>3. IsMessage(r)
    BY <1>4, FirstRequest DEF PanelReads
  <2>4. m.op = r.op /\ m.id = r.id /\ (r.id \in Entry => m.config = entries[r.id])
    BY <2>1, <2>3 DEF IsMessage
  <2>5. ASSUME NEW i \in Entry \ behind PROVE FreshIn(Append(outbox, m), cfg[i], entries[i], i)
    <3>1. m.id # i \/ (~IsWrite(m) /\ Agrees(m.config, entries[i]))
      BY <2>2, <2>4 DEF IsWrite, Agrees
    <3>2. Box(outbox) /\ FreshIn(outbox, cfg[i], entries[i], i)
      BY <1>0 DEF Fresh, MailTypes
    <3> QED
      BY <3>1, <3>2, FreshAppend
  <2> QED
    BY <2>2, <2>5 DEF Fresh
<1>5. CASE PanelWrites
  <2>1. PICK m : m = Head(inbox)
    OBVIOUS
  <2>2. /\ IsWrite(m) /\ m.id \in Entry /\ outbox' = Append(outbox, m) /\ UNCHANGED <<cfg, behind>>
        /\ entries' = [entries EXCEPT ![m.id] = Onto(m.config, entries[m.id])]
    BY <1>5, <2>1 DEF PanelWrites, IsWrite
  <2>3. ASSUME NEW i \in Entry \ behind PROVE FreshIn(Append(outbox, m), cfg[i], entries'[i], i)
    <3>0. Box(outbox) /\ FreshIn(outbox, cfg[i], entries[i], i)
      BY <1>0 DEF Fresh, MailTypes
    <3>1. CASE m.id = i
      <4>1. entries'[i] = Onto(m.config, entries[i])
        BY <1>0, <2>2, <3>1 DEF MapTypes
      <4>2. PICK e : e = Onto(m.config, entries[i])
        OBVIOUS
      <4>3. \A f \in DOMAIN m.config : e[f] = m.config[f]
        BY <4>2 DEF Onto
      <4>4. Agrees(m.config, e)
        BY <4>3 DEF Agrees
      <4> QED
        BY <2>2, <3>0, <3>1, <4>1, <4>2, <4>4, FreshWrite
    <3>2. CASE m.id # i
      <4>1. entries'[i] = entries[i]
        BY <1>0, <2>2, <3>2 DEF MapTypes
      <4> QED
        BY <3>0, <3>2, <4>1, FreshAppend
    <3> QED
      BY <3>1, <3>2
  <2> QED
    BY <2>2, <2>3 DEF Fresh
<1>6. CASE PanelRefuses
  <2>1. PICK m : m = Head(inbox)
    OBVIOUS
  <2>2. outbox' = Append(outbox, m) /\ UNCHANGED <<cfg, entries>> /\ behind' = behind \cup {m.id}
    BY <1>6, <2>1 DEF PanelRefuses
  <2>3. ASSUME NEW i \in Entry \ behind' PROVE FreshIn(Append(outbox, m), cfg[i], entries[i], i)
    <3>1. m.id # i /\ Box(outbox) /\ FreshIn(outbox, cfg[i], entries[i], i)
      BY <1>0, <2>2 DEF Fresh, MailTypes
    <3> QED
      BY <3>1, FreshAppend
  <2> QED
    BY <2>2, <2>3 DEF Fresh
<1>7. ASSUME HandleRead \/ HandleWritten
      PROVE  Fresh'
  <2>1. outbox # <<>> /\ outbox' = Tail(outbox) /\ UNCHANGED <<entries, behind>>
    BY <1>7 DEF HandleRead, HandleWritten
  <2>2. PICK r : r = Head(outbox)
    OBVIOUS
  <2>3. IsMessage(r) /\ Sent(r) /\ r.call \in Call
    BY <1>0, <2>1, <2>2, InTail, Taken DEF Letters, Mail, MailTypes, IsMessage
  <2>4. ASSUME NEW i \in Entry \ behind
        PROVE  \/ r.id = i /\ cfg'[i] = r.config
               \/ cfg'[i] = cfg[i] /\ ~(IsWrite(r) /\ r.id = i)
    <3>0. i \in Id
      BY EntriesAreIds
    <3>1. CASE HandleRead
      BY <1>0, <2>2, <3>0, <3>1 DEF HandleRead, IsWrite, MapTypes
    <3>2. CASE HandleWritten
      <4>1. IsWrite(r)
        BY <2>2, <3>2 DEF HandleWritten, IsWrite
      <4>2. CASE pc[r.call] = "writing"
        BY <1>0, <2>2, <2>3, <3>0, <3>2, <4>1, <4>2 DEF HandleWritten, CfgAfterWrite, Sent, MapTypes
      <4>3. CASE pc[r.call] # "writing"
        BY <2>2, <2>3, <3>2, <4>1, <4>3 DEF HandleWritten, Sent
      <4> QED
        BY <4>2, <4>3
    <3> QED
      BY <1>7, <3>1, <3>2
  <2>5. ASSUME NEW i \in Entry \ behind PROVE FreshIn(Tail(outbox), cfg'[i], entries[i], i)
    <3>1. Box(outbox) /\ FreshIn(outbox, cfg[i], entries[i], i)
      BY <1>0 DEF Fresh, MailTypes
    <3>2. PICK new : new = cfg'[i]
      OBVIOUS
    <3> QED
      BY <2>1, <2>2, <2>4, <3>1, <3>2, FreshTail
  <2> QED
    BY <2>1, <2>5 DEF Fresh
<1>8. CASE UNCHANGED vars
  BY <1>1, <1>8 DEF vars
<1> QED
  BY <1>2, <1>3, <1>4, <1>5, <1>6, <1>7, <1>8 DEF Next

IInv == Types /\ Lines /\ Letters /\ Fresh

LEMMA Invariant == Spec => []IInv
<1>1. Init => Fresh
  <2> SUFFICES ASSUME Init, NEW i \in Entry \ behind PROVE FreshIn(outbox, cfg[i], entries[i], i)
    BY DEF Fresh
  <2> QED
    BY EntriesAreIds DEF Init, FreshIn
<1> QED
  BY <1>1, LettersInvariant, StepFresh, PTL DEF Spec, IInv

\* Between a client that has seen all answers and a panel nobody else has touched, the
\* copy of an entry (thermostatCfgById) is the entry in the fields it has: whatever
\* wirings, commands and faults there are.
THEOREM CopiesAgree == Spec => []CopyIsEntry
<1>1. Fresh => CopyIsEntry
  BY DEF Fresh, FreshIn, NoWrite, Agrees, CopyIsEntry
<1> QED
  BY <1>1, Invariant, PTL DEF IInv

-----------------------------------------------------------------------------
(* What a command writes                                                   *)

LEMMA ModeWrites ==
  ASSUME NEW i, NEW m \in Mode
  PROVE  \A f \in DOMAIN ModePayload(i, m) :
            f \notin (IF m \in {"heat", "cool"} THEN {"ACT_MODE", "ACT_SEA"} ELSE {"ACT_MODE"})
            => f \in DOMAIN Copy(i) /\ ModePayload(i, m)[f] = Copy(i)[f]
<1>1. DOMAIN ModePatch(m) = IF m \in {"heat", "cool"} THEN {"ACT_MODE", "ACT_SEA"} ELSE {"ACT_MODE"}
  BY DEF ModePatch, Mode
<1> QED
  BY <1>1 DEF ModePayload, Onto

\* A setpoint goes into the season it names if the entry has a hint or that is WIN.
LEMMA SetpointWrites ==
  ASSUME NEW i, hint[i] \in Season \cup {None}, NEW t, NEW p, p = SetpointPayload(i, t)
  PROVE  /\ "ACT_SEA" \in DOMAIN p
         /\ (hint[i] # None \/ p["ACT_SEA"] = "WIN") =>
                p["ACT_SEA"] \in DOMAIN p /\ p["ACT_SEA"] # "ACT_SEA" /\ p[p["ACT_SEA"]] = t
         /\ \A f \in DOMAIN p : f \notin {"ACT_MODE", "ACT_SEA", p["ACT_SEA"]} =>
                f \in DOMAIN Copy(i) /\ p[f] = Copy(i)[f]
<1> DEFINE patched == OrElse(hint[i], "WIN")
           cached  == IF "ACT_SEA" \in DOMAIN Copy(i) THEN Copy(i)["ACT_SEA"] ELSE None
           active  == OrElse(hint[i], OrElse(cached, patched))
           setpoint == IF active = patched THEN [s \in {active} |-> t] ELSE <<>>
           patch == [ACT_MODE |-> "MAN", ACT_SEA |-> active]
<1>1. p = Onto(setpoint, Onto(patch, Copy(i)))
  BY DEF SetpointPayload
<1>2. patched = IF hint[i] # None THEN hint[i] ELSE "WIN"
  BY DEF OrElse
<1>3. patched \in Season /\ patched # "ACT_SEA"
  BY <1>2 DEF Season
<1>4. hint[i] # None => active = patched
  BY <1>2 DEF OrElse
<1>5. DOMAIN setpoint = IF active = patched THEN {active} ELSE {}
  OBVIOUS
<1>6. "ACT_SEA" \notin DOMAIN setpoint
  BY <1>3, <1>5
<1>7. DOMAIN patch = {"ACT_MODE", "ACT_SEA"} /\ patch["ACT_SEA"] = active
  OBVIOUS
<1>8. active = patched => active \in DOMAIN setpoint /\ setpoint[active] = t
  OBVIOUS
<1> HIDE DEF patched, cached, active, setpoint, patch
<1>9. PICK q : q = Onto(patch, Copy(i))
  OBVIOUS
<1>10. /\ DOMAIN q = DOMAIN patch \cup DOMAIN Copy(i)
       /\ \A f \in DOMAIN patch : q[f] = patch[f]
       /\ \A f \in DOMAIN Copy(i) \ DOMAIN patch : q[f] = Copy(i)[f]
  BY <1>9 DEF Onto
<1>11. /\ DOMAIN p = DOMAIN setpoint \cup DOMAIN q
       /\ \A f \in DOMAIN setpoint : p[f] = setpoint[f]
       /\ \A f \in DOMAIN q \ DOMAIN setpoint : p[f] = q[f]
  BY <1>1, <1>9 DEF Onto
<1>12. "ACT_SEA" \in DOMAIN p /\ p["ACT_SEA"] = active
  BY <1>6, <1>7, <1>10, <1>11
<1>13. ASSUME hint[i] # None \/ active = "WIN" PROVE active = patched
  BY <1>2, <1>4, <1>13
<1>14. active = patched => active \in DOMAIN p /\ active # "ACT_SEA" /\ p[active] = t
  BY <1>3, <1>8, <1>11
<1>15. ASSUME NEW f \in DOMAIN p, f \notin {"ACT_MODE", "ACT_SEA", active}
       PROVE  f \in DOMAIN Copy(i) /\ p[f] = Copy(i)[f]
  BY <1>5, <1>7, <1>10, <1>11, <1>15
<1> QED
  BY <1>12, <1>13, <1>14, <1>15

-----------------------------------------------------------------------------
(* Setpoints                                                               *)

\* A setpoint on its way is in the season the write names.
SetpointSet(c) ==
    (/\ pc[c] = "writing" /\ Ask[c].kind = "setpoint" /\ target[c] \in Entry
     /\ c \in unhinted => payload[c]["ACT_SEA"] = "WIN")
    => /\ "ACT_SEA" \in DOMAIN payload[c] /\ payload[c]["ACT_SEA"] \in DOMAIN payload[c]
       /\ payload[c][payload[c]["ACT_SEA"]] = Ask[c].value

Setpoints == \A c \in Call : SetpointSet(c)

LEMMA StepWriting ==
  ASSUME Types, [Next]_vars, NEW c \in Call, pc'[c] = "writing"
  PROVE  \/ Build(c)
         \/ /\ pc[c] = "writing" /\ target'[c] = target[c] /\ payload'[c] = payload[c]
            /\ unhinted \subseteq unhinted'
<1> USE DEF panelVars, cacheVars, callVars, history
<1>0. CallTypes /\ MapTypes
  BY DEF Types
<1>1. ASSUME NEW d \in Call, Start(d) \/ TimeOut(d) \/ Waited(d)
      PROVE  pc[c] = "writing" /\ UNCHANGED <<target, payload, unhinted>>
  BY <1>0, <1>1 DEF Start, TimeOut, Waited, AfterRead, Leave, CallTypes
<1>2. ASSUME NEW d \in Call, Resolve(d) \/ Run(d)
      PROVE  pc[c] = "writing" /\ target'[c] = target[c] /\ UNCHANGED <<payload, unhinted>>
  BY <1>0, <1>2 DEF Resolve, Run, Enqueue, CallTypes, MapTypes
<1>3. ASSUME NEW d \in Call, Build(d), d # c
      PROVE  pc[c] = "writing" /\ target' = target /\ payload'[c] = payload[c] /\ unhinted \subseteq unhinted'
  BY <1>0, <1>3 DEF Build, CallTypes, MapTypes
<1>4. ASSUME PanelReads \/ PanelWrites \/ PanelRefuses \/ \E i, f, v : Keypad(i, f, v)
      PROVE  UNCHANGED <<pc, target, payload, unhinted>>
  BY <1>4 DEF PanelReads, PanelWrites, PanelRefuses, Keypad
<1>5. ASSUME HandleRead \/ HandleWritten
      PROVE  pc[c] = "writing" /\ UNCHANGED <<target, payload, unhinted>>
  BY <1>0, <1>5 DEF HandleRead, HandleWritten, AfterRead, Leave, CallTypes
<1>6. CASE UNCHANGED vars
  BY <1>6 DEF vars
<1> QED
  BY <1>1, <1>2, <1>3, <1>4, <1>5, <1>6 DEF Next

LEMMA StepSetpoints ==
  ASSUME Types, Setpoints, [Next]_vars
  PROVE  Setpoints'
<1> SUFFICES ASSUME NEW c \in Call, pc'[c] = "writing", Ask[c].kind = "setpoint", target'[c] \in Entry,
                    c \in unhinted' => payload'[c]["ACT_SEA"] = "WIN"
             PROVE  /\ "ACT_SEA" \in DOMAIN payload'[c] /\ payload'[c]["ACT_SEA"] \in DOMAIN payload'[c]
                    /\ payload'[c][payload'[c]["ACT_SEA"]] = Ask[c].value
  BY DEF Setpoints, SetpointSet
<1>1. CASE Build(c)
  <2>1. PICK p : p = SetpointPayload(target[c], Ask[c].value)
    OBVIOUS
  <2>2. payload'[c] = p /\ target[c] \in Entry
    BY <1>1, <2>1 DEF Types, MapTypes, Build, PayloadOf
  <2>3. hint[target[c]] \in Season \cup {None}
    BY <2>2, EntriesAreIds DEF Types, MapTypes
  <2>4. hint[target[c]] # None \/ p["ACT_SEA"] = "WIN"
    BY <1>1, <2>2 DEF Build
  <2>5. "ACT_SEA" \in DOMAIN p /\ p["ACT_SEA"] \in DOMAIN p /\ p[p["ACT_SEA"]] = Ask[c].value
    BY <2>1, <2>3, <2>4, SetpointWrites
  <2> QED
    BY <2>2, <2>5
<1>2. CASE /\ pc[c] = "writing" /\ target'[c] = target[c] /\ payload'[c] = payload[c]
           /\ unhinted \subseteq unhinted'
  BY <1>2 DEF Setpoints, SetpointSet
<1> QED
  BY <1>1, <1>2, StepWriting

\* Only the answer to its write ends a command with success.
LEMMA DoneByAnswer ==
  ASSUME Types, [Next]_vars, NEW c \in Call, pc[c] = "writing", pc'[c] = "done"
  PROVE  HandleWritten /\ Head(outbox).call = c
<1> USE DEF panelVars, cacheVars, callVars, history
<1>0. CallTypes
  BY DEF Types
<1>1. ASSUME NEW d \in Call, Start(d) \/ Resolve(d) \/ Run(d) \/ Build(d) \/ TimeOut(d) \/ Waited(d)
      PROVE  FALSE
  BY <1>0, <1>1 DEF Start, Resolve, Enqueue, Run, Build, TimeOut, Waited, AfterRead, Leave, CallTypes
<1>2. ASSUME \/ PanelReads \/ PanelWrites \/ PanelRefuses \/ UNCHANGED vars
             \/ \E i, f, v : Keypad(i, f, v)
      PROVE  FALSE
  BY <1>2 DEF PanelReads, PanelWrites, PanelRefuses, Keypad, vars
<1>3. ~HandleRead
  BY <1>0 DEF HandleRead, AfterRead, CallTypes
<1>4. HandleWritten => Head(outbox).call = c
  BY <1>0 DEF HandleWritten, Leave, CallTypes
<1> QED
  BY <1>1, <1>2, <1>3, <1>4 DEF Next

LEMMA EffectStep ==
  ASSUME Types, Letters, Fresh, Setpoints, [Next]_vars, NEW c \in Call, SetpointDone(c),
         c \in unhinted => payload[c]["ACT_SEA"] = "WIN"
  PROVE  InEffect(c)
<1>1. HandleWritten /\ Head(outbox).call = c
  BY DoneByAnswer DEF SetpointDone
<1>2. outbox # <<>> /\ IsWrite(Head(outbox)) /\ Box(outbox)
  BY <1>1 DEF HandleWritten, IsWrite, Types, MailTypes
<1>3. 1 \in DOMAIN outbox /\ Head(outbox) = outbox[1]
  BY <1>2, BoxTail
<1>4. outbox[1].id = target[c] /\ outbox[1].config = payload[c]
  BY <1>1, <1>2, <1>3 DEF Letters, Mail, In, Sent
<1>5. NoWrite(outbox, target[c], 1)
  <2> SUFFICES ASSUME NEW k \in DOMAIN outbox, k > 1, IsWrite(outbox[k]), outbox[k].id = target[c]
               PROVE  FALSE
    BY DEF NoWrite
  <2>1. PICK d : d = outbox[k].call
    OBVIOUS
  <2>2. d \in Call /\ d # c
    BY <1>1, <1>2, <1>3, <2>1 DEF Letters, Once, Types, MailTypes, IsMessage
  <2>3. target[d] = target[c] /\ (pc[d] = "writing" \/ target[c] \in behind)
    BY <2>1 DEF Letters, Mail, In, Sent
  <2> QED
    BY <2>2, <2>3 DEF SetpointDone
<1>6. Agrees(payload[c], entries[target[c]])
  BY <1>3, <1>4, <1>5 DEF Fresh, FreshIn, SetpointDone
<1>7. /\ "ACT_SEA" \in DOMAIN payload[c] /\ payload[c]["ACT_SEA"] \in DOMAIN payload[c]
      /\ payload[c][payload[c]["ACT_SEA"]] = Ask[c].value
  BY DEF Setpoints, SetpointSet, SetpointDone
<1> QED
  BY <1>6, <1>7 DEF Agrees, InEffect

LEMMA SetpointsInvariant == Spec => []Setpoints
<1>1. Init => Setpoints
  BY DEF Init, Setpoints, SetpointSet
<1> QED
  BY <1>1, Invariant, StepSetpoints, PTL DEF Spec, IInv

\* A setpoint that is acknowledged is the one in effect at the panel: in winter, and in
\* summer once a mode command has told the client the season.
THEOREM SetpointInEffect == Spec => SetpointTakesEffect
<1>1. IInv /\ Setpoints /\ [Next]_vars =>
          \A c \in Call : SetpointDone(c) /\ (c \in unhinted => payload[c]["ACT_SEA"] = "WIN") => InEffect(c)
  BY EffectStep DEF IInv
<1> QED
  BY <1>1, Invariant, SetpointsInvariant, PTL DEF Spec, SetpointTakesEffect

-----------------------------------------------------------------------------
(* The rest of an entry                                                    *)

\* Of two writes to an entry the later one was built while the other was under way.
Ordered ==
    \A n, k \in DOMAIN inbox :
        n < k /\ IsWrite(inbox[n]) /\ IsWrite(inbox[k]) /\ inbox[n].id = inbox[k].id
        => inbox[k].call \in overlapped

\* What a write was not asked to change is as the panel has it.
Spare(m) ==
    IsWrite(m) /\ m.id \in Entry \ behind /\ m.call \notin overlapped
    => \A f \in DOMAIN m.config : f \in Field \ Asked(m.call) => m.config[f] = entries[m.id][f]

Spares == Ordered /\ \A m \in In(inbox) : Spare(m)

LEMMA PayloadKept ==
  ASSUME Types, [Next]_vars, NEW c \in Call, pc[c] # "ready"
  PROVE  payload'[c] = payload[c]
<1> USE DEF panelVars, cacheVars, callVars, history
<1>1. ASSUME NEW d \in Call, Start(d) \/ Resolve(d) \/ Run(d) \/ Build(d) \/ TimeOut(d) \/ Waited(d)
      PROVE  payload'[c] = payload[c]
  BY <1>1 DEF Types, MapTypes, Start, Resolve, Run, Build, TimeOut, Waited
<1> QED
  BY <1>1 DEF Next, PanelReads, PanelWrites, PanelRefuses, Keypad, HandleRead, HandleWritten, vars

LEMMA SpareKept ==
  ASSUME Types, [Next]_vars, NEW m, IsMessage(m), Sent(m), Spare(m),
         behind \subseteq behind', overlapped \subseteq overlapped',
         IsWrite(m) /\ m.id \in Entry \ behind' /\ m.call \notin overlapped'
            => entries'[m.id] = entries[m.id]
  PROVE  Spare(m)'
<1> SUFFICES ASSUME IsWrite(m), m.id \in Entry \ behind', m.call \notin overlapped',
                    NEW f \in DOMAIN m.config, f \in Field \ Asked(m.call)'
             PROVE  m.config[f] = entries'[m.id][f]
  BY DEF Spare
<1>1. payload'[m.call] = payload[m.call]
  BY PayloadKept DEF Sent, IsMessage
<1>2. Asked(m.call)' = Asked(m.call)
  BY <1>1 DEF Asked
<1> QED
  BY <1>2 DEF Spare

\* A command patches a copy that is the entry, unless writes are under way.
LEMMA BuildSpare ==
  ASSUME Types, Fresh, NEW c \in Call, Build(c), ~WritesUnderWay(target[c]), target[c] \in Entry \ behind,
         NEW p, p = PayloadOf(c), NEW f \in DOMAIN p, f \in Field \ Asked(c)'
  PROVE  p[f] = entries[target[c]][f]
<1>1. payload'[c] = p
  BY DEF Build, Types, MapTypes
<1>2. PICK i : i = target[c]
  OBVIOUS
<1>3. f \in DOMAIN Copy(i) /\ p[f] = Copy(i)[f]
  <2>1. CASE Ask[c].kind = "mode"
    <3>1. p = ModePayload(i, Ask[c].value)
      BY <1>2, <2>1 DEF PayloadOf
    <3>2. Ask[c].value \in Mode
      BY <2>1, AskAssumption
    <3>3. Asked(c)' = IF Ask[c].value \in {"heat", "cool"} THEN {"ACT_MODE", "ACT_SEA"} ELSE {"ACT_MODE"}
      BY <2>1 DEF Asked
    <3> QED
      BY <3>1, <3>2, <3>3, ModeWrites
  <2>2. CASE Ask[c].kind = "setpoint"
    <3>1. p = SetpointPayload(i, Ask[c].value)
      BY <1>2, <2>2 DEF PayloadOf
    <3>2. Asked(c)' = {"ACT_MODE", "ACT_SEA", p["ACT_SEA"]}
      BY <1>1, <2>2 DEF Asked
    <3>3. hint[i] \in Season \cup {None}
      BY <1>2, EntriesAreIds DEF Types, MapTypes
    <3> QED
      BY <3>1, <3>2, <3>3, SetpointWrites
  <2> QED
    BY <2>1, <2>2, AskAssumption
<1>4. Copy(i) = cfg[i] /\ cfg[i] # None
  BY <1>3 DEF Copy
<1>5. NoWrite(outbox, i, 0)
  BY <1>2 DEF NoWrite, WritesUnderWay, IsWrite
<1>6. Agrees(cfg[i], entries[i])
  BY <1>2, <1>4, <1>5 DEF Fresh, FreshIn
<1> QED
  BY <1>2, <1>3, <1>4, <1>6 DEF Agrees

LEMMA StepSpares ==
  ASSUME Types, Letters, Fresh, Spares, [Next]_vars
  PROVE  Spares'
<1> USE DEF panelVars, cacheVars, callVars, history
<1>0. CallTypes /\ MapTypes /\ MailTypes
  BY DEF Types
<1>1. \A m \in In(inbox) : IsMessage(m) /\ Sent(m) /\ Spare(m)
  BY MailIsMessages DEF Letters, Mail, Spares
<1>2. ASSUME behind \subseteq behind', overlapped \subseteq overlapped',
             \A m \in In(inbox) : IsWrite(m) /\ m.id \in Entry \ behind' /\ m.call \notin overlapped'
                                  => entries'[m.id] = entries[m.id]
      PROVE  \A m \in In(inbox) : Spare(m)'
  BY <1>1, <1>2, SpareKept
<1>3. ASSUME behind \subseteq behind', overlapped \subseteq overlapped', inbox' = inbox,
             \A i \in Entry \ behind' : entries'[i] = entries[i]
      PROVE  Spares'
  <2>1. \A m \in In(inbox) : Spare(m)'
    BY <1>2, <1>3
  <2> QED
    BY <1>3, <2>1 DEF Spares, Ordered, In
<1>4. ASSUME behind \subseteq behind', overlapped \subseteq overlapped', entries' = entries,
             NEW m, IsMessage(m), inbox' = Append(inbox, m), Spare(m)',
             IsWrite(m) => (\A n \in DOMAIN inbox : IsWrite(inbox[n]) /\ inbox[n].id = m.id => m.call \in overlapped')
      PROVE  Spares'
  <2>1. \A e \in In(inbox) : Spare(e)'
    BY <1>2, <1>4
  <2>2. /\ DOMAIN inbox' = DOMAIN inbox \cup {Len(inbox) + 1} /\ inbox'[Len(inbox) + 1] = m
        /\ \A n \in DOMAIN inbox : inbox'[n] = inbox[n]
        /\ DOMAIN inbox = 1..Len(inbox) /\ Len(inbox) \in Nat
    BY <1>0, <1>4, BoxAppend, BoxLength DEF MailTypes
  <2>3. Ordered'
    <3> SUFFICES ASSUME NEW n \in DOMAIN inbox', NEW k \in DOMAIN inbox', n < k,
                        IsWrite(inbox'[n]), IsWrite(inbox'[k]), inbox'[n].id = inbox'[k].id
                 PROVE  inbox'[k].call \in overlapped'
      BY DEF Ordered
    <3>1. n \in DOMAIN inbox
      BY <2>2
    <3>2. CASE k \in DOMAIN inbox
      BY <1>4, <2>2, <3>1, <3>2 DEF Spares, Ordered
    <3>3. CASE k = Len(inbox) + 1
      BY <1>4, <2>2, <3>1, <3>3
    <3> QED
      BY <2>2, <3>2, <3>3
  <2>4. In(inbox)' = In(inbox) \cup {m}
    BY <1>0, <1>4, InAppend DEF MailTypes
  <2> QED
    BY <1>4, <2>1, <2>3, <2>4 DEF Spares
<1>5. ASSUME behind \subseteq behind', overlapped \subseteq overlapped', inbox # <<>>, inbox' = Tail(inbox),
             \A m \in In(inbox') : IsWrite(m) /\ m.id \in Entry \ behind' /\ m.call \notin overlapped'
                                  => entries'[m.id] = entries[m.id]
      PROVE  Spares'
  <2>1. In(inbox') \subseteq In(inbox)
    BY <1>0, <1>5, InTail DEF MailTypes
  <2>2. \A m \in In(inbox') : Spare(m)'
    BY <1>1, <1>5, <2>1, SpareKept
  <2>3. \A n \in DOMAIN inbox' : n \in Int /\ n + 1 \in DOMAIN inbox /\ inbox'[n] = inbox[n + 1]
    BY <1>0, <1>5, BoxTail DEF MailTypes
  <2>4. Ordered'
    BY <1>5, <2>3 DEF Spares, Ordered
  <2> QED
    BY <2>2, <2>4 DEF Spares, In
<1>6. ASSUME NEW c \in Call, Start(c) \/ TimeOut(c) \/ Waited(c) PROVE Spares'
  BY <1>3, <1>6 DEF Start, TimeOut, Waited
<1>7. ASSUME NEW c \in Call, Resolve(c) \/ Run(c) PROVE Spares'
  <2>1. UNCHANGED <<behind, overlapped, entries>>
    BY <1>7 DEF Resolve, Run
  <2>2. CASE inbox' = inbox
    BY <1>3, <2>1, <2>2
  <2>3. ASSUME NEW i, inbox' = Append(inbox, Request(c, "READ", i, <<>>)) PROVE Spares'
    <3>1. PICK m : m = Request(c, "READ", i, <<>>)
      OBVIOUS
    <3>2. IsMessage(m) /\ ~IsWrite(m)
      BY <3>1, RequestIsMessage DEF IsWrite
    <3>3. Spare(m)'
      BY <3>2 DEF Spare, IsWrite
    <3> QED
      BY <1>4, <2>1, <2>3, <3>1, <3>2, <3>3
  <2> QED
    BY <1>7, <2>2, <2>3 DEF Resolve, Run
<1>8. ASSUME NEW c \in Call, Build(c) PROVE Spares'
  <2>1. PICK p : p = PayloadOf(c)
    OBVIOUS
  <2>2. PICK m : m = Request(c, "WRITE_CFG", target[c], p)
    OBVIOUS
  <2>3. IsMessage(m) /\ m.call = c /\ m.id = target[c] /\ m.config = p /\ IsWrite(m)
    BY <2>2, RequestIsMessage DEF IsWrite
  <2>4. /\ UNCHANGED <<behind, entries>> /\ overlapped \subseteq overlapped'
        /\ inbox' = Append(inbox, m) /\ (WritesUnderWay(target[c]) => c \in overlapped')
    BY <1>8, <2>1, <2>2 DEF Build
  <2>5. Spare(m)'
    <3> SUFFICES ASSUME m.id \in Entry \ behind, c \notin overlapped',
                        NEW f \in DOMAIN m.config, f \in Field \ Asked(c)'
                 PROVE  m.config[f] = entries[m.id][f]
      BY <2>3, <2>4 DEF Spare
    <3> QED
      BY <1>8, <2>1, <2>3, <2>4, BuildSpare
  <2>6. ASSUME NEW n \in DOMAIN inbox, IsWrite(inbox[n]), inbox[n].id = m.id PROVE m.call \in overlapped'
    BY <2>3, <2>4, <2>6 DEF WritesUnderWay, IsWrite
  <2> QED
    BY <1>4, <2>3, <2>4, <2>5, <2>6
<1>9. CASE PanelReads \/ PanelRefuses
  BY <1>5, <1>9 DEF PanelReads, PanelRefuses
<1>10. CASE PanelWrites
  <2>1. PICK w : w = Head(inbox)
    OBVIOUS
  <2>2. /\ inbox # <<>> /\ inbox' = Tail(inbox) /\ IsWrite(w) /\ UNCHANGED <<behind, overlapped>>
        /\ entries' = [entries EXCEPT ![w.id] = Onto(w.config, @)]
    BY <1>10, <2>1 DEF PanelWrites, IsWrite
  <2>3. /\ 1 \in DOMAIN inbox /\ w = inbox[1]
        /\ \A n \in DOMAIN inbox' : n \in Int /\ n + 1 \in DOMAIN inbox /\ n + 1 > 1 /\ inbox'[n] = inbox[n + 1]
    BY <1>0, <2>1, <2>2, BoxTail DEF MailTypes
  <2>4. ASSUME NEW n \in DOMAIN inbox', IsWrite(inbox'[n]), inbox'[n].id = w.id
        PROVE  inbox'[n].call \in overlapped
    BY <2>2, <2>3, <2>4 DEF Spares, Ordered
  <2>5. \A i \in Entry : i # w.id => entries'[i] = entries[i]
    BY <1>0, <2>2 DEF MapTypes
  <2>6. \A m \in In(inbox') : IsWrite(m) /\ m.id \in Entry \ behind' /\ m.call \notin overlapped'
                              => entries'[m.id] = entries[m.id]
    BY <2>2, <2>4, <2>5 DEF In
  <2> QED
    BY <1>5, <2>2, <2>6
<1>11. ASSUME NEW i \in Entry, NEW f, NEW v, Keypad(i, f, v) PROVE Spares'
  <2>1. \A j \in Entry \ behind' : entries'[j] = entries[j]
    BY <1>0, <1>11 DEF Keypad, MapTypes
  <2> QED
    BY <1>3, <1>11, <2>1 DEF Keypad
<1>12. CASE HandleRead \/ HandleWritten \/ UNCHANGED vars
  BY <1>3, <1>12 DEF HandleRead, HandleWritten, vars
<1> QED
  BY <1>6, <1>7, <1>8, <1>9, <1>10, <1>11, <1>12 DEF Next

LEMMA SparesInvariant == Spec => []Spares
<1>1. Init => Spares
  BY DEF Init, Spares, Ordered, In
<1> QED
  BY <1>1, Invariant, StepSpares, PTL DEF Spec, IInv

LEMMA RestStep ==
  ASSUME Types, Letters, Spares, [Next]_vars, NEW c \in Call,
         inbox # <<>>, Head(inbox).call = c, Head(inbox).op = "WRITE_CFG",
         entries' # entries, faults' = faults, target[c] \notin behind, c \notin overlapped,
         NEW f \in Field \ Asked(c)
  PROVE  entries'[target[c]][f] = entries[target[c]][f]
<1> USE DEF panelVars, cacheVars, callVars, history
<1>1. PanelWrites
  <2>1. ASSUME NEW d \in Call, Start(d) \/ Resolve(d) \/ Run(d) \/ Build(d) \/ TimeOut(d) \/ Waited(d)
        PROVE  FALSE
    BY <2>1 DEF Start, Resolve, Run, Build, TimeOut, Waited
  <2>2. ~(PanelReads \/ PanelRefuses \/ HandleRead \/ HandleWritten \/ UNCHANGED vars)
    BY DEF PanelReads, PanelRefuses, HandleRead, HandleWritten, vars
  <2>3. \A i, g, v : ~Keypad(i, g, v)
    BY DEF Keypad, Fault, Types, MapTypes
  <2> QED
    BY <2>1, <2>2, <2>3 DEF Next
<1>2. PICK w : w = Head(inbox)
  OBVIOUS
<1>3. /\ IsWrite(w) /\ w.id \in Entry /\ w.call = c
      /\ entries' = [entries EXCEPT ![w.id] = Onto(w.config, @)]
  BY <1>1, <1>2 DEF PanelWrites, IsWrite
<1>4. w \in In(inbox)
  BY <1>2, InTail DEF Types, MailTypes
<1>5. w.id = target[c] /\ Spare(w)
  BY <1>3, <1>4 DEF Letters, Mail, Sent, Spares
<1>6. f \in DOMAIN entries[w.id] /\ entries'[w.id] = Onto(w.config, entries[w.id])
  BY <1>3 DEF Types, MapTypes
<1>7. entries'[w.id][f] = IF f \in DOMAIN w.config THEN w.config[f] ELSE entries[w.id][f]
  BY <1>6 DEF Onto
<1>8. f \in DOMAIN w.config => w.config[f] = entries[w.id][f]
  BY <1>3, <1>5 DEF Spare
<1> QED
  BY <1>5, <1>7, <1>8

\* A setpoint or a mode leaves the rest of the entry as the panel has it, although a
\* whole entry is written: for any commands to any outputs, unless somebody changed the
\* entry behind the client's back or another write to it was under way.
THEOREM RestOfEntryKept == Spec => NothingElseChanges
<1>1. IInv /\ Spares /\ [Next]_vars =>
          \A c \in Call :
             (/\ inbox # <<>> /\ Head(inbox).call = c /\ Head(inbox).op = "WRITE_CFG"
              /\ entries' # entries /\ faults' = faults
              /\ target[c] \notin behind /\ c \notin overlapped)
             => \A f \in Field \ Asked(c) : entries'[target[c]][f] = entries[target[c]][f]
  BY RestStep DEF IInv
<1> QED
  BY <1>1, Invariant, SparesInvariant, PTL DEF Spec, NothingElseChanges
-----------------------------------------------------------------------------
(* Where commands are sent                                                 *)

\* Under OwnId and what the client may be told, every id that is tried for an output o
\* is one of G[o].
Closed(G) ==
    \A o \in Output :
        /\ G[o] \subseteq Id /\ OwnId[o] \in G[o]
        /\ \A w \in Wiring :
              /\ w.manual[o] \in G[o] \cup {None} /\ w.program[o] \in G[o] \cup {None}
              /\ ~w.hasPrograms => w.domus[o] \in G[o] \cup {None}

Resolving == {"resolving", "reading", "readLate"}

\* A command tries and takes ids of S; while it reads one there is one to read.
WayOf(c, S) ==
    /\ todo[c] \in Seq(S)
    /\ pc[c] \in {"reading", "readLate"} => todo[c] # <<>>
    /\ pc[c] # "idle" => otherwise[c] \in S
    /\ target[c] \in S \cup {None}
    /\ pc[c] \notin Resolving \cup {"idle"} => target[c] \in S

Ways(G) ==
    /\ wiring \in Wiring
    /\ commandId = [o \in Output |-> commandId[o]]
    /\ \A o \in Output : commandId[o] \in G[o] \cup {None}
    /\ todo = [c \in Call |-> todo[c]] /\ otherwise = [c \in Call |-> otherwise[c]]
    /\ \A c \in Call : WayOf(c, G[Ask[c].output])

LEMMA ConfigIdWithin ==
  ASSUME NEW S, NEW manual \in S \cup {None}, NEW program \in S \cup {None},
         NEW cached \in S \cup {None}, NEW domus, NEW own \in S, NEW known, NEW among,
         ~known => domus \in S \cup {None}
  PROVE  ConfigId(manual, program, cached, domus, own, known, among) \in S \cup {None}
<1> DEFINE Usable(i) == IF i \in among THEN i ELSE None
           linked == OrElse(Usable(manual), OrElse(Usable(program), Usable(cached)))
<1>1. linked \in S \cup {None}
  BY DEF OrElse
<1>2. OrElse(Usable(domus), Usable(own)) \in {domus, own, None}
  BY DEF OrElse
<1>3. ~known => OrElse(Usable(domus), Usable(own)) \in S \cup {None}
  BY <1>2
<1>4. ConfigId(manual, program, cached, domus, own, known, among) =
          IF linked = None /\ ~known THEN OrElse(Usable(domus), Usable(own)) ELSE linked
  BY DEF ConfigId
<1> HIDE DEF linked, Usable
<1> QED
  BY <1>1, <1>3, <1>4

LEMMA RememberedWithin ==
  ASSUME NEW G, Closed(G), Ways(G), NEW now, NEW o \in Output
  PROVE  Remembered(now)[o] \in G[o] \cup {None}
<1> DEFINE among == {i \in Id : now[i] # None}
           found == ConfigId(wiring.manual[o], wiring.program[o], commandId[o], wiring.domus[o],
                             OwnId[o], wiring.hasPrograms, among)
<1>1. Remembered(now)[o] = OrElse(found, commandId[o])
  BY DEF Remembered
<1>2. /\ wiring.manual[o] \in G[o] \cup {None} /\ wiring.program[o] \in G[o] \cup {None}
      /\ ~wiring.hasPrograms => wiring.domus[o] \in G[o] \cup {None}
      /\ OwnId[o] \in G[o] /\ commandId[o] \in G[o] \cup {None}
  BY DEF Closed, Ways
<1>3. found \in G[o] \cup {None}
  <2>1. PICK S : S = G[o]
    OBVIOUS
  <2>2. PICK manual, program, cached :
            manual = wiring.manual[o] /\ program = wiring.program[o] /\ cached = commandId[o]
    OBVIOUS
  <2>3. PICK domus, own, known :
            domus = wiring.domus[o] /\ own = OwnId[o] /\ known = wiring.hasPrograms
    OBVIOUS
  <2>4. PICK ids : ids = among
    OBVIOUS
  <2>5. manual \in S \cup {None} /\ program \in S \cup {None} /\ cached \in S \cup {None} /\ own \in S
    BY <1>2, <2>1, <2>2, <2>3
  <2>6. ~known => domus \in S \cup {None}
    BY <1>2, <2>1, <2>3, Zenon
  <2>7. ConfigId(manual, program, cached, domus, own, known, ids) \in S \cup {None}
    BY <2>5, <2>6, ConfigIdWithin, Zenon
  <2> QED
    BY <2>1, <2>2, <2>3, <2>4, <2>7
<1> HIDE DEF found
<1> QED
  BY <1>1, <1>2, <1>3 DEF OrElse

LEMMA KnownWithin == ASSUME NEW S, NEW i \in S \cup {None} PROVE Known(i) \in Seq(S)
BY DEF Known

LEMMA Single == ASSUME NEW S, NEW i \in S PROVE <<i>> \in Seq(S)
OBVIOUS

LEMMA Joined == ASSUME NEW S, NEW p \in Seq(S), NEW q \in Seq(S) PROVE p \o q \in Seq(S)
OBVIOUS

LEMMA CandidatesWithin ==
  ASSUME NEW G, Closed(G), Ways(G), NEW o \in Output
  PROVE  Candidates(o) \in Seq(G[o]) /\ Otherwise(o) \in G[o]
<1>1. /\ wiring.manual[o] \in G[o] \cup {None} /\ wiring.program[o] \in G[o] \cup {None}
      /\ ~wiring.hasPrograms => wiring.domus[o] \in G[o] \cup {None}
      /\ OwnId[o] \in G[o] /\ commandId[o] \in G[o] \cup {None}
  BY DEF Closed, Ways
<1> DEFINE unlinked == IF wiring.domus[o] = OwnId[o] THEN <<OwnId[o]>>
                       ELSE Known(wiring.domus[o]) \o <<OwnId[o]>>
           last == IF commandId[o] # None \/ wiring.hasPrograms THEN <<>> ELSE unlinked
<1>2. <<OwnId[o]>> \in Seq(G[o])
  BY <1>1, Single
<1>3. ~wiring.hasPrograms => unlinked \in Seq(G[o])
  BY <1>1, <1>2, KnownWithin, Joined
<1>4. last \in Seq(G[o])
  <2> HIDE DEF unlinked
  <2>1. <<>> \in Seq(G[o])
    OBVIOUS
  <2>2. last = <<>> \/ (~wiring.hasPrograms /\ last = unlinked)
    BY Zenon
  <2> HIDE DEF last
  <2> QED
    BY <1>3, <2>1, <2>2
<1>5. Candidates(o) = Known(wiring.manual[o]) \o Known(wiring.program[o]) \o last
  BY DEF Candidates
<1> HIDE DEF last
<1>6. Candidates(o) \in Seq(G[o])
  BY <1>1, <1>4, <1>5, KnownWithin, Joined
<1>7. Otherwise(o) \in G[o]
  BY <1>1 DEF Otherwise, OrElse
<1> QED
  BY <1>6, <1>7

\* A command that another one's step leaves alone, or that only goes on.
LEMMA WayKept ==
  ASSUME NEW c, NEW S, WayOf(c, S), todo'[c] = todo[c], otherwise'[c] = otherwise[c],
         target'[c] = target[c],
         pc'[c] \in {"reading", "readLate"} => pc[c] \in {"reading", "readLate"} \/ todo[c] # <<>>,
         pc'[c] # "idle" => pc[c] # "idle",
         pc'[c] \notin Resolving \cup {"idle"} => pc[c] \notin Resolving \cup {"idle"}
  PROVE  WayOf(c, S)'
BY DEF WayOf

\* A read is over.
LEMMA WayAfterRead ==
  ASSUME Types, NEW G, Ways(G), NEW c \in Call, NEW found, AfterRead(c, found),
         pc[c] \in {"reading", "readLate", "priming", "primeLate"},
         UNCHANGED <<otherwise, target>>
  PROVE  /\ todo' = [d \in Call |-> todo'[d]]
         /\ \A d \in Call : WayOf(d, G[Ask[d].output])'
<1>1. /\ todo = [d \in Call |-> todo[d]] /\ \A d \in Call : WayOf(d, G[Ask[d].output])
      /\ pc \in [Call -> Stage]
  BY DEF Ways, Types, CallTypes
<1>2. todo' = [d \in Call |-> todo'[d]] /\ \A d \in Call : d # c => todo'[d] = todo[d] /\ pc'[d] = pc[d]
  BY <1>1 DEF AfterRead
<1>3. \A d \in Call : d # c => WayOf(d, G[Ask[d].output])'
  BY <1>1, <1>2, WayKept
<1>4. WayOf(c, G[Ask[c].output])'
  <2>1. PICK S : S = G[Ask[c].output]
    OBVIOUS
  <2>2. WayOf(c, S)
    BY <1>1, <2>1
  <2>3. CASE pc[c] \in {"reading", "readLate"}
    <3>1. todo[c] \in Seq(S) /\ todo[c] # <<>> /\ otherwise[c] \in S /\ target[c] \in S \cup {None}
      BY <2>2, <2>3 DEF WayOf
    <3>2. Tail(todo[c]) \in Seq(S)
      BY <3>1
    <3>3. pc'[c] = "resolving" /\ todo'[c] \in {todo[c], Tail(todo[c])}
      BY <1>1, <2>3 DEF AfterRead
    <3>4. todo'[c] \in Seq(S)
      BY <3>1, <3>2, <3>3
    <3> QED
      BY <2>1, <3>1, <3>3, <3>4 DEF WayOf, Resolving
  <2>4. CASE pc[c] \in {"priming", "primeLate"}
    <3>1. pc'[c] = "ready" /\ todo' = todo
      BY <1>1, <2>4 DEF AfterRead
    <3> QED
      BY <2>1, <2>2, <2>4, <3>1 DEF WayOf, Resolving
  <2> QED
    BY <2>3, <2>4
<1> QED
  BY <1>2, <1>3, <1>4

\* A command joins its line with an id of its output's.
LEMMA WayEnqueued ==
  ASSUME Types, NEW G, Ways(G), NEW c \in Call, pc[c] = "resolving",
         NEW i \in G[Ask[c].output], Enqueue(c, i), UNCHANGED <<todo, otherwise>>
  PROVE  \A d \in Call : WayOf(d, G[Ask[d].output])'
<1>1. /\ \A d \in Call : WayOf(d, G[Ask[d].output])
      /\ pc \in [Call -> Stage] /\ target = [d \in Call |-> target[d]]
  BY DEF Ways, Types, CallTypes, MapTypes
<1>2. /\ pc'[c] = "queued" /\ target'[c] = i
      /\ \A d \in Call : d # c => pc'[d] = pc[d] /\ target'[d] = target[d]
  BY <1>1 DEF Enqueue
<1>3. \A d \in Call : d # c => WayOf(d, G[Ask[d].output])'
  BY <1>1, <1>2, WayKept
<1>4. WayOf(c, G[Ask[c].output])'
  BY <1>1, <1>2 DEF WayOf
<1> QED
  BY <1>3, <1>4

LEMMA StepWays ==
  ASSUME Types, NEW CONSTANT G, Closed(G), Ways(G), [Next]_vars
  PROVE  Ways(G)'
<1> USE DEF panelVars, cacheVars, callVars, history
<1>0. /\ pc \in [Call -> Stage] /\ target = [c \in Call |-> target[c]]
      /\ \A c \in Call : WayOf(c, G[Ask[c].output])
  BY DEF Types, CallTypes, MapTypes, Ways
<1>1. ASSUME UNCHANGED <<wiring, commandId, todo, otherwise>>,
             \A c \in Call : WayOf(c, G[Ask[c].output])'
      PROVE  Ways(G)'
  BY <1>1 DEF Ways
<1>2. ASSUME UNCHANGED <<wiring, commandId, todo, otherwise, target>>,
             \A c \in Call : pc'[c] = pc[c] \/ (pc[c] \notin Resolving \cup {"idle"}
                                                /\ pc'[c] \notin Resolving \cup {"idle"})
      PROVE  Ways(G)'
  <2>1. \A c \in Call : WayOf(c, G[Ask[c].output])'
    BY <1>0, <1>2, WayKept DEF Resolving
  <2> QED
    BY <1>1, <1>2, <2>1
<1>3. ASSUME NEW c \in Call, Start(c) PROVE Ways(G)'
  <2>1. PICK S : S = G[Ask[c].output]
    OBVIOUS
  <2>2. Candidates(Ask[c].output) \in Seq(S) /\ Otherwise(Ask[c].output) \in S
    BY <2>1, OutputOf, CandidatesWithin
  <2>3. /\ todo' = [todo EXCEPT ![c] = Candidates(Ask[c].output)]
        /\ otherwise' = [otherwise EXCEPT ![c] = Otherwise(Ask[c].output)]
        /\ pc' = [pc EXCEPT ![c] = "resolving"] /\ UNCHANGED <<wiring, commandId, target>>
    BY <1>3 DEF Start
  <2>4. todo' = [d \in Call |-> todo'[d]] /\ otherwise' = [d \in Call |-> otherwise'[d]]
    BY <2>3 DEF Ways
  <2>5. /\ todo'[c] \in Seq(S) /\ otherwise'[c] \in S /\ pc'[c] = "resolving"
        /\ \A d \in Call : d # c => todo'[d] = todo[d] /\ otherwise'[d] = otherwise[d] /\ pc'[d] = pc[d]
    BY <1>0, <2>2, <2>3 DEF Ways
  <2>6. \A d \in Call : d # c => WayOf(d, G[Ask[d].output])'
    BY <1>0, <2>3, <2>5, WayKept
  <2>7. WayOf(c, S)'
    BY <1>0, <2>1, <2>3, <2>5 DEF WayOf, Resolving
  <2> QED
    BY <2>1, <2>3, <2>4, <2>6, <2>7 DEF Ways
<1>4. ASSUME NEW c \in Call, Resolve(c) PROVE Ways(G)'
  <2>1. PICK S : S = G[Ask[c].output]
    OBVIOUS
  <2>2. pc[c] = "resolving" /\ UNCHANGED <<wiring, todo, otherwise>>
    BY <1>4 DEF Resolve
  <2>3. todo[c] \in Seq(S) /\ otherwise[c] \in S /\ (todo[c] # <<>> => Head(todo[c]) \in S)
    BY <1>0, <2>1, <2>2 DEF WayOf
  <2>4. CASE Enqueue(c, otherwise[c]) /\ commandId' = commandId
    BY <1>1, <2>1, <2>2, <2>3, <2>4, WayEnqueued
  <2>5. CASE /\ todo[c] # <<>> /\ Enqueue(c, Head(todo[c]))
             /\ commandId' = [commandId EXCEPT ![Ask[c].output] = Head(todo[c])]
    <3>1. \A d \in Call : WayOf(d, G[Ask[d].output])'
      BY <2>1, <2>2, <2>3, <2>5, WayEnqueued
    <3>2. /\ commandId' = [o \in Output |-> commandId'[o]]
          /\ \A o \in Output : commandId'[o] = IF o = Ask[c].output THEN Head(todo[c]) ELSE commandId[o]
      BY <2>5 DEF Ways
    <3>3. \A o \in Output : commandId'[o] \in G[o] \cup {None}
      BY <2>1, <2>3, <2>5, <3>2 DEF Ways
    <3> QED
      BY <2>2, <3>1, <3>2, <3>3 DEF Ways
  <2>6. CASE todo[c] # <<>> /\ pc' = [pc EXCEPT ![c] = "reading"] /\ UNCHANGED <<target, commandId>>
    <3>1. \A d \in Call : WayOf(d, G[Ask[d].output])'
      BY <1>0, <2>2, <2>6, WayKept DEF Resolving
    <3> QED
      BY <1>1, <2>2, <2>6, <3>1
  <2> QED
    BY <1>4, <2>4, <2>5, <2>6 DEF Resolve
<1>5. ASSUME NEW c \in Call, Run(c) \/ Build(c) PROVE Ways(G)'
  BY <1>0, <1>2, <1>5 DEF Run, Build, Resolving
<1>6. ASSUME NEW c \in Call, TimeOut(c) PROVE Ways(G)'
  <2>1. UNCHANGED <<wiring, commandId, todo, otherwise, target>>
    BY <1>6 DEF TimeOut
  <2>2. CASE pc[c] = "reading"
    <3>1. pc' = [pc EXCEPT ![c] = "readLate"]
      BY <1>0, <1>6, <2>2 DEF TimeOut
    <3>2. \A d \in Call : WayOf(d, G[Ask[d].output])'
      BY <1>0, <2>1, <2>2, <3>1, WayKept DEF Resolving
    <3> QED
      BY <1>1, <2>1, <3>2
  <2>3. CASE pc[c] \in {"priming", "writing"}
    BY <1>0, <1>2, <1>6, <2>1, <2>3 DEF TimeOut, Leave, Resolving
  <2> QED
    BY <1>6, <2>2, <2>3 DEF TimeOut
<1>7. ASSUME NEW c \in Call, Waited(c) PROVE Ways(G)'
  <2>1. /\ UNCHANGED <<wiring, commandId, otherwise, target>> /\ pc[c] \in {"readLate", "primeLate"}
        /\ \E found : AfterRead(c, found)
    BY <1>7 DEF Waited
  <2>2. todo' = [d \in Call |-> todo'[d]] /\ \A d \in Call : WayOf(d, G[Ask[d].output])'
    BY <2>1, WayAfterRead
  <2> QED
    BY <2>1, <2>2 DEF Ways
<1>8. CASE HandleRead
  <2> DEFINE r == Head(outbox)
  <2>1. r.call \in Call /\ UNCHANGED <<wiring, otherwise, target>>
    BY <1>8, FirstAnswer DEF HandleRead
  <2>2. PICK now : commandId' \in {commandId, Remembered(now)}
    BY <1>8 DEF HandleRead
  <2>3. commandId' = [o \in Output |-> commandId'[o]] /\ \A o \in Output : commandId'[o] \in G[o] \cup {None}
    <3>1. CASE commandId' = commandId
      BY <3>1 DEF Ways
    <3>2. CASE commandId' = Remembered(now)
      <4>1. commandId' = [o \in Output |-> commandId'[o]]
        BY <3>2 DEF Remembered
      <4> QED
        BY <3>2, <4>1, RememberedWithin
    <3> QED
      BY <2>2, <3>1, <3>2
  <2>4. todo' = [d \in Call |-> todo'[d]] /\ \A d \in Call : WayOf(d, G[Ask[d].output])'
    <3>1. CASE UNCHANGED <<pc, todo>>
      BY <1>0, <2>1, <3>1, WayKept DEF Ways
    <3>2. CASE pc[r.call] \in {"reading", "priming"} /\ \E found : AfterRead(r.call, found)
      BY <2>1, <3>2, WayAfterRead
    <3> QED
      BY <1>8, <3>1, <3>2 DEF HandleRead
  <2> QED
    BY <2>1, <2>3, <2>4 DEF Ways
<1>9. CASE HandleWritten
  BY <1>0, <1>2, <1>9 DEF HandleWritten, Leave, Resolving
<1>10. CASE PanelReads \/ PanelWrites \/ PanelRefuses \/ (\E i, f, v : Keypad(i, f, v)) \/ UNCHANGED vars
  BY <1>2, <1>10 DEF PanelReads, PanelWrites, PanelRefuses, Keypad, vars
<1> QED
  BY <1>3, <1>4, <1>5, <1>6, <1>7, <1>8, <1>9, <1>10 DEF Next

LEMMA InitWays == ASSUME NEW G, Closed(G), Init PROVE Ways(G)
<1>1. wiring \in Wiring /\ todo = [c \in Call |-> todo[c]] /\ otherwise = [c \in Call |-> otherwise[c]]
  BY DEF Init
<1>2. commandId = [o \in Output |-> commandId[o]] /\ \A o \in Output : commandId[o] = None
  BY DEF Init
<1>3. ASSUME NEW c \in Call, NEW S PROVE WayOf(c, S)
  BY DEF Init, WayOf
<1> QED
  BY <1>1, <1>2, <1>3 DEF Ways

\* An id that leads a command for output o astray is another thermostat's entry.
Harmless(o, i) == i \in Entry => i = EntryOf[o]

\* What the client may be told links outputs to their own entries, and no output's own
\* number is that of another thermostat's entry.  A panel that lists its programs may
\* give sensors the numbers of other thermostats' entries.
Truthful ==
    \A o \in Output :
        /\ Harmless(o, OwnId[o])
        /\ \A w \in Wiring :
              /\ Harmless(o, w.manual[o]) /\ Harmless(o, w.program[o])
              /\ ~w.hasPrograms => Harmless(o, w.domus[o])

\* The ids that do not lead a command for the output astray.
Own == [o \in Output |-> {i \in Id : Harmless(o, i)}]

LEMMA OwnClosed == ASSUME Truthful PROVE Closed(Own)
<1> SUFFICES ASSUME NEW o \in Output
             PROVE  /\ Own[o] \subseteq Id /\ OwnId[o] \in Own[o]
                    /\ \A w \in Wiring :
                          /\ w.manual[o] \in Own[o] \cup {None} /\ w.program[o] \in Own[o] \cup {None}
                          /\ ~w.hasPrograms => w.domus[o] \in Own[o] \cup {None}
  BY DEF Closed
<1>1. Own[o] = {i \in Id : Harmless(o, i)}
  BY DEF Own
<1>2. OwnId[o] \in Id /\ Harmless(o, OwnId[o])
  BY IdAssumption DEF Truthful
<1>3. ASSUME NEW w \in Wiring
      PROVE  /\ w.manual[o] \in Own[o] \cup {None} /\ w.program[o] \in Own[o] \cup {None}
             /\ ~w.hasPrograms => w.domus[o] \in Own[o] \cup {None}
  <2>1. /\ w.manual[o] \in Id \cup {None} /\ w.program[o] \in Id \cup {None}
        /\ w.domus[o] \in Id \cup {None}
    BY WiringAssumption DEF WiringType
  <2>2. /\ Harmless(o, w.manual[o]) /\ Harmless(o, w.program[o])
        /\ ~w.hasPrograms => Harmless(o, w.domus[o])
    BY DEF Truthful
  <2> QED
    BY <1>1, <2>1, <2>2
<1> QED
  BY <1>1, <1>2, <1>3

\* Commands change only the entry that drives their output's thermostat, also when
\* sensors have the numbers of other thermostats' entries, whatever times out, and
\* whichever answers come late (resolveThermostatCommandId, the ids remembered by
\* applyThermostatConfigSnapshot).
THEOREM RoutedCorrect == ASSUME Truthful PROVE Spec => []RoutedToOwnEntry
<1>1. Init => Ways(Own)
  BY InitWays, OwnClosed
<1>2. Types /\ Ways(Own) /\ [Next]_vars => Ways(Own)'
  BY StepWays, OwnClosed
<1>3. Ways(Own) => RoutedToOwnEntry
  <2> SUFFICES ASSUME Ways(Own), NEW c \in Call, target[c] # None
               PROVE  target[c] \in {EntryOf[Ask[c].output]} \cup (Id \ Entry)
    BY DEF RoutedToOwnEntry
  <2>1. target[c] \in Own[Ask[c].output]
    BY DEF Ways, WayOf
  <2>2. target[c] \in Id /\ Harmless(Ask[c].output, target[c])
    BY <2>1, OutputOf DEF Own
  <2> QED
    BY <2>2 DEF Harmless
<1> QED
  BY <1>1, <1>2, <1>3, LinesInvariant, PTL DEF Spec
-----------------------------------------------------------------------------
(* What configurations hold                                                *)

Values == [ACT_MODE |-> {"OFF", "MAN", "AUTO"}, ACT_SEA |-> Season, WIN |-> Temp, SUM |-> Temp]

WellTyped(p) ==
    /\ p = [f \in DOMAIN p |-> p[f]]
    /\ DOMAIN p \subseteq Field
    /\ \A f \in DOMAIN p : p[f] \in Values[f]

LEMMA ConfigIs == \A g : g \in Config <=> WellTyped(g) /\ DOMAIN g = Field
<1>1. ASSUME NEW g \in Config PROVE WellTyped(g) /\ DOMAIN g = Field
  BY DEF Config, WellTyped, Values, Field
<1>2. ASSUME NEW g, WellTyped(g), DOMAIN g = Field PROVE g \in Config
  <2>1. g = [f \in Field |-> g[f]] /\ \A f \in Field : g[f] \in Values[f]
    BY <1>2 DEF WellTyped
  <2>2. [f \in Field |-> g[f]]
            = [ACT_MODE |-> g["ACT_MODE"], ACT_SEA |-> g["ACT_SEA"], WIN |-> g["WIN"], SUM |-> g["SUM"]]
    BY DEF Field
  <2>3. /\ g["ACT_MODE"] \in {"OFF", "MAN", "AUTO"} /\ g["ACT_SEA"] \in Season
        /\ g["WIN"] \in Temp /\ g["SUM"] \in Temp
    BY <2>1 DEF Field, Values
  <2> QED
    BY <2>1, <2>2, <2>3 DEF Config
<1> QED
  BY <1>1, <1>2

\* A configuration with some fields missing, when there is a setpoint at all.
LEMMA PartialIs ==
  ASSUME NEW t \in Temp
  PROVE  \A p : p \in PartialConfig <=> WellTyped(p)
<1>1. ASSUME NEW p \in PartialConfig PROVE WellTyped(p)
  <2>1. PICK F \in SUBSET Field, g \in Config : p = [f \in F |-> g[f]]
    BY DEF PartialConfig
  <2>2. DOMAIN p = F /\ \A f \in F : p[f] = g[f]
    BY <2>1
  <2>3. \A f \in F : g[f] \in Values[f]
    BY ConfigIs DEF WellTyped
  <2> QED
    BY <2>1, <2>2, <2>3 DEF WellTyped
<1>2. ASSUME NEW p, WellTyped(p) PROVE p \in PartialConfig
  <2> DEFINE Any == [ACT_MODE |-> "OFF", ACT_SEA |-> "WIN", WIN |-> t, SUM |-> t]
             g == [f \in Field |-> IF f \in DOMAIN p THEN p[f] ELSE Any[f]]
  <2>1. \A f \in Field : Any[f] \in Values[f]
    BY DEF Field, Values, Season
  <2>2. DOMAIN g = Field /\ g = [f \in DOMAIN g |-> g[f]]
    OBVIOUS
  <2> HIDE DEF Any
  <2>3. \A f \in Field : g[f] \in Values[f]
    BY <1>2, <2>1 DEF WellTyped
  <2>4. g \in Config
    <3> HIDE DEF g
    <3> QED
      BY <2>2, <2>3, ConfigIs DEF WellTyped
  <2>5. DOMAIN p \in SUBSET Field /\ p = [f \in DOMAIN p |-> g[f]]
    BY <1>2 DEF WellTyped
  <2> HIDE DEF g
  <2> QED
    BY <2>4, <2>5 DEF PartialConfig
<1> QED
  BY <1>1, <1>2

LEMMA OntoTyped ==
  ASSUME NEW p, NEW g, WellTyped(p), WellTyped(g)
  PROVE  WellTyped(Onto(p, g))
<1>1. PICK h : h = Onto(p, g)
  OBVIOUS
<1>2. /\ DOMAIN h = DOMAIN p \cup DOMAIN g /\ h = [f \in DOMAIN h |-> h[f]]
      /\ \A f \in DOMAIN h : h[f] = IF f \in DOMAIN p THEN p[f] ELSE g[f]
  BY <1>1 DEF Onto
<1>3. WellTyped(h)
  BY <1>2 DEF WellTyped
<1> QED
  BY <1>1, <1>3

LEMMA NothingTyped == WellTyped(<<>>)
BY DEF WellTyped

\* There is a setpoint: an entry holds one.
LEMMA SomeTemp ==
  ASSUME entries \in [Entry -> Config], NEW c \in Call
  PROVE  \E t : t \in Temp
<1>1. EntryOf[Ask[c].output] \in Entry
  BY OutputOf DEF Entry
<1>2. entries[EntryOf[Ask[c].output]] \in Config
  BY <1>1
<1> QED
  BY <1>2 DEF Config

LEMMA ModeTyped ==
  ASSUME NEW i, WellTyped(Copy(i)), NEW m \in Mode
  PROVE  WellTyped(ModePayload(i, m))
<1>1. PICK p : p = ModePatch(m)
  OBVIOUS
<1>2. WellTyped(p)
  BY <1>1 DEF ModePatch, Mode, WellTyped, Values, Field, Season
<1> QED
  BY <1>1, <1>2, OntoTyped DEF ModePayload

LEMMA SetpointTyped ==
  ASSUME NEW i, WellTyped(Copy(i)), hint[i] \in Season \cup {None}, NEW t \in Temp
  PROVE  WellTyped(SetpointPayload(i, t))
<1> DEFINE patched == OrElse(hint[i], "WIN")
           cached  == IF "ACT_SEA" \in DOMAIN Copy(i) THEN Copy(i)["ACT_SEA"] ELSE None
           active  == OrElse(hint[i], OrElse(cached, patched))
           setpoint == IF active = patched THEN [s \in {active} |-> t] ELSE <<>>
           first == [ACT_MODE |-> "MAN", ACT_SEA |-> active]
<1>1. patched \in Season
  BY DEF OrElse, Season
<1>2. cached \in Season \cup {None}
  BY DEF WellTyped, Values
<1>3. active \in Season
  <2> HIDE DEF patched, cached
  <2> QED
    BY <1>1, <1>2 DEF OrElse
<1>4. SetpointPayload(i, t) = Onto(setpoint, Onto(first, Copy(i)))
  BY DEF SetpointPayload
<1> HIDE DEF active, patched
<1>5. WellTyped(first)
  BY <1>3 DEF WellTyped, Values, Field
<1>6. WellTyped(setpoint)
  <2>1. WellTyped([s \in {active} |-> t])
    BY <1>3 DEF WellTyped, Values, Field, Season
  <2> QED
    BY <2>1, NothingTyped
<1> HIDE DEF first, setpoint
<1>7. WellTyped(Onto(first, Copy(i)))
  BY <1>5, OntoTyped
<1> QED
  BY <1>4, <1>6, <1>7, OntoTyped

\* Every entry, copy, payload and answer is made of modes, seasons and setpoints.
Told(m) == m.op = "READ" => m.config = <<>> \/ m.config \in Config

Holdings ==
    /\ entries \in [Entry -> Config]
    /\ \A i \in Id : cfg[i] = None \/ cfg[i] \in PartialConfig
    /\ \A c \in Call : pc[c] \in {"writing", "failed"} => payload[c] \in PartialConfig
    /\ \A m \in Mail : Told(m)
    /\ faults \in 0..MaxFaults

AllIds == [o \in Output |-> Id]

LEMMA AllIdsClosed == Closed(AllIds)
<1> SUFFICES ASSUME NEW o \in Output
             PROVE  /\ AllIds[o] \subseteq Id /\ OwnId[o] \in AllIds[o]
                    /\ \A w \in Wiring :
                          /\ w.manual[o] \in AllIds[o] \cup {None} /\ w.program[o] \in AllIds[o] \cup {None}
                          /\ ~w.hasPrograms => w.domus[o] \in AllIds[o] \cup {None}
  BY DEF Closed
<1>1. AllIds[o] = Id /\ OwnId[o] \in Id
  BY IdAssumption DEF AllIds
<1>2. \A w \in Wiring : /\ w.manual[o] \in Id \cup {None} /\ w.program[o] \in Id \cup {None}
                        /\ w.domus[o] \in Id \cup {None}
  BY WiringAssumption DEF WiringType
<1> QED
  BY <1>1, <1>2

\* What a command that is ready builds.
LEMMA BuildTyped ==
  ASSUME Types, Ways(AllIds), Holdings, NEW c \in Call, pc[c] = "ready"
  PROVE  PayloadOf(c) \in PartialConfig
<1>1. PICK t : t \in Temp
  BY SomeTemp DEF Holdings
<1>2. PICK i : i = target[c]
  OBVIOUS
<1>3. i \in Id
  BY <1>2, OutputOf DEF Ways, WayOf, AllIds, Resolving
<1>4. WellTyped(Copy(i))
  BY <1>1, <1>3, PartialIs, NothingTyped DEF Holdings, Copy
<1>5. CASE Ask[c].kind = "mode"
  <2>1. Ask[c].value \in Mode
    BY <1>5, AskAssumption
  <2>2. PayloadOf(c) = ModePayload(i, Ask[c].value)
    BY <1>2, <1>5 DEF PayloadOf
  <2> QED
    BY <1>1, <1>4, <2>1, <2>2, ModeTyped, PartialIs
<1>6. CASE Ask[c].kind # "mode"
  <2>1. Ask[c].value \in Temp
    BY <1>6, AskAssumption
  <2>2. PayloadOf(c) = SetpointPayload(i, Ask[c].value)
    BY <1>2, <1>6 DEF PayloadOf
  <2>3. hint[i] \in Season \cup {None}
    BY <1>3 DEF Types, MapTypes
  <2> QED
    BY <1>1, <1>4, <2>1, <2>2, <2>3, SetpointTyped, PartialIs
<1> QED
  BY <1>5, <1>6

\* The panel merges a partial configuration into an entry.
LEMMA MergedEntry ==
  ASSUME NEW p \in PartialConfig, NEW g \in Config
  PROVE  Onto(p, g) \in Config
<1>1. PICK t : t \in Temp
  BY DEF Config
<1>2. WellTyped(p) /\ WellTyped(g) /\ DOMAIN g = Field
  BY <1>1, PartialIs, ConfigIs
<1>3. WellTyped(Onto(p, g))
  BY <1>2, OntoTyped
<1>4. DOMAIN Onto(p, g) = DOMAIN p \cup DOMAIN g
  BY Merged
<1>5. DOMAIN Onto(p, g) = Field
  BY <1>2, <1>4 DEF WellTyped
<1> QED
  BY <1>3, <1>5, ConfigIs

LEMMA WholeIsPartial == ASSUME NEW g \in Config PROVE g \in PartialConfig
<1>1. PICK t : t \in Temp
  BY DEF Config
<1> QED
  BY <1>1, PartialIs, ConfigIs

\* What a step leaves of the configurations when it answers, and asks, nothing new.
LEMMA HoldingsKept ==
  ASSUME Types, Holdings, UNCHANGED <<entries, cfg, payload>>, faults' \in 0..MaxFaults,
         \A c \in Call : pc'[c] \in {"writing", "failed"} => pc[c] \in {"writing", "failed"},
         \A m \in Mail' : Told(m)
  PROVE  Holdings'
BY DEF Holdings

LEMMA StepHoldings ==
  ASSUME Types, Letters, Ways(AllIds), Holdings, [Next]_vars
  PROVE  Holdings'
<1> USE DEF panelVars, cacheVars, callVars, history
<1>0. /\ pc \in [Call -> Stage] /\ \A m \in Mail : Told(m)
      /\ Box(inbox) /\ Box(outbox) /\ faults \in 0..MaxFaults /\ cfg = [i \in Id |-> cfg[i]]
      /\ payload = [c \in Call |-> payload[c]] /\ entries \in [Entry -> Config]
  BY DEF Types, CallTypes, MailTypes, MapTypes, Holdings
<1>1. Fault => faults' \in 0..MaxFaults
  BY <1>0, ConfigAssumption DEF Fault
<1>2. ASSUME NEW q, NEW m, Box(q), \A e \in In(q) : Told(e), Told(m)
      PROVE  \A e \in In(Append(q, m)) : Told(e)
  BY <1>2, InAppend
<1>3. ASSUME NEW c \in Call, Start(c) \/ Waited(c) PROVE Holdings'
  <2>1. UNCHANGED <<entries, cfg, payload, faults, inbox, outbox>>
    BY <1>3 DEF Start, Waited
  <2>2. \A d \in Call : pc'[d] \in {"writing", "failed"} => pc[d] \in {"writing", "failed"}
    BY <1>0, <1>3 DEF Start, Waited, AfterRead
  <2>3. \A m \in Mail' : Told(m)
    BY <1>0, <2>1 DEF Mail
  <2> QED
    BY <1>0, <2>1, <2>2, <2>3, HoldingsKept
<1>4. ASSUME NEW c \in Call, Resolve(c) \/ Run(c) PROVE Holdings'
  <2>1. UNCHANGED <<entries, cfg, payload, faults, outbox>>
    BY <1>4 DEF Resolve, Run
  <2>2. \A d \in Call : pc'[d] \in {"writing", "failed"} => pc[d] \in {"writing", "failed"}
    BY <1>0, <1>4 DEF Resolve, Run, Enqueue
  <2>3. \A m \in In(inbox)' : Told(m)
    <3>1. CASE inbox' = inbox
      BY <1>0, <3>1 DEF Mail
    <3>2. ASSUME NEW i, inbox' = Append(inbox, Request(c, "READ", i, <<>>)) PROVE \A m \in In(inbox)' : Told(m)
      <4>1. PICK m : m = Request(c, "READ", i, <<>>)
        OBVIOUS
      <4>2. Told(m)
        BY <4>1, RequestIsMessage DEF Told
      <4> QED
        BY <1>0, <1>2, <3>2, <4>1, <4>2 DEF Mail
    <3> QED
      BY <1>4, <3>1, <3>2 DEF Resolve, Run
  <2>4. \A m \in Mail' : Told(m)
    BY <1>0, <2>1, <2>3 DEF Mail
  <2> QED
    BY <1>0, <2>1, <2>2, <2>4, HoldingsKept
<1>5. ASSUME NEW c \in Call, Build(c) PROVE Holdings'
  <2>1. PICK p : p = PayloadOf(c)
    OBVIOUS
  <2>2. PICK m : m = Request(c, "WRITE_CFG", target[c], p)
    OBVIOUS
  <2>3. p \in PartialConfig
    BY <1>5, <2>1, BuildTyped DEF Build
  <2>4. Told(m)
    BY <2>2, RequestIsMessage DEF Told
  <2>5. /\ inbox' = Append(inbox, m) /\ payload' = [payload EXCEPT ![c] = p]
        /\ pc' = [pc EXCEPT ![c] = "writing"] /\ UNCHANGED <<entries, cfg, faults, outbox>>
    BY <1>5, <2>1, <2>2 DEF Build
  <2>6. \A e \in In(inbox)' : Told(e)
    BY <1>0, <1>2, <2>4, <2>5 DEF Mail
  <2>7. \A e \in Mail' : Told(e)
    BY <1>0, <2>5, <2>6 DEF Mail
  <2>8. \A d \in Call : pc'[d] \in {"writing", "failed"} => payload'[d] \in PartialConfig
    BY <1>0, <2>3, <2>5 DEF Holdings
  <2> QED
    BY <1>0, <2>5, <2>7, <2>8 DEF Holdings
<1>6. ASSUME NEW c \in Call, TimeOut(c) PROVE Holdings'
  <2>1. UNCHANGED <<entries, cfg, payload, inbox, outbox>> /\ faults' \in 0..MaxFaults
    BY <1>1, <1>6 DEF TimeOut
  <2>2. \A d \in Call : pc'[d] \in {"writing", "failed"} => pc[d] \in {"writing", "failed"}
    BY <1>0, <1>6 DEF TimeOut, Leave
  <2>3. \A m \in Mail' : Told(m)
    BY <1>0, <2>1 DEF Mail
  <2> QED
    BY <2>1, <2>2, <2>3, HoldingsKept
<1>7. CASE PanelReads \/ PanelRefuses
  <2>1. /\ UNCHANGED <<entries, cfg, payload, pc>> /\ faults' \in 0..MaxFaults
        /\ inbox # <<>> /\ inbox' = Tail(inbox)
    BY <1>0, <1>1, <1>7 DEF PanelReads, PanelRefuses
  <2>2. Head(inbox) \in Mail /\ IsMessage(Head(inbox)) /\ In(inbox)' \subseteq Mail
    BY <1>0, <2>1, InTail, FirstRequest DEF Mail
  <2>3. PICK m : outbox' = Append(outbox, m) /\ Told(m)
    <3> DEFINE r == Head(inbox)
    <3>1. CASE outbox' = Append(outbox, r)
      BY <1>0, <2>2, <3>1
    <3>2. CASE r.id \in Entry /\ outbox' = Append(outbox, [r EXCEPT !.config = entries[r.id]])
      <4>1. PICK e : e = [r EXCEPT !.config = entries[r.id]]
        OBVIOUS
      <4>2. e.config = entries[r.id]
        BY <2>2, <4>1 DEF IsMessage
      <4>3. Told(e)
        BY <1>0, <3>2, <4>2 DEF Told
      <4> QED
        BY <3>2, <4>1, <4>3
    <3> QED
      BY <1>7, <3>1, <3>2 DEF PanelReads, PanelRefuses
  <2>4. \A e \in In(outbox)' : Told(e)
    BY <1>0, <1>2, <2>3 DEF Mail
  <2>5. \A e \in Mail' : Told(e)
    BY <1>0, <2>2, <2>4 DEF Mail
  <2> QED
    BY <2>1, <2>5, HoldingsKept
<1>8. CASE PanelWrites
  <2>1. PICK w : w = Head(inbox)
    OBVIOUS
  <2>2. /\ inbox # <<>> /\ inbox' = Tail(inbox) /\ outbox' = Append(outbox, w) /\ w.id \in Entry
        /\ IsWrite(w) /\ entries' = [entries EXCEPT ![w.id] = Onto(w.config, @)]
        /\ UNCHANGED <<cfg, payload, pc, faults>>
    BY <1>8, <2>1 DEF PanelWrites, IsWrite
  <2>3. w \in Mail /\ IsMessage(w) /\ In(inbox)' \subseteq Mail
    BY <1>0, <2>1, <2>2, InTail, FirstRequest DEF Mail
  <2>4. w.config \in PartialConfig
    BY <2>2, <2>3 DEF Letters, Sent, IsMessage, Holdings
  <2>5. entries' \in [Entry -> Config]
    <3>1. Onto(w.config, entries[w.id]) \in Config
      BY <1>0, <2>2, <2>4, MergedEntry
    <3> QED
      BY <1>0, <2>2, <3>1
  <2>6. \A e \in In(outbox)' : Told(e)
    BY <1>0, <1>2, <2>2, <2>3 DEF Mail
  <2>7. \A e \in Mail' : Told(e)
    BY <1>0, <2>3, <2>6 DEF Mail
  <2> QED
    BY <2>2, <2>5, <2>7 DEF Holdings
<1>9. ASSUME NEW i \in Entry, NEW f \in Field, NEW v \in Values[f], Keypad(i, f, v) PROVE Holdings'
  <2>1. /\ entries' = [entries EXCEPT ![i] = [entries[i] EXCEPT ![f] = v]]
        /\ UNCHANGED <<cfg, payload, pc, inbox, outbox>> /\ faults' \in 0..MaxFaults
    BY <1>1, <1>9 DEF Keypad
  <2>2. PICK g : g = entries[i]
    OBVIOUS
  <2>3. PICK h : h = [g EXCEPT ![f] = v]
    OBVIOUS
  <2>4. WellTyped(g) /\ DOMAIN g = Field
    BY <1>0, <2>2, ConfigIs
  <2>5. WellTyped(h) /\ DOMAIN h = Field
    BY <1>9, <2>3, <2>4 DEF WellTyped
  <2>6. entries' \in [Entry -> Config]
    BY <1>0, <2>1, <2>2, <2>3, <2>5, ConfigIs
  <2>7. \A m \in Mail' : Told(m)
    BY <1>0, <2>1 DEF Mail
  <2> QED
    BY <2>1, <2>6, <2>7 DEF Holdings
<1>10. CASE HandleRead
  <2>1. PICK r : r = Head(outbox)
    OBVIOUS
  <2>2. /\ UNCHANGED <<entries, payload, faults, inbox>> /\ outbox # <<>> /\ outbox' = Tail(outbox)
        /\ r.op = "READ" /\ r.call \in Call /\ r \in Mail /\ In(outbox)' \subseteq Mail
    BY <1>0, <1>10, <2>1, FirstAnswer, InTail DEF HandleRead, Mail
  <2>3. \A m \in Mail' : Told(m)
    BY <1>0, <2>2 DEF Mail
  <2>4. \A d \in Call : pc'[d] \in {"writing", "failed"} => pc[d] \in {"writing", "failed"}
    BY <1>0, <1>10, <2>1 DEF HandleRead, AfterRead
  <2>5. cfg' = IF r.config = <<>> THEN cfg ELSE [cfg EXCEPT ![r.id] = r.config]
    BY <1>10, <2>1 DEF HandleRead
  <2>6. r.config # <<>> => r.config \in PartialConfig
    BY <1>0, <2>2, WholeIsPartial DEF Told
  <2>7. \A i \in Id : cfg'[i] = None \/ cfg'[i] \in PartialConfig
    BY <1>0, <2>5, <2>6 DEF Holdings
  <2> QED
    BY <2>2, <2>3, <2>4, <2>7 DEF Holdings
<1>11. CASE HandleWritten
  <2>1. PICK r : r = Head(outbox)
    OBVIOUS
  <2>2. /\ UNCHANGED <<entries, payload, faults, inbox>> /\ outbox # <<>> /\ outbox' = Tail(outbox)
        /\ r.call \in Call /\ In(outbox)' \subseteq Mail
    BY <1>0, <1>11, <2>1, FirstAnswer, InTail DEF HandleWritten, Mail
  <2>3. \A m \in Mail' : Told(m)
    BY <1>0, <2>2 DEF Mail
  <2>4. \A d \in Call : pc'[d] \in {"writing", "failed"} => pc[d] \in {"writing", "failed"}
    BY <1>0, <1>11 DEF HandleWritten, Leave
  <2>5. \/ cfg' = cfg
        \/ pc[r.call] = "writing" /\ cfg' = [cfg EXCEPT ![r.id] = payload[r.call]]
    BY <1>11, <2>1 DEF HandleWritten, CfgAfterWrite
  <2>6. \A i \in Id : cfg'[i] = None \/ cfg'[i] \in PartialConfig
    BY <1>0, <2>2, <2>5 DEF Holdings
  <2> QED
    BY <2>2, <2>3, <2>4, <2>6 DEF Holdings
<1>12. CASE UNCHANGED vars
  BY <1>12 DEF vars, Holdings, Mail
<1>13. /\ \A f \in Season, v \in Temp : f \in Field /\ v \in Values[f]
       /\ \A v \in Season : "ACT_SEA" \in Field /\ v \in Values["ACT_SEA"]
  BY DEF Field, Season, Values
<1> QED
  BY <1>3, <1>4, <1>5, <1>6, <1>7, <1>8, <1>9, <1>10, <1>11, <1>12, <1>13 DEF Next

LEMMA InitHoldings == Init => Holdings
<1> SUFFICES ASSUME Init PROVE Holdings
  OBVIOUS
<1>1. entries \in [Entry -> Config] /\ faults \in 0..MaxFaults
  BY ConfigAssumption DEF Init
<1>2. \A i \in Id : cfg[i] = None
  BY DEF Init
<1>3. Mail = {} /\ \A c \in Call : pc[c] = "idle"
  BY DEF Init, Mail, In
<1> QED
  BY <1>1, <1>2, <1>3 DEF Holdings

\* Entries stay whole and copies stay configurations, whatever is merged into what
\* (buildThermostatConfigWritePayload and its copies, applyThermostatConfigSnapshot),
\* and only known ids are tried, remembered and taken.
THEOREM TypeCorrect == Spec => []TypeOK
<1>1. Init => Ways(AllIds) /\ Holdings
  BY InitWays, AllIdsClosed, InitHoldings
<1>2. Types /\ Letters /\ Ways(AllIds) /\ Holdings /\ [Next]_vars => Ways(AllIds)' /\ Holdings'
  BY StepWays, AllIdsClosed, StepHoldings
<1>3. Types /\ Ways(AllIds) /\ Holdings => TypeOK
  <2> SUFFICES ASSUME Types, Ways(AllIds), Holdings PROVE TypeOK
    OBVIOUS
  <2>1. \A o \in Output : AllIds[o] = Id
    BY DEF AllIds
  <2>2. commandId \in [Output -> Id \cup {None}]
    BY <2>1 DEF Ways
  <2>3. target \in [Call -> Id \cup {None}]
    BY <2>1, OutputOf DEF Ways, WayOf, Types, MapTypes
  <2>4. wiring \in WiringType
    BY WiringAssumption DEF Ways
  <2> QED
    BY <2>2, <2>3, <2>4 DEF TypeOK, Types, CallTypes, MapTypes, Stage, Holdings
<1> QED
  BY <1>1, <1>2, <1>3, LettersInvariant, PTL DEF Spec
=============================================================================
