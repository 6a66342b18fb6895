----------------------------- MODULE TicketServer -----------------------------
(***************************************************************************)
(* What enqueueDeviceCommand promises its callers, without promises, maps, *)
(* ids or sockets: the calls for one device take tickets and are served in *)
(* the order of the tickets; a call is settled once; and a shutdown forgets*)
(* the lines, so that calls made before it no longer hold up later ones.   *)
(* CommandDispatcher implements this (MCCommandDispatcher checks it and    *)
(* CommandDispatcher_proofs proves it).                                    *)
(***************************************************************************)
EXTENDS Naturals

CONSTANTS
    Customer,   \* calls; each is made at most once
    Device,     \* devices, each with a line of its own
    None,       \* no device: the call waits for nobody
    DeviceOf    \* the line a call stands in

VARIABLES
    status,     \* of each call
    ticket,     \* its number, once it is made
    next,       \* the next number
    loose       \* calls whose line was forgotten

vars == <<status, ticket, next, loose>>

Unserved == {"queued", "busy"}
Result   == {"ok", "failed"}
Status   == {"new"} \cup Unserved \cup Result

Init ==
    /\ status = [c \in Customer |-> "new"]
    /\ ticket = [c \in Customer |-> 0]
    /\ next = 0
    /\ loose = {}

\* e stands in the line of c, before c.
Before(e, c) ==
    /\ DeviceOf[e] = DeviceOf[c] /\ DeviceOf[c] \in Device
    /\ e \notin loose /\ c \notin loose
    /\ status[e] \in Unserved
    /\ ticket[e] < ticket[c]

Front(c) == \A e \in Customer : ~Before(e, c)

\* A call is made and takes the next ticket.
Join(c) ==
    /\ status[c] = "new"
    /\ status' = [status EXCEPT ![c] = "queued"]
    /\ ticket' = [ticket EXCEPT ![c] = next]
    /\ next' = next + 1
    /\ UNCHANGED loose

\* Calls at the front of their lines begin or are settled, several at once when
\* the connection is lost.  A result is final.
Move ==
    /\ status' \in [Customer -> Status]
    /\ \A c \in Customer : status'[c] # status[c] =>
          status[c] \in Unserved /\ Front(c) /\ status'[c] \in {"busy"} \cup Result
    /\ UNCHANGED <<ticket, next>>

Serve == Move /\ UNCHANGED loose

\* disconnect(): the lines are forgotten.
Shutdown == Move /\ loose' = {c \in Customer : status[c] # "new"}

Next == (\E c \in Customer : Join(c)) \/ Serve \/ Shutdown

Spec == Init /\ [][Next]_vars
=============================================================================
