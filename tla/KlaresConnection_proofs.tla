----------------------- MODULE KlaresConnection_proofs -----------------------
(*****************************************************************************)
(* Proofs about KlaresConnection, for any set of sockets and any back-off    *)
(* bound: first what holds whatever the timing of close events, then what    *)
(* needs closing handshakes to end before the next attempt.                  *)
(*****************************************************************************)
EXTENDS KlaresConnection, TLAPS

USE DEF OptSocket, ReadyState, Promise, PongLimit

(***************************************************************************)
(* The close handler, common to every way a socket can die.                *)
(***************************************************************************)

\* Whichever event makes a socket die, what it writes keeps its type.
LEMMA DiesType ==
    ASSUME TypeOK, NEW s \in Socket, Dies(s)
    PROVE  /\ sock' \in [Socket -> ReadyState]
           /\ promise' \in [Socket -> Promise]
           /\ loginTimer' \in [Socket -> BOOLEAN]
           /\ loginReq' \in [Socket -> BOOLEAN]
           /\ isConnected' \in BOOLEAN
           /\ idLogin' \in OptSocket
           /\ pendingLogin' \in OptSocket
           /\ isManualClose' \in BOOLEAN
           /\ reconnectTimer' \in BOOLEAN
<1>1. PICK P : CloseHandler(s, P)
  BY DEF Dies
<1>2. sock' \in [Socket -> ReadyState]
  BY <1>1 DEF CloseHandler, TypeOK
<1>3. promise' \in [Socket -> Promise]
  BY <1>1 DEF CloseHandler, Reject, TypeOK
<1>4. loginTimer' \in [Socket -> BOOLEAN] /\ loginReq' \in [Socket -> BOOLEAN]
  BY <1>1 DEF CloseHandler, ClearLoginTimer, TypeOK
<1>5. isConnected' \in BOOLEAN /\ idLogin' \in OptSocket /\ pendingLogin' \in OptSocket
  BY <1>1 DEF CloseHandler, EndSession
<1>6. isManualClose' \in BOOLEAN /\ reconnectTimer' \in BOOLEAN
  BY <1>1 DEF CloseHandler, ReconnectOnClose
<1>7. QED
  BY <1>2, <1>3, <1>4, <1>5, <1>6

\* ws.close() and the tested close leave every socket in a ready state.
LEMMA CloseType ==
    ASSUME TypeOK, NEW s \in OptSocket
    PROVE  /\ CloseSocket(s) \in [Socket -> ReadyState]
           /\ CloseIfOpen(s) \in [Socket -> ReadyState]
BY DEF TypeOK, CloseSocket, CloseIfOpen, Closing

\* Settling connect() promises leaves them promises, and clearing a login
\* timeout leaves the timers Boolean.
LEMMA SettleType ==
    ASSUME TypeOK, NEW P
    PROVE  /\ Reject(P) \in [Socket -> Promise]
           /\ ClearLoginTimer(P) \in [Socket -> BOOLEAN]
BY DEF TypeOK, Reject, ClearLoginTimer

(***************************************************************************)
(* Type correctness                                                        *)
(***************************************************************************)

LEMMA TypeInit == Init => TypeOK
<1> SUFFICES ASSUME Init PROVE TypeOK
  OBVIOUS
<1>1. sock \in [Socket -> ReadyState] /\ promise \in [Socket -> Promise]
  BY DEF Init
<1>2. /\ viaTimer \in [Socket -> BOOLEAN] /\ loginTimer \in [Socket -> BOOLEAN]
      /\ loginReq \in [Socket -> BOOLEAN] /\ terminateTimer \in [Socket -> BOOLEAN]
  BY DEF Init
<1>3. reconnectAttempts \in 0..MaxAttempts /\ ticksSincePong \in 0..PongLimit
  BY BoundAssumption DEF Init
<1>4. /\ ws \in OptSocket /\ idLogin \in OptSocket /\ pendingLogin \in OptSocket
      /\ isConnected \in BOOLEAN /\ isManualClose \in BOOLEAN
      /\ reconnectTimer \in BOOLEAN /\ heartbeatTimer \in BOOLEAN
      /\ heartbeatPending \in BOOLEAN /\ shutdown \in BOOLEAN
  BY DEF Init
<1>5. QED
  BY <1>1, <1>2, <1>3, <1>4 DEF TypeOK

\* Every handler keeps the shared client state well typed.
LEMMA TypeNext == TypeOK /\ [Next]_vars => TypeOK'
<1> SUFFICES ASSUME TypeOK, [Next]_vars PROVE TypeOK'
  OBVIOUS
<1> USE BoundAssumption
<1>1. CASE Start
  BY <1>1 DEF Start, Connect, TypeOK, loginVars, retryVars, beatVars
<1>2. CASE Disconnect
  BY <1>2, CloseType, SettleType DEF Disconnect, EndSession, TypeOK
<1>3. CASE ReconnectFires
  <2>1. reconnectAttempts' \in 0..MaxAttempts
    BY <1>3 DEF ReconnectFires, TypeOK
  <2>2. PICK s \in Socket : Connect(s, TRUE)
    BY <1>3 DEF ReconnectFires
  <2>3. /\ sock' \in [Socket -> ReadyState] /\ promise' \in [Socket -> Promise]
        /\ viaTimer' \in [Socket -> BOOLEAN] /\ ws' \in OptSocket
    BY <2>2 DEF Connect, TypeOK
  <2>4. QED
    BY <1>3, <2>1, <2>3, Zenon DEF ReconnectFires, TypeOK, loginVars, beatVars
<1>4. CASE Ping
  BY <1>4 DEF Ping, OneMoreTick, TypeOK, sockVars, loginVars, retryVars
<1>5. CASE IdleTick
  BY <1>5 DEF IdleTick, OneMoreTick, TypeOK, sockVars, loginVars, retryVars
<1>6. CASE ForceReconnect
  BY <1>6, CloseType DEF ForceReconnect, EndSession, TypeOK
<1>7. ASSUME NEW s \in Socket, SocketStep(s) PROVE TypeOK'
  <2>1. CASE Open(s)
    <3>1. sock' \in [Socket -> ReadyState] /\ pendingLogin' \in OptSocket
      BY <2>1 DEF Open, TypeOK
    <3>2. promise' \in [Socket -> Promise]
      BY <2>1, SettleType DEF Open, TypeOK
    <3>3. reconnectTimer' \in BOOLEAN
      BY <2>1, Zenon DEF Open, TypeOK
    <3>4. loginTimer' \in [Socket -> BOOLEAN] /\ loginReq' \in [Socket -> BOOLEAN]
      BY <2>1 DEF Open, TypeOK
    <3>5. QED
      BY <2>1, <3>1, <3>2, <3>3, <3>4 DEF Open, TypeOK, beatVars
  <2>2. CASE CloseEvent(s)
    BY <2>2, DiesType DEF CloseEvent, TypeOK, beatVars
  <2>3. CASE ConnectFails(s)
    BY <2>3, DiesType DEF ConnectFails, TypeOK, beatVars
  <2>4. CASE ErrorEvent(s)
    BY <2>4, CloseType, SettleType DEF ErrorEvent, TypeOK, beatVars
  <2>5. CASE LoginSendFails(s)
    BY <2>5, CloseType, SettleType DEF LoginSendFails, TypeOK, beatVars
  <2>6. CASE Pong(s)
    <3>1. heartbeatPending' \in BOOLEAN
      BY <2>6 DEF Pong
    <3>2. ticksSincePong' = 0
      BY <2>6 DEF Pong
    <3>3. ticksSincePong' \in 0..PongLimit
      BY <3>2
    <3>4. QED
      BY <2>6, <3>1, <3>3 DEF Pong, TypeOK, sockVars, loginVars, retryVars
  <2>7. CASE LoginOk(s)
    <3>1. /\ heartbeatTimer' \in BOOLEAN /\ heartbeatPending' \in BOOLEAN
          /\ ticksSincePong' \in 0..PongLimit
      <4>1. heartbeatTimer' \in BOOLEAN /\ heartbeatPending' \in BOOLEAN
        BY <2>7 DEF LoginOk, StartHeartbeat
      <4>2. ticksSincePong' = 0
        BY <2>7 DEF LoginOk, StartHeartbeat
      <4>3. QED
        BY <4>1, <4>2
    <3>2. promise' \in [Socket -> Promise]
      BY <2>7 DEF LoginOk, TypeOK
    <3>3. reconnectAttempts' \in 0..MaxAttempts
      BY <2>7 DEF LoginOk, AttemptsAfterLogin, TypeOK
    <3>4. QED
      BY <2>7, <3>1, <3>2, <3>3, SettleType DEF LoginOk, LoginAnswered, TypeOK
  <2>8. CASE LoginRefused(s)
    BY <2>8, CloseType, SettleType DEF LoginRefused, LoginAnswered, TypeOK, beatVars
  <2>9. CASE LoginTimeout(s)
    BY <2>9, CloseType, SettleType DEF LoginTimeout, TypeOK, beatVars
  <2>10. CASE TerminateFires(s)
    <3>1. terminateTimer' \in [Socket -> BOOLEAN] /\ viaTimer' \in [Socket -> BOOLEAN]
      BY <2>10 DEF TerminateFires, TypeOK
    <3>2. CASE Dies(s)
      BY <2>10, <3>1, <3>2, DiesType DEF TerminateFires, TypeOK, beatVars
    <3>3. CASE ~Dies(s)
      BY <2>10, <3>1, <3>3 DEF TerminateFires, TypeOK, beatVars, loginVars
    <3>4. QED
      BY <3>2, <3>3
  <2>11. QED
    BY <1>7, <2>1, <2>2, <2>3, <2>4, <2>5, <2>6, <2>7, <2>8, <2>9, <2>10
    DEF SocketStep
<1>8. CASE UNCHANGED vars
  BY <1>8 DEF vars, sockVars, loginVars, retryVars, beatVars, TypeOK
<1>9. QED
  BY <1>1, <1>2, <1>3, <1>4, <1>5, <1>6, <1>7, <1>8 DEF Next

\* The client state stays well typed under every interleaving of socket events,
\* timers, login answers and disconnect().
THEOREM TypeCorrect == Spec => []TypeOK
<1>1. Init => TypeOK
  BY TypeInit
<1>2. TypeOK /\ [Next]_vars => TypeOK'
  BY TypeNext
<1>3. QED
  BY <1>1, <1>2, PTL DEF Spec

(***************************************************************************)
(* A session always runs under the heartbeat.  The invariant of the runs   *)
(* speaks of a usable session only; it becomes inductive once it speaks of *)
(* any session id, because the socket of the session may stop being the    *)
(* current one, or start to close, while the id is still in use.           *)
(***************************************************************************)
SessionUnderHeartbeat == idLogin # NoSocket => heartbeatTimer

\* No handler keeps a session id while it stops the heartbeat.
LEMMA HeartbeatNext == SessionUnderHeartbeat /\ [Next]_vars => SessionUnderHeartbeat'
<1> SUFFICES ASSUME SessionUnderHeartbeat, [Next]_vars PROVE SessionUnderHeartbeat'
  OBVIOUS
<1> USE DEF SessionUnderHeartbeat
<1>1. CASE Start
  BY <1>1 DEF Start, loginVars, beatVars
<1>2. CASE Disconnect
  BY <1>2 DEF Disconnect, EndSession
<1>3. CASE ReconnectFires
  BY <1>3 DEF ReconnectFires, loginVars, beatVars
<1>4. CASE Ping \/ IdleTick
  BY <1>4 DEF Ping, IdleTick, loginVars
<1>5. CASE ForceReconnect
  BY <1>5 DEF ForceReconnect, EndSession
<1>6. ASSUME NEW s \in Socket, SocketStep(s) PROVE SessionUnderHeartbeat'
  <2>1. CASE LoginOk(s)
    BY <2>1 DEF LoginOk, StartHeartbeat
  <2>2. CASE Dies(s) /\ UNCHANGED beatVars
    BY <2>2 DEF Dies, CloseHandler, EndSession, beatVars
  <2>3. CASE UNCHANGED <<idLogin, heartbeatTimer>>
    BY <2>3
  <2>4. QED
    BY <1>6, <2>1, <2>2, <2>3
    DEF SocketStep, Open, CloseEvent, ConnectFails, ErrorEvent, LoginSendFails,
        Pong, LoginRefused, LoginTimeout, TerminateFires, loginVars, beatVars
<1>7. CASE UNCHANGED vars
  BY <1>7 DEF vars, loginVars, beatVars
<1>8. QED
  BY <1>1, <1>2, <1>3, <1>4, <1>5, <1>6, <1>7 DEF Next

\* Whenever the client is logged in, the heartbeat that notices a silent panel
\* is running.
THEOREM HeartbeatCorrect == Spec => []HeartbeatGuards
<1>1. Init => SessionUnderHeartbeat
  BY DEF Init, SessionUnderHeartbeat
<1>2. SessionUnderHeartbeat /\ [Next]_vars => SessionUnderHeartbeat'
  BY HeartbeatNext
<1>3. SessionUnderHeartbeat => HeartbeatGuards
  BY DEF SessionUnderHeartbeat, HeartbeatGuards, LoggedIn
<1>4. QED
  BY <1>1, <1>2, <1>3, PTL DEF Spec

(***************************************************************************)
(* isConnected is never left TRUE after the last socket is gone, although  *)
(* one flag stands for all sockets.                                        *)
(***************************************************************************)

\* A socket that is open or closing stays so until it dies.
LEMMA OpenStays ==
    ASSUME TypeOK, ConnectedToSomething, UNCHANGED isConnected,
           \/ UNCHANGED sock
           \/ \E s \in OptSocket : sock' = CloseSocket(s) \/ sock' = CloseIfOpen(s)
           \/ \E s \in Socket : sock[s] = "closed" /\ sock' = [sock EXCEPT ![s] = "connecting"]
    PROVE  ConnectedToSomething'
BY DEF TypeOK, ConnectedToSomething, CloseSocket, CloseIfOpen, Closing

\* Every handler that could take the last live socket away resets the flag.
LEMMA ConnectedNext ==
    TypeOK /\ ConnectedToSomething /\ [Next]_vars => ConnectedToSomething'
<1> SUFFICES ASSUME TypeOK, ConnectedToSomething, [Next]_vars
             PROVE  ConnectedToSomething'
  OBVIOUS
<1> ws \in OptSocket
  BY DEF TypeOK
<1>1. CASE Start \/ ReconnectFires
  BY <1>1, OpenStays DEF Start, ReconnectFires, Connect, loginVars
<1>2. CASE Disconnect \/ ForceReconnect
  BY <1>2 DEF Disconnect, ForceReconnect, EndSession, ConnectedToSomething
<1>3. CASE Ping \/ IdleTick
  BY <1>3, OpenStays DEF Ping, IdleTick, sockVars, loginVars
<1>4. ASSUME NEW s \in Socket, SocketStep(s) PROVE ConnectedToSomething'
  <2>1. CASE Open(s)
    <3>1. sock'[s] = "open"
      BY <2>1 DEF Open, TypeOK
    <3>2. QED
      BY <3>1 DEF ConnectedToSomething
  <2>2. CASE Dies(s)
    BY <2>2 DEF Dies, CloseHandler, EndSession, ConnectedToSomething
  <2>3. CASE ErrorEvent(s) \/ LoginSendFails(s)
    BY <2>3, OpenStays DEF ErrorEvent, LoginSendFails
  <2>4. CASE LoginRefused(s) \/ LoginTimeout(s)
    BY <2>4, OpenStays DEF LoginRefused, LoginTimeout
  <2>5. CASE UNCHANGED <<isConnected, sock>>
    BY <2>5, OpenStays
  <2>6. QED
    BY <1>4, <2>1, <2>2, <2>3, <2>4, <2>5
    DEF SocketStep, CloseEvent, ConnectFails, Pong, LoginOk, TerminateFires,
        sockVars, loginVars
<1>5. CASE UNCHANGED vars
  BY <1>5, OpenStays DEF vars, sockVars, loginVars
<1>6. QED
  BY <1>1, <1>2, <1>3, <1>4, <1>5 DEF Next

\* While isConnected is TRUE some socket is open or closing, whatever the order
\* in which the events of old and new sockets arrive.
THEOREM ConnectedCorrect == Spec => []ConnectedToSomething
<1>1. Init => ConnectedToSomething
  BY DEF Init, ConnectedToSomething
<1>2. TypeOK /\ ConnectedToSomething /\ [Next]_vars => ConnectedToSomething'
  BY ConnectedNext
<1>3. QED
  BY <1>1, <1>2, TypeCorrect, PTL DEF Spec

-----------------------------------------------------------------------------
(***************************************************************************)
(* Timely closes.  One state is shared by all sockets, and every handler   *)
(* writes it.  What keeps it consistent is that at any time at most one    *)
(* socket is alive (OnlyCurrent), and that an attempt is only scheduled    *)
(* when that one is on its way out (TimerMeansOut).  Each needs the other, *)
(* and both need to know whose the pieces of the shared state are (Owned). *)
(***************************************************************************)

HIDE DEF ReadyState, Promise, PongLimit

Alive == {"open", "closing"}
Out   == {"closed", "closing", "aborting"}

\* Every socket but the current one is closed.
OnlyCurrent == \A s \in Socket : sock[s] # "closed" => ws = s

\* A reconnection is scheduled only when the current socket is on its way out.
TimerMeansOut == reconnectTimer /\ ws # NoSocket => sock[ws] \in Out

\* What the shared state holds is the current socket's, which has been open.
Owned ==
    /\ \A s \in Socket : loginReq[s] => sock[s] \in Alive
    /\ \A s \in Socket : loginTimer[s] => pendingLogin = s
    /\ pendingLogin # NoSocket => pendingLogin = ws /\ sock[ws] \in Alive
    /\ idLogin # NoSocket => idLogin = ws /\ sock[ws] \in Alive
    /\ isConnected => ws # NoSocket /\ sock[ws] \in Alive

\* Until disconnect(), a socket that was closed on purpose or has closed has a
\* reconnection scheduled, and an open one has a session or a login under its timeout.
Armed ==
    \/ shutdown \/ ws = NoSocket
    \/ /\ isManualClose => reconnectTimer /\ sock[ws] \in {"closing", "aborting"}
       /\ sock[ws] = "closed" => reconnectTimer
       /\ sock[ws] = "open" =>
            /\ isConnected
            /\ \/ idLogin = ws /\ heartbeatTimer
               \/ pendingLogin = ws /\ loginTimer[ws]

\* Before the first connect() nothing is under way.
Untouched == ws = NoSocket => ~reconnectTimer /\ (isManualClose => shutdown)

IInv == TypeOK /\ OnlyCurrent /\ TimerMeansOut /\ Owned /\ Armed /\ Untouched

\* At first no socket is alive and nothing is armed.
LEMMA TimelyInit == Init => IInv
BY TypeInit DEF Init, IInv, OnlyCurrent, TimerMeansOut, Owned, Armed, Untouched

\* A new socket replaces a current one that has closed.
LEMMA ConnectKeeps ==
    ASSUME IInv, TypeOK', NEW s \in Socket, NEW timer \in BOOLEAN, Connect(s, timer),
           \A t \in Socket : sock[t] = "closed",
           UNCHANGED <<loginTimer, loginReq, loginVars, beatVars, shutdown>>,
           reconnectTimer' = FALSE
    PROVE  IInv'
<1>1. pendingLogin = NoSocket /\ idLogin = NoSocket /\ ~isConnected
  BY SocketAssumption DEF IInv, Owned, Alive, TypeOK
<1>2. sock'[s] = "connecting" /\ ws' = s /\ \A t \in Socket : t # s => sock'[t] = "closed"
  BY DEF Connect, IInv, TypeOK
<1>3. \A t \in Socket : ~loginReq[t] /\ ~loginTimer[t]
  BY <1>1, SocketAssumption DEF IInv, Owned, Alive
<1>4. isManualClose => shutdown
  BY DEF IInv, Armed, Untouched, TypeOK
<1>5. OnlyCurrent' /\ TimerMeansOut' /\ Untouched'
  BY <1>2, SocketAssumption DEF OnlyCurrent, TimerMeansOut, Untouched
<1>6. Owned'
  BY <1>1, <1>3 DEF Owned, loginVars
<1>7. Armed'
  BY <1>2, <1>4 DEF Armed, loginVars
<1>8. QED
  BY <1>5, <1>6, <1>7 DEF IInv

\* The event that ends a socket ends the current one, and with it all there is.
LEMMA DiesKeeps ==
    ASSUME IInv, TypeOK', NEW s \in Socket, Dies(s),
           UNCHANGED <<ws, heartbeatTimer, shutdown>>
    PROVE  IInv'
<1>1. s = ws /\ \A t \in Socket : sock'[t] = "closed"
  BY DEF Dies, CloseHandler, IInv, OnlyCurrent, TypeOK
<1>2. /\ pendingLogin' = NoSocket /\ idLogin' = NoSocket /\ ~isConnected'
      /\ ~isManualClose'
  BY DEF Dies, CloseHandler, EndSession
<1>3. \A t \in Socket : ~loginTimer'[t]
  BY DEF Dies, CloseHandler, ClearLoginTimer, IInv, Owned
<1>4. \A t \in Socket : ~loginReq'[t]
  BY <1>1 DEF Dies, CloseHandler, IInv, Owned, OnlyCurrent, Alive, TypeOK
<1>5. ~isManualClose => reconnectTimer'
  BY Zenon DEF Dies, CloseHandler, ReconnectOnClose
<1>6. reconnectTimer => reconnectTimer'
  BY Zenon DEF Dies, CloseHandler, ReconnectOnClose
<1>7. shutdown \/ reconnectTimer'
  BY <1>1, <1>5, <1>6, SocketAssumption DEF IInv, Armed
<1>8. OnlyCurrent' /\ TimerMeansOut' /\ Untouched'
  BY <1>1, <1>2, SocketAssumption DEF OnlyCurrent, TimerMeansOut, Untouched, Out
<1>9. Owned' /\ Armed'
  BY <1>1, <1>2, <1>3, <1>4, <1>7 DEF Owned, Armed
<1>10. QED
  BY <1>8, <1>9 DEF IInv

\* Every step leaves the shared state to the one socket that is alive.
LEMMA TimelyNext == ASSUME ~LateClose PROVE IInv /\ [Next]_vars => IInv'
<1> SUFFICES ASSUME ~LateClose, IInv, [Next]_vars PROVE IInv'
  OBVIOUS
<1>t. TypeOK /\ TypeOK' /\ ws \in OptSocket
  BY TypeNext DEF IInv, TypeOK
<1> USE SocketAssumption
<1>1. CASE Start
  <2>1. PICK s \in Socket : Connect(s, FALSE)
    BY <1>1 DEF Start
  <2>2. \A t \in Socket : sock[t] = "closed"
    BY <1>1 DEF Start, IInv, OnlyCurrent
  <2>3. reconnectTimer' = FALSE
    BY <1>1, <1>t DEF Start, IInv, Untouched, TypeOK, retryVars
  <2>4. QED
    BY <1>1, <1>t, <2>1, <2>2, <2>3, ConnectKeeps DEF Start
<1>2. CASE ReconnectFires
  <2>1. PICK s \in Socket : Connect(s, TRUE)
    BY <1>2 DEF ReconnectFires
  <2>2. \A t \in Socket : sock[t] = "closed"
    BY <1>2, <1>t DEF ReconnectFires, IInv, OnlyCurrent, TimerMeansOut, Out, TypeOK
  <2>3. QED
    BY <1>2, <1>t, <2>1, <2>2, ConnectKeeps DEF ReconnectFires
<1>3. CASE Disconnect
  <2>1. sock' = CloseSocket(ws) /\ ~reconnectTimer' /\ shutdown' /\ ws' = ws /\ loginReq' = loginReq
    BY <1>3 DEF Disconnect
  <2>2. pendingLogin' = NoSocket /\ idLogin' = NoSocket /\ ~isConnected'
    BY <1>3 DEF Disconnect, EndSession
  <2>3. \A t \in Socket : ~loginTimer'[t]
    BY <1>3 DEF Disconnect, ClearLoginTimer, IInv, Owned
  <2>4. OnlyCurrent' /\ TimerMeansOut' /\ Armed' /\ Untouched'
    BY <1>t, <2>1 DEF CloseSocket, Closing, IInv, OnlyCurrent, TimerMeansOut, Armed, Untouched, TypeOK
  <2>5. Owned'
    BY <1>t, <2>1, <2>2, <2>3 DEF CloseSocket, Closing, IInv, Owned, Alive, TypeOK
  <2>6. QED
    BY <1>t, <2>4, <2>5 DEF IInv
<1>4. CASE Ping \/ IdleTick
  BY <1>4, <1>t DEF Ping, IdleTick, IInv, OnlyCurrent, TimerMeansOut, Owned, Armed, Untouched,
                    sockVars, loginVars, retryVars
<1>5. CASE ForceReconnect
  <2>1. ws \in Socket /\ sock[ws] \in Alive
    BY <1>5, <1>t DEF ForceReconnect, IInv, Owned
  <2>2. sock' = CloseSocket(ws) /\ sock'[ws] = "closing" /\ ws' = ws
    BY <1>5, <1>t, <2>1 DEF ForceReconnect, CloseSocket, Closing, Alive
  <2>3. /\ idLogin' = NoSocket /\ ~isConnected' /\ reconnectTimer'
        /\ UNCHANGED <<pendingLogin, loginTimer, loginReq>>
    BY <1>5 DEF ForceReconnect, EndSession
  <2>4. OnlyCurrent' /\ TimerMeansOut' /\ Armed' /\ Untouched'
    BY <1>t, <2>1, <2>2, <2>3 DEF CloseSocket, Closing, IInv, OnlyCurrent, TimerMeansOut, Out, Armed,
                                  Untouched, TypeOK
  <2>5. Owned'
    BY <1>t, <2>1, <2>2, <2>3 DEF CloseSocket, Closing, IInv, Owned, Alive, TypeOK
  <2>6. QED
    BY <1>t, <2>4, <2>5 DEF IInv
<1>6. ASSUME NEW s \in Socket, SocketStep(s) PROVE IInv'
  <2>1. CASE Open(s)
    <3>1. s = ws /\ sock[s] = "connecting" /\ sock' = [sock EXCEPT ![s] = "open"] /\ ws' = ws
      BY <2>1 DEF Open, IInv, OnlyCurrent
    <3>2. sock'[ws] = "open"
      BY <1>t, <3>1 DEF TypeOK
    <3>3. ~reconnectTimer /\ pendingLogin = NoSocket /\ idLogin = NoSocket /\ (isManualClose => shutdown)
      BY <3>1 DEF IInv, TimerMeansOut, Out, Owned, Alive, Armed
    <3>4. /\ loginReq' = [loginReq EXCEPT ![ws] = TRUE] /\ pendingLogin' = s
          /\ loginTimer' = [loginTimer EXCEPT ![s] = TRUE] /\ ~reconnectTimer' /\ isConnected'
      BY <2>1, <3>2, <3>3 DEF Open
    <3>5. \A t \in Socket : ~loginTimer[t]
      BY <3>3 DEF IInv, Owned
    <3>6. UNCHANGED <<idLogin, isManualClose, shutdown>>
      BY <2>1 DEF Open
    <3>7. OnlyCurrent' /\ TimerMeansOut' /\ Untouched'
      BY <1>t, <3>1, <3>4 DEF IInv, OnlyCurrent, TimerMeansOut, Untouched, TypeOK
    <3>8. Owned'
      BY <1>t, <3>1, <3>2, <3>3, <3>4, <3>5, <3>6 DEF IInv, Owned, Alive, TypeOK
    <3>9. Armed'
      BY <1>t, <3>1, <3>2, <3>3, <3>4, <3>6 DEF Armed, TypeOK
    <3>10. QED
      BY <1>t, <3>7, <3>8, <3>9 DEF IInv
  <2>2. CASE CloseEvent(s) \/ ConnectFails(s)
    BY <1>t, <2>2, DiesKeeps DEF CloseEvent, ConnectFails, beatVars
  <2>3. CASE ErrorEvent(s) \/ LoginSendFails(s)
    <3>1. s = ws /\ sock[s] \in Alive /\ sock' = CloseSocket(s) /\ ws' = ws
      BY <2>3 DEF ErrorEvent, LoginSendFails, IInv, OnlyCurrent, Owned, Alive
    <3>2. sock'[ws] = "closing" /\ \A t \in Socket : t # ws => sock'[t] = sock[t]
      BY <1>t, <3>1 DEF CloseSocket, Closing, Alive
    <3>3. /\ pendingLogin' = NoSocket /\ loginReq' = [loginReq EXCEPT ![s] = FALSE]
          /\ loginTimer' = ClearLoginTimer(pendingLogin)
          /\ UNCHANGED <<idLogin, isConnected, isManualClose, shutdown>>
      BY <2>3 DEF ErrorEvent, LoginSendFails
    <3>4. reconnectTimer => reconnectTimer'
      BY <2>3 DEF ErrorEvent, LoginSendFails
    <3>5. OnlyCurrent' /\ TimerMeansOut' /\ Untouched'
      BY <1>t, <3>1, <3>2 DEF IInv, OnlyCurrent, TimerMeansOut, Out, Untouched
    <3>6. Owned'
      BY <1>t, <3>1, <3>2, <3>3 DEF IInv, Owned, Alive, ClearLoginTimer, TypeOK
    <3>7. Armed'
      BY <1>t, <3>1, <3>2, <3>3, <3>4 DEF IInv, Armed
    <3>8. QED
      BY <1>t, <3>5, <3>6, <3>7 DEF IInv
  <2>4. CASE Pong(s)
    BY <1>t, <2>4 DEF Pong, IInv, OnlyCurrent, TimerMeansOut, Owned, Armed, Untouched,
                      sockVars, loginVars, retryVars
  <2>5. CASE LoginOk(s)
    <3>1. s = ws /\ sock[s] \in Alive /\ sock' = sock /\ ws' = ws
      BY <2>5 DEF LoginOk, LoginAnswered, IInv, OnlyCurrent, Alive
    <3>2. /\ pendingLogin' = NoSocket /\ loginReq' = [loginReq EXCEPT ![s] = FALSE]
          /\ loginTimer' = ClearLoginTimer(pendingLogin) /\ idLogin' = s /\ heartbeatTimer'
          /\ UNCHANGED <<isConnected, isManualClose, reconnectTimer, shutdown>>
      BY <2>5 DEF LoginOk, LoginAnswered, StartHeartbeat
    <3>3. OnlyCurrent' /\ TimerMeansOut' /\ Untouched'
      BY <3>1, <3>2 DEF IInv, OnlyCurrent, TimerMeansOut, Untouched
    <3>4. Owned'
      BY <1>t, <3>1, <3>2 DEF IInv, Owned, Alive, ClearLoginTimer, TypeOK
    <3>5. Armed'
      BY <3>1, <3>2 DEF IInv, Armed
    <3>6. QED
      BY <1>t, <3>3, <3>4, <3>5 DEF IInv
  <2>6. CASE LoginRefused(s) \/ LoginTimeout(s)
    <3>1. s = ws /\ sock[s] \in Alive /\ sock' = CloseIfOpen(ws) /\ ws' = ws
      BY <2>6 DEF LoginRefused, LoginTimeout, LoginAnswered, IInv, OnlyCurrent, Owned, Alive
    <3>2. sock'[ws] = "closing" /\ \A t \in Socket : t # ws => sock'[t] = sock[t]
      BY <1>t, <3>1 DEF CloseIfOpen, Alive
    <3>3. /\ pendingLogin' = NoSocket /\ (\A t \in Socket : loginReq'[t] => loginReq[t])
          /\ UNCHANGED <<idLogin, isConnected, isManualClose, shutdown>>
      BY <1>t, <2>6 DEF LoginRefused, LoginTimeout, LoginAnswered, TypeOK
    <3>4. \A t \in Socket : ~loginTimer'[t]
      BY <1>t, <2>6 DEF LoginRefused, LoginTimeout, LoginAnswered, ClearLoginTimer, IInv, Owned, TypeOK
    <3>5. reconnectTimer => reconnectTimer'
      BY <2>6 DEF LoginRefused, LoginTimeout
    <3>6. OnlyCurrent' /\ TimerMeansOut' /\ Untouched'
      BY <1>t, <3>1, <3>2 DEF IInv, OnlyCurrent, TimerMeansOut, Out, Untouched
    <3>7. Owned'
      BY <1>t, <3>1, <3>2, <3>3, <3>4 DEF IInv, Owned, Alive, TypeOK
    <3>8. Armed'
      BY <1>t, <3>1, <3>2, <3>3, <3>5 DEF IInv, Armed
    <3>9. QED
      BY <1>t, <3>6, <3>7, <3>8 DEF IInv
  <2>7. CASE TerminateFires(s)
    <3>1. CASE Dies(s)
      BY <1>t, <2>7, <3>1, DiesKeeps DEF TerminateFires, beatVars
    <3>2. CASE ~Dies(s)
      BY <1>t, <2>7, <3>2 DEF TerminateFires, IInv, OnlyCurrent, TimerMeansOut, Owned, Armed, Untouched,
                              beatVars, loginVars
    <3>3. QED
      BY <3>1, <3>2
  <2>8. QED
    BY <1>6, <2>1, <2>2, <2>3, <2>4, <2>5, <2>6, <2>7 DEF SocketStep
<1>7. CASE UNCHANGED vars
  BY <1>t, <1>7 DEF vars, sockVars, loginVars, retryVars, beatVars, IInv, OnlyCurrent, TimerMeansOut,
                    Owned, Armed, Untouched
<1>8. QED
  BY <1>1, <1>2, <1>3, <1>4, <1>5, <1>6, <1>7 DEF Next

\* In every state reached one socket at most is alive, and the shared state is its own.
LEMMA TimelyInvariant == ASSUME ~LateClose PROVE Spec => []IInv
<1>1. IInv /\ [Next]_vars => IInv'
  BY TimelyNext
<1>2. QED
  BY <1>1, TimelyInit, PTL DEF Spec

\* No socket that could hold a session is ever out of reach of state.ws, although
\* connect() overwrites it without a look.
THEOREM NoOrphanCorrect == ASSUME ~LateClose PROVE Spec => []NoOrphanSocket
<1>1. IInv => NoOrphanSocket
  BY DEF IInv, OnlyCurrent, NoOrphanSocket
<1>2. QED
  BY <1>1, TimelyInvariant, PTL

\* The session id was granted on the socket that commands go out on, although close
\* handlers of any socket clear it and login answers of any socket set it.
THEOREM SessionCorrect == ASSUME ~LateClose PROVE Spec => []SessionOnCurrentSocket
<1>1. IInv => SessionOnCurrentSocket
  BY DEF IInv, Owned, Alive, SessionOnCurrentSocket
<1>2. QED
  BY <1>1, TimelyInvariant, PTL

\* A login timeout never outlives the login it was armed for.
THEOREM LoginTimerCorrect == ASSUME ~LateClose PROVE Spec => []LoginTimerOwned
<1>1. IInv => LoginTimerOwned
  BY DEF IInv, Owned, LoginTimerOwned
<1>2. QED
  BY <1>1, TimelyInvariant, PTL

\* Until disconnect() there is always something under way that ends in a session or in
\* the next attempt, whichever handlers have run.
THEOREM RecoveryCorrect == ASSUME ~LateClose PROVE Spec => []RecoveryArmed
<1>1. IInv => RecoveryArmed
  BY SocketAssumption DEF IInv, TypeOK, ReadyState, Armed, Owned, RecoveryArmed, LoggedIn
<1>2. QED
  BY <1>1, TimelyInvariant, PTL

\* connect() resolves only on the answer to the login of its own socket.
THEOREM OwnLoginCorrect == ASSUME ~LateClose PROVE Spec => ResolvesOnOwnLogin
<1> DEFINE Own == \A s \in Socket : promise[s] = "pending" /\ promise'[s] = "resolved"
                      => loginReq[s] /\ ~loginReq'[s] /\ idLogin' = s
<1>1. IInv /\ [Next]_vars => [Own]_vars
  <2> SUFFICES ASSUME IInv, Next, NEW p \in Socket, promise[p] = "pending", promise'[p] = "resolved"
               PROVE  loginReq[p] /\ ~loginReq'[p] /\ idLogin' = p
    OBVIOUS
  <2>t. TypeOK
    BY DEF IInv
  <2>1. PICK s \in Socket : LoginOk(s)
    BY <2>t DEF Next, Start, Connect, Disconnect, ReconnectFires, Ping, IdleTick, ForceReconnect, SocketStep,
                Open, CloseEvent, ConnectFails, Dies, CloseHandler, Reject, ErrorEvent, LoginSendFails,
                Pong, LoginRefused, LoginTimeout, TerminateFires, TypeOK, sockVars
  <2>2. p = pendingLogin
    BY <2>1 DEF LoginOk
  <2>3. p = ws /\ s = ws
    BY <2>1, <2>2, SocketAssumption DEF LoginOk, LoginAnswered, IInv, Owned, OnlyCurrent
  <2>4. QED
    BY <2>1, <2>3, <2>t DEF LoginOk, LoginAnswered, TypeOK
<1>2. QED
  BY <1>1, TimelyInvariant, PTL DEF Spec, ResolvesOnOwnLogin
=============================================================================
