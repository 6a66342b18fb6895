-------------------------- MODULE KlaresConnection --------------------------
(******************************************************************************)
(* The connection life cycle of the Lares4 WebSocket client:                  *)
(* ConnectionService (websocket-client/connection-service.ts) together with   *)
(* the login answer handling of MessageService.                               *)
(*                                                                            *)
(* Every WebSocket object the client ever creates is a member of Socket; a    *)
(* closed one may be taken again for a later connection.  What makes the      *)
(* component hard is that all handlers of all sockets write the one shared    *)
(* client state (state.ws, isConnected, idLogin, pendingLogin, isManualClose, *)
(* the timers), whichever socket the event came from.                         *)
(*                                                                            *)
(* A handler is one action, and it includes the promise continuations         *)
(* (.then/.catch of connect()) that run before the next event.                *)
(*                                                                            *)
(* An operator with a suffix, such as CloseIfOpen_Leak, is a wrong variant    *)
(* of the operator that follows it.                                           *)
(* No behaviour of the specification uses them; they show which mistake in    *)
(* the code each property would reveal.                                       *)
(******************************************************************************)
EXTENDS Naturals

CONSTANTS
    Socket,        \* WebSocket objects
    NoSocket,      \* undefined
    MaxAttempts,   \* where the back-off stops growing: base * 2^n >= 60000 ms
    LateClose,     \* may a closing handshake outlast the reconnect delay?  ws
                   \* waits 30 s for the panel's close frame.
    FastReconnect  \* is reconnectInterval below the 3 s of terminateIfNotClosed?

ASSUME SocketAssumption == NoSocket \notin Socket
ASSUME BoundAssumption == MaxAttempts \in Nat \ {0}
ASSUME TimingAssumption == LateClose \in BOOLEAN /\ FastReconnect \in BOOLEAN

VARIABLES
    sock,              \* ws.readyState; "aborting" is CLOSING before ever open
    promise,           \* the promise connect() returned for that socket
    viaTimer,          \* was connect() called by the reconnect timer?
    loginTimer,        \* the login timeout armed by that socket's open event
    loginReq,          \* LOGIN requests the panel holds on that socket
    terminateTimer,    \* terminateIfNotClosed armed for that socket
    ws,                \* state.ws
    isConnected, idLogin, pendingLogin, isManualClose,
    reconnectTimer, reconnectAttempts,
    heartbeatTimer, heartbeatPending,
    ticksSincePong,    \* heartbeat intervals elapsed since lastPongReceived
    shutdown           \* disconnect() has been called

sockVars  == <<sock, promise, viaTimer, loginTimer, loginReq, terminateTimer>>
loginVars == <<isConnected, idLogin, pendingLogin, isManualClose>>
retryVars == <<reconnectTimer, reconnectAttempts>>
beatVars  == <<heartbeatTimer, heartbeatPending, ticksSincePong>>
vars == <<sockVars, ws, loginVars, retryVars, beatVars, shutdown>>

ReadyState == {"closed", "connecting", "aborting", "open", "closing"}
Promise    == {"settled", "pending", "resolved", "rejected"}
OptSocket  == Socket \cup {NoSocket}

\* timeSinceLastPong > 2 * heartbeatInterval holds from the third tick on, and
\* may already hold at the second when the timer fires late.
PongLimit == 3

Init ==
    /\ sock = [s \in Socket |-> "closed"]
    /\ promise = [s \in Socket |-> "settled"]
    /\ viaTimer = [s \in Socket |-> FALSE]
    /\ loginTimer = [s \in Socket |-> FALSE]
    /\ loginReq = [s \in Socket |-> FALSE]
    /\ terminateTimer = [s \in Socket |-> FALSE]
    /\ ws = NoSocket
    /\ isConnected = FALSE
    /\ idLogin = NoSocket
    /\ pendingLogin = NoSocket
    /\ isManualClose = FALSE
    /\ reconnectTimer = FALSE
    /\ reconnectAttempts = 0
    /\ heartbeatTimer = FALSE
    /\ heartbeatPending = FALSE
    /\ ticksSincePong = 0
    /\ shutdown = FALSE

-----------------------------------------------------------------------------
(* Pieces of handlers                                                      *)

\* ws.close() and ws.terminate(): the state the socket is in until its close
\* event.  Closing a socket that is still connecting aborts its handshake.
Closing(state) ==
    CASE state = "open"       -> "closing"
      [] state = "connecting" -> "aborting"
      [] OTHER                -> state

CloseSocket(s) == [t \in Socket |-> IF t = s THEN Closing(sock[t]) ELSE sock[t]]

\* variant: a failed login leaves the socket open
CloseIfOpen_Leak(s) == sock

\* ws.close() behind a readyState === OPEN test
CloseIfOpen(s) ==
    [t \in Socket |-> IF t = s /\ sock[t] = "open" THEN "closing" ELSE sock[t]]

\* variant: connect() settles, but never as a failure
Reject_Resolves(P) ==
    [s \in Socket |-> IF s \in P /\ promise[s] = "pending"
                      THEN "resolved" ELSE promise[s]]

\* rejectOnce on the connect() promises of P
Reject(P) ==
    [s \in Socket |-> IF s \in P /\ promise[s] = "pending"
                      THEN "rejected" ELSE promise[s]]

\* .catch of the connect() the reconnect timer made: schedule the next attempt
Retries(P) == \E s \in P : promise[s] = "pending" /\ viaTimer[s]

\* variant: clearTimeout forgotten
ClearLoginTimer_Keep(p) == loginTimer

\* pendingLogin.resolve and .reject both clear the timeout they were made with
ClearLoginTimer(p) == [s \in Socket |-> loginTimer[s] /\ s # p]

\* variant: the close keeps the session id
EndSession_KeepId == isConnected' = FALSE /\ UNCHANGED idLogin

\* The session is over for every command's login guard.
EndSession == isConnected' = FALSE /\ idLogin' = NoSocket

\* variant: no reconnection after an unexpected close
ReconnectOnClose_Never(P) == reconnectTimer' = (reconnectTimer \/ Retries(P))

\* The close handler schedules a reconnection unless the close was asked for,
\* and so does the .catch of a connect() it rejected.
ReconnectOnClose(P) == reconnectTimer' = (reconnectTimer \/ ~isManualClose \/ Retries(P))

\* new WebSocket(...) on an object that nothing refers to any more
Connect(s, timer) ==
    /\ sock[s] = "closed"
    /\ promise[s] # "pending" /\ ~loginTimer[s] /\ ~terminateTimer[s]
    /\ sock' = [sock EXCEPT ![s] = "connecting"]
    /\ promise' = [promise EXCEPT ![s] = "pending"]
    /\ viaTimer' = [viaTimer EXCEPT ![s] = timer]
    /\ ws' = s

\* What the close handler leaves behind; P are the connect() promises the
\* event rejected on its way.
CloseHandler(s, P) ==
    /\ sock' = [sock EXCEPT ![s] = "closed"]
    /\ loginReq' = [loginReq EXCEPT ![s] = FALSE]
    /\ EndSession
    /\ promise' = Reject(P)
    /\ loginTimer' = ClearLoginTimer(pendingLogin)
    /\ pendingLogin' = NoSocket
    /\ ReconnectOnClose(P)
    /\ isManualClose' = FALSE

\* startHeartbeat: the interval is re-armed and the pong clock restarted
StartHeartbeat ==
    /\ heartbeatTimer' = TRUE
    /\ heartbeatPending' = FALSE
    /\ ticksSincePong' = 0

-----------------------------------------------------------------------------
(* The platform                                                            *)

\* initializeLares4 connects once per boot
Start ==
    /\ ws = NoSocket
    /\ ~shutdown
    /\ \E s \in Socket : Connect(s, FALSE)
    /\ UNCHANGED <<loginTimer, loginReq, terminateTimer, loginVars, retryVars,
                   beatVars, shutdown>>

\* disconnect() when Homebridge shuts down.  A connect() that waits for its
\* login is left unsettled.
Disconnect ==
    /\ ~shutdown
    /\ shutdown' = TRUE
    /\ heartbeatTimer' = FALSE
    /\ reconnectTimer' = FALSE
    /\ isManualClose' = (isManualClose \/ ws # NoSocket)
    /\ sock' = CloseSocket(ws)
    /\ loginTimer' = ClearLoginTimer(pendingLogin)
    /\ pendingLogin' = NoSocket
    /\ EndSession
    /\ UNCHANGED <<promise, viaTimer, loginReq, terminateTimer, ws,
                   reconnectAttempts, heartbeatPending, ticksSincePong>>

-----------------------------------------------------------------------------
(* Socket events                                                           *)

\* The open handler: a new pendingLogin replaces whatever was there, and LOGIN
\* goes out on state.ws, which need not be the socket that opened.
Open(s) ==
    /\ sock[s] = "connecting"
    /\ sock' = [sock EXCEPT ![s] = "open"]
    /\ isConnected' = TRUE
    /\ \/ /\ sock'[ws] = "open"
          /\ loginReq' = [loginReq EXCEPT ![ws] = TRUE]
          /\ pendingLogin' = s
          /\ loginTimer' = [loginTimer EXCEPT ![s] = TRUE]
          /\ UNCHANGED <<promise, reconnectTimer>>
       \/ /\ sock'[ws] # "open"           \* executeLogin throws
          /\ pendingLogin' = NoSocket
          /\ promise' = Reject({s})
          /\ reconnectTimer' = (reconnectTimer \/ Retries({s}))
          /\ UNCHANGED <<loginReq, loginTimer>>
    /\ UNCHANGED <<viaTimer, terminateTimer, ws, idLogin, isManualClose,
                   reconnectAttempts, beatVars, shutdown>>

\* The connect() promises an error event rejects: that of pendingLogin when
\* there is one, whosever it is, and the socket's own otherwise.
ErrorRejects(s) == IF pendingLogin = NoSocket THEN {s} ELSE {pendingLogin}

\* A socket that had been open emits close alone, a failed or aborted handshake
\* emits error first.
Dies(s) ==
    \/ sock[s] \in {"open", "closing"}        /\ CloseHandler(s, {pendingLogin} \cap Socket)
    \/ sock[s] \in {"connecting", "aborting"} /\ CloseHandler(s, ErrorRejects(s))

\* The close event of a socket that had been open: the closing handshake
\* ended, or the panel or the network dropped the connection.
CloseEvent(s) ==
    /\ sock[s] \in {"open", "closing"}
    /\ Dies(s)
    /\ UNCHANGED <<viaTimer, terminateTimer, ws, reconnectAttempts, beatVars,
                   shutdown>>

\* The handshake fails (refused, unreachable, TLS) or has been aborted.
ConnectFails(s) ==
    /\ sock[s] \in {"connecting", "aborting"}
    /\ Dies(s)
    /\ UNCHANGED <<viaTimer, terminateTimer, ws, reconnectAttempts, beatVars,
                   shutdown>>

\* error on an open socket: a frame that violates the protocol.  ws reads no
\* more messages and starts the closing handshake.
ErrorEvent(s) ==
    /\ sock[s] = "open"
    /\ sock' = CloseSocket(s)
    /\ loginReq' = [loginReq EXCEPT ![s] = FALSE]
    /\ promise' = Reject(ErrorRejects(s))
    /\ reconnectTimer' = (reconnectTimer \/ Retries(ErrorRejects(s)))
    /\ loginTimer' = ClearLoginTimer(pendingLogin)
    /\ pendingLogin' = NoSocket
    /\ UNCHANGED <<viaTimer, terminateTimer, ws, isConnected, idLogin,
                   isManualClose, reconnectAttempts, beatVars, shutdown>>

\* The callback of ws.send reports that LOGIN could not be written: the TCP
\* connection is gone, the close event follows, and the error rejects the
\* pendingLogin of the moment.  The panel never sees the request.
LoginSendFails(s) ==
    /\ loginReq[s]
    /\ loginReq' = [loginReq EXCEPT ![s] = FALSE]
    /\ sock' = CloseSocket(s)
    /\ promise' = Reject({pendingLogin})
    /\ reconnectTimer' = (reconnectTimer \/ Retries({pendingLogin} \cap Socket))
    /\ loginTimer' = ClearLoginTimer(pendingLogin)
    /\ pendingLogin' = NoSocket
    /\ UNCHANGED <<viaTimer, terminateTimer, ws, isConnected, idLogin,
                   isManualClose, reconnectAttempts, beatVars, shutdown>>

\* pong: the panel answered a ping on this socket
Pong(s) ==
    /\ sock[s] = "open"
    /\ heartbeatPending
    /\ heartbeatPending' = FALSE
    /\ ticksSincePong' = 0
    /\ UNCHANGED <<sockVars, ws, loginVars, retryVars, heartbeatTimer, shutdown>>

-----------------------------------------------------------------------------
(* LOGIN_RES.  A socket in its closing handshake still delivers messages.    *)

LoginAnswered(s) ==
    /\ loginReq[s] /\ sock[s] \in {"open", "closing"}
    /\ loginReq' = [loginReq EXCEPT ![s] = FALSE]
    /\ loginTimer' = ClearLoginTimer(pendingLogin)
    /\ pendingLogin' = NoSocket

\* .then of the connect() the reconnect timer made
AttemptsAfterLogin ==
    IF \E p \in Socket : p = pendingLogin /\ promise[p] = "pending" /\ viaTimer[p]
    THEN 0 ELSE reconnectAttempts

\* RESULT OK: the session id is taken, the waiting connect() resolves, if any,
\* and the heartbeat starts afresh.
LoginOk(s) ==
    /\ LoginAnswered(s)
    /\ idLogin' = s
    /\ promise' = [p \in Socket |-> IF p = pendingLogin /\ promise[p] = "pending"
                                    THEN "resolved" ELSE promise[p]]
    /\ reconnectAttempts' = AttemptsAfterLogin
    /\ StartHeartbeat
    /\ UNCHANGED <<sock, viaTimer, terminateTimer, ws, isConnected,
                   isManualClose, reconnectTimer, shutdown>>

\* any other RESULT: the waiting connect() fails and state.ws is closed
LoginRefused(s) ==
    /\ LoginAnswered(s)
    /\ promise' = Reject({pendingLogin})
    /\ reconnectTimer' = (reconnectTimer \/ Retries({pendingLogin} \cap Socket))
    /\ sock' = CloseIfOpen(ws)
    /\ UNCHANGED <<viaTimer, terminateTimer, ws, isConnected, idLogin,
                   isManualClose, reconnectAttempts, beatVars, shutdown>>

-----------------------------------------------------------------------------
(* Timers                                                                  *)

\* The login timeout of the connection that opened s.  It clears the shared
\* pendingLogin and closes the current state.ws, whosever they are.
LoginTimeout(s) ==
    /\ loginTimer[s]
    /\ loginTimer' = [loginTimer EXCEPT ![s] = FALSE]
    /\ pendingLogin' = NoSocket
    /\ promise' = Reject({s})
    /\ reconnectTimer' = (reconnectTimer \/ Retries({s}))
    /\ sock' = CloseIfOpen(ws)
    /\ UNCHANGED <<viaTimer, loginReq, terminateTimer, ws, isConnected, idLogin,
                   isManualClose, reconnectAttempts, beatVars, shutdown>>

\* The reconnect timer.  Unless LateClose, sockets on their way out have closed
\* by the time it fires; unless FastReconnect, terminateIfNotClosed has fired.
ReconnectFires ==
    /\ reconnectTimer
    /\ LateClose \/ \A s \in Socket : sock[s] \notin {"closing", "aborting"}
    /\ FastReconnect \/ \A s \in Socket : ~terminateTimer[s]
    /\ reconnectTimer' = FALSE
    /\ reconnectAttempts' = IF reconnectAttempts < MaxAttempts
                            THEN reconnectAttempts + 1 ELSE reconnectAttempts
    /\ \E s \in Socket : Connect(s, TRUE)
    /\ UNCHANGED <<loginTimer, loginReq, terminateTimer, loginVars, beatVars,
                   shutdown>>

\* terminateIfNotClosed, 3 s after forceReconnect: a socket that has not closed
\* is destroyed and emits its close event at once.
TerminateFires(s) ==
    /\ terminateTimer[s]
    /\ terminateTimer' = [terminateTimer EXCEPT ![s] = FALSE]
    /\ \/ Dies(s)
       \/ sock[s] = "closed" /\ UNCHANGED <<sock, promise, loginTimer, loginReq,
                                             loginVars, reconnectTimer>>
    /\ UNCHANGED <<viaTimer, ws, reconnectAttempts, beatVars, shutdown>>

OneMoreTick == IF ticksSincePong < PongLimit THEN ticksSincePong + 1 ELSE PongLimit

\* variant: an outstanding ping is never held against the panel
MayBeOverdue_Never == FALSE

\* timeSinceLastPong > heartbeatTimeout with a ping outstanding: certain at the
\* third tick, and possible at the second.
MayBeOverdue  == heartbeatPending /\ OneMoreTick >= PongLimit - 1
MayBeInTime   == heartbeatPending => OneMoreTick < PongLimit

\* A heartbeat tick with a connection that may still be alive: ping again.
Ping ==
    /\ heartbeatTimer
    /\ isConnected /\ ws # NoSocket
    /\ MayBeInTime
    /\ heartbeatPending' = TRUE
    /\ ticksSincePong' = OneMoreTick
    /\ UNCHANGED <<sockVars, ws, loginVars, retryVars, heartbeatTimer, shutdown>>

\* A heartbeat tick while disconnected does nothing, but time passes.
IdleTick ==
    /\ heartbeatTimer
    /\ ~isConnected
    /\ ticksSincePong < PongLimit
    /\ ticksSincePong' = OneMoreTick
    /\ UNCHANGED <<sockVars, ws, loginVars, retryVars, heartbeatTimer,
                   heartbeatPending, shutdown>>

\* A heartbeat tick too long after the last pong: forceReconnect.
ForceReconnect ==
    /\ heartbeatTimer
    /\ isConnected /\ ws # NoSocket
    /\ MayBeOverdue
    /\ heartbeatPending' = FALSE
    /\ EndSession
    /\ heartbeatTimer' = FALSE
    /\ isManualClose' = TRUE
    /\ sock' = CloseSocket(ws)
    /\ terminateTimer' = [terminateTimer EXCEPT ![ws] = TRUE]
    /\ reconnectTimer' = TRUE
    /\ UNCHANGED <<promise, viaTimer, loginTimer, loginReq, ws, pendingLogin,
                   reconnectAttempts, ticksSincePong, shutdown>>

-----------------------------------------------------------------------------
SocketStep(s) ==
    \/ Open(s) \/ CloseEvent(s) \/ ConnectFails(s) \/ ErrorEvent(s)
    \/ LoginSendFails(s) \/ Pong(s) \/ LoginOk(s) \/ LoginRefused(s)
    \/ LoginTimeout(s) \/ TerminateFires(s)

Next ==
    \/ Start \/ Disconnect \/ ReconnectFires
    \/ Ping \/ IdleTick \/ ForceReconnect
    \/ \E s \in Socket : SocketStep(s)

Spec == Init /\ [][Next]_vars

\* The client's own timers fire, and ws gives up on a closing handshake after
\* its own timeout, so a socket on its way out closes.
TimersFire ==
    /\ WF_vars(Start)
    /\ WF_vars(ReconnectFires)
    /\ WF_vars(Ping \/ IdleTick \/ ForceReconnect)
    /\ \A s \in Socket :
          /\ WF_vars(LoginTimeout(s))
          /\ WF_vars(TerminateFires(s))
          /\ WF_vars(sock[s] = "closing" /\ CloseEvent(s))
          /\ WF_vars(sock[s] = "aborting" /\ ConnectFails(s))

\* Every handshake ends one way or the other.  Nothing in the client bounds it:
\* no handshakeTimeout is set.
HandshakesEnd == \A s \in Socket : WF_vars(Open(s) \/ ConnectFails(s))

\* The panel is reachable again and again, and then accepts the login.
PanelComesBack ==
    \A s \in Socket : SF_vars(Open(s)) /\ SF_vars(sock[s] = "open" /\ LoginOk(s))

FairSpec == Spec /\ TimersFire /\ HandshakesEnd

-----------------------------------------------------------------------------
(* Properties                                                              *)

\* The client can send commands: sendKseniaCommand finds an open socket and
\* the login guard of every command finds the session granted on it.
LoggedIn == /\ isConnected
            /\ ws # NoSocket /\ sock[ws] = "open"
            /\ idLogin = ws

\* The shared client state, socket by socket.
TypeOK ==
    /\ sock \in [Socket -> ReadyState]
    /\ promise \in [Socket -> Promise]
    /\ viaTimer \in [Socket -> BOOLEAN]
    /\ loginTimer \in [Socket -> BOOLEAN]
    /\ loginReq \in [Socket -> BOOLEAN]
    /\ terminateTimer \in [Socket -> BOOLEAN]
    /\ ws \in OptSocket
    /\ isConnected \in BOOLEAN
    /\ idLogin \in OptSocket
    /\ pendingLogin \in OptSocket
    /\ isManualClose \in BOOLEAN
    /\ reconnectTimer \in BOOLEAN
    /\ reconnectAttempts \in 0..MaxAttempts
    /\ heartbeatTimer \in BOOLEAN
    /\ heartbeatPending \in BOOLEAN
    /\ ticksSincePong \in 0..PongLimit
    /\ shutdown \in BOOLEAN

\* No session is left behind on the panel: a socket that is neither closed nor
\* closing is the one state.ws refers to, so the client can still close it
\* (connect() overwrites state.ws without looking at the old socket).
NoOrphanSocket ==
    \A s \in Socket : sock[s] \in {"connecting", "open"} => ws = s

\* The session id in use was granted on the socket the commands go out on.
SessionOnCurrentSocket ==
    idLogin # NoSocket => idLogin = ws /\ sock[ws] \in {"open", "closing"}

\* Until disconnect(), something is always under way that ends in a session or
\* in the next attempt: a session, the reconnect timer, a handshake or a closing
\* handshake whose event will reconnect, or a login under its timeout.
RecoveryArmed ==
    \/ ws = NoSocket \/ shutdown
    \/ LoggedIn /\ heartbeatTimer
    \/ reconnectTimer
    \/ sock[ws] \in {"connecting", "aborting", "closing"}
    \/ pendingLogin # NoSocket /\ loginTimer[pendingLogin]

\* Not being connected does not last by itself: a reconnection is scheduled, or
\* the current socket is not settled yet and will report.
OutageIsHandled ==
    \/ isConnected \/ ws = NoSocket \/ shutdown
    \/ reconnectTimer
    \/ sock[ws] \in {"connecting", "aborting", "closing"}

\* An armed login timeout belongs to the login that is waited for: the timer
\* of an abandoned login would clear and close its successor's.
LoginTimerOwned == \A s \in Socket : loginTimer[s] => pendingLogin = s

\* While logged in the heartbeat runs, so a panel that went away silently is
\* noticed.
HeartbeatGuards == LoggedIn => heartbeatTimer

\* While the client believes to be connected, some socket really is, or is in
\* its closing handshake.
ConnectedToSomething ==
    isConnected => \E s \in Socket : sock[s] \in {"open", "closing"}

\* connect() resolves only on a LOGIN_RES OK that answers the LOGIN sent on the
\* very connection it opened.
ResolvesOnOwnLogin ==
    [][\A s \in Socket :
          promise[s] = "pending" /\ promise'[s] = "resolved"
             => loginReq[s] /\ ~loginReq'[s] /\ idLogin' = s]_vars

\* After disconnect() no reconnection is ever scheduled.
NoReconnectAfterDisconnect == [](shutdown => ~reconnectTimer)

\* A panel that is reachable again and again, and then accepts the login, gets a
\* session again and again.
Recovers == PanelComesBack => []<>(shutdown \/ LoggedIn)

\* A ping that is never answered ends the session it was sent in.
DeadPeerDetected ==
    heartbeatPending /\ LoggedIn ~> ~heartbeatPending \/ ~LoggedIn
=============================================================================
