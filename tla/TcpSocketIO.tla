----------------------------- MODULE TcpSocketIO ----------------------------
(***************************************************************************)
(* io/TcpSocketIO.cpp with the Handler that owns it, between a remote peer *)
(* that comes and goes and an engine that starts, stops and writes.        *)
(***************************************************************************)
EXTENDS Handler

CONSTANTS Reconnect,   \* m_options.reconnect
          MaxStops,    \* bound: how often the engine stops the IO
          MaxTimers,   \* bound: reconnects pending at once
          MaxReads,    \* bound: packets read
          MaxWrites    \* bound: packets written

ASSUME ReconnectAssumption == Reconnect \in BOOLEAN
ASSUME TcpBoundsAssumption ==
  {MaxStops, MaxTimers, MaxReads, MaxWrites} \subseteq Nat

VARIABLES
  socket,    \* m_socket: "none" for the null pointer, else its state
  timers,    \* pending QTimer::singleShot calls of connectToRemote
  alive,     \* the remote end of the current connection still exists
  peer,      \* whether somebody listens at remote_address:remote_port
  handler,   \* the Handler
  running,   \* Handler::start has been called and Handler::stop has not since
  stops      \* bound and history: calls of stop() so far

ioVars  == <<socket, timers, alive>>
envVars == <<peer, stops>>
vars    == <<ioVars, handler, running, envVars>>

Sockets == {"none", "unconnected", "connecting", "connected"}

Init ==
  /\ socket = "none"
  /\ timers = 0
  /\ alive = FALSE
  /\ peer \in {"up", "down"}
  /\ handler = NewHandler
  /\ running = FALSE
  /\ stops = 0

-----------------------------------------------------------------------------
(* onSocketErrorOccured: the state the socket is left in, the signal to    *)
(* the handler record h, and the singleShot of reconnect().  pending is    *)
(* the number of timers that are set before.                               *)
OnSocketErrorOccured(state, h, pending) ==
  /\ socket' = state
  /\ alive' = FALSE
  /\ handler' = Signaled(h, "errorOccured")
  /\ timers' = IF Reconnect THEN pending + 1 ELSE pending

(* connectToRemote: stop() drops the socket there may be, then a new one   *)
(* either is on its way or fails at once, in connectToHost.                *)
ConnectToRemote(h, pending) ==
  \/ /\ socket' = "connecting"
     /\ alive' = FALSE
     /\ handler' = h
     /\ timers' = pending
  \/ /\ peer = "down"
     /\ OnSocketErrorOccured("unconnected", h, pending)

(* A start() that reports the failure of connectToHost                     *)
HandlerStart_Reports ==
  /\ ~running
  /\ running' = TRUE
  /\ timers < MaxTimers
  /\ \/ /\ socket' = "connecting"
        /\ timers' = timers
        /\ handler' = Signaled(Connected(handler), "started")
     \/ /\ peer = "down"
        /\ socket' = "unconnected"
        /\ timers' = IF Reconnect THEN timers + 1 ELSE timers
        /\ handler' = Signaled(Connected(handler), "startupErrorOccured")
  /\ alive' = FALSE
  /\ UNCHANGED envVars

(* Handler::start and TcpSocketIO::start, which emits started in any case. *)
HandlerStart ==
  /\ ~running
  /\ running' = TRUE
  /\ timers < MaxTimers
  /\ \/ /\ socket' = "connecting"
        /\ timers' = timers
     \/ /\ peer = "down"
        /\ socket' = "unconnected"
        /\ timers' = IF Reconnect THEN timers + 1 ELSE timers
  /\ alive' = FALSE
  /\ handler' = Signaled(Connected(handler), "started")
  /\ UNCHANGED envVars

(* Handler::stop and TcpSocketIO::stop: a pending reconnect stays pending. *)
HandlerStop ==
  /\ running
  /\ stops < MaxStops
  /\ running' = FALSE
  /\ stops' = stops + 1
  /\ socket' = "none"
  /\ alive' = FALSE
  /\ handler' = Disconnected(handler)
  /\ UNCHANGED <<timers, peer>>

(* A singleShot expires: connectToRemote, whatever happened since.         *)
TimerFires ==
  /\ timers > 0
  /\ ConnectToRemote(handler, timers - 1)
  /\ UNCHANGED <<running, envVars>>

(* The socket's own events.  Mutants: a refused connection is not tried    *)
(* again; the remote closing the connection is not taken as an error.      *)
OnSocketConnected ==
  /\ socket = "connecting"
  /\ peer = "up"
  /\ socket' = "connected"
  /\ alive' = TRUE
  /\ UNCHANGED <<timers, handler, running, envVars>>

ConnectFails_Once ==
  /\ socket = "connecting"
  /\ peer = "down"
  /\ socket' = "unconnected"
  /\ handler' = Signaled(handler, "errorOccured")
  /\ UNCHANGED <<timers, alive, running, envVars>>

ConnectFails ==
  /\ socket = "connecting"
  /\ peer = "down"
  /\ timers < MaxTimers
  /\ OnSocketErrorOccured("unconnected", handler, timers)
  /\ UNCHANGED <<running, envVars>>

ConnectionLost_Ignored ==
  /\ socket = "connected"
  /\ ~alive
  /\ UNCHANGED vars

(* Noticed by the event loop or inside waitForBytesWritten(-1).            *)
ConnectionLost ==
  /\ socket = "connected"
  /\ ~alive
  /\ timers < MaxTimers
  /\ OnSocketErrorOccured("unconnected", handler, timers)
  /\ UNCHANGED <<running, envVars>>

OnSocketReadyRead ==
  /\ socket = "connected"
  /\ handler.data
  /\ handler.read < MaxReads
  /\ handler' = DataRead(handler)
  /\ UNCHANGED <<ioVars, running, envVars>>

(* Mutant: a short write schedules a reconnect.                            *)
WriteData_Retries ==
  /\ Accepts(handler)
  /\ running
  /\ handler.written < MaxWrites
  /\ timers < MaxTimers
  /\ \/ /\ handler' = DataWritten(handler, "none")
        /\ UNCHANGED timers
     \/ /\ socket = "connected"
        /\ handler' = DataWritten(handler, "errorOccured")
        /\ timers' = IF Reconnect THEN timers + 1 ELSE timers
  /\ UNCHANGED <<socket, alive, running, envVars>>

(* Handler::writeData with TcpSocketIO::writeData: a socket that is not    *)
(* connected takes nothing, a short write is an error without a reconnect. *)
(* The engine writes to a running IO only (NoWriteToStopped, Engine.tla).  *)
WriteData ==
  /\ Accepts(handler)
  /\ running
  /\ handler.written < MaxWrites
  /\ \E signal \in {"none"} \cup (IF socket = "connected" THEN {"errorOccured"} ELSE {}) :
       handler' = DataWritten(handler, signal)
  /\ UNCHANGED <<ioVars, running, envVars>>

(* The peer.                                                               *)
PeerGoes ==
  /\ peer = "up"
  /\ peer' = "down"
  /\ alive' = FALSE
  /\ UNCHANGED <<socket, timers, handler, running, stops>>

PeerComes ==
  /\ peer = "down"
  /\ peer' = "up"
  /\ UNCHANGED <<ioVars, handler, running, stops>>

-----------------------------------------------------------------------------
Next ==
  \/ HandlerStart \/ HandlerStop \/ WriteData
  \/ TimerFires \/ OnSocketConnected \/ ConnectFails \/ ConnectionLost \/ OnSocketReadyRead
  \/ PeerGoes \/ PeerComes

Spec == Init /\ [][Next]_vars

(* Timers expire, and the operating system reports how a connection        *)
(* attempt ended and that a connection broke.                              *)
Fairness ==
  WF_vars(TimerFires) /\ WF_vars(OnSocketConnected) /\ WF_vars(ConnectFails)
    /\ WF_vars(ConnectionLost)

FairSpec == Spec /\ Fairness

-----------------------------------------------------------------------------
TypeOK ==
  /\ socket \in Sockets
  /\ timers \in 0..MaxTimers
  /\ alive \in BOOLEAN
  /\ peer \in {"up", "down"}
  /\ handler \in Handlers
  /\ running \in BOOLEAN
  /\ stops \in 0..MaxStops

(* As long as stop() was never called, a pending reconnect is the only one *)
(* and finds the socket unconnected: the 500 ms timer never cuts a live    *)
(* connection or an attempt in progress (connectToRemote calls stop()).    *)
ReconnectsAlone ==
  (stops = 0 /\ timers > 0) => (timers = 1 /\ socket = "unconnected")

(* With the reconnect option, a running IO without a connection or an      *)
(* attempt to get one has a reconnect pending, so it is never stranded.    *)
NeverStranded ==
  (Reconnect /\ running /\ socket \notin {"connecting", "connected"}) => timers > 0

(* With the reconnect option, a running IO whose peer stays up ends up     *)
(* with a live connection for good, however many outages and restarts came *)
(* before and whatever timers they left behind.                            *)
Recovers ==
  (Reconnect /\ <>[](running /\ peer = "up")) => <>[](socket = "connected" /\ alive)

(* To its Handler the IO behaves as the contract the engine assumes.       *)
Abstract == INSTANCE IOContract
              WITH contract <- TcpSocketContract, dev <- IF running THEN "open" ELSE "idle"
ContractKept == Abstract!Spec

(* "Automatically reconnects, if the connection drops" (README.md:126): a  *)
(* connection that is up can be written to.                                *)
ConnectedForwards == (running /\ socket = "connected") => Accepts(handler)

=============================================================================
