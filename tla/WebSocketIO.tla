----------------------------- MODULE WebSocketIO ----------------------------
(***************************************************************************)
(* io/WebSocketIO.cpp with the Handler that owns it.  It reconnects as     *)
(* TcpSocketIO does, but a WebSocket can also be closed by its peer in due *)
(* form, which is no error; and text messages have to be valid UTF-8.      *)
(***************************************************************************)
EXTENDS Handler

CONSTANTS MaxStops,    \* bound: how often the engine stops the IO
          MaxTimers,   \* bound: reconnects pending at once
          MaxReads,    \* bound: messages received
          MaxWrites    \* bound: packets written

VARIABLES
  reconnect, binary,  \* m_options
  socket,    \* m_socket: "none" for the null pointer, else its state; of an
             \* unconnected one also whether the peer closed it in due form
  timers,    \* pending QTimer::singleShot calls of connectToRemote
  alive,     \* the remote end of the current connection still exists
  peer,      \* whether a server answers at remote_url
  broken,    \* history: the socket reported an error since start()
  handler,   \* the Handler
  running,   \* Handler::start has been called and Handler::stop has not since
  stops      \* bound and history: calls of stop() so far

options == <<reconnect, binary>>
ioVars  == <<socket, timers, alive, broken>>
vars    == <<options, ioVars, peer, handler, running, stops>>

Sockets == {"none", "unconnected", "closed", "connecting", "connected"}

Init ==
  /\ reconnect \in BOOLEAN
  /\ binary \in BOOLEAN
  /\ socket = "none"
  /\ timers = 0
  /\ alive = FALSE
  /\ peer \in {"up", "down"}
  /\ broken = FALSE
  /\ handler = NewHandler
  /\ running = FALSE
  /\ stops = 0

-----------------------------------------------------------------------------
(* onSocketErrorOccured with reconnect(); pending is the number of timers  *)
(* that are set before.  Mutant: connections that were refused are not     *)
(* tried again.                                                            *)
OnSocketErrorOccured_Once(h, pending) ==
  /\ socket' = "unconnected"
  /\ alive' = FALSE
  /\ broken' = TRUE
  /\ handler' = Signaled(h, "errorOccured")
  /\ timers' = IF reconnect /\ peer = "up" THEN pending + 1 ELSE pending

OnSocketErrorOccured(h, pending) ==
  /\ socket' = "unconnected"
  /\ alive' = FALSE
  /\ broken' = TRUE
  /\ handler' = Signaled(h, "errorOccured")
  /\ timers' = IF reconnect THEN pending + 1 ELSE pending

(* connectToRemote: the old socket is closed and left to deleteLater, the  *)
(* new one is on its way or fails at once in open().                       *)
Opening ==
  /\ socket' = "connecting"
  /\ alive' = FALSE
  /\ UNCHANGED broken

(* Handler::start and WebSocketIO::start, which emits started in any case. *)
HandlerStart ==
  /\ ~running
  /\ running' = TRUE
  /\ timers < MaxTimers
  /\ \/ /\ socket' = "connecting"
        /\ broken' = FALSE
        /\ UNCHANGED timers
     \/ /\ peer = "down"
        /\ socket' = "unconnected"
        /\ broken' = TRUE
        /\ timers' = IF reconnect THEN timers + 1 ELSE timers
  /\ alive' = FALSE
  /\ handler' = Signaled(Connected(handler), "started")
  /\ UNCHANGED <<options, peer, stops>>

(* Handler::stop and WebSocketIO::stop                                     *)
HandlerStop ==
  /\ running
  /\ stops < MaxStops
  /\ running' = FALSE
  /\ stops' = stops + 1
  /\ socket' = "none"
  /\ alive' = FALSE
  /\ handler' = Disconnected(handler)
  /\ UNCHANGED <<options, timers, broken, peer>>

TimerFires ==
  /\ timers > 0
  /\ \/ Opening /\ timers' = timers - 1 /\ UNCHANGED handler
     \/ peer = "down" /\ OnSocketErrorOccured(handler, timers - 1)
  /\ UNCHANGED <<options, peer, running, stops>>

OnConnected ==
  /\ socket = "connecting"
  /\ peer = "up"
  /\ socket' = "connected"
  /\ alive' = TRUE
  /\ UNCHANGED <<options, timers, broken, peer, handler, running, stops>>

(* The attempt is refused, or the connection breaks.                       *)
SocketFails ==
  /\ \/ socket = "connecting" /\ peer = "down"
     \/ socket = "connected" /\ ~alive
  /\ timers < MaxTimers
  /\ OnSocketErrorOccured(handler, timers)
  /\ UNCHANGED <<options, peer, running, stops>>

(* The peer ends the connection with a close frame; onDisconnected is      *)
(* empty.  Mutant: it reconnects, although a timer is pending.             *)
OnDisconnected_Reconnects ==
  /\ socket = "connected"
  /\ alive
  /\ timers < MaxTimers
  /\ socket' = "closed"
  /\ alive' = FALSE
  /\ timers' = timers + 1
  /\ UNCHANGED <<options, broken, peer, handler, running, stops>>

OnDisconnected ==
  /\ socket = "connected"
  /\ alive
  /\ socket' = "closed"
  /\ alive' = FALSE
  /\ UNCHANGED <<options, timers, broken, peer, handler, running, stops>>

OnMessageReceived ==
  /\ socket = "connected"
  /\ handler.data
  /\ handler.read < MaxReads
  /\ handler' = DataRead(handler)
  /\ UNCHANGED <<options, ioVars, peer, running, stops>>

(* The bytes sent are counted against those given.  A broken connection    *)
(* may take fewer; and QString::fromUtf8 puts a replacement character for  *)
(* what is no UTF-8, which makes the message longer.  Mutant: the length   *)
(* of the text is used in binary mode too.                                 *)
Miscounted_Always(utf8) == ~utf8

Miscounted(utf8) == ~binary /\ ~utf8

(* Handler::writeData and WebSocketIO::writeData                           *)
WriteData ==
  /\ Accepts(handler)
  /\ running
  /\ handler.written < MaxWrites
  /\ \E utf8 \in BOOLEAN :
       \/ /\ socket # "connected" \/ ~Miscounted(utf8)
          /\ handler' = DataWritten(handler, "none")
          /\ UNCHANGED broken
       \/ /\ socket = "connected" /\ Miscounted(utf8)
          /\ handler' = DataWritten(handler, "errorOccured")
          /\ UNCHANGED broken
       \/ /\ socket = "connected" /\ ~alive
          /\ handler' = DataWritten(handler, "errorOccured")
          /\ broken' = TRUE
  /\ UNCHANGED <<options, socket, timers, alive, peer, running, stops>>

PeerGoes ==
  /\ peer = "up"
  /\ peer' = "down"
  /\ alive' = FALSE
  /\ UNCHANGED <<options, socket, timers, broken, handler, running, stops>>

PeerComes ==
  /\ peer = "down"
  /\ peer' = "up"
  /\ UNCHANGED <<options, ioVars, handler, running, stops>>

-----------------------------------------------------------------------------
Next ==
  \/ HandlerStart \/ HandlerStop \/ WriteData
  \/ TimerFires \/ OnConnected \/ SocketFails \/ OnDisconnected \/ OnMessageReceived
  \/ PeerGoes \/ PeerComes

Spec == Init /\ [][Next]_vars

(* Timers expire, and the operating system reports how a connection        *)
(* attempt ended and that a connection broke.                              *)
Fairness == WF_vars(TimerFires) /\ WF_vars(OnConnected) /\ WF_vars(SocketFails)

FairSpec == Spec /\ Fairness

-----------------------------------------------------------------------------
TypeOK ==
  /\ {reconnect, binary, alive, broken, running} \subseteq BOOLEAN
  /\ socket \in Sockets
  /\ timers \in 0..MaxTimers
  /\ peer \in {"up", "down"}
  /\ handler \in Handlers
  /\ stops \in 0..MaxStops

(* As long as stop() was never called, a pending reconnect is the only one *)
(* and finds a socket that failed: it never cuts a live connection.        *)
ReconnectsAlone == (stops = 0 /\ timers > 0) => (timers = 1 /\ socket = "unconnected")

(* With the reconnect option the only running IO that has no connection,   *)
(* no attempt and no timer is the one whose peer sent a close frame.       *)
StrandedByCloseOnly ==
  (reconnect /\ running /\ socket \notin {"connecting", "connected", "closed"}) => timers > 0

(* With the reconnect option a running IO whose peer stays up, and did not *)
(* close the connection in due form, ends up connected for good.           *)
Recovers ==
  (reconnect /\ <>[](running /\ peer = "up" /\ socket # "closed"))
    => <>[](socket = "connected" /\ alive)

(* In binary mode no packet, whatever its bytes, makes the Handler give up *)
(* a connection that never failed; text mode gives it up for good at the   *)
(* first packet that is not UTF-8, such as one cut inside a character.     *)
BinaryIsSafe == (binary /\ running /\ ~broken) => Accepts(handler)

(* To its Handler the IO behaves as the contract the engine assumes.       *)
Abstract == INSTANCE IOContract
              WITH contract <- WebSocketContract, dev <- IF running THEN "open" ELSE "idle"
ContractKept == Abstract!Spec

(* "If 'true' the socket automatically tries to reconnect."                *)
(* (WebSocketIO.cpp:185): a running IO is connected, or it tries.          *)
NeverStranded ==
  (reconnect /\ running /\ socket \notin {"connecting", "connected"}) => timers > 0

=============================================================================
