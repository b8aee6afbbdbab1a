-------------------------- MODULE WebSocketIOProofs -------------------------
(***************************************************************************)
(* Theorems about WebSocketIO.tla, with and without its options, for any   *)
(* number of stops, timers and messages: no bound is assumed to be         *)
(* anything.                                                               *)
(***************************************************************************)
EXTENDS WebSocketIO, TLAPS

Bounds == {MaxStops, MaxTimers} \subseteq Nat

Types ==
  /\ reconnect \in BOOLEAN /\ binary \in BOOLEAN /\ running \in BOOLEAN
  /\ socket \in Sockets
  /\ timers \in Nat /\ stops \in Nat
  /\ handler \in Handlers

(* An IO that was never stopped and does not run was never started; the    *)
(* Handler hears of a running IO and of no other; newData reaches it until *)
(* the first stop().                                                       *)
Fresh    == (stops = 0 /\ ~running) => (timers = 0 /\ socket = "none")
Hears    == running <=> handler.lifecycle > 0
DataOnce == handler.data <=> stops = 0

Inv ==
  /\ Types
  /\ Fresh /\ Hears /\ DataOnce
  /\ ReconnectsAlone /\ StrandedByCloseOnly /\ BinaryIsSafe

-----------------------------------------------------------------------------
(* What the operators of Handler.tla do to a handler record.               *)
LEMMA NewHandlerFacts ==
  /\ NewHandler \in Handlers
  /\ NewHandler.data /\ NewHandler.lifecycle = 0 /\ ~Accepts(NewHandler)
  BY DEF NewHandler, Handlers, State, Accepts

LEMMA ConnectedFacts ==
  ASSUME NEW h \in Handlers
  PROVE  /\ Connected(h) \in Handlers
         /\ Connected(h).data = h.data
         /\ Connected(h).lifecycle > 0
         /\ Connected(h).read = h.read /\ Connected(h).written = h.written
  BY DEF Connected, Handlers

LEMMA DisconnectedFacts ==
  ASSUME NEW h \in Handlers
  PROVE  /\ Disconnected(h) \in Handlers
         /\ ~Disconnected(h).data /\ Disconnected(h).lifecycle = 0
         /\ Disconnected(h).read = h.read /\ Disconnected(h).written = h.written
  BY DEF Disconnected, Handlers

LEMMA DataReadFacts ==
  ASSUME NEW h \in Handlers
  PROVE  /\ DataRead(h) \in Handlers
         /\ DataRead(h).data = h.data /\ DataRead(h).lifecycle = h.lifecycle
         /\ DataRead(h).state = h.state
         /\ DataRead(h).read = h.read + 1 /\ DataRead(h).written = h.written
  BY DEF DataRead, Handlers

(* A lifecycle signal changes the state at most.                           *)
LEMMA SignaledFacts ==
  ASSUME NEW h \in Handlers, NEW signal
  PROVE  /\ Signaled(h, signal) \in Handlers
         /\ Signaled(h, signal).data = h.data
         /\ Signaled(h, signal).lifecycle = h.lifecycle
         /\ Signaled(h, signal).read = h.read /\ Signaled(h, signal).written = h.written
<1>1. \A s \in {"Failed", "Started"} :
        /\ [h EXCEPT !.state = s] \in Handlers
        /\ [h EXCEPT !.state = s].data = h.data
        /\ [h EXCEPT !.state = s].lifecycle = h.lifecycle
        /\ [h EXCEPT !.state = s].read = h.read /\ [h EXCEPT !.state = s].written = h.written
  BY DEF Handlers, State
<1> QED
  BY <1>1 DEF Signaled

(* And it does so only where the signal is connected.                      *)
LEMMA SignaledState ==
  ASSUME NEW h \in Handlers
  PROVE  /\ Signaled(h, "none") = h
         /\ h.lifecycle = 0 => \A signal : Signaled(h, signal) = h
         /\ h.lifecycle > 0 =>
              /\ Signaled(h, "started").state = "Started"
              /\ \A signal \in ErrorSignal : Signaled(h, signal).state = "Failed"
<1>1. \A s \in State : [h EXCEPT !.state = s].state = s
  BY DEF Handlers
<1> QED
  BY <1>1 DEF Signaled, ErrorSignal, Handlers, State

LEMMA DataWrittenFacts ==
  ASSUME NEW h \in Handlers, NEW signal
  PROVE  /\ DataWritten(h, signal) \in Handlers
         /\ DataWritten(h, signal).data = h.data
         /\ DataWritten(h, signal).lifecycle = h.lifecycle
         /\ DataWritten(h, signal).state = Signaled(h, signal).state
         /\ DataWritten(h, signal).read = h.read
         /\ DataWritten(h, signal).written = h.written + 1
<1> DEFINE g == Signaled(h, signal)
<1>1. /\ g \in Handlers /\ g.data = h.data /\ g.lifecycle = h.lifecycle
      /\ g.read = h.read /\ g.written = h.written
  BY SignaledFacts
<1>2. DataWritten(h, signal) = [g EXCEPT !.written = @ + 1]
  BY DEF DataWritten
<1> HIDE DEF g
<1>3. /\ [g EXCEPT !.written = @ + 1] \in Handlers
      /\ [g EXCEPT !.written = @ + 1].data = g.data
      /\ [g EXCEPT !.written = @ + 1].lifecycle = g.lifecycle
      /\ [g EXCEPT !.written = @ + 1].state = g.state
      /\ [g EXCEPT !.written = @ + 1].read = g.read
      /\ [g EXCEPT !.written = @ + 1].written = g.written + 1
  BY <1>1 DEF Handlers
<1> QED
  BY <1>1, <1>2, <1>3 DEF g

-----------------------------------------------------------------------------
LEMMA InvInit ==
  ASSUME Init
  PROVE  Inv
<1>1. /\ handler \in Handlers /\ handler.data /\ handler.lifecycle = 0
      /\ running = FALSE /\ stops = 0
  BY NewHandlerFacts DEF Init
<1>2. Types
  <2>1. timers \in Nat /\ stops \in Nat
    BY DEF Init
  <2>2. reconnect \in BOOLEAN /\ binary \in BOOLEAN /\ running \in BOOLEAN
    BY <1>1, Zenon DEF Init
  <2> QED
    BY <1>1, <2>1, <2>2 DEF Init, Types, Sockets
<1>3. Hears
  BY <1>1 DEF Hears
<1>4. DataOnce
  BY <1>1 DEF DataOnce
<1> QED
  BY <1>2, <1>3, <1>4 DEF Init, Inv, Fresh, ReconnectsAlone, StrandedByCloseOnly, BinaryIsSafe

(* The Handler after a lifecycle signal of a start(), and after an error.  *)
LEMMA HandlerAfter ==
  ASSUME Inv
  PROVE  /\ LET h == Signaled(Connected(handler), "started")
            IN  h \in Handlers /\ h.data = handler.data /\ h.lifecycle > 0 /\ Accepts(h)
         /\ LET h == Signaled(handler, "errorOccured")
            IN  h \in Handlers /\ h.data = handler.data /\ h.lifecycle = handler.lifecycle
<1>1. Connected(handler) \in Handlers /\ Connected(handler).lifecycle > 0
      /\ Connected(handler).data = handler.data
  BY ConnectedFacts DEF Inv, Types
<1>2. Signaled(Connected(handler), "started").state = "Started"
  BY <1>1, SignaledState
<1> QED
  BY <1>1, <1>2, SignaledFacts DEF Inv, Types, Accepts

LEMMA InvStart ==
  ASSUME Inv, HandlerStart
  PROVE  Inv'
<1> USE DEF Inv
<1>1. /\ handler' \in Handlers /\ handler'.data = handler.data
      /\ handler'.lifecycle > 0 /\ Accepts(handler')
  BY HandlerAfter DEF HandlerStart
<1>2. Types' /\ Hears' /\ DataOnce' /\ Fresh' /\ BinaryIsSafe'
  BY <1>1 DEF HandlerStart, options, Types, Hears, DataOnce, Fresh, BinaryIsSafe, Sockets
<1>3. ReconnectsAlone' /\ StrandedByCloseOnly'
  BY DEF HandlerStart, options, Types, Fresh, ReconnectsAlone, StrandedByCloseOnly
<1> QED
  BY <1>2, <1>3

LEMMA InvStop ==
  ASSUME Inv, HandlerStop
  PROVE  Inv'
<1> USE DEF Inv
<1>1. /\ handler' \in Handlers /\ ~handler'.data /\ handler'.lifecycle = 0
      /\ stops' \in Nat /\ stops' # 0 /\ ~running' /\ running' \in BOOLEAN
  <2>1. handler' \in Handlers /\ ~handler'.data /\ handler'.lifecycle = 0
    BY DisconnectedFacts DEF HandlerStop, Types
  <2>2. stops' \in Nat /\ stops' # 0 /\ running' = FALSE
    BY DEF HandlerStop, Types
  <2> QED
    BY <2>1, <2>2
<1>2. Types' /\ Hears' /\ DataOnce'
  BY <1>1 DEF HandlerStop, options, Types, Hears, DataOnce, Sockets
<1> QED
  BY <1>1, <1>2 DEF Fresh, ReconnectsAlone, StrandedByCloseOnly, BinaryIsSafe

(* A failed connection or attempt; pending of its timers are left.         *)
LEMMA InvError ==
  ASSUME Inv, NEW pending \in Nat, OnSocketErrorOccured(handler, pending),
         socket # "none" \/ timers > 0,
         stops = 0 => pending = 0,
         UNCHANGED <<options, peer, running, stops>>
  PROVE  Inv'
<1> USE DEF Inv
<1>1. handler' \in Handlers /\ handler'.data = handler.data /\ handler'.lifecycle = handler.lifecycle
  BY HandlerAfter DEF OnSocketErrorOccured
<1>2. /\ socket' = "unconnected" /\ broken' = TRUE
      /\ timers' = IF reconnect THEN pending + 1 ELSE pending
      /\ UNCHANGED <<reconnect, binary, running, stops>>
  BY DEF OnSocketErrorOccured, options
<1>3. Types' /\ Hears' /\ DataOnce'
  BY <1>1, <1>2 DEF Types, Hears, DataOnce, Sockets
<1>4. Fresh' /\ ReconnectsAlone' /\ StrandedByCloseOnly' /\ BinaryIsSafe'
  BY <1>2 DEF Types, Fresh, ReconnectsAlone, StrandedByCloseOnly, BinaryIsSafe
<1> QED
  BY <1>3, <1>4

LEMMA InvTimerFires ==
  ASSUME Inv, TimerFires
  PROVE  Inv'
<1> USE DEF Inv
<1>1. /\ timers > 0 /\ timers - 1 \in Nat /\ (stops = 0 => timers - 1 = 0)
      /\ UNCHANGED <<options, peer, running, stops>>
  BY DEF TimerFires, Types, ReconnectsAlone
<1>2. CASE OnSocketErrorOccured(handler, timers - 1)
  BY <1>1, <1>2, InvError
<1>3. CASE Opening /\ timers' = timers - 1 /\ UNCHANGED handler
  <2>1. /\ socket' = "connecting" /\ timers' = timers - 1
        /\ UNCHANGED <<broken, handler, reconnect, binary, running, stops>>
    BY <1>1, <1>3 DEF Opening, options
  <2> QED
    BY <1>1, <2>1 DEF Types, Sockets, Hears, DataOnce, Fresh, ReconnectsAlone, StrandedByCloseOnly,
                      BinaryIsSafe
<1> QED
  BY <1>2, <1>3 DEF TimerFires

LEMMA InvWriteData ==
  ASSUME Inv, WriteData
  PROVE  Inv'
<1> USE DEF Inv
<1>1. /\ UNCHANGED <<reconnect, binary, socket, timers, running, stops>>
      /\ running
      /\ \/ handler' = DataWritten(handler, "none") /\ UNCHANGED broken
         \/ ~binary /\ handler' = DataWritten(handler, "errorOccured")
         \/ broken' = TRUE /\ handler' = DataWritten(handler, "errorOccured")
  BY DEF WriteData, Miscounted, options
<1>2. handler' \in Handlers /\ handler'.data = handler.data /\ handler'.lifecycle = handler.lifecycle
  BY <1>1, DataWrittenFacts DEF Types
<1>3. handler' = DataWritten(handler, "none") => handler'.state = handler.state
  BY DataWrittenFacts, SignaledState DEF Types
<1>4. Types' /\ Hears' /\ DataOnce' /\ Fresh' /\ ReconnectsAlone' /\ StrandedByCloseOnly'
  BY <1>1, <1>2 DEF Types, Hears, DataOnce, Fresh, ReconnectsAlone, StrandedByCloseOnly
<1>5. BinaryIsSafe'
  BY <1>1, <1>3 DEF BinaryIsSafe, Accepts
<1> QED
  BY <1>4, <1>5

LEMMA InvStep ==
  ASSUME Inv, [Next]_vars
  PROVE  Inv'
<1> USE DEF Inv
<1>1. CASE HandlerStart
  BY <1>1, InvStart
<1>2. CASE HandlerStop
  BY <1>2, InvStop
<1>3. CASE WriteData
  BY <1>3, InvWriteData
<1>4. CASE TimerFires
  BY <1>4, InvTimerFires
<1>5. CASE SocketFails
  <2>1. socket # "none" /\ timers \in Nat /\ (stops = 0 => timers = 0)
    BY <1>5 DEF SocketFails, Types, ReconnectsAlone
  <2> QED
    BY <1>5, <2>1, InvError DEF SocketFails
<1>6. CASE OnConnected \/ OnDisconnected
  <2>1. /\ UNCHANGED <<reconnect, binary, timers, broken, handler, running, stops>>
        /\ socket \in {"connecting", "connected"} /\ socket' \in {"connected", "closed"}
    BY <1>6 DEF OnConnected, OnDisconnected, options
  <2> QED
    BY <2>1 DEF Types, Sockets, Hears, DataOnce, Fresh, ReconnectsAlone, StrandedByCloseOnly,
                BinaryIsSafe
<1>7. CASE OnMessageReceived
  <2>1. /\ handler' \in Handlers /\ handler'.data = handler.data
        /\ handler'.lifecycle = handler.lifecycle /\ handler'.state = handler.state
    BY <1>7, DataReadFacts DEF OnMessageReceived, Types
  <2> QED
    BY <1>7, <2>1 DEF OnMessageReceived, options, ioVars, Types, Hears, DataOnce, Fresh,
                      ReconnectsAlone, StrandedByCloseOnly, BinaryIsSafe, Accepts
<1>8. CASE PeerGoes \/ PeerComes \/ UNCHANGED vars
  <2>1. UNCHANGED <<reconnect, binary, socket, timers, broken, handler, running, stops>>
    BY <1>8 DEF PeerGoes, PeerComes, vars, options, ioVars
  <2> QED
    BY <2>1 DEF Types, Hears, DataOnce, Fresh, ReconnectsAlone, StrandedByCloseOnly, BinaryIsSafe
<1> QED
  BY <1>1, <1>2, <1>3, <1>4, <1>5, <1>6, <1>7, <1>8 DEF Next

LEMMA InvAlways == Spec => []Inv
<1>1. Init => Inv
  BY InvInit
<1>2. Inv /\ [Next]_vars => Inv'
  BY InvStep
<1> QED
  BY <1>1, <1>2, PTL DEF Spec

-----------------------------------------------------------------------------
(* The types that the invariant above does not need.                       *)
Counted == timers \in 0..MaxTimers /\ stops \in 0..MaxStops

LEMMA TypeInit ==
  ASSUME Bounds, Init
  PROVE  TypeOK
<1>1. /\ reconnect \in BOOLEAN /\ binary \in BOOLEAN /\ alive \in BOOLEAN
      /\ broken \in BOOLEAN /\ running \in BOOLEAN
      /\ socket \in Sockets /\ peer \in {"up", "down"}
  BY DEF Init, Sockets
<1>2. Counted /\ handler \in Handlers
  BY NewHandlerFacts DEF Init, Bounds, Counted
<1> QED
  BY <1>1, <1>2 DEF TypeOK, Counted

LEMMA CountedStep ==
  ASSUME Bounds, Counted, [Next]_vars
  PROVE  Counted'
<1> USE DEF Bounds, Counted
<1>1. CASE HandlerStart
  BY <1>1 DEF HandlerStart
<1>2. CASE HandlerStop
  BY <1>2 DEF HandlerStop
<1>3. CASE TimerFires
  BY <1>3 DEF TimerFires, OnSocketErrorOccured
<1>4. CASE SocketFails
  BY <1>4 DEF SocketFails, OnSocketErrorOccured
<1>5. CASE WriteData \/ OnConnected \/ OnDisconnected
  BY <1>5 DEF WriteData, OnConnected, OnDisconnected
<1>6. CASE OnMessageReceived \/ PeerGoes \/ PeerComes \/ UNCHANGED vars
  BY <1>6 DEF OnMessageReceived, PeerGoes, PeerComes, vars, ioVars
<1> QED
  BY <1>1, <1>2, <1>3, <1>4, <1>5, <1>6 DEF Next

LEMMA TypeStep ==
  ASSUME Bounds, TypeOK, Inv', [Next]_vars
  PROVE  TypeOK'
<1>1. /\ reconnect' \in BOOLEAN /\ binary' \in BOOLEAN /\ running' \in BOOLEAN
      /\ socket' \in Sockets /\ handler' \in Handlers
  BY DEF Inv, Types
<1>2. Counted'
  BY CountedStep DEF TypeOK, Counted
<1>3. peer' \in {"up", "down"}
  BY DEF Next, HandlerStart, HandlerStop, WriteData, TimerFires, OnConnected, SocketFails,
         OnDisconnected, OnMessageReceived, PeerGoes, PeerComes, vars, TypeOK
<1>4. alive \in BOOLEAN /\ broken \in BOOLEAN
  BY DEF TypeOK
<1>5. alive' \in BOOLEAN /\ broken' \in BOOLEAN
  BY <1>4 DEF Next, HandlerStart, HandlerStop, WriteData, TimerFires, Opening, OnConnected,
         SocketFails, OnSocketErrorOccured, OnDisconnected, OnMessageReceived, PeerGoes, PeerComes,
         vars, ioVars
<1> QED
  BY <1>1, <1>2, <1>3, <1>5 DEF TypeOK, Counted

(* Every variable has its type, and no more reconnects are pending than    *)
(* the model lets be.                                                      *)
THEOREM WebSocketTypeCorrect ==
  ASSUME Bounds
  PROVE  Spec => []TypeOK
<1>1. Init => TypeOK
  BY TypeInit
<1>2. TypeOK /\ Inv' /\ [Next]_vars => TypeOK'
  BY TypeStep
<1> QED
  BY <1>1, <1>2, InvAlways, PTL DEF Spec

-----------------------------------------------------------------------------
(* Until the first stop() a reconnect that is due is the only one, and the *)
(* socket it replaces has failed: connectToRemote never cuts a connection  *)
(* that lives.                                                             *)
THEOREM ReconnectIsAlone == Spec => []ReconnectsAlone
<1>1. Inv => ReconnectsAlone
  BY DEF Inv
<1> QED
  BY <1>1, InvAlways, PTL

(* The only way for a running IO with the reconnect option to be left with *)
(* neither connection nor attempt nor timer is a close frame of its peer.  *)
THEOREM OnlyCloseStrands == Spec => []StrandedByCloseOnly
<1>1. Inv => StrandedByCloseOnly
  BY DEF Inv
<1> QED
  BY <1>1, InvAlways, PTL

(* In binary mode the Handler of an IO whose socket never failed takes     *)
(* data, whatever the packets that it was given before.                    *)
THEOREM BinaryAccepts == Spec => []BinaryIsSafe
<1>1. Inv => BinaryIsSafe
  BY DEF Inv
<1> QED
  BY <1>1, InvAlways, PTL

-----------------------------------------------------------------------------
(* The steps of the IO, seen from its Handler.                             *)
LEMMA SameHandler ==
  /\ Abstract!NewHandler = NewHandler
  /\ Abstract!ErrorSignal = ErrorSignal
  /\ \A h : /\ Abstract!Connected(h) = Connected(h)
            /\ Abstract!Disconnected(h) = Disconnected(h)
            /\ Abstract!DataRead(h) = DataRead(h)
  /\ \A h, signal : /\ Abstract!Signaled(h, signal) = Signaled(h, signal)
                    /\ Abstract!DataWritten(h, signal) = DataWritten(h, signal)
  BY DEF Abstract!NewHandler, NewHandler, Abstract!ErrorSignal, ErrorSignal,
         Abstract!Connected, Connected, Abstract!Disconnected, Disconnected,
         Abstract!DataRead, DataRead, Abstract!Signaled, Signaled,
         Abstract!DataWritten, DataWritten

LEMMA ContractOfWebSocket ==
  /\ WebSocketContract.start = {"started"} /\ "started" \notin ErrorSignal
  /\ WebSocketContract.emits = {"open"} /\ WebSocketContract.errors = {"open"}
  /\ WebSocketContract.writeFails
  BY DEF WebSocketContract, StdOutContract, ErrorSignal

LEMMA ContractInit == Init => Abstract!Init
  BY SameHandler DEF Init, Abstract!Init

LEMMA ContractStep ==
  ASSUME Inv, [Next]_vars
  PROVE  Abstract!Next \/ UNCHANGED Abstract!vars
<1>1. CASE HandlerStart
  <2>1. Abstract!Start
    BY <1>1, SameHandler, ContractOfWebSocket DEF HandlerStart, Abstract!Start
  <2> QED
    BY <2>1 DEF Abstract!Next
<1>2. CASE HandlerStop
  <2>1. Abstract!Stop
    BY <1>2, SameHandler DEF HandlerStop, Abstract!Stop
  <2> QED
    BY <2>1 DEF Abstract!Next
<1>3. CASE WriteData
  <2>1. Abstract!WriteReturns
    BY <1>3, SameHandler, ContractOfWebSocket DEF WriteData, Abstract!WriteReturns
  <2> QED
    BY <2>1 DEF Abstract!Next
<1>4. CASE TimerFires \/ SocketFails
  <2>1. /\ handler' = handler \/ handler' = Signaled(handler, "errorOccured")
        /\ UNCHANGED running
    BY <1>4 DEF TimerFires, SocketFails, OnSocketErrorOccured
  <2>2. CASE running /\ handler' = Signaled(handler, "errorOccured")
    <3>1. Abstract!Error
      BY <2>1, <2>2, SameHandler, ContractOfWebSocket DEF Abstract!Error
    <3> QED
      BY <3>1 DEF Abstract!Next
  <2>3. CASE ~running \/ handler' = handler
    <3>1. ~running => handler.lifecycle = 0
      BY DEF Inv, Types, Hears, Handlers
    <3>2. handler' = handler
      BY <2>1, <2>3, <3>1, SignaledState DEF Inv, Types
    <3> QED
      BY <2>1, <3>2 DEF Abstract!vars
  <2> QED
    BY <2>1, <2>2, <2>3
<1>5. CASE OnMessageReceived
  <2>1. running /\ handler.data /\ handler' = DataRead(handler) /\ UNCHANGED running
    BY <1>5 DEF OnMessageReceived, Inv, Types, Fresh, DataOnce
  <2>2. Signaled(handler, "none") = handler
    BY DEF Signaled
  <2>3. Abstract!NewData
    BY <2>1, <2>2, SameHandler, ContractOfWebSocket DEF Abstract!NewData
  <2> QED
    BY <2>3 DEF Abstract!Next
<1>6. CASE OnConnected \/ OnDisconnected \/ PeerGoes \/ PeerComes \/ UNCHANGED vars
  BY <1>6 DEF OnConnected, OnDisconnected, PeerGoes, PeerComes, vars, Abstract!vars
<1> QED
  BY <1>1, <1>2, <1>3, <1>4, <1>5, <1>6 DEF Next

(* Whatever the peer, the timers, the packets and the engine do, the IO    *)
(* keeps the contract that Engine.tla assumes of a WebSocket client.       *)
THEOREM WebSocketImplementsContract == Spec => ContractKept
<1>1. Inv /\ [Next]_vars => [Abstract!Next]_(Abstract!vars)
  BY ContractStep
<1> QED
  BY <1>1, ContractInit, InvAlways, PTL DEF Spec, ContractKept, Abstract!Spec
=============================================================================
