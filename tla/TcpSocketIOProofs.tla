------------------------- MODULE TcpSocketIOProofs --------------------------
(***************************************************************************)
(* Theorems about TcpSocketIO.tla, for every value of the bounds, with and *)
(* without the reconnect option.                                           *)
(***************************************************************************)
EXTENDS TcpSocketIO, TLAPS

USE ReconnectAssumption, TcpBoundsAssumption

(* Which is needed for every part below: an IO that was never stopped and  *)
(* does not run was never started, so it has neither socket nor timer; a   *)
(* handler of an IO that does not run hears nothing of it.                 *)
Fresh    == (stops = 0 /\ ~running) => (timers = 0 /\ socket = "none")
Deaf     == ~running => handler.lifecycle = 0
DataOnce == handler.data <=> stops = 0

Inv == TypeOK /\ Fresh /\ Deaf /\ DataOnce /\ ReconnectsAlone /\ NeverStranded

-----------------------------------------------------------------------------
LEMMA HandlerFacts ==
  ASSUME NEW h \in Handlers, NEW signal \in Signal
  PROVE  /\ Connected(h) \in Handlers /\ Connected(h).data = h.data
         /\ Signaled(h, signal) \in Handlers
         /\ Signaled(h, signal).data = h.data
         /\ Signaled(h, signal).lifecycle = h.lifecycle
         /\ Disconnected(h) \in Handlers
         /\ ~Disconnected(h).data /\ Disconnected(h).lifecycle = 0
         /\ DataRead(h) \in Handlers
         /\ DataRead(h).data = h.data /\ DataRead(h).lifecycle = h.lifecycle
<1>1. /\ Connected(h) \in Handlers /\ Connected(h).data = h.data
  BY DEF Connected, Handlers
<1>2. Disconnected(h) \in Handlers /\ ~Disconnected(h).data /\ Disconnected(h).lifecycle = 0
  BY DEF Disconnected, Handlers
<1>3. /\ DataRead(h) \in Handlers
      /\ DataRead(h).data = h.data /\ DataRead(h).lifecycle = h.lifecycle
  BY DEF DataRead, Handlers
<1>4. /\ Signaled(h, signal) \in Handlers
      /\ Signaled(h, signal).data = h.data
      /\ Signaled(h, signal).lifecycle = h.lifecycle
  <2>1. \A s \in {"Failed", "Started"} :
          /\ [h EXCEPT !.state = s] \in Handlers
          /\ [h EXCEPT !.state = s].data = h.data
          /\ [h EXCEPT !.state = s].lifecycle = h.lifecycle
    BY DEF Handlers, State
  <2> QED
    BY <2>1 DEF Signaled
<1> QED
  BY <1>1, <1>2, <1>3, <1>4

LEMMA WrittenFacts ==
  ASSUME NEW h \in Handlers, NEW signal \in Signal
  PROVE  /\ DataWritten(h, signal) \in Handlers
         /\ DataWritten(h, signal).data = h.data
         /\ DataWritten(h, signal).lifecycle = h.lifecycle
<1>1. /\ Signaled(h, signal) \in Handlers
      /\ Signaled(h, signal).data = h.data
      /\ Signaled(h, signal).lifecycle = h.lifecycle
  BY HandlerFacts
<1> QED
  BY <1>1 DEF DataWritten, Handlers

LEMMA InvInit == Init => Inv
<1> SUFFICES ASSUME Init PROVE Inv
  OBVIOUS
<1>1. TypeOK
  <2>1. handler \in Handlers
    BY DEF Init, NewHandler, Handlers, State
  <2>2. 0 \in 0..MaxTimers /\ 0 \in 0..MaxStops
    OBVIOUS
  <2> QED
    BY <2>1, <2>2 DEF Init, TypeOK, Sockets
<1> QED
  BY <1>1 DEF Init, Inv, Fresh, Deaf, DataOnce, ReconnectsAlone, NeverStranded, NewHandler

(* A failed connection or attempt.                                         *)
LEMMA ErrorKeepsInv ==
  ASSUME Inv, NEW pending \in Nat, pending < MaxTimers,
         OnSocketErrorOccured("unconnected", handler, pending),
         socket # "none" \/ timers > 0,
         stops = 0 => pending = 0,
         UNCHANGED <<running, envVars>>
  PROVE  Inv'
<1>1. /\ handler' \in Handlers /\ handler'.data = handler.data
      /\ handler'.lifecycle = handler.lifecycle
  BY HandlerFacts DEF OnSocketErrorOccured, Inv, TypeOK, Signal, ErrorSignal
<1>2. /\ socket' = "unconnected" /\ alive' = FALSE
      /\ timers' = IF Reconnect THEN pending + 1 ELSE pending
      /\ UNCHANGED <<running, peer, stops>>
  BY DEF OnSocketErrorOccured, envVars
<1>3. TypeOK'
  <2>1. timers' \in 0..MaxTimers
    BY <1>2
  <2> QED
    BY <1>1, <1>2, <2>1 DEF Inv, TypeOK, Sockets
<1>4. Fresh' /\ Deaf' /\ DataOnce'
  BY <1>1, <1>2 DEF Inv, TypeOK, Fresh, Deaf, DataOnce
<1>5. ReconnectsAlone' /\ NeverStranded'
  BY <1>2 DEF ReconnectsAlone, NeverStranded
<1> QED
  BY <1>3, <1>4, <1>5 DEF Inv

LEMMA InvStep == Inv /\ [Next]_vars => Inv'
<1> SUFFICES ASSUME Inv, [Next]_vars PROVE Inv'
  OBVIOUS
<1> USE DEF Inv
<1>0. /\ handler \in Handlers /\ timers \in Nat /\ timers <= MaxTimers /\ stops \in Nat
      /\ {"none", "started", "errorOccured"} \subseteq Signal
  BY DEF TypeOK, Signal, ErrorSignal
<1>1. CASE HandlerStart
  <2>1. /\ handler' \in Handlers /\ handler'.data = handler.data
    BY <1>0, <1>1, HandlerFacts DEF HandlerStart
  <2>2. TypeOK'
    <3>1. timers' \in 0..MaxTimers
      BY <1>0, <1>1 DEF HandlerStart
    <3> QED
      BY <1>1, <2>1, <3>1 DEF HandlerStart, TypeOK, Sockets, envVars
  <2>3. Fresh' /\ Deaf' /\ DataOnce'
    BY <1>1, <2>1 DEF HandlerStart, Fresh, Deaf, DataOnce, envVars
  <2>4. ReconnectsAlone' /\ NeverStranded'
    BY <1>0, <1>1 DEF HandlerStart, Fresh, ReconnectsAlone, NeverStranded, envVars
  <2> QED
    BY <2>2, <2>3, <2>4
<1>2. CASE HandlerStop
  <2>1. handler' \in Handlers /\ ~handler'.data /\ handler'.lifecycle = 0
    BY <1>0, <1>2, HandlerFacts DEF HandlerStop
  <2>2. stops' # 0 /\ stops' \in 0..MaxStops
    BY <1>0, <1>2 DEF HandlerStop
  <2>3. TypeOK'
    BY <1>2, <2>1, <2>2 DEF HandlerStop, TypeOK, Sockets
  <2> QED
    BY <1>2, <2>1, <2>2, <2>3 DEF HandlerStop, Fresh, Deaf, DataOnce, ReconnectsAlone, NeverStranded
<1>3. CASE WriteData
  <2>1. /\ handler' \in Handlers /\ handler'.data = handler.data
        /\ handler'.lifecycle = handler.lifecycle
    BY <1>0, <1>3, WrittenFacts DEF WriteData
  <2> QED
    BY <1>3, <2>1 DEF WriteData, TypeOK, Fresh, Deaf, DataOnce, ReconnectsAlone, NeverStranded,
                      ioVars, envVars
<1>4. CASE TimerFires
  <2>1. timers > 0 /\ timers - 1 \in Nat /\ timers - 1 < MaxTimers /\ (stops = 0 => timers - 1 = 0)
    BY <1>0, <1>4 DEF TimerFires, ReconnectsAlone
  <2>2. CASE OnSocketErrorOccured("unconnected", handler, timers - 1)
    BY <1>4, <2>1, <2>2, ErrorKeepsInv DEF TimerFires
  <2>3. CASE socket' = "connecting" /\ alive' = FALSE /\ handler' = handler /\ timers' = timers - 1
    <3>1. TypeOK'
      <4>1. timers' \in 0..MaxTimers
        BY <1>0, <2>1, <2>3
      <4> QED
        BY <1>0, <1>4, <2>3, <4>1 DEF TimerFires, TypeOK, Sockets, envVars
    <3> QED
      BY <1>0, <1>4, <2>1, <2>3, <3>1
      DEF TimerFires, Fresh, Deaf, DataOnce, ReconnectsAlone, NeverStranded, envVars
  <2> QED
    BY <1>4, <2>2, <2>3 DEF TimerFires, ConnectToRemote
<1>5. CASE OnSocketConnected
  BY <1>5 DEF OnSocketConnected, TypeOK, Sockets, Fresh, Deaf, DataOnce, ReconnectsAlone,
              NeverStranded, envVars
<1>6. CASE ConnectFails \/ ConnectionLost
  <2>1. stops = 0 => timers = 0
    BY <1>0, <1>6 DEF ConnectFails, ConnectionLost, ReconnectsAlone
  <2> QED
    BY <1>0, <1>6, <2>1, ErrorKeepsInv DEF ConnectFails, ConnectionLost
<1>7. CASE OnSocketReadyRead
  <2>1. /\ handler' \in Handlers /\ handler'.data = handler.data
        /\ handler'.lifecycle = handler.lifecycle
    BY <1>0, <1>7, HandlerFacts DEF OnSocketReadyRead
  <2> QED
    BY <1>7, <2>1 DEF OnSocketReadyRead, TypeOK, Fresh, Deaf, DataOnce, ReconnectsAlone,
                      NeverStranded, ioVars, envVars
<1>8. CASE PeerGoes \/ PeerComes
  <2>1. /\ UNCHANGED <<socket, timers, handler, running, stops>>
        /\ alive' \in BOOLEAN /\ peer' \in {"up", "down"}
    BY <1>8 DEF PeerGoes, PeerComes, ioVars, TypeOK
  <2> QED
    BY <2>1 DEF TypeOK, Fresh, Deaf, DataOnce, ReconnectsAlone, NeverStranded
<1>9. CASE UNCHANGED vars
  BY <1>9 DEF vars, ioVars, envVars, TypeOK, Fresh, Deaf, DataOnce, ReconnectsAlone, NeverStranded
<1> QED
  BY <1>1, <1>2, <1>3, <1>4, <1>5, <1>6, <1>7, <1>8, <1>9 DEF Next

LEMMA InvAlways == Spec => []Inv
<1> QED
  BY InvInit, InvStep, PTL DEF Spec

-----------------------------------------------------------------------------
(* Every variable of the IO and of its Handler has its type, and no more   *)
(* reconnects are ever pending than the bound allows.                      *)
THEOREM TcpTypeCorrect == Spec => []TypeOK
<1>1. Inv => TypeOK
  BY DEF Inv
<1> QED
  BY <1>1, InvAlways, PTL

(* Until the first stop(), connectToRemote never runs into a connection or *)
(* an attempt of another connectToRemote: at most one timer is pending.    *)
THEOREM OneReconnect == Spec => []ReconnectsAlone
<1>1. Inv => ReconnectsAlone
  BY DEF Inv
<1> QED
  BY <1>1, InvAlways, PTL

(* A running IO with the reconnect option is connected, connecting or has  *)
(* a reconnect pending, whatever failures, stops and timers came before.   *)
THEOREM AlwaysARetry == Spec => []NeverStranded
<1>1. Inv => NeverStranded
  BY DEF Inv
<1> QED
  BY <1>1, InvAlways, PTL

-----------------------------------------------------------------------------
(* The steps of the IO, seen from its Handler.                             *)
LEMMA SameHandler ==
  /\ Abstract!NewHandler = NewHandler
  /\ Abstract!ErrorSignal = ErrorSignal
  /\ \A h : /\ Abstract!Connected(h) = Connected(h)
            /\ Abstract!Disconnected(h) = Disconnected(h)
            /\ Abstract!DataRead(h) = DataRead(h)
  /\ \A h, signal : /\ Abstract!Signaled(h, signal) = Signaled(h, signal)
                    /\ Abstract!DataWritten(h, signal) = DataWritten(h, signal)
  BY DEF Abstract!NewHandler, NewHandler, Abstract!ErrorSignal, ErrorSignal,
         Abstract!Connected, Connected, Abstract!Disconnected, Disconnected,
         Abstract!DataRead, DataRead, Abstract!Signaled, Signaled,
         Abstract!DataWritten, DataWritten

LEMMA ContractInit == Init => Abstract!Init
  BY SameHandler DEF Init, Abstract!Init

LEMMA ContractError ==
  ASSUME Inv, handler' = Signaled(handler, "errorOccured"), UNCHANGED running
  PROVE  Abstract!Error \/ UNCHANGED Abstract!vars
<1>1. CASE running
  BY <1>1, SameHandler DEF Abstract!Error, TcpSocketContract, StdOutContract
<1>2. CASE ~running
  <2>1. handler' = handler
    BY <1>2 DEF Inv, Deaf, Signaled
  <2> QED
    BY <2>1 DEF Abstract!vars
<1> QED
  BY <1>1, <1>2

LEMMA ContractStep == Inv /\ [Next]_vars => [Abstract!Next]_(Abstract!vars)
<1> SUFFICES ASSUME Inv, [Next]_vars PROVE Abstract!Next \/ UNCHANGED Abstract!vars
  OBVIOUS
<1>1. CASE HandlerStart
  <2>1. "started" \in TcpSocketContract.start /\ "started" \notin ErrorSignal
    BY DEF TcpSocketContract, StdOutContract, ErrorSignal
  <2>2. Abstract!Start
    BY <1>1, <2>1, SameHandler DEF HandlerStart, Abstract!Start
  <2> QED
    BY <2>2 DEF Abstract!Next
<1>2. CASE HandlerStop
  <2>1. Abstract!Stop
    BY <1>2, SameHandler DEF HandlerStop, Abstract!Stop
  <2> QED
    BY <2>1 DEF Abstract!Next
<1>3. CASE WriteData
  <2>1. TcpSocketContract.writeFails
    BY DEF TcpSocketContract, StdOutContract
  <2>2. Abstract!WriteReturns
    BY <1>3, <2>1, SameHandler DEF WriteData, Abstract!WriteReturns
  <2> QED
    BY <2>2 DEF Abstract!Next
<1>4. CASE TimerFires \/ ConnectFails \/ ConnectionLost
  <2>1. /\ handler' = handler \/ handler' = Signaled(handler, "errorOccured")
        /\ UNCHANGED running
    BY <1>4 DEF TimerFires, ConnectFails, ConnectionLost, ConnectToRemote, OnSocketErrorOccured
  <2>2. CASE handler' = handler
    BY <2>1, <2>2 DEF Abstract!vars
  <2> QED
    BY <2>1, <2>2, ContractError DEF Abstract!Next
<1>5. CASE OnSocketReadyRead
  <2>1. running /\ handler.data /\ handler' = DataRead(handler) /\ UNCHANGED running
    BY <1>5 DEF OnSocketReadyRead, Inv, Fresh, DataOnce
  <2>2. "open" \in TcpSocketContract.emits
    BY DEF TcpSocketContract, StdOutContract
  <2>3. Signaled(handler, "none") = handler
    BY DEF Signaled
  <2>4. Abstract!NewData
    BY <2>1, <2>2, <2>3, SameHandler DEF Abstract!NewData
  <2> QED
    BY <2>4 DEF Abstract!Next
<1>6. CASE OnSocketConnected \/ PeerGoes \/ PeerComes \/ UNCHANGED vars
  BY <1>6 DEF OnSocketConnected, PeerGoes, PeerComes, vars, ioVars, Abstract!vars
<1> QED
  BY <1>1, <1>2, <1>3, <1>4, <1>5, <1>6 DEF Next

(* Whatever the peer, the timers and the engine do, the IO keeps the       *)
(* contract that Engine.tla assumes of a TCP client: started is the only   *)
(* lifecycle signal of start(), and its Handler changes in no other way.   *)
THEOREM TcpImplementsContract == Spec => ContractKept
<1> QED
  BY ContractInit, ContractStep, InvAlways, PTL DEF Spec, ContractKept, Abstract!Spec

=============================================================================
