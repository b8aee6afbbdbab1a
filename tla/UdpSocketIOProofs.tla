-------------------------- MODULE UdpSocketIOProofs -------------------------
(***************************************************************************)
(* Theorems about UdpSocketIO.tla, for all lists of destinations, whether  *)
(* or not they are groups, with and without echo.                          *)
(***************************************************************************)
EXTENDS UdpSocketIO, SequenceTheorems, TLAPS

Bounds == {MaxReads, MaxDestinations} \subseteq Nat

Types ==
  /\ running \in BOOLEAN /\ wired \in BOOLEAN
  /\ handler \in Handlers

(* stop() undoes also what a start() that gave up half way had done; the   *)
(* Handler hears of a running IO and of no other.                          *)
Idle  == ~running => (socket = "none" /\ joined = {} /\ ~wired)
Hears == running <=> handler.lifecycle > 0

(* The signals are connected last, after every group has been joined; and  *)
(* a start() that did not get there told its Handler so.                   *)
WiredIsMember ==
  wired => /\ socket = "bound"
           /\ IsMulticastConfig => joined = {remoteAddresses[k] : k \in Destinations}
StartedIsWired == (running /\ Accepts(handler)) => wired

Inv == Types /\ Idle /\ Hears /\ WiredIsMember /\ StartedIsWired /\ RefusedIsNoFailure

-----------------------------------------------------------------------------
(* What the operators of Handler.tla do to a handler record.               *)
LEMMA NewHandlerFacts ==
  /\ NewHandler \in Handlers
  /\ NewHandler.data /\ NewHandler.lifecycle = 0 /\ ~Accepts(NewHandler)
  BY DEF NewHandler, Handlers, State, Accepts

LEMMA ConnectedFacts ==
  ASSUME NEW h \in Handlers
  PROVE  /\ Connected(h) \in Handlers
         /\ Connected(h).data = h.data
         /\ Connected(h).lifecycle > 0
         /\ Connected(h).read = h.read /\ Connected(h).written = h.written
  BY DEF Connected, Handlers

LEMMA DisconnectedFacts ==
  ASSUME NEW h \in Handlers
  PROVE  /\ Disconnected(h) \in Handlers
         /\ ~Disconnected(h).data /\ Disconnected(h).lifecycle = 0
         /\ Disconnected(h).read = h.read /\ Disconnected(h).written = h.written
  BY DEF Disconnected, Handlers

LEMMA DataReadFacts ==
  ASSUME NEW h \in Handlers
  PROVE  /\ DataRead(h) \in Handlers
         /\ DataRead(h).data = h.data /\ DataRead(h).lifecycle = h.lifecycle
         /\ DataRead(h).state = h.state
         /\ DataRead(h).read = h.read + 1 /\ DataRead(h).written = h.written
  BY DEF DataRead, Handlers

(* A lifecycle signal changes the state at most.                           *)
LEMMA SignaledFacts ==
  ASSUME NEW h \in Handlers, NEW signal
  PROVE  /\ Signaled(h, signal) \in Handlers
         /\ Signaled(h, signal).data = h.data
         /\ Signaled(h, signal).lifecycle = h.lifecycle
         /\ Signaled(h, signal).read = h.read /\ Signaled(h, signal).written = h.written
<1>1. \A s \in {"Failed", "Started"} :
        /\ [h EXCEPT !.state = s] \in Handlers
        /\ [h EXCEPT !.state = s].data = h.data
        /\ [h EXCEPT !.state = s].lifecycle = h.lifecycle
        /\ [h EXCEPT !.state = s].read = h.read /\ [h EXCEPT !.state = s].written = h.written
  BY DEF Handlers, State
<1> QED
  BY <1>1 DEF Signaled

(* And it does so only where the signal is connected.                      *)
LEMMA SignaledState ==
  ASSUME NEW h \in Handlers
  PROVE  /\ Signaled(h, "none") = h
         /\ h.lifecycle = 0 => \A signal : Signaled(h, signal) = h
         /\ h.lifecycle > 0 =>
              /\ Signaled(h, "started").state = "Started"
              /\ \A signal \in ErrorSignal : Signaled(h, signal).state = "Failed"
<1>1. \A s \in State : [h EXCEPT !.state = s].state = s
  BY DEF Handlers
<1> QED
  BY <1>1 DEF Signaled, ErrorSignal, Handlers, State

LEMMA DataWrittenFacts ==
  ASSUME NEW h \in Handlers, NEW signal
  PROVE  /\ DataWritten(h, signal) \in Handlers
         /\ DataWritten(h, signal).data = h.data
         /\ DataWritten(h, signal).lifecycle = h.lifecycle
         /\ DataWritten(h, signal).state = Signaled(h, signal).state
         /\ DataWritten(h, signal).read = h.read
         /\ DataWritten(h, signal).written = h.written + 1
<1> DEFINE g == Signaled(h, signal)
<1>1. /\ g \in Handlers /\ g.data = h.data /\ g.lifecycle = h.lifecycle
      /\ g.read = h.read /\ g.written = h.written
  BY SignaledFacts
<1>2. DataWritten(h, signal) = [g EXCEPT !.written = @ + 1]
  BY DEF DataWritten
<1> HIDE DEF g
<1>3. /\ [g EXCEPT !.written = @ + 1] \in Handlers
      /\ [g EXCEPT !.written = @ + 1].data = g.data
      /\ [g EXCEPT !.written = @ + 1].lifecycle = g.lifecycle
      /\ [g EXCEPT !.written = @ + 1].state = g.state
      /\ [g EXCEPT !.written = @ + 1].read = g.read
      /\ [g EXCEPT !.written = @ + 1].written = g.written + 1
  BY <1>1 DEF Handlers
<1> QED
  BY <1>1, <1>2, <1>3 DEF g

-----------------------------------------------------------------------------
LEMMA InvInit ==
  ASSUME Init
  PROVE  Inv
<1>1. /\ handler \in Handlers /\ handler.lifecycle = 0
      /\ running = FALSE /\ wired = FALSE
  BY NewHandlerFacts DEF Init
<1>2. Hears
  BY <1>1 DEF Hears
<1>3. Idle
  BY <1>1 DEF Init, Idle
<1> QED
  BY <1>1, <1>2, <1>3 DEF Inv, Types, WiredIsMember, StartedIsWired, RefusedIsNoFailure

(* A loop over the groups that reaches its end has joined them all.        *)
LEMMA JoinsAll ==
  ASSUME BindMulticast, wired'
  PROVE  joined' = {remoteAddresses[k] : k \in Destinations}
<1> DEFINE tried(outcome) == {k \in Destinations : \A j \in 1..(k - 1) : outcome[j] # "failed"}
<1>1. PICK outcome \in [Destinations -> {"joined", "failed", "skipped"}] :
        /\ \A k \in Destinations : outcome[k] \in JoinOutcome(remoteAddresses[k])
        /\ joined' = {remoteAddresses[k] : k \in {j \in tried(outcome) : outcome[j] = "joined"}}
        /\ wired' = (tried(outcome) = Destinations /\ \A k \in tried(outcome) : outcome[k] # "failed")
  BY DEF BindMulticast
<1> HIDE DEF tried
<1>2. tried(outcome) = Destinations /\ \A k \in Destinations : outcome[k] # "failed"
  BY <1>1
<1>3. \A k \in Destinations : outcome[k] = "joined"
  BY <1>1, <1>2 DEF JoinOutcome
<1>4. {j \in tried(outcome) : outcome[j] = "joined"} = Destinations
  BY <1>2, <1>3
<1> QED
  BY <1>1, <1>4

LEMMA InvStart ==
  ASSUME Inv, HandlerStart
  PROVE  Inv'
<1> DEFINE h == Connected(handler)
<1>1. h \in Handlers /\ h.lifecycle > 0
  BY ConnectedFacts DEF Inv, Types
<1>2. /\ handler' \in Handlers /\ handler'.lifecycle > 0
      /\ Accepts(handler') <=> wired'
  <2>1. CASE wired'
    <3>1. handler' = Signaled(h, "started")
      BY <2>1 DEF HandlerStart
    <3> HIDE DEF h
    <3>2. handler' \in Handlers /\ handler'.lifecycle > 0 /\ handler'.state = "Started"
      BY <1>1, <3>1, SignaledFacts, SignaledState
    <3> QED
      BY <2>1, <3>2 DEF Accepts
  <2>2. CASE ~wired'
    <3>1. handler' = Signaled(h, "startupErrorOccured") /\ "startupErrorOccured" \in ErrorSignal
      BY <2>2 DEF HandlerStart, ErrorSignal
    <3> HIDE DEF h
    <3>2. handler' \in Handlers /\ handler'.lifecycle > 0 /\ handler'.state = "Failed"
      BY <1>1, <3>1, SignaledFacts, SignaledState
    <3> QED
      BY <2>2, <3>2 DEF Accepts
  <2> QED
    BY <2>1, <2>2
<1>3. running' = TRUE /\ UNCHANGED remoteAddresses
  BY DEF HandlerStart, options
<1>4. wired' \in BOOLEAN
  BY DEF HandlerStart, BindMulticast
<1>5. WiredIsMember'
  <2> SUFFICES ASSUME wired'
               PROVE  /\ socket' = "bound"
                      /\ IsMulticastConfig => joined' = {remoteAddresses[k] : k \in Destinations}
    BY <1>3 DEF WiredIsMember, IsMulticastConfig, Destinations
  <2>1. socket' = "bound" /\ (IsMulticastConfig => BindMulticast)
    BY DEF HandlerStart
  <2> QED
    BY <2>1, JoinsAll
<1>6. Types' /\ Hears'
  BY <1>2, <1>3, <1>4 DEF Types, Hears
<1> QED
  BY <1>2, <1>3, <1>5, <1>6 DEF Inv, Idle, StartedIsWired, RefusedIsNoFailure

LEMMA InvStop ==
  ASSUME Inv, HandlerStop
  PROVE  Inv'
<1>1. handler' \in Handlers /\ handler'.lifecycle = 0
  BY DisconnectedFacts DEF HandlerStop, Inv, Types
<1>2. running' = FALSE /\ socket' = "none" /\ joined' = {} /\ wired' = FALSE
  BY DEF HandlerStop
<1>3. Types'
  BY <1>1, <1>2 DEF Types
<1>4. Hears'
  BY <1>1, <1>2 DEF Hears
<1> QED
  BY <1>2, <1>3, <1>4 DEF Inv, Idle, WiredIsMember, StartedIsWired, RefusedIsNoFailure

(* What a socket error does to the Handler: nothing, unless it is of the   *)
(* kind that is forwarded.                                                 *)
LEMMA SocketErrorFacts ==
  ASSUME NEW h \in Handlers, NEW fault \in Fault
  PROVE  /\ SocketError(h, fault) \in Handlers
         /\ SocketError(h, fault).lifecycle = h.lifecycle
         /\ SocketError(h, fault).data = h.data
         /\ fault # "other" => SocketError(h, fault) = h
         /\ Accepts(SocketError(h, fault)) => Accepts(h)
<1>1. /\ SocketError(h, fault) \in Handlers
      /\ SocketError(h, fault).lifecycle = h.lifecycle
      /\ SocketError(h, fault).data = h.data
  BY SignaledFacts DEF SocketError
<1>2. CASE fault # "other"
  BY <1>1, <1>2, SignaledState DEF SocketError
<1>3. CASE fault = "other"
  <2>1. SocketError(h, fault) = Signaled(h, "errorOccured") /\ "errorOccured" \in ErrorSignal
    BY <1>3 DEF SocketError, ErrorSignal
  <2>2. CASE h.lifecycle = 0
    BY <1>1, <1>3, <2>1, <2>2, SignaledState
  <2>3. CASE h.lifecycle # 0
    <3>1. h.lifecycle > 0
      BY <2>3 DEF Handlers
    <3>2. SocketError(h, fault).state = "Failed"
      BY <2>1, <3>1, SignaledState
    <3> QED
      BY <1>1, <1>3, <3>2 DEF Accepts
  <2> QED
    BY <2>2, <2>3
<1> QED
  BY <1>2, <1>3

(* The steps of a running IO between start() and stop().                   *)
LEMMA InvRuns ==
  ASSUME Inv, UNCHANGED <<remoteAddresses, socket, joined, wired, running>>,
         handler' \in Handlers, handler'.lifecycle = handler.lifecycle,
         Accepts(handler') => Accepts(handler),
         "other" \notin faults' => ("other" \notin faults /\ (Accepts(handler) => Accepts(handler')))
  PROVE  Inv'
  BY DEF Inv, Types, Idle, Hears, WiredIsMember, StartedIsWired, RefusedIsNoFailure,
         IsMulticastConfig, Destinations

LEMMA InvSocketError ==
  ASSUME Inv, OnSocketErrorOccurred
  PROVE  Inv'
<1>1. PICK fault \in Fault \ {"none"} :
        handler' = SocketError(handler, fault) /\ faults' = faults \cup {fault}
  BY DEF OnSocketErrorOccurred
<1>2. UNCHANGED <<remoteAddresses, socket, joined, wired, running>>
  BY DEF OnSocketErrorOccurred, options
<1> QED
  BY <1>1, <1>2, SocketErrorFacts, InvRuns DEF Inv, Types

LEMMA InvReadyRead ==
  ASSUME Inv, OnReadyRead
  PROVE  Inv'
<1>1. PICK fault \in Fault :
        /\ handler' = IF SocketError(handler, fault).data THEN DataRead(SocketError(handler, fault))
                                                          ELSE SocketError(handler, fault)
        /\ faults' = faults \cup ({fault} \ {"none"})
  BY DEF OnReadyRead, Fault
<1>2. UNCHANGED <<remoteAddresses, socket, joined, wired, running>>
  BY DEF OnReadyRead, options
<1> DEFINE h == SocketError(handler, fault)
<1>3. /\ h \in Handlers /\ h.lifecycle = handler.lifecycle
      /\ fault # "other" => h = handler
      /\ Accepts(h) => Accepts(handler)
  BY SocketErrorFacts DEF Inv, Types
<1> HIDE DEF h
<1>4. handler' = IF h.data THEN DataRead(h) ELSE h
  BY <1>1 DEF h
<1>5. /\ handler' \in Handlers /\ handler'.lifecycle = h.lifecycle
      /\ Accepts(handler') <=> Accepts(h)
  BY <1>3, <1>4, DataReadFacts DEF Accepts
<1>6. "other" \notin faults' => ("other" \notin faults /\ fault # "other")
  BY <1>1
<1> QED
  BY <1>2, <1>3, <1>5, <1>6, InvRuns

LEMMA WrittenIs ==
  ASSUME Inv, WriteData
  PROVE  \E signal \in {"none", "errorOccured"} :
           /\ handler' = DataWritten(handler, signal)
           /\ "other" \notin faults' => ("other" \notin faults /\ signal = "none")
<1>1. PICK fault \in [Targets -> Fault] :
        LET seen  == {fault[k] : k \in Targets}
            worst == IF "other" \in seen THEN "other" ELSE "none"
        IN  /\ handler' = [SocketError(handler, worst) EXCEPT !.written = @ + 1]
            /\ faults' = faults \cup (seen \ {"none"})
  BY DEF WriteData
<1> DEFINE seen  == {fault[k] : k \in Targets}
           worst == IF "other" \in seen THEN "other" ELSE "none"
<1>2. /\ handler' = [SocketError(handler, worst) EXCEPT !.written = @ + 1]
      /\ faults' = faults \cup (seen \ {"none"})
  BY <1>1
<1> HIDE DEF seen
<1>3. CASE "other" \in seen
  <2>1. handler' = DataWritten(handler, "errorOccured")
    BY <1>2, <1>3 DEF SocketError, DataWritten
  <2> QED
    BY <1>2, <1>3, <2>1
<1>4. CASE "other" \notin seen
  <2>1. handler' = DataWritten(handler, "none")
    BY <1>2, <1>4 DEF SocketError, DataWritten
  <2> QED
    BY <1>2, <2>1
<1> QED
  BY <1>3, <1>4

LEMMA InvWriteData ==
  ASSUME Inv, WriteData
  PROVE  Inv'
<1>1. PICK signal \in {"none", "errorOccured"} :
        /\ handler' = DataWritten(handler, signal)
        /\ "other" \notin faults' => ("other" \notin faults /\ signal = "none")
  BY WrittenIs
<1>2. UNCHANGED <<remoteAddresses, socket, joined, wired, running>> /\ Accepts(handler)
  BY DEF WriteData, options
<1>3. handler' \in Handlers /\ handler'.lifecycle = handler.lifecycle
  BY <1>1, DataWrittenFacts DEF Inv, Types
<1>4. signal = "none" => (Accepts(handler) => Accepts(handler'))
  BY <1>1, DataWrittenFacts, SignaledState DEF Inv, Types, Accepts
<1> QED
  BY <1>1, <1>2, <1>3, <1>4, InvRuns

LEMMA InvStep ==
  ASSUME Inv, [Next]_vars
  PROVE  Inv'
<1>1. CASE HandlerStart
  BY <1>1, InvStart
<1>2. CASE HandlerStop
  BY <1>2, InvStop
<1>3. CASE WriteData
  BY <1>3, InvWriteData
<1>4. CASE OnSocketErrorOccurred
  BY <1>4, InvSocketError
<1>5. CASE OnReadyRead
  BY <1>5, InvReadyRead
<1>6. CASE DatagramArrives \/ UNCHANGED vars
  <2>1. UNCHANGED <<remoteAddresses, socket, joined, wired, running, handler, faults>>
    BY <1>6 DEF DatagramArrives, vars, options, udpState
  <2> QED
    BY <2>1, InvRuns DEF Inv, Types
<1> QED
  BY <1>1, <1>2, <1>3, <1>4, <1>5, <1>6 DEF Next

LEMMA InvAlways == Spec => []Inv
<1>1. Init => Inv
  BY InvInit
<1>2. Inv /\ [Next]_vars => Inv'
  BY InvStep
<1> QED
  BY <1>1, <1>2, PTL DEF Spec

-----------------------------------------------------------------------------
(* The types that the invariant above does not need.                       *)
LEMMA TypeInit ==
  ASSUME Bounds, Init
  PROVE  TypeOK
<1>1. PICK m \in 0..MaxDestinations : remoteAddresses \in [1..m -> Address]
  BY DEF Init, BoundedSeq, SeqOf
<1>2. remoteAddresses \in Seq(Address)
  BY <1>1, SeqDef DEF Bounds
<1>3. /\ echo \in BOOLEAN /\ iface \in BOOLEAN /\ wired \in BOOLEAN /\ running \in BOOLEAN
      /\ socket \in {"none", "unbound", "bound"}
      /\ joined \subseteq Address /\ faults \subseteq Fault
  BY DEF Init
<1>4. queue \in 0..MaxReads /\ handler \in Handlers
  BY NewHandlerFacts DEF Init, Bounds
<1> QED
  BY <1>2, <1>3, <1>4 DEF TypeOK

LEMMA TypeStep ==
  ASSUME Bounds, TypeOK, Inv', [Next]_vars
  PROVE  TypeOK'
<1>1. handler' \in Handlers /\ running' \in BOOLEAN /\ wired' \in BOOLEAN
  BY DEF Inv, Types
<1>2. MaxReads \in Nat /\ queue \in 0..MaxReads /\ joined \subseteq Address
  BY DEF Bounds, TypeOK
<1>3. CASE HandlerStart
  <2>1. BindMulticast => joined' \subseteq Address
    BY DEF BindMulticast, Destinations, TypeOK
  <2>2. joined' \subseteq Address /\ queue' = 0 /\ faults' = {} /\ socket' \in {"unbound", "bound"}
    BY <1>3, <2>1 DEF HandlerStart
  <2> QED
    BY <1>1, <1>2, <1>3, <2>2 DEF HandlerStart, options, TypeOK
<1>4. CASE HandlerStop
  BY <1>1, <1>2, <1>4 DEF HandlerStop, options, TypeOK
<1>5. CASE WriteData
  <2>1. faults' \subseteq Fault
    BY <1>5 DEF WriteData, TypeOK
  <2> QED
    BY <1>1, <1>5, <2>1 DEF WriteData, options, TypeOK
<1>6. CASE OnSocketErrorOccurred
  BY <1>1, <1>6 DEF OnSocketErrorOccurred, options, TypeOK
<1>7. CASE OnReadyRead
  <2>1. queue' \in 0..MaxReads
    BY <1>2, <1>7 DEF OnReadyRead
  <2>2. faults' \subseteq Fault
    BY <1>7 DEF OnReadyRead, TypeOK, Fault
  <2> QED
    BY <1>1, <1>7, <2>1, <2>2 DEF OnReadyRead, options, TypeOK
<1>8. CASE DatagramArrives
  <2>1. handler.read \in Nat
    BY DEF TypeOK, Handlers
  <2>2. queue' \in 0..MaxReads
    BY <1>2, <1>8, <2>1 DEF DatagramArrives
  <2> QED
    BY <1>8, <2>2 DEF DatagramArrives, options, TypeOK
<1>9. CASE UNCHANGED vars
  BY <1>9 DEF vars, options, udpState, TypeOK
<1> QED
  BY <1>3, <1>4, <1>5, <1>6, <1>7, <1>8, <1>9 DEF Next

(* Every variable has its type, and no more datagrams wait unread than the *)
(* model lets arrive.                                                      *)
THEOREM UdpTypeCorrect ==
  ASSUME Bounds
  PROVE  Spec => []TypeOK
<1>1. Init => TypeOK
  BY TypeInit
<1>2. TypeOK /\ Inv' /\ [Next]_vars => TypeOK'
  BY TypeStep
<1> QED
  BY <1>1, <1>2, InvAlways, PTL DEF Spec

-----------------------------------------------------------------------------
(* A UDP IO that reports started has joined every group it was given, and  *)
(* one that is stopped holds neither its port nor a membership, however    *)
(* far its start() had got.                                                *)
THEOREM StartedMeansMember == Spec => []StartedIsMember
<1>1. Inv => StartedIsMember
  BY DEF Inv, Idle, StartedIsWired, WiredIsMember, StartedIsMember
<1> QED
  BY <1>1, InvAlways, PTL

(* Datagrams that nobody listens to, in whatever way the IO hears of it,   *)
(* leave the Handler Started.                                              *)
THEOREM RefusalIsNoFailure == Spec => []RefusedIsNoFailure
<1>1. Inv => RefusedIsNoFailure
  BY DEF Inv
<1> QED
  BY <1>1, InvAlways, PTL

-----------------------------------------------------------------------------
(* The steps of the IO, seen from its Handler.                             *)
LEMMA SameHandler ==
  /\ Abstract!NewHandler = NewHandler
  /\ Abstract!ErrorSignal = ErrorSignal
  /\ \A h : /\ Abstract!Connected(h) = Connected(h)
            /\ Abstract!Disconnected(h) = Disconnected(h)
            /\ Abstract!DataRead(h) = DataRead(h)
  /\ \A h, signal : /\ Abstract!Signaled(h, signal) = Signaled(h, signal)
                    /\ Abstract!DataWritten(h, signal) = DataWritten(h, signal)
  BY DEF Abstract!NewHandler, NewHandler, Abstract!ErrorSignal, ErrorSignal,
         Abstract!Connected, Connected, Abstract!Disconnected, Disconnected,
         Abstract!DataRead, DataRead, Abstract!Signaled, Signaled,
         Abstract!DataWritten, DataWritten

LEMMA ContractOfUdp ==
  /\ UdpSocketContract.start = {"started", "startupErrorOccured"}
  /\ UdpSocketContract.emits = {"open"} /\ UdpSocketContract.errors = {"open"}
  /\ UdpSocketContract.writeFails
  /\ "started" \notin ErrorSignal /\ "startupErrorOccured" \in ErrorSignal
  BY DEF UdpSocketContract, StdOutContract, ErrorSignal

LEMMA ContractInit == Init => Abstract!Init
  BY SameHandler DEF Init, Abstract!Init, Condition

LEMMA ContractStep ==
  ASSUME Inv, [Next]_vars
  PROVE  Abstract!Next \/ UNCHANGED Abstract!vars
<1>1. CASE HandlerStart
  <2>1. Abstract!Start
    BY <1>1, SameHandler, ContractOfUdp DEF HandlerStart, Abstract!Start, Condition
  <2> QED
    BY <2>1 DEF Abstract!Next
<1>2. CASE HandlerStop
  <2>1. Abstract!Stop
    BY <1>2, SameHandler DEF HandlerStop, Abstract!Stop, Condition
  <2> QED
    BY <2>1 DEF Abstract!Next
<1>3. CASE WriteData
  <2>1. Abstract!WriteReturns
    BY <1>3, WrittenIs, SameHandler, ContractOfUdp DEF WriteData, Abstract!WriteReturns, Condition
  <2> QED
    BY <2>1 DEF Abstract!Next
<1>4. CASE OnSocketErrorOccurred \/ OnReadyRead
  <2>1. running /\ wired /\ UNCHANGED <<running, wired>>
    BY <1>4 DEF OnSocketErrorOccurred, OnReadyRead, Inv, Types, Idle
  <2>2. Signaled(handler, "none") = handler
    BY DEF Signaled
  <2>3. PICK signal \in {"none", "errorOccured"} :
          \/ handler' = Signaled(handler, signal)
          \/ Signaled(handler, signal).data /\ handler' = DataRead(Signaled(handler, signal))
    BY <1>4 DEF OnSocketErrorOccurred, OnReadyRead, SocketError
  <2>4. CASE handler' = Signaled(handler, signal)
    <3>1. CASE signal = "none"
      BY <2>1, <2>2, <2>4, <3>1 DEF Abstract!vars, Condition
    <3>2. CASE signal = "errorOccured"
      <4>1. Abstract!Error
        BY <2>1, <2>4, <3>2, SameHandler, ContractOfUdp DEF Abstract!Error, Condition
      <4> QED
        BY <4>1 DEF Abstract!Next
    <3> QED
      BY <3>1, <3>2
  <2>5. CASE Signaled(handler, signal).data /\ handler' = DataRead(Signaled(handler, signal))
    <3>1. handler.data
      BY <2>5, SignaledFacts DEF Inv, Types
    <3>2. Abstract!NewData
      BY <2>1, <2>5, <3>1, SameHandler, ContractOfUdp DEF Abstract!NewData, Condition
    <3> QED
      BY <3>2 DEF Abstract!Next
  <2> QED
    BY <2>3, <2>4, <2>5
<1>5. CASE DatagramArrives \/ UNCHANGED vars
  BY <1>5 DEF DatagramArrives, vars, udpState, Abstract!vars, Condition
<1> QED
  BY <1>1, <1>2, <1>3, <1>4, <1>5 DEF Next

(* Whatever the network and the engine do, the IO keeps the contract that  *)
(* Engine.tla assumes of a UDP socket.                                     *)
THEOREM UdpImplementsContract == Spec => ContractKept
<1>1. Inv /\ [Next]_vars => [Abstract!Next]_(Abstract!vars)
  BY ContractStep
<1> QED
  BY <1>1, ContractInit, InvAlways, PTL DEF Spec, ContractKept, Abstract!Spec
=============================================================================
