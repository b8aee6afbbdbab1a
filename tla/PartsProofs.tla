---------------------------- MODULE PartsProofs -----------------------------
(***************************************************************************)
(* Theorems about Parts.tla, for every value of its constants that the     *)
(* assumptions there allow: each invariant of the run parts holds in every *)
(* behaviour, and each part keeps its contract.  What *Proofs.tla show of  *)
(* a component is carried over; the components that have no such module    *)
(* are proved here.                                                        *)
(***************************************************************************)
EXTENDS Parts, SequenceTheorems, FiniteSetTheorems, TLAPS

ServerProofs    == INSTANCE TcpServerIOProofs
UdpProofs       == INSTANCE UdpSocketIOProofs
WebsocketProofs == INSTANCE WebSocketIOProofs

-----------------------------------------------------------------------------
(* A component and the module of its proofs are two instances of the same  *)
(* definitions.                                                            *)
LEMMA SameTcpserver ==
  /\ Tcpserver!Init <=> ServerProofs!Init
  /\ Tcpserver!Next <=> ServerProofs!Next
  /\ Tcpserver!vars = ServerProofs!vars
  BY DEF Tcpserver!vars, ServerProofs!vars, Tcpserver!Init, ServerProofs!Init, Tcpserver!Next,
         ServerProofs!Next, Tcpserver!HandlerStart, ServerProofs!HandlerStart,
         Tcpserver!HandlerStop, ServerProofs!HandlerStop, Tcpserver!WriteData,
         ServerProofs!WriteData, Tcpserver!OnServerAcceptError,
         ServerProofs!OnServerAcceptError, Tcpserver!OnServerNewConnection,
         ServerProofs!OnServerNewConnection, Tcpserver!OnSocketDisconnected,
         ServerProofs!OnSocketDisconnected, Tcpserver!OnSocketReadyRead,
         ServerProofs!OnSocketReadyRead, Tcpserver!Accepted, ServerProofs!Accepted,
         Tcpserver!loop, ServerProofs!loop, Tcpserver!NoWalk, ServerProofs!NoWalk,
         Tcpserver!Erased, ServerProofs!Erased, Tcpserver!SocketDisconnected,
         ServerProofs!SocketDisconnected, Tcpserver!Left, ServerProofs!Left,
         Tcpserver!StopAborts, ServerProofs!StopAborts, Tcpserver!StopDeletes,
         ServerProofs!StopDeletes, Tcpserver!StopReturns, ServerProofs!StopReturns,
         Tcpserver!DeferredDelete, ServerProofs!DeferredDelete,
         Tcpserver!RemoveOne, ServerProofs!RemoveOne, Tcpserver!WriteSockets,
         ServerProofs!WriteSockets, Tcpserver!NewHandler, ServerProofs!NewHandler,
         Tcpserver!Connected, ServerProofs!Connected, Tcpserver!Signaled,
         ServerProofs!Signaled, Tcpserver!Disconnected, ServerProofs!Disconnected,
         Tcpserver!ErrorSignal, ServerProofs!ErrorSignal, Tcpserver!DataRead,
         ServerProofs!DataRead, Tcpserver!DataWritten, ServerProofs!DataWritten,
         Tcpserver!Accepts, ServerProofs!Accepts

LEMMA SameClaimsOfTcpserver ==
  /\ Tcpserver!TypeOK <=> ServerProofs!TypeOK
  /\ Tcpserver!SocketsLive <=> ServerProofs!SocketsLive
  /\ Tcpserver!LimitHeld <=> ServerProofs!LimitHeld
  BY DEF Tcpserver!TypeOK, ServerProofs!TypeOK, Tcpserver!SocketsLive,
         ServerProofs!SocketsLive, Tcpserver!LimitHeld, ServerProofs!LimitHeld,
         Tcpserver!Accepted, ServerProofs!Accepted, Tcpserver!Left, ServerProofs!Left,
         Tcpserver!Cardinality,
         ServerProofs!Cardinality, Tcpserver!Handlers, ServerProofs!Handlers, Tcpserver!State,
         ServerProofs!State

LEMMA SameContractOfTcpserver ==
  /\ Tcpserver!Abstract!Init <=> ServerProofs!Abstract!Init
  /\ [Tcpserver!Abstract!Next]_(Tcpserver!Abstract!vars)
       <=> [ServerProofs!Abstract!Next]_(ServerProofs!Abstract!vars)
  BY DEF Tcpserver!Abstract!Init, ServerProofs!Abstract!Init, Tcpserver!Abstract!Next,
         ServerProofs!Abstract!Next, Tcpserver!Abstract!vars, ServerProofs!Abstract!vars,
         Tcpserver!Abstract!Start, ServerProofs!Abstract!Start, Tcpserver!Abstract!Stop,
         ServerProofs!Abstract!Stop, Tcpserver!Abstract!NewData, ServerProofs!Abstract!NewData,
         Tcpserver!Abstract!Error, ServerProofs!Abstract!Error,
         Tcpserver!Abstract!WriteReturns, ServerProofs!Abstract!WriteReturns,
         Tcpserver!Abstract!NewHandler, ServerProofs!Abstract!NewHandler,
         Tcpserver!Abstract!Connected, ServerProofs!Abstract!Connected,
         Tcpserver!Abstract!Signaled, ServerProofs!Abstract!Signaled,
         Tcpserver!Abstract!Disconnected, ServerProofs!Abstract!Disconnected,
         Tcpserver!Abstract!DataRead, ServerProofs!Abstract!DataRead,
         Tcpserver!Abstract!DataWritten, ServerProofs!Abstract!DataWritten,
         Tcpserver!Abstract!ErrorSignal, ServerProofs!Abstract!ErrorSignal,
         Tcpserver!Stopped, ServerProofs!Stopped, Tcpserver!Disconnected, ServerProofs!Disconnected,
         Tcpserver!TcpServerContract, ServerProofs!TcpServerContract, Tcpserver!StdOutContract,
         ServerProofs!StdOutContract, Tcpserver!ErrorSignal, ServerProofs!ErrorSignal

LEMMA SameUdp ==
  /\ Udp!Init <=> UdpProofs!Init
  /\ Udp!Next <=> UdpProofs!Next
  /\ Udp!vars = UdpProofs!vars
  BY DEF Udp!vars, UdpProofs!vars, Udp!options, UdpProofs!options, Udp!udpState,
         UdpProofs!udpState, Udp!Init, UdpProofs!Init, Udp!Next, UdpProofs!Next,
         Udp!HandlerStart, UdpProofs!HandlerStart, Udp!HandlerStop, UdpProofs!HandlerStop,
         Udp!WriteData, UdpProofs!WriteData, Udp!OnSocketErrorOccurred,
         UdpProofs!OnSocketErrorOccurred, Udp!OnReadyRead, UdpProofs!OnReadyRead,
         Udp!DatagramArrives, UdpProofs!DatagramArrives, Udp!IsMulticastConfig,
         UdpProofs!IsMulticastConfig, Udp!JoinOutcome, UdpProofs!JoinOutcome, Udp!Destinations,
         UdpProofs!Destinations, Udp!BindMulticast, UdpProofs!BindMulticast, Udp!Fault,
         UdpProofs!Fault, Udp!SocketError, UdpProofs!SocketError, Udp!Targets,
         UdpProofs!Targets, Udp!BoundedSeq, UdpProofs!BoundedSeq, Udp!SeqOf, UdpProofs!SeqOf,
         Udp!NewHandler, UdpProofs!NewHandler, Udp!Connected, UdpProofs!Connected,
         Udp!Signaled, UdpProofs!Signaled, Udp!Disconnected, UdpProofs!Disconnected,
         Udp!ErrorSignal, UdpProofs!ErrorSignal, Udp!DataRead, UdpProofs!DataRead,
         Udp!DataWritten, UdpProofs!DataWritten, Udp!Accepts, UdpProofs!Accepts

LEMMA SameClaimsOfUdp ==
  /\ Udp!TypeOK <=> UdpProofs!TypeOK
  /\ Udp!StartedIsMember <=> UdpProofs!StartedIsMember
  /\ Udp!RefusedIsNoFailure <=> UdpProofs!RefusedIsNoFailure
  BY DEF Udp!TypeOK, UdpProofs!TypeOK, Udp!StartedIsMember, UdpProofs!StartedIsMember,
         Udp!RefusedIsNoFailure, UdpProofs!RefusedIsNoFailure, Udp!Fault, UdpProofs!Fault,
         Udp!Accepts, UdpProofs!Accepts, Udp!IsMulticastConfig, UdpProofs!IsMulticastConfig,
         Udp!Destinations, UdpProofs!Destinations, Udp!Handlers, UdpProofs!Handlers, Udp!State,
         UdpProofs!State

LEMMA SameContractOfUdp ==
  /\ Udp!Abstract!Init <=> UdpProofs!Abstract!Init
  /\ [Udp!Abstract!Next]_(Udp!Abstract!vars)
       <=> [UdpProofs!Abstract!Next]_(UdpProofs!Abstract!vars)
  BY DEF Udp!Abstract!Init, UdpProofs!Abstract!Init, Udp!Abstract!Next,
         UdpProofs!Abstract!Next, Udp!Abstract!vars, UdpProofs!Abstract!vars,
         Udp!Abstract!Start, UdpProofs!Abstract!Start, Udp!Abstract!Stop,
         UdpProofs!Abstract!Stop, Udp!Abstract!NewData, UdpProofs!Abstract!NewData,
         Udp!Abstract!Error, UdpProofs!Abstract!Error, Udp!Abstract!WriteReturns,
         UdpProofs!Abstract!WriteReturns, Udp!Abstract!NewHandler,
         UdpProofs!Abstract!NewHandler, Udp!Abstract!Connected, UdpProofs!Abstract!Connected,
         Udp!Abstract!Signaled, UdpProofs!Abstract!Signaled, Udp!Abstract!Disconnected,
         UdpProofs!Abstract!Disconnected, Udp!Abstract!DataRead, UdpProofs!Abstract!DataRead,
         Udp!Abstract!DataWritten, UdpProofs!Abstract!DataWritten, Udp!Abstract!ErrorSignal,
         UdpProofs!Abstract!ErrorSignal,
         Udp!UdpSocketContract, UdpProofs!UdpSocketContract, Udp!StdOutContract,
         UdpProofs!StdOutContract, Udp!ErrorSignal, UdpProofs!ErrorSignal, Udp!Condition,
         UdpProofs!Condition

LEMMA SameWebsocket ==
  /\ Websocket!Init <=> WebsocketProofs!Init
  /\ Websocket!Next <=> WebsocketProofs!Next
  /\ Websocket!vars = WebsocketProofs!vars
  BY DEF Websocket!vars, WebsocketProofs!vars, Websocket!options, WebsocketProofs!options,
         Websocket!ioVars, WebsocketProofs!ioVars, Websocket!Init, WebsocketProofs!Init,
         Websocket!Next, WebsocketProofs!Next, Websocket!OnSocketErrorOccured,
         WebsocketProofs!OnSocketErrorOccured, Websocket!Opening, WebsocketProofs!Opening,
         Websocket!HandlerStart, WebsocketProofs!HandlerStart, Websocket!HandlerStop,
         WebsocketProofs!HandlerStop, Websocket!TimerFires, WebsocketProofs!TimerFires,
         Websocket!OnConnected, WebsocketProofs!OnConnected, Websocket!SocketFails,
         WebsocketProofs!SocketFails, Websocket!OnDisconnected, WebsocketProofs!OnDisconnected,
         Websocket!OnMessageReceived, WebsocketProofs!OnMessageReceived, Websocket!Miscounted,
         WebsocketProofs!Miscounted, Websocket!WriteData, WebsocketProofs!WriteData,
         Websocket!PeerGoes, WebsocketProofs!PeerGoes, Websocket!PeerComes,
         WebsocketProofs!PeerComes, Websocket!NewHandler, WebsocketProofs!NewHandler,
         Websocket!Connected, WebsocketProofs!Connected, Websocket!Signaled,
         WebsocketProofs!Signaled, Websocket!Disconnected, WebsocketProofs!Disconnected,
         Websocket!ErrorSignal, WebsocketProofs!ErrorSignal, Websocket!DataRead,
         WebsocketProofs!DataRead, Websocket!DataWritten, WebsocketProofs!DataWritten,
         Websocket!Accepts, WebsocketProofs!Accepts

LEMMA SameClaimsOfWebsocket ==
  /\ Websocket!TypeOK <=> WebsocketProofs!TypeOK
  /\ Websocket!ReconnectsAlone <=> WebsocketProofs!ReconnectsAlone
  /\ Websocket!StrandedByCloseOnly <=> WebsocketProofs!StrandedByCloseOnly
  /\ Websocket!BinaryIsSafe <=> WebsocketProofs!BinaryIsSafe
  BY DEF Websocket!TypeOK, WebsocketProofs!TypeOK, Websocket!ReconnectsAlone,
         WebsocketProofs!ReconnectsAlone, Websocket!StrandedByCloseOnly,
         WebsocketProofs!StrandedByCloseOnly, Websocket!BinaryIsSafe,
         WebsocketProofs!BinaryIsSafe, Websocket!Sockets, WebsocketProofs!Sockets,
         Websocket!Accepts, WebsocketProofs!Accepts, Websocket!Handlers,
         WebsocketProofs!Handlers, Websocket!State, WebsocketProofs!State

LEMMA SameContractOfWebsocket ==
  /\ Websocket!Abstract!Init <=> WebsocketProofs!Abstract!Init
  /\ [Websocket!Abstract!Next]_(Websocket!Abstract!vars)
       <=> [WebsocketProofs!Abstract!Next]_(WebsocketProofs!Abstract!vars)
  BY DEF Websocket!Abstract!Init, WebsocketProofs!Abstract!Init, Websocket!Abstract!Next,
         WebsocketProofs!Abstract!Next, Websocket!Abstract!vars, WebsocketProofs!Abstract!vars,
         Websocket!Abstract!Start, WebsocketProofs!Abstract!Start, Websocket!Abstract!Stop,
         WebsocketProofs!Abstract!Stop, Websocket!Abstract!NewData,
         WebsocketProofs!Abstract!NewData, Websocket!Abstract!Error,
         WebsocketProofs!Abstract!Error, Websocket!Abstract!WriteReturns,
         WebsocketProofs!Abstract!WriteReturns, Websocket!Abstract!NewHandler,
         WebsocketProofs!Abstract!NewHandler, Websocket!Abstract!Connected,
         WebsocketProofs!Abstract!Connected, Websocket!Abstract!Signaled,
         WebsocketProofs!Abstract!Signaled, Websocket!Abstract!Disconnected,
         WebsocketProofs!Abstract!Disconnected, Websocket!Abstract!DataRead,
         WebsocketProofs!Abstract!DataRead, Websocket!Abstract!DataWritten,
         WebsocketProofs!Abstract!DataWritten, Websocket!Abstract!ErrorSignal,
         WebsocketProofs!Abstract!ErrorSignal,
         Websocket!WebSocketContract, WebsocketProofs!WebSocketContract,
         Websocket!StdOutContract, WebsocketProofs!StdOutContract, Websocket!ErrorSignal,
         WebsocketProofs!ErrorSignal

-----------------------------------------------------------------------------
(* The behaviours of Parts are those of the part that its initial state    *)
(* picks.                                                                  *)
LEMMA Begins ==
  ASSUME Init
  PROVE  /\ part = "tcpserver" => ServerProofs!Init
         /\ part = "udp" => UdpProofs!Init
         /\ part = "factory" => Factory!Init
         /\ part = "serial" => Serial!Init
         /\ part = "generator" => Generator!Init
         /\ part = "websocket" => WebsocketProofs!Init
         /\ part = "wsserver" => Wsserver!Init
         /\ part = "printer" => Printer!Init
  BY SameTcpserver, SameUdp, SameWebsocket DEF Init

LEMMA Moves ==
  ASSUME [Next]_vars
  PROVE  /\ part' = part
         /\ part = "tcpserver" => [ServerProofs!Next]_(ServerProofs!vars)
         /\ part = "udp" => [UdpProofs!Next]_(UdpProofs!vars)
         /\ part = "factory" => [Factory!Next]_(Factory!vars)
         /\ part = "serial" => [Serial!Next]_(Serial!vars)
         /\ part = "generator" => [Generator!Next]_(Generator!vars)
         /\ part = "websocket" => [WebsocketProofs!Next]_(WebsocketProofs!vars)
         /\ part = "wsserver" => [Wsserver!Next]_(Wsserver!vars)
         /\ part = "printer" => [Printer!Next]_(Printer!vars)
<1>1. CASE Next
  BY <1>1, SameTcpserver, SameUdp, SameWebsocket DEF Next
<1>2. CASE UNCHANGED vars
  BY <1>2 DEF vars, tcpserver, udp, factory, serial, generator, websocket, wsserver, printer,
              ServerProofs!vars, ServerProofs!loop, UdpProofs!vars, UdpProofs!options, UdpProofs!udpState,
              Factory!vars, Factory!given, Serial!vars,
              Generator!vars, Generator!options, Generator!timers,
              WebsocketProofs!vars, WebsocketProofs!options, WebsocketProofs!ioVars,
              Wsserver!vars, Printer!vars, Printer!previous
<1> QED
  BY <1>1, <1>2

-----------------------------------------------------------------------------
(* What the components' own modules prove.                                 *)
LEMMA TcpserverAlways == Spec => [](part = "tcpserver" => ServerProofs!Inv)
<1>0. ServerProofs!Limited
  BY LimitAssumption DEF ServerProofs!Limited
<1>1. Init => (part = "tcpserver" => ServerProofs!Inv)
  BY <1>0, Begins, ServerProofs!InvInit
<1>2. (part = "tcpserver" => ServerProofs!Inv) /\ [Next]_vars
        => (part = "tcpserver" => ServerProofs!Inv)'
  BY <1>0, Moves, ServerProofs!InvStep
<1> QED
  BY <1>1, <1>2, PTL DEF Spec

LEMMA UdpAlways == Spec => [](part = "udp" => UdpProofs!Inv /\ UdpProofs!TypeOK)
<1>0. UdpProofs!Bounds
  BY PartsBoundsAssumption DEF UdpProofs!Bounds
<1>1. Init => (part = "udp" => UdpProofs!Inv /\ UdpProofs!TypeOK)
  BY <1>0, Begins, UdpProofs!InvInit, UdpProofs!TypeInit
<1>2. (part = "udp" => UdpProofs!Inv /\ UdpProofs!TypeOK) /\ [Next]_vars
        => (part = "udp" => UdpProofs!Inv /\ UdpProofs!TypeOK)'
  <2> SUFFICES ASSUME UdpProofs!Inv, UdpProofs!TypeOK, [UdpProofs!Next]_(UdpProofs!vars)
               PROVE  UdpProofs!Inv' /\ UdpProofs!TypeOK'
    BY Moves
  <2>1. UdpProofs!Inv'
    BY UdpProofs!InvStep
  <2> QED
    BY <1>0, <2>1, UdpProofs!TypeStep
<1> QED
  BY <1>1, <1>2, PTL DEF Spec

LEMMA WebsocketAlways ==
  Spec => [](part = "websocket" => WebsocketProofs!Inv /\ WebsocketProofs!TypeOK)
<1>0. WebsocketProofs!Bounds
  BY PartsBoundsAssumption DEF WebsocketProofs!Bounds
<1>1. Init => (part = "websocket" => WebsocketProofs!Inv /\ WebsocketProofs!TypeOK)
  BY <1>0, Begins, WebsocketProofs!InvInit, WebsocketProofs!TypeInit
<1>2. (part = "websocket" => WebsocketProofs!Inv /\ WebsocketProofs!TypeOK) /\ [Next]_vars
        => (part = "websocket" => WebsocketProofs!Inv /\ WebsocketProofs!TypeOK)'
  <2> SUFFICES ASSUME WebsocketProofs!Inv, WebsocketProofs!TypeOK,
                      [WebsocketProofs!Next]_(WebsocketProofs!vars)
               PROVE  WebsocketProofs!Inv' /\ WebsocketProofs!TypeOK'
    BY Moves
  <2>1. WebsocketProofs!Inv'
    BY WebsocketProofs!InvStep
  <2> QED
    BY <1>0, <2>1, WebsocketProofs!TypeStep
<1> QED
  BY <1>1, <1>2, PTL DEF Spec

-----------------------------------------------------------------------------
(* SerialPortIO: besides its types, its Handler hears of a running IO and  *)
(* of no other, which is why a start() that fails half way reaches it.     *)
SerialTypes ==
  /\ open \in BOOLEAN /\ plugged \in BOOLEAN /\ running \in BOOLEAN
  /\ settings \in 0..Serial!AllSettings
  /\ handler \in Serial!Handlers
  /\ stops \in 0..MaxStops

SerialInv ==
  /\ SerialTypes
  /\ running <=> handler.lifecycle > 0
  /\ Serial!MisconfiguredIsFailed

LEMMA SettingsCounted == Serial!AllSettings = 8
<1>1. DOMAIN Serial!Settings = 1..8
  BY DEF Serial!Settings
<1>2. Serial!AllSettings = Cardinality(1..8)
  BY <1>1 DEF Serial!AllSettings, Serial!Cardinality, Cardinality
<1> DEFINE n == Cardinality(1..8)
<1>3. 1 \in Int /\ 8 \in Int
  OBVIOUS
<1>4. n = IF 1 > 8 THEN 0 ELSE 8 - 1 + 1
  BY <1>3, FS_Interval, Zenon
<1> HIDE DEF n
<1>5. n = 8
  BY <1>4
<1> QED
  BY <1>2, <1>5 DEF n

LEMMA SerialHandler ==
  ASSUME NEW h \in Serial!Handlers
  PROVE  /\ Serial!Connected(h) \in Serial!Handlers /\ Serial!Connected(h).lifecycle > 0
         /\ Serial!Disconnected(h) \in Serial!Handlers /\ Serial!Disconnected(h).lifecycle = 0
         /\ Serial!DataRead(h) \in Serial!Handlers
         /\ Serial!DataRead(h).lifecycle = h.lifecycle /\ Serial!DataRead(h).state = h.state
<1>1. /\ Serial!Connected(h) \in Serial!Handlers
      /\ Serial!Connected(h).lifecycle > 0
  BY DEF Serial!Handlers, Serial!Connected
<1>2. Serial!Disconnected(h) \in Serial!Handlers /\ Serial!Disconnected(h).lifecycle = 0
  BY DEF Serial!Handlers, Serial!Disconnected
<1>3. /\ Serial!DataRead(h) \in Serial!Handlers
      /\ Serial!DataRead(h).lifecycle = h.lifecycle /\ Serial!DataRead(h).state = h.state
  BY DEF Serial!Handlers, Serial!DataRead
<1> QED
  BY <1>1, <1>2, <1>3

LEMMA SerialSignaled ==
  ASSUME NEW h \in Serial!Handlers, NEW signal
  PROVE  /\ Serial!Signaled(h, signal) \in Serial!Handlers
         /\ Serial!Signaled(h, signal).lifecycle = h.lifecycle
         /\ (h.lifecycle > 0 /\ signal = "startupErrorOccured")
              => Serial!Signaled(h, signal).state = "Failed"
<1>1. \A s \in {"Failed", "Started"} :
        /\ [h EXCEPT !.state = s] \in Serial!Handlers
        /\ [h EXCEPT !.state = s].lifecycle = h.lifecycle /\ [h EXCEPT !.state = s].state = s
  BY DEF Serial!Handlers, Serial!State
<1>2. h.lifecycle \in Nat
  BY DEF Serial!Handlers
<1> QED
  BY <1>1, <1>2 DEF Serial!Signaled, Serial!ErrorSignal

LEMMA SerialStep ==
  ASSUME SerialInv, [Serial!Next]_(Serial!vars)
  PROVE  SerialInv'
<1>1. /\ handler \in Serial!Handlers /\ settings \in 0..8 /\ stops \in 0..MaxStops
      /\ MaxStops \in Nat
      /\ open \in BOOLEAN /\ plugged \in BOOLEAN /\ running \in BOOLEAN
      /\ handler.lifecycle \in Nat
      /\ running <=> handler.lifecycle > 0
  BY SettingsCounted, PartsBoundsAssumption DEF SerialInv, SerialTypes, Serial!Handlers
<1>2. CASE Serial!HandlerStart
  <2> DEFINE h == Serial!Connected(handler)
  <2>1. h \in Serial!Handlers /\ h.lifecycle > 0
    BY <1>1, SerialHandler
  <2> HIDE DEF h
  <2>2. PICK signal :
          /\ handler' = Serial!Signaled(h, signal)
          /\ open' /\ settings' < 8 => signal = "startupErrorOccured"
    BY <1>1, <1>2, SettingsCounted
    DEF Serial!HandlerStart, SerialInv, Serial!MisconfiguredIsFailed, Serial!StartSignal, h
  <2>3. handler' \in Serial!Handlers /\ handler'.lifecycle > 0
    BY <2>1, <2>2, SerialSignaled
  <2>4. (open' /\ settings' < 8) => handler'.state = "Failed"
    BY <2>1, <2>2, SerialSignaled
  <2>5. running' /\ settings' \in 0..8 /\ open' \in BOOLEAN /\ UNCHANGED <<plugged, stops>>
    BY <1>1, <1>2, SettingsCounted DEF Serial!HandlerStart
  <2> QED
    BY <1>1, <2>3, <2>4, <2>5, SettingsCounted
    DEF SerialInv, SerialTypes, Serial!MisconfiguredIsFailed
<1>3. CASE Serial!HandlerStop
  <2>1. handler' \in Serial!Handlers /\ handler'.lifecycle = 0
    BY <1>1, <1>3, SerialHandler DEF Serial!HandlerStop
  <2>2. open' = FALSE /\ running' = FALSE /\ settings' = 0 /\ stops' \in 0..MaxStops
    BY <1>1, <1>3 DEF Serial!HandlerStop
  <2>3. plugged' \in BOOLEAN /\ open' \in BOOLEAN /\ running' \in BOOLEAN
    BY <1>1, <1>3 DEF Serial!HandlerStop
  <2>4. SerialTypes'
    BY <2>1, <2>2, <2>3, SettingsCounted DEF SerialTypes
  <2> QED
    BY <2>1, <2>2, <2>4 DEF SerialInv, Serial!MisconfiguredIsFailed
<1>4. CASE Serial!OnReadyRead
  BY <1>1, <1>4, SerialHandler, SettingsCounted
  DEF Serial!OnReadyRead, SerialInv, SerialTypes, Serial!MisconfiguredIsFailed
<1>5. CASE Serial!WriteData
  <2>1. PICK signal : handler' = Serial!DataWritten(handler, signal)
    BY <1>5 DEF Serial!WriteData
  <2> DEFINE g == Serial!Signaled(handler, signal)
  <2>2. g \in Serial!Handlers /\ g.lifecycle = handler.lifecycle
    BY <1>1, SerialSignaled
  <2>3. handler' = [g EXCEPT !.written = @ + 1]
    BY <2>1 DEF Serial!DataWritten
  <2> HIDE DEF g
  <2>4. handler' \in Serial!Handlers /\ handler'.lifecycle = handler.lifecycle
    BY <2>2, <2>3 DEF Serial!Handlers
  <2>5. open => settings = 8
    BY <1>1, <1>5, SettingsCounted
    DEF Serial!WriteData, Serial!Accepts, SerialInv, Serial!MisconfiguredIsFailed
  <2> QED
    BY <1>1, <1>5, <2>4, <2>5, SettingsCounted
    DEF Serial!WriteData, SerialInv, SerialTypes, Serial!MisconfiguredIsFailed
<1>6. CASE Serial!Plug \/ UNCHANGED Serial!vars
  <2>1. UNCHANGED <<open, settings, handler, running, stops>> /\ plugged' \in BOOLEAN
    BY <1>1, <1>6 DEF Serial!Plug, Serial!vars
  <2> QED
    BY <2>1 DEF SerialInv, SerialTypes, Serial!MisconfiguredIsFailed
<1> QED
  BY <1>2, <1>3, <1>4, <1>5, <1>6 DEF Serial!Next

LEMMA SerialAlways == Spec => [](part = "serial" => SerialInv)
<1>1. Init => (part = "serial" => SerialInv)
  <2> SUFFICES ASSUME Serial!Init PROVE SerialInv
    BY Begins
  <2>1. handler \in Serial!Handlers /\ handler.lifecycle = 0
    BY DEF Serial!Init, Serial!NewHandler, Serial!Handlers, Serial!State
  <2>2. MaxStops \in Nat
    BY PartsBoundsAssumption
  <2>3. /\ open \in BOOLEAN /\ plugged \in BOOLEAN /\ running \in BOOLEAN
        /\ settings = 0 /\ stops = 0
    BY DEF Serial!Init
  <2>6. SerialTypes
    BY <2>1, <2>2, <2>3, SettingsCounted DEF SerialTypes
  <2>4. ~running /\ ~open
    BY DEF Serial!Init
  <2>5. Serial!MisconfiguredIsFailed
    BY <2>4 DEF Serial!MisconfiguredIsFailed
  <2> QED
    BY <2>1, <2>4, <2>5, <2>6 DEF SerialInv
<1>2. (part = "serial" => SerialInv) /\ [Next]_vars => (part = "serial" => SerialInv)'
  BY Moves, SerialStep
<1> QED
  BY <1>1, <1>2, PTL DEF Spec

-----------------------------------------------------------------------------
(* ByteGeneratorIO, for all rates and packet sizes but zero, and any       *)
(* number of stops and packets.                                            *)
GeneratorTypes ==
  /\ bytesPerSecond \in Nat /\ packetSize \in Nat \ {0}
  /\ left \in Nat /\ due \in Nat /\ set \in Nat /\ found \in Nat
  /\ handler \in Generator!Handlers

GeneratorFlags == m_run \in BOOLEAN /\ emitting \in BOOLEAN /\ running \in BOOLEAN

(* next() runs only between start() and stop().                            *)
GeneratorRuns == (m_run <=> running) /\ (emitting => m_run)

GeneratorInv == GeneratorTypes /\ GeneratorFlags /\ GeneratorRuns /\ Generator!ChainsCounted

-----------------------------------------------------------------------------
(* What the operators of Handler.tla do to a handler record.               *)
LEMMA GeneratorNewHandler ==
  /\ Generator!NewHandler \in Generator!Handlers
  /\ Generator!NewHandler.data /\ Generator!NewHandler.lifecycle = 0
  /\ ~Generator!Accepts(Generator!NewHandler)
  BY DEF Generator!NewHandler, Generator!Handlers, Generator!State, Generator!Accepts

LEMMA GeneratorConnected ==
  ASSUME NEW h \in Generator!Handlers
  PROVE  /\ Generator!Connected(h) \in Generator!Handlers
         /\ Generator!Connected(h).data = h.data
         /\ Generator!Connected(h).lifecycle > 0
         /\ Generator!Connected(h).read = h.read
         /\ Generator!Connected(h).written = h.written
  BY DEF Generator!Connected, Generator!Handlers

LEMMA GeneratorDisconnected ==
  ASSUME NEW h \in Generator!Handlers
  PROVE  /\ Generator!Disconnected(h) \in Generator!Handlers
         /\ ~Generator!Disconnected(h).data /\ Generator!Disconnected(h).lifecycle = 0
         /\ Generator!Disconnected(h).read = h.read
         /\ Generator!Disconnected(h).written = h.written
  BY DEF Generator!Disconnected, Generator!Handlers

LEMMA GeneratorDataRead ==
  ASSUME NEW h \in Generator!Handlers
  PROVE  /\ Generator!DataRead(h) \in Generator!Handlers
         /\ Generator!DataRead(h).data = h.data
         /\ Generator!DataRead(h).lifecycle = h.lifecycle
         /\ Generator!DataRead(h).state = h.state
         /\ Generator!DataRead(h).read = h.read + 1
         /\ Generator!DataRead(h).written = h.written
  BY DEF Generator!DataRead, Generator!Handlers

-----------------------------------------------------------------------------
(* std::ceil of a quotient is the least that suffices.                     *)
LEMMA CeilingBounds ==
  ASSUME NEW a \in Nat, NEW b \in Nat \ {0}
  PROVE  /\ Generator!Ceiling(a, b) \in Nat
         /\ Generator!Ceiling(a, b) * b >= a
         /\ Generator!Ceiling(a, b) > 0 => (Generator!Ceiling(a, b) - 1) * b < a
<1>1. ASSUME NEW n \in Nat
      PROVE  /\ n \div b \in Nat
             /\ (n \div b) * b <= n /\ n < (n \div b) * b + b
  BY <1>1, Z3
<1> QED
  BY <1>1, SMTT(60) DEF Generator!Ceiling

LEMMA Products ==
  ASSUME NEW m \in Int, NEW n \in Int, NEW p \in Nat, m <= n
  PROVE  m * p <= n * p
<1>1. n * p - m * p = (n - m) * p
  BY Z3
<1>2. (n - m) * p >= 0
  BY Z3
<1> QED
  BY <1>1, <1>2

(* The two roundings of the constructor add up to one.                     *)
LEMMA RateByRounding ==
  ASSUME GeneratorTypes
  PROVE  Generator!RateReached /\ Generator!PacketsPerCall \in Nat
<1> DEFINE s == Generator!PacketsPerSecond
           c == Generator!PacketsPerCall
           p == packetSize
           b == bytesPerSecond
<1>1. b \in Nat /\ p \in Nat \ {0} /\ p \in Nat
  BY DEF GeneratorTypes
<1>2. s \in Nat /\ s * p >= b /\ (s > 0 => (s - 1) * p < b)
  BY <1>1, CeilingBounds DEF Generator!PacketsPerSecond
<1>3. c \in Nat /\ c * 10 >= s /\ (c > 0 => (c - 1) * 10 < s)
  BY <1>2, CeilingBounds DEF Generator!PacketsPerCall
<1> HIDE DEF s, c, p, b
<1>4. 10 * c * p >= b
  <2>1. 10 * c >= s /\ 10 * c \in Int
    BY <1>2, <1>3
  <2>2. s * p <= (10 * c) * p
    BY <1>1, <1>2, <2>1, Products
  <2>3. s * p \in Int /\ (10 * c) * p \in Int
    BY <1>1, <1>2, <2>1
  <2> QED
    BY <1>1, <1>2, <2>2, <2>3
<1>5. ASSUME c > 0 PROVE 10 * (c - 1) * p < b
  <2>1. 10 * (c - 1) <= s - 1 /\ s > 0 /\ 10 * (c - 1) \in Int /\ s - 1 \in Int
    BY <1>2, <1>3, <1>5
  <2>2. (10 * (c - 1)) * p <= (s - 1) * p
    BY <1>1, <2>1, Products
  <2>3. (s - 1) * p \in Int /\ (10 * (c - 1)) * p \in Int
    BY <1>1, <2>1
  <2> QED
    BY <1>1, <1>2, <2>1, <2>2, <2>3
<1> QED
  BY <1>3, <1>4, <1>5 DEF Generator!RateReached, s, c, p, b

-----------------------------------------------------------------------------
LEMMA GeneratorInit ==
  ASSUME Generator!Init
  PROVE  GeneratorInv
<1>1. bytesPerSecond \in Nat /\ packetSize \in Nat \ {0} /\ handler \in Generator!Handlers
  BY RatesAssumption, GeneratorNewHandler DEF Generator!Init
<1>2. /\ m_run = FALSE /\ emitting = FALSE /\ running = FALSE
      /\ left = 0 /\ due = 0 /\ set = 0 /\ found = 0
  BY DEF Generator!Init
<1>3. GeneratorTypes
  BY <1>1, <1>2 DEF GeneratorTypes
<1>4. GeneratorFlags /\ GeneratorRuns
  BY <1>2 DEF GeneratorFlags, GeneratorRuns
<1>5. Generator!ChainsCounted
  BY <1>2 DEF Generator!ChainsCounted
<1> QED
  BY <1>3, <1>4, <1>5 DEF GeneratorInv

(* What the first packet of next() leaves, on top of a handler record h.   *)
LEMMA FirstPacketLeaves ==
  ASSUME GeneratorTypes, NEW h \in Generator!Handlers, Generator!FirstPacket(h)
  PROVE  /\ emitting' = TRUE /\ left' \in Nat /\ handler' \in Generator!Handlers
         /\ handler' = h \/ (h.data /\ handler' = Generator!DataRead(h))
<1>1. Generator!PacketsPerCall \in Nat
  BY RateByRounding
<1> QED
  BY <1>1, GeneratorDataRead DEF Generator!FirstPacket

LEMMA GeneratorStep ==
  ASSUME GeneratorInv, [Generator!Next]_(Generator!vars)
  PROVE  GeneratorInv'
<1> USE DEF GeneratorInv
<1>1. CASE Generator!HandlerStart
  <2>1. Generator!Connected(handler) \in Generator!Handlers
    BY GeneratorConnected DEF GeneratorTypes
  <2>2. emitting' = TRUE /\ left' \in Nat /\ handler' \in Generator!Handlers
    BY <1>1, <2>1, FirstPacketLeaves DEF Generator!HandlerStart
  <2>3. /\ ~emitting /\ running' = TRUE /\ m_run' = TRUE /\ found' = Generator!Pending
        /\ UNCHANGED <<bytesPerSecond, packetSize, due, set>>
    BY <1>1 DEF Generator!HandlerStart, Generator!options, Generator!timers
  <2>4. GeneratorTypes'
    BY <2>2, <2>3 DEF GeneratorTypes, Generator!Pending
  <2>5. GeneratorFlags' /\ GeneratorRuns'
    BY <2>2, <2>3 DEF GeneratorFlags, GeneratorRuns
  <2>6. Generator!ChainsCounted'
    BY <2>2, <2>3
    DEF GeneratorTypes, Generator!ChainsCounted, Generator!Chains, Generator!Pending
  <2> QED
    BY <2>4, <2>5, <2>6
<1>2. CASE Generator!HandlerStop
  <2>1. handler' \in Generator!Handlers
    BY <1>2, GeneratorDisconnected DEF Generator!HandlerStop, GeneratorTypes
  <2>2. /\ ~emitting /\ running' = FALSE /\ m_run' = FALSE
        /\ UNCHANGED <<bytesPerSecond, packetSize, left, emitting, due, set, found>>
    BY <1>2 DEF Generator!HandlerStop, Generator!options, Generator!timers
  <2>3. GeneratorTypes'
    BY <2>1, <2>2 DEF GeneratorTypes
  <2>4. GeneratorFlags' /\ GeneratorRuns' /\ Generator!ChainsCounted'
    BY <2>2 DEF GeneratorFlags, GeneratorRuns, Generator!ChainsCounted
  <2> QED
    BY <2>3, <2>4
<1>3. CASE Generator!TimerFires
  <2>1. /\ left' \in Nat /\ handler' \in Generator!Handlers
        /\ IF m_run THEN emitting' = TRUE ELSE emitting' = emitting
    BY <1>3, FirstPacketLeaves DEF Generator!TimerFires, GeneratorTypes
  <2>2. /\ due > 0 /\ due' = due - 1 /\ ~emitting
        /\ UNCHANGED <<bytesPerSecond, packetSize, m_run, set, found, running>>
    BY <1>3 DEF Generator!TimerFires, Generator!options
  <2>3. GeneratorTypes'
    BY <2>1, <2>2 DEF GeneratorTypes
  <2>4. GeneratorFlags' /\ GeneratorRuns'
    BY <2>1, <2>2 DEF GeneratorFlags, GeneratorRuns
  <2>5. Generator!ChainsCounted'
    BY <2>1, <2>2
    DEF GeneratorTypes, Generator!ChainsCounted, Generator!Chains, Generator!Pending
  <2> QED
    BY <2>3, <2>4, <2>5
<1>4. CASE Generator!EmitPacket
  <2>1. handler' \in Generator!Handlers
    BY <1>4, GeneratorDataRead DEF Generator!EmitPacket, GeneratorTypes
  <2>2. /\ left > 0 /\ left' = left - 1
        /\ UNCHANGED <<bytesPerSecond, packetSize, m_run, emitting, due, set, found, running>>
    BY <1>4 DEF Generator!EmitPacket, Generator!options, Generator!timers
  <2>3. GeneratorTypes'
    BY <2>1, <2>2 DEF GeneratorTypes
  <2>4. GeneratorFlags' /\ GeneratorRuns'
    BY <2>2 DEF GeneratorFlags, GeneratorRuns
  <2>5. Generator!ChainsCounted'
    BY <2>2 DEF Generator!ChainsCounted, Generator!Chains, Generator!Pending
  <2> QED
    BY <2>3, <2>4, <2>5
<1>5. CASE Generator!NextReturns
  <2>1. /\ emitting /\ emitting' = FALSE /\ set' = set + 1
        /\ UNCHANGED <<bytesPerSecond, packetSize, m_run, left, due, found, handler, running>>
    BY <1>5 DEF Generator!NextReturns, Generator!options
  <2>2. GeneratorTypes'
    BY <2>1 DEF GeneratorTypes
  <2>3. GeneratorFlags' /\ GeneratorRuns'
    BY <2>1 DEF GeneratorFlags, GeneratorRuns
  <2>4. Generator!ChainsCounted'
    BY <2>1 DEF GeneratorTypes, Generator!ChainsCounted, Generator!Chains, Generator!Pending
  <2> QED
    BY <2>2, <2>3, <2>4
<1>6. CASE Generator!Tick
  <2>1. /\ due = 0 /\ due' = set /\ set' = 0
        /\ UNCHANGED <<bytesPerSecond, packetSize, m_run, left, emitting, found, handler,
                       running>>
    BY <1>6 DEF Generator!Tick, Generator!options
  <2>2. GeneratorTypes'
    BY <2>1 DEF GeneratorTypes
  <2>3. GeneratorFlags' /\ GeneratorRuns'
    BY <2>1 DEF GeneratorFlags, GeneratorRuns
  <2>4. Generator!ChainsCounted'
    BY <2>1 DEF GeneratorTypes, Generator!ChainsCounted, Generator!Chains, Generator!Pending
  <2> QED
    BY <2>2, <2>3, <2>4
<1>7. CASE UNCHANGED Generator!vars
  BY <1>7
  DEF Generator!vars, Generator!options, Generator!timers, GeneratorTypes, GeneratorFlags,
      GeneratorRuns, Generator!ChainsCounted, Generator!Chains, Generator!Pending
<1> QED
  BY <1>1, <1>2, <1>3, <1>4, <1>5, <1>6, <1>7 DEF Generator!Next

(* The types that the invariant above does not need.                       *)
LEMMA GeneratorTypeInit ==
  ASSUME GeneratorInv, Generator!Init
  PROVE  Generator!TypeOK
<1>1. bytesPerSecond \in Rate /\ packetSize \in PacketSize /\ stops \in 0..MaxRestarts
  BY PartsBoundsAssumption DEF Generator!Init
<1> QED
  BY <1>1 DEF GeneratorInv, GeneratorTypes, GeneratorFlags, Generator!TypeOK

LEMMA GeneratorTypeStep ==
  ASSUME Generator!TypeOK, GeneratorInv', [Generator!Next]_(Generator!vars)
  PROVE  Generator!TypeOK'
<1>1. UNCHANGED <<bytesPerSecond, packetSize>>
  BY DEF Generator!Next, Generator!HandlerStart, Generator!HandlerStop,
         Generator!TimerFires, Generator!EmitPacket, Generator!NextReturns, Generator!Tick,
         Generator!vars, Generator!options
<1>2. stops' \in 0..MaxRestarts
  BY PartsBoundsAssumption
  DEF Generator!Next, Generator!HandlerStart, Generator!HandlerStop, Generator!TimerFires,
      Generator!EmitPacket, Generator!NextReturns, Generator!Tick, Generator!vars,
      Generator!TypeOK
<1> QED
  BY <1>1, <1>2 DEF GeneratorInv, GeneratorTypes, GeneratorFlags, Generator!TypeOK

LEMMA GeneratorAlways ==
  Spec => [](part = "generator" => GeneratorInv /\ Generator!TypeOK)
<1>1. Init => (part = "generator" => GeneratorInv /\ Generator!TypeOK)
  <2> SUFFICES ASSUME Generator!Init
               PROVE  GeneratorInv /\ Generator!TypeOK
    BY Begins
  <2> QED
    BY GeneratorInit, GeneratorTypeInit
<1>2. (part = "generator" => GeneratorInv /\ Generator!TypeOK) /\ [Next]_vars
        => (part = "generator" => GeneratorInv /\ Generator!TypeOK)'
  <2> SUFFICES ASSUME GeneratorInv, Generator!TypeOK,
                      [Generator!Next]_(Generator!vars)
               PROVE  GeneratorInv' /\ Generator!TypeOK'
    BY Moves
  <2>1. GeneratorInv'
    BY GeneratorStep
  <2> QED
    BY <2>1, GeneratorTypeStep
<1> QED
  BY <1>1, <1>2, PTL DEF Spec

-----------------------------------------------------------------------------
(* The steps of the generator, seen from its Handler.                      *)
LEMMA GeneratorSameHandler ==
  /\ Generator!Abstract!NewHandler = Generator!NewHandler
  /\ Generator!Abstract!ErrorSignal = Generator!ErrorSignal
  /\ \A h : /\ Generator!Abstract!Connected(h) = Generator!Connected(h)
            /\ Generator!Abstract!Disconnected(h) = Generator!Disconnected(h)
            /\ Generator!Abstract!DataRead(h) = Generator!DataRead(h)
  /\ \A h, signal : Generator!Abstract!Signaled(h, signal) = Generator!Signaled(h, signal)
  BY DEF Generator!Abstract!NewHandler, Generator!NewHandler,
         Generator!Abstract!ErrorSignal, Generator!ErrorSignal,
         Generator!Abstract!Connected, Generator!Connected, Generator!Abstract!Disconnected,
         Generator!Disconnected, Generator!Abstract!DataRead, Generator!DataRead,
         Generator!Abstract!Signaled, Generator!Signaled

LEMMA GeneratorContract ==
  /\ Generator!ByteGeneratorContract.start = {"none"} /\ "none" \notin Generator!ErrorSignal
  /\ Generator!ByteGeneratorContract.emits = {"open"} /\ Generator!ByteGeneratorContract.bursts
  BY DEF Generator!ByteGeneratorContract, Generator!StdOutContract, Generator!ErrorSignal

LEMMA GeneratorContractStep ==
  ASSUME GeneratorInv, [Generator!Next]_(Generator!vars)
  PROVE  Generator!Abstract!Next \/ UNCHANGED Generator!Abstract!vars
<1>0. \A h : Generator!Signaled(h, "none") = h
  BY DEF Generator!Signaled
<1>1. CASE Generator!HandlerStart
  <2>1. Generator!Connected(handler) \in Generator!Handlers
    BY GeneratorConnected DEF GeneratorInv, GeneratorTypes
  <2>2. \/ handler' = Generator!Connected(handler)
        \/ /\ Generator!Connected(handler).data
           /\ handler' = Generator!DataRead(Generator!Connected(handler))
    BY <1>1, <2>1, FirstPacketLeaves DEF Generator!HandlerStart, GeneratorInv
  <2>3. Generator!Abstract!Start
    BY <1>0, <1>1, <2>2, GeneratorSameHandler, GeneratorContract
    DEF Generator!HandlerStart, Generator!Abstract!Start
  <2> QED
    BY <2>3 DEF Generator!Abstract!Next
<1>2. CASE Generator!HandlerStop
  <2>1. Generator!Abstract!Stop
    BY <1>2, GeneratorSameHandler DEF Generator!HandlerStop, Generator!Abstract!Stop
  <2> QED
    BY <2>1 DEF Generator!Abstract!Next
<1>3. CASE Generator!TimerFires \/ Generator!EmitPacket
  <2>1. /\ \/ handler' = handler
           \/ running /\ handler.data /\ handler' = Generator!DataRead(handler)
        /\ running' = running
    <3>1. CASE Generator!TimerFires
      BY <3>1, FirstPacketLeaves
      DEF Generator!TimerFires, GeneratorInv, GeneratorTypes, GeneratorRuns
    <3>2. CASE Generator!EmitPacket
      BY <3>2 DEF Generator!EmitPacket, GeneratorInv, GeneratorRuns
    <3> QED
      BY <1>3, <3>1, <3>2
  <2>2. CASE running /\ handler.data /\ handler' = Generator!DataRead(handler)
    <3>1. Generator!Abstract!NewData
      BY <1>0, <2>1, <2>2, GeneratorSameHandler, GeneratorContract
      DEF Generator!Abstract!NewData
    <3> QED
      BY <3>1 DEF Generator!Abstract!Next
  <2> QED
    BY <2>1, <2>2 DEF Generator!Abstract!vars
<1>4. CASE Generator!NextReturns \/ Generator!Tick \/ UNCHANGED Generator!vars
  BY <1>4 DEF Generator!NextReturns, Generator!Tick, Generator!vars, Generator!Abstract!vars
<1> QED
  BY <1>1, <1>2, <1>3, <1>4 DEF Generator!Next

-----------------------------------------------------------------------------
(* WebSocketServerIO: start() connects the Handler before it can fail.     *)
WsserverInv == Wsserver!TypeOK /\ Wsserver!DeafIsFailed

LEMMA WsserverStep ==
  ASSUME WsserverInv, [Wsserver!Next]_(Wsserver!vars)
  PROVE  WsserverInv'
<1>1. /\ handler \in Wsserver!Handlers /\ listeners \in Nat
      /\ taken \in BOOLEAN /\ running \in BOOLEAN
  BY DEF WsserverInv, Wsserver!TypeOK
<1>2. CASE Wsserver!HandlerStart
  <2> DEFINE h == Wsserver!Connected(handler)
  <2>1. h \in Wsserver!Handlers /\ h.lifecycle # 0
    BY <1>1 DEF Wsserver!Connected, Wsserver!Handlers
  <2> HIDE DEF h
  <2>2. handler' = Wsserver!Signaled(h, IF Wsserver!Listens THEN "none" ELSE "errorOccured")
    BY <1>2 DEF Wsserver!HandlerStart, h
  <2>3. handler' \in Wsserver!Handlers
    BY <2>1, <2>2 DEF Wsserver!Signaled, Wsserver!Handlers, Wsserver!State
  <2>4. Wsserver!Listens \/ handler'.state = "Failed"
    BY <2>1, <2>2 DEF Wsserver!Signaled, Wsserver!ErrorSignal, Wsserver!Handlers
  <2>5. Wsserver!DeafIsFailed'
    BY <1>2, <2>4 DEF Wsserver!HandlerStart, Wsserver!DeafIsFailed
  <2> QED
    BY <1>1, <1>2, <2>3, <2>5 DEF Wsserver!HandlerStart, WsserverInv, Wsserver!TypeOK
<1>3. CASE Wsserver!HandlerStop
  <2>1. handler' \in Wsserver!Handlers
    BY <1>1, <1>3 DEF Wsserver!HandlerStop, Wsserver!Disconnected, Wsserver!Handlers
  <2> QED
    BY <1>1, <1>3, <2>1 DEF Wsserver!HandlerStop, WsserverInv, Wsserver!TypeOK, Wsserver!DeafIsFailed
<1>4. CASE Wsserver!OthersBind \/ UNCHANGED Wsserver!vars
  <2>1. UNCHANGED <<bindPort, m_server, listeners, handler, running>> /\ taken' \in BOOLEAN
    BY <1>1, <1>4 DEF Wsserver!OthersBind, Wsserver!vars
  <2>2. Wsserver!TypeOK'
    BY <2>1 DEF WsserverInv, Wsserver!TypeOK
  <2>3. Wsserver!DeafIsFailed'
    BY <2>1 DEF WsserverInv, Wsserver!DeafIsFailed
  <2> QED
    BY <2>2, <2>3 DEF WsserverInv
<1> QED
  BY <1>2, <1>3, <1>4 DEF Wsserver!Next

LEMMA WsserverAlways == Spec => [](part = "wsserver" => WsserverInv)
<1>1. Init => (part = "wsserver" => WsserverInv)
  <2> SUFFICES ASSUME Wsserver!Init PROVE WsserverInv
    BY Begins
  <2>1. handler \in Wsserver!Handlers
    BY DEF Wsserver!Init, Wsserver!NewHandler, Wsserver!Handlers, Wsserver!State
  <2> QED
    BY <2>1 DEF Wsserver!Init, WsserverInv, Wsserver!TypeOK, Wsserver!DeafIsFailed
<1>2. (part = "wsserver" => WsserverInv) /\ [Next]_vars => (part = "wsserver" => WsserverInv)'
  BY Moves, WsserverStep
<1> QED
  BY <1>1, <1>2, PTL DEF Spec

-----------------------------------------------------------------------------
(* StatusPrinter: what was printed is the sum at the time of the last      *)
(* sample, and the sum only grows.                                         *)
PrinterInv ==
  /\ sum \in Nat /\ now \in Nat
  /\ m_previousStatistic \in Nat /\ m_previousStatisticTimestamp \in Nat
  /\ rate \in -1..2
  /\ printed = m_previousStatistic /\ printed <= sum

LEMMA RateIsSign ==
  ASSUME NEW bytes, NEW time
  PROVE  Printer!SignOfRate(bytes, time) \in -1..2
  BY DEF Printer!SignOfRate, Printer!Sign

LEMMA PrinterStep ==
  ASSUME PrinterInv, [Printer!Next]_(Printer!vars)
  PROVE  PrinterInv'
<1>1. CASE Printer!Traffic
  <2>1. PICK bytes \in {1, 5} : sum' = sum + bytes
    BY <1>1 DEF Printer!Traffic
  <2> QED
    BY <1>1, <2>1 DEF Printer!Traffic, Printer!previous, PrinterInv
<1>2. CASE Printer!ClockMoves
  BY <1>2, PartsBoundsAssumption DEF Printer!ClockMoves, Printer!previous, PrinterInv
<1>3. CASE Printer!PrintStatistics
  <2>1. rate' \in -1..2
    BY <1>3, RateIsSign DEF Printer!PrintStatistics
  <2>2. /\ printed' = printed + (sum - m_previousStatistic) /\ m_previousStatistic' = sum
        /\ m_previousStatisticTimestamp' = now /\ sum' = sum /\ now' = now
    BY <1>3 DEF Printer!PrintStatistics
  <2> QED
    BY <2>1, <2>2 DEF PrinterInv
<1>4. CASE UNCHANGED Printer!vars
  BY <1>4 DEF Printer!vars, Printer!previous, PrinterInv
<1> QED
  BY <1>1, <1>2, <1>3, <1>4 DEF Printer!Next

LEMMA PrinterAlways == Spec => [](part = "printer" => PrinterInv)
<1>1. Init => (part = "printer" => PrinterInv)
  <2> SUFFICES ASSUME Printer!Init PROVE PrinterInv
    BY Begins
  <2> QED
    BY PartsBoundsAssumption DEF Printer!Init, PrinterInv
<1>2. (part = "printer" => PrinterInv) /\ [Next]_vars => (part = "printer" => PrinterInv)'
  BY Moves, PrinterStep
<1> QED
  BY <1>1, <1>2, PTL DEF Spec

(* The dividers of fileSize are a ladder: each is Kilo times the one       *)
(* before.                                                                 *)
LEMMA Ladder ==
  /\ \A k \in 1..7 : Printer!Divider[k] \in Nat
  /\ Printer!Divider[1] = 1
  /\ \A k \in 1..6 : Printer!Divider[k + 1] = Kilo * Printer!Divider[k]
<1>1. \A m, n \in Nat : m * n \in Nat
  OBVIOUS
<1>2. /\ Kilo \in Nat /\ Printer!MB \in Nat /\ Printer!GB \in Nat /\ Printer!TB \in Nat
      /\ Printer!PB \in Nat /\ Printer!EB \in Nat
  BY <1>1, UnitAssumption DEF Printer!MB, Printer!GB, Printer!TB, Printer!PB, Printer!EB
<1>3. /\ Printer!Divider[1] = 1 /\ Printer!Divider[2] = Kilo
      /\ Printer!Divider[3] = Printer!MB /\ Printer!Divider[4] = Printer!GB
      /\ Printer!Divider[5] = Printer!TB /\ Printer!Divider[6] = Printer!PB
      /\ Printer!Divider[7] = Printer!EB
  BY DEF Printer!Divider
<1>4. \A k \in 1..7 : k = 1 \/ k = 2 \/ k = 3 \/ k = 4 \/ k = 5 \/ k = 6 \/ k = 7
  OBVIOUS
<1>5. \A k \in 1..7 : Printer!Divider[k] \in Nat
  BY <1>2, <1>3, <1>4
<1>6. \A k \in 1..6 : Printer!Divider[k + 1] = Kilo * Printer!Divider[k]
  <2>1. /\ Printer!Divider[2] = Kilo * Printer!Divider[1]
        /\ Printer!Divider[3] = Kilo * Printer!Divider[2]
        /\ Printer!Divider[4] = Kilo * Printer!Divider[3]
        /\ Printer!Divider[5] = Kilo * Printer!Divider[4]
        /\ Printer!Divider[6] = Kilo * Printer!Divider[5]
        /\ Printer!Divider[7] = Kilo * Printer!Divider[6]
    BY <1>2, <1>3 DEF Printer!MB, Printer!GB, Printer!TB, Printer!PB, Printer!EB
  <2> QED
    BY <2>1
<1> QED
  BY <1>3, <1>5, <1>6

LEMMA Grows ==
  ASSUME NEW m \in Nat, NEW n \in Nat \ {0}
  PROVE  m <= n * m
  OBVIOUS

LEMMA Upwards ==
  ASSUME NEW j \in 1..7, NEW k \in 1..7, j <= k
  PROVE  Printer!Divider[j] <= Printer!Divider[k]
<1> DEFINE d == Printer!Divider
<1>1. \A i \in 1..7 : d[i] \in Nat
  BY Ladder
<1>2. \A i \in 1..6 : d[i + 1] = Kilo * d[i]
  BY Ladder
<1> HIDE DEF d
<1>3. ASSUME NEW i \in 1..6 PROVE d[i] <= d[i + 1]
  BY <1>1, <1>2, Grows, UnitAssumption
<1>4. /\ d[1] <= d[2] /\ d[2] <= d[3] /\ d[3] <= d[4]
      /\ d[4] <= d[5] /\ d[5] <= d[6] /\ d[6] <= d[7]
  BY <1>3
<1>5. /\ d[1] \in Nat /\ d[2] \in Nat /\ d[3] \in Nat /\ d[4] \in Nat
      /\ d[5] \in Nat /\ d[6] \in Nat /\ d[7] \in Nat
  BY <1>1
<1>6. d[j] <= d[k]
  BY <1>4, <1>5
<1> QED
  BY <1>6 DEF d

(* The largest divider that the size exceeds, which is the smallest that   *)
(* leaves no more than Kilo of its units.                                  *)
LEMMA ChosenFits ==
  ASSUME NEW size \in Nat
  PROVE  /\ Printer!Chosen(size) \in 1..7
         /\ \A k \in 1..7 : size <= Kilo * Printer!Divider[k] => Printer!Chosen(size) <= k
         /\ Printer!Chosen(size) # 7 => size <= Kilo * Printer!Divider[Printer!Chosen(size)]
<1> DEFINE d == Printer!Divider
           S == {1} \cup {k \in 2..7 : size > d[k]}
           c == Printer!Chosen(size)
<1>1. \E x \in S : \A y \in S : x >= y
  <2>1. \A x \in S : x \in 1..7
    OBVIOUS
  <2> HIDE DEF S
  <2>2. 1 \in S
    BY DEF S
  <2>3. CASE 7 \in S
    BY <2>1, <2>3
  <2>4. CASE 7 \notin S /\ 6 \in S
    BY <2>1, <2>4
  <2>5. CASE 7 \notin S /\ 6 \notin S /\ 5 \in S
    BY <2>1, <2>5
  <2>6. CASE 7 \notin S /\ 6 \notin S /\ 5 \notin S /\ 4 \in S
    BY <2>1, <2>6
  <2>7. CASE 7 \notin S /\ 6 \notin S /\ 5 \notin S /\ 4 \notin S /\ 3 \in S
    BY <2>1, <2>7
  <2>8. CASE 7 \notin S /\ 6 \notin S /\ 5 \notin S /\ 4 \notin S /\ 3 \notin S
    BY <2>1, <2>2, <2>8
  <2> QED
    BY <2>3, <2>4, <2>5, <2>6, <2>7, <2>8
<1>2. c \in S /\ \A y \in S : c >= y
  <2>1. c = CHOOSE x \in S : \A y \in S : x >= y
    BY DEF Printer!Chosen, Printer!Max
  <2> HIDE DEF S, c
  <2> QED
    BY <1>1, <2>1
<1> HIDE DEF d, c
<1>3. c \in 1..7 /\ (c = 1 \/ size > d[c]) /\ \A k \in 2..7 : k > c => size <= d[k]
  <2>1. c \in 1..7 /\ (c = 1 \/ size > d[c])
    BY <1>2
  <2>2. ASSUME NEW k \in 2..7, k > c PROVE size <= d[k]
    <3>1. k \notin S
      BY <1>2, <2>1, <2>2
    <3>2. d[k] \in Nat
      BY Ladder DEF d
    <3> QED
      BY <3>1, <3>2
  <2> QED
    BY <2>1, <2>2
<1> HIDE DEF S
<1>4. ASSUME NEW k \in 1..7, size <= Kilo * d[k] PROVE c <= k
  <2> SUFFICES ASSUME k < c PROVE FALSE
    BY <1>3
  <2>1. k \in 1..6 /\ k + 1 \in 1..7 /\ k + 1 <= c
    BY <1>3
  <2>2. d[k + 1] = Kilo * d[k]
    BY <2>1, Ladder DEF d
  <2>3. d[k + 1] <= d[c]
    BY <1>3, <2>1, Upwards DEF d
  <2>4. size > d[c] /\ d[c] \in Nat /\ d[k + 1] \in Nat
    BY <1>3, <2>1, Ladder DEF d
  <2>5. size <= d[k + 1]
    BY <1>4, <2>2
  <2> QED
    BY <2>3, <2>4, <2>5
<1>5. ASSUME c # 7 PROVE size <= Kilo * d[c]
  <2>1. c \in 1..6 /\ c + 1 \in 2..7 /\ c + 1 > c
    BY <1>3, <1>5
  <2>2. size <= d[c + 1]
    BY <1>3, <2>1
  <2>3. d[c + 1] = Kilo * d[c]
    BY <2>1, Ladder DEF d
  <2> QED
    BY <2>2, <2>3
<1> QED
  BY <1>3, <1>4, <1>5 DEF c, d

LEMMA ShownInSmallest ==
  ASSUME PrinterInv
  PROVE  Printer!EachByteShown
<1> DEFINE fits == {k \in 1..7 : sum <= Kilo * Printer!Divider[k]}
           c    == Printer!Chosen(sum)
<1>0. sum \in Nat
  BY DEF PrinterInv
<1>1. c \in 1..7 /\ (\A k \in fits : c <= k) /\ (c # 7 => c \in fits)
  BY <1>0, ChosenFits
<1>2. Printer!FileSize(sum).unit = Printer!Unit[c]
  BY DEF Printer!FileSize
<1>3. \A y \in fits : y \in 1..7
  OBVIOUS
<1> HIDE DEF c, fits
<1>4. CASE fits = {}
  <2>1. c = 7
    BY <1>1, <1>4
  <2> QED
    BY <1>2, <1>4, <2>1 DEF PrinterInv, Printer!EachByteShown, Printer!Unit, fits
<1>5. CASE fits # {}
  <2>1. c \in fits
    <3>1. PICK y \in fits : TRUE
      BY <1>5
    <3>2. c <= y /\ y \in 1..7
      BY <1>1, <1>3
    <3>3. c = 7 => y = c
      BY <1>1, <3>2
    <3> QED
      BY <1>1, <3>1, <3>3
  <2>2. Printer!Min(fits) \in fits /\ \A y \in fits : Printer!Min(fits) <= y
    BY <1>1, <2>1 DEF Printer!Min
  <2>3. Printer!Min(fits) = c
    <3>1. Printer!Min(fits) <= c /\ c <= Printer!Min(fits) /\ Printer!Min(fits) \in 1..7
      BY <1>1, <1>3, <2>1, <2>2
    <3> QED
      BY <1>1, <3>1
  <2> QED
    BY <1>2, <1>5, <2>3 DEF PrinterInv, Printer!EachByteShown, fits
<1> QED
  BY <1>4, <1>5

-----------------------------------------------------------------------------
(* UdpSocketIOFactory: inside the loop of create(), when both parameters   *)
(* are given, the list holds the pairs of the rounds so far.               *)
Paired(k) == <<Factory!Values(addresses)[k], Factory!Values(ports)[k]>>

FactoryInv ==
  /\ addresses \in Seq(GivenAddress) /\ ports \in Seq(GivenPort)
  /\ index \in Nat
  /\ (addresses # <<>> /\ ports # <<>>) =>
       /\ index <= Len(addresses) /\ index <= Len(ports)
       /\ remoteAddresses = [k \in 1..index |-> Paired(k)]
       /\ result = "created" => index = Len(addresses)

LEMMA ValueAt ==
  ASSUME NEW T, NEW params \in Seq(T), params # <<>>, NEW i \in Nat
  PROVE  /\ i < Len(params) => Factory!GetParaValue(params, i) = {Factory!Values(params)[i + 1]}
         /\ i >= Len(params) => Factory!GetParaValue(params, i) = {}
<1>1. Len(params) \in Nat
  BY LenProperties
<1> QED
  BY <1>1 DEF Factory!GetParaValue

LEMMA FactoryInit ==
  ASSUME Factory!Init
  PROVE  FactoryInv
<1>0. MaxGiven \in Nat
  BY PartsBoundsAssumption
<1>1. PICK m \in 0..MaxGiven : addresses \in [1..m -> GivenAddress]
  BY DEF Factory!Init, Factory!BoundedSeq, Factory!SeqOf
<1>2. PICK n \in 0..MaxGiven : ports \in [1..n -> GivenPort]
  BY DEF Factory!Init, Factory!BoundedSeq, Factory!SeqOf
<1>3. addresses \in Seq(GivenAddress) /\ ports \in Seq(GivenPort)
  BY <1>0, <1>1, <1>2, SeqDef
<1>4. Len(addresses) \in Nat /\ Len(ports) \in Nat
  BY <1>3, LenProperties
<1>5. index = 0 /\ result = "loop"
  BY DEF Factory!Init
<1>6. remoteAddresses = [k \in 1..0 |-> Paired(k)]
  BY DEF Factory!Init
<1> QED
  BY <1>3, <1>4, <1>5, <1>6 DEF FactoryInv

LEMMA FactoryStep ==
  ASSUME FactoryInv, [Factory!Next]_(Factory!vars)
  PROVE  FactoryInv'
<1>0. UNCHANGED <<addresses, ports>>
  BY DEF Factory!Next, Factory!NextDestination, Factory!MissingPort, Factory!NoMoreAddresses,
         Factory!vars, Factory!given
<1>1. /\ Len(addresses) \in Nat /\ Len(ports) \in Nat /\ index \in Nat
      /\ addresses \in Seq(GivenAddress) /\ ports \in Seq(GivenPort)
  BY LenProperties DEF FactoryInv
<1>2. index' \in Nat
  BY <1>1 DEF Factory!Next, Factory!NextDestination, Factory!MissingPort, Factory!NoMoreAddresses,
              Factory!vars
<1>3. ASSUME addresses # <<>>, ports # <<>>
      PROVE  /\ index' <= Len(addresses) /\ index' <= Len(ports)
             /\ remoteAddresses' = [k \in 1..index' |-> Paired(k)]
             /\ result' = "created" => index' = Len(addresses)
  <2>1. /\ index <= Len(addresses) /\ index <= Len(ports)
        /\ remoteAddresses = [k \in 1..index |-> Paired(k)]
        /\ result = "created" => index = Len(addresses)
    BY <1>3 DEF FactoryInv
  <2>0. /\ index < Len(addresses) =>
             Factory!GetParaValue(addresses, index) = {Factory!Values(addresses)[index + 1]}
        /\ index < Len(ports) =>
             Factory!GetParaValue(ports, index) = {Factory!Values(ports)[index + 1]}
        /\ index >= Len(addresses) => Factory!GetParaValue(addresses, index) = {}
        /\ index >= Len(ports) => Factory!GetParaValue(ports, index) = {}
    BY <1>1, <1>3, ValueAt
  <2>2. CASE Factory!NextDestination
    <3>1. PICK a \in Factory!GetParaValue(addresses, index), p \in Factory!GetParaValue(ports, index) :
            remoteAddresses' = Append(remoteAddresses, <<a, p>>)
      BY <2>2 DEF Factory!NextDestination
    <3>2. index < Len(addresses) /\ index < Len(ports)
      <4>1. ~(index >= Len(addresses)) /\ ~(index >= Len(ports))
        BY <2>0, <3>1
      <4> QED
        BY <1>1, <4>1
    <3>3. <<a, p>> = Paired(index + 1)
      BY <2>0, <3>1, <3>2 DEF Paired
    <3>4. index' = index + 1 /\ result' = "loop"
      BY <2>2 DEF Factory!NextDestination
    <3>5. remoteAddresses' = [k \in 1..(index + 1) |-> Paired(k)]
      BY <1>1, <2>1, <3>1, <3>3
    <3> QED
      BY <1>1, <3>2, <3>4, <3>5
  <2>3. CASE Factory!MissingPort
    BY <2>1, <2>3 DEF Factory!MissingPort
  <2>4. CASE Factory!NoMoreAddresses
    <3>1. index = Len(addresses)
      <4>1. ~(index < Len(addresses))
        BY <2>0, <2>4 DEF Factory!NoMoreAddresses
      <4> QED
        BY <1>1, <2>1, <4>1
    <3> QED
      BY <2>1, <2>4, <3>1 DEF Factory!NoMoreAddresses
  <2>5. CASE UNCHANGED Factory!vars
    BY <2>1, <2>5 DEF Factory!vars
  <2> QED
    BY <2>2, <2>3, <2>4, <2>5 DEF Factory!Next
<1>4. \A k : Paired(k)' = Paired(k)
  BY <1>0 DEF Paired, Factory!Values, Factory!Reverse
<1> QED
  BY <1>0, <1>1, <1>2, <1>3, <1>4 DEF FactoryInv

LEMMA ValueTyped ==
  ASSUME NEW T, NEW params \in Seq(T), NEW i \in Nat
  PROVE  Factory!GetParaValue(params, i) \subseteq T \cup {None}
<1>1. Len(params) \in Nat /\ \A k \in 1..Len(params) : params[k] \in T
  BY LenProperties
<1>2. CASE params # <<>> /\ i < Len(params)
  <2>1. i + 1 \in 1..Len(params) /\ (Len(params) - (i + 1)) + 1 \in 1..Len(params)
    BY <1>1, <1>2
  <2>2. Factory!Values(params)[i + 1] = params[(Len(params) - (i + 1)) + 1]
    BY <2>1 DEF Factory!Values, Factory!Reverse
  <2> QED
    BY <1>1, <1>2, <2>1, <2>2 DEF Factory!GetParaValue
<1>3. CASE ~(params # <<>> /\ i < Len(params))
  BY <1>3 DEF Factory!GetParaValue
<1> QED
  BY <1>2, <1>3

LEMMA FactoryTypes ==
  ASSUME FactoryInv, Factory!TypeOK, [Factory!Next]_(Factory!vars)
  PROVE  Factory!TypeOK'
<1> DEFINE Pairs == (GivenAddress \cup {None}) \X (GivenPort \cup {None})
<1>1. /\ addresses \in Seq(GivenAddress) /\ ports \in Seq(GivenPort) /\ index \in Nat
      /\ remoteAddresses \in Seq(Pairs)
  BY DEF Factory!TypeOK
<1>2. CASE Factory!NextDestination
  <2>1. PICK a \in Factory!GetParaValue(addresses, index), p \in Factory!GetParaValue(ports, index) :
          remoteAddresses' = Append(remoteAddresses, <<a, p>>)
    BY <1>2 DEF Factory!NextDestination
  <2>2. <<a, p>> \in Pairs
    BY <1>1, <2>1, ValueTyped
  <2> HIDE DEF Pairs
  <2>3. remoteAddresses' \in Seq(Pairs)
    BY <1>1, <2>1, <2>2, AppendProperties
  <2> QED
    BY <1>1, <1>2, <2>3 DEF Factory!NextDestination, Factory!given, Factory!TypeOK, Pairs
<1>3. CASE Factory!MissingPort \/ Factory!NoMoreAddresses \/ UNCHANGED Factory!vars
  BY <1>3 DEF Factory!MissingPort, Factory!NoMoreAddresses, Factory!vars, Factory!given, Factory!TypeOK
<1> QED
  BY <1>2, <1>3 DEF Factory!Next

LEMMA FactoryAlways == Spec => [](part = "factory" => FactoryInv /\ Factory!TypeOK)
<1>1. Init => (part = "factory" => FactoryInv /\ Factory!TypeOK)
  <2>1. Factory!Init => FactoryInv /\ Factory!TypeOK
    BY FactoryInit, EmptySeq DEF Factory!Init, FactoryInv, Factory!TypeOK
  <2> QED
    BY <2>1, Begins
<1>2. (part = "factory" => FactoryInv /\ Factory!TypeOK) /\ [Next]_vars
        => (part = "factory" => FactoryInv /\ Factory!TypeOK)'
  BY Moves, FactoryStep, FactoryTypes
<1> QED
  BY <1>1, <1>2, PTL DEF Spec

LEMMA PairsOfInv ==
  ASSUME FactoryInv
  PROVE  Factory!PairsAsGiven
<1> SUFFICES ASSUME Len(addresses) = Len(ports), addresses # <<>>, result = "created"
             PROVE  remoteAddresses = [k \in 1..Len(ports) |->
                      <<addresses[Len(ports) + 1 - k], ports[Len(ports) + 1 - k]>>]
  BY DEF Factory!PairsAsGiven
<1>1. /\ addresses \in Seq(GivenAddress) /\ ports \in Seq(GivenPort) /\ Len(ports) \in Nat
      /\ Len(addresses) # 0
  BY LenProperties, EmptySeq DEF FactoryInv
<1>2. ports # <<>>
  BY <1>1, EmptySeq
<1>3. remoteAddresses = [k \in 1..Len(ports) |-> Paired(k)]
  BY <1>2 DEF FactoryInv
<1>4. ASSUME NEW k \in 1..Len(ports)
      PROVE  Paired(k) = <<addresses[Len(ports) + 1 - k], ports[Len(ports) + 1 - k]>>
  <2>1. (Len(ports) - k) + 1 = Len(ports) + 1 - k
    BY <1>1
  <2>2. /\ Factory!Values(addresses)[k] = addresses[(Len(ports) - k) + 1]
        /\ Factory!Values(ports)[k] = ports[(Len(ports) - k) + 1]
    BY DEF Factory!Values, Factory!Reverse
  <2> QED
    BY <2>1, <2>2 DEF Paired
<1> QED
  BY <1>3, <1>4

-----------------------------------------------------------------------------
(* The steps of SerialPortIO and of WebSocketServerIO, seen from their     *)
(* Handlers.                                                               *)
LEMMA SerialSameHandler ==
  /\ Serial!Abstract!NewHandler = Serial!NewHandler
  /\ Serial!Abstract!ErrorSignal = Serial!ErrorSignal
  /\ \A h : /\ Serial!Abstract!Connected(h) = Serial!Connected(h)
            /\ Serial!Abstract!Disconnected(h) = Serial!Disconnected(h)
            /\ Serial!Abstract!DataRead(h) = Serial!DataRead(h)
  /\ \A h, signal : /\ Serial!Abstract!Signaled(h, signal) = Serial!Signaled(h, signal)
                    /\ Serial!Abstract!DataWritten(h, signal) = Serial!DataWritten(h, signal)
  BY DEF Serial!Abstract!NewHandler, Serial!NewHandler, Serial!Abstract!ErrorSignal,
         Serial!ErrorSignal, Serial!Abstract!Connected, Serial!Connected,
         Serial!Abstract!Disconnected, Serial!Disconnected, Serial!Abstract!DataRead,
         Serial!DataRead, Serial!Abstract!Signaled, Serial!Signaled,
         Serial!Abstract!DataWritten, Serial!DataWritten

LEMMA ContractOfSerial ==
  /\ Serial!SerialPortContract.start = {"started", "startupErrorOccured"}
  /\ Serial!SerialPortContract.emits = {"open", "failed"}
  /\ Serial!SerialPortContract.writeFails
  /\ "started" \notin Serial!ErrorSignal /\ "startupErrorOccured" \in Serial!ErrorSignal
  BY DEF Serial!SerialPortContract, Serial!StdOutContract, Serial!ErrorSignal

LEMMA SerialContractStep ==
  ASSUME SerialInv, [Serial!Next]_(Serial!vars)
  PROVE  Serial!Abstract!Next \/ UNCHANGED Serial!Abstract!vars
<1>0. open => running
  BY DEF SerialInv, Serial!MisconfiguredIsFailed
<1>1. CASE Serial!HandlerStart
  <2>1. PICK signal \in {"started", "startupErrorOccured"} :
          /\ handler' = Serial!Signaled(Serial!Connected(handler), signal)
          /\ signal = "started" <=> (open' /\ settings' = Serial!AllSettings)
    BY <1>0, <1>1 DEF Serial!HandlerStart, Serial!StartSignal
  <2>2. Serial!Condition = "idle"
    BY <1>1 DEF Serial!HandlerStart, Serial!Condition
  <2>3. Serial!Condition' = IF signal \in Serial!ErrorSignal THEN "failed" ELSE "open"
    BY <1>1, <2>1, ContractOfSerial DEF Serial!HandlerStart, Serial!Condition
  <2>4. Serial!Abstract!Start
    BY <2>1, <2>2, <2>3, SerialSameHandler, ContractOfSerial DEF Serial!Abstract!Start
  <2> QED
    BY <2>4 DEF Serial!Abstract!Next
<1>2. CASE Serial!HandlerStop
  <2>1. Serial!Abstract!Stop
    BY <1>2, SerialSameHandler DEF Serial!HandlerStop, Serial!Abstract!Stop, Serial!Condition
  <2> QED
    BY <2>1 DEF Serial!Abstract!Next
<1>3. CASE Serial!OnReadyRead
  <2>1. Serial!Condition \in {"open", "failed"} /\ UNCHANGED Serial!Condition
    BY <1>0, <1>3 DEF Serial!OnReadyRead, Serial!Condition
  <2>2. handler.data /\ handler' = Serial!DataRead(Serial!Signaled(handler, "none"))
    BY <1>3 DEF Serial!OnReadyRead, Serial!Signaled
  <2>3. Serial!Abstract!NewData
    BY <2>1, <2>2, SerialSameHandler, ContractOfSerial DEF Serial!Abstract!NewData
  <2> QED
    BY <2>3 DEF Serial!Abstract!Next
<1>4. CASE Serial!WriteData
  <2>1. Serial!Condition # "idle" /\ UNCHANGED Serial!Condition
    BY <1>4 DEF Serial!WriteData, Serial!Condition
  <2>2. PICK signal \in {"none", "errorOccured"} : handler' = Serial!DataWritten(handler, signal)
    BY <1>4 DEF Serial!WriteData
  <2>3. Serial!Abstract!WriteReturns
    BY <2>1, <2>2, SerialSameHandler, ContractOfSerial DEF Serial!Abstract!WriteReturns
  <2> QED
    BY <2>3 DEF Serial!Abstract!Next
<1>5. CASE Serial!Plug \/ UNCHANGED Serial!vars
  BY <1>5 DEF Serial!Plug, Serial!vars, Serial!Abstract!vars, Serial!Condition
<1> QED
  BY <1>1, <1>2, <1>3, <1>4, <1>5 DEF Serial!Next

LEMMA WsserverSameHandler ==
  /\ Wsserver!Abstract!NewHandler = Wsserver!NewHandler
  /\ Wsserver!Abstract!ErrorSignal = Wsserver!ErrorSignal
  /\ \A h : /\ Wsserver!Abstract!Connected(h) = Wsserver!Connected(h)
            /\ Wsserver!Abstract!Disconnected(h) = Wsserver!Disconnected(h)
  /\ \A h, signal : Wsserver!Abstract!Signaled(h, signal) = Wsserver!Signaled(h, signal)
  BY DEF Wsserver!Abstract!NewHandler, Wsserver!NewHandler, Wsserver!Abstract!ErrorSignal,
         Wsserver!ErrorSignal, Wsserver!Abstract!Connected, Wsserver!Connected,
         Wsserver!Abstract!Disconnected, Wsserver!Disconnected,
         Wsserver!Abstract!Signaled, Wsserver!Signaled

LEMMA ContractOfWsserver ==
  /\ Wsserver!WebSocketServerContract.start = {"none", "errorOccured"}
  /\ "none" \notin Wsserver!ErrorSignal /\ "errorOccured" \in Wsserver!ErrorSignal
  BY DEF Wsserver!WebSocketServerContract, Wsserver!StdOutContract, Wsserver!ErrorSignal

LEMMA WsserverContractStep ==
  ASSUME [Wsserver!Next]_(Wsserver!vars)
  PROVE  Wsserver!Abstract!Next \/ UNCHANGED Wsserver!Abstract!vars
<1>1. CASE Wsserver!HandlerStart
  <2>1. PICK signal \in {"none", "errorOccured"} :
          /\ handler' = Wsserver!Signaled(Wsserver!Connected(handler), signal)
          /\ m_server' = IF signal = "none" THEN "listens" ELSE "deaf"
    BY <1>1 DEF Wsserver!HandlerStart
  <2>2. Wsserver!Condition = "idle"
    BY <1>1 DEF Wsserver!HandlerStart, Wsserver!Condition
  <2>3. Wsserver!Condition' = IF signal \in Wsserver!ErrorSignal THEN "failed" ELSE "open"
    BY <1>1, <2>1, ContractOfWsserver DEF Wsserver!HandlerStart, Wsserver!Condition
  <2>4. Wsserver!Abstract!Start
    BY <2>1, <2>2, <2>3, WsserverSameHandler, ContractOfWsserver DEF Wsserver!Abstract!Start
  <2> QED
    BY <2>4 DEF Wsserver!Abstract!Next
<1>2. CASE Wsserver!HandlerStop
  <2>1. Wsserver!Abstract!Stop
    BY <1>2, WsserverSameHandler DEF Wsserver!HandlerStop, Wsserver!Abstract!Stop, Wsserver!Condition
  <2> QED
    BY <2>1 DEF Wsserver!Abstract!Next
<1>3. CASE Wsserver!OthersBind \/ UNCHANGED Wsserver!vars
  BY <1>3 DEF Wsserver!OthersBind, Wsserver!vars, Wsserver!Abstract!vars, Wsserver!Condition
<1> QED
  BY <1>1, <1>2, <1>3 DEF Wsserver!Next

-----------------------------------------------------------------------------
(* The part is one of the eight for good, and its steps leave what is not  *)
(* its own as it was.                                                      *)
PartKnown ==
  part \in {"tcpserver", "udp", "factory", "serial", "generator", "websocket", "wsserver", "printer"}

LEMMA UnusedStep ==
  ASSUME PartKnown, OthersUnused, [Next]_vars
  PROVE  PartKnown' /\ OthersUnused'
<1> USE DEF PartKnown, OthersUnused, NoTcpserver, NoUdp, NoFactory, NoSerial, NoGenerator,
            NoWebsocket, NoWsserver, NoPrinter, NoHandler, tcpserver, udp, factory, serial,
            generator, websocket, wsserver, printer
<1>1. CASE part = "tcpserver" /\ UNCHANGED part /\ UNCHANGED NotTcpserver
  BY <1>1 DEF NotTcpserver
<1>2. CASE part = "udp" /\ UNCHANGED part /\ UNCHANGED NotUdp
  BY <1>2 DEF NotUdp
<1>3. CASE part = "factory" /\ UNCHANGED part /\ UNCHANGED NotFactory
  BY <1>3 DEF NotFactory
<1>4. CASE part = "serial" /\ UNCHANGED part /\ UNCHANGED NotSerial
  BY <1>4 DEF NotSerial
<1>5. CASE part = "generator" /\ UNCHANGED part /\ UNCHANGED NotGenerator
  BY <1>5 DEF NotGenerator
<1>6. CASE part = "websocket" /\ UNCHANGED part /\ UNCHANGED NotWebsocket
  BY <1>6 DEF NotWebsocket
<1>7. CASE part = "wsserver" /\ UNCHANGED part /\ UNCHANGED NotWsserver
  BY <1>7 DEF NotWsserver
<1>8. CASE part = "printer" /\ UNCHANGED part /\ UNCHANGED NotPrinter
  BY <1>8 DEF NotPrinter
<1>9. CASE UNCHANGED vars
  BY <1>9 DEF vars
<1> QED
  BY <1>1, <1>2, <1>3, <1>4, <1>5, <1>6, <1>7, <1>8, <1>9 DEF Next

LEMMA UnusedAlways == Spec => [](PartKnown /\ OthersUnused)
<1>1. Init => PartKnown /\ OthersUnused
  BY DEF Init, PartKnown, OthersUnused
<1>2. PartKnown /\ OthersUnused /\ [Next]_vars => (PartKnown /\ OthersUnused)'
  BY UnusedStep
<1> QED
  BY <1>1, <1>2, PTL DEF Spec

-----------------------------------------------------------------------------
(* The invariants of the run, for every value of the constants.            *)

(* The variables of the part that the initial state picks have their types *)
(* in every behaviour, whichever part it is, and every other variable      *)
(* stays Unused.                                                           *)
THEOREM PartsTypeCorrect == Spec => []TypeOK
<1> DEFINE All == /\ part = "tcpserver" => ServerProofs!Inv
                  /\ part = "udp" => UdpProofs!Inv /\ UdpProofs!TypeOK
                  /\ part = "factory" => FactoryInv /\ Factory!TypeOK
                  /\ part = "serial" => SerialInv
                  /\ part = "generator" => GeneratorInv /\ Generator!TypeOK
                  /\ part = "websocket" => WebsocketProofs!Inv /\ WebsocketProofs!TypeOK
                  /\ part = "wsserver" => WsserverInv
                  /\ part = "printer" => PrinterInv
<1>1. SerialInv => Serial!TypeOK
  BY DEF SerialInv, SerialTypes, Serial!TypeOK
<1>2. PrinterInv => Printer!TypeOK
  <2> SUFFICES ASSUME PrinterInv PROVE Printer!TypeOK
    OBVIOUS
  <2>1. /\ sum \in Nat /\ now \in Nat /\ m_previousStatistic \in Nat
        /\ m_previousStatisticTimestamp \in Nat /\ printed \in Nat /\ rate \in -1..2
    BY DEF PrinterInv
  <2> QED
    BY <2>1 DEF Printer!TypeOK
<1>3. WsserverInv => Wsserver!TypeOK
  BY DEF WsserverInv
<1>4. ServerProofs!Inv => ServerProofs!TypeOK
  BY DEF ServerProofs!Inv
<1>5. All /\ PartKnown /\ OthersUnused => TypeOK
  BY <1>1, <1>2, <1>3, <1>4, SameClaimsOfTcpserver, SameClaimsOfUdp, SameClaimsOfWebsocket
  DEF TypeOK, PartKnown
<1>6. Spec => []All
  BY TcpserverAlways, UdpAlways, FactoryAlways, SerialAlways, GeneratorAlways, WebsocketAlways, WsserverAlways,
     PrinterAlways, PTL
<1> QED
  BY <1>5, <1>6, UnusedAlways, PTL

(* TcpServerIO: through arrivals, refusals and departures, and at every    *)
(* step of the loop of stop(), m_sockets lists the open sockets and no     *)
(* other, each once, and the loop never comes to one that is deleted.      *)
THEOREM ServerListExact == Spec => []SocketsLive
<1>1. (part = "tcpserver" => ServerProofs!Inv) => SocketsLive
  BY SameClaimsOfTcpserver, ServerProofs!DistinctCounted, ServerProofs!LeftAreAlive
  DEF SocketsLive, ServerProofs!Inv, ServerProofs!TypeOK, ServerProofs!OpenOnes,
      ServerProofs!SocketsLive
<1> QED
  BY <1>1, TcpserverAlways, PTL

(* TcpServerIO: never more clients than max_connections, and none while it *)
(* does not listen, but those that its stop() is about to close.           *)
THEOREM ServerLimitHeld == Spec => []LimitHeld
<1>1. (part = "tcpserver" => ServerProofs!Inv) => LimitHeld
  BY SameClaimsOfTcpserver DEF LimitHeld, ServerProofs!Inv
<1> QED
  BY <1>1, TcpserverAlways, PTL

(* UdpSocketIO: started means a member of every group, stopped means no    *)
(* port and no membership, however far start() had got.                    *)
THEOREM UdpStartedIsMember == Spec => []StartedIsMember
<1>1. (part = "udp" => UdpProofs!Inv /\ UdpProofs!TypeOK) => StartedIsMember
  BY SameClaimsOfUdp DEF StartedIsMember, UdpProofs!StartedIsMember, UdpProofs!Inv, UdpProofs!Idle,
                         UdpProofs!StartedIsWired, UdpProofs!WiredIsMember
<1> QED
  BY <1>1, UdpAlways, PTL

(* UdpSocketIO: refused datagrams never make the Handler Failed.           *)
THEOREM UdpRefusalHarmless == Spec => []RefusedIsNoFailure
<1>1. (part = "udp" => UdpProofs!Inv /\ UdpProofs!TypeOK) => RefusedIsNoFailure
  BY SameClaimsOfUdp DEF RefusedIsNoFailure, UdpProofs!Inv
<1> QED
  BY <1>1, UdpAlways, PTL

(* UdpSocketIOFactory: for any numbers of addresses and ports, the         *)
(* destinations that create() returns pair what was given at the same      *)
(* position of the command line.                                           *)
THEOREM FactoryPairs == Spec => []PairsAsGiven
<1>1. (part = "factory" => FactoryInv /\ Factory!TypeOK) => PairsAsGiven
  BY PairsOfInv DEF PairsAsGiven
<1> QED
  BY <1>1, FactoryAlways, PTL

(* SerialPortIO: a port that is open with a setting missing belongs to a   *)
(* running IO whose Handler says Failed, whichever setting it was and      *)
(* however often the IO was started before.                                *)
THEOREM SerialMisconfigurationTold == Spec => []MisconfiguredIsFailed
<1>1. (part = "serial" => SerialInv) => MisconfiguredIsFailed
  BY DEF MisconfiguredIsFailed, SerialInv
<1> QED
  BY <1>1, SerialAlways, PTL

(* ByteGeneratorIO: one chain of timers, and one more for each that the    *)
(* last start() found pending.                                             *)
THEOREM GeneratorChainsCounted == Spec => []ChainsCounted
<1>1. (part = "generator" => GeneratorInv /\ Generator!TypeOK) => ChainsCounted
  BY DEF ChainsCounted, GeneratorInv
<1> QED
  BY <1>1, GeneratorAlways, PTL

(* ByteGeneratorIO: for every rate and packet size one chain emits the     *)
(* rate, and one packet per call less would not.                           *)
THEOREM GeneratorRateReached == Spec => []RateReached
<1>1. (part = "generator" => GeneratorInv /\ Generator!TypeOK) => RateReached
  BY RateByRounding DEF RateReached, GeneratorInv
<1> QED
  BY <1>1, GeneratorAlways, PTL

(* WebSocketIO: before the first stop() a reconnect that is due is the     *)
(* only one and never cuts a live connection.                              *)
THEOREM WebsocketReconnectsAlone == Spec => []ReconnectsAlone
<1>1. (part = "websocket" => WebsocketProofs!Inv /\ WebsocketProofs!TypeOK) => ReconnectsAlone
  BY SameClaimsOfWebsocket DEF ReconnectsAlone, WebsocketProofs!Inv
<1> QED
  BY <1>1, WebsocketAlways, PTL

(* WebSocketIO: with the reconnect option only a close frame of the peer   *)
(* leaves a running IO without connection, attempt and timer.              *)
THEOREM WebsocketOnlyCloseStrands == Spec => []StrandedByCloseOnly
<1>1. (part = "websocket" => WebsocketProofs!Inv /\ WebsocketProofs!TypeOK) => StrandedByCloseOnly
  BY SameClaimsOfWebsocket DEF StrandedByCloseOnly, WebsocketProofs!Inv
<1> QED
  BY <1>1, WebsocketAlways, PTL

(* WebSocketIO: in binary mode no packet makes the Handler of an unbroken  *)
(* connection refuse data.                                                 *)
THEOREM WebsocketBinarySafe == Spec => []BinaryIsSafe
<1>1. (part = "websocket" => WebsocketProofs!Inv /\ WebsocketProofs!TypeOK) => BinaryIsSafe
  BY SameClaimsOfWebsocket DEF BinaryIsSafe, WebsocketProofs!Inv
<1> QED
  BY <1>1, WebsocketAlways, PTL

(* ConsoleStatusPrinter: whatever the clock does, every byte is in exactly *)
(* one sample; and HumanReadableFormatter shows the sum in the smallest    *)
(* unit that leaves at most Kilo of it.                                    *)
THEOREM PrinterShowsAll == Spec => []EachByteShown
<1>1. (part = "printer" => PrinterInv) => EachByteShown
  BY ShownInSmallest DEF EachByteShown
<1> QED
  BY <1>1, PrinterAlways, PTL

(* WebSocketServerIO: a server that runs listens or is Failed, whoever has *)
(* its port, a server of an earlier run included.                          *)
THEOREM WsserverDeafIsFailed == Spec => []DeafIsFailed
<1>1. (part = "wsserver" => WsserverInv) => DeafIsFailed
  BY DEF DeafIsFailed, WsserverInv
<1> QED
  BY <1>1, WsserverAlways, PTL

(* Whatever their environment, the timers and the engine do, the six IOs   *)
(* keep the contracts of IOBase.tla, which Engine.tla assumes of them.     *)
THEOREM PartsImplementContracts == Spec => ContractKept
<1> DEFINE All == /\ part = "tcpserver" => ServerProofs!Inv
                  /\ part = "udp" => UdpProofs!Inv /\ UdpProofs!TypeOK
                  /\ part = "serial" => SerialInv
                  /\ part = "generator" => GeneratorInv /\ Generator!TypeOK
                  /\ part = "websocket" => WebsocketProofs!Inv /\ WebsocketProofs!TypeOK
           Begin == /\ part = "tcpserver" => Tcpserver!Abstract!Init
                    /\ part = "udp" => Udp!Abstract!Init
                    /\ part = "serial" => Serial!Abstract!Init
                    /\ part = "generator" => Generator!Abstract!Init
                    /\ part = "websocket" => Websocket!Abstract!Init
                    /\ part = "wsserver" => Wsserver!Abstract!Init
           Step == /\ part = "tcpserver" => [Tcpserver!Abstract!Next]_(Tcpserver!Abstract!vars)
                   /\ part = "udp" => [Udp!Abstract!Next]_(Udp!Abstract!vars)
                   /\ part = "serial" => [Serial!Abstract!Next]_(Serial!Abstract!vars)
                   /\ part = "generator" => [Generator!Abstract!Next]_(Generator!Abstract!vars)
                   /\ part = "websocket" => [Websocket!Abstract!Next]_(Websocket!Abstract!vars)
                   /\ part = "wsserver" => [Wsserver!Abstract!Next]_(Wsserver!Abstract!vars)
<1>1. Init => Begin
  <2> SUFFICES ASSUME Init PROVE Begin
    OBVIOUS
  <2>1. part = "tcpserver" => Tcpserver!Abstract!Init
    BY Begins, ServerProofs!ContractInit, SameContractOfTcpserver
  <2>2. part = "udp" => Udp!Abstract!Init
    BY Begins, UdpProofs!ContractInit, SameContractOfUdp
  <2>3. part = "serial" => Serial!Abstract!Init
    BY Begins, SerialSameHandler DEF Serial!Init, Serial!Abstract!Init, Serial!Condition
  <2>4. part = "generator" => Generator!Abstract!Init
    BY Begins, GeneratorSameHandler DEF Generator!Init, Generator!Abstract!Init
  <2>5. part = "websocket" => Websocket!Abstract!Init
    BY Begins, WebsocketProofs!ContractInit, SameContractOfWebsocket
  <2>6. part = "wsserver" => Wsserver!Abstract!Init
    BY Begins, WsserverSameHandler DEF Wsserver!Init, Wsserver!Abstract!Init, Wsserver!Condition
  <2> QED
    BY <2>1, <2>2, <2>3, <2>4, <2>5, <2>6
<1>2. All /\ [Next]_vars => Step
  <2> SUFFICES ASSUME All, [Next]_vars PROVE Step
    OBVIOUS
  <2>1. part = "tcpserver" => [Tcpserver!Abstract!Next]_(Tcpserver!Abstract!vars)
    BY Moves, ServerProofs!ContractStep, SameContractOfTcpserver
  <2>2. part = "udp" => [Udp!Abstract!Next]_(Udp!Abstract!vars)
    BY Moves, UdpProofs!ContractStep, SameContractOfUdp
  <2>3. part = "serial" => [Serial!Abstract!Next]_(Serial!Abstract!vars)
    BY Moves, SerialContractStep
  <2>4. part = "generator" => [Generator!Abstract!Next]_(Generator!Abstract!vars)
    BY Moves, GeneratorContractStep
  <2>5. part = "websocket" => [Websocket!Abstract!Next]_(Websocket!Abstract!vars)
    BY Moves, WebsocketProofs!ContractStep, SameContractOfWebsocket
  <2>6. part = "wsserver" => [Wsserver!Abstract!Next]_(Wsserver!Abstract!vars)
    BY Moves, WsserverContractStep
  <2> QED
    BY <2>1, <2>2, <2>3, <2>4, <2>5, <2>6
<1>3. Spec => []All
  BY TcpserverAlways, UdpAlways, SerialAlways, GeneratorAlways, WebsocketAlways, PTL
<1> HIDE DEF All, Begin, Step
<1>4. Spec => Begin /\ [][Step]_vars
  BY <1>1, <1>2, <1>3, PTL DEF Spec
<1> QED
  BY <1>4 DEF ContractKept, Begin, Step

=============================================================================
