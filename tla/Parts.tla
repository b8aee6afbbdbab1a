-------------------------------- MODULE Parts -------------------------------
(* The parts that have little state of their own, side by side: the        *)
(* initial state picks one of them, and the behaviour is that of this one. *)
(* A variable that is not of the part is Unused and stays so.              *)
EXTENDS Integers

CONSTANTS
  Unused,
  (* of every IO that has them *)   MaxStops, MaxReads, MaxWrites,
  (* TcpServerIO *)                 Client, maxConnections, Broadcast,
  (* UdpSocketIO *)                 Address, Multicast, MaxDestinations,
  (* UdpSocketIOFactory *)          GivenAddress, GivenPort, None, MaxGiven, MaxIndex,
  (* ByteGeneratorIO *)             Rate, PacketSize, MaxRestarts, MaxPackets,
  (* WebSocketIO *)                 MaxTimers,
  (* WebSocketServerIO *)           MaxListeners,
  (* StatusPrinter *)               Second, Kilo, MaxBytes, MaxTime

ASSUME LimitAssumption == maxConnections \in Nat
ASSUME RatesAssumption == Rate \subseteq Nat /\ PacketSize \subseteq Nat \ {0}
ASSUME UnitAssumption == Kilo \in Nat \ {0}
ASSUME PartsBoundsAssumption ==
  {MaxStops, MaxReads, MaxDestinations, MaxGiven, MaxRestarts, MaxTimers, MaxTime} \subseteq Nat

VARIABLES
  part,
  (* of every IO *)                 handler, running, stops,
  (* of both sockets, or of UDP and its factory *)  socket, remoteAddresses,
  (* TcpServerIO *)                 m_sockets, object, listening, stopping, walk,
  (* UdpSocketIO *)                 echo, iface, joined, wired, queue, faults,
  (* UdpSocketIOFactory *)          addresses, ports, index, result,
  (* SerialPortIO *)                open, settings, plugged,
  (* ByteGeneratorIO *)             bytesPerSecond, packetSize, m_run, left, emitting, due, set, found,
  (* WebSocketIO *)                 reconnect, binary, timers, alive, peer, broken,
  (* WebSocketServerIO *)           bindPort, m_server, listeners, taken,
  (* StatusPrinter *)               sum, now, m_previousStatistic, m_previousStatisticTimestamp, rate, printed

tcpserver == <<m_sockets, object, listening, stopping, walk>>
udp       == <<echo, iface, joined, wired, queue, faults>>
factory   == <<addresses, ports, index, result>>
serial    == <<open, settings, plugged>>
generator == <<bytesPerSecond, packetSize, m_run, left, emitting, due, set, found>>
websocket == <<reconnect, binary, timers, alive, peer, broken>>
wsserver  == <<bindPort, m_server, listeners, taken>>
printer   == <<sum, now, m_previousStatistic, m_previousStatisticTimestamp, rate, printed>>

vars == <<part, handler, running, stops, socket, remoteAddresses, tcpserver,
          udp, factory, serial, generator, websocket, wsserver, printer>>

Tcpserver == INSTANCE TcpServerIO
Udp       == INSTANCE UdpSocketIO
Factory   == INSTANCE UdpSocketIOFactory WITH Address <- GivenAddress, Port <- GivenPort
Serial    == INSTANCE SerialPortIO
Generator == INSTANCE ByteGeneratorIO WITH MaxStops <- MaxRestarts, MaxReads <- MaxPackets
Websocket == INSTANCE WebSocketIO
Wsserver  == INSTANCE WebSocketServerIO
Printer   == INSTANCE StatusPrinter

-----------------------------------------------------------------------------
(* The variables that are none of the part's.                              *)
NotTcpserver == <<stops, socket, remoteAddresses, udp, factory, serial, generator, websocket, wsserver,
                  printer>>
NotUdp       == <<stops, tcpserver, factory, serial, generator, websocket, wsserver, printer>>
NotFactory   == <<handler, running, stops, socket, tcpserver, udp, serial, generator, websocket, wsserver, printer>>
NotSerial    == <<socket, remoteAddresses, tcpserver, udp, factory, generator, websocket, wsserver, printer>>
NotGenerator == <<socket, remoteAddresses, tcpserver, udp, factory, serial, websocket, wsserver, printer>>
NotWebsocket == <<remoteAddresses, tcpserver, udp, factory, serial, generator, wsserver, printer>>
NotWsserver  == <<stops, socket, remoteAddresses, tcpserver, udp, factory, serial, generator, websocket, printer>>
NotPrinter   == <<handler, running, stops, socket, remoteAddresses, tcpserver, udp, factory, serial, generator,
                  websocket, wsserver>>

NoTcpserver == m_sockets = Unused /\ object = Unused /\ listening = Unused /\ stopping = Unused
               /\ walk = Unused
NoUdp       == echo = Unused /\ iface = Unused /\ joined = Unused /\ wired = Unused /\ queue = Unused
               /\ faults = Unused
NoFactory   == addresses = Unused /\ ports = Unused /\ index = Unused /\ result = Unused
NoSerial    == open = Unused /\ settings = Unused /\ plugged = Unused
NoGenerator == bytesPerSecond = Unused /\ packetSize = Unused /\ m_run = Unused /\ left = Unused
               /\ emitting = Unused /\ due = Unused /\ set = Unused /\ found = Unused
NoWebsocket == reconnect = Unused /\ binary = Unused /\ timers = Unused /\ alive = Unused
               /\ peer = Unused /\ broken = Unused
NoWsserver  == bindPort = Unused /\ m_server = Unused /\ listeners = Unused /\ taken = Unused
NoPrinter   == sum = Unused /\ now = Unused /\ m_previousStatistic = Unused
               /\ m_previousStatisticTimestamp = Unused /\ rate = Unused /\ printed = Unused
NoHandler   == handler = Unused /\ running = Unused

Init ==
  \/ /\ part = "tcpserver" /\ Tcpserver!Init
     /\ stops = Unused /\ socket = Unused /\ remoteAddresses = Unused
     /\ NoUdp /\ NoFactory /\ NoSerial /\ NoGenerator /\ NoWebsocket /\ NoWsserver /\ NoPrinter
  \/ /\ part = "udp"       /\ Udp!Init
     /\ stops = Unused
     /\ NoTcpserver /\ NoFactory /\ NoSerial /\ NoGenerator /\ NoWebsocket /\ NoWsserver /\ NoPrinter
  \/ /\ part = "factory"   /\ Factory!Init
     /\ NoHandler /\ stops = Unused /\ socket = Unused
     /\ NoTcpserver /\ NoUdp /\ NoSerial /\ NoGenerator /\ NoWebsocket /\ NoWsserver /\ NoPrinter
  \/ /\ part = "serial"    /\ Serial!Init
     /\ socket = Unused /\ remoteAddresses = Unused
     /\ NoTcpserver /\ NoUdp /\ NoFactory /\ NoGenerator /\ NoWebsocket /\ NoWsserver /\ NoPrinter
  \/ /\ part = "generator" /\ Generator!Init
     /\ socket = Unused /\ remoteAddresses = Unused
     /\ NoTcpserver /\ NoUdp /\ NoFactory /\ NoSerial /\ NoWebsocket /\ NoWsserver /\ NoPrinter
  \/ /\ part = "websocket" /\ Websocket!Init
     /\ remoteAddresses = Unused
     /\ NoTcpserver /\ NoUdp /\ NoFactory /\ NoSerial /\ NoGenerator /\ NoWsserver /\ NoPrinter
  \/ /\ part = "wsserver"  /\ Wsserver!Init
     /\ stops = Unused /\ socket = Unused /\ remoteAddresses = Unused
     /\ NoTcpserver /\ NoUdp /\ NoFactory /\ NoSerial /\ NoGenerator /\ NoWebsocket /\ NoPrinter
  \/ /\ part = "printer"   /\ Printer!Init
     /\ NoHandler /\ stops = Unused /\ socket = Unused /\ remoteAddresses = Unused
     /\ NoTcpserver /\ NoUdp /\ NoFactory /\ NoSerial /\ NoGenerator /\ NoWebsocket /\ NoWsserver

Next ==
  /\ UNCHANGED part
  /\ \/ part = "tcpserver" /\ Tcpserver!Next /\ UNCHANGED NotTcpserver
     \/ part = "udp"       /\ Udp!Next       /\ UNCHANGED NotUdp
     \/ part = "factory"   /\ Factory!Next   /\ UNCHANGED NotFactory
     \/ part = "serial"    /\ Serial!Next    /\ UNCHANGED NotSerial
     \/ part = "generator" /\ Generator!Next /\ UNCHANGED NotGenerator
     \/ part = "websocket" /\ Websocket!Next /\ UNCHANGED NotWebsocket
     \/ part = "wsserver"  /\ Wsserver!Next  /\ UNCHANGED NotWsserver
     \/ part = "printer"   /\ Printer!Next   /\ UNCHANGED NotPrinter

(* The fairness of the parts that have one.                                *)
OfFactory   == part = "factory"   /\ UNCHANGED <<part, NotFactory>>
OfGenerator == part = "generator" /\ UNCHANGED <<part, NotGenerator>>
OfWebsocket == part = "websocket" /\ UNCHANGED <<part, NotWebsocket>>

Fairness ==
  /\ WF_vars(OfFactory /\ Factory!Next)
  /\ WF_vars(OfGenerator /\ Generator!TimerFires)
  /\ WF_vars(OfGenerator /\ Generator!EmitPacket)
  /\ WF_vars(OfGenerator /\ Generator!NextReturns)
  /\ WF_vars(OfGenerator /\ Generator!Tick)
  /\ WF_vars(OfWebsocket /\ Websocket!TimerFires)
  /\ WF_vars(OfWebsocket /\ Websocket!OnConnected)
  /\ WF_vars(OfWebsocket /\ Websocket!SocketFails)

Spec == Init /\ [][Next]_vars /\ Fairness

-----------------------------------------------------------------------------
(* Each property is that of the part, for the behaviours of the part.      *)

OthersUnused ==
  /\ part # "tcpserver" => NoTcpserver
  /\ part # "udp" => NoUdp
  /\ part # "factory" => NoFactory
  /\ part # "serial" => NoSerial
  /\ part # "generator" => NoGenerator
  /\ part # "websocket" => NoWebsocket
  /\ part # "wsserver" => NoWsserver
  /\ part # "printer" => NoPrinter
  /\ part \in {"factory", "printer"} => NoHandler
  /\ part \notin {"serial", "generator", "websocket"} => stops = Unused
  /\ part \notin {"udp", "websocket"} => socket = Unused
  /\ part \notin {"udp", "factory"} => remoteAddresses = Unused

(* Every variable of the part has its type, and every other is Unused.     *)
TypeOK ==
  /\ part \in {"tcpserver", "udp", "factory", "serial", "generator", "websocket", "wsserver", "printer"}
  /\ part = "tcpserver" => Tcpserver!TypeOK
  /\ part = "udp" => Udp!TypeOK
  /\ part = "factory" => Factory!TypeOK
  /\ part = "serial" => Serial!TypeOK
  /\ part = "generator" => Generator!TypeOK
  /\ part = "websocket" => Websocket!TypeOK
  /\ part = "wsserver" => Wsserver!TypeOK
  /\ part = "printer" => Printer!TypeOK
  /\ OthersUnused

(* TcpServerIO: the list holds the open sockets, each of them once.        *)
SocketsLive == part = "tcpserver" => Tcpserver!SocketsLive
(* TcpServerIO: no more clients than max_connections, none when stopped.   *)
LimitHeld == part = "tcpserver" => Tcpserver!LimitHeld

(* UdpSocketIO: it reports started only as a member of all its groups.     *)
StartedIsMember == part = "udp" => Udp!StartedIsMember
(* UdpSocketIO: a missing remote listener never makes it Failed.           *)
RefusedIsNoFailure == part = "udp" => Udp!RefusedIsNoFailure

(* UdpSocketIOFactory: addresses and ports are paired as they were given.  *)
PairsAsGiven == part = "factory" => Factory!PairsAsGiven
(* UdpSocketIOFactory: create() returns, with what Factories.tla says,     *)
(* when a destination is given.                                            *)
CreateReturns ==
  (part = "factory" /\ (addresses # <<>> \/ ports # <<>>))
    => <>(part = "factory" /\ Factory!Returned)

(* SerialPortIO: bytes read with a setting missing come from a Failed IO.  *)
MisconfiguredIsFailed == part = "serial" => Serial!MisconfiguredIsFailed

(* ByteGeneratorIO: as many chains of timers as start() found, and one.    *)
ChainsCounted == part = "generator" => Generator!ChainsCounted
(* ByteGeneratorIO: a chain emits bytesPerSecond, and no packet in vain.   *)
RateReached == part = "generator" => Generator!RateReached
(* ByteGeneratorIO: stopped for good, every chain ends.                    *)
StoppedChainsEnd ==
  <>[](part = "generator" /\ ~m_run) => <>[](part = "generator" /\ Generator!Chains = 0)

(* WebSocketIO: a reconnect that is due never cuts a live connection.      *)
ReconnectsAlone == part = "websocket" => Websocket!ReconnectsAlone
(* WebSocketIO: only a close frame leaves it without connection and timer. *)
StrandedByCloseOnly == part = "websocket" => Websocket!StrandedByCloseOnly
(* WebSocketIO: it ends up connected when its peer stays.                  *)
Recovers ==
  <>[](part = "websocket" /\ reconnect /\ running /\ peer = "up" /\ socket # "closed")
    => <>[](part = "websocket" /\ socket = "connected" /\ alive)
(* WebSocketIO: in binary mode no packet makes it Failed.                  *)
BinaryIsSafe == part = "websocket" => Websocket!BinaryIsSafe

(* WebSocketServerIO: a server that runs without its port is Failed.       *)
DeafIsFailed == part = "wsserver" => Wsserver!DeafIsFailed

(* ConsoleStatusPrinter: every byte is in exactly one sample, and shown in *)
(* the smallest unit that fits.                                            *)
EachByteShown == part = "printer" => Printer!EachByteShown

(* Every IO is to its Handler what its contract of IOBase.tla says.        *)
ContractKept ==
  /\ part = "tcpserver" => Tcpserver!Abstract!Init
  /\ part = "udp" => Udp!Abstract!Init
  /\ part = "serial" => Serial!Abstract!Init
  /\ part = "generator" => Generator!Abstract!Init
  /\ part = "websocket" => Websocket!Abstract!Init
  /\ part = "wsserver" => Wsserver!Abstract!Init
  /\ [][/\ part = "tcpserver" => [Tcpserver!Abstract!Next]_(Tcpserver!Abstract!vars)
        /\ part = "udp" => [Udp!Abstract!Next]_(Udp!Abstract!vars)
        /\ part = "serial" => [Serial!Abstract!Next]_(Serial!Abstract!vars)
        /\ part = "generator" => [Generator!Abstract!Next]_(Generator!Abstract!vars)
        /\ part = "websocket" => [Websocket!Abstract!Next]_(Websocket!Abstract!vars)
        /\ part = "wsserver" => [Wsserver!Abstract!Next]_(Wsserver!Abstract!vars)]_vars
=============================================================================
