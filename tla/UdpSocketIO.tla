----------------------------- MODULE UdpSocketIO ----------------------------
(***************************************************************************)
(* io/UdpSocketIO.cpp with the Handler that owns it: binding, joining      *)
(* multicast groups, echoing, and writing to one or several destinations.  *)
(***************************************************************************)
EXTENDS Handler, Sequences, SequencesExt

CONSTANTS Address,          \* the addresses datagrams may be sent to
          Multicast,        \* those that are multicast groups
          MaxDestinations,  \* bound: length of m_options.remoteAddresses
          MaxReads,         \* bound: datagrams received
          MaxWrites         \* bound: packets written

VARIABLES
  remoteAddresses,  \* m_options.remoteAddresses
  echo,             \* m_options.echo
  iface,            \* whether bindAddress belongs to a network interface
  socket,           \* m_socket: "none" for the null pointer, "unbound", "bound"
  joined,           \* the groups the socket is a member of
  wired,            \* the socket's signals are connected
  queue,            \* datagrams the socket holds unread
  faults,           \* history: the kinds of socket errors since start()
  handler,          \* the Handler
  running           \* Handler::start has been called and Handler::stop has not since

options  == <<remoteAddresses, echo, iface>>
udpState == <<socket, joined, wired, queue, faults>>
vars     == <<options, udpState, handler, running>>

Init ==
  /\ remoteAddresses \in BoundedSeq(Address, MaxDestinations)
  /\ echo \in BOOLEAN
  /\ iface \in BOOLEAN
  /\ socket = "none"
  /\ joined = {}
  /\ wired = FALSE
  /\ queue = 0
  /\ faults = {}
  /\ handler = NewHandler
  /\ running = FALSE

(* The first destination decides on the mode of all of them.               *)
IsMulticastConfig == remoteAddresses # <<>> /\ Head(remoteAddresses) \in Multicast

-----------------------------------------------------------------------------
(* Joining on the interface of bindAddress, then on the default one; an    *)
(* address that is no group cannot be joined.  Mutant: a failure on the    *)
(* interface is logged and not followed by the default one.                *)
JoinOutcome_NoFallback(a) ==
  IF a \notin Multicast THEN {"failed"}
  ELSE IF iface THEN {"joined", "skipped"} ELSE {"joined", "failed"}

JoinOutcome(a) == IF a \in Multicast THEN {"joined", "failed"} ELSE {"failed"}

Destinations == 1..Len(remoteAddresses)

(* start() gives up at the first group that cannot be joined: the socket   *)
(* stays bound and a member of the groups before, and nobody listens to it.*)
BindMulticast ==
  \E outcome \in [Destinations -> {"joined", "failed", "skipped"}] :
    /\ \A k \in Destinations : outcome[k] \in JoinOutcome(remoteAddresses[k])
    /\ LET tried == {k \in Destinations : \A j \in 1..(k - 1) : outcome[j] # "failed"}
       IN  /\ joined' = {remoteAddresses[k] : k \in {j \in tried : outcome[j] = "joined"}}
           /\ wired' = (tried = Destinations /\ \A k \in tried : outcome[k] # "failed")

(* Handler::start and UdpSocketIO::start                                   *)
HandlerStart ==
  /\ ~running
  /\ running' = TRUE
  /\ queue' = 0
  /\ faults' = {}
  /\ \/ socket' = "unbound" /\ joined' = {} /\ wired' = FALSE
     \/ socket' = "bound" /\ IF IsMulticastConfig THEN BindMulticast
                                                  ELSE joined' = {} /\ wired' = TRUE
  /\ handler' = Signaled(Connected(handler), IF wired' THEN "started" ELSE "startupErrorOccured")
  /\ UNCHANGED options

(* Handler::stop and UdpSocketIO::stop                                     *)
HandlerStop ==
  /\ running
  /\ running' = FALSE
  /\ socket' = "none"
  /\ joined' = {}
  /\ wired' = FALSE
  /\ queue' = 0
  /\ handler' = Disconnected(handler)
  /\ UNCHANGED <<options, faults>>

-----------------------------------------------------------------------------
(* What goes wrong in the socket: "refused" is the answer of a host that   *)
(* has no listener yet, and "other" is everything else.                    *)
Fault == {"none", "refused", "other"}

(* onSocketErrorOccurred.  Mutant: every error is forwarded.               *)
SocketError_All(h, fault) == Signaled(h, IF fault = "none" THEN "none" ELSE "errorOccured")

SocketError(h, fault) == Signaled(h, IF fault = "other" THEN "errorOccured" ELSE "none")

OnSocketErrorOccurred ==
  /\ wired
  /\ \E fault \in Fault \ {"none"} :
       /\ handler' = SocketError(handler, fault)
       /\ faults' = faults \cup {fault}
  /\ UNCHANGED <<options, socket, joined, wired, queue, running>>

(* The network: it also fills a socket that nobody reads.                  *)
DatagramArrives ==
  /\ socket = "bound"
  /\ queue + handler.read < MaxReads
  /\ queue' = queue + 1
  /\ UNCHANGED <<options, socket, joined, wired, faults, handler, running>>

(* One round of onReadyRead: receive, send back, newData.                  *)
OnReadyRead ==
  /\ wired
  /\ queue > 0
  /\ queue' = queue - 1
  /\ \E fault \in (IF echo THEN Fault ELSE {"none"}) :
       LET h == SocketError(handler, fault)
       IN  /\ handler' = IF h.data THEN DataRead(h) ELSE h
           /\ faults' = faults \cup ({fault} \ {"none"})
  /\ UNCHANGED <<options, socket, joined, wired, running>>

(* Where a packet goes: to the first group, or to every destination.       *)
Targets == IF IsMulticastConfig THEN {1} ELSE Destinations

(* Handler::writeData and UdpSocketIO::writeData, which dereferences       *)
(* m_socket.  Each datagram fails or not; the others are sent all the same.*)
WriteData ==
  /\ Accepts(handler)
  /\ running
  /\ handler.written < MaxWrites
  /\ \E fault \in [Targets -> Fault] :
       LET seen  == {fault[k] : k \in Targets}
           worst == IF "other" \in seen THEN "other" ELSE "none"
       IN  /\ handler' = [SocketError(handler, worst) EXCEPT !.written = @ + 1]
           /\ faults' = faults \cup (seen \ {"none"})
  /\ UNCHANGED <<options, socket, joined, wired, queue, running>>

Next ==
  \/ HandlerStart \/ HandlerStop \/ WriteData
  \/ OnSocketErrorOccurred \/ OnReadyRead \/ DatagramArrives

Spec == Init /\ [][Next]_vars

-----------------------------------------------------------------------------
TypeOK ==
  /\ remoteAddresses \in Seq(Address)
  /\ {echo, iface, wired, running} \subseteq BOOLEAN
  /\ socket \in {"none", "unbound", "bound"}
  /\ joined \subseteq Address
  /\ queue \in 0..MaxReads
  /\ faults \subseteq Fault
  /\ handler \in Handlers

(* A UDP IO that reports started in multicast mode is a member of every    *)
(* group it was given, although each join has two attempts and the loop    *)
(* can stop anywhere; what is written goes to a bound socket; and between  *)
(* stop() and start() the port is free and no group is joined, also when   *)
(* start() had given up half way.                                          *)
StartedIsMember ==
  /\ (running /\ Accepts(handler)) =>
       /\ socket = "bound"
       /\ IsMulticastConfig => joined = {remoteAddresses[k] : k \in Destinations}
  /\ ~running => (socket = "none" /\ joined = {})

(* "Do not forward as error, if there is no remote listener yet"           *)
(* (UdpSocketIO.cpp:192): refused datagrams, whether written, echoed or    *)
(* reported between two events, never make a started IO Failed.            *)
RefusedIsNoFailure == (running /\ wired /\ "other" \notin faults) => Accepts(handler)

(* To its Handler the IO behaves as the contract the engine assumes.       *)
Condition == IF ~running THEN "idle" ELSE IF wired THEN "open" ELSE "failed"
Abstract == INSTANCE IOContract WITH contract <- UdpSocketContract, dev <- Condition
ContractKept == Abstract!Spec

=============================================================================
