----------------------------- MODULE TcpServerIO ----------------------------
(***************************************************************************)
(* io/TcpServerIO.cpp with the Handler that owns it, and the clients that  *)
(* connect, send and leave.                                                *)
(***************************************************************************)
EXTENDS Handler, Sequences, FiniteSets

CONSTANTS Client,
          maxConnections,  \* m_options.maxConnections
          Broadcast,       \* m_options.broadcast
          MaxReads,        \* bound: packets read
          MaxWrites        \* bound: packets written

VARIABLES
  m_sockets,  \* the accepted sockets, oldest first
  object,     \* the QTcpSocket of every client: "none", "open", "closed" by
              \* onSocketDisconnected with deleteLater() to come, or "deleted"
  listening,  \* m_server.isListening()
  handler,    \* the Handler
  running,    \* Handler::start has been called and Handler::stop is not back since
  stopping,   \* the loop of stop(): "no", or about to "abort" or "delete" a socket
  walk        \* that loop: the array it goes over, the slot in it where m_sockets
              \* begins, the slot of its iterator, and its variable sock

loop == <<stopping, walk>>
vars == <<m_sockets, object, listening, handler, running, loop>>

Accepted == {m_sockets[k] : k \in 1..Len(m_sockets)}
NoWalk   == [slots |-> <<>>, first |-> 1, at |-> 1, sock |-> "nullptr"]

Init ==
  /\ m_sockets = <<>>
  /\ object = [c \in Client |-> "none"]
  /\ listening = FALSE
  /\ handler = NewHandler
  /\ running = FALSE
  /\ stopping = "no"
  /\ walk = NoWalk

-----------------------------------------------------------------------------
(* Mutant: no return after startupErrorOccured.                            *)
HandlerStart_Continues ==
  /\ ~running
  /\ running' = TRUE
  /\ listening' \in BOOLEAN
  /\ handler' = Signaled(Connected(handler), "started")
  /\ UNCHANGED <<m_sockets, object, loop>>

(* Handler::start and TcpServerIO::start                                   *)
HandlerStart ==
  /\ ~running
  /\ running' = TRUE
  /\ listening' \in BOOLEAN
  /\ handler' = Signaled(Connected(handler),
                         IF listening' THEN "started" ELSE "startupErrorOccured")
  /\ UNCHANGED <<m_sockets, object, loop>>

(* QList::erase of the k-th element: without its first the list begins one *)
(* slot later, unless it is empty then; after any other the elements move  *)
(* down by one.                                                            *)
Erased(k) ==
  IF k = 1
  THEN [walk EXCEPT !.first = IF Len(m_sockets) > 1 THEN @ + 1 ELSE @]
  ELSE [walk EXCEPT !.slots = [s \in DOMAIN @ |->
          IF s \in (walk.first + k - 1)..(walk.first + Len(m_sockets) - 2) THEN @[s + 1] ELSE @[s]]]

RemoveOne(k) ==
  m_sockets' = [j \in 1..(Len(m_sockets) - 1) |-> m_sockets[IF j < k THEN j ELSE j + 1]]

(* onSocketDisconnected: removeOne of the first that is c, deleteLater.    *)
(* A loop over the list goes on in the array as the removal leaves it.     *)
SocketDisconnected(c) ==
  /\ \E k \in 1..Len(m_sockets) :
       /\ m_sockets[k] = c
       /\ \A j \in 1..(k - 1) : m_sockets[j] # c
       /\ RemoveOne(k)
       /\ walk' = IF stopping = "no" THEN walk ELSE [Erased(k) EXCEPT !.sock = c]
  /\ object' = [object EXCEPT ![c] = "closed"]

(* Handler::stop enters TcpServerIO::stop: m_server.close(), and the loop  *)
(* takes the two ends of the array that it will go over.                   *)
HandlerStop ==
  /\ running
  /\ stopping = "no"
  /\ listening' = FALSE
  /\ stopping' = "abort"
  /\ walk' = [NoWalk EXCEPT !.slots = m_sockets]
  /\ UNCHANGED <<m_sockets, object, handler, running>>

(* Mutant: the loop counts, as that of the broadcast does.                 *)
Left_ByIndex == SubSeq(m_sockets, walk.at, Len(m_sockets))

(* The slots that the loop has before it.                                  *)
Left == SubSeq(walk.slots, walk.at, Len(walk.slots))

(* abort() of an open socket emits disconnected, and calls the slot before *)
(* it returns; that of any other returns at once.                          *)
StopAborts ==
  /\ stopping = "abort"
  /\ Left # <<>>
  /\ stopping' = "delete"
  /\ LET sock == Head(Left)
     IN  IF object[sock] = "open"
         THEN SocketDisconnected(sock)
         ELSE walk' = [walk EXCEPT !.sock = sock] /\ UNCHANGED <<m_sockets, object>>
  /\ UNCHANGED <<listening, handler, running>>

(* delete takes the place of the deleteLater() that is due.                *)
StopDeletes ==
  /\ stopping = "delete"
  /\ stopping' = "abort"
  /\ object' = [object EXCEPT ![walk.sock] = "deleted"]
  /\ walk' = [walk EXCEPT !.at = @ + 1, !.sock = "nullptr"]
  /\ UNCHANGED <<m_sockets, listening, handler, running>>

(* m_sockets.clear(), and Handler::stop disconnects.                       *)
StopReturns ==
  /\ stopping = "abort"
  /\ Left = <<>>
  /\ m_sockets' = <<>>
  /\ running' = FALSE
  /\ handler' = Disconnected(handler)
  /\ stopping' = "no"
  /\ walk' = NoWalk
  /\ UNCHANGED <<object, listening>>

(* The event loop deletes what deleteLater() left to it.                   *)
DeferredDelete(c) ==
  /\ stopping = "no"
  /\ object[c] = "closed"
  /\ object' = [object EXCEPT ![c] = "deleted"]
  /\ UNCHANGED <<m_sockets, listening, handler, running, loop>>

(* onServerNewConnection: one connection above the limit is refused, which *)
(* is reported as an error of the whole IO.  Mutant: the limit off by one. *)
OnServerNewConnection_OneMore(c) ==
  /\ listening
  /\ object[c] \in {"none", "deleted"}
  /\ IF Len(m_sockets) > maxConnections
     THEN /\ handler' = Signaled(handler, "errorOccured")
          /\ object' = [object EXCEPT ![c] = "deleted"]
          /\ UNCHANGED m_sockets
     ELSE /\ m_sockets' = Append(m_sockets, c)
          /\ object' = [object EXCEPT ![c] = "open"]
          /\ UNCHANGED handler
  /\ UNCHANGED <<listening, running, loop>>

OnServerNewConnection(c) ==
  /\ listening
  /\ object[c] \in {"none", "deleted"}
  /\ IF Len(m_sockets) >= maxConnections
     THEN /\ handler' = Signaled(handler, "errorOccured")
          /\ object' = [object EXCEPT ![c] = "deleted"]
          /\ UNCHANGED m_sockets
     ELSE /\ m_sockets' = Append(m_sockets, c)
          /\ object' = [object EXCEPT ![c] = "open"]
          /\ UNCHANGED handler
  /\ UNCHANGED <<listening, running, loop>>

OnServerAcceptError ==
  /\ listening
  /\ handler' = Signaled(handler, "errorOccured")
  /\ UNCHANGED <<m_sockets, object, listening, running, loop>>

(* The connection of c ends: onSocketErrorOccured (closing by the remote   *)
(* is an error too), then onSocketDisconnected.                            *)
OnSocketDisconnected(c) ==
  /\ stopping = "no"
  /\ SocketDisconnected(c)
  /\ handler' = Signaled(handler, "errorOccured")
  /\ UNCHANGED <<listening, running, stopping>>

(* writeSocket to each of sockets: any of them may fail, with an error.    *)
WriteSockets(sockets, h) ==
  {h} \cup (IF sockets = {} THEN {} ELSE {Signaled(h, "errorOccured")})

(* onSocketReadyRead: the broadcast to the others, then newData.           *)
OnSocketReadyRead(c) ==
  /\ stopping = "no"
  /\ c \in Accepted
  /\ handler.data
  /\ handler.read < MaxReads
  /\ \E h \in WriteSockets(IF Broadcast THEN Accepted \ {c} ELSE {}, handler) :
       handler' = DataRead(h)
  /\ UNCHANGED <<m_sockets, object, listening, running, loop>>

(* Handler::writeData with TcpServerIO::writeData; the engine writes to a  *)
(* running IO only (NoWriteToStopped, Engine.tla).                         *)
WriteData ==
  /\ stopping = "no"
  /\ Accepts(handler)
  /\ running
  /\ handler.written < MaxWrites
  /\ \E h \in WriteSockets(Accepted, handler) : handler' = DataWritten(h, "none")
  /\ UNCHANGED <<m_sockets, object, listening, running, loop>>

Next ==
  \/ HandlerStart \/ HandlerStop \/ StopAborts \/ StopDeletes \/ StopReturns
  \/ WriteData \/ OnServerAcceptError
  \/ \E c \in Client : OnServerNewConnection(c) \/ OnSocketDisconnected(c) \/ OnSocketReadyRead(c)
  \/ \E c \in Client : DeferredDelete(c)

Spec == Init /\ [][Next]_vars

-----------------------------------------------------------------------------
TypeOK ==
  /\ m_sockets \in Seq(Client)
  /\ object \in [Client -> {"none", "open", "closed", "deleted"}]
  /\ {listening, running} \subseteq BOOLEAN
  /\ handler \in Handlers
  /\ stopping \in {"no", "abort", "delete"}
  /\ walk \in [slots : Seq(Client), first : Nat, at : Nat, sock : Client \cup {"nullptr"}]

(* The list holds every open socket once and no other, through refusals,   *)
(* departures and stop(): writeData and the broadcast never use a dangling *)
(* pointer, and no client's socket is forgotten.  The loop of stop(), in   *)
(* the array that onSocketDisconnected removes from meanwhile, comes to no *)
(* socket that is deleted already.                                         *)
SocketsLive ==
  /\ Accepted = {c \in Client : object[c] = "open"}
  /\ Cardinality(Accepted) = Len(m_sockets)
  /\ \A k \in 1..Len(Left) : object[Left[k]] # "deleted"

(* max_connections is the most clients the server ever has, and it has     *)
(* none while it is not started, but those that stop() is about to close.  *)
LimitHeld ==
  /\ Len(m_sockets) <= maxConnections
  /\ (m_sockets # <<>>) => (running /\ (listening \/ stopping # "no"))

(* To its Handler the IO behaves as the contract the engine assumes; it is *)
(* stopped as soon as stop() begins, which reports nothing any more.       *)
Stopped   == ~running \/ stopping # "no"
Abstract  == INSTANCE IOContract
               WITH contract <- TcpServerContract,
                    handler <- IF stopping = "no" THEN handler ELSE Disconnected(handler),
                    dev <- IF Stopped THEN "idle" ELSE IF listening THEN "open" ELSE "failed"
ContractKept == Abstract!Spec

(* "[...] provide all data via TCP or UDP to multiple clients"             *)
(* (README.md:27): whoever is connected is served.                         *)
ClientsServed == (running /\ m_sockets # <<>>) => Accepts(handler)

=============================================================================
