-------------------------- MODULE WebSocketServerIO -------------------------
(***************************************************************************)
(* io/WebSocketServerIO.cpp with the Handler that owns it.  None of the    *)
(* server's signals is connected, so no client is ever taken from it;      *)
(* stop() is empty, and every start() makes another server.                *)
(***************************************************************************)
EXTENDS Handler

CONSTANT MaxListeners  \* bound: servers that one IO leaves listening

VARIABLES
  bindPort,   \* m_options.bindPort: "any" for 0, "fixed" for a given one
  m_server,   \* the server made last: "none", "listens" or "deaf"
  listeners,  \* the QWebSocketServers that listen
  taken,      \* somebody else has the given port
  handler,    \* the Handler
  running     \* Handler::start has been called and Handler::stop has not since

vars == <<bindPort, m_server, listeners, taken, handler, running>>

Init ==
  /\ bindPort \in {"any", "fixed"}
  /\ m_server = "none"
  /\ listeners = 0
  /\ taken \in BOOLEAN
  /\ handler = NewHandler
  /\ running = FALSE

(* listen() needs a port that nobody has, the servers before included.     *)
Listens == bindPort = "any" \/ (~taken /\ listeners = 0)

(* Mutant: listen() is trusted.                                            *)
HandlerStart_Silent ==
  /\ ~running
  /\ running' = TRUE
  /\ m_server' = IF Listens THEN "listens" ELSE "deaf"
  /\ listeners' = IF Listens THEN listeners + 1 ELSE listeners
  /\ handler' = Connected(handler)
  /\ UNCHANGED <<bindPort, taken>>

(* Handler::start and WebSocketServerIO::start                             *)
HandlerStart ==
  /\ ~running
  /\ running' = TRUE
  /\ m_server' = IF Listens THEN "listens" ELSE "deaf"
  /\ listeners' = IF Listens THEN listeners + 1 ELSE listeners
  /\ handler' = Signaled(Connected(handler), IF Listens THEN "none" ELSE "errorOccured")
  /\ UNCHANGED <<bindPort, taken>>

(* Handler::stop; WebSocketServerIO::stop does nothing.                    *)
HandlerStop ==
  /\ running
  /\ bindPort = "any" => listeners < MaxListeners
  /\ running' = FALSE
  /\ handler' = Disconnected(handler)
  /\ UNCHANGED <<bindPort, m_server, listeners, taken>>

OthersBind ==
  /\ taken \/ bindPort = "any" \/ listeners = 0
  /\ taken' = ~taken
  /\ UNCHANGED <<bindPort, m_server, listeners, handler, running>>

Next == HandlerStart \/ HandlerStop \/ OthersBind

Spec == Init /\ [][Next]_vars

-----------------------------------------------------------------------------
TypeOK ==
  /\ bindPort \in {"any", "fixed"}
  /\ m_server \in {"none", "listens", "deaf"}
  /\ listeners \in Nat
  /\ {taken, running} \subseteq BOOLEAN
  /\ handler \in Handlers

(* A server that runs listens, or its Handler is Failed, whoever has the   *)
(* port: another program, or the server that an earlier run of this IO     *)
(* left behind with its empty stop().                                      *)
DeafIsFailed == running => (m_server = "listens" \/ handler.state = "Failed")

(* To its Handler the IO behaves as the contract the engine assumes.       *)
Condition == IF ~running THEN "idle" ELSE IF m_server = "deaf" THEN "failed" ELSE "open"
Abstract == INSTANCE IOContract WITH contract <- WebSocketServerContract, dev <- Condition
ContractKept == Abstract!Spec

=============================================================================
