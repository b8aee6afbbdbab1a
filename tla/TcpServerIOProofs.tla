-------------------------- MODULE TcpServerIOProofs -------------------------
(***************************************************************************)
(* Theorems about TcpServerIO.tla, for any number of clients and every     *)
(* limit.                                                                  *)
(***************************************************************************)
EXTENDS TcpServerIO, TLAPS, SequenceTheorems, FiniteSetTheorems

(* max_connections is read as an unsigned number but kept in an int: the   *)
(* theorems leave out what is beyond 2^31 and refuses every client.        *)
Limited == maxConnections \in Nat

(* SocketsLive speaks of a cardinality; that no socket is listed twice is  *)
(* what the steps preserve.                                                *)
Distinct == \A i, j \in 1..Len(m_sockets) : m_sockets[i] = m_sockets[j] => i = j
OpenOnes == Accepted = {c \in Client : object[c] = "open"}

(* A server that is not running does not listen, and its handler hears     *)
(* nothing of it.                                                          *)
Quiet == ~running => (~listening /\ handler.lifecycle = 0 /\ stopping = "no")

(* What the loop of stop() rests on: from its slot on, or from the next    *)
(* once a socket is aborted, the array holds what the list still holds, in *)
(* order.  Each removal is thus one of the first, which moves no element.  *)
Ahead(n) ==
  /\ walk.at >= 1 /\ walk.at + n <= Len(walk.slots) + 1
  /\ Len(m_sockets) = Len(walk.slots) + 1 - walk.at - n
  /\ \A j \in 1..Len(m_sockets) : m_sockets[j] = walk.slots[walk.at + n + j - 1]

Walks ==
  /\ stopping = "no" => walk = NoWalk
  /\ stopping # "no" => (running /\ ~listening)
  /\ stopping = "abort" => Ahead(0)
  /\ stopping = "delete" =>
       (Ahead(1) /\ walk.sock = walk.slots[walk.at] /\ object[walk.sock] = "closed")

Inv == TypeOK /\ Distinct /\ OpenOnes /\ LimitHeld /\ Quiet /\ Walks

-----------------------------------------------------------------------------
(* What the operators of Handler.tla do to a handler record.               *)
LEMMA NewHandlerFacts ==
  /\ NewHandler \in Handlers
  /\ NewHandler.data /\ NewHandler.lifecycle = 0 /\ ~Accepts(NewHandler)
  BY DEF NewHandler, Handlers, State, Accepts

LEMMA ConnectedFacts ==
  ASSUME NEW h \in Handlers
  PROVE  /\ Connected(h) \in Handlers
         /\ Connected(h).data = h.data
         /\ Connected(h).lifecycle > 0
         /\ Connected(h).read = h.read /\ Connected(h).written = h.written
  BY DEF Connected, Handlers

LEMMA DisconnectedFacts ==
  ASSUME NEW h \in Handlers
  PROVE  /\ Disconnected(h) \in Handlers
         /\ ~Disconnected(h).data /\ Disconnected(h).lifecycle = 0
         /\ Disconnected(h).read = h.read /\ Disconnected(h).written = h.written
  BY DEF Disconnected, Handlers

LEMMA DataReadFacts ==
  ASSUME NEW h \in Handlers
  PROVE  /\ DataRead(h) \in Handlers
         /\ DataRead(h).data = h.data /\ DataRead(h).lifecycle = h.lifecycle
         /\ DataRead(h).state = h.state
         /\ DataRead(h).read = h.read + 1 /\ DataRead(h).written = h.written
  BY DEF DataRead, Handlers

(* A lifecycle signal changes the state at most.                           *)
LEMMA SignaledFacts ==
  ASSUME NEW h \in Handlers, NEW signal
  PROVE  /\ Signaled(h, signal) \in Handlers
         /\ Signaled(h, signal).data = h.data
         /\ Signaled(h, signal).lifecycle = h.lifecycle
         /\ Signaled(h, signal).read = h.read /\ Signaled(h, signal).written = h.written
<1>1. \A s \in {"Failed", "Started"} :
        /\ [h EXCEPT !.state = s] \in Handlers
        /\ [h EXCEPT !.state = s].data = h.data
        /\ [h EXCEPT !.state = s].lifecycle = h.lifecycle
        /\ [h EXCEPT !.state = s].read = h.read /\ [h EXCEPT !.state = s].written = h.written
  BY DEF Handlers, State
<1> QED
  BY <1>1 DEF Signaled

LEMMA DataWrittenFacts ==
  ASSUME NEW h \in Handlers, NEW signal
  PROVE  /\ DataWritten(h, signal) \in Handlers
         /\ DataWritten(h, signal).data = h.data
         /\ DataWritten(h, signal).lifecycle = h.lifecycle
         /\ DataWritten(h, signal).state = Signaled(h, signal).state
         /\ DataWritten(h, signal).read = h.read
         /\ DataWritten(h, signal).written = h.written + 1
<1> DEFINE g == Signaled(h, signal)
<1>1. /\ g \in Handlers /\ g.data = h.data /\ g.lifecycle = h.lifecycle
      /\ g.read = h.read /\ g.written = h.written
  BY SignaledFacts
<1>2. DataWritten(h, signal) = [g EXCEPT !.written = @ + 1]
  BY DEF DataWritten
<1> HIDE DEF g
<1>3. /\ [g EXCEPT !.written = @ + 1] \in Handlers
      /\ [g EXCEPT !.written = @ + 1].data = g.data
      /\ [g EXCEPT !.written = @ + 1].lifecycle = g.lifecycle
      /\ [g EXCEPT !.written = @ + 1].state = g.state
      /\ [g EXCEPT !.written = @ + 1].read = g.read
      /\ [g EXCEPT !.written = @ + 1].written = g.written + 1
  BY <1>1 DEF Handlers
<1> QED
  BY <1>1, <1>2, <1>3 DEF g

-----------------------------------------------------------------------------
LEMMA DistinctCounted ==
  ASSUME m_sockets \in Seq(Client), Distinct
  PROVE  Cardinality(Accepted) = Len(m_sockets)
<1>1. /\ Len(m_sockets) \in Nat
      /\ m_sockets \in [1..Len(m_sockets) -> Client]
      /\ DOMAIN m_sockets = 1..Len(m_sockets)
  BY LenProperties
<1> DEFINE f == [k \in 1..Len(m_sockets) |-> m_sockets[k]]
<1>2. f \in Bijection(1..Len(m_sockets), Accepted)
  <2>1. f \in [1..Len(m_sockets) -> Accepted]
    BY DEF Accepted
  <2>2. \A i, j \in 1..Len(m_sockets) : f[i] = f[j] => i = j
    BY DEF Distinct
  <2>3. \A c \in Accepted : \E k \in 1..Len(m_sockets) : f[k] = c
    BY DEF Accepted
  <2> QED
    BY <2>1, <2>2, <2>3 DEF Bijection, Injection, Surjection, IsInjective
<1>3. ExistsBijection(1..Len(m_sockets), Accepted)
  BY <1>2 DEF ExistsBijection
<1> QED
  BY <1>1, <1>3, FS_CountingElements

(* The loop takes a socket, while the list may begin one slot later.       *)
LEMMA WalkTakes ==
  ASSUME NEW S, NEW C, NEW w \in [slots : S, first : Nat, at : Nat, sock : C],
         NEW c \in C, NEW n \in Nat
  PROVE  [[w EXCEPT !.first = n] EXCEPT !.sock = c]
             = [slots |-> w.slots, first |-> n, at |-> w.at, sock |-> c]
<1> DEFINE v == [w EXCEPT !.first = n]
<1>1. v = [slots |-> w.slots, first |-> n, at |-> w.at, sock |-> w.sock]
  OBVIOUS
<1> HIDE DEF v
<1>2. [v EXCEPT !.sock = c] = [slots |-> w.slots, first |-> n, at |-> w.at, sock |-> c]
  BY <1>1
<1> QED
  BY <1>2 DEF v

LEMMA LeftFacts ==
  ASSUME TypeOK, walk.at >= 1, walk.at <= Len(walk.slots) + 1
  PROVE  /\ Len(Left) = Len(walk.slots) + 1 - walk.at
         /\ \A k \in 1..Len(Left) : Left[k] = walk.slots[walk.at + k - 1]
<1>1. walk.slots \in Seq(Client) /\ walk.at \in Nat /\ Len(walk.slots) \in Nat
  BY DEF TypeOK
<1>2. \A i \in walk.at..Len(walk.slots) : walk.slots[i] \in Client
  BY <1>1
<1>3. /\ Len(Left) = IF walk.at <= Len(walk.slots) THEN Len(walk.slots) - walk.at + 1 ELSE 0
      /\ \A i \in 1..(Len(walk.slots) - walk.at + 1) : Left[i] = walk.slots[walk.at + i - 1]
  BY <1>1, <1>2, SubSeqProperties DEF Left
<1> QED
  BY <1>1, <1>3

(* The slots before the loop: the socket that it has just aborted, if any, *)
(* and the listed ones, which are open.                                    *)
LEMMA LeftAreAlive ==
  ASSUME Inv
  PROVE  \A k \in 1..Len(Left) : object[Left[k]] # "deleted"
<1>0. /\ m_sockets \in Seq(Client) /\ Len(m_sockets) \in Nat
      /\ walk.at \in Nat /\ Len(walk.slots) \in Nat
      /\ \A j \in 1..Len(m_sockets) : object[m_sockets[j]] = "open"
  BY DEF Inv, TypeOK, OpenOnes, Accepted
<1>4. ASSUME NEW n \in Nat, NEW k \in 1..(n + 1), k # 1 PROVE k - 1 \in 1..n
  BY <1>4
<1>5. ASSUME NEW a \in Nat, NEW k \in Int PROVE a + 1 + (k - 1) - 1 = a + k - 1
  BY <1>5
<1>1. CASE stopping = "no"
  <2>1. walk.at = 1 /\ Len(walk.slots) = 0
    BY <1>1 DEF Inv, Walks, NoWalk
  <2>2. Len(Left) = 0
    BY <2>1, LeftFacts DEF Inv
  <2> QED
    BY <2>2
<1>2. CASE stopping = "abort"
  <2>1. Ahead(0)
    BY <1>2 DEF Inv, Walks
  <2>2. /\ Len(Left) = Len(m_sockets)
        /\ \A k \in 1..Len(Left) : Left[k] = walk.slots[walk.at + k - 1]
    BY <1>0, <2>1, LeftFacts DEF Inv, Ahead
  <2>3. \A k \in 1..Len(m_sockets) : m_sockets[k] = walk.slots[walk.at + k - 1]
    BY <1>0, <2>1 DEF Ahead
  <2> QED
    BY <1>0, <2>2, <2>3
<1>3. CASE stopping = "delete"
  <2>1. /\ Ahead(1) /\ object[walk.slots[walk.at]] = "closed"
    BY <1>3 DEF Inv, Walks
  <2>0. /\ walk.at >= 1 /\ walk.at <= Len(walk.slots) + 1
        /\ Len(m_sockets) = Len(walk.slots) + 1 - walk.at - 1
    BY <1>0, <2>1 DEF Ahead
  <2>2. /\ Len(Left) = Len(m_sockets) + 1
        /\ \A k \in 1..Len(Left) : Left[k] = walk.slots[walk.at + k - 1]
    <3>1. /\ Len(Left) = Len(walk.slots) + 1 - walk.at
          /\ \A k \in 1..Len(Left) : Left[k] = walk.slots[walk.at + k - 1]
      BY <2>0, LeftFacts DEF Inv
    <3> QED
      BY <1>0, <2>0, <3>1
  <2> SUFFICES ASSUME NEW k \in 1..Len(Left) PROVE object[Left[k]] # "deleted"
    OBVIOUS
  <2>3. CASE k = 1
    <3>1. Left[k] = walk.slots[walk.at]
      BY <1>0, <2>2, <2>3
    <3> QED
      BY <2>1, <3>1
  <2>4. CASE k # 1
    <3>1. k - 1 \in 1..Len(m_sockets)
      <4>1. k \in 1..(Len(m_sockets) + 1)
        BY <2>2
      <4>2. Len(m_sockets) \in Nat
        BY <1>0
      <4> QED
        BY ONLY <1>4, <2>4, <4>1, <4>2
    <3>2. m_sockets[k - 1] = walk.slots[walk.at + 1 + (k - 1) - 1]
      BY <2>1, <3>1 DEF Ahead
    <3>3. walk.at + 1 + (k - 1) - 1 = walk.at + k - 1
      <4>1. k \in Int /\ walk.at \in Nat
        BY <1>0
      <4> QED
        BY ONLY <1>5, <4>1
    <3> QED
      BY <1>0, <2>2, <3>1, <3>2, <3>3
  <2> QED
    BY <2>3, <2>4
<1> QED
  BY <1>1, <1>2, <1>3 DEF Inv, TypeOK

-----------------------------------------------------------------------------
LEMMA InvInit ==
  ASSUME Limited, Init
  PROVE  Inv
<1>1. Len(m_sockets) = 0 /\ m_sockets \in Seq(Client)
  BY EmptySeq DEF Init
<1>2. TypeOK
  BY <1>1, NewHandlerFacts, EmptySeq DEF Init, TypeOK, NoWalk
<1>3. Distinct /\ OpenOnes /\ LimitHeld
  BY <1>1 DEF Init, Distinct, OpenOnes, LimitHeld, Limited, Accepted
<1>4. Quiet /\ Walks
  BY NewHandlerFacts DEF Init, Quiet, Walks
<1> QED
  BY <1>2, <1>3, <1>4 DEF Inv

(* The steps that leave the sockets alone.                                 *)
LEMMA HandlerOnly ==
  ASSUME Inv, UNCHANGED <<m_sockets, object, listening, running, stopping, walk>>,
         handler' \in Handlers, handler'.lifecycle = handler.lifecycle
  PROVE  Inv'
<1>1. Walks'
  BY DEF Inv, Walks, Ahead, NoWalk
<1> QED
  BY <1>1 DEF Inv, TypeOK, Distinct, OpenOnes, LimitHeld, Quiet, Accepted

LEMMA InvStart ==
  ASSUME Inv, HandlerStart
  PROVE  Inv'
<1>1. m_sockets = <<>> /\ stopping = "no" /\ walk = NoWalk
  BY DEF HandlerStart, Inv, LimitHeld, Quiet, Walks
<1>2. handler' \in Handlers
  BY ConnectedFacts, SignaledFacts DEF HandlerStart, Inv, TypeOK
<1>3. UNCHANGED <<m_sockets, object, stopping, walk>> /\ running' /\ listening' \in BOOLEAN
  BY DEF HandlerStart, loop
<1>4. Walks' /\ Quiet'
  BY <1>1, <1>3 DEF Walks, Quiet, NoWalk
<1> QED
  BY <1>1, <1>2, <1>3, <1>4 DEF Inv, TypeOK, Distinct, OpenOnes, LimitHeld, Accepted

LEMMA InvStop ==
  ASSUME Inv, HandlerStop
  PROVE  Inv'
<1>0. /\ m_sockets \in Seq(Client) /\ Len(m_sockets) \in Nat
      /\ UNCHANGED <<m_sockets, object, handler, running>>
      /\ running /\ listening' = FALSE /\ stopping' = "abort"
  BY DEF HandlerStop, Inv, TypeOK
<1>1. /\ walk' \in [slots : Seq(Client), first : Nat, at : Nat, sock : Client \cup {"nullptr"}]
      /\ walk'.at = 1 /\ walk'.slots = m_sockets
  BY <1>0 DEF HandlerStop, NoWalk
<1>2. TypeOK' /\ Quiet'
  BY <1>0, <1>1 DEF Inv, TypeOK, Quiet
<1>3. Ahead(0)'
  BY <1>0, <1>1 DEF Ahead
<1>4. Walks'
  BY <1>0, <1>3 DEF Walks
<1> QED
  BY <1>0, <1>2, <1>4 DEF Inv, Distinct, OpenOnes, LimitHeld, Accepted

LEMMA InvNewConnection ==
  ASSUME Limited, Inv, NEW c \in Client, OnServerNewConnection(c)
  PROVE  Inv'
<1> USE DEF Inv, Limited
<1>1. /\ listening /\ running /\ object[c] # "open" /\ c \notin Accepted
      /\ stopping = "no" /\ walk = NoWalk
      /\ UNCHANGED <<listening, running, stopping, walk>>
      /\ handler \in Handlers
      /\ m_sockets \in Seq(Client) /\ Len(m_sockets) \in Nat
  BY DEF OnServerNewConnection, OpenOnes, Quiet, Walks, TypeOK, loop
<1>0. Walks'
  BY <1>1 DEF Walks, NoWalk
<1>2. CASE Len(m_sockets) >= maxConnections
  <2>1. /\ handler' = Signaled(handler, "errorOccured")
        /\ object' = [object EXCEPT ![c] = "deleted"]
        /\ UNCHANGED m_sockets
    BY <1>2 DEF OnServerNewConnection
  <2>2. TypeOK' /\ Quiet'
    BY <1>1, <2>1, SignaledFacts DEF TypeOK, Quiet
  <2>3. OpenOnes'
    BY <1>1, <2>1 DEF OpenOnes, Accepted, TypeOK
  <2> QED
    BY <1>0, <1>1, <2>1, <2>2, <2>3 DEF Distinct, LimitHeld
<1>3. CASE ~(Len(m_sockets) >= maxConnections)
  <2>1. /\ m_sockets' = Append(m_sockets, c)
        /\ object' = [object EXCEPT ![c] = "open"]
        /\ UNCHANGED handler
    BY <1>3 DEF OnServerNewConnection
  <2>2. /\ m_sockets' \in Seq(Client)
        /\ Len(m_sockets') = Len(m_sockets) + 1
        /\ \A k \in 1..Len(m_sockets) : m_sockets'[k] = m_sockets[k]
        /\ m_sockets'[Len(m_sockets) + 1] = c
    BY <1>1, <2>1, AppendProperties
  <2>3. TypeOK' /\ Quiet' /\ LimitHeld'
    BY <1>1, <1>3, <2>1, <2>2 DEF TypeOK, Quiet, LimitHeld
  <2>4. Distinct'
    BY <1>1, <2>2 DEF Distinct, Accepted
  <2>5. Accepted' = Accepted \cup {c}
    BY <1>1, <2>2 DEF Accepted
  <2>6. OpenOnes'
    BY <1>1, <2>1, <2>5 DEF OpenOnes, TypeOK
  <2> QED
    BY <1>0, <2>3, <2>4, <2>6
<1> QED
  BY <1>2, <1>3

(* removeOne of a socket, which was listed once and is not any more.       *)
LEMMA Removed ==
  ASSUME TypeOK, Distinct, OpenOnes,
         NEW k \in 1..Len(m_sockets), RemoveOne(k),
         object' = [object EXCEPT ![m_sockets[k]] = "closed"]
  PROVE  /\ m_sockets' \in Seq(Client) /\ Len(m_sockets') = Len(m_sockets) - 1
         /\ \A j \in 1..Len(m_sockets') : m_sockets'[j] = m_sockets[IF j < k THEN j ELSE j + 1]
         /\ object' \in [Client -> {"none", "open", "closed", "deleted"}]
         /\ Distinct' /\ OpenOnes'
<1>3. /\ m_sockets \in Seq(Client) /\ Len(m_sockets) \in Nat
      /\ \A j \in 1..Len(m_sockets) : m_sockets[j] \in Client
      /\ k \in Nat /\ k > 0 /\ k <= Len(m_sockets)
  BY DEF TypeOK
<1> DEFINE n == Len(m_sockets) - 1
           at(j) == IF j < k THEN j ELSE j + 1
<1>4. n \in Nat /\ \A j \in 1..n : at(j) \in 1..Len(m_sockets) /\ at(j) # k
  BY <1>3
<1>5. m_sockets' = [j \in 1..n |-> m_sockets[at(j)]]
  BY DEF RemoveOne
<1>6. m_sockets' \in Seq(Client) /\ Len(m_sockets') = n
  BY <1>3, <1>4, <1>5
<1>7. \A j \in 1..n : m_sockets'[j] = m_sockets[at(j)]
  BY <1>5
<1>8. \A i, j \in 1..n : at(i) = at(j) => i = j
  BY <1>3
<1>9. \A i \in 1..Len(m_sockets) : i # k => \E j \in 1..n : at(j) = i
  <2> SUFFICES ASSUME NEW i \in 1..Len(m_sockets), i # k
               PROVE  \E j \in 1..n : at(j) = i
    OBVIOUS
  <2>1. CASE i < k
    <3>1. i \in 1..n /\ at(i) = i
      BY <1>3, <2>1
    <3> QED
      BY <3>1
  <2>2. CASE i > k
    <3>1. i - 1 \in 1..n /\ at(i - 1) = i
      BY <1>3, <2>2
    <3> QED
      BY <3>1
  <2> QED
    BY <1>3, <2>1, <2>2
<1>2. \A j \in 1..Len(m_sockets') : m_sockets'[j] = m_sockets[IF j < k THEN j ELSE j + 1]
  BY <1>6, <1>7
<1> HIDE DEF n, at
<1>10. Distinct'
  BY <1>4, <1>6, <1>7, <1>8 DEF Distinct
<1>11. Accepted' = Accepted \ {m_sockets[k]}
  <2>1. \A i \in 1..Len(m_sockets) : m_sockets[i] = m_sockets[k] => i = k
    BY DEF Distinct
  <2>2. Accepted' = {m_sockets[at(j)] : j \in 1..n}
    BY <1>6, <1>7 DEF Accepted
  <2>3. {m_sockets[at(j)] : j \in 1..n} = {m_sockets[i] : i \in (1..Len(m_sockets)) \ {k}}
    BY <1>4, <1>9
  <2>4. {m_sockets[i] : i \in (1..Len(m_sockets)) \ {k}} = Accepted \ {m_sockets[k]}
    BY <2>1 DEF Accepted
  <2> QED
    BY <2>2, <2>3, <2>4
<1>12. OpenOnes' /\ object' \in [Client -> {"none", "open", "closed", "deleted"}]
  BY <1>3, <1>11 DEF OpenOnes, TypeOK
<1> QED
  BY <1>2, <1>6, <1>10, <1>12 DEF n

LEMMA InvDisconnected ==
  ASSUME Limited, Inv, NEW c \in Client, OnSocketDisconnected(c)
  PROVE  Inv'
<1> USE DEF Inv
<1>1. PICK k \in 1..Len(m_sockets) : m_sockets[k] = c /\ RemoveOne(k)
  BY DEF OnSocketDisconnected, SocketDisconnected
<1>2. /\ object' = [object EXCEPT ![c] = "closed"]
      /\ handler' = Signaled(handler, "errorOccured")
      /\ stopping = "no"
      /\ UNCHANGED <<listening, running, stopping>>
  BY DEF OnSocketDisconnected, SocketDisconnected
<1>3. walk = NoWalk /\ UNCHANGED walk
  BY <1>2 DEF OnSocketDisconnected, SocketDisconnected, Walks
<1>4. /\ m_sockets' \in Seq(Client) /\ Len(m_sockets') = Len(m_sockets) - 1
      /\ object' \in [Client -> {"none", "open", "closed", "deleted"}]
      /\ Distinct' /\ OpenOnes'
  BY <1>1, <1>2, Removed
<1>5. TypeOK' /\ Quiet'
  BY <1>2, <1>3, <1>4, SignaledFacts DEF TypeOK, Quiet
<1>6. Walks'
  BY <1>2, <1>3 DEF Walks, NoWalk
<1>7. Len(m_sockets) \in Nat /\ k \in Nat /\ k >= 1 /\ m_sockets # <<>>
  BY <1>1, EmptySeq DEF TypeOK
<1>8. LimitHeld'
  BY <1>2, <1>4, <1>7 DEF LimitHeld, Limited
<1> QED
  BY <1>4, <1>5, <1>6, <1>8

(* The socket that the loop comes to is the first of the list, so that its *)
(* slot removes the first, and the loop's array stays as it is.            *)
LEMMA InvAborts ==
  ASSUME Limited, Inv, StopAborts
  PROVE  Inv'
<1> USE DEF Inv
<1> DEFINE sock == Head(Left)
<1>0. /\ m_sockets \in Seq(Client) /\ Len(m_sockets) \in Nat
      /\ walk.slots \in Seq(Client) /\ Len(walk.slots) \in Nat
      /\ walk.at \in Nat /\ walk.at >= 1 /\ walk.at <= Len(walk.slots) + 1
      /\ stopping = "abort" /\ stopping' = "delete" /\ Ahead(0)
      /\ running /\ ~listening /\ UNCHANGED <<listening, handler, running>>
  BY DEF TypeOK, StopAborts, Walks, Ahead
<1>1. Len(walk.slots) >= walk.at
  BY <1>0, SubSeqEmpty DEF StopAborts, Left
<1>2. sock = walk.slots[walk.at] /\ sock \in Client
  BY <1>0, <1>1, HeadTailOfSubSeq DEF Left
<1>3. Len(m_sockets) >= 1 /\ 1 \in 1..Len(m_sockets)
  BY <1>0, <1>1 DEF Ahead
<1>4. sock = m_sockets[1]
  BY <1>0, <1>2, <1>3 DEF Ahead
<1> HIDE DEF sock
<1>5. object[sock] = "open"
  <2>1. sock \in Accepted
    BY <1>3, <1>4 DEF Accepted
  <2> QED
    BY <2>1 DEF OpenOnes
<1>6. SocketDisconnected(sock)
  BY <1>5 DEF StopAborts, sock
<1>7. PICK k \in 1..Len(m_sockets) :
        /\ m_sockets[k] = sock /\ RemoveOne(k)
        /\ walk' = [Erased(k) EXCEPT !.sock = sock]
  BY <1>0, <1>6 DEF SocketDisconnected
<1>8. k = 1
  BY <1>3, <1>4, <1>7 DEF Distinct
<1>9. /\ walk' \in [slots : Seq(Client), first : Nat, at : Nat, sock : Client \cup {"nullptr"}]
      /\ walk'.slots = walk.slots /\ walk'.at = walk.at /\ walk'.sock = sock
  <2> DEFINE n == IF Len(m_sockets) > 1 THEN walk.first + 1 ELSE walk.first
  <2>1. walk' = [[walk EXCEPT !.first = n] EXCEPT !.sock = sock]
    BY <1>7, <1>8 DEF Erased
  <2>2. n \in Nat /\ walk \in [slots : Seq(Client), first : Nat, at : Nat, sock : Client \cup {"nullptr"}]
    BY DEF TypeOK
  <2> HIDE DEF n
  <2> QED
    BY <1>2, <2>1, <2>2, WalkTakes
<1>10. object' = [object EXCEPT ![m_sockets[k]] = "closed"]
  BY <1>6, <1>7 DEF SocketDisconnected
<1>11. /\ m_sockets' \in Seq(Client) /\ Len(m_sockets') = Len(m_sockets) - 1
       /\ \A j \in 1..Len(m_sockets') : m_sockets'[j] = m_sockets[IF j < k THEN j ELSE j + 1]
       /\ object' \in [Client -> {"none", "open", "closed", "deleted"}]
       /\ Distinct' /\ OpenOnes'
  BY <1>7, <1>10, Removed
<1>12. TypeOK' /\ Quiet'
  BY <1>0, <1>9, <1>11 DEF TypeOK, Quiet
<1>13. Ahead(1)'
  <2>1. /\ walk'.at + 1 <= Len(walk'.slots) + 1
        /\ Len(m_sockets') = Len(walk'.slots) + 1 - walk'.at - 1
    BY <1>0, <1>1, <1>8, <1>9, <1>11 DEF Ahead
  <2> SUFFICES ASSUME NEW j \in 1..Len(m_sockets')
               PROVE  m_sockets'[j] = walk'.slots[walk'.at + 1 + j - 1]
    BY <1>0, <1>9, <2>1 DEF Ahead
  <2>2. j + 1 \in 1..Len(m_sockets) /\ m_sockets'[j] = m_sockets[j + 1]
    BY <1>0, <1>8, <1>11
  <2>3. m_sockets[j + 1] = walk.slots[walk.at + 0 + (j + 1) - 1]
    BY <1>0, <2>2 DEF Ahead
  <2>4. walk.at + 0 + (j + 1) - 1 = walk.at + 1 + j - 1
    BY <1>0
  <2> QED
    BY <1>9, <2>2, <2>3, <2>4
<1>14. object'[sock] = "closed"
  BY <1>2, <1>6 DEF SocketDisconnected, TypeOK
<1>15. Walks'
  BY <1>0, <1>2, <1>9, <1>13, <1>14 DEF Walks
<1>16. LimitHeld'
  BY <1>0, <1>3, <1>11, EmptySeq DEF LimitHeld, Limited
<1> QED
  BY <1>11, <1>12, <1>15, <1>16

LEMMA InvDeletes ==
  ASSUME Inv, StopDeletes
  PROVE  Inv'
<1> USE DEF Inv
<1>0. /\ stopping = "delete" /\ stopping' = "abort"
      /\ UNCHANGED <<m_sockets, listening, handler, running>>
      /\ object' = [object EXCEPT ![walk.sock] = "deleted"]
      /\ walk' = [walk EXCEPT !.at = @ + 1, !.sock = "nullptr"]
      /\ Len(m_sockets) \in Nat
  BY DEF StopDeletes, TypeOK
<1>1. Ahead(1) /\ running /\ ~listening /\ object[walk.sock] = "closed"
  BY <1>0 DEF Walks
<1>2. /\ walk' \in [slots : Seq(Client), first : Nat, at : Nat, sock : Client \cup {"nullptr"}]
      /\ walk'.slots = walk.slots /\ walk'.at = walk.at + 1
      /\ walk.at \in Nat /\ Len(walk.slots) \in Nat
  <2>1. /\ walk \in [slots : Seq(Client), first : Nat, at : Nat, sock : Client \cup {"nullptr"}]
        /\ walk.at \in Nat /\ Len(walk.slots) \in Nat /\ "nullptr" \in Client \cup {"nullptr"}
    BY DEF TypeOK
  <2> DEFINE S == Seq(Client)
             C == Client \cup {"nullptr"}
             n == walk.at + 1
  <2>2. n \in Nat /\ walk' = [walk EXCEPT !.at = n, !.sock = "nullptr"]
    BY <1>0, <2>1
  <2> HIDE DEF S, C, n
  <2>3. /\ walk' \in [slots : S, first : Nat, at : Nat, sock : C]
        /\ walk'.slots = walk.slots /\ walk'.at = n
    BY <2>1, <2>2 DEF S, C
  <2> QED
    BY <2>1, <2>3 DEF S, C, n
<1>3. TypeOK' /\ Quiet'
  BY <1>0, <1>1, <1>2 DEF TypeOK, Quiet
<1>4. OpenOnes'
  BY <1>0, <1>1 DEF OpenOnes, Accepted, TypeOK
<1>5. Ahead(0)'
  BY <1>0, <1>1, <1>2 DEF Ahead
<1>6. Walks'
  BY <1>0, <1>1, <1>5 DEF Walks
<1> QED
  BY <1>0, <1>3, <1>4, <1>6 DEF Distinct, LimitHeld

(* The loop has gone over the whole list when it ends.                     *)
LEMMA InvReturns ==
  ASSUME Limited, Inv, StopReturns
  PROVE  Inv'
<1> USE DEF Inv
<1>0. /\ stopping = "abort" /\ stopping' = "no" /\ m_sockets' = <<>> /\ running' = FALSE
      /\ handler' = Disconnected(handler) /\ walk' = NoWalk
      /\ UNCHANGED <<object, listening>> /\ ~listening
      /\ handler \in Handlers /\ Ahead(0) /\ Left = <<>>
  BY DEF StopReturns, Walks, TypeOK
<1>1. Len(m_sockets') = 0 /\ m_sockets' \in Seq(Client)
  BY <1>0, EmptySeq
<1>2. Len(m_sockets) = 0
  <2>1. walk.at \in Nat /\ Len(walk.slots) \in Nat
    BY DEF TypeOK
  <2> QED
    BY <1>0, <2>1, LeftFacts DEF Ahead
<1>3. Accepted = {} /\ Accepted' = {}
  BY <1>1, <1>2 DEF Accepted
<1>4. TypeOK'
  BY <1>0, <1>1, DisconnectedFacts, EmptySeq DEF TypeOK, NoWalk
<1>5. Quiet' /\ Walks'
  BY <1>0, DisconnectedFacts DEF Quiet, Walks, NoWalk
<1> QED
  BY <1>0, <1>1, <1>3, <1>4, <1>5 DEF Distinct, OpenOnes, LimitHeld, Limited

LEMMA InvDeferred ==
  ASSUME Inv, NEW c \in Client, DeferredDelete(c)
  PROVE  Inv'
<1> USE DEF Inv
<1>1. /\ stopping = "no" /\ object[c] = "closed" /\ object' = [object EXCEPT ![c] = "deleted"]
      /\ walk = NoWalk
      /\ UNCHANGED <<m_sockets, listening, handler, running, stopping, walk>>
  BY DEF DeferredDelete, loop, Walks
<1>2. TypeOK' /\ Quiet' /\ OpenOnes'
  BY <1>1 DEF TypeOK, Quiet, OpenOnes, Accepted
<1>3. Walks'
  BY <1>1 DEF Walks, NoWalk
<1> QED
  BY <1>1, <1>2, <1>3 DEF Distinct, LimitHeld

LEMMA InvStep ==
  ASSUME Limited, Inv, [Next]_vars
  PROVE  Inv'
<1>0. handler \in Handlers
  BY DEF Inv, TypeOK
<1>1. CASE HandlerStart
  BY <1>1, InvStart
<1>2. CASE HandlerStop
  BY <1>2, InvStop
<1>3. CASE WriteData
  <2>1. \E h \in WriteSockets(Accepted, handler) : handler' = DataWritten(h, "none")
    BY <1>3 DEF WriteData
  <2>2. \A h \in WriteSockets(Accepted, handler) : h \in Handlers /\ h.lifecycle = handler.lifecycle
    BY <1>0, SignaledFacts DEF WriteSockets
  <2>3. handler' \in Handlers /\ handler'.lifecycle = handler.lifecycle
    BY <2>1, <2>2, DataWrittenFacts
  <2> QED
    BY <1>3, <2>3, HandlerOnly DEF WriteData, loop
<1>4. CASE OnServerAcceptError
  BY <1>0, <1>4, SignaledFacts, HandlerOnly DEF OnServerAcceptError, loop
<1>5. CASE \E c \in Client : OnServerNewConnection(c)
  BY <1>5, InvNewConnection
<1>6. CASE \E c \in Client : OnSocketDisconnected(c)
  BY <1>6, InvDisconnected
<1>7. CASE \E c \in Client : OnSocketReadyRead(c)
  <2> PICK c \in Client : OnSocketReadyRead(c)
    BY <1>7
  <2> DEFINE others == IF Broadcast THEN Accepted \ {c} ELSE {}
  <2>1. PICK h \in WriteSockets(others, handler) : handler' = DataRead(h)
    BY DEF OnSocketReadyRead
  <2>2. h \in Handlers /\ h.lifecycle = handler.lifecycle
    BY <1>0, <2>1, SignaledFacts DEF WriteSockets
  <2>3. handler' \in Handlers /\ handler'.lifecycle = handler.lifecycle
    BY <2>1, <2>2, DataReadFacts
  <2> QED
    BY <2>3, HandlerOnly DEF OnSocketReadyRead, loop
<1>8. CASE UNCHANGED vars
  BY <1>0, <1>8, HandlerOnly DEF vars, loop
<1>9. CASE StopAborts
  BY <1>9, InvAborts
<1>10. CASE StopDeletes
  BY <1>10, InvDeletes
<1>11. CASE StopReturns
  BY <1>11, InvReturns
<1>12. CASE \E c \in Client : DeferredDelete(c)
  BY <1>12, InvDeferred
<1> QED
  BY <1>1, <1>2, <1>3, <1>4, <1>5, <1>6, <1>7, <1>8, <1>9, <1>10, <1>11, <1>12 DEF Next

LEMMA InvAlways ==
  ASSUME Limited
  PROVE  Spec => []Inv
<1>1. Init => Inv
  BY InvInit
<1>2. Inv /\ [Next]_vars => Inv'
  BY InvStep
<1> QED
  BY <1>1, <1>2, PTL DEF Spec

-----------------------------------------------------------------------------
(* However clients come, are refused and leave, the list holds the open    *)
(* sockets and no other, each once; and while stop() goes over it and the  *)
(* slots that it calls remove from it, the loop comes to every one of them *)
(* and to no socket that is deleted.                                       *)
THEOREM ListIsExact ==
  ASSUME Limited
  PROVE  Spec => []SocketsLive
<1>1. Inv => SocketsLive
  BY DistinctCounted, LeftAreAlive DEF Inv, TypeOK, OpenOnes, SocketsLive
<1> QED
  BY <1>1, InvAlways, PTL

(* There are never more clients than max_connections, and none while the   *)
(* server is stopped or could not listen, but those that stop() is closing.*)
THEOREM LimitIsHeld ==
  ASSUME Limited
  PROVE  Spec => []LimitHeld
<1>1. Inv => LimitHeld
  BY DEF Inv
<1> QED
  BY <1>1, InvAlways, PTL

-----------------------------------------------------------------------------
(* The steps of the IO, seen from its Handler.                             *)
LEMMA SameHandler ==
  /\ Abstract!NewHandler = NewHandler
  /\ Abstract!ErrorSignal = ErrorSignal
  /\ \A h : /\ Abstract!Connected(h) = Connected(h)
            /\ Abstract!Disconnected(h) = Disconnected(h)
            /\ Abstract!DataRead(h) = DataRead(h)
  /\ \A h, signal : /\ Abstract!Signaled(h, signal) = Signaled(h, signal)
                    /\ Abstract!DataWritten(h, signal) = DataWritten(h, signal)
  BY DEF Abstract!NewHandler, NewHandler, Abstract!ErrorSignal, ErrorSignal,
         Abstract!Connected, Connected, Abstract!Disconnected, Disconnected,
         Abstract!DataRead, DataRead, Abstract!Signaled, Signaled,
         Abstract!DataWritten, DataWritten

LEMMA ContractOfServer ==
  /\ TcpServerContract.start = {"started", "startupErrorOccured"}
  /\ TcpServerContract.emits = {"open"} /\ TcpServerContract.errors = {"open"}
  /\ TcpServerContract.writeFails /\ ~TcpServerContract.bursts
  BY DEF TcpServerContract, StdOutContract

LEMMA ContractInit == Init => Abstract!Init
  BY SameHandler DEF Init, Abstract!Init, Stopped

LEMMA ContractStep == Inv /\ [Next]_vars => [Abstract!Next]_(Abstract!vars)
<1> SUFFICES ASSUME Inv, [Next]_vars PROVE Abstract!Next \/ UNCHANGED Abstract!vars
  OBVIOUS
<1>0. handler \in Handlers
  BY DEF Inv, TypeOK
<1>1. CASE HandlerStart
  <2>1. "started" \notin ErrorSignal /\ "startupErrorOccured" \in ErrorSignal
    BY DEF ErrorSignal
  <2>2. stopping = "no" /\ stopping' = "no" /\ ~running
    BY <1>1 DEF HandlerStart, loop, Inv, Quiet
  <2>3. Abstract!Start
    BY <1>1, <2>1, <2>2, SameHandler, ContractOfServer DEF HandlerStart, Abstract!Start, Stopped
  <2> QED
    BY <2>3 DEF Abstract!Next
<1>2. CASE HandlerStop
  <2>1. Abstract!Stop
    BY <1>2, SameHandler DEF HandlerStop, Abstract!Stop, Stopped
  <2> QED
    BY <2>1 DEF Abstract!Next
<1>3. CASE WriteData
  <2>1. PICK h \in WriteSockets(Accepted, handler) : handler' = DataWritten(h, "none")
    BY <1>3 DEF WriteData
  <2>2. DataWritten(Signaled(handler, "errorOccured"), "none")
             = DataWritten(handler, "errorOccured")
    BY DEF DataWritten, Signaled
  <2>3. handler' = DataWritten(handler, "none") \/ handler' = DataWritten(handler, "errorOccured")
    BY <2>1, <2>2 DEF WriteSockets
  <2>4. /\ stopping = "no" /\ running /\ UNCHANGED <<stopping, running, listening>>
    BY <1>3 DEF WriteData, loop
  <2>5. Abstract!WriteReturns
    BY <1>3, <2>3, <2>4, SameHandler, ContractOfServer DEF WriteData, Abstract!WriteReturns, Stopped
  <2> QED
    BY <2>5 DEF Abstract!Next
<1>4. CASE OnServerAcceptError \/ \E c \in Client : OnServerNewConnection(c) \/ OnSocketDisconnected(c)
  <2>1. /\ handler' = handler \/ handler' = Signaled(handler, "errorOccured")
        /\ UNCHANGED <<running, listening, stopping>>
    BY <1>4 DEF OnServerAcceptError, OnServerNewConnection, OnSocketDisconnected, loop
  <2>2. CASE handler' = handler
    BY <2>1, <2>2, SameHandler DEF Abstract!vars, Stopped
  <2>3. CASE handler' # handler
    <3>1. m_sockets # <<>> => running /\ (listening \/ stopping # "no")
      BY DEF Inv, LimitHeld
    <3>2. running /\ listening /\ stopping = "no"
      BY <1>4, <3>1, EmptySeq
      DEF OnServerAcceptError, OnServerNewConnection, OnSocketDisconnected, SocketDisconnected,
          Inv, TypeOK, Quiet, Walks
    <3>3. Abstract!Error
      BY <2>1, <2>3, <3>2, SameHandler, ContractOfServer DEF Abstract!Error, Stopped
    <3> QED
      BY <3>3 DEF Abstract!Next
  <2> QED
    BY <2>2, <2>3
<1>5. CASE \E c \in Client : OnSocketReadyRead(c)
  <2> PICK c \in Client : OnSocketReadyRead(c)
    BY <1>5
  <2>1. /\ running /\ listening /\ handler.data /\ stopping = "no"
        /\ UNCHANGED <<running, listening, stopping>>
    BY EmptySeq DEF OnSocketReadyRead, Accepted, Inv, TypeOK, LimitHeld, loop
  <2>2. Signaled(handler, "none") = handler
    BY DEF Signaled
  <2>3. \E signal \in {"none", "errorOccured"} : handler' = DataRead(Signaled(handler, signal))
    BY <2>2 DEF OnSocketReadyRead, WriteSockets
  <2>4. Abstract!NewData
    BY <2>1, <2>3, SameHandler, ContractOfServer DEF Abstract!NewData, Stopped
  <2> QED
    BY <2>4 DEF Abstract!Next
(* To its Handler the IO is stopped already: the loop only ends the call.  *)
<1>6. CASE StopAborts \/ StopDeletes
  <2>1. /\ running /\ stopping # "no" /\ stopping' # "no"
        /\ UNCHANGED <<listening, handler, running>>
    BY <1>6 DEF StopAborts, StopDeletes, Inv, Walks
  <2> QED
    BY <2>1, SameHandler DEF Abstract!vars, Stopped
<1>7. CASE StopReturns
  <2>1. /\ running /\ stopping # "no" /\ stopping' = "no" /\ ~running'
        /\ handler' = Disconnected(handler)
    BY <1>7 DEF StopReturns, Inv, Walks
  <2> QED
    BY <2>1, SameHandler DEF Abstract!vars, Stopped
<1>8. CASE \E c \in Client : DeferredDelete(c)
  BY <1>8 DEF DeferredDelete, loop, Abstract!vars, Stopped
<1>9. CASE UNCHANGED vars
  BY <1>9 DEF vars, loop, Abstract!vars, Stopped
<1> QED
  BY <1>1, <1>2, <1>3, <1>4, <1>5, <1>6, <1>7, <1>8, <1>9 DEF Next

(* Whatever its clients and the engine do, the server keeps the contract   *)
(* that Engine.tla assumes of it.                                          *)
THEOREM ServerImplementsContract ==
  ASSUME Limited
  PROVE  Spec => ContractKept
  BY ContractInit, ContractStep, InvAlways, PTL DEF Spec, ContractKept, Abstract!Spec
=============================================================================
