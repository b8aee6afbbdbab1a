------------------------------ MODULE LinkProofs ----------------------------
(***************************************************************************)
(* Theorems about the two connected TcpSocketIOs, for buffers of every     *)
(* size and any amount of data.  The bytes are counted without a look at   *)
(* the stack: no byte is on it, so their way does not depend on the order  *)
(* in which reads and waits nest.  How they nest is the second part, and   *)
(* where that can come to a halt.                                          *)
(***************************************************************************)
EXTENDS Link, SequenceTheorems, TLAPS

(* What the amounts need to be.                                            *)
Amounts ==
  /\ answers \in Conn
  /\ toProxy \in [Conn -> 0..Capacity]
  /\ toRemote \in [Conn -> 0..Capacity]
  /\ readBuffer \in [Conn -> Nat]
  /\ writeBuffer \in [Conn -> Nat]
  /\ sent \in Nat /\ answered \in Nat
  /\ echoing \in BOOLEAN

USE LinkAssumption

-----------------------------------------------------------------------------
(* The amounts, connection by connection, so that the steps are plain      *)
(* arithmetic.                                                             *)
LEMMA AmountsOfConn ==
  ASSUME Amounts, NEW c \in Conn
  PROVE  /\ toProxy[c] \in Nat /\ toProxy[c] <= Capacity
         /\ toRemote[c] \in Nat /\ toRemote[c] <= Capacity
         /\ readBuffer[c] \in Nat /\ writeBuffer[c] \in Nat
         /\ Receiver(c) \in Conn
         /\ Capacity \in Nat
  BY DEF Amounts, Conn, Receiver

LEMMA InitAmounts == Init => Amounts /\ NothingLost
<1> SUFFICES ASSUME Init PROVE Amounts /\ NothingLost
  OBVIOUS
<1>1. 0 \in 0..Capacity
  OBVIOUS
<1>2. Amounts
  BY <1>1 DEF Init, Amounts
<1>3. NothingLost
  BY DEF Init, NothingLost, OnTheWay, Conn, Receiver
<1> QED  BY <1>2, <1>3

LEMMA SocketReadsStep ==
  ASSUME Amounts, NothingLost, NEW c \in Conn, SocketReads(c),
         UNCHANGED <<answers, toRemote, writeBuffer, remotes>>
  PROVE  Amounts' /\ NothingLost'
<1>1. Amounts'
  <2>1. 0 \in 0..Capacity
    OBVIOUS
  <2>2. readBuffer[c] + toProxy[c] \in Nat
    BY AmountsOfConn
  <2> QED  BY <2>1, <2>2 DEF Amounts, SocketReads, remotes
<1>2. \A d \in Conn : OnTheWay(d)' = OnTheWay(d)
  <2> SUFFICES ASSUME NEW d \in Conn PROVE OnTheWay(d)' = OnTheWay(d)
    OBVIOUS
  <2>1. toProxy'[d] + readBuffer'[d] = toProxy[d] + readBuffer[d]
    <3>1. CASE d = c
      BY <3>1, AmountsOfConn DEF SocketReads, Amounts
    <3>2. CASE d # c
      BY <3>2 DEF SocketReads, Amounts
    <3> QED  BY <3>1, <3>2
  <2>2. writeBuffer' = writeBuffer /\ toRemote' = toRemote
    OBVIOUS
  <2> QED  BY ONLY <2>1, <2>2 DEF OnTheWay, Receiver
<1>3. NothingLost'
  BY <1>2 DEF NothingLost, remotes, Conn
<1> QED  BY <1>1, <1>3

LEMMA SocketWritesStep ==
  ASSUME Amounts, NothingLost, NEW c \in Conn, SocketWrites(c),
         UNCHANGED <<answers, toProxy, readBuffer, remotes>>
  PROVE  Amounts' /\ NothingLost'
<1> DEFINE room   == Capacity - toRemote[c]
           amount == IF writeBuffer[c] < room THEN writeBuffer[c] ELSE room
<1>1. /\ amount \in Nat
      /\ amount <= writeBuffer[c] /\ toRemote[c] + amount <= Capacity
  BY AmountsOfConn DEF SocketWrites
<1>2. /\ toRemote' = [toRemote EXCEPT ![c] = @ + amount]
      /\ writeBuffer' = [writeBuffer EXCEPT ![c] = @ - amount]
  BY DEF SocketWrites
<1> HIDE DEF amount
<1>3. Amounts'
  <2>1. toRemote[c] + amount \in 0..Capacity /\ writeBuffer[c] - amount \in Nat
    BY <1>1, AmountsOfConn
  <2> QED  BY <1>2, <2>1 DEF Amounts, remotes
<1>4. NothingLost'
  BY <1>1, <1>2, AmountsOfConn DEF NothingLost, OnTheWay, remotes, Amounts, Conn, Receiver
<1> QED  BY <1>3, <1>4

LEMMA EmitNewDataStep ==
  ASSUME Amounts, NothingLost, NEW c \in Conn, EmitNewData(c)
  PROVE  Amounts' /\ NothingLost'
<1>1. Amounts'
  <2>1. writeBuffer[Receiver(c)] + readBuffer[c] \in Nat
    BY AmountsOfConn
  <2> QED  BY <2>1 DEF Amounts, EmitNewData, remotes
<1>2. /\ readBuffer' = [readBuffer EXCEPT ![c] = 0]
      /\ writeBuffer' = [writeBuffer EXCEPT ![Receiver(c)] = @ + readBuffer[c]]
      /\ UNCHANGED <<toProxy, toRemote, sent, answered, echoing>>
  BY DEF EmitNewData, remotes
<1>3. NothingLost'
  <2>1. CASE c = "near"
    BY <1>2, <2>1, AmountsOfConn DEF NothingLost, OnTheWay, Amounts, Conn, Receiver
  <2>2. CASE c = "far"
    BY <1>2, <2>2, AmountsOfConn DEF NothingLost, OnTheWay, Amounts, Conn, Receiver
  <2> QED  BY <2>1, <2>2 DEF Conn
<1> QED  BY <1>1, <1>3

LEMMA ClientStep ==
  ASSUME Amounts, NothingLost, ClientWrites \/ ClientReads
  PROVE  Amounts' /\ NothingLost'
<1>1. CASE ClientWrites
  BY <1>1, AmountsOfConn
  DEF Amounts, NothingLost, OnTheWay, ClientWrites, sockets, Conn, Receiver
<1>2. CASE ClientReads
  BY <1>2, AmountsOfConn
  DEF Amounts, NothingLost, OnTheWay, ClientReads, sockets, Conn, Receiver
<1> QED  BY <1>1, <1>2

LEMMA EchoStep ==
  ASSUME Amounts, NothingLost, Echo
  PROVE  Amounts' /\ NothingLost'
<1>1. CASE EchoReads
  BY <1>1, AmountsOfConn
  DEF Amounts, NothingLost, OnTheWay, EchoReads, sockets, Conn, Receiver
<1>2. CASE EchoWrites
  <2>1. /\ toProxy["far"] + 1 \in 0..Capacity
        /\ toProxy' = [toProxy EXCEPT !["far"] = @ + 1]
        /\ echoing /\ ~echoing'
        /\ UNCHANGED <<answers, toRemote, readBuffer, writeBuffer, sent, answered>>
    <3>1. "far" \in Conn /\ toProxy["far"] < Capacity
      BY <1>2 DEF EchoWrites, Conn
    <3>2. toProxy["far"] + 1 \in 0..Capacity
      BY <3>1, AmountsOfConn
    <3> QED  BY <1>2, <3>2 DEF EchoWrites, sockets
  <2>2. Amounts'
    BY <1>2, <2>1 DEF Amounts, EchoWrites
  <2>3. NothingLost'
    BY <2>1, AmountsOfConn DEF Amounts, NothingLost, OnTheWay, Conn, Receiver
  <2> QED  BY <2>2, <2>3
<1> QED  BY <1>1, <1>2 DEF Echo

-----------------------------------------------------------------------------
LEMMA StepAmounts ==
  ASSUME Amounts, NothingLost, [Next]_vars
  PROVE  Amounts' /\ NothingLost'
<1>1. CASE Proxy
  <2> PICK c \in Conn : \/ ReadyRead(c) \/ ReadyWrite(c)
                        \/ EmitNewData(c) \/ ReadDone(c)
                        \/ WaitRead(c) \/ WaitWritten(c)
    BY <1>1 DEF Proxy
  <2>1. CASE ReadyRead(c) \/ WaitRead(c)
    BY <2>1, SocketReadsStep DEF ReadyRead, WaitRead
  <2>2. CASE ReadyWrite(c) \/ WaitWritten(c)
    BY <2>2, SocketWritesStep DEF ReadyWrite, WaitWritten
  <2>3. CASE EmitNewData(c)
    BY <2>3, EmitNewDataStep
  <2>4. CASE ReadDone(c)
    BY <2>4 DEF ReadDone, Amounts, NothingLost, OnTheWay, remotes
  <2> QED  BY <2>1, <2>2, <2>3, <2>4
<1>2. CASE ClientWrites \/ ClientReads
  BY <1>2, ClientStep
<1>3. CASE Echo
  BY <1>3, EchoStep
<1>4. CASE UNCHANGED vars
  BY <1>4 DEF vars, sockets, remotes, Amounts, NothingLost, OnTheWay
<1> QED  BY <1>1, <1>2, <1>3, <1>4 DEF Next

(* No byte is lost on the way through two TcpSocketIOs and none is written *)
(* twice, however many bytes there are, however small the buffers, and     *)
(* however deep onSocketReadyRead and waitForBytesWritten nest.            *)
THEOREM NoByteLost == Spec => []NothingLost
<1>1. Init => Amounts /\ NothingLost
  BY InitAmounts
<1>2. Amounts /\ NothingLost /\ [Next]_vars => (Amounts /\ NothingLost)'
  BY StepAmounts
<1> QED  BY <1>1, <1>2, PTL DEF Spec

-----------------------------------------------------------------------------
(* The calls that have not returned, from the outermost: onSocketReadyRead *)
(* of a connection c, the writeData of the other one, which reads while it *)
(* waits, and the writeData of c that this leads to.  There it ends: what  *)
(* c reads now, its onSocketReadyRead, which still runs, will pick up.     *)
NestFrame(c, k) ==
  <<IF k \in {1, 3} THEN "read" ELSE "wait", IF k \in {1, 4} THEN c ELSE Receiver(c)>>

(* Whoever waits has something to write: an inner call writes to the other *)
(* connection.                                                             *)
Nested ==
  /\ stack \in Seq(Frames)
  /\ Len(stack) <= 4
  /\ \E c \in Conn : \A k \in 1..Len(stack) : stack[k] = NestFrame(c, k)
  /\ \A k \in 1..Len(stack) : \A c \in Conn :
       stack[k] = <<"wait", c>> => writeBuffer[c] > 0

(* How the reads and waits of two connections nest.                        *)
NestingBounded ==
  /\ Len(stack) <= 4
  /\ \A i, j \in 1..Len(stack) : stack[i] = stack[j] => i = j

(* Somebody other than a client that reads has a step left: a guard of the *)
(* event loop's actions, of a running handler's, of a wait's, of the far   *)
(* program's or of the client's writing holds.                             *)
CanGoOn ==
  \/ stack = <<>> /\ \E c \in Conn :
       toProxy[c] > 0 \/ (writeBuffer[c] > 0 /\ toRemote[c] < Capacity)
  \/ \E c \in Conn : On("read", c)
  \/ \E c \in Conn : On("wait", c) /\
       (toProxy[c] > 0 \/ (writeBuffer[c] > 0 /\ toRemote[c] < Capacity))
  \/ answers = "near" /\ ~echoing /\ toRemote["far"] > 0
  \/ echoing /\ toProxy["far"] < Capacity
  \/ sent < Bytes /\ toProxy["near"] < Capacity

LinkInv == Amounts /\ NothingLost /\ Nested

LEMMA StackLength ==
  ASSUME LinkInv
  PROVE  /\ stack \in Seq(Frames)
         /\ Len(stack) \in 0..4
         /\ stack # <<>> => Len(stack) \in 1..4
<1>1. stack \in Seq(Frames)
  BY DEF LinkInv, Nested
<1>2. PICK n \in Nat : n = Len(stack)
  BY <1>1, LenProperties
<1>3. n <= 4
  BY <1>2 DEF LinkInv, Nested
<1>4. n \in 0..4
  BY ONLY <1>2, <1>3
<1>5. ASSUME stack # <<>> PROVE n \in 1..4
  <2>1. n # 0
    BY <1>1, <1>2, <1>5, EmptySeq
  <2> QED  BY <1>4, <2>1
<1> QED  BY <1>1, <1>2, <1>4, <1>5

LEMMA PopsOne ==
  ASSUME LinkInv, stack # <<>>
  PROVE  /\ Returned \in Seq(Frames)
         /\ Len(Returned) = Len(stack) - 1
         /\ \A k \in 1..Len(Returned) : Returned[k] = stack[k]
<1> DEFINE n == Len(stack) - 1
<1>1. n \in 0..3 /\ Len(stack) - 1 = n
  BY StackLength
<1>2. \A k \in 1..n : stack[k] \in Frames
  BY <1>1, StackLength, LenProperties
<1> HIDE DEF n
<1>3. n \in Int /\ 1 \in Int
  BY <1>1
<1>4. /\ SubSeq(stack, 1, n) \in Seq(Frames)
      /\ Len(SubSeq(stack, 1, n)) = IF 1 <= n THEN n - 1 + 1 ELSE 0
      /\ \A k \in 1..(n - 1 + 1) : SubSeq(stack, 1, n)[k] = stack[1 + k - 1]
  BY ONLY <1>2, <1>3, SubSeqProperties
<1>5. Len(SubSeq(stack, 1, n)) = n
  BY ONLY <1>1, <1>4
<1>6. \A k \in 1..n : 1 + k - 1 = k /\ k \in 1..(n - 1 + 1)
  BY ONLY <1>1
<1>7. \A k \in 1..n : SubSeq(stack, 1, n)[k] = stack[k]
  BY ONLY <1>4, <1>6
<1>8. Returned = SubSeq(stack, 1, n)
  BY <1>1 DEF Returned
<1> QED  BY <1>1, <1>4, <1>5, <1>7, <1>8

LEMMA OneMore ==
  ASSUME NEW n \in {1, 2, 3}
  PROVE  n + 1 <= 4
  OBVIOUS

(* A read handler is entered where the nest goes on with it, or is held    *)
(* back because it runs already.                                           *)
LEMMA SocketReadsNests ==
  ASSUME LinkInv, NEW c \in Conn, SocketReads(c), stack = <<>> \/ On("wait", c),
         UNCHANGED writeBuffer
  PROVE  Nested'
<1>1. PICK b \in Conn : \A k \in 1..Len(stack) : stack[k] = NestFrame(b, k)
  BY DEF LinkInv, Nested
<1>2. /\ stack \in Seq(Frames) /\ Len(stack) \in 0..4
      /\ <<"read", c>> \in Frames
  <2>1. <<"read", c>> \in Frames
    BY DEF Frames
  <2> QED  BY <2>1, StackLength
<1>3. CASE Reading(c)
  <2>1. stack' = stack
    BY <1>3 DEF SocketReads
  <2> QED  BY <2>1 DEF LinkInv, Nested
<1>4. CASE ~Reading(c)
  <2>1. /\ stack' = Append(stack, <<"read", c>>)
        /\ stack' \in Seq(Frames)
        /\ Len(stack') = Len(stack) + 1
        /\ stack'[Len(stack) + 1] = <<"read", c>>
        /\ \A k \in 1..Len(stack) : stack'[k] = stack[k]
    BY <1>2, <1>4, AppendProperties DEF SocketReads
  <2>2. CASE Len(stack) = 0
    <3>1. Len(stack') = 1 /\ stack'[1] = <<"read", c>>
      BY <2>1, <2>2
    <3>2. NestFrame(c, 1) = <<"read", c>>
      BY DEF NestFrame
    <3>3. \A k \in 1..Len(stack') : k = 1
      BY <3>1
    <3>4. \A k \in 1..Len(stack') : stack'[k] = NestFrame(c, k)
      BY <3>1, <3>2, <3>3
    <3>5. \A k \in 1..Len(stack'), d \in Conn : stack'[k] # <<"wait", d>>
      BY <3>1, <3>3
    <3> QED  BY <2>1, <3>1, <3>4, <3>5 DEF Nested
  <2>3. CASE Len(stack) > 0
    <3>1. stack[Len(stack)] = <<"wait", c>>
      BY <1>2, <2>3, EmptySeq DEF On, Top
    <3>2. Len(stack) = 2 /\ c = Receiver(b)
      <4>1. NestFrame(b, Len(stack)) = <<"wait", c>>
        BY <1>1, <1>2, <2>3, <3>1
      <4>2. Len(stack) # 4
        <5> SUFFICES ASSUME Len(stack) = 4 PROVE FALSE
          OBVIOUS
        <5>1. c = b
          BY <4>1 DEF NestFrame
        <5>2. stack[1] = <<"read", c>>
          BY <1>1, <5>1 DEF NestFrame
        <5> QED  BY <1>4, <5>2 DEF Reading
      <4>3. Len(stack) # 1 /\ Len(stack) # 3
        BY <4>1 DEF NestFrame
      <4>4. Len(stack) = 2
        BY <1>2, <2>3, <4>2, <4>3
      <4> QED  BY <4>1, <4>4 DEF NestFrame
    <3>3. NestFrame(b, 3) = <<"read", c>>
      BY <3>2 DEF NestFrame
    <3>4. \A k \in 1..Len(stack') : stack'[k] = NestFrame(b, k)
      BY <1>1, <2>1, <3>2, <3>3
    <3>5. \A k \in 1..Len(stack') : \A d \in Conn :
            stack'[k] = <<"wait", d>> => writeBuffer'[d] > 0
      BY <2>1, <3>2 DEF LinkInv, Nested
    <3>6. Len(stack') <= 4
      <4>1. Len(stack') = Len(stack) + 1
        BY <2>1
      <4>2. Len(stack) \in {1, 2, 3}
        BY <3>2
      <4> QED  BY ONLY <4>1, <4>2, OneMore
    <3> QED  BY ONLY <2>1, <3>4, <3>5, <3>6, b \in Conn DEF Nested
  <2> QED  BY <1>2, <2>2, <2>3
<1> QED  BY <1>3, <1>4

(* newData leads from the read handler that runs to the wait that follows  *)
(* it, which has the bytes that were read to write.                        *)
LEMMA EmitNewDataNests ==
  ASSUME LinkInv, NEW c \in Conn, EmitNewData(c)
  PROVE  Nested'
<1>1. PICK b \in Conn : \A k \in 1..Len(stack) : stack[k] = NestFrame(b, k)
  BY DEF LinkInv, Nested
<1>2. /\ stack \in Seq(Frames) /\ Len(stack) \in 1..4
      /\ <<"wait", Receiver(c)>> \in Frames
      /\ stack[Len(stack)] = <<"read", c>>
  <2>1. stack # <<>> /\ stack[Len(stack)] = <<"read", c>>
    BY DEF EmitNewData, On, Top
  <2>2. <<"wait", Receiver(c)>> \in Frames
    BY DEF Frames, Receiver, Conn
  <2> QED  BY <2>1, <2>2, StackLength
<1>3. /\ stack' = Append(stack, <<"wait", Receiver(c)>>)
      /\ stack' \in Seq(Frames)
      /\ Len(stack') = Len(stack) + 1
      /\ stack'[Len(stack) + 1] = <<"wait", Receiver(c)>>
      /\ \A k \in 1..Len(stack) : stack'[k] = stack[k]
  BY <1>2, AppendProperties DEF EmitNewData
<1>4. /\ NestFrame(b, Len(stack)) = <<"read", c>>
      /\ Len(stack) = 1 \/ Len(stack) = 3
  <2>1. NestFrame(b, Len(stack)) = <<"read", c>>
    BY <1>1, <1>2
  <2>2. Len(stack) # 2 /\ Len(stack) # 4
    BY <2>1 DEF NestFrame
  <2> QED  BY <1>2, <2>1, <2>2
<1>5. NestFrame(b, Len(stack) + 1) = <<"wait", Receiver(c)>>
  <2>1. CASE Len(stack) = 1
    BY <1>4, <2>1 DEF NestFrame
  <2>2. CASE Len(stack) = 3
    BY <1>4, <2>2 DEF NestFrame, Receiver, Conn
  <2> QED  BY <1>4, <2>1, <2>2
<1>6. \A k \in 1..Len(stack') : stack'[k] = NestFrame(b, k)
  BY <1>1, <1>2, <1>3, <1>5
<1>7. /\ writeBuffer' = [writeBuffer EXCEPT ![Receiver(c)] = @ + readBuffer[c]]
      /\ readBuffer[c] > 0 /\ readBuffer[c] \in Nat
      /\ writeBuffer \in [Conn -> Nat]
      /\ Receiver(c) \in Conn
  BY AmountsOfConn DEF LinkInv, EmitNewData, Amounts
<1>8. /\ \A d \in Conn : writeBuffer[d] > 0 => writeBuffer'[d] > 0
      /\ writeBuffer'[Receiver(c)] > 0
  BY <1>7
<1>9. \A k \in 1..Len(stack') : \A d \in Conn :
        stack'[k] = <<"wait", d>> => writeBuffer'[d] > 0
  <2> SUFFICES ASSUME NEW k \in 1..Len(stack'), NEW d \in Conn, stack'[k] = <<"wait", d>>
               PROVE  writeBuffer'[d] > 0
    OBVIOUS
  <2>1. CASE k = Len(stack) + 1
    BY <1>3, <1>8, <2>1
  <2>2. CASE k \in 1..Len(stack)
    <3>1. writeBuffer[d] > 0
      BY <1>3, <2>2 DEF LinkInv, Nested
    <3> QED  BY <1>8, <3>1
  <2> QED  BY <1>2, <1>3, <2>1, <2>2
<1>10. Len(stack') <= 4
  <2>1. Len(stack') = Len(stack) + 1
    BY <1>3
  <2>2. Len(stack) \in {1, 2, 3}
    BY <1>4
  <2> QED  BY ONLY <2>1, <2>2, OneMore
<1> QED  BY ONLY <1>3, <1>6, <1>9, <1>10, b \in Conn DEF Nested

(* A call that returns leaves the rest of the nest, in which nobody waits  *)
(* for the connection that has just written.                               *)
LEMMA ReturnNests ==
  ASSUME LinkInv, NEW c \in Conn, stack # <<>>, stack' = Returned,
         \/ UNCHANGED writeBuffer
         \/ /\ stack[Len(stack)] = <<"wait", c>>
            /\ \A d \in Conn \ {c} : writeBuffer'[d] = writeBuffer[d]
  PROVE  Nested'
<1>1. PICK b \in Conn : \A k \in 1..Len(stack) : stack[k] = NestFrame(b, k)
  BY DEF LinkInv, Nested
<1>2. /\ stack \in Seq(Frames) /\ Len(stack) <= 4 /\ Len(stack) \in Nat
      /\ stack' \in Seq(Frames) /\ Len(stack') = Len(stack) - 1
      /\ \A k \in 1..Len(stack') : stack'[k] = stack[k]
  BY PopsOne, LenProperties DEF LinkInv, Nested, Returned
<1>3. \A k \in 1..Len(stack') : stack'[k] = NestFrame(b, k)
  BY <1>1, <1>2
<1>4. \A k \in 1..Len(stack') : \A d \in Conn :
        stack'[k] = <<"wait", d>> => writeBuffer'[d] > 0
  <2> SUFFICES ASSUME NEW k \in 1..Len(stack'), NEW d \in Conn, stack'[k] = <<"wait", d>>
               PROVE  writeBuffer'[d] > 0
    OBVIOUS
  <2>1. k \in 1..Len(stack) /\ k < Len(stack) /\ stack[k] = <<"wait", d>>
    BY <1>2
  <2>2. writeBuffer[d] > 0
    BY <2>1 DEF LinkInv, Nested
  <2>3. CASE UNCHANGED writeBuffer
    BY <2>2, <2>3
  <2>4. CASE /\ stack[Len(stack)] = <<"wait", c>>
             /\ \A e \in Conn \ {c} : writeBuffer'[e] = writeBuffer[e]
    <3>1. d # c
      <4>0. SUFFICES ASSUME d = c PROVE FALSE
        OBVIOUS
      <4>1. NestFrame(b, k) = <<"wait", c>> /\ NestFrame(b, Len(stack)) = <<"wait", c>>
        <5>1. Len(stack) \in 1..Len(stack)
          BY <1>2
        <5>2. stack[k] = <<"wait", c>>
          BY <2>1, <4>0
        <5> QED  BY <1>1, <2>1, <2>4, <5>1, <5>2
      <4>2. k # 1 /\ k # 3 /\ Len(stack) # 3
        BY <4>1 DEF NestFrame
      <4>3. k = 2 /\ Len(stack) = 4
        BY <1>2, <2>1, <4>2
      <4> QED  BY <4>1, <4>3 DEF NestFrame, Receiver, Conn
    <3> QED  BY <2>2, <2>4, <3>1
  <2> QED  BY <2>3, <2>4
<1> QED  BY <1>2, <1>3, <1>4 DEF Nested

LEMMA LinkInvAlways == Spec => []LinkInv
<1>1. Init => LinkInv
  <2> SUFFICES ASSUME Init PROVE Nested
    BY InitAmounts DEF LinkInv
  <2>1. stack = <<>> /\ stack \in Seq(Frames) /\ Len(stack) = 0
    BY EmptySeq DEF Init
  <2> QED  BY <2>1 DEF Nested, Conn
<1>2. LinkInv /\ [Next]_vars => LinkInv'
  <2> SUFFICES ASSUME LinkInv, [Next]_vars PROVE Nested'
    BY StepAmounts DEF LinkInv
  <2>1. CASE Proxy
    <3> PICK c \in Conn : \/ ReadyRead(c) \/ ReadyWrite(c)
                          \/ EmitNewData(c) \/ ReadDone(c)
                          \/ WaitRead(c) \/ WaitWritten(c)
      BY <2>1 DEF Proxy
    <3>1. CASE ReadyRead(c) \/ WaitRead(c)
      BY <3>1, SocketReadsNests DEF ReadyRead, WaitRead
    <3>2. CASE ReadyWrite(c)
      <4>1. stack = <<>> /\ stack' = stack /\ Len(stack) = 0
        BY <3>2, EmptySeq DEF ReadyWrite
      <4> QED  BY <4>1 DEF LinkInv, Nested
    <3>3. CASE EmitNewData(c)
      BY <3>3, EmitNewDataNests
    <3>4. CASE ReadDone(c)
      BY <3>4, ReturnNests DEF ReadDone, On
    <3>5. CASE WaitWritten(c)
      <4>1. stack # <<>> /\ stack[Len(stack)] = <<"wait", c>> /\ stack' = Returned
        BY <3>5 DEF WaitWritten, On, Top
      <4>2. \A d \in Conn \ {c} : writeBuffer'[d] = writeBuffer[d]
        BY <3>5 DEF WaitWritten, SocketWrites, LinkInv, Amounts
      <4> QED  BY <4>1, <4>2, ReturnNests
    <3> QED  BY <3>1, <3>2, <3>3, <3>4, <3>5
  <2>2. CASE ClientWrites \/ ClientReads \/ Echo \/ UNCHANGED vars
    <3>1. UNCHANGED <<stack, writeBuffer>>
      BY <2>2 DEF ClientWrites, ClientReads, Echo, EchoReads, EchoWrites, vars, sockets
    <3> QED  BY <3>1 DEF LinkInv, Nested
  <2> QED  BY <2>1, <2>2 DEF Next
<1> QED  BY <1>1, <1>2, PTL DEF Spec

(* However much data there is, waitForBytesWritten(-1) leads to no         *)
(* unbounded recursion between the two sockets: at most four calls are     *)
(* open, and no handler is entered while it runs.                          *)
THEOREM NestingIsBounded == Spec => []NestingBounded
<1>1. LinkInv => NestingBounded
  <2> SUFFICES ASSUME LinkInv,
                      NEW i \in 1..Len(stack), NEW j \in 1..Len(stack), stack[i] = stack[j]
               PROVE  i = j
    BY DEF LinkInv, Nested, NestingBounded
  <2>1. PICK b \in Conn : \A k \in 1..Len(stack) : stack[k] = NestFrame(b, k)
    BY DEF LinkInv, Nested
  <2>2. NestFrame(b, i) = NestFrame(b, j)
    BY <2>1
  <2>3. i \in 1..4 /\ j \in 1..4
    BY LenProperties DEF LinkInv, Nested
  <2>4. b # Receiver(b)
    BY DEF Conn, Receiver
  <2>5. i \in {1, 3} <=> j \in {1, 3}
    BY <2>2 DEF NestFrame
  <2>6. i \in {1, 4} <=> j \in {1, 4}
    BY <2>2, <2>4 DEF NestFrame
  <2> QED  BY <2>3, <2>5, <2>6
<1> QED  BY <1>1, LinkInvAlways, PTL

(* What HaltsOnlyAcross says, with the guards written out: while the       *)
(* client has more to send, the whole can only stand still in a wait for a *)
(* peer whose answers go around over the other connection.  One            *)
(* connection, request and answer, never halts, with buffers of any size.  *)
THEOREM StandsStillOnlyAcross ==
  Spec => []((sent < Bytes /\ ~CanGoOn) => (answers = "far" /\ On("wait", "far")))
<1>1. ASSUME LinkInv, sent < Bytes, ~CanGoOn
      PROVE  answers = "far" /\ On("wait", "far")
  <2>1. /\ toProxy["near"] = Capacity
        /\ toProxy["far"] \in 0..Capacity /\ toRemote["far"] \in 0..Capacity
        /\ answers \in Conn
    BY <1>1 DEF CanGoOn, LinkInv, Amounts, Conn
  <2>2. stack # <<>>
    BY <1>1, <2>1 DEF CanGoOn, Conn
  <2>3. PICK c \in Conn : stack[Len(stack)] = <<"wait", c>>
    <3>1. stack[Len(stack)] \in Frames
      BY <1>1, <2>2, EmptySeq, LenProperties DEF LinkInv, Nested
    <3>2. \A c \in Conn : stack[Len(stack)] # <<"read", c>>
      BY <1>1, <2>2 DEF CanGoOn, On, Top
    <3> QED  BY <3>1, <3>2 DEF Frames
  <2>4. On("wait", c)
    BY <2>2, <2>3 DEF On, Top
  <2>5. writeBuffer[c] > 0
    BY <1>1, <2>2, <2>3, EmptySeq, LenProperties DEF LinkInv, Nested
  <2>6. /\ ~(toProxy[c] > 0)
        /\ ~(toRemote[c] < Capacity)
    BY <1>1, <2>4, <2>5 DEF CanGoOn
  <2>7. c = "far"
    BY <2>1, <2>6 DEF Conn
  <2>8. ~echoing
    BY <1>1, <2>1, <2>6, <2>7 DEF CanGoOn
  <2>9. answers # "near"
    BY <1>1, <2>1, <2>6, <2>7, <2>8 DEF CanGoOn
  <2> QED  BY <2>1, <2>4, <2>7, <2>9 DEF Conn
<1> QED  BY <1>1, LinkInvAlways, PTL
=============================================================================
