--------------------------------- MODULE Link -------------------------------
(***************************************************************************)
(* Two TcpSocketIOs (io/TcpSocketIO.cpp) connected to each other in both   *)
(* directions, with what is around them: the buffers of QTcpSocket and of  *)
(* the operating system, and the programs at the far ends.  A client on    *)
(* connection "near" sends and reads the answers, on the same connection,  *)
(* where a program on "far" sends back what it gets; or on "far", where it *)
(* has its second connection.  Amounts are counted in bytes, all of which  *)
(* are alike.  What Engine.tla assumes of its peers, that they drain their *)
(* connections, is what this module looks into.                            *)
(***************************************************************************)
EXTENDS Naturals, Sequences

CONSTANTS Capacity,  \* the bytes the operating system holds, per direction
          Bytes      \* bound: what the client sends

ASSUME LinkAssumption == Capacity \in Nat \ {0} /\ Bytes \in Nat

VARIABLES
  answers,     \* the connection on which the client gets its answers
  toProxy,     \* per connection, the bytes in the operating system's buffers
  toRemote,
  readBuffer,  \* per connection, QTcpSocket's buffers, which have no limit
  writeBuffer,
  stack,       \* the calls that have not returned, innermost last
  sent,        \* bytes the client has written
  echoing,     \* the program on "far" holds a byte that it has to send back
  answered     \* bytes the client has read

sockets == <<readBuffer, writeBuffer, stack>>
remotes == <<sent, echoing, answered>>
vars    == <<answers, toProxy, toRemote, sockets, remotes>>

Conn == {"near", "far"}

(* The two addConnection() calls *)
Receiver(c) == IF c = "near" THEN "far" ELSE "near"

(* A frame is onSocketReadyRead, or writeData in waitForBytesWritten(-1).  *)
Frames    == {"read", "wait"} \X Conn
Top       == stack[Len(stack)]
On(op, c) == stack # <<>> /\ Top = <<op, c>>
Reading(c) == \E k \in 1..Len(stack) : stack[k] = <<"read", c>>
Returned  == SubSeq(stack, 1, Len(stack) - 1)

Init ==
  /\ answers \in Conn
  /\ toProxy = [c \in Conn |-> 0]
  /\ toRemote = [c \in Conn |-> 0]
  /\ readBuffer = [c \in Conn |-> 0]
  /\ writeBuffer = [c \in Conn |-> 0]
  /\ stack = <<>>
  /\ sent = 0
  /\ echoing = FALSE
  /\ answered = 0

-----------------------------------------------------------------------------
(* QTcpSocket reads all there is.  It emits readyRead, but not as long as  *)
(* a slot of that signal still runs.                                       *)
SocketReads(c) ==
  /\ toProxy[c] > 0
  /\ toProxy' = [toProxy EXCEPT ![c] = 0]
  /\ readBuffer' = [readBuffer EXCEPT ![c] = @ + toProxy[c]]
  /\ stack' = IF Reading(c) THEN stack ELSE Append(stack, <<"read", c>>)

(* It writes what the operating system takes.                              *)
SocketWrites(c) ==
  LET room   == Capacity - toRemote[c]
      amount == IF writeBuffer[c] < room THEN writeBuffer[c] ELSE room
  IN  /\ amount > 0
      /\ toRemote' = [toRemote EXCEPT ![c] = @ + amount]
      /\ writeBuffer' = [writeBuffer EXCEPT ![c] = @ - amount]

(* The event loop *)
ReadyRead(c) ==
  /\ stack = <<>>
  /\ SocketReads(c)
  /\ UNCHANGED <<answers, toRemote, writeBuffer, remotes>>

ReadyWrite(c) ==
  /\ stack = <<>>
  /\ SocketWrites(c)
  /\ UNCHANGED <<answers, toProxy, readBuffer, stack, remotes>>

(* One round of onSocketReadyRead: newData, which calls writeData of the   *)
(* receiver, which writes and waits.  Mutant: the data is peeked at.       *)
EmitNewData_Peeks(c) ==
  /\ On("read", c)
  /\ readBuffer[c] > 0
  /\ writeBuffer' = [writeBuffer EXCEPT ![Receiver(c)] = @ + readBuffer[c]]
  /\ stack' = Append(stack, <<"wait", Receiver(c)>>)
  /\ UNCHANGED <<answers, toProxy, toRemote, readBuffer, remotes>>

EmitNewData(c) ==
  /\ On("read", c)
  /\ readBuffer[c] > 0
  /\ readBuffer' = [readBuffer EXCEPT ![c] = 0]
  /\ writeBuffer' = [writeBuffer EXCEPT ![Receiver(c)] = @ + readBuffer[c]]
  /\ stack' = Append(stack, <<"wait", Receiver(c)>>)
  /\ UNCHANGED <<answers, toProxy, toRemote, remotes>>

(* Mutant: it may return with bytes left, as with an if in place of the    *)
(* while.                                                                  *)
ReadDone_Early(c) ==
  /\ On("read", c)
  /\ stack' = Returned
  /\ UNCHANGED <<answers, toProxy, toRemote, readBuffer, writeBuffer, remotes>>

ReadDone(c) ==
  /\ On("read", c)
  /\ readBuffer[c] = 0
  /\ stack' = Returned
  /\ UNCHANGED <<answers, toProxy, toRemote, readBuffer, writeBuffer, remotes>>

(* waitForBytesWritten(-1) reads too.  Mutant: it only writes.             *)
WaitRead_Never(c) == FALSE /\ On("wait", c) /\ UNCHANGED vars

WaitRead(c) ==
  /\ On("wait", c)
  /\ SocketReads(c)
  /\ UNCHANGED <<answers, toRemote, writeBuffer, remotes>>

(* It returns as soon as something has been written.                       *)
WaitWritten(c) ==
  /\ On("wait", c)
  /\ SocketWrites(c)
  /\ stack' = Returned
  /\ UNCHANGED <<answers, toProxy, readBuffer, remotes>>

-----------------------------------------------------------------------------
(* The client sends, and reads when it likes to; each write blocks until   *)
(* there is room.                                                          *)
ClientWrites ==
  /\ sent < Bytes
  /\ toProxy["near"] < Capacity
  /\ toProxy' = [toProxy EXCEPT !["near"] = @ + 1]
  /\ sent' = sent + 1
  /\ UNCHANGED <<answers, toRemote, sockets, echoing, answered>>

ClientReads ==
  /\ toRemote[answers] > 0
  /\ toRemote' = [toRemote EXCEPT ![answers] = @ - 1]
  /\ answered' = answered + 1
  /\ UNCHANGED <<answers, toProxy, sockets, sent, echoing>>

EchoReads ==
  /\ answers = "near"
  /\ ~echoing
  /\ toRemote["far"] > 0
  /\ toRemote' = [toRemote EXCEPT !["far"] = @ - 1]
  /\ echoing' = TRUE
  /\ UNCHANGED <<answers, toProxy, sockets, sent, answered>>

EchoWrites ==
  /\ echoing
  /\ toProxy["far"] < Capacity
  /\ toProxy' = [toProxy EXCEPT !["far"] = @ + 1]
  /\ echoing' = FALSE
  /\ UNCHANGED <<answers, toRemote, sockets, sent, answered>>

-----------------------------------------------------------------------------
Proxy ==
  \E c \in Conn :
    \/ ReadyRead(c) \/ ReadyWrite(c)
    \/ EmitNewData(c) \/ ReadDone(c)
    \/ WaitRead(c) \/ WaitWritten(c)

Echo == EchoReads \/ EchoWrites

Next == Proxy \/ ClientWrites \/ ClientReads \/ Echo

Spec == Init /\ [][Next]_vars

(* The proxy's thread and the far program go on when they can.  The client *)
(* is only trusted to read once it has written everything.                 *)
Fairness ==
  /\ WF_vars(Proxy)
  /\ WF_vars(Echo)
  /\ WF_vars(ClientWrites)
  /\ WF_vars(ClientReads /\ sent = Bytes)

FairSpec == Spec /\ Fairness

-----------------------------------------------------------------------------
(* The bytes on their way from connection c through the proxy.             *)
OnTheWay(c) == toProxy[c] + readBuffer[c] + writeBuffer[Receiver(c)] + toRemote[Receiver(c)]

(* However reads and waits nest, every byte sent is in one place: with the *)
(* client again, on its way through one of the buffers, or with the        *)
(* program that sends it back; none is lost, and none is written twice.    *)
NothingLost ==
  sent = answered + OnTheWay("near") + OnTheWay("far") + (IF echoing THEN 1 ELSE 0)

(* Request and answer over one connection: however small the buffers, and  *)
(* although writeData() never times out and the client reads nothing until *)
(* it has sent everything, every answer arrives.  waitForBytesWritten(-1)  *)
(* drains the very connection whose peer it waits for, and the while of    *)
(* onSocketReadyRead picks up what came while readyRead was held back.     *)
AllAnswered == (answers = "near") => <>(answered = Bytes)

(* Where everything can come to a halt although the client has more to     *)
(* send: only in a wait for a peer that is itself held up by the other     *)
(* connection, which nobody reads meanwhile; and -1 makes it stay there.   *)
Halted == ~ENABLED (Proxy \/ Echo \/ ClientWrites)
HaltsOnlyAcross == (sent < Bytes /\ Halted) => (answers = "far" /\ On("wait", "far"))

(* "Thats why we wait until the bytes have been written."                  *)
(* (TcpSocketIO.cpp:57): back in the event loop nothing is left to write.  *)
WrittenWhenReturned == stack = <<>> => \A c \in Conn : writeBuffer[c] = 0

=============================================================================
