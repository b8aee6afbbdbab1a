---------------------------- MODULE EngineProofs ----------------------------
(***************************************************************************)
(* Theorems about Engine.tla, for every set of IOs, every contract a       *)
(* plugin's IO may keep, every wiring and every value of the bounds.       *)
(***************************************************************************)
EXTENDS Engine, SequenceTheorems, FiniteSetTheorems, TLAPS

(* The operators of Handler.tla map handler records to handler records.    *)
LEMMA HandlerTypes ==
  ASSUME NEW h \in Handlers, NEW signal
  PROVE  /\ Connected(h) \in Handlers
         /\ Signaled(h, signal) \in Handlers
         /\ Disconnected(h) \in Handlers
         /\ DataRead(h) \in Handlers
         /\ DataWritten(h, signal) \in Handlers
<1>1. Connected(h) \in Handlers
  BY DEF Handlers, Connected
<1>2. Signaled(h, signal) \in Handlers
  <2>1. [h EXCEPT !.state = "Failed"] \in Handlers
    BY DEF Handlers, State
  <2>2. [h EXCEPT !.state = "Started"] \in Handlers
    BY DEF Handlers, State
  <2> QED
    BY <2>1, <2>2 DEF Signaled
<1>3. Disconnected(h) \in Handlers
  BY DEF Handlers, Disconnected
<1>4. DataRead(h) \in Handlers
  BY DEF Handlers, DataRead
<1>5. DataWritten(h, signal) \in Handlers
  BY <1>2 DEF Handlers, DataWritten
<1> QED
  BY <1>1, <1>2, <1>3, <1>4, <1>5

LEMMA NewHandlerType == NewHandler \in Handlers
  BY DEF NewHandler, Handlers, State

(* The call on top of the stack is a frame, and what is below is a stack.  *)
LEMMA StackTypes ==
  ASSUME stack \in Seq(Frames), stack # <<>>
  PROVE  /\ Top \in Frames
         /\ Top = stack[Len(stack)]
         /\ Returned \in Seq(Frames)
         /\ Len(Returned) = Len(stack) - 1
         /\ \A k \in 1..Len(Returned) : Returned[k] = stack[k]
<1>1. Len(stack) \in Nat /\ Len(stack) # 0
  OBVIOUS
<1>2. Top = stack[Len(stack)] /\ Top \in Frames
  BY <1>1 DEF Top
<1>3. Returned \in Seq(Frames)
  BY <1>1 DEF Returned
<1>4. Len(Returned) = Len(stack) - 1 /\ \A k \in 1..Len(Returned) : Returned[k] = stack[k]
  <2>1. \A k \in 1..(Len(stack) - 1) : stack[k] \in Frames
    BY <1>1
  <2>2. 1 \in Int /\ Len(stack) - 1 \in Int
    BY <1>1
  <2> DEFINE n == Len(stack) - 1
  <2>3. /\ Len(SubSeq(stack, 1, n)) = IF 1 <= n THEN n - 1 + 1 ELSE 0
        /\ \A k \in 1..(n - 1 + 1) : SubSeq(stack, 1, n)[k] = stack[1 + k - 1]
    BY ONLY <2>1, <2>2, SubSeqProperties
  <2>4. n \in Nat
    BY <1>1
  <2> HIDE DEF n
  <2>5. Len(SubSeq(stack, 1, n)) = n
    BY ONLY <2>3, <2>4
  <2>6. \A k \in 1..n : 1 + k - 1 = k /\ k \in 1..(n - 1 + 1)
    BY ONLY <2>4
  <2>7. \A k \in 1..n : SubSeq(stack, 1, n)[k] = stack[k]
    BY ONLY <2>3, <2>6
  <2> QED
    BY <2>5, <2>7 DEF Returned, n
<1> QED
  BY <1>2, <1>3, <1>4

LEMMA FrameTypes ==
  ASSUME NEW io \in IO, NEW n \in Nat
  PROVE  /\ ReadFrame(io) \in Frames
         /\ WriteFrame(io) \in Frames
         /\ EmitFrame(io, n) \in Frames
  BY DEF ReadFrame, WriteFrame, EmitFrame, Frames

(* An emission of newData keeps the types of what it changes.              *)
LEMMA OnNewDataTypes ==
  ASSUME TypeOK, NEW h \in [IO -> Handlers], NEW io \in IO, NEW frames \in Seq(Frames),
         OnNewData(h, io, frames)
  PROVE  /\ handler' \in [IO -> Handlers]
         /\ fan' \in [IO -> Seq(Nat)]
         /\ stack' \in Seq(Frames)
<1>1. handler' \in [IO -> Handlers]
  BY HandlerTypes DEF OnNewData
<1>2. fan' \in [IO -> Seq(Nat)]
  <2>1. Len(receivers[io]) \in Nat
    BY DEF TypeOK
  <2> QED
    BY <2>1 DEF OnNewData, TypeOK
<1>3. stack' \in Seq(Frames)
  <2>1. h[io].read + 1 \in Nat
    BY DEF Handlers
  <2>2. EmitFrame(io, h[io].read + 1) \in Frames
    BY <2>1, FrameTypes
  <2> QED
    BY <2>2 DEF OnNewData
<1> QED
  BY <1>1, <1>2, <1>3

LEMMA StartHandlerTypes ==
  ASSUME TypeOK, NEW io \in IO, NEW signal \in Contract[io].start, StartHandler(io, signal)
  PROVE  /\ handler' \in [IO -> Handlers]
         /\ fan' \in [IO -> Seq(Nat)]
         /\ stack' \in Seq(Frames)
         /\ dev' \in [IO -> Device]
<1> DEFINE started == [handler EXCEPT ![io] = Signaled(Connected(@), signal)]
<1>1. started \in [IO -> Handlers]
  BY HandlerTypes DEF TypeOK
<1>2. dev' \in [IO -> Device]
  BY DEF StartHandler, TypeOK, Device
<1>3. <<ReadFrame(io)>> \in Seq(Frames)
  BY FrameTypes, 0 \in Nat
<1>4. CASE OnNewData(started, io, <<ReadFrame(io)>>)
  BY <1>1, <1>2, <1>3, <1>4, OnNewDataTypes
<1>5. CASE handler' = started /\ UNCHANGED <<fan, stack>>
  BY <1>1, <1>2, <1>5 DEF TypeOK
<1> QED
  BY <1>4, <1>5 DEF StartHandler

(* The receiver an emission calls next, and what the call leaves behind.   *)
LEMMA SlotTypes ==
  ASSUME TypeOK, HasNextReceiver
  PROVE  /\ NextReceiver \in IO
         /\ Top.io \in IO
         /\ Top.at \in 1..Len(receivers[Top.io])
         /\ SlotLeft \in Seq(Frames)
         /\ \A taken \in BOOLEAN : SlotCalled(taken) =>
              seen' \in [IO -> Seq([src : IO, pkt : Nat, taken : BOOLEAN])]
<1>1. Top \in Frames /\ Returned \in Seq(Frames)
  BY StackTypes DEF HasNextReceiver, Running, TypeOK
<1>2. Top.io \in IO /\ Top.pkt \in Nat /\ Top.at \in Nat \ {0}
  BY <1>1 DEF Frames
<1>3. Top.at \in 1..Len(receivers[Top.io])
  BY <1>2 DEF HasNextReceiver, TypeOK
<1>4. NextReceiver \in IO
  BY <1>2, <1>3 DEF NextReceiver, TypeOK
<1>5. SlotLeft \in Seq(Frames)
  <2>1. Top.at + 1 \in Nat \ {0}
    BY <1>2
  <2>2. [Top EXCEPT !.at = @ + 1] \in Frames
    BY <1>1, <2>1 DEF Frames
  <2> QED
    BY <1>1, <2>2, AppendProperties DEF SlotLeft
<1>6. ASSUME NEW taken \in BOOLEAN, SlotCalled(taken)
      PROVE  seen' \in [IO -> Seq([src : IO, pkt : Nat, taken : BOOLEAN])]
  <2> DEFINE call == [src |-> Top.io, pkt |-> Top.pkt, taken |-> taken]
             Calls == [src : IO, pkt : Nat, taken : BOOLEAN]
  <2>1. call \in Calls
    BY <1>2
  <2>2. seen[NextReceiver] \in Seq(Calls)
    BY <1>4 DEF TypeOK
  <2>3. Append(seen[NextReceiver], call) \in Seq(Calls)
    BY <2>1, <2>2, AppendProperties
  <2>4. seen' = [seen EXCEPT ![NextReceiver] = Append(@, call)]
    BY <1>6 DEF SlotCalled
  <2>5. seen \in [IO -> Seq(Calls)]
    BY DEF TypeOK
  <2> HIDE DEF call, Calls
  <2>6. seen' \in [IO -> Seq(Calls)]
    BY <1>4, <2>3, <2>4, <2>5
  <2> QED
    BY <2>6 DEF Calls
<1> QED
  BY <1>2, <1>3, <1>4, <1>5, <1>6

(* Every variable keeps its type, whatever the IOs do.                     *)
LEMMA TypeInit == Init => TypeOK
<1> SUFFICES ASSUME Init PROVE TypeOK
  OBVIOUS
<1>1. m_handlers \in Seq(IO) /\ stack \in Seq(Frames)
  BY DEF Init
<1>2. m_started \in BOOLEAN /\ phase \in {"idle", "starting", "destroyed"}
  BY DEF Init
<1>3. at \in Nat \ {0}
  BY DEF Init
<1>4. handler \in [IO -> Handlers] /\ dev \in [IO -> Device]
  BY NewHandlerType DEF Init, Device
<1>5. receivers \in [IO -> Seq(IO)]
  BY DEF Init
<1>6. fan \in [IO -> Seq(Nat)]
  BY DEF Init
<1>7. seen \in [IO -> Seq([src : IO, pkt : Nat, taken : BOOLEAN])]
  BY DEF Init
<1> QED
  BY <1>1, <1>2, <1>3, <1>4, <1>5, <1>6, <1>7 DEF TypeOK

LEMMA TypeStep == TypeOK /\ [Next]_vars => TypeOK'
<1> SUFFICES ASSUME TypeOK, [Next]_vars PROVE TypeOK'
  OBVIOUS
<1>1. ASSUME NEW io \in IO, AddIO(io) PROVE TypeOK'
  <2>1. m_handlers' \in Seq(IO)
    BY <1>1 DEF AddIO, TypeOK
  <2>2. /\ handler' \in [IO -> Handlers]
        /\ fan' \in [IO -> Seq(Nat)]
        /\ stack' \in Seq(Frames)
        /\ dev' \in [IO -> Device]
    BY <1>1, StartHandlerTypes DEF AddIO, TypeOK
  <2> QED
    BY <1>1, <2>1, <2>2 DEF AddIO, TypeOK
<1>2. ASSUME NEW r \in Requests, AddConnection(r[1], r[2]) PROVE TypeOK'
  <2>1. receivers' \in [IO -> Seq(IO)]
    <3>1. PICK s, d \in 1..Len(m_handlers) :
            receivers' = [receivers EXCEPT ![m_handlers[s]] = Append(@, m_handlers[d])]
      BY <1>2 DEF AddConnection
    <3>2. m_handlers[s] \in IO /\ m_handlers[d] \in IO
      BY DEF TypeOK
    <3>3. Append(receivers[m_handlers[s]], m_handlers[d]) \in Seq(IO)
      BY <3>2 DEF TypeOK
    <3> QED
      BY <3>1, <3>2, <3>3 DEF TypeOK
  <2> QED
    BY <1>2, <2>1 DEF AddConnection, TypeOK
<1>3. CASE EngineStart
  <2>1. at' \in Nat \ {0}
    BY <1>3 DEF EngineStart
  <2> QED
    BY <1>3, <2>1 DEF EngineStart, TypeOK
<1>4. ASSUME NEW ios, StopHandlers(ios)
      PROVE  handler' \in [IO -> Handlers] /\ dev' \in [IO -> Device]
  BY <1>4, HandlerTypes DEF StopHandlers, TypeOK, Device
<1>5. CASE EngineStop
  BY <1>4, <1>5 DEF EngineStop, TypeOK
<1>6. CASE Destroy
  BY <1>4, <1>6 DEF Destroy, TypeOK
<1>7. CASE StartNext
  <2>1. m_handlers[at] \in IO
    BY <1>7 DEF StartNext, TypeOK
  <2>2. /\ handler' \in [IO -> Handlers]
        /\ fan' \in [IO -> Seq(Nat)]
        /\ stack' \in Seq(Frames)
        /\ dev' \in [IO -> Device]
    BY <1>7, <2>1, StartHandlerTypes DEF StartNext
  <2>3. at' \in Nat \ {0}
    BY <1>7 DEF StartNext, TypeOK
  <2> QED
    BY <1>7, <2>2, <2>3 DEF StartNext, TypeOK
<1>8. CASE StartDone
  <2>1. at' \in Nat \ {0}
    BY <1>8 DEF StartDone
  <2> QED
    BY <1>8, <2>1 DEF StartDone, TypeOK
<1>9. ASSUME NEW io \in IO, ReadyRead(io) PROVE TypeOK'
  <2>1. <<ReadFrame(io)>> \in Seq(Frames)
    BY FrameTypes, 0 \in Nat
  <2>2. handler \in [IO -> Handlers]
    BY DEF TypeOK
  <2>3. OnNewData(handler, io, <<ReadFrame(io)>>)
    BY <1>9 DEF ReadyRead
  <2> QED
    BY <1>9, <2>1, <2>2, <2>3, OnNewDataTypes DEF ReadyRead, engineVars, TypeOK
<1>10. ASSUME NEW io \in IO, WaitRead(io) PROVE TypeOK'
  <2>1. Append(stack, ReadFrame(io)) \in Seq(Frames)
    BY FrameTypes, 0 \in Nat DEF TypeOK
  <2>2. handler \in [IO -> Handlers]
    BY DEF TypeOK
  <2>3. OnNewData(handler, io, Append(stack, ReadFrame(io)))
    BY <1>10 DEF WaitRead
  <2> QED
    BY <1>10, <2>1, <2>2, <2>3, OnNewDataTypes DEF WaitRead, engineVars, TypeOK
<1>11. ASSUME NEW io \in IO, RuntimeError(io) PROVE TypeOK'
  <2>1. handler' \in [IO -> Handlers]
    BY <1>11, HandlerTypes DEF RuntimeError, TypeOK
  <2> QED
    BY <1>11, <2>1 DEF RuntimeError, engineVars, TypeOK
<1>12. CASE ReadMore
  <2>1. Top \in Frames /\ Top.io \in IO
    BY <1>12, StackTypes DEF ReadMore, Running, TypeOK, Frames
  <2>2. handler \in [IO -> Handlers] /\ stack \in Seq(Frames)
    BY DEF TypeOK
  <2>3. OnNewData(handler, Top.io, stack)
    BY <1>12 DEF ReadMore
  <2>4. /\ handler' \in [IO -> Handlers]
        /\ fan' \in [IO -> Seq(Nat)]
        /\ stack' \in Seq(Frames)
    BY <2>1, <2>2, <2>3, OnNewDataTypes
  <2> QED
    BY <1>12, <2>4 DEF ReadMore, engineVars, TypeOK
<1>13. CASE ReadDone
  BY <1>13, StackTypes DEF ReadDone, Running, engineVars, TypeOK
<1>14. CASE EmitDone
  BY <1>14, StackTypes DEF EmitDone, Running, engineVars, TypeOK
<1>15. CASE Drop
  <2>1. /\ NextReceiver \in IO
        /\ SlotLeft \in Seq(Frames)
    BY <1>15, SlotTypes DEF Drop
  <2>2. seen' \in [IO -> Seq([src : IO, pkt : Nat, taken : BOOLEAN])]
    BY <1>15, SlotTypes DEF Drop
  <2> QED
    BY <1>15, <2>1, <2>2 DEF Drop, engineVars, TypeOK
<1>16. CASE Write
  <2>1. /\ NextReceiver \in IO
        /\ SlotLeft \in Seq(Frames)
    BY <1>16, SlotTypes DEF Write
  <2>2. seen' \in [IO -> Seq([src : IO, pkt : Nat, taken : BOOLEAN])]
    BY <1>16, SlotTypes DEF Write
  <2> DEFINE calls == Append(SlotLeft, WriteFrame(NextReceiver))
  <2>3. calls \in Seq(Frames)
    BY <2>1, FrameTypes, 0 \in Nat, AppendProperties
  <2>4. /\ handler' \in [IO -> Handlers]
        /\ fan' \in [IO -> Seq(Nat)]
        /\ stack' \in Seq(Frames)
    <3>1. CASE OnNewData(handler, NextReceiver, calls)
      <4>1. handler \in [IO -> Handlers]
        BY DEF TypeOK
      <4> QED
        BY <2>1, <2>3, <3>1, <4>1, OnNewDataTypes
    <3>2. CASE stack' = calls /\ UNCHANGED <<handler, fan>>
      BY <2>3, <3>2 DEF TypeOK
    <3> QED
      BY <1>16, <3>1, <3>2 DEF Write
  <2> QED
    BY <1>16, <2>2, <2>4 DEF Write, engineVars, TypeOK
<1>17. CASE WriteReturns
  <2>1. Top.io \in IO /\ Returned \in Seq(Frames)
    BY <1>17, StackTypes DEF WriteReturns, Running, TypeOK, Frames
  <2>2. handler' \in [IO -> Handlers]
    <3>1. PICK signal : handler' = [handler EXCEPT ![Top.io] = DataWritten(@, signal)]
      BY <1>17 DEF WriteReturns
    <3>2. handler[Top.io] \in Handlers /\ handler \in [IO -> Handlers]
      BY <2>1 DEF TypeOK
    <3>3. DataWritten(handler[Top.io], signal) \in Handlers
      BY <3>2, HandlerTypes
    <3> QED
      BY <3>1, <3>2, <3>3
  <2> QED
    BY <1>17, <2>1, <2>2 DEF WriteReturns, engineVars, TypeOK
<1>18. CASE Destroyed \/ UNCHANGED vars
  BY <1>18 DEF Destroyed, vars, engineVars, TypeOK
<1> QED
  BY <1>1, <1>2, <1>3, <1>5, <1>6, <1>7, <1>8, <1>9, <1>10, <1>11, <1>12, <1>13, <1>14,
     <1>15, <1>16, <1>17, <1>18 DEF Next, Interface, Return

THEOREM TypeCorrect == Spec => []TypeOK
  BY TypeInit, TypeStep, PTL DEF Spec

-----------------------------------------------------------------------------
(* Why no stopped IO is written to.                                        *)

Inv == TypeOK /\ DispatchInv /\ NoWriteToStopped /\ SingleWiring

(* What a handler record g keeps of h while data flows: its connections,   *)
(* and it does not become Started.                                         *)
Keeps(g, h) ==
  /\ g.data = h.data
  /\ g.lifecycle = h.lifecycle
  /\ Accepts(g) => Accepts(h)

LEMMA HandlerKeeps ==
  ASSUME NEW h \in Handlers, NEW signal \in {"none", "errorOccured"}
  PROVE  /\ Keeps(h, h)
         /\ Keeps(Signaled(h, signal), h)
         /\ Keeps(DataRead(h), h)
         /\ Keeps(DataWritten(h, signal), h)
<1>1. Keeps(h, h)
  BY DEF Keeps
<1>2. Keeps(Signaled(h, signal), h)
  BY DEF Keeps, Signaled, Handlers, Accepts, ErrorSignal
<1>3. Keeps(DataRead(h), h)
  BY DEF Keeps, DataRead, Handlers, Accepts
<1>4. Keeps(DataWritten(h, signal), Signaled(h, signal))
  <2>1. Signaled(h, signal) \in Handlers
    BY HandlerTypes
  <2> QED
    BY <2>1 DEF Keeps, DataWritten, Handlers, Accepts
<1> QED
  BY <1>1, <1>2, <1>3, <1>4 DEF Keeps

(* What start() does to the handler of an IO that does not run.            *)
LEMMA HandlerStarted ==
  ASSUME NEW h \in Handlers, NEW signal, h.lifecycle = 0
  PROVE  /\ Signaled(Connected(h), signal).data = h.data
         /\ Signaled(Connected(h), signal).lifecycle = 1
         /\ Signaled(Connected(h), signal) \in Handlers
<1>1. /\ Connected(h) \in Handlers
      /\ Connected(h).data = h.data
      /\ Connected(h).lifecycle = 1
  BY HandlerTypes DEF Connected, Handlers
<1>2. \A g \in Handlers : Signaled(g, signal).data = g.data /\ Signaled(g, signal).lifecycle = g.lifecycle
  BY DEF Signaled, Handlers
<1> QED
  BY <1>1, <1>2, HandlerTypes

LEMMA HandlerStopped ==
  ASSUME NEW h \in Handlers
  PROVE  Disconnected(h).data = FALSE /\ Disconnected(h).lifecycle = 0
  BY DEF Disconnected, Handlers

(* Pushing frames and returning from calls, while the devices stay as they *)
(* are.                                                                    *)
WritesUp(s) == \A k \in 1..Len(s) : s[k].op = "write" => dev[s[k].io] # "idle"

LEMMA PushUp ==
  ASSUME NEW s \in Seq(Frames), WritesUp(s), NEW f \in Frames,
         f.op = "write" => dev[f.io] # "idle"
  PROVE  WritesUp(Append(s, f))
<1> SUFFICES ASSUME NEW k \in 1..Len(Append(s, f)), Append(s, f)[k].op = "write"
             PROVE  dev[Append(s, f)[k].io] # "idle"
  BY DEF WritesUp
<1>1. CASE k \in 1..Len(s)
  <2>1. Append(s, f)[k] = s[k]
    BY <1>1, AppendProperties
  <2> QED
    BY <1>1, <2>1 DEF WritesUp
<1>2. CASE k = Len(s) + 1
  <2>1. Append(s, f)[k] = f
    BY <1>2, AppendProperties
  <2> QED
    BY <2>1
<1>3. Len(Append(s, f)) = Len(s) + 1 /\ Len(s) \in Nat
  BY AppendProperties
<1> QED
  BY <1>1, <1>2, <1>3

LEMMA ReturnUp ==
  ASSUME stack \in Seq(Frames), stack # <<>>, WritesUp(stack)
  PROVE  WritesUp(Returned)
<1>1. Len(Returned) = Len(stack) - 1 /\ Len(stack) \in Nat
  BY StackTypes
<1> QED
  BY <1>1, StackTypes DEF WritesUp

(* An emission pushes no write frame.                                      *)
LEMMA OnNewDataUp ==
  ASSUME NEW h \in [IO -> Handlers], NEW io \in IO, NEW frames \in Seq(Frames),
         WritesUp(frames), OnNewData(h, io, frames)
  PROVE  WritesUp(stack')
<1>1. h[io].read + 1 \in Nat
  BY DEF Handlers
<1>2. EmitFrame(io, h[io].read + 1) \in Frames
  BY <1>1, FrameTypes
<1>3. EmitFrame(io, h[io].read + 1).op # "write"
  BY DEF EmitFrame
<1> QED
  BY <1>2, <1>3, PushUp DEF OnNewData

LEMMA ReadFrameUp ==
  ASSUME NEW io \in IO
  PROVE  <<ReadFrame(io)>> \in Seq(Frames) /\ WritesUp(<<ReadFrame(io)>>)
<1>1. ReadFrame(io) \in Frames /\ ReadFrame(io).op # "write"
  BY FrameTypes, 0 \in Nat DEF ReadFrame
<1> QED
  BY <1>1 DEF WritesUp

(* While calls run, nothing is started, stopped, added or connected.       *)
LEMMA DataFlows ==
  ASSUME Inv, TypeOK', UNCHANGED <<engineVars, dev>>,
         \A io \in IO : Keeps(handler'[io], handler[io]),
         CallersUp', WritesUp(stack')
  PROVE  Inv'
<1>1. HandlersDistinct' /\ ConnectionsAdded'
  BY DEF Inv, DispatchInv, HandlersDistinct, ConnectionsAdded, Added, engineVars
<1>2. OthersFresh'
  BY DEF Inv, DispatchInv, OthersFresh, Added, engineVars, Keeps
<1>3. StartProgress'
  BY DEF Inv, DispatchInv, StartProgress, Up, engineVars
<1>4. StoppedFirst'
  <2>1. \A k \in 1..Len(m_handlers) : handler'[m_handlers[k]].data = handler[m_handlers[k]].data
    BY DEF Inv, TypeOK, Keeps
  <2> QED
    BY <2>1 DEF Inv, DispatchInv, StoppedFirst, engineVars
<1>5. NoStaleStarted'
  BY DEF Inv, DispatchInv, NoStaleStarted, Keeps
<1>6. NoWriteToStopped'
  BY DEF NoWriteToStopped, WritesUp
<1>7. SingleWiring'
  BY DEF Inv, SingleWiring, Keeps
<1> QED
  BY <1>1, <1>2, <1>3, <1>4, <1>5, <1>6, <1>7 DEF Inv, DispatchInv

(* A frame on the stack goes back to an IO that is up, and stays there.    *)
LEMMA CallersStay ==
  ASSUME Inv, stack # <<>>, UNCHANGED engineVars,
         \A io \in IO : Keeps(handler'[io], handler[io])
  PROVE  CallersUp'
<1>1. CASE phase = "idle" /\ m_started
  BY <1>1 DEF CallersUp, engineVars
<1>2. CASE phase = "starting" /\ at > 1 /\ handler[m_handlers[at - 1]].data
  <2>1. at - 1 \in 1..Len(m_handlers)
    BY <1>2 DEF Inv, DispatchInv, StartProgress, TypeOK
  <2>2. m_handlers[at - 1] \in IO
    BY <2>1 DEF Inv, TypeOK
  <2> QED
    BY <1>2, <2>2 DEF CallersUp, engineVars, Keeps
<1> QED
  BY <1>1, <1>2 DEF Inv, DispatchInv, CallersUp

(* An IO whose device emits or fails is up.                                *)
LEMMA RunningUp ==
  ASSUME Inv, NEW io \in IO, dev[io] # "idle"
  PROVE  \E k \in 1..Len(m_handlers) : m_handlers[k] = io /\ Up(k)
<1>1. io \in Added
  BY DEF Inv, DispatchInv, OthersFresh
<1>2. PICK k \in 1..Len(m_handlers) : m_handlers[k] = io
  BY <1>1 DEF Added
<1> QED
  BY <1>2 DEF Inv, DispatchInv, StartProgress

(* The point of it all: a handler that takes data has a running IO.        *)
LEMMA ReceiverUp ==
  ASSUME Inv, HasNextReceiver, Accepts(handler[NextReceiver])
  PROVE  dev[NextReceiver] # "idle"
<1>1. NextReceiver \in Added
  <2>1. Top.io \in IO /\ Top.at \in 1..Len(receivers[Top.io])
    BY SlotTypes DEF Inv
  <2> QED
    BY <2>1 DEF Inv, DispatchInv, ConnectionsAdded, NextReceiver
<1>2. PICK k \in 1..Len(m_handlers) : m_handlers[k] = NextReceiver
  BY <1>1 DEF Added
<1>3. stack # <<>>
  BY DEF HasNextReceiver, Running
<1>4. CASE phase = "idle" /\ m_started
  BY <1>2, <1>4 DEF Inv, DispatchInv, StartProgress, Up
<1>5. CASE phase = "starting" /\ at > 1 /\ handler[m_handlers[at - 1]].data
  <2>1. CASE k < at
    BY <1>2, <1>5, <2>1 DEF Inv, DispatchInv, StartProgress, Up
  <2>2. CASE k >= at
    <3>1. at - 1 \in 1..Len(m_handlers) /\ at - 1 < k
      BY <1>5, <2>2 DEF Inv, DispatchInv, StartProgress, TypeOK
    <3>2. handler[NextReceiver].data
      BY <1>2, <1>5, <3>1 DEF Inv, DispatchInv, StoppedFirst
    <3>3. NextReceiver \in IO
      BY SlotTypes DEF Inv
    <3> QED
      BY <3>2, <3>3 DEF Inv, DispatchInv, NoStaleStarted
  <2> QED
    BY <2>1, <2>2 DEF Inv, TypeOK
<1> QED
  BY <1>3, <1>4, <1>5 DEF Inv, DispatchInv, CallersUp

LEMMA InvInit == Init => Inv
<1> SUFFICES ASSUME Init PROVE Inv
  OBVIOUS
<1>1. TypeOK
  BY TypeInit
<1>2. DispatchInv
  BY DEF Init, DispatchInv, HandlersDistinct, ConnectionsAdded, OthersFresh, StartProgress,
         StoppedFirst, NoStaleStarted, CallersUp, NewHandler, Accepts
<1>3. NoWriteToStopped /\ SingleWiring
  BY DEF Init, NoWriteToStopped, SingleWiring, NewHandler
<1> QED
  BY <1>1, <1>2, <1>3 DEF Inv

(* An IO emits from a device that runs.                                    *)
LEMMA EmitterUp ==
  ASSUME NEW io \in IO, MayEmit(io)
  PROVE  dev[io] # "idle"
<1>1. Contract[io] \in IOContracts
  BY ContractAssumption
<1>2. Contract[io].emits \subseteq Device \ {"idle"}
  BY <1>1 DEF IOContracts
<1> QED
  BY <1>2 DEF MayEmit

(* The steps of the dispatch.                                              *)
LEMMA InvDispatch ==
  ASSUME Inv, TypeOK',
         \/ \E io \in IO : ReadyRead(io) \/ WaitRead(io) \/ RuntimeError(io)
         \/ ReadMore \/ Return
  PROVE  Inv'
<1> DEFINE AllKeep == \A io \in IO : Keeps(handler'[io], handler[io])
<1>0. /\ handler \in [IO -> Handlers]
      /\ stack \in Seq(Frames)
      /\ WritesUp(stack)
  BY DEF Inv, TypeOK, NoWriteToStopped, WritesUp
<1>1. ASSUME NEW io \in IO, NEW frames, OnNewData(handler, io, frames)
      PROVE  AllKeep
  BY <1>0, <1>1, HandlerKeeps DEF OnNewData
<1>2. ASSUME UNCHANGED handler PROVE AllKeep
  BY <1>0, <1>2, HandlerKeeps
<1>3. ASSUME NEW io \in IO, ReadyRead(io) PROVE Inv'
  <2>1. PICK k \in 1..Len(m_handlers) : m_handlers[k] = io /\ Up(k)
    <3>1. dev[io] # "idle"
      BY <1>3, EmitterUp DEF ReadyRead
    <3> QED
      BY <3>1, RunningUp
  <2>2. CallersUp'
    BY <1>3, <2>1 DEF Up, Quiescent, ReadyRead, engineVars, CallersUp
  <2>3. WritesUp(stack')
    BY <1>0, <1>3, ReadFrameUp, OnNewDataUp DEF ReadyRead
  <2>4. AllKeep
    BY <1>1, <1>3 DEF ReadyRead
  <2> QED
    BY <1>3, <2>2, <2>3, <2>4, DataFlows DEF ReadyRead
<1>4. ASSUME NEW io \in IO, WaitRead(io) PROVE Inv'
  <2>1. AllKeep
    BY <1>1, <1>4 DEF WaitRead
  <2>2. CallersUp'
    BY <1>4, <2>1, CallersStay DEF WaitRead, Running
  <2>3. WritesUp(stack')
    <3>1. ReadFrame(io) \in Frames /\ ReadFrame(io).op # "write"
      BY FrameTypes, 0 \in Nat DEF ReadFrame
    <3>2. /\ Append(stack, ReadFrame(io)) \in Seq(Frames)
          /\ WritesUp(Append(stack, ReadFrame(io)))
      BY <1>0, <3>1, PushUp, AppendProperties
    <3> QED
      BY <1>0, <1>4, <3>2, OnNewDataUp DEF WaitRead
  <2> QED
    BY <1>4, <2>1, <2>2, <2>3, DataFlows DEF WaitRead
<1>5. ASSUME NEW io \in IO, RuntimeError(io) PROVE Inv'
  <2>1. AllKeep
    BY <1>0, <1>5, HandlerKeeps DEF RuntimeError
  <2>2. CallersUp'
    <3>1. CASE stack = <<>>
      BY <1>5, <3>1 DEF RuntimeError, CallersUp
    <3>2. CASE stack # <<>>
      BY <1>5, <2>1, <3>2, CallersStay DEF RuntimeError
    <3> QED
      BY <3>1, <3>2
  <2> QED
    BY <1>0, <1>5, <2>1, <2>2, DataFlows DEF RuntimeError
<1>6. CASE ReadMore
  <2>1. Top.io \in IO
    BY <1>0, <1>6, StackTypes DEF ReadMore, Running, Frames
  <2>2. AllKeep
    BY <1>1, <1>6, <2>1 DEF ReadMore
  <2>3. CallersUp'
    BY <1>6, <2>2, CallersStay DEF ReadMore, Running
  <2>4. WritesUp(stack')
    BY <1>0, <1>6, <2>1, OnNewDataUp DEF ReadMore
  <2> QED
    BY <1>6, <2>2, <2>3, <2>4, DataFlows DEF ReadMore
<1>7. CASE ReadDone \/ EmitDone
  <2>1. stack # <<>> /\ stack' = Returned /\ UNCHANGED <<engineVars, handler, dev>>
    BY <1>7 DEF ReadDone, EmitDone, Running
  <2>2. AllKeep
    BY <1>2, <2>1
  <2>3. CallersUp'
    BY <2>1, <2>2, CallersStay
  <2>4. WritesUp(stack')
    BY <1>0, <2>1, ReturnUp
  <2> QED
    BY <2>1, <2>2, <2>3, <2>4, DataFlows
<1>8. ASSUME HasNextReceiver
      PROVE  /\ stack # <<>>
             /\ SlotLeft \in Seq(Frames)
             /\ WritesUp(SlotLeft)
  <2>1. stack # <<>> /\ Top.op = "emit"
    BY <1>8 DEF HasNextReceiver, Running
  <2>2. /\ Returned \in Seq(Frames) /\ WritesUp(Returned)
        /\ Top \in Frames
    BY <1>0, <2>1, ReturnUp, StackTypes
  <2>3. /\ [Top EXCEPT !.at = @ + 1] \in Frames
        /\ [Top EXCEPT !.at = @ + 1].op # "write"
    <3>1. Top.at + 1 \in Nat \ {0}
      BY <2>2 DEF Frames
    <3> QED
      BY <2>1, <2>2, <3>1 DEF Frames
  <2> QED
    BY <2>1, <2>2, <2>3, PushUp, AppendProperties DEF SlotLeft
<1>9. CASE Drop
  <2>1. AllKeep
    BY <1>2, <1>9 DEF Drop
  <2>2. CallersUp'
    BY <1>8, <1>9, <2>1, CallersStay DEF Drop
  <2> QED
    BY <1>8, <1>9, <2>1, <2>2, DataFlows DEF Drop
<1>10. CASE Write
  <2>1. NextReceiver \in IO /\ dev[NextReceiver] # "idle"
    BY <1>10, ReceiverUp, SlotTypes DEF Write, Inv
  <2> DEFINE calls == Append(SlotLeft, WriteFrame(NextReceiver))
  <2>2. calls \in Seq(Frames) /\ WritesUp(calls)
    <3>1. WriteFrame(NextReceiver) \in Frames /\ WriteFrame(NextReceiver).io = NextReceiver
      BY <2>1, FrameTypes, 0 \in Nat DEF WriteFrame
    <3> QED
      BY <1>8, <1>10, <2>1, <3>1, PushUp, AppendProperties DEF Write
  <2>3. CASE OnNewData(handler, NextReceiver, calls)
    <3>1. AllKeep
      BY <1>1, <2>1, <2>3
    <3>2. CallersUp'
      BY <1>8, <1>10, <3>1, CallersStay DEF Write
    <3>3. WritesUp(stack')
      BY <1>0, <2>1, <2>2, <2>3, OnNewDataUp
    <3> QED
      BY <1>10, <3>1, <3>2, <3>3, DataFlows DEF Write
  <2>4. CASE stack' = calls /\ UNCHANGED <<handler, fan>>
    <3>1. AllKeep
      BY <1>2, <2>4
    <3>2. CallersUp'
      BY <1>8, <1>10, <3>1, CallersStay DEF Write
    <3> QED
      BY <1>10, <2>2, <2>4, <3>1, <3>2, DataFlows DEF Write
  <2> QED
    BY <1>10, <2>3, <2>4 DEF Write
<1>11. CASE WriteReturns
  <2>1. stack # <<>> /\ stack' = Returned /\ UNCHANGED <<engineVars, dev>>
    BY <1>11 DEF WriteReturns, Running
  <2>2. PICK signal \in {"none", "errorOccured"} :
          handler' = [handler EXCEPT ![Top.io] = DataWritten(@, signal)]
    BY <1>11 DEF WriteReturns
  <2>3. AllKeep
    BY <1>0, <2>2, HandlerKeeps
  <2>4. CallersUp'
    BY <2>1, <2>3, CallersStay
  <2>5. WritesUp(stack')
    BY <1>0, <2>1, ReturnUp
  <2> QED
    BY <2>1, <2>3, <2>4, <2>5, DataFlows
<1> QED
  BY <1>3, <1>4, <1>5, <1>6, <1>7, <1>9, <1>10, <1>11 DEF Return

(* Handler::start of an IO that does not run, with nothing on the stack.   *)
LEMMA StartHandlerWiring ==
  ASSUME Inv, stack = <<>>, NEW io \in IO, dev[io] = "idle",
         NEW signal \in Contract[io].start, StartHandler(io, signal)
  PROVE  /\ \A o \in IO : handler'[o].data = handler[o].data
         /\ \A o \in IO : o # io => (handler'[o] = handler[o] /\ dev'[o] = dev[o])
         /\ handler'[io].lifecycle = 1
         /\ dev'[io] # "idle"
         /\ stack' # <<>> => handler[io].data
         /\ \A k \in 1..Len(stack') : stack'[k].op # "write"
<1> DEFINE g == Signaled(Connected(handler[io]), signal)
           started == [handler EXCEPT ![io] = g]
<1>1. handler \in [IO -> Handlers] /\ dev \in [IO -> Device]
  BY DEF Inv, TypeOK
<1>2. g \in Handlers /\ g.data = handler[io].data /\ g.lifecycle = 1
  BY <1>1, HandlerStarted DEF Inv, SingleWiring
<1>3. /\ dev'[io] # "idle"
      /\ \A o \in IO : o # io => dev'[o] = dev[o]
  BY <1>1 DEF StartHandler
<1>4. CASE g.data /\ OnNewData(started, io, <<ReadFrame(io)>>)
  <2>1. handler' = [handler EXCEPT ![io] = DataRead(g)]
    BY <1>1, <1>4 DEF OnNewData
  <2>2. DataRead(g).data = g.data /\ DataRead(g).lifecycle = g.lifecycle
    BY <1>2 DEF DataRead, Handlers
  <2>3. started[io] = g
    BY <1>1
  <2>4. stack' = Append(<<ReadFrame(io)>>, EmitFrame(io, started[io].read + 1))
    BY <1>4 DEF OnNewData
  <2>5. \A k \in 1..Len(stack') : stack'[k].op # "write"
    <3>1. EmitFrame(io, started[io].read + 1).op # "write" /\ ReadFrame(io).op # "write"
      BY DEF ReadFrame, EmitFrame
    <3>2. started[io].read + 1 \in Nat
      BY <1>2, <2>3 DEF Handlers
    <3>3. ReadFrame(io) \in Frames /\ EmitFrame(io, started[io].read + 1) \in Frames
      BY <3>2, FrameTypes, 0 \in Nat
    <3> DEFINE r == ReadFrame(io)
               e == EmitFrame(io, started[io].read + 1)
    <3> HIDE DEF r, e
    <3>4. r \in Frames /\ e \in Frames /\ r.op # "write" /\ e.op # "write"
      BY <3>1, <3>3 DEF r, e
    <3>5. <<r>> \in Seq(Frames) /\ Len(<<r>>) = 1 /\ <<r>>[1] = r
      BY <3>4
    <3>6. Len(stack') = 2 /\ stack'[1] = r /\ stack'[2] = e
      <4>1. stack' = Append(<<r>>, e)
        BY <2>4 DEF r, e
      <4>2. /\ Len(Append(<<r>>, e)) = Len(<<r>>) + 1
            /\ \A i \in 1..Len(<<r>>) : Append(<<r>>, e)[i] = <<r>>[i]
            /\ Append(<<r>>, e)[Len(<<r>>) + 1] = e
        BY <3>4, <3>5, AppendProperties
      <4> QED
        BY <3>5, <4>1, <4>2
    <3> QED
      BY <3>4, <3>6
  <2> HIDE DEF g
  <2> QED
    BY <1>1, <1>2, <1>3, <1>4, <2>1, <2>2, <2>5
<1>5. CASE handler' = started /\ UNCHANGED <<fan, stack>>
  BY <1>1, <1>2, <1>3, <1>5
<1> QED
  BY <1>1, <1>4, <1>5 DEF StartHandler

(* The steps of the engine's interface.                                    *)
LEMMA InvAddIO ==
  ASSUME Inv, TypeOK', NEW io \in IO, AddIO(io)
  PROVE  Inv'
<1>1. /\ phase = "idle" /\ stack = <<>> /\ io \notin Added
      /\ m_handlers' = Append(m_handlers, io)
      /\ UNCHANGED <<m_started, phase, at, receivers>>
  BY DEF AddIO, Quiescent
<1>2. dev[io] = "idle" /\ handler[io].data
  BY <1>1 DEF Inv, DispatchInv, OthersFresh
<1>3. /\ \A o \in IO : handler'[o].data = handler[o].data
      /\ \A o \in IO : o # io => (handler'[o] = handler[o] /\ dev'[o] = dev[o])
      /\ m_started => handler'[io].lifecycle = 1 /\ dev'[io] # "idle"
      /\ ~m_started => UNCHANGED <<dev, handler, stack>>
      /\ \A k \in 1..Len(stack') : stack'[k].op # "write"
  BY <1>1, <1>2, StartHandlerWiring DEF AddIO
<1>4. /\ m_handlers \in Seq(IO) /\ Len(m_handlers) \in Nat
      /\ Len(m_handlers') = Len(m_handlers) + 1
      /\ \A k \in 1..Len(m_handlers) : m_handlers'[k] = m_handlers[k]
      /\ \A k \in 1..Len(m_handlers) : m_handlers[k] # io /\ m_handlers[k] \in IO
      /\ m_handlers'[Len(m_handlers) + 1] = io
  <2>1. m_handlers \in Seq(IO) /\ Len(m_handlers) \in Nat
    BY DEF Inv, TypeOK
  <2>2. \A k \in 1..Len(m_handlers) : m_handlers[k] # io /\ m_handlers[k] \in IO
    BY <1>1, <2>1 DEF Added
  <2>3. /\ Len(m_handlers') = Len(m_handlers) + 1
        /\ \A k \in 1..Len(m_handlers) : m_handlers'[k] = m_handlers[k]
        /\ m_handlers'[Len(m_handlers) + 1] = io
    BY ONLY <1>1, <2>1, io \in IO, AppendProperties
  <2> QED
    BY <2>1, <2>2, <2>3
<1>5. \A k \in 1..Len(m_handlers') :
        k = Len(m_handlers) + 1 \/ k \in 1..Len(m_handlers)
  BY <1>4
<1>6. Added' = Added \cup {io}
  BY <1>4, <1>5 DEF Added
<1>7. HandlersDistinct'
  BY <1>4, <1>5 DEF Inv, DispatchInv, HandlersDistinct
<1>8. ConnectionsAdded'
  BY <1>1, <1>6 DEF Inv, DispatchInv, ConnectionsAdded
<1>9. OthersFresh'
  BY <1>3, <1>6 DEF Inv, DispatchInv, OthersFresh
<1>10. StartProgress'
  <2>1. \A k \in 1..Len(m_handlers) : dev'[m_handlers'[k]] = dev[m_handlers[k]]
    BY <1>3, <1>4
  <2>2. dev'[io] # "idle" <=> m_started
    BY <1>2, <1>3
  <2>3. \A k : Up(k)' <=> m_started
    BY <1>1 DEF Up
  <2>4. \A k \in 1..Len(m_handlers) : dev[m_handlers[k]] # "idle" <=> m_started
    BY <1>1 DEF Inv, DispatchInv, StartProgress, Up
  <2>5. \A k \in 1..Len(m_handlers') : dev'[m_handlers'[k]] # "idle" <=> m_started
    BY <1>4, <1>5, <2>1, <2>2, <2>4
  <2> QED
    BY <1>1, <2>3, <2>5 DEF StartProgress
<1>11. StoppedFirst'
  <2> SUFFICES ASSUME NEW i \in 1..Len(m_handlers'), NEW j \in 1..Len(m_handlers'), i < j,
                      handler'[m_handlers'[i]].data
               PROVE  handler'[m_handlers'[j]].data
    BY DEF StoppedFirst
  <2>1. CASE j = Len(m_handlers) + 1
    BY <1>2, <1>3, <1>4, <2>1
  <2>2. CASE j \in 1..Len(m_handlers)
    <3>1. i \in 1..Len(m_handlers)
      BY <1>4, <1>5, <2>2
    <3> QED
      BY <1>3, <1>4, <2>2, <3>1 DEF Inv, DispatchInv, StoppedFirst
  <2> QED
    BY <1>5, <2>1, <2>2
<1>12. NoStaleStarted'
  <2>1. CASE m_started
    BY <1>3, <2>1 DEF Inv, DispatchInv, NoStaleStarted
  <2>2. CASE ~m_started
    BY <1>3, <2>2 DEF Inv, DispatchInv, NoStaleStarted
  <2> QED
    BY <2>1, <2>2
<1>13. CallersUp'
  BY <1>1, <1>3 DEF CallersUp
<1>14. NoWriteToStopped'
  BY <1>3 DEF NoWriteToStopped
<1>15. SingleWiring'
  <2>1. CASE m_started
    BY <1>3, <2>1 DEF Inv, SingleWiring
  <2>2. CASE ~m_started
    BY <1>3, <2>2 DEF Inv, SingleWiring
  <2> QED
    BY <2>1, <2>2
<1> QED
  BY <1>7, <1>8, <1>9, <1>10, <1>11, <1>12, <1>13, <1>14, <1>15 DEF Inv, DispatchInv

LEMMA InvAddConnection ==
  ASSUME Inv, TypeOK', NEW source, NEW destination, AddConnection(source, destination)
  PROVE  Inv'
<1>1. PICK s, d \in 1..Len(m_handlers) :
        receivers' = [receivers EXCEPT ![m_handlers[s]] = Append(@, m_handlers[d])]
  BY DEF AddConnection
<1>2. UNCHANGED <<m_handlers, m_started, phase, at, handler, dev, stack>>
  BY DEF AddConnection
<1>3. ConnectionsAdded'
  <2>1. m_handlers[s] \in IO /\ m_handlers[d] \in Added /\ m_handlers[d] \in IO
    <3>1. m_handlers \in Seq(IO)
      BY DEF Inv, TypeOK
    <3> QED
      BY ONLY <3>1, s \in 1..Len(m_handlers), d \in 1..Len(m_handlers) DEF Added
  <2>2. ASSUME NEW src \in IO, NEW k \in 1..Len(receivers'[src])
        PROVE  receivers'[src][k] \in Added
    <3>1. receivers[src] \in Seq(IO)
      BY DEF Inv, TypeOK
    <3>2. CASE src # m_handlers[s]
      <4>1. receivers'[src] = receivers[src]
        BY <1>1, <3>2 DEF Inv, TypeOK
      <4> QED
        BY <2>2, <4>1 DEF Inv, DispatchInv, ConnectionsAdded
    <3>3. CASE src = m_handlers[s]
      <4>1. receivers'[src] = Append(receivers[src], m_handlers[d])
        BY <1>1, <2>1, <3>3 DEF Inv, TypeOK
      <4>2. CASE k \in 1..Len(receivers[src])
        <5>1. receivers'[src][k] = receivers[src][k]
          BY <2>1, <3>1, <4>1, <4>2, AppendProperties
        <5> QED
          BY <4>2, <5>1 DEF Inv, DispatchInv, ConnectionsAdded
      <4>3. CASE k = Len(receivers[src]) + 1
        BY <2>1, <3>1, <4>1, <4>3, AppendProperties
      <4>4. Len(receivers'[src]) = Len(receivers[src]) + 1 /\ Len(receivers[src]) \in Nat
        BY <2>1, <3>1, <4>1, AppendProperties
      <4> QED
        BY <4>2, <4>3, <4>4
    <3> QED
      BY <3>2, <3>3
  <2> QED
    BY <1>2, <2>2 DEF ConnectionsAdded, Added
<1>4. /\ HandlersDistinct' /\ OthersFresh' /\ StartProgress' /\ StoppedFirst'
      /\ NoStaleStarted' /\ CallersUp'
  BY <1>2 DEF Inv, DispatchInv, HandlersDistinct, OthersFresh, StartProgress, StoppedFirst,
              NoStaleStarted, CallersUp, Up, Added
<1>5. NoWriteToStopped' /\ SingleWiring'
  BY <1>2 DEF Inv, NoWriteToStopped, SingleWiring
<1> QED
  BY <1>3, <1>4, <1>5 DEF Inv, DispatchInv

LEMMA InvEngineStart ==
  ASSUME Inv, TypeOK', EngineStart
  PROVE  Inv'
<1>1. /\ phase = "idle" /\ stack = <<>> /\ ~m_started
      /\ phase' = "starting" /\ at' = 1
      /\ UNCHANGED <<m_handlers, m_started, handler, receivers, dev, stack>>
  BY DEF EngineStart, Quiescent
<1>2. StartProgress'
  <2>1. \A k \in 1..Len(m_handlers) : ~Up(k)'
    BY <1>1 DEF Up
  <2>2. \A k \in 1..Len(m_handlers) : ~Up(k)
    BY <1>1 DEF Up
  <2>3. 1 <= Len(m_handlers) + 1
    BY DEF Inv, TypeOK
  <2> QED
    BY <1>1, <2>1, <2>2, <2>3 DEF Inv, DispatchInv, StartProgress
<1>3. /\ HandlersDistinct' /\ ConnectionsAdded' /\ OthersFresh' /\ StoppedFirst'
      /\ NoStaleStarted' /\ CallersUp'
  BY <1>1 DEF Inv, DispatchInv, HandlersDistinct, ConnectionsAdded, OthersFresh, StoppedFirst,
              NoStaleStarted, CallersUp, Added
<1>4. NoWriteToStopped' /\ SingleWiring'
  BY <1>1 DEF Inv, NoWriteToStopped, SingleWiring
<1> QED
  BY <1>2, <1>3, <1>4 DEF Inv, DispatchInv

LEMMA InvStartNext ==
  ASSUME Inv, TypeOK', StartNext
  PROVE  Inv'
<1> DEFINE io == m_handlers[at]
<1>1. /\ phase = "starting" /\ stack = <<>> /\ at \in 1..Len(m_handlers) /\ at' = at + 1
      /\ UNCHANGED <<m_handlers, m_started, phase, receivers>>
  BY DEF StartNext, Inv, TypeOK
<1>2. io \in IO /\ io \in Added /\ Len(m_handlers) \in Nat /\ at \in Nat
  <2>1. m_handlers \in Seq(IO)
    BY DEF Inv, TypeOK
  <2> QED
    BY ONLY <1>1, <2>1 DEF Added
<1>3. dev[io] = "idle"
  BY <1>1, <1>2 DEF Inv, DispatchInv, StartProgress, Up
<1>4. PICK signal \in Contract[io].start : StartHandler(io, signal)
  BY DEF StartNext
<1> HIDE DEF io
<1>5. /\ \A o \in IO : handler'[o].data = handler[o].data
      /\ \A o \in IO : o # io => (handler'[o] = handler[o] /\ dev'[o] = dev[o])
      /\ handler'[io].lifecycle = 1
      /\ dev'[io] # "idle"
      /\ stack' # <<>> => handler[io].data
      /\ \A k \in 1..Len(stack') : stack'[k].op # "write"
  BY <1>1, <1>2, <1>3, <1>4, StartHandlerWiring
<1>6. HandlersDistinct' /\ ConnectionsAdded'
  BY <1>1 DEF Inv, DispatchInv, HandlersDistinct, ConnectionsAdded, Added
<1>7. OthersFresh'
  BY <1>1, <1>2, <1>5 DEF Inv, DispatchInv, OthersFresh, Added
<1>8. StartProgress'
  <2>1. ~m_started /\ at' <= Len(m_handlers) + 1
    BY <1>1, <1>2 DEF Inv, DispatchInv, StartProgress
  <2>2. ASSUME NEW k \in 1..Len(m_handlers)
        PROVE  dev'[m_handlers[k]] # "idle" <=> Up(k)'
    <3>1. CASE k = at
      BY <1>1, <1>2, <1>5, <3>1 DEF Up, io
    <3>2. CASE k # at
      <4>1. m_handlers[k] # io /\ m_handlers[k] \in IO
        BY <1>1, <3>2 DEF Inv, DispatchInv, HandlersDistinct, TypeOK, io
      <4>2. dev'[m_handlers[k]] = dev[m_handlers[k]]
        BY <1>5, <4>1
      <4>3. Up(k)' <=> Up(k)
        BY <1>1, <1>2, <3>2 DEF Up
      <4> QED
        BY <4>2, <4>3 DEF Inv, DispatchInv, StartProgress
    <3> QED
      BY <3>1, <3>2
  <2> QED
    BY <1>1, <2>1, <2>2 DEF StartProgress
<1>9. StoppedFirst'
  <2>1. \A k \in 1..Len(m_handlers) : m_handlers[k] \in IO
    BY DEF Inv, TypeOK
  <2>2. \A k \in 1..Len(m_handlers) : handler'[m_handlers[k]].data = handler[m_handlers[k]].data
    BY <1>5, <2>1
  <2> QED
    BY <1>1, <2>2 DEF Inv, DispatchInv, StoppedFirst
<1>10. NoStaleStarted'
  BY <1>5 DEF Inv, DispatchInv, NoStaleStarted
<1>11. CallersUp'
  <2>1. at' > 1 /\ at' - 1 = at
    BY <1>1, <1>2
  <2>2. stack' # <<>> => handler'[m_handlers'[at' - 1]].data
    BY <1>1, <1>2, <1>5, <2>1 DEF io
  <2> QED
    BY <1>1, <2>1, <2>2 DEF CallersUp
<1>12. NoWriteToStopped'
  BY <1>5 DEF NoWriteToStopped
<1>13. SingleWiring'
  BY <1>5 DEF Inv, SingleWiring
<1> QED
  BY <1>6, <1>7, <1>8, <1>9, <1>10, <1>11, <1>12, <1>13 DEF Inv, DispatchInv

LEMMA InvStartDone ==
  ASSUME Inv, TypeOK', StartDone
  PROVE  Inv'
<1>1. /\ phase = "starting" /\ stack = <<>> /\ at > Len(m_handlers)
      /\ m_started' = TRUE /\ phase' = "idle"
      /\ UNCHANGED <<m_handlers, handler, receivers, dev, stack>>
  BY DEF StartDone
<1>2. StartProgress'
  <2>1. \A k \in 1..Len(m_handlers) : Up(k)
    BY <1>1 DEF Up, Inv, TypeOK
  <2>2. \A k \in 1..Len(m_handlers) : Up(k)'
    BY <1>1 DEF Up
  <2> QED
    BY <1>1, <2>1, <2>2 DEF Inv, DispatchInv, StartProgress
<1>3. /\ HandlersDistinct' /\ ConnectionsAdded' /\ OthersFresh' /\ StoppedFirst'
      /\ NoStaleStarted' /\ CallersUp'
  BY <1>1 DEF Inv, DispatchInv, HandlersDistinct, ConnectionsAdded, OthersFresh, StoppedFirst,
              NoStaleStarted, CallersUp, Added
<1>4. NoWriteToStopped' /\ SingleWiring'
  BY <1>1 DEF Inv, NoWriteToStopped, SingleWiring
<1> QED
  BY <1>2, <1>3, <1>4 DEF Inv, DispatchInv

(* Engine::stop and Engine::~Engine both leave every IO idle and unwired.  *)
LEMMA InvStop ==
  ASSUME Inv, TypeOK', EngineStop \/ Destroy
  PROVE  Inv'
<1>1. /\ stack = <<>> /\ StopHandlers(Added)
      /\ UNCHANGED <<m_handlers, receivers, stack>>
      /\ phase' # "starting" /\ (phase' = "idle" => ~m_started')
  BY DEF EngineStop, Destroy, Quiescent
<1>2. handler \in [IO -> Handlers] /\ Added \subseteq IO /\ Added' = Added
  <2>1. m_handlers \in Seq(IO) /\ handler \in [IO -> Handlers]
    BY DEF Inv, TypeOK
  <2> QED
    BY ONLY <1>1, <2>1 DEF Added
<1>3. \A io \in IO : dev'[io] = "idle"
  BY <1>1 DEF StopHandlers, Inv, DispatchInv, OthersFresh
<1>4. \A io \in Added : ~handler'[io].data /\ handler'[io].lifecycle = 0
  BY <1>1, <1>2, HandlerStopped DEF StopHandlers
<1>5. \A io \in IO : io \notin Added => handler'[io] = handler[io]
  BY <1>1 DEF StopHandlers
<1>6. \A k \in 1..Len(m_handlers) : m_handlers[k] \in Added
  BY DEF Added
<1>7. HandlersDistinct' /\ ConnectionsAdded'
  BY <1>1 DEF Inv, DispatchInv, HandlersDistinct, ConnectionsAdded, Added
<1>8. OthersFresh'
  BY <1>2, <1>3, <1>5 DEF Inv, DispatchInv, OthersFresh
<1>9. StartProgress'
  <2>1. \A k : ~Up(k)'
    BY <1>1 DEF Up
  <2> QED
    BY <1>1, <1>2, <1>3, <1>6, <2>1 DEF StartProgress
<1>10. StoppedFirst'
  BY <1>1, <1>4, <1>6 DEF StoppedFirst
<1>11. NoStaleStarted'
  <2>1. \A io \in IO : io \notin Added => ~Accepts(handler[io])
    BY DEF Inv, DispatchInv, OthersFresh, NoStaleStarted
  <2> QED
    BY <1>4, <1>5, <2>1 DEF NoStaleStarted
<1>12. CallersUp' /\ NoWriteToStopped'
  BY <1>1 DEF CallersUp, NoWriteToStopped
<1>13. SingleWiring'
  BY <1>3, <1>4, <1>5 DEF Inv, DispatchInv, OthersFresh, SingleWiring
<1> QED
  BY <1>7, <1>8, <1>9, <1>10, <1>11, <1>12, <1>13 DEF Inv, DispatchInv

LEMMA InvStep == Inv /\ [Next]_vars => Inv'
<1> SUFFICES ASSUME Inv, [Next]_vars PROVE Inv'
  OBVIOUS
<1>1. TypeOK'
  BY TypeStep DEF Inv
<1>2. CASE Interface
  <2>1. ASSUME NEW io \in IO, AddIO(io) PROVE Inv'
    BY <1>1, <2>1, InvAddIO
  <2>2. ASSUME NEW r \in Requests, AddConnection(r[1], r[2]) PROVE Inv'
    BY <1>1, <2>2, InvAddConnection
  <2>3. CASE EngineStart
    BY <1>1, <2>3, InvEngineStart
  <2>4. CASE EngineStop \/ Destroy
    BY <1>1, <2>4, InvStop
  <2> QED
    BY <1>2, <2>1, <2>2, <2>3, <2>4 DEF Interface
<1>3. CASE StartNext
  BY <1>1, <1>3, InvStartNext
<1>4. CASE StartDone
  BY <1>1, <1>4, InvStartDone
<1>5. CASE (\E io \in IO : ReadyRead(io) \/ WaitRead(io) \/ RuntimeError(io)) \/ ReadMore \/ Return
  BY <1>1, <1>5, InvDispatch
<1>6. CASE UNCHANGED vars
  BY <1>1, <1>6 DEF Inv, DispatchInv, HandlersDistinct, ConnectionsAdded, OthersFresh,
                    StartProgress, StoppedFirst, NoStaleStarted, CallersUp, Up, Added,
                    NoWriteToStopped, SingleWiring, vars, engineVars
<1> QED
  BY <1>2, <1>3, <1>4, <1>5, <1>6 DEF Next, Destroyed

LEMMA InvAlways == Spec => []Inv
<1> QED
  BY InvInit, InvStep, PTL DEF Spec

(* Engine::start, stop and addIO never let the handlers get out of step:   *)
(* the parts of DispatchInv hold in every state of every engine.           *)
THEOREM DispatchInvariant == Spec => []DispatchInv
<1>1. Inv => DispatchInv
  BY DEF Inv
<1> QED
  BY <1>1, InvAlways, PTL

(* No call of writeData() is ever made to, or is still running in, an IO   *)
(* that is stopped or was never started (Handler::writeData, Handler::stop).*)
THEOREM NeverWritesToStopped == Spec => []NoWriteToStopped
<1>1. Inv => NoWriteToStopped
  BY DEF Inv
<1> QED
  BY <1>1, InvAlways, PTL

(* Repeated start() and stop() connect each lifecycle signal of a running  *)
(* IO exactly once, and none of an IO that is not running.                 *)
THEOREM WiredOnce == Spec => []SingleWiring
<1>1. Inv => SingleWiring
  BY DEF Inv
<1> QED
  BY <1>1, InvAlways, PTL

-----------------------------------------------------------------------------
(* Names: what is proved of them rests on IOs that nobody has added having *)
(* no connections.                                                         *)
ReceiversFresh == \A io \in IO : io \notin Added => receivers[io] = <<>>

NamesInv == ReceiversFresh /\ FirstNameWins

LEMMA NamesAddIO ==
  ASSUME Inv, NamesInv, NEW io \in IO, AddIO(io)
  PROVE  NamesInv'
<1>1. io \notin Added /\ m_handlers' = Append(m_handlers, io) /\ receivers' = receivers
  BY DEF AddIO
<1>2. /\ m_handlers \in Seq(IO) /\ Len(m_handlers) \in Nat
      /\ \A k \in 1..Len(m_handlers) : m_handlers[k] \in Added
  <2>1. m_handlers \in Seq(IO)
    BY DEF Inv, TypeOK
  <2> QED
    BY ONLY <2>1 DEF Added
<1>3. /\ Len(m_handlers') = Len(m_handlers) + 1
      /\ \A k \in 1..Len(m_handlers) : m_handlers'[k] = m_handlers[k]
      /\ m_handlers'[Len(m_handlers) + 1] = io
  BY ONLY <1>1, <1>2, io \in IO, AppendProperties
<1>4. ReceiversFresh'
  BY <1>1, <1>2, <1>3 DEF NamesInv, ReceiversFresh, Added
<1>5. ASSUME NEW i \in 1..Len(m_handlers'), NEW j \in 1..Len(m_handlers'), i < j,
             NameOf[m_handlers'[i]] = NameOf[m_handlers'[j]]
      PROVE  /\ receivers[m_handlers'[j]] = <<>>
             /\ \A src \in IO : \A k \in 1..Len(receivers[src]) : receivers[src][k] # m_handlers'[j]
  <2>1. CASE j = Len(m_handlers) + 1
    <3>1. m_handlers'[j] = io
      BY <1>3, <2>1
    <3> QED
      BY <1>1, <3>1 DEF Inv, DispatchInv, ConnectionsAdded, NamesInv, ReceiversFresh
  <2>2. CASE j \in 1..Len(m_handlers)
    <3>1. i \in 1..Len(m_handlers)
      BY <1>2, <1>5, <2>2
    <3>2. m_handlers'[i] = m_handlers[i] /\ m_handlers'[j] = m_handlers[j]
      BY <1>3, <2>2, <3>1
    <3> QED
      BY <1>5, <2>2, <3>1, <3>2 DEF NamesInv, FirstNameWins
  <2> QED
    BY <1>2, <1>3, <2>1, <2>2
<1>6. FirstNameWins'
  BY ONLY <1>1, <1>5 DEF FirstNameWins
<1> QED
  BY <1>4, <1>6 DEF NamesInv

LEMMA NamesAddConnection ==
  ASSUME Inv, NamesInv, NEW source, NEW destination, AddConnection(source, destination)
  PROVE  NamesInv'
<1>1. PICK s, d \in 1..Len(m_handlers) :
        /\ IOHandler(source, s)
        /\ IOHandler(destination, d)
        /\ receivers' = [receivers EXCEPT ![m_handlers[s]] = Append(@, m_handlers[d])]
  BY DEF AddConnection
<1>2. PICK a \in IO, b \in IO : a = m_handlers[s] /\ b = m_handlers[d]
  BY DEF Inv, TypeOK
<1>3. /\ m_handlers' = m_handlers /\ Added' = Added
      /\ receivers'[a] = Append(receivers[a], b)
      /\ \A src \in IO : src # a => receivers'[src] = receivers[src]
      /\ \A src \in IO : receivers[src] \in Seq(IO)
  <2>1. m_handlers' = m_handlers /\ Added' = Added
    BY DEF AddConnection, Added
  <2>2. receivers \in [IO -> Seq(IO)]
    BY DEF Inv, TypeOK
  <2>3. receivers' = [receivers EXCEPT ![a] = Append(@, b)]
    BY <1>1, <1>2
  <2> QED
    BY <2>1, <2>2, <2>3
<1>4. ASSUME NEW src \in IO, NEW k \in 1..Len(receivers'[src])
      PROVE  receivers'[src][k] = b \/ (k \in 1..Len(receivers[src]) /\ receivers'[src][k] = receivers[src][k])
  <2>1. CASE src # a
    BY <1>3, <1>4, <2>1
  <2>2. CASE src = a
    <3>1. receivers[a] \in Seq(IO) /\ Len(receivers[a]) \in Nat
      BY <1>3
    <3>2. /\ Len(receivers'[a]) = Len(receivers[a]) + 1
          /\ \A i \in 1..Len(receivers[a]) : receivers'[a][i] = receivers[a][i]
          /\ receivers'[a][Len(receivers[a]) + 1] = b
      BY <1>3, <3>1, AppendProperties
    <3>3. k \in 1..Len(receivers[a]) \/ k = Len(receivers[a]) + 1
      BY ONLY <1>4, <2>2, <3>1, <3>2
    <3> QED
      BY ONLY <2>2, <3>2, <3>3
  <2> QED
    BY <2>1, <2>2
<1>5. ReceiversFresh'
  <2>1. a \in Added
    BY <1>2 DEF Added
  <2> QED
    BY <1>3, <2>1 DEF NamesInv, ReceiversFresh
<1>6. ASSUME NEW i \in 1..Len(m_handlers), NEW j \in 1..Len(m_handlers), i < j,
             NameOf[m_handlers[i]] = NameOf[m_handlers[j]]
      PROVE  m_handlers[j] # a /\ m_handlers[j] # b
  <2>1. \A name : \A k \in 1..Len(m_handlers) : IOHandler(name, k) => k # j
    BY <1>6 DEF IOHandler
  <2>2. s # j /\ d # j
    BY <1>1, <2>1
  <2>3. \A k \in 1..Len(m_handlers) : k # j => m_handlers[k] # m_handlers[j]
    BY DEF Inv, DispatchInv, HandlersDistinct
  <2> QED
    BY <1>2, <2>2, <2>3
<1>7. ASSUME NEW i \in 1..Len(m_handlers), NEW j \in 1..Len(m_handlers), i < j,
             NameOf[m_handlers[i]] = NameOf[m_handlers[j]]
      PROVE  /\ receivers'[m_handlers[j]] = <<>>
             /\ \A src \in IO : \A k \in 1..Len(receivers'[src]) :
                  receivers'[src][k] # m_handlers[j]
  <2>1. m_handlers[j] # a /\ m_handlers[j] # b /\ m_handlers[j] \in IO
    <3>1. m_handlers[j] \in IO
      BY DEF Inv, TypeOK
    <3> QED
      BY <1>6, <1>7, <3>1
  <2>2. /\ receivers[m_handlers[j]] = <<>>
        /\ \A src \in IO : \A k \in 1..Len(receivers[src]) : receivers[src][k] # m_handlers[j]
    BY <1>7 DEF NamesInv, FirstNameWins
  <2>3. receivers'[m_handlers[j]] = <<>>
    BY ONLY <1>3, <2>1, <2>2
  <2>4. ASSUME NEW src \in IO, NEW k \in 1..Len(receivers'[src])
        PROVE  receivers'[src][k] # m_handlers[j]
    BY ONLY <1>4, <2>1, <2>2, src \in IO, k \in 1..Len(receivers'[src])
  <2> QED
    BY ONLY <2>3, <2>4
<1>8. FirstNameWins'
  <2>1. m_handlers' = m_handlers
    BY <1>3
  <2> QED
    BY <1>7, <2>1 DEF FirstNameWins
<1> QED
  BY <1>5, <1>8 DEF NamesInv

(* However the handlers are named, an IO added under a name that is taken  *)
(* is neither the source nor the destination of any connection             *)
(* (Engine::getIOHandler, Engine::addConnection).                          *)
THEOREM FirstHandlerOfAName == Spec => []FirstNameWins
<1>1. Init => NamesInv
  BY DEF Init, NamesInv, ReceiversFresh, FirstNameWins
<1>2. Inv /\ NamesInv /\ [Next]_vars => NamesInv'
  <2> SUFFICES ASSUME Inv, NamesInv, [Next]_vars PROVE NamesInv'
    OBVIOUS
  <2>1. ASSUME UNCHANGED <<m_handlers, receivers>> PROVE NamesInv'
    BY <2>1 DEF NamesInv, ReceiversFresh, FirstNameWins, Added
  <2>2. CASE Interface
    BY <2>1, <2>2, NamesAddIO, NamesAddConnection
       DEF Interface, EngineStart, EngineStop, Destroy
  <2>3. CASE StartNext \/ StartDone \/ UNCHANGED vars
    BY <2>1, <2>3 DEF StartNext, StartDone, vars, engineVars
  <2>4. CASE (\E io \in IO : ReadyRead(io) \/ WaitRead(io) \/ RuntimeError(io)) \/ ReadMore \/ Return
    BY <2>1, <2>4 DEF ReadyRead, WaitRead, RuntimeError, ReadMore, Return, ReadDone, Drop,
                      Write, EmitDone, WriteReturns, engineVars
  <2> QED
    BY <2>2, <2>3, <2>4 DEF Next, Destroyed
<1>3. NamesInv => FirstNameWins
  BY DEF NamesInv
<1> QED
  BY <1>1, <1>2, <1>3, InvAlways, PTL DEF Spec

-----------------------------------------------------------------------------
(* The engine is the user that IOContract describes.                       *)

(* A start() that emits newData leaves its IO in a state in which it may.  *)
BurstsEmit ==
  \A io \in IO : Contract[io].bursts =>
    \A signal \in Contract[io].start :
      (IF signal \in ErrorSignal THEN "failed" ELSE "open") \in Contract[io].emits

(* A read handler that runs belongs to an IO that may emit, and is heard.  *)
ReadersOpen(s) ==
  \A k \in 1..Len(s) :
    s[k].op = "read" => handler[s[k].io].data /\ dev[s[k].io] \in Contract[s[k].io].emits

(* The instances of IOContract share the operators of Handler.tla.         *)
LEMMA SameHandler ==
  ASSUME NEW io \in IO
  PROVE
  /\ Abstract(io)!NewHandler = NewHandler
  /\ Abstract(io)!ErrorSignal = ErrorSignal
  /\ \A h : /\ Abstract(io)!Connected(h) = Connected(h)
            /\ Abstract(io)!Disconnected(h) = Disconnected(h)
            /\ Abstract(io)!DataRead(h) = DataRead(h)
  /\ \A h, signal : /\ Abstract(io)!Signaled(h, signal) = Signaled(h, signal)
                    /\ Abstract(io)!DataWritten(h, signal) = DataWritten(h, signal)
  BY DEF Abstract!NewHandler, NewHandler, Abstract!ErrorSignal, ErrorSignal,
         Abstract!Connected, Connected, Abstract!Disconnected, Disconnected,
         Abstract!DataRead, DataRead, Abstract!Signaled, Signaled,
         Abstract!DataWritten, DataWritten

(* Pushing frames and returning from calls, as in PushUp and ReturnUp.     *)
LEMMA PushOpen ==
  ASSUME NEW s \in Seq(Frames), ReadersOpen(s), NEW f \in Frames,
         f.op = "read" => handler[f.io].data /\ dev[f.io] \in Contract[f.io].emits
  PROVE  ReadersOpen(Append(s, f))
<1> SUFFICES ASSUME NEW k \in 1..Len(Append(s, f)), Append(s, f)[k].op = "read"
             PROVE  /\ handler[Append(s, f)[k].io].data
                    /\ dev[Append(s, f)[k].io] \in Contract[Append(s, f)[k].io].emits
  BY DEF ReadersOpen
<1>1. CASE k \in 1..Len(s)
  <2>1. Append(s, f)[k] = s[k]
    BY <1>1, AppendProperties
  <2> QED
    BY <1>1, <2>1 DEF ReadersOpen
<1>2. CASE k = Len(s) + 1
  <2>1. Append(s, f)[k] = f
    BY <1>2, AppendProperties
  <2> QED
    BY <2>1
<1>3. Len(Append(s, f)) = Len(s) + 1 /\ Len(s) \in Nat
  BY AppendProperties
<1> QED
  BY <1>1, <1>2, <1>3

LEMMA ReturnOpen ==
  ASSUME stack \in Seq(Frames), stack # <<>>, ReadersOpen(stack)
  PROVE  ReadersOpen(Returned)
<1>1. /\ Len(Returned) = Len(stack) - 1 /\ Len(stack) \in Nat
      /\ \A k \in 1..Len(Returned) : Returned[k] = stack[k]
  BY StackTypes
<1>2. \A k \in 1..Len(Returned) : k \in 1..Len(stack)
  BY <1>1
<1> QED
  BY <1>1, <1>2 DEF ReadersOpen

LEMMA OnNewDataOpen ==
  ASSUME NEW h \in [IO -> Handlers], NEW io \in IO, NEW frames \in Seq(Frames),
         ReadersOpen(frames), OnNewData(h, io, frames)
  PROVE  ReadersOpen(stack')
<1>1. h[io].read + 1 \in Nat
  BY DEF Handlers
<1>2. EmitFrame(io, h[io].read + 1) \in Frames
  BY <1>1, FrameTypes
<1>3. EmitFrame(io, h[io].read + 1).op # "read"
  BY DEF EmitFrame
<1> QED
  BY <1>2, <1>3, PushOpen DEF OnNewData

(* The readers stay open while connections and devices stay as they are.   *)
LEMMA ReadersStay ==
  ASSUME TypeOK', ReadersOpen(stack'), UNCHANGED dev,
         \A io \in IO : handler'[io].data = handler[io].data
  PROVE  ReadersOpen(stack)'
<1>1. \A k \in 1..Len(stack') : stack'[k] \in Frames
  BY DEF TypeOK
<1>2. \A f \in Frames : f.io \in IO
  BY DEF Frames
<1> QED
  BY <1>1, <1>2 DEF ReadersOpen

LEMMA OnNewDataWiring ==
  ASSUME TypeOK, NEW io \in IO, NEW frames, OnNewData(handler, io, frames)
  PROVE  /\ \A o \in IO : handler'[o].data = handler[o].data
         /\ handler'[io] = DataRead(handler[io])
         /\ \A o \in IO : o # io => handler'[o] = handler[o]
<1>1. handler \in [IO -> Handlers]
  BY DEF TypeOK
<1>2. DataRead(handler[io]).data = handler[io].data
  BY <1>1 DEF DataRead, Handlers
<1> QED
  BY <1>1, <1>2 DEF OnNewData

(* What Handler::start leaves on the stack is a reader only if start()     *)
(* bursts.                                                                 *)
LEMMA StartOpen ==
  ASSUME BurstsEmit, Inv, TypeOK', stack = <<>>, NEW io \in IO, dev[io] = "idle",
         NEW signal \in Contract[io].start, StartHandler(io, signal)
  PROVE  ReadersOpen(stack)' /\ Abstract(io)!Start
<1> DEFINE g == Signaled(Connected(handler[io]), signal)
           started == [handler EXCEPT ![io] = g]
<1>1. handler \in [IO -> Handlers] /\ dev \in [IO -> Device]
  <2>1. TypeOK
    BY DEF Inv
  <2> QED
    BY ONLY <2>1 DEF TypeOK
<1>2. g \in Handlers /\ g.data = handler[io].data
  BY <1>1, HandlerStarted DEF Inv, SingleWiring
<1>3. dev'[io] = IF signal \in ErrorSignal THEN "failed" ELSE "open"
  BY <1>1 DEF StartHandler
<1>4. CASE Contract[io].bursts /\ g.data /\ OnNewData(started, io, <<ReadFrame(io)>>)
  <2>1. handler' = [handler EXCEPT ![io] = DataRead(g)] /\ started[io] = g
    BY <1>1, <1>4 DEF OnNewData
  <2>2. handler'[io].data
    BY <1>1, <1>2, <1>4, <2>1 DEF DataRead, Handlers
  <2>3. dev'[io] \in Contract[io].emits
    BY <1>3, <1>4 DEF BurstsEmit
  <2>4. ReadersOpen(stack)'
    <3> DEFINE r == ReadFrame(io)
               e == EmitFrame(io, started[io].read + 1)
    <3>1. started[io].read + 1 \in Nat
      BY <1>2, <2>1 DEF Handlers
    <3>2. r \in Frames /\ e \in Frames /\ e.op # "read" /\ r.io = io
      BY <3>1, FrameTypes, 0 \in Nat DEF ReadFrame, EmitFrame
    <3>3. stack' = Append(<<r>>, e)
      BY <1>4 DEF OnNewData
    <3> HIDE DEF r, e
    <3>4. <<r>> \in Seq(Frames) /\ Len(<<r>>) = 1 /\ <<r>>[1] = r
      BY <3>2
    <3>5. /\ Len(Append(<<r>>, e)) = Len(<<r>>) + 1
          /\ \A i \in 1..Len(<<r>>) : Append(<<r>>, e)[i] = <<r>>[i]
          /\ Append(<<r>>, e)[Len(<<r>>) + 1] = e
      BY <3>2, <3>4, AppendProperties
    <3>6. Len(stack') = 2 /\ stack'[1] = r /\ stack'[2] = e
      BY <3>3, <3>4, <3>5
    <3>7. ASSUME NEW k \in 1..Len(stack'), stack'[k].op = "read" PROVE stack'[k].io = io
      BY <3>2, <3>6, <3>7
    <3> QED
      BY <2>2, <2>3, <3>7 DEF ReadersOpen
  <2>5. Abstract(io)!Start
    <3> HIDE DEF g
    <3>1. handler'[io] = DataRead(g)
      BY <1>1, <2>1
    <3>2. /\ Abstract(io)!Signaled(Abstract(io)!Connected(handler[io]), signal) = g
          /\ Abstract(io)!DataRead(g) = DataRead(g)
          /\ Abstract(io)!ErrorSignal = ErrorSignal
      BY ONLY io \in IO, SameHandler DEF g
    <3> QED
      BY ONLY <1>3, <1>4, <3>1, <3>2, dev[io] = "idle", signal \in Contract[io].start
         DEF Abstract!Start
  <2> QED
    BY <2>4, <2>5
<1>5. CASE handler' = started /\ UNCHANGED <<fan, stack>>
  <2>1. handler'[io] = g
    BY <1>1, <1>5
  <2>2. Abstract(io)!Start
    BY <1>3, <2>1, SameHandler DEF Abstract!Start
  <2>3. ReadersOpen(stack)'
    BY <1>5 DEF ReadersOpen
  <2> QED
    BY <2>2, <2>3
<1> QED
  BY <1>1, <1>4, <1>5 DEF StartHandler

(* What ContractKept says of the steps of one IO.                          *)
KeptBy(io) == Abstract(io)!Next \/ UNCHANGED <<handler[io], dev[io]>>

(* The dispatch: data reaches a handler only from an IO that may emit, and *)
(* a call of writeData() returns only from one that runs.                  *)
LEMMA DispatchKeeps ==
  ASSUME Inv, TypeOK', ReadersOpen(stack),
         \/ \E io \in IO : ReadyRead(io) \/ WaitRead(io) \/ RuntimeError(io)
         \/ ReadMore \/ Return
  PROVE  ReadersOpen(stack)' /\ \A io \in IO : KeptBy(io)
<1>0. /\ handler \in [IO -> Handlers]
      /\ stack \in Seq(Frames)
  BY DEF Inv, TypeOK
<1>1. ASSUME NEW src \in IO, NEW frames \in Seq(Frames), ReadersOpen(frames),
             OnNewData(handler, src, frames), UNCHANGED dev, handler[src].data,
             \/ dev[src] \in Contract[src].emits
             \/ Contract[src].echoes /\ dev[src] # "idle"
      PROVE  ReadersOpen(stack)' /\ \A io \in IO : KeptBy(io)
  <2>1. /\ \A o \in IO : handler'[o].data = handler[o].data
        /\ handler'[src] = DataRead(handler[src])
        /\ \A o \in IO : o # src => handler'[o] = handler[o]
    BY <1>1, OnNewDataWiring DEF Inv
  <2>2. ReadersOpen(stack)'
    BY <1>0, <1>1, <2>1, OnNewDataOpen, ReadersStay
  <2>3. Abstract(src)!NewData
    <3>1. Signaled(handler[src], "none") = handler[src]
      BY DEF Signaled
    <3> QED
      BY <1>1, <2>1, <3>1, SameHandler DEF Abstract!NewData
  <2>4. \A io \in IO : KeptBy(io)
    BY <1>1, <2>1, <2>3 DEF KeptBy, Abstract!Next
  <2> QED
    BY <2>2, <2>4
<1>2. ASSUME NEW io \in IO, ReadyRead(io) PROVE ReadersOpen(stack)' /\ \A o \in IO : KeptBy(o)
  <2>1. handler[io].data /\ dev[io] \in Contract[io].emits
    BY <1>2 DEF ReadyRead, MayEmit
  <2>2. <<ReadFrame(io)>> \in Seq(Frames) /\ ReadersOpen(<<ReadFrame(io)>>)
    <3>1. ReadFrame(io) \in Frames /\ ReadFrame(io).io = io
      BY FrameTypes, 0 \in Nat DEF ReadFrame
    <3> QED
      BY <2>1, <3>1 DEF ReadersOpen
  <2> QED
    BY <1>1, <1>2, <2>1, <2>2 DEF ReadyRead
<1>3. ASSUME NEW io \in IO, WaitRead(io) PROVE ReadersOpen(stack)' /\ \A o \in IO : KeptBy(o)
  <2>1. handler[io].data /\ dev[io] \in Contract[io].emits
    BY <1>3 DEF WaitRead, MayEmit
  <2>2. /\ Append(stack, ReadFrame(io)) \in Seq(Frames)
        /\ ReadersOpen(Append(stack, ReadFrame(io)))
    <3>1. ReadFrame(io) \in Frames /\ ReadFrame(io).io = io
      BY FrameTypes, 0 \in Nat DEF ReadFrame
    <3> QED
      BY <1>0, <2>1, <3>1, PushOpen, AppendProperties
  <2> QED
    BY <1>1, <1>3, <2>1, <2>2 DEF WaitRead
<1>4. ASSUME NEW io \in IO, RuntimeError(io) PROVE ReadersOpen(stack)' /\ \A o \in IO : KeptBy(o)
  <2>1. /\ handler'[io] = Signaled(handler[io], "errorOccured")
        /\ \A o \in IO : o # io => handler'[o] = handler[o]
        /\ dev[io] \in Contract[io].errors /\ UNCHANGED <<dev, stack>>
    BY <1>0, <1>4 DEF RuntimeError
  <2>2. Signaled(handler[io], "errorOccured").data = handler[io].data
    BY <1>0, HandlerKeeps DEF Keeps
  <2>3. ReadersOpen(stack)'
    BY <1>0, <2>1, <2>2, ReadersStay
  <2>4. Abstract(io)!Error
    BY <2>1, SameHandler DEF Abstract!Error
  <2> QED
    BY <2>1, <2>3, <2>4 DEF KeptBy, Abstract!Next
<1>5. CASE ReadMore
  <2>1. Top \in Frames /\ Top = stack[Len(stack)] /\ Top.op = "read" /\ stack # <<>>
    BY <1>0, <1>5, StackTypes DEF ReadMore, Running
  <2>2. PICK io \in IO : io = Top.io
    BY <2>1 DEF Frames
  <2>3. Len(stack) \in 1..Len(stack)
    BY <1>0, <2>1
  <2>4. handler[io].data /\ dev[io] \in Contract[io].emits
    BY <2>1, <2>2, <2>3 DEF ReadersOpen
  <2> QED
    BY <1>0, <1>1, <1>5, <2>2, <2>4 DEF ReadMore
<1>6. ASSUME UNCHANGED <<handler, dev>>, ReadersOpen(stack')
      PROVE  ReadersOpen(stack)' /\ \A o \in IO : KeptBy(o)
  <2>1. ReadersOpen(stack)'
    BY <1>6, ReadersStay
  <2> QED
    BY <1>6, <2>1 DEF KeptBy
<1>7. CASE ReadDone \/ EmitDone
  <2>1. stack # <<>> /\ stack' = Returned /\ UNCHANGED <<handler, dev>>
    BY <1>7 DEF ReadDone, EmitDone, Running
  <2> QED
    BY <1>0, <1>6, <2>1, ReturnOpen
<1>8. ASSUME HasNextReceiver
      PROVE  SlotLeft \in Seq(Frames) /\ ReadersOpen(SlotLeft)
  <2>1. stack # <<>> /\ Top.op = "emit"
    BY <1>8 DEF HasNextReceiver, Running
  <2>2. /\ Returned \in Seq(Frames) /\ ReadersOpen(Returned)
        /\ Top \in Frames
    BY <1>0, <2>1, ReturnOpen, StackTypes
  <2>3. /\ [Top EXCEPT !.at = @ + 1] \in Frames
        /\ [Top EXCEPT !.at = @ + 1].op # "read"
    <3>1. Top.at + 1 \in Nat \ {0}
      BY <2>2 DEF Frames
    <3> QED
      BY <2>1, <2>2, <3>1 DEF Frames
  <2> QED
    BY <2>1, <2>2, <2>3, PushOpen, AppendProperties DEF SlotLeft
<1>9. CASE Drop
  BY <1>6, <1>8, <1>9 DEF Drop
<1>10. CASE Write
  <2>1. NextReceiver \in IO /\ dev[NextReceiver] # "idle"
    BY <1>10, ReceiverUp, SlotTypes DEF Write, Inv
  <2>2. PICK dst \in IO : dst = NextReceiver
    BY <2>1
  <2> DEFINE calls == Append(SlotLeft, WriteFrame(dst))
  <2>3. calls \in Seq(Frames) /\ ReadersOpen(calls)
    <3>1. WriteFrame(dst) \in Frames /\ WriteFrame(dst).op # "read"
      BY FrameTypes, 0 \in Nat DEF WriteFrame
    <3> QED
      BY <1>8, <1>10, <3>1, PushOpen, AppendProperties DEF Write
  <2>4. CASE Contract[dst].echoes /\ handler[dst].data /\ OnNewData(handler, dst, calls)
    BY <1>1, <1>10, <2>1, <2>2, <2>3, <2>4 DEF Write
  <2>5. CASE stack' = calls /\ UNCHANGED <<handler, fan>>
    BY <1>6, <1>10, <2>3, <2>5 DEF Write
  <2> QED
    BY <1>10, <2>2, <2>4, <2>5 DEF Write
<1>11. CASE WriteReturns
  <2>1. /\ stack # <<>> /\ stack' = Returned /\ UNCHANGED dev
        /\ Top \in Frames /\ Top = stack[Len(stack)] /\ Top.op = "write"
    BY <1>0, <1>11, StackTypes DEF WriteReturns, Running
  <2>2. PICK io \in IO : io = Top.io
    BY <2>1 DEF Frames
  <2>3. dev[io] # "idle"
    <3>1. Len(stack) \in 1..Len(stack)
      BY <1>0, <2>1
    <3> QED
      BY <2>1, <2>2, <3>1 DEF Inv, NoWriteToStopped
  <2>4. PICK signal \in {"none"} \cup (IF Contract[io].writeFails THEN {"errorOccured"} ELSE {}) :
          handler' = [handler EXCEPT ![io] = DataWritten(@, signal)]
    BY <1>11, <2>2 DEF WriteReturns
  <2>5. /\ handler'[io] = DataWritten(handler[io], signal)
        /\ \A o \in IO : o # io => handler'[o] = handler[o]
    BY <1>0, <2>4
  <2>6. \A o \in IO : handler'[o].data = handler[o].data
    BY <1>0, <2>4, <2>5, HandlerKeeps DEF Keeps
  <2>7. ReadersOpen(stack)'
    BY <1>0, <2>1, <2>6, ReturnOpen, ReadersStay
  <2>8. Abstract(io)!WriteReturns
    BY <2>1, <2>3, <2>5, SameHandler DEF Abstract!WriteReturns
  <2> QED
    BY <2>1, <2>5, <2>7, <2>8 DEF KeptBy, Abstract!Next
<1> QED
  BY <1>2, <1>3, <1>4, <1>5, <1>7, <1>9, <1>10, <1>11 DEF Return

LEMMA StepKeeps ==
  ASSUME BurstsEmit, Inv, TypeOK', ReadersOpen(stack), [Next]_vars
  PROVE  ReadersOpen(stack)' /\ \A io \in IO : KeptBy(io)
<1>1. ASSUME UNCHANGED <<handler, dev, stack>>
      PROVE  ReadersOpen(stack)' /\ \A io \in IO : KeptBy(io)
  BY <1>1 DEF ReadersOpen, KeptBy
<1>2. ASSUME stack = <<>>, NEW src \in IO, dev[src] = "idle",
             NEW signal \in Contract[src].start, StartHandler(src, signal)
      PROVE  ReadersOpen(stack)' /\ \A io \in IO : KeptBy(io)
  <2>1. ReadersOpen(stack)' /\ Abstract(src)!Start
    BY <1>2, StartOpen
  <2>2. \A o \in IO : o # src => (handler'[o] = handler[o] /\ dev'[o] = dev[o])
    BY <1>2, StartHandlerWiring
  <2> QED
    BY <2>1, <2>2 DEF KeptBy, Abstract!Next
<1>3. ASSUME NEW io \in IO, AddIO(io) PROVE ReadersOpen(stack)' /\ \A o \in IO : KeptBy(o)
  <2>1. stack = <<>> /\ dev[io] = "idle"
    BY <1>3 DEF AddIO, Quiescent, Inv, DispatchInv, OthersFresh
  <2> QED
    BY <1>1, <1>2, <1>3, <2>1 DEF AddIO
<1>4. CASE StartNext
  <2>1. stack = <<>> /\ at \in 1..Len(m_handlers) /\ phase = "starting"
    BY <1>4 DEF StartNext, Inv, TypeOK
  <2>2. m_handlers[at] \in IO /\ ~Up(at)
    BY <2>1 DEF Inv, TypeOK, Up
  <2>3. PICK io \in IO : io = m_handlers[at]
    BY <2>2
  <2>4. dev[io] = "idle"
    BY <2>1, <2>2, <2>3 DEF Inv, DispatchInv, StartProgress
  <2>5. PICK signal \in Contract[io].start : StartHandler(io, signal)
    BY <1>4, <2>3 DEF StartNext
  <2> QED
    BY <1>2, <2>1, <2>4, <2>5
<1>5. CASE EngineStop \/ Destroy
  <2>1. stack = <<>> /\ stack' = <<>> /\ StopHandlers(Added)
    BY <1>5 DEF EngineStop, Destroy, Quiescent
  <2>2. ASSUME NEW io \in IO PROVE KeptBy(io)
    <3>1. CASE io \in Added
      <4>1. dev'[io] = "idle" /\ handler'[io] = Disconnected(handler[io])
        BY <2>1, <3>1 DEF StopHandlers
      <4>2. Abstract(io)!Stop
        BY <4>1, SameHandler DEF Abstract!Stop
      <4> QED
        BY <4>2 DEF KeptBy, Abstract!Next
    <3>2. CASE io \notin Added
      BY <2>1, <3>2 DEF StopHandlers, KeptBy
    <3> QED
      BY <3>1, <3>2
  <2> QED
    BY <2>1, <2>2 DEF ReadersOpen
<1>6. ASSUME NEW source, NEW destination, AddConnection(source, destination)
      PROVE  UNCHANGED <<handler, dev, stack>>
  BY <1>6 DEF AddConnection
<1>7. CASE EngineStart \/ StartDone \/ UNCHANGED vars
  BY <1>1, <1>7 DEF EngineStart, StartDone, vars, engineVars
<1>8. CASE (\E io \in IO : ReadyRead(io) \/ WaitRead(io) \/ RuntimeError(io)) \/ ReadMore \/ Return
  BY <1>8, DispatchKeeps
<1> QED
  BY <1>1, <1>3, <1>4, <1>5, <1>6, <1>7, <1>8 DEF Next, Interface, Destroyed

(* Whatever the IOs and the user of the engine do, each IO and its Handler *)
(* go through nothing but what the abstract IO allows: it is started only  *)
(* when it is stopped, written to only when it runs, and heard only when   *)
(* it may emit (Engine.cpp, Handler.cpp).                                  *)
THEOREM EngineKeepsContracts ==
  ASSUME BurstsEmit
  PROVE  Spec => ContractKept
<1>1. Init => ReadersOpen(stack) /\ \A io \in IO : Abstract(io)!Init
  <2> SUFFICES ASSUME Init PROVE ReadersOpen(stack) /\ \A io \in IO : Abstract(io)!Init
    OBVIOUS
  <2>1. ReadersOpen(stack)
    BY DEF Init, ReadersOpen
  <2>2. \A io \in IO : Abstract(io)!Init
    BY SameHandler DEF Init, Abstract!Init
  <2> QED
    BY <2>1, <2>2
<1>2. Inv /\ Inv' /\ ReadersOpen(stack) /\ [Next]_vars
        => /\ ReadersOpen(stack)'
           /\ [\A io \in IO : Abstract(io)!Next \/ UNCHANGED <<handler[io], dev[io]>>]_vars
  BY StepKeeps DEF KeptBy, Inv
<1> QED
  BY <1>1, <1>2, InvAlways, PTL DEF Spec, ContractKept

-----------------------------------------------------------------------------
(***************************************************************************)
(* What the engine dispatches: which packets reach which handlers, in      *)
(* which order, and what the statistics count.  The sequences that the     *)
(* model keeps are counted as they grow and shrink at one end.             *)
(***************************************************************************)
LEMMA Predecessor ==
  ASSUME NEW n \in Nat \ {0}
  PROVE  n - 1 \in Nat /\ (n - 1) + 1 = n
  OBVIOUS

LEMMA SuccessorsOrdered ==
  ASSUME NEW m \in Nat, NEW n \in Nat, m <= n
  PROVE  m + 1 <= n + 1
  OBVIOUS

LEMMA SelfIsIn ==
  ASSUME NEW n \in Nat \ {0}
  PROVE  n \in 1..n
  OBVIOUS

LEMMA AtMost ==
  ASSUME NEW l \in Nat, NEW m \in Nat, NEW n \in Nat, l <= m, m <= n
  PROVE  l <= n
  OBVIOUS

LEMMA PlaceIn ==
  ASSUME NEW S, NEW s \in Seq(S), NEW n \in 1..Len(s)
  PROVE  s[n] \in S /\ Len(s) \in Nat /\ n <= Len(s)
  OBVIOUS

(* How many of the first m elements of s lie in S.                         *)
Count(s, m, S) == Cardinality({k \in 1..m : s[k] \in S})

LEMMA CountType ==
  ASSUME NEW s, NEW m \in Nat, NEW S
  PROVE  Count(s, m, S) \in Nat /\ IsFiniteSet({k \in 1..m : s[k] \in S})
<1>1. IsFiniteSet(1..m)
  BY FS_Interval
<1>2. {k \in 1..m : s[k] \in S} \in SUBSET (1..m)
  OBVIOUS
<1>3. IsFiniteSet({k \in 1..m : s[k] \in S})
  BY <1>1, <1>2, FS_Subset
<1> QED
  BY <1>3, FS_CardinalityType DEF Count

LEMMA CountNone ==
  ASSUME NEW s, NEW m \in Nat, NEW S, \A k \in 1..m : s[k] \notin S
  PROVE  Count(s, m, S) = 0
<1>1. {k \in 1..m : s[k] \in S} = {}
  OBVIOUS
<1> QED
  BY <1>1, FS_EmptySet DEF Count

LEMMA CountSame ==
  ASSUME NEW s, NEW t, NEW m \in Nat, NEW S, NEW T,
         \A k \in 1..m : s[k] \in S <=> t[k] \in T
  PROVE  Count(s, m, S) = Count(t, m, T)
<1>1. {k \in 1..m : s[k] \in S} = {k \in 1..m : t[k] \in T}
  OBVIOUS
<1> QED
  BY <1>1 DEF Count

LEMMA CountNext ==
  ASSUME NEW s, NEW m \in Nat, NEW S
  PROVE  Count(s, m + 1, S) = Count(s, m, S) + (IF s[m + 1] \in S THEN 1 ELSE 0)
<1> DEFINE Before == {k \in 1..m : s[k] \in S}
           After  == {k \in 1..(m + 1) : s[k] \in S}
<1>1. IsFiniteSet(Before) /\ Cardinality(Before) \in Nat
  BY CountType DEF Count
<1>2. CASE s[m + 1] \in S
  <2>1. After = Before \cup {m + 1}
    BY <1>2
  <2>2. m + 1 \notin Before
    OBVIOUS
  <2> HIDE DEF Before, After
  <2>3. Cardinality(Before \cup {m + 1}) = Cardinality(Before) + 1
    BY <1>1, <2>2, FS_AddElement
  <2> QED
    BY <1>2, <2>1, <2>3 DEF Count, Before, After
<1>3. CASE s[m + 1] \notin S
  <2>1. After = Before
    BY <1>3
  <2> QED
    BY <1>1, <1>3, <2>1 DEF Count
<1> QED
  BY <1>2, <1>3

LEMMA CountAppend ==
  ASSUME NEW X, NEW s \in Seq(X), NEW e \in X, NEW S
  PROVE  Count(Append(s, e), Len(Append(s, e)), S)
           = Count(s, Len(s), S) + (IF e \in S THEN 1 ELSE 0)
<1> DEFINE t == Append(s, e)
           m == Len(s)
<1>1. /\ m \in Nat
      /\ Len(t) = m + 1
      /\ t[m + 1] = e
      /\ \A k \in 1..m : t[k] = s[k]
  BY AppendProperties
<1> HIDE DEF t, m
<1>2. Count(t, m, S) = Count(s, m, S)
  BY <1>1, CountSame
<1>3. Count(t, m + 1, S) = Count(t, m, S) + (IF t[m + 1] \in S THEN 1 ELSE 0)
  BY <1>1, CountNext
<1>4. Count(t, Len(t), S) = Count(s, m, S) + (IF e \in S THEN 1 ELSE 0)
  BY <1>1, <1>2, <1>3
<1> QED
  BY <1>4 DEF t, m

-----------------------------------------------------------------------------
(* The call stack s after a return, and after a slot that has been called. *)
Popped(s)   == SubSeq(s, 1, Len(s) - 1)
Advanced(s) == Append(Popped(s), [s[Len(s)] EXCEPT !.at = @ + 1])

LEMMA PoppedProperties ==
  ASSUME NEW s \in Seq(Frames), s # <<>>
  PROVE  /\ Len(s) \in Nat \ {0}
         /\ s[Len(s)] \in Frames
         /\ Popped(s) \in Seq(Frames)
         /\ Len(Popped(s)) = Len(s) - 1
         /\ \A k \in 1..(Len(s) - 1) : Popped(s)[k] = s[k]
<1> DEFINE n == Len(s) - 1
<1>1. Len(s) \in Nat \ {0} /\ s[Len(s)] \in Frames
  OBVIOUS
<1>2. 1 \in Int /\ n \in Nat /\ \A k \in 1..n : s[k] \in Frames
  BY <1>1
<1>3. Len(s) - 1 = n
  OBVIOUS
<1> HIDE DEF n
<1>4. /\ SubSeq(s, 1, n) \in Seq(Frames)
      /\ Len(SubSeq(s, 1, n)) = IF 1 <= n THEN n - 1 + 1 ELSE 0
      /\ \A k \in 1..(n - 1 + 1) : SubSeq(s, 1, n)[k] = s[1 + k - 1]
  BY ONLY <1>2, n \in Int, SubSeqProperties
<1>5. Len(SubSeq(s, 1, n)) = n
  BY ONLY <1>2, <1>4
<1>6. \A k \in 1..n : 1 + k - 1 = k /\ k \in 1..(n - 1 + 1)
  BY ONLY <1>2
<1>7. \A k \in 1..n : SubSeq(s, 1, n)[k] = s[k]
  BY ONLY <1>4, <1>6
<1> QED
  BY <1>1, <1>3, <1>4, <1>5, <1>7 DEF Popped

LEMMA AdvancedProperties ==
  ASSUME NEW s \in Seq(Frames), s # <<>>
  PROVE  /\ Advanced(s) \in Seq(Frames)
         /\ Len(Advanced(s)) = Len(s)
         /\ \A k \in 1..(Len(s) - 1) : Advanced(s)[k] = s[k]
         /\ Advanced(s)[Len(s)] = [s[Len(s)] EXCEPT !.at = @ + 1]
         /\ [s[Len(s)] EXCEPT !.at = @ + 1] \in Frames
<1> DEFINE top == [s[Len(s)] EXCEPT !.at = @ + 1]
<1>1. /\ Len(s) \in Nat \ {0}
      /\ s[Len(s)] \in Frames
      /\ Popped(s) \in Seq(Frames)
      /\ Len(Popped(s)) = Len(s) - 1
      /\ \A k \in 1..(Len(s) - 1) : Popped(s)[k] = s[k]
  BY PoppedProperties
<1>2. top \in Frames
  <2>1. s[Len(s)].at + 1 \in Nat \ {0}
    BY <1>1 DEF Frames
  <2> QED
    BY <1>1, <2>1 DEF Frames
<1> HIDE DEF top
<1>3. /\ Append(Popped(s), top) \in Seq(Frames)
      /\ Len(Append(Popped(s), top)) = Len(Popped(s)) + 1
      /\ \A k \in 1..Len(Popped(s)) : Append(Popped(s), top)[k] = Popped(s)[k]
      /\ Append(Popped(s), top)[Len(Popped(s)) + 1] = top
  BY <1>1, <1>2, AppendProperties
<1>4. Advanced(s) = Append(Popped(s), top)
  BY DEF Advanced, top
<1>5. Len(Advanced(s)) = Len(s) /\ Advanced(s)[Len(s)] = top
  BY <1>1, <1>3, <1>4
<1>6. \A k \in 1..(Len(s) - 1) : Advanced(s)[k] = s[k]
  BY <1>1, <1>3, <1>4
<1> QED
  BY <1>2, <1>3, <1>4, <1>5, <1>6 DEF top

(* Counting frames through pushes, returns and slots called.               *)
LEMMA CountPopped ==
  ASSUME NEW s \in Seq(Frames), s # <<>>, NEW S
  PROVE  Count(s, Len(s), S)
           = Count(Popped(s), Len(Popped(s)), S) + (IF s[Len(s)] \in S THEN 1 ELSE 0)
<1> DEFINE m == Len(s) - 1
<1>1. /\ m \in Nat /\ m + 1 = Len(s)
      /\ Len(Popped(s)) = m
      /\ \A k \in 1..m : Popped(s)[k] = s[k]
  BY PoppedProperties
<1> HIDE DEF m
<1>2. Count(s, m, S) = Count(Popped(s), m, S)
  BY <1>1, CountSame
<1>3. Count(s, m + 1, S) = Count(s, m, S) + (IF s[m + 1] \in S THEN 1 ELSE 0)
  BY <1>1, CountNext
<1> QED
  BY <1>1, <1>2, <1>3

-----------------------------------------------------------------------------
(* The steps of the engine, as what they do to the calls that run, to what *)
(* they have counted and to what the handlers have seen.                   *)
Calls  == [src : IO, pkt : Nat, taken : BOOLEAN]
Reads  == [io \in IO |-> handler[io].read]
Writes == [io \in IO |-> handler[io].written]

(* Every frame is one that some action pushed: only the call of an         *)
(* emission goes on to another position or packet.                         *)
Shaped(s) ==
  \A k \in 1..Len(s) :
    \/ s[k].op = "emit"
    \/ s[k] = ReadFrame(s[k].io)
    \/ s[k] = WriteFrame(s[k].io)

CallOf(f, taken) == [src |-> f.io, pkt |-> f.pkt, taken |-> taken]

(* Where a read handler of io emits from: the event loop, the handler that *)
(* runs on top already, or a write that waits.                             *)
Opening(io, frames) ==
  \/ stack = <<>> /\ frames = <<ReadFrame(io)>>
  \/ stack # <<>> /\ Top = ReadFrame(io) /\ frames = stack
  \/ stack # <<>> /\ Top = WriteFrame(io) /\ ~Reading(io) /\ frames = Append(stack, ReadFrame(io))

Emission(io, frames) ==
  /\ Reads' = [Reads EXCEPT ![io] = @ + 1]
  /\ fan' = [fan EXCEPT ![io] = Append(@, Len(receivers[io]))]
  /\ stack' = Append(frames, EmitFrame(io, Reads[io] + 1))

Still ==
  /\ UNCHANGED <<stack, fan, seen>>
  /\ Reads' = Reads
  /\ Writes' = Writes
  /\ \A io \in IO :
       \/ receivers'[io] = receivers[io]
       \/ stack = <<>> /\ \E d \in IO : receivers'[io] = Append(receivers[io], d)

Emits ==
  /\ \E io \in IO : \E frames \in Seq(Frames) : Opening(io, frames) /\ Emission(io, frames)
  /\ Writes' = Writes
  /\ UNCHANGED <<receivers, seen>>

Leaves ==
  /\ stack # <<>>
  /\ \/ Top.op = "read"
     \/ Top.op = "emit" /\ Top.at > Len(receivers[Top.io])
  /\ stack' = Popped(stack)
  /\ Reads' = Reads
  /\ Writes' = Writes
  /\ UNCHANGED <<receivers, fan, seen>>

Counts ==
  /\ stack # <<>>
  /\ Top = WriteFrame(Top.io)
  /\ stack' = Popped(stack)
  /\ Reads' = Reads
  /\ Writes' = [Writes EXCEPT ![Top.io] = @ + 1]
  /\ UNCHANGED <<receivers, fan, seen>>

Calling(taken) ==
  /\ HasNextReceiver
  /\ NextReceiver \in IO
  /\ seen' = [seen EXCEPT ![NextReceiver] = Append(@, CallOf(Top, taken))]
  /\ Writes' = Writes
  /\ UNCHANGED receivers

Drops ==
  /\ Calling(FALSE)
  /\ stack' = Advanced(stack)
  /\ Reads' = Reads
  /\ UNCHANGED fan

Enters ==
  /\ Calling(TRUE)
  /\ LET calls == Append(Advanced(stack), WriteFrame(NextReceiver))
     IN  \/ stack' = calls /\ Reads' = Reads /\ UNCHANGED fan
         \/ Contract[NextReceiver].echoes /\ Emission(NextReceiver, calls)

(* What the actions do to the statistics of a handler.                     *)
LEMMA HandlerCounts ==
  ASSUME NEW h \in Handlers, NEW signal
  PROVE  /\ Connected(h).read = h.read /\ Connected(h).written = h.written
         /\ Signaled(h, signal).read = h.read /\ Signaled(h, signal).written = h.written
         /\ Disconnected(h).read = h.read /\ Disconnected(h).written = h.written
         /\ DataRead(h).read = h.read + 1 /\ DataRead(h).written = h.written
         /\ DataWritten(h, signal).read = h.read
         /\ DataWritten(h, signal).written = h.written + 1
<1>1. /\ Connected(h).read = h.read /\ Connected(h).written = h.written
      /\ Disconnected(h).read = h.read /\ Disconnected(h).written = h.written
      /\ DataRead(h).read = h.read + 1 /\ DataRead(h).written = h.written
  BY DEF Handlers, Connected, Disconnected, DataRead
<1>2. /\ Signaled(h, signal).read = h.read
      /\ Signaled(h, signal).written = h.written
      /\ Signaled(h, signal) \in Handlers
  BY HandlerTypes DEF Handlers, Signaled
<1>3. /\ DataWritten(h, signal).read = Signaled(h, signal).read
      /\ DataWritten(h, signal).written = Signaled(h, signal).written + 1
  BY <1>2 DEF Handlers, DataWritten
<1> QED
  BY <1>1, <1>2, <1>3

(* Handlers whose statistics are those of g count as g does.               *)
LEMMA SameCounts ==
  ASSUME handler \in [IO -> Handlers], handler' \in [IO -> Handlers],
         \A io \in IO : handler'[io].read = handler[io].read /\ handler'[io].written = handler[io].written
  PROVE  Reads' = Reads /\ Writes' = Writes
  BY DEF Reads, Writes

LEMMA OnNewDataCounts ==
  ASSUME NEW h \in [IO -> Handlers], NEW io \in IO, NEW frames \in Seq(Frames),
         \A o \in IO : h[o].read = handler[o].read /\ h[o].written = handler[o].written,
         OnNewData(h, io, frames)
  PROVE  Emission(io, frames) /\ Writes' = Writes
<1>1. handler' = [h EXCEPT ![io] = DataRead(h[io])]
  BY DEF OnNewData
<1>2. \A o \in IO : o # io => handler'[o] = h[o]
  BY <1>1
<1>3. handler'[io].read = h[io].read + 1 /\ handler'[io].written = h[io].written
  BY <1>1, HandlerCounts
<1>4. Reads' = [Reads EXCEPT ![io] = @ + 1]
  BY <1>2, <1>3 DEF Reads
<1>5. Writes' = Writes
  BY <1>2, <1>3 DEF Writes
<1>6. h[io].read = Reads[io]
  BY DEF Reads
<1> QED
  BY <1>4, <1>5, <1>6 DEF Emission, OnNewData

LEMMA StartHandlerCounts ==
  ASSUME Inv, TypeOK', stack = <<>>, NEW io \in IO, NEW signal \in Contract[io].start,
         StartHandler(io, signal), UNCHANGED <<receivers, seen>>
  PROVE  Still \/ Emits
<1> DEFINE g == Signaled(Connected(handler[io]), signal)
           started == [handler EXCEPT ![io] = g]
<1>1. handler \in [IO -> Handlers] /\ handler' \in [IO -> Handlers]
  BY DEF Inv, TypeOK
<1>2. g \in Handlers /\ g.read = handler[io].read /\ g.written = handler[io].written
  <2>1. Connected(handler[io]) \in Handlers
    BY <1>1, HandlerTypes
  <2> QED
    BY <1>1, <2>1, HandlerTypes, HandlerCounts
<1> HIDE DEF g
<1>3. /\ started \in [IO -> Handlers]
      /\ \A o \in IO : started[o].read = handler[o].read /\ started[o].written = handler[o].written
  BY <1>1, <1>2
<1>4. CASE OnNewData(started, io, <<ReadFrame(io)>>)
  <2>1. <<ReadFrame(io)>> \in Seq(Frames)
    BY FrameTypes, 0 \in Nat
  <2> HIDE DEF started
  <2>2. Emission(io, <<ReadFrame(io)>>) /\ Writes' = Writes
    BY <1>3, <1>4, <2>1, OnNewDataCounts
  <2> QED
    BY <2>1, <2>2 DEF Emits, Opening
<1>5. CASE handler' = started /\ UNCHANGED <<fan, stack>>
  <2>1. Reads' = Reads /\ Writes' = Writes
    BY <1>1, <1>3, <1>5, SameCounts
  <2> QED
    BY <1>5, <2>1 DEF Still
<1> QED
  BY <1>4, <1>5 DEF StartHandler, g

(* Every action of the engine is one of those steps.                       *)
LEMMA DispatchStep ==
  ASSUME Inv, Shaped(stack), [Next]_vars
  PROVE  Still \/ Emits \/ Leaves \/ Counts \/ Drops \/ Enters
<1>0. /\ TypeOK
      /\ TypeOK'
      /\ handler \in [IO -> Handlers]
      /\ handler' \in [IO -> Handlers]
      /\ stack \in Seq(Frames)
  BY TypeStep DEF Inv, TypeOK
<1>1. ASSUME UNCHANGED handler PROVE Reads' = Reads /\ Writes' = Writes
  BY <1>1 DEF Reads, Writes
<1>2. stack # <<>> => Top \in Frames /\ Top.io \in IO /\ Returned = Popped(stack)
  BY <1>0, StackTypes DEF Frames, Popped, Returned
<1>3. stack # <<>> =>
        /\ Top.op = "read" => Top = ReadFrame(Top.io)
        /\ Top.op = "write" => Top = WriteFrame(Top.io)
  <2> SUFFICES ASSUME stack # <<>>
               PROVE  /\ Top.op = "read" => Top = ReadFrame(Top.io)
                      /\ Top.op = "write" => Top = WriteFrame(Top.io)
    OBVIOUS
  <2>1. Top = stack[Len(stack)] /\ Len(stack) \in 1..Len(stack)
    BY <1>0, StackTypes
  <2>2. \/ Top.op = "emit"
        \/ Top = ReadFrame(Top.io)
        \/ Top = WriteFrame(Top.io)
    BY <2>1 DEF Shaped
  <2>3. ReadFrame(Top.io).op = "read" /\ WriteFrame(Top.io).op = "write"
    BY DEF ReadFrame, WriteFrame
  <2> QED
    BY <2>2, <2>3
<1>4. stack # <<>> /\ Top.op = "write" => Top = WriteFrame(Top.io)
  BY <1>3
<1>5. SlotLeft = Advanced(stack)
  BY DEF SlotLeft, Advanced, Top, Returned, Popped
<1>6. ASSUME NEW io \in IO, AddIO(io) PROVE Still \/ Emits
  <2>1. CASE m_started
    <3>1. PICK signal \in Contract[io].start : StartHandler(io, signal)
      BY <1>6, <2>1 DEF AddIO
    <3> QED
      BY <1>0, <1>6, <3>1, StartHandlerCounts DEF AddIO, Quiescent
  <2>2. CASE ~m_started
    BY <1>1, <1>6, <2>2 DEF AddIO, Still
  <2> QED
    BY <2>1, <2>2
<1>7. ASSUME NEW r \in Requests, AddConnection(r[1], r[2]) PROVE Still
  <2>1. PICK s, d \in 1..Len(m_handlers) :
          receivers' = [receivers EXCEPT ![m_handlers[s]] = Append(@, m_handlers[d])]
    BY <1>7 DEF AddConnection
  <2>2. m_handlers[s] \in IO /\ m_handlers[d] \in IO
    <3>1. m_handlers \in Seq(IO)
      BY <1>0 DEF TypeOK
    <3> QED
      BY ONLY <3>1, s \in 1..Len(m_handlers), d \in 1..Len(m_handlers)
  <2>3. receivers \in [IO -> Seq(IO)]
    BY <1>0 DEF TypeOK
  <2>4. stack = <<>>
    BY <1>7 DEF AddConnection, Quiescent
  <2>5. \A io \in IO :
          \/ receivers'[io] = receivers[io]
          \/ stack = <<>> /\ \E e \in IO : receivers'[io] = Append(receivers[io], e)
    BY <2>1, <2>2, <2>3, <2>4
  <2> QED
    BY <1>1, <1>7, <2>5 DEF AddConnection, Still
<1>8. CASE EngineStart \/ StartDone
  BY <1>1, <1>8 DEF EngineStart, StartDone, Still
<1>9. CASE EngineStop \/ Destroy
  <2>1. \A io \in IO : handler'[io].read = handler[io].read /\ handler'[io].written = handler[io].written
    BY <1>0, <1>9, HandlerCounts DEF EngineStop, Destroy, StopHandlers
  <2> QED
    BY <1>0, <1>9, <2>1, SameCounts DEF EngineStop, Destroy, Still
<1>10. CASE StartNext
  <2>1. m_handlers[at] \in IO
    BY <1>0, <1>10 DEF StartNext, TypeOK
  <2>2. PICK signal \in Contract[m_handlers[at]].start : StartHandler(m_handlers[at], signal)
    BY <1>10 DEF StartNext
  <2> QED
    BY <1>0, <1>10, <2>1, <2>2, StartHandlerCounts DEF StartNext
<1>11. ASSUME NEW io \in IO, NEW frames \in Seq(Frames), Opening(io, frames),
              OnNewData(handler, io, frames), UNCHANGED <<receivers, seen>>
       PROVE  Emits
  BY <1>0, <1>11, OnNewDataCounts DEF Emits
<1>12. ASSUME NEW io \in IO, ReadyRead(io) PROVE Emits
  <2>1. <<ReadFrame(io)>> \in Seq(Frames)
    BY FrameTypes, 0 \in Nat
  <2> QED
    BY <1>11, <1>12, <2>1 DEF ReadyRead, Quiescent, Opening, engineVars
<1>13. ASSUME NEW io \in IO, WaitRead(io) PROVE Emits
  <2>1. Append(stack, ReadFrame(io)) \in Seq(Frames)
    BY <1>0, FrameTypes, 0 \in Nat, AppendProperties
  <2> QED
    BY <1>4, <1>11, <1>13, <2>1 DEF WaitRead, Running, Opening, engineVars
<1>14. CASE ReadMore
  BY <1>0, <1>2, <1>3, <1>11, <1>14 DEF ReadMore, Running, Opening, engineVars
<1>15. ASSUME NEW io \in IO, RuntimeError(io) PROVE Still
  <2>1. \A o \in IO : handler'[o].read = handler[o].read /\ handler'[o].written = handler[o].written
    BY <1>0, <1>15, HandlerCounts DEF RuntimeError
  <2> QED
    BY <1>0, <1>15, <2>1, SameCounts DEF RuntimeError, engineVars, Still
<1>16. CASE ReadDone
  BY <1>1, <1>2, <1>16 DEF ReadDone, Running, engineVars, Leaves
<1>17. CASE EmitDone
  BY <1>1, <1>2, <1>17 DEF EmitDone, Running, engineVars, Leaves
<1>18. CASE WriteReturns
  <2>1. PICK signal : handler' = [handler EXCEPT ![Top.io] = DataWritten(@, signal)]
    BY <1>18 DEF WriteReturns
  <2>2. stack # <<>> /\ Top = WriteFrame(Top.io) /\ Top.io \in IO /\ stack' = Popped(stack)
    BY <1>2, <1>4, <1>18 DEF WriteReturns, Running
  <2> DEFINE io == Top.io
  <2>3. /\ io \in IO
        /\ handler' = [handler EXCEPT ![io] = DataWritten(handler[io], signal)]
    BY <2>1, <2>2
  <2> HIDE DEF io
  <2>4. /\ handler'[io].read = handler[io].read
        /\ handler'[io].written = handler[io].written + 1
        /\ \A o \in IO : o # io => handler'[o] = handler[o]
    BY <1>0, <2>3, HandlerCounts
  <2>5. Reads' = Reads /\ Writes' = [Writes EXCEPT ![io] = @ + 1]
    BY <2>4 DEF Reads, Writes
  <2> QED
    BY <1>18, <2>2, <2>5 DEF WriteReturns, engineVars, Counts, io
<1>19. CASE Drop
  BY <1>0, <1>1, <1>5, <1>19, SlotTypes DEF Drop, SlotCalled, Calling, CallOf, engineVars, Drops
<1>20. CASE Write
  <2> DEFINE calls == Append(SlotLeft, WriteFrame(NextReceiver))
  <2>1. NextReceiver \in IO /\ SlotLeft \in Seq(Frames)
    BY <1>0, <1>20, SlotTypes DEF Write
  <2>2. calls \in Seq(Frames)
    BY <2>1, FrameTypes, 0 \in Nat, AppendProperties
  <2>3. /\ HasNextReceiver
        /\ seen' = [seen EXCEPT ![NextReceiver] = Append(@, CallOf(Top, TRUE))]
        /\ UNCHANGED receivers
    BY <1>20 DEF Write, SlotCalled, CallOf, engineVars
  <2>4. CASE Contract[NextReceiver].echoes /\ OnNewData(handler, NextReceiver, calls)
    <3> HIDE DEF calls
    <3>1. Emission(NextReceiver, calls) /\ Writes' = Writes
      BY <1>0, <2>1, <2>2, <2>4, OnNewDataCounts
    <3> QED
      BY <1>5, <2>1, <2>3, <2>4, <3>1 DEF Enters, Calling, calls
  <2>5. CASE stack' = calls /\ UNCHANGED <<handler, fan>>
    <3>1. Reads' = Reads /\ Writes' = Writes
      BY <1>1, <2>5
    <3> QED
      BY <1>5, <2>1, <2>3, <2>5, <3>1 DEF Enters, Calling
  <2> QED
    BY <1>20, <2>4, <2>5 DEF Write
<1>21. CASE UNCHANGED vars
  BY <1>1, <1>21 DEF vars, engineVars, Still
<1> QED
  BY <1>6, <1>7, <1>8, <1>9, <1>10, <1>12, <1>13, <1>14, <1>15, <1>16, <1>17, <1>18, <1>19,
     <1>20, <1>21 DEF Next, Interface, Return, Destroyed

(* The frames stay well shaped.                                            *)
LEMMA PushShaped ==
  ASSUME NEW s \in Seq(Frames), Shaped(s), NEW f \in Frames,
         f.op = "emit" \/ f = ReadFrame(f.io) \/ f = WriteFrame(f.io)
  PROVE  Append(s, f) \in Seq(Frames) /\ Shaped(Append(s, f))
<1> DEFINE t == Append(s, f)
<1>1. /\ t \in Seq(Frames)
      /\ Len(t) = Len(s) + 1
      /\ Len(s) \in Nat
      /\ \A k \in 1..Len(s) : t[k] = s[k]
      /\ t[Len(s) + 1] = f
  BY AppendProperties
<1> HIDE DEF t
<1>2. ASSUME NEW k \in 1..Len(t)
      PROVE  t[k].op = "emit" \/ t[k] = ReadFrame(t[k].io) \/ t[k] = WriteFrame(t[k].io)
  <2>1. CASE k = Len(s) + 1
    BY <1>1, <2>1
  <2>2. CASE k \in 1..Len(s)
    BY <1>1, <2>2 DEF Shaped
  <2> QED
    BY <1>1, <2>1, <2>2
<1>3. Shaped(t)
  BY <1>2 DEF Shaped
<1> QED
  BY <1>1, <1>3 DEF t

LEMMA CallFrames ==
  ASSUME NEW io \in IO, NEW n \in Nat
  PROVE  /\ EmitFrame(io, n) \in Frames /\ EmitFrame(io, n).op = "emit"
         /\ EmitFrame(io, n).io = io /\ EmitFrame(io, n).pkt = n /\ EmitFrame(io, n).at = 1
         /\ ReadFrame(io) \in Frames /\ ReadFrame(io).op = "read" /\ ReadFrame(io).io = io
         /\ WriteFrame(io) \in Frames /\ WriteFrame(io).op = "write" /\ WriteFrame(io).io = io
<1>1. EmitFrame(io, n) \in Frames /\ ReadFrame(io) \in Frames /\ WriteFrame(io) \in Frames
  BY FrameTypes
<1> QED
  BY <1>1 DEF EmitFrame, ReadFrame, WriteFrame

LEMMA OpeningShaped ==
  ASSUME stack \in Seq(Frames), Shaped(stack), NEW io \in IO, NEW frames, Opening(io, frames)
  PROVE  frames \in Seq(Frames) /\ Shaped(frames)
<1>1. ReadFrame(io) \in Frames /\ ReadFrame(io) = ReadFrame(ReadFrame(io).io)
  BY CallFrames, 0 \in Nat
<1>2. CASE frames = <<ReadFrame(io)>>
  BY <1>1, <1>2 DEF Shaped
<1>3. CASE frames = stack
  BY <1>3
<1>4. CASE frames = Append(stack, ReadFrame(io))
  BY <1>1, <1>4, PushShaped
<1> QED
  BY <1>2, <1>3, <1>4 DEF Opening

(* The type of what the steps are about.                                   *)
Typed ==
  /\ stack \in Seq(Frames)
  /\ Reads \in [IO -> Nat]
  /\ Writes \in [IO -> Nat]
  /\ receivers \in [IO -> Seq(IO)]
  /\ fan \in [IO -> Seq(Nat)]
  /\ seen \in [IO -> Seq(Calls)]

LEMMA TypedFromInv == TypeOK => Typed
<1> SUFFICES ASSUME TypeOK PROVE Typed
  OBVIOUS
<1>1. Reads \in [IO -> Nat] /\ Writes \in [IO -> Nat]
  BY DEF TypeOK, Handlers, Reads, Writes
<1> QED
  BY <1>1 DEF TypeOK, Typed, Calls

LEMMA CallingTypes ==
  ASSUME Typed, HasNextReceiver
  PROVE  /\ stack # <<>>
         /\ Top = stack[Len(stack)]
         /\ Len(stack) \in Nat \ {0}
         /\ Top \in Frames /\ Top.op = "emit" /\ Top.io \in IO /\ Top.pkt \in Nat
         /\ Top.at \in 1..Len(receivers[Top.io])
         /\ \A taken \in BOOLEAN : CallOf(Top, taken) \in Calls
<1>1. stack # <<>> /\ Top.op = "emit" /\ Top.at <= Len(receivers[Top.io])
  BY DEF HasNextReceiver, Running
<1>2. Top = stack[Len(stack)] /\ Len(stack) \in Nat \ {0} /\ Top \in Frames
  BY <1>1, PoppedProperties DEF Typed, Top
<1>3. Top.io \in IO /\ Top.pkt \in Nat /\ Top.at \in Nat \ {0}
  BY <1>2 DEF Frames
<1>4. Top.at \in 1..Len(receivers[Top.io])
  BY <1>1, <1>3 DEF Typed
<1> QED
  BY <1>1, <1>2, <1>3, <1>4 DEF Calls, CallOf

LEMMA EmissionShaped ==
  ASSUME Typed, NEW io \in IO, NEW frames \in Seq(Frames), Shaped(frames), Emission(io, frames)
  PROVE  Shaped(stack')
<1>1. EmitFrame(io, Reads[io] + 1) \in Frames /\ EmitFrame(io, Reads[io] + 1).op = "emit"
  BY CallFrames DEF Typed
<1> QED
  BY <1>1, PushShaped DEF Emission

LEMMA EnteringShaped ==
  ASSUME Typed, Shaped(stack), NEW taken, Calling(taken)
  PROVE  LET calls == Append(Advanced(stack), WriteFrame(NextReceiver))
         IN  /\ Advanced(stack) \in Seq(Frames) /\ Shaped(Advanced(stack))
             /\ calls \in Seq(Frames) /\ Shaped(calls)
<1>1. /\ stack \in Seq(Frames) /\ stack # <<>>
      /\ Len(stack) \in Nat \ {0}
      /\ stack[Len(stack)] \in Frames
      /\ stack[Len(stack)].op = "emit"
  BY CallingTypes DEF Calling, Typed
<1>2. /\ Advanced(stack) \in Seq(Frames)
      /\ Len(Advanced(stack)) = Len(stack)
      /\ \A k \in 1..(Len(stack) - 1) : Advanced(stack)[k] = stack[k]
      /\ Advanced(stack)[Len(stack)] = [stack[Len(stack)] EXCEPT !.at = @ + 1]
  BY <1>1, AdvancedProperties
<1>3. Advanced(stack)[Len(stack)].op = "emit"
  BY <1>1, <1>2 DEF Frames
<1>4. Shaped(Advanced(stack))
  <2> SUFFICES ASSUME NEW k \in 1..Len(stack)
               PROVE  \/ Advanced(stack)[k].op = "emit"
                      \/ Advanced(stack)[k] = ReadFrame(Advanced(stack)[k].io)
                      \/ Advanced(stack)[k] = WriteFrame(Advanced(stack)[k].io)
    BY <1>2 DEF Shaped
  <2>1. k = Len(stack) \/ k \in 1..(Len(stack) - 1)
    BY <1>1
  <2> QED
    BY <1>2, <1>3, <2>1 DEF Shaped
<1>5. WriteFrame(NextReceiver) \in Frames /\ WriteFrame(NextReceiver) = WriteFrame(WriteFrame(NextReceiver).io)
  BY CallFrames, 0 \in Nat DEF Calling
<1> QED
  BY <1>2, <1>4, <1>5, PushShaped

LEMMA ShapedStep ==
  ASSUME Typed, Shaped(stack), Still \/ Emits \/ Leaves \/ Counts \/ Drops \/ Enters
  PROVE  Shaped(stack')
<1>1. CASE Still
  BY <1>1 DEF Still
<1>2. CASE Emits
  BY <1>2, OpeningShaped, EmissionShaped DEF Emits, Typed
<1>3. CASE Leaves \/ Counts
  <2>1. stack # <<>> /\ stack' = Popped(stack)
    BY <1>3 DEF Leaves, Counts
  <2>2. /\ Len(stack') = Len(stack) - 1 /\ Len(stack) \in Nat
        /\ \A k \in 1..(Len(stack) - 1) : stack'[k] = stack[k]
    BY <2>1, PoppedProperties DEF Typed
  <2> QED
    BY <2>2 DEF Shaped
<1>4. CASE Drops
  BY <1>4, EnteringShaped DEF Drops
<1>5. CASE Enters
  BY <1>5, EnteringShaped, EmissionShaped DEF Enters, Calling
<1> QED
  BY <1>1, <1>2, <1>3, <1>4, <1>5

-----------------------------------------------------------------------------
(* The statistics.  Running writes and writes that have returned make up   *)
(* the calls that were taken.                                              *)
Taken == {c \in Calls : c.taken}

Balanced(s, written, calls) ==
  \A io \in IO :
    written[io] + Count(s, Len(s), {WriteFrame(io)}) = Count(calls[io], Len(calls[io]), Taken)

LEMMA WriteFramesPushed ==
  ASSUME NEW s \in Seq(Frames), NEW f \in Frames, NEW io \in IO
  PROVE  Count(Append(s, f), Len(Append(s, f)), {WriteFrame(io)})
           = Count(s, Len(s), {WriteFrame(io)}) + (IF f = WriteFrame(io) THEN 1 ELSE 0)
<1>1. f \in {WriteFrame(io)} <=> f = WriteFrame(io)
  OBVIOUS
<1> QED
  BY <1>1, CountAppend

LEMMA PushBalanced ==
  ASSUME NEW s \in Seq(Frames), NEW f \in Frames, f.op # "write", NEW written, NEW calls,
         Balanced(s, written, calls)
  PROVE  Balanced(Append(s, f), written, calls)
<1> SUFFICES ASSUME NEW io \in IO
             PROVE  written[io] + Count(Append(s, f), Len(Append(s, f)), {WriteFrame(io)})
                      = Count(calls[io], Len(calls[io]), Taken)
  BY DEF Balanced
<1>1. f # WriteFrame(io)
  BY CallFrames, 0 \in Nat
<1>2. Count(s, Len(s), {WriteFrame(io)}) \in Nat
  BY Len(s) \in Nat, CountType
<1> QED
  BY <1>1, <1>2, WriteFramesPushed DEF Balanced

LEMMA EmissionBalanced ==
  ASSUME Typed, NEW io \in IO, NEW frames \in Seq(Frames), NEW written, NEW calls,
         Balanced(frames, written, calls), Emission(io, frames)
  PROVE  Balanced(stack', written, calls)
<1>1. EmitFrame(io, Reads[io] + 1) \in Frames /\ EmitFrame(io, Reads[io] + 1).op = "emit"
  BY CallFrames DEF Typed
<1> QED
  BY <1>1, PushBalanced DEF Emission

LEMMA OpeningBalanced ==
  ASSUME Typed, NEW io \in IO, NEW frames, Opening(io, frames), Balanced(stack, Writes, seen)
  PROVE  Balanced(frames, Writes, seen)
<1>1. ReadFrame(io) \in Frames /\ ReadFrame(io).op # "write"
  BY CallFrames, 0 \in Nat
<1>2. CASE stack = <<>> /\ frames = <<ReadFrame(io)>>
  <2>1. <<ReadFrame(io)>> = Append(stack, ReadFrame(io))
    BY <1>2
  <2> QED
    BY <1>1, <1>2, <2>1, PushBalanced DEF Typed
<1>3. CASE frames = stack
  BY <1>3
<1>4. CASE frames = Append(stack, ReadFrame(io))
  BY <1>1, <1>4, PushBalanced DEF Typed
<1> QED
  BY <1>2, <1>3, <1>4 DEF Opening

(* The call of a slot leaves the write frames as they are, and adds to the *)
(* calls that were taken if it was.                                        *)
LEMMA SlotCounted ==
  ASSUME Typed, NEW taken \in BOOLEAN, Calling(taken), NEW io \in IO
  PROVE  /\ Advanced(stack) \in Seq(Frames)
         /\ Count(Advanced(stack), Len(Advanced(stack)), {WriteFrame(io)})
              = Count(stack, Len(stack), {WriteFrame(io)})
         /\ Count(stack, Len(stack), {WriteFrame(io)}) \in Nat
         /\ Count(seen[io], Len(seen[io]), Taken) \in Nat
         /\ Count(seen'[io], Len(seen'[io]), Taken)
              = Count(seen[io], Len(seen[io]), Taken) + (IF taken /\ io = NextReceiver THEN 1 ELSE 0)
<1>1. /\ stack \in Seq(Frames) /\ stack # <<>>
      /\ stack[Len(stack)] \in Frames /\ stack[Len(stack)].op = "emit"
      /\ Len(stack) \in Nat \ {0}
      /\ CallOf(Top, taken) \in Calls
  BY CallingTypes DEF Calling, Typed
<1>2. /\ Advanced(stack) \in Seq(Frames)
      /\ Len(Advanced(stack)) = Len(stack)
      /\ \A k \in 1..(Len(stack) - 1) : Advanced(stack)[k] = stack[k]
      /\ Advanced(stack)[Len(stack)] = [stack[Len(stack)] EXCEPT !.at = @ + 1]
  BY <1>1, AdvancedProperties
<1>3. WriteFrame(io).op = "write"
  BY CallFrames, 0 \in Nat
<1>4. Advanced(stack)[Len(stack)].op = "emit"
  BY <1>1, <1>2 DEF Frames
<1>5. \A k \in 1..Len(stack) : Advanced(stack)[k] \in {WriteFrame(io)} <=> stack[k] \in {WriteFrame(io)}
  <2> TAKE k \in 1..Len(stack)
  <2>1. k = Len(stack) \/ k \in 1..(Len(stack) - 1)
    BY <1>1
  <2> QED
    BY <1>1, <1>2, <1>3, <1>4, <2>1
<1>6. Count(Advanced(stack), Len(stack), {WriteFrame(io)}) = Count(stack, Len(stack), {WriteFrame(io)})
  BY <1>1, <1>5, CountSame
<1>7. seen[io] \in Seq(Calls) /\ Len(seen[io]) \in Nat
  BY DEF Typed
<1>8. Count(stack, Len(stack), {WriteFrame(io)}) \in Nat /\ Count(seen[io], Len(seen[io]), Taken) \in Nat
  BY <1>1, <1>7, CountType
<1>9. CASE io = NextReceiver
  <2>1. seen'[io] = Append(seen[io], CallOf(Top, taken))
    BY <1>9 DEF Calling, Typed
  <2>2. CallOf(Top, taken) \in Taken <=> taken
    BY <1>1 DEF Taken, CallOf
  <2>3. Count(seen'[io], Len(seen'[io]), Taken)
          = Count(seen[io], Len(seen[io]), Taken) + (IF CallOf(Top, taken) \in Taken THEN 1 ELSE 0)
    BY <1>1, <1>7, <2>1, CountAppend
  <2> QED
    BY <1>2, <1>6, <1>8, <1>9, <2>2, <2>3
<1>10. CASE io # NextReceiver
  <2>1. seen'[io] = seen[io]
    BY <1>10 DEF Calling, Typed
  <2> QED
    BY <1>2, <1>6, <1>8, <1>10, <2>1
<1> QED
  BY <1>9, <1>10

LEMMA BalancedStep ==
  ASSUME Typed, Balanced(stack, Writes, seen), Still \/ Emits \/ Leaves \/ Counts \/ Drops \/ Enters
  PROVE  Balanced(stack, Writes, seen)'
<1>1. CASE Still
  BY <1>1 DEF Still, Balanced
<1>2. CASE Emits
  <2>1. PICK io \in IO, frames \in Seq(Frames) : Opening(io, frames) /\ Emission(io, frames)
    BY <1>2 DEF Emits
  <2>2. Balanced(frames, Writes, seen)
    BY <2>1, OpeningBalanced
  <2>3. Balanced(stack', Writes, seen)
    BY <2>1, <2>2, EmissionBalanced
  <2> QED
    BY <1>2, <2>3 DEF Emits, Balanced
<1>3. ASSUME stack # <<>>, stack' = Popped(stack), NEW io \in IO
      PROVE  /\ Count(stack', Len(stack'), {WriteFrame(io)}) \in Nat
             /\ Count(stack, Len(stack), {WriteFrame(io)})
                 = Count(stack', Len(stack'), {WriteFrame(io)}) + (IF Top = WriteFrame(io) THEN 1 ELSE 0)
  <2>1. stack \in Seq(Frames) /\ Popped(stack) \in Seq(Frames) /\ Len(Popped(stack)) \in Nat
    BY <1>3, PoppedProperties DEF Typed
  <2>2. stack[Len(stack)] \in {WriteFrame(io)} <=> Top = WriteFrame(io)
    BY DEF Top
  <2>3. Count(stack, Len(stack), {WriteFrame(io)})
          = Count(Popped(stack), Len(Popped(stack)), {WriteFrame(io)})
              + (IF stack[Len(stack)] \in {WriteFrame(io)} THEN 1 ELSE 0)
    BY <1>3, <2>1, CountPopped
  <2>4. Count(Popped(stack), Len(Popped(stack)), {WriteFrame(io)}) \in Nat
    BY <2>1, CountType
  <2> QED
    BY <1>3, <2>2, <2>3, <2>4
<1>4. CASE Leaves
  <2> SUFFICES ASSUME NEW io \in IO
               PROVE  Writes'[io] + Count(stack', Len(stack'), {WriteFrame(io)})
                        = Count(seen'[io], Len(seen'[io]), Taken)
    BY DEF Balanced
  <2>1. Top # WriteFrame(io)
    BY <1>4, CallFrames, 0 \in Nat DEF Leaves
  <2> QED
    BY <1>3, <1>4, <2>1 DEF Leaves, Balanced
<1>5. CASE Counts
  <2> SUFFICES ASSUME NEW io \in IO
               PROVE  Writes'[io] + Count(stack', Len(stack'), {WriteFrame(io)})
                        = Count(seen'[io], Len(seen'[io]), Taken)
    BY DEF Balanced
  <2>1. Writes[io] \in Nat /\ Writes'[io] = IF io = Top.io THEN Writes[io] + 1 ELSE Writes[io]
    BY <1>5 DEF Counts, Typed
  <2>2. Top = WriteFrame(io) <=> io = Top.io
    BY <1>5, CallFrames, 0 \in Nat DEF Counts
  <2> QED
    BY <1>3, <1>5, <2>1, <2>2 DEF Counts, Balanced
<1>6. CASE Drops
  <2> SUFFICES ASSUME NEW io \in IO
               PROVE  Writes'[io] + Count(stack', Len(stack'), {WriteFrame(io)})
                        = Count(seen'[io], Len(seen'[io]), Taken)
    BY DEF Balanced
  <2>1. /\ Count(Advanced(stack), Len(Advanced(stack)), {WriteFrame(io)})
             = Count(stack, Len(stack), {WriteFrame(io)})
        /\ Count(seen[io], Len(seen[io]), Taken) \in Nat
        /\ Count(seen'[io], Len(seen'[io]), Taken) = Count(seen[io], Len(seen[io]), Taken)
    <3>1. Calling(FALSE)
      BY <1>6 DEF Drops
    <3>2. Count(seen[io], Len(seen[io]), Taken) \in Nat
      BY <3>1, SlotCounted
    <3>3. Count(Advanced(stack), Len(Advanced(stack)), {WriteFrame(io)})
             = Count(stack, Len(stack), {WriteFrame(io)})
      BY <3>1, SlotCounted
    <3>4. Count(seen'[io], Len(seen'[io]), Taken) = Count(seen[io], Len(seen[io]), Taken) + 0
      BY <3>1, SlotCounted
    <3> QED
      BY <3>2, <3>3, <3>4
  <2>2. Writes' = Writes /\ stack' = Advanced(stack)
    BY <1>6 DEF Drops, Calling
  <2> QED
    BY <2>1, <2>2 DEF Balanced
<1>7. CASE Enters
  <2> DEFINE calls == Append(Advanced(stack), WriteFrame(NextReceiver))
  <2>1. Calling(TRUE) /\ NextReceiver \in IO /\ Writes' = Writes
    BY <1>7 DEF Enters, Calling
  <2>2. WriteFrame(NextReceiver) \in Frames /\ Advanced(stack) \in Seq(Frames)
    BY <2>1, CallFrames, SlotCounted, 0 \in Nat
  <2>3. calls \in Seq(Frames)
    BY <2>2, AppendProperties
  <2>4. Balanced(calls, Writes, seen')
    <3> SUFFICES ASSUME NEW io \in IO
                 PROVE  Writes[io] + Count(calls, Len(calls), {WriteFrame(io)})
                          = Count(seen'[io], Len(seen'[io]), Taken)
      BY DEF Balanced
    <3>1. WriteFrame(NextReceiver) = WriteFrame(io) <=> io = NextReceiver
      BY <2>1, CallFrames, 0 \in Nat
    <3>2. Count(calls, Len(calls), {WriteFrame(io)})
            = Count(Advanced(stack), Len(Advanced(stack)), {WriteFrame(io)})
                + (IF io = NextReceiver THEN 1 ELSE 0)
      BY <2>2, <3>1, WriteFramesPushed
    <3>3. Writes[io] \in Nat
      BY DEF Typed
    <3>4. /\ Count(Advanced(stack), Len(Advanced(stack)), {WriteFrame(io)})
               = Count(stack, Len(stack), {WriteFrame(io)})
          /\ Count(stack, Len(stack), {WriteFrame(io)}) \in Nat
          /\ Count(seen[io], Len(seen[io]), Taken) \in Nat
          /\ Count(seen'[io], Len(seen'[io]), Taken)
               = Count(seen[io], Len(seen[io]), Taken) + (IF io = NextReceiver THEN 1 ELSE 0)
      BY <2>1, SlotCounted
    <3>5. Writes[io] + Count(stack, Len(stack), {WriteFrame(io)}) = Count(seen[io], Len(seen[io]), Taken)
      BY DEF Balanced
    <3> HIDE DEF calls
    <3> QED
      BY ONLY <3>2, <3>3, <3>4, <3>5
  <2> HIDE DEF calls
  <2>5. stack' = calls \/ Emission(NextReceiver, calls)
    BY <1>7 DEF Enters, calls
  <2>6. Balanced(stack', Writes, seen')
    BY <2>1, <2>3, <2>4, <2>5, EmissionBalanced
  <2> QED
    BY <2>1, <2>6
<1> QED
  BY <1>1, <1>2, <1>4, <1>5, <1>6, <1>7

-----------------------------------------------------------------------------
(* The deliveries.  What a handler has seen of packet n of src is counted  *)
(* by the emission that is on the stack for it, and by the history fan     *)
(* when that emission is over.                                             *)
CallsOf(src, n) == {c \in Calls : c.src = src /\ c.pkt = n}

Received(calls, dst, src, n) == Count(calls[dst], Len(calls[dst]), CallsOf(src, n))

Emitting(f, src, n) == f.op = "emit" /\ f.io = src /\ f.pkt = n

FansCounted(rc, reads, fans) ==
  \A io \in IO :
    /\ Len(fans[io]) = reads[io]
    /\ \A n \in 1..reads[io] : fans[io][n] <= Len(rc[io])

EmissionCounted(rc, f, reads, fans) ==
  /\ f.pkt \in 1..reads[f.io]
  /\ fans[f.io][f.pkt] = Len(rc[f.io])
  /\ f.at <= Len(rc[f.io]) + 1

EmissionsCounted(rc, s, reads, fans) ==
  \A k \in 1..Len(s) : s[k].op = "emit" => EmissionCounted(rc, s[k], reads, fans)

EmissionsDiffer(s) ==
  \A j, k \in 1..Len(s) :
    (s[j].op = "emit" /\ s[k].op = "emit" /\ s[j].io = s[k].io /\ s[j].pkt = s[k].pkt) => j = k

Delivered(rc, s, reads, fans, calls) ==
  \A src, dst \in IO : \A n \in Nat \ {0} :
    /\ n > reads[src] => Received(calls, dst, src, n) = 0
    /\ \A k \in 1..Len(s) : Emitting(s[k], src, n) =>
         Received(calls, dst, src, n) = Count(rc[src], s[k].at - 1, {dst})
    /\ n <= reads[src] =>
         \/ \E k \in 1..Len(s) : Emitting(s[k], src, n)
         \/ Received(calls, dst, src, n) = Count(rc[src], fans[src][n], {dst})

Delivery(rc, s, reads, fans, calls) ==
  /\ FansCounted(rc, reads, fans)
  /\ EmissionsCounted(rc, s, reads, fans)
  /\ EmissionsDiffer(s)
  /\ Delivered(rc, s, reads, fans, calls)

(* A call that emits nothing, and the return of one, are no delivery.      *)
LEMMA PushDelivery ==
  ASSUME NEW rc, NEW s \in Seq(Frames), NEW reads, NEW fans, NEW calls,
         Delivery(rc, s, reads, fans, calls), NEW f \in Frames, f.op # "emit"
  PROVE  Append(s, f) \in Seq(Frames) /\ Delivery(rc, Append(s, f), reads, fans, calls)
<1> DEFINE t == Append(s, f)
<1>1. /\ t \in Seq(Frames)
      /\ Len(t) = Len(s) + 1
      /\ Len(s) \in Nat
      /\ \A k \in 1..Len(s) : t[k] = s[k]
      /\ t[Len(s) + 1] = f
  BY AppendProperties
<1> HIDE DEF t
<1>2. \A k \in 1..Len(t) : t[k].op = "emit" => k \in 1..Len(s) /\ t[k] = s[k]
  <2> TAKE k \in 1..Len(t)
  <2>1. k \in 1..Len(s) \/ k = Len(s) + 1
    BY <1>1
  <2> QED
    BY <1>1, <2>1
<1>3. EmissionsCounted(rc, t, reads, fans) /\ EmissionsDiffer(t)
  <2>1. EmissionsCounted(rc, t, reads, fans)
    BY <1>2 DEF Delivery, EmissionsCounted
  <2>2. EmissionsDiffer(s)
    BY DEF Delivery
  <2>3. EmissionsDiffer(t)
    BY ONLY <1>2, <2>2 DEF EmissionsDiffer
  <2> QED
    BY <2>1, <2>3
<1>4. \A src, n : (\E k \in 1..Len(s) : Emitting(s[k], src, n)) => \E k \in 1..Len(t) : Emitting(t[k], src, n)
  BY <1>1
<1>5. Delivered(rc, t, reads, fans, calls)
  <2> SUFFICES ASSUME NEW src \in IO, NEW dst \in IO, NEW n \in Nat \ {0}
               PROVE  /\ n > reads[src] => Received(calls, dst, src, n) = 0
                      /\ \A k \in 1..Len(t) : Emitting(t[k], src, n) =>
                           Received(calls, dst, src, n) = Count(rc[src], t[k].at - 1, {dst})
                      /\ n <= reads[src] =>
                           \/ \E k \in 1..Len(t) : Emitting(t[k], src, n)
                           \/ Received(calls, dst, src, n) = Count(rc[src], fans[src][n], {dst})
    BY DEF Delivered
  <2>1. /\ n > reads[src] => Received(calls, dst, src, n) = 0
        /\ \A k \in 1..Len(s) : Emitting(s[k], src, n) =>
             Received(calls, dst, src, n) = Count(rc[src], s[k].at - 1, {dst})
        /\ n <= reads[src] =>
             \/ \E k \in 1..Len(s) : Emitting(s[k], src, n)
             \/ Received(calls, dst, src, n) = Count(rc[src], fans[src][n], {dst})
    BY DEF Delivery, Delivered
  <2>2. \A k \in 1..Len(t) : Emitting(t[k], src, n) => k \in 1..Len(s) /\ t[k] = s[k]
    BY <1>2 DEF Emitting
  <2>3. \A k \in 1..Len(t) : Emitting(t[k], src, n) =>
          Received(calls, dst, src, n) = Count(rc[src], t[k].at - 1, {dst})
    BY <2>1, <2>2
  <2> QED
    BY <1>4, <2>1, <2>3
<1>6. Delivery(rc, t, reads, fans, calls)
  BY <1>3, <1>5 DEF Delivery
<1> QED
  BY <1>1, <1>6 DEF t

LEMMA ReturnDelivery ==
  ASSUME NEW rc, NEW s \in Seq(Frames), NEW reads, NEW fans, NEW calls, s # <<>>,
         Delivery(rc, s, reads, fans, calls),
         \/ s[Len(s)].op # "emit"
         \/ s[Len(s)].at = Len(rc[s[Len(s)].io]) + 1 /\ Len(rc[s[Len(s)].io]) \in Nat
  PROVE  Delivery(rc, Popped(s), reads, fans, calls)
<1> DEFINE t == Popped(s)
           top == s[Len(s)]
<1>1. /\ t \in Seq(Frames)
      /\ Len(t) = Len(s) - 1
      /\ Len(s) \in Nat \ {0}
      /\ \A k \in 1..(Len(s) - 1) : t[k] = s[k]
      /\ top \in Frames
  BY PoppedProperties
<1> HIDE DEF t, top
<1>2. \A k \in 1..Len(t) : k \in 1..Len(s) /\ t[k] = s[k]
  BY <1>1
<1>3. EmissionsCounted(rc, t, reads, fans) /\ EmissionsDiffer(t)
  <2>1. EmissionsCounted(rc, t, reads, fans)
    BY <1>2 DEF Delivery, EmissionsCounted
  <2>2. EmissionsDiffer(s)
    BY DEF Delivery
  <2>3. EmissionsDiffer(t)
    BY ONLY <1>2, <2>2 DEF EmissionsDiffer
  <2> QED
    BY <2>1, <2>3
<1>4. ASSUME NEW src, NEW n, NEW k \in 1..Len(s), Emitting(s[k], src, n)
      PROVE  \/ \E j \in 1..Len(t) : Emitting(t[j], src, n)
             \/ Emitting(top, src, n)
  <2>1. CASE k = Len(s)
    BY <1>4, <2>1 DEF top
  <2>2. CASE k # Len(s)
    <3>1. k \in 1..Len(t) /\ t[k] = s[k]
      BY <1>1, <2>2
    <3> QED
      BY <1>4, <3>1
  <2> QED
    BY <2>1, <2>2
<1>5. Delivered(rc, t, reads, fans, calls)
  <2> SUFFICES ASSUME NEW src \in IO, NEW dst \in IO, NEW n \in Nat \ {0}
               PROVE  /\ n > reads[src] => Received(calls, dst, src, n) = 0
                      /\ \A k \in 1..Len(t) : Emitting(t[k], src, n) =>
                           Received(calls, dst, src, n) = Count(rc[src], t[k].at - 1, {dst})
                      /\ n <= reads[src] =>
                           \/ \E k \in 1..Len(t) : Emitting(t[k], src, n)
                           \/ Received(calls, dst, src, n) = Count(rc[src], fans[src][n], {dst})
    BY DEF Delivered
  <2>1. /\ n > reads[src] => Received(calls, dst, src, n) = 0
        /\ \A k \in 1..Len(s) : Emitting(s[k], src, n) =>
             Received(calls, dst, src, n) = Count(rc[src], s[k].at - 1, {dst})
        /\ n <= reads[src] =>
             \/ \E k \in 1..Len(s) : Emitting(s[k], src, n)
             \/ Received(calls, dst, src, n) = Count(rc[src], fans[src][n], {dst})
    BY DEF Delivery, Delivered
  <2>2. \A k \in 1..Len(t) : Emitting(t[k], src, n) =>
          Received(calls, dst, src, n) = Count(rc[src], t[k].at - 1, {dst})
    BY <1>2, <2>1
  <2>3. ASSUME Emitting(top, src, n)
        PROVE  Received(calls, dst, src, n) = Count(rc[src], fans[src][n], {dst})
    <3>1. /\ top.op = "emit" /\ top.io = src /\ top.pkt = n
          /\ Len(s) \in 1..Len(s)
          /\ s[Len(s)] = top
      BY <1>1, <2>3 DEF Emitting, top
    <3>2. top.at = Len(rc[src]) + 1 /\ Len(rc[src]) \in Nat
      BY <3>1
    <3>3. fans[src][n] = Len(rc[src])
      BY <3>1 DEF Delivery, EmissionsCounted, EmissionCounted
    <3>4. Received(calls, dst, src, n) = Count(rc[src], top.at - 1, {dst})
      BY <2>1, <2>3, <3>1
    <3>5. top.at - 1 = Len(rc[src])
      BY <3>2
    <3> QED
      BY <3>3, <3>4, <3>5
  <2> QED
    BY <1>4, <2>1, <2>2, <2>3
<1>6. Delivery(rc, t, reads, fans, calls)
  BY <1>3, <1>5 DEF Delivery
<1> QED
  BY <1>6 DEF t

LEMMA CallTypes ==
  ASSUME NEW calls \in [IO -> Seq(Calls)], NEW dst \in IO, NEW k \in 1..Len(calls[dst])
  PROVE  calls[dst][k].pkt \in Nat /\ calls[dst][k].src \in IO
<1>1. calls[dst] \in Seq(Calls)
  OBVIOUS
<1>2. calls[dst][k] \in Calls
  BY <1>1
<1> QED
  BY ONLY <1>2 DEF Calls

(* An emission begins: nobody has seen the packet, and its number is new.  *)
LEMMA EmissionDelivery ==
  ASSUME NEW rc \in [IO -> Seq(IO)], NEW s \in Seq(Frames), NEW reads \in [IO -> Nat],
         NEW fans \in [IO -> Seq(Nat)], NEW calls, NEW io \in IO,
         Delivery(rc, s, reads, fans, calls)
  PROVE  Delivery(rc, Append(s, EmitFrame(io, reads[io] + 1)),
                  [reads EXCEPT ![io] = @ + 1],
                  [fans EXCEPT ![io] = Append(@, Len(rc[io]))], calls)
<1> DEFINE m == reads[io] + 1
           e == EmitFrame(io, m)
           t == Append(s, e)
           newReads == [reads EXCEPT ![io] = @ + 1]
           newFans == [fans EXCEPT ![io] = Append(@, Len(rc[io]))]
           last == Len(s) + 1
<1>1. /\ m \in Nat \ {0}
      /\ m = reads[io] + 1
      /\ newReads[io] = m
      /\ \A x \in IO : x # io => newReads[x] = reads[x]
      /\ \A x \in IO : reads[x] <= newReads[x]
      /\ \A x \in IO : reads[x] \in Nat
  OBVIOUS
<1>2. /\ e \in Frames /\ e.op = "emit" /\ e.io = io /\ e.pkt = m /\ e.at = 1
  BY CallFrames
<1>3. /\ Len(t) = last
      /\ last \in 1..last
      /\ Len(s) \in Nat
      /\ t[last] = e
      /\ \A k \in 1..Len(s) : t[k] = s[k]
      /\ \A k \in 1..last : k \in 1..Len(s) \/ k = last
      /\ \A k \in 1..Len(s) : s[k] \in Frames /\ k # last /\ k \in 1..last
  BY <1>2, AppendProperties
<1>4. Len(rc[io]) \in Nat
  OBVIOUS
<1>5. FansCounted(rc, reads, fans) /\ EmissionsCounted(rc, s, reads, fans) /\ EmissionsDiffer(s)
  BY DEF Delivery
<1>6. /\ Len(newFans[io]) = m
      /\ newFans[io][m] = Len(rc[io])
      /\ \A n \in 1..reads[io] : newFans[io][n] = fans[io][n]
      /\ \A x \in IO : x # io => newFans[x] = fans[x]
  <2>1. fans[io] \in Seq(Nat) /\ Len(fans[io]) = reads[io]
    BY <1>5 DEF FansCounted
  <2>2. newFans[io] = Append(fans[io], Len(rc[io]))
    OBVIOUS
  <2> HIDE DEF newFans
  <2>3. /\ Len(newFans[io]) = Len(fans[io]) + 1
        /\ \A n \in 1..Len(fans[io]) : newFans[io][n] = fans[io][n]
        /\ newFans[io][Len(fans[io]) + 1] = Len(rc[io])
    BY <1>4, <2>1, <2>2, AppendProperties
  <2>4. \A x \in IO : x # io => newFans[x] = fans[x]
    BY DEF newFans
  <2> QED
    BY <2>1, <2>3, <2>4
<1>7. \A x \in IO : \A n \in 1..reads[x] : n \in 1..newReads[x] /\ newFans[x][n] = fans[x][n]
  BY <1>1, <1>6
<1> HIDE DEF m, e, t, newReads, newFans, last
<1>8. FansCounted(rc, newReads, newFans)
  <2> SUFFICES ASSUME NEW x \in IO
               PROVE  Len(newFans[x]) = newReads[x] /\ \A n \in 1..newReads[x] : newFans[x][n] <= Len(rc[x])
    BY DEF FansCounted
  <2>1. CASE x = io
    <3>1. \A n \in 1..m : n \in 1..reads[io] \/ n = m
      BY <1>1
    <3>2. \A n \in 1..m : newFans[io][n] <= Len(rc[io])
      <4>1. \A n \in 1..reads[io] : fans[io][n] <= Len(rc[io])
        BY <1>5 DEF FansCounted
      <4>2. Len(rc[io]) <= Len(rc[io])
        BY <1>4
      <4> QED
        BY ONLY <1>6, <3>1, <4>1, <4>2
    <3> QED
      BY <1>1, <1>6, <2>1, <3>2
  <2>2. CASE x # io
    BY <1>1, <1>5, <1>6, <2>2 DEF FansCounted
  <2> QED
    BY <2>1, <2>2
<1>9. EmissionsCounted(rc, t, newReads, newFans)
  <2> SUFFICES ASSUME NEW k \in 1..Len(t), t[k].op = "emit"
               PROVE  EmissionCounted(rc, t[k], newReads, newFans)
    BY DEF EmissionsCounted
  <2>1. CASE k \in 1..Len(s)
    <3>1. t[k] = s[k] /\ s[k].io \in IO /\ EmissionCounted(rc, s[k], reads, fans)
      BY <1>3, <1>5, <2>1 DEF EmissionsCounted, Frames
    <3> QED
      BY <1>7, <3>1 DEF EmissionCounted
  <2>2. CASE k = last
    <3>1. m \in 1..m
      BY ONLY <1>1, SelfIsIn
    <3>2. t[k] = e /\ e.io = io /\ e.pkt = m
      BY ONLY <1>2, <1>3, <2>2
    <3>3. newReads[io] = m /\ newFans[io][m] = Len(rc[io])
      BY ONLY <1>1, <1>6
    <3>4. e.at <= Len(rc[io]) + 1
      BY ONLY <1>2, <1>4
    <3> QED
      BY ONLY <3>1, <3>2, <3>3, <3>4 DEF EmissionCounted
  <2> QED
    BY <1>3, <2>1, <2>2
<1>10. \A k \in 1..Len(s) : s[k].op = "emit" => ~(s[k].io = io /\ s[k].pkt = m)
  <2> SUFFICES ASSUME NEW k \in 1..Len(s), s[k].op = "emit", s[k].io = io, s[k].pkt = m
               PROVE  FALSE
    OBVIOUS
  <2>1. m \in 1..reads[io]
    BY <1>5 DEF EmissionsCounted, EmissionCounted
  <2> QED
    BY <1>1, <2>1
<1>11. EmissionsDiffer(t)
  <2> SUFFICES ASSUME NEW j \in 1..Len(t), NEW k \in 1..Len(t),
                      t[j].op = "emit", t[k].op = "emit", t[j].io = t[k].io, t[j].pkt = t[k].pkt
               PROVE  j = k
    BY DEF EmissionsDiffer
  <2>1. /\ j \in 1..Len(s) \/ j = last
        /\ k \in 1..Len(s) \/ k = last
    BY ONLY <1>3, j \in 1..Len(t), k \in 1..Len(t)
  <2>2. CASE j \in 1..Len(s) /\ k \in 1..Len(s)
    BY <1>3, <1>5, <2>2 DEF EmissionsDiffer
  <2>3. CASE j = last /\ k \in 1..Len(s)
    BY <1>2, <1>3, <1>10, <2>3
  <2>4. CASE j \in 1..Len(s) /\ k = last
    BY <1>2, <1>3, <1>10, <2>4
  <2> QED
    BY ONLY <2>1, <2>2, <2>3, <2>4
<1>12. Delivered(rc, t, newReads, newFans, calls)
  <2> SUFFICES ASSUME NEW src \in IO, NEW dst \in IO, NEW n \in Nat \ {0}
               PROVE  /\ n > newReads[src] => Received(calls, dst, src, n) = 0
                      /\ \A k \in 1..Len(t) : Emitting(t[k], src, n) =>
                           Received(calls, dst, src, n) = Count(rc[src], t[k].at - 1, {dst})
                      /\ n <= newReads[src] =>
                           \/ \E k \in 1..Len(t) : Emitting(t[k], src, n)
                           \/ Received(calls, dst, src, n) = Count(rc[src], newFans[src][n], {dst})
    BY DEF Delivered
  <2>1. /\ n > reads[src] => Received(calls, dst, src, n) = 0
        /\ \A k \in 1..Len(s) : Emitting(s[k], src, n) =>
             Received(calls, dst, src, n) = Count(rc[src], s[k].at - 1, {dst})
        /\ n <= reads[src] =>
             \/ \E k \in 1..Len(s) : Emitting(s[k], src, n)
             \/ Received(calls, dst, src, n) = Count(rc[src], fans[src][n], {dst})
    BY DEF Delivery, Delivered
  <2>2. n > newReads[src] => Received(calls, dst, src, n) = 0
    <3>1. newReads[src] \in Nat /\ reads[src] \in Nat /\ reads[src] <= newReads[src]
      BY ONLY <1>1, src \in IO
    <3>2. n > newReads[src] => n > reads[src]
      BY ONLY <3>1, n \in Nat \ {0}
    <3> QED
      BY ONLY <2>1, <3>2
  <2>3. Emitting(e, src, n) <=> (src = io /\ n = m)
    BY <1>2 DEF Emitting
  <2>4. ASSUME src = io, n = m
        PROVE  Received(calls, dst, src, n) = Count(rc[src], e.at - 1, {dst})
    <3>1. Received(calls, dst, src, n) = 0
      BY <1>1, <2>1, <2>4
    <3>2. e.at - 1 = 0
      BY <1>2
    <3>3. Count(rc[src], 0, {dst}) = 0
      BY 0 \in Nat, CountNone
    <3> QED
      BY <3>1, <3>2, <3>3
  <2>5. \A k \in 1..Len(t) : Emitting(t[k], src, n) =>
          Received(calls, dst, src, n) = Count(rc[src], t[k].at - 1, {dst})
    BY <1>3, <2>1, <2>3, <2>4
  <2>6. ASSUME n <= newReads[src]
        PROVE  \/ \E k \in 1..Len(t) : Emitting(t[k], src, n)
               \/ Received(calls, dst, src, n) = Count(rc[src], newFans[src][n], {dst})
    <3>1. CASE src = io /\ n = m
      BY <1>3, <2>3, <3>1
    <3>2. CASE ~(src = io /\ n = m)
      <4>1. n <= reads[src] /\ n \in 1..reads[src]
        BY <1>1, <2>6, <3>2
      <4>2. newFans[src][n] = fans[src][n]
        BY <1>7, <4>1
      <4>3. (\E k \in 1..Len(s) : Emitting(s[k], src, n)) => \E k \in 1..Len(t) : Emitting(t[k], src, n)
        <5>1. ASSUME NEW k \in 1..Len(s), Emitting(s[k], src, n)
              PROVE  \E j \in 1..Len(t) : Emitting(t[j], src, n)
          <6>1. t[k] = s[k] /\ k \in 1..Len(t)
            BY ONLY <1>3
          <6> QED
            BY ONLY <5>1, <6>1
        <5> QED
          BY ONLY <5>1
      <4> QED
        BY <2>1, <4>1, <4>2, <4>3
    <3> QED
      BY <3>1, <3>2
  <2> QED
    BY <2>2, <2>5, <2>6
<1>13. Delivery(rc, t, newReads, newFans, calls)
  BY <1>8, <1>9, <1>11, <1>12 DEF Delivery
<1> QED
  BY <1>13 DEF m, e, t, newReads, newFans

(* An emission calls its next receiver.                                    *)
LEMMA SlotDelivery ==
  ASSUME NEW rc \in [IO -> Seq(IO)], NEW s \in Seq(Frames), NEW reads \in [IO -> Nat],
         NEW fans \in [IO -> Seq(Nat)], NEW calls \in [IO -> Seq(Calls)],
         s # <<>>, s[Len(s)].op = "emit", s[Len(s)].at \in 1..Len(rc[s[Len(s)].io]),
         NEW taken, CallOf(s[Len(s)], taken) \in Calls,
         Delivery(rc, s, reads, fans, calls)
  PROVE  LET called == rc[s[Len(s)].io][s[Len(s)].at]
         IN  Delivery(rc, Advanced(s), reads, fans,
                      [calls EXCEPT ![called] = Append(@, CallOf(s[Len(s)], taken))])
<1> DEFINE top == s[Len(s)]
           called == rc[top.io][top.at]
           call == CallOf(top, taken)
           t == Advanced(s)
           newCalls == [calls EXCEPT ![called] = Append(@, call)]
<1>1. /\ Len(s) \in 1..Len(s)
      /\ top \in Frames /\ top.io \in IO /\ top.pkt \in Nat /\ top.at \in Nat \ {0}
      /\ \A k \in 1..Len(s) : k = Len(s) \/ k \in 1..(Len(s) - 1)
  <2>1. top \in Frames /\ Len(s) \in Nat \ {0}
    BY PoppedProperties
  <2>2. top.io \in IO /\ top.pkt \in Nat /\ top.at \in Nat \ {0}
    BY ONLY <2>1 DEF Frames
  <2>3. Len(s) \in 1..Len(s) /\ \A k \in 1..Len(s) : k = Len(s) \/ k \in 1..(Len(s) - 1)
    BY ONLY <2>1
  <2> QED
    BY ONLY <2>1, <2>2, <2>3
<1>2. /\ Len(t) = Len(s)
      /\ \A k \in 1..(Len(s) - 1) : t[k] = s[k]
      /\ t[Len(s)] = [top EXCEPT !.at = @ + 1]
  BY AdvancedProperties
<1>3. /\ t[Len(s)].op = "emit" /\ t[Len(s)].io = top.io /\ t[Len(s)].pkt = top.pkt
      /\ t[Len(s)].at = top.at + 1
  BY <1>1, <1>2 DEF Frames
<1>4. /\ called \in IO /\ Len(rc[top.io]) \in Nat
      /\ top.at <= Len(rc[top.io])
  <2>1. rc[top.io] \in Seq(IO) /\ top.at \in 1..Len(rc[top.io])
    BY <1>1
  <2> QED
    BY ONLY <2>1, PlaceIn
<1>5. /\ FansCounted(rc, reads, fans) /\ EmissionsCounted(rc, s, reads, fans)
      /\ EmissionsDiffer(s) /\ EmissionCounted(rc, top, reads, fans)
  <2>1. /\ FansCounted(rc, reads, fans) /\ EmissionsCounted(rc, s, reads, fans)
        /\ EmissionsDiffer(s)
    BY DEF Delivery
  <2>2. EmissionCounted(rc, top, reads, fans)
    BY ONLY <1>1, <2>1, s[Len(s)].op = "emit" DEF EmissionsCounted
  <2> QED
    BY ONLY <2>1, <2>2
<1>6. call.src = top.io /\ call.pkt = top.pkt /\ call \in Calls
  BY ONLY CallOf(s[Len(s)], taken) \in Calls DEF CallOf
<1>7. ASSUME NEW src \in IO, NEW dst \in IO, NEW n \in Nat
      PROVE  /\ Received(calls, dst, src, n) \in Nat
             /\ Received(newCalls, dst, src, n)
                  = Received(calls, dst, src, n)
                      + (IF dst = called /\ src = top.io /\ n = top.pkt THEN 1 ELSE 0)
  <2>1. calls[dst] \in Seq(Calls) /\ Len(calls[dst]) \in Nat
    OBVIOUS
  <2>2. Received(calls, dst, src, n) \in Nat
    BY <2>1, CountType DEF Received
  <2>3. CASE dst = called
    <3>1. newCalls[dst] = Append(calls[dst], call)
      BY <1>4, <2>3
    <3>2. call \in CallsOf(src, n) <=> (src = top.io /\ n = top.pkt)
      BY <1>6 DEF CallsOf
    <3> HIDE DEF newCalls, call, called, top
    <3>3. Received(newCalls, dst, src, n)
            = Received(calls, dst, src, n) + (IF call \in CallsOf(src, n) THEN 1 ELSE 0)
      BY <1>6, <2>1, <3>1, CountAppend DEF Received
    <3> QED
      BY <2>2, <2>3, <3>2, <3>3
  <2>4. CASE dst # called
    <3>1. newCalls[dst] = calls[dst]
      BY <1>4, <2>4
    <3> QED
      BY <2>2, <2>4, <3>1 DEF Received
  <2> QED
    BY <2>3, <2>4
<1> HIDE DEF top, called, call, t, newCalls
<1>8. \A k \in 1..Len(s) : t[k].op = s[k].op /\ t[k].io = s[k].io /\ t[k].pkt = s[k].pkt
  BY <1>1, <1>2, <1>3 DEF top
<1>9. EmissionsDiffer(t)
  BY ONLY <1>2, <1>5, <1>8 DEF EmissionsDiffer
<1>10. EmissionsCounted(rc, t, reads, fans)
  <2> SUFFICES ASSUME NEW k \in 1..Len(s), t[k].op = "emit"
               PROVE  EmissionCounted(rc, t[k], reads, fans)
    BY <1>2 DEF EmissionsCounted
  <2>1. CASE k = Len(s)
    <3>1. top.at + 1 <= Len(rc[top.io]) + 1
      BY ONLY <1>1, <1>4, SuccessorsOrdered
    <3> QED
      BY <1>3, <1>5, <2>1, <3>1 DEF EmissionCounted
  <2>2. CASE k \in 1..(Len(s) - 1)
    BY <1>2, <1>5, <2>2 DEF EmissionsCounted
  <2> QED
    BY <1>1, <2>1, <2>2
<1>11. \A src, n : \A k \in 1..Len(s) : Emitting(t[k], src, n) <=> Emitting(s[k], src, n)
  BY <1>8 DEF Emitting
<1>12. Delivered(rc, t, reads, fans, newCalls)
  <2> SUFFICES ASSUME NEW src \in IO, NEW dst \in IO, NEW n \in Nat \ {0}
               PROVE  /\ n > reads[src] => Received(newCalls, dst, src, n) = 0
                      /\ \A k \in 1..Len(t) : Emitting(t[k], src, n) =>
                           Received(newCalls, dst, src, n) = Count(rc[src], t[k].at - 1, {dst})
                      /\ n <= reads[src] =>
                           \/ \E k \in 1..Len(t) : Emitting(t[k], src, n)
                           \/ Received(newCalls, dst, src, n) = Count(rc[src], fans[src][n], {dst})
    BY DEF Delivered
  <2>1. /\ n > reads[src] => Received(calls, dst, src, n) = 0
        /\ \A k \in 1..Len(s) : Emitting(s[k], src, n) =>
             Received(calls, dst, src, n) = Count(rc[src], s[k].at - 1, {dst})
        /\ n <= reads[src] =>
             \/ \E k \in 1..Len(s) : Emitting(s[k], src, n)
             \/ Received(calls, dst, src, n) = Count(rc[src], fans[src][n], {dst})
    BY DEF Delivery, Delivered
  <2>2. CASE src = top.io /\ n = top.pkt
    <3>1. n \in 1..reads[src]
      BY <1>5, <2>2 DEF EmissionCounted
    <3>2. Emitting(s[Len(s)], src, n) /\ Emitting(t[Len(s)], src, n)
      BY <1>3, <2>2, <1>11, <1>1 DEF Emitting, top
    <3>3. \A k \in 1..Len(s) : Emitting(t[k], src, n) => k = Len(s)
      <4> SUFFICES ASSUME NEW k \in 1..Len(s), Emitting(t[k], src, n)
                   PROVE  k = Len(s)
        OBVIOUS
      <4>1. Emitting(s[k], src, n)
        BY <1>11
      <4> QED
        BY ONLY <1>1, <1>5, <3>2, <4>1 DEF EmissionsDiffer, Emitting
    <3>4. Received(calls, dst, src, n) = Count(rc[src], top.at - 1, {dst})
      BY <1>1, <2>1, <3>2 DEF top
    <3>5. Received(newCalls, dst, src, n) = Count(rc[src], top.at, {dst})
      <4> DEFINE a == top.at - 1
      <4>1. a \in Nat /\ a + 1 = top.at
        <5>1. top.at \in Nat \ {0}
          BY <1>1
        <5> QED
          BY ONLY <5>1, Predecessor
      <4> HIDE DEF a
      <4>2. Count(rc[src], a + 1, {dst}) = Count(rc[src], a, {dst}) + (IF rc[src][a + 1] \in {dst} THEN 1 ELSE 0)
        BY ONLY <4>1, CountNext
      <4>3. rc[src][a + 1] \in {dst} <=> dst = called
        BY <2>2, <4>1 DEF called
      <4>4. Received(newCalls, dst, src, n)
              = Received(calls, dst, src, n) + (IF dst = called THEN 1 ELSE 0)
        BY <1>7, <2>2
      <4>5. Received(calls, dst, src, n) = Count(rc[src], a, {dst})
        BY <3>4 DEF a
      <4> QED
        BY <4>1, <4>2, <4>3, <4>4, <4>5
    <3>6. t[Len(s)].at - 1 = top.at
      BY <1>1, <1>3
    <3>7. \A k \in 1..Len(t) : Emitting(t[k], src, n) =>
            Received(newCalls, dst, src, n) = Count(rc[src], t[k].at - 1, {dst})
      BY <1>2, <3>3, <3>5, <3>6
    <3>8. ~(n > reads[src])
      BY <3>1
    <3>9. \E k \in 1..Len(t) : Emitting(t[k], src, n)
      BY <1>1, <1>2, <3>2
    <3> QED
      BY <3>7, <3>8, <3>9
  <2>3. CASE ~(src = top.io /\ n = top.pkt)
    <3>1. Received(newCalls, dst, src, n) = Received(calls, dst, src, n)
      <4>1. n \in Nat
        OBVIOUS
      <4>2. /\ Received(calls, dst, src, n) \in Nat
            /\ Received(newCalls, dst, src, n)
                 = Received(calls, dst, src, n)
                     + (IF dst = called /\ src = top.io /\ n = top.pkt THEN 1 ELSE 0)
        BY <1>7, <4>1
      <4> QED
        BY ONLY <2>3, <4>2
    <3>2. \A k \in 1..Len(s) : Emitting(t[k], src, n) => t[k] = s[k]
      <4> SUFFICES ASSUME NEW k \in 1..Len(s), Emitting(t[k], src, n)
                   PROVE  t[k] = s[k]
        OBVIOUS
      <4>1. Emitting(s[k], src, n)
        BY <1>11
      <4>2. k # Len(s)
        BY ONLY <2>3, <4>1 DEF Emitting, top
      <4> QED
        BY <1>1, <1>2, <4>2
    <3>3. \A k \in 1..Len(t) : Emitting(t[k], src, n) =>
            Received(newCalls, dst, src, n) = Count(rc[src], t[k].at - 1, {dst})
      BY <1>2, <1>11, <2>1, <3>1, <3>2
    <3>4. (\E k \in 1..Len(s) : Emitting(s[k], src, n)) => \E k \in 1..Len(t) : Emitting(t[k], src, n)
      BY <1>2, <1>11
    <3> QED
      BY <2>1, <3>1, <3>3, <3>4
  <2> QED
    BY <2>2, <2>3
<1>13. Delivery(rc, t, reads, fans, newCalls)
  BY <1>5, <1>9, <1>10, <1>12 DEF Delivery
<1> QED
  BY <1>13 DEF top, called, call, t, newCalls

(* A connection that is added while nothing runs is none of the earlier    *)
(* packets' business.                                                      *)
LEMMA ConnectDelivery ==
  ASSUME NEW rc \in [IO -> Seq(IO)], NEW new \in [IO -> Seq(IO)], NEW reads \in [IO -> Nat],
         NEW fans \in [IO -> Seq(Nat)], NEW calls,
         \A io \in IO : new[io] = rc[io] \/ \E d \in IO : new[io] = Append(rc[io], d),
         NEW s, s = <<>>, Delivery(rc, s, reads, fans, calls)
  PROVE  Delivery(new, s, reads, fans, calls)
<1>0. \A k \in 1..Len(s) : FALSE
  OBVIOUS
<1>1. ASSUME NEW io \in IO
      PROVE  /\ Len(rc[io]) \in Nat /\ Len(new[io]) \in Nat /\ Len(rc[io]) <= Len(new[io])
             /\ \A k \in 1..Len(rc[io]) : new[io][k] = rc[io][k]
  <2>1. CASE new[io] = rc[io]
    BY <2>1
  <2>2. CASE \E d \in IO : new[io] = Append(rc[io], d)
    <3>1. PICK d \in IO : new[io] = Append(rc[io], d)
      BY <2>2
    <3>2. rc[io] \in Seq(IO) /\ Len(rc[io]) \in Nat
      OBVIOUS
    <3>3. /\ Len(new[io]) = Len(rc[io]) + 1
          /\ \A k \in 1..Len(rc[io]) : new[io][k] = rc[io][k]
      BY ONLY <3>1, <3>2, AppendProperties
    <3> QED
      BY ONLY <3>2, <3>3
  <2> QED
    BY <2>1, <2>2
<1>2. FansCounted(rc, reads, fans)
  BY DEF Delivery
<1>3. ASSUME NEW io \in IO, NEW n \in 1..reads[io]
      PROVE  fans[io][n] \in Nat /\ fans[io][n] <= Len(rc[io])
  BY <1>2, <1>3 DEF FansCounted
<1>4. FansCounted(new, reads, fans)
  BY <1>1, <1>2, <1>3 DEF FansCounted
<1>5. EmissionsCounted(new, s, reads, fans) /\ EmissionsDiffer(s)
  BY <1>0 DEF EmissionsCounted, EmissionsDiffer
<1>6. Delivered(new, s, reads, fans, calls)
  <2> SUFFICES ASSUME NEW src \in IO, NEW dst \in IO, NEW n \in Nat \ {0}
               PROVE  /\ n > reads[src] => Received(calls, dst, src, n) = 0
                      /\ n <= reads[src] =>
                           Received(calls, dst, src, n) = Count(new[src], fans[src][n], {dst})
    BY <1>0 DEF Delivered
  <2>1. /\ n > reads[src] => Received(calls, dst, src, n) = 0
        /\ n <= reads[src] =>
             Received(calls, dst, src, n) = Count(rc[src], fans[src][n], {dst})
    <3>1. Delivered(rc, s, reads, fans, calls)
      BY DEF Delivery
    <3>2. /\ n > reads[src] => Received(calls, dst, src, n) = 0
          /\ n <= reads[src] =>
               \/ \E k \in 1..Len(s) : Emitting(s[k], src, n)
               \/ Received(calls, dst, src, n) = Count(rc[src], fans[src][n], {dst})
      BY <3>1 DEF Delivered
    <3> QED
      BY ONLY <1>0, <3>2
  <2>3. ASSUME n <= reads[src]
        PROVE  Count(rc[src], fans[src][n], {dst}) = Count(new[src], fans[src][n], {dst})
    <3> DEFINE m == fans[src][n]
    <3>1. n \in 1..reads[src]
      BY <2>3
    <3>2. m \in Nat /\ m <= Len(rc[src])
      BY <1>3, <3>1
    <3> HIDE DEF m
    <3>3. \A k \in 1..m : rc[src][k] \in {dst} <=> new[src][k] \in {dst}
      <4>1. /\ Len(rc[src]) \in Nat
            /\ \A k \in 1..Len(rc[src]) : new[src][k] = rc[src][k]
        BY <1>1
      <4>2. \A k \in 1..m : k \in 1..Len(rc[src])
        BY ONLY <3>2, <4>1
      <4> QED
        BY ONLY <4>1, <4>2
    <3>4. Count(rc[src], m, {dst}) = Count(new[src], m, {dst})
      <4>1. {k \in 1..m : rc[src][k] \in {dst}} = {k \in 1..m : new[src][k] \in {dst}}
        BY ONLY <3>3
      <4> QED
        BY ONLY <4>1 DEF Count
    <3> QED
      BY <3>4 DEF m
  <2> QED
    BY <2>1, <2>3
<1> QED
  BY <1>4, <1>5, <1>6 DEF Delivery

LEMMA EmissionDelivers ==
  ASSUME Typed, NEW frames \in Seq(Frames), NEW calls, NEW io \in IO,
         Delivery(receivers, frames, Reads, fan, calls), Emission(io, frames)
  PROVE  Delivery(receivers, stack', Reads', fan', calls)
<1>1. /\ receivers \in [IO -> Seq(IO)] /\ Reads \in [IO -> Nat] /\ fan \in [IO -> Seq(Nat)]
  BY DEF Typed
<1>2. /\ Reads' = [Reads EXCEPT ![io] = @ + 1]
      /\ fan' = [fan EXCEPT ![io] = Append(@, Len(receivers[io]))]
      /\ stack' = Append(frames, EmitFrame(io, Reads[io] + 1))
  BY DEF Emission
<1>3. Delivery(receivers, Append(frames, EmitFrame(io, Reads[io] + 1)),
               [Reads EXCEPT ![io] = @ + 1],
               [fan EXCEPT ![io] = Append(@, Len(receivers[io]))], calls)
  BY <1>1, EmissionDelivery
<1> QED
  BY ONLY <1>2, <1>3

LEMMA CallingDelivers ==
  ASSUME Typed, Delivery(receivers, stack, Reads, fan, seen), NEW taken \in BOOLEAN, Calling(taken)
  PROVE  /\ Advanced(stack) \in Seq(Frames)
         /\ Delivery(receivers, Advanced(stack), Reads, fan, seen')
<1>1. /\ stack # <<>> /\ Top = stack[Len(stack)] /\ Top.op = "emit"
      /\ Top.at \in 1..Len(receivers[Top.io])
      /\ CallOf(Top, taken) \in Calls
  BY CallingTypes DEF Calling
<1>2. /\ receivers \in [IO -> Seq(IO)] /\ Reads \in [IO -> Nat] /\ fan \in [IO -> Seq(Nat)]
      /\ seen \in [IO -> Seq(Calls)] /\ stack \in Seq(Frames)
  BY DEF Typed
<1>3. seen' = [seen EXCEPT ![receivers[Top.io][Top.at]] = Append(@, CallOf(Top, taken))]
  <2>1. NextReceiver = receivers[Top.io][Top.at]
    BY ONLY DEF NextReceiver
  <2>2. seen' = [seen EXCEPT ![NextReceiver] = Append(@, CallOf(Top, taken))]
    BY ONLY Calling(taken) DEF Calling
  <2> QED
    BY ONLY <2>1, <2>2
<1>4. Delivery(receivers, Advanced(stack), Reads, fan,
               [seen EXCEPT ![receivers[Top.io][Top.at]] = Append(@, CallOf(Top, taken))])
  BY <1>1, <1>2, SlotDelivery
<1>5. Advanced(stack) \in Seq(Frames)
  BY <1>1, <1>2, AdvancedProperties
<1> QED
  BY ONLY <1>3, <1>4, <1>5

LEMMA DeliveryStep ==
  ASSUME Typed, Typed', Delivery(receivers, stack, Reads, fan, seen),
         Still \/ Emits \/ Leaves \/ Counts \/ Drops \/ Enters
  PROVE  Delivery(receivers', stack', Reads', fan', seen')
<1>1. CASE Still
  <2>1. UNCHANGED <<stack, fan, seen>> /\ Reads' = Reads
    BY <1>1 DEF Still
  <2>2. CASE stack = <<>>
    <3>1. \A io \in IO : receivers'[io] = receivers[io] \/ \E d \in IO : receivers'[io] = Append(receivers[io], d)
      BY <1>1 DEF Still
    <3>2. Delivery(receivers', stack, Reads, fan, seen)
      BY <2>2, <3>1, ConnectDelivery DEF Typed
    <3> QED
      BY <2>1, <3>2
  <2>3. CASE stack # <<>>
    <3>1. \A io \in IO : receivers'[io] = receivers[io]
      BY <1>1, <2>3 DEF Still
    <3>2. receivers' = receivers
      BY <3>1 DEF Typed
    <3> QED
      BY <2>1, <3>2
  <2> QED
    BY <2>2, <2>3
<1>2. CASE Emits
  <2>1. PICK io \in IO, frames \in Seq(Frames) : Opening(io, frames) /\ Emission(io, frames)
    BY <1>2 DEF Emits
  <2>2. ReadFrame(io) \in Frames /\ ReadFrame(io).op # "emit"
    BY CallFrames, 0 \in Nat
  <2>3. Delivery(receivers, frames, Reads, fan, seen)
    <3>1. CASE frames = stack
      BY <3>1
    <3>2. CASE frames = Append(stack, ReadFrame(io))
      BY <2>2, <3>2, PushDelivery DEF Typed
    <3>3. CASE stack = <<>> /\ frames = <<ReadFrame(io)>>
      <4>1. <<ReadFrame(io)>> = Append(stack, ReadFrame(io))
        BY <3>3
      <4> QED
        BY <3>2, <3>3, <4>1
    <3> QED
      BY <2>1, <3>1, <3>2, <3>3 DEF Opening
  <2>4. Delivery(receivers, stack', Reads', fan', seen)
    BY <2>1, <2>3, EmissionDelivers
  <2> QED
    BY <1>2, <2>4 DEF Emits
<1>3. CASE Leaves \/ Counts
  <2>1. /\ stack # <<>> /\ stack' = Popped(stack) /\ Reads' = Reads
        /\ UNCHANGED <<receivers, fan, seen>>
    BY <1>3 DEF Leaves, Counts
  <2>2. Top = stack[Len(stack)] /\ Top \in Frames /\ Len(stack) \in 1..Len(stack)
    BY <2>1, PoppedProperties DEF Typed, Top
  <2>3. \/ Top.op # "emit"
        \/ Top.op = "emit" /\ Top.at > Len(receivers[Top.io])
    BY <1>3, CallFrames, 0 \in Nat, <2>2 DEF Leaves, Counts, Frames
  <2>4. Top.op = "emit" => Top.at = Len(receivers[Top.io]) + 1 /\ Len(receivers[Top.io]) \in Nat
    <3> SUFFICES ASSUME Top.op = "emit"
                 PROVE  Top.at = Len(receivers[Top.io]) + 1 /\ Len(receivers[Top.io]) \in Nat
      OBVIOUS
    <3>1. Top.at <= Len(receivers[Top.io]) + 1
      BY <2>2 DEF Delivery, EmissionsCounted, EmissionCounted
    <3>2. Top.at \in Nat /\ Len(receivers[Top.io]) \in Nat
      <4>1. Top.at \in Nat /\ Top.io \in IO
        BY ONLY <2>2 DEF Frames
      <4>2. receivers[Top.io] \in Seq(IO)
        BY <4>1 DEF Typed
      <4> QED
        BY ONLY <4>1, <4>2
    <3> QED
      BY ONLY <2>3, <3>1, <3>2, Top.op = "emit"
  <2>5. Delivery(receivers, Popped(stack), Reads, fan, seen)
    BY <2>1, <2>2, <2>4, ReturnDelivery DEF Typed
  <2> QED
    BY <2>1, <2>5
<1>4. CASE Drops
  <2>1. Calling(FALSE) /\ stack' = Advanced(stack) /\ Reads' = Reads /\ UNCHANGED <<fan, receivers>>
    BY <1>4 DEF Drops, Calling
  <2>2. Delivery(receivers, Advanced(stack), Reads, fan, seen')
    BY <2>1, CallingDelivers
  <2> QED
    BY ONLY <2>1, <2>2
<1>5. CASE Enters
  <2> DEFINE calls == Append(Advanced(stack), WriteFrame(NextReceiver))
  <2>1. Calling(TRUE) /\ NextReceiver \in IO /\ UNCHANGED receivers
    BY <1>5 DEF Enters, Calling
  <2>2. WriteFrame(NextReceiver) \in Frames /\ WriteFrame(NextReceiver).op # "emit"
    BY <2>1, CallFrames, 0 \in Nat
  <2>3. Advanced(stack) \in Seq(Frames) /\ Delivery(receivers, Advanced(stack), Reads, fan, seen')
    BY <2>1, CallingDelivers
  <2>4. calls \in Seq(Frames) /\ Delivery(receivers, calls, Reads, fan, seen')
    BY <2>2, <2>3, PushDelivery
  <2> HIDE DEF calls
  <2>5. CASE Emission(NextReceiver, calls)
    <3>1. Delivery(receivers, stack', Reads', fan', seen')
      BY <2>1, <2>4, <2>5, EmissionDelivers
    <3> QED
      BY <2>1, <3>1
  <2>6. CASE stack' = calls /\ Reads' = Reads /\ UNCHANGED fan
    BY <2>1, <2>4, <2>6
  <2> QED
    BY <1>5, <2>5, <2>6 DEF Enters, calls
<1> QED
  BY <1>1, <1>2, <1>3, <1>4, <1>5

-----------------------------------------------------------------------------
(* The order.  An IO that does not echo emits from its read handler only,  *)
(* and that handler runs at most once at a time, so the packet that is     *)
(* being delivered is the last one that was read.                          *)
Echoing(io) == Contract[io].echoes

SeenPast(reads, calls) ==
  \A dst \in IO : \A k \in 1..Len(calls[dst]) :
    ~Echoing(calls[dst][k].src) => calls[dst][k].pkt <= reads[calls[dst][k].src]

Sorted(calls) ==
  \A dst \in IO : \A j, k \in 1..Len(calls[dst]) :
    (j < k /\ calls[dst][j].src = calls[dst][k].src /\ ~Echoing(calls[dst][j].src))
      => calls[dst][j].pkt <= calls[dst][k].pkt

Latest(s, reads, k) ==
  /\ s[k].pkt = reads[s[k].io]
  /\ k > 1
  /\ s[k - 1] = ReadFrame(s[k].io)

EmitsLatest(s, reads) ==
  \A k \in 1..Len(s) : (s[k].op = "emit" /\ ~Echoing(s[k].io)) => Latest(s, reads, k)

ReadersDiffer(s) ==
  \A j, k \in 1..Len(s) : (s[j].op = "read" /\ s[k] = s[j]) => j = k

Order(s, reads, calls) ==
  /\ SeenPast(reads, calls)
  /\ Sorted(calls)
  /\ EmitsLatest(s, reads)
  /\ ReadersDiffer(s)

(* A stack that is t up to the length of t keeps its order if it ends      *)
(* there.                                                                  *)
LEMMA PrefixOrder ==
  ASSUME NEW s, NEW t, NEW reads, NEW calls, Order(s, reads, calls),
         Len(t) \in Nat, Len(s) \in Nat, Len(t) <= Len(s), \A k \in 1..Len(t) : t[k] = s[k]
  PROVE  Order(t, reads, calls)
<1>1. \A k \in 1..Len(t) : k \in 1..Len(s) /\ t[k] = s[k] /\ (k > 1 => k - 1 \in 1..Len(t))
  OBVIOUS
<1>2. EmitsLatest(s, reads) /\ ReadersDiffer(s)
  BY DEF Order
<1>3. EmitsLatest(t, reads)
  <2> SUFFICES ASSUME NEW k \in 1..Len(t), t[k].op = "emit", ~Echoing(t[k].io)
               PROVE  Latest(t, reads, k)
    BY DEF EmitsLatest
  <2>1. k \in 1..Len(s) /\ t[k] = s[k] /\ Latest(s, reads, k)
    BY <1>1, <1>2 DEF EmitsLatest
  <2> QED
    BY <1>1, <2>1 DEF Latest
<1>4. ReadersDiffer(t)
  BY ONLY <1>1, <1>2 DEF ReadersDiffer
<1> QED
  BY <1>3, <1>4 DEF Order

(* A call that is no emission, nor a read handler that runs already.       *)
LEMMA PushOrder ==
  ASSUME NEW s \in Seq(Frames), NEW reads, NEW calls, Order(s, reads, calls),
         NEW f \in Frames, f.op # "emit",
         f.op = "read" => \A k \in 1..Len(s) : s[k] # f
  PROVE  Append(s, f) \in Seq(Frames) /\ Order(Append(s, f), reads, calls)
<1> DEFINE t == Append(s, f)
           last == Len(s) + 1
<1>1. /\ t \in Seq(Frames)
      /\ Len(t) = last
      /\ Len(s) \in Nat
      /\ \A k \in 1..Len(s) : t[k] = s[k]
      /\ t[last] = f
      /\ \A k \in 1..last : k \in 1..Len(s) \/ k = last
      /\ \A k \in 1..Len(s) : k > 1 => k - 1 \in 1..Len(s)
  BY AppendProperties
<1>2. EmitsLatest(s, reads) /\ ReadersDiffer(s)
  BY DEF Order
<1> HIDE DEF t, last
<1>3. EmitsLatest(t, reads)
  <2> SUFFICES ASSUME NEW k \in 1..Len(t), t[k].op = "emit", ~Echoing(t[k].io)
               PROVE  Latest(t, reads, k)
    BY DEF EmitsLatest
  <2>1. k \in 1..Len(s)
    BY <1>1
  <2>2. t[k] = s[k] /\ Latest(s, reads, k)
    BY <1>1, <1>2, <2>1 DEF EmitsLatest
  <2> QED
    BY <1>1, <2>1, <2>2 DEF Latest
<1>4. ReadersDiffer(t)
  BY <1>1, <1>2 DEF ReadersDiffer
<1>5. Order(t, reads, calls)
  BY <1>3, <1>4 DEF Order
<1> QED
  BY <1>1, <1>5 DEF t

LEMMA EmissionOrder ==
  ASSUME NEW s \in Seq(Frames), NEW reads \in [IO -> Nat], NEW calls \in [IO -> Seq(Calls)],
         Order(s, reads, calls), NEW io \in IO,
         Echoing(io) \/ (s # <<>> /\ s[Len(s)] = ReadFrame(io))
  PROVE  Order(Append(s, EmitFrame(io, reads[io] + 1)), [reads EXCEPT ![io] = @ + 1], calls)
<1> DEFINE m == reads[io] + 1
           e == EmitFrame(io, m)
           t == Append(s, e)
           new == [reads EXCEPT ![io] = @ + 1]
           last == Len(s) + 1
<1>1. /\ m \in Nat
      /\ new[io] = m
      /\ \A x \in IO : x # io => new[x] = reads[x]
      /\ \A x \in IO : reads[x] \in Nat /\ new[x] \in Nat /\ reads[x] <= new[x]
  OBVIOUS
<1>2. /\ e \in Frames /\ e.op = "emit" /\ e.io = io /\ e.pkt = m
      /\ ReadFrame(io).op = "read"
  BY CallFrames
<1>3. /\ Len(t) = last
      /\ Len(s) \in Nat
      /\ t[last] = e
      /\ \A k \in 1..Len(s) : t[k] = s[k]
      /\ \A k \in 1..last : k \in 1..Len(s) \/ k = last
      /\ \A k \in 1..Len(s) : s[k] \in Frames /\ (k > 1 => k - 1 \in 1..Len(s))
      /\ last - 1 = Len(s)
      /\ s # <<>> => (last > 1 /\ Len(s) \in 1..Len(s))
  BY <1>2, AppendProperties
<1>4. SeenPast(reads, calls) /\ Sorted(calls) /\ EmitsLatest(s, reads) /\ ReadersDiffer(s)
  BY DEF Order
<1> HIDE DEF m, e, t, new, last
<1>5. SeenPast(new, calls)
  <2> SUFFICES ASSUME NEW dst \in IO, NEW k \in 1..Len(calls[dst]), ~Echoing(calls[dst][k].src)
               PROVE  calls[dst][k].pkt <= new[calls[dst][k].src]
    BY DEF SeenPast
  <2>1. calls[dst][k].pkt \in Nat /\ calls[dst][k].src \in IO
    BY CallTypes
  <2>2. calls[dst][k].pkt <= reads[calls[dst][k].src]
    BY <1>4 DEF SeenPast
  <2>3. /\ reads[calls[dst][k].src] <= new[calls[dst][k].src]
        /\ reads[calls[dst][k].src] \in Nat /\ new[calls[dst][k].src] \in Nat
    BY <1>1, <2>1
  <2> QED
    BY ONLY <2>1, <2>2, <2>3, AtMost
<1>6. EmitsLatest(t, new)
  <2> SUFFICES ASSUME NEW k \in 1..Len(t), t[k].op = "emit", ~Echoing(t[k].io)
               PROVE  Latest(t, new, k)
    BY DEF EmitsLatest
  <2>1. CASE k \in 1..Len(s)
    <3>1. t[k] = s[k] /\ Latest(s, reads, k) /\ s[k].io \in IO
      BY <1>3, <1>4, <2>1 DEF EmitsLatest, Frames
    <3>2. t[k - 1] = s[k - 1] /\ k - 1 \in 1..Len(s)
      BY <1>3, <2>1, <3>1 DEF Latest
    <3>3. s[k].io # io
      <4> SUFFICES ASSUME s[k].io = io PROVE FALSE
        OBVIOUS
      <4>1. s[Len(s)] = ReadFrame(io) /\ Len(s) \in 1..Len(s)
        BY <1>3, <3>1
      <4>2. s[k - 1] = ReadFrame(io)
        BY <3>1 DEF Latest
      <4>3. k - 1 = Len(s)
        BY ONLY <1>2, <1>4, <3>2, <4>1, <4>2 DEF ReadersDiffer
      <4> QED
        BY <1>3, <2>1, <4>3
    <3> QED
      BY <1>1, <3>1, <3>2, <3>3 DEF Latest
  <2>2. CASE k = last
    <3>1. s # <<>> /\ s[Len(s)] = ReadFrame(io)
      BY <1>2, <1>3, <2>2
    <3> QED
      BY <1>1, <1>2, <1>3, <2>2, <3>1 DEF Latest
  <2> QED
    BY <1>3, <2>1, <2>2
<1>7. ReadersDiffer(t)
  BY <1>2, <1>3, <1>4 DEF ReadersDiffer
<1>8. Order(t, new, calls)
  BY <1>4, <1>5, <1>6, <1>7 DEF Order
<1> QED
  BY <1>8 DEF m, e, t, new

(* The next receiver sees the latest packet, so nothing later before it.   *)
LEMMA SlotOrder ==
  ASSUME NEW s \in Seq(Frames), NEW reads \in [IO -> Nat], NEW calls \in [IO -> Seq(Calls)],
         s # <<>>, s[Len(s)].op = "emit", NEW called \in IO, NEW call \in Calls,
         call.src = s[Len(s)].io, call.pkt = s[Len(s)].pkt,
         Order(s, reads, calls)
  PROVE  Order(Advanced(s), reads, [calls EXCEPT ![called] = Append(@, call)])
<1> DEFINE t == Advanced(s)
           top == s[Len(s)]
           new == [calls EXCEPT ![called] = Append(@, call)]
           last == Len(calls[called]) + 1
<1>1. /\ Len(s) \in Nat \ {0} /\ top \in Frames
      /\ Len(t) = Len(s)
      /\ \A k \in 1..(Len(s) - 1) : t[k] = s[k]
      /\ t[Len(s)] = [top EXCEPT !.at = @ + 1]
  BY PoppedProperties, AdvancedProperties
<1>2. t[Len(s)].op = "emit" /\ t[Len(s)].io = top.io /\ t[Len(s)].pkt = top.pkt
  BY <1>1 DEF Frames
<1>3. /\ SeenPast(reads, calls) /\ Sorted(calls) /\ EmitsLatest(s, reads) /\ ReadersDiffer(s)
      /\ top.op = "emit" /\ call.src = top.io /\ call.pkt = top.pkt
  BY DEF Order
<1>4. /\ Len(new[called]) = last
      /\ new[called][last] = call
      /\ last - 1 = Len(calls[called]) /\ Len(calls[called]) \in Nat
      /\ \A k \in 1..Len(calls[called]) : new[called][k] = calls[called][k]
      /\ \A x \in IO : x # called => new[x] = calls[x]
  <2>1. calls[called] \in Seq(Calls) /\ new[called] = Append(calls[called], call)
    OBVIOUS
  <2>2. \A x \in IO : x # called => new[x] = calls[x]
    OBVIOUS
  <2> HIDE DEF new
  <2> QED
    BY <2>1, <2>2, AppendProperties
<1>5. \A x \in IO : \A k \in 1..Len(calls[x]) : calls[x][k].pkt \in Nat /\ calls[x][k].src \in IO
  BY CallTypes
<1>6. call.pkt \in Nat /\ reads[call.src] \in Nat
  BY DEF Calls
<1> HIDE DEF t, top, new, last
<1>7. /\ \A k \in 1..Len(s) : t[k].op = s[k].op /\ t[k].io = s[k].io /\ t[k].pkt = s[k].pkt
      /\ \A k \in 1..Len(s) : k = Len(s) \/ k \in 1..(Len(s) - 1)
      /\ \A k \in 1..Len(s) : k > 1 => k - 1 \in 1..(Len(s) - 1)
      /\ Len(s) \in 1..Len(s)
  <2>1. \A k \in 1..Len(s) : k = Len(s) \/ k \in 1..(Len(s) - 1)
    BY ONLY <1>1
  <2>2. \A k \in 1..Len(s) : k > 1 => k - 1 \in 1..(Len(s) - 1)
    BY ONLY <1>1
  <2>3. Len(s) \in 1..Len(s)
    BY ONLY <1>1
  <2>4. \A k \in 1..Len(s) : t[k].op = s[k].op /\ t[k].io = s[k].io /\ t[k].pkt = s[k].pkt
    BY <1>1, <1>2, <2>1, s[Len(s)] = top DEF top
  <2> QED
    BY <2>1, <2>2, <2>3, <2>4
<1>8. EmitsLatest(t, reads)
  <2> SUFFICES ASSUME NEW k \in 1..Len(s), t[k].op = "emit", ~Echoing(t[k].io)
               PROVE  Latest(t, reads, k)
    BY <1>1 DEF EmitsLatest
  <2>1. Latest(s, reads, k)
    BY <1>3, <1>7 DEF EmitsLatest
  <2>2. k > 1 /\ t[k - 1] = s[k - 1]
    BY <1>1, <1>7, <2>1 DEF Latest
  <2> QED
    BY <1>7, <2>1, <2>2 DEF Latest
<1>9. ReadersDiffer(t)
  <2> SUFFICES ASSUME NEW j \in 1..Len(s), NEW k \in 1..Len(s), t[j].op = "read", t[k] = t[j]
               PROVE  j = k
    BY <1>1 DEF ReadersDiffer
  <2>1. j # Len(s) /\ k # Len(s)
    BY <1>2
  <2>2. t[j] = s[j] /\ t[k] = s[k]
    BY <1>1, <1>7, <2>1
  <2> QED
    BY <1>3, <2>2 DEF ReadersDiffer
<1>10. ~Echoing(call.src) => call.pkt = reads[call.src]
  <2>1. s[Len(s)] = top
    BY DEF top
  <2> QED
    BY <1>3, <1>7, <2>1 DEF EmitsLatest, Latest
<1>11. SeenPast(reads, new)
  <2> SUFFICES ASSUME NEW dst \in IO, NEW k \in 1..Len(new[dst]), ~Echoing(new[dst][k].src)
               PROVE  new[dst][k].pkt <= reads[new[dst][k].src]
    BY DEF SeenPast
  <2>1. CASE dst # called
    BY <1>3, <1>4, <2>1 DEF SeenPast
  <2>2. CASE dst = called /\ k \in 1..Len(calls[called])
    BY <1>3, <1>4, <2>2 DEF SeenPast
  <2>3. CASE dst = called /\ k = last
    BY <1>4, <1>6, <1>10, <2>3
  <2> QED
    BY <1>4, <2>1, <2>2, <2>3
<1>12. Sorted(new)
  <2> SUFFICES ASSUME NEW dst \in IO, NEW j \in 1..Len(new[dst]), NEW k \in 1..Len(new[dst]),
                      j < k, new[dst][j].src = new[dst][k].src, ~Echoing(new[dst][j].src)
               PROVE  new[dst][j].pkt <= new[dst][k].pkt
    BY DEF Sorted
  <2>1. CASE dst # called
    BY <1>3, <1>4, <2>1 DEF Sorted
  <2>2. CASE dst = called /\ k \in 1..Len(calls[called])
    <3>1. j \in 1..Len(calls[called])
      BY <1>4, <2>2
    <3> QED
      BY <1>3, <1>4, <2>2, <3>1 DEF Sorted
  <2>3. CASE dst = called /\ k = last
    <3>1. j \in 1..Len(calls[called])
      BY <1>4, <2>3
    <3>2. new[dst][j] = calls[called][j] /\ new[dst][k] = call
      BY <1>4, <2>3, <3>1
    <3>3. calls[called][j].pkt <= reads[calls[called][j].src]
      BY <1>3, <3>1, <3>2 DEF SeenPast
    <3> QED
      BY <1>10, <3>2, <3>3
  <2> QED
    BY <1>4, <2>1, <2>2, <2>3
<1>13. Order(t, reads, new)
  BY <1>8, <1>9, <1>11, <1>12 DEF Order
<1> QED
  BY <1>13 DEF t, new

LEMMA OpeningOrder ==
  ASSUME Typed, Order(stack, Reads, seen), NEW io \in IO, NEW frames \in Seq(Frames), Opening(io, frames)
  PROVE  Order(frames, Reads, seen) /\ frames # <<>> /\ frames[Len(frames)] = ReadFrame(io)
<1>1. ReadFrame(io) \in Frames /\ ReadFrame(io).op = "read"
  BY CallFrames, 0 \in Nat
<1>2. stack \in Seq(Frames)
  BY DEF Typed
<1>3. CASE stack = <<>> /\ frames = <<ReadFrame(io)>>
  <2>1. frames = Append(stack, ReadFrame(io))
    BY <1>3
  <2>2. \A k \in 1..Len(stack) : stack[k] # ReadFrame(io)
    BY <1>3
  <2>3. Order(frames, Reads, seen)
    BY <1>1, <1>2, <2>1, <2>2, PushOrder
  <2> QED
    BY <1>3, <2>3
<1>4. CASE stack # <<>> /\ Top = ReadFrame(io) /\ frames = stack
  BY <1>4 DEF Top
<1>5. CASE ~Reading(io) /\ frames = Append(stack, ReadFrame(io))
  <2>1. \A k \in 1..Len(stack) : stack[k] # ReadFrame(io)
    BY <1>5 DEF Reading
  <2>2. Order(frames, Reads, seen)
    BY <1>1, <1>2, <1>5, <2>1, PushOrder
  <2>3. /\ frames # <<>> /\ Len(frames) = Len(stack) + 1
        /\ frames[Len(stack) + 1] = ReadFrame(io)
    BY <1>1, <1>2, <1>5, AppendProperties
  <2> QED
    BY <2>2, <2>3
<1> QED
  BY <1>3, <1>4, <1>5 DEF Opening

LEMMA EmissionOrders ==
  ASSUME Typed, NEW calls \in [IO -> Seq(Calls)], NEW frames \in Seq(Frames), NEW io \in IO,
         Order(frames, Reads, calls), Emission(io, frames),
         Echoing(io) \/ (frames # <<>> /\ frames[Len(frames)] = ReadFrame(io))
  PROVE  Order(stack', Reads', calls)
<1>1. Reads \in [IO -> Nat]
  BY DEF Typed
<1>2. Reads' = [Reads EXCEPT ![io] = @ + 1] /\ stack' = Append(frames, EmitFrame(io, Reads[io] + 1))
  BY DEF Emission
<1>3. Order(Append(frames, EmitFrame(io, Reads[io] + 1)), [Reads EXCEPT ![io] = @ + 1], calls)
  BY <1>1, EmissionOrder
<1> QED
  BY ONLY <1>2, <1>3

LEMMA CallingOrders ==
  ASSUME Typed, Order(stack, Reads, seen), NEW taken \in BOOLEAN, Calling(taken)
  PROVE  Advanced(stack) \in Seq(Frames) /\ Order(Advanced(stack), Reads, seen')
<1>1. /\ stack # <<>> /\ Top = stack[Len(stack)] /\ Top.op = "emit"
      /\ CallOf(Top, taken) \in Calls
      /\ NextReceiver \in IO
  BY CallingTypes DEF Calling
<1>2. /\ Reads \in [IO -> Nat] /\ seen \in [IO -> Seq(Calls)] /\ stack \in Seq(Frames)
  BY DEF Typed
<1>3. seen' = [seen EXCEPT ![NextReceiver] = Append(@, CallOf(Top, taken))]
  BY DEF Calling
<1>4. CallOf(Top, taken).src = Top.io /\ CallOf(Top, taken).pkt = Top.pkt
  BY DEF CallOf
<1>5. Order(Advanced(stack), Reads, [seen EXCEPT ![NextReceiver] = Append(@, CallOf(Top, taken))])
  BY <1>1, <1>2, <1>4, SlotOrder
<1>6. Advanced(stack) \in Seq(Frames)
  BY <1>1, <1>2, AdvancedProperties
<1> QED
  BY ONLY <1>3, <1>5, <1>6

LEMMA OrderStep ==
  ASSUME Typed, Typed', Order(stack, Reads, seen),
         Still \/ Emits \/ Leaves \/ Counts \/ Drops \/ Enters
  PROVE  Order(stack', Reads', seen')
<1>1. CASE Still
  BY <1>1 DEF Still
<1>2. CASE Emits
  <2>1. PICK io \in IO, frames \in Seq(Frames) : Opening(io, frames) /\ Emission(io, frames)
    BY <1>2 DEF Emits
  <2>2. Order(frames, Reads, seen) /\ frames # <<>> /\ frames[Len(frames)] = ReadFrame(io)
    BY <2>1, OpeningOrder
  <2>3. seen' = seen /\ seen \in [IO -> Seq(Calls)]
    BY <1>2 DEF Emits, Typed
  <2>4. Order(stack', Reads', seen)
    BY <2>1, <2>2, <2>3, EmissionOrders
  <2> QED
    BY <2>3, <2>4
<1>3. CASE Leaves \/ Counts
  <2>1. stack # <<>> /\ stack' = Popped(stack) /\ Reads' = Reads /\ UNCHANGED seen
    BY <1>3 DEF Leaves, Counts
  <2>2. /\ Len(stack') \in Nat /\ Len(stack) \in Nat /\ Len(stack') <= Len(stack)
        /\ \A k \in 1..Len(stack') : stack'[k] = stack[k]
    <3>1. /\ Len(stack') = Len(stack) - 1 /\ Len(stack) \in Nat \ {0}
          /\ \A k \in 1..(Len(stack) - 1) : stack'[k] = stack[k]
      BY <2>1, PoppedProperties DEF Typed
    <3> QED
      BY ONLY <3>1
  <2>3. Order(stack', Reads, seen)
    BY <2>2, PrefixOrder
  <2> QED
    BY <2>1, <2>3
<1>4. CASE Drops
  <2>1. Calling(FALSE) /\ stack' = Advanced(stack) /\ Reads' = Reads
    BY <1>4 DEF Drops
  <2>2. Order(Advanced(stack), Reads, seen')
    BY <2>1, CallingOrders
  <2> QED
    BY ONLY <2>1, <2>2
<1>5. CASE Enters
  <2> DEFINE calls == Append(Advanced(stack), WriteFrame(NextReceiver))
  <2>1. Calling(TRUE) /\ NextReceiver \in IO
    BY <1>5 DEF Enters, Calling
  <2>2. WriteFrame(NextReceiver) \in Frames /\ WriteFrame(NextReceiver).op = "write"
    BY <2>1, CallFrames, 0 \in Nat
  <2>3. Advanced(stack) \in Seq(Frames) /\ Order(Advanced(stack), Reads, seen')
    BY <2>1, CallingOrders
  <2>4. calls \in Seq(Frames) /\ Order(calls, Reads, seen')
    BY <2>2, <2>3, PushOrder
  <2>5. seen' \in [IO -> Seq(Calls)]
    BY DEF Typed
  <2> HIDE DEF calls
  <2>6. CASE Echoing(NextReceiver) /\ Emission(NextReceiver, calls)
    BY <2>1, <2>4, <2>5, <2>6, EmissionOrders
  <2>7. CASE stack' = calls /\ Reads' = Reads
    BY <2>4, <2>7
  <2> QED
    BY <1>5, <2>6, <2>7 DEF Enters, Echoing, calls
<1> QED
  BY <1>1, <1>2, <1>3, <1>4, <1>5

-----------------------------------------------------------------------------
(* The parts together are inductive.                                       *)
CountInv ==
  /\ Inv
  /\ Shaped(stack)
  /\ Balanced(stack, Writes, seen)
  /\ Delivery(receivers, stack, Reads, fan, seen)
  /\ Order(stack, Reads, seen)

LEMMA CountInit == Init => CountInv
<1> SUFFICES ASSUME Init PROVE CountInv
  OBVIOUS
<1>1. /\ stack = <<>>
      /\ \A io \in IO : /\ Reads[io] = 0 /\ Writes[io] = 0 /\ fan[io] = <<>> /\ seen[io] = <<>>
                        /\ receivers[io] = <<>>
  BY DEF Init, Reads, Writes, NewHandler
<1>2. \A k \in 1..Len(stack) : FALSE
  BY <1>1
<1>3. \A io \in IO : Len(fan[io]) = 0 /\ Len(seen[io]) = 0 /\ \A k \in 1..Len(seen[io]) : FALSE
  BY <1>1
<1>4. Shaped(stack)
  BY <1>2 DEF Shaped
<1>5. Balanced(stack, Writes, seen)
  <2> SUFFICES ASSUME NEW io \in IO
               PROVE  Writes[io] + Count(stack, Len(stack), {WriteFrame(io)})
                        = Count(seen[io], Len(seen[io]), Taken)
    BY DEF Balanced
  <2>1. Len(stack) = 0 /\ Len(seen[io]) = 0 /\ 0 \in Nat /\ Writes[io] = 0
    BY <1>1, <1>3
  <2>2. Count(stack, 0, {WriteFrame(io)}) = 0 /\ Count(seen[io], 0, Taken) = 0
    BY <2>1, CountNone
  <2> QED
    BY <2>1, <2>2
<1>6. Delivery(receivers, stack, Reads, fan, seen)
  <2>1. FansCounted(receivers, Reads, fan)
    BY <1>1, <1>3 DEF FansCounted
  <2>2. EmissionsCounted(receivers, stack, Reads, fan) /\ EmissionsDiffer(stack)
    BY <1>2 DEF EmissionsCounted, EmissionsDiffer
  <2>3. Delivered(receivers, stack, Reads, fan, seen)
    <3> SUFFICES ASSUME NEW src \in IO, NEW dst \in IO, NEW n \in Nat \ {0}
                 PROVE  ~(n <= Reads[src]) /\ Received(seen, dst, src, n) = 0
      BY <1>2 DEF Delivered
    <3>1. Len(seen[dst]) = 0 /\ 0 \in Nat
      BY <1>3
    <3>2. Received(seen, dst, src, n) = 0
      BY <3>1, CountNone DEF Received
    <3> QED
      BY <1>1, <3>2
  <2> QED
    BY <2>1, <2>2, <2>3 DEF Delivery
<1>7. Order(stack, Reads, seen)
  BY <1>2, <1>3 DEF Order, SeenPast, Sorted, EmitsLatest, ReadersDiffer
<1> QED
  BY <1>4, <1>5, <1>6, <1>7, InvInit DEF CountInv

LEMMA CountStep == CountInv /\ [Next]_vars => CountInv'
<1> SUFFICES ASSUME CountInv, [Next]_vars PROVE CountInv'
  OBVIOUS
<1>1. Inv /\ Inv'
  BY InvStep DEF CountInv
<1>2. Typed /\ Typed'
  <2>1. TypeOK /\ TypeOK'
    BY <1>1 DEF Inv
  <2>2. TypeOK' => Typed'
    BY TypedFromInv, PTL
  <2> QED
    BY <2>1, <2>2, TypedFromInv
<1>3. Still \/ Emits \/ Leaves \/ Counts \/ Drops \/ Enters
  BY <1>1, DispatchStep DEF CountInv
<1>4. Shaped(stack')
  BY <1>2, <1>3, ShapedStep DEF CountInv
<1>5. Balanced(stack', Writes', seen')
  BY <1>2, <1>3, BalancedStep DEF CountInv
<1>6. Delivery(receivers', stack', Reads', fan', seen')
  BY <1>2, <1>3, DeliveryStep DEF CountInv
<1>7. Order(stack', Reads', seen')
  BY <1>2, <1>3, OrderStep DEF CountInv
<1> QED
  BY <1>1, <1>4, <1>5, <1>6, <1>7 DEF CountInv

LEMMA CountAlways == Spec => []CountInv
  BY CountInit, CountStep, PTL DEF Spec

(* The statistics the engine prints are what was handed to each IO, apart  *)
(* from the writeData() calls that still run (Handler::writeData).         *)
THEOREM StatisticsAddUp == Spec => []StatisticsMatch
<1>1. CountInv => StatisticsMatch
  <2> SUFFICES ASSUME CountInv, NEW io \in IO
               PROVE  handler[io].written + Cardinality({k \in 1..Len(stack) : stack[k] = WriteFrame(io)})
                        = Cardinality({k \in 1..Len(seen[io]) : seen[io][k].taken})
    BY DEF StatisticsMatch
  <2>1. Writes[io] = handler[io].written
    BY DEF Writes
  <2>2. {k \in 1..Len(stack) : stack[k] = WriteFrame(io)} = {k \in 1..Len(stack) : stack[k] \in {WriteFrame(io)}}
    OBVIOUS
  <2>3. seen[io] \in Seq(Calls)
    BY DEF CountInv, Inv, TypeOK, Calls
  <2>4. {k \in 1..Len(seen[io]) : seen[io][k].taken} = {k \in 1..Len(seen[io]) : seen[io][k] \in Taken}
    BY <2>3 DEF Taken
  <2>5. Writes[io] + Count(stack, Len(stack), {WriteFrame(io)}) = Count(seen[io], Len(seen[io]), Taken)
    BY DEF CountInv, Balanced
  <2> QED
    BY ONLY <2>1, <2>2, <2>4, <2>5 DEF Count
<1> QED
  BY <1>1, CountAlways, PTL

(* Whatever reads were nested in whatever writes, when the thread is back  *)
(* in its event loop each connection has carried each packet exactly once  *)
(* (Handler::onNewData, the connect of Engine::addConnection).             *)
THEOREM DeliversExactlyOnce == Spec => []ExactlyOnce
<1>1. CountInv => ExactlyOnce
  <2> SUFFICES ASSUME CountInv, stack = <<>>,
                      NEW src \in IO, NEW dst \in IO, NEW n \in 1..Len(fan[src])
               PROVE  Cardinality({k \in 1..Len(seen[dst]) : seen[dst][k].src = src /\ seen[dst][k].pkt = n})
                        = Cardinality({k \in 1..fan[src][n] : receivers[src][k] = dst})
    BY DEF ExactlyOnce
  <2>1. n \in Nat \ {0} /\ n <= Reads[src]
    <3>1. Len(fan[src]) = Reads[src] /\ Len(fan[src]) \in Nat
      BY DEF CountInv, Delivery, FansCounted, Inv, TypeOK
    <3> QED
      BY <3>1
  <2>2. ~\E k \in 1..Len(stack) : Emitting(stack[k], src, n)
    OBVIOUS
  <2>3. Received(seen, dst, src, n) = Count(receivers[src], fan[src][n], {dst})
    BY <2>1, <2>2 DEF CountInv, Delivery, Delivered
  <2>4. seen[dst] \in Seq(Calls)
    BY DEF CountInv, Inv, TypeOK, Calls
  <2>5. {k \in 1..Len(seen[dst]) : seen[dst][k].src = src /\ seen[dst][k].pkt = n}
          = {k \in 1..Len(seen[dst]) : seen[dst][k] \in CallsOf(src, n)}
    BY <2>4 DEF CallsOf
  <2>6. {k \in 1..fan[src][n] : receivers[src][k] = dst} = {k \in 1..fan[src][n] : receivers[src][k] \in {dst}}
    OBVIOUS
  <2> QED
    BY ONLY <2>3, <2>5, <2>6 DEF Received, Count
<1> QED
  BY <1>1, CountAlways, PTL

(* No packet overtakes an earlier one of the same source on its way to a   *)
(* handler, unless the source echoes inside its own writeData().           *)
THEOREM DeliversInOrder == Spec => []InOrder
<1>1. CountInv => InOrder
  BY DEF CountInv, Order, Sorted, Echoing, InOrder
<1> QED
  BY <1>1, CountAlways, PTL

-----------------------------------------------------------------------------
(* Why a reliable IO that was added before its source misses nothing: what *)
(* runs is up, and so is every IO that was added before an IO that is up;  *)
(* a reliable IO that is up accepts data.                                  *)
FramesUp(s) == \A k \in 1..Len(s) : dev[s[k].io] # "idle"

ReliableUp == \A io \in IO : (Reliable(io) /\ dev[io] # "idle") => Accepts(handler[io])

SeenFromAdded == \A io \in IO : \A k \in 1..Len(seen[io]) : seen[io][k].src \in Added

SinksInv ==
  /\ Inv
  /\ FramesUp(stack)
  /\ ReliableUp
  /\ SeenFromAdded
  /\ EarlierSinksMissNothing

LEMMA PushFrameUp ==
  ASSUME NEW s \in Seq(Frames), NEW f \in Frames, FramesUp(s), dev[f.io] # "idle"
  PROVE  Append(s, f) \in Seq(Frames) /\ FramesUp(Append(s, f))
<1> DEFINE t == Append(s, f)
<1>1. /\ t \in Seq(Frames)
      /\ Len(t) = Len(s) + 1
      /\ Len(s) \in Nat
      /\ \A k \in 1..Len(s) : t[k] = s[k]
      /\ t[Len(s) + 1] = f
  BY AppendProperties
<1> HIDE DEF t
<1>2. ASSUME NEW k \in 1..Len(t) PROVE dev[t[k].io] # "idle"
  <2>1. k \in 1..Len(s) \/ k = Len(s) + 1
    BY <1>1
  <2> QED
    BY <1>1, <2>1 DEF FramesUp
<1> QED
  BY <1>1, <1>2 DEF FramesUp, t

LEMMA EmissionFramesUp ==
  ASSUME NEW h \in [IO -> Handlers], NEW io \in IO, NEW frames \in Seq(Frames),
         FramesUp(frames), dev[io] # "idle", OnNewData(h, io, frames)
  PROVE  FramesUp(stack')
<1>1. h[io].read + 1 \in Nat
  BY DEF Handlers
<1>2. /\ EmitFrame(io, h[io].read + 1) \in Frames
      /\ EmitFrame(io, h[io].read + 1).io = io
  BY <1>1, CallFrames
<1>3. stack' = Append(frames, EmitFrame(io, h[io].read + 1))
  BY DEF OnNewData
<1> QED
  BY <1>2, <1>3, PushFrameUp

LEMMA ReadFramesUp ==
  ASSUME NEW io \in IO, dev[io] # "idle"
  PROVE  <<ReadFrame(io)>> \in Seq(Frames) /\ FramesUp(<<ReadFrame(io)>>)
<1>1. ReadFrame(io) \in Frames /\ ReadFrame(io).io = io
  BY CallFrames, 0 \in Nat
<1> QED
  BY <1>1 DEF FramesUp

(* What the slot that is called sees.                                      *)
LEMMA SeenAfter ==
  ASSUME Inv, HasNextReceiver, NEW taken \in BOOLEAN, SlotCalled(taken),
         NEW dst \in IO, NEW k \in 1..Len(seen'[dst])
  PROVE  \/ k \in 1..Len(seen[dst]) /\ seen'[dst][k] = seen[dst][k]
         \/ dst = NextReceiver /\ seen'[dst][k].src = Top.io /\ seen'[dst][k].taken = taken
<1> DEFINE call == [src |-> Top.io, pkt |-> Top.pkt, taken |-> taken]
<1>1. NextReceiver \in IO /\ Typed
  BY SlotTypes, TypedFromInv DEF Inv
<1>2. seen \in [IO -> Seq(Calls)] /\ call \in Calls
  BY <1>1, CallingTypes DEF Typed, CallOf
<1>3. seen' = [seen EXCEPT ![NextReceiver] = Append(@, call)]
  BY DEF SlotCalled
<1>4. call.src = Top.io /\ call.taken = taken
  OBVIOUS
<1> HIDE DEF call
<1>5. CASE dst = NextReceiver
  <2>1. seen'[dst] = Append(seen[dst], call) /\ seen[dst] \in Seq(Calls)
    BY <1>1, <1>2, <1>3, <1>5
  <2>2. /\ Len(seen'[dst]) = Len(seen[dst]) + 1 /\ Len(seen[dst]) \in Nat
        /\ \A i \in 1..Len(seen[dst]) : seen'[dst][i] = seen[dst][i]
        /\ seen'[dst][Len(seen[dst]) + 1] = call
    BY <1>2, <2>1, AppendProperties
  <2>3. k \in 1..Len(seen[dst]) \/ k = Len(seen[dst]) + 1
    BY <2>2
  <2> QED
    BY <1>4, <1>5, <2>2, <2>3
<1>6. CASE dst # NextReceiver
  <2>1. seen'[dst] = seen[dst]
    BY <1>1, <1>2, <1>3, <1>6
  <2> QED
    BY <2>1
<1> QED
  BY <1>5, <1>6

(* A packet that is dropped came from an IO whose sinks need not be up.    *)
LEMMA DropExcused ==
  ASSUME Inv, FramesUp(stack), ReliableUp, HasNextReceiver, ~Accepts(handler[NextReceiver]),
         NEW i \in 1..Len(m_handlers), NEW j \in 1..Len(m_handlers), i < j,
         Reliable(m_handlers[i]), m_handlers[i] = NextReceiver
  PROVE  m_handlers[j] # Top.io
<1> SUFFICES ASSUME m_handlers[j] = Top.io PROVE FALSE
  OBVIOUS
<1>1. dev[Top.io] # "idle"
  <2>1. Top = stack[Len(stack)] /\ Len(stack) \in Nat \ {0}
    BY TypedFromInv, CallingTypes DEF Inv
  <2> QED
    BY <2>1 DEF FramesUp
<1>2. Up(j)
  BY <1>1 DEF Inv, DispatchInv, StartProgress
<1>3. Up(i)
  BY <1>2 DEF Up, Inv, TypeOK
<1>4. dev[m_handlers[i]] # "idle" /\ m_handlers[i] \in IO
  <2>1. m_handlers \in Seq(IO)
    BY DEF Inv, TypeOK
  <2>2. m_handlers[i] \in IO
    BY ONLY <2>1, i \in 1..Len(m_handlers)
  <2> QED
    BY <1>3, <2>2 DEF Inv, DispatchInv, StartProgress
<1> QED
  BY <1>4 DEF ReliableUp

LEMMA SourceAdded ==
  ASSUME Inv, FramesUp(stack), HasNextReceiver
  PROVE  Top.io \in Added
<1>1. Top = stack[Len(stack)] /\ Len(stack) \in Nat \ {0} /\ Top.io \in IO
  BY TypedFromInv, CallingTypes DEF Inv
<1>2. dev[Top.io] # "idle"
  BY <1>1 DEF FramesUp
<1> QED
  BY <1>1, <1>2 DEF Inv, DispatchInv, OthersFresh

(* start() leaves a reliable IO's handler Started.                         *)
LEMMA ReliableStarts ==
  ASSUME Inv, ReliableUp, NEW io \in IO, NEW signal \in Contract[io].start, StartHandler(io, signal)
  PROVE  ReliableUp'
<1> DEFINE g == Signaled(Connected(handler[io]), signal)
<1>0. handler \in [IO -> Handlers] /\ dev \in [IO -> Device] /\ TypeOK
  BY DEF Inv, TypeOK
<1>1. /\ \A o \in IO : o # io => handler'[o] = handler[o] /\ dev'[o] = dev[o]
      /\ handler'[io] = g \/ handler'[io] = DataRead(g)
  BY <1>0 DEF StartHandler, OnNewData
<1>2. Connected(handler[io]) \in Handlers /\ g \in Handlers
  BY <1>0, HandlerTypes
<1>3. Reliable(io) => g.state = "Started"
  <2> SUFFICES ASSUME signal = "started" PROVE g.state = "Started"
    BY DEF Reliable
  <2>1. Connected(handler[io]).lifecycle # 0
    BY <1>0 DEF Connected, Handlers
  <2> QED
    BY <1>2, <2>1 DEF Signaled, ErrorSignal, Handlers
<1>4. DataRead(g).state = g.state
  BY <1>2 DEF DataRead, Handlers
<1> HIDE DEF g
<1> QED
  BY <1>1, <1>3, <1>4 DEF ReliableUp, Accepts

LEMMA StartFramesUp ==
  ASSUME Inv, stack = <<>>, NEW io \in IO, dev[io] = "idle",
         NEW signal \in Contract[io].start, StartHandler(io, signal)
  PROVE  FramesUp(stack)'
<1> DEFINE started == [handler EXCEPT ![io] = Signaled(Connected(@), signal)]
<1>1. dev'[io] # "idle"
  BY StartHandlerWiring
<1>2. started \in [IO -> Handlers]
  BY HandlerTypes DEF Inv, TypeOK
<1>3. CASE OnNewData(started, io, <<ReadFrame(io)>>)
  <2>1. /\ ReadFrame(io) \in Frames /\ ReadFrame(io).io = io
        /\ EmitFrame(io, started[io].read + 1) \in Frames /\ EmitFrame(io, started[io].read + 1).io = io
    <3>1. started[io].read + 1 \in Nat
      BY <1>2 DEF Handlers
    <3> QED
      BY <3>1, CallFrames
  <2> DEFINE r == ReadFrame(io)
             e == EmitFrame(io, started[io].read + 1)
  <2>2. stack' = Append(<<r>>, e)
    BY <1>3 DEF OnNewData
  <2>3. r \in Frames /\ e \in Frames /\ r.io = io /\ e.io = io
    BY <2>1
  <2> HIDE DEF r, e
  <2>4. <<r>> \in Seq(Frames) /\ Len(<<r>>) = 1 /\ <<r>>[1] = r
    BY <2>3
  <2>5. Len(stack') = 2 /\ stack'[1] = r /\ stack'[2] = e
    <3>1. /\ Len(Append(<<r>>, e)) = Len(<<r>>) + 1
          /\ \A i \in 1..Len(<<r>>) : Append(<<r>>, e)[i] = <<r>>[i]
          /\ Append(<<r>>, e)[Len(<<r>>) + 1] = e
      BY <2>3, <2>4, AppendProperties
    <3> QED
      BY <2>2, <2>4, <3>1
  <2> QED
    BY <1>1, <2>3, <2>5 DEF FramesUp
<1>4. CASE UNCHANGED stack
  BY <1>4 DEF FramesUp
<1> QED
  BY <1>3, <1>4 DEF StartHandler

LEMMA FramesUpStep ==
  ASSUME Inv, FramesUp(stack), [Next]_vars
  PROVE  FramesUp(stack)'
<1>0. TypeOK /\ handler \in [IO -> Handlers] /\ stack \in Seq(Frames) /\ Typed
  BY TypedFromInv DEF Inv, TypeOK
<1>1. ASSUME stack' = <<>> PROVE FramesUp(stack)'
  BY <1>1 DEF FramesUp
<1>2. ASSUME UNCHANGED dev, FramesUp(stack') PROVE FramesUp(stack)'
  BY <1>2 DEF FramesUp
<1>3. ASSUME NEW io \in IO, AddIO(io) PROVE FramesUp(stack)'
  <2>1. CASE m_started
    <3>1. PICK signal \in Contract[io].start : StartHandler(io, signal)
      BY <1>3, <2>1 DEF AddIO
    <3>2. dev[io] = "idle" /\ stack = <<>>
      BY <1>3 DEF AddIO, Quiescent, Inv, DispatchInv, OthersFresh
    <3> QED
      BY <3>1, <3>2, StartFramesUp
  <2>2. CASE ~m_started
    BY <1>1, <1>3, <2>2 DEF AddIO, Quiescent
  <2> QED
    BY <2>1, <2>2
<1>4. ASSUME NEW r \in Requests, AddConnection(r[1], r[2]) PROVE FramesUp(stack)'
  BY <1>1, <1>4 DEF AddConnection, Quiescent
<1>5. CASE EngineStart \/ StartDone \/ EngineStop \/ Destroy
  BY <1>1, <1>5 DEF EngineStart, StartDone, EngineStop, Destroy, Quiescent
<1>6. CASE StartNext
  <2>1. m_handlers[at] \in IO /\ at \in 1..Len(m_handlers)
    BY <1>0, <1>6 DEF StartNext, TypeOK
  <2>2. dev[m_handlers[at]] = "idle"
    BY <1>6, <2>1 DEF StartNext, Inv, DispatchInv, StartProgress, Up
  <2>3. PICK signal \in Contract[m_handlers[at]].start : StartHandler(m_handlers[at], signal)
    BY <1>6 DEF StartNext
  <2>4. stack = <<>>
    BY <1>6 DEF StartNext
  <2> QED
    BY <2>1, <2>2, <2>3, <2>4, StartFramesUp
<1>7. \A io \in IO : MayEmit(io) => dev[io] # "idle"
  BY EmitterUp
<1>8. ASSUME NEW io \in IO, ReadyRead(io) PROVE FramesUp(stack)'
  <2>1. dev[io] # "idle"
    BY <1>7, <1>8 DEF ReadyRead
  <2>2. <<ReadFrame(io)>> \in Seq(Frames) /\ FramesUp(<<ReadFrame(io)>>)
    BY <2>1, ReadFramesUp
  <2>3. FramesUp(stack')
    BY <1>0, <1>8, <2>1, <2>2, EmissionFramesUp DEF ReadyRead
  <2> QED
    BY <1>2, <1>8, <2>3 DEF ReadyRead
<1>9. ASSUME NEW io \in IO, WaitRead(io) PROVE FramesUp(stack)'
  <2>1. dev[io] # "idle"
    BY <1>7, <1>9 DEF WaitRead
  <2>2. ReadFrame(io) \in Frames /\ ReadFrame(io).io = io
    BY CallFrames, 0 \in Nat
  <2>3. Append(stack, ReadFrame(io)) \in Seq(Frames) /\ FramesUp(Append(stack, ReadFrame(io)))
    BY <1>0, <2>1, <2>2, PushFrameUp
  <2>4. FramesUp(stack')
    BY <1>0, <1>9, <2>1, <2>3, EmissionFramesUp DEF WaitRead
  <2> QED
    BY <1>2, <1>9, <2>4 DEF WaitRead
<1>10. ASSUME NEW io \in IO, RuntimeError(io) PROVE FramesUp(stack)'
  BY <1>2, <1>10 DEF RuntimeError
<1>11. CASE ReadMore
  <2>1. Top.io \in IO /\ Top = stack[Len(stack)] /\ Len(stack) \in 1..Len(stack)
    BY <1>0, <1>11, StackTypes DEF ReadMore, Running, Frames
  <2>2. dev[Top.io] # "idle"
    BY <2>1 DEF FramesUp
  <2>3. FramesUp(stack')
    BY <1>0, <1>11, <2>1, <2>2, EmissionFramesUp DEF ReadMore
  <2> QED
    BY <1>2, <1>11, <2>3 DEF ReadMore
<1>12. CASE ReadDone \/ EmitDone \/ WriteReturns
  <2>1. stack # <<>> /\ stack' = Returned /\ UNCHANGED dev
    BY <1>12 DEF ReadDone, EmitDone, WriteReturns, Running
  <2>2. /\ Len(stack') = Len(stack) - 1 /\ Len(stack) \in Nat \ {0}
        /\ \A k \in 1..Len(stack') : stack'[k] = stack[k]
    BY <1>0, <2>1, StackTypes
  <2>3. \A k \in 1..Len(stack') : k \in 1..Len(stack)
    BY <2>2
  <2>4. FramesUp(stack')
    BY <2>2, <2>3 DEF FramesUp
  <2> QED
    BY <1>2, <2>1, <2>4
<1>13. ASSUME HasNextReceiver PROVE SlotLeft \in Seq(Frames) /\ FramesUp(SlotLeft)
  <2>1. stack # <<>>
    BY <1>13 DEF HasNextReceiver, Running
  <2>2. SlotLeft = Advanced(stack)
    BY DEF SlotLeft, Advanced, Top, Returned, Popped
  <2>3. /\ Advanced(stack) \in Seq(Frames) /\ Len(Advanced(stack)) = Len(stack)
        /\ \A k \in 1..(Len(stack) - 1) : Advanced(stack)[k] = stack[k]
        /\ Advanced(stack)[Len(stack)] = [stack[Len(stack)] EXCEPT !.at = @ + 1]
        /\ stack[Len(stack)] \in Frames /\ Len(stack) \in Nat \ {0}
    BY <1>0, <2>1, AdvancedProperties, PoppedProperties
  <2>4. Advanced(stack)[Len(stack)].io = stack[Len(stack)].io
    BY <2>3 DEF Frames
  <2>5. \A k \in 1..Len(stack) : k = Len(stack) \/ k \in 1..(Len(stack) - 1)
    BY <2>3
  <2>6. FramesUp(Advanced(stack))
    BY <2>3, <2>4, <2>5 DEF FramesUp
  <2> QED
    BY <2>2, <2>3, <2>6
<1>14. CASE Drop
  BY <1>2, <1>13, <1>14 DEF Drop
<1>15. CASE Write
  <2> DEFINE calls == Append(SlotLeft, WriteFrame(NextReceiver))
  <2>1. NextReceiver \in IO /\ dev[NextReceiver] # "idle"
    BY <1>0, <1>15, SlotTypes, ReceiverUp DEF Write
  <2>2. WriteFrame(NextReceiver) \in Frames /\ WriteFrame(NextReceiver).io = NextReceiver
    BY <2>1, CallFrames, 0 \in Nat
  <2>3. calls \in Seq(Frames) /\ FramesUp(calls)
    BY <1>13, <1>15, <2>1, <2>2, PushFrameUp DEF Write
  <2> HIDE DEF calls
  <2>4. OnNewData(handler, NextReceiver, calls) \/ stack' = calls
    BY <1>15 DEF Write, calls
  <2>5. FramesUp(stack')
    BY <1>0, <2>1, <2>3, <2>4, EmissionFramesUp
  <2> QED
    BY <1>2, <1>15, <2>5 DEF Write
<1>16. CASE UNCHANGED vars
  BY <1>2, <1>16 DEF vars
<1> QED
  BY <1>3, <1>4, <1>5, <1>6, <1>8, <1>9, <1>10, <1>11, <1>12, <1>14, <1>15, <1>16
     DEF Next, Interface, Return, Destroyed

LEMMA ReliableUpStep ==
  ASSUME Inv, ReliableUp, [Next]_vars
  PROVE  ReliableUp'
<1>0. handler \in [IO -> Handlers] /\ dev \in [IO -> Device] /\ TypeOK /\ stack \in Seq(Frames)
  BY DEF Inv, TypeOK
<1>1. ASSUME UNCHANGED dev, \A io \in IO : Reliable(io) => handler'[io].state = handler[io].state
      PROVE  ReliableUp'
  BY <1>1 DEF ReliableUp, Accepts
<1>2. ASSUME NEW io \in IO, NEW frames, OnNewData(handler, io, frames), UNCHANGED dev
      PROVE  ReliableUp'
  <2>1. handler' = [handler EXCEPT ![io] = DataRead(handler[io])]
    BY <1>2 DEF OnNewData
  <2>2. DataRead(handler[io]).state = handler[io].state
    BY <1>0 DEF DataRead, Handlers
  <2> QED
    BY <1>0, <1>1, <1>2, <2>1, <2>2
<1>3. ASSUME NEW io \in IO, AddIO(io) PROVE ReliableUp'
  BY <1>1, <1>3, ReliableStarts DEF AddIO
<1>4. ASSUME NEW r \in Requests, AddConnection(r[1], r[2]) PROVE ReliableUp'
  BY <1>1, <1>4 DEF AddConnection
<1>5. CASE EngineStart \/ StartDone
  BY <1>1, <1>5 DEF EngineStart, StartDone
<1>6. CASE EngineStop \/ Destroy
  BY <1>0, <1>6 DEF EngineStop, Destroy, StopHandlers, ReliableUp
<1>7. CASE StartNext
  <2>1. m_handlers[at] \in IO
    BY <1>0, <1>7 DEF StartNext, TypeOK
  <2> QED
    BY <1>7, <2>1, ReliableStarts DEF StartNext
<1>8. ASSUME NEW io \in IO, ReadyRead(io) \/ WaitRead(io) PROVE ReliableUp'
  BY <1>2, <1>8 DEF ReadyRead, WaitRead
<1>9. ASSUME NEW io \in IO, RuntimeError(io) PROVE ReliableUp'
  <2>1. ~Reliable(io)
    BY <1>9 DEF RuntimeError, Reliable
  <2>2. \A o \in IO : o # io => handler'[o] = handler[o]
    BY <1>0, <1>9 DEF RuntimeError
  <2> QED
    BY <1>1, <1>9, <2>1, <2>2 DEF RuntimeError
<1>10. CASE ReadMore
  <2>1. Top.io \in IO
    BY <1>0, <1>10, StackTypes DEF ReadMore, Running, Frames
  <2> QED
    BY <1>2, <1>10, <2>1 DEF ReadMore
<1>11. CASE ReadDone \/ EmitDone \/ Drop
  BY <1>1, <1>11 DEF ReadDone, EmitDone, Drop
<1>12. CASE WriteReturns
  <2>1. Top.io \in IO
    BY <1>0, <1>12, StackTypes DEF WriteReturns, Running, Frames
  <2>2. PICK signal \in {"none"} \cup (IF Contract[Top.io].writeFails THEN {"errorOccured"} ELSE {}) :
          handler' = [handler EXCEPT ![Top.io] = DataWritten(@, signal)]
    BY <1>12 DEF WriteReturns
  <2>3. Reliable(Top.io) => signal = "none"
    BY <2>2 DEF Reliable
  <2>4. DataWritten(handler[Top.io], "none").state = handler[Top.io].state
    BY <1>0, <2>1 DEF DataWritten, Signaled, Handlers
  <2>5. \A o \in IO : Reliable(o) => handler'[o].state = handler[o].state
    BY <1>0, <2>1, <2>2, <2>3, <2>4
  <2> QED
    BY <1>1, <1>12, <2>5 DEF WriteReturns
<1>13. CASE Write
  <2>1. NextReceiver \in IO
    BY <1>0, <1>13, SlotTypes DEF Write
  <2> QED
    BY <1>1, <1>2, <1>13, <2>1 DEF Write
<1>14. CASE UNCHANGED vars
  BY <1>1, <1>14 DEF vars
<1> QED
  BY <1>3, <1>4, <1>5, <1>6, <1>7, <1>8, <1>9, <1>10, <1>11, <1>12, <1>13, <1>14
     DEF Next, Interface, Return, Destroyed

(* A step calls a slot, adds an IO, or leaves seen and m_handlers alone.   *)
LEMMA SinksSplit ==
  ASSUME [Next]_vars
  PROVE  \/ UNCHANGED <<seen, m_handlers>>
         \/ \E io \in IO : io \notin Added /\ m_handlers' = Append(m_handlers, io) /\ UNCHANGED seen
         \/ /\ HasNextReceiver /\ UNCHANGED m_handlers
            /\ \E taken \in BOOLEAN :
                 SlotCalled(taken) /\ (taken \/ ~Accepts(handler[NextReceiver]))
<1>1. ASSUME NEW io \in IO, AddIO(io)
      PROVE  io \notin Added /\ m_handlers' = Append(m_handlers, io) /\ UNCHANGED seen
  BY <1>1 DEF AddIO
<1>2. ASSUME NEW r \in Requests, AddConnection(r[1], r[2]) PROVE UNCHANGED <<seen, m_handlers>>
  BY <1>2 DEF AddConnection
<1>3. CASE EngineStart \/ EngineStop \/ Destroy \/ StartNext \/ StartDone
  BY <1>3 DEF EngineStart, EngineStop, Destroy, StartNext, StartDone
<1>4. ASSUME NEW io \in IO, ReadyRead(io) \/ WaitRead(io) \/ RuntimeError(io)
      PROVE  UNCHANGED <<seen, m_handlers>>
  BY <1>4 DEF ReadyRead, WaitRead, RuntimeError, engineVars
<1>5. CASE ReadMore \/ ReadDone \/ EmitDone \/ WriteReturns
  BY <1>5 DEF ReadMore, ReadDone, EmitDone, WriteReturns, engineVars
<1>6. CASE Drop
  BY <1>6 DEF Drop, engineVars
<1>7. CASE Write
  BY <1>7 DEF Write, engineVars
<1>8. CASE UNCHANGED vars
  BY <1>8 DEF vars, engineVars
<1> QED
  BY <1>1, <1>2, <1>3, <1>4, <1>5, <1>6, <1>7, <1>8 DEF Next, Interface, Return, Destroyed

LEMMA SeenFromAddedStep ==
  ASSUME Inv, FramesUp(stack), SeenFromAdded, [Next]_vars
  PROVE  SeenFromAdded'
<1>1. m_handlers \in Seq(IO)
  BY DEF Inv, TypeOK
<1>2. CASE UNCHANGED <<seen, m_handlers>>
  BY <1>2 DEF SeenFromAdded, Added
<1>3. ASSUME NEW io \in IO, m_handlers' = Append(m_handlers, io), UNCHANGED seen
      PROVE  SeenFromAdded'
  <2>1. \A k \in 1..Len(m_handlers) : k \in 1..Len(m_handlers') /\ m_handlers'[k] = m_handlers[k]
    BY <1>1, <1>3, AppendProperties
  <2>2. Added \subseteq Added'
    BY <2>1 DEF Added
  <2> QED
    BY <1>3, <2>2 DEF SeenFromAdded
<1>4. ASSUME HasNextReceiver, UNCHANGED m_handlers, NEW taken \in BOOLEAN, SlotCalled(taken)
      PROVE  SeenFromAdded'
  <2>1. Top.io \in Added
    BY <1>4, SourceAdded
  <2>2. \A dst \in IO : \A k \in 1..Len(seen'[dst]) : seen'[dst][k].src \in Added
    <3> SUFFICES ASSUME NEW dst \in IO, NEW k \in 1..Len(seen'[dst])
                 PROVE  seen'[dst][k].src \in Added
      OBVIOUS
    <3>1. \/ k \in 1..Len(seen[dst]) /\ seen'[dst][k] = seen[dst][k]
          \/ seen'[dst][k].src = Top.io
      BY <1>4, SeenAfter
    <3> QED
      BY <2>1, <3>1 DEF SeenFromAdded
  <2> QED
    BY <1>4, <2>2 DEF SeenFromAdded, Added
<1> QED
  BY <1>2, <1>3, <1>4, SinksSplit

LEMMA SinksKept ==
  ASSUME SinksInv, [Next]_vars
  PROVE  EarlierSinksMissNothing'
<1>1. m_handlers \in Seq(IO)
  BY DEF SinksInv, Inv, TypeOK
<1>2. CASE UNCHANGED <<seen, m_handlers>>
  BY <1>2 DEF SinksInv, EarlierSinksMissNothing
<1>3. ASSUME NEW io \in IO, io \notin Added, m_handlers' = Append(m_handlers, io), UNCHANGED seen
      PROVE  EarlierSinksMissNothing'
  <2> DEFINE n == Len(m_handlers)
  <2>1. /\ n \in Nat /\ Len(m_handlers') = n + 1
        /\ \A k \in 1..n : m_handlers'[k] = m_handlers[k]
        /\ m_handlers'[n + 1] = io
    BY <1>1, <1>3, AppendProperties
  <2> SUFFICES ASSUME NEW i \in 1..Len(m_handlers'), NEW j \in 1..Len(m_handlers'),
                      i < j, Reliable(m_handlers'[i]),
                      NEW k \in 1..Len(seen'[m_handlers'[i]]),
                      seen'[m_handlers'[i]][k].src = m_handlers'[j]
               PROVE  seen'[m_handlers'[i]][k].taken
    BY DEF EarlierSinksMissNothing, Reliable
  <2>2. i \in 1..n /\ m_handlers'[i] = m_handlers[i] /\ m_handlers[i] \in IO
    BY <1>1, <2>1
  <2>3. m_handlers'[j] # io
    <3>1. seen' = seen
      BY <1>3
    <3> QED
      BY <1>3, <2>2, <3>1 DEF SinksInv, SeenFromAdded
  <2>4. j \in 1..n /\ m_handlers'[j] = m_handlers[j]
    <3>1. j # n + 1
      BY <2>1, <2>3
    <3>2. j \in 1..n
      BY ONLY <2>1, <3>1, j \in 1..Len(m_handlers')
    <3> QED
      BY ONLY <2>1, <3>2
  <2> QED
    BY <1>3, <2>2, <2>4 DEF SinksInv, EarlierSinksMissNothing
<1>4. ASSUME HasNextReceiver, UNCHANGED m_handlers, NEW taken \in BOOLEAN, SlotCalled(taken),
             taken \/ ~Accepts(handler[NextReceiver])
      PROVE  EarlierSinksMissNothing'
  <2> SUFFICES ASSUME NEW i \in 1..Len(m_handlers), NEW j \in 1..Len(m_handlers),
                      i < j, Reliable(m_handlers[i]),
                      NEW k \in 1..Len(seen'[m_handlers[i]]),
                      seen'[m_handlers[i]][k].src = m_handlers[j]
               PROVE  seen'[m_handlers[i]][k].taken
    BY <1>4 DEF EarlierSinksMissNothing
  <2>1. m_handlers[i] \in IO
    BY <1>1
  <2> DEFINE dst == m_handlers[i]
  <2>2. \/ k \in 1..Len(seen[dst]) /\ seen'[dst][k] = seen[dst][k]
        \/ dst = NextReceiver /\ seen'[dst][k].src = Top.io /\ seen'[dst][k].taken = taken
    BY <1>4, <2>1, SeenAfter DEF SinksInv
  <2>3. CASE k \in 1..Len(seen[dst]) /\ seen'[dst][k] = seen[dst][k]
    BY <2>3 DEF SinksInv, EarlierSinksMissNothing
  <2>4. CASE dst = NextReceiver /\ seen'[dst][k].src = Top.io /\ seen'[dst][k].taken = taken
    <3>1. Accepts(handler[NextReceiver])
      BY <1>4, <2>4, DropExcused DEF SinksInv
    <3> QED
      BY <1>4, <2>4, <3>1
  <2> QED
    BY <2>2, <2>3, <2>4
<1> QED
  BY <1>2, <1>3, <1>4, SinksSplit

LEMMA SinksInit == Init => SinksInv
<1> SUFFICES ASSUME Init PROVE SinksInv
  OBVIOUS
<1>1. FramesUp(stack) /\ ReliableUp /\ SeenFromAdded /\ EarlierSinksMissNothing
  BY DEF Init, FramesUp, ReliableUp, SeenFromAdded, EarlierSinksMissNothing
<1> QED
  BY <1>1, InvInit DEF SinksInv

LEMMA SinksStep == SinksInv /\ [Next]_vars => SinksInv'
<1> SUFFICES ASSUME SinksInv, [Next]_vars PROVE SinksInv'
  OBVIOUS
<1>1. Inv /\ FramesUp(stack) /\ ReliableUp /\ SeenFromAdded
  BY DEF SinksInv
<1>2. Inv'
  BY <1>1, InvStep
<1>3. FramesUp(stack)' /\ ReliableUp'
  BY <1>1, FramesUpStep, ReliableUpStep
<1>4. SeenFromAdded' /\ EarlierSinksMissNothing'
  BY <1>1, SeenFromAddedStep, SinksKept
<1> QED
  BY <1>2, <1>3, <1>4 DEF SinksInv

LEMMA SinksAlways == Spec => []SinksInv
  BY SinksInit, SinksStep, PTL DEF Spec

(* A destination that never fails and was added before its source misses   *)
(* no packet of it, in whatever order addIO(), start() and stop() are      *)
(* called: Engine::start begins with it, and Handler::stop disconnects the *)
(* source with it.                                                         *)
THEOREM ReliableSinksMissNothing == Spec => []EarlierSinksMissNothing
<1>1. SinksInv => EarlierSinksMissNothing
  BY DEF SinksInv
<1> QED
  BY <1>1, SinksAlways, PTL

-----------------------------------------------------------------------------
(* How deep the calls nest.  Without an IO that emits inside writeData(),  *)
(* reads, emissions and writes take turns on the call stack, and each read *)
(* handler is on it once.                                                  *)
Turn(k) == IF k % 3 = 1 THEN "read" ELSE IF k % 3 = 2 THEN "emit" ELSE "write"
Turns(s) == \A k \in 1..Len(s) : s[k].op = Turn(k)

NoEcho == \A io \in IO : ~Contract[io].echoes

TurnsInv == CountInv /\ Turns(stack)

(* On top of a turn, only the next one begins.                             *)
LEMMA PushTurns ==
  ASSUME NEW s \in Seq(Frames), Turns(s), NEW f \in Frames,
         \/ s = <<>> /\ f.op = "read"
         \/ /\ s # <<>>
            /\ \/ s[Len(s)].op = "read" /\ f.op = "emit"
               \/ s[Len(s)].op = "emit" /\ f.op = "write"
               \/ s[Len(s)].op = "write" /\ f.op = "read"
  PROVE  Append(s, f) \in Seq(Frames) /\ Turns(Append(s, f))
<1> DEFINE t == Append(s, f)
<1>1. /\ t \in Seq(Frames)
      /\ Len(t) = Len(s) + 1
      /\ Len(s) \in Nat
      /\ \A k \in 1..Len(s) : t[k] = s[k]
      /\ t[Len(s) + 1] = f
  BY AppendProperties
<1> HIDE DEF t
<1>2. f.op = Turn(Len(s) + 1)
  <2>1. CASE s = <<>> /\ f.op = "read"
    <3>1. Len(s) = 0
      BY <2>1
    <3> QED
      BY <2>1, <3>1 DEF Turn
  <2>2. CASE s # <<>>
    <3>1. Len(s) \in 1..Len(s)
      BY <2>2
    <3>2. s[Len(s)].op = Turn(Len(s))
      BY <3>1 DEF Turns
    <3> QED
      BY <1>1, <2>2, <3>2 DEF Turn
  <2> QED
    BY <2>1, <2>2
<1>3. ASSUME NEW k \in 1..Len(t) PROVE t[k].op = Turn(k)
  <2>1. k \in 1..Len(s) \/ k = Len(s) + 1
    BY <1>1
  <2> QED
    BY <1>1, <1>2, <2>1 DEF Turns
<1> QED
  BY <1>1, <1>3 DEF Turns, t

LEMMA TurnsStep ==
  ASSUME NoEcho, Typed, Turns(stack), Still \/ Emits \/ Leaves \/ Counts \/ Drops \/ Enters
  PROVE  Turns(stack')
<1>0. stack \in Seq(Frames)
  BY DEF Typed
<1>1. CASE Still
  BY <1>1 DEF Still
<1>2. CASE Emits
  <2>1. PICK io \in IO, frames \in Seq(Frames) : Opening(io, frames) /\ Emission(io, frames)
    BY <1>2 DEF Emits
  <2>2. /\ ReadFrame(io) \in Frames /\ ReadFrame(io).op = "read"
        /\ EmitFrame(io, Reads[io] + 1) \in Frames /\ EmitFrame(io, Reads[io] + 1).op = "emit"
    BY CallFrames DEF Typed
  <2>3. Turns(frames) /\ frames # <<>> /\ frames[Len(frames)] = ReadFrame(io)
    <3>1. CASE stack = <<>> /\ frames = <<ReadFrame(io)>>
      <4>1. frames = Append(stack, ReadFrame(io))
        BY <3>1
      <4>2. Turns(frames)
        BY <1>0, <2>2, <3>1, <4>1, PushTurns
      <4> QED
        BY <3>1, <4>2
    <3>2. CASE stack # <<>> /\ Top = ReadFrame(io) /\ frames = stack
      BY <3>2 DEF Top
    <3>3. CASE stack # <<>> /\ Top = WriteFrame(io) /\ frames = Append(stack, ReadFrame(io))
      <4>1. stack[Len(stack)].op = "write"
        BY <3>3 DEF Top, WriteFrame
      <4>2. Turns(frames)
        BY <1>0, <2>2, <3>3, <4>1, PushTurns
      <4>3. Len(frames) = Len(stack) + 1 /\ frames[Len(stack) + 1] = ReadFrame(io) /\ frames # <<>>
        BY <1>0, <2>2, <3>3, AppendProperties
      <4> QED
        BY <4>2, <4>3
    <3> QED
      BY <2>1, <3>1, <3>2, <3>3 DEF Opening
  <2>4. stack' = Append(frames, EmitFrame(io, Reads[io] + 1))
    BY <2>1 DEF Emission
  <2> QED
    BY <2>2, <2>3, <2>4, PushTurns
<1>3. CASE Leaves \/ Counts
  <2>1. stack # <<>> /\ stack' = Popped(stack)
    BY <1>3 DEF Leaves, Counts
  <2>2. /\ Len(stack') = Len(stack) - 1 /\ Len(stack) \in Nat
        /\ \A k \in 1..(Len(stack) - 1) : stack'[k] = stack[k]
    BY <1>0, <2>1, PoppedProperties
  <2> QED
    BY <2>2 DEF Turns
<1>4. ASSUME NEW taken \in BOOLEAN, Calling(taken)
      PROVE  /\ Advanced(stack) \in Seq(Frames) /\ Turns(Advanced(stack))
             /\ Advanced(stack) # <<>> /\ Advanced(stack)[Len(Advanced(stack))].op = "emit"
  <2>1. /\ stack # <<>> /\ Len(stack) \in Nat \ {0}
        /\ stack[Len(stack)] \in Frames /\ stack[Len(stack)].op = "emit"
    BY <1>4, CallingTypes DEF Calling
  <2>2. /\ Advanced(stack) \in Seq(Frames)
        /\ Len(Advanced(stack)) = Len(stack)
        /\ \A k \in 1..(Len(stack) - 1) : Advanced(stack)[k] = stack[k]
        /\ Advanced(stack)[Len(stack)] = [stack[Len(stack)] EXCEPT !.at = @ + 1]
    BY <1>0, <2>1, AdvancedProperties
  <2>3. Advanced(stack)[Len(stack)].op = stack[Len(stack)].op
    BY <2>1, <2>2 DEF Frames
  <2>4. ASSUME NEW k \in 1..Len(stack) PROVE Advanced(stack)[k].op = Turn(k)
    <3>1. k = Len(stack) \/ k \in 1..(Len(stack) - 1)
      BY <2>1
    <3> QED
      BY <2>2, <2>3, <3>1 DEF Turns
  <2> QED
    BY <2>1, <2>2, <2>3, <2>4 DEF Turns
<1>5. CASE Drops
  BY <1>4, <1>5 DEF Drops
<1>6. CASE Enters
  <2>1. Calling(TRUE) /\ NextReceiver \in IO
    BY <1>6 DEF Enters, Calling
  <2>2. WriteFrame(NextReceiver) \in Frames /\ WriteFrame(NextReceiver).op = "write"
    BY <2>1, CallFrames, 0 \in Nat
  <2>3. stack' = Append(Advanced(stack), WriteFrame(NextReceiver))
    BY <1>6, <2>1 DEF Enters, NoEcho
  <2> QED
    BY <1>4, <2>1, <2>2, <2>3, PushTurns
<1> QED
  BY <1>1, <1>2, <1>3, <1>5, <1>6

LEMMA TurnsAlways ==
  ASSUME NoEcho
  PROVE  Spec => []TurnsInv
<1>1. Init => TurnsInv
  <2> SUFFICES ASSUME Init PROVE TurnsInv
    OBVIOUS
  <2>1. CountInv
    BY CountInit
  <2>2. Len(stack) = 0
    BY DEF Init
  <2> QED
    BY <2>1, <2>2 DEF TurnsInv, Turns
<1>2. TurnsInv /\ [Next]_vars => TurnsInv'
  <2> SUFFICES ASSUME TurnsInv, [Next]_vars PROVE TurnsInv'
    OBVIOUS
  <2>1. CountInv /\ CountInv'
    BY CountStep DEF TurnsInv
  <2>2. Typed
    BY <2>1, TypedFromInv DEF CountInv, Inv
  <2>3. Still \/ Emits \/ Leaves \/ Counts \/ Drops \/ Enters
    BY <2>1, DispatchStep DEF CountInv
  <2>4. Turns(stack')
    BY <2>2, <2>3, TurnsStep DEF TurnsInv
  <2> QED
    BY <2>1, <2>4 DEF TurnsInv, Turns
<1> QED
  BY <1>1, <1>2, PTL DEF Spec

(* A stack of n calls has n/3 readers, rounded up, and no two are one IO.  *)
LEMMA ReadersBoundCalls ==
  ASSUME TurnsInv, SinksInv
  PROVE  BoundedRecursion
<1> DEFINE m == (Len(stack) + 2) \div 3
           reader == [k \in 1..m |-> stack[3 * k - 2].io]
<1>1. m_handlers \in Seq(IO) /\ stack \in Seq(Frames)
  BY DEF SinksInv, Inv, TypeOK
<1>2. Len(stack) \in Nat /\ m \in Nat /\ Len(stack) <= 3 * m
  BY <1>1
<1>3. IsFiniteSet(Added)
  <2> DEFINE add == [k \in 1..Len(m_handlers) |-> m_handlers[k]]
  <2>1. add \in Surjection(1..Len(m_handlers), Added)
    BY DEF Surjection, Added
  <2>2. IsFiniteSet(1..Len(m_handlers))
    BY <1>1, FS_Interval
  <2> QED
    BY <2>1, <2>2, FS_Surjection
<1>4. ASSUME NEW k \in 1..m
      PROVE  /\ 3 * k - 2 \in 1..Len(stack)
             /\ stack[3 * k - 2] = ReadFrame(stack[3 * k - 2].io)
             /\ stack[3 * k - 2].op = "read"
             /\ stack[3 * k - 2].io \in Added
  <2>1. 3 * k - 2 \in 1..Len(stack) /\ (3 * k - 2) % 3 = 1
    BY <1>1
  <2>2. ASSUME NEW n \in 1..Len(stack), n % 3 = 1
        PROVE  stack[n].op = "read" /\ stack[n].io \in IO /\ stack[n] = ReadFrame(stack[n].io)
    <3>1. Turn(n) = "read"
      BY ONLY <2>2 DEF Turn
    <3>2. stack[n].op = "read" /\ stack[n] \in Frames
      BY <1>1, <3>1 DEF TurnsInv, Turns
    <3>3. stack[n].op = "emit" \/ stack[n] = ReadFrame(stack[n].io) \/ stack[n] = WriteFrame(stack[n].io)
      BY DEF TurnsInv, CountInv, Shaped
    <3>4. WriteFrame(stack[n].io).op = "write"
      BY DEF WriteFrame
    <3> QED
      BY <3>2, <3>3, <3>4 DEF Frames
  <2>3. /\ stack[3 * k - 2].op = "read" /\ stack[3 * k - 2].io \in IO
        /\ stack[3 * k - 2] = ReadFrame(stack[3 * k - 2].io)
    BY <2>1, <2>2
  <2>4. dev[stack[3 * k - 2].io] # "idle"
    BY <2>1 DEF SinksInv, FramesUp
  <2>5. stack[3 * k - 2].io \in Added
    BY <2>3, <2>4 DEF SinksInv, Inv, DispatchInv, OthersFresh
  <2> QED
    BY <2>1, <2>3, <2>5
<1>5. reader \in Injection(1..m, Added)
  <2>1. reader \in [1..m -> Added]
    BY <1>4
  <2>2. ASSUME NEW j \in 1..m, NEW k \in 1..m, reader[j] = reader[k] PROVE j = k
    <3>1. stack[3 * j - 2].io = stack[3 * k - 2].io
      BY <2>2
    <3>2. stack[3 * j - 2] = stack[3 * k - 2]
      BY <1>4, <3>1
    <3>3. 3 * j - 2 = 3 * k - 2
      BY <1>4, <3>2 DEF TurnsInv, CountInv, Order, ReadersDiffer
    <3> QED
      BY <1>2, <3>3
  <2> QED
    BY <2>1, <2>2 DEF Injection, IsInjective
<1> HIDE DEF m, reader
<1>6. Cardinality(1..m) <= Cardinality(Added) /\ Cardinality(1..m) = m /\ Cardinality(Added) \in Nat
  BY <1>2, <1>3, <1>5, FS_Injection, FS_Interval, FS_CardinalityType
<1> QED
  BY <1>2, <1>6 DEF BoundedRecursion

(* When no IO emits inside its writeData(), the calls nested in one event  *)
(* are bounded by the number of IOs, whatever traffic arrives while writes *)
(* wait (waitForBytesWritten in TcpSocketIO, SerialPortIO).                *)
THEOREM RecursionIsBounded ==
  ASSUME NoEcho
  PROVE  Spec => []BoundedRecursion
<1>1. TurnsInv /\ SinksInv => BoundedRecursion
  BY ReadersBoundCalls
<1> QED
  BY <1>1, TurnsAlways, SinksAlways, PTL

-----------------------------------------------------------------------------
(***************************************************************************)
(* The promise of Dispatch.  What the stack does to its emissions is what  *)
(* the steps of Dispatch do to the set of those that are not over.         *)
(***************************************************************************)
LEMMA RemainingParts ==
  ASSUME NEW rc, NEW f
  PROVE  /\ Remaining(rc, f).src = f.io
         /\ Remaining(rc, f).pkt = f.pkt
         /\ Remaining(rc, f).to = SubSeq(rc[f.io], f.at, Len(rc[f.io]))
  BY DEF Remaining

LEMMA RestNotEmpty ==
  ASSUME NEW s \in Seq(IO), NEW m \in 1..Len(s)
  PROVE  SubSeq(s, m, Len(s)) # <<>>
<1> DEFINE r == SubSeq(s, m, Len(s))
<1>1. /\ m \in Int /\ Len(s) \in Int /\ m <= Len(s)
      /\ \A i \in m..Len(s) : s[i] \in IO
  OBVIOUS
<1>2. Len(r) = Len(s) - m + 1
  BY ONLY <1>1, SubSeqProperties
<1>3. Len(<<>>) = 0
  OBVIOUS
<1> HIDE DEF r
<1>4. r # <<>>
  BY ONLY <1>1, <1>2, <1>3
<1> QED
  BY ONLY <1>4 DEF r

(* An emission that calls its next receiver.                               *)
LEMMA RemainingNext ==
  ASSUME NEW rc \in [IO -> Seq(IO)], NEW f \in Frames, f.at \in 1..Len(rc[f.io])
  PROVE  /\ Remaining(rc, f).to # <<>>
         /\ Head(Remaining(rc, f).to) = rc[f.io][f.at]
         /\ Remaining(rc, [f EXCEPT !.at = @ + 1]) = [Remaining(rc, f) EXCEPT !.to = Tail(@)]
<1> DEFINE s == rc[f.io]
           g == [f EXCEPT !.at = @ + 1]
           rest == SubSeq(s, f.at, Len(s))
<1>1. f.io \in IO /\ f.at \in Nat \ {0}
  BY DEF Frames
<1>2. s \in Seq(IO) /\ f.at \in 1..Len(s)
  BY <1>1
<1>3. g.io = f.io /\ g.pkt = f.pkt /\ g.at = f.at + 1
  BY DEF Frames
<1> HIDE DEF s, g
<1>4. Len(s) \in f.at..Len(s) /\ f.at \in Int /\ Len(s) \in Int /\ f.at <= Len(s)
  BY ONLY <1>1, <1>2
<1>5. Head(rest) = s[f.at] /\ Tail(rest) = SubSeq(s, f.at + 1, Len(s))
  BY ONLY <1>2, <1>4, HeadTailOfSubSeq
<1>6. rest # <<>>
  BY ONLY <1>2, RestNotEmpty
<1>7. Remaining(rc, f) = [src |-> f.io, pkt |-> f.pkt, to |-> rest]
  BY DEF Remaining, s
<1>8. Remaining(rc, g) = [src |-> f.io, pkt |-> f.pkt, to |-> SubSeq(s, f.at + 1, Len(s))]
  BY <1>3 DEF Remaining, s
<1> HIDE DEF rest
<1>9. /\ Remaining(rc, f).to = rest
      /\ [Remaining(rc, f) EXCEPT !.to = Tail(@)] = [src |-> f.io, pkt |-> f.pkt, to |-> Tail(rest)]
  <2>1. Remaining(rc, f).to = rest
    BY ONLY <1>7
  <2>2. \A to : [Remaining(rc, f) EXCEPT !.to = to] = [src |-> f.io, pkt |-> f.pkt, to |-> to]
    BY ONLY <1>7
  <2>3. [Remaining(rc, f) EXCEPT !.to = Tail(@)]
          = [src |-> f.io, pkt |-> f.pkt, to |-> Tail(Remaining(rc, f).to)]
    BY ONLY <2>2
  <2>4. Tail(Remaining(rc, f).to) = Tail(rest)
    BY ONLY <2>1
  <2> QED
    BY ONLY <2>1, <2>3, <2>4
<1>10. Remaining(rc, f).to # <<>> /\ Head(Remaining(rc, f).to) = rc[f.io][f.at]
  BY ONLY <1>5, <1>6, <1>9 DEF s
<1>11. Remaining(rc, g) = [Remaining(rc, f) EXCEPT !.to = Tail(@)]
  BY ONLY <1>5, <1>8, <1>9
<1>12. Remaining(rc, [f EXCEPT !.at = @ + 1]) = [Remaining(rc, f) EXCEPT !.to = Tail(@)]
  BY ONLY <1>11 DEF g
<1> QED
  BY ONLY <1>10, <1>12

(* An emission at its end, and one that begins.                            *)
LEMMA RemainingNone ==
  ASSUME NEW rc \in [IO -> Seq(IO)], NEW f \in Frames, f.at > Len(rc[f.io])
  PROVE  Remaining(rc, f).to = <<>>
<1>1. f.io \in IO /\ f.at \in Nat \ {0}
  BY DEF Frames
<1>2. Len(rc[f.io]) \in Nat
  BY <1>1
<1>3. f.at \in Int /\ Len(rc[f.io]) \in Int /\ Len(rc[f.io]) < f.at
  BY ONLY <1>1, <1>2, f.at > Len(rc[f.io])
<1> QED
  BY ONLY <1>3, SubSeqEmpty, RemainingParts

LEMMA RemainingAll ==
  ASSUME NEW rc \in [IO -> Seq(IO)], NEW io \in IO, NEW n
  PROVE  Remaining(rc, EmitFrame(io, n)) = [src |-> io, pkt |-> n, to |-> rc[io]]
<1>1. rc[io] \in Seq(IO)
  OBVIOUS
<1>2. SubSeq(rc[io], 1, Len(rc[io])) = rc[io]
  BY ONLY <1>1, SubSeqFull
<1>3. EmitFrame(io, n).io = io /\ EmitFrame(io, n).pkt = n /\ EmitFrame(io, n).at = 1
  BY DEF EmitFrame
<1> QED
  BY ONLY <1>2, <1>3 DEF Remaining

(* The calls that are due, as the stack grows and shrinks.                 *)
OfTop(rc, f) == IF f.op = "emit" THEN {Remaining(rc, f)} ELSE {}

LEMMA DueNone == ASSUME NEW rc PROVE Due(rc, <<>>) = {}
  BY DEF Due

LEMMA DueAdded ==
  ASSUME NEW rc, NEW s, NEW t, Len(s) \in Nat, Len(t) = Len(s) + 1,
         \A k \in 1..Len(s) : t[k] = s[k]
  PROVE  Due(rc, t) = Due(rc, s) \cup OfTop(rc, t[Len(t)])
<1>1. /\ \A k \in 1..Len(t) : k \in 1..Len(s) \/ k = Len(t)
      /\ \A k \in 1..Len(s) : k \in 1..Len(t) /\ t[k] = s[k]
      /\ Len(t) \in 1..Len(t)
  OBVIOUS
<1>2. ASSUME NEW d \in Due(rc, t) PROVE d \in Due(rc, s) \cup OfTop(rc, t[Len(t)])
  <2>1. PICK k \in 1..Len(t) : t[k].op = "emit" /\ d = Remaining(rc, t[k])
    BY ONLY <1>2 DEF Due
  <2> QED
    BY ONLY <1>1, <2>1 DEF Due, OfTop
<1>3. ASSUME NEW d \in Due(rc, s) PROVE d \in Due(rc, t)
  <2>1. PICK k \in 1..Len(s) : s[k].op = "emit" /\ d = Remaining(rc, s[k])
    BY ONLY <1>3 DEF Due
  <2> QED
    BY ONLY <1>1, <2>1 DEF Due
<1>4. ASSUME NEW d \in OfTop(rc, t[Len(t)]) PROVE d \in Due(rc, t)
  BY ONLY <1>1, <1>4 DEF Due, OfTop
<1> QED
  BY ONLY <1>2, <1>3, <1>4

LEMMA DuePushed ==
  ASSUME NEW rc, NEW s \in Seq(Frames), NEW f \in Frames
  PROVE  Due(rc, Append(s, f)) = Due(rc, s) \cup OfTop(rc, f)
<1> DEFINE t == Append(s, f)
<1>1. /\ Len(s) \in Nat /\ Len(t) = Len(s) + 1
      /\ \A k \in 1..Len(s) : t[k] = s[k]
      /\ t[Len(t)] = f
  BY AppendProperties
<1> HIDE DEF t
<1>2. Due(rc, t) = Due(rc, s) \cup OfTop(rc, t[Len(t)])
  BY ONLY <1>1, DueAdded
<1> QED
  BY ONLY <1>1, <1>2 DEF t

(* The emission on top is due once, as no other is of its packet.          *)
LEMMA DuePopped ==
  ASSUME NEW rc, NEW s \in Seq(Frames), s # <<>>, EmissionsDiffer(s)
  PROVE  Due(rc, Popped(s)) = Due(rc, s) \ OfTop(rc, s[Len(s)])
<1>1. /\ Len(s) \in Nat \ {0}
      /\ Len(Popped(s)) = Len(s) - 1
      /\ \A k \in 1..(Len(s) - 1) : Popped(s)[k] = s[k]
  BY PoppedProperties
<1>2. /\ Len(Popped(s)) \in Nat /\ Len(s) = Len(Popped(s)) + 1
      /\ \A k \in 1..Len(Popped(s)) : s[k] = Popped(s)[k] /\ k \in 1..Len(s) /\ k # Len(s)
      /\ Len(s) \in 1..Len(s)
  BY ONLY <1>1
<1>3. Due(rc, s) = Due(rc, Popped(s)) \cup OfTop(rc, s[Len(s)])
  BY ONLY <1>2, DueAdded
<1>4. ASSUME NEW d \in Due(rc, Popped(s)), d \in OfTop(rc, s[Len(s)]) PROVE FALSE
  <2>1. PICK k \in 1..Len(Popped(s)) :
          Popped(s)[k].op = "emit" /\ d = Remaining(rc, Popped(s)[k])
    BY ONLY <1>4 DEF Due
  <2>2. s[Len(s)].op = "emit" /\ d = Remaining(rc, s[Len(s)])
    BY ONLY <1>4 DEF OfTop
  <2>3. k \in 1..Len(s) /\ k # Len(s) /\ s[k].op = "emit" /\ d = Remaining(rc, s[k])
    BY ONLY <1>2, <2>1
  <2>4. d.src = s[k].io /\ d.pkt = s[k].pkt
    BY ONLY <2>3 DEF Remaining
  <2>5. d.src = s[Len(s)].io /\ d.pkt = s[Len(s)].pkt
    BY ONLY <2>2 DEF Remaining
  <2> QED
    BY ONLY <1>2, <2>2, <2>3, <2>4, <2>5, EmissionsDiffer(s) DEF EmissionsDiffer
<1> QED
  BY ONLY <1>3, <1>4

LEMMA DueAdvanced ==
  ASSUME NEW rc \in [IO -> Seq(IO)], NEW s \in Seq(Frames), s # <<>>, EmissionsDiffer(s),
         s[Len(s)].op = "emit", s[Len(s)].at \in 1..Len(rc[s[Len(s)].io])
  PROVE  LET d == Remaining(rc, s[Len(s)])
         IN  /\ d \in Due(rc, s)
             /\ Due(rc, Advanced(s)) = (Due(rc, s) \ {d}) \cup {[d EXCEPT !.to = Tail(@)]}
<1> DEFINE top == s[Len(s)]
           next == [top EXCEPT !.at = @ + 1]
<1>1. Popped(s) \in Seq(Frames) /\ top \in Frames /\ Len(s) \in 1..Len(s)
  BY PoppedProperties
<1>2. next \in Frames /\ next.op = "emit"
  <2>1. next \in Frames
    BY AdvancedProperties
  <2>2. next.op = "emit"
    BY <1>1 DEF Frames
  <2> QED
    BY <2>1, <2>2
<1>3. Advanced(s) = Append(Popped(s), next)
  BY DEF Advanced
<1>4. Due(rc, Popped(s)) = Due(rc, s) \ OfTop(rc, top)
  BY DuePopped
<1>5. Remaining(rc, next) = [Remaining(rc, top) EXCEPT !.to = Tail(@)]
  BY <1>1, RemainingNext
<1>6. top \in {s[k] : k \in {j \in 1..Len(s) : s[j].op = "emit"}}
  BY <1>1
<1>7. Remaining(rc, top) \in Due(rc, s)
  BY <1>1 DEF Due
<1> HIDE DEF next, top
<1>8. Due(rc, Append(Popped(s), next)) = Due(rc, Popped(s)) \cup OfTop(rc, next)
  BY ONLY <1>1, <1>2, DuePushed
<1>9. OfTop(rc, next) = {Remaining(rc, next)} /\ OfTop(rc, top) = {Remaining(rc, top)}
  BY <1>2 DEF OfTop, top
<1> QED
  BY ONLY <1>3, <1>4, <1>5, <1>7, <1>8, <1>9 DEF top

(* Only addConnection() changes the connections, and only in the event     *)
(* loop.                                                                   *)
NewConnection ==
  /\ stack = <<>>
  /\ \E src, dst \in IO : receivers' = [receivers EXCEPT ![src] = Append(@, dst)]

LEMMA ConnectionsStep ==
  ASSUME TypeOK, [Next]_vars
  PROVE  UNCHANGED receivers \/ NewConnection
<1>1. CASE \E r \in Requests : AddConnection(r[1], r[2])
  <2>1. PICK r \in Requests : AddConnection(r[1], r[2])
    BY <1>1
  <2>2. PICK s, d \in 1..Len(m_handlers) :
          receivers' = [receivers EXCEPT ![m_handlers[s]] = Append(@, m_handlers[d])]
    BY <2>1 DEF AddConnection
  <2>3. m_handlers \in Seq(IO)
    BY DEF TypeOK
  <2>4. m_handlers[s] \in IO /\ m_handlers[d] \in IO
    BY ONLY <2>3, s \in 1..Len(m_handlers), d \in 1..Len(m_handlers)
  <2>5. stack = <<>>
    BY <2>1 DEF AddConnection, Quiescent
  <2> QED
    BY ONLY <2>2, <2>4, <2>5 DEF NewConnection
<1>2. CASE (\E io \in IO : AddIO(io)) \/ EngineStart \/ EngineStop \/ Destroy \/ StartNext \/ StartDone
  BY <1>2 DEF AddIO, EngineStart, EngineStop, Destroy, StartNext, StartDone
<1>3. CASE (\E io \in IO : ReadyRead(io) \/ WaitRead(io) \/ RuntimeError(io)) \/ ReadMore \/ Return
  BY <1>3 DEF ReadyRead, WaitRead, RuntimeError, ReadMore, Return, ReadDone, Drop, Write, EmitDone,
              WriteReturns, engineVars
<1>4. CASE UNCHANGED vars
  BY <1>4 DEF vars, engineVars
<1> QED
  BY <1>1, <1>2, <1>3, <1>4 DEF Next, Interface, Destroyed

(* A read handler that is entered, or goes on, has no packet under way.    *)
LEMMA NoneUnderWay ==
  ASSUME Typed, EmitsLatest(stack, Reads), ReadersDiffer(stack),
         NEW io \in IO, ~Echoing(io), NEW frames, Opening(io, frames)
  PROVE  \A d \in Due(receivers, stack) : d.src # io
<1> SUFFICES ASSUME NEW d \in Due(receivers, stack), d.src = io PROVE FALSE
  OBVIOUS
<1>1. PICK k \in 1..Len(stack) : stack[k].op = "emit" /\ d = Remaining(receivers, stack[k])
  BY ONLY d \in Due(receivers, stack) DEF Due
<1>2. stack[k].io = io
  BY ONLY <1>1, d.src = io DEF Remaining
<1>3. k > 1 /\ stack[k - 1] = ReadFrame(io)
  BY ONLY <1>1, <1>2, ~Echoing(io), EmitsLatest(stack, Reads) DEF EmitsLatest, Latest
<1>4. Len(stack) \in Nat
  BY DEF Typed
<1>5. k - 1 \in 1..Len(stack) /\ Len(stack) \in 1..Len(stack) /\ k - 1 # Len(stack) /\ stack # <<>>
  BY ONLY <1>3, <1>4
<1>6. Reading(io)
  BY ONLY <1>3, <1>5 DEF Reading
<1>7. stack[Len(stack)] # ReadFrame(io)
  <2>1. ReadFrame(io).op = "read"
    BY DEF ReadFrame
  <2> QED
    BY ONLY <1>3, <1>5, <2>1, ReadersDiffer(stack) DEF ReadersDiffer
<1> QED
  BY ONLY <1>5, <1>6, <1>7, Opening(io, frames) DEF Opening, Top

(* One step of what the stack does is one step of Dispatch, or none.       *)
Promised == Forwarding!Next \/ UNCHANGED Forwarding!vars

LEMMA StillPromised ==
  ASSUME Still, UNCHANGED receivers \/ NewConnection
  PROVE  Promised
<1>1. /\ stack' = stack /\ seen' = seen
      /\ [io \in IO |-> handler'[io].read] = [io \in IO |-> handler[io].read]
  BY DEF Still, Reads
<1>2. CASE UNCHANGED receivers
  <2>1. Due(receivers', stack') = Due(receivers, stack)
    BY ONLY <1>1, <1>2
  <2> QED
    BY ONLY <1>1, <1>2, <2>1 DEF Promised, Forwarding!vars
<1>3. CASE NewConnection
  <2>1. PICK src, dst \in IO : receivers' = [receivers EXCEPT ![src] = Append(@, dst)]
    BY <1>3 DEF NewConnection
  <2>2. stack = <<>> /\ stack' = <<>>
    BY <1>1, <1>3 DEF NewConnection
  <2>3. Due(receivers', stack') = Due(receivers, stack)
    BY ONLY <2>2, DueNone
  <2>4. Forwarding!Connect(src, dst)
    BY ONLY <1>1, <2>1, <2>3 DEF Forwarding!Connect
  <2> QED
    BY ONLY <2>4, src \in IO, dst \in IO DEF Promised, Forwarding!Next
<1> QED
  BY <1>2, <1>3

LEMMA OpeningDue ==
  ASSUME Typed, NEW io \in IO, NEW frames \in Seq(Frames), Opening(io, frames)
  PROVE  Due(receivers, frames) = Due(receivers, stack)
<1>1. ReadFrame(io) \in Frames /\ ReadFrame(io).op = "read"
  BY CallFrames, 0 \in Nat
<1>2. OfTop(receivers, ReadFrame(io)) = {}
  BY ONLY <1>1 DEF OfTop
<1>3. stack \in Seq(Frames)
  BY DEF Typed
<1>4. Due(receivers, Append(stack, ReadFrame(io))) = Due(receivers, stack)
  <2>1. Due(receivers, Append(stack, ReadFrame(io)))
          = Due(receivers, stack) \cup OfTop(receivers, ReadFrame(io))
    BY ONLY <1>1, <1>3, DuePushed
  <2> QED
    BY ONLY <1>2, <2>1
<1>5. CASE stack = <<>> /\ frames = <<ReadFrame(io)>>
  <2>1. frames = Append(stack, ReadFrame(io))
    BY <1>5
  <2> QED
    BY ONLY <1>4, <2>1
<1>6. CASE frames = stack
  BY ONLY <1>6
<1>7. CASE frames = Append(stack, ReadFrame(io))
  BY ONLY <1>4, <1>7
<1> QED
  BY ONLY <1>5, <1>6, <1>7, Opening(io, frames) DEF Opening

LEMMA EmissionDue ==
  ASSUME Typed, UNCHANGED receivers, NEW io \in IO, NEW frames \in Seq(Frames), Emission(io, frames)
  PROVE  Forwarding!Emits(io, Due(receivers, frames))
<1>1. Reads' = [Reads EXCEPT ![io] = @ + 1] /\ stack' = Append(frames, EmitFrame(io, Reads[io] + 1))
  BY DEF Emission
<1> DEFINE f == EmitFrame(io, Reads[io] + 1)
<1>2. f \in Frames /\ f.op = "emit" /\ receivers \in [IO -> Seq(IO)]
  BY CallFrames DEF Typed
<1>3. Remaining(receivers, f) = [src |-> io, pkt |-> Reads[io] + 1, to |-> receivers[io]]
  BY ONLY <1>2, io \in IO, RemainingAll
<1> HIDE DEF f
<1>4. OfTop(receivers, f) = {Remaining(receivers, f)}
  BY ONLY <1>2 DEF OfTop
<1>5. Due(receivers, Append(frames, f)) = Due(receivers, frames) \cup OfTop(receivers, f)
  BY ONLY <1>2, frames \in Seq(Frames), DuePushed
<1>6. Due(receivers', stack')
        = Due(receivers, frames) \cup {[src |-> io, pkt |-> Reads[io] + 1, to |-> receivers[io]]}
  <2>1. stack' = Append(frames, f)
    BY ONLY <1>1 DEF f
  <2> QED
    BY ONLY <1>3, <1>4, <1>5, <2>1, UNCHANGED receivers
<1>7. Reads = [o \in IO |-> handler[o].read] /\ Reads' = [o \in IO |-> handler'[o].read]
  BY DEF Reads
<1> QED
  BY ONLY <1>1, <1>6, <1>7 DEF Forwarding!Emits

LEMMA EmitsPromised ==
  ASSUME Typed, EmitsLatest(stack, Reads), ReadersDiffer(stack), Emits
  PROVE  Promised
<1>1. PICK io \in IO, frames \in Seq(Frames) : Opening(io, frames) /\ Emission(io, frames)
  BY DEF Emits
<1>2. UNCHANGED <<receivers, seen>>
  BY DEF Emits
<1>3. Due(receivers, frames) = Due(receivers, stack)
  BY ONLY <1>1, Typed, OpeningDue
<1>4. Forwarding!Emits(io, Due(receivers, stack))
  <2>1. Forwarding!Emits(io, Due(receivers, frames))
    BY <1>1, <1>2, EmissionDue
  <2> QED
    BY ONLY <1>3, <2>1 DEF Forwarding!Emits
<1>5. io \in {o \in IO : Contract[o].echoes} \/ \A d \in Due(receivers, stack) : d.src # io
  <2>1. CASE Echoing(io)
    BY <2>1 DEF Echoing
  <2>2. CASE ~Echoing(io)
    BY <1>1, <2>2, NoneUnderWay
  <2> QED
    BY ONLY <2>1, <2>2
<1>6. Forwarding!Emit(io)
  BY ONLY <1>2, <1>4, <1>5 DEF Forwarding!Emit
<1> QED
  BY ONLY <1>6, io \in IO DEF Promised, Forwarding!Next

(* A handler that returns leaves what is due alone, and an emission        *)
(* returns when nothing is left of it.                                     *)
LEMMA ReturnsPromised ==
  ASSUME Typed, EmissionsDiffer(stack), Leaves \/ Counts
  PROVE  Promised
<1>1. /\ stack # <<>> /\ stack' = Popped(stack)
      /\ UNCHANGED <<receivers, seen>>
      /\ Top.op = "emit" => Top.at > Len(receivers[Top.io])
  <2>1. WriteFrame(Top.io).op = "write"
    BY DEF WriteFrame
  <2> QED
    BY <2>1 DEF Leaves, Counts
<1>2. Reads' = Reads
  BY DEF Leaves, Counts
<1>3. [io \in IO |-> handler'[io].read] = [io \in IO |-> handler[io].read]
  BY <1>2 DEF Reads
<1>4. stack \in Seq(Frames) /\ receivers \in [IO -> Seq(IO)]
  BY DEF Typed
<1>5. Top \in Frames /\ Len(stack) \in 1..Len(stack) /\ Top = stack[Len(stack)]
  BY ONLY <1>1, <1>4, PoppedProperties DEF Top
<1>6. Due(receivers', stack') = Due(receivers, stack) \ OfTop(receivers, Top)
  <2>1. Due(receivers, Popped(stack)) = Due(receivers, stack) \ OfTop(receivers, stack[Len(stack)])
    BY ONLY <1>1, <1>4, EmissionsDiffer(stack), DuePopped
  <2> QED
    BY ONLY <1>1, <1>5, <2>1
<1>7. CASE Top.op # "emit"
  <2>1. OfTop(receivers, Top) = {}
    BY ONLY <1>7 DEF OfTop
  <2>2. Due(receivers', stack') = Due(receivers, stack)
    BY ONLY <1>6, <2>1
  <2> QED
    BY ONLY <1>1, <1>3, <2>2 DEF Promised, Forwarding!vars
<1>8. CASE Top.op = "emit"
  <2> DEFINE d == Remaining(receivers, Top)
  <2>1. OfTop(receivers, Top) = {d}
    BY ONLY <1>8 DEF OfTop
  <2>2. d.to = <<>>
    BY ONLY <1>1, <1>4, <1>5, <1>8, RemainingNone
  <2>3. d \in Due(receivers, stack)
    BY ONLY <1>5, <1>8 DEF Due
  <2> HIDE DEF d
  <2>4. Due(receivers', stack') = Due(receivers, stack) \ {d}
    BY ONLY <1>6, <2>1
  <2>5. Forwarding!Complete(d)
    BY ONLY <1>1, <1>3, <2>2, <2>4 DEF Forwarding!Complete, Forwarding!Without
  <2> QED
    BY ONLY <2>3, <2>5 DEF Promised, Forwarding!Next
<1> QED
  BY ONLY <1>7, <1>8

(* A receiver is called: it is the first of those that the emission on top *)
(* has left.                                                               *)
LEMMA CallingDue ==
  ASSUME Typed, EmissionsDiffer(stack), NEW taken \in BOOLEAN, Calling(taken)
  PROVE  LET d == Remaining(receivers, Top)
         IN  /\ d \in Due(receivers, stack)
             /\ Forwarding!Called(d, taken)
             /\ Head(d.to) = NextReceiver
             /\ Due(receivers, Advanced(stack)) = Forwarding!CalledNext(d)
<1> DEFINE d == Remaining(receivers, Top)
<1>1. /\ stack # <<>> /\ Top = stack[Len(stack)] /\ Top \in Frames /\ Top.op = "emit"
      /\ Top.at \in 1..Len(receivers[Top.io])
  BY CallingTypes DEF Calling
<1>2. receivers \in [IO -> Seq(IO)] /\ stack \in Seq(Frames)
  BY DEF Typed
<1>3. d.to # <<>> /\ Head(d.to) = receivers[Top.io][Top.at]
  BY ONLY <1>1, <1>2, RemainingNext
<1>4. d.src = Top.io /\ d.pkt = Top.pkt
  BY ONLY RemainingParts
<1>5. /\ d \in Due(receivers, stack)
      /\ Due(receivers, Advanced(stack)) = (Due(receivers, stack) \ {d}) \cup {[d EXCEPT !.to = Tail(@)]}
  <2>1. stack[Len(stack)].op = "emit" /\ stack[Len(stack)].at \in 1..Len(receivers[stack[Len(stack)].io])
    BY ONLY <1>1
  <2> QED
    BY ONLY <1>1, <1>2, <2>1, EmissionsDiffer(stack), DueAdvanced
<1> HIDE DEF d
<1>6. Head(d.to) = NextReceiver
  BY ONLY <1>3 DEF NextReceiver
<1>7. seen' = [seen EXCEPT ![NextReceiver] = Append(@, CallOf(Top, taken))] /\ UNCHANGED receivers
  BY ONLY Calling(taken) DEF Calling
<1>8. CallOf(Top, taken) = [src |-> d.src, pkt |-> d.pkt, taken |-> taken]
  BY ONLY <1>4 DEF CallOf
<1>9. Forwarding!Called(d, taken)
  BY ONLY <1>3, <1>6, <1>7, <1>8 DEF Forwarding!Called
<1>10. Due(receivers, Advanced(stack)) = Forwarding!CalledNext(d)
  BY ONLY <1>5 DEF Forwarding!CalledNext, Forwarding!Without
<1> QED
  BY ONLY <1>5, <1>6, <1>9, <1>10 DEF d

LEMMA DropsPromised ==
  ASSUME Typed, EmissionsDiffer(stack), Drops
  PROVE  Promised
<1> DEFINE d == Remaining(receivers, Top)
<1>1. Calling(FALSE) /\ stack' = Advanced(stack) /\ Reads' = Reads /\ UNCHANGED receivers
  BY DEF Drops, Calling
<1>2. /\ d \in Due(receivers, stack)
      /\ Forwarding!Called(d, FALSE)
      /\ Due(receivers, Advanced(stack)) = Forwarding!CalledNext(d)
  BY ONLY <1>1, Typed, EmissionsDiffer(stack), CallingDue
<1> HIDE DEF d
<1>3. [io \in IO |-> handler'[io].read] = [io \in IO |-> handler[io].read]
  BY ONLY <1>1 DEF Reads
<1>4. Due(receivers', stack') = Forwarding!CalledNext(d)
  BY ONLY <1>1, <1>2
<1>5. Forwarding!HandOver(d, FALSE)
  BY ONLY <1>2, <1>3, <1>4 DEF Forwarding!HandOver
<1> QED
  BY ONLY <1>2, <1>5 DEF Promised, Forwarding!Next

(* A receiver that echoes answers before anything else happens.            *)
LEMMA EntersPromised ==
  ASSUME Typed, EmissionsDiffer(stack), Enters
  PROVE  Promised
<1> DEFINE calls == Append(Advanced(stack), WriteFrame(NextReceiver))
<1>1. Calling(TRUE) /\ NextReceiver \in IO /\ UNCHANGED receivers
  BY DEF Enters, Calling
<1>2. PICK d \in Due(receivers, stack) :
      /\ Forwarding!Called(d, TRUE)
      /\ Head(d.to) = NextReceiver
      /\ Due(receivers, Advanced(stack)) = Forwarding!CalledNext(d)
  BY ONLY <1>1, Typed, EmissionsDiffer(stack), CallingDue
<1>3. calls \in Seq(Frames) /\ Due(receivers, calls) = Due(receivers, Advanced(stack))
  <2>1. WriteFrame(NextReceiver) \in Frames /\ WriteFrame(NextReceiver).op = "write"
    BY ONLY <1>1, CallFrames, 0 \in Nat
  <2>2. OfTop(receivers, WriteFrame(NextReceiver)) = {}
    BY ONLY <2>1 DEF OfTop
  <2>3. Advanced(stack) \in Seq(Frames)
    BY <1>1, CallingTypes, AdvancedProperties DEF Calling, Typed
  <2>4. Due(receivers, calls) = Due(receivers, Advanced(stack)) \cup OfTop(receivers, WriteFrame(NextReceiver))
    BY ONLY <2>1, <2>3, DuePushed
  <2>5. calls \in Seq(Frames)
    BY ONLY <2>1, <2>3, AppendProperties
  <2> QED
    BY ONLY <2>2, <2>4, <2>5
<1> HIDE DEF calls
<1>4. CASE stack' = calls /\ Reads' = Reads
  <2>1. [io \in IO |-> handler'[io].read] = [io \in IO |-> handler[io].read]
    BY ONLY <1>4 DEF Reads
  <2>2. Due(receivers', stack') = Forwarding!CalledNext(d)
    BY ONLY <1>1, <1>2, <1>3, <1>4
  <2>3. Forwarding!HandOver(d, TRUE)
    BY ONLY <1>2, <2>1, <2>2 DEF Forwarding!HandOver
  <2> QED
    BY ONLY <1>2, <2>3 DEF Promised, Forwarding!Next
<1>5. CASE Contract[NextReceiver].echoes /\ Emission(NextReceiver, calls)
  <2>1. Forwarding!Emits(NextReceiver, Due(receivers, calls))
    BY ONLY <1>1, <1>3, <1>5, Typed, EmissionDue DEF Forwarding!Emits
  <2>2. Forwarding!Emits(Head(d.to), Forwarding!CalledNext(d))
    BY ONLY <1>2, <1>3, <2>1 DEF Forwarding!Emits
  <2>3. Head(d.to) \in {io \in IO : Contract[io].echoes}
    BY ONLY <1>1, <1>2, <1>5
  <2>4. Forwarding!Answer(d)
    BY ONLY <1>2, <2>2, <2>3 DEF Forwarding!Answer
  <2> QED
    BY ONLY <1>2, <2>4 DEF Promised, Forwarding!Next
<1> QED
  BY <1>4, <1>5 DEF Enters, calls

(* The engine is the dispatcher of Dispatch: for every set of IOs, their   *)
(* contracts and connections, each packet reaches the connections its      *)
(* source had when it was read, in their order and each once, and a source *)
(* that does not echo has one packet under way at a time                   *)
(* (Handler::onNewData, the connect of Engine::addConnection).             *)
THEOREM EngineForwards == Spec => DispatchKept
<1>1. Init => Forwarding!Init
  <2> SUFFICES ASSUME Init PROVE Forwarding!Init
    OBVIOUS
  <2>1. receivers \in [IO -> Seq(IO)] /\ seen = [io \in IO |-> <<>>]
    BY DEF Init
  <2>2. [io \in IO |-> handler[io].read] = [io \in IO |-> 0]
    BY DEF Init, NewHandler
  <2>3. Due(receivers, stack) = {}
    BY DueNone DEF Init
  <2> QED
    BY ONLY <2>1, <2>2, <2>3 DEF Forwarding!Init
<1>2. CountInv /\ [Next]_vars => [Forwarding!Next]_Forwarding!vars
  <2> SUFFICES ASSUME CountInv, [Next]_vars PROVE Promised
    BY DEF Promised
  <2>1. Inv /\ Shaped(stack)
    BY DEF CountInv
  <2>2. TypeOK /\ Typed
    BY <2>1, TypedFromInv DEF Inv
  <2>3. EmissionsDiffer(stack) /\ EmitsLatest(stack, Reads) /\ ReadersDiffer(stack)
    BY DEF CountInv, Delivery, Order
  <2>4. Still \/ Emits \/ Leaves \/ Counts \/ Drops \/ Enters
    BY <2>1, DispatchStep
  <2>5. UNCHANGED receivers \/ NewConnection
    BY <2>2, ConnectionsStep
  <2> QED
    BY ONLY <2>2, <2>3, <2>4, <2>5, StillPromised, EmitsPromised, ReturnsPromised, DropsPromised,
       EntersPromised
<1> QED
  BY <1>1, <1>2, CountAlways, PTL DEF Spec, DispatchKept, Forwarding!Spec

=============================================================================
