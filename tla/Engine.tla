------------------------------- MODULE Engine -------------------------------
(***************************************************************************)
(* ioproxy/Engine.cpp with its Handlers.  Everything runs in one Qt event  *)
(* loop thread and every connection is a direct one: emitting newData is a *)
(* synchronous call of each receiver's writeData, in the order the         *)
(* connections were made.  The nesting of those calls is the state of      *)
(* interest, so it is explicit: stack is the call stack of that thread.    *)
(***************************************************************************)
EXTENDS Handler, Sequences, FiniteSets

CONSTANTS IO,          \* the IO objects that may be added to the engine
          Name,        \* unique names, equal when they differ in case only
          NameOf,      \* m_uniqueName of every IO
          Contract,    \* what every IO does (IOBase.tla)
          Requests,    \* the <<source, destination>> of the addConnection() calls
          MaxFan,      \* bound: connections per source
          MaxPackets   \* bound: packets each IO reads from its device

ASSUME NameOfAssumption   == NameOf \in [IO -> Name]
ASSUME ContractAssumption == Contract \in [IO -> IOContracts]
ASSUME RequestsAssumption == Requests \subseteq Name \X Name
ASSUME BoundsAssumption   == MaxFan \in Nat /\ MaxPackets \in Nat

VARIABLES
  m_handlers,  \* the IOs added so far, in the order of Engine::m_handlers
  m_started,   \* Engine::m_started
  phase,       \* where the engine is: event loop, Engine::start, destroyed
  at,          \* the position Engine::start's loop has reached
  handler,     \* the Handler of every IO
  receivers,   \* the connections of every Handler::newData, oldest first
  dev,         \* the device of every IO
  stack,       \* the calls that have not returned, innermost last
  fan,         \* history: how many receivers each newData emission had
  seen         \* history: the writeData() calls each handler got

engineVars == <<m_handlers, m_started, phase, at, receivers>>
vars == <<engineVars, handler, dev, stack, fan, seen>>

(* A frame of the call stack: the read handler of io (or its start()) that *)
(* is emitting newData packet by packet; one emission of newData, about to *)
(* call receiver number at; io's writeData().                              *)
Frames == [op : {"read", "emit", "write"}, io : IO, pkt : Nat, at : Nat \ {0}]

ReadFrame(io)    == [op |-> "read",  io |-> io, pkt |-> 0, at |-> 1]
EmitFrame(io, n) == [op |-> "emit",  io |-> io, pkt |-> n, at |-> 1]
WriteFrame(io)   == [op |-> "write", io |-> io, pkt |-> 0, at |-> 1]

Top       == stack[Len(stack)]
Returned  == SubSeq(stack, 1, Len(stack) - 1)
Running(op) == stack # <<>> /\ Top.op = op
Reading(io) == \E k \in 1..Len(stack) : stack[k] = ReadFrame(io)

Added     == {m_handlers[k] : k \in 1..Len(m_handlers)}
Quiescent == phase = "idle" /\ stack = <<>>

Init ==
  /\ m_handlers = <<>>
  /\ m_started = FALSE
  /\ phase = "idle"
  /\ at = 1
  /\ handler = [io \in IO |-> NewHandler]
  /\ receivers = [io \in IO |-> <<>>]
  /\ dev = [io \in IO |-> "idle"]
  /\ stack = <<>>
  /\ fan = [io \in IO |-> <<>>]
  /\ seen = [io \in IO |-> <<>>]

-----------------------------------------------------------------------------
(* The helpers the actions share.                                          *)

(* The IO with handler records h emits newData on top of the calls frames. *)
OnNewData(h, io, frames) ==
  /\ handler' = [h EXCEPT ![io] = DataRead(@)]
  /\ fan' = [fan EXCEPT ![io] = Append(@, Len(receivers[io]))]
  /\ stack' = Append(frames, EmitFrame(io, h[io].read + 1))

(* Handler::start: connect, then IOBase::start, whose last lifecycle       *)
(* signal is signal.  A start() that bursts returns only after its newData.*)
StartHandler(io, signal) ==
  LET started == [handler EXCEPT ![io] = Signaled(Connected(@), signal)]
      bursts  == /\ Contract[io].bursts
                 /\ started[io].data
                 /\ started[io].read < MaxPackets
  IN  /\ dev' = [dev EXCEPT ![io] = IF signal \in ErrorSignal THEN "failed" ELSE "open"]
      /\ IF bursts THEN OnNewData(started, io, <<ReadFrame(io)>>)
                   ELSE handler' = started /\ UNCHANGED <<fan, stack>>

(* Handler::stop for the handlers of ios, one after the other              *)
StopHandlers(ios) ==
  /\ dev' = [io \in IO |-> IF io \in ios THEN "idle" ELSE dev[io]]
  /\ handler' = [io \in IO |-> IF io \in ios THEN Disconnected(handler[io]) ELSE handler[io]]

(* Engine::getIOHandler: the first handler of that name *)
IOHandler(name, k) ==
  /\ NameOf[m_handlers[k]] = name
  /\ \A j \in 1..(k - 1) : NameOf[m_handlers[j]] # name

-----------------------------------------------------------------------------
(* The engine's interface.  It is called from the event loop, never from   *)
(* inside a signal of an IO.                                               *)

(* Mutants of the actions below carry the name of the action and what they *)
(* get wrong; each is a change a maintainer could plausibly make.          *)

(* Engine::addIO.  The new handler has no receivers yet, so a burst of its *)
(* start() is over before push_back.                                       *)
AddIO(io) ==
  /\ Quiescent
  /\ io \notin Added
  /\ m_handlers' = Append(m_handlers, io)
  /\ IF m_started THEN \E signal \in Contract[io].start : StartHandler(io, signal)
                  ELSE UNCHANGED <<dev, handler, fan, stack>>
  /\ UNCHANGED <<m_started, phase, at, receivers, seen>>

(* Engine::addConnection; unknown names are an error that changes nothing. *)
AddConnection(source, destination) ==
  /\ Quiescent
  /\ \E s, d \in 1..Len(m_handlers) :
       /\ IOHandler(source, s)
       /\ IOHandler(destination, d)
       /\ Len(receivers[m_handlers[s]]) < MaxFan
       /\ receivers' = [receivers EXCEPT ![m_handlers[s]] = Append(@, m_handlers[d])]
  /\ UNCHANGED <<m_handlers, m_started, phase, at, handler, dev, stack, fan, seen>>

EngineStart_Unguarded ==
  /\ Quiescent
  /\ phase' = "starting"
  /\ at' = 1
  /\ UNCHANGED <<m_handlers, m_started, handler, receivers, dev, stack, fan, seen>>

(* Engine::start: the early return, then the loop, one handler at a time.  *)
EngineStart ==
  /\ Quiescent
  /\ ~m_started
  /\ phase' = "starting"
  /\ at' = 1
  /\ UNCHANGED <<m_handlers, m_started, handler, receivers, dev, stack, fan, seen>>

StartNext_Backwards ==
  /\ phase = "starting"
  /\ stack = <<>>
  /\ at <= Len(m_handlers)
  /\ at' = at + 1
  /\ LET io == m_handlers[Len(m_handlers) + 1 - at]
     IN  \E signal \in Contract[io].start : StartHandler(io, signal)
  /\ UNCHANGED <<m_handlers, m_started, phase, receivers, seen>>

StartNext ==
  /\ phase = "starting"
  /\ stack = <<>>
  /\ at <= Len(m_handlers)
  /\ at' = at + 1
  /\ \E signal \in Contract[m_handlers[at]].start : StartHandler(m_handlers[at], signal)
  /\ UNCHANGED <<m_handlers, m_started, phase, receivers, seen>>

StartDone ==
  /\ phase = "starting"
  /\ stack = <<>>
  /\ at > Len(m_handlers)
  /\ m_started' = TRUE
  /\ phase' = "idle"
  /\ at' = 1
  /\ UNCHANGED <<m_handlers, handler, receivers, dev, stack, fan, seen>>

(* Only the handlers that report Started are stopped *)
EngineStop_StartedOnly ==
  /\ Quiescent
  /\ StopHandlers({io \in Added : Accepts(handler[io])})
  /\ m_started' = FALSE
  /\ UNCHANGED <<m_handlers, phase, at, receivers, stack, fan, seen>>

(* Engine::stop has no guard: it also "stops" what was never started.      *)
EngineStop ==
  /\ Quiescent
  /\ StopHandlers(Added)
  /\ m_started' = FALSE
  /\ UNCHANGED <<m_handlers, phase, at, receivers, stack, fan, seen>>

(* Engine::~Engine deletes its children, and ~Handler calls stop().        *)
Destroy ==
  /\ Quiescent
  /\ StopHandlers(Added)
  /\ phase' = "destroyed"
  /\ UNCHANGED <<m_handlers, m_started, at, receivers, stack, fan, seen>>

-----------------------------------------------------------------------------
(* The dispatch of data, and the errors of running IOs.                    *)

(* An IO without its newData connection may emit, but nobody hears it.     *)
MayEmit(io) ==
  /\ dev[io] \in Contract[io].emits
  /\ handler[io].data
  /\ handler[io].read < MaxPackets

(* writeData() waits in an event loop of its own *)
ReadyRead_Nested(io) ==
  /\ Quiescent \/ (Running("write") /\ Contract[Top.io].waits)
  /\ MayEmit(io)
  /\ OnNewData(handler, io, Append(stack, ReadFrame(io)))
  /\ UNCHANGED <<engineVars, dev, seen>>

(* The IO reads from its construction on *)
ReadyRead_Early(io) ==
  /\ Quiescent
  /\ io \in Added
  /\ Contract[io].emits # {}
  /\ handler[io].data
  /\ handler[io].read < MaxPackets
  /\ OnNewData(handler, io, <<ReadFrame(io)>>)
  /\ UNCHANGED <<engineVars, dev, seen>>

(* The event loop calls the read handler of io (or the generator's timer). *)
ReadyRead(io) ==
  /\ Quiescent
  /\ MayEmit(io)
  /\ OnNewData(handler, io, <<ReadFrame(io)>>)
  /\ UNCHANGED <<engineVars, dev, seen>>

(* The read handler finds more data, or returns.                           *)
ReadMore ==
  /\ Running("read")
  /\ handler[Top.io].read < MaxPackets
  /\ OnNewData(handler, Top.io, stack)
  /\ UNCHANGED <<engineVars, dev, seen>>

(* The loop tests a condition that reading does not change *)
ReadDone_Spins ==
  /\ Running("read")
  /\ stack' = stack
  /\ UNCHANGED <<engineVars, handler, dev, fan, seen>>

ReadDone ==
  /\ Running("read")
  /\ stack' = Returned
  /\ UNCHANGED <<engineVars, handler, dev, fan, seen>>

(* The latest connection is called first *)
NextReceiver_Latest == receivers[Top.io][Len(receivers[Top.io]) + 1 - Top.at]

(* The emission on top calls Handler::writeData of its next receiver.      *)
NextReceiver == receivers[Top.io][Top.at]

SlotCalled(taken) ==
  seen' = [seen EXCEPT ![NextReceiver] =
             Append(@, [src |-> Top.io, pkt |-> Top.pkt, taken |-> taken])]

SlotLeft == Append(Returned, [Top EXCEPT !.at = @ + 1])

HasNextReceiver ==
  /\ Running("emit")
  /\ Top.at <= Len(receivers[Top.io])

(* A handler that is not started ends the emission for those after it *)
Drop_Rest ==
  /\ HasNextReceiver
  /\ ~Accepts(handler[NextReceiver])
  /\ SlotCalled(FALSE)
  /\ stack' = Returned
  /\ UNCHANGED <<engineVars, handler, dev, fan>>

Drop ==
  /\ HasNextReceiver
  /\ ~Accepts(handler[NextReceiver])
  /\ SlotCalled(FALSE)
  /\ stack' = SlotLeft
  /\ UNCHANGED <<engineVars, handler, dev, fan>>

(* The handler is started: IOBase::writeData is entered, and an echoing    *)
(* one emits at once.                                                      *)
Write ==
  /\ HasNextReceiver
  /\ Accepts(handler[NextReceiver])
  /\ SlotCalled(TRUE)
  /\ LET io    == NextReceiver
         calls == Append(SlotLeft, WriteFrame(io))
     IN  IF Contract[io].echoes /\ handler[io].data
         THEN OnNewData(handler, io, calls)
         ELSE stack' = calls /\ UNCHANGED <<handler, fan>>
  /\ UNCHANGED <<engineVars, dev>>

EmitDone ==
  /\ Running("emit")
  /\ Top.at > Len(receivers[Top.io])
  /\ stack' = Returned
  /\ UNCHANGED <<engineVars, handler, dev, fan, seen>>

(* waitForBytesWritten(-1) inside writeData() delivers what has arrived    *)
(* meanwhile.  Qt does not emit readyRead while a slot of it still runs.   *)
WaitRead(io) ==
  /\ Running("write")
  /\ Top.io = io
  /\ Contract[io].waits
  /\ MayEmit(io)
  /\ ~Reading(io)
  /\ OnNewData(handler, io, Append(stack, ReadFrame(io)))
  /\ UNCHANGED <<engineVars, dev, seen>>

(* Nothing is counted when the write failed *)
WriteReturns_Uncounted ==
  /\ Running("write")
  /\ \/ handler' = [handler EXCEPT ![Top.io].written = @ + 1]
     \/ /\ Contract[Top.io].writeFails
        /\ handler' = [handler EXCEPT ![Top.io] = Signaled(@, "errorOccured")]
  /\ stack' = Returned
  /\ UNCHANGED <<engineVars, dev, fan, seen>>

(* writeData() returns, with an error or without; Handler::writeData adds  *)
(* to m_bytesWritten in both cases.                                        *)
WriteReturns ==
  /\ Running("write")
  /\ \E signal \in {"none"} \cup (IF Contract[Top.io].writeFails THEN {"errorOccured"} ELSE {}) :
       handler' = [handler EXCEPT ![Top.io] = DataWritten(@, signal)]
  /\ stack' = Returned
  /\ UNCHANGED <<engineVars, dev, fan, seen>>

(* The device of io fails, between events or inside its read handler.      *)
RuntimeError(io) ==
  /\ Quiescent \/ (Running("read") /\ Top.io = io)
  /\ dev[io] \in Contract[io].errors
  /\ handler' = [handler EXCEPT ![io] = Signaled(@, "errorOccured")]
  /\ UNCHANGED <<engineVars, dev, stack, fan, seen>>

Destroyed ==
  /\ phase = "destroyed"
  /\ UNCHANGED vars

-----------------------------------------------------------------------------
Interface ==
  \/ \E io \in IO : AddIO(io)
  \/ \E r \in Requests : AddConnection(r[1], r[2])
  \/ EngineStart
  \/ EngineStop
  \/ Destroy

Return == ReadDone \/ Drop \/ Write \/ EmitDone \/ WriteReturns

Next ==
  \/ Interface
  \/ StartNext
  \/ StartDone
  \/ \E io \in IO : ReadyRead(io) \/ WaitRead(io) \/ RuntimeError(io)
  \/ ReadMore
  \/ Return
  \/ Destroyed

Spec == Init /\ [][Next]_vars

(* A thread that can go on goes on.  WriteReturns is part of it: every     *)
(* peer is assumed to drain its connection, so waitForBytesWritten(-1)     *)
(* comes back.                                                             *)
Fairness == WF_vars(StartNext) /\ WF_vars(StartDone) /\ WF_vars(Return)

FairSpec == Spec /\ Fairness

-----------------------------------------------------------------------------
(* Every variable has its type; a connection leads to an added handler.    *)
TypeOK ==
  /\ m_handlers \in Seq(IO)
  /\ m_started \in BOOLEAN
  /\ phase \in {"idle", "starting", "destroyed"}
  /\ at \in Nat \ {0}
  /\ handler \in [IO -> Handlers]
  /\ receivers \in [IO -> Seq(IO)]
  /\ dev \in [IO -> Device]
  /\ stack \in Seq(Frames)
  /\ fan \in [IO -> Seq(Nat)]
  /\ seen \in [IO -> Seq([src : IO, pkt : Nat, taken : BOOLEAN])]

(* writeData() runs only on an IO that is between its start() and its      *)
(* stop().  Handler::stop leaves m_state at Started, and UdpSocketIO's     *)
(* writeData dereferences a socket that stop() has deleted: what saves it  *)
(* is that a source whose newData still reaches its handler is started     *)
(* after every handler that may hold a stale Started.                      *)
NoWriteToStopped ==
  \A k \in 1..Len(stack) : stack[k].op = "write" => dev[stack[k].io] # "idle"

(* Why NoWriteToStopped holds.  The handlers that run are those that       *)
(* Engine::start has reached (Up); a handler that was stopped lost its     *)
(* newData connection together with all that were added before it, so the  *)
(* handlers that still forward data come last, and none of them holds a    *)
(* stale Started; and what is on the stack goes back to an IO that is up.  *)
Up(k) ==
  \/ phase = "idle" /\ m_started
  \/ phase = "starting" /\ k < at

HandlersDistinct ==
  \A i, j \in 1..Len(m_handlers) : m_handlers[i] = m_handlers[j] => i = j
ConnectionsAdded ==
  \A src \in IO : \A k \in 1..Len(receivers[src]) : receivers[src][k] \in Added
OthersFresh ==
  \A io \in IO : io \notin Added => (dev[io] = "idle" /\ handler[io].data)
StartProgress ==
  /\ phase = "starting" => (~m_started /\ at <= Len(m_handlers) + 1)
  /\ \A k \in 1..Len(m_handlers) : dev[m_handlers[k]] # "idle" <=> Up(k)
StoppedFirst ==
  \A i, j \in 1..Len(m_handlers) :
    (i < j /\ handler[m_handlers[i]].data) => handler[m_handlers[j]].data
NoStaleStarted ==
  \A io \in IO : (handler[io].data /\ Accepts(handler[io])) => dev[io] # "idle"
CallersUp ==
  stack # <<>> =>
    \/ phase = "idle" /\ m_started
    \/ phase = "starting" /\ at > 1 /\ handler[m_handlers[at - 1]].data

DispatchInv ==
  /\ HandlersDistinct
  /\ ConnectionsAdded
  /\ OthersFresh
  /\ StartProgress
  /\ StoppedFirst
  /\ NoStaleStarted
  /\ CallersUp

(* However addIO, start and stop are ordered, an IO that is running has    *)
(* each lifecycle signal connected once and any other IO has none, so no   *)
(* signal is handled twice or after stop() (Handler::start, Handler::stop).*)
SingleWiring ==
  \A io \in IO : handler[io].lifecycle = IF dev[io] = "idle" THEN 0 ELSE 1

(* Back in the event loop, each handler has had one writeData() call for   *)
(* each packet of each source and each connection to it that the packet    *)
(* was emitted to: none lost, none twice, whatever reads were nested in    *)
(* whatever writes.                                                        *)
ExactlyOnce ==
  stack = <<>> =>
    \A src, dst \in IO : \A n \in 1..Len(fan[src]) :
      Cardinality({k \in 1..Len(seen[dst]) : seen[dst][k].src = src /\ seen[dst][k].pkt = n})
        = Cardinality({k \in 1..fan[src][n] : receivers[src][k] = dst})

(* The packets of one source reach each handler in the order they were     *)
(* read, although a write may block and let other IOs' data overtake it.   *)
(* An IO that emits inside writeData() is itself re-entered, and does not  *)
(* keep the order.                                                         *)
InOrder ==
  \A dst \in IO : \A j, k \in 1..Len(seen[dst]) :
    (j < k /\ seen[dst][j].src = seen[dst][k].src /\ ~Contract[seen[dst][j].src].echoes)
      => seen[dst][j].pkt <= seen[dst][k].pkt

(* m_bytesWritten counts what was handed to the IO, less the writeData()   *)
(* calls that have not returned; dropped packets are not in the statistics.*)
StatisticsMatch ==
  \A io \in IO :
    handler[io].written + Cardinality({k \in 1..Len(stack) : stack[k] = WriteFrame(io)})
      = Cardinality({k \in 1..Len(seen[io]) : seen[io][k].taken})

(* The thread's stack does not grow with the traffic: without IOs that     *)
(* emit inside writeData(), an IO is on it at most once as a reader, with  *)
(* one emission and one write below the next reader.                       *)
BoundedRecursion == Len(stack) <= 3 * Cardinality(Added)

(* A destination that was added before its source and never fails misses   *)
(* no packet of it: Engine::start starts it first, addIO starts it at once.*)
Reliable(io) ==
  Contract[io].start = {"started"} /\ Contract[io].errors = {} /\ ~Contract[io].writeFails
EarlierSinksMissNothing ==
  \A i, j \in 1..Len(m_handlers) :
    (i < j /\ Reliable(m_handlers[i])) =>
      \A k \in 1..Len(seen[m_handlers[i]]) :
        seen[m_handlers[i]][k].src = m_handlers[j] => seen[m_handlers[i]][k].taken

(* getIOHandler finds the first IO of a name for good: an IO added under a *)
(* name that is taken gets no connection, and takes none over.             *)
FirstNameWins ==
  \A i, j \in 1..Len(m_handlers) :
    (i < j /\ NameOf[m_handlers[i]] = NameOf[m_handlers[j]]) =>
      /\ receivers[m_handlers[j]] = <<>>
      /\ \A src \in IO : \A k \in 1..Len(receivers[src]) : receivers[src][k] # m_handlers[j]

(* To every IO the engine is the user that IOContract describes: it starts *)
(* an IO only when it is stopped, writes to it only when it is started,    *)
(* and its Handler follows what that IO alone does.                        *)
Abstract(io) == INSTANCE IOContract
                  WITH contract <- Contract[io], handler <- handler[io], dev <- dev[io]
ContractKept ==
  /\ \A io \in IO : Abstract(io)!Init
  /\ [][\A io \in IO : Abstract(io)!Next \/ UNCHANGED <<handler[io], dev[io]>>]_vars

(* What the stack has still to call: the connections after the one each    *)
(* emission has reached.                                                   *)
Remaining(rc, f) ==
  [src |-> f.io, pkt |-> f.pkt, to |-> SubSeq(rc[f.io], f.at, Len(rc[f.io]))]
Due(rc, s) == {Remaining(rc, s[k]) : k \in {j \in 1..Len(s) : s[j].op = "emit"}}

(* However reads and writes nest, the calls keep the promise of Dispatch:  *)
(* every packet goes to the connections its source had when it was read    *)
(* and to no other, in their order, to each once, and a source that does   *)
(* not echo has one packet under way at a time (Handler::onNewData, the    *)
(* connect of Engine::addConnection).                                      *)
Forwarding == INSTANCE Dispatch
                WITH Answering <- {io \in IO : Contract[io].echoes},
                     read      <- [io \in IO |-> handler[io].read],
                     due       <- Due(receivers, stack)
DispatchKept == Forwarding!Spec

(* Every dispatch comes to an end and Engine::start returns.               *)
EventLoopReturns == []<>(stack = <<>> /\ phase # "starting")

(* "Handler manages the lifecycle and communication with the IOBase        *)
(* object" (Handler.hpp:10): a started IO's data reaches its handler.      *)
StartedForwards ==
  (m_started /\ phase = "idle") => \A io \in Added : handler[io].data

=============================================================================
