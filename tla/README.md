# A verification project for ioproxy

ioproxy moves bytes between *IOs* (TCP clients and servers, UDP sockets, serial
ports, WebSockets, a byte generator, standard output, plugins). An *engine*
owns one *handler* per IO and connects the handlers: what one IO reads is
written to every IO connected to it. This directory holds TLA+ models of that
program, the TLC configurations that check them, and TLAPS proofs about them.
Source paths below are relative to `src/ioproxy/` of the repository.

## 1. The system

| Part | State it keeps | Operations | Interacts with |
| --- | --- | --- | --- |
| Engine (`Engine.cpp`) | `m_handlers`, `m_started`, the factories | `addIO`, `addConnection`, `start`, `stop`, destruction, `statisticSummary` | creates handlers, connects `Handler::newData` to `Handler::writeData` |
| Handler (`Handler.cpp`) | `m_state`, byte counters, the signal connections of its IO | `start`, `stop`, `writeData`; slots `onStarted`, `onStartupErrorOccured`, `onErrorOccured`, `onNewData` | calls its IO; hears it through signals; emits `newData` to other handlers |
| IO contract (`io/IOBase.hpp`) | - | `start`, `stop`, `writeData`; signals `started`, `startupErrorOccured`, `errorOccured`, `newData` | what every IO promises its handler |
| TcpSocketIO | `m_socket`, pending reconnect timers | connect, reconnect after 500 ms, read, blocking write | a remote peer, Qt's event loop |
| TcpServerIO | `m_sockets`, the listening socket | accept up to a limit, broadcast, read, write to all | clients that come and go |
| UdpSocketIO | the socket, the destinations | bind or join multicast groups, read, echo, write to each destination | the network |
| SerialPortIO | the port | open and configure, read, blocking write | a device |
| ByteGeneratorIO | `m_run`, a chain of 100 ms timers | emit packets, also inside `start()` | - |
| WebSocketIO, WebSocketServerIO | socket(s) | like TCP; the server connects none of its signals | a remote peer |
| StdOutIO, EchoIO (plugin) | - | print; emit what is written | - |
| Factories (`io/IOFactoryBase.cpp`) | parameter definitions | `checkRequiredParameters`, `getParaValue`, `create` | the command line |
| Command line (`CmdLineConfig.cpp`) | the parsed arguments | `fromArguments` | `main` |
| ioproxy-cli application | the engine, its plugins | parse, load plugins, create, connect, start; quit | the engine, the signal handler |
| Status printer | the last sample | a sample per second, as rates | `Engine::statisticSummary` |
| Signal handler (`os/SignalHandler.*.cpp`) | - | on Windows, tells the application to quit | runs in a thread of its own |

All of it but the Windows signal handler runs in one thread, and every signal
connection inside an engine is direct, so emitting a signal *is* calling the
slots, in the order they were connected. The hard behaviour is therefore mostly
not data races, but **re-entrancy** (a `writeData()` that blocks in
`waitForBytesWritten(-1)` may run a read handler, which writes, which blocks
...), **order** (of `start`, `stop`, `addIO`, `addConnection`, of the starts
inside `Engine::start`, of the options on the command line), **stale state** (a
handler keeps `Started` after `stop()` and `Failed` after a recovery; a timer
survives `stop()`), **partial failure** (one client of a server, one setting of
a port, one group of several, one IO of an application) and **limits** (buffers,
connections, rates that are rounded).

What makes each part correct:

* *Engine and Handler*: each packet reaches each connected handler exactly once
  and in order; no IO is written to unless it is between `start()` and `stop()`;
  lifecycle signals are connected once however start, stop and addIO are
  ordered; a dispatch comes to an end with bounded recursion; the statistics
  agree with what was handed over.
* *TcpSocketIO, WebSocketIO*: with the reconnect option they never get stranded and
  end up connected once the peer stays up; reconnects do not cut live connections.
* *Two connected TcpSocketIOs*: no byte is lost between them, and they do not
  wait for each other for ever.
* *TcpServerIO*: the socket list is exact; the limit holds; other clients are
  not affected by one that leaves. *WebSocketServerIO*: who listens when.
* *UdpSocketIO*: started means bound and a member of all groups; nobody listening
  is no failure; addresses are paired with ports as given.
* *SerialPortIO*: bytes read with the wrong settings come from a failed IO only.
* *ByteGeneratorIO*: the configured rate is reached, and a stopped chain ends.
* *Every IO*: towards its handler it does no more than its contract allows.
* *Command line, factories, application*: what runs is what is written, or
  nothing; the program ends when asked to.
* *Status printer*: each byte is in one sample, shown in the smallest unit that fits.

`PROJECT.json` lists all components with their status, and under `hazards` each
place where one of these can go wrong.

## 2. The modules

| Module | Models |
| --- | --- |
| `IOBase` | the signals, and one *contract* record per built-in IO: the last lifecycle signal of `start()`, in which device states its event handlers emit data or errors, whether `start()` bursts, whether `writeData()` blocks, echoes or fails |
| `Handler` | the Handler as a record (`m_state`, wiring, counters) with one operator per slot |
| `IOContract` | the abstract IO: everything a Handler can observe of an IO that keeps a given contract |
| `Engine` | the engine, its handlers and the dispatch of data, over any set of IOs with any contracts |
| `Dispatch` | what the engine promises of the data, without call stack, blocking or states: a packet that is emitted becomes due to the connections its source has then |
| `TcpSocketIO`, `TcpServerIO`, `UdpSocketIO`, `SerialPortIO`, `ByteGeneratorIO`, `WebSocketIO`, `WebSocketServerIO` | one IO each, with the Handler that owns it and with its device or peers |
| `UdpSocketIOFactory` | how the repeated `remote_address` and `remote_port` become destinations |
| `Link` | two TcpSocketIOs connected both ways, the buffers around them, and the programs at both ends |
| `CmdLineConfig` | `fromArguments`, one action per branch of its loop |
| `Factories` | the parameter definitions of all factories, the check of the required ones, what `create()` copies |
| `Application` | `main`, the application's `start` and `onQuit`, the registry of factories, the signal handler; extends the two above |
| `StatusPrinter` | samples of the statistics and the formatting of rates |
| `Parts` | eight of the parts, one at a time, each an instance of its module |
| `EngineProofs`, `TcpSocketIOProofs`, `TcpServerIOProofs`, `UdpSocketIOProofs`, `WebSocketIOProofs`, `PartsProofs`, `LinkProofs`, `ApplicationProofs` | lemmas and theorems |
| `MCEngineLifecycle`, `MCEngineBridge`, `MCApplication` | instances for TLC; `TcpSocketIO`, `Parts` and `Link` are run as they are |

**How they compose.** `Engine` takes `Contract`, a function from IOs to contract
records, as a CONSTANT. `ContractKept` in `Engine` says that for every IO the
engine is a user that `IOContract` allows; `ContractKept` in the module of each
of the seven IOs says that the real IO implements `IOContract` with its record
of `IOBase`. So what holds of the engine over contracts holds over these IOs.
Both sides are checked and proved, for the engine and for all seven IOs
(section 4). `StdOutIO` and `EchoIO` do nothing beyond their record,
`writeData()` being all they have. `Application` composes the parsing, the
factories and the order of the calls on the engine; its `engine` keeps the IOs
and connections as `Engine` does and stops at `started`.

**`Engine` and the code.** `stack` is the C++ call stack of the event loop
thread, with one frame for a running read handler (or a `start()` that bursts),
for an emission of `newData` that has reached receiver number `at`, and for a
`writeData()` that has not returned. `Quiescent` is the event loop itself.
`AddIO`, `AddConnection`, `EngineStart`, `EngineStop`, `Destroy` are the methods
of the class; `Engine::start` takes one step per handler (`StartNext`), because a
burst inside a `start()` is dispatched before the next handler starts. `Drop` and
`Write` are the two ways through `Handler::writeData`, `WaitRead` is the read
handler run by `waitForBytesWritten`. A byte array is a packet number; the
counters count packets. `fan` and `seen` are history: how many receivers each
emission had, and which calls each handler got.

**`Engine` and `Dispatch`.** `DispatchKept` says that `Engine` implements `Dispatch`.
`receivers` and `seen` are the same in both, `read` is the counter of the handler,
and the set `due` is read off the stack: the emissions on it, each with the
receivers from place `at` on, that is to say those still to call. So `Drop` and
`Write` are `HandOver`, a `Write` to an echoing IO that is still wired is `Answer`, the
return of an emission is `Complete`, and a `writeData()` that returns, the loop of a read handler, `start()`
and `stop()` are stutters.

**The IOs.** In each of them `handler` is the Handler, `running` says that it is
between `start()` and `stop()`, and a signal is the operator of `Handler` for its
slot, applied in the step that emits it.

* `TcpSocketIO`: `socket` is `m_socket` with its Qt state, `timers` the pending
  `singleShot` calls, `alive` and `peer` the remote side. A lost connection is
  noticed by the event loop or inside `waitForBytesWritten`; both are
  `ConnectionLost`.
* `WebSocketIO` is built alike. Its socket ends by an error (which reconnects) or
  by a close frame (which does not), `open()` may fail at once inside the slot of
  the timer, and a text message may count more bytes than it was given.
* `TcpServerIO`: `m_sockets` is a sequence of clients and `object` the QTcpSocket
  of each, `"closed"` until the event loop does the `deleteLater()`
  (`DeferredDelete`). `stop()` is entered by `HandlerStop` and walked socket by
  socket: `stopping` is where its loop stands and `walk` the array it goes over,
  with the slot of the iterator. `StopAborts` calls `abort()`, whose slot
  (`SocketDisconnected`) removes from that array as `QList::erase` does
  (`Erased`: the first is dropped by moving the beginning, any other by moving
  what follows), `StopDeletes` deletes the loop's `sock`, and `StopReturns`
  clears the list and disconnects. No event can come in between, and
  `Left`, the slots before the iterator, is all that the loop will see.
* `UdpSocketIO`: `joined` and `wired` tell what a `start()` that gave up half way
  left behind; `queue` is the datagrams that arrived, `faults` the kinds of socket
  errors since `start()`, which are either a refused datagram or any other.
* `SerialPortIO`: `settings` counts which of the set calls of `start()` have
  succeeded, and `plugged` lets the device go and come back at any moment.
* `ByteGeneratorIO`: time goes in windows of 100 ms; `due` timers expire in this
  window, `set` ones in the next; `found` is history.
* `WebSocketServerIO`: `listeners` are the servers that have the port, because
  `stop()` is empty; none of their signals is connected.

**`Link`.** `stack` holds the `onSocketReadyRead` and `writeData` calls that have
not returned; buffers are counted in bytes, those of the operating system have
`Capacity`, those of QTcpSocket no limit. `answers` says over which of the two
connections the far program answers. It takes away the assumption of `Engine`
that peers drain their connections.

**`CmdLineConfig`, `Factories`, `Application`.** An argument is a sequence of
symbols, as fine as the code looks at it (`=`, `,`, blanks, upper and lower
case: `"A"` is `"a"` in capitals). `fromArguments` runs one argument per step,
and `ParsedAsWritten` compares the result with a definition by positions.
`main` is where `main()` is, `step` where the application's `start()` is, and
`entered` the number of threads that are inside the control handler; `deadCall`
records that one of them called an application that was not there.

Operators such as `Drop_Rest` or `ConnectFails_Once` stand next to the action
they vary: each is a small mistake somebody could make in that code, and there is
one for every checked property that makes TLC find it violated.

## 3. What the runs show

| Run | Module / configuration | Result |
| --- | --- | --- |
| `lifecycle` | `MCEngineLifecycle` | a bursting generator, an echo, a UDP socket and a second IO under the echo's name, in every order of adding, connecting, starting, stopping, destroying: `NoWriteToStopped`, `SingleWiring`, `EarlierSinksMissNothing`, the inductive invariant `DispatchInv`, and each IO sees only what `IOContract` allows |
| `bridge` | `MCEngineBridge` | IOs that block and read inside writes, two of them wired both ways with a listener or three in a ring: `ExactlyOnce`, `InOrder`, `StatisticsMatch`, `BoundedRecursion`, `DispatchKept`, and `EventLoopReturns` under fairness |
| `tcp_socket` | `TcpSocketIO` | never stranded, reconnects alone, recovers, keeps its contract |
| `parts` | `Parts` | the other six IOs, the loop of the UDP factory and the status printer, each by itself: 17 properties, see below |
| `link` | `Link` | no byte is lost; over one connection every answer arrives; the system halts only when the answers go around over the other |
| `startup` | `MCApplication` | `ParsedAsWritten`, `RunsAsWritten`; `OneEventIsSafe`, `QuitsWhenAsked` and `StartEnds` with control events at every moment |
| `restart` | `MCEngineRestart.cfg` | **violated**: after a stop, a started IO no longer forwards (`Handler.cpp:76`) |
| `tcp_socket_forwards` | `TcpSocketIOForwards.cfg` | **violated**: after a reconnect the handler stays Failed and takes no data |
| `tcp_server_served` | `TcpServerIOServed.cfg` | **violated**: one refused or departing client ends the service for the others |
| `udp_factory_none` | `UdpSocketIOFactoryNone.cfg` | **violated**: with no destination given, the loop of `create` does not end (README.md:149-150) |
| `websocket_stranded` | `WebSocketIOStranded.cfg` | **violated**: a close frame of the peer leaves the client alone for good |
| `link_written` | `LinkWritten.cfg` | **violated**: `writeData()` returns with bytes left in the output buffer |

**`parts`.** The initial state picks one part and the behaviour is that of this
part; the variables of the others are `Unused` and stay so. So one run asks the
same question of each: what does `stop()` leave behind, what does a `start()`
that fails half way, is the contract kept? `TcpServerIO`: `SocketsLive`,
`LimitHeld`. `UdpSocketIO`: `StartedIsMember`, `RefusedIsNoFailure`. Its factory:
`PairsAsGiven`, `CreateReturns`. `SerialPortIO`: `MisconfiguredIsFailed`.
`ByteGeneratorIO`: `ChainsCounted` (a stop and start within 100 ms gives a second
chain, and no more than that), `RateReached`, `StoppedChainsEnd`. `WebSocketIO`:
`ReconnectsAlone`, `StrandedByCloseOnly`, `BinaryIsSafe`, `Recovers`.
`WebSocketServerIO`: `DeafIsFailed` (a `start()` that does not get the port,
from another program or from the IO's own earlier server, is reported). `StatusPrinter`: `EachByteShown`. All IOs:
`ContractKept`. The type invariant of `Parts`, which also says that what is not of the part is
`Unused`, is proved (`PartsTypeCorrect`) and not run.

**Disagreements.** The violated properties are each quoted from a document or a
comment; the `findings` of `PROJECT.json` give the line on both sides. More
disagreements were met that need no run, because one line shows them:

* README.md:146-147, two addresses with one port, is refused by
  `UdpSocketIO.cpp:308` (in `UdpSocketIOFactory`, the action `MissingPort`).
* README.md:83, 105-106 and 111 name the parameters `max_clients` and
  `broadcast_clients`, the code `max_connections` and `broadcast`
  (`TcpServerIO.cpp:167` and 174). An unknown key is ignored without a word.
* README.md:120 gives `0` as the default of `reconnect`, `TcpSocketIO.cpp:147` `true`.
* README.md:92 connects an IO `tcpserver`, where the command line names it `tcp_server`;
  README.md:82 gives a parameter `bind_socket` that is called `bind_port`.
* README.md:10 and 54 list a `filewriter`, which `Engine::registerBuiltIn` does not register.
* `WebSocketServerIO.cpp:24` stops nothing: the server of the run before goes on
  listening, so that an IO that has listened on a given port is Failed after its
  next `start()` (no text of the repository says what the `stop()` of an IO
  has to do, so there is no claim to refute; see `DeafIsFailed`).
* A reconnect that is pending at `stop()` still opens a socket (`TcpSocketIO.cpp:114`).
* A rate of 1000 bytes per second in packets of 4096 gives about 40 times that,
  because at least one packet leaves per 100 ms (`RateReached` has no upper half).
* A `max_connections` of 2^31 or more becomes negative (`TcpServerIO.cpp:203`).

**Bounds.** `MaxPackets` (packets read per IO) is 2: one packet can be overtaken,
repeated or lost only against another one, and reads that nest are limited by
`Reading` and not by the bound. `MaxFan` is 1 in `lifecycle`, where wiring is
free, and 2 in `bridge`, where a receiver comes after one that blocks; `Requests`
limits the free wirings to three pairs. The TCP and WebSocket clients get
two stops, and one timer more than stops: every timer, connection or attempt
stems from a different start, so that `MaxTimers = MaxStops + 1` never holds a
step back. Three clients for a limit of two leave one to be refused while others
leave. Two groups and a host give a join that fails after one that did not, and
two destinations a write that fails half way. Up to three addresses and ports, of
two values each, tell order and pairing apart, and five rounds exceed
every list. The generator's rates lie on both sides of each rounding (a packet
size of 1, 4 or 10 bytes, one call with 1, 2 or 20 packets), three stops give
three chains. Three listeners let a server meet its own earlier ones. The printer
counts with a second of 1 and a kilo of 2, up to 70 bytes, so that every unit
boundary is crossed; the time may go back. `Capacity` is 2 and `Bytes` 8 in `link`: with
that capacity the system can halt from six bytes on. Four bytes are enough in
`link_written`. The command lines are all those of up to three pieces, right or wrong, in any
order, with longer ones on which up to two control events come at every moment;
up to two plugins may fail to load, be something else, or take an ID twice.

**Fairness.** `Engine`: the thread goes on (`StartNext`, `StartDone`, and a call
that can return or call on does). That includes `WriteReturns`, which is an
assumption about the environment: peers drain their connections, otherwise
`waitForBytesWritten(-1)` blocks for ever, as the code accepts; `Link` looks into
this assumption. Likewise a read handler loops only as long as its device has
data, and the bound makes that finite. `TcpSocketIO` and `WebSocketIO`: timers
expire and the operating system reports the outcome of a connection attempt and
the end of a connection; nothing is assumed of the engine, of data or of the
peer: `Recovers` has the peer staying up as its premise. `ByteGeneratorIO`: timers
expire, `next()` goes on, time passes. `UdpSocketIOFactory`: the loop goes on.
`Link`: the proxy's thread, the far program and the client's writing go on when they can; of the
client's reading no more is assumed than that it reads once all is sent.
`Application`: the main thread and the control handler's thread go on.

**Deadlock** is checked in all runs but three. In `parts`, `create` returns and the
bounds end some behaviours. In `link` and `link_written` the client stops when all is answered,
and the system really can halt: `HaltsOnlyAcross` says when. The destroyed engine
and the ended program stutter explicitly (`Destroyed`, `Ended`).

## 4. What is proved

Each theorem holds for every value of its module's constants, under the named
assumptions. Every invariant and every action property that a passing run checks
is among them, but for `HaltsOnlyAcross`.

**`EngineProofs`**, for every set of IOs, every assignment of contracts, every set of
requests and every bound. Assumptions are those named in `Engine.tla`: `NameOf`,
`Contract` and `Requests` have their types, and the bounds are natural numbers.

* `TypeCorrect`, `DispatchInvariant`, `NeverWritesToStopped`, `WiredOnce`:
  `Spec => []P` for `TypeOK`, `DispatchInv`, `NoWriteToStopped`, `SingleWiring`.
* `FirstHandlerOfAName`: an IO added under a name that is taken is never
  connected (`FirstNameWins`; no run checks this one).
* `StatisticsAddUp`, `DeliversExactlyOnce`, `DeliversInOrder`: `StatisticsMatch`,
  `ExactlyOnce` and `InOrder`.
* `ReliableSinksMissNothing`: `EarlierSinksMissNothing`.
* `RecursionIsBounded`: `BoundedRecursion`, when no IO echoes (`NoEcho`).
* `EngineForwards`: `Spec => DispatchKept`, every behaviour of the engine is one of
  `Dispatch`, echoes and cycles of connections included.
* `EngineKeepsContracts`: `Spec => ContractKept`, the engine's side of the
  composition. Its further assumption `BurstsEmit` says that an IO whose `start()`
  emits data is left in a state in which it may emit, as is true of
  `ByteGeneratorContract`, the only one that bursts.

`NoWriteToStopped` is not inductive. `Handler::stop` leaves `m_state` at
`Started`, so a stopped handler does accept data: what protects it is the
combination of three facts that no single place of the code states.
(1) `StartProgress`: the running IOs are a prefix of `m_handlers`, all of it or
what the loop of `Engine::start` has reached. (2) `StoppedFirst`: `stop()` takes
away the constructor's `newData` connection from all handlers there are, so
those still connected, added later, are a suffix. (3) `NoStaleStarted`: a
handler that is still connected was never stopped, so its `Started` is not stale.
If during a start a source still emits, it is the one just started and
connected (`CallersUp`); a receiver before it is up by (1), a receiver after it is
connected by (2), and accepts only when up by (3). `Connected_Rewired`, the
obvious repair of the restart finding, breaks exactly this argument: whoever
renews the connection in `Handler::start` has to reset `m_state` in
`Handler::stop` as well.

`InvStep` has one lemma per group of actions. The steps of the dispatch share
`DataFlows`: they leave devices and engine alone, change handlers only within
`Keeps`, and push no write frame of an idle IO (`PushUp`, `ReturnUp`,
`ReceiverUp`). `StartHandlerWiring` says what a start may do, and is shared by
`AddIO` and `StartNext`. `EngineKeepsContracts` needs one more invariant over the stack,
`ReadersOpen`: a read handler on the stack belongs to an IO whose device still
may emit, so that a packet it reads after nested writes have returned is still
allowed by its contract. One lemma per kind of step (`DispatchKeeps`,
`StepKeeps`) maps it to a step of the abstract IO or a stutter.

What is counted over histories holds by `CountInv`. It looks at a step by what it
does to the stack and to the histories, which is one of six things: nothing
(`Still`), an emission begins (`Emits`), a read or an emission ends (`Leaves`), a
`writeData()` ends and is counted (`Counts`), a receiver drops the packet (`Drops`),
a receiver takes it and its `writeData()` begins (`Enters`). `Balanced`: a handler's
counter and its running writes are the calls it took. `Delivery`: of a packet whose
emission is still on the stack, each receiver has got as many copies as it has
places before `at`; of any other, all of them. Two emissions on the stack are never
of the same packet (`EmissionsDiffer`), which is what allows to speak of *the*
emission. `Order` needs three facts together, for a source that does not echo: a
receiver has seen nothing newer than the source has read (`SeenPast`), a running
emission is of the source's latest packet and right above its read handler
(`EmitsLatest`), and no read handler is on the stack twice (`ReadersDiffer`).
`ReliableSinksMissNothing` rests on `SinksInv`: the frames on the stack are of IOs
that are up, and a reliable IO that is up accepts. `TurnsInv` says that without
echoes the frames of the stack take turns, read, emit, write, so that three frames
go with each of the readers, which differ.

`EngineForwards` takes those six kinds of step one by one: `Still` is a stutter or
`Connect`, `Emits` is `Emit`, `Leaves` and `Counts` are `Complete` or a stutter,
`Drops` is `HandOver`, `Enters` is `HandOver` or `Answer`. The stack is a sequence with
frames of three kinds and `due` is a set, so the `Due...` lemmas say what a push, a
pop and the next place do to that set; only because of `EmissionsDiffer` does the
return of an emission take away its own packet and no other's. That an IO that does
not echo has one packet under way (the guard of `Emit`) follows from `EmitsLatest`
and `ReadersDiffer` (`NoneUnderWay`). That a packet goes to the connections of the
moment it was emitted needs `ConnectionsStep`: `addConnection` is only called from the
event loop, when nothing is due.

**The IOs.** All of them prove `Spec => ContractKept` from an invariant that says
how the Handler's state follows the socket's.

* `TcpSocketIOProofs`, with and without the option: `TcpTypeCorrect`,
  `OneReconnect` (`ReconnectsAlone`), `AlwaysARetry` (`NeverStranded`),
  `TcpImplementsContract`. The invariant adds `Fresh` (never stopped and not
  running means never started, so no timer), `Deaf` (a handler that is not
  running hears nothing, so the stale timer's errors are stuttering steps of the
  contract) and `DataOnce`.
* `TcpServerIOProofs`: `ListIsExact`, `LimitIsHeld`, `ServerImplementsContract`,
  for any set of clients, with the limit a natural number (`Limited`). The
  invariant says that the list has no duplicates and holds the open sockets, and
  of the loop of `stop()` (`Walks`, `Ahead`) that from its slot on, or from the
  next once a socket is aborted, the array holds what the list still holds, in
  the same order. So the socket it comes to is the first of the list, its slot
  removes the first (`InvAborts`), no element moves under the iterator, and none
  is skipped or met twice (`LeftAreAlive`). With an array in which the removal
  moved the others down this would fail, as with a loop by index
  (`Left_ByIndex`). `Removed` is about removing one element of such a list.
* `UdpSocketIOProofs`: `StartedMeansMember`, `RefusalIsNoFailure`, `UdpImplementsContract`.
* `WebSocketIOProofs`: `ReconnectIsAlone`, `OnlyCloseStrands`, `BinaryAccepts`,
  `WebSocketImplementsContract`.

**`PartsProofs`** proves what the run `parts` checks, one theorem for each of its
invariants and action properties, for every value of the constants of `Parts`.
Its assumptions are that the limit is a natural number (`LimitAssumption`), the
generator's rates are, and its packet sizes but zero (`RatesAssumption`), a kilo
is one (`UnitAssumption`), and the bounds are (`PartsBoundsAssumption`). `Begins`
and `Moves` say that a behaviour is one of the chosen part. The `Same...` lemmas
carry the theorems above over to the instances of `Parts`; for the parts that have
no module of their own, one lemma per part (`SerialAlways`, `GeneratorAlways`, ...)
gives an invariant:

* Serial port: the Handler hears of a running IO and of no other, which is why the
  failure of a `start()` half way through its settings reaches it (`SerialInv`).
* Generator: `m_run` is `running`, and a chain is counted at most once per
  start (`GeneratorInv`). `CeilingBounds`, `Products` and `RateByRounding` are the
  arithmetic of the two roundings, for all rates and sizes.
* WebSocket server: `start()` connects the Handler before it can fail, so that the
  error reaches it (`WsserverInv`).
* Status printer: what was printed is the sum of the last sample (`PrinterInv`);
  the units are a ladder of which the chosen one fits (`Ladder`, `ChosenFits`).
* UDP factory: after `index` rounds there are `index` destinations, each the pair
  of its place, and it returns only after the last address (`FactoryInv`).
* All of them together: `PartsTypeCorrect` from these invariants, and from
  `UnusedAlways`, that no step of a part touches what is not its own.

**`LinkProofs`**, for any number of bytes and any size of buffers.

* `NoByteLost` (`NothingLost`), by `Amounts`, the types of all the counters; no
  byte is on the stack, so this needs nothing about how calls nest.
* `NestingIsBounded`: at most four calls are open, and no handler is entered while
  it runs. The invariant `Nested` gives the only four there can be: a read of one
  connection, the write of the other, the read in it, the write of the first.
* `StandsStillOnlyAcross`: while the client has bytes to send, the whole can stand
  still only in a wait for the far peer, whose answers go around over the other
  connection. It is `HaltsOnlyAcross` with the guards of the actions written out
  (`CanGoOn`) where that property says ENABLED. It needs one more fact of `Nested`: whoever
  waits has something to write.

**`ApplicationProofs`**, for every set of command lines, of any length, whose arguments are
sequences of symbols (`CommandLinesAssumption`).

* `ParsedAsWrittenAlways` (`ParsedAsWritten`). The reference is a definition by
  positions in the whole line, the code goes from left to right with one IO in its
  hands. The invariant `Parsed` says that after `index` arguments the result is what
  the positions up to `index` describe (`Described`), but for the IO that is still being
  collected; one lemma per branch of the loop shows that the next argument
  extends it. Whether an argument is an option or an option's value is defined
  recursively along the line. That this function exists is shown by the least position
  at which it could go wrong (`WFMin`, `LeastOf`, `InForceExists`), as the induction
  theorems of the library are out of reach.
* `RunsAsWrittenAlways` (`RunsAsWritten`): `StartInv` says that the handlers are a
  prefix of the IOs and each of its IOs could be created (`Followed`), that the
  connections are a prefix of the pairs (`Wired`), and which of the two is complete
  at which step of `start()`.
* `OneEventIsSafeAlways` (`OneEventIsSafe`): the counting of `EventsInv`; a posted quit has
  left its control handler's thread.

What `Fields`, `Trimmed`, `Parameter` and `Connection` make of a single argument is
not looked into by these proofs: both sides of `ParsedAsWritten` call them.
What they compute is exercised by the run.

**Only model-checked**: `HaltsOnlyAcross`, which is about ENABLED, and all liveness
(`EventLoopReturns`, `Recovers` of both clients, `AllAnswered`, `CreateReturns`,
`StoppedChainsEnd`, `QuitsWhenAsked`, `StartEnds`), which needs fairness and
ENABLED, beyond what the prover handles. The violated properties are
counterexamples and need no proof.

## 5. What is not modelled

* `legacy/`, the old program, and FileReaderIO and FileWriterIO: no build file refers to them.
* Packet contents, error texts, logging, layout. What a string parameter becomes
  as a number (`toUInt` and its truncation to 16 bits), and which value a serial setting has.
* `packet_size=0` of the generator, which divides by zero and converts an
  infinity to an integer: undefined, whatever else happens.
* A cycle of connections made of echoing IOs only, which recurses without end once
  any packet enters it. No run has one, and `RecursionIsBounded` rules echoes out
  (`NoEcho`).
* Waits that nest over three or more connected sockets with bounded buffers:
  `Link` has two.
* What should happen when a serial device is pulled out. The device goes and
  comes in `SerialPortIO`, but nothing in the repository says what is right.
* The Linux signal handler, which is empty; the lookup of a network interface in
  `Util`, which the operating system answers (`iface` in `UdpSocketIO`).
* The statistics that the UDP socket keeps for itself, to which -1 is added when a
  datagram fails: nobody reads them.

## 6. Plan

What is left, in this order:

1. **Longer chains in `Link`**: three connected sockets, where a wait can nest in
   the wait of another, and whether `NestingIsBounded` holds with a larger bound.
2. **The numbers behind the strings**: what a parameter becomes as a number, with
   its width, in `Factories`.
