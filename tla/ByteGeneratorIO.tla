-------------------------- MODULE ByteGeneratorIO ---------------------------
(***************************************************************************)
(* io/ByteGenerator/ByteGeneratorIO.cpp with the Handler that owns it.     *)
(* next() emits its share of a second and sets a 100 ms timer for itself;  *)
(* that chain is never cancelled, it ends when next() finds m_run false.   *)
(* Time is counted in windows of 100 ms, in which every timer that was set *)
(* in the window before expires once.                                      *)
(***************************************************************************)
EXTENDS Handler

CONSTANTS Rate,        \* the values m_options.bytesPerSecond may have
          PacketSize,  \* the values m_options.packetSize may have, zero excepted: it makes
                        \* the constructor convert an infinity to an integer (undefined)
          MaxStops,    \* bound: how often the engine stops the IO
          MaxReads     \* bound: packets read, after which no window begins

VARIABLES
  bytesPerSecond, packetSize,  \* m_options
  m_run,
  left,       \* the newData that next() has to emit before it returns
  emitting,   \* next() is running
  due,        \* timers that expire in this window
  set,        \* timers set in this window
  found,      \* history: the timers that the last start() found pending
  handler,    \* the Handler
  running,    \* Handler::start has been called and Handler::stop has not since
  stops       \* bound: calls of stop() so far

options == <<bytesPerSecond, packetSize>>
timers  == <<due, set>>
vars    == <<options, m_run, left, emitting, timers, found, handler, running, stops>>

Ceiling(a, b) == (a + b - 1) \div b

(* Mutant: the packets of a second are rounded down.                       *)
PacketsPerSecond_Floor == bytesPerSecond \div packetSize

PacketsPerSecond == Ceiling(bytesPerSecond, packetSize)
PacketsPerCall   == Ceiling(PacketsPerSecond, 10)

Pending == due + set

Init ==
  /\ bytesPerSecond \in Rate
  /\ packetSize \in PacketSize
  /\ m_run = FALSE
  /\ left = 0
  /\ emitting = FALSE
  /\ due = 0
  /\ set = 0
  /\ found = 0
  /\ handler = NewHandler
  /\ running = FALSE
  /\ stops = 0

-----------------------------------------------------------------------------
(* The first newData of next() is part of the call: left packets and the   *)
(* handler h become those after it.                                        *)
FirstPacket(h) ==
  /\ emitting' = TRUE
  /\ left' = IF PacketsPerCall = 0 THEN 0 ELSE PacketsPerCall - 1
  /\ handler' = IF PacketsPerCall > 0 /\ h.data THEN DataRead(h) ELSE h

(* Mutant: a second start() leaves it to the timer of the first.           *)
HandlerStart_Once ==
  /\ ~running
  /\ ~emitting
  /\ running' = TRUE
  /\ m_run' = TRUE
  /\ found' = Pending
  /\ IF stops = 0 THEN FirstPacket(Connected(handler))
                  ELSE handler' = Connected(handler) /\ UNCHANGED <<left, emitting>>
  /\ UNCHANGED <<options, timers, stops>>

(* Handler::start and ByteGeneratorIO::start                               *)
HandlerStart ==
  /\ ~running
  /\ ~emitting
  /\ running' = TRUE
  /\ m_run' = TRUE
  /\ found' = Pending
  /\ FirstPacket(Connected(handler))
  /\ UNCHANGED <<options, timers, stops>>

(* Handler::stop and ByteGeneratorIO::stop                                 *)
HandlerStop ==
  /\ running
  /\ ~emitting
  /\ stops < MaxStops
  /\ running' = FALSE
  /\ m_run' = FALSE
  /\ stops' = stops + 1
  /\ handler' = Disconnected(handler)
  /\ UNCHANGED <<options, left, emitting, timers, found>>

(* A timer expires.  Mutant: next() sets its timer before it looks at      *)
(* m_run.                                                                  *)
TimerFires_Rearms ==
  /\ ~emitting
  /\ due > 0
  /\ due' = due - 1
  /\ IF m_run THEN FirstPacket(handler) /\ UNCHANGED set
              ELSE set' = set + 1 /\ UNCHANGED <<left, emitting, handler>>
  /\ UNCHANGED <<options, m_run, found, running, stops>>

TimerFires ==
  /\ ~emitting
  /\ due > 0
  /\ due' = due - 1
  /\ IF m_run THEN FirstPacket(handler) ELSE UNCHANGED <<left, emitting, handler>>
  /\ UNCHANGED <<options, m_run, set, found, running, stops>>

EmitPacket ==
  /\ emitting
  /\ left > 0
  /\ left' = left - 1
  /\ handler' = IF handler.data THEN DataRead(handler) ELSE handler
  /\ UNCHANGED <<options, m_run, emitting, timers, found, running, stops>>

NextReturns ==
  /\ emitting
  /\ left = 0
  /\ emitting' = FALSE
  /\ set' = set + 1
  /\ UNCHANGED <<options, m_run, left, due, found, handler, running, stops>>

(* The next window begins.                                                 *)
Tick ==
  /\ ~emitting
  /\ due = 0
  /\ set > 0
  /\ handler.read < MaxReads \/ ~handler.data
  /\ due' = set
  /\ set' = 0
  /\ UNCHANGED <<options, m_run, left, emitting, found, handler, running, stops>>

Next ==
  \/ HandlerStart \/ HandlerStop
  \/ TimerFires \/ EmitPacket \/ NextReturns \/ Tick

Spec == Init /\ [][Next]_vars

(* A loop goes on, and timers expire.                                      *)
Fairness == WF_vars(TimerFires) /\ WF_vars(EmitPacket) /\ WF_vars(NextReturns) /\ WF_vars(Tick)

FairSpec == Spec /\ Fairness

-----------------------------------------------------------------------------
TypeOK ==
  /\ bytesPerSecond \in Rate /\ packetSize \in PacketSize
  /\ {m_run, emitting, running} \subseteq BOOLEAN
  /\ {left, due, set, found} \subseteq Nat
  /\ handler \in Handlers
  /\ stops \in 0..MaxStops

(* A running generator has one chain of timers, and one more for each that *)
(* had not ended when start() was called, which takes less than 100 ms: it *)
(* never falls silent, and it stays that many times too fast for good.     *)
Chains == Pending + (IF emitting THEN 1 ELSE 0)
ChainsCounted == m_run => Chains = 1 + found

(* "Number of bytes to generate per second." (ByteGeneratorFactory.cpp:10): *)
(* ten windows of one chain emit that much, and one packet per window less *)
(* would not do: the two roundings of the constructor add up to one.       *)
RateReached ==
  /\ 10 * PacketsPerCall * packetSize >= bytesPerSecond
  /\ PacketsPerCall > 0 => 10 * (PacketsPerCall - 1) * packetSize < bytesPerSecond

(* Once the generator is stopped for good, every chain comes to its end.   *)
StoppedChainsEnd == <>[]~m_run => <>[](Chains = 0)

(* To its Handler the IO behaves as the contract the engine assumes.       *)
Abstract == INSTANCE IOContract
              WITH contract <- ByteGeneratorContract, dev <- IF running THEN "open" ELSE "idle"
ContractKept == Abstract!Spec

=============================================================================
