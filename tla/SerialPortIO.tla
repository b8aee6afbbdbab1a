---------------------------- MODULE SerialPortIO ----------------------------
(***************************************************************************)
(* io/SerialPortIO.hpp with the Handler that owns it, and a device that is *)
(* plugged in and pulled out.  The port's error signal is connected to     *)
(* nothing: a device that goes is found out by the next start() only.      *)
(***************************************************************************)
EXTENDS Handler, FiniteSets

CONSTANTS MaxStops,   \* bound: how often the engine stops the IO
          MaxReads,   \* bound: packets read
          MaxWrites   \* bound: packets written

VARIABLES
  open,       \* m_port.isOpen()
  settings,   \* how many settings have been applied since m_port.open()
  plugged,    \* whether the device is among availablePorts()
  handler,    \* the Handler
  running,    \* Handler::start has been called and Handler::stop has not since
  stops       \* bound: calls of stop() so far

vars == <<open, settings, plugged, handler, running, stops>>

(* In the order of start().                                                *)
Settings == <<"baudrate", "break", "databits", "dtr", "flow", "parity", "stopbits", "rts">>
AllSettings == Cardinality(DOMAIN Settings)

Init ==
  /\ open = FALSE
  /\ settings = 0
  /\ plugged \in BOOLEAN
  /\ handler = NewHandler
  /\ running = FALSE
  /\ stops = 0

(* "started" comes after the last setting only.                            *)
StartSignal(configured) ==
  IF configured = AllSettings THEN "started" ELSE "startupErrorOccured"

(* Handler::start and SerialPortIO::start.  Finding the port, opening it   *)
(* and each setting may fail; a setting that fails leaves the port open.   *)
HandlerStart ==
  /\ ~running
  /\ running' = TRUE
  /\ \/ /\ UNCHANGED <<open, settings>>
        /\ handler' = Signaled(Connected(handler), "startupErrorOccured")
     \/ /\ plugged
        /\ open' = TRUE
        /\ settings' \in 0..AllSettings
        /\ handler' = Signaled(Connected(handler), StartSignal(settings'))
  /\ UNCHANGED <<plugged, stops>>

(* Mutant: stop() undoes a start() that went through only.                 *)
HandlerStop_StartedOnly ==
  /\ running
  /\ stops < MaxStops
  /\ running' = FALSE
  /\ stops' = stops + 1
  /\ IF Accepts(handler) THEN open' = FALSE /\ settings' = 0 ELSE UNCHANGED <<open, settings>>
  /\ handler' = Disconnected(handler)
  /\ UNCHANGED plugged

(* Handler::stop and SerialPortIO::stop                                    *)
HandlerStop ==
  /\ running
  /\ stops < MaxStops
  /\ running' = FALSE
  /\ stops' = stops + 1
  /\ open' = FALSE
  /\ settings' = 0
  /\ handler' = Disconnected(handler)
  /\ UNCHANGED plugged

(* Bytes arrive as long as the device is there, with whatever settings.    *)
OnReadyRead ==
  /\ open
  /\ plugged
  /\ handler.data
  /\ handler.read < MaxReads
  /\ handler' = DataRead(handler)
  /\ UNCHANGED <<open, settings, plugged, running, stops>>

(* Handler::writeData and SerialPortIO::writeData: a closed port takes     *)
(* nothing, a short write is an error.  waitForBytesWritten may fail, and  *)
(* nobody looks at what it returns.                                        *)
WriteData ==
  /\ Accepts(handler)
  /\ running
  /\ handler.written < MaxWrites
  /\ \E signal \in {"none"} \cup (IF open THEN {"errorOccured"} ELSE {}) :
       handler' = DataWritten(handler, signal)
  /\ UNCHANGED <<open, settings, plugged, running, stops>>

Plug ==
  /\ plugged' = ~plugged
  /\ UNCHANGED <<open, settings, handler, running, stops>>

Next == HandlerStart \/ HandlerStop \/ OnReadyRead \/ WriteData \/ Plug

Spec == Init /\ [][Next]_vars

-----------------------------------------------------------------------------
TypeOK ==
  /\ {open, plugged, running} \subseteq BOOLEAN
  /\ settings \in 0..AllSettings
  /\ handler \in Handlers
  /\ stops \in 0..MaxStops

(* Any of eight settings may fail with the port open and readable.  Bytes  *)
(* that are read with a setting missing are garbage, and the Handler of a  *)
(* port in that state says Failed, however often it was restarted before;  *)
(* and stop() closes it too, so that the next open() finds the port free.  *)
MisconfiguredIsFailed ==
  open => running /\ (settings < AllSettings => handler.state = "Failed")

(* To its Handler the IO behaves as the contract the engine assumes.       *)
Condition ==
  IF ~running THEN "idle" ELSE IF open /\ settings = AllSettings THEN "open" ELSE "failed"
Abstract == INSTANCE IOContract WITH contract <- SerialPortContract, dev <- Condition
ContractKept == Abstract!Spec

=============================================================================
