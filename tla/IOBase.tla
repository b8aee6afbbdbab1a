------------------------------- MODULE IOBase -------------------------------
(***************************************************************************)
(* What the engine sees of an IO: the lifecycle signals of io/IOBase.hpp,  *)
(* the states its device can be in between start() and stop(), and the     *)
(* contract that its start(), its writeData() and its event handlers keep  *)
(* towards the Handler.  Engine.tla takes the contracts as a CONSTANT, so  *)
(* what it proves also covers the IOs of plugins; the records below are    *)
(* the contracts the built-in IOs keep.                                    *)
(***************************************************************************)

(* The lifecycle signals; "none" stands for a start() that emits no one.   *)
ErrorSignal == {"startupErrorOccured", "errorOccured"}
Signal      == {"none", "started"} \cup ErrorSignal

(* "idle": never started, or stopped since; "open": start() went through;  *)
(* "failed": the last thing start() emitted was an error.                  *)
Device == {"idle", "open", "failed"}

(* start      the last lifecycle signal start() may emit                   *)
(* emits      device states in which its event handlers may emit newData   *)
(* errors     device states in which its event handlers may emit an error  *)
(* bursts     start() itself emits newData before it returns               *)
(* waits      writeData() blocks in waitForBytesWritten(-1), which may run *)
(*            the read handler of the same IO before it returns            *)
(* echoes     writeData() emits newData before it returns                  *)
(* writeFails writeData() may emit errorOccured before it returns          *)
IOContracts == [start : SUBSET Signal, emits : SUBSET (Device \ {"idle"}),
              errors : SUBSET (Device \ {"idle"}), bursts : BOOLEAN,
              waits : BOOLEAN, echoes : BOOLEAN, writeFails : BOOLEAN]

(* Starts, never sends, never fails: the base of the records below.        *)
StdOutContract == [start |-> {"started"}, emits |-> {}, errors |-> {}, bursts |-> FALSE,
             waits |-> FALSE, echoes |-> FALSE, writeFails |-> FALSE]

EchoContract == [StdOutContract EXCEPT !.echoes = TRUE]

(* Never emits started(), so its Handler never leaves "Stopped".           *)
ByteGeneratorContract == [StdOutContract EXCEPT !.start = {"none"}, !.emits = {"open"},
                                    !.bursts = TRUE]

(* A set...() that fails after open() leaves the port open and readable.   *)
SerialPortContract == [StdOutContract EXCEPT !.start = {"started", "startupErrorOccured"},
                                 !.emits = {"open", "failed"}, !.waits = TRUE,
                                 !.writeFails = TRUE]

(* started is the last signal even when connectToHost fails at once.       *)
TcpSocketContract == [StdOutContract EXCEPT !.emits = {"open"}, !.errors = {"open"},
                                !.waits = TRUE, !.writeFails = TRUE]

TcpServerContract == [StdOutContract EXCEPT !.start = {"started", "startupErrorOccured"},
                                !.emits = {"open"}, !.errors = {"open"},
                                !.writeFails = TRUE]

UdpSocketContract == [StdOutContract EXCEPT !.start = {"started", "startupErrorOccured"},
                                !.emits = {"open"}, !.errors = {"open"},
                                !.writeFails = TRUE]

WebSocketContract == [StdOutContract EXCEPT !.emits = {"open"}, !.errors = {"open"},
                                !.writeFails = TRUE]

(* Connects none of its server's signals and never emits started().        *)
WebSocketServerContract == [StdOutContract EXCEPT !.start = {"none", "errorOccured"}]

=============================================================================
