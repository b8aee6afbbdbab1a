----------------------------- MODULE IOContract -----------------------------
(***************************************************************************)
(* The abstract IO: all that a Handler can tell of the IO it owns.  The    *)
(* engine keeps to it for every IO (Engine.tla), and the specifications of *)
(* the built-in IOs implement it with their own contract of IOBase.tla, so *)
(* what is checked of the engine over contracts holds over the real IOs.   *)
(***************************************************************************)
EXTENDS Handler

CONSTANT contract

VARIABLES handler, dev

vars == <<handler, dev>>

Init == handler = NewHandler /\ dev = "idle"

(* Start to stop and start again; never twice without a stop between.      *)
Start ==
  /\ dev = "idle"
  /\ \E signal \in contract.start :
       /\ dev' = IF signal \in ErrorSignal THEN "failed" ELSE "open"
       /\ LET started == Signaled(Connected(handler), signal)
          IN  \/ handler' = started
              \/ contract.bursts /\ started.data /\ handler' = DataRead(started)

Stop ==
  /\ dev' = "idle"
  /\ handler' = Disconnected(handler)

(* newData reaches onNewData, from an event handler or inside writeData(). *)
(* An event handler may report an error first, and emit all the same.      *)
NewData ==
  /\ handler.data
  /\ dev \in contract.emits \/ (contract.echoes /\ dev # "idle")
  /\ \E signal \in {"none"} \cup (IF dev \in contract.errors THEN {"errorOccured"} ELSE {}) :
       handler' = DataRead(Signaled(handler, signal))
  /\ UNCHANGED dev

Error ==
  /\ dev \in contract.errors
  /\ handler' = Signaled(handler, "errorOccured")
  /\ UNCHANGED dev

(* A writeData() call returns; only an IO that runs may be written to.     *)
WriteReturns ==
  /\ dev # "idle"
  /\ \E signal \in {"none"} \cup (IF contract.writeFails THEN {"errorOccured"} ELSE {}) :
       handler' = DataWritten(handler, signal)
  /\ UNCHANGED dev

Next == Start \/ Stop \/ NewData \/ Error \/ WriteReturns

Spec == Init /\ [][Next]_vars

=============================================================================
