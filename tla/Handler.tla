------------------------------ MODULE Handler -------------------------------
(***************************************************************************)
(* ioproxy/Handler.cpp: the object the engine keeps for every IO, as a     *)
(* record and the functions its slots compute.                             *)
(*   state      m_state                                                    *)
(*   lifecycle  how many connections each of the three lifecycle signals   *)
(*              of the IO has to its slot (every start() adds one)         *)
(*   data       the constructor's connection IOBase::newData -> onNewData  *)
(*   read       m_bytesRead, counted in packets                            *)
(*   written    m_bytesWritten, counted in packets                         *)
(***************************************************************************)
EXTENDS Naturals, IOBase

State == {"Stopped", "Started", "Failed"}

Handlers == [state : State, lifecycle : Nat, data : BOOLEAN, read : Nat, written : Nat]

(* Handler::Handler *)
NewHandler == [state |-> "Stopped", lifecycle |-> 0, data |-> TRUE, read |-> 0, written |-> 0]

(* Mutant: start() renews the connection of newData too.                   *)
Connected_Rewired(h) == [h EXCEPT !.lifecycle = @ + 1, !.data = TRUE]

(* Handler::start, the connects *)
Connected(h) == [h EXCEPT !.lifecycle = @ + 1]

(* onStarted, onStartupErrorOccured, onErrorOccured: without a connection   *)
(* the signal is lost; with several the slot runs again to the same effect. *)
Signaled(h, signal) ==
  IF h.lifecycle = 0 \/ signal = "none" THEN h
  ELSE [h EXCEPT !.state = IF signal \in ErrorSignal THEN "Failed" ELSE "Started"]

(* Handler::stop: m_io->disconnect(this) drops every connection of the IO   *)
(* to its handler, the one the constructor made too; m_state stays.         *)
Disconnected(h) == [h EXCEPT !.lifecycle = 0, !.data = FALSE]

(* Handler::onNewData, before it emits newData itself *)
DataRead(h) == [h EXCEPT !.read = @ + 1]

(* Handler::writeData: its guard, and what it does when the IO's own        *)
(* writeData() returns, after the signal that call may have emitted.        *)
Accepts(h) == h.state = "Started"

DataWritten(h, signal) == [Signaled(h, signal) EXCEPT !.written = @ + 1]

=============================================================================
