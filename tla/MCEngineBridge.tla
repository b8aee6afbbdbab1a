--------------------------- MODULE MCEngineBridge ---------------------------
(* Three IOs whose writes block and read, and a server.  Either two of     *)
(* them are connected both ways and the server listens in on one of them;  *)
(* or the three are connected in a ring, where every packet read by one    *)
(* may be answered by a read nested in its write.  The wiring is done,     *)
(* which leaves room for deep nesting of reads and writes.                 *)
EXTENDS Engine, TLC

CONSTANTS tcp, serial, peer, server

MCIO       == {tcp, serial, peer, server}
MCNameOf   == [io \in MCIO |-> io]
MCContract == (tcp :> TcpSocketContract) @@ (serial :> SerialPortContract)
              @@ (peer :> TcpSocketContract) @@ (server :> TcpServerContract)

Bridge == (tcp :> <<serial, server>>) @@ (serial :> <<tcp, server>>)
          @@ (server :> <<>>) @@ (peer :> <<>>)
Ring   == (tcp :> <<serial>>) @@ (serial :> <<peer>>) @@ (peer :> <<tcp>>) @@ (server :> <<>>)

(* The state after three addIO() calls and the addConnection() calls       *)
WiredInit ==
  /\ \/ m_handlers = <<tcp, serial, server>> /\ receivers = Bridge
     \/ m_handlers = <<tcp, serial, peer>> /\ receivers = Ring
  /\ m_started = FALSE
  /\ phase = "idle"
  /\ at = 1
  /\ handler = [io \in IO |-> NewHandler]
  /\ dev = [io \in IO |-> "idle"]
  /\ stack = <<>>
  /\ fan = [io \in IO |-> <<>>]
  /\ seen = [io \in IO |-> <<>>]

(* Next without addIO() and addConnection()                                *)
WiredNext ==
  \/ EngineStart \/ StartNext \/ StartDone \/ EngineStop \/ Destroy \/ Destroyed
  \/ \E io \in IO : ReadyRead(io) \/ WaitRead(io) \/ RuntimeError(io)
  \/ ReadMore \/ Return

WiredSpec == WiredInit /\ [][WiredNext]_vars /\ Fairness
=============================================================================
