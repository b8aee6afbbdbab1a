-------------------------- MODULE MCEngineLifecycle -------------------------
(* Every order of addIO, addConnection, start, stop and destruction, with  *)
(* a generator that bursts inside start(), an echo plugin, a UDP socket    *)
(* that must not be written to once it is stopped, and a second IO under   *)
(* the name of the echo.                                                   *)
EXTENDS Engine, TLC

CONSTANTS gen, echo, udp, twin

MCIO       == {gen, echo, udp, twin}
MCName     == {gen, echo, udp}
MCNameOf   == [io \in MCIO |-> IF io = twin THEN echo ELSE io]
MCContract == (gen :> ByteGeneratorContract) @@ (echo :> EchoContract) @@ (udp :> UdpSocketContract)
              @@ (twin :> StdOutContract)
MCRequests == {<<gen, echo>>, <<gen, udp>>, <<echo, udp>>}
=============================================================================
