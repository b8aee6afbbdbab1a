---------------------------- MODULE MCApplication ---------------------------
(* Every command line of up to MaxPieces pieces, well-formed or not, in    *)
(* any order; and some longer ones, under which control events come at     *)
(* every moment.                                                           *)
EXTENDS Application

CONSTANT MaxPieces

Option(option, value) == <<<<option>>, value>>

Pieces ==
  { Option("-io", <<"stdout">>), Option("-io", <<"tcpserver">>), Option("-io", <<"udpsocket">>),
    Option("-io", <<"echo">>),
    Option("-name", <<"a">>), Option("-id", <<"A">>),
    Option("-p", <<"bind_port", "=", "1">>), Option("-p", <<"remote_port">>),
    Option("-connect", <<"a", ",", "A">>), Option("-connect", <<" ", ",", ",", "a", " ">>),
    Option("-connect", <<",", "a">>),
    <<<<"-io">>>>, <<<<"-name">>>>, <<<<"-p">>>>, <<<<"-connect">>>> }

Program == <<<<"ioproxy-cli">>>>

Bridge ==
  Option("-io", <<"udpsocket">>) \o Option("-name", <<"A">>)
    \o Option("-p", <<"remote_address", "=", "x", "=">>) \o Option("-p", <<"remote_address", "=", "y">>)
    \o Option("-p", <<"remote_port", "=", "1">>) \o Option("-p", <<"remote_port", "=", "2">>)
    \o Option("-io", <<"echo">>) \o Option("-name", <<"a">>)
    \o Option("-io", <<"tcpserver">>) \o Option("-name", <<"b">>)
    \o Option("-p", <<"bind_port", "=", "1">>) \o Option("-p", <<"bind_port", "=", "2">>)
    \o Option("-connect", <<"a", ",", "b">>) \o Option("-connect", <<"b", ",", "A">>)

MCEventLines ==
  {Program \o line : line \in {Bridge, Option("-io", <<"udpsocket">>), Option("-io", <<"tcpserver">>),
                               Option("-connect", <<",">>)}}
MCCommandLines ==
  MCEventLines \cup {Program \o FlattenSeq(pieces) : pieces \in BoundedSeq(Pieces, MaxPieces)}

Plugin(ids) == [kind |-> "plugin", ids |-> ids]
MCPluginFiles ==
  {[kind |-> "unloadable"], [kind |-> "foreign"], Plugin(<<<<"echo">>>>),
   Plugin(<<<<"more">>, <<"stdout">>>>)}
=============================================================================
