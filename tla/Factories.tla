------------------------------ MODULE Factories -----------------------------
(***************************************************************************)
(* io/IOFactoryBase.cpp, the factories of the built-in IOs and of the echo *)
(* plugin: which parameters each of them declares, and what create() makes *)
(* of the parameters of the command line.  Texts are sequences of symbols, *)
(* as in CmdLineConfig.tla; parameters are in the order in which they were *)
(* inserted into the QMultiMap.  The conversion of an option's text to the *)
(* option's type is left out.                                              *)
(***************************************************************************)
EXTENDS Naturals, Sequences, SequencesExt, FiniteSetsExt

(* A row of a factory's constructor.  All rows are written to one IOParaDef *)
(* in turn, so a row without a default has that of the row before ("same"). *)
ParaDef(key, required, default) == [key |-> <<key>>, required |-> required, default |-> <<default>>]
Required(key)           == ParaDef(key, TRUE, "same")
Optional(key, default)  == ParaDef(key, FALSE, default)
Undefined == <<"invalid">>  \* the value of a QVariant nobody has set

ByteGeneratorDefs == <<Optional("rate", "5242880"), Optional("packet_size", "4096")>>

SerialPortDefs ==
  <<Required("port"), Optional("baudrate", "115200"), Optional("databits", "8"),
    Optional("parity", "0"), Optional("stopbits", "1"), Optional("flow", "0")>>

TcpSocketDefs ==
  <<Required("remote_address"), Required("remote_port"), Optional("reconnect", "true"),
    Optional("low_delay", "false"), Optional("keep_alive", "false")>>

TcpServerDefs ==
  <<Optional("bind_address", "0.0.0.0"), Required("bind_port"), Optional("max_connections", "1"),
    Optional("broadcast", "false"), Optional("read_buffer_size", "32768")>>

UdpSocketDefs ==
  <<Optional("bind_address", "0.0.0.0"), Optional("bind_port", "0"),
    Optional("remote_address", "same"), Optional("remote_port", "same"),
    Optional("echo", "false"), Optional("multicast_ttl", "0"),
    Optional("multicast_loopback", "false")>>

WebSocketDefs ==
  <<Required("remote_url"), Optional("reconnect", "true"), Optional("binary", "false")>>

WebSocketServerDefs ==
  <<Optional("bind_address", "0.0.0.0"), Optional("bind_port", "0"), Optional("binary", "false"),
    Optional("server_name", "IOProxy")>>

(* Every factory by its getID(); those of StdOutIO and EchoIO declare      *)
(* nothing and look at nothing.                                            *)
ParaDefs(id) ==
  CASE id = <<"bytes_generator">> -> ByteGeneratorDefs
    [] id = <<"serialport">>      -> SerialPortDefs
    [] id = <<"tcpsocket">>       -> TcpSocketDefs
    [] id = <<"tcpserver">>       -> TcpServerDefs
    [] id = <<"udpsocket">>       -> UdpSocketDefs
    [] id = <<"websocket">>       -> WebSocketDefs
    [] id = <<"websocketserver">> -> WebSocketServerDefs
    [] OTHER                      -> <<>>

(* The keys create() reads once.                                           *)
ReadKeys(id) ==
  {ParaDefs(id)[k].key : k \in DOMAIN ParaDefs(id)}
    \ (IF id = <<"udpsocket">> THEN {<<"remote_address">>, <<"remote_port">>} ELSE {})

-----------------------------------------------------------------------------
(* checkRequiredParameters.  Mutant: it stops after the first definition.  *)
CheckRequiredParameters_First(id, given) ==
  \A k \in DOMAIN ParaDefs(id) :
    (k = 1 /\ ParaDefs(id)[k].required) => \E j \in DOMAIN given : given[j].key = ParaDefs(id)[k].key

CheckRequiredParameters(id, given) ==
  \A k \in DOMAIN ParaDefs(id) :
    ParaDefs(id)[k].required => \E j \in DOMAIN given : given[j].key = ParaDefs(id)[k].key

(* The default of the definition of key.                                   *)
DefaultValue(id, key) ==
  LET defs == ParaDefs(id)
      row  == CHOOSE k \in DOMAIN defs : defs[k].key = key
      kept == {k \in 1..row : defs[k].default # <<"same">>}
  IN  IF kept = {} THEN Undefined ELSE defs[Max(kept)].default

(* QMultiMap::values(key): the value inserted last comes first.  Mutant:   *)
(* in the order of insertion.                                              *)
Values_Forward(given, key) ==
  LET own == {k \in DOMAIN given : given[k].key = key}
  IN  [n \in 1..Cardinality(own) |->
         given[CHOOSE k \in own : Cardinality({j \in own : j <= k}) = n].value]

Values(given, key) ==
  LET own == {k \in DOMAIN given : given[k].key = key}
  IN  [n \in 1..Cardinality(own) |->
         given[CHOOSE k \in own : Cardinality({j \in own : j >= k}) = n].value]

(* getParaValue: the set of its value, empty when it returns an error.     *)
GetParaValue(id, given, key, at) ==
  IF Values(given, key) = <<>>
  THEN IF \E k \in DOMAIN ParaDefs(id) : ParaDefs(id)[k].key = key /\ ParaDefs(id)[k].required
       THEN {} ELSE {DefaultValue(id, key)}
  ELSE IF at < Len(Values(given, key)) THEN {Values(given, key)[at + 1]} ELSE {}

(* What the loop of UdpSocketIOFactory::create comes to, by the numbers of *)
(* addresses and of ports; UdpSocketIOFactory.tla shows that it does.      *)
PairingOutcome(addresses, ports) ==
  IF addresses = 0 /\ ports = 0 THEN "endless"
  ELSE IF addresses > 0 /\ (ports = 0 \/ addresses <= ports) THEN "created"
  ELSE "error"

(* create(): "throws" stands for expected::value() without a value.        *)
CreateOutcome(id, given) ==
  IF ~CheckRequiredParameters(id, given) THEN "error"
  ELSE IF \E key \in ReadKeys(id) : GetParaValue(id, given, key, 0) = {} THEN "throws"
  ELSE IF id = <<"udpsocket">>
       THEN PairingOutcome(Len(Values(given, <<"remote_address">>)),
                           Len(Values(given, <<"remote_port">>)))
  ELSE "created"

(* The options that create() copies one by one.                            *)
CreatedOptions(id, given) ==
  [key \in ReadKeys(id) |-> CHOOSE value \in GetParaValue(id, given, key, 0) : TRUE]

=============================================================================
