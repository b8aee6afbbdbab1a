------------------------- MODULE UdpSocketIOFactory -------------------------
(***************************************************************************)
(* UdpSocketIOFactory::create (io/UdpSocketIO.cpp) with getParaValue       *)
(* (io/IOFactoryBase.cpp): how the remote_address and remote_port          *)
(* parameters of the command line become the list of destinations.         *)
(***************************************************************************)
EXTENDS Naturals, Sequences, SequencesExt

CONSTANTS Address, Port,  \* the values that may be given
          None,           \* the default of both, which they inherit from bind_port
          MaxGiven,       \* bound: how often each parameter is given
          MaxIndex        \* bound: rounds of the loop

VARIABLES
  addresses,        \* the remote_address parameters, in the order given
  ports,            \* the remote_port parameters, in the order given
  index,            \* the loop's index
  remoteAddresses,  \* opts.remoteAddresses
  result            \* "loop" inside the loop, then "created" or "error"

given == <<addresses, ports>>
vars  == <<given, index, remoteAddresses, result>>

Init ==
  /\ addresses \in BoundedSeq(Address, MaxGiven)
  /\ ports \in BoundedSeq(Port, MaxGiven)
  /\ index = 0
  /\ remoteAddresses = <<>>
  /\ result = "loop"

(* QMultiMap::values(key) returns the value inserted last first.           *)
Values(params) == Reverse(params)

(* getParaValue: the possible values at position i, none for an error.  A  *)
(* parameter that is not given has its default at every position.          *)
GetParaValue(params, i) ==
  IF params = <<>> THEN {None}
  ELSE IF i < Len(params) THEN {Values(params)[i + 1]}
  ELSE {}

(* Mutant: the ports are taken in the order given.                         *)
NextDestination_Mixed ==
  /\ result = "loop"
  /\ index < MaxIndex
  /\ GetParaValue(ports, index) # {}
  /\ \E a \in GetParaValue(addresses, index) :
       remoteAddresses' = Append(remoteAddresses, <<a, IF ports = <<>> THEN None ELSE ports[index + 1]>>)
  /\ index' = index + 1
  /\ UNCHANGED <<given, result>>

NextDestination ==
  /\ result = "loop"
  /\ index < MaxIndex
  /\ \E a \in GetParaValue(addresses, index), p \in GetParaValue(ports, index) :
       remoteAddresses' = Append(remoteAddresses, <<a, p>>)
  /\ index' = index + 1
  /\ UNCHANGED <<given, result>>

(* Mutant: a missing port only ends the list.                             *)
MissingPort_Ends ==
  /\ result = "loop"
  /\ GetParaValue(addresses, index) # {}
  /\ GetParaValue(ports, index) = {}
  /\ result' = "created"
  /\ UNCHANGED <<given, index, remoteAddresses>>

MissingPort ==
  /\ result = "loop"
  /\ GetParaValue(addresses, index) # {}
  /\ GetParaValue(ports, index) = {}
  /\ result' = "error"
  /\ UNCHANGED <<given, index, remoteAddresses>>

NoMoreAddresses ==
  /\ result = "loop"
  /\ GetParaValue(addresses, index) = {}
  /\ result' = "created"
  /\ UNCHANGED <<given, index, remoteAddresses>>

Next == NextDestination \/ MissingPort \/ NoMoreAddresses

Spec == Init /\ [][Next]_vars /\ WF_vars(Next)

-----------------------------------------------------------------------------
TypeOK ==
  /\ addresses \in Seq(Address) /\ ports \in Seq(Port)
  /\ index \in Nat
  /\ remoteAddresses \in Seq((Address \cup {None}) \X (Port \cup {None}))
  /\ result \in {"loop", "created", "error"}

(* Every destination pairs the address and the port that were given at the *)
(* same position of the command line; they come out in reverse order, so   *)
(* the destination that decides on multicast is the one given last.        *)
PairsAsGiven ==
  (Len(addresses) = Len(ports) /\ addresses # <<>> /\ result = "created") =>
    remoteAddresses = [k \in 1..Len(ports) |->
                         <<addresses[Len(ports) + 1 - k], ports[Len(ports) + 1 - k]>>]

(* As soon as a destination is named, create() returns, with what          *)
(* Factories.tla takes it to return: a missing port is an error, ports     *)
(* that are left over are not.                                             *)
Registry == INSTANCE Factories
Returned == result = Registry!PairingOutcome(Len(addresses), Len(ports))
CreateReturns == (addresses # <<>> \/ ports # <<>>) => <>Returned

(* "Receive unicast datagrams. -io udpsocket -p bind_address=0.0.0.0       *)
(* -p bind_port=1338" (README.md:149): no destination given is none kept,  *)
(* and the loop does not add one after the other for ever.                 *)
NoneGivenNoneKept == (addresses = <<>> /\ ports = <<>>) => remoteAddresses = <<>>

=============================================================================
