--------------------------- MODULE CmdLineConfig ----------------------------
(***************************************************************************)
(* ioproxy-cli's CmdLineConfig::fromArguments: the command line becomes a  *)
(* list of IOs with their parameters and a list of connections.  An        *)
(* argument is a sequence of symbols, of which "=", "," and " " count; an  *)
(* option is one symbol.  One action is one turn of the loop.              *)
(***************************************************************************)
EXTENDS Naturals, Sequences, SequencesExt, FiniteSetsExt

VARIABLES
  arguments,      \* m_arguments, the program's name first
  index,          \* how many of them next() has handed out, m_index + 1
  ioConfig,       \* the IO being described, <<>> for the null pointer
  m_ios,
  m_connections,
  parsing         \* "running", then "done" or "error"

parser == <<index, ioConfig, m_ios, m_connections, parsing>>

ParserInit ==
  /\ index = 0
  /\ ioConfig = <<>>
  /\ m_ios = <<>>
  /\ m_connections = <<>>
  /\ parsing = "running"

-----------------------------------------------------------------------------
(* QString::split(',', Qt::SkipEmptyParts)                                 *)
Fields(s) ==
  LET cuts == SetToSortSeq({k \in 1..Len(s) : s[k] = ","} \cup {0, Len(s) + 1}, <)
  IN  SelectSeq([k \in 1..(Len(cuts) - 1) |-> SubSeq(s, cuts[k] + 1, cuts[k + 1] - 1)],
                LAMBDA field : field # <<>>)

(* QString::trimmed *)
Trimmed(s) ==
  LET solid == {k \in 1..Len(s) : s[k] # " "}
  IN  IF solid = {} THEN <<>> ELSE SubSeq(s, Min(solid), Max(solid))

(* What -p inserts: split at the first "=", and "true" without one.        *)
Parameter(s) ==
  LET at == {k \in 1..Len(s) : s[k] = "="}
  IN  IF at = {} THEN [key |-> s, value |-> <<"true">>]
      ELSE [key |-> SubSeq(s, 1, Min(at) - 1), value |-> SubSeq(s, Min(at) + 1, Len(s))]

(* What -connect appends; two fields are asked for before they are trimmed. *)
Connection(s) == [k \in 1..2 |-> Trimmed(Fields(s)[k])]

-----------------------------------------------------------------------------
(* The argument next(val) hands out, the one after it, and both taken.     *)
Turn(options) ==
  /\ parsing = "running"
  /\ index < Len(arguments)
  /\ arguments[index + 1] \in options

HasValue == index + 2 <= Len(arguments)
Value    == arguments[index + 2]

Take(n) == index' = Min({index + n, Len(arguments)})

(* Mutant: the IO before is not kept.                                      *)
IOOption_Overwrites ==
  /\ Turn({<<"-io">>})
  /\ ioConfig' = IF HasValue THEN <<[type |-> Value, id |-> <<>>, parameters |-> <<>>]>> ELSE <<>>
  /\ Take(2)
  /\ UNCHANGED <<arguments, m_ios, m_connections, parsing>>

IOOption ==
  /\ Turn({<<"-io">>})
  /\ m_ios' = m_ios \o ioConfig
  /\ ioConfig' = IF HasValue THEN <<[type |-> Value, id |-> <<>>, parameters |-> <<>>]>> ELSE <<>>
  /\ Take(2)
  /\ UNCHANGED <<arguments, m_connections, parsing>>

NameOption ==
  /\ Turn({<<"-name">>, <<"-id">>})
  /\ ioConfig # <<>>
  /\ ioConfig' = IF HasValue THEN [ioConfig EXCEPT ![1].id = Value] ELSE ioConfig
  /\ Take(2)
  /\ UNCHANGED <<arguments, m_ios, m_connections, parsing>>

ParameterOption ==
  /\ Turn({<<"-p">>})
  /\ ioConfig # <<>>
  /\ ioConfig' = IF HasValue THEN [ioConfig EXCEPT ![1].parameters = Append(@, Parameter(Value))]
                 ELSE ioConfig
  /\ Take(2)
  /\ UNCHANGED <<arguments, m_ios, m_connections, parsing>>

ConnectOption ==
  /\ Turn({<<"-connect">>})
  /\ IF HasValue /\ Len(Fields(Value)) = 2
     THEN m_connections' = Append(m_connections, Connection(Value)) /\ UNCHANGED parsing
     ELSE parsing' = "error" /\ UNCHANGED m_connections
  /\ Take(2)
  /\ UNCHANGED <<arguments, ioConfig, m_ios>>

(* Everything else is passed over, also -name and -p before the first -io. *)
OtherArgument ==
  /\ parsing = "running"
  /\ index < Len(arguments)
  /\ arguments[index + 1] \notin {<<"-io">>, <<"-connect">>}
  /\ ioConfig = <<>> \/ arguments[index + 1] \notin {<<"-name">>, <<"-id">>, <<"-p">>}
  /\ Take(1)
  /\ UNCHANGED <<arguments, ioConfig, m_ios, m_connections, parsing>>

ArgumentsEnd ==
  /\ parsing = "running"
  /\ index = Len(arguments)
  /\ m_ios' = m_ios \o ioConfig
  /\ ioConfig' = <<>>
  /\ parsing' = "done"
  /\ UNCHANGED <<arguments, index, m_connections>>

Parse ==
  \/ IOOption \/ NameOption \/ ParameterOption \/ ConnectOption
  \/ OtherArgument \/ ArgumentsEnd

-----------------------------------------------------------------------------
(* The command line by its positions: which arguments are options in force *)
(* (not a value themselves, and -name and -p only after an -io), and which *)
(* IO a name or a parameter belongs to.                                    *)
IOOnly == {<<"-name">>, <<"-id">>, <<"-p">>}
InForce ==
  LET f[k \in 1..Len(arguments)] ==
        /\ k > 1 => ~f[k - 1]
        /\ \/ arguments[k] \in {<<"-io">>, <<"-connect">>}
           \/ arguments[k] \in IOOnly /\ \E j \in 1..(k - 2) : f[j] /\ arguments[j] = <<"-io">>
  IN  f
ValuesOf(options) ==
  {k \in 2..Len(arguments) : InForce[k - 1] /\ arguments[k - 1] \in options}

(* Positions in ascending order: the r-th has r of them up to itself.      *)
InOrderOf(positions) ==
  [r \in 1..Cardinality(positions) |->
     CHOOSE k \in positions : Cardinality({j \in positions : j <= k}) = r]

WrittenIO(k) ==
  LET later == {j \in ValuesOf({<<"-io">>}) : j > k}
      own(options) == {j \in ValuesOf(options) : j > k /\ \A l \in later : j < l}
      names == own({<<"-name">>, <<"-id">>})
      paras == InOrderOf(own({<<"-p">>}))
  IN  [type       |-> arguments[k],
       id         |-> IF names = {} THEN <<>> ELSE arguments[Max(names)],
       parameters |-> [j \in DOMAIN paras |-> Parameter(arguments[paras[j]])]]
WrittenIOs ==
  LET positions == InOrderOf(ValuesOf({<<"-io">>}))
  IN  [j \in DOMAIN positions |-> WrittenIO(positions[j])]

WrittenPairs ==
  LET positions == InOrderOf(ValuesOf({<<"-connect">>}))
  IN  [j \in DOMAIN positions |-> Connection(arguments[positions[j]])]
BadPair ==
  \E k \in 1..Len(arguments) :
    /\ InForce[k] /\ arguments[k] = <<"-connect">>
    /\ k = Len(arguments) \/ Len(Fields(arguments[k + 1])) # 2

(* "Defines parameter specifically to the last defined -io" (README.md:71): *)
(* whatever the order of options, and whatever else is among them, every   *)
(* IO is kept with the name and the parameters that follow it, every pair  *)
(* is kept, and a pair that is none is the only error.                     *)
ParsedAsWritten ==
  /\ parsing = "done"  => m_ios = WrittenIOs /\ m_connections = WrittenPairs
  /\ parsing # "running" => ((parsing = "error") <=> BadPair)

=============================================================================
