------------------------------ MODULE Dispatch ------------------------------
(***************************************************************************)
(* What the engine promises of the data, whatever the calls look like that *)
(* carry it: a packet that is emitted becomes due to the connections its   *)
(* source has at that moment, in their order, and each of them is called   *)
(* once.  Nothing is said of a call stack, of blocking or of states of     *)
(* handlers; Engine.tla implements this (DispatchKept).                    *)
(***************************************************************************)
EXTENDS Integers, Sequences

CONSTANTS IO,        \* the IOs
          Answering  \* those that may emit inside their writeData()

VARIABLES receivers,  \* the connections of every IO, oldest first
          read,       \* how many packets every IO has emitted
          due,        \* the emissions not over, and the receivers each still has to call
          seen        \* the writeData() calls each handler got

vars == <<receivers, read, due, seen>>

Init ==
  /\ receivers \in [IO -> Seq(IO)]
  /\ read = [io \in IO |-> 0]
  /\ due = {}
  /\ seen = [io \in IO |-> <<>>]

(* A connection is for the packets to come, not for those under way.       *)
Connect(src, dst) ==
  /\ receivers' = [receivers EXCEPT ![src] = Append(@, dst)]
  /\ UNCHANGED <<read, due, seen>>

(* The next packet of src becomes due, next to those of emissions.         *)
Emits(src, emissions) ==
  /\ read' = [read EXCEPT ![src] = @ + 1]
  /\ due' = emissions \cup {[src |-> src, pkt |-> read[src] + 1, to |-> receivers[src]]}

(* A read handler emits.  One packet of an IO is under way at a time, but  *)
(* for an IO that answers what is written to it.                           *)
Emit(src) ==
  /\ src \in Answering \/ \A d \in due : d.src # src
  /\ Emits(src, due)
  /\ UNCHANGED <<receivers, seen>>

(* The first receiver that d has left is called, and takes the packet or   *)
(* drops it.                                                               *)
Called(d, taken) ==
  /\ d.to # <<>>
  /\ seen' = [seen EXCEPT ![Head(d.to)] =
                Append(@, [src |-> d.src, pkt |-> d.pkt, taken |-> taken])]
  /\ UNCHANGED receivers

Without(d)    == due \ {d}
CalledNext(d) == Without(d) \cup {[d EXCEPT !.to = Tail(@)]}

HandOver(d, taken) ==
  /\ Called(d, taken)
  /\ due' = CalledNext(d)
  /\ UNCHANGED read

(* The receiver takes the packet and emits one of its own.                 *)
Answer(d) ==
  /\ Called(d, TRUE)
  /\ Head(d.to) \in Answering
  /\ Emits(Head(d.to), CalledNext(d))

(* Only when every receiver was called, an emission is over.               *)
Complete(d) ==
  /\ d.to = <<>>
  /\ due' = Without(d)
  /\ UNCHANGED <<receivers, read, seen>>

Next ==
  \/ \E src, dst \in IO : Connect(src, dst)
  \/ \E src \in IO : Emit(src)
  \/ \E d \in due : \/ \E taken \in BOOLEAN : HandOver(d, taken)
                    \/ Answer(d)
                    \/ Complete(d)

Spec == Init /\ [][Next]_vars

=============================================================================
