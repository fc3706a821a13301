----------------------------- MODULE BoundedFifo -----------------------------
(***************************************************************************)
(* What a buffered channel promises about its values: they leave the queue *)
(* in the order they entered it, it never has more than Capacity of them,  *)
(* and one that left is delivered exactly once, unless it is on its way    *)
(* for ever.                                                               *)
(***************************************************************************)
EXTENDS Naturals, Sequences

CONSTANTS Value, Capacity

VARIABLES
  fifo,        \* the values in the channel
  held,        \* the values that left it and have not been delivered
  got          \* how often each value was delivered

vars == <<fifo, held, got>>

Init == fifo = <<>> /\ held = {} /\ got = [v \in Value |-> 0]

\* A value is put once.
Put(v) ==
  /\ Len(fifo) < Capacity
  /\ \A i \in 1..Len(fifo) : fifo[i] # v
  /\ v \notin held /\ got[v] = 0
  /\ fifo' = Append(fifo, v)
  /\ UNCHANGED <<held, got>>

Take ==
  /\ fifo # <<>>
  /\ held' = held \cup {Head(fifo)}
  /\ fifo' = Tail(fifo)
  /\ UNCHANGED got

Deliver(v) ==
  /\ v \in held /\ got[v] = 0
  /\ held' = held \ {v}
  /\ got' = [got EXCEPT ![v] = 1]
  /\ UNCHANGED fifo

Next == Take \/ \E v \in Value : Put(v) \/ Deliver(v)

Spec == Init /\ [][Next]_vars
=============================================================================
