------------------------------ MODULE LossyFifo ------------------------------
(***************************************************************************)
(* What the capture-daemon's broker promises a caller of Publish: messages *)
(* numbered in the order of the calls reach the exchange in that order and *)
(* at most once; any of them may be lost on the way.                       *)
(***************************************************************************)
EXTENDS Naturals

VARIABLES
  next,     \* number of the next message to be published
  pending,  \* messages accepted and neither delivered nor lost
  out       \* messages the exchange received

vars == <<next, pending, out>>

Init == next = 1 /\ pending = {} /\ out = {}

\* A message is accepted, or dropped at once.
Send ==
  /\ next' = next + 1
  /\ pending' = pending \cup {next} \/ pending' = pending
  /\ UNCHANGED out

Lose ==
  /\ pending' \in SUBSET pending
  /\ UNCHANGED <<next, out>>

\* Delivering m gives up everything published before it.
Deliver(m) ==
  /\ m \in pending
  /\ pending' = {k \in pending : k > m}
  /\ out' = out \cup {m}
  /\ UNCHANGED next

Next == Send \/ Lose \/ \E m \in pending : Deliver(m)

Spec == Init /\ [][Next]_vars
=============================================================================
