----------------------------- MODULE RefChannel -----------------------------
(***************************************************************************)
(* What a message queue promises: references arrive in the order in which  *)
(* they were sent, each at most once, and a bounded number is in flight.   *)
(* Whoever fails, nothing else can happen to the sequence of messages.     *)
(***************************************************************************)
EXTENDS Naturals, Sequences

CONSTANTS Message, Capacity

VARIABLES
  flight,   \* messages sent and not received, the oldest first
  arrived   \* messages received

Init == flight = <<>> /\ arrived = <<>>

Send(m) ==
  /\ Len(flight) < Capacity
  /\ flight' = Append(flight, m)
  /\ UNCHANGED arrived

Receive ==
  /\ flight # <<>>
  /\ arrived' = Append(arrived, Head(flight))
  /\ flight' = Tail(flight)

Next == Receive \/ \E m \in Message : Send(m)

Spec == Init /\ [][Next]_<<flight, arrived>>
=============================================================================
