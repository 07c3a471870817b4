------------------------------ MODULE BlockPool ------------------------------
(***************************************************************************)
(* What the allocator promises: memory handed out is disjoint from all     *)
(* memory in use, it changes hands only by being passed on, and what a     *)
(* failed client held is given back once.                                  *)
(***************************************************************************)
CONSTANTS Client, Extent, Overlap(_, _)

VARIABLE held   \* held[c]: the extents that client c has been given

Init == held = [c \in Client |-> {}]

Alloc(c, e) ==
  /\ \A d \in Client : \A f \in held[d] : ~Overlap(e, f)
  /\ held' = [held EXCEPT ![c] = @ \cup {e}]

Pass(c, d, e) ==
  /\ e \in held[c]
  /\ held' = [held EXCEPT ![c] = @ \ {e}, ![d] = @ \cup {e}]

Free(c, e) ==
  /\ e \in held[c]
  /\ held' = [held EXCEPT ![c] = @ \ {e}]

Next == \E c, d \in Client, e \in Extent : Alloc(c, e) \/ Pass(c, d, e) \/ Free(c, e)

Spec == Init /\ [][Next]_held
==============================================================================
