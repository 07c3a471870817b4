--------------------------- MODULE MCEraRefCount ---------------------------
(* Instances of EraRefCount for TLC.                                       *)
EXTENDS EraRefCountInv
CONSTANTS a1, a2, b1, c1, o1, o2

(* Thread 1 owns the RootRefs a1, a2 and the object o1; thread 2 the       *)
(* RootRef b1 and the object o2; thread 3 the RootRef c1.                  *)
MCHome == [b \in Block |-> IF b = c1 THEN 3 ELSE IF b \in {b1, o2} THEN 2 ELSE 1]

FreshEras == [i \in Thread |-> 0]

(* Eras left by earlier users of the slots, too far apart to meet. *)
ApartEras == [i \in Thread |-> 100 * (i - 1)]
=============================================================================
