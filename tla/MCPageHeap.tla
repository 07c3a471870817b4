----------------------------- MODULE MCPageHeap -----------------------------
(* Instances of PageHeap for TLC.                                          *)
EXTENDS PageHeap

(* RootRefs and small objects take one word, large objects two. *)
MCSize == [b \in Bin |-> IF b = "large" THEN 2 ELSE 1]

(* The first client allocates most, the second one mostly frees. *)
MCMalloc == [c \in Client |-> IF c = 1 THEN 3 ELSE 1]
=============================================================================
