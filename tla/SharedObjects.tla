---------------------------- MODULE SharedObjects ----------------------------
(***************************************************************************)
(* What reference counting promises to the holders of references: a        *)
(* location only ever refers to an object that exists, and an object goes  *)
(* only with the last reference to it, whoever fails.  What an object      *)
(* embeds stays while two locations refer to it, and goes with it.         *)
(* Nothing here promises that an object without references does go.        *)
(***************************************************************************)
CONSTANTS Location, Object, NoObject, Inside(_)

VARIABLES
  target,   \* target[l]: the object that location l refers to
  live      \* the objects that exist

Init == target = [l \in Location |-> NoObject] /\ live = {}

(* No two locations refer to an object in which l is. *)
Released(l) == \A o \in live : l \in Inside(o) =>
  \A m, n \in Location : target[m] = o /\ target[n] = o => m = n

Keep(S) == \A l \in S : target'[l] = target[l]

New(l, o) ==
  /\ target[l] = NoObject /\ o \notin live
  /\ live' = live \cup {o}
  /\ target'[l] = o /\ Keep(Location \ {l})

Link(l, o) ==
  /\ target[l] = NoObject /\ o \in live
  /\ target'[l] = o /\ Keep(Location \ {l})
  /\ UNCHANGED live

Move(l, m) ==
  /\ target[l] # NoObject /\ target'[l] = NoObject
  /\ target[m] = NoObject /\ target'[m] = target[l] /\ Keep(Location \ {l, m})
  /\ UNCHANGED live

Drop(l) ==
  /\ target[l] # NoObject /\ Released(l)
  /\ target'[l] = NoObject /\ Keep(Location \ {l})
  /\ UNCHANGED live

Reclaim(l) ==
  LET gone == {l} \cup Inside(target[l]) IN
  /\ target[l] # NoObject /\ Released(l)
  /\ live' = live \ {target[l]}
  /\ \A m \in Location \ {l} : target[m] # target[l]
  /\ \A m \in gone : target'[m] = NoObject
  /\ Keep(Location \ gone)

Next == \E l \in Location :
  \/ \E o \in Object : New(l, o) \/ Link(l, o)
  \/ \E m \in Location : Move(l, m)
  \/ Drop(l) \/ Reclaim(l)

Spec == Init /\ [][Next]_<<target, live>>
=============================================================================
