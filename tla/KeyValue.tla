------------------------------ MODULE KeyValue ------------------------------
(***************************************************************************)
(* What the index promises: a map that one client writes and others read,  *)
(* each operation in one step.                                             *)
(***************************************************************************)
CONSTANTS Key, Value, Reader, None

VARIABLES
  map,      \* map[k]: the value of key k
  answer    \* answer[r]: key and value of the last get of a reader

Init ==
  /\ map = [k \in Key |-> None]
  /\ answer = [r \in Reader |-> [key |-> None, value |-> None]]

Put(k, v) == map' = [map EXCEPT ![k] = v] /\ UNCHANGED answer

Get(r, k) ==
  /\ answer' = [answer EXCEPT ![r] = [key |-> k, value |-> map[k]]]
  /\ UNCHANGED map

Next == \E k \in Key : (\E v \in Value : Put(k, v)) \/ (\E r \in Reader : Get(r, k))

Spec == Init /\ [][Next]_<<map, answer>>
=============================================================================
