----------------------------- MODULE AtomicRefs -----------------------------
(***************************************************************************)
(* What reference counting promises its users: references are created,     *)
(* copied and dropped in one step each, an object is reclaimed only after  *)
(* its last reference is gone, and is never revived before that.  A client *)
(* failure is invisible but for the references it drops, and for a new     *)
(* block it may lose.                                                      *)
(***************************************************************************)
CONSTANTS Ref, Obj, NULL

VARIABLES
  held,    \* held[r]: the object reference r holds, or NULL
  status   \* "pool": can be allocated; "live"; "dying": not reclaimed yet

Init ==
  /\ held = [r \in Ref |-> NULL]
  /\ status = [o \in Obj |-> "pool"]

Create(r, o) ==
  /\ held[r] = NULL /\ status[o] = "pool"
  /\ held' = [held EXCEPT ![r] = o]
  /\ status' = [status EXCEPT ![o] = "live"]

Share(r, s) ==
  /\ held[r] = NULL /\ held[s] # NULL
  /\ held' = [held EXCEPT ![r] = held[s]]
  /\ UNCHANGED status

Drop(r) ==
  /\ held[r] # NULL
  /\ held' = [held EXCEPT ![r] = NULL]
  /\ status' = [status EXCEPT ![held[r]] =
                 IF \E s \in Ref \ {r} : held[s] = held[r] THEN "live" ELSE "dying"]

Reclaim(o) ==
  /\ status[o] = "dying"
  /\ status' = [status EXCEPT ![o] = "pool"]
  /\ UNCHANGED held

(* A client failed between taking a block and creating the object. *)
Lose(o) ==
  /\ status[o] = "pool"
  /\ status' = [status EXCEPT ![o] = "dying"]
  /\ UNCHANGED held

Next ==
  \/ \E r \in Ref, o \in Obj : Create(r, o)
  \/ \E r, s \in Ref : Share(r, s)
  \/ \E r \in Ref : Drop(r)
  \/ \E o \in Obj : Reclaim(o) \/ Lose(o)

Spec == Init /\ [][Next]_<<held, status>>
=============================================================================
