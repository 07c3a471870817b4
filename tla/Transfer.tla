------------------------------ MODULE Transfer ------------------------------
(***************************************************************************)
(* Transfer of references through one message queue.                       *)
(*                                                                         *)
(* The queue is a ring of counted references.  sent_to links the slot at   *)
(* end and then moves end; cxl_unwrap links a RootRef to the object of the *)
(* slot at start, unlinks the slot and then moves start.  Either client    *)
(* may fail between any two steps, or leave with                           *)
(* normal_garbage_collection; the monitor recovers a failed client.  Each  *)
(* of them walks over the RootRefs and over its part of the ring, and      *)
(* unlinks what it finds.                                                  *)
(*                                                                         *)
(* link_reference and unlink_reference are cut into log, count and store.  *)
(* How the count changes and how the monitor finds out that it did is      *)
(* EraRefCount's subject; here a count changes in one step, and a redo     *)
(* record knows whether its operation has been counted ("done").           *)
(***************************************************************************)
EXTENDS Integers, FiniteSets, Sequences

CONSTANTS
  Sender, Receiver,      \* the two clients
  Obj,                   \* objects
  Root,                  \* RootRef blocks
  Owner,                 \* the client whose page a RootRef lies on
  Held,                  \* what the RootRefs hold when the queue is created
  MESSAGE_BUFFER_SIZE,   \* slots of the ring
  NULL,                  \* offset 0, thread id 0
  MaxSend,               \* bound: number of messages sent
  Failures               \* FALSE: clients only leave in an orderly way

Client == {Sender, Receiver}
Slot == 0 .. MESSAGE_BUFFER_SIZE - 1
Loc == Root \cup Slot    \* where counted references are

ASSUME ClientAssumption == Sender # Receiver /\ NULL \notin Client \cup Obj \cup Loc
ASSUME RingAssumption == MESSAGE_BUFFER_SIZE \in Nat \ {0, 1} /\ MaxSend \in Nat
ASSUME RootAssumption ==
  /\ Root \cap Slot = {}
  /\ Owner \in [Root -> Client]
  /\ Held \in [Root -> Obj \cup {NULL}]
  /\ IsFiniteSet(Root)
ASSUME FailureAssumption == Failures \in BOOLEAN

VARIABLES
  val,         \* val[l]: RootRef.pptr, or buffer[l]
  inUse,       \* RootRef.in_use
  count,       \* ref_cnt of an object
  start, end,  \* the cursors of the ring
  receiverId,  \* cxl_message_queue_t.receiver_id
  listed,      \* the queue is in the receiver's receiver_queue list
  status,      \* "run", "dead" (failed), "rec" (being recovered), "gone"
  pc,          \* next step of a client, or of the monitor in its place
  op,          \* the operation in progress
  log,         \* the latest redo record
  walk,        \* phase and ring index of the walk over its references
  races,       \* history: the known races that have happened
  sent, received   \* history: what has been sent and received

ring == <<start, end, receiverId, listed>>
history == <<races, sent, received>>
vars == <<val, inUse, count, ring, status, pc, op, log, walk, history>>

NoOp == [func |-> "none", ref |-> NULL, refed |-> NULL, then |-> "idle"]
NoLog == [func |-> "none", ref |-> NULL, refed |-> NULL, done |-> FALSE]
NoWalk == [phase |-> "none", i |-> 0]

Init ==
  /\ val = [l \in Loc |-> IF l \in Root THEN Held[l] ELSE NULL]
  /\ inUse = [r \in Root |-> Held[r] # NULL]
  /\ count = [o \in Obj |-> Cardinality({r \in Root : Held[r] = o})]
  /\ start = 0 /\ end = 0
  /\ receiverId = NULL /\ listed = FALSE
  /\ status = [p \in Client |-> "run"]
  /\ pc = [p \in Client |-> "idle"]
  /\ op = [p \in Client |-> NoOp]
  /\ log = [p \in Client |-> NoLog]
  /\ walk = [p \in Client |-> NoWalk]
  /\ races = {} /\ sent = <<>> /\ received = <<>>

(* The client itself runs, or the monitor works in its place. *)
At(p, label) == status[p] \in {"run", "rec"} /\ pc[p] = label
Goto(p, label) == pc' = [pc EXCEPT ![p] = label]

Succ(i) == (i + 1) % MESSAGE_BUFFER_SIZE

FullNoWrap == end - start = MESSAGE_BUFFER_SIZE - 1    \* faulty variants:
FullOffByOne == end + 1 = start \/ end - start = MESSAGE_BUFFER_SIZE
Full == end + 1 = start \/ end - start = MESSAGE_BUFFER_SIZE - 1

-----------------------------------------------------------------------------
(* link_reference and unlink_reference.  The monitor unlinks without log.  *)
Begin(p, func, ref, refed, then) ==
  /\ op' = [op EXCEPT ![p] = [func |-> func, ref |-> ref, refed |-> refed, then |-> then]]
  /\ Goto(p, IF status[p] = "run" THEN "log" ELSE "count")

WriteLog(p) ==
  /\ At(p, "log")
  /\ log' = [log EXCEPT ![p] = [func |-> op[p].func, ref |-> op[p].ref,
                                refed |-> op[p].refed, done |-> FALSE]]
  /\ Goto(p, "count")
  /\ UNCHANGED <<val, inUse, count, ring, status, op, walk, history>>

(* The CAS on ref_info.  The receiver has its message from here on. *)
Count(p) ==
  /\ At(p, "count")
  /\ count' = [count EXCEPT ![op[p].refed] = IF op[p].func = "LINK" THEN @ + 1 ELSE @ - 1]
  /\ log' = IF status[p] = "run" THEN [log EXCEPT ![p].done = TRUE] ELSE log
  /\ received' = IF op[p].then = "unlink" THEN Append(received, op[p].refed) ELSE received
  /\ Goto(p, "store")
  /\ UNCHANGED <<val, inUse, ring, status, op, walk, races, sent>>

Store(p) ==
  /\ At(p, "store")
  /\ val' = [val EXCEPT ![op[p].ref] = IF op[p].func = "LINK" THEN op[p].refed ELSE NULL]
  /\ Goto(p, op[p].then)
  /\ UNCHANGED <<inUse, count, ring, status, op, log, walk, history>>

-----------------------------------------------------------------------------
(* sent_to: the full test, S1 (link the slot at end), S2 (move end). *)
SentTo(r) ==
  /\ At(Sender, "idle") /\ Len(sent) < MaxSend
  /\ Owner[r] = Sender /\ inUse[r]
  /\ ~Full
  /\ Begin(Sender, "LINK", end, val[r], "S2")
  /\ UNCHANGED <<val, inUse, count, ring, status, log, walk, history>>

MoveEnd ==
  /\ At(Sender, "S2")
  /\ end' = Succ(end)
  /\ sent' = Append(sent, op[Sender].refed)
  /\ Goto(Sender, "idle")
  /\ UNCHANGED <<val, inUse, count, start, receiverId, listed, status, op, log, walk,
                 races, received>>

-----------------------------------------------------------------------------
(* cxl_unwrap.  The first one enters the queue in the receiver's list and  *)
(* then writes receiver_id.  A queue that both sides have left is gone.    *)
CxlUnwrap ==
  /\ At(Receiver, "idle")
  /\ status[Sender] # "gone" \/ receiverId # NULL
  /\ \E r \in Root : Owner[r] = Receiver /\ ~inUse[r]
  /\ listed' = TRUE
  /\ Goto(Receiver, IF receiverId = NULL THEN "register" ELSE "test")
  /\ UNCHANGED <<val, inUse, count, start, end, receiverId, status, op, log, walk, history>>

(* Race: the sender's side has found receiver_id zero and is emptying the  *)
(* ring that the receiver is about to read.                                *)
Register ==
  /\ At(Receiver, "register")
  /\ receiverId' = Receiver
  /\ races' = IF walk[Sender].phase = "all" THEN races \cup {"late"} ELSE races
  /\ Goto(Receiver, "test")
  /\ UNCHANGED <<val, inUse, count, start, end, listed, status, op, log, walk, sent, received>>

TestMessage ==
  /\ At(Receiver, "test")
  /\ Goto(Receiver, IF start = end \/ val[start] = NULL THEN "idle" ELSE "root")
  /\ UNCHANGED <<val, inUse, count, ring, status, op, log, walk, history>>

(* thread_base_ref_alloc.  The slow path wipes the redo log; a freed       *)
(* RootRef is only handed out again after that.                            *)
AllocRootRef ==
  /\ At(Receiver, "root")
  /\ \E r \in Root :
       /\ Owner[r] = Receiver /\ ~inUse[r]
       /\ inUse' = [inUse EXCEPT ![r] = TRUE]
       /\ val' = [val EXCEPT ![r] = NULL]
       /\ op' = [op EXCEPT ![Receiver] = [NoOp EXCEPT !.ref = r]]
       /\ log' \in {[log EXCEPT ![Receiver] = NoLog]}
                   \cup (IF log[Receiver].ref = r THEN {} ELSE {log})
  /\ Goto(Receiver, "link")
  /\ UNCHANGED <<count, ring, status, walk, history>>

(* R1 and R2.  buffer[start] is read again for each; with offset 0 the     *)
(* client writes to memory that is no object, and is not followed further. *)
LinkMessage ==
  /\ At(Receiver, "link")
  /\ IF val[start] = NULL THEN Goto(Receiver, "wild") /\ UNCHANGED op
     ELSE Begin(Receiver, "LINK", op[Receiver].ref, val[start], "unlink")
  /\ UNCHANGED <<val, inUse, count, ring, status, log, walk, history>>

UnlinkMessage ==
  /\ At(Receiver, "unlink")
  /\ IF val[start] = NULL THEN Goto(Receiver, "wild") /\ UNCHANGED op
     ELSE Begin(Receiver, "UNLINK", start, val[start], "R3")
  /\ UNCHANGED <<val, inUse, count, ring, status, log, walk, history>>

MoveStart ==
  /\ At(Receiver, "R3")
  /\ start' = Succ(start)
  /\ Goto(Receiver, "idle")
  /\ UNCHANGED <<val, inUse, count, end, receiverId, listed, status, op, log, walk, history>>

-----------------------------------------------------------------------------
(* ~CXLRef of the last CXLRef of a RootRef. *)
Drop(p, r) ==
  /\ At(p, "idle")
  /\ Owner[r] = p /\ inUse[r] /\ val[r] # NULL
  /\ Begin(p, "UNLINK", r, val[r], "release")
  /\ UNCHANGED <<val, inUse, count, ring, status, log, walk, history>>

(* in_use = 0 and cxl_free(true, tbr), also in the walk over the RootRefs. *)
Release(p) ==
  /\ At(p, "release")
  /\ inUse' = [inUse EXCEPT ![op[p].ref] = FALSE]
  /\ val' = [val EXCEPT ![op[p].ref] = NULL]
  /\ Goto(p, IF walk[p].phase = "none" THEN "idle" ELSE "walk")
  /\ UNCHANGED <<count, ring, status, op, log, walk, history>>

(* normal_garbage_collection: the client walks over its own references. *)
Leave(p) ==
  /\ At(p, "idle") /\ status[p] = "run"
  /\ walk' = [walk EXCEPT ![p].phase = "roots"]
  /\ Goto(p, "walk")
  /\ UNCHANGED <<val, inUse, count, ring, status, op, log, history>>

Crash(p) ==
  /\ Failures /\ status[p] = "run"
  /\ status' = [status EXCEPT ![p] = "dead"]
  /\ UNCHANGED <<val, inUse, count, ring, pc, op, log, walk, history>>

-----------------------------------------------------------------------------
(* redo_ref_cnt: the latest record, if it was counted, is stored (again).  *)
(* Race: a record of a link that ended long ago, into a slot that has been *)
(* emptied since.                                                          *)
Stale(p) ==
  /\ log[p].func = "LINK" /\ log[p].ref \in Slot /\ log[p].done
  /\ pc[p] # "store" /\ val[log[p].ref] # log[p].refed

RedoUndone(p) == log[p].func # "none"   \* faulty variant: not counted, redone
Redone(p) == log[p].done

Redo(p) ==
  /\ status[p] = "dead"
  /\ \A q \in Client : status[q] # "rec"
  /\ status' = [status EXCEPT ![p] = "rec"]
  /\ val' = IF Redone(p)
            THEN [val EXCEPT ![log[p].ref] =
                   IF log[p].func = "LINK" THEN log[p].refed ELSE NULL]
            ELSE val
  /\ races' = IF Stale(p) THEN races \cup {"replayed"} ELSE races
  /\ op' = [op EXCEPT ![p] = NoOp]
  /\ walk' = [walk EXCEPT ![p] = [phase |-> "roots", i |-> 0]]
  /\ Goto(p, "walk")
  /\ UNCHANGED <<inUse, count, ring, log, sent, received>>

-----------------------------------------------------------------------------
(* The walk over the references of p, by p or by the monitor.              *)
Walking(p, phase) == At(p, "walk") /\ walk[p].phase = phase

(* test_free and recovery_test_free have nothing to unlink at l. *)
Nothing(p, l) == val[l] = NULL \/ (status[p] = "rec" /\ count[val[l]] = 0)

(* The part of the ring a walk starts with: the sender's side from end to  *)
(* start, the receiver's from start to end if the queue is in its list.    *)
RingPart(p) ==
  CASE p = Sender -> [phase |-> "free", i |-> end]
    [] p = Receiver /\ listed -> [phase |-> "used", i |-> start]
    [] OTHER -> [phase |-> "leave", i |-> 0]

(* Race: the queue is in the receiver's list and receiver_id not written,  *)
(* so both sides take the messages in flight for theirs.                   *)
WalkRoots(p) ==
  /\ Walking(p, "roots")
  /\ LET mine == {r \in Root : Owner[r] = p /\ inUse[r]} IN
     \/ /\ \E r \in mine :
             IF Nothing(p, r)
             THEN op' = [op EXCEPT ![p] = [NoOp EXCEPT !.ref = r]] /\ Goto(p, "release")
             ELSE Begin(p, "UNLINK", r, val[r], "release")
        /\ UNCHANGED <<walk, races>>
     \/ /\ mine = {}
        /\ walk' = [walk EXCEPT ![p] = RingPart(p)]
        /\ races' = IF p = Receiver /\ listed /\ walk[Sender].phase = "all"
                    THEN races \cup {"both"} ELSE races
        /\ UNCHANGED <<pc, op>>
  /\ UNCHANGED <<val, inUse, count, ring, status, log, sent, received>>

(* The loops end where their condition says: "free" tests after the step   *)
(* (do .. while), "used" and "all" before a slot is looked at.             *)
More(p) == walk[p].phase \in {"all", "used"} => walk[p].i # end

VisitSlot(p) ==
  /\ \/ Walking(p, "free") \/ Walking(p, "all") \/ Walking(p, "used")
  /\ More(p)
  /\ IF Nothing(p, walk[p].i) THEN Goto(p, "next") /\ UNCHANGED op
     ELSE Begin(p, "UNLINK", walk[p].i, val[walk[p].i], "next")
  /\ UNCHANGED <<val, inUse, count, ring, status, log, walk, history>>

NextSlotShort(p) ==    \* faulty variant: wraps as if the ring had as many slots as it holds messages
  /\ At(p, "next")
  /\ LET i == (walk[p].i + 1) % (MESSAGE_BUFFER_SIZE - 1) IN
     walk' = [walk EXCEPT ![p] =
       [phase |-> IF @.phase = "free" /\ i = start THEN "ask" ELSE @.phase, i |-> i]]
  /\ Goto(p, "walk")
  /\ UNCHANGED <<val, inUse, count, ring, status, op, log, history>>

NextSlot(p) ==
  /\ At(p, "next")
  /\ LET i == Succ(walk[p].i) IN
     walk' = [walk EXCEPT ![p] =
       [phase |-> IF @.phase = "free" /\ i = start THEN "ask" ELSE @.phase, i |-> i]]
  /\ Goto(p, "walk")
  /\ UNCHANGED <<val, inUse, count, ring, status, op, log, history>>

(* The sender's side goes on to the messages in flight if nobody receives. *)
(* Race: the receiver's side has been through the ring, messages have been *)
(* sent since, and receiver_id is not reset yet.                           *)
AlwaysAttended == TRUE          \* faulty variants: the sender's side never
NeverAttended == FALSE          \* or always empties the ring
Attended == receiverId # NULL
AskReceiver(p) ==
  /\ Walking(p, "ask")
  /\ walk' = [walk EXCEPT ![p].phase = IF Attended THEN "leave" ELSE "all"]
  /\ races' = races
       \cup (IF receiverId # NULL /\ walk[Receiver].phase = "leave" /\ start # end
             THEN {"stranded"} ELSE {})
       \cup (IF receiverId = NULL /\ walk[Receiver].phase = "used" THEN {"both"} ELSE {})
  /\ UNCHANGED <<val, inUse, count, ring, status, pc, op, log, sent, received>>

EndRing(p) ==
  /\ \/ Walking(p, "all") \/ Walking(p, "used")
  /\ ~More(p)
  /\ walk' = [walk EXCEPT ![p].phase = "leave"]
  /\ UNCHANGED <<val, inUse, count, ring, status, pc, op, log, history>>

(* sender_id or receiver_id = 0, and the slot of the client is given back. *)
Gone(p) ==
  /\ Walking(p, "leave")
  /\ receiverId' = IF p = Receiver /\ listed THEN NULL ELSE receiverId
  /\ status' = [status EXCEPT ![p] = "gone"]
  /\ walk' = [walk EXCEPT ![p] = NoWalk]
  /\ Goto(p, "idle")
  /\ UNCHANGED <<val, inUse, count, start, end, listed, op, log, history>>

-----------------------------------------------------------------------------
(* Steps of something already begun. *)
Step(p) ==
  \/ WriteLog(p) \/ Count(p) \/ Store(p) \/ Release(p)
  \/ WalkRoots(p) \/ VisitSlot(p) \/ NextSlot(p) \/ AskReceiver(p) \/ EndRing(p) \/ Gone(p)
  \/ p = Sender /\ MoveEnd
  \/ p = Receiver /\ (Register \/ TestMessage \/ AllocRootRef \/ LinkMessage
                      \/ UnlinkMessage \/ MoveStart)

Next ==
  \/ \E r \in Root : SentTo(r) \/ Drop(Sender, r) \/ Drop(Receiver, r)
  \/ CxlUnwrap
  \/ \E p \in Client : Leave(p) \/ Crash(p) \/ Redo(p) \/ Step(p)

Spec == Init /\ [][Next]_vars

(* Running clients and the monitor go on with what they have begun, and    *)
(* the monitor takes up a failed client.  Nobody has to begin anything.    *)
FairSpec == Spec /\ \A p \in Client : WF_vars(Step(p)) /\ WF_vars(Redo(p))
-----------------------------------------------------------------------------
(* The object location l counts for: what it holds, but for an operation   *)
(* that has been counted and not stored yet.                               *)
View(l) ==
  IF \E p \in Client : status[p] # "gone" /\ pc[p] = "store" /\ op[p].ref = l
  THEN LET p == CHOOSE p \in Client : pc[p] = "store" /\ op[p].ref = l
       IN IF op[p].func = "LINK" THEN op[p].refed ELSE NULL
  ELSE val[l]

(* Unless one of the known races has happened, the count of an object is   *)
(* the number of RootRefs and of slots of the ring that hold it, whoever   *)
(* fails or leaves in the middle of a transfer.                            *)
CountExact ==
  races = {} =>
    \A o \in Obj : count[o] = Cardinality({l \in Loc : View(l) = o})

(* Unless one of the known races has happened, no message is left in the   *)
(* ring, and no object has a reference, once both clients are gone: each   *)
(* slot has been emptied by the walk of one side.                          *)
AllReleased ==
  races = {} /\ (\A p \in Client : status[p] = "gone") =>
    /\ \A l \in Loc : val[l] = NULL
    /\ \A o \in Obj : count[o] = 0

(* Unless one of the known races has happened, cxl_unwrap never works on   *)
(* offset 0: nobody empties the slot between its test and its last step.   *)
MessageStays == races = {} => pc[Receiver] # "wild"

(* The record of an unlink that ended can be replayed at any time.  For a  *)
(* slot this rests on the one slot that a full ring leaves empty: start    *)
(* has to move, with a later record, before the sender can fill the slot.  *)
OldUnlinkHarmless ==
  \A p \in Client :
    status[p] \in {"run", "dead"} /\ pc[p] # "store"
      /\ log[p].func = "UNLINK" /\ log[p].done /\ "replayed" \notin races
      => val[log[p].ref] = NULL

(* Every failed client is recovered, and every client that wants to leave  *)
(* does or fails: the walks end although the cursors move meanwhile.       *)
WalksEnd ==
  \A p \in Client :
    (status[p] = "dead" \/ walk[p].phase # "none") ~> (status[p] = "gone")

-----------------------------------------------------------------------------
(* The promises of the library, without any reservation about races.       *)

(* No wild pointer: an object that a RootRef holds has a reference.  Said  *)
(* of the case in which the receiver has entered the queue in good time,   *)
(* so that nothing but the redo of the sender's last record is at issue.   *)
NoWildPointer ==
  races \subseteq {"replayed"} =>
    \A r \in Root : inUse[r] /\ View(r) # NULL => count[View(r)] > 0

(* No memory leak: nothing is counted once both clients are gone. *)
NoLeak == (\A p \in Client : status[p] = "gone") => \A o \in Obj : count[o] = 0

(* A client never works on offset 0. *)
NoNullOffset == \A p \in Client : pc[p] # "wild"

-----------------------------------------------------------------------------
(* A message is in flight from the move of end to the count of the         *)
(* receiver's link; one more can be held by a link that is in progress.    *)
Channel == INSTANCE RefChannel WITH
  Message <- Obj, Capacity <- MESSAGE_BUFFER_SIZE - 1,
  flight <- SubSeq(sent, Len(received) + 1, Len(sent)),
  arrived <- received

(* The ring, with its failures and recoveries, implements RefChannel. *)
ImplementsRefChannel == Channel!Spec
=============================================================================
