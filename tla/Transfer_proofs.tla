--------------------------- MODULE Transfer_proofs ---------------------------
(***************************************************************************)
(* Proofs about Transfer, in three layers (TransferInv).                   *)
(*                                                                         *)
(* ShapeInv: what the local variables hold at each step.                   *)
(* RingInv: the cursors, the messages between them and the redo records,   *)
(* for every execution, whatever races have happened.  The refinement of   *)
(* RefChannel and OldUnlinkHarmless rest on these two.                     *)
(* QuietInv: the counts, and who will empty which slot, as long as none of *)
(* the four known races has happened.  CountExact, MessageStays and        *)
(* AllReleased rest on all three.                                          *)
(*                                                                         *)
(* A slot belongs to one side at a time: to the sender's while it is not   *)
(* in flight, to the receiver's while it is, and to the sender's again     *)
(* when it has found that nobody receives.  Most of what follows says that *)
(* the steps of one side, the monitor's in its place included, leave the   *)
(* slots and RootRefs of the other side alone.                             *)
(***************************************************************************)
EXTENDS TransferInv, TLAPS, FiniteSetTheorems, SequenceTheorems

-----------------------------------------------------------------------------
(* The ring.                                                               *)

LEMMA SuccSlot ==
  ASSUME NEW i \in Slot
  PROVE  Succ(i) = IF i = MESSAGE_BUFFER_SIZE - 1 THEN 0 ELSE i + 1
  BY RingAssumption DEF Succ, Slot

LEMMA BetweenRange ==
  ASSUME NEW i \in Slot, NEW j \in Slot
  PROVE  /\ Between(i, j) \in Slot
         /\ Between(i, j) = 0 <=> i = j
         /\ \A k \in Slot : Between(i, j) = Between(i, k) => j = k
  BY RingAssumption DEF Between, Slot

LEMMA BetweenSucc ==
  ASSUME NEW i \in Slot, NEW j \in Slot
  PROVE  /\ Succ(i) \in Slot
         /\ Between(i, Succ(j)) = 
              IF Between(i, j) = MESSAGE_BUFFER_SIZE - 1 THEN 0 ELSE Between(i, j) + 1
         /\ Between(Succ(i), j) =
              IF i = j THEN MESSAGE_BUFFER_SIZE - 1 ELSE Between(i, j) - 1
  BY SuccSlot, RingAssumption DEF Between, Slot

LEMMA BetweenSum ==
  ASSUME NEW i \in Slot, NEW j \in Slot, NEW k \in Slot
  PROVE  IF Between(i, j) <= Between(i, k)
         THEN Between(i, j) + Between(j, k) = Between(i, k)
         ELSE Between(i, j) + Between(j, k) = Between(i, k) + MESSAGE_BUFFER_SIZE
  BY RingAssumption DEF Between, Slot

(* What a step sees of the ring. *)
LEMMA RingNow ==
  ASSUME start \in Slot, end \in Slot
  PROVE  /\ \A i \in Slot : Dist(i) \in Slot /\ ToEnd(i) \in Slot
         /\ Dist(start) = 0 /\ ToEnd(end) = 0 /\ ToEnd(start) = Dist(end)
         /\ \A i, j \in Slot : Dist(i) = Dist(j) => i = j
         /\ \A i, j \in Slot : ToEnd(i) = ToEnd(j) => i = j
         /\ \A i \in Slot : Flying(i) => ToEnd(i) = Dist(end) - Dist(i)
         /\ \A i \in Slot : ToEnd(i) = 0 => i = end
  BY RingAssumption DEF Dist, ToEnd, Flying, Between, Slot

LEMMA RingStays ==
  ASSUME UNCHANGED <<start, end>>
  PROVE  \A i : /\ Dist(i)' = Dist(i) /\ ToEnd(i)' = ToEnd(i)
                /\ (Flying(i)' <=> Flying(i))
  BY DEF Dist, ToEnd, Flying, Between

LEMMA StartMoves ==
  ASSUME start \in Slot, end \in Slot, start' = Succ(start), end' = end
  PROVE  /\ start' \in Slot
         /\ \A i \in Slot :
              /\ Dist(i)' = IF i = start THEN MESSAGE_BUFFER_SIZE - 1 ELSE Dist(i) - 1
              /\ ToEnd(i)' = ToEnd(i)
  BY BetweenSucc DEF Dist, ToEnd

LEMMA EndMoves ==
  ASSUME start \in Slot, end \in Slot, end' = Succ(end), start' = start
  PROVE  /\ end' \in Slot
         /\ \A i \in Slot :
              /\ Dist(i)' = Dist(i)
              /\ ToEnd(i)' =
                   IF ToEnd(i) = MESSAGE_BUFFER_SIZE - 1 THEN 0 ELSE ToEnd(i) + 1
  BY BetweenSucc DEF Dist, ToEnd

-----------------------------------------------------------------------------
(* The shape of the local variables.                                       *)

LEMMA Labels ==
  /\ Label(Sender) = {"log", "count", "store", "idle", "release", "walk", "next", "S2"}
  /\ Label(Receiver) = {"log", "count", "store", "idle", "release", "walk", "next",
                        "register", "test", "root", "link", "unlink", "R3", "wild"}
  /\ Phase(Sender) = {"none", "roots", "leave", "free", "ask", "all"}
  /\ Phase(Receiver) = {"none", "roots", "leave", "used"}
  /\ Sender \in Client /\ Receiver \in Client /\ Sender # Receiver
  BY ClientAssumption DEF Label, Phase, OpLabel, Client

LEMMA BeginTypes ==
  ASSUME Types, NEW p \in Client, NEW func \in {"LINK", "UNLINK"}, NEW ref \in Loc,
         NEW refed \in Obj, NEW then \in {"S2", "unlink", "R3", "release", "next"},
         Begin(p, func, ref, refed, then)
  PROVE  /\ op' \in [Client -> OpType]
         /\ pc' \in [Client -> Label(Sender) \cup Label(Receiver)]
         /\ op'[p] = [func |-> func, ref |-> ref, refed |-> refed, then |-> then]
         /\ pc'[p] = IF status[p] = "run" THEN "log" ELSE "count"
         /\ \A q \in Client : q # p => op'[q] = op[q] /\ pc'[q] = pc[q]
  <1> DEFINE rec == [func |-> func, ref |-> ref, refed |-> refed, then |-> then]
  <1>1. rec \in OpType
    BY DEF OpType
  <1>2. op' = [op EXCEPT ![p] = rec]
    BY DEF Begin
  <1>3. op \in [Client -> OpType] /\ pc \in [Client -> Label(Sender) \cup Label(Receiver)]
    BY DEF Types
  <1>4. pc' = [pc EXCEPT ![p] = IF status[p] = "run" THEN "log" ELSE "count"]
    BY DEF Begin, Goto
  <1>5. {"log", "count"} \subseteq Label(Sender)
    BY Labels
  <1> HIDE DEF rec
  <1>6. op' \in [Client -> OpType] /\ op'[p] = rec /\ \A q \in Client : q # p => op'[q] = op[q]
    BY <1>1, <1>2, <1>3
  <1>7. /\ pc' \in [Client -> Label(Sender) \cup Label(Receiver)]
        /\ pc'[p] = IF status[p] = "run" THEN "log" ELSE "count"
        /\ \A q \in Client : q # p => pc'[q] = pc[q]
    BY <1>3, <1>4, <1>5
  <1> QED
    BY <1>6, <1>7 DEF rec

LEMMA WalkPhase ==
  ASSUME Types, NEW p \in Client, NEW ph \in Phase(Sender) \cup Phase(Receiver),
         walk' = [walk EXCEPT ![p].phase = ph]
  PROVE  walk' \in [Client -> [phase : Phase(Sender) \cup Phase(Receiver), i : Slot]]
  <1>1. [walk[p] EXCEPT !.phase = ph] \in [phase : Phase(Sender) \cup Phase(Receiver), i : Slot]
    BY DEF Types
  <1> QED
    BY <1>1 DEF Types

LEMMA ShapeTypes ==
  ASSUME ShapeInv
  PROVE  Types /\ (\A p \in Client : ClientShape(p)) /\ Entered /\ HolderInv /\ LogOwner
  BY DEF ShapeInv

LEMMA InitShape == Init => ShapeInv
  <1> SUFFICES ASSUME Init PROVE ShapeInv
    OBVIOUS
  <1>1. 0 \in Slot /\ Loc = Root \cup Slot /\ Root \cap Slot = {}
    BY RingAssumption, RootAssumption DEF Slot, Loc
  <1>2. val \in [Loc -> Obj \cup {NULL}] /\ inUse \in [Root -> BOOLEAN]
    BY <1>1, RootAssumption DEF Init
  <1>3. count \in [Obj -> Int]
    <2>1. ASSUME NEW o \in Obj
          PROVE  Cardinality({r \in Root : Held[r] = o}) \in Int
      <3>1. IsFiniteSet({r \in Root : Held[r] = o})
        BY RootAssumption, FS_Subset
      <3> QED
        BY <3>1, FS_CardinalityType
    <2> QED
      BY <2>1 DEF Init
  <1>4. op \in [Client -> OpType] /\ log \in [Client -> LogType]
    BY DEF Init, NoOp, NoLog, OpType, LogType
  <1>5. walk \in [Client -> [phase : Phase(Sender) \cup Phase(Receiver), i : Slot]]
    BY <1>1, Labels DEF Init, NoWalk
  <1>6. pc \in [Client -> Label(Sender) \cup Label(Receiver)] /\ <<>> \in Seq(Obj)
    BY Labels DEF Init
  <1>10. Types
    BY <1>1, <1>2, <1>3, <1>4, <1>5, <1>6 DEF Types, Init
  <1>7. \A p \in Client : pc[p] = "idle" /\ walk[p].phase = "none" /\ status[p] = "run"
    BY DEF Init, NoWalk
  <1>8. \A p \in Client : ClientShape(p)
    BY <1>7, Labels DEF ClientShape, OpLabel, Client
  <1>11. HolderInv
    BY RootAssumption DEF HolderInv, Mine, Init, Loc
  <1>12. LogOwner
    BY RootAssumption, ClientAssumption DEF LogOwner, Init, NoLog, Loc
  <1>9. Entered
    BY <1>7, Labels, ClientAssumption DEF Entered, OnRing, Doing, OpLabel, Init, Client
  <1> QED
    BY <1>10, <1>8, <1>9, <1>11, <1>12 DEF ShapeInv

LEMMA TypesOp ==
  ASSUME ShapeInv, NEW p \in Client, WriteLog(p) \/ Count(p) \/ Store(p) \/ Release(p)
  PROVE  Types'
  <1> USE DEF Types, At, Goto, ring, history
  <1>1. Types /\ ClientShape(p)
    BY ShapeTypes
  <1>2. CASE WriteLog(p)
    BY <1>1, <1>2 DEF WriteLog, ClientShape, OpShape, Label, OpLabel, LogType, OpType, Mine, Loc
  <1>3. CASE Count(p)
    <2>1. op[p].refed \in Obj
      BY <1>1, <1>3 DEF Count, ClientShape, OpShape, OpLabel
    <2>2. count' \in [Obj -> Int]
      BY <1>1, <1>3, <2>1 DEF Count
    <2>3. log' \in [Client -> LogType]
      <3>1. PICK g \in LogType : g = log[p]
        BY <1>1
      <3>2. [g EXCEPT !.done = TRUE] \in LogType
        BY DEF LogType
      <3>3. log' = [log EXCEPT ![p] = [g EXCEPT !.done = TRUE]] \/ log' = log
        BY <1>3, <3>1 DEF Count
      <3> QED
        BY <1>1, <3>2, <3>3
    <2>4. received' \in Seq(Obj) /\ pc' \in [Client -> Label(Sender) \cup Label(Receiver)]
      BY <1>1, <1>3, <2>1, Labels DEF Count
    <2> QED
      BY <1>1, <1>3, <2>2, <2>3, <2>4 DEF Count
  <1>4. CASE Store(p)
    <2>1. op[p].refed \in Obj
      BY <1>1, <1>4 DEF Store, ClientShape, OpShape, OpLabel
    <2>2. op[p].then \in {"S2", "unlink", "R3", "release", "next"}
      BY <1>1, <1>4 DEF Store, ClientShape, OpShape, OpLabel, OpType
    <2>3. pc' \in [Client -> Label(Sender) \cup Label(Receiver)]
      BY <1>1, <1>4, <2>2, Labels DEF Store
    <2>4. val' \in [Loc -> Obj \cup {NULL}]
      BY <1>1, <1>4, <2>1 DEF Store
    <2> QED
      BY <1>1, <1>4, <2>3, <2>4 DEF Store
  <1>5. CASE Release(p)
    BY <1>1, <1>5 DEF Release, ClientShape, Label, OpLabel, Mine, Loc
  <1> QED
    BY <1>2, <1>3, <1>4, <1>5

LEMMA TypesSender ==
  ASSUME ShapeInv, MoveEnd \/ \E r \in Root : SentTo(r)
  PROVE  Types'
  <1> USE DEF Types, At, Goto, Begin, ring, history
  <1>1. Types /\ ClientShape(Sender) /\ Sender \in Client
    BY ShapeTypes DEF Client
  <1>2. CASE MoveEnd
    BY <1>1, <1>2, BetweenSucc DEF MoveEnd, ClientShape, Label
  <1>3. ASSUME NEW r \in Root, SentTo(r)
        PROVE  Types'
    BY <1>1, <1>3 DEF SentTo, Label, OpLabel, OpType, Loc
  <1> QED
    BY <1>2, <1>3

LEMMA TypesReceiver ==
  ASSUME ShapeInv, CxlUnwrap \/ Register \/ TestMessage \/ AllocRootRef \/ LinkMessage
                   \/ UnlinkMessage \/ MoveStart
  PROVE  Types'
  <1> USE DEF Types, At, Goto, Begin, ring, history
  <1>1. Types /\ ClientShape(Receiver) /\ Receiver \in Client
    BY ShapeTypes DEF Client
  <1>2. CASE CxlUnwrap
    BY <1>1, <1>2, Labels DEF CxlUnwrap
  <1>3. CASE Register
    BY <1>1, <1>3, Labels DEF Register
  <1>4. CASE TestMessage
    BY <1>1, <1>4, Labels DEF TestMessage
  <1>5. CASE AllocRootRef
    <2>1. PICK r \in Root :
            /\ inUse' = [inUse EXCEPT ![r] = TRUE]
            /\ val' = [val EXCEPT ![r] = NULL]
            /\ op' = [op EXCEPT ![Receiver] = [NoOp EXCEPT !.ref = r]]
            /\ log' = log \/ log' = [log EXCEPT ![Receiver] = NoLog]
      BY <1>5 DEF AllocRootRef
    <2>2. [NoOp EXCEPT !.ref = r] \in OpType
      BY DEF NoOp, OpType, Loc
    <2>3. op' \in [Client -> OpType]
      BY <1>1, <2>1, <2>2
    <2>4. log' \in [Client -> LogType]
      <3>1. NoLog \in LogType
        BY DEF LogType, NoLog
      <3> QED
        BY <1>1, <2>1, <3>1
    <2>5. /\ val' \in [Loc -> Obj \cup {NULL}] /\ inUse' \in [Root -> BOOLEAN]
          /\ pc' \in [Client -> Label(Sender) \cup Label(Receiver)]
      BY <1>1, <1>5, <2>1, Labels DEF AllocRootRef
    <2> QED
      BY <1>1, <1>5, <2>3, <2>4, <2>5 DEF AllocRootRef
  <1>6. CASE LinkMessage
    <2>1. CASE val[start] = NULL
      BY <1>1, <1>6, <2>1, Labels DEF LinkMessage
    <2>2. CASE val[start] # NULL
      <3>1. val[start] \in Obj /\ op[Receiver].ref \in Loc
        BY <1>1, <1>6, <2>2 DEF LinkMessage, ClientShape, Mine, Loc
      <3>2. Begin(Receiver, "LINK", op[Receiver].ref, val[start], "unlink")
        BY <1>6, <2>2 DEF LinkMessage
      <3>3. op' \in [Client -> OpType] /\ pc' \in [Client -> Label(Sender) \cup Label(Receiver)]
        BY <1>1, <3>1, <3>2, BeginTypes
      <3> QED
        BY <1>1, <1>6, <3>3 DEF LinkMessage
    <2> QED
      BY <2>1, <2>2
  <1>7. CASE UnlinkMessage
    <2>1. CASE val[start] = NULL
      BY <1>1, <1>7, <2>1, Labels DEF UnlinkMessage
    <2>2. CASE val[start] # NULL
      <3>1. val[start] \in Obj /\ start \in Loc
        BY <1>1, <2>2 DEF Loc
      <3>2. Begin(Receiver, "UNLINK", start, val[start], "R3")
        BY <1>7, <2>2 DEF UnlinkMessage
      <3>3. op' \in [Client -> OpType] /\ pc' \in [Client -> Label(Sender) \cup Label(Receiver)]
        BY <1>1, <3>1, <3>2, BeginTypes
      <3> QED
        BY <1>1, <1>7, <3>3 DEF UnlinkMessage
    <2> QED
      BY <2>1, <2>2
  <1>8. CASE MoveStart
    BY <1>1, <1>8, BetweenSucc DEF MoveStart, Label
  <1> QED
    BY <1>2, <1>3, <1>4, <1>5, <1>6, <1>7, <1>8

LEMMA TypesClient ==
  ASSUME ShapeInv, NEW p \in Client,
         Leave(p) \/ Crash(p) \/ Redo(p) \/ Gone(p) \/ \E r \in Root : Drop(p, r)
  PROVE  Types'
  <1> USE DEF Types, At, Goto, Begin, ring, history
  <1>1. Types /\ ClientShape(p)
    BY ShapeTypes
  <1>2. CASE Leave(p)
    <2>1. walk' \in [Client -> [phase : Phase(Sender) \cup Phase(Receiver), i : Slot]]
      BY <1>1, <1>2, WalkPhase, Labels DEF Leave
    <2> QED
      BY <1>1, <1>2, <2>1, Labels DEF Leave
  <1>3. CASE Crash(p)
    BY <1>1, <1>3 DEF Crash
  <1>4. CASE Redo(p)
    <2>1. NoOp \in OpType /\ 0 \in Slot
      BY RingAssumption DEF NoOp, OpType, Slot
    <2>2. op' \in [Client -> OpType] /\ status' \in [Client -> {"run", "dead", "rec", "gone"}]
      BY <1>1, <1>4, <2>1 DEF Redo
    <2>3. walk' \in [Client -> [phase : Phase(Sender) \cup Phase(Receiver), i : Slot]]
      BY <1>1, <1>4, <2>1, Labels DEF Redo
    <2>4. val' \in [Loc -> Obj \cup {NULL}]
      <3>1. log[p].refed \in Obj \cup {NULL}
        BY <1>1 DEF LogType
      <3> QED
        BY <1>1, <1>4, <3>1 DEF Redo
    <2>5. /\ pc' \in [Client -> Label(Sender) \cup Label(Receiver)]
          /\ races' \subseteq {"late", "both", "stranded", "replayed"}
      BY <1>1, <1>4, Labels DEF Redo
    <2> QED
      BY <1>1, <1>4, <2>2, <2>3, <2>4, <2>5 DEF Redo
  <1>5. CASE Gone(p)
    BY <1>1, <1>5, RingAssumption DEF Gone, Walking, Label, OpLabel, Phase, NoWalk, Slot
  <1>6. ASSUME NEW r \in Root, Drop(p, r)
        PROVE  Types'
    BY <1>1, <1>6 DEF Drop, Label, OpLabel, OpType, Loc
  <1> QED
    BY <1>2, <1>3, <1>4, <1>5, <1>6

LEMMA TypesWalk ==
  ASSUME ShapeInv, NEW p \in Client,
         WalkRoots(p) \/ VisitSlot(p) \/ NextSlot(p) \/ AskReceiver(p) \/ EndRing(p)
  PROVE  Types'
  <1> USE DEF Types, At, Goto, Begin, Walking, ring, history
  <1>1. Types /\ ClientShape(p)
    BY ShapeTypes
  <1>2. CASE WalkRoots(p)
    <2>1. ASSUME NEW r \in Root,
                 IF Nothing(p, r)
                 THEN op' = [op EXCEPT ![p] = [NoOp EXCEPT !.ref = r]] /\ Goto(p, "release")
                 ELSE Begin(p, "UNLINK", r, val[r], "release"),
                 UNCHANGED <<walk, races>>
          PROVE  Types'
      <3>1. CASE Nothing(p, r)
        <4>1. [NoOp EXCEPT !.ref = r] \in OpType
          BY DEF NoOp, OpType, Loc
        <4>2. op' \in [Client -> OpType]
          BY <1>1, <2>1, <3>1, <4>1
        <4>3. pc' \in [Client -> Label(Sender) \cup Label(Receiver)]
          BY <1>1, <2>1, <3>1, Labels
        <4> QED
          BY <1>1, <1>2, <2>1, <4>2, <4>3 DEF WalkRoots
      <3>2. CASE ~Nothing(p, r)
        <4>1. r \in Loc /\ val[r] \in Obj
          BY <1>1, <3>2 DEF Nothing, Loc
        <4>2. op' \in [Client -> OpType] /\ pc' \in [Client -> Label(Sender) \cup Label(Receiver)]
          BY <1>1, <2>1, <3>2, <4>1, BeginTypes
        <4> QED
          BY <1>1, <1>2, <2>1, <4>2 DEF WalkRoots
      <3> QED
        BY <3>1, <3>2
    <2>2. ASSUME UNCHANGED <<pc, op>>, walk' = [walk EXCEPT ![p] = RingPart(p)],
                 races' = races \/ races' = races \cup {"both"}
          PROVE  Types'
      <3>1. 0 \in Slot
        BY RingAssumption DEF Slot
      <3>2. RingPart(p) \in [phase : Phase(Sender) \cup Phase(Receiver), i : Slot]
        BY <1>1, <3>1, Labels DEF RingPart
      <3>3. walk' \in [Client -> [phase : Phase(Sender) \cup Phase(Receiver), i : Slot]]
        BY <1>1, <2>2, <3>2
      <3> QED
        BY <1>1, <1>2, <2>2, <3>3 DEF WalkRoots
    <2> QED
      BY <1>2, <2>1, <2>2 DEF WalkRoots
  <1>3. CASE VisitSlot(p)
    <2>1. CASE Nothing(p, walk[p].i)
      BY <1>1, <1>3, <2>1, Labels DEF VisitSlot
    <2>2. CASE ~Nothing(p, walk[p].i)
      <3> DEFINE i == walk[p].i
      <3>1. i \in Slot /\ i \in Loc /\ val[i] \in Obj
        BY <1>1, <2>2 DEF Nothing, Loc
      <3>2. Begin(p, "UNLINK", i, val[i], "next")
        BY <1>3, <2>2 DEF VisitSlot
      <3>3. op' \in [Client -> OpType] /\ pc' \in [Client -> Label(Sender) \cup Label(Receiver)]
        BY <1>1, <3>1, <3>2, BeginTypes
      <3> QED
        BY <1>1, <1>3, <3>3 DEF VisitSlot
    <2> QED
      BY <2>1, <2>2
  <1>4. CASE NextSlot(p)
    BY <1>1, <1>4, BetweenSucc DEF NextSlot, Label, OpLabel, Phase
  <1>5. CASE AskReceiver(p)
    <2>1. walk' \in [Client -> [phase : Phase(Sender) \cup Phase(Receiver), i : Slot]]
      BY <1>1, <1>5, WalkPhase, Labels DEF AskReceiver
    <2>2. races' \subseteq {"late", "both", "stranded", "replayed"}
      BY <1>1, <1>5 DEF AskReceiver
    <2> QED
      BY <1>1, <1>5, <2>1, <2>2 DEF AskReceiver
  <1>6. CASE EndRing(p)
    <2>1. walk' \in [Client -> [phase : Phase(Sender) \cup Phase(Receiver), i : Slot]]
      BY <1>1, <1>6, WalkPhase, Labels DEF EndRing
    <2> QED
      BY <1>1, <1>6, <2>1 DEF EndRing
  <1> QED
    BY <1>2, <1>3, <1>4, <1>5, <1>6

-----------------------------------------------------------------------------
(* What a step of client p, or of the monitor in its place, leaves alone.  *)

Acts(p) ==
  \/ p = Sender /\ \E r \in Root : SentTo(r)
  \/ p = Receiver /\ CxlUnwrap
  \/ \E r \in Root : Drop(p, r)
  \/ Leave(p) \/ Crash(p) \/ Redo(p) \/ Step(p)

LEMMA NextActs == Next <=> \E p \in Client : Acts(p)
  BY DEF Next, Acts, Client

Mute(p) ==
  /\ \A q \in Client \ {p} :
       /\ pc'[q] = pc[q] /\ op'[q] = op[q] /\ log'[q] = log[q]
       /\ walk'[q] = walk[q] /\ status'[q] = status[q]
  /\ p # Sender => UNCHANGED <<end, sent>>
  /\ p # Receiver => UNCHANGED <<start, received, receiverId, listed>>
  /\ \A r \in Root : Owner[r] # p => inUse'[r] = inUse[r]

LEMMA FrameStep ==
  ASSUME ShapeInv, NEW p \in Client, Step(p)
  PROVE  Mute(p)
  <1> USE DEF Types, At, Goto, Begin, Walking, ring, history, Mute
  <1>1. Types /\ ClientShape(p)
    BY ShapeTypes
  <1>2. CASE WriteLog(p)
    BY <1>1, <1>2 DEF WriteLog
  <1>3. CASE Count(p)
    <2>1. p # Receiver => op[p].then # "unlink"
      BY <1>1, <1>3 DEF Count, ClientShape, OpShape, OpLabel
    <2> QED
      BY <1>1, <1>3, <2>1 DEF Count
  <1>4. CASE Store(p)
    BY <1>1, <1>4 DEF Store
  <1>5. CASE Release(p)
    BY <1>1, <1>5 DEF Release, ClientShape, Mine
  <1>6. CASE WalkRoots(p)
    BY <1>1, <1>6 DEF WalkRoots
  <1>7. CASE VisitSlot(p)
    BY <1>1, <1>7 DEF VisitSlot
  <1>8. CASE NextSlot(p)
    BY <1>1, <1>8 DEF NextSlot
  <1>9. CASE AskReceiver(p)
    BY <1>1, <1>9 DEF AskReceiver
  <1>10. CASE EndRing(p)
    BY <1>1, <1>10 DEF EndRing
  <1>11. CASE Gone(p)
    BY <1>1, <1>11 DEF Gone
  <1>12. CASE p = Sender /\ MoveEnd
    BY <1>1, <1>12 DEF MoveEnd
  <1>13. CASE p = Receiver /\ Register
    BY <1>1, <1>13, Labels DEF Register
  <1>14. CASE p = Receiver /\ TestMessage
    BY <1>1, <1>14, Labels DEF TestMessage
  <1>15. CASE p = Receiver /\ AllocRootRef
    <2>1. PICK r \in Root :
            /\ Owner[r] = Receiver
            /\ inUse' = [inUse EXCEPT ![r] = TRUE]
            /\ op' = [op EXCEPT ![Receiver] = [NoOp EXCEPT !.ref = r]]
            /\ log' = log \/ log' = [log EXCEPT ![Receiver] = NoLog]
      BY <1>15 DEF AllocRootRef
    <2>2. \A s \in Root : Owner[s] # p => inUse'[s] = inUse[s]
      BY <1>1, <1>15, <2>1
    <2>3. \A q \in Client \ {p} : op'[q] = op[q] /\ log'[q] = log[q]
      BY <1>1, <1>15, <2>1
    <2>4. \A q \in Client \ {p} : pc'[q] = pc[q]
      BY <1>1, <1>15 DEF AllocRootRef
    <2> QED
      BY <1>15, <2>2, <2>3, <2>4, Labels DEF AllocRootRef
  <1>16. CASE p = Receiver /\ LinkMessage
    BY <1>1, <1>16, Labels DEF LinkMessage
  <1>17. CASE p = Receiver /\ UnlinkMessage
    BY <1>1, <1>17, Labels DEF UnlinkMessage
  <1>18. CASE p = Receiver /\ MoveStart
    BY <1>1, <1>18, Labels DEF MoveStart
  <1> QED
    BY <1>2, <1>3, <1>4, <1>5, <1>6, <1>7, <1>8, <1>9, <1>10, <1>11, <1>12, <1>13, <1>14,
       <1>15, <1>16, <1>17, <1>18 DEF Step

LEMMA Frame ==
  ASSUME ShapeInv, NEW p \in Client, Acts(p)
  PROVE  Mute(p)
  <1> USE DEF Types, At, Goto, Begin, ring, history, Mute
  <1>1. Types
    BY ShapeTypes
  <1>2. CASE p = Sender /\ \E r \in Root : SentTo(r)
    BY <1>1, <1>2 DEF SentTo
  <1>3. CASE p = Receiver /\ CxlUnwrap
    BY <1>1, <1>3, Labels DEF CxlUnwrap
  <1>4. CASE \E r \in Root : Drop(p, r)
    BY <1>1, <1>4 DEF Drop
  <1>5. CASE Leave(p)
    BY <1>1, <1>5 DEF Leave
  <1>6. CASE Crash(p)
    BY <1>1, <1>6 DEF Crash
  <1>7. CASE Redo(p)
    BY <1>1, <1>7 DEF Redo
  <1>8. CASE Step(p)
    BY <1>8, FrameStep
  <1> QED
    BY <1>2, <1>3, <1>4, <1>5, <1>6, <1>7, <1>8 DEF Acts

LEMMA TypesStep ==
  ASSUME ShapeInv, NEW p \in Client, Acts(p)
  PROVE  Types'
  BY TypesOp, TypesSender, TypesReceiver, TypesClient, TypesWalk DEF Acts, Step

(* The other client has the shape that it had. *)
LEMMA ShapeOther ==
  ASSUME ShapeInv, NEW p \in Client, Mute(p), NEW q \in Client \ {p}
  PROVE  ClientShape(q)'
  <1>1. ClientShape(q) /\ q \in Client
    BY ShapeTypes
  <1>2. /\ pc'[q] = pc[q] /\ op'[q] = op[q] /\ walk'[q] = walk[q] /\ status'[q] = status[q]
        /\ q = Sender => end' = end
        /\ q = Receiver => start' = start
    BY DEF Mute
  <1>3. \A r : Mine(q, r) => Mine(q, r)'
    BY DEF Mute, Mine
  <1>4. OpShape(q) => OpShape(q)'
    BY <1>2, <1>3 DEF OpShape, Mine
  <1> QED
    BY <1>1, <1>2, <1>3, <1>4 DEF ClientShape, Mine

-----------------------------------------------------------------------------
(* The shape of the client that takes the step. *)

LEMMA BeginShape ==
  ASSUME ShapeInv, NEW p \in Client, status[p] \in {"run", "rec"},
         NEW func \in {"LINK", "UNLINK"}, NEW ref \in Loc, NEW refed \in Obj,
         NEW then \in {"S2", "unlink", "R3", "release", "next"},
         Begin(p, func, ref, refed, then),
         UNCHANGED <<walk, status, inUse, start, end>>,
         func = IF then \in {"S2", "unlink"} THEN "LINK" ELSE "UNLINK",
         then = "S2" => p = Sender /\ ref = end,
         then = "R3" => p = Receiver /\ ref = start,
         then = "unlink" => p = Receiver /\ Mine(p, ref),
         then = "release" => walk[p].phase \in {"none", "roots"} /\ Mine(p, ref),
         then = "next" => walk[p].phase \in RingWalk /\ ref = walk[p].i,
         then \in {"S2", "unlink", "R3"} => walk[p].phase = "none"
  PROVE  ClientShape(p)'
  <1>1. Types /\ ClientShape(p)
    BY ShapeTypes
  <1>2. /\ op'[p] = [func |-> func, ref |-> ref, refed |-> refed, then |-> then]
        /\ pc'[p] \in {"log", "count"}
        /\ pc'[p] = "log" => status[p] = "run"
    <2>1. /\ op'[p] = [func |-> func, ref |-> ref, refed |-> refed, then |-> then]
          /\ pc'[p] = IF status[p] = "run" THEN "log" ELSE "count"
      BY <1>1 DEF Begin, Goto, Types
    <2> QED
      BY <2>1
  <1>3. OpShape(p)'
    BY <1>2 DEF OpShape, Mine
  <1>4. pc'[p] \in Label(p) /\ pc'[p] \in OpLabel
    BY <1>2 DEF Label, OpLabel
  <1> QED
    BY <1>1, <1>2, <1>3, <1>4 DEF ClientShape, OpLabel

LEMMA ShapeOp ==
  ASSUME ShapeInv, NEW p \in Client, WriteLog(p) \/ Count(p) \/ Store(p) \/ Release(p)
  PROVE  ClientShape(p)'
  <1> USE DEF Types, At, Goto, ring, history
  <1>1. Types /\ ClientShape(p)
    BY ShapeTypes
  <1>2. CASE WriteLog(p)
    <2>1. OpShape(p) /\ op' = op /\ inUse' = inUse /\ walk' = walk /\ end' = end /\ start' = start
      BY <1>1, <1>2 DEF WriteLog, ClientShape, OpLabel
    <2>2. OpShape(p)'
      BY <2>1 DEF OpShape, Mine
    <2> QED
      BY <1>1, <1>2, <2>2 DEF WriteLog, ClientShape, Label, OpLabel
  <1>3. CASE Count(p)
    <2>1. OpShape(p) /\ op' = op /\ inUse' = inUse /\ walk' = walk /\ end' = end /\ start' = start
      BY <1>1, <1>3 DEF Count, ClientShape, OpLabel
    <2>2. OpShape(p)'
      BY <2>1 DEF OpShape, Mine
    <2> QED
      BY <1>1, <1>3, <2>2 DEF Count, ClientShape, Label, OpLabel
  <1>4. CASE Store(p)
    <2>1. OpShape(p) /\ UNCHANGED <<op, inUse, walk, start, end, status>> /\ pc'[p] = op[p].then
      BY <1>1, <1>4 DEF Store, ClientShape, OpLabel
    <2>2. op[p].then \in {"S2", "unlink", "R3", "release", "next"}
      BY <1>1, <2>1 DEF OpShape, OpType
    <2>3. pc'[p] \in Label(p)
      BY <2>1, <2>2, Labels DEF OpShape, Label
    <2>4. status[p] # "gone" /\ pc[p] = "store"
      BY <1>4 DEF Store
    <2>5. /\ pc'[p] = "next" => walk'[p].phase \in RingWalk
          /\ pc'[p] = "release" => walk'[p].phase \in {"none", "roots"} /\ Mine(p, op[p].ref)'
          /\ walk'[p].phase # "none" => pc'[p] \in {"release", "next"}
          /\ pc'[p] = "S2" => op'[p].refed \in Obj
      BY <2>1, <2>2 DEF OpShape, Mine
    <2>6. /\ status'[p] # "gone" /\ (status'[p] = "rec" => walk'[p].phase # "none")
          /\ walk'[p].phase \in Phase(p)
      BY <1>1, <2>1, <2>4 DEF ClientShape, OpLabel
    <2> QED
      BY <2>1, <2>2, <2>3, <2>5, <2>6, Zenon DEF ClientShape, OpLabel, RingWalk
  <1>5. CASE Release(p)
    <2>1. pc'[p] = IF walk[p].phase = "none" THEN "idle" ELSE "walk"
      BY <1>1, <1>5 DEF Release
    <2> QED
      BY <1>1, <1>5, <2>1 DEF Release, ClientShape, Label, OpLabel
  <1> QED
    BY <1>2, <1>3, <1>4, <1>5

LEMMA ShapeSender ==
  ASSUME ShapeInv, MoveEnd \/ \E r \in Root : SentTo(r)
  PROVE  ClientShape(Sender)'
  <1> USE DEF Types, At, Goto, ring, history
  <1>1. Types /\ ClientShape(Sender) /\ Sender \in Client
    BY ShapeTypes DEF Client
  <1>2. CASE MoveEnd
    BY <1>1, <1>2 DEF MoveEnd, ClientShape, Label, OpLabel
  <1>3. ASSUME NEW r \in Root, SentTo(r)
        PROVE  ClientShape(Sender)'
    <2>1. walk[Sender].phase = "none" /\ end \in Loc
      BY <1>1, <1>3 DEF SentTo, ClientShape, Loc, OpLabel
    <2>2. val[r] \in Obj
      BY <1>1, <1>3, <2>1, ShapeTypes DEF SentTo, HolderInv, Mine, Loc
    <2>3. /\ Begin(Sender, "LINK", end, val[r], "S2") /\ status[Sender] \in {"run", "rec"}
          /\ UNCHANGED <<walk, status, inUse, start, end>>
      BY <1>3 DEF SentTo
    <2> QED
      BY <1>1, <2>1, <2>2, <2>3, BeginShape
  <1> QED
    BY <1>2, <1>3

LEMMA ShapeReceiver ==
  ASSUME ShapeInv, CxlUnwrap \/ Register \/ TestMessage \/ AllocRootRef \/ LinkMessage
                   \/ UnlinkMessage \/ MoveStart
  PROVE  ClientShape(Receiver)'
  <1> USE DEF Types, At, Goto, ring, history
  <1>1. Types /\ ClientShape(Receiver) /\ Receiver \in Client
    BY ShapeTypes DEF Client
  <1>2. CASE CxlUnwrap
    BY <1>1, <1>2, Labels DEF CxlUnwrap, ClientShape, OpLabel
  <1>3. CASE Register
    BY <1>1, <1>3, Labels DEF Register, ClientShape, OpLabel
  <1>4. CASE TestMessage
    BY <1>1, <1>4, Labels DEF TestMessage, ClientShape, OpLabel
  <1>5. CASE AllocRootRef
    <2>1. PICK r \in Root :
            /\ Owner[r] = Receiver
            /\ inUse' = [inUse EXCEPT ![r] = TRUE]
            /\ op' = [op EXCEPT ![Receiver] = [NoOp EXCEPT !.ref = r]]
      BY <1>5 DEF AllocRootRef
    <2>2. pc'[Receiver] = "link" /\ walk' = walk /\ status' = status /\ pc[Receiver] = "root"
      BY <1>1, <1>5 DEF AllocRootRef
    <2>3. op'[Receiver].ref = r /\ inUse'[r]
      BY <1>1, <2>1 DEF NoOp
    <2> QED
      BY <1>1, <2>1, <2>2, <2>3, Labels DEF ClientShape, OpLabel, Mine
  <1>6. CASE LinkMessage
    <2>1. walk[Receiver].phase = "none" /\ Mine(Receiver, op[Receiver].ref)
      BY <1>1, <1>6 DEF LinkMessage, ClientShape, OpLabel
    <2>2. CASE val[start] = NULL
      BY <1>1, <1>6, <2>2, Labels DEF LinkMessage, ClientShape, OpLabel
    <2>3. CASE val[start] # NULL
      <3>1. val[start] \in Obj /\ op[Receiver].ref \in Loc
        BY <1>1, <2>1, <2>3 DEF Mine, Loc
      <3>2. /\ Begin(Receiver, "LINK", op[Receiver].ref, val[start], "unlink")
            /\ status[Receiver] \in {"run", "rec"}
            /\ UNCHANGED <<walk, status, inUse, start, end>>
        BY <1>6, <2>3 DEF LinkMessage
      <3> QED
        BY <1>1, <2>1, <3>1, <3>2, BeginShape
    <2> QED
      BY <2>2, <2>3
  <1>7. CASE UnlinkMessage
    <2>1. walk[Receiver].phase = "none"
      BY <1>1, <1>7 DEF UnlinkMessage, ClientShape, OpLabel
    <2>2. CASE val[start] = NULL
      BY <1>1, <1>7, <2>2, Labels DEF UnlinkMessage, ClientShape, OpLabel
    <2>3. CASE val[start] # NULL
      <3>1. val[start] \in Obj /\ start \in Loc
        BY <1>1, <2>3 DEF Loc
      <3>2. /\ Begin(Receiver, "UNLINK", start, val[start], "R3")
            /\ status[Receiver] \in {"run", "rec"}
            /\ UNCHANGED <<walk, status, inUse, start, end>>
        BY <1>7, <2>3 DEF UnlinkMessage
      <3> QED
        BY <1>1, <2>1, <3>1, <3>2, BeginShape
    <2> QED
      BY <2>2, <2>3
  <1>8. CASE MoveStart
    BY <1>1, <1>8, Labels DEF MoveStart, ClientShape, OpLabel
  <1> QED
    BY <1>2, <1>3, <1>4, <1>5, <1>6, <1>7, <1>8

LEMMA ShapeClient ==
  ASSUME ShapeInv, NEW p \in Client,
         Leave(p) \/ Crash(p) \/ Redo(p) \/ Gone(p) \/ \E r \in Root : Drop(p, r)
  PROVE  ClientShape(p)'
  <1> USE DEF Types, At, Goto, ring, history
  <1>1. Types /\ ClientShape(p)
    BY ShapeTypes
  <1>2. CASE Leave(p)
    <2>1. walk'[p].phase = "roots" /\ pc'[p] = "walk" /\ status' = status /\ status[p] = "run"
      BY <1>1, <1>2 DEF Leave
    <2> QED
      BY <2>1 DEF ClientShape, Label, Phase, OpLabel
  <1>3. CASE Crash(p)
    <2>1. UNCHANGED <<op, inUse, walk, start, end, pc>> /\ status'[p] = "dead"
      BY <1>1, <1>3 DEF Crash
    <2>2. OpShape(p) => OpShape(p)'
      BY <2>1 DEF OpShape, Mine
    <2> QED
      BY <1>1, <2>1, <2>2 DEF ClientShape, Mine
  <1>4. CASE Redo(p)
    <2>1. walk'[p].phase = "roots" /\ pc'[p] = "walk" /\ status'[p] = "rec"
      BY <1>1, <1>4 DEF Redo
    <2> QED
      BY <2>1 DEF ClientShape, Label, Phase, OpLabel
  <1>5. CASE Gone(p)
    <2>1. walk'[p].phase = "none" /\ pc'[p] = "idle" /\ status'[p] = "gone"
      BY <1>1, <1>5 DEF Gone, NoWalk
    <2> QED
      BY <2>1 DEF ClientShape, Label, Phase, OpLabel
  <1>6. ASSUME NEW r \in Root, Drop(p, r)
        PROVE  ClientShape(p)'
    <2>1. walk[p].phase = "none" /\ Mine(p, r) /\ r \in Loc
      BY <1>1, <1>6 DEF Drop, ClientShape, OpLabel, Mine, Loc
    <2>2. val[r] \in Obj
      BY <1>1, <1>6, <2>1 DEF Drop
    <2>3. /\ Begin(p, "UNLINK", r, val[r], "release")
          /\ status[p] \in {"run", "rec"}
          /\ UNCHANGED <<walk, status, inUse, start, end>>
      BY <1>6 DEF Drop
    <2> QED
      BY <1>1, <2>1, <2>2, <2>3, BeginShape
  <1> QED
    BY <1>2, <1>3, <1>4, <1>5, <1>6

LEMMA ShapeWalk ==
  ASSUME ShapeInv, NEW p \in Client,
         WalkRoots(p) \/ VisitSlot(p) \/ NextSlot(p) \/ AskReceiver(p) \/ EndRing(p)
  PROVE  ClientShape(p)'
  <1> USE DEF Types, At, Goto, Walking, ring, history
  <1>1. Types /\ ClientShape(p)
    BY ShapeTypes
  <1>2. CASE WalkRoots(p)
    <2>1. walk[p].phase = "roots" /\ status' = status /\ status[p] # "gone" /\ pc[p] = "walk"
      BY <1>2 DEF WalkRoots
    <2>2. ASSUME NEW r \in Root, Owner[r] = p, inUse[r],
                 IF Nothing(p, r)
                 THEN op' = [op EXCEPT ![p] = [NoOp EXCEPT !.ref = r]] /\ Goto(p, "release")
                 ELSE Begin(p, "UNLINK", r, val[r], "release"),
                 UNCHANGED <<walk, races>>
          PROVE  ClientShape(p)'
      <3>1. CASE Nothing(p, r)
        <4>1. op'[p].ref = r /\ pc'[p] = "release" /\ inUse' = inUse
          BY <1>1, <1>2, <2>2, <3>1 DEF WalkRoots, NoOp
        <4> QED
          BY <1>1, <2>1, <2>2, <4>1 DEF ClientShape, OpLabel, Label, Mine
      <3>2. CASE ~Nothing(p, r)
        <4>1. r \in Loc /\ val[r] \in Obj
          BY <1>1, <3>2 DEF Nothing, Loc
        <4>2. /\ Begin(p, "UNLINK", r, val[r], "release")
              /\ status[p] \in {"run", "rec"}
              /\ UNCHANGED <<walk, status, inUse, start, end>>
          BY <1>2, <2>2, <3>2 DEF WalkRoots
        <4>3. Mine(p, r)
          BY <2>2 DEF Mine
        <4> QED
          BY <1>1, <2>1, <4>1, <4>2, <4>3, BeginShape
      <3> QED
        BY <3>1, <3>2
    <2>3. ASSUME UNCHANGED <<pc, op>>, walk' = [walk EXCEPT ![p] = RingPart(p)]
          PROVE  ClientShape(p)'
      <3>1. walk'[p].phase \in {"free", "used", "leave"} /\ walk'[p].phase \in Phase(p)
        BY <1>1, <2>3, Labels DEF RingPart, Client
      <3> QED
        BY <1>1, <2>1, <2>3, <3>1 DEF ClientShape, OpLabel
    <2> QED
      BY <1>2, <2>2, <2>3 DEF WalkRoots
  <1>3. CASE VisitSlot(p)
    <2> DEFINE i == walk[p].i
    <2>1. /\ walk[p].phase \in RingWalk /\ UNCHANGED <<walk, status, inUse, start, end>>
          /\ status[p] \in {"run", "rec"} /\ pc[p] = "walk"
      BY <1>3 DEF VisitSlot, RingWalk
    <2>2. CASE Nothing(p, i)
      <3>1. pc'[p] = "next"
        BY <1>1, <1>3, <2>2 DEF VisitSlot
      <3> QED
        BY <1>1, <2>1, <3>1 DEF ClientShape, OpLabel, Label
    <2>3. CASE ~Nothing(p, i)
      <3>1. i \in Loc /\ val[i] \in Obj
        BY <1>1, <2>3 DEF Nothing, Loc
      <3>2. Begin(p, "UNLINK", i, val[i], "next")
        BY <1>3, <2>3 DEF VisitSlot
      <3> QED
        BY <1>1, <2>1, <3>1, <3>2, BeginShape
    <2> QED
      BY <2>2, <2>3
  <1>4. CASE NextSlot(p)
    <2>1. /\ walk'[p].phase = walk[p].phase \/ (walk[p].phase = "free" /\ walk'[p].phase = "ask")
          /\ pc'[p] = "walk" /\ status' = status /\ pc[p] = "next"
      BY <1>1, <1>4 DEF NextSlot
    <2>2. walk'[p].phase \in Phase(p)
      BY <1>1, <2>1 DEF ClientShape, Phase
    <2> QED
      BY <1>1, <2>1, <2>2 DEF ClientShape, OpLabel, Label
  <1>5. CASE AskReceiver(p)
    <2>1. /\ walk'[p].phase \in {"leave", "all"} /\ walk[p].phase = "ask"
          /\ pc' = pc /\ status' = status /\ pc[p] = "walk"
      BY <1>1, <1>5 DEF AskReceiver
    <2>2. walk'[p].phase \in Phase(p)
      BY <1>1, <2>1 DEF ClientShape, Phase
    <2> QED
      BY <1>1, <2>1, <2>2 DEF ClientShape, OpLabel
  <1>6. CASE EndRing(p)
    <2>1. walk'[p].phase = "leave" /\ pc' = pc /\ status' = status /\ pc[p] = "walk"
      BY <1>1, <1>6 DEF EndRing
    <2>2. walk'[p].phase \in Phase(p)
      BY <2>1 DEF Phase
    <2> QED
      BY <1>1, <2>1, <2>2 DEF ClientShape, OpLabel
  <1> QED
    BY <1>2, <1>3, <1>4, <1>5, <1>6

LEMMA ShapeActor ==
  ASSUME ShapeInv, NEW p \in Client, Acts(p)
  PROVE  ClientShape(p)'
  BY ShapeOp, ShapeSender, ShapeReceiver, ShapeClient, ShapeWalk DEF Acts, Step

(* A client works on a RootRef of its own, or on a slot. *)
LEMMA OpPlace ==
  ASSUME ShapeInv, NEW p \in Client, pc[p] \in OpLabel
  PROVE  /\ op[p].ref \in Loc /\ op[p].refed \in Obj
         /\ op[p].ref \in Root => op[p].then \in {"unlink", "release"} /\ Mine(p, op[p].ref)
         /\ op[p].ref \in Slot => op[p].then \in {"S2", "R3", "next"}
         /\ op[p].then \in {"S2", "unlink", "R3", "release", "next"}
         /\ op[p].then \in {"unlink", "release"} => op[p].ref \in Root
         /\ op[p].then \in {"S2", "R3", "next"} => op[p].ref \in Slot
  <1>1. Types /\ OpShape(p)
    BY ShapeTypes DEF ClientShape
  <1>2. op[p].then \in {"S2", "unlink", "R3", "release", "next"}
    BY <1>1 DEF Types, OpType, OpShape
  <1>3. start \in Slot /\ end \in Slot /\ walk[p].i \in Slot
    BY <1>1 DEF Types
  <1> QED
    BY <1>1, <1>2, <1>3, RootAssumption DEF OpShape, Mine, Loc

(* The RootRefs of the other client keep what they hold. *)
LEMMA RootsKeep ==
  ASSUME ShapeInv, NEW p \in Client, Acts(p), NEW r \in Root, Owner[r] # p
  PROVE  val'[r] = val[r]
  <1> USE DEF Goto, At, ring, history
  <1>1. Types /\ r \in Loc /\ r \notin Slot
    BY ShapeTypes, RootAssumption DEF Loc
  <1>2. CASE Store(p)
    <2>1. op[p].ref # r
      BY <1>2, OpPlace DEF Store, OpLabel, Mine
    <2> QED
      BY <1>1, <1>2, <2>1 DEF Store, Types
  <1>3. CASE Release(p)
    <2>1. op[p].ref # r
      BY <1>3, ShapeTypes DEF Release, ClientShape, Mine
    <2> QED
      BY <1>1, <1>3, <2>1 DEF Release, Types
  <1>4. CASE Redo(p)
    <2>1. log[p].ref # r
      BY ShapeTypes DEF LogOwner
    <2> QED
      BY <1>1, <1>4, <2>1 DEF Redo, Types
  <1>5. CASE p = Receiver /\ AllocRootRef
    BY <1>1, <1>5 DEF AllocRootRef, Types
  <1>6. CASE ~(Store(p) \/ Release(p) \/ Redo(p) \/ (p = Receiver /\ AllocRootRef))
    <2>1. val' = val
      BY <1>6 DEF Acts, Step, SentTo, CxlUnwrap, Drop, Leave, Crash, WriteLog, Count, WalkRoots,
                  VisitSlot, NextSlot, AskReceiver, EndRing, Gone, MoveEnd, Register, TestMessage,
                  LinkMessage, UnlinkMessage, MoveStart
    <2> QED
      BY <2>1
  <1> QED
    BY <1>2, <1>3, <1>4, <1>5, <1>6

LEMMA LogOwnerStep ==
  ASSUME ShapeInv, NEW p \in Client, Acts(p)
  PROVE  LogOwner'
  <1> USE DEF Goto, At, ring, history
  <1>1. Types /\ LogOwner /\ Mute(p)
    BY ShapeTypes, Frame
  <1>2. log'[p].ref \in Root => Owner[log'[p].ref] = p
    <2>1. CASE WriteLog(p)
      <3>1. op[p].ref \in Root => Owner[op[p].ref] = p
        BY <2>1, OpPlace DEF WriteLog, OpLabel, Mine
      <3> QED
        BY <1>1, <2>1, <3>1 DEF WriteLog, Types
    <2>2. CASE Count(p)
      BY <1>1, <2>2 DEF Count, Types, LogType, LogOwner
    <2>3. CASE p = Receiver /\ AllocRootRef
      <3>1. log'[p] = log[p] \/ log'[p] = NoLog
        BY <1>1, <2>3 DEF AllocRootRef, Types
      <3>2. NULL \notin Root
        BY ClientAssumption DEF Loc
      <3> QED
        BY <1>1, <3>1, <3>2 DEF LogOwner, NoLog
    <2>4. CASE ~(WriteLog(p) \/ Count(p) \/ (p = Receiver /\ AllocRootRef))
      <3>1. log' = log
        BY <2>4 DEF Acts, Step, SentTo, CxlUnwrap, Drop, Leave, Crash, Redo, Store, Release,
                  WalkRoots, VisitSlot, NextSlot, AskReceiver, EndRing, Gone, MoveEnd, Register,
                  TestMessage, LinkMessage, UnlinkMessage, MoveStart
      <3> QED
        BY <1>1, <3>1 DEF LogOwner
    <2> QED
      BY <2>1, <2>2, <2>3, <2>4
  <1> QED
    BY <1>1, <1>2 DEF LogOwner, Mute

LEMMA EnteredStep ==
  ASSUME ShapeInv, NEW p \in Client, Acts(p)
  PROVE  Entered'
  <1> USE DEF Goto, At, ring, history
  <1>1. Types /\ Entered /\ Mute(p) /\ ClientShape(Receiver)
    BY ShapeTypes, Frame, Labels
  <1>2. CASE p = Sender
    BY <1>1, <1>2, Labels DEF Entered, OnRing, Doing, Mute
  <1>3. CASE CxlUnwrap
    <2>1. /\ UNCHANGED <<receiverId, status>> /\ listed' /\ status[Receiver] # "gone"
          /\ pc'[Receiver] = IF receiverId = NULL THEN "register" ELSE "test"
      BY <1>1, <1>3, Labels DEF CxlUnwrap, Types
    <2> QED
      BY <1>1, <2>1 DEF Entered, OnRing, Doing, OpLabel, Types
  <1>4. CASE Register
    <2>1. /\ UNCHANGED <<listed, status>> /\ listed /\ status[Receiver] # "gone"
          /\ pc'[Receiver] = "test" /\ receiverId' = Receiver
      BY <1>1, <1>4, Labels DEF Register, Types, Entered
    <2> QED
      BY <2>1 DEF Entered, OnRing, Doing, OpLabel
  <1>5. CASE Gone(Receiver)
    BY <1>1, <1>5, Labels, ClientAssumption
    DEF Entered, OnRing, Doing, Gone, OpLabel, Types, Client
  <1>6. CASE WriteLog(Receiver) \/ Count(Receiver)
    <2>1. /\ UNCHANGED <<op, status, receiverId, listed>>
          /\ pc[Receiver] \in OpLabel /\ pc'[Receiver] \in OpLabel
      BY <1>1, <1>6, Labels DEF WriteLog, Count, OpLabel, Types
    <2> QED
      BY <1>1, <2>1 DEF Entered, OnRing, Doing, OpLabel
  <1>7. CASE Store(Receiver)
    <2>1. /\ UNCHANGED <<op, status, receiverId, listed>>
          /\ pc[Receiver] \in OpLabel /\ pc'[Receiver] = op[Receiver].then
      BY <1>1, <1>7, Labels DEF Store, OpLabel, Types
    <2>2. op[Receiver].then \in {"S2", "unlink", "R3", "release", "next"}
      BY <2>1, OpPlace, Labels
    <2>3. op[Receiver].then # "S2"
      BY <1>1, <2>1, Labels DEF ClientShape, OpShape
    <2> QED
      BY <1>1, <2>1, <2>2, <2>3 DEF Entered, OnRing, Doing, OpLabel
  <1>8. CASE TestMessage \/ AllocRootRef \/ MoveStart
    BY <1>1, <1>8, Labels DEF Entered, OnRing, Doing, TestMessage, AllocRootRef, MoveStart, Types
  <1>9. CASE LinkMessage \/ UnlinkMessage
    <2>1. UNCHANGED <<status, receiverId, listed>> /\ OnRing
      BY <1>9 DEF LinkMessage, UnlinkMessage, OnRing
    <2> QED
      BY <1>1, <2>1 DEF Entered
  <1>10. CASE \/ Release(Receiver) \/ Leave(Receiver) \/ Redo(Receiver) \/ NextSlot(Receiver)
    <2>1. /\ UNCHANGED <<receiverId, listed>>
          /\ pc'[Receiver] \in {"idle", "walk"}
          /\ status'[Receiver] = "gone" => status[Receiver] = "gone"
      BY <1>1, <1>10, Labels DEF Release, Leave, Redo, NextSlot, Types
    <2> QED
      BY <1>1, <2>1 DEF Entered, OnRing, Doing, OpLabel
  <1>11. CASE Crash(Receiver) \/ AskReceiver(Receiver) \/ EndRing(Receiver)
    <2>1. /\ UNCHANGED <<receiverId, listed, pc, op>>
          /\ status'[Receiver] = "gone" => status[Receiver] = "gone"
      BY <1>1, <1>11, Labels DEF Crash, AskReceiver, EndRing, Types
    <2> QED
      BY <1>1, <2>1 DEF Entered, OnRing, Doing
  <1>12. CASE VisitSlot(Receiver) \/ WalkRoots(Receiver) \/ \E r \in Root : Drop(Receiver, r)
    <2>1. UNCHANGED <<receiverId, listed, status>>
      BY <1>12 DEF VisitSlot, WalkRoots, Drop
    <2>2. /\ pc'[Receiver] \in {"log", "count", "walk", "release", "next"}
          /\ pc'[Receiver] \in OpLabel => op'[Receiver].then \in {"release", "next"}
      BY <1>1, <1>12, Labels DEF VisitSlot, WalkRoots, Drop, Begin, Walking, Types, OpLabel
    <2> QED
      BY <1>1, <2>1, <2>2 DEF Entered, OnRing, Doing, OpLabel
  <1> QED
    <2>1. CASE p = Receiver
      BY <1>3, <1>4, <1>5, <1>6, <1>7, <1>8, <1>9, <1>10, <1>11, <1>12, <2>1, Labels
      DEF Acts, Step
    <2> QED
      BY <1>2, <2>1 DEF Client

LEMMA HolderStep ==
  ASSUME ShapeInv, NEW p \in Client, Acts(p)
  PROVE  HolderInv'
  <1> USE DEF Goto, At, ring, history
  <1>1. Types /\ HolderInv /\ Mute(p) /\ ClientShape(Sender)
    BY ShapeTypes, Frame, Labels
  <1>2. CASE p = Receiver
    BY <1>1, <1>2, RootsKeep, Labels DEF HolderInv, Mine, Mute
  <1>3. ASSUME p = Sender, NEW r \in Root, Mine(Sender, r)', walk'[Sender].phase = "none",
               status'[Sender] # "gone"
        PROVE  val'[r] # NULL \/ (pc'[Sender] = "release" /\ op'[Sender].ref = r)
    <2>1. CASE Store(Sender)
      <3>1. /\ r \in Loc /\ r \notin Slot /\ inUse' = inUse /\ walk' = walk /\ status' = status
            /\ pc[Sender] = "store" /\ pc'[Sender] = op[Sender].then /\ op' = op
            /\ op[Sender].ref # r => val'[r] = val[r]
        BY <1>1, <2>1, Labels, RootAssumption DEF Store, Types, Loc
      <3>2. op[Sender].ref = r => op[Sender].then = "release"
        <4>1. op[Sender].then # "unlink" /\ op[Sender].ref = r => op[Sender].then = "release"
          BY <3>1, OpPlace, Labels DEF OpLabel
        <4>2. op[Sender].then # "unlink"
          BY <1>1, <3>1, Labels DEF ClientShape, OpShape, OpLabel
        <4> QED
          BY <4>1, <4>2
      <3> QED
        BY <1>1, <1>3, <3>1, <3>2 DEF HolderInv, Mine
    <2>2. CASE Release(Sender)
      <3>1. /\ walk' = walk /\ status' = status /\ pc[Sender] = "release"
            /\ inUse' = [inUse EXCEPT ![op[Sender].ref] = FALSE]
            /\ r # op[Sender].ref => val'[r] = val[r]
        BY <1>1, <2>2 DEF Release, Types, Loc
      <3>2. r # op[Sender].ref /\ inUse[r]
        BY <1>1, <1>3, <3>1 DEF Mine, Types
      <3> QED
        BY <1>1, <1>3, <3>1, <3>2 DEF HolderInv, Mine
    <2>3. CASE Leave(Sender) \/ Redo(Sender) \/ Gone(Sender)
      BY <1>1, <1>3, <2>3, Labels DEF Leave, Redo, Gone, Types
    <2>4. CASE WriteLog(Sender) \/ Count(Sender) \/ Crash(Sender)
      <3>1. /\ UNCHANGED <<val, walk, op, inUse>>
            /\ pc[Sender] = "release" => pc'[Sender] = "release"
            /\ status[Sender] # "gone"
        BY <1>1, <2>4, Labels DEF WriteLog, Count, Crash, Types
      <3> QED
        BY <1>1, <1>3, <3>1 DEF HolderInv, Mine
    <2>5. CASE \/ WalkRoots(Sender) \/ VisitSlot(Sender) \/ NextSlot(Sender)
               \/ AskReceiver(Sender) \/ EndRing(Sender)
      <3>1. pc[Sender] \in {"walk", "next"}
        BY <2>5 DEF WalkRoots, VisitSlot, NextSlot, AskReceiver, EndRing, Walking
      <3>2. walk[Sender].phase # "none"
        BY <1>1, <3>1 DEF ClientShape
      <3>3. walk'[Sender].phase # "none"
        BY <1>1, <2>5, <3>2, Labels
        DEF WalkRoots, VisitSlot, NextSlot, AskReceiver, EndRing, RingPart, Types
      <3> QED
        BY <1>3, <3>3
    <2>6. CASE MoveEnd \/ (\E s \in Root : SentTo(s)) \/ \E s \in Root : Drop(Sender, s)
      <3>1. UNCHANGED <<val, walk, inUse, status>> /\ pc[Sender] # "release"
        BY <2>6 DEF MoveEnd, SentTo, Drop
      <3> QED
        BY <1>1, <1>3, <3>1 DEF HolderInv, Mine
    <2> QED
      BY <1>3, <2>1, <2>2, <2>3, <2>4, <2>5, <2>6, Labels DEF Acts, Step
  <1> QED
    BY <1>2, <1>3 DEF HolderInv, Client

LEMMA ShapeStep ==
  ASSUME ShapeInv, [Next]_vars
  PROVE  ShapeInv'
  <1>1. CASE Next
    <2>1. PICK p \in Client : Acts(p)
      BY <1>1, NextActs
    <2>2. Mute(p)
      BY <2>1, Frame
    <2>3. \A q \in Client : ClientShape(q)'
      <3>1. ASSUME NEW q \in Client \ {p}
            PROVE  ClientShape(q)'
        BY <2>2, ShapeOther
      <3> QED
        BY <2>1, <3>1, ShapeActor
    <2> QED
      BY <2>1, <2>3, TypesStep, EnteredStep, HolderStep, LogOwnerStep DEF ShapeInv
  <1>2. CASE UNCHANGED vars
    BY <1>2 DEF ShapeInv, Types, ClientShape, OpShape, Mine, Entered, OnRing, Doing, HolderInv,
                LogOwner, vars, ring, history
  <1> QED
    BY <1>1, <1>2

-----------------------------------------------------------------------------
(* What the two clients do to the ring. *)

LEMMA RingParts ==
  ASSUME RingInv
  PROVE  /\ CursorInv /\ UsedInv /\ ContentInv /\ OldUnlinkHarmless
         /\ \A p \in Client : LogInv(p)
  BY DEF RingInv

LEMMA SenderStep ==
  ASSUME ShapeInv, Acts(Sender)
  PROVE  \/ MoveEnd /\ Sending /\ ~Sending'
         \/ /\ UNCHANGED <<end, sent>>
            /\ Sending' => Sending \/ ~Full
  <1> USE DEF Goto, At, ring, history
  <1>1. Types /\ ClientShape(Sender) /\ Sender \in Client
    BY ShapeTypes, Labels
  <1>2. CASE MoveEnd
    BY <1>1, <1>2 DEF MoveEnd, Sending, Doing, OpLabel, Types
  <1>3. CASE \E r \in Root : SentTo(r)
    BY <1>3 DEF SentTo
  <1>4. CASE WriteLog(Sender) \/ Count(Sender)
    <2>1. /\ UNCHANGED <<end, op>> /\ pc[Sender] \in OpLabel /\ pc'[Sender] \in OpLabel
      BY <1>1, <1>4 DEF WriteLog, Count, OpLabel, Types
    <2>2. UNCHANGED sent
      BY <1>4 DEF WriteLog, Count
    <2> QED
      BY <2>1, <2>2 DEF Sending, Doing, OpLabel
  <1>5. CASE Store(Sender)
    <2>1. UNCHANGED <<end, sent, op>> /\ pc[Sender] = "store" /\ pc'[Sender] = op[Sender].then
      BY <1>1, <1>5 DEF Store, Types
    <2>2. op[Sender].then \in {"S2", "unlink", "R3", "release", "next"}
      BY <1>1, <2>1, OpPlace DEF OpLabel
    <2> QED
      BY <2>1, <2>2 DEF Sending, Doing, OpLabel
  <1>6. CASE \/ (\E r \in Root : Drop(Sender, r)) \/ WalkRoots(Sender) \/ VisitSlot(Sender)
    <2>1. UNCHANGED <<end, sent>>
      BY <1>6 DEF Drop, WalkRoots, VisitSlot
    <2>2. /\ pc'[Sender] \in {"log", "count", "walk", "release", "next"}
          /\ pc'[Sender] \in OpLabel => op'[Sender].then \in {"release", "next"}
      BY <1>1, <1>6 DEF VisitSlot, WalkRoots, Drop, Begin, Walking, Types, OpLabel
    <2> QED
      BY <2>1, <2>2 DEF Sending, Doing, OpLabel
  <1>7. CASE \/ Leave(Sender) \/ Redo(Sender) \/ Release(Sender) \/ NextSlot(Sender)
             \/ Gone(Sender)
    <2>1. UNCHANGED <<end, sent>> /\ pc'[Sender] \in {"idle", "walk"}
      BY <1>1, <1>7 DEF Leave, Redo, Release, NextSlot, Gone, Types
    <2> QED
      BY <2>1 DEF Sending, Doing, OpLabel
  <1>8. CASE Crash(Sender) \/ AskReceiver(Sender) \/ EndRing(Sender)
    <2>1. UNCHANGED <<end, sent, pc, op>>
      BY <1>8 DEF Crash, AskReceiver, EndRing
    <2> QED
      BY <2>1 DEF Sending, Doing
  <1> QED
    BY <1>2, <1>3, <1>4, <1>5, <1>6, <1>7, <1>8, Labels DEF Acts, Step

OnMessage == Fetching \/ Emptying

LEMMA ReceiverStep ==
  ASSUME ShapeInv, Acts(Receiver)
  PROVE  \/ MoveStart /\ Emptying /\ Fresh /\ ~OnMessage' /\ ~Took' /\ received' = received
         \/ /\ Count(Receiver) /\ Doing(Receiver, "unlink") /\ Fresh /\ ~Took /\ Took'
            /\ received' = Append(received, op[Receiver].refed) /\ start' = start
         \/ /\ UNCHANGED <<start, received>>
            /\ OnMessage' => OnMessage \/ start # end
            /\ Fresh' => Fresh /\ (Took' <=> Took)
  <1> USE DEF Goto, At, ring, history
  <1>1. Types /\ ClientShape(Receiver) /\ Receiver \in Client
    BY ShapeTypes, Labels
  <1>2. CASE MoveStart
    <2>1. pc[Receiver] = "R3" /\ pc'[Receiver] = "idle" /\ received' = received
      BY <1>1, <1>2 DEF MoveStart, Types
    <2>2. walk[Receiver].phase = "none" /\ status[Receiver] # "gone"
      BY <1>1, <2>1 DEF ClientShape, OpLabel
    <2> QED
      BY <1>2, <2>1, <2>2
      DEF OnMessage, Fetching, Emptying, Took, Fresh, Doing, OpLabel
  <1>3. CASE Count(Receiver) /\ op[Receiver].then = "unlink"
    <2>1. /\ pc[Receiver] = "count" /\ pc'[Receiver] = "store" /\ op' = op /\ start' = start
          /\ received' = Append(received, op[Receiver].refed)
      BY <1>1, <1>3 DEF Count, Types
    <2>2. walk[Receiver].phase = "none" /\ status[Receiver] # "gone"
      BY <1>1, <1>3, <2>1 DEF ClientShape, OpShape, OpLabel
    <2> QED
      BY <1>3, <2>1, <2>2 DEF Emptying, Took, Fresh, Doing, OpLabel
  <1>4. CASE WriteLog(Receiver) \/ (Count(Receiver) /\ op[Receiver].then # "unlink")
    <2>1. /\ UNCHANGED <<start, received, op, status, walk>>
          /\ pc[Receiver] \in {"log", "count"} /\ pc'[Receiver] \in {"count", "store"}
          /\ pc'[Receiver] = "store" => op[Receiver].then # "unlink"
      BY <1>1, <1>4 DEF WriteLog, Count, Types
    <2> QED
      BY <2>1 DEF OnMessage, Fetching, Emptying, Took, Fresh, Doing, OpLabel
  <1>5. CASE Store(Receiver)
    <2>1. /\ UNCHANGED <<start, received, op, status, walk>>
          /\ pc[Receiver] = "store" /\ pc'[Receiver] = op[Receiver].then
      BY <1>1, <1>5 DEF Store, Types
    <2>2. op[Receiver].then \in {"S2", "unlink", "R3", "release", "next"}
      BY <1>1, <2>1, OpPlace DEF OpLabel
    <2> QED
      BY <2>1, <2>2 DEF OnMessage, Fetching, Emptying, Took, Fresh, Doing, OpLabel
  <1>6. CASE (\E r \in Root : Drop(Receiver, r)) \/ WalkRoots(Receiver) \/ VisitSlot(Receiver)
    <2>1. UNCHANGED <<start, received, status>> /\ pc[Receiver] \in {"idle", "walk"}
      BY <1>1, <1>6, Labels DEF Drop, WalkRoots, VisitSlot, Walking, Types
    <2>3. walk'[Receiver].phase = "none" => walk[Receiver].phase = "none"
      <3>1. RingPart(Receiver).phase # "none"
        BY Labels DEF RingPart
      <3>2. walk' = walk \/ walk'[Receiver] = RingPart(Receiver)
        BY <1>1, <1>6 DEF Drop, WalkRoots, VisitSlot, Types
      <3> QED
        BY <3>1, <3>2
    <2>2. /\ pc'[Receiver] \in {"log", "count", "walk", "release", "next"}
          /\ pc'[Receiver] \in OpLabel => op'[Receiver].then \in {"release", "next"}
      BY <1>1, <1>6 DEF VisitSlot, WalkRoots, Drop, Begin, Walking, Types, OpLabel
    <2> QED
      BY <2>1, <2>2, <2>3 DEF OnMessage, Fetching, Emptying, Took, Fresh, Doing, OpLabel
  <1>7. CASE \/ Leave(Receiver) \/ Redo(Receiver) \/ NextSlot(Receiver) \/ Gone(Receiver)
    <2>1. /\ UNCHANGED <<start, received>> /\ pc'[Receiver] \in {"idle", "walk"}
          /\ walk'[Receiver].phase # "none" \/ status'[Receiver] = "gone"
      BY <1>1, <1>7 DEF Leave, Redo, NextSlot, Gone, ClientShape, Types
    <2> QED
      BY <2>1 DEF OnMessage, Fetching, Emptying, Took, Fresh, Doing, OpLabel
  <1>8. CASE Crash(Receiver)
    <2>1. UNCHANGED <<start, received, pc, op, walk>> /\ status[Receiver] # "gone"
      BY <1>8 DEF Crash
    <2> QED
      BY <2>1 DEF OnMessage, Fetching, Emptying, Took, Fresh, Doing
  <1>9. CASE AskReceiver(Receiver) \/ EndRing(Receiver)
    <2>1. UNCHANGED <<start, received, pc, op>> /\ walk'[Receiver].phase # "none"
      BY <1>1, <1>9 DEF AskReceiver, EndRing, Types
    <2> QED
      BY <2>1 DEF OnMessage, Fetching, Emptying, Took, Fresh, Doing
  <1>10. CASE CxlUnwrap \/ Register \/ Release(Receiver)
    <2>1. /\ UNCHANGED <<start, received, walk, status>>
          /\ pc[Receiver] \in {"idle", "register", "release"}
          /\ pc'[Receiver] \in {"register", "test", "idle", "walk"}
      BY <1>1, <1>10 DEF CxlUnwrap, Register, Release, Types
    <2> QED
      BY <2>1 DEF OnMessage, Fetching, Emptying, Took, Fresh, Doing, OpLabel
  <1>11. CASE TestMessage
    <2>1. /\ UNCHANGED <<start, received, walk, status>> /\ pc[Receiver] = "test"
          /\ pc'[Receiver] \in {"idle", "root"} /\ (pc'[Receiver] = "root" => start # end)
      BY <1>1, <1>11 DEF TestMessage, Types
    <2> QED
      BY <2>1 DEF OnMessage, Fetching, Emptying, Took, Fresh, Doing, OpLabel
  <1>12. CASE AllocRootRef
    <2>1. /\ UNCHANGED <<start, received, walk, status>> /\ pc[Receiver] = "root"
          /\ pc'[Receiver] = "link"
      BY <1>1, <1>12 DEF AllocRootRef, Types
    <2> QED
      BY <2>1 DEF OnMessage, Fetching, Emptying, Took, Fresh, Doing, OpLabel
  <1>13. CASE LinkMessage
    <2>1. /\ UNCHANGED <<start, received, walk, status>> /\ pc[Receiver] = "link"
          /\ \/ pc'[Receiver] = "wild"
             \/ pc'[Receiver] \in {"log", "count"} /\ op'[Receiver].then = "unlink"
      BY <1>1, <1>13 DEF LinkMessage, Begin, Types
    <2> QED
      BY <2>1 DEF OnMessage, Fetching, Emptying, Took, Fresh, Doing, OpLabel
  <1>14. CASE UnlinkMessage
    <2>1. /\ UNCHANGED <<start, received, walk, status>> /\ pc[Receiver] = "unlink"
          /\ \/ pc'[Receiver] = "wild"
             \/ pc'[Receiver] \in {"log", "count"} /\ op'[Receiver].then = "R3"
      BY <1>1, <1>14 DEF UnlinkMessage, Begin, Types
    <2> QED
      BY <2>1 DEF OnMessage, Fetching, Emptying, Took, Fresh, Doing, OpLabel
  <1> QED
    BY <1>2, <1>3, <1>4, <1>5, <1>6, <1>7, <1>8, <1>9, <1>10, <1>11, <1>12, <1>13, <1>14, Labels
    DEF Acts, Step

LEMMA CursorStep ==
  ASSUME ShapeInv, CursorInv, NEW p \in Client, Acts(p)
  PROVE  CursorInv'
  <1>1. Types /\ Types' /\ Mute(p)
    BY ShapeTypes, TypesStep, Frame
  <1>2. /\ start \in Slot /\ end \in Slot /\ Len(sent) \in Nat /\ Len(received) \in Nat
        /\ Dist(end) \in Nat /\ MESSAGE_BUFFER_SIZE \in Nat
    <2>1. start \in Slot /\ end \in Slot /\ sent \in Seq(Obj) /\ received \in Seq(Obj)
      BY <1>1 DEF Types
    <2>2. Len(sent) \in Nat /\ Len(received) \in Nat
      BY <2>1
    <2>3. Dist(end) \in Nat
      BY <2>1, RingNow DEF Slot
    <2> QED
      BY <2>1, <2>2, <2>3, RingAssumption DEF Slot
  <1>3. CASE p = Sender
    <2>1. /\ pc'[Receiver] = pc[Receiver] /\ op'[Receiver] = op[Receiver]
          /\ walk'[Receiver] = walk[Receiver] /\ status'[Receiver] = status[Receiver]
          /\ start' = start /\ received' = received
      BY <1>1, <1>3, Labels DEF Mute
    <2>2. (Fetching' <=> Fetching) /\ (Emptying' <=> Emptying) /\ (Took' <=> Took)
          /\ (Fresh' <=> Fresh)
      BY <2>1 DEF Fetching, Emptying, Took, Fresh, Doing
    <2>3. CASE MoveEnd /\ Sending /\ ~Sending'
      <3>1. end' = Succ(end) /\ sent' = Append(sent, op[Sender].refed) /\ end' \in Slot
        BY <1>1, <2>3 DEF MoveEnd, Types
      <3>2. Dist(end) <= MESSAGE_BUFFER_SIZE - 2
        BY <2>3 DEF CursorInv
      <3>3. Dist(end)' = Dist(end) + 1
        BY <1>2, <2>1, <3>1, <3>2, BetweenSucc DEF Dist
      <3>4. Len(sent') = Len(sent) + 1
        BY <1>1, <3>1 DEF Types
      <3>5. start' # end'
        <4>0. Dist(end)' # 0
          BY <1>2, <3>3
        <4>1. Between(start', end') # 0
          BY <4>0 DEF Dist
        <4> QED
          BY <1>2, <2>1, <3>1, <4>1, BetweenRange
      <3> QED
        BY <1>2, <2>1, <2>2, <2>3, <3>3, <3>4, <3>5 DEF CursorInv
    <2>4. CASE UNCHANGED <<end, sent>> /\ (Sending' => Sending \/ ~Full)
      <3>1. Dist(end)' = Dist(end)
        BY <2>1, <2>4 DEF Dist, Between
      <3>2. ~Full => Dist(end) <= MESSAGE_BUFFER_SIZE - 2
        BY <1>2, RingAssumption DEF Full, Dist, Between, Slot
      <3> QED
        BY <2>1, <2>2, <2>4, <3>1, <3>2 DEF CursorInv
    <2> QED
      BY <1>3, <2>3, <2>4, SenderStep
  <1>4. CASE p = Receiver
    <2>1. /\ pc'[Sender] = pc[Sender] /\ op'[Sender] = op[Sender]
          /\ end' = end /\ sent' = sent
      BY <1>1, <1>4, Labels DEF Mute
    <2>2. Sending' <=> Sending
      BY <2>1 DEF Sending, Doing
    <2>3. CASE MoveStart /\ Emptying /\ Fresh /\ ~OnMessage' /\ ~Took' /\ received' = received
      <3>1. start' = Succ(start) /\ start # end
        BY <2>3 DEF MoveStart, CursorInv
      <3>2. Dist(end)' = Dist(end) - 1
        BY <1>2, <2>1, <3>1, BetweenSucc DEF Dist
      <3>3. Dist(end) # 0
        BY <1>2, <3>1, BetweenRange DEF Dist
      <3>4. Took
        BY <2>3 DEF Took
      <3>5. /\ Len(received) <= Len(sent) /\ Len(sent) - Len(received) = Dist(end) - 1
            /\ Dist(end) <= Len(sent) /\ (Sending => Dist(end) <= MESSAGE_BUFFER_SIZE - 2)
        BY <2>3, <3>4 DEF CursorInv
      <3>6. ~Fetching' /\ ~Emptying' /\ ~Took' /\ received' = received /\ sent' = sent
        BY <2>1, <2>3 DEF OnMessage
      <3>7. /\ Len(sent) - Len(received) = Dist(end)'
            /\ Dist(end)' <= Len(sent) /\ (Sending' => Dist(end)' <= MESSAGE_BUFFER_SIZE - 2)
        BY <1>2, <2>2, <3>2, <3>5
      <3> QED
        BY <3>5, <3>6, <3>7 DEF CursorInv
    <2>4. CASE /\ Count(Receiver) /\ Doing(Receiver, "unlink") /\ Fresh /\ ~Took /\ Took'
               /\ received' = Append(received, op[Receiver].refed) /\ start' = start
      <3>1. Dist(end)' = Dist(end) /\ Len(received') = Len(received) + 1
        <4>1. op[Receiver].refed \in Obj
          BY <2>4, OpPlace, Labels DEF Doing
        <4> QED
          BY <1>1, <2>1, <2>4, <4>1 DEF Dist, Between, Types
      <3>2. start # end /\ Dist(end) # 0
        BY <1>2, <2>4, BetweenRange DEF CursorInv, Fetching, Dist
      <3>3. /\ Len(sent) - Len(received) = Dist(end)
            /\ Dist(end) <= Len(sent) /\ (Sending => Dist(end) <= MESSAGE_BUFFER_SIZE - 2)
        BY <1>2, <2>4 DEF CursorInv
      <3>4. start' # end' /\ sent' = sent /\ Took'
        BY <2>1, <2>4, <3>2
      <3>5. /\ Len(received') <= Len(sent) /\ Len(sent) - Len(received') = Dist(end)' - 1
            /\ Dist(end)' <= Len(sent) /\ (Sending' => Dist(end)' <= MESSAGE_BUFFER_SIZE - 2)
        BY <1>2, <2>2, <3>1, <3>2, <3>3
      <3> QED
        BY <3>4, <3>5 DEF CursorInv
    <2>5. CASE /\ UNCHANGED <<start, received>>
               /\ OnMessage' => OnMessage \/ start # end
               /\ Fresh' => Fresh /\ (Took' <=> Took)
      <3>1. Dist(end)' = Dist(end)
        BY <2>1, <2>5 DEF Dist, Between
      <3> QED
        BY <2>1, <2>2, <2>5, <3>1 DEF CursorInv, OnMessage
    <2> QED
      BY <1>4, <2>3, <2>4, <2>5, ReceiverStep
  <1> QED
    BY <1>3, <1>4 DEF Client

(* A walk of the receiver's side stays between the cursors. *)
LEMMA UsedStep ==
  ASSUME ShapeInv, CursorInv, UsedInv, NEW p \in Client, Acts(p)
  PROVE  UsedInv'
  <1> USE DEF Goto, At, ring, history
  <1>1. Types /\ Types' /\ Mute(p) /\ ClientShape(Receiver)
    BY ShapeTypes, TypesStep, Frame, Labels
  <1>2. /\ start \in Slot /\ end \in Slot /\ walk[Receiver].i \in Slot
        /\ MESSAGE_BUFFER_SIZE \in Nat /\ \A i \in Slot : Dist(i) \in Nat
    <2>1. start \in Slot /\ end \in Slot
      BY <1>1 DEF Types
    <2>2. walk[Receiver].i \in Slot
      BY <1>1, Labels DEF Types
    <2>3. \A i \in Slot : Dist(i) \in Nat
      BY <2>1, RingNow DEF Slot
    <2> QED
      BY <2>1, <2>2, <2>3, RingAssumption
  <1>3. ASSUME p = Sender, walk'[Receiver].phase = "used"
        PROVE  /\ Dist(walk[Receiver].i)' <= Dist(end)'
               /\ Visiting(Receiver)' => Dist(walk[Receiver].i)' < Dist(end)'
    <2> PICK w \in Slot : w = walk[Receiver].i
      BY <1>2
    <2>1. /\ pc'[Receiver] = pc[Receiver] /\ op'[Receiver] = op[Receiver]
          /\ walk'[Receiver] = walk[Receiver] /\ start' = start
      BY <1>1, <1>3, Labels DEF Mute
    <2>2. /\ Visiting(Receiver)' <=> Visiting(Receiver)
          /\ Dist(w) <= Dist(end) /\ (Visiting(Receiver) => Dist(w) < Dist(end))
          /\ Dist(w)' = Dist(w) /\ Dist(walk[Receiver].i)' = Dist(w)'
      BY <1>3, <2>1 DEF Visiting, Doing, UsedInv, Dist
    <2>3. Dist(end)' = Dist(end) \/ Dist(end)' = Dist(end) + 1
      <3>1. CASE MoveEnd /\ Sending /\ ~Sending'
        <4>1. end' = Succ(end) /\ Dist(end) <= MESSAGE_BUFFER_SIZE - 2
          BY <3>1 DEF MoveEnd, CursorInv
        <4> QED
          BY <1>2, <2>1, <4>1, BetweenSucc DEF Dist
      <3>2. CASE UNCHANGED end
        BY <2>1, <3>2 DEF Dist, Between
      <3> QED
        BY <1>3, <3>1, <3>2, SenderStep
    <2> QED
      BY <1>2, <2>2, <2>3
  <1>4. ASSUME p = Receiver, walk'[Receiver].phase = "used"
        PROVE  /\ Dist(walk[Receiver].i)' <= Dist(end)'
               /\ Visiting(Receiver)' => Dist(walk[Receiver].i)' < Dist(end)'
    <2>1. end' = end
      BY <1>1, <1>4, Labels DEF Mute
    <2>2. CASE WalkRoots(Receiver)
      <3>1. /\ start' = start /\ walk[Receiver].phase = "roots"
            /\ walk' = walk \/ (pc' = pc /\ walk' = [walk EXCEPT ![Receiver] = RingPart(Receiver)])
        BY <2>2 DEF WalkRoots, Walking
      <3>2. pc' = pc /\ walk'[Receiver] = RingPart(Receiver) /\ pc[Receiver] = "walk"
        BY <1>1, <1>4, <2>2, <3>1, Labels DEF Types, WalkRoots, Walking
      <3>3. walk'[Receiver].i = start
        BY <1>4, <3>2, Labels DEF RingPart
      <3>4. Dist(start)' = 0 /\ ~Visiting(Receiver)'
        <4>1. Dist(start) = 0
          BY <1>2, RingNow
        <4> QED
          BY <3>1, <3>2, <4>1, RingStays, <2>1 DEF Visiting, Doing, OpLabel, Dist, Between
      <3>5. Dist(end)' \in Nat
        BY <1>2, <2>1, <3>1 DEF Dist, Between
      <3>6. Dist(walk[Receiver].i)' = Dist(start)'
        BY <3>1, <3>3 DEF Dist
      <3> QED
        BY <3>4, <3>5, <3>6
    <2>3. CASE VisitSlot(Receiver)
      <3>1. /\ start' = start /\ walk' = walk /\ walk[Receiver].i # end
        BY <1>4, <2>3 DEF VisitSlot, More
      <3>2. Dist(walk[Receiver].i) <= Dist(end) /\ Dist(walk[Receiver].i) # Dist(end)
        BY <1>2, <1>4, <3>1, RingNow DEF UsedInv
      <3>3. Dist(walk[Receiver].i)' = Dist(walk[Receiver].i) /\ Dist(end)' = Dist(end)
        BY <2>1, <3>1 DEF Dist, Between
      <3> QED
        BY <1>2, <3>2, <3>3
    <2>4. CASE NextSlot(Receiver)
      <3> PICK w \in Slot : w = walk[Receiver].i
        BY <1>2
      <3>1. /\ start' = start /\ walk'[Receiver].i = Succ(w) /\ pc[Receiver] = "next"
            /\ pc'[Receiver] = "walk" /\ walk[Receiver].phase = "used"
        BY <1>1, <1>4, <2>4, Labels DEF NextSlot, Types
      <3>2. Dist(w) < Dist(end)
        BY <3>1 DEF UsedInv, Visiting
      <3>3. Dist(end) <= MESSAGE_BUFFER_SIZE - 1
        BY <1>2, RingNow DEF Slot
      <3>4. Dist(Succ(w)) = Dist(w) + 1
        BY <1>2, <3>2, <3>3, BetweenSucc DEF Dist
      <3>5. Dist(walk[Receiver].i)' = Dist(Succ(w)) /\ Dist(end)' = Dist(end)
        BY <2>1, <3>1 DEF Dist, Between
      <3>6. ~Visiting(Receiver)'
        BY <3>1 DEF Visiting, Doing, OpLabel
      <3> QED
        BY <1>2, <3>2, <3>4, <3>5, <3>6
    <2>5. CASE WriteLog(Receiver) \/ Count(Receiver) \/ Store(Receiver) \/ Crash(Receiver)
      <3>1. start' = start /\ walk' = walk /\ op' = op
        BY <2>5 DEF WriteLog, Count, Store, Crash
      <3>2. Visiting(Receiver)' => Visiting(Receiver)
        <4>1. CASE WriteLog(Receiver) \/ Count(Receiver)
          <5>1. pc[Receiver] \in OpLabel /\ pc'[Receiver] \in {"count", "store"}
            BY <1>1, <4>1, Labels DEF WriteLog, Count, OpLabel, Types
          <5> QED
            BY <3>1, <5>1 DEF Visiting, Doing
        <4>2. CASE Store(Receiver)
          <5>1. pc[Receiver] \in OpLabel /\ pc'[Receiver] = op[Receiver].then
            BY <1>1, <4>2, Labels DEF Store, OpLabel, Types
          <5>2. op[Receiver].then \in {"S2", "unlink", "R3", "release", "next"}
            BY <5>1, OpPlace, Labels
          <5> QED
            BY <5>1, <5>2 DEF Visiting, Doing, OpLabel
        <4>3. CASE Crash(Receiver)
          BY <3>1, <4>3 DEF Crash, Visiting, Doing
        <4> QED
          BY <2>5, <4>1, <4>2, <4>3
      <3>3. Dist(walk[Receiver].i)' = Dist(walk[Receiver].i) /\ Dist(end)' = Dist(end)
        BY <2>1, <3>1 DEF Dist, Between
      <3> QED
        BY <1>4, <3>1, <3>2, <3>3 DEF UsedInv
    <2>6. CASE Leave(Receiver) \/ Redo(Receiver) \/ Gone(Receiver) \/ EndRing(Receiver)
               \/ AskReceiver(Receiver)
      BY <1>1, <1>4, <2>6, Labels DEF Leave, Redo, Gone, EndRing, AskReceiver, NoWalk, Types
    <2>7. CASE \/ Release(Receiver) \/ CxlUnwrap \/ Register \/ TestMessage \/ AllocRootRef
               \/ LinkMessage \/ UnlinkMessage \/ MoveStart
               \/ \E r \in Root : Drop(Receiver, r)
      <3>1. walk' = walk /\ pc[Receiver] \in {"release", "idle", "register", "test", "root",
                                              "link", "unlink", "R3"}
        BY <2>7 DEF Release, CxlUnwrap, Register, TestMessage, AllocRootRef, LinkMessage,
                    UnlinkMessage, MoveStart, Drop
      <3>2. walk[Receiver].phase # "used"
        BY <1>1, <3>1 DEF ClientShape, OpLabel
      <3> QED
        BY <1>4, <3>1, <3>2
    <2> QED
      BY <1>4, <2>2, <2>3, <2>4, <2>5, <2>6, <2>7, Labels DEF Acts, Step
  <1> QED
    BY <1>3, <1>4 DEF UsedInv, Client

(* The places a redo record can make the monitor write. *)
LEMMA RedoLink ==
  ASSUME ShapeInv, NEW p \in Client, LogInv(p), status[p] = "dead", log[p].done,
         log[p].func = "LINK"
  PROVE  /\ p = Receiver => log[p].ref \in Root
         /\ p = Sender =>
              \/ Sending /\ log[p].ref = end /\ pc[p] \in {"store", "S2"}
              \/ /\ log[p].ref \in Slot /\ ToEnd(log[p].ref) = 1 /\ sent # <<>>
                 /\ log[p].refed = sent[Len(sent)] /\ pc[p] \notin {"store", "S2"}
  <1>1. CASE pc[p] = "store"
    <2>1. log[p].func = op[p].func /\ log[p].ref = op[p].ref
      BY <1>1 DEF LogInv, Entry
    <2>2. OpShape(p)
      BY <1>1, ShapeTypes DEF ClientShape, OpLabel
    <2>3. op[p].then \in {"S2", "unlink"}
      BY <2>1, <2>2 DEF OpShape
    <2> QED
      BY <1>1, <2>1, <2>2, <2>3, Labels DEF OpShape, Mine, Sending, Doing, OpLabel
  <1>2. CASE pc[p] # "store" /\ p = Receiver
    BY <1>2, Labels DEF LogInv, OldLink, Mine
  <1>3. CASE pc[p] # "store" /\ p = Sender
    <2>1. CASE pc[p] = "S2"
      BY <1>3, <2>1, Labels DEF LogInv, Sending
    <2>2. CASE pc[p] # "S2"
      BY <1>3, <2>2, Labels DEF LogInv, OldLink
    <2> QED
      BY <2>1, <2>2
  <1> QED
    BY <1>1, <1>2, <1>3 DEF Client

(* What a step can write into a slot: the message of a send, at end; the   *)
(* last message again, in a redo; nothing but offset 0 elsewhere.          *)
LEMMA SlotWrites ==
  ASSUME ShapeInv, NEW p \in Client, LogInv(p), Acts(p), NEW i \in Slot
  PROVE  \/ val'[i] \in {val[i], NULL}
         \/ p = Sender /\ i = end /\ Sending
         \/ /\ Redo(Sender) /\ p = Sender /\ ToEnd(i) = 1 /\ sent # <<>>
            /\ val'[i] = sent[Len(sent)] /\ log[Sender].refed = val'[i]
            /\ log[Sender].func = "LINK" /\ log[Sender].done /\ log[Sender].ref = i
            /\ pc[Sender] \notin {"store", "S2"}
  <1> USE DEF Goto, At, ring, history
  <1>1. Types /\ i \in Loc /\ i \notin Root /\ ClientShape(p)
    BY ShapeTypes, RootAssumption DEF Loc
  <1>2. CASE Store(p)
    <2>1. pc[p] \in OpLabel
      BY <1>2 DEF Store, OpLabel
    <2>2. OpShape(p) /\ op[p].then \in {"S2", "unlink", "R3", "release", "next"}
          /\ (op[p].then \in {"unlink", "release"} => op[p].ref \in Root)
      BY <1>1, <2>1, OpPlace DEF ClientShape
    <2>3. CASE op[p].then = "S2"
      <3>1. p = Sender /\ op[p].ref = end /\ Sending
        BY <2>1, <2>2, <2>3 DEF OpShape, Sending, Doing
      <3> QED
        BY <1>1, <1>2, <3>1 DEF Store, Types
    <2>4. CASE op[p].then # "S2"
      <3>1. op[p].func = "UNLINK" \/ op[p].ref \in Root
        BY <2>2, <2>4 DEF OpShape
      <3> QED
        BY <1>1, <1>2, <3>1 DEF Store, Types
    <2> QED
      BY <2>3, <2>4
  <1>3. CASE Redo(p)
    <2>1. CASE log[p].done /\ log[p].func = "LINK"
      <3>1. status[p] = "dead" /\ val' = [val EXCEPT ![log[p].ref] = log[p].refed]
        BY <1>3, <2>1 DEF Redo, Redone
      <3>2. CASE p = Receiver
        <4>1. log[p].ref \in Root
          BY <2>1, <3>1, <3>2, RedoLink
        <4> QED
          BY <1>1, <3>1, <4>1 DEF Types
      <3>3. CASE p = Sender
        <4>1. \/ Sending /\ log[p].ref = end
              \/ /\ log[p].ref \in Slot /\ ToEnd(log[p].ref) = 1 /\ sent # <<>>
                 /\ log[p].refed = sent[Len(sent)] /\ pc[p] \notin {"store", "S2"}
          BY <2>1, <3>1, <3>3, RedoLink
        <4>2. val'[i] = IF i = log[p].ref THEN log[p].refed ELSE val[i]
          BY <1>1, <3>1 DEF Types
        <4> QED
          BY <1>3, <2>1, <3>3, <4>1, <4>2
      <3> QED
        BY <3>2, <3>3 DEF Client
    <2>2. CASE ~(log[p].done /\ log[p].func = "LINK")
      BY <1>1, <1>3, <2>2 DEF Redo, Redone, Types
    <2> QED
      BY <2>1, <2>2
  <1>4. CASE Release(p) \/ (p = Receiver /\ AllocRootRef)
    BY <1>1, <1>4 DEF Release, AllocRootRef, Types
  <1>5. CASE ~(Store(p) \/ Release(p) \/ Redo(p) \/ (p = Receiver /\ AllocRootRef))
    <2>1. val' = val
      BY <1>5 DEF Acts, Step, SentTo, CxlUnwrap, Drop, Leave, Crash, WriteLog, Count, WalkRoots,
                  VisitSlot, NextSlot, AskReceiver, EndRing, Gone, MoveEnd, Register, TestMessage,
                  LinkMessage, UnlinkMessage, MoveStart
    <2> QED
      BY <2>1
  <1> QED
    BY <1>2, <1>3, <1>4, <1>5

(* Nobody but the sender writes into the slot that it is filling. *)
LEMMA EndKept ==
  ASSUME ShapeInv, RingInv, Acts(Receiver), Sending
  PROVE  val'[end] = val[end]
  <1> USE DEF Goto, At, ring, history
  <1>1. /\ Types /\ ClientShape(Receiver) /\ CursorInv /\ UsedInv /\ LogInv(Receiver)
        /\ end \in Loc /\ end \in Slot /\ end \notin Root
    <2>1. Types /\ ClientShape(Receiver) /\ CursorInv /\ UsedInv /\ LogInv(Receiver)
      BY ShapeTypes, RingParts, Labels
    <2>2. end \in Slot
      BY <2>1 DEF Types
    <2> QED
      BY <2>1, <2>2, RootAssumption DEF Loc
  <1>2. Dist(end) <= MESSAGE_BUFFER_SIZE - 2 /\ Dist(end) \in Nat /\ MESSAGE_BUFFER_SIZE \in Nat
    <2>1. Dist(end) \in Nat
      BY <1>1, RingNow DEF Types, Slot
    <2> QED
      BY <1>1, <2>1, RingAssumption DEF CursorInv
  <1>3. ASSUME pc[Receiver] \in OpLabel
        PROVE  op[Receiver].ref # end
    <2>1. OpShape(Receiver) /\ op[Receiver].then \in {"S2", "unlink", "R3", "release", "next"}
      BY <1>1, <1>3, OpPlace, Labels DEF ClientShape
    <2>2. CASE op[Receiver].then \in {"unlink", "release"}
      BY <1>1, <1>3, <2>2, OpPlace, Labels
    <2>3. CASE op[Receiver].then = "R3"
      <3>1. Emptying /\ op[Receiver].ref = start
        BY <1>3, <2>1, <2>3 DEF Emptying, Doing, OpShape
      <3> QED
        BY <1>1, <3>1 DEF CursorInv
    <2>4. CASE op[Receiver].then = "next"
      <3>1. /\ op[Receiver].ref = walk[Receiver].i /\ walk[Receiver].phase \in RingWalk
            /\ Visiting(Receiver)
        BY <1>3, <2>1, <2>4 DEF OpShape, Visiting, Doing
      <3>2. walk[Receiver].phase = "used"
        BY <1>1, <3>1, Labels DEF ClientShape, RingWalk
      <3>3. Dist(walk[Receiver].i) < Dist(end)
        BY <1>1, <3>1, <3>2 DEF UsedInv
      <3> QED
        BY <1>2, <3>1, <3>3
    <2> QED
      BY <2>1, <2>2, <2>3, <2>4, Labels DEF OpShape
  <1>4. CASE Store(Receiver)
    <2>1. op[Receiver].ref # end
      BY <1>3, <1>4 DEF Store, OpLabel
    <2> QED
      BY <1>1, <1>4, <2>1 DEF Store, Types
  <1>5. CASE Redo(Receiver)
    <2>1. CASE log[Receiver].done
      <3>1. log[Receiver].ref # end
        <4>1. status[Receiver] = "dead"
          BY <1>5 DEF Redo
        <4>2. CASE pc[Receiver] = "store"
          <5>1. log[Receiver].ref = op[Receiver].ref
            BY <1>1, <4>1, <4>2 DEF LogInv, Entry
          <5> QED
            BY <1>3, <4>2, <5>1 DEF OpLabel
        <4>3. CASE log[Receiver].func = "LINK"
          BY <1>1, <2>1, <4>1, <4>3, RedoLink, Labels
        <4>4. CASE pc[Receiver] # "store" /\ log[Receiver].func # "LINK"
          <5>1. log[Receiver].func = "UNLINK"
            BY <1>1, <2>1, <4>4, Labels DEF LogInv, Types, LogType
          <5>2. log[Receiver].ref \in Slot =>
                  \/ Flying(log[Receiver].ref)
                  \/ Dist(log[Receiver].ref) = MESSAGE_BUFFER_SIZE - 1
            BY <1>1, <2>1, <4>1, <4>4, <5>1, Labels DEF LogInv, OldUnlink
          <5> QED
            BY <1>1, <1>2, <5>2 DEF Flying
        <4> QED
          BY <4>2, <4>3, <4>4
      <3> QED
        BY <1>1, <1>5, <3>1 DEF Redo, Types
    <2>2. CASE ~log[Receiver].done
      BY <1>5, <2>2 DEF Redo, Redone
    <2> QED
      BY <2>1, <2>2
  <1>6. CASE Release(Receiver) \/ AllocRootRef
    BY <1>1, <1>6 DEF Release, AllocRootRef, ClientShape, Mine, Types
  <1>7. CASE ~(Store(Receiver) \/ Release(Receiver) \/ Redo(Receiver) \/ AllocRootRef)
    <2>1. val' = val
      BY <1>7, Labels
      DEF Acts, Step, SentTo, CxlUnwrap, Drop, Leave, Crash, WriteLog, Count, WalkRoots,
          VisitSlot, NextSlot, AskReceiver, EndRing, Gone, MoveEnd, Register, TestMessage,
          LinkMessage, UnlinkMessage, MoveStart
    <2> QED
      BY <2>1
  <1> QED
    BY <1>4, <1>5, <1>6, <1>7

(* A client that has begun a fetch or a send has not left. *)
LEMMA Engaged ==
  ASSUME ShapeInv
  PROVE  /\ Fetching \/ Emptying => Fresh
         /\ pc[Receiver] \in {"log", "count"} /\ op[Receiver].then = "unlink" => Fresh /\ ~Took
         /\ Sending => walk[Sender].phase = "none" /\ status[Sender] # "gone"
  <1>1. ClientShape(Sender) /\ ClientShape(Receiver)
    BY ShapeTypes, Labels
  <1>2. Fetching \/ Emptying => Fresh
    BY <1>1 DEF ClientShape, OpShape, Fetching, Emptying, Fresh, Doing, OpLabel
  <1>3. pc[Receiver] \in {"log", "count"} /\ op[Receiver].then = "unlink" => Fresh /\ ~Took
    BY <1>2 DEF Fetching, Emptying, Took, Doing, OpLabel
  <1>4. Sending => walk[Sender].phase = "none" /\ status[Sender] # "gone"
    BY <1>1 DEF ClientShape, OpShape, Sending, Doing, OpLabel
  <1> QED
    BY <1>2, <1>3, <1>4

LEMMA SlotNumbers ==
  ASSUME Types
  PROVE  /\ start \in Slot /\ end \in Slot /\ MESSAGE_BUFFER_SIZE \in Nat
         /\ Len(sent) \in Nat /\ Len(received) \in Nat
         /\ \A i \in Slot : /\ Dist(i) \in Nat /\ Dist(i) <= MESSAGE_BUFFER_SIZE - 1
                            /\ ToEnd(i) \in Nat /\ ToEnd(i) <= MESSAGE_BUFFER_SIZE - 1
  <1>1. start \in Slot /\ end \in Slot /\ sent \in Seq(Obj) /\ received \in Seq(Obj)
    BY DEF Types
  <1>2. Len(sent) \in Nat /\ Len(received) \in Nat
    BY <1>1
  <1>3. \A i \in Slot : Dist(i) \in Slot /\ ToEnd(i) \in Slot
    BY <1>1, RingNow
  <1> QED
    BY <1>1, <1>2, <1>3, RingAssumption DEF Slot

LEMMA FlightSender ==
  ASSUME ShapeInv, RingInv, Acts(Sender), NEW i \in Slot, Flying(i)'
  PROVE  val'[i] \in {NULL, Message(i)'}
  <1>1. Types /\ CursorInv /\ ContentInv /\ LogInv(Sender) /\ Mute(Sender)
    BY ShapeTypes, RingParts, Frame, Labels
  <1>2. /\ start \in Slot /\ end \in Slot /\ MESSAGE_BUFFER_SIZE \in Nat /\ Len(sent) \in Nat
        /\ Dist(i) \in Nat /\ ToEnd(i) \in Nat /\ Dist(end) \in Nat
    BY <1>1, SlotNumbers
  <1>3. CASE MoveEnd /\ Sending /\ ~Sending'
    <2>1. /\ end' = Succ(end) /\ start' = start /\ val' = val
          /\ sent' = Append(sent, op[Sender].refed) /\ pc[Sender] = "S2"
      BY <1>3 DEF MoveEnd, At
    <2>2. /\ op[Sender].refed \in Obj /\ val[end] = op[Sender].refed
      BY <1>1, <2>1, ShapeTypes, Labels DEF ClientShape, ContentInv
    <2>3. Dist(end) <= MESSAGE_BUFFER_SIZE - 2
      BY <1>1, <1>3 DEF CursorInv
    <2>4. Dist(end)' = Dist(end) + 1 /\ Dist(i)' = Dist(i)
      BY <1>2, <2>1, <2>3, BetweenSucc DEF Dist
    <2>5. ToEnd(i)' = IF ToEnd(i) = MESSAGE_BUFFER_SIZE - 1 THEN 0 ELSE ToEnd(i) + 1
      BY <1>2, <2>1, EndMoves
    <2>6. /\ Len(sent') = Len(sent) + 1 /\ sent'[Len(sent) + 1] = op[Sender].refed
          /\ \A n \in 1 .. Len(sent) : sent'[n] = sent[n]
      BY <1>1, <2>1, <2>2 DEF Types
    <2>7. CASE i = end
      <3>1. ToEnd(i) = 0
        BY <1>2, <2>7, RingNow
      <3>2. ToEnd(i)' = 1
        BY <2>5, <3>1, RingAssumption
      <3>3. Message(i)' = sent'[Len(sent) + 1]
        BY <1>2, <2>6, <3>2 DEF Message
      <3> QED
        BY <2>1, <2>2, <2>6, <2>7, <3>3
    <2>8. CASE i # end
      <3>1. Dist(i) # Dist(end)
        BY <1>2, <2>8, RingNow
      <3>2. Dist(i) < Dist(end)
        BY <1>2, <2>4, <3>1 DEF Flying
      <3>3. Flying(i)
        BY <3>2 DEF Flying
      <3>4. ToEnd(i) = Dist(end) - Dist(i) /\ Dist(end) <= Len(sent)
        BY <1>1, <1>2, <3>3, RingNow DEF CursorInv
      <3>5. ToEnd(i)' = ToEnd(i) + 1
        BY <1>2, <2>3, <2>5, <3>4
      <3>6. Len(sent') + 1 - ToEnd(i)' = Len(sent) + 1 - ToEnd(i)
            /\ Len(sent) + 1 - ToEnd(i) \in 1 .. Len(sent)
        BY <1>2, <2>6, <3>2, <3>4, <3>5
      <3>7. Message(i)' = Message(i)
        BY <2>6, <3>6 DEF Message
      <3> QED
        BY <1>1, <2>1, <3>3, <3>7 DEF ContentInv
    <2> QED
      BY <2>7, <2>8
  <1>4. CASE UNCHANGED <<end, sent>>
    <2>1. start' = start
      BY <1>1, Labels DEF Mute
    <2>2. Flying(i) /\ Message(i)' = Message(i)
      BY <1>4, <2>1 DEF Flying, Message, Dist, ToEnd, Between
    <2>3. i # end
      BY <1>2, <2>2 DEF Flying
    <2>4. ToEnd(i) = 1 => Message(i) = sent[Len(sent)]
      BY <1>2 DEF Message
    <2> QED
      BY <1>1, <2>2, <2>3, <2>4, SlotWrites, Labels DEF ContentInv
  <1> QED
    BY <1>3, <1>4, SenderStep

LEMMA StartMovesOut ==
  ASSUME Types, start' = Succ(start), end' = end, start # end, NEW i \in Slot
  PROVE  /\ Flying(i)' <=> Flying(i) /\ i # start
         /\ i # start => Dist(i)' = Dist(i) - 1
         /\ i = start => Dist(i)' = MESSAGE_BUFFER_SIZE - 1
         /\ Dist(end)' = Dist(end) - 1 /\ Dist(end) > 0 /\ (i # start => Dist(i) > 0)
  <1>1. /\ start \in Slot /\ end \in Slot /\ MESSAGE_BUFFER_SIZE \in Nat
        /\ Dist(i) \in Nat /\ Dist(i) <= MESSAGE_BUFFER_SIZE - 1
        /\ Dist(end) \in Nat /\ Dist(end) <= MESSAGE_BUFFER_SIZE - 1
    BY SlotNumbers
  <1>2. /\ Dist(i)' = IF i = start THEN MESSAGE_BUFFER_SIZE - 1 ELSE Dist(i) - 1
        /\ Dist(end)' = Dist(end) - 1
    BY <1>1, BetweenSucc DEF Dist
  <1>3. Dist(start) = 0 /\ Dist(end) # 0 /\ (i # start => Dist(i) # 0)
    BY <1>1, RingNow
  <1> QED
    BY <1>1, <1>2, <1>3 DEF Flying

LEMMA FlightReceiver ==
  ASSUME ShapeInv, RingInv, Acts(Receiver), NEW i \in Slot
  PROVE  Flying(i)' => Flying(i) /\ val'[i] \in {NULL, Message(i)'}
  <1>1. Types /\ CursorInv /\ ContentInv /\ LogInv(Receiver) /\ Mute(Receiver)
    BY ShapeTypes, RingParts, Frame, Labels
  <1>2. end' = end /\ sent' = sent
    BY <1>1, Labels DEF Mute
  <1>3. Message(i)' = Message(i)
    BY <1>2 DEF Message, ToEnd, Between
  <1>4. Flying(i)' => Flying(i)
    <2>1. CASE MoveStart /\ Emptying
      <3>1. start' = Succ(start) /\ start # end
        BY <1>1, <2>1 DEF MoveStart, CursorInv
      <3> QED
        BY <1>1, <1>2, <3>1, StartMovesOut
    <2>2. CASE start' = start
      BY <1>2, <2>2 DEF Flying, Dist, Between
    <2> QED
      BY <2>1, <2>2, ReceiverStep
  <1>5. val'[i] \in {val[i], NULL}
    BY <1>1, SlotWrites, Labels
  <1> QED
    BY <1>1, <1>3, <1>4, <1>5 DEF ContentInv

LEMMA ContentStep ==
  ASSUME ShapeInv, RingInv, NEW p \in Client, Acts(p)
  PROVE  ContentInv'
  <1> USE DEF Goto, At, ring, history
  <1>1. Types /\ CursorInv /\ ContentInv /\ Mute(p) /\ ClientShape(Sender)
    BY ShapeTypes, RingParts, Frame, Labels
  <1>2. \A i \in Slot : Flying(i)' => val'[i] \in {NULL, Message(i)'}
    BY FlightSender, FlightReceiver, Labels DEF Client
  <1>3. ASSUME pc'[Receiver] \in {"log", "count"}, op'[Receiver].then = "unlink"
        PROVE  op'[Receiver].refed = sent'[Len(received') + 1]
    <2>1. CASE p = Sender
      <3>1. /\ pc'[Receiver] = pc[Receiver] /\ op'[Receiver] = op[Receiver]
            /\ received' = received
        BY <1>1, <2>1, Labels DEF Mute
      <3>2. op[Receiver].refed = sent[Len(received) + 1]
        BY <1>1, <1>3, <3>1 DEF ContentInv
      <3>3. Len(received) + 1 \in 1 .. Len(sent)
        <4>1. Fresh /\ ~Took /\ start # end
          <5>1. Fetching
            BY <1>3, <3>1 DEF Fetching, Doing, OpLabel
          <5> QED
            BY <1>1, <1>3, <3>1, <5>1, Engaged DEF CursorInv
        <4>2. /\ Dist(end) \in Nat /\ Dist(end) # 0 /\ Len(sent) \in Nat /\ Len(received) \in Nat
          BY <1>1, <4>1, SlotNumbers, RingNow
        <4>3. Len(sent) - Len(received) = Dist(end)
          BY <1>1, <4>1, <4>2 DEF CursorInv
        <4> QED
          BY <4>2, <4>3
      <3>4. \A n \in 1 .. Len(sent) : sent'[n] = sent[n]
        <4>1. CASE MoveEnd
          <5>1. sent' = Append(sent, op[Sender].refed)
            BY <4>1 DEF MoveEnd
          <5> QED
            BY <1>1, <5>1 DEF Types
        <4> QED
          BY <2>1, <4>1, SenderStep
      <3> QED
        BY <3>1, <3>2, <3>3, <3>4
    <2>2. CASE p = Receiver
      <3>1. sent' = sent
        BY <1>1, <2>2, Labels DEF Mute
      <3>2. CASE LinkMessage
        <4>1. pc[Receiver] = "link" /\ received' = received
          BY <3>2 DEF LinkMessage
        <4>2. val[start] # NULL /\ op'[Receiver].refed = val[start]
          BY <1>1, <1>3, <3>2, Labels DEF LinkMessage, Begin, Types
        <4>3. Fetching /\ Fresh /\ ~Took /\ start # end
          <5>1. Fetching /\ ~Took
            BY <4>1 DEF Fetching, Took, Emptying, Doing, OpLabel
          <5> QED
            BY <1>1, <5>1, Engaged DEF CursorInv
        <4>4. /\ Dist(end) \in Nat /\ Dist(end) # 0 /\ Len(sent) \in Nat /\ Len(received) \in Nat
              /\ start \in Slot /\ Dist(start) = 0 /\ ToEnd(start) = Dist(end)
          BY <1>1, <4>3, SlotNumbers, RingNow
        <4>5. Len(sent) - Len(received) = Dist(end)
          BY <1>1, <4>3, <4>4 DEF CursorInv
        <4>6. Flying(start)
          BY <4>4 DEF Flying
        <4>7. val[start] = Message(start)
          BY <1>1, <4>2, <4>4, <4>6 DEF ContentInv
        <4>8. Len(sent) + 1 - ToEnd(start) = Len(received) + 1
          BY <4>4, <4>5
        <4> QED
          BY <3>1, <4>1, <4>2, <4>7, <4>8 DEF Message
      <3>3. CASE WriteLog(Receiver) \/ Crash(Receiver)
        BY <1>1, <1>3, <3>3, Labels DEF WriteLog, Crash, ContentInv, Types
      <3>4. CASE ~(LinkMessage \/ WriteLog(Receiver) \/ Crash(Receiver))
        <4>1. /\ ~(pc'[Receiver] \in {"log", "count"} /\ op'[Receiver].then = "unlink")
              \/ UNCHANGED <<pc, op, received>>
          <5>1. CASE \/ VisitSlot(Receiver) \/ WalkRoots(Receiver) \/ UnlinkMessage
                     \/ \E r \in Root : Drop(Receiver, r)
            BY <1>1, <5>1, Labels DEF VisitSlot, WalkRoots, UnlinkMessage, Drop, Begin, Walking, Types
          <5>2. CASE \/ CxlUnwrap \/ Register \/ TestMessage \/ AllocRootRef \/ MoveStart
                     \/ Leave(Receiver) \/ Redo(Receiver) \/ Release(Receiver)
                     \/ Count(Receiver) \/ NextSlot(Receiver) \/ Gone(Receiver)
            BY <1>1, <5>2, Labels
            DEF CxlUnwrap, Register, TestMessage, AllocRootRef, MoveStart, Leave, Redo, Release,
                Count, NextSlot, Gone, Types
          <5>3. CASE Store(Receiver)
            <6>1. pc[Receiver] \in OpLabel /\ pc'[Receiver] = op[Receiver].then
              BY <1>1, <5>3, Labels DEF Store, OpLabel, Types
            <6> QED
              BY <6>1, OpPlace, Labels
          <5>4. CASE AskReceiver(Receiver) \/ EndRing(Receiver)
            BY <5>4 DEF AskReceiver, EndRing
          <5> QED
            BY <2>2, <3>4, <5>1, <5>2, <5>3, <5>4, Labels DEF Acts, Step
        <4> QED
          BY <1>1, <1>3, <3>1, <4>1 DEF ContentInv
      <3> QED
        BY <3>2, <3>3, <3>4
    <2> QED
      BY <2>1, <2>2 DEF Client
  <1>4. ASSUME pc'[Sender] = "S2"
        PROVE  val'[end'] = op'[Sender].refed
    <2>1. CASE p = Sender
      <3>1. CASE Store(Sender)
        <4>1. /\ op' = op /\ end' = end /\ op[Sender].then = "S2" /\ pc[Sender] \in OpLabel
              /\ val' = [val EXCEPT ![op[Sender].ref] =
                           IF op[Sender].func = "LINK" THEN op[Sender].refed ELSE NULL]
          BY <1>1, <1>4, <3>1, Labels DEF Store, OpLabel, Types
        <4>2. op[Sender].func = "LINK" /\ op[Sender].ref = end /\ end \in Loc
          BY <1>1, <4>1, OpPlace, Labels DEF ClientShape, OpShape
        <4> QED
          BY <1>1, <4>1, <4>2 DEF Types
      <3>2. CASE Crash(Sender)
        BY <1>1, <1>4, <3>2 DEF Crash, ContentInv
      <3>3. CASE ~(Store(Sender) \/ Crash(Sender))
        <4>1. pc'[Sender] # "S2"
          <5>1. CASE \/ VisitSlot(Sender) \/ WalkRoots(Sender)
                     \/ (\E r \in Root : Drop(Sender, r)) \/ \E r \in Root : SentTo(r)
            BY <1>1, <5>1, Labels DEF VisitSlot, WalkRoots, SentTo, Drop, Begin, Walking, Types
          <5>2. CASE \/ MoveEnd \/ Leave(Sender) \/ Redo(Sender) \/ Release(Sender)
                     \/ WriteLog(Sender) \/ Count(Sender) \/ NextSlot(Sender) \/ Gone(Sender)
            BY <1>1, <5>2, Labels
            DEF MoveEnd, Leave, Redo, Release, WriteLog, Count, NextSlot, Gone, Types
          <5>3. CASE AskReceiver(Sender) \/ EndRing(Sender)
            BY <5>3 DEF AskReceiver, EndRing, Walking
          <5> QED
            BY <2>1, <3>3, <5>1, <5>2, <5>3, Labels DEF Acts, Step
        <4> QED
          BY <1>4, <4>1
      <3> QED
        BY <3>1, <3>2, <3>3
    <2>2. CASE p = Receiver
      <3>1. pc[Sender] = "S2" /\ op'[Sender] = op[Sender] /\ end' = end
        BY <1>1, <1>4, <2>2, Labels DEF Mute
      <3>2. val'[end] = val[end]
        BY <2>2, <3>1, EndKept DEF Sending
      <3> QED
        BY <1>1, <3>1, <3>2 DEF ContentInv
    <2> QED
      BY <2>1, <2>2 DEF Client
  <1> QED
    BY <1>2, <1>3, <1>4 DEF ContentInv

-----------------------------------------------------------------------------
(* The redo records.                                                       *)

LEMMA RacesGrow ==
  ASSUME NEW p \in Client, Acts(p)
  PROVE  races \subseteq races'
  <1>1. CASE Redo(p) \/ (p = Receiver /\ Register) \/ WalkRoots(p) \/ AskReceiver(p)
    BY <1>1 DEF Redo, Register, WalkRoots, AskReceiver
  <1>2. CASE ~(Redo(p) \/ (p = Receiver /\ Register) \/ WalkRoots(p) \/ AskReceiver(p))
    BY <1>2 DEF Acts, Step, history, SentTo, CxlUnwrap, Drop, Leave, Crash, WriteLog, Count, Store,
                Release, VisitSlot, NextSlot, EndRing, Gone, MoveEnd, TestMessage, AllocRootRef,
                LinkMessage, UnlinkMessage, MoveStart
  <1> QED
    BY <1>1, <1>2

LEMMA LogOther ==
  ASSUME ShapeInv, RingInv, NEW p \in Client, Acts(p), NEW q \in Client \ {p}
  PROVE  LogInv(q)'
  <1>1. Types /\ CursorInv /\ LogInv(q) /\ Mute(p) /\ q \in Client
    BY ShapeTypes, RingParts, Frame
  <1>2. /\ pc'[q] = pc[q] /\ op'[q] = op[q] /\ log'[q] = log[q] /\ walk'[q] = walk[q]
        /\ status'[q] = status[q]
        /\ q = Sender => end' = end /\ sent' = sent
        /\ q = Receiver => start' = start
    BY <1>1 DEF Mute
  <1>3. Entry(q)' <=> Entry(q)
    BY <1>2 DEF Entry
  <1>4. status[q] \in {"run", "dead"} /\ OldLink(q) => OldLink(q)'
    <2>1. CASE q = Sender
      <3>1. \A i : ToEnd(i)' = ToEnd(i)
        BY <1>2, <2>1 DEF ToEnd, Between
      <3>2. ToEnd(log[q].ref)' = ToEnd(log[q].ref)
        BY <1>2, <2>1 DEF ToEnd, Between
      <3> QED
        BY <1>2, <2>1, <3>2 DEF OldLink
    <2>2. CASE q = Receiver
      <3>1. \A r : Mine(q, r) => Mine(q, r)' /\ val'[r] = val[r]
        BY <1>1, RootsKeep DEF Mine, Mute
      <3>3. Mine(q, log[q].ref) => Mine(q, log[q].ref)'
        BY <1>2, <3>1 DEF Mine
      <3> QED
        BY <1>2, <2>2, <3>1, <3>3, Labels DEF OldLink
    <2> QED
      BY <2>1, <2>2 DEF Client
  <1>5. OldUnlink(q) => OldUnlink(q)'
    <2>1. CASE q = Sender
      BY <1>2, <2>1, Labels DEF OldUnlink
    <2>2. CASE q = Receiver /\ log[q].ref \in Slot
      <3> PICK l \in Slot : l = log[q].ref
        BY <2>2
      <3>1. p = Sender /\ start' = start
        BY <1>2, <2>2 DEF Client
      <3>2. Dist(l)' = Dist(l)
        BY <3>1 DEF Dist
      <3>3. Flying(l) => Flying(l)'
        <4>1. CASE MoveEnd /\ Sending
          <5>1. /\ start \in Slot /\ end \in Slot /\ MESSAGE_BUFFER_SIZE \in Nat
                /\ Dist(l) \in Nat /\ Dist(end) \in Nat
            BY <1>1, SlotNumbers
          <5>2. end' = Succ(end) /\ Dist(end) <= MESSAGE_BUFFER_SIZE - 2
            BY <1>1, <4>1 DEF MoveEnd, CursorInv
          <5>3. Dist(end)' = Dist(end) + 1
            BY <3>1, <5>1, <5>2, BetweenSucc DEF Dist
          <5> QED
            BY <3>2, <5>1, <5>3 DEF Flying
        <4>2. CASE end' = end
          BY <3>1, <4>2 DEF Flying, Dist, Between
        <4> QED
          BY <3>1, <4>1, <4>2, SenderStep
      <3>4. Dist(log[q].ref)' = Dist(l)' /\ (Flying(log[q].ref)' <=> Flying(l)')
        BY <1>2 DEF Dist, Flying
      <3> QED
        BY <1>2, <2>2, <3>2, <3>3, <3>4, Labels DEF OldUnlink
    <2>3. CASE q = Receiver /\ log[q].ref \notin Slot
      BY <1>2, <2>3, Labels DEF OldUnlink
    <2> QED
      BY <2>1, <2>2, <2>3 DEF Client
  <1>6. pc[q] = "S2" => q = Sender
    BY <1>1, ShapeTypes, Labels DEF ClientShape, Client
  <1>7. pc[q] = "R3" => q = Receiver
    BY <1>1, ShapeTypes, Labels DEF ClientShape, Client
  <1> QED
    BY <1>1, <1>2, <1>3, <1>4, <1>5, <1>6, <1>7 DEF LogInv

LEMMA LogOp ==
  ASSUME ShapeInv, RingInv, NEW p \in Client, WriteLog(p) \/ Count(p) \/ Store(p)
  PROVE  LogInv(p)'
  <1> USE DEF Goto, At, ring, history
  <1>1. /\ Types /\ CursorInv /\ UsedInv /\ LogInv(p)
        /\ pc[p] \in OpLabel /\ OpShape(p) /\ ClientShape(p) /\ status[p] \in {"run", "rec"}
    <2>1. Types /\ CursorInv /\ UsedInv /\ LogInv(p) /\ ClientShape(p)
      BY ShapeTypes, RingParts
    <2>2. pc[p] \in OpLabel /\ status[p] \in {"run", "rec"}
      BY DEF WriteLog, Count, Store, OpLabel
    <2> QED
      BY <2>1, <2>2 DEF ClientShape
  <1>2. CASE WriteLog(p)
    <2>1. /\ log'[p] = [func |-> op[p].func, ref |-> op[p].ref, refed |-> op[p].refed, done |-> FALSE]
          /\ pc'[p] = "count" /\ op' = op
      BY <1>1, <1>2 DEF WriteLog, Types
    <2>2. Entry(p)'
      BY <2>1 DEF Entry
    <2>3. ~log'[p].done /\ pc'[p] \notin {"store", "S2", "R3"}
      BY <2>1
    <2> QED
      BY <2>1, <2>2, <2>3 DEF LogInv, OldLink, OldUnlink
  <1>3. CASE Count(p)
    <2>1. pc'[p] = "store" /\ op' = op /\ status' = status /\ pc[p] = "count"
      BY <1>1, <1>3 DEF Count, Types
    <2>2. CASE status[p] = "run"
      <3>1. Entry(p)
        BY <1>1, <2>1, <2>2 DEF LogInv
      <3>2. log'[p] = [log[p] EXCEPT !.done = TRUE]
        <4>1. log' = [log EXCEPT ![p].done = TRUE]
          BY <1>3, <2>2 DEF Count
        <4>2. log \in [Client -> LogType]
          BY <1>1 DEF Types
        <4> QED
          BY <4>1, <4>2
      <3>3. Entry(p)' /\ log'[p].done
        <4>1. /\ log'[p].func = log[p].func /\ log'[p].ref = log[p].ref
              /\ log'[p].refed = log[p].refed /\ log'[p].done
          <5>1. log[p] \in LogType
            BY <1>1 DEF Types
          <5> QED
            BY <3>2, <5>1 DEF LogType
        <4> QED
          BY <2>1, <3>1, <4>1 DEF Entry
      <3>4. op[p].func # "none" /\ op[p].ref \in Loc /\ op[p].refed \in Obj
        BY <1>1, OpPlace DEF OpShape
      <3> QED
        BY <2>1, <3>3, <3>4 DEF LogInv, OldLink, OldUnlink, Entry
    <2>3. CASE status[p] = "rec"
      <3>1. log' = log
        BY <1>3, <2>3 DEF Count
      <3> QED
        BY <1>1, <2>1, <2>3, <3>1 DEF LogInv
    <2> QED
      BY <1>1, <2>2, <2>3
  <1>4. CASE Store(p)
    <2>1. /\ UNCHANGED <<log, op, status, walk, start, end, inUse>>
          /\ pc[p] = "store" /\ pc'[p] = op[p].then
      BY <1>1, <1>4 DEF Store, Types
    <2>2. CASE status[p] = "rec"
      BY <1>1, <2>1, <2>2 DEF LogInv
    <2>3. CASE status[p] = "run"
      <3>1. /\ log[p].func = op[p].func /\ log[p].ref = op[p].ref /\ log[p].refed = op[p].refed
            /\ log[p].done /\ Entry(p) /\ log[p].done
        <4>1. Entry(p) /\ log[p].done
          BY <1>1, <2>1, <2>3 DEF LogInv
        <4> QED
          BY <2>1, <4>1 DEF Entry
      <3>2. op[p].then \in {"S2", "unlink", "R3", "release", "next"}
        BY <1>1, OpPlace
      <3>3. pc'[p] = "S2" =>
              /\ log'[p].func = "LINK" /\ log'[p].ref = end' /\ log'[p].refed = op'[p].refed
              /\ log'[p].done
        BY <1>1, <2>1, <3>1 DEF OpShape, Entry
      <3>4. pc'[p] = "R3" => log'[p].func = "UNLINK" /\ log'[p].ref = start'
        BY <1>1, <2>1, <3>1 DEF OpShape
      <3>5. OldLink(p)'
        <4>1. CASE op[p].then = "S2"
          BY <1>1, <2>1, <3>1, <4>1, OpPlace DEF OldLink, OpShape
        <4>2. CASE op[p].then = "unlink"
          <5>1. Mine(p, op[p].ref) /\ p = Receiver /\ op[p].func = "LINK"
            BY <1>1, <4>2 DEF OpShape
          <5>2. val'[op[p].ref] = op[p].refed
            BY <1>1, <1>4, <5>1 DEF Store, Types, Mine, Loc
          <5> QED
            BY <2>1, <3>1, <4>2, <5>1, <5>2, Labels DEF OldLink, Mine
        <4>3. CASE op[p].then \notin {"S2", "unlink"}
          BY <1>1, <2>1, <3>1, <4>3 DEF OldLink, OpShape
        <4> QED
          BY <4>1, <4>2, <4>3
      <3>6. OldUnlink(p)'
        <4>1. CASE op[p].then = "R3"
          <5>1. p = Receiver /\ op[p].ref = start /\ start # end
            BY <1>1, <4>1 DEF OpShape, CursorInv, Emptying, Doing
          <5>2. Dist(start) = 0 /\ Dist(end) \in Nat /\ Dist(end) # 0 /\ start \in Slot
            BY <1>1, <5>1, SlotNumbers, RingNow
          <5>3. Flying(start)
            BY <5>2 DEF Flying
          <5>4. Flying(log[p].ref)'
            BY <2>1, <3>1, <5>1, <5>3 DEF Flying, Dist, Between
          <5> QED
            BY <2>1, <3>1, <5>1, <5>2, <5>4, Labels DEF OldUnlink
        <4>2. CASE op[p].then = "release"
          <5>1. op[p].ref \notin Slot /\ Owner[op[p].ref] = p
            BY <1>1, <4>2, RootAssumption DEF OpShape, Mine
          <5> QED
            BY <2>1, <3>1, <5>1 DEF OldUnlink
        <4>3. CASE op[p].then = "next"
          <5>1. walk[p].phase \in RingWalk /\ op[p].ref = walk[p].i /\ walk[p].i \in Slot
            BY <1>1, <4>3 DEF OpShape, Types
          <5>2. CASE p = Sender
            BY <2>1, <3>1, <5>1, <5>2 DEF OldUnlink, RingWalk
          <5>3. CASE p = Receiver
            <6>1. walk[p].phase = "used" /\ Visiting(p)
              BY <1>1, <4>3, <5>1, <5>3, Labels DEF ClientShape, RingWalk, Visiting, Doing
            <6>2. Flying(walk[p].i)
              BY <1>1, <5>1, <5>3, <6>1 DEF UsedInv, Flying
            <6>3. Flying(log[p].ref)'
              BY <2>1, <3>1, <5>1, <6>2 DEF Flying, Dist, Between
            <6> QED
              BY <2>1, <3>1, <5>1, <5>3, <6>3, Labels DEF OldUnlink
          <5> QED
            BY <5>2, <5>3 DEF Client
        <4>4. CASE op[p].then \in {"S2", "unlink"}
          BY <1>1, <2>1, <3>1, <4>4 DEF OldUnlink, OpShape
        <4> QED
          BY <3>2, <4>1, <4>2, <4>3, <4>4
      <3>7. pc'[p] \notin {"count", "store"}
        BY <2>1, <3>2
      <3>8. log'[p].done =>
              log'[p].func # "none" /\ log'[p].ref \in Loc /\ log'[p].refed \in Obj
        BY <1>1, <2>1 DEF LogInv
      <3> QED
        BY <3>3, <3>4, <3>5, <3>6, <3>7, <3>8 DEF LogInv
    <2> QED
      BY <1>1, <2>2, <2>3
  <1> QED
    BY <1>2, <1>3, <1>4

LEMMA LogMove ==
  ASSUME ShapeInv, RingInv, NEW p \in Client, (p = Sender /\ MoveEnd) \/ (p = Receiver /\ MoveStart)
  PROVE  LogInv(p)'
  <1> USE DEF Goto, At, ring, history
  <1>1. Types /\ CursorInv /\ LogInv(p) /\ ClientShape(p)
    BY ShapeTypes, RingParts
  <1>2. start \in Slot /\ end \in Slot /\ MESSAGE_BUFFER_SIZE \in Nat
    BY <1>1, SlotNumbers
  <1>3. CASE p = Sender /\ MoveEnd
    <2>1. /\ log' = log /\ status' = status /\ pc[p] = "S2" /\ pc'[p] = "idle"
          /\ end' = Succ(end) /\ sent' = Append(sent, op[p].refed)
      BY <1>1, <1>3 DEF MoveEnd, Types
    <2>2. CASE status[p] \in {"run", "dead"}
      <3>1. /\ log[p].func = "LINK" /\ log[p].ref = end /\ log[p].refed = op[p].refed
            /\ log[p].done
        BY <1>1, <2>1, <2>2 DEF LogInv
      <3>2. op[p].refed \in Obj
        BY <1>1, <2>1 DEF ClientShape
      <3>3. sent' # <<>> /\ sent'[Len(sent')] = op[p].refed
        <4>1. sent \in Seq(Obj)
          BY <1>1 DEF Types
        <4> QED
          BY <2>1, <3>2, <4>1
      <3>4. Between(end, Succ(end)) = 1
        <4>1. Between(end, end) = 0
          BY <1>2, BetweenRange
        <4> QED
          BY <1>2, <4>1, BetweenSucc, RingAssumption
      <3>5. ToEnd(log[p].ref)' = 1
        BY <2>1, <3>1, <3>4 DEF ToEnd
      <3>6. OldLink(p)'
        BY <1>2, <1>3, <2>1, <3>1, <3>3, <3>5 DEF OldLink
      <3>7. OldUnlink(p)'
        BY <2>1, <3>1 DEF OldUnlink
      <3> QED
        BY <1>1, <2>1, <3>6, <3>7 DEF LogInv
    <2>3. CASE status[p] \notin {"run", "dead"}
      BY <1>1, <2>1, <2>3 DEF LogInv
    <2> QED
      BY <2>2, <2>3
  <1>4. CASE p = Receiver /\ MoveStart
    <2>1. /\ log' = log /\ status' = status /\ pc[p] = "R3" /\ pc'[p] = "idle"
          /\ start' = Succ(start) /\ end' = end
      BY <1>1, <1>4 DEF MoveStart, Types
    <2>2. CASE status[p] \in {"run", "dead"}
      <3>1. log[p].func = "UNLINK" /\ log[p].ref = start
        BY <1>1, <2>1, <2>2 DEF LogInv
      <3>2. Between(Succ(start), start) = MESSAGE_BUFFER_SIZE - 1
        BY <1>2, BetweenSucc
      <3>3. Dist(log[p].ref)' = MESSAGE_BUFFER_SIZE - 1
        BY <2>1, <3>1, <3>2 DEF Dist
      <3>4. OldUnlink(p)' /\ OldLink(p)'
        BY <1>2, <1>4, <2>1, <3>1, <3>3, Labels DEF OldUnlink, OldLink
      <3> QED
        BY <1>1, <2>1, <3>4 DEF LogInv
    <2>3. CASE status[p] \notin {"run", "dead"}
      BY <1>1, <2>1, <2>3 DEF LogInv
    <2> QED
      BY <2>2, <2>3
  <1> QED
    BY <1>3, <1>4

(* Steps that leave the record and the cursors alone. *)
LEMMA LogKept ==
  ASSUME NEW p \in Client, LogInv(p), UNCHANGED <<log, start, end, sent>>,
         status'[p] \in {"run", "dead"} => status[p] \in {"run", "dead"},
         walk[p].phase # "none" => walk'[p].phase # "none",
         \/ /\ pc'[p] = pc[p] /\ UNCHANGED <<op, val, inUse>>
         \/ /\ pc[p] \notin {"log", "count", "store", "S2", "R3", "unlink", "wild"}
            /\ pc'[p] \notin {"store", "S2", "R3"}
            /\ pc'[p] = "count" => status'[p] = "rec"
         \/ /\ pc[p] = "unlink" /\ UNCHANGED <<val, inUse>> /\ p = Receiver
            /\ pc'[p] = "wild" \/ (pc'[p] = "log" /\ op'[p].then = "R3")
  PROVE  LogInv(p)'
  <1>1. /\ Flying(log[p].ref)' <=> Flying(log[p].ref)
        /\ Dist(log[p].ref)' = Dist(log[p].ref) /\ ToEnd(log[p].ref)' = ToEnd(log[p].ref)
    BY DEF Flying, Dist, ToEnd, Between
  <1>2. CASE status'[p] \notin {"run", "dead"}
    BY <1>2 DEF LogInv
  <1>3. CASE status'[p] \in {"run", "dead"}
    <2>1. status[p] \in {"run", "dead"}
      BY <1>3
    <2>2. CASE pc'[p] = pc[p] /\ UNCHANGED <<op, val, inUse>>
      <3>1. OldLink(p)'
        BY <1>1, <2>1, <2>2 DEF LogInv, OldLink, Mine
      <3>2. OldUnlink(p)'
        BY <1>1, <2>1, <2>2 DEF LogInv, OldUnlink
      <3> QED
        BY <2>1, <2>2, <3>1, <3>2 DEF LogInv, Entry
    <2>3. CASE /\ pc[p] \notin {"log", "count", "store", "S2", "R3", "unlink", "wild"}
               /\ pc'[p] \notin {"store", "S2", "R3"}
               /\ pc'[p] = "count" => status'[p] = "rec"
      <3>1. OldLink(p)'
        <4>1. CASE p = Sender
          BY <1>1, <2>1, <2>3, <4>1 DEF LogInv, OldLink
        <4>2. CASE p # Sender
          BY <2>1, <2>3, <4>2 DEF LogInv, OldLink
        <4> QED
          BY <4>1, <4>2
      <3>2. OldUnlink(p)'
        BY <1>1, <2>1, <2>3 DEF LogInv, OldUnlink
      <3> QED
        BY <1>3, <2>3, <3>1, <3>2 DEF LogInv
    <2>4. CASE /\ pc[p] = "unlink" /\ UNCHANGED <<val, inUse>> /\ p = Receiver
               /\ pc'[p] = "wild" \/ (pc'[p] = "log" /\ op'[p].then = "R3")
      <3>1. OldLink(p)'
        BY <2>1, <2>4, Labels DEF LogInv, OldLink, Mine
      <3>2. OldUnlink(p)'
        BY <1>1, <2>1, <2>4 DEF LogInv, OldUnlink
      <3> QED
        BY <2>4, <3>1, <3>2 DEF LogInv
    <2> QED
      BY <2>2, <2>3, <2>4
  <1> QED
    BY <1>2, <1>3

LEMMA LogActor ==
  ASSUME ShapeInv, RingInv, NEW p \in Client, Acts(p)
  PROVE  LogInv(p)'
  <1> USE DEF Goto, At, ring, history
  <1>1. Types /\ CursorInv /\ LogInv(p) /\ ClientShape(p)
    BY ShapeTypes, RingParts
  <1>2. CASE WriteLog(p) \/ Count(p) \/ Store(p)
    BY <1>2, LogOp
  <1>3. CASE (p = Sender /\ MoveEnd) \/ (p = Receiver /\ MoveStart)
    BY <1>3, LogMove
  <1>4. CASE Redo(p) \/ Gone(p)
    <2>1. log' = log /\ status'[p] \in {"rec", "gone"}
      BY <1>1, <1>4 DEF Redo, Gone, Types
    <2> QED
      BY <1>1, <2>1 DEF LogInv
  <1>5. CASE Crash(p) \/ AskReceiver(p) \/ EndRing(p)
    <2>1. /\ UNCHANGED <<log, start, end, sent, op, val, inUse>> /\ pc'[p] = pc[p]
          /\ status'[p] \in {"run", "dead"} => status[p] \in {"run", "dead"}
      BY <1>1, <1>5 DEF Crash, AskReceiver, EndRing, Types
    <2>2. walk[p].phase # "none" => walk'[p].phase # "none"
      BY <1>1, <1>5 DEF Crash, AskReceiver, EndRing, Types
    <2> QED
      BY <1>1, <2>1, <2>2, LogKept
  <1>6. CASE \/ (\E r \in Root : Drop(p, r)) \/ Leave(p) \/ Release(p) \/ WalkRoots(p)
             \/ VisitSlot(p) \/ NextSlot(p) \/ (p = Sender /\ \E r \in Root : SentTo(r))
             \/ (p = Receiver /\ (CxlUnwrap \/ Register \/ TestMessage \/ LinkMessage))
    <2>1. UNCHANGED <<log, start, end, sent, status>> /\ status[p] \in {"run", "rec"}
      BY <1>6
      DEF Drop, Leave, Release, WalkRoots, VisitSlot, NextSlot, SentTo, CxlUnwrap, Register,
          TestMessage, LinkMessage, Walking
    <2>2. walk[p].phase # "none" => walk'[p].phase # "none"
      <3>1. RingPart(p).phase # "none"
        BY DEF RingPart
      <3>2. CASE \/ (\E r \in Root : Drop(p, r)) \/ Leave(p) \/ Release(p)
                 \/ VisitSlot(p) \/ NextSlot(p) \/ (p = Sender /\ \E r \in Root : SentTo(r))
                 \/ (p = Receiver /\ (CxlUnwrap \/ Register \/ TestMessage \/ LinkMessage))
        BY <1>1, <3>2
        DEF Drop, Leave, Release, VisitSlot, NextSlot, SentTo, CxlUnwrap, Register,
            TestMessage, LinkMessage, Walking, Types
      <3>3. CASE WalkRoots(p)
        <4>1. walk' = walk \/ walk' = [walk EXCEPT ![p] = RingPart(p)]
          BY <3>3 DEF WalkRoots
        <4> QED
          BY <1>1, <3>1, <4>1 DEF Types
      <3> QED
        BY <1>6, <3>2, <3>3
    <2>3. pc[p] \notin {"log", "count", "store", "S2", "R3", "unlink", "wild"}
      BY <1>6
      DEF Drop, Leave, Release, WalkRoots, VisitSlot, NextSlot, SentTo, CxlUnwrap, Register,
          TestMessage, LinkMessage, Walking
    <2>4. pc'[p] \notin {"store", "S2", "R3"} /\ (pc'[p] = "count" => status[p] # "run")
      BY <1>1, <1>6
      DEF Drop, Leave, Release, WalkRoots, VisitSlot, NextSlot, SentTo, CxlUnwrap, Register,
          TestMessage, LinkMessage, Walking, Begin, Types
    <2>5. pc'[p] = "count" => status'[p] = "rec"
      BY <2>1, <2>4
    <2> QED
      BY <1>1, <2>1, <2>2, <2>3, <2>4, <2>5, LogKept
  <1>7. CASE p = Receiver /\ UnlinkMessage
    <2>1. /\ UNCHANGED <<log, start, end, sent, status, val, inUse, walk>>
          /\ pc[p] = "unlink" /\ status[p] \in {"run", "rec"}
      BY <1>7 DEF UnlinkMessage
    <2>2. status[p] = "run"
      BY <1>1, <2>1 DEF ClientShape, OpLabel
    <2>3. pc'[p] = "wild" \/ (pc'[p] = "log" /\ op'[p].then = "R3")
      BY <1>1, <1>7, <2>2 DEF UnlinkMessage, Begin, Types
    <2> QED
      BY <1>1, <1>7, <2>1, <2>3, LogKept
  <1>8. CASE p = Receiver /\ AllocRootRef
    <2>1. /\ UNCHANGED <<start, end, sent, status, walk>> /\ pc[p] = "root" /\ pc'[p] = "link"
          /\ log'[p] = log[p] \/ log'[p] = NoLog
      BY <1>1, <1>8 DEF AllocRootRef, Types
    <2>2. CASE log'[p] = NoLog
      BY <2>1, <2>2 DEF LogInv, OldLink, OldUnlink, NoLog
    <2>3. CASE log'[p] = log[p]
      <3>1. Flying(log[p].ref)' <=> Flying(log[p].ref)
        BY <2>1, <2>3 DEF Flying, Dist, Between
      <3>2. Dist(log[p].ref)' = Dist(log[p].ref)
        BY <2>1, <2>3 DEF Dist, Between
      <3>3. status[p] \in {"run", "dead"} => OldUnlink(p)'
        BY <1>1, <2>1, <2>3, <3>1, <3>2 DEF LogInv, OldUnlink
      <3>4. status[p] \in {"run", "dead"} => OldLink(p)'
        BY <1>1, <1>8, <2>1, <2>3, Labels DEF LogInv, OldLink
      <3> QED
        BY <1>1, <2>1, <2>3, <3>3, <3>4 DEF LogInv
    <2> QED
      BY <2>1, <2>2, <2>3
  <1> QED
    BY <1>2, <1>3, <1>4, <1>5, <1>6, <1>7, <1>8 DEF Acts, Step

LEMMA LogStep ==
  ASSUME ShapeInv, RingInv, NEW p \in Client, Acts(p)
  PROVE  \A q \in Client : LogInv(q)'
  <1>1. ASSUME NEW q \in Client \ {p}
        PROVE  LogInv(q)'
    BY LogOther
  <1> QED
    BY <1>1, LogActor

(* The place of an old unlink stays empty. *)
LEMMA OldUnlinkOther ==
  ASSUME ShapeInv, RingInv, NEW p \in Client, Acts(p), NEW q \in Client \ {p},
         status'[q] \in {"run", "dead"}, pc'[q] # "store",
         log'[q].func = "UNLINK", log'[q].done, "replayed" \notin races'
  PROVE  val'[log'[q].ref] = NULL
  <1>1. /\ Types /\ CursorInv /\ LogInv(q) /\ LogInv(p) /\ Mute(p) /\ q \in Client
        /\ OldUnlinkHarmless
    BY ShapeTypes, RingParts, Frame
  <1>2. pc'[q] = pc[q] /\ log'[q] = log[q] /\ status'[q] = status[q]
    BY <1>1 DEF Mute
  <1> PICK l \in Loc : l = log[q].ref
    BY <1>1, <1>2 DEF LogInv
  <1>3. val[l] = NULL
    <2>1. "replayed" \notin races
      BY RacesGrow
    <2> QED
      BY <1>1, <1>2, <2>1 DEF OldUnlinkHarmless
  <1>4. OldUnlink(q)
    BY <1>1, <1>2 DEF LogInv
  <1>5. CASE l \in Root
    <2>1. Owner[l] # p
      BY <1>5, ShapeTypes DEF LogOwner
    <2> QED
      BY <1>2, <1>3, <1>5, <2>1, RootsKeep
  <1>6. CASE l \in Slot
    <2>1. CASE p = Receiver
      BY <1>1, <1>2, <1>3, <1>6, <2>1, SlotWrites, Labels
    <2>2. CASE p = Sender
      <3>1. Flying(l) \/ Dist(l) = MESSAGE_BUFFER_SIZE - 1
        BY <1>2, <1>4, <1>6, <2>2, Labels DEF OldUnlink, Client
      <3>2. ~(Sending /\ l = end)
        <4>1. Dist(end) \in Nat /\ MESSAGE_BUFFER_SIZE \in Nat
          BY <1>1, SlotNumbers
        <4> QED
          BY <1>1, <3>1, <4>1 DEF Flying, CursorInv
      <3>3. CASE val'[l] \in {val[l], NULL}
        BY <1>2, <1>3, <3>3
      <3>4. CASE /\ Redo(Sender) /\ log[Sender].refed = val'[l]
                 /\ log[Sender].func = "LINK" /\ log[Sender].done /\ log[Sender].ref = l
                 /\ pc[Sender] \notin {"store", "S2"}
        <4>1. ~Stale(Sender)
          BY <3>4 DEF Redo
        <4> QED
          BY <1>2, <1>3, <1>6, <3>4, <4>1 DEF Stale
      <3> QED
        BY <1>1, <1>6, <2>2, <3>2, <3>3, <3>4, SlotWrites
    <2> QED
      BY <2>1, <2>2 DEF Client
  <1> QED
    BY <1>5, <1>6 DEF Loc

LEMMA OldUnlinkActor ==
  ASSUME ShapeInv, RingInv, NEW p \in Client, Acts(p),
         status'[p] \in {"run", "dead"}, pc'[p] # "store",
         log'[p].func = "UNLINK", log'[p].done, "replayed" \notin races'
  PROVE  val'[log'[p].ref] = NULL
  <1> USE DEF Goto, At, ring, history
  <1>1. Types /\ LogInv(p) /\ OldUnlinkHarmless
    BY ShapeTypes, RingParts
  <1>2. CASE WriteLog(p)
    BY <1>1, <1>2 DEF WriteLog, Types
  <1>3. CASE Count(p)
    BY <1>1, <1>3 DEF Count, Types
  <1>4. CASE Store(p)
    <2>1. pc[p] = "store" /\ log' = log /\ status' = status
      BY <1>4 DEF Store
    <2>2. log[p].ref = op[p].ref /\ log[p].func = op[p].func
      BY <1>1, <2>1 DEF LogInv, Entry
    <2>3. op[p].ref \in Loc
      BY <2>1, OpPlace DEF OpLabel
    <2> QED
      BY <1>1, <1>4, <2>1, <2>2, <2>3 DEF Store, Types
  <1>5. CASE Redo(p) \/ Gone(p)
    BY <1>1, <1>5 DEF Redo, Gone, Types
  <1>6. CASE ~(WriteLog(p) \/ Count(p) \/ Store(p) \/ Redo(p) \/ Gone(p))
    <2>1. log'[p] = log[p]
      <3>1. CASE p = Receiver /\ AllocRootRef
        BY <1>1, <3>1 DEF AllocRootRef, Types, NoLog
      <3>2. CASE ~(p = Receiver /\ AllocRootRef)
        BY <1>6, <3>2 DEF Acts, Step, SentTo, CxlUnwrap, Drop, Leave, Crash, Release, WalkRoots,
                    VisitSlot, NextSlot, AskReceiver, EndRing, MoveEnd, Register, TestMessage,
                    LinkMessage, UnlinkMessage, MoveStart
      <3> QED
        BY <3>1, <3>2
    <2>2. \A l \in Loc : val'[l] \in {val[l], NULL}
      <3>1. CASE Release(p) \/ (p = Receiver /\ AllocRootRef)
        BY <1>1, <3>1 DEF Release, AllocRootRef, Types
      <3>2. CASE ~(Release(p) \/ (p = Receiver /\ AllocRootRef))
        BY <1>6, <3>2 DEF Acts, Step, SentTo, CxlUnwrap, Drop, Leave, Crash, WalkRoots,
                    VisitSlot, NextSlot, AskReceiver, EndRing, MoveEnd, Register, TestMessage,
                    LinkMessage, UnlinkMessage, MoveStart
      <3> QED
        BY <3>1, <3>2
    <2>3. /\ status[p] \in {"run", "dead"}
          /\ pc[p] = "store" => pc'[p] = "store"
      <3>1. CASE Crash(p)
        BY <1>1, <3>1 DEF Crash
      <3>2. CASE ~Crash(p)
        BY <1>6, <3>2 DEF Acts, Step, SentTo, CxlUnwrap, Drop, Leave, Release, WalkRoots,
                    VisitSlot, NextSlot, AskReceiver, EndRing, MoveEnd, Register, TestMessage,
                    LinkMessage, UnlinkMessage, MoveStart, AllocRootRef, Walking
      <3> QED
        BY <3>1, <3>2
    <2>4. log[p].ref \in Loc /\ "replayed" \notin races /\ pc[p] # "store"
      BY <1>1, <2>1, <2>3, RacesGrow DEF LogInv
    <2>5. val[log[p].ref] = NULL
      BY <1>1, <2>1, <2>3, <2>4 DEF OldUnlinkHarmless
    <2> QED
      BY <2>1, <2>2, <2>4, <2>5
  <1> QED
    BY <1>2, <1>3, <1>4, <1>5, <1>6

LEMMA RingStep ==
  ASSUME ShapeInv, RingInv, [Next]_vars
  PROVE  RingInv'
  <1>1. CASE Next
    <2>1. PICK p \in Client : Acts(p)
      BY <1>1, NextActs
    <2>2. OldUnlinkHarmless'
      <3>1. ASSUME NEW q \in Client, status'[q] \in {"run", "dead"}, pc'[q] # "store",
                   log'[q].func = "UNLINK", log'[q].done, "replayed" \notin races'
            PROVE  val'[log'[q].ref] = NULL
        <4>1. CASE q = p
          BY <2>1, <3>1, <4>1, OldUnlinkActor
        <4>2. CASE q \in Client \ {p}
          BY <2>1, <3>1, <4>2, OldUnlinkOther
        <4> QED
          BY <4>1, <4>2
      <3> QED
        BY <3>1 DEF OldUnlinkHarmless
    <2>3. CursorInv' /\ UsedInv'
      BY <2>1, CursorStep, UsedStep, RingParts
    <2>4. ContentInv'
      BY <2>1, ContentStep
    <2>5. \A q \in Client : LogInv(q)'
      BY <2>1, LogStep
    <2> QED
      BY <2>2, <2>3, <2>4, <2>5 DEF RingInv
  <1>2. CASE UNCHANGED vars
    <2>1. UNCHANGED <<val, inUse, start, end, status, pc, op, log, walk, races, sent, received>>
      BY <1>2 DEF vars, ring, history
    <2>2. CursorInv' /\ UsedInv'
      BY <2>1, RingParts DEF CursorInv, UsedInv, Sending, Fetching, Emptying, Took, Fresh, Doing,
                             Visiting, Dist, Between
    <2>3. ContentInv' /\ OldUnlinkHarmless'
      BY <2>1, RingParts DEF ContentInv, OldUnlinkHarmless, Flying, Message, Dist, ToEnd, Between
    <2>4. ASSUME NEW q \in Client
          PROVE  LogInv(q)'
      BY <2>1, RingParts DEF LogInv, Entry, OldLink, OldUnlink, Mine, Flying, Dist, ToEnd, Between
    <2> QED
      BY <2>2, <2>3, <2>4 DEF RingInv
  <1> QED
    BY <1>1, <1>2

LEMMA InitRing == Init => RingInv
  <1> SUFFICES ASSUME Init PROVE RingInv
    OBVIOUS
  <1>1. /\ start = 0 /\ end = 0 /\ sent = <<>> /\ received = <<>>
        /\ \A p \in Client : /\ pc[p] = "idle" /\ walk[p].phase = "none" /\ status[p] = "run"
                             /\ log[p] = NoLog
    BY DEF Init, NoWalk
  <1>2. Dist(end) = 0 /\ Len(sent) = 0 /\ Len(received) = 0
    BY <1>1 DEF Dist, Between
  <1>3. ~Sending /\ ~Fetching /\ ~Emptying /\ ~Took
    BY <1>1, Labels DEF Sending, Fetching, Emptying, Took, Doing, OpLabel
  <1>4. CursorInv /\ UsedInv
    BY <1>1, <1>2, <1>3, Labels DEF CursorInv, UsedInv
  <1>5. \A i \in Slot : Dist(i) \in Nat
    BY <1>1, RingAssumption, RingNow DEF Slot
  <1>6. ContentInv
    BY <1>1, <1>2, <1>5, Labels DEF ContentInv, Flying
  <1>7. OldUnlinkHarmless /\ \A p \in Client : LogInv(p)
    BY <1>1 DEF OldUnlinkHarmless, LogInv, OldLink, OldUnlink, NoLog
  <1> QED
    BY <1>4, <1>6, <1>7 DEF RingInv

-----------------------------------------------------------------------------
(* What holds whatever races have happened.                                *)

(* The shape of the local variables and what is said of the cursors and of *)
(* the redo records hold of every execution, with any number of failures   *)
(* and recoveries and all the known races.                                 *)
THEOREM RingInvariant == Spec => [](ShapeInv /\ RingInv)
  <1>1. Init => ShapeInv /\ RingInv
    BY InitShape, InitRing
  <1>2. ShapeInv /\ RingInv /\ [Next]_vars => (ShapeInv /\ RingInv)'
    BY ShapeStep, RingStep
  <1> QED
    BY <1>1, <1>2, PTL DEF Spec

(* The redo record of an unlink that ended can be replayed at any time:    *)
(* the place it clears is empty, whatever the other client did meanwhile.  *)
THEOREM OldUnlinksHarmless == Spec => []OldUnlinkHarmless
  <1>1. ShapeInv /\ RingInv => OldUnlinkHarmless
    BY DEF RingInv
  <1> QED
    BY <1>1, RingInvariant, PTL

-----------------------------------------------------------------------------
(* The ring implements RefChannel.                                         *)

Flight == SubSeq(sent, Len(received) + 1, Len(sent))

(* What a step does to the two histories. *)
LEMMA Histories ==
  ASSUME ShapeInv, NEW p \in Client, Acts(p)
  PROVE  \/ UNCHANGED <<sent, received>>
         \/ MoveEnd /\ Sending /\ UNCHANGED received
         \/ /\ pc[Receiver] \in {"log", "count"} /\ op[Receiver].then = "unlink"
            /\ received' = Append(received, op[Receiver].refed) /\ UNCHANGED sent
  <1>1. Mute(p)
    BY Frame
  <1>2. CASE p = Sender
    <2>1. received' = received
      BY <1>1, <1>2, Labels DEF Mute
    <2> QED
      BY <1>2, <2>1, SenderStep
  <1>3. CASE p = Receiver
    <2>1. sent' = sent
      BY <1>1, <1>3, Labels DEF Mute
    <2>2. CASE MoveStart
      BY <2>1, <2>2 DEF MoveStart, history
    <2>3. CASE Count(Receiver) /\ Doing(Receiver, "unlink")
      BY <2>1, <2>3 DEF Count, At, Doing
    <2> QED
      BY <1>3, <2>1, <2>2, <2>3, ReceiverStep
  <1> QED
    BY <1>2, <1>3 DEF Client

(* Sending one more message appends it to what is in flight. *)
LEMMA FlightSend ==
  ASSUME NEW s \in Seq(Obj), NEW n \in Nat, n <= Len(s), NEW m \in Obj
  PROVE  /\ Append(s, m) \in Seq(Obj)
         /\ SubSeq(Append(s, m), n + 1, Len(Append(s, m)))
              = Append(SubSeq(s, n + 1, Len(s)), m)
         /\ Len(SubSeq(s, n + 1, Len(s))) = Len(s) - n
  <1> DEFINE t == Append(s, m)
             a == SubSeq(t, n + 1, Len(t))
             b == SubSeq(s, n + 1, Len(s))
             c == Append(b, m)
  <1>1. t \in Seq(Obj) /\ Len(t) = Len(s) + 1 /\ Len(s) \in Nat
    OBVIOUS
  <1>2. /\ a \in Seq(Obj) /\ Len(a) = Len(t) - n
        /\ \A i \in 1 .. Len(t) - n : a[i] = t[n + i]
    BY <1>1
  <1>3. /\ b \in Seq(Obj) /\ Len(b) = Len(s) - n
        /\ \A i \in 1 .. Len(s) - n : b[i] = s[n + i]
    BY <1>1
  <1>4. c \in Seq(Obj) /\ Len(c) = Len(s) + 1 - n
    BY <1>1, <1>3
  <1>5. \A i \in 1 .. Len(s) + 1 - n : a[i] = c[i]
    <2>1. TAKE i \in 1 .. Len(s) + 1 - n
    <2>2. CASE i = Len(s) + 1 - n
      <3>1. a[i] = m /\ c[i] = m
        BY <1>1, <1>2, <1>3, <2>2
      <3> QED
        BY <3>1
    <2>3. CASE i \in 1 .. Len(s) - n
      <3>1. a[i] = s[n + i] /\ c[i] = s[n + i]
        BY <1>1, <1>2, <1>3, <2>3
      <3> QED
        BY <3>1
    <2> QED
      BY <1>1, <2>2, <2>3
  <1>6. a = c
    <2>1. Len(a) = Len(s) + 1 - n /\ Len(c) = Len(s) + 1 - n
      BY <1>1, <1>2, <1>4
    <2> HIDE DEF a, c
    <2> QED
      BY <1>2, <1>4, <1>5, <2>1, SeqEqual
  <1> QED
    BY <1>1, <1>3, <1>6

(* Receiving takes the oldest message off what is in flight. *)
LEMMA FlightReceive ==
  ASSUME NEW s \in Seq(Obj), NEW n \in Nat, n < Len(s)
  PROVE  /\ SubSeq(s, n + 1, Len(s)) # <<>>
         /\ Head(SubSeq(s, n + 1, Len(s))) = s[n + 1]
         /\ SubSeq(s, n + 2, Len(s)) = Tail(SubSeq(s, n + 1, Len(s)))
  <1>1. Len(s) \in Nat /\ n + 1 \in 1 .. Len(s) /\ n + 2 = (n + 1) + 1
    OBVIOUS
  <1>2. SubSeq(s, n + 1, Len(s)) # <<>>
    <2> DEFINE b == SubSeq(s, n + 1, Len(s))
    <2>1. b \in Seq(Obj) /\ Len(b) = Len(s) - n
      BY <1>1
    <2> HIDE DEF b
    <2>2. b # <<>>
      BY <1>1, <2>1
    <2> QED
      BY <2>2 DEF b
  <1>3. Len(s) \in n + 1 .. Len(s)
    BY <1>1
  <1> QED
    BY <1>1, <1>2, <1>3, HeadTailOfSubSeq

(* Initially nothing has been sent. *)
LEMMA InitIsChannel == Init => Channel!Init
  BY DEF Init, Channel!Init

(* The move of end sends a message, the count of the receiver's link       *)
(* receives one, and every other step leaves the channel alone.            *)
LEMMA StepIsChannel ==
  ASSUME ShapeInv, RingInv, [Next]_vars
  PROVE  [Channel!Next]_<<Flight, received>>
  <1>0. /\ Types /\ CursorInv /\ ContentInv /\ sent \in Seq(Obj) /\ received \in Seq(Obj)
        /\ Len(sent) \in Nat /\ Len(received) \in Nat /\ Len(received) <= Len(sent)
        /\ Dist(end) \in Nat /\ MESSAGE_BUFFER_SIZE \in Nat
    BY ShapeTypes, RingParts, SlotNumbers DEF Types, CursorInv
  <1>1. CASE UNCHANGED <<sent, received>>
    BY <1>1 DEF Flight
  <1>2. CASE MoveEnd /\ Sending /\ UNCHANGED received
    <2> DEFINE m == op[Sender].refed
    <2>1. m \in Obj /\ sent' = Append(sent, m)
      <3>1. pc[Sender] = "S2" /\ ClientShape(Sender)
        BY <1>2, ShapeTypes, Labels DEF MoveEnd, At
      <3> QED
        BY <1>2, <3>1 DEF MoveEnd, ClientShape
    <2>2. Len(Flight) < MESSAGE_BUFFER_SIZE - 1
      <3>1. Dist(end) <= MESSAGE_BUFFER_SIZE - 2
        BY <1>0, <1>2 DEF CursorInv
      <3>2. Len(sent) - Len(received) <= Dist(end)
        BY <1>0 DEF CursorInv
      <3>3. Len(Flight) = Len(sent) - Len(received)
        BY <1>0, <2>1, FlightSend DEF Flight
      <3> QED
        BY <1>0, <3>1, <3>2, <3>3
    <2>3. Flight' = Append(Flight, m)
      BY <1>0, <1>2, <2>1, FlightSend DEF Flight
    <2>4. Channel!Send(m)
      BY <1>2, <2>2, <2>3 DEF Channel!Send, Flight
    <2> QED
      BY <2>1, <2>4 DEF Channel!Next
  <1>3. CASE /\ pc[Receiver] \in {"log", "count"} /\ op[Receiver].then = "unlink"
             /\ received' = Append(received, op[Receiver].refed) /\ UNCHANGED sent
    <2> DEFINE n == Len(received)
    <2>1. op[Receiver].refed = sent[n + 1]
      BY <1>0, <1>3 DEF ContentInv
    <2>2. n < Len(sent)
      <3>1. Fresh /\ ~Took /\ Fetching
        BY <1>3, Engaged DEF Fetching, Doing, OpLabel
      <3>2. start # end /\ Len(sent) - n = Dist(end)
        BY <1>0, <3>1 DEF CursorInv
      <3>3. Dist(end) # 0
        BY <1>0, <3>2, SlotNumbers, RingNow
      <3> QED
        BY <1>0, <3>2, <3>3
    <2>3. /\ Flight # <<>> /\ Head(Flight) = sent[n + 1]
          /\ SubSeq(sent, n + 2, Len(sent)) = Tail(Flight)
      BY <1>0, <2>2, FlightReceive DEF Flight
    <2>4. sent[n + 1] \in Obj
      BY <1>0, <2>2
    <2>5. Len(received') = n + 1
      BY <1>0, <1>3, <2>1, <2>4
    <2>6. Flight' = Tail(Flight)
      <3>1. Flight' = SubSeq(sent, (n + 1) + 1, Len(sent))
        BY <1>3, <2>5 DEF Flight
      <3>2. (n + 1) + 1 = n + 2
        BY <1>0
      <3> QED
        BY <2>3, <3>1, <3>2
    <2>7. Channel!Receive
      BY <1>3, <2>1, <2>3, <2>6 DEF Channel!Receive, Flight
    <2> QED
      BY <2>7 DEF Channel!Next
  <1>4. CASE Next
    <2>1. PICK p \in Client : Acts(p)
      BY <1>4, NextActs
    <2> QED
      BY <1>1, <1>2, <1>3, <2>1, Histories
  <1> QED
    BY <1>1, <1>4 DEF vars, history

(* Whoever fails and whatever races happen: messages arrive in the order   *)
(* in which they were sent, each at most once, and never more than the     *)
(* ring has slots, less one, are in flight.                                *)
THEOREM RingIsChannel == Spec => ImplementsRefChannel
  <1>1. ShapeInv /\ RingInv /\ [Next]_vars => [Channel!Next]_<<Flight, received>>
    BY StepIsChannel
  <1> QED
    BY <1>1, InitIsChannel, RingInvariant, PTL
       DEF Spec, ImplementsRefChannel, Channel!Spec, Flight

-----------------------------------------------------------------------------
(* The references, as long as none of the known races has happened.  Who   *)
(* works on which place.                                                   *)

OpAt(p, l) == pc[p] \in OpLabel \cup {"release", "link"} /\ op[p].ref = l
WalkAt(p, l) ==
  walk[p].phase \in RingWalk /\ walk[p].i = l /\ (walk[p].phase = "used" => walk[p].i # end)
SenderAt(l) == OpAt(Sender, l) \/ WalkAt(Sender, l) \/ (Sending /\ l = end)
ReceiverAt(l) == OpAt(Receiver, l) \/ WalkAt(Receiver, l) \/ ((Fetching \/ Emptying) /\ l = start)

(* The places of an operation of client p. *)
LEMMA OpAtPlace ==
  ASSUME ShapeInv, NEW p \in Client, NEW l, OpAt(p, l)
  PROVE  \/ l \in Root /\ Owner[l] = p /\ inUse[l]
         \/ /\ pc[p] \in OpLabel /\ l \in Slot
            /\ \/ p = Sender /\ op[p].then = "S2" /\ l = end
               \/ p = Receiver /\ op[p].then = "R3" /\ l = start
               \/ op[p].then = "next" /\ walk[p].phase \in RingWalk /\ l = walk[p].i
  <1>1. ClientShape(p) /\ op[p].ref = l
    BY ShapeTypes DEF OpAt
  <1>2. CASE pc[p] \in {"release", "link"}
    BY <1>1, <1>2 DEF ClientShape, Mine
  <1>3. CASE pc[p] \in OpLabel
    <2>1. OpShape(p)
      BY <1>1, <1>3 DEF ClientShape
    <2>2. /\ l \in Loc /\ op[p].then \in {"S2", "unlink", "R3", "release", "next"}
          /\ l \in Root => Mine(p, l)
          /\ l \in Slot => op[p].then \in {"S2", "R3", "next"}
      BY <1>1, <1>3, OpPlace
    <2> QED
      BY <1>1, <1>3, <2>1, <2>2 DEF OpShape, Mine, Loc
  <1> QED
    BY <1>2, <1>3 DEF OpAt

(* The sender's side works on slots that are not in flight, until it       *)
(* finds that nobody receives; the receiver's side on slots in flight.     *)
LEMMA SenderPlaces ==
  ASSUME ShapeInv, RingInv, WalkInv, NEW l, SenderAt(l)
  PROVE  \/ l \in Root /\ Owner[l] = Sender
         \/ l \in Slot /\ ~Flying(l)
         \/ l \in Slot /\ receiverId = NULL /\ walk[Receiver].phase # "used"
  <1>1. Types /\ ClientShape(Sender) /\ Sender \in Client
    BY ShapeTypes, Labels
  <1>2. end \in Slot /\ ~Flying(end) /\ walk[Sender].i \in Slot
    BY <1>1, SlotNumbers DEF Flying, Types
  <1>3. ASSUME walk[Sender].phase \in RingWalk, l = walk[Sender].i
        PROVE  \/ ~Flying(l)
               \/ receiverId = NULL /\ walk[Receiver].phase # "used"
    <2>1. walk[Sender].phase \in {"free", "all"}
      BY <1>1, <1>3, Labels DEF ClientShape, RingWalk
    <2> QED
      BY <1>3, <2>1 DEF WalkInv
  <1>4. CASE OpAt(Sender, l)
    BY <1>1, <1>2, <1>3, <1>4, OpAtPlace, Labels
  <1> QED
    BY <1>2, <1>3, <1>4 DEF SenderAt, WalkAt

LEMMA ReceiverPlaces ==
  ASSUME ShapeInv, RingInv, NEW l, ReceiverAt(l)
  PROVE  \/ l \in Root /\ Owner[l] = Receiver
         \/ /\ l \in Slot /\ Flying(l)
            /\ receiverId # NULL \/ walk[Receiver].phase = "used"
  <1>1. Types /\ ClientShape(Receiver) /\ Receiver \in Client /\ CursorInv /\ UsedInv /\ Entered
    BY ShapeTypes, RingParts, Labels
  <1>2. start \in Slot /\ walk[Receiver].i \in Slot /\ Receiver # NULL
    BY <1>1, ClientAssumption DEF Types
  <1>3. ASSUME Fetching \/ Emptying
        PROVE  Flying(start) /\ receiverId # NULL
    <2>1. start # end
      BY <1>1, <1>3 DEF CursorInv
    <2>2. Dist(start) = 0 /\ Dist(end) # 0 /\ Dist(end) \in Nat
      BY <1>1, <2>1, SlotNumbers, RingNow
    <2>3. OnRing
      BY <1>3 DEF OnRing, Fetching, Emptying
    <2> QED
      BY <1>1, <1>2, <2>2, <2>3 DEF Flying, Entered
  <1>4. ASSUME walk[Receiver].phase = "used", walk[Receiver].i # end
        PROVE  Flying(walk[Receiver].i)
    <2> DEFINE i == walk[Receiver].i
    <2>1. Dist(i) <= Dist(end) /\ Dist(i) # Dist(end)
      BY <1>1, <1>2, <1>4, SlotNumbers, RingNow DEF UsedInv
    <2>2. Dist(i) \in Nat /\ Dist(end) \in Nat
      BY <1>1, <1>2, SlotNumbers
    <2> QED
      BY <1>2, <2>1, <2>2 DEF Flying
  <1>5. ASSUME walk[Receiver].phase \in RingWalk
        PROVE  walk[Receiver].phase = "used"
    BY <1>1, <1>5, Labels DEF ClientShape, RingWalk
  <1>6. CASE OpAt(Receiver, l)
    <2>1. CASE pc[Receiver] \in OpLabel /\ op[Receiver].then = "R3" /\ l = start
      BY <1>2, <1>3, <2>1 DEF Emptying, Doing
    <2>2. CASE /\ pc[Receiver] \in OpLabel /\ op[Receiver].then = "next"
               /\ walk[Receiver].phase \in RingWalk /\ l = walk[Receiver].i
      <3>1. Dist(l) < Dist(end)
        BY <1>1, <1>5, <2>2 DEF UsedInv, Visiting, Doing
      <3> QED
        BY <1>2, <1>5, <2>2, <3>1 DEF Flying
    <2> QED
      BY <1>1, <1>6, <2>1, <2>2, OpAtPlace, Labels
  <1> QED
    BY <1>2, <1>3, <1>4, <1>5, <1>6 DEF ReceiverAt, WalkAt

(* No place is worked on from both sides. *)
LEMMA PlacesApart ==
  ShapeInv /\ RingInv /\ WalkInv => \A l : ~(SenderAt(l) /\ ReceiverAt(l))
  <1> SUFFICES ASSUME ShapeInv, RingInv, WalkInv, NEW l, SenderAt(l), ReceiverAt(l)
               PROVE  FALSE
    OBVIOUS
  <1> QED
    BY SenderPlaces, ReceiverPlaces, RootAssumption, Labels

LEMMA QuietParts ==
  ASSUME Quiet
  PROVE  CountExact /\ MessageStays /\ WalkInv /\ PlacesInv /\ RootsInv /\ OutsideInv /\ FoundInv
  BY DEF Quiet

LEMMA RingPartIs ==
  /\ RingPart(Sender) = [phase |-> "free", i |-> end]
  /\ RingPart(Receiver) = IF listed THEN [phase |-> "used", i |-> start]
                          ELSE [phase |-> "leave", i |-> 0]
  BY Labels DEF RingPart

(* The walks of both sides stay apart. *)
LEMMA WalkStep ==
  ASSUME ShapeInv, RingInv, WalkInv, NEW p \in Client, Acts(p), races' = {}
  PROVE  WalkInv'
  <1> USE DEF Goto, At, ring, history
  <1>1. Types /\ Mute(p) /\ start \in Slot /\ end \in Slot
    BY ShapeTypes, Frame, SlotNumbers
  <1>2. CASE p = Sender
    <2>1. UNCHANGED <<start, receiverId>> /\ walk'[Receiver] = walk[Receiver]
      BY <1>1, <1>2, Labels DEF Mute
    <2>2. CASE WalkRoots(Sender)
      <3>1. walk'[Sender] = walk[Sender] \/ walk'[Sender] = [phase |-> "free", i |-> end]
        BY <1>1, <2>2, RingPartIs, Labels DEF WalkRoots, Types
      <3>2. ~Flying(end)
        BY SlotNumbers, <1>1 DEF Flying
      <3>3. walk[Sender].phase = "roots" /\ end' = end
        BY <2>2 DEF WalkRoots, Walking
      <3>4. \A i : Flying(i)' <=> Flying(i)
        BY <2>1, <3>3, RingStays
      <3> QED
        BY <3>1, <3>2, <3>3, <3>4 DEF WalkInv
    <2>3. CASE NextSlot(Sender)
      <3> DEFINE i == walk[Sender].i
      <3>1. i \in Slot /\ end' = end
        BY <1>1, <2>3, Labels DEF NextSlot, Types
      <3>2. /\ walk'[Sender].i = Succ(i)
            /\ walk'[Sender].phase = IF walk[Sender].phase = "free" /\ Succ(i) = start
                                     THEN "ask" ELSE walk[Sender].phase
        BY <1>1, <2>3, Labels DEF NextSlot, Types
      <3>3. CASE walk[Sender].phase = "free" /\ Succ(i) # start
        <4>1. ~(Dist(i) < Dist(end))
          BY <3>1, <3>3 DEF WalkInv, Flying
        <4>2. /\ Dist(Succ(i)) = IF Dist(i) = MESSAGE_BUFFER_SIZE - 1 THEN 0 ELSE Dist(i) + 1
              /\ Succ(i) \in Slot
          BY <1>1, <3>1, BetweenSucc DEF Dist
        <4>3. Dist(Succ(i)) # 0
          BY <1>1, <3>3, <4>2, RingNow
        <4>4. Dist(i) \in Nat /\ Dist(end) \in Nat
          BY <1>1, <3>1, SlotNumbers
        <4>5. ~Flying(Succ(i))
          BY <4>1, <4>2, <4>3, <4>4 DEF Flying
        <4>6. ~(Flying(walk[Sender].i)')
          BY <2>1, <3>1, <3>2, <4>5 DEF Flying, Dist, Between
        <4> QED
          BY <3>2, <3>3, <4>6 DEF WalkInv
      <3>4. CASE ~(walk[Sender].phase = "free" /\ Succ(i) # start)
        BY <2>1, <3>2, <3>4 DEF WalkInv
      <3> QED
        BY <3>3, <3>4
    <2>4. CASE AskReceiver(Sender)
      <3>1. walk'[Sender].phase = IF receiverId # NULL THEN "leave" ELSE "all"
        BY <1>1, <2>4, Labels DEF AskReceiver, Attended, Types
      <3>2. ~(receiverId = NULL /\ walk[Receiver].phase = "used")
        BY <2>4 DEF AskReceiver
      <3> QED
        BY <2>1, <3>1, <3>2 DEF WalkInv
    <2>5. CASE MoveEnd
      <3>1. walk'[Sender].phase = "none"
        BY <2>5, ShapeTypes, Labels DEF MoveEnd, ClientShape, OpLabel
      <3> QED
        BY <3>1 DEF WalkInv
    <2>6. CASE EndRing(Sender) \/ Gone(Sender) \/ Leave(Sender) \/ Redo(Sender)
      <3>1. walk'[Sender].phase \in {"none", "roots", "leave"}
        BY <1>1, <2>6, Labels DEF EndRing, Gone, Leave, Redo, NoWalk, Types
      <3> QED
        BY <3>1 DEF WalkInv
    <2>7. CASE ~(\/ WalkRoots(Sender) \/ NextSlot(Sender) \/ AskReceiver(Sender) \/ MoveEnd
                 \/ EndRing(Sender) \/ Gone(Sender) \/ Leave(Sender) \/ Redo(Sender))
      <3>1. UNCHANGED <<walk, end>>
        BY <1>2, <2>7, Labels
        DEF Acts, Step, SentTo, Drop, Crash, WriteLog, Count, Store, Release, VisitSlot
      <3>2. \A i : Flying(i)' <=> Flying(i)
        BY <2>1, <3>1, RingStays
      <3> QED
        BY <2>1, <3>1, <3>2 DEF WalkInv
    <2> QED
      BY <2>2, <2>3, <2>4, <2>5, <2>6, <2>7
  <1>3. CASE p = Receiver
    <2>1. end' = end /\ walk'[Sender] = walk[Sender]
      BY <1>1, <1>3, Labels DEF Mute
    <2>2. PICK i \in Slot : i = walk[Sender].i
      BY <1>1, Labels DEF Types
    <2>3. walk[Sender].phase = "free" => ~Flying(walk[Sender].i)'
      <3>1. Flying(i)' => Flying(i)
        BY <1>3, FlightReceiver
      <3>2. Flying(walk[Sender].i)' => Flying(i)'
        BY <2>1, <2>2 DEF Flying, Dist, Between
      <3> QED
        BY <2>2, <3>1, <3>2 DEF WalkInv
    <2>4. walk[Sender].phase = "all" => receiverId' = NULL /\ walk'[Receiver].phase # "used"
      <3>1. CASE Register
        <4>1. walk[Sender].phase # "all"
          BY <3>1 DEF Register
        <4> QED
          BY <4>1
      <3>2. CASE WalkRoots(Receiver)
        <4>1. walk[Sender].phase = "all" => walk'[Receiver] = walk[Receiver] \/ ~listed
          BY <3>2 DEF WalkRoots
        <4>2. ~listed => walk'[Receiver].phase \in {walk[Receiver].phase, "leave"}
          BY <1>1, <3>2, RingPartIs, Labels DEF WalkRoots, Types
        <4>3. receiverId' = receiverId
          BY <3>2 DEF WalkRoots
        <4> QED
          BY <4>1, <4>2, <4>3 DEF WalkInv
      <3>3. CASE ~(Register \/ WalkRoots(Receiver))
        <4>1. receiverId' \in {receiverId, NULL}
          BY <1>3, <3>3, Labels
          DEF Acts, Step, CxlUnwrap, Drop, Crash, WriteLog, Count, Store, Release, VisitSlot, Leave,
              Redo, NextSlot, AskReceiver, EndRing, Gone, TestMessage, AllocRootRef, LinkMessage,
              UnlinkMessage, MoveStart
        <4>2. walk'[Receiver].phase = "used" => walk[Receiver].phase = "used"
          <5>1. CASE Leave(Receiver) \/ Redo(Receiver) \/ Gone(Receiver)
            BY <1>1, <5>1, Labels DEF Leave, Redo, Gone, NoWalk, Types
          <5>2. CASE NextSlot(Receiver) \/ AskReceiver(Receiver) \/ EndRing(Receiver)
            BY <1>1, <5>2, Labels DEF NextSlot, AskReceiver, EndRing, Types
          <5>3. CASE ~(\/ Leave(Receiver) \/ Redo(Receiver) \/ Gone(Receiver)
                       \/ NextSlot(Receiver) \/ AskReceiver(Receiver) \/ EndRing(Receiver))
            BY <1>3, <3>3, <5>3, Labels
            DEF Acts, Step, CxlUnwrap, Drop, Crash, WriteLog, Count, Store, Release, VisitSlot,
                TestMessage, AllocRootRef, LinkMessage, UnlinkMessage, MoveStart
          <5> QED
            BY <5>1, <5>2, <5>3
        <4> QED
          BY <4>1, <4>2 DEF WalkInv
      <3> QED
        BY <3>1, <3>2, <3>3
    <2> QED
      BY <2>1, <2>3, <2>4 DEF WalkInv
  <1> QED
    BY <1>2, <1>3 DEF Client

(* What a store writes. *)
Result(p) == IF op[p].func = "LINK" THEN op[p].refed ELSE NULL

LEMMA WriteBack ==
  ASSUME Types, NEW l \in Loc, NEW x, val[l] = x
  PROVE  [val EXCEPT ![l] = x] = val
  BY DEF Types

(* The monitor's redo of a record either ends the operation in progress,   *)
(* or writes what is already there.                                        *)
LEMMA RedoVal ==
  ASSUME ShapeInv, RingInv, PlacesInv, races = {}, NEW p \in Client, Redo(p), races' = {}
  PROVE  IF pc[p] = "store" THEN val' = [val EXCEPT ![op[p].ref] = Result(p)] ELSE val' = val
  <1>1. /\ Types /\ LogInv(p) /\ OldUnlinkHarmless /\ status[p] = "dead" /\ ~Stale(p)
        /\ val' = IF log[p].done
                  THEN [val EXCEPT ![log[p].ref] =
                         IF log[p].func = "LINK" THEN log[p].refed ELSE NULL]
                  ELSE val
    BY ShapeTypes, RingParts DEF Redo, Redone
  <1>2. CASE pc[p] = "store"
    BY <1>1, <1>2 DEF LogInv, Entry, Result
  <1>3. CASE pc[p] # "store" /\ log[p].done
    <2>1. log[p].func \in {"LINK", "UNLINK"} /\ log[p].ref \in Loc
      BY <1>1, <1>3 DEF LogInv, Types, LogType
    <2>2. CASE log[p].func = "LINK"
      <3>1. val[log[p].ref] = log[p].refed
        <4>1. CASE log[p].ref \in Slot
          BY <1>1, <1>3, <2>2, <4>1 DEF Stale
        <4>2. CASE p = Receiver /\ log[p].ref \notin Slot
          <5>1. OldLink(p)
            BY <1>1 DEF LogInv
          <5> QED
            BY <1>3, <2>2, <4>2, <5>1, Labels DEF OldLink
        <4>3. CASE p = Sender /\ log[p].ref \notin Slot
          <5>1. OldLink(p)
            BY <1>1 DEF LogInv
          <5> QED
            BY <1>3, <2>2, <4>3, <5>1, Labels DEF OldLink
        <4> QED
          BY <4>1, <4>2, <4>3 DEF Client
      <3> QED
        BY <1>1, <1>3, <2>1, <2>2, <3>1, WriteBack
    <2>3. CASE log[p].func = "UNLINK"
      <3>1. val[log[p].ref] = NULL
        BY <1>1, <1>3, <2>3 DEF OldUnlinkHarmless
      <3> QED
        BY <1>1, <1>3, <2>1, <2>3, <3>1, WriteBack
    <2> QED
      BY <2>1, <2>2, <2>3
  <1>4. CASE pc[p] # "store" /\ ~log[p].done
    BY <1>1, <1>4
  <1> QED
    BY <1>2, <1>3, <1>4

(* Only counting changes a count, and only the end of an operation changes *)
(* a place: whatever else writes a place writes what is already there.     *)
Ends(p) ==
  /\ pc[p] = "store" /\ (Store(p) \/ Redo(p)) /\ pc'[p] # "store"
  /\ val' = [val EXCEPT ![op[p].ref] = Result(p)] /\ UNCHANGED <<count, inUse>>
Passes(p) ==
  /\ UNCHANGED <<val, count>> /\ (pc'[p] = "store" <=> pc[p] = "store")
  /\ pc[p] = "store" => op'[p] = op[p]

LEMMA ValStep ==
  ASSUME ShapeInv, RingInv, PlacesInv, races = {}, NEW p \in Client, Acts(p), races' = {}
  PROVE  Count(p) \/ Ends(p) \/ Passes(p)
  <1> USE DEF Goto, At, ring, history
  <1>1. Types /\ ClientShape(p) /\ PlaceInv(p)
    BY ShapeTypes DEF PlacesInv
  <1>2. CASE Store(p)
    <2>1. pc[p] \in OpLabel /\ pc[p] = "store" /\ pc'[p] = op[p].then
      BY <1>1, <1>2 DEF Store, OpLabel, Types
    <2>2. pc'[p] # "store"
      BY <2>1, OpPlace
    <2> QED
      BY <1>2, <2>1, <2>2 DEF Store, Ends, Result
  <1>3. CASE Redo(p)
    <2>1. pc'[p] # "store" /\ UNCHANGED <<count, inUse>>
      BY <1>1, <1>3 DEF Redo, Types
    <2> QED
      BY <1>3, <2>1, RedoVal DEF Ends, Passes
  <1>4. CASE Release(p)
    <2>1. op[p].ref \in Loc /\ val[op[p].ref] = NULL
      BY <1>1, <1>4 DEF Release, ClientShape, Mine, Loc, PlaceInv
    <2>2. val' = val
      BY <1>1, <1>4, <2>1, WriteBack DEF Release
    <2> QED
      BY <1>1, <1>4, <2>2 DEF Release, Passes, Types
  <1>5. CASE p = Receiver /\ AllocRootRef
    <2>1. PICK r \in Root : ~inUse[r] /\ val' = [val EXCEPT ![r] = NULL]
      BY <1>5 DEF AllocRootRef
    <2>2. r \in Loc /\ val[r] = NULL
      BY <2>1 DEF PlacesInv, Loc
    <2>3. val' = val
      BY <1>1, <2>1, <2>2, WriteBack
    <2> QED
      BY <1>1, <1>5, <2>3, Labels DEF AllocRootRef, Passes, Types
  <1>6. CASE \/ \E r \in Root : Drop(p, r)
             \/ p = Sender /\ \E r \in Root : SentTo(r)
             \/ VisitSlot(p) \/ WalkRoots(p)
             \/ p = Receiver /\ (LinkMessage \/ UnlinkMessage)
    BY <1>1, <1>6, Labels DEF Drop, SentTo, VisitSlot, WalkRoots, LinkMessage, UnlinkMessage,
                              Begin, Walking, Passes, Types
  <1>7. CASE \/ WriteLog(p) \/ NextSlot(p) \/ Gone(p) \/ Leave(p) \/ Crash(p)
             \/ p = Sender /\ MoveEnd
             \/ p = Receiver /\ (CxlUnwrap \/ Register \/ TestMessage \/ MoveStart)
    BY <1>1, <1>7, Labels DEF WriteLog, NextSlot, Gone, Leave, Crash, MoveEnd, CxlUnwrap, Register,
                              TestMessage, MoveStart, Walking, Passes, Types
  <1>8. CASE AskReceiver(p) \/ EndRing(p)
    BY <1>8 DEF AskReceiver, EndRing, Passes
  <1> QED
    BY <1>2, <1>3, <1>4, <1>5, <1>6, <1>7, <1>8 DEF Acts, Step

(* What a place counts for. *)
AtStore(p, l) == pc[p] = "store" /\ op[p].ref = l

LEMMA ViewIs ==
  ASSUME ShapeInv, \A l : ~(SenderAt(l) /\ ReceiverAt(l))
  PROVE  \A l : View(l) = IF AtStore(Sender, l) THEN Result(Sender)
                          ELSE IF AtStore(Receiver, l) THEN Result(Receiver) ELSE val[l]
  <1> TAKE l
  <1>1. \A p \in Client : pc[p] = "store" => status[p] # "gone"
    BY ShapeTypes DEF ClientShape
  <1>2. ~(AtStore(Sender, l) /\ AtStore(Receiver, l))
    BY DEF AtStore, SenderAt, ReceiverAt, OpAt, OpLabel
  <1>3. CASE AtStore(Sender, l)
    <2>1. (CHOOSE p \in Client : pc[p] = "store" /\ op[p].ref = l) = Sender
      BY <1>2, <1>3 DEF Client, AtStore
    <2> QED
      BY <1>1, <1>3, <2>1, Labels DEF View, AtStore, Result
  <1>4. CASE AtStore(Receiver, l)
    <2>1. (CHOOSE p \in Client : pc[p] = "store" /\ op[p].ref = l) = Receiver
      BY <1>2, <1>4 DEF Client, AtStore
    <2> QED
      BY <1>1, <1>2, <1>4, <2>1, Labels DEF View, AtStore, Result
  <1>5. CASE ~AtStore(Sender, l) /\ ~AtStore(Receiver, l)
    BY <1>5 DEF View, AtStore, Client
  <1> QED
    BY <1>3, <1>4, <1>5

(* A place that the other client works on is left alone. *)
LEMMA PlaceKept ==
  ASSUME ShapeInv, RingInv, WalkInv, PlacesInv, races = {}, NEW p \in Client, Acts(p), races' = {},
         NEW l \in Loc, (p = Sender /\ ReceiverAt(l)) \/ (p = Receiver /\ SenderAt(l))
  PROVE  val'[l] = val[l]
  <1>1. CASE Count(p) \/ Passes(p)
    BY <1>1 DEF Count, Passes
  <1>2. CASE Ends(p)
    <2>1. op[p].ref # l
      <3>1. SUFFICES ASSUME op[p].ref = l PROVE FALSE
        OBVIOUS
      <3>2. OpAt(p, l)
        BY <1>2, <3>1 DEF Ends, OpAt, OpLabel
      <3>3. SenderAt(l) /\ ReceiverAt(l)
        BY <3>2 DEF SenderAt, ReceiverAt
      <3> QED
        BY <3>3, PlacesApart
    <2> QED
      BY <1>2, <2>1, ShapeTypes DEF Ends, Types
  <1> QED
    BY <1>1, <1>2, ValStep

LEMMA LocFinite == IsFiniteSet(Loc) /\ \A P : IsFiniteSet({l \in Loc : l \in P})
  <1>1. IsFiniteSet(Slot)
    BY RingAssumption, FS_Interval DEF Slot
  <1>2. IsFiniteSet(Loc)
    BY <1>1, RootAssumption, FS_Union DEF Loc
  <1> QED
    BY <1>2, FS_Subset

(* The walk passes over nothing that is held: the count of an object that  *)
(* a place holds is not zero.                                              *)
LEMMA NothingThere ==
  ASSUME ShapeInv, RingInv, Quiet, races = {}, NEW p \in Client, NEW l \in Loc, pc[p] = "walk",
         (l \in Root /\ Owner[l] = p) \/ WalkAt(p, l), Nothing(p, l)
  PROVE  val[l] = NULL
  <1>1. SUFFICES ASSUME val[l] # NULL PROVE FALSE
    OBVIOUS
  <1>2. val[l] \in Obj /\ count[val[l]] = 0
    BY <1>1, ShapeTypes DEF Types, Nothing
  <1>3. \A k : ~(SenderAt(k) /\ ReceiverAt(k))
    BY PlacesApart, QuietParts
  <1>4. ~AtStore(Sender, l) /\ ~AtStore(Receiver, l)
    <2>1. ASSUME NEW q \in Client, AtStore(q, l)
          PROVE  FALSE
      <3>1. q # p /\ OpAt(q, l)
        BY <2>1 DEF AtStore, OpAt, OpLabel
      <3>2. CASE l \in Root /\ Owner[l] = p
        BY <3>1, <3>2, OpAtPlace, RootAssumption
      <3>3. CASE WalkAt(p, l)
        BY <1>3, <3>1, <3>3 DEF SenderAt, ReceiverAt, Client
      <3> QED
        BY <3>2, <3>3
    <2> QED
      BY <2>1, Labels
  <1>5. View(l) = val[l]
    BY <1>3, <1>4, ViewIs
  <1>6. PICK o \in Obj : o = val[l]
    BY <1>2
  <1> DEFINE S == {k \in Loc : View(k) = o}
  <1>7. count[o] = Cardinality(S)
    BY QuietParts DEF CountExact
  <1>8. l \in S
    BY <1>5, <1>6
  <1>9. IsFiniteSet(S)
    BY LocFinite, FS_Subset
  <1>10. S = {}
    BY <1>2, <1>6, <1>7, <1>9, FS_EmptySet
  <1> QED
    BY <1>8, <1>10

-----------------------------------------------------------------------------
(* What is at the places that are worked on. *)

LEMMA PlaceOther ==
  ASSUME ShapeInv, RingInv, WalkInv, PlacesInv, races = {}, NEW p \in Client, Acts(p), races' = {},
         NEW q \in Client \ {p}
  PROVE  PlaceInv(q)'
  <1>1. Types /\ Mute(p) /\ PlaceInv(q) /\ ClientShape(q) /\ UsedInv
    BY ShapeTypes, Frame, RingParts DEF PlacesInv
  <1>2. pc'[q] = pc[q] /\ op'[q] = op[q] /\ walk'[q] = walk[q]
    BY <1>1 DEF Mute
  <1>3. ASSUME NEW l \in Loc, OpAt(q, l) \/ WalkAt(q, l)
        PROVE  val'[l] = val[l]
    <2>1. (p = Sender /\ ReceiverAt(l)) \/ (p = Receiver /\ SenderAt(l))
      BY <1>3 DEF Client, SenderAt, ReceiverAt
    <2> QED
      BY <2>1, PlaceKept
  <1>4. pc[q] \in OpLabel \cup {"release", "link"} =>
          op[q].ref \in Loc /\ val'[op[q].ref] = val[op[q].ref]
    <2>1. SUFFICES ASSUME pc[q] \in OpLabel \cup {"release", "link"}
                   PROVE  op[q].ref \in Loc /\ val'[op[q].ref] = val[op[q].ref]
      OBVIOUS
    <2>2. OpAt(q, op[q].ref)
      BY <2>1 DEF OpAt
    <2>3. op[q].ref \in Loc
      BY <2>2, OpAtPlace DEF Loc
    <2> QED
      BY <1>3, <2>2, <2>3
  <1>5. pc[q] = "next" => val'[walk[q].i] = val[walk[q].i]
    <2>1. SUFFICES ASSUME pc[q] = "next" PROVE val'[walk[q].i] = val[walk[q].i]
      OBVIOUS
    <2>2. walk[q].i \in Slot /\ walk[q].i \in Loc /\ walk[q].phase \in RingWalk
      BY <1>1, <2>1 DEF Types, ClientShape, Loc
    <2>3. walk[q].phase = "used" => walk[q].i # end
      <3>1. SUFFICES ASSUME walk[q].phase = "used" PROVE walk[q].i # end
        OBVIOUS
      <3>2. q = Receiver
        BY <1>1, <3>1, Labels DEF ClientShape, Client
      <3>3. Dist(walk[q].i) < Dist(end)
        BY <1>1, <2>1, <3>1, <3>2 DEF UsedInv, Visiting
      <3>4. Dist(end) \in Nat
        BY <1>1, SlotNumbers
      <3> QED
        BY <3>3, <3>4
    <2>4. WalkAt(q, walk[q].i)
      BY <2>2, <2>3 DEF WalkAt
    <2> QED
      BY <1>3, <2>2, <2>4
  <1> QED
    BY <1>1, <1>2, <1>4, <1>5 DEF PlaceInv

LEMMA BeginPlace ==
  ASSUME Types, NEW p \in Client, NEW func \in {"LINK", "UNLINK"}, NEW ref \in Loc,
         NEW refed \in Obj, NEW then \in {"S2", "unlink", "R3", "release", "next"},
         Begin(p, func, ref, refed, then), val' = val,
         val[ref] = IF func = "LINK" THEN NULL ELSE refed
  PROVE  PlaceInv(p)'
  <1>1. /\ op'[p] = [func |-> func, ref |-> ref, refed |-> refed, then |-> then]
        /\ pc'[p] = IF status[p] = "run" THEN "log" ELSE "count"
    BY DEF Begin, Goto, Types
  <1>2. /\ op'[p].func = func /\ op'[p].ref = ref /\ op'[p].refed = refed
        /\ pc'[p] \in {"log", "count"}
    BY <1>1
  <1> QED
    BY <1>2 DEF PlaceInv

LEMMA PlaceActor ==
  ASSUME ShapeInv, RingInv, Quiet, races = {}, NEW p \in Client, Acts(p), races' = {}
  PROVE  PlaceInv(p)'
  <1> USE DEF Goto, At, Walking, ring, history
  <1>1. Types /\ ClientShape(p) /\ PlaceInv(p) /\ PlacesInv /\ UsedInv
    BY ShapeTypes, RingParts, QuietParts DEF PlacesInv
  <1>2. CASE p = Sender /\ \E r \in Root : SentTo(r)
    <2>1. PICK r \in Root : SentTo(r)
      BY <1>2
    <2>2. walk[Sender].phase = "none" /\ pc[Sender] = "idle" /\ end \in Loc /\ end \in Slot
      BY <1>1, <1>2, <2>1 DEF SentTo, ClientShape, Loc, OpLabel, Types
    <2>3. val[r] \in Obj
      BY <1>1, <2>1, <2>2, ShapeTypes DEF SentTo, HolderInv, Mine, Loc, Types
    <2>4. val[end] = NULL
      <3>1. ~Sending
        BY <2>2 DEF Sending, Doing, OpLabel
      <3>2. ~Flying(end)
        BY <1>1, SlotNumbers DEF Flying
      <3> QED
        BY <2>2, <3>1, <3>2, QuietParts DEF OutsideInv
    <2>5. Begin(p, "LINK", end, val[r], "S2") /\ val' = val
      BY <1>2, <2>1 DEF SentTo
    <2> QED
      BY <1>1, <2>2, <2>3, <2>4, <2>5, BeginPlace
  <1>3. CASE \E r \in Root : Drop(p, r)
    <2>1. PICK r \in Root : Drop(p, r)
      BY <1>3
    <2>2. val[r] \in Obj /\ r \in Loc
      BY <1>1, <2>1 DEF Drop, Loc, Types
    <2>3. Begin(p, "UNLINK", r, val[r], "release") /\ val' = val
      BY <2>1 DEF Drop
    <2> QED
      BY <1>1, <2>2, <2>3, BeginPlace
  <1>4. CASE p = Receiver /\ LinkMessage
    <2>1. val[start] # NULL
      BY <1>1, <1>4 DEF LinkMessage, PlacesInv, Fetching
    <2>2. val[start] \in Obj /\ op[Receiver].ref \in Loc
      BY <1>1, <1>4, <2>1 DEF LinkMessage, ClientShape, Mine, Loc, Types
    <2>3. val[op[Receiver].ref] = NULL
      BY <1>1, <1>4 DEF LinkMessage, PlaceInv
    <2>4. Begin(p, "LINK", op[Receiver].ref, val[start], "unlink") /\ val' = val
      BY <1>4, <2>1 DEF LinkMessage
    <2> QED
      BY <1>1, <2>2, <2>3, <2>4, BeginPlace
  <1>5. CASE p = Receiver /\ UnlinkMessage
    <2>1. val[start] # NULL
      BY <1>1, <1>5 DEF UnlinkMessage, PlacesInv
    <2>2. val[start] \in Obj /\ start \in Loc
      BY <1>1, <2>1 DEF Loc, Types
    <2>3. Begin(p, "UNLINK", start, val[start], "R3") /\ val' = val
      BY <1>5, <2>1 DEF UnlinkMessage
    <2> QED
      BY <1>1, <2>2, <2>3, BeginPlace
  <1>6. CASE WalkRoots(p)
    <2>1. ASSUME NEW r \in Root, Owner[r] = p,
                 IF Nothing(p, r)
                 THEN op' = [op EXCEPT ![p] = [NoOp EXCEPT !.ref = r]] /\ Goto(p, "release")
                 ELSE Begin(p, "UNLINK", r, val[r], "release")
          PROVE  PlaceInv(p)'
      <3>1. r \in Loc /\ val' = val /\ pc[p] = "walk"
        BY <1>6 DEF Loc, WalkRoots
      <3>2. CASE Nothing(p, r)
        <4>1. val[r] = NULL
          BY <2>1, <3>1, <3>2, NothingThere
        <4>2. op'[p].ref = r /\ pc'[p] = "release"
          BY <1>1, <2>1, <3>2 DEF NoOp, Types
        <4> QED
          BY <3>1, <4>1, <4>2 DEF PlaceInv, OpLabel
      <3>3. CASE ~Nothing(p, r)
        <4>1. val[r] \in Obj
          BY <1>1, <3>1, <3>3 DEF Nothing, Types
        <4> QED
          BY <1>1, <2>1, <3>1, <3>3, <4>1, BeginPlace
      <3> QED
        BY <3>2, <3>3
    <2>2. ASSUME UNCHANGED pc
          PROVE  PlaceInv(p)'
      BY <1>6, <2>2 DEF WalkRoots, PlaceInv, OpLabel
    <2> QED
      BY <1>6, <2>1, <2>2 DEF WalkRoots
  <1>7. CASE VisitSlot(p)
    <2>1. PICK i \in Slot : i = walk[p].i
      BY <1>1 DEF Types
    <2>2. WalkAt(p, i) /\ pc[p] = "walk" /\ i \in Loc /\ val' = val /\ UNCHANGED walk
      BY <1>7, <2>1 DEF VisitSlot, WalkAt, RingWalk, More, Loc
    <2>3. CASE Nothing(p, i)
      <3>1. val[i] = NULL
        BY <2>2, <2>3, NothingThere
      <3>2. pc'[p] = "next"
        BY <1>1, <1>7, <2>1, <2>3 DEF VisitSlot, Types
      <3> QED
        BY <2>1, <2>2, <3>1, <3>2 DEF PlaceInv, OpLabel
    <2>4. CASE ~Nothing(p, i)
      <3>1. val[i] \in Obj
        BY <1>1, <2>2, <2>4 DEF Nothing, Types
      <3> QED
        BY <1>1, <1>7, <2>1, <2>2, <2>4, <3>1, BeginPlace DEF VisitSlot
    <2> QED
      BY <2>3, <2>4
  <1>8. CASE p = Receiver /\ AllocRootRef
    <2>1. PICK r \in Root :
            /\ val' = [val EXCEPT ![r] = NULL]
            /\ op' = [op EXCEPT ![Receiver] = [NoOp EXCEPT !.ref = r]]
      BY <1>8 DEF AllocRootRef
    <2>2. op'[p].ref = r /\ pc'[p] = "link" /\ val'[r] = NULL
      BY <1>1, <1>8, <2>1 DEF AllocRootRef, NoOp, Types, Loc
    <2> QED
      BY <2>2 DEF PlaceInv, OpLabel
  <1>9. CASE WriteLog(p) \/ Count(p)
    <2>1. pc[p] \in OpLabel /\ UNCHANGED <<val, op>> /\ pc'[p] \in OpLabel
      BY <1>1, <1>9 DEF WriteLog, Count, OpLabel, Types
    <2> QED
      BY <1>1, <2>1 DEF PlaceInv, OpLabel
  <1>10. CASE Store(p)
    <2>1. /\ pc[p] \in OpLabel /\ UNCHANGED <<op, walk>> /\ pc'[p] = op[p].then
          /\ val' = [val EXCEPT ![op[p].ref] = IF op[p].func = "LINK" THEN op[p].refed ELSE NULL]
      BY <1>1, <1>10 DEF Store, OpLabel, Types
    <2>2. /\ op[p].ref \in Loc /\ op[p].then \in {"S2", "unlink", "R3", "release", "next"}
          /\ OpShape(p)
      BY <1>1, <2>1, OpPlace DEF ClientShape
    <2>3. op[p].func = "UNLINK" => val'[op[p].ref] = NULL
      BY <1>1, <2>1, <2>2 DEF Types
    <2> QED
      BY <2>1, <2>2, <2>3 DEF PlaceInv, OpShape, OpLabel
  <1>11. CASE Crash(p)
    <2>1. UNCHANGED <<val, op, pc, walk>>
      BY <1>11 DEF Crash
    <2> QED
      BY <1>1, <2>1 DEF PlaceInv
  <1>12. CASE \/ NextSlot(p) \/ Gone(p) \/ Leave(p) \/ Redo(p) \/ Release(p)
              \/ p = Sender /\ MoveEnd
              \/ p = Receiver /\ (CxlUnwrap \/ Register \/ TestMessage \/ MoveStart)
    <2>1. pc'[p] \in {"idle", "walk", "register", "test", "root"}
      BY <1>1, <1>12, Labels
      DEF NextSlot, Gone, Leave, Redo, Release, MoveEnd, CxlUnwrap, Register, TestMessage,
          MoveStart, Types
    <2> QED
      BY <2>1 DEF PlaceInv, OpLabel
  <1>13. CASE AskReceiver(p) \/ EndRing(p)
    <2>1. pc'[p] = "walk"
      BY <1>13 DEF AskReceiver, EndRing
    <2> QED
      BY <2>1 DEF PlaceInv, OpLabel
  <1> QED
    BY <1>2, <1>3, <1>4, <1>5, <1>6, <1>7, <1>8, <1>9, <1>10, <1>11, <1>12, <1>13 DEF Acts, Step

(* How the receiver comes to hold a message at start. *)
LEMMA FetchBack ==
  ASSUME ShapeInv, RingInv, Quiet, races = {}, Acts(Receiver), races' = {},
         Fetching' \/ pc'[Receiver] = "unlink"
  PROVE  /\ start' = start /\ val'[start] = val[start]
         /\ Fetching \/ pc[Receiver] = "unlink" \/ val[start] # NULL
  <1> USE DEF Goto, At, Walking, ring, history
  <1>1. Types /\ ClientShape(Receiver) /\ start \in Slot /\ start \in Loc /\ PlacesInv
    BY ShapeTypes, SlotNumbers, QuietParts, Labels DEF Loc
  <1>2. CASE TestMessage
    <2>1. UNCHANGED <<start, val>> /\ pc'[Receiver] \in {"idle", "root"}
      BY <1>1, <1>2, Labels DEF TestMessage, Types
    <2>2. pc'[Receiver] = "root" => val[start] # NULL
      BY <1>1, <1>2, Labels DEF TestMessage, Types
    <2>3. pc'[Receiver] = "root"
      BY <2>1 DEF Fetching, Doing, OpLabel
    <2> QED
      BY <2>1, <2>2, <2>3
  <1>3. CASE AllocRootRef
    <2>1. start' = start /\ pc[Receiver] = "root"
      BY <1>3 DEF AllocRootRef
    <2>2. val' = val
      <3>1. ~Count(Receiver) /\ ~Ends(Receiver)
        BY <2>1 DEF Count, Ends
      <3> QED
        BY <1>1, <3>1, ValStep, Labels DEF Passes
    <2> QED
      BY <2>1, <2>2 DEF Fetching
  <1>4. CASE LinkMessage
    <2>1. UNCHANGED <<start, val>> /\ pc[Receiver] = "link"
      BY <1>4 DEF LinkMessage
    <2> QED
      BY <2>1 DEF Fetching
  <1>5. CASE WriteLog(Receiver) \/ Count(Receiver) \/ Crash(Receiver)
    <2>1. /\ UNCHANGED <<start, val, op>>
          /\ pc'[Receiver] = pc[Receiver] \/ {pc[Receiver], pc'[Receiver]} \subseteq OpLabel
      BY <1>1, <1>5, Labels DEF WriteLog, Count, Crash, OpLabel, Types
    <2> QED
      BY <2>1 DEF Fetching, Doing, OpLabel
  <1>6. CASE Store(Receiver)
    <2>1. /\ start' = start /\ op' = op /\ pc[Receiver] \in OpLabel /\ pc'[Receiver] = op[Receiver].then
          /\ val' = [val EXCEPT ![op[Receiver].ref] =
                       IF op[Receiver].func = "LINK" THEN op[Receiver].refed ELSE NULL]
      BY <1>1, <1>6, Labels DEF Store, OpLabel, Types
    <2>2. op[Receiver].then \in {"S2", "unlink", "R3", "release", "next"}
      BY <2>1, OpPlace, Labels
    <2>3. op[Receiver].then = "unlink"
      BY <2>1, <2>2 DEF Fetching, Doing, OpLabel
    <2>4. op[Receiver].ref # start
      BY <1>1, <2>1, <2>3, OpPlace, Labels, RootAssumption
    <2> QED
      BY <1>1, <2>1, <2>3, <2>4 DEF Fetching, Doing, Types
  <1>7. CASE \/ VisitSlot(Receiver) \/ WalkRoots(Receiver) \/ UnlinkMessage
             \/ \E r \in Root : Drop(Receiver, r)
    <2>1. ~(Fetching' \/ pc'[Receiver] = "unlink")
      <3>1. CASE VisitSlot(Receiver)
        BY <1>1, <3>1, Labels DEF VisitSlot, Begin, Types, Fetching, Doing, OpLabel
      <3>2. CASE WalkRoots(Receiver)
        BY <1>1, <3>2, Labels DEF WalkRoots, Begin, Types, Fetching, Doing, OpLabel
      <3>3. CASE UnlinkMessage
        BY <1>1, <3>3, Labels DEF UnlinkMessage, Begin, Types, Fetching, Doing, OpLabel
      <3>4. CASE \E r \in Root : Drop(Receiver, r)
        BY <1>1, <3>4, Labels DEF Drop, Begin, Types, Fetching, Doing, OpLabel
      <3> QED
        BY <1>7, <3>1, <3>2, <3>3, <3>4
    <2> QED
      BY <2>1
  <1>8. CASE \/ CxlUnwrap \/ Register \/ MoveStart \/ Leave(Receiver) \/ Redo(Receiver)
             \/ Release(Receiver) \/ NextSlot(Receiver) \/ Gone(Receiver)
    <2>1. pc'[Receiver] \in {"register", "test", "idle", "walk"}
      BY <1>1, <1>8, Labels
      DEF CxlUnwrap, Register, MoveStart, Leave, Redo, Release, NextSlot, Gone, Types
    <2> QED
      BY <2>1 DEF Fetching, Doing, OpLabel
  <1>9. CASE AskReceiver(Receiver) \/ EndRing(Receiver)
    <2>1. pc'[Receiver] = "walk"
      BY <1>9 DEF AskReceiver, EndRing
    <2> QED
      BY <2>1 DEF Fetching, Doing, OpLabel
  <1> QED
    BY <1>2, <1>3, <1>4, <1>5, <1>6, <1>7, <1>8, <1>9, Labels DEF Acts, Step

(* The receiver is about to move start only over a slot it has emptied. *)
LEMMA EmptyBack ==
  ASSUME ShapeInv, RingInv, Quiet, races = {}, Acts(Receiver), pc'[Receiver] = "R3"
  PROVE  start' = start /\ val'[start] = NULL
  <1> USE DEF Goto, At, Walking, ring, history
  <1>1. Types /\ ClientShape(Receiver) /\ start \in Slot /\ start \in Loc /\ PlacesInv
    BY ShapeTypes, SlotNumbers, QuietParts, Labels DEF Loc
  <1>2. CASE Store(Receiver)
    <2>1. /\ start' = start /\ pc[Receiver] \in OpLabel /\ op[Receiver].then = "R3"
          /\ val' = [val EXCEPT ![op[Receiver].ref] =
                       IF op[Receiver].func = "LINK" THEN op[Receiver].refed ELSE NULL]
      BY <1>1, <1>2, Labels DEF Store, OpLabel, Types
    <2> QED
      BY <1>1, <2>1 DEF ClientShape, OpShape, Types
  <1>3. CASE Crash(Receiver)
    BY <1>1, <1>3 DEF Crash, PlacesInv
  <1>4. CASE ~(Store(Receiver) \/ Crash(Receiver))
    <2>1. pc'[Receiver] # "R3"
      <3>1. CASE AskReceiver(Receiver) \/ EndRing(Receiver)
        BY <3>1 DEF AskReceiver, EndRing
      <3>2. CASE \/ VisitSlot(Receiver) \/ WalkRoots(Receiver) \/ UnlinkMessage \/ LinkMessage
                 \/ \E r \in Root : Drop(Receiver, r)
        BY <1>1, <3>2, Labels
        DEF VisitSlot, WalkRoots, UnlinkMessage, LinkMessage, Drop, Begin, Types
      <3>3. CASE \/ CxlUnwrap \/ Register \/ MoveStart \/ Leave(Receiver) \/ Redo(Receiver)
                 \/ Release(Receiver) \/ NextSlot(Receiver) \/ Gone(Receiver) \/ TestMessage
                 \/ AllocRootRef \/ WriteLog(Receiver) \/ Count(Receiver)
        BY <1>1, <3>3, Labels
        DEF CxlUnwrap, Register, MoveStart, Leave, Redo, Release, NextSlot, Gone, TestMessage,
            AllocRootRef, WriteLog, Count, Types
      <3> QED
        BY <1>4, <3>1, <3>2, <3>3, Labels DEF Acts, Step
    <2> QED
      BY <2>1
  <1> QED
    BY <1>2, <1>3, <1>4

(* A RootRef that is not in use stays so but for its allocation. *)
LEMMA InUseStep ==
  ASSUME ShapeInv, NEW p \in Client, Acts(p), NEW r \in Root
  PROVE  \/ inUse'[r] = inUse[r]
         \/ Release(p) /\ r = op[p].ref /\ ~inUse'[r]
         \/ p = Receiver /\ AllocRootRef /\ Owner[r] = Receiver /\ inUse'[r]
  <1>1. Types
    BY ShapeTypes
  <1>2. CASE Release(p)
    BY <1>1, <1>2 DEF Release, Types
  <1>3. CASE p = Receiver /\ AllocRootRef
    <2>1. PICK s \in Root : Owner[s] = Receiver /\ inUse' = [inUse EXCEPT ![s] = TRUE]
      BY <1>3 DEF AllocRootRef
    <2> QED
      BY <1>1, <1>3, <2>1 DEF Types
  <1>4. CASE ~(Release(p) \/ (p = Receiver /\ AllocRootRef))
    <2>1. inUse' = inUse
      BY <1>4 DEF Acts, Step, SentTo, CxlUnwrap, Drop, Leave, Crash, Redo, WriteLog, Count, Store,
                  WalkRoots, VisitSlot, NextSlot, AskReceiver, EndRing, Gone, MoveEnd, Register,
                  TestMessage, LinkMessage, UnlinkMessage, MoveStart
    <2> QED
      BY <2>1
  <1> QED
    BY <1>2, <1>3, <1>4

LEMMA PlacesStep ==
  ASSUME ShapeInv, RingInv, Quiet, races = {}, NEW p \in Client, Acts(p), races' = {}
  PROVE  PlacesInv'
  <1>1. Types /\ Mute(p) /\ PlacesInv /\ WalkInv /\ start \in Loc
    BY ShapeTypes, Frame, QuietParts, SlotNumbers DEF Loc
  <1>2. ASSUME NEW q \in Client
        PROVE  PlaceInv(q)'
    <2>1. CASE q = p
      BY <2>1, PlaceActor
    <2>2. CASE q # p
      BY <1>1, <2>2, PlaceOther
    <2> QED
      BY <2>1, <2>2
  <1>3. /\ Fetching' \/ pc'[Receiver] = "unlink" => val'[start'] # NULL
        /\ pc'[Receiver] = "R3" => val'[start'] = NULL
    <2>1. CASE p = Receiver
      BY <1>1, <2>1, FetchBack, EmptyBack DEF PlacesInv
    <2>2. CASE p = Sender
      <3>1. pc'[Receiver] = pc[Receiver] /\ op'[Receiver] = op[Receiver] /\ start' = start
        BY <1>1, <2>2, Labels DEF Mute
      <3>2. Fetching' <=> Fetching
        BY <3>1 DEF Fetching, Doing
      <3>3. Fetching \/ Emptying => val'[start] = val[start]
        BY <1>1, <2>2, PlaceKept DEF ReceiverAt
      <3> QED
        BY <1>1, <3>1, <3>2, <3>3 DEF PlacesInv, Emptying
    <2> QED
      BY <2>1, <2>2 DEF Client
  <1>4. ASSUME NEW r \in Root, ~inUse'[r]
        PROVE  val'[r] = NULL
    <2>1. r \in Loc
      BY DEF Loc
    <2>2. CASE Owner[r] # p
      BY <1>1, <1>4, <2>2, RootsKeep DEF Mute, PlacesInv
    <2>3. CASE Release(p) /\ r = op[p].ref
      BY <1>1, <2>1, <2>3 DEF Release, Types
    <2>4. CASE Owner[r] = p /\ inUse'[r] = inUse[r]
      <3>1. val[r] = NULL
        BY <1>1, <1>4, <2>4 DEF PlacesInv
      <3>2. CASE Count(p) \/ Passes(p)
        BY <3>1, <3>2 DEF Count, Passes
      <3>3. CASE Ends(p)
        <4>1. op[p].ref # r
          <5>1. op[p].ref \in Root => Mine(p, op[p].ref)
            BY <3>3, OpPlace DEF Ends, OpLabel
          <5> QED
            BY <1>4, <2>4, <5>1 DEF Mine
        <4> QED
          BY <1>1, <3>1, <3>3, <4>1, <2>1 DEF Ends, Types
      <3> QED
        BY <1>1, <3>2, <3>3, ValStep
    <2> QED
      BY <1>4, <2>2, <2>3, <2>4, InUseStep
  <1> QED
    BY <1>2, <1>3, <1>4 DEF PlacesInv

(* A walk that has passed the RootRefs has released them. *)
LEMMA RootsStep ==
  ASSUME ShapeInv, RootsInv, NEW p \in Client, Acts(p)
  PROVE  RootsInv'
  <1> USE DEF Goto, At, Walking, ring, history
  <1>1. Types /\ Mute(p) /\ ClientShape(p)
    BY ShapeTypes, Frame
  <1>2. ASSUME NEW r \in Root, PassedRoots(Owner[r])'
        PROVE  ~inUse'[r]
    <2>1. CASE Owner[r] # p
      <3>1. PassedRoots(Owner[r])
        BY <1>1, <1>2, <2>1, RootAssumption DEF Mute, PassedRoots
      <3> QED
        BY <1>1, <2>1, <3>1 DEF Mute, RootsInv
    <2>2. CASE Owner[r] = p
      <3>1. CASE WalkRoots(p) /\ walk' # walk
        <4>1. ~inUse[r] /\ inUse' = inUse
          BY <2>2, <3>1 DEF WalkRoots
        <4> QED
          BY <4>1
      <3>2. CASE p = Receiver /\ AllocRootRef
        <4>1. walk'[p].phase = "none" /\ status'[p] # "gone"
          BY <1>1, <3>2 DEF AllocRootRef, ClientShape, OpLabel
        <4> QED
          BY <1>2, <2>2, <4>1 DEF PassedRoots
      <3>3. CASE ~(WalkRoots(p) /\ walk' # walk) /\ ~(p = Receiver /\ AllocRootRef)
        <4>1. PassedRoots(p)
          <5>1. CASE Leave(p) \/ Redo(p)
            <6>1. walk'[p].phase = "roots" /\ status'[p] # "gone"
              BY <1>1, <5>1 DEF Leave, Redo, Types
            <6> QED
              BY <1>2, <2>2, <6>1 DEF PassedRoots
          <5>2. CASE NextSlot(p) \/ Gone(p) \/ AskReceiver(p) \/ EndRing(p)
            <6>1. walk[p].phase \notin {"none", "roots"}
              BY <1>1, <5>2 DEF NextSlot, Gone, AskReceiver, EndRing, ClientShape, RingWalk
            <6> QED
              BY <6>1 DEF PassedRoots
          <5>3. CASE ~(Leave(p) \/ Redo(p) \/ NextSlot(p) \/ Gone(p) \/ AskReceiver(p) \/ EndRing(p))
            <6>1. walk' = walk
              BY <3>3, <5>3
              DEF Acts, Step, SentTo, CxlUnwrap, Drop, Crash, WriteLog, Count, Store, Release,
                  VisitSlot, MoveEnd, Register, TestMessage, LinkMessage, UnlinkMessage, MoveStart
            <6>2. status'[p] = "gone" => status[p] = "gone"
              BY <1>1, <3>3, <5>3
              DEF Acts, Step, SentTo, CxlUnwrap, Drop, Crash, WriteLog, Count, Store, Release,
                  VisitSlot, MoveEnd, Register, TestMessage, LinkMessage, UnlinkMessage, MoveStart,
                  WalkRoots, Types
            <6> QED
              BY <1>2, <2>2, <6>1, <6>2 DEF PassedRoots
          <5> QED
            BY <5>1, <5>2, <5>3
        <4>2. ~inUse[r]
          BY <2>2, <4>1 DEF RootsInv
        <4> QED
          BY <3>3, <4>2, InUseStep
      <3> QED
        BY <3>1, <3>2, <3>3
    <2> QED
      BY <2>1, <2>2
  <1> QED
    BY <1>2 DEF RootsInv

-----------------------------------------------------------------------------
(* Who will find what a slot holds. *)

LEMMA EndDiffers ==
  ASSUME ShapeInv, MoveEnd
  PROVE  end' # end
  <1>1. end \in Slot /\ end' = Succ(end)
    BY ShapeTypes DEF Types, MoveEnd
  <1>2. Succ(end) = IF end = MESSAGE_BUFFER_SIZE - 1 THEN 0 ELSE end + 1
    BY <1>1, SuccSlot
  <1> QED
    BY <1>1, <1>2, RingAssumption DEF Slot

(* A slot is only filled by the sender's link, at end. *)
LEMMA SlotFilled ==
  ASSUME ShapeInv, RingInv, PlacesInv, races = {}, NEW p \in Client, Acts(p), races' = {},
         NEW i \in Slot, val'[i] # val[i]
  PROVE  /\ Ends(p)
         /\ val'[i] = NULL \/ (p = Sender /\ i = end /\ op[Sender].then = "S2" /\ Sending)
  <1>1. Types /\ i \in Loc
    BY ShapeTypes DEF Loc
  <1>2. Ends(p)
    BY ValStep DEF Count, Passes
  <1>3. op[p].ref = i /\ pc[p] = "store" /\ val'[i] = Result(p)
    BY <1>1, <1>2 DEF Ends, Types
  <1>4. ClientShape(p) /\ OpShape(p)
    BY <1>3, ShapeTypes DEF ClientShape, OpLabel
  <1>5. op[p].then \in {"S2", "R3", "next"}
    BY <1>3, OpPlace DEF OpLabel
  <1>6. CASE op[p].then = "S2"
    BY <1>2, <1>3, <1>4, <1>6 DEF OpShape, Sending, Doing, OpLabel
  <1>7. CASE op[p].then # "S2"
    BY <1>2, <1>3, <1>4, <1>5, <1>7 DEF OpShape, Result
  <1> QED
    BY <1>6, <1>7

(* Which slots are in flight after a step. *)
LEMMA FlightMoves ==
  ASSUME ShapeInv, RingInv, NEW p \in Client, Acts(p), NEW i \in Slot
  PROVE  \/ (Flying(i)' <=> Flying(i)) /\ UNCHANGED <<start, end>>
         \/ p = Sender /\ MoveEnd /\ (Flying(i)' <=> Flying(i) \/ i = end)
         \/ p = Receiver /\ MoveStart /\ (Flying(i)' <=> Flying(i) /\ i # start)
  <1>1. Types /\ Mute(p) /\ CursorInv /\ start \in Slot /\ end \in Slot
    BY ShapeTypes, Frame, RingParts, SlotNumbers
  <1>2. CASE UNCHANGED <<start, end>>
    BY <1>2, RingStays
  <1>3. CASE p = Sender /\ MoveEnd
    <2>1. end' = Succ(end) /\ start' = start /\ Sending
      BY <1>3 DEF MoveEnd, Sending, At
    <2>2. /\ Dist(i)' = Dist(i)
          /\ Dist(end)' = IF Dist(end) = MESSAGE_BUFFER_SIZE - 1 THEN 0 ELSE Dist(end) + 1
      BY <1>1, <2>1, EndMoves, BetweenSucc DEF Dist, Between
    <2>3. Dist(end) <= MESSAGE_BUFFER_SIZE - 2
      BY <1>1, <2>1 DEF CursorInv
    <2>4. Dist(i) \in Nat /\ Dist(end) \in Nat /\ MESSAGE_BUFFER_SIZE \in Nat
      BY <1>1, SlotNumbers
    <2>5. Dist(i) = Dist(end) <=> i = end
      BY <1>1, RingNow
    <2>6. Flying(i)' <=> Dist(i) < Dist(end) + 1
      BY <2>2, <2>3, <2>4 DEF Flying
    <2> QED
      BY <1>3, <2>4, <2>5, <2>6 DEF Flying
  <1>4. CASE p = Receiver /\ MoveStart
    <2>1. start' = Succ(start) /\ end' = end /\ start # end
      BY <1>1, <1>4 DEF MoveStart, CursorInv, Emptying, At
    <2> QED
      BY <1>1, <1>4, <2>1, StartMovesOut
  <1>5. CASE p = Sender /\ ~MoveEnd
    BY <1>1, <1>2, <1>5, SenderStep, Labels DEF Mute
  <1>6. CASE p = Receiver /\ ~MoveStart
    <2>1. start' = start
      BY <1>6, ReceiverStep
    <2> QED
      BY <1>1, <1>2, <1>6, <2>1, Labels DEF Mute
  <1> QED
    BY <1>3, <1>4, <1>5, <1>6 DEF Client

(* What the sender's side does with a slot at end that is not sent. *)
Unsent(i) ==
  /\ i = end /\ status[Sender] # "gone"
  /\ \/ Sending \/ walk[Sender].phase = "roots"
     \/ walk[Sender].phase = "free" /\ walk[Sender].i = end

LEMMA UnsentStep ==
  ASSUME ShapeInv, RingInv, PlacesInv, Acts(Sender), end' = end, NEW i \in Slot, Unsent(i),
         val[i] # NULL
  PROVE  Unsent(i)'
  <1> USE DEF Goto, At, Walking, ring, history
  <1>1. Types /\ ClientShape(Sender) /\ PlaceInv(Sender)
    BY ShapeTypes, Labels DEF PlacesInv
  <1>2. i = end /\ status[Sender] # "gone"
    BY DEF Unsent
  <1>3. CASE Redo(Sender)
    <2>1. walk'[Sender].phase = "roots" /\ status'[Sender] = "rec"
      BY <1>1, <1>3, Labels DEF Redo, Types
    <2> QED
      BY <1>2, <2>1 DEF Unsent
  <1>4. CASE Store(Sender)
    <2>1. /\ UNCHANGED <<op, walk, status>> /\ pc[Sender] = "store"
          /\ pc'[Sender] = op[Sender].then
      BY <1>1, <1>4, Labels DEF Store, Types
    <2>2. Sending => pc'[Sender] = "S2"
      BY <2>1 DEF Sending, Doing
    <2> QED
      BY <1>2, <2>1, <2>2 DEF Unsent, Sending
  <1>5. CASE WriteLog(Sender) \/ Count(Sender)
    <2>1. /\ UNCHANGED <<op, walk, status>>
          /\ {pc[Sender], pc'[Sender]} \subseteq OpLabel
      BY <1>1, <1>5, Labels DEF WriteLog, Count, OpLabel, Types
    <2> QED
      BY <1>2, <2>1 DEF Unsent, Sending, Doing, OpLabel
  <1>6. CASE Crash(Sender)
    <2>1. UNCHANGED <<op, walk, pc>> /\ status'[Sender] = "dead"
      BY <1>1, <1>6, Labels DEF Crash, Types
    <2> QED
      BY <1>2, <2>1 DEF Unsent, Sending, Doing
  <1>7. CASE Release(Sender) \/ VisitSlot(Sender)
    <2>1. ~Sending /\ UNCHANGED <<walk, status>>
      BY <1>7 DEF Release, VisitSlot, Sending, Doing, OpLabel
    <2> QED
      BY <1>2, <2>1 DEF Unsent
  <1>8. CASE WalkRoots(Sender)
    <2>1. /\ walk'[Sender] = walk[Sender] \/ walk'[Sender] = [phase |-> "free", i |-> end]
          /\ status' = status /\ walk[Sender].phase = "roots"
      BY <1>1, <1>8, RingPartIs, Labels DEF WalkRoots, Types
    <2>2. walk'[Sender].phase = "roots" \/ (walk'[Sender].phase = "free" /\ walk'[Sender].i = end)
      BY <2>1
    <2> QED
      BY <1>2, <2>1, <2>2 DEF Unsent
  <1>9. CASE NextSlot(Sender)
    <2>1. pc[Sender] = "next" /\ val[walk[Sender].i] = NULL
      BY <1>1, <1>9 DEF NextSlot, PlaceInv
    <2>2. ~Sending /\ walk[Sender].phase \in RingWalk
      BY <1>1, <2>1 DEF Sending, Doing, OpLabel, ClientShape
    <2> QED
      BY <1>2, <2>1, <2>2 DEF Unsent, RingWalk
  <1>10. CASE AskReceiver(Sender) \/ EndRing(Sender) \/ Gone(Sender)
    <2>1. pc[Sender] = "walk" /\ walk[Sender].phase \in {"ask", "all", "used", "leave"}
      BY <1>10 DEF AskReceiver, EndRing, Gone
    <2> QED
      BY <2>1 DEF Unsent, Sending, Doing, OpLabel
  <1>11. CASE (\E r \in Root : SentTo(r) \/ Drop(Sender, r)) \/ Leave(Sender)
    <2>1. pc[Sender] = "idle" /\ walk[Sender].phase = "none"
      BY <1>1, <1>11 DEF SentTo, Drop, Leave, ClientShape, OpLabel
    <2> QED
      BY <2>1 DEF Unsent, Sending, Doing, OpLabel
  <1>12. CASE MoveEnd
    <2>1. end' # end
      BY <1>12, EndDiffers
    <2> QED
      BY <2>1
  <1> QED
    BY <1>3, <1>4, <1>5, <1>6, <1>7, <1>8, <1>9, <1>10, <1>11, <1>12, Labels DEF Acts, Step

(* Outside of the part in flight nothing is left but an unsent message. *)
LEMMA OutsideStep ==
  ASSUME ShapeInv, RingInv, Quiet, races = {}, NEW p \in Client, Acts(p), races' = {}
  PROVE  OutsideInv'
  <1>1. Types /\ Mute(p) /\ PlacesInv /\ OutsideInv /\ end \in Slot
    BY ShapeTypes, Frame, QuietParts, SlotNumbers
  <1>2. ASSUME NEW i \in Slot, val'[i] # NULL, ~(Flying(i)')
        PROVE  Unsent(i)'
    <2>1. CASE p = Sender /\ MoveEnd
      <3>1. ~Flying(i) /\ i # end
        <4>1. end' # end
          BY <2>1, EndDiffers
        <4> QED
          BY <1>2, <2>1, <4>1, FlightMoves, Labels
      <3>2. val'[i] = val[i]
        BY <2>1 DEF MoveEnd
      <3> QED
        BY <1>1, <1>2, <3>1, <3>2 DEF OutsideInv
    <2>2. CASE p = Sender /\ ~MoveEnd
      <3>1. end' = end /\ ~Flying(i)
        BY <1>2, <2>2, FlightMoves, Labels
      <3>2. CASE val'[i] = val[i]
        <4>1. Unsent(i)
          BY <1>1, <1>2, <3>1, <3>2 DEF OutsideInv, Unsent
        <4> QED
          BY <1>1, <1>2, <2>2, <3>1, <3>2, <4>1, UnsentStep
      <3>3. CASE val'[i] # val[i]
        <4>1. Ends(Sender) /\ i = end /\ Sending
          BY <1>1, <1>2, <2>2, <3>3, SlotFilled
        <4>2. status[Sender] # "gone"
          BY <4>1, Engaged
        <4>3. Unsent(i)
          BY <4>1, <4>2 DEF Unsent
        <4>4. CASE Redo(Sender)
          <5>1. walk'[Sender].phase = "roots" /\ status'[Sender] = "rec"
            BY <1>1, <4>4, Labels DEF Redo, Types
          <5> QED
            BY <3>1, <4>1, <5>1 DEF Unsent
        <4>5. CASE Store(Sender)
          <5>1. /\ pc[Sender] = "store" /\ pc'[Sender] = op[Sender].then /\ status' = status
            BY <1>1, <4>5, Labels DEF Store, At, Goto, Types
          <5>2. pc'[Sender] = "S2"
            BY <4>1, <5>1 DEF Sending, Doing
          <5> QED
            BY <3>1, <4>1, <4>2, <5>1, <5>2 DEF Unsent, Sending
        <4> QED
          BY <4>1, <4>4, <4>5 DEF Ends
      <3> QED
        BY <3>2, <3>3
    <2>3. CASE p = Receiver
      <3>1. /\ end' = end /\ pc'[Sender] = pc[Sender] /\ op'[Sender] = op[Sender]
            /\ walk'[Sender] = walk[Sender] /\ status'[Sender] = status[Sender]
        BY <1>1, <2>3, Labels DEF Mute
      <3>2. val[i] # NULL
        BY <1>1, <1>2, <2>3, SlotFilled, Labels
      <3>3. ~Flying(i)
        <4>1. MoveStart => val[start] = NULL
          BY <1>1 DEF MoveStart, At, PlacesInv
        <4> QED
          BY <1>2, <2>3, <3>2, <4>1, FlightMoves, Labels
      <3>4. Unsent(i)
        BY <1>1, <3>2, <3>3 DEF OutsideInv, Unsent
      <3> QED
        BY <3>1, <3>4 DEF Unsent, Sending, Doing
    <2> QED
      BY <2>1, <2>2, <2>3 DEF Client
  <1> QED
    BY <1>2 DEF OutsideInv, Unsent

(* A slot in flight is nearer to start than end is, so the steps from it   *)
(* to end are fewer than those from start.                                 *)
LEMMA FlightEnds ==
  ASSUME Types, NEW i \in Slot, Flying(i)
  PROVE  /\ i # end /\ start # end
         /\ ToEnd(i) \in Nat /\ ToEnd(i) > 0 /\ ToEnd(i) <= ToEnd(start)
         /\ Dist(i) \in Nat /\ Dist(i) < Dist(end)
  <1>1. /\ start \in Slot /\ end \in Slot /\ Dist(i) \in Nat /\ Dist(end) \in Nat
        /\ ToEnd(i) \in Nat
    BY SlotNumbers
  <1>2. /\ ToEnd(start) = Dist(end) /\ ToEnd(i) = Dist(end) - Dist(i) /\ Dist(start) = 0
        /\ Dist(i) < Dist(end)
    BY <1>1, RingNow DEF Flying
  <1> QED
    BY <1>1, <1>2

(* The walk of the sender's side goes on by one slot. *)
LEMMA SenderWalks ==
  ASSUME ShapeInv, NextSlot(Sender)
  PROVE  \E w \in Slot :
           /\ w = walk[Sender].i /\ walk'[Sender].i = Succ(w)
           /\ walk'[Sender].phase = IF walk[Sender].phase = "free" /\ Succ(w) = start
                                    THEN "ask" ELSE walk[Sender].phase
           /\ walk[Sender].phase \in {"free", "all"} /\ pc[Sender] = "next"
           /\ UNCHANGED <<status, val, start, end, receiverId>>
  <1>1. Types /\ ClientShape(Sender) /\ walk[Sender].i \in Slot
    BY ShapeTypes, Labels DEF Types
  <1>2. pc[Sender] = "next" /\ UNCHANGED <<status, val, start, end, receiverId>>
    BY DEF NextSlot, At, ring
  <1>3. walk[Sender].phase \in {"free", "all"}
    BY <1>1, <1>2, Labels DEF ClientShape, RingWalk
  <1>4. /\ walk'[Sender].i = Succ(walk[Sender].i)
        /\ walk'[Sender].phase = IF walk[Sender].phase = "free" /\ Succ(walk[Sender].i) = start
                                 THEN "ask" ELSE walk[Sender].phase
    BY <1>1, Labels DEF NextSlot, Types
  <1> QED
    BY <1>1, <1>2, <1>3, <1>4

LEMMA FoundSender ==
  ASSUME ShapeInv, RingInv, Quiet, races = {}, Acts(Sender), races' = {},
         NEW i \in Slot, val'[i] # NULL, Flying(i)'
  PROVE  SenderFinds(i)' \/ ReceiverFinds(i)'
  <1> USE DEF Goto, At, Walking, ring, history
  <1>1. /\ Types /\ Mute(Sender) /\ ClientShape(Sender) /\ FoundInv /\ PlacesInv /\ UsedInv
        /\ start \in Slot /\ end \in Slot
    BY ShapeTypes, Frame, QuietParts, RingParts, SlotNumbers, Labels
  <1>2. start' = start /\ receiverId' = receiverId /\ walk'[Receiver] = walk[Receiver]
    BY <1>1, Labels DEF Mute
  <1>3. CASE MoveEnd
    <2>1. /\ walk[Sender].phase = "none" /\ status[Sender] # "gone" /\ UNCHANGED <<walk, status>>
      BY <1>1, <1>3 DEF MoveEnd, ClientShape, OpLabel
    <2> QED
      BY <2>1 DEF SenderFinds, Undecided
  <1>4. CASE Redo(Sender)
    <2>1. walk'[Sender].phase = "roots" /\ status'[Sender] = "rec"
      BY <1>1, <1>4, Labels DEF Redo, Types
    <2> QED
      BY <2>1 DEF SenderFinds, Undecided
  <1>5. CASE val'[i] # val[i] /\ ~Redo(Sender)
    <2>1. Sending /\ Ends(Sender)
      BY <1>1, <1>5, SlotFilled, Labels
    <2>2. walk[Sender].phase = "none" /\ status[Sender] # "gone"
      BY <2>1, Engaged
    <2>3. UNCHANGED <<walk, status>>
      BY <1>5, <2>1 DEF Ends, Store
    <2> QED
      BY <2>2, <2>3 DEF SenderFinds, Undecided
  <1>6. CASE val'[i] = val[i] /\ ~MoveEnd /\ ~Redo(Sender)
    <2>1. end' = end /\ Flying(i) /\ val[i] # NULL
      BY <1>6, FlightMoves, Labels
    <2>2. SenderFinds(i) \/ ReceiverFinds(i)
      BY <1>1, <2>1 DEF FoundInv
    <2>3. ReceiverFinds(i) => ReceiverFinds(i)'
      BY <1>2 DEF ReceiverFinds, Dist, Between
    <2>4. ToEnd(i)' = ToEnd(i) /\ ToEnd(walk[Sender].i) \in Nat
      BY <1>1, <2>1, SlotNumbers, Labels DEF ToEnd, Between, Types
    <2>5. /\ i # end /\ start # end /\ ToEnd(i) > 0 /\ ToEnd(i) <= ToEnd(start)
          /\ ToEnd(i) \in Nat /\ Dist(i) \in Nat
      BY <1>1, <2>1, FlightEnds
    <2>6. ASSUME SenderFinds(i), AskReceiver(Sender)
          PROVE  SenderFinds(i)' \/ ReceiverFinds(i)'
      <3>1. walk[Sender].phase = "ask" /\ status' = status
        BY <2>6 DEF AskReceiver
      <3>2. /\ walk'[Sender].phase = IF receiverId # NULL THEN "leave" ELSE "all"
            /\ walk'[Sender].i = walk[Sender].i
        BY <1>1, <2>6, Labels DEF AskReceiver, Attended, Types
      <3>3. CASE receiverId = NULL
        <4>1. ToEnd(start) <= ToEnd(walk[Sender].i) /\ ToEnd(start) \in Nat
          BY <1>1, <3>1, SlotNumbers DEF FoundInv
        <4>2. ToEnd(walk[Sender].i)' = ToEnd(walk[Sender].i)
          BY <2>1, <3>2 DEF ToEnd, Between
        <4>3. walk'[Sender].phase = "all" /\ ToEnd(i)' <= ToEnd(walk[Sender].i)'
          BY <2>4, <2>5, <3>2, <3>3, <4>1, <4>2
        <4> QED
          BY <4>3 DEF SenderFinds
      <3>4. CASE receiverId # NULL
        <4>1. receiverId = Receiver
          BY <1>1, <3>4 DEF Types
        <4>2. walk[Receiver].phase # "leave"
          BY <2>5, <2>6, <3>4 DEF AskReceiver
        <4>3. walk[Receiver].phase \in {"none", "roots", "used"}
          BY <4>2, ShapeTypes, Labels DEF ClientShape
        <4>4. walk[Receiver].phase = "used" => ~(Dist(i) < Dist(walk[Receiver].i))
          BY <1>1, <2>1 DEF FoundInv
        <4>5. Dist(walk[Receiver].i) \in Nat
          BY <1>1, SlotNumbers, Labels DEF Types
        <4>6. ReceiverFinds(i)
          BY <2>5, <4>1, <4>3, <4>4, <4>5 DEF ReceiverFinds
        <4> QED
          BY <2>3, <4>6
      <3> QED
        BY <3>3, <3>4
    <2>7. ASSUME SenderFinds(i), NextSlot(Sender)
          PROVE  SenderFinds(i)' \/ ReceiverFinds(i)'
      <3>1. PICK w \in Slot :
              /\ w = walk[Sender].i /\ walk'[Sender].i = Succ(w)
              /\ walk'[Sender].phase = IF walk[Sender].phase = "free" /\ Succ(w) = start
                                       THEN "ask" ELSE walk[Sender].phase
              /\ walk[Sender].phase \in {"free", "all"} /\ pc[Sender] = "next"
              /\ UNCHANGED <<status, val, start, end, receiverId>>
        BY <2>7, SenderWalks
      <3>2. CASE Undecided
        BY <3>1, <3>2 DEF Undecided, SenderFinds
      <3>3. CASE ~Undecided
        <4>1. walk[Sender].phase = "all" /\ ToEnd(i) <= ToEnd(w)
          BY <2>7, <3>1, <3>3 DEF SenderFinds
        <4>2. val[w] = NULL
          BY <1>1, <3>1, Labels DEF PlacesInv, PlaceInv
        <4>3. ToEnd(i) # ToEnd(w)
          BY <1>1, <2>1, <4>2, RingNow
        <4>4. w # end
          <5>1. ToEnd(end) = 0
            BY <1>1, RingNow
          <5> QED
            BY <2>5, <4>1, <5>1
        <4>5. ToEnd(Succ(w)) = ToEnd(w) - 1
          BY <1>1, <4>4, BetweenSucc DEF ToEnd
        <4>6. ToEnd(w) \in Nat
          BY <1>1, SlotNumbers
        <4>7. ToEnd(i) <= ToEnd(Succ(w))
          BY <2>5, <4>1, <4>3, <4>5, <4>6
        <4>8. ToEnd(walk[Sender].i)' = ToEnd(Succ(w))
          BY <3>1 DEF ToEnd, Between
        <4> QED
          BY <2>4, <3>1, <4>1, <4>7, <4>8 DEF SenderFinds
      <3> QED
        BY <3>2, <3>3
    <2>8. ASSUME SenderFinds(i), EndRing(Sender)
          PROVE  FALSE
      <3>1. walk[Sender].phase = "all" /\ walk[Sender].i = end
        BY <1>1, <2>8, Labels DEF EndRing, More, ClientShape
      <3>2. ToEnd(end) = 0
        BY <1>1, RingNow
      <3> QED
        BY <2>5, <2>8, <3>1, <3>2 DEF SenderFinds, Undecided
    <2>9. ASSUME SenderFinds(i), Gone(Sender)
          PROVE  FALSE
      BY <2>9 DEF Gone, SenderFinds, Undecided
    <2>10. ASSUME SenderFinds(i), WalkRoots(Sender) \/ Leave(Sender)
           PROVE  SenderFinds(i)'
      <3>1. status[Sender] # "gone" /\ status' = status
        BY <2>10 DEF WalkRoots, Leave
      <3>2. walk'[Sender].phase \in {"roots", "free"}
        <4>1. CASE WalkRoots(Sender)
          BY <1>1, <4>1, RingPartIs, Labels DEF WalkRoots, Types
        <4>2. CASE Leave(Sender)
          BY <1>1, <4>2, Labels DEF Leave, Types
        <4> QED
          BY <2>10, <4>1, <4>2
      <3> QED
        BY <3>1, <3>2 DEF SenderFinds, Undecided
    <2>11. ASSUME SenderFinds(i),
                  ~(\/ AskReceiver(Sender) \/ NextSlot(Sender) \/ EndRing(Sender) \/ Gone(Sender)
                    \/ WalkRoots(Sender) \/ Leave(Sender))
           PROVE  SenderFinds(i)'
      <3>1. walk' = walk /\ (status'[Sender] = "gone" => status[Sender] = "gone")
        BY <1>1, <1>6, <2>11, Labels
        DEF Acts, Step, SentTo, Drop, Crash, WriteLog, Count, Store, Release, VisitSlot, Types
      <3>2. ToEnd(walk[Sender].i)' = ToEnd(walk[Sender].i)
        BY <2>1, <3>1 DEF ToEnd, Between
      <3> QED
        BY <2>4, <2>11, <3>1, <3>2 DEF SenderFinds, Undecided
    <2> QED
      BY <2>2, <2>3, <2>6, <2>7, <2>8, <2>9, <2>10, <2>11
  <1> QED
    BY <1>3, <1>4, <1>5, <1>6

(* The walk of the receiver's side: where it starts, and how it goes on. *)
LEMMA ReceiverWalks ==
  ASSUME ShapeInv, Acts(Receiver), walk'[Receiver].phase = "used"
  PROVE  \/ WalkRoots(Receiver) /\ walk'[Receiver].i = start /\ UNCHANGED <<start, end>>
         \/ \E w \in Slot :
              /\ w = walk[Receiver].i /\ walk[Receiver].phase = "used" /\ pc[Receiver] = "next"
              /\ walk'[Receiver].i = Succ(w) /\ UNCHANGED <<val, start, end>>
         \/ walk'[Receiver] = walk[Receiver] /\ UNCHANGED <<start, end>>
  <1> USE DEF Goto, At, Walking, ring, history
  <1>1. Types /\ ClientShape(Receiver) /\ Mute(Receiver) /\ walk[Receiver].i \in Slot
    BY ShapeTypes, Frame, Labels DEF Types
  <1>2. end' = end
    BY <1>1, Labels DEF Mute
  <1>3. CASE WalkRoots(Receiver)
    <2>1. start' = start
      BY <1>3 DEF WalkRoots
    <2>2. CASE walk' = walk
      BY <1>2, <2>1, <2>2
    <2>3. CASE walk' = [walk EXCEPT ![Receiver] = RingPart(Receiver)]
      BY <1>1, <1>2, <1>3, <2>1, <2>3, RingPartIs, Labels DEF Types
    <2> QED
      BY <1>3, <2>2, <2>3 DEF WalkRoots
  <1>4. CASE NextSlot(Receiver)
    <2>1. pc[Receiver] = "next" /\ UNCHANGED <<val, start>>
      BY <1>4 DEF NextSlot
    <2>2. walk[Receiver].phase = "used"
      BY <1>1, <2>1, Labels DEF ClientShape, RingWalk
    <2>3. walk'[Receiver].i = Succ(walk[Receiver].i)
      BY <1>1, <1>4, Labels DEF NextSlot, Types
    <2> QED
      BY <1>1, <1>2, <2>1, <2>2, <2>3
  <1>5. CASE MoveStart
    <2>1. walk[Receiver].phase = "none" /\ walk' = walk
      BY <1>1, <1>5 DEF MoveStart, ClientShape, OpLabel
    <2> QED
      BY <2>1
  <1>6. CASE \/ AskReceiver(Receiver) \/ EndRing(Receiver) \/ Gone(Receiver) \/ Leave(Receiver)
             \/ Redo(Receiver)
    <2>1. walk'[Receiver].phase # "used"
      BY <1>1, <1>6, Labels DEF AskReceiver, Attended, EndRing, Gone, Leave, Redo, NoWalk, Types
    <2> QED
      BY <2>1
  <1>7. CASE ~(\/ WalkRoots(Receiver) \/ NextSlot(Receiver) \/ MoveStart \/ AskReceiver(Receiver)
               \/ EndRing(Receiver) \/ Gone(Receiver) \/ Leave(Receiver) \/ Redo(Receiver))
    <2>1. UNCHANGED <<walk, start>>
      BY <1>7, Labels
      DEF Acts, Step, CxlUnwrap, Drop, Crash, WriteLog, Count, Store, Release, VisitSlot, Register,
          TestMessage, AllocRootRef, LinkMessage, UnlinkMessage
    <2> QED
      BY <1>2, <2>1
  <1> QED
    BY <1>3, <1>4, <1>5, <1>6, <1>7

(* The slots that the receiver's side has passed are empty. *)
LEMMA PassedStep ==
  ASSUME ShapeInv, RingInv, Quiet, races = {}, NEW p \in Client, Acts(p), races' = {},
         NEW i \in Slot, walk'[Receiver].phase = "used", Dist(i)' < Dist(walk[Receiver].i)'
  PROVE  val'[i] = NULL
  <1>1. /\ Types /\ Mute(p) /\ FoundInv /\ PlacesInv /\ UsedInv /\ walk[Receiver].i \in Slot
        /\ start \in Slot /\ end \in Slot
    BY ShapeTypes, Frame, QuietParts, RingParts, SlotNumbers, Labels DEF Types
  <1>2. Dist(i) \in Nat /\ Dist(end) \in Nat /\ Dist(start) = 0 /\ MESSAGE_BUFFER_SIZE \in Nat
    BY <1>1, SlotNumbers, RingNow
  <1>3. CASE p = Sender
    <2>1. start' = start /\ walk'[Receiver] = walk[Receiver]
      BY <1>1, <1>3, Labels DEF Mute
    <2>2. Dist(i) < Dist(walk[Receiver].i) /\ walk[Receiver].phase = "used"
      BY <2>1 DEF Dist, Between
    <2>3. val[i] = NULL
      BY <1>1, <2>2 DEF FoundInv
    <2>4. i # end
      <3>1. Dist(walk[Receiver].i) <= Dist(end)
        BY <1>1, <2>2 DEF UsedInv
      <3>2. Dist(walk[Receiver].i) \in Nat
        BY <1>1, SlotNumbers
      <3> QED
        BY <1>2, <2>2, <3>1, <3>2
    <2> QED
      BY <1>1, <2>3, <2>4, SlotFilled
  <1>4. CASE p = Receiver
    <2>1. val[i] = NULL => val'[i] = NULL
      BY <1>1, <1>4, SlotFilled, Labels
    <2>2. CASE walk'[Receiver].i = start /\ start' = start
      <3>1. Dist(walk[Receiver].i)' = Dist(start) /\ Dist(i)' = Dist(i)
        BY <2>2 DEF Dist, Between
      <3> QED
        BY <1>2, <3>1
    <2>3. CASE \E w \in Slot :
                 /\ w = walk[Receiver].i /\ walk[Receiver].phase = "used" /\ pc[Receiver] = "next"
                 /\ walk'[Receiver].i = Succ(w) /\ UNCHANGED <<val, start, end>>
      <3>1. PICK w \in Slot :
              /\ w = walk[Receiver].i /\ walk[Receiver].phase = "used" /\ pc[Receiver] = "next"
              /\ walk'[Receiver].i = Succ(w) /\ UNCHANGED <<val, start, end>>
        BY <2>3
      <3>2. Dist(walk[Receiver].i)' = Dist(Succ(w)) /\ Dist(i)' = Dist(i)
        BY <3>1 DEF Dist, Between
      <3>3. Dist(Succ(w)) = IF Dist(w) = MESSAGE_BUFFER_SIZE - 1 THEN 0 ELSE Dist(w) + 1
        BY <1>1, BetweenSucc DEF Dist
      <3>4. Dist(w) \in Nat
        BY <1>1, SlotNumbers
      <3>5. Dist(i) <= Dist(w)
        BY <1>2, <3>2, <3>3, <3>4
      <3>6. CASE Dist(i) = Dist(w)
        <4>1. i = w
          BY <1>1, <3>6, RingNow
        <4> QED
          BY <1>1, <3>1, <4>1, Labels DEF PlacesInv, PlaceInv
      <3>7. CASE Dist(i) < Dist(w)
        BY <1>1, <3>1, <3>7 DEF FoundInv
      <3> QED
        BY <1>2, <3>4, <3>5, <3>6, <3>7
    <2>4. CASE walk'[Receiver] = walk[Receiver] /\ UNCHANGED <<start, end>>
      <3>1. Dist(i) < Dist(walk[Receiver].i) /\ walk[Receiver].phase = "used"
        BY <2>4 DEF Dist, Between
      <3>2. val[i] = NULL
        BY <1>1, <3>1 DEF FoundInv
      <3> QED
        BY <2>1, <3>2
    <2> QED
      BY <1>4, <2>2, <2>3, <2>4, ReceiverWalks
  <1> QED
    BY <1>3, <1>4 DEF Client

(* The sender's side asks for the receiver with start ahead of it. *)
LEMMA AskStep ==
  ASSUME ShapeInv, RingInv, Quiet, NEW p \in Client, Acts(p), walk'[Sender].phase = "ask"
  PROVE  ToEnd(start)' <= ToEnd(walk[Sender].i)'
  <1> USE DEF Goto, At, Walking, ring, history
  <1>1. /\ Types /\ Mute(p) /\ FoundInv /\ walk[Sender].i \in Slot /\ ClientShape(Sender)
        /\ start \in Slot /\ end \in Slot /\ CursorInv
    BY ShapeTypes, Frame, QuietParts, RingParts, SlotNumbers, Labels DEF Types
  <1>2. CASE p = Sender /\ NextSlot(Sender)
    <2>1. PICK w \in Slot :
            /\ w = walk[Sender].i /\ walk'[Sender].i = Succ(w)
            /\ walk'[Sender].phase = IF walk[Sender].phase = "free" /\ Succ(w) = start
                                     THEN "ask" ELSE walk[Sender].phase
            /\ walk[Sender].phase \in {"free", "all"} /\ pc[Sender] = "next"
            /\ UNCHANGED <<status, val, start, end, receiverId>>
      BY <1>2, SenderWalks
    <2>2. walk'[Sender].i = start
      BY <2>1
    <2>3. ToEnd(start)' = ToEnd(start) /\ ToEnd(walk[Sender].i)' = ToEnd(start)
      BY <2>1, <2>2 DEF ToEnd, Between
    <2> QED
      BY <1>1, <2>3, SlotNumbers
  <1>3. CASE walk'[Sender] = walk[Sender] /\ UNCHANGED <<start, end>>
    <2>1. ToEnd(start) <= ToEnd(walk[Sender].i)
      BY <1>1, <1>3 DEF FoundInv
    <2> QED
      BY <1>3, <2>1 DEF ToEnd, Between
  <1>4. CASE p = Sender /\ ~NextSlot(Sender)
    <2>1. start' = start
      BY <1>1, <1>4, Labels DEF Mute
    <2>2. CASE MoveEnd
      <3>1. walk'[Sender].phase = "none"
        BY <1>1, <2>2 DEF MoveEnd, ClientShape, OpLabel
      <3> QED
        BY <3>1
    <2>3. CASE \/ AskReceiver(Sender) \/ EndRing(Sender) \/ Gone(Sender) \/ Leave(Sender)
               \/ Redo(Sender)
      <3>1. walk'[Sender].phase # "ask"
        BY <1>1, <2>3, Labels DEF AskReceiver, Attended, EndRing, Gone, Leave, Redo, NoWalk, Types
      <3> QED
        BY <3>1
    <2>4. CASE WalkRoots(Sender)
      <3>1. walk'[Sender].phase # "ask"
        BY <1>1, <2>4, RingPartIs, Labels DEF WalkRoots, Types
      <3> QED
        BY <3>1
    <2>5. CASE ~(\/ MoveEnd \/ AskReceiver(Sender) \/ EndRing(Sender) \/ Gone(Sender)
                 \/ Leave(Sender) \/ Redo(Sender) \/ WalkRoots(Sender))
      <3>1. UNCHANGED <<walk, end>>
        BY <1>4, <2>5, Labels
        DEF Acts, Step, SentTo, Drop, Crash, WriteLog, Count, Store, Release, VisitSlot
      <3> QED
        BY <1>3, <2>1, <3>1
    <2> QED
      BY <2>2, <2>3, <2>4, <2>5
  <1>5. CASE p = Receiver
    <2>1. end' = end /\ walk'[Sender] = walk[Sender]
      BY <1>1, <1>5, Labels DEF Mute
    <2>2. CASE start' = start
      BY <1>3, <2>1, <2>2
    <2>3. CASE MoveStart
      <3>1. start' = Succ(start) /\ start # end
        BY <1>1, <2>3 DEF MoveStart, CursorInv, Emptying
      <3>2. ToEnd(Succ(start)) = ToEnd(start) - 1
        BY <1>1, <3>1, BetweenSucc DEF ToEnd
      <3>3. ToEnd(start)' = ToEnd(Succ(start)) /\ ToEnd(walk[Sender].i)' = ToEnd(walk[Sender].i)
        BY <2>1, <3>1 DEF ToEnd, Between
      <3>4. ToEnd(start) <= ToEnd(walk[Sender].i) /\ ToEnd(start) \in Nat
            /\ ToEnd(walk[Sender].i) \in Nat
        BY <1>1, <2>1, SlotNumbers DEF FoundInv
      <3> QED
        BY <3>2, <3>3, <3>4
    <2> QED
      BY <1>5, <2>2, <2>3, ReceiverStep
  <1> QED
    BY <1>2, <1>4, <1>5 DEF Client

LEMMA FoundReceiver ==
  ASSUME ShapeInv, RingInv, Quiet, races = {}, Acts(Receiver), races' = {},
         NEW i \in Slot, val'[i] # NULL, Flying(i)'
  PROVE  SenderFinds(i)' \/ ReceiverFinds(i)'
  <1> USE DEF Goto, At, Walking, ring, history
  <1>1. /\ Types /\ Mute(Receiver) /\ ClientShape(Receiver) /\ FoundInv /\ PlacesInv /\ Entered
        /\ start \in Slot /\ end \in Slot /\ Receiver # NULL
    BY ShapeTypes, Frame, QuietParts, SlotNumbers, Labels, ClientAssumption
  <1>2. /\ end' = end /\ walk'[Sender] = walk[Sender] /\ status'[Sender] = status[Sender]
    BY <1>1, Labels DEF Mute
  <1>3. val'[i] = val[i] /\ val[i] # NULL
    BY <1>1, SlotFilled, Labels
  <1>4. Flying(i)
    BY FlightReceiver
  <1>5. SenderFinds(i) => SenderFinds(i)'
    BY <1>2 DEF SenderFinds, Undecided, ToEnd, Between
  <1>6. ASSUME ReceiverFinds(i)
        PROVE  ReceiverFinds(i)'
    <2>1. receiverId = Receiver /\ walk[Receiver].phase \in {"none", "roots", "used"} /\ listed
      BY <1>1, <1>6 DEF ReceiverFinds, Entered
    <2>2. receiverId' = Receiver
      <3>1. ~Gone(Receiver)
        BY <2>1 DEF Gone
      <3> QED
        BY <2>1, <3>1, Labels
        DEF Acts, Step, CxlUnwrap, Drop, Crash, WriteLog, Count, Store, Release, VisitSlot, Leave,
            Redo, WalkRoots, NextSlot, AskReceiver, EndRing, Register, TestMessage, AllocRootRef,
            LinkMessage, UnlinkMessage, MoveStart
    <2>3. i # end /\ Dist(i) \in Nat /\ Dist(i) < Dist(end) /\ Dist(end) \in Nat
      BY <1>1, <1>4, FlightEnds, SlotNumbers
    <2>4. CASE NextSlot(Receiver)
      <3>1. walk[Receiver].phase = "used" /\ walk'[Receiver].phase = "used"
        BY <1>1, <2>1, <2>4, Labels DEF NextSlot, ClientShape, RingWalk, Types
      <3>2. ~WalkRoots(Receiver) /\ walk'[Receiver] # walk[Receiver]
        <4>1. walk'[Receiver].i = Succ(walk[Receiver].i) /\ walk[Receiver].i \in Slot
          BY <1>1, <2>4, Labels DEF NextSlot, Types
        <4>2. Succ(walk[Receiver].i) # walk[Receiver].i
          <5>1. PICK w \in Slot : w = walk[Receiver].i
            BY <4>1
          <5>2. Succ(w) = IF w = MESSAGE_BUFFER_SIZE - 1 THEN 0 ELSE w + 1
            BY SuccSlot
          <5> QED
            BY <5>1, <5>2, RingAssumption DEF Slot
        <4> QED
          BY <2>4, <4>1, <4>2 DEF NextSlot, WalkRoots
      <3>3. PICK w \in Slot :
              /\ w = walk[Receiver].i /\ walk[Receiver].phase = "used" /\ pc[Receiver] = "next"
              /\ walk'[Receiver].i = Succ(w) /\ UNCHANGED <<val, start, end>>
        BY <3>1, <3>2, ReceiverWalks
      <3>4. Dist(w) <= Dist(i) /\ Dist(w) \in Nat
        BY <1>1, <1>6, <3>1, <3>3, SlotNumbers DEF ReceiverFinds
      <3>5. Dist(w) # Dist(i)
        BY <1>1, <1>3, <3>3, RingNow, Labels DEF PlacesInv, PlaceInv
      <3>6. Dist(Succ(w)) = IF Dist(w) = MESSAGE_BUFFER_SIZE - 1 THEN 0 ELSE Dist(w) + 1
        BY <1>1, BetweenSucc DEF Dist
      <3>7. Dist(Succ(w)) <= Dist(i)
        BY <2>3, <3>4, <3>5, <3>6
      <3>8. Dist(walk[Receiver].i)' = Dist(Succ(w)) /\ Dist(i)' = Dist(i)
        BY <3>3 DEF Dist, Between
      <3> QED
        BY <2>2, <3>1, <3>7, <3>8 DEF ReceiverFinds
    <2>5. CASE WalkRoots(Receiver)
      <3>1. walk[Receiver].phase = "roots" /\ start' = start
        BY <2>5 DEF WalkRoots
      <3>2. walk'[Receiver] = walk[Receiver]
            \/ walk'[Receiver] = [phase |-> "used", i |-> start]
        BY <1>1, <2>1, <2>5, RingPartIs, Labels DEF WalkRoots, Types
      <3>3. Dist(start) = 0
        BY <1>1, RingNow
      <3>4. walk'[Receiver].phase = "roots"
            \/ (walk'[Receiver].phase = "used" /\ walk'[Receiver].i = start)
        BY <3>1, <3>2
      <3>5. walk'[Receiver].i = start => Dist(walk[Receiver].i)' <= Dist(i)'
        <4>1. walk'[Receiver].i = start => Dist(walk[Receiver].i)' = Dist(start) /\ Dist(i)' = Dist(i)
          BY <1>2, <3>1 DEF Dist, Between
        <4> QED
          BY <2>3, <3>3, <4>1
      <3> QED
        BY <2>2, <3>4, <3>5 DEF ReceiverFinds
    <2>6. CASE EndRing(Receiver)
      <3>1. walk[Receiver].phase = "used" /\ walk[Receiver].i = end
        BY <2>1, <2>6 DEF EndRing, More
      <3> QED
        BY <1>6, <2>3, <3>1 DEF ReceiverFinds
    <2>7. CASE Leave(Receiver) \/ Redo(Receiver)
      <3>1. walk'[Receiver].phase = "roots"
        BY <1>1, <2>7, Labels DEF Leave, Redo, Types
      <3> QED
        BY <2>2, <3>1 DEF ReceiverFinds
    <2>8. CASE MoveStart
      <3>1. walk'[Receiver].phase = "none"
        BY <1>1, <2>8 DEF MoveStart, ClientShape, OpLabel
      <3> QED
        BY <2>2, <3>1 DEF ReceiverFinds
    <2>9. CASE AskReceiver(Receiver) \/ Gone(Receiver)
      BY <2>1, <2>9 DEF AskReceiver, Gone
    <2>10. CASE ~(\/ NextSlot(Receiver) \/ WalkRoots(Receiver) \/ EndRing(Receiver)
                  \/ Leave(Receiver) \/ Redo(Receiver) \/ MoveStart \/ AskReceiver(Receiver)
                  \/ Gone(Receiver))
      <3>1. UNCHANGED <<walk, start>>
        BY <2>10, Labels
        DEF Acts, Step, CxlUnwrap, Drop, Crash, WriteLog, Count, Store, Release, VisitSlot, Register,
            TestMessage, AllocRootRef, LinkMessage, UnlinkMessage
      <3> QED
        BY <1>6, <2>2, <3>1 DEF ReceiverFinds, Dist, Between
    <2> QED
      BY <2>4, <2>5, <2>6, <2>7, <2>8, <2>9, <2>10
  <1>7. SenderFinds(i) \/ ReceiverFinds(i)
    BY <1>1, <1>3, <1>4 DEF FoundInv
  <1> QED
    BY <1>5, <1>6, <1>7

LEMMA FoundStep ==
  ASSUME ShapeInv, RingInv, Quiet, races = {}, NEW p \in Client, Acts(p), races' = {}
  PROVE  FoundInv'
  <1>1. \A i \in Slot : val'[i] # NULL /\ Flying(i)' => SenderFinds(i)' \/ ReceiverFinds(i)'
    BY FoundSender, FoundReceiver DEF Client
  <1>2. walk'[Sender].phase = "ask" => ToEnd(start)' <= ToEnd(walk[Sender].i)'
    BY AskStep
  <1>3. walk'[Receiver].phase = "used" =>
          \A i \in Slot : Dist(i)' < Dist(walk[Receiver].i)' => val'[i] = NULL
    BY PassedStep
  <1> QED
    BY <1>1, <1>2, <1>3 DEF FoundInv

-----------------------------------------------------------------------------
(* The counts. *)

(* What a place counts for, by who is about to store there. *)
LEMMA ViewOf ==
  ShapeInv /\ RingInv /\ WalkInv =>
    \A l : /\ \A q \in Client : AtStore(q, l) => View(l) = Result(q)
           /\ (\A q \in Client : ~AtStore(q, l)) => View(l) = val[l]
  <1> SUFFICES ASSUME ShapeInv, RingInv, WalkInv
               PROVE  \A l : /\ \A q \in Client : AtStore(q, l) => View(l) = Result(q)
                             /\ (\A q \in Client : ~AtStore(q, l)) => View(l) = val[l]
    OBVIOUS
  <1>1. \A l : ~(SenderAt(l) /\ ReceiverAt(l))
    BY PlacesApart
  <1>2. \A l : ~(AtStore(Sender, l) /\ AtStore(Receiver, l))
    BY <1>1 DEF AtStore, SenderAt, ReceiverAt, OpAt, OpLabel
  <1> QED
    BY <1>1, <1>2, ViewIs DEF Client

LEMMA ViewNext ==
  (ShapeInv /\ RingInv /\ WalkInv)' =>
    \A l : /\ \A q \in Client : AtStore(q, l)' => View(l)' = Result(q)'
           /\ (\A q \in Client : ~(AtStore(q, l)')) => View(l)' = val'[l]
  <1>1. (ShapeInv /\ RingInv /\ WalkInv =>
           \A l : /\ \A q \in Client : AtStore(q, l) => View(l) = Result(q)
                  /\ (\A q \in Client : ~AtStore(q, l)) => View(l) = val[l])'
    BY ViewOf, PTL
  <1> QED
    BY <1>1

(* Only counting changes what a place counts for. *)
LEMMA ViewStep ==
  ASSUME ShapeInv, RingInv, Quiet, races = {}, NEW p \in Client, Acts(p), races' = {},
         ShapeInv', RingInv', WalkInv', NEW l \in Loc
  PROVE  View(l)' = IF Count(p) /\ l = op[p].ref THEN Result(p) ELSE View(l)
  <1>1. /\ Types /\ Mute(p)
        /\ \A q \in Client : AtStore(q, l) => View(l) = Result(q)
        /\ (\A q \in Client : ~AtStore(q, l)) => View(l) = val[l]
        /\ \A q \in Client : AtStore(q, l)' => View(l)' = Result(q)'
        /\ (\A q \in Client : ~(AtStore(q, l)')) => View(l)' = val'[l]
    BY ShapeTypes, Frame, QuietParts, ViewOf, ViewNext
  <1>2. \A q \in Client \ {p} : (AtStore(q, l)' <=> AtStore(q, l)) /\ Result(q)' = Result(q)
    BY <1>1 DEF Mute, AtStore, Result
  <1>3. \A q \in Client \ {p} : ~(OpAt(p, l) /\ OpAt(q, l))
    BY PlacesApart, QuietParts DEF SenderAt, ReceiverAt, Client
  <1>4. \A q \in Client : AtStore(q, l) => OpAt(q, l)
    BY DEF AtStore, OpAt, OpLabel
  <1>5. CASE Count(p)
    <2>1. /\ val' = val /\ op' = op /\ pc[p] = "count" /\ pc'[p] = "store"
      BY <1>1, <1>5 DEF Count, At, Goto, Types
    <2>2. ~AtStore(p, l) /\ Result(p)' = Result(p) /\ (AtStore(p, l)' <=> l = op[p].ref)
      BY <2>1 DEF AtStore, Result
    <2>3. CASE l = op[p].ref
      <3>1. AtStore(p, l)'
        BY <2>2, <2>3
      <3> QED
        BY <1>1, <1>5, <2>2, <2>3, <3>1
    <2>4. CASE l # op[p].ref
      <3>1. \A q \in Client : (AtStore(q, l)' <=> AtStore(q, l)) /\ Result(q)' = Result(q)
        BY <1>2, <2>2, <2>4
      <3> QED
        BY <1>1, <2>1, <2>4, <3>1
    <2> QED
      BY <2>3, <2>4
  <1>6. CASE Ends(p)
    <2>1. /\ pc[p] = "store" /\ pc'[p] # "store" /\ ~Count(p)
          /\ val'[l] = IF l = op[p].ref THEN Result(p) ELSE val[l]
      BY <1>1, <1>6 DEF Ends, Count, At, Types
    <2>2. ~(AtStore(p, l)') /\ (AtStore(p, l) <=> l = op[p].ref)
      BY <2>1 DEF AtStore
    <2>3. CASE l = op[p].ref
      <3>1. \A q \in Client : ~(AtStore(q, l)')
        BY <1>2, <1>3, <1>4, <2>2, <2>3
      <3> QED
        BY <1>1, <2>1, <2>2, <2>3, <3>1
    <2>4. CASE l # op[p].ref
      <3>1. \A q \in Client : (AtStore(q, l)' <=> AtStore(q, l))
                              /\ (AtStore(q, l) => Result(q)' = Result(q))
        BY <1>2, <2>2, <2>4
      <3> QED
        BY <1>1, <2>1, <2>4, <3>1
    <2> QED
      BY <2>3, <2>4
  <1>7. CASE Passes(p) /\ ~Count(p)
    <2>1. \A q \in Client : (AtStore(q, l)' <=> AtStore(q, l))
                            /\ (AtStore(q, l) => Result(q)' = Result(q))
      <3>1. (AtStore(p, l)' <=> AtStore(p, l)) /\ (AtStore(p, l) => Result(p)' = Result(p))
        BY <1>7 DEF Passes, AtStore, Result
      <3> QED
        BY <1>2, <3>1
    <2>2. val' = val
      BY <1>7 DEF Passes
    <2> QED
      BY <1>1, <1>7, <2>1, <2>2
  <1> QED
    BY <1>5, <1>6, <1>7, ValStep, QuietParts

(* The count of an object stays the number of places that count for it. *)
LEMMA CountStep ==
  ASSUME ShapeInv, RingInv, Quiet, races = {}, NEW p \in Client, Acts(p), races' = {},
         ShapeInv', RingInv', WalkInv', NEW o \in Obj
  PROVE  count'[o] = Cardinality({l \in Loc : View(l)' = o})
  <1> DEFINE S == {l \in Loc : View(l) = o}
             T == {l \in Loc : View(l)' = o}
  <1>1. /\ Types /\ PlaceInv(p) /\ count[o] = Cardinality(S) /\ IsFiniteSet(S) /\ IsFiniteSet(T)
    BY ShapeTypes, QuietParts, LocFinite, FS_Subset DEF CountExact, PlacesInv
  <1>2. CASE ~Count(p)
    <2>1. S = T
      BY <1>2, ViewStep
    <2>2. count' = count
      BY <1>2, ValStep, QuietParts DEF Ends, Passes
    <2> QED
      BY <1>1, <2>1, <2>2
  <1>3. CASE Count(p)
    <2>1. PICK k \in Loc : k = op[p].ref
      BY <1>3, OpPlace DEF Count, At, OpLabel
    <2>2. PICK x \in Obj : x = op[p].refed
      BY <1>3, OpPlace DEF Count, At, OpLabel
    <2>3. /\ \A l \in Loc : l # k => View(l)' = View(l)
          /\ View(k)' = Result(p)
      BY <1>3, <2>1, ViewStep
    <2>4. View(k) = val[k]
      <3>1. OpAt(p, k)
        BY <1>3, <2>1 DEF OpAt, Count, At, OpLabel
      <3>2. \A q \in Client : AtStore(q, k) => OpAt(q, k)
        BY DEF AtStore, OpAt, OpLabel
      <3>3. \A q \in Client \ {p} : ~(OpAt(p, k) /\ OpAt(q, k))
        BY PlacesApart, QuietParts DEF SenderAt, ReceiverAt, Client
      <3>4. ~AtStore(p, k)
        BY <1>3 DEF Count, At, AtStore
      <3>5. \A q \in Client : ~AtStore(q, k)
        BY <3>1, <3>2, <3>3, <3>4
      <3> QED
        BY <3>5, ViewOf, QuietParts
    <2>5. View(k) = IF op[p].func = "LINK" THEN NULL ELSE x
      BY <1>1, <1>3, <2>1, <2>2, <2>4 DEF PlaceInv, Count, At, OpLabel
    <2>6. View(k)' = IF op[p].func = "LINK" THEN x ELSE NULL
      BY <2>2, <2>3 DEF Result
    <2>7. count' = [count EXCEPT ![x] = IF op[p].func = "LINK" THEN @ + 1 ELSE @ - 1]
      BY <1>3, <2>2 DEF Count
    <2>8. x # NULL /\ o # NULL
      BY ClientAssumption
    <2>9. CASE o # x
      <3>1. S = T
        BY <2>3, <2>5, <2>6, <2>8, <2>9
      <3>2. count'[o] = count[o]
        BY <1>1, <2>7, <2>9 DEF Types
      <3> QED
        BY <1>1, <3>1, <3>2
    <2>10. CASE o = x /\ op[p].func = "LINK"
      <3>1. k \notin S /\ T = S \cup {k}
        BY <2>3, <2>5, <2>6, <2>8, <2>10
      <3>2. count'[o] = count[o] + 1
        BY <1>1, <2>7, <2>10 DEF Types
      <3> HIDE DEF S, T
      <3>3. Cardinality(S \cup {k}) = Cardinality(S) + 1
        BY <1>1, <3>1, FS_AddElement
      <3> QED
        BY <1>1, <3>1, <3>2, <3>3 DEF T
    <2>11. CASE o = x /\ op[p].func # "LINK"
      <3>1. k \in S /\ T = S \ {k}
        BY <2>3, <2>5, <2>6, <2>8, <2>11
      <3>2. count'[o] = count[o] - 1
        BY <1>1, <2>7, <2>11 DEF Types
      <3> HIDE DEF S, T
      <3>3. Cardinality(S \ {k}) = Cardinality(S) - 1
        BY <1>1, <3>1, FS_RemoveElement
      <3> QED
        BY <1>1, <3>1, <3>2, <3>3 DEF T
    <2> QED
      BY <2>9, <2>10, <2>11
  <1> QED
    BY <1>2, <1>3

(* The receiver never works on offset 0: the slot that it found full stays *)
(* full until it empties it.                                               *)
LEMMA WildStep ==
  ASSUME ShapeInv, Quiet, races = {}, NEW p \in Client, Acts(p)
  PROVE  MessageStays'
  <1> USE DEF Goto, At, Walking, ring, history
  <1>1. /\ Types /\ Mute(p) /\ PlacesInv /\ pc[Receiver] # "wild"
    BY ShapeTypes, Frame, QuietParts DEF MessageStays
  <1>2. CASE p = Sender
    BY <1>1, <1>2, Labels DEF Mute, MessageStays
  <1>3. CASE p = Receiver
    <2>1. CASE LinkMessage
      <3>1. val[start] # NULL
        BY <1>1, <2>1 DEF LinkMessage, PlacesInv, Fetching
      <3> QED
        BY <1>1, <2>1, <3>1, Labels DEF LinkMessage, Begin, MessageStays, Types
    <2>2. CASE UnlinkMessage
      <3>1. val[start] # NULL
        BY <1>1, <2>2 DEF UnlinkMessage, PlacesInv
      <3> QED
        BY <1>1, <2>2, <3>1, Labels DEF UnlinkMessage, Begin, MessageStays, Types
    <2>3. CASE Store(Receiver)
      <3>1. pc[Receiver] \in OpLabel /\ pc'[Receiver] = op[Receiver].then
        BY <1>1, <2>3, Labels DEF Store, OpLabel, Types
      <3> QED
        BY <3>1, OpPlace, Labels DEF MessageStays
    <2>4. CASE AskReceiver(Receiver) \/ EndRing(Receiver)
      BY <1>1, <2>4 DEF AskReceiver, EndRing, MessageStays
    <2>5. CASE \/ VisitSlot(Receiver) \/ WalkRoots(Receiver) \/ \E r \in Root : Drop(Receiver, r)
      BY <1>1, <2>5, Labels DEF VisitSlot, WalkRoots, Drop, Begin, MessageStays, Types
    <2>6. CASE \/ CxlUnwrap \/ Register \/ MoveStart \/ Leave(Receiver) \/ Redo(Receiver)
               \/ Release(Receiver) \/ NextSlot(Receiver) \/ Gone(Receiver) \/ TestMessage
               \/ AllocRootRef \/ WriteLog(Receiver) \/ Count(Receiver) \/ Crash(Receiver)
      BY <1>1, <2>6, Labels
      DEF CxlUnwrap, Register, MoveStart, Leave, Redo, Release, NextSlot, Gone, TestMessage,
          AllocRootRef, WriteLog, Count, Crash, MessageStays, Types
    <2> QED
      BY <1>3, <2>1, <2>2, <2>3, <2>4, <2>5, <2>6, Labels DEF Acts, Step
  <1> QED
    BY <1>2, <1>3 DEF Client

LEMMA QuietActs ==
  ASSUME ShapeInv, RingInv, QuietInv, NEW p \in Client, Acts(p), Next
  PROVE  QuietInv'
  <1>1. SUFFICES ASSUME races' = {}
                 PROVE  Quiet'
    BY DEF QuietInv
  <1>2. races = {} /\ Quiet
    BY <1>1, RacesGrow DEF QuietInv
  <1>3. WalkInv /\ PlacesInv /\ RootsInv
    BY <1>2, QuietParts
  <1>4. ShapeInv' /\ RingInv' /\ WalkInv'
    BY <1>1, <1>3, ShapeStep, RingStep, WalkStep
  <1>5. CountExact'
    <2>1. \A o \in Obj : count'[o] = Cardinality({l \in Loc : View(l)' = o})
      BY <1>1, <1>2, <1>4, CountStep
    <2> QED
      BY <2>1 DEF CountExact
  <1>6. MessageStays'
    BY <1>2, WildStep
  <1>7. PlacesInv' /\ RootsInv' /\ OutsideInv' /\ FoundInv'
    BY <1>1, <1>2, <1>3, PlacesStep, RootsStep, OutsideStep, FoundStep
  <1> QED
    BY <1>4, <1>5, <1>6, <1>7 DEF Quiet

LEMMA QuietStep ==
  ASSUME ShapeInv, RingInv, QuietInv, [Next]_vars
  PROVE  QuietInv'
  <1>1. CASE Next
    <2>1. PICK p \in Client : Acts(p)
      BY <1>1, NextActs
    <2> QED
      BY <1>1, <2>1, QuietActs
  <1>2. CASE UNCHANGED vars
    <2>1. UNCHANGED <<val, inUse, count, start, end, receiverId, listed, status, pc, op, log, walk,
                      races, sent, received>>
      BY <1>2 DEF vars, ring, history
    <2>2. SUFFICES ASSUME races' = {}
                   PROVE  Quiet'
      BY DEF QuietInv
    <2>3. races = {} /\ Quiet
      BY <2>1, <2>2 DEF QuietInv
    <2>4. \A l : View(l)' = View(l)
      BY <2>1 DEF View
    <2>5. CountExact'
      BY <2>1, <2>3, <2>4, QuietParts DEF CountExact
    <2>6. MessageStays' /\ WalkInv' /\ RootsInv'
      BY <2>1, <2>3, QuietParts
      DEF MessageStays, WalkInv, RootsInv, PassedRoots, Flying, Dist, Between
    <2>7. PlacesInv'
      BY <2>1, <2>3, QuietParts DEF PlacesInv, PlaceInv, Fetching, Doing
    <2>8. OutsideInv'
      BY <2>1, <2>3, QuietParts DEF OutsideInv, Sending, Doing, Flying, Dist, Between
    <2>9. FoundInv'
      BY <2>1, <2>3, QuietParts
      DEF FoundInv, SenderFinds, ReceiverFinds, Undecided, Flying, Dist, ToEnd, Between
    <2> QED
      BY <2>5, <2>6, <2>7, <2>8, <2>9 DEF Quiet
  <1> QED
    BY <1>1, <1>2

LEMMA InitQuiet == Init => QuietInv
  <1> SUFFICES ASSUME Init PROVE Quiet
    BY DEF QuietInv
  <1>1. /\ start = 0 /\ end = 0 /\ receiverId = NULL
        /\ \A p \in Client : /\ pc[p] = "idle" /\ walk[p].phase = "none" /\ status[p] = "run"
    BY DEF Init, NoWalk
  <1>2. /\ \A r \in Root : val[r] = Held[r] /\ (inUse[r] <=> Held[r] # NULL)
        /\ \A i \in Slot : val[i] = NULL
    BY RootAssumption DEF Init, Loc
  <1>3. CountExact
    <2>1. ASSUME NEW o \in Obj
          PROVE  count[o] = Cardinality({l \in Loc : View(l) = o})
      <3>1. \A l : View(l) = val[l]
        BY <1>1 DEF View
      <3>2. o # NULL
        BY ClientAssumption
      <3>3. {l \in Loc : View(l) = o} = {r \in Root : Held[r] = o}
        BY <1>2, <3>1, <3>2 DEF Loc
      <3> QED
        BY <3>3 DEF Init
    <2> QED
      BY <2>1 DEF CountExact
  <1>4. ~Fetching /\ pc[Receiver] = "idle"
    BY <1>1, Labels DEF Fetching, Doing, OpLabel
  <1>5. MessageStays /\ WalkInv /\ RootsInv /\ OutsideInv /\ FoundInv
    BY <1>1, <1>2, Labels, RootAssumption
    DEF MessageStays, WalkInv, RootsInv, PassedRoots, OutsideInv, FoundInv
  <1>6. PlacesInv
    BY <1>1, <1>2, <1>4 DEF PlacesInv, PlaceInv, OpLabel
  <1> QED
    BY <1>3, <1>5, <1>6 DEF Quiet

-----------------------------------------------------------------------------
(* What holds as long as none of the known races has happened.             *)

LEMMA QuietAlways == Spec => []QuietInv
  <1>1. Init => QuietInv
    BY InitQuiet
  <1>2. ShapeInv /\ RingInv /\ QuietInv /\ [Next]_vars => QuietInv'
    BY QuietStep
  <1> QED
    BY <1>1, <1>2, RingInvariant, PTL DEF Spec

(* Counts are exact through every transfer, failure and recovery: the      *)
(* count of an object is the number of RootRefs and slots that hold it, or *)
(* are about to, for any ring, any number of RootRefs and of messages.     *)
THEOREM CountsStayExact == Spec => []CountExact
  <1>1. QuietInv => CountExact
    BY DEF QuietInv, Quiet, CountExact
  <1> QED
    BY <1>1, QuietAlways, PTL

(* cxl_unwrap never works on offset 0: nobody empties the slot that it has *)
(* tested before its last step.                                            *)
THEOREM MessagesStay == Spec => []MessageStays
  <1>1. QuietInv => MessageStays
    BY DEF QuietInv, Quiet, MessageStays
  <1> QED
    BY <1>1, QuietAlways, PTL

(* When both clients are gone, each in either way, the walks have emptied  *)
(* every slot and every RootRef, and no object is counted any more.        *)
THEOREM EverythingReleased == Spec => []AllReleased
  <1>1. ASSUME ShapeInv, RingInv, QuietInv
        PROVE  AllReleased
    <2>1. SUFFICES ASSUME races = {}, \A p \in Client : status[p] = "gone"
                   PROVE  /\ \A l \in Loc : val[l] = NULL
                          /\ \A o \in Obj : count[o] = 0
      BY DEF AllReleased
    <2>2. Quiet /\ Types /\ Entered
      BY <1>1, <2>1, ShapeTypes DEF QuietInv
    <2>3. \A p \in Client : pc[p] = "idle" /\ walk[p].phase = "none"
      BY <1>1, <2>1, ShapeTypes DEF ClientShape
    <2>4. ASSUME NEW r \in Root
          PROVE  val[r] = NULL
      <3>1. ~inUse[r]
        BY <2>1, <2>2, QuietParts, RootAssumption DEF RootsInv, PassedRoots
      <3> QED
        BY <2>2, <3>1, QuietParts DEF PlacesInv
    <2>5. ASSUME NEW i \in Slot
          PROVE  val[i] = NULL
      <3>1. SUFFICES ASSUME val[i] # NULL PROVE FALSE
        OBVIOUS
      <3>2. Flying(i)
        BY <2>1, <2>2, <3>1, QuietParts, Labels DEF OutsideInv
      <3>3. SenderFinds(i) \/ ReceiverFinds(i)
        BY <2>2, <3>1, <3>2, QuietParts DEF FoundInv
      <3>4. ~SenderFinds(i)
        BY <2>1, <2>3, Labels DEF SenderFinds, Undecided
      <3>5. ~ReceiverFinds(i)
        BY <2>1, <2>2, Labels DEF ReceiverFinds, Entered
      <3> QED
        BY <3>3, <3>4, <3>5
    <2>6. \A l \in Loc : View(l) = NULL
      BY <2>3, <2>4, <2>5 DEF View, Loc
    <2>7. ASSUME NEW o \in Obj
          PROVE  count[o] = 0
      <3>1. {l \in Loc : View(l) = o} = {}
        BY <2>6, ClientAssumption
      <3> QED
        BY <2>1, <2>2, <3>1, QuietParts, FS_EmptySet DEF CountExact
    <2> QED
      BY <2>4, <2>5, <2>7 DEF Loc
  <1> QED
    BY <1>1, RingInvariant, QuietAlways, PTL
=============================================================================
