----------------------------- MODULE TransferInv -----------------------------
(***************************************************************************)
(* The inductive strengthening of the invariants of Transfer, in named     *)
(* parts: the shape of the local variables, the cursors and what lies      *)
(* between them, what the redo records say, and, as long as none of the    *)
(* known races has happened, the counts and who will empty which slot.     *)
(***************************************************************************)
EXTENDS Transfer

OpLabel  == {"log", "count", "store"}
RingWalk == {"free", "all", "used"}
Label(p) ==
  OpLabel \cup {"idle", "release", "walk", "next"} \cup
  (IF p = Sender THEN {"S2"}
   ELSE {"register", "test", "root", "link", "unlink", "R3", "wild"})
Phase(p) ==
  {"none", "roots", "leave"} \cup (IF p = Sender THEN {"free", "ask", "all"} ELSE {"used"})

OpType == [func : {"none", "LINK", "UNLINK"}, ref : Loc \cup {NULL},
           refed : Obj \cup {NULL}, then : {"idle", "S2", "unlink", "R3", "release", "next"}]
LogType == [func : {"none", "LINK", "UNLINK"}, ref : Loc \cup {NULL},
            refed : Obj \cup {NULL}, done : BOOLEAN]

Types ==
  /\ val \in [Loc -> Obj \cup {NULL}] /\ inUse \in [Root -> BOOLEAN]
  /\ count \in [Obj -> Int]
  /\ start \in Slot /\ end \in Slot
  /\ receiverId \in {NULL, Receiver} /\ listed \in BOOLEAN
  /\ status \in [Client -> {"run", "dead", "rec", "gone"}]
  /\ pc \in [Client -> Label(Sender) \cup Label(Receiver)]
  /\ op \in [Client -> OpType]
  /\ log \in [Client -> LogType]
  /\ walk \in [Client -> [phase : Phase(Sender) \cup Phase(Receiver), i : Slot]]
  /\ races \subseteq {"late", "both", "stranded", "replayed"}
  /\ sent \in Seq(Obj) /\ received \in Seq(Obj)

-----------------------------------------------------------------------------
(* What the local variables of a client hold at each of its steps. *)

(* A RootRef of p that it works on. *)
Mine(p, r) == r \in Root /\ Owner[r] = p /\ inUse[r]

(* The operation in progress of p, by what it goes on with. *)
OpShape(p) ==
  /\ op[p].refed \in Obj
  /\ op[p].func = IF op[p].then \in {"S2", "unlink"} THEN "LINK" ELSE "UNLINK"
  /\ op[p].then # "idle"
  /\ op[p].then = "S2"      => p = Sender /\ op[p].ref = end
  /\ op[p].then = "R3"      => p = Receiver /\ op[p].ref = start
  /\ op[p].then = "unlink"  => p = Receiver /\ Mine(p, op[p].ref)
  /\ op[p].then = "release" => walk[p].phase \in {"none", "roots"} /\ Mine(p, op[p].ref)
  /\ op[p].then = "next"    => walk[p].phase \in RingWalk /\ op[p].ref = walk[p].i
  /\ op[p].then \in {"S2", "unlink", "R3"} => walk[p].phase = "none"

ClientShape(p) ==
  /\ pc[p] \in Label(p) /\ walk[p].phase \in Phase(p)
  /\ status[p] = "gone" => pc[p] = "idle" /\ walk[p].phase = "none"
  /\ status[p] = "rec" => pc[p] # "log" /\ walk[p].phase # "none"
  /\ walk[p].phase # "none" => pc[p] \in OpLabel \cup {"release", "walk", "next"}
  /\ pc[p] \in {"walk", "next"} => walk[p].phase # "none"
  /\ pc[p] = "next" => walk[p].phase \in RingWalk
  /\ pc[p] = "release" => walk[p].phase \in {"none", "roots"} /\ Mine(p, op[p].ref)
  /\ pc[p] \in OpLabel => OpShape(p)
  /\ pc[p] = "link" => Mine(p, op[p].ref)
  /\ pc[p] = "S2" => op[p].refed \in Obj

(* The receiver has entered the queue when it works on the ring. *)
Doing(p, then) == pc[p] \in OpLabel /\ op[p].then = then
OnRing ==
  \/ pc[Receiver] \in {"test", "root", "link", "unlink", "R3", "wild"}
  \/ Doing(Receiver, "unlink") \/ Doing(Receiver, "R3")
Entered ==
  /\ OnRing => receiverId = Receiver
  /\ receiverId = Receiver => listed /\ status[Receiver] # "gone"
  /\ pc[Receiver] = "register" => listed

(* A RootRef that the sender has in use holds an object. *)
HolderInv ==
  \A r \in Root : Mine(Sender, r) /\ walk[Sender].phase = "none" =>
    \/ val[r] # NULL \/ status[Sender] = "gone"
    \/ pc[Sender] = "release" /\ op[Sender].ref = r

(* A redo record speaks of a RootRef of the client's own. *)
LogOwner == \A p \in Client : log[p].ref \in Root => Owner[log[p].ref] = p

ShapeInv == Types /\ (\A p \in Client : ClientShape(p)) /\ Entered /\ HolderInv /\ LogOwner

-----------------------------------------------------------------------------
(* The cursors, whatever races have happened.                              *)

(* The steps around the ring from slot i to slot j. *)
Between(i, j) == IF j >= i THEN j - i ELSE j - i + MESSAGE_BUFFER_SIZE
Dist(i) == Between(start, i)
ToEnd(i) == Between(i, end)
Flying(i) == i \in Slot /\ Dist(i) < Dist(end)

Sending == pc[Sender] = "S2" \/ Doing(Sender, "S2")
Fetching == pc[Receiver] \in {"root", "link"} \/ Doing(Receiver, "unlink")
Emptying == pc[Receiver] \in {"unlink", "R3"} \/ Doing(Receiver, "R3")

(* The receiver has counted the message at start and not moved start. *)
Took == Emptying \/ (pc[Receiver] = "store" /\ op[Receiver].then = "unlink")
Fresh == status[Receiver] # "gone" /\ walk[Receiver].phase = "none" /\ pc[Receiver] # "wild"

CursorInv ==
  /\ Sending => Dist(end) <= MESSAGE_BUFFER_SIZE - 2
  /\ Fetching \/ Emptying => start # end
  /\ Len(received) <= Len(sent)
  /\ Len(sent) - Len(received) \in {Dist(end), Dist(end) - 1}
  /\ Fresh => Len(sent) - Len(received) = Dist(end) - (IF Took THEN 1 ELSE 0)
  /\ Dist(end) <= Len(sent)

(* The receiver's walk looks at slots in flight. *)
Visiting(p) == pc[p] = "next" \/ Doing(p, "next")
UsedInv ==
  walk[Receiver].phase = "used" =>
    /\ Dist(walk[Receiver].i) <= Dist(end)
    /\ Visiting(Receiver) => Dist(walk[Receiver].i) < Dist(end)

(* A slot in flight holds the message sent so many sends ago, or nothing. *)
Message(i) == sent[Len(sent) + 1 - ToEnd(i)]
ContentInv ==
  /\ \A i \in Slot : Flying(i) => val[i] \in {NULL, Message(i)}
  /\ pc[Receiver] \in {"log", "count"} /\ op[Receiver].then = "unlink" =>
       op[Receiver].refed = sent[Len(received) + 1]
  /\ pc[Sender] = "S2" => val[end] = op[Sender].refed

(* The redo record: of the operation in progress, or of the last one.      *)
Entry(p) ==
  log[p].func = op[p].func /\ log[p].ref = op[p].ref /\ log[p].refed = op[p].refed
OldLink(p) ==
  log[p].func = "LINK" /\ log[p].done /\ pc[p] # "store" =>
    IF p = Sender
    THEN /\ log[p].ref \in Slot
         /\ pc[p] # "S2" => /\ ToEnd(log[p].ref) = 1 /\ sent # <<>>
                            /\ log[p].refed = sent[Len(sent)]
    ELSE /\ Mine(p, log[p].ref) /\ val[log[p].ref] = log[p].refed
         /\ pc[p] \in {"unlink", "wild"} \/ (pc[p] = "log" /\ op[p].then = "R3")
OldUnlink(p) ==
  log[p].func = "UNLINK" /\ log[p].done /\ pc[p] # "store" =>
    IF log[p].ref \in Slot
    THEN IF p = Sender THEN walk[p].phase # "none"
         ELSE Flying(log[p].ref) \/ Dist(log[p].ref) = MESSAGE_BUFFER_SIZE - 1
    ELSE Owner[log[p].ref] = p
LogInv(p) ==
  /\ log[p].done => log[p].func # "none" /\ log[p].ref \in Loc /\ log[p].refed \in Obj
  /\ status[p] \in {"run", "dead"} =>
    /\ pc[p] = "count" => Entry(p) /\ ~log[p].done
    /\ pc[p] = "store" => Entry(p) /\ log[p].done
    /\ pc[p] = "S2" =>
         log[p].func = "LINK" /\ log[p].ref = end /\ log[p].refed = op[p].refed /\ log[p].done
    /\ pc[p] = "R3" => log[p].func = "UNLINK" /\ log[p].ref = start
    /\ OldLink(p) /\ OldUnlink(p)

RingInv ==
  /\ CursorInv /\ UsedInv /\ ContentInv /\ OldUnlinkHarmless
  /\ \A p \in Client : LogInv(p)

-----------------------------------------------------------------------------
(* The references, as long as none of the known races has happened.        *)

(* The sender's walk looks at slots that are not in flight, until nobody   *)
(* receives.                                                               *)
WalkInv ==
  /\ walk[Sender].phase = "free" => ~Flying(walk[Sender].i)
  /\ walk[Sender].phase = "all" => receiverId = NULL /\ walk[Receiver].phase # "used"

(* What is at the place an operation works on. *)
PlaceInv(p) ==
  /\ pc[p] \in OpLabel => val[op[p].ref] = IF op[p].func = "LINK" THEN NULL ELSE op[p].refed
  /\ pc[p] = "release" => val[op[p].ref] = NULL
  /\ pc[p] = "link" => val[op[p].ref] = NULL
  /\ pc[p] = "next" => val[walk[p].i] = NULL
PlacesInv ==
  /\ \A p \in Client : PlaceInv(p)
  /\ Fetching \/ pc[Receiver] = "unlink" => val[start] # NULL
  /\ pc[Receiver] = "R3" => val[start] = NULL
  /\ \A r \in Root : ~inUse[r] => val[r] = NULL

(* A walk that has passed the RootRefs has released them. *)
PassedRoots(p) == status[p] = "gone" \/ walk[p].phase \notin {"none", "roots"}
RootsInv == \A r \in Root : PassedRoots(Owner[r]) => ~inUse[r]

(* Outside of the part in flight only the slot at end may hold something,  *)
(* which a sender that failed has not sent: its walk comes there first.    *)
OutsideInv ==
  \A i \in Slot : val[i] # NULL /\ ~Flying(i) =>
    /\ i = end /\ status[Sender] # "gone"
    /\ \/ Sending \/ walk[Sender].phase = "roots"
       \/ walk[Sender].phase = "free" /\ walk[Sender].i = end

(* A message in flight will be found by a walk of the sender's side, or of *)
(* the receiver's.                                                         *)
Undecided == status[Sender] # "gone" /\ walk[Sender].phase \in {"none", "roots", "free", "ask"}
SenderFinds(i) ==
  Undecided \/ (walk[Sender].phase = "all" /\ ToEnd(i) <= ToEnd(walk[Sender].i))
ReceiverFinds(i) ==
  /\ receiverId = Receiver
  /\ \/ walk[Receiver].phase \in {"none", "roots"}
     \/ walk[Receiver].phase = "used" /\ Dist(walk[Receiver].i) <= Dist(i)
FoundInv ==
  /\ \A i \in Slot : val[i] # NULL /\ Flying(i) => SenderFinds(i) \/ ReceiverFinds(i)
  /\ walk[Sender].phase = "ask" => ToEnd(start) <= ToEnd(walk[Sender].i)
  /\ walk[Receiver].phase = "used" =>
       \A i \in Slot : Dist(i) < Dist(walk[Receiver].i) => val[i] = NULL

Quiet ==
  CountExact /\ MessageStays /\ WalkInv /\ PlacesInv /\ RootsInv /\ OutsideInv /\ FoundInv
QuietInv == races = {} => Quiet
=============================================================================
