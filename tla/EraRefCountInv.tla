--------------------------- MODULE EraRefCountInv ---------------------------
(***************************************************************************)
(* The inductive strengthening of the invariants of EraRefCount, in named  *)
(* parts: the shape of the local variables, the causality of the eras, and *)
(* what the lines of a redo log say of the RootRefs they name.             *)
(***************************************************************************)
EXTENDS EraRefCount

RootLabel   == {"root", "clear root"}
ObjectLabel == {"object", "clear object"}
AllocLabel  == ObjectLabel \cup {"take", "stamp"}
PreCas      == {"read", "note", "log", "cas"}
PostCas     == {"store", "bump"}
FreeLabel   == {"wipe", "push", "release"}
LinkLabel   == PreCas \cup PostCas \cup FreeLabel

(* What the local variables of a client hold at each of its steps. *)
OpShape(i) ==
  /\ slot[i] \in {"vacant", "gone"} => pc[i] = "idle"
  /\ pc[i] = "idle" => op[i] = NoOp
  /\ pc[i] \in RootLabel =>
       /\ op[i].func \in {"ALLOC", "LINK"} /\ op[i].ref = NULL
       /\ IF op[i].func = "LINK" THEN op[i].refed \in CXLObj ELSE op[i].refed = NULL
  /\ pc[i] \in AllocLabel => op[i].func = "ALLOC"
  /\ pc[i] \in ObjectLabel => op[i].refed = NULL
  /\ pc[i] \in LinkLabel => op[i].func \in {"LINK", "UNLINK"}
  /\ pc[i] \in FreeLabel => op[i].func = "UNLINK"
  /\ pc[i] \in AllocLabel \cup LinkLabel =>
       op[i].ref \in RootRef /\ Home[op[i].ref] = i
  /\ pc[i] \in {"take", "stamp"} \cup LinkLabel => op[i].refed \in CXLObj
  /\ pc[i] \in {"take", "stamp"} => Home[op[i].refed] = i
  /\ pc[i] = "stamp" => era[i][i] > 0

(* What the local variables of the monitor hold at each of its steps. *)
RedoLabel    == {"lcid", "lenum", "scan", "redo"}
UnlinkLabel  == {"read", "note", "cas", "store"}
MonShape ==
  /\ mon.pc = "watch" => mon = NoMon
  /\ mon.pc # "watch" => mon.tgt \in Thread /\ slot[mon.tgt] = "dead"
  /\ mon.pc \in RedoLabel => mon.log # NoLog
  /\ mon.pc \in UnlinkLabel \cup {"drop"} =>
       mon.ref \in RootRef /\ Home[mon.ref] = mon.tgt
  /\ mon.pc \in UnlinkLabel => pptr[mon.ref] \in CXLObj

TypeInv == TypeOK /\ (\A i \in Thread : OpShape(i)) /\ MonShape

-----------------------------------------------------------------------------
(* No stamp is ahead of the client it names, wherever it is kept.          *)
Reached(info) == \A i \in Thread : info.cid = i => info.era <= era[i][i]
EraInv ==
  /\ \A i, j \in Thread : era[j][i] <= era[i][i]
  /\ \A o \in CXLObj : Reached(refInfo[o])
  /\ \A k \in Thread : Reached(op[k].saw)
  /\ Reached(mon.saw)
  /\ mon.pc = "lcid" => mon.saw = ZeroInfo

-----------------------------------------------------------------------------
(* The record of the operation of i, as of era e. *)
Record(i, e) ==
  [func_id |-> op[i].func, cur_era |-> e, ref |-> op[i].ref, refed |-> op[i].refed]
Kept(i, n) == redo[i][n].func_id # "none"

(* The operation of i has emptied its RootRef and not yet released it. *)
Emptied(i) == op[i].func = "UNLINK" /\ pc[i] \in FreeLabel \cup {"bump"}

(* Each record is in its line, none is of a later era, the one of the      *)
(* current era is the operation's in progress, and the RootRefs named are  *)
(* not up for allocation.                                                  *)
LogLines(i) ==
  \A n \in Lines : Kept(i, n) =>
    /\ RedoLine(redo[i][n].cur_era) = n
    /\ redo[i][n].cur_era <= era[i][i]
    /\ redo[i][n].cur_era = era[i][i] =>
         pc[i] \in PreCas \cup PostCas /\ redo[i][n] = Record(i, era[i][i])
    /\ block[redo[i][n].ref] # "free"

(* From the log to the era step the operation's record is there, and while *)
(* its RootRef is released it is the one before.                           *)
LogCurrent(i) ==
  /\ pc[i] \in {"cas"} \cup PostCas =>
       redo[i][RedoLine(era[i][i])] = Record(i, era[i][i])
  /\ pc[i] \in FreeLabel =>
       era[i][i] > 0 /\ redo[i][RedoLine(era[i][i] - 1)] = Record(i, era[i][i] - 1)

(* The slow path has wiped the lines it has passed, and no old record      *)
(* names the RootRef of an allocation or of a link in progress.            *)
LogFresh(i) ==
  /\ pc[i] \in {"clear root", "clear object"} =>
       \A n \in Lines : n < op[i].line => redo[i][n] = NoLog
  /\ pc[i] \in AllocLabel =>
       \A n \in Lines : Kept(i, n) => redo[i][n].ref # op[i].ref
  /\ op[i].func = "LINK" /\ pc[i] \in PreCas \cup PostCas =>
       \A n \in Lines : Kept(i, n) /\ redo[i][n].ref = op[i].ref =>
         redo[i][n].cur_era = era[i][i]

(* What the RootRef of the operation in progress holds. *)
OpHolds(i) ==
  /\ pc[i] \in AllocLabel \cup LinkLabel => block[op[i].ref] = "used"
  /\ op[i].func = "UNLINK" /\ pc[i] \in PreCas \cup {"store"} =>
       pptr[op[i].ref] = op[i].refed
  /\ op[i].func = "LINK" /\ pc[i] = "bump" => pptr[op[i].ref] = op[i].refed
  /\ Emptied(i) => pptr[op[i].ref] = NULL

(* An old record may be replayed, except that the record of the link is    *)
(* out of date while the unlink of the same RootRef ends.                  *)
LogOld(i) ==
  \A n \in Lines : LET g == redo[i][n] IN
    /\ Kept(i, n) /\ g.cur_era < era[i][i] /\ inUse[g.ref]
    /\ ~(Emptied(i) /\ g.func_id = "LINK" /\ g.ref = op[i].ref)
    => pptr[g.ref] = RedoValue(g)

LogActive(i) == slot[i] \in {"run", "dead"} /\ ~Redone(i)
LogInv(i) ==
  /\ slot[i] = "vacant" => \A n \in Lines : redo[i][n] = NoLog
  /\ \A n \in Lines : Kept(i, n) => Home[redo[i][n].ref] = i
  /\ LogActive(i) =>
       LogLines(i) /\ LogCurrent(i) /\ LogFresh(i) /\ OpHolds(i) /\ LogOld(i)

RedoInv ==
  /\ \A i \in Thread : LogInv(i)
  /\ \A l \in RootRef : inUse[l] => block[l] = "used"
  /\ mon.pc \in RedoLabel => Home[mon.log.ref] = mon.tgt
-----------------------------------------------------------------------------
(* Operation i, or the monitor, has an object to itself that nothing       *)
(* refers to: it is about to stamp it, or has dropped the last reference.  *)
Claims(i) ==
  \/ pc[i] = "stamp"
  \/ /\ op[i].func = "UNLINK" /\ op[i].saw.cnt = 1
     /\ pc[i] \in {"store", "bump", "wipe", "push"}
MonClaims == mon.pc = "store" /\ mon.saw.cnt = 1
Unheld(o) == block[o] = "used" /\ refInfo[o].cnt = 0

ClaimInv ==
  /\ \A i \in Thread : Claims(i) => Unheld(op[i].refed)
  /\ \A i, k \in Thread : i # k /\ Claims(i) /\ Claims(k) => op[i].refed # op[k].refed
  /\ MonClaims =>
       /\ Unheld(pptr[mon.ref])
       /\ \A i \in Thread : Claims(i) => op[i].refed # pptr[mon.ref]
  /\ \A i \in Thread : pc[i] \in {"wipe", "push"} => op[i].saw.cnt = 1

(* What the RootRef and the object of an operation are to the count.       *)
Taking(i) == pc[i] \in {"take", "stamp"}
HoldInv(i) ==
  /\ LogActive(i) =>
       /\ pc[i] \in AllocLabel \cup LinkLabel => inUse[op[i].ref]
       /\ pc[i] \in ObjectLabel => pptr[op[i].ref] = NULL
       /\ op[i].func = "LINK" /\ pc[i] \in PreCas \cup {"store"} => pptr[op[i].ref] = NULL
  /\ Taking(i) /\ inUse[op[i].ref] => pptr[op[i].ref] = op[i].refed
  /\ pc[i] = "take" => block[op[i].refed] = "free"
  /\ pc[i] \in {"note", "log", "cas"} => op[i].saw.cnt + Delta(i) \in 0 .. CNT_LIMIT - 1

(* The RootRef a hand-over comes from keeps its reference until the link   *)
(* has been counted.                                                       *)
SourceInv(i) ==
  slot[i] = "run" /\ op[i].func = "LINK" /\ pc[i] \in RootLabel \cup PreCas =>
    LET l == op[i].src IN
    /\ l \in RootRef /\ inUse[l] /\ pptr[l] = op[i].refed
    /\ op[Home[l]].ref # l
    /\ slot[Home[l]] = "run" \/ (Quiescent /\ slot[Home[l]] = "dead")

(* What the RootRef the monitor works on is to the count. *)
MonHold ==
  /\ Quiescent /\ mon.pc # "watch" => \A k \in Thread : slot[k] # "run"
  /\ mon.pc \in UnlinkLabel =>
       inUse[mon.ref] /\ ~(op[mon.tgt].ref = mon.ref /\ Taking(mon.tgt))
  /\ mon.pc = "drop" =>
       pptr[mon.ref] = NULL \/ (op[mon.tgt].ref = mon.ref /\ Taking(mon.tgt))
  /\ mon.pc \in {"note", "cas"} => mon.saw.cnt - 1 \in 0 .. CNT_LIMIT - 1

Used == \A l \in RootRef : View(l) # NULL => block[View(l)] = "used"

CountInv ==
  /\ CountExact /\ Used /\ ClaimInv /\ MonHold
  /\ \A i \in Thread : HoldInv(i) /\ SourceInv(i)

-----------------------------------------------------------------------------
(* Nobody has seen client i in its current era. *)
Unseen(i) ==
  /\ \A j \in Thread \ {i} : era[j][i] < era[i][i]
  /\ \A o \in CXLObj : refInfo[o].cid = i => refInfo[o].era < era[i][i]
  /\ \A k \in Thread : op[k].saw.cid = i => op[k].saw.era < era[i][i]
  /\ mon.saw.cid = i => mon.saw.era < era[i][i]

(* The word that the operation of i has written is still there, or whoever *)
(* replaced it has noted it first.                                         *)
RowSeen(i) == \E j \in Thread \ {i} : era[i][i] <= era[j][i]
Seen(i) ==
  \/ refInfo[op[i].refed] =
       [cid |-> i, cnt |-> op[i].saw.cnt + Delta(i), era |-> era[i][i]]
  \/ RowSeen(i)

SeenInv ==
  /\ \A i \in Thread : slot[i] # "vacant" => era[i][i] > 0
  /\ \A i \in Thread : LogActive(i) =>
       IF pc[i] \in PostCas THEN Seen(i) ELSE Unseen(i)
  /\ \A i, k \in Thread : pc[i] \in {"log", "cas"} /\ op[i].saw.cid = k =>
       op[i].saw.era <= era[i][k]
  /\ \A k \in Thread : mon.pc = "cas" /\ mon.saw.cid = k =>
       mon.saw.era <= era[mon.tgt][k]

(* What the monitor has read so far says of the operation in progress when *)
(* its client failed.                                                      *)
VerdictInv ==
  LET i == mon.tgt IN
  mon.pc \in RedoLabel =>
    /\ \E n \in Lines : Latest(i, n) /\ mon.log = redo[i][n]
    /\ mon.pc \in {"lcid", "lenum"} => mon.max = 0
    /\ mon.pc = "lenum" /\ Quiescent => mon.saw.cid = refInfo[mon.log.refed].cid
    /\ Current(i, mon.log) /\ pc[i] \in PostCas =>
         /\ mon.pc = "lenum" /\ mon.saw.cid # i => RowSeen(i)
         /\ mon.pc = "scan" =>
              \E j \in Thread \ {i} :
                era[i][i] <= era[j][i] /\ (j < mon.row => era[i][i] <= mon.max)
    /\ Current(i, mon.log) /\ pc[i] \notin PostCas /\ mon.pc = "scan" =>
         mon.max < era[i][i]
    /\ VerdictExact

-----------------------------------------------------------------------------
(* What the results rest on, beyond the assumptions on the constants.      *)

(* There are fewer RootRefs than counts that fit the field ref_cnt. *)
FewRefs == IsFiniteSet(RootRef) /\ Cardinality(RootRef) < CNT_LIMIT

(* The monitor's loop over the era array covers every client. *)
RowsCovered == \A i \in Thread : i < MAX_THREAD

(* No word of another client has the era of a client that has failed, or   *)
(* no client runs while the monitor reads the two halves of the word.      *)
StampsApart ==
  Quiescent \/ \A i \in Thread, o \in CXLObj :
    slot[i] = "dead" /\ refInfo[o].era = era[i][i] => refInfo[o].cid = i

-----------------------------------------------------------------------------
(* The inductive invariant. *)
RefInv ==
  TypeInv /\ EraInv /\ RedoInv /\ SeenInv /\ VerdictInv /\ CountInv
=============================================================================
