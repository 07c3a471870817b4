---------------------------- MODULE EraRefCount ----------------------------
(***************************************************************************)
(* Era-based reference counting of CXL-SHM with crash recovery.            *)
(*                                                                         *)
(* Clients (one per thread-local-state slot) share CXLObj blocks.  A       *)
(* client owns RootRef blocks; a RootRef holds at most one counted         *)
(* pointer.  The ref_info word of an object packs (lcid, ref_cnt, lenum):  *)
(* the client that changed the count last, the count, and that client's    *)
(* era at the time.  link_reference and unlink_reference change the word   *)
(* with one CAS and the pointer with a later store; a client may fail      *)
(* between any two steps.  The monitor then decides from the redo log and  *)
(* the era matrix whether the CAS of the dead client took effect, finishes *)
(* or drops the operation, and releases the dead client's RootRefs.        *)
(*                                                                         *)
(* Objects here carry no embedded references (embedded_ref_cnt = 0), and a *)
(* RootRef is used through one CXLRef only.  A slot is not used again      *)
(* after recovery.                                                         *)
(***************************************************************************)
EXTENDS Integers, FiniteSets

CONSTANTS
  Thread,             \* thread ids that can attach; a set of ids from 1
  MAX_THREAD,         \* rows and columns of the era array
  REDO_CACHELINE_CNT, \* redo log lines of a thread
  CNT_LIMIT,          \* 2^(bits of ref_cnt), 2^16 in the code
  RootRef,            \* RootRef blocks
  CXLObj,             \* object blocks
  Home,               \* thread whose segment a block lies in
  NULL,               \* offset 0
  InitEra,            \* era(i, i) before thread_init, left by earlier users
  MaxEra,             \* bound: no operation starts so many eras after InitEra
  Quiescent           \* TRUE: recovery runs only while no client runs

Block == RootRef \cup CXLObj
Lines == 0 .. REDO_CACHELINE_CNT - 1

ASSUME ThreadAssumption == Thread \subseteq Nat \ {0}
ASSUME SizeAssumption ==
  MAX_THREAD \in Nat /\ REDO_CACHELINE_CNT \in Nat \ {0} /\ CNT_LIMIT \in Nat \ {0, 1}
ASSUME BlockAssumption ==
  /\ RootRef \cap CXLObj = {}
  /\ NULL \notin Block
  /\ Home \in [Block -> Thread]
ASSUME EraAssumption == InitEra \in [Thread -> Nat] /\ MaxEra \in Nat
ASSUME ModeAssumption == Quiescent \in BOOLEAN

VARIABLES
  refInfo,  \* CXLObj.ref_info, unpacked
  era,      \* era[i][j]: highest era of j that i has seen; era[i][i] its own
  redo,     \* redo[i][n]: line n of the redo log of slot i
  pptr,     \* RootRef.pptr
  inUse,    \* RootRef.in_use
  block,    \* "away": on no page's free list; "free": on it; "used": handed out
  slot,     \* "vacant", "run", "dead" (failed), "gone" (recovered)
  pc,       \* step a client executes next; kept from its death to its recovery
  op,       \* local variables of the operation in progress, kept likewise
  mon       \* local variables of the monitor

clientVars == <<refInfo, era, redo, pptr, inUse, block, slot, pc, op>>
vars == <<refInfo, era, redo, pptr, inUse, block, slot, pc, op, mon>>

-----------------------------------------------------------------------------
(* The ref_info word.  ref_cnt has no guard against its width: a carry or a *)
(* borrow goes into the lcid field.                                         *)
PackWithoutEra(c, n, e) ==      \* faulty variant: the era is left out
  [cid |-> c + (n \div CNT_LIMIT), cnt |-> n % CNT_LIMIT, era |-> 0]
PackRefInfo(c, n, e) ==
  [cid |-> c + (n \div CNT_LIMIT), cnt |-> n % CNT_LIMIT, era |-> e]
ZeroInfo == [cid |-> 0, cnt |-> 0, era |-> 0]

NoLog == [func_id |-> "none", cur_era |-> 0, ref |-> NULL, refed |-> NULL]
NoOp  == [func |-> "none", ref |-> NULL, refed |-> NULL, src |-> NULL,
          saw |-> ZeroInfo, line |-> 0]
NoMon == [pc |-> "watch", tgt |-> 0, log |-> NoLog, ref |-> NULL, saw |-> ZeroInfo,
          row |-> 0, max |-> 0, need |-> FALSE]

(* The redo line an operation of era e writes. *)
RedoLine(e) == e % REDO_CACHELINE_CNT

(* Line n is the one the monitor selects: the first with the highest era. *)
LatestFirst(i, n) == n = 0      \* faulty variant: only the first line
Latest(i, n) ==
  \A m \in Lines : /\ redo[i][m].cur_era <= redo[i][n].cur_era
                   /\ m < n => redo[i][m].cur_era < redo[i][n].cur_era

(* What the redo of a record stores in the reference. *)
RedoValueSwapped(g) == g.ref    \* faulty variants: the wrong field,
RedoValueLinked(g) == g.refed   \* an unlink redone as a link
RedoValue(g) == IF g.func_id = "LINK" THEN g.refed ELSE NULL

(* RootRef ref is the source of a hand-over that has not been counted yet. *)
Pinned(ref) ==
  \E k \in Thread : slot[k] = "run" /\ pc[k] # "idle" /\ op[k].src = ref

FreeOf(i, class) == {b \in class : Home[b] = i /\ block[b] = "free"}
AwayOf(i, class) == {b \in class : Home[b] = i /\ block[b] = "away"}

(* The page queue a pending allocation of i needs. *)
Wanted(i) == IF pc[i] = "root" THEN RootRef ELSE CXLObj

-----------------------------------------------------------------------------
Init ==
  /\ refInfo = [o \in CXLObj |-> ZeroInfo]
  /\ era = [i \in Thread |-> [j \in Thread |-> IF i = j THEN InitEra[i] ELSE 0]]
  /\ redo = [i \in Thread |-> [n \in Lines |-> NoLog]]
  /\ pptr = [l \in RootRef |-> NULL]
  /\ inUse = [l \in RootRef |-> FALSE]
  /\ block = [b \in Block |-> "away"]
  /\ slot = [i \in Thread |-> "vacant"]
  /\ pc = [i \in Thread |-> "idle"]
  /\ op = [i \in Thread |-> NoOp]
  /\ mon = NoMon

(* thread_init: the first unused slot, and a step into the next era. *)
ThreadInit(i) ==
  /\ slot[i] = "vacant"
  /\ \A k \in Thread : k < i => slot[k] # "vacant"
  /\ Quiescent => mon.pc = "watch"
  /\ slot' = [slot EXCEPT ![i] = "run"]
  /\ era' = [era EXCEPT ![i][i] = @ + 1]
  /\ UNCHANGED <<refInfo, redo, pptr, inUse, block, pc, op, mon>>

(* A failure (POTENTIAL_FAULT, _exit) between any two steps.  The holder of *)
(* an offset it has handed over outlives the get_ref of the receiver,       *)
(* unless recovery waits for the receiver anyway.                           *)
Crash(i) ==
  /\ slot[i] = "run"
  /\ Quiescent \/ \A l \in RootRef : Home[l] = i /\ Pinned(l) => FALSE
  /\ slot' = [slot EXCEPT ![i] = "dead"]
  /\ UNCHANGED <<refInfo, era, redo, pptr, inUse, block, pc, op, mon>>

Running(i, label) == slot[i] = "run" /\ pc[i] = label
CanStart(i) == Running(i, "idle") /\ era[i][i] < InitEra[i] + MaxEra

(* The operation of i is over, and its local variables with it. *)
Return(i) ==
  /\ pc' = [pc EXCEPT ![i] = "idle"]
  /\ op' = [op EXCEPT ![i] = NoOp]

(* The bounded heap of the model still has a block of the class for i. *)
Available(i, class) == \E b \in class : Home[b] = i /\ block[b] # "used"

-----------------------------------------------------------------------------
(* cxl_malloc and its allocator calls. *)
CxlMalloc(i) ==
  /\ CanStart(i) /\ Available(i, RootRef) /\ Available(i, CXLObj)
  /\ op' = [op EXCEPT ![i] = [NoOp EXCEPT !.func = "ALLOC"]]
  /\ pc' = [pc EXCEPT ![i] = "root"]
  /\ UNCHANGED <<refInfo, era, redo, pptr, inUse, block, slot, mon>>

(* get_ref of an offset that RootRef src holds, src not being released. *)
GetRef(i, src) ==
  /\ CanStart(i) /\ Available(i, RootRef)
  /\ slot[Home[src]] = "run" /\ inUse[src] /\ pptr[src] # NULL
  /\ pc[Home[src]] # "idle" => op[Home[src]].ref # src
  /\ op' = [op EXCEPT ![i] =
             [NoOp EXCEPT !.func = "LINK", !.refed = pptr[src], !.src = src]]
  /\ pc' = [pc EXCEPT ![i] = "root"]
  /\ UNCHANGED <<refInfo, era, redo, pptr, inUse, block, slot, mon>>

(* ~CXLRef of the last CXLRef of RootRef l: test_free, without embedded    *)
(* references, is unlink_reference whatever count it reads.                *)
Drop(i, l) ==
  /\ CanStart(i)
  /\ Home[l] = i /\ inUse[l] /\ pptr[l] # NULL /\ ~Pinned(l)
  /\ op' = [op EXCEPT ![i] =
             [NoOp EXCEPT !.func = "UNLINK", !.ref = l, !.refed = pptr[l]]]
  /\ pc' = [pc EXCEPT ![i] = "read"]
  /\ UNCHANGED <<refInfo, era, redo, pptr, inUse, block, slot, mon>>

(* cxl_malloc_generic: no free block on the page, so the redo log is wiped *)
(* line by line and the freed blocks are collected (or a new page carved). *)
SlowPathKeepsLog(i) ==          \* faulty variant: the log is not wiped
  /\ pc[i] \in {"root", "object"} /\ Running(i, pc[i])
  /\ FreeOf(i, Wanted(i)) = {}
  /\ pc' = [pc EXCEPT ![i] = IF @ = "root" THEN "clear root" ELSE "clear object"]
  /\ op' = [op EXCEPT ![i].line = REDO_CACHELINE_CNT]
  /\ UNCHANGED <<refInfo, era, redo, pptr, inUse, block, slot, mon>>
SlowPath(i) ==
  /\ pc[i] \in {"root", "object"} /\ Running(i, pc[i])
  /\ FreeOf(i, Wanted(i)) = {}
  /\ pc' = [pc EXCEPT ![i] = IF @ = "root" THEN "clear root" ELSE "clear object"]
  /\ op' = [op EXCEPT ![i].line = 0]
  /\ UNCHANGED <<refInfo, era, redo, pptr, inUse, block, slot, mon>>

ClearRedo(i) ==
  /\ pc[i] \in {"clear root", "clear object"} /\ Running(i, pc[i])
  /\ op[i].line \in Lines
  /\ redo' = [redo EXCEPT ![i][op[i].line] = NoLog]
  /\ op' = [op EXCEPT ![i].line = @ + 1]
  /\ UNCHANGED <<refInfo, era, pptr, inUse, block, slot, pc, mon>>

Collect(i) ==
  /\ pc[i] \in {"clear root", "clear object"} /\ Running(i, pc[i])
  /\ op[i].line \notin Lines
  /\ LET class == IF pc[i] = "clear root" THEN RootRef ELSE CXLObj IN
     \E found \in SUBSET AwayOf(i, class) \ {{}} :
       block' = [b \in Block |-> IF b \in found THEN "free" ELSE block[b]]
  /\ pc' = [pc EXCEPT ![i] = IF @ = "clear root" THEN "root" ELSE "object"]
  /\ UNCHANGED <<refInfo, era, redo, pptr, inUse, slot, op, mon>>

(* block_to_tbr: take a RootRef off the page, empty and in use. *)
BlockToTbr(i) ==
  /\ Running(i, "root")
  /\ \E l \in FreeOf(i, RootRef) :
       /\ block' = [block EXCEPT ![l] = "used"]
       /\ pptr' = [pptr EXCEPT ![l] = NULL]
       /\ inUse' = [inUse EXCEPT ![l] = TRUE]
       /\ op' = [op EXCEPT ![i].ref = l]
  /\ pc' = [pc EXCEPT ![i] = IF op[i].func = "ALLOC" THEN "object" ELSE "read"]
  /\ UNCHANGED <<refInfo, era, redo, slot, mon>>

(* link_block_to_tbr: the RootRef points at a block still on the page. *)
LinkBlockToTbr(i) ==
  /\ Running(i, "object")
  /\ \E o \in FreeOf(i, CXLObj) :
       /\ pptr' = [pptr EXCEPT ![op[i].ref] = o]
       /\ op' = [op EXCEPT ![i].refed = o]
  /\ pc' = [pc EXCEPT ![i] = "take"]
  /\ UNCHANGED <<refInfo, era, redo, inUse, block, slot, mon>>

(* block_to_cxlobj: take the block, step the era, then stamp the object    *)
(* with count 1 and the era before the step.                               *)
TakeBlock(i) ==
  /\ Running(i, "take")
  /\ block' = [block EXCEPT ![op[i].refed] = "used"]
  /\ era' = [era EXCEPT ![i][i] = @ + 1]
  /\ pc' = [pc EXCEPT ![i] = "stamp"]
  /\ UNCHANGED <<refInfo, redo, pptr, inUse, slot, op, mon>>

StampObject(i) ==
  /\ Running(i, "stamp")
  /\ refInfo' = [refInfo EXCEPT ![op[i].refed] = PackRefInfo(i, 1, era[i][i] - 1)]
  /\ Return(i)
  /\ UNCHANGED <<era, redo, pptr, inUse, block, slot, mon>>

-----------------------------------------------------------------------------
(* link_reference and unlink_reference. *)
ReadInfo(i) ==
  /\ Running(i, "read")
  /\ op' = [op EXCEPT ![i].saw = refInfo[op[i].refed]]
  /\ pc' = [pc EXCEPT ![i] = "note"]
  /\ UNCHANGED <<refInfo, era, redo, pptr, inUse, block, slot, mon>>

(* Row i of the era array after i has seen the stamp of info. *)
NotedNever(i, info) == era      \* faulty variants: nothing is noted,
NotedSwapped(i, info) ==        \* row and column are exchanged
  IF info.cid \in Thread /\ info.era > era[i][info.cid]
  THEN [era EXCEPT ![info.cid][i] = info.era]
  ELSE era
Noted(i, info) ==
  IF info.cid \in Thread /\ info.era > era[i][info.cid]
  THEN [era EXCEPT ![i][info.cid] = info.era]
  ELSE era

NoteEra(i) ==
  /\ Running(i, "note")
  /\ era' = Noted(i, op[i].saw)
  /\ pc' = [pc EXCEPT ![i] = "log"]
  /\ UNCHANGED <<refInfo, redo, pptr, inUse, block, slot, op, mon>>

WriteLog(i) ==
  /\ Running(i, "log")
  /\ redo' = [redo EXCEPT ![i][RedoLine(era[i][i])] =
               [func_id |-> op[i].func, cur_era |-> era[i][i],
                ref |-> op[i].ref, refed |-> op[i].refed]]
  /\ pc' = [pc EXCEPT ![i] = "cas"]
  /\ UNCHANGED <<refInfo, era, pptr, inUse, block, slot, op, mon>>

DeltaUncounted(i) == IF op[i].func = "LINK" THEN 0 ELSE -1  \* faulty variant
Delta(i) == IF op[i].func = "LINK" THEN 1 ELSE -1

(* The commit point.  A hand-over is counted from here on. *)
CasInfo(i) ==
  /\ Running(i, "cas")
  /\ refInfo[op[i].refed] = op[i].saw
  /\ refInfo' = [refInfo EXCEPT ![op[i].refed] =
                  PackRefInfo(i, op[i].saw.cnt + Delta(i), era[i][i])]
  /\ op' = [op EXCEPT ![i].src = NULL]
  /\ pc' = [pc EXCEPT ![i] = "store"]
  /\ UNCHANGED <<era, redo, pptr, inUse, block, slot, mon>>

CasRetryStale(i) ==             \* faulty variant: ref_info is not read again
  /\ Running(i, "cas")
  /\ refInfo[op[i].refed] # op[i].saw
  /\ pc' = [pc EXCEPT ![i] = "note"]
  /\ UNCHANGED <<refInfo, era, redo, pptr, inUse, block, slot, op, mon>>
CasRetry(i) ==
  /\ Running(i, "cas")
  /\ refInfo[op[i].refed] # op[i].saw
  /\ pc' = [pc EXCEPT ![i] = "read"]
  /\ UNCHANGED <<refInfo, era, redo, pptr, inUse, block, slot, op, mon>>

StoreRef(i) ==
  /\ Running(i, "store")
  /\ pptr' = [pptr EXCEPT ![op[i].ref] =
               IF op[i].func = "LINK" THEN op[i].refed ELSE NULL]
  /\ pc' = [pc EXCEPT ![i] = "bump"]
  /\ UNCHANGED <<refInfo, era, redo, inUse, block, slot, op, mon>>

(* The count an unlink replaced says whether the object is to be freed. *)
LastReferenceOffByOne(i) == op[i].saw.cnt <= 2  \* faulty variant
LastReference(i) == op[i].saw.cnt = 1

(* The era step, at which an operation is over unless it has to free. *)
BumpEra(i) ==
  /\ Running(i, "bump")
  /\ era' = [era EXCEPT ![i][i] = @ + 1]
  /\ IF op[i].func = "LINK" THEN Return(i)
     ELSE /\ pc' = [pc EXCEPT ![i] = IF LastReference(i) THEN "wipe" ELSE "release"]
          /\ UNCHANGED op
  /\ UNCHANGED <<refInfo, redo, pptr, inUse, block, slot, mon>>

(* cxl_free(false, refed): zero the header, then push the block on         *)
(* local_free or on the thread_free list of its segment.                   *)
WipeObject(i) ==
  /\ Running(i, "wipe")
  /\ refInfo' = [refInfo EXCEPT ![op[i].refed] = ZeroInfo]
  /\ pc' = [pc EXCEPT ![i] = "push"]
  /\ UNCHANGED <<era, redo, pptr, inUse, block, slot, op, mon>>

(* block' once i has pushed b: the owner may have emptied the page, which  *)
(* then leaves the page queue with its free list.                          *)
Pushed(i, b, class) ==
  {[c \in Block |-> IF c = b \/ c \in gone THEN "away" ELSE block[c]] :
     gone \in {{}, IF Home[b] = i THEN FreeOf(i, class) ELSE {}}}

PushObject(i) ==
  /\ Running(i, "push")
  /\ block' \in Pushed(i, op[i].refed, CXLObj)
  /\ pc' = [pc EXCEPT ![i] = "release"]
  /\ UNCHANGED <<refInfo, era, redo, pptr, inUse, slot, op, mon>>

(* The end of ~CXLRef: in_use = 0 and cxl_free(true, tbr). *)
Release(i) ==
  /\ Running(i, "release")
  /\ inUse' = [inUse EXCEPT ![op[i].ref] = FALSE]
  /\ pptr' = [pptr EXCEPT ![op[i].ref] = NULL]
  /\ block' \in Pushed(i, op[i].ref, RootRef)
  /\ Return(i)
  /\ UNCHANGED <<refInfo, era, redo, slot, mon>>

-----------------------------------------------------------------------------
(* The monitor: redo_ref_cnt of a dead slot. *)
Mon(label) == mon.pc = label

Detect(i) ==
  /\ Mon("watch") /\ slot[i] = "dead"
  /\ Quiescent => \A k \in Thread : slot[k] # "run"
  /\ \E n \in Lines :
       /\ Latest(i, n)
       /\ mon' = [NoMon EXCEPT !.tgt = i, !.log = redo[i][n], !.pc =
                   IF redo[i][n].func_id = "none" THEN "gc" ELSE "lcid"]
  /\ UNCHANGED clientVars

(* ref_info is loaded twice: once for the lcid, once for the lenum. *)
LoadLcid ==
  /\ Mon("lcid")
  /\ mon' = [mon EXCEPT !.saw.cid = refInfo[mon.log.refed].cid, !.pc = "lenum"]
  /\ UNCHANGED clientVars

LoadLenum ==
  /\ Mon("lenum")
  /\ mon' = IF mon.saw.cid = mon.tgt /\ refInfo[mon.log.refed].era = mon.log.cur_era
            THEN [mon EXCEPT !.need = TRUE, !.pc = "redo"]
            ELSE [mon EXCEPT !.row = 0, !.pc = "scan"]
  /\ UNCHANGED clientVars

(* era(j, tls_id), for the rows 0 .. MAX_THREAD - 1 of the loop. *)
SeenByTransposed(j, i) == IF j \in Thread THEN era[i][j] ELSE 0  \* faulty variant
SeenBy(j, i) == IF j \in Thread THEN era[j][i] ELSE 0

ScanRow ==
  /\ Mon("scan") /\ mon.row < MAX_THREAD
  /\ mon' = [mon EXCEPT !.row = @ + 1, !.max =
              IF mon.row # mon.tgt /\ SeenBy(mon.row, mon.tgt) > @
              THEN SeenBy(mon.row, mon.tgt) ELSE @]
  /\ UNCHANGED clientVars

CoveredStrictly(g, max) == g.cur_era < max  \* faulty variant
Covered(g, max) == g.cur_era <= max

ScanEnd ==
  /\ Mon("scan") /\ mon.row = MAX_THREAD
  /\ mon' = [mon EXCEPT !.need = Covered(mon.log, mon.max), !.pc = "redo"]
  /\ UNCHANGED clientVars

Redo ==
  /\ Mon("redo")
  /\ pptr' = IF mon.need THEN [pptr EXCEPT ![mon.log.ref] = RedoValue(mon.log)]
             ELSE pptr
  /\ mon' = [mon EXCEPT !.pc = "gc"]
  /\ UNCHANGED <<refInfo, era, redo, inUse, block, slot, pc, op>>

(* recovery_garbage_collection: each RootRef of the dead thread that is in *)
(* use.  Nothing to unlink if it is empty, if it points at the block at    *)
(* the head of a page, or if the count is zero (recovery_test_free).       *)
Visit(l) ==
  /\ Mon("gc") /\ Home[l] = mon.tgt /\ inUse[l]
  /\ mon' = [mon EXCEPT !.ref = l, !.pc =
              IF pptr[l] = NULL \/ block[pptr[l]] = "free" \/ refInfo[pptr[l]].cnt = 0
              THEN "drop" ELSE "read"]
  /\ UNCHANGED clientVars

(* recovery_unlink_reference: as unlink_reference, without a redo log. *)
MonRead ==
  /\ Mon("read")
  /\ mon' = [mon EXCEPT !.saw = refInfo[pptr[mon.ref]], !.pc = "note"]
  /\ UNCHANGED clientVars

MonNote ==
  /\ Mon("note")
  /\ era' = Noted(mon.tgt, mon.saw)
  /\ mon' = [mon EXCEPT !.pc = "cas"]
  /\ UNCHANGED <<refInfo, redo, pptr, inUse, block, slot, pc, op>>

MonCas ==
  /\ Mon("cas")
  /\ LET o == pptr[mon.ref]  i == mon.tgt IN
     /\ refInfo[o] = mon.saw
     /\ refInfo' = [refInfo EXCEPT ![o] = PackRefInfo(i, mon.saw.cnt - 1, era[i][i])]
  /\ mon' = [mon EXCEPT !.pc = "store"]
  /\ UNCHANGED <<era, redo, pptr, inUse, block, slot, pc, op>>

MonRetryStale ==                \* faulty variant: ref_info is not read again
  /\ Mon("cas") /\ refInfo[pptr[mon.ref]] # mon.saw
  /\ mon' = [mon EXCEPT !.pc = "note"]
  /\ UNCHANGED clientVars
MonRetry ==
  /\ Mon("cas") /\ refInfo[pptr[mon.ref]] # mon.saw
  /\ mon' = [mon EXCEPT !.pc = "read"]
  /\ UNCHANGED clientVars

(* _ref = 0, the era step, and recovery_cxl_free of a block whose count    *)
(* was one.                                                                *)
MonStore ==
  /\ Mon("store")
  /\ LET o == pptr[mon.ref]  last == mon.saw.cnt = 1 IN
     /\ refInfo' = IF last THEN [refInfo EXCEPT ![o] = ZeroInfo] ELSE refInfo
     /\ block' = IF last THEN [block EXCEPT ![o] = "away"] ELSE block
  /\ pptr' = [pptr EXCEPT ![mon.ref] = NULL]
  /\ era' = [era EXCEPT ![mon.tgt][mon.tgt] = @ + 1]
  /\ mon' = [mon EXCEPT !.pc = "drop"]
  /\ UNCHANGED <<redo, inUse, slot, pc, op>>

(* tbr->in_use = 0 and recovery_cxl_free(true, tbr). *)
MonDrop ==
  /\ Mon("drop")
  /\ inUse' = [inUse EXCEPT ![mon.ref] = FALSE]
  /\ pptr' = [pptr EXCEPT ![mon.ref] = NULL]
  /\ block' = [block EXCEPT ![mon.ref] = "away"]
  /\ mon' = [mon EXCEPT !.pc = "gc"]
  /\ UNCHANGED <<refInfo, era, redo, slot, pc, op>>

(* The slot is given back once no RootRef of the thread is in use. *)
Finish ==
  /\ Mon("gc") /\ \A l \in RootRef : Home[l] = mon.tgt => ~inUse[l]
  /\ slot' = [slot EXCEPT ![mon.tgt] = "gone"]
  /\ Return(mon.tgt)
  /\ mon' = NoMon
  /\ UNCHANGED <<refInfo, era, redo, pptr, inUse, block>>

-----------------------------------------------------------------------------
Start(i) ==
  \/ CxlMalloc(i)
  \/ \E l \in RootRef : GetRef(i, l) \/ Drop(i, l)

(* The steps of an operation that has been started. *)
Step(i) ==
  \/ SlowPath(i) \/ ClearRedo(i) \/ Collect(i) \/ BlockToTbr(i)
  \/ LinkBlockToTbr(i) \/ TakeBlock(i) \/ StampObject(i)
  \/ ReadInfo(i) \/ NoteEra(i) \/ WriteLog(i) \/ CasInfo(i) \/ CasRetry(i)
  \/ StoreRef(i) \/ BumpEra(i) \/ WipeObject(i) \/ PushObject(i) \/ Release(i)

Monitor ==
  \/ \E i \in Thread : Detect(i)
  \/ LoadLcid \/ LoadLenum \/ ScanRow \/ ScanEnd \/ Redo
  \/ \E l \in RootRef : Visit(l)
  \/ MonRead \/ MonNote \/ MonCas \/ MonRetry \/ MonStore \/ MonDrop \/ Finish

Next ==
  \/ \E i \in Thread : ThreadInit(i) \/ Crash(i) \/ Start(i) \/ Step(i)
  \/ Monitor

Spec == Init /\ [][Next]_vars

(* A client that has not failed goes on with its operation; nothing says   *)
(* that it starts one, or that it fails.                                   *)
ClientFairness == \A i \in Thread : WF_vars(Step(i))
FairSpec == Spec /\ ClientFairness

-----------------------------------------------------------------------------
Info == [cid : Int, cnt : Nat, era : Nat]
Log == {NoLog} \cup [func_id : {"LINK", "UNLINK"}, cur_era : Nat,
                      ref : RootRef, refed : CXLObj]
Op == [func : {"none", "ALLOC", "LINK", "UNLINK"}, ref : RootRef \cup {NULL},
       refed : CXLObj \cup {NULL}, src : RootRef \cup {NULL}, saw : Info, line : Nat]
Label == {"idle", "root", "object", "clear root", "clear object", "take", "stamp",
          "read", "note", "log", "cas", "store", "bump", "wipe", "push", "release"}
MonState == [pc : {"watch", "lcid", "lenum", "scan", "redo", "gc", "read", "note",
                   "cas", "store", "drop"},
             tgt : Thread \cup {0}, log : Log, ref : RootRef \cup {NULL}, saw : Info,
             row : Nat, max : Nat, need : BOOLEAN]

(* Type invariant. *)
TypeOK ==
  /\ refInfo \in [CXLObj -> Info]
  /\ era \in [Thread -> [Thread -> Nat]]
  /\ redo \in [Thread -> [Lines -> Log]]
  /\ pptr \in [RootRef -> CXLObj \cup {NULL}]
  /\ inUse \in [RootRef -> BOOLEAN]
  /\ block \in [Block -> {"away", "free", "used"}]
  /\ slot \in [Thread -> {"vacant", "run", "dead", "gone"}]
  /\ pc \in [Thread -> Label]
  /\ op \in [Thread -> Op]
  /\ mon \in MonState

-----------------------------------------------------------------------------
(* The operation of i has passed its CAS and not yet stored the pointer;   *)
(* for a dead client, the redo has not finished it either.                 *)
Redone(i) == mon.tgt = i /\ mon.pc \in {"gc", "read", "note", "cas", "store", "drop"}
Unstored(i) == pc[i] = "store" /\ ~Redone(i)

(* The object RootRef l counts for: its pointer, but for an operation in   *)
(* progress on it, which counts from its commit point.                     *)
View(l) ==
  LET i == Home[l]  mine == op[i].ref = l IN
  CASE ~inUse[l] -> NULL
    [] inUse[l] /\ mine /\ Unstored(i) ->
         IF op[i].func = "LINK" THEN op[i].refed ELSE NULL
    [] inUse[l] /\ mine /\ pc[i] \in {"take", "stamp"} -> NULL
    [] inUse[l] /\ mon.pc = "store" /\ mon.ref = l -> NULL
    [] OTHER -> pptr[l]

Holders(o) == {l \in RootRef : View(l) = o}

(* The count of an object is the number of references to it, at every step *)
(* of every operation and through every failure and recovery.              *)
CountExact == \A o \in CXLObj : refInfo[o].cnt = Cardinality(Holders(o))

(* The same, in terms of the memory alone: when no operation is in         *)
(* progress and no failed client is waiting for recovery, the count is the *)
(* number of RootRefs in use that hold the object.                         *)
Settled == \A i \in Thread : slot[i] # "dead" /\ (slot[i] = "run" => pc[i] = "idle")
RecoveredExact ==
  Settled => \A o \in CXLObj :
    refInfo[o].cnt = Cardinality({l \in RootRef : inUse[l] /\ pptr[l] = o})

(* Every count that a client or the monitor is about to write fits its     *)
(* field: nobody drops a reference of an object without references, and no *)
(* carry or borrow reaches the lcid.                                       *)
CountFits ==
  /\ \A i \in Thread :
       pc[i] = "cas" /\ refInfo[op[i].refed] = op[i].saw =>
         op[i].saw.cnt + Delta(i) \in 0 .. CNT_LIMIT - 1
  /\ mon.pc = "cas" /\ refInfo[pptr[mon.ref]] = mon.saw =>
       mon.saw.cnt - 1 \in 0 .. CNT_LIMIT - 1

(* No wild pointer: a block that a RootRef holds, or that a live client    *)
(* works on between reading its ref_info and the CAS, is on no free list   *)
(* and has not been freed.                                                 *)
NoWildPointer ==
  /\ \A l \in RootRef : View(l) # NULL => block[View(l)] = "used"
  /\ \A i \in Thread : slot[i] = "run" /\ pc[i] \in {"read", "note", "log", "cas"} =>
       block[op[i].refed] = "used" /\ refInfo[op[i].refed].cnt > 0

(* No thread has seen an era that its owner has not reached, neither in    *)
(* its row of the era array nor in the word of an object.                  *)
EraCausal ==
  /\ \A i, j \in Thread : era[j][i] <= era[i][i]
  /\ \A i \in Thread, o \in CXLObj : refInfo[o].cid = i => refInfo[o].era <= era[i][i]

(* The era evidence tells exactly whether the operation a redo record      *)
(* describes was committed: the stamp is on the object, or was seen by     *)
(* whoever replaced it.  Stated of the rows the monitor's loop covers.     *)
Evidence(i, g) ==
  \/ refInfo[g.refed].cid = i /\ refInfo[g.refed].era = g.cur_era
  \/ \E j \in 0 .. MAX_THREAD - 1 : j # i /\ g.cur_era <= SeenBy(j, i)
Current(i, g) == g.func_id # "none" /\ g.cur_era = era[i][i]
EvidenceExact ==
  \A i \in Thread : slot[i] \in {"run", "dead"} /\ ~Redone(i) =>
    \A n \in Lines : LET g == redo[i][n] IN
      Latest(i, n) /\ Current(i, g) =>
        (Evidence(i, g) <=> pc[i] \in {"store", "bump"})

(* The monitor's verdict on the operation in progress at the failure is    *)
(* right, although it reads ref_info and the rows one at a time.           *)
VerdictExact ==
  mon.pc = "redo" /\ Current(mon.tgt, mon.log) =>
    (mon.need <=> pc[mon.tgt] \in {"store", "bump"})

(* A redo record of an earlier operation can be replayed at any time: its  *)
(* RootRef still holds what the record says, or is not in use.  (The slow  *)
(* path wipes the log before a freed RootRef is handed out again.)         *)
RedoHarmless ==
  \A i \in Thread : slot[i] \in {"run", "dead"} /\ ~Redone(i) =>
    \A n \in Lines : LET g == redo[i][n] IN
      Latest(i, n) /\ g.func_id # "none" /\ g.cur_era < era[i][i] /\ inUse[g.ref] =>
        pptr[g.ref] = RedoValue(g)

(* A word that has moved on from what a pending CAS expects never comes    *)
(* back to it.                                                             *)
NoABA ==
  [][\A i \in Thread : Running(i, "cas") /\ pc'[i] = "cas" =>
       (refInfo[op[i].refed] # op[i].saw => refInfo'[op[i].refed] # op[i].saw)]_vars

(* No global blocking: an operation ends, or its client fails, whatever    *)
(* the other clients and the monitor do or leave undone.                   *)
ClientsNotBlocked ==
  \A i \in Thread :
    (slot[i] = "run" /\ pc[i] # "idle") ~> (pc[i] = "idle" \/ slot[i] # "run")

(* A failed client is recovered if the monitor goes on, whatever the live  *)
(* clients do.                                                             *)
RecoveryCompletes ==
  WF_vars(Monitor) => \A i \in Thread : slot[i] = "dead" ~> slot[i] = "gone"

-----------------------------------------------------------------------------
(* Refinement: an operation takes effect at its CAS (an allocation when it *)
(* stamps the object), and redo and recovery only finish what took effect. *)
Stamping(o) == \E i \in Thread : pc[i] = "stamp" /\ op[i].refed = o
Status(o) ==
  CASE refInfo[o].cnt > 0 -> "live"
    [] refInfo[o].cnt = 0 /\ block[o] = "used" /\ ~Stamping(o) -> "dying"
    [] OTHER -> "pool"

Atomic == INSTANCE AtomicRefs WITH
  Ref <- RootRef, Obj <- CXLObj,
  held <- [l \in RootRef |-> View(l)],
  status <- [o \in CXLObj |-> Status(o)]

(* The protocol, failures and recovery included, implements AtomicRefs. *)
ImplementsAtomicRefs == Atomic!Spec
=============================================================================
