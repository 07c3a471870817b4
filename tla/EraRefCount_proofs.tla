------------------------- MODULE EraRefCount_proofs -------------------------
(***************************************************************************)
(* Proofs about the reference-counting protocol: type correctness of the   *)
(* memory and of the local variables of every client and of the monitor,   *)
(* and the causality of the eras.                                          *)
(***************************************************************************)
EXTENDS EraRefCountInv, TLAPS

-----------------------------------------------------------------------------
(* Lemmas about the operators of the model. *)

(* A packed ref_info word is well formed, whatever the count. *)
LEMMA PackType ==
  ASSUME NEW c \in Int, NEW n \in Int, NEW e \in Nat
  PROVE  PackRefInfo(c, n, e) \in Info
  BY SizeAssumption DEF PackRefInfo, Info

(* Noting a stamp keeps the era array well formed and lowers no entry. *)
LEMMA NotedType ==
  ASSUME NEW i \in Thread, NEW info \in Info, era \in [Thread -> [Thread -> Nat]]
  PROVE  /\ Noted(i, info) \in [Thread -> [Thread -> Nat]]
         /\ \A k, j \in Thread : era[k][j] <= Noted(i, info)[k][j]
  BY DEF Noted, Info

(* Storing into one field of the local variables keeps their type. *)
LEMMA OpUpdate ==
  ASSUME NEW i \in Thread, op \in [Thread -> Op]
  PROVE  /\ \A o \in Op : [op EXCEPT ![i] = o] \in [Thread -> Op]
         /\ \A l \in RootRef \cup {NULL} :
              /\ [op EXCEPT ![i].ref = l] \in [Thread -> Op]
              /\ [op EXCEPT ![i].src = l] \in [Thread -> Op]
         /\ \A o \in CXLObj \cup {NULL} : [op EXCEPT ![i].refed = o] \in [Thread -> Op]
         /\ \A w \in Info : [op EXCEPT ![i].saw = w] \in [Thread -> Op]
         /\ \A n \in Nat : [op EXCEPT ![i].line = n] \in [Thread -> Op]
  <1>1. \A o \in Op : [op EXCEPT ![i] = o] \in [Thread -> Op]
    OBVIOUS
  <1>2. ASSUME NEW l \in RootRef \cup {NULL}
        PROVE  /\ [op EXCEPT ![i].ref = l] \in [Thread -> Op]
               /\ [op EXCEPT ![i].src = l] \in [Thread -> Op]
    BY DEF Op
  <1>3. ASSUME NEW o \in CXLObj \cup {NULL}
        PROVE  [op EXCEPT ![i].refed = o] \in [Thread -> Op]
    BY DEF Op
  <1>4. ASSUME NEW w \in Info PROVE [op EXCEPT ![i].saw = w] \in [Thread -> Op]
    BY DEF Op
  <1>5. ASSUME NEW n \in Nat PROVE [op EXCEPT ![i].line = n] \in [Thread -> Op]
    BY DEF Op
  <1> QED
    BY <1>1, <1>2, <1>3, <1>4, <1>5

(* The local variables an operation starts with. *)
LEMMA OpNew ==
  /\ NoOp \in Op
  /\ [NoOp EXCEPT !.func = "ALLOC"] \in Op
  /\ \A o \in CXLObj, l \in RootRef :
       /\ [NoOp EXCEPT !.func = "LINK", !.refed = o, !.src = l] \in Op
       /\ [NoOp EXCEPT !.func = "UNLINK", !.ref = l, !.refed = o] \in Op
  <1>1. NoOp \in Op
    BY DEF NoOp, Op, ZeroInfo, Info
  <1>2. [NoOp EXCEPT !.func = "ALLOC"] \in Op
    BY <1>1 DEF Op
  <1>3. ASSUME NEW o \in CXLObj, NEW l \in RootRef
        PROVE  /\ [NoOp EXCEPT !.func = "LINK", !.refed = o, !.src = l] \in Op
               /\ [NoOp EXCEPT !.func = "UNLINK", !.ref = l, !.refed = o] \in Op
    BY <1>1 DEF Op
  <1> QED
    BY <1>1, <1>2, <1>3

(* A client whose program counter and local variables stay the same keeps  *)
(* its shape, as long as it is not detached and its era does not go back.  *)
LEMMA OpFrame ==
  ASSUME NEW k \in Thread, OpShape(k),
         pc'[k] = pc[k], op'[k] = op[k],
         slot'[k] \in {"vacant", "gone"} => slot[k] \in {"vacant", "gone"},
         era[k][k] \in Nat, era'[k][k] \in Nat, era[k][k] <= era'[k][k]
  PROVE  OpShape(k)'
  BY DEF OpShape

(* The monitor keeps its shape when a client moves: the slot and the       *)
(* RootRefs it works on belong to a dead client.                           *)
LEMMA MonFrame ==
  ASSUME MonShape, mon' = mon,
         \A k \in Thread : slot[k] = "dead" => slot'[k] = "dead",
         \A l \in RootRef : slot[Home[l]] = "dead" => pptr'[l] = pptr[l]
  PROVE  MonShape'
  BY DEF MonShape, UnlinkLabel, RedoLabel

-----------------------------------------------------------------------------
(* The initial states are well typed. *)
LEMMA InitTyped == Init => TypeInv
  <1> SUFFICES ASSUME Init PROVE TypeInv
    OBVIOUS
  <1>1. NoOp \in Op /\ NoMon \in MonState /\ ZeroInfo \in Info
    BY DEF NoOp, Op, NoMon, MonState, ZeroInfo, Info, Log, NoLog
  <1>2. TypeOK
    BY <1>1, EraAssumption, BlockAssumption DEF Init, TypeOK, Label, Log
  <1>3. MonShape
    BY DEF Init, MonShape, NoMon, RedoLabel, UnlinkLabel
  <1>4. ASSUME NEW i \in Thread PROVE OpShape(i)
    BY DEF Init, OpShape, RootLabel, ObjectLabel, AllocLabel, LinkLabel, FreeLabel,
           PreCas, PostCas
  <1> QED
    BY <1>2, <1>3, <1>4 DEF TypeInv

LEMMA ThreadInitTyped ==
  ASSUME NEW i \in Thread, TypeInv, ThreadInit(i)
  PROVE  TypeInv'
  <1>1. TypeOK /\ OpShape(i)
    BY DEF TypeInv
  <1>2. slot' \in [Thread -> {"vacant", "run", "dead", "gone"}]
    BY <1>1 DEF TypeOK, ThreadInit
  <1>3. era' \in [Thread -> [Thread -> Nat]]
    BY <1>1 DEF TypeOK, ThreadInit
  <1>4. TypeOK'
    BY <1>1, <1>2, <1>3 DEF TypeOK, ThreadInit
  <1>5. OpShape(i)'
    BY <1>1, <1>4, BlockAssumption DEF OpShape, TypeOK, ThreadInit, Running, CanStart,
       FreeOf, Return, NoOp, RootLabel, ObjectLabel, AllocLabel, LinkLabel, FreeLabel,
       PreCas, PostCas
  <1>6. ASSUME NEW k \in Thread \ {i} PROVE OpShape(k)'
    <2>1. OpShape(k) /\ pc'[k] = pc[k] /\ op'[k] = op[k] /\ slot'[k] = slot[k]
          /\ era'[k][k] = era[k][k]
      BY <1>1 DEF TypeInv, TypeOK, ThreadInit, Return, Noted
    <2> QED
      BY <2>1, <1>1, OpFrame DEF TypeOK
  <1>7. MonShape'
    <2>1. MonShape /\ mon' = mon /\ pptr' = pptr
      BY DEF TypeInv, ThreadInit
    <2>2. \A k \in Thread : slot[k] = "dead" => slot'[k] = "dead"
      BY <1>1 DEF TypeOK, ThreadInit
    <2> QED
      BY <2>1, <2>2, MonFrame
  <1> QED
    BY <1>4, <1>5, <1>6, <1>7 DEF TypeInv

LEMMA CrashTyped ==
  ASSUME NEW i \in Thread, TypeInv, Crash(i)
  PROVE  TypeInv'
  <1>1. TypeOK /\ OpShape(i)
    BY DEF TypeInv
  <1>2. slot' \in [Thread -> {"vacant", "run", "dead", "gone"}]
    BY <1>1 DEF TypeOK, Crash
  <1>3. TypeOK'
    BY <1>1, <1>2 DEF TypeOK, Crash
  <1>4. OpShape(i)'
    BY <1>1, <1>3, BlockAssumption DEF OpShape, TypeOK, Crash, Running, CanStart,
       FreeOf, Return, NoOp, RootLabel, ObjectLabel, AllocLabel, LinkLabel, FreeLabel,
       PreCas, PostCas
  <1>5. ASSUME NEW k \in Thread \ {i} PROVE OpShape(k)'
    <2>1. OpShape(k) /\ pc'[k] = pc[k] /\ op'[k] = op[k] /\ slot'[k] = slot[k]
          /\ era'[k][k] = era[k][k]
      BY <1>1 DEF TypeInv, TypeOK, Crash, Return, Noted
    <2> QED
      BY <2>1, <1>1, OpFrame DEF TypeOK
  <1>6. MonShape'
    <2>1. MonShape /\ mon' = mon /\ pptr' = pptr
      BY DEF TypeInv, Crash
    <2>2. \A k \in Thread : slot[k] = "dead" => slot'[k] = "dead"
      BY <1>1 DEF TypeOK, Crash
    <2> QED
      BY <2>1, <2>2, MonFrame
  <1> QED
    BY <1>3, <1>4, <1>5, <1>6 DEF TypeInv

LEMMA CxlMallocTyped ==
  ASSUME NEW i \in Thread, TypeInv, CxlMalloc(i)
  PROVE  TypeInv'
  <1>1. TypeOK /\ OpShape(i)
    BY DEF TypeInv
  <1>2. op' \in [Thread -> Op]
    BY <1>1, OpUpdate, OpNew DEF TypeOK, CxlMalloc
  <1>3. pc' \in [Thread -> Label]
    BY <1>1 DEF TypeOK, CxlMalloc, Label
  <1>4. TypeOK'
    BY <1>1, <1>2, <1>3 DEF TypeOK, CxlMalloc
  <1>5. OpShape(i)'
    BY <1>1, <1>4, BlockAssumption DEF OpShape, TypeOK, CxlMalloc, Running, CanStart,
       FreeOf, Return, NoOp, RootLabel, ObjectLabel, AllocLabel, LinkLabel, FreeLabel,
       PreCas, PostCas
  <1>6. ASSUME NEW k \in Thread \ {i} PROVE OpShape(k)'
    <2>1. OpShape(k) /\ pc'[k] = pc[k] /\ op'[k] = op[k] /\ slot'[k] = slot[k]
          /\ era'[k][k] = era[k][k]
      BY <1>1 DEF TypeInv, TypeOK, CxlMalloc, Return, Noted
    <2> QED
      BY <2>1, <1>1, OpFrame DEF TypeOK
  <1>7. MonShape'
    <2>1. MonShape /\ mon' = mon /\ slot' = slot /\ pptr' = pptr
      BY DEF TypeInv, CxlMalloc
    <2> QED
      BY <2>1, MonFrame
  <1> QED
    BY <1>4, <1>5, <1>6, <1>7 DEF TypeInv

LEMMA GetRefTyped ==
  ASSUME NEW i \in Thread, NEW l \in RootRef, TypeInv, GetRef(i, l)
  PROVE  TypeInv'
  <1>1. TypeOK /\ OpShape(i)
    BY DEF TypeInv
  <1>2. op' \in [Thread -> Op]
    BY <1>1, OpUpdate, OpNew DEF TypeOK, GetRef
  <1>3. pc' \in [Thread -> Label]
    BY <1>1 DEF TypeOK, GetRef, Label
  <1>4. TypeOK'
    BY <1>1, <1>2, <1>3 DEF TypeOK, GetRef
  <1>5. OpShape(i)'
    BY <1>1, <1>4, BlockAssumption DEF OpShape, TypeOK, GetRef, Running, CanStart,
       FreeOf, Return, NoOp, RootLabel, ObjectLabel, AllocLabel, LinkLabel, FreeLabel,
       PreCas, PostCas
  <1>6. ASSUME NEW k \in Thread \ {i} PROVE OpShape(k)'
    <2>1. OpShape(k) /\ pc'[k] = pc[k] /\ op'[k] = op[k] /\ slot'[k] = slot[k]
          /\ era'[k][k] = era[k][k]
      BY <1>1 DEF TypeInv, TypeOK, GetRef, Return, Noted
    <2> QED
      BY <2>1, <1>1, OpFrame DEF TypeOK
  <1>7. MonShape'
    <2>1. MonShape /\ mon' = mon /\ slot' = slot /\ pptr' = pptr
      BY DEF TypeInv, GetRef
    <2> QED
      BY <2>1, MonFrame
  <1> QED
    BY <1>4, <1>5, <1>6, <1>7 DEF TypeInv

LEMMA DropTyped ==
  ASSUME NEW i \in Thread, NEW l \in RootRef, TypeInv, Drop(i, l)
  PROVE  TypeInv'
  <1>1. TypeOK /\ OpShape(i)
    BY DEF TypeInv
  <1>2. op' \in [Thread -> Op]
    <2>1. op \in [Thread -> Op] /\ pptr[l] \in CXLObj
      BY <1>1 DEF TypeOK, Drop
    <2>2. [NoOp EXCEPT !.func = "UNLINK", !.ref = l, !.refed = pptr[l]] \in Op
      BY <2>1, OpNew
    <2>3. op' = [op EXCEPT ![i] =
                  [NoOp EXCEPT !.func = "UNLINK", !.ref = l, !.refed = pptr[l]]]
      BY DEF Drop
    <2> QED
      BY <2>1, <2>2, <2>3
  <1>3. pc' \in [Thread -> Label]
    BY <1>1 DEF TypeOK, Drop, Label
  <1>4. TypeOK'
    BY <1>1, <1>2, <1>3 DEF TypeOK, Drop
  <1>5. OpShape(i)'
    BY <1>1, <1>4, BlockAssumption DEF OpShape, TypeOK, Drop, Running, CanStart,
       FreeOf, Return, NoOp, RootLabel, ObjectLabel, AllocLabel, LinkLabel, FreeLabel,
       PreCas, PostCas
  <1>6. ASSUME NEW k \in Thread \ {i} PROVE OpShape(k)'
    <2>1. OpShape(k) /\ pc'[k] = pc[k] /\ op'[k] = op[k] /\ slot'[k] = slot[k]
          /\ era'[k][k] = era[k][k]
      BY <1>1 DEF TypeInv, TypeOK, Drop, Return, Noted
    <2> QED
      BY <2>1, <1>1, OpFrame DEF TypeOK
  <1>7. MonShape'
    <2>1. MonShape /\ mon' = mon /\ slot' = slot /\ pptr' = pptr
      BY DEF TypeInv, Drop
    <2> QED
      BY <2>1, MonFrame
  <1> QED
    BY <1>4, <1>5, <1>6, <1>7 DEF TypeInv

LEMMA SlowPathTyped ==
  ASSUME NEW i \in Thread, TypeInv, SlowPath(i)
  PROVE  TypeInv'
  <1>1. TypeOK /\ OpShape(i)
    BY DEF TypeInv
  <1>2. op' \in [Thread -> Op]
    BY <1>1, OpUpdate DEF TypeOK, SlowPath
  <1>3. pc' \in [Thread -> Label]
    BY <1>1 DEF TypeOK, SlowPath, Label
  <1>4. TypeOK'
    BY <1>1, <1>2, <1>3 DEF TypeOK, SlowPath
  <1>5. OpShape(i)'
    <2>1. /\ op'[i].func = op[i].func /\ op'[i].ref = op[i].ref /\ op'[i].refed = op[i].refed
          /\ slot'[i] = "run" /\ pc[i] \in {"root", "object"}
          /\ pc'[i] = IF pc[i] = "root" THEN "clear root" ELSE "clear object"
      BY <1>1 DEF TypeOK, Op, SlowPath, Running
    <2>2. CASE pc[i] = "root"
      BY <1>1, <2>1, <2>2 DEF OpShape, RootLabel, ObjectLabel, AllocLabel, LinkLabel,
         FreeLabel, PreCas, PostCas
    <2>3. CASE pc[i] = "object"
      BY <1>1, <2>1, <2>3 DEF OpShape, RootLabel, ObjectLabel, AllocLabel, LinkLabel,
         FreeLabel, PreCas, PostCas
    <2> QED
      BY <2>1, <2>2, <2>3
  <1>6. ASSUME NEW k \in Thread \ {i} PROVE OpShape(k)'
    <2>1. OpShape(k) /\ pc'[k] = pc[k] /\ op'[k] = op[k] /\ slot'[k] = slot[k]
          /\ era'[k][k] = era[k][k]
      BY <1>1 DEF TypeInv, TypeOK, SlowPath, Return, Noted
    <2> QED
      BY <2>1, <1>1, OpFrame DEF TypeOK
  <1>7. MonShape'
    <2>1. MonShape /\ mon' = mon /\ slot' = slot /\ pptr' = pptr
      BY DEF TypeInv, SlowPath
    <2> QED
      BY <2>1, MonFrame
  <1> QED
    BY <1>4, <1>5, <1>6, <1>7 DEF TypeInv

LEMMA ClearRedoTyped ==
  ASSUME NEW i \in Thread, TypeInv, ClearRedo(i)
  PROVE  TypeInv'
  <1>1. TypeOK /\ OpShape(i)
    BY DEF TypeInv
  <1>2. redo' \in [Thread -> [Lines -> Log]]
    BY <1>1 DEF TypeOK, ClearRedo, Log
  <1>3. op' \in [Thread -> Op]
    <2>1. op[i].line + 1 \in Nat
      BY <1>1 DEF TypeOK, Op
    <2>2. op' = [op EXCEPT ![i].line = op[i].line + 1]
      BY <1>1 DEF ClearRedo, TypeOK
    <2> QED
      BY <1>1, <2>1, <2>2, OpUpdate DEF TypeOK
  <1>4. TypeOK'
    BY <1>1, <1>2, <1>3 DEF TypeOK, ClearRedo
  <1>5. OpShape(i)'
    <2>1. /\ pc'[i] = pc[i] /\ pc[i] # "idle" /\ slot'[i] = slot[i] /\ era' = era
          /\ op'[i].func = op[i].func /\ op'[i].ref = op[i].ref /\ op'[i].refed = op[i].refed
      BY <1>1 DEF TypeOK, Op, ClearRedo, Running
    <2> QED
      BY <1>1, <2>1 DEF OpShape
  <1>6. ASSUME NEW k \in Thread \ {i} PROVE OpShape(k)'
    <2>1. OpShape(k) /\ pc'[k] = pc[k] /\ op'[k] = op[k] /\ slot'[k] = slot[k]
          /\ era'[k][k] = era[k][k]
      BY <1>1 DEF TypeInv, TypeOK, ClearRedo, Return, Noted
    <2> QED
      BY <2>1, <1>1, OpFrame DEF TypeOK
  <1>7. MonShape'
    <2>1. MonShape /\ mon' = mon /\ slot' = slot /\ pptr' = pptr
      BY DEF TypeInv, ClearRedo
    <2> QED
      BY <2>1, MonFrame
  <1> QED
    BY <1>4, <1>5, <1>6, <1>7 DEF TypeInv

LEMMA CollectTyped ==
  ASSUME NEW i \in Thread, TypeInv, Collect(i)
  PROVE  TypeInv'
  <1>1. TypeOK /\ OpShape(i)
    BY DEF TypeInv
  <1>2. block' \in [Block -> {"away", "free", "used"}]
    BY <1>1 DEF TypeOK, Collect
  <1>3. pc' \in [Thread -> Label]
    BY <1>1 DEF TypeOK, Collect, Label
  <1>4. TypeOK'
    BY <1>1, <1>2, <1>3 DEF TypeOK, Collect
  <1>5. OpShape(i)'
    BY <1>1, <1>4, BlockAssumption DEF OpShape, TypeOK, Collect, Running, CanStart,
       FreeOf, Return, NoOp, RootLabel, ObjectLabel, AllocLabel, LinkLabel, FreeLabel,
       PreCas, PostCas
  <1>6. ASSUME NEW k \in Thread \ {i} PROVE OpShape(k)'
    <2>1. OpShape(k) /\ pc'[k] = pc[k] /\ op'[k] = op[k] /\ slot'[k] = slot[k]
          /\ era'[k][k] = era[k][k]
      BY <1>1 DEF TypeInv, TypeOK, Collect, Return, Noted
    <2> QED
      BY <2>1, <1>1, OpFrame DEF TypeOK
  <1>7. MonShape'
    <2>1. MonShape /\ mon' = mon /\ slot' = slot /\ pptr' = pptr
      BY DEF TypeInv, Collect
    <2> QED
      BY <2>1, MonFrame
  <1> QED
    BY <1>4, <1>5, <1>6, <1>7 DEF TypeInv

LEMMA BlockToTbrTyped ==
  ASSUME NEW i \in Thread, TypeInv, BlockToTbr(i)
  PROVE  TypeInv'
  <1>1. TypeOK /\ OpShape(i)
    BY DEF TypeInv
  <1>2. block' \in [Block -> {"away", "free", "used"}]
    BY <1>1 DEF TypeOK, BlockToTbr, Block
  <1>3. pptr' \in [RootRef -> CXLObj \cup {NULL}]
    BY <1>1 DEF TypeOK, BlockToTbr
  <1>4. inUse' \in [RootRef -> BOOLEAN]
    BY <1>1 DEF TypeOK, BlockToTbr
  <1>5. op' \in [Thread -> Op]
    <2>1. PICK l \in RootRef : op' = [op EXCEPT ![i].ref = l]
      BY <1>1 DEF BlockToTbr, FreeOf
    <2> QED
      BY <1>1, <2>1, OpUpdate DEF TypeOK
  <1>6. pc' \in [Thread -> Label]
    BY <1>1 DEF TypeOK, BlockToTbr, Label
  <1>7. TypeOK'
    BY <1>1, <1>2, <1>3, <1>4, <1>5, <1>6 DEF TypeOK, BlockToTbr
  <1>8. OpShape(i)'
    <2>1. PICK l \in RootRef : Home[l] = i /\ op' = [op EXCEPT ![i].ref = l]
      BY <1>1 DEF BlockToTbr, FreeOf
    <2>2. /\ op'[i].ref = l /\ op'[i].func = op[i].func /\ op'[i].refed = op[i].refed
          /\ pc'[i] = (IF op[i].func = "ALLOC" THEN "object" ELSE "read") /\ slot'[i] = "run"
          /\ op[i].func \in {"ALLOC", "LINK"}
          /\ IF op[i].func = "LINK" THEN op[i].refed \in CXLObj ELSE op[i].refed = NULL
      BY <1>1, <2>1 DEF TypeOK, Op, OpShape, BlockToTbr, Running, RootLabel
    <2>3. CASE op[i].func = "ALLOC"
      BY <2>1, <2>2, <2>3 DEF OpShape, RootLabel, ObjectLabel, AllocLabel, LinkLabel,
         FreeLabel, PreCas, PostCas
    <2>4. CASE op[i].func = "LINK"
      BY <2>1, <2>2, <2>4 DEF OpShape, RootLabel, ObjectLabel, AllocLabel, LinkLabel,
         FreeLabel, PreCas, PostCas
    <2> QED
      BY <2>2, <2>3, <2>4
  <1>9. ASSUME NEW k \in Thread \ {i} PROVE OpShape(k)'
    <2>1. OpShape(k) /\ pc'[k] = pc[k] /\ op'[k] = op[k] /\ slot'[k] = slot[k]
          /\ era'[k][k] = era[k][k]
      BY <1>1 DEF TypeInv, TypeOK, BlockToTbr, Return, Noted
    <2> QED
      BY <2>1, <1>1, OpFrame DEF TypeOK
  <1>10. MonShape'
    <2>1. \A l \in RootRef : Home[l] # i => pptr'[l] = pptr[l]
      BY <1>1, BlockAssumption DEF TypeOK, OpShape, BlockToTbr, Running, FreeOf,
         RootLabel, ObjectLabel, AllocLabel, LinkLabel, FreeLabel, PreCas, PostCas
    <2>2. slot[i] = "run" /\ mon' = mon /\ slot' = slot
      BY DEF BlockToTbr, Running
    <2> QED
      BY <2>1, <2>2, MonFrame DEF TypeInv
  <1> QED
    BY <1>7, <1>8, <1>9, <1>10 DEF TypeInv

LEMMA LinkBlockToTbrTyped ==
  ASSUME NEW i \in Thread, TypeInv, LinkBlockToTbr(i)
  PROVE  TypeInv'
  <1>1. TypeOK /\ OpShape(i)
    BY DEF TypeInv
  <1>2. pptr' \in [RootRef -> CXLObj \cup {NULL}]
    BY <1>1 DEF TypeOK, LinkBlockToTbr, FreeOf
  <1>3. op' \in [Thread -> Op]
    <2>1. PICK o \in CXLObj : op' = [op EXCEPT ![i].refed = o]
      BY <1>1 DEF LinkBlockToTbr, FreeOf
    <2> QED
      BY <1>1, <2>1, OpUpdate DEF TypeOK
  <1>4. pc' \in [Thread -> Label]
    BY <1>1 DEF TypeOK, LinkBlockToTbr, Label
  <1>5. TypeOK'
    BY <1>1, <1>2, <1>3, <1>4 DEF TypeOK, LinkBlockToTbr
  <1>6. OpShape(i)'
    BY <1>1, <1>5, BlockAssumption DEF OpShape, TypeOK, LinkBlockToTbr, Running,
       CanStart, FreeOf, Return, NoOp, RootLabel, ObjectLabel, AllocLabel, LinkLabel,
       FreeLabel, PreCas, PostCas
  <1>7. ASSUME NEW k \in Thread \ {i} PROVE OpShape(k)'
    <2>1. OpShape(k) /\ pc'[k] = pc[k] /\ op'[k] = op[k] /\ slot'[k] = slot[k]
          /\ era'[k][k] = era[k][k]
      BY <1>1 DEF TypeInv, TypeOK, LinkBlockToTbr, Return, Noted
    <2> QED
      BY <2>1, <1>1, OpFrame DEF TypeOK
  <1>8. MonShape'
    <2>1. \A l \in RootRef : Home[l] # i => pptr'[l] = pptr[l]
      BY <1>1, BlockAssumption DEF TypeOK, OpShape, LinkBlockToTbr, Running, FreeOf,
         RootLabel, ObjectLabel, AllocLabel, LinkLabel, FreeLabel, PreCas, PostCas
    <2>2. slot[i] = "run" /\ mon' = mon /\ slot' = slot
      BY DEF LinkBlockToTbr, Running
    <2> QED
      BY <2>1, <2>2, MonFrame DEF TypeInv
  <1> QED
    BY <1>5, <1>6, <1>7, <1>8 DEF TypeInv

LEMMA TakeBlockTyped ==
  ASSUME NEW i \in Thread, TypeInv, TakeBlock(i)
  PROVE  TypeInv'
  <1>1. TypeOK /\ OpShape(i)
    BY DEF TypeInv
  <1>2. block' \in [Block -> {"away", "free", "used"}]
    BY <1>1 DEF TypeOK, TakeBlock, Block
  <1>3. era' \in [Thread -> [Thread -> Nat]]
    BY <1>1 DEF TypeOK, TakeBlock
  <1>4. pc' \in [Thread -> Label]
    BY <1>1 DEF TypeOK, TakeBlock, Label
  <1>5. TypeOK'
    BY <1>1, <1>2, <1>3, <1>4 DEF TypeOK, TakeBlock
  <1>6. OpShape(i)'
    BY <1>1, <1>5, BlockAssumption DEF OpShape, TypeOK, TakeBlock, Running, CanStart,
       FreeOf, Return, NoOp, RootLabel, ObjectLabel, AllocLabel, LinkLabel, FreeLabel,
       PreCas, PostCas
  <1>7. ASSUME NEW k \in Thread \ {i} PROVE OpShape(k)'
    <2>1. OpShape(k) /\ pc'[k] = pc[k] /\ op'[k] = op[k] /\ slot'[k] = slot[k]
          /\ era'[k][k] = era[k][k]
      BY <1>1 DEF TypeInv, TypeOK, TakeBlock, Return, Noted
    <2> QED
      BY <2>1, <1>1, OpFrame DEF TypeOK
  <1>8. MonShape'
    <2>1. MonShape /\ mon' = mon /\ slot' = slot /\ pptr' = pptr
      BY DEF TypeInv, TakeBlock
    <2> QED
      BY <2>1, MonFrame
  <1> QED
    BY <1>5, <1>6, <1>7, <1>8 DEF TypeInv

LEMMA StampObjectTyped ==
  ASSUME NEW i \in Thread, TypeInv, StampObject(i)
  PROVE  TypeInv'
  <1>1. TypeOK /\ OpShape(i)
    BY DEF TypeInv
  <1>2. refInfo' \in [CXLObj -> Info]
    <2>1. i \in Int /\ 1 \in Int /\ era[i][i] - 1 \in Nat
      BY <1>1, ThreadAssumption DEF TypeOK, OpShape, Running, StampObject
    <2>2. PackRefInfo(i, 1, era[i][i] - 1) \in Info
      BY <2>1, PackType
    <2> QED
      BY <1>1, <2>2 DEF TypeOK, StampObject
  <1>3. pc' \in [Thread -> Label]
    BY <1>1 DEF TypeOK, StampObject, Label, Return
  <1>4. op' \in [Thread -> Op]
    BY <1>1, OpUpdate, OpNew DEF TypeOK, StampObject, Return
  <1>5. TypeOK'
    BY <1>1, <1>2, <1>3, <1>4 DEF TypeOK, StampObject
  <1>6. OpShape(i)'
    BY <1>1, <1>5, BlockAssumption DEF OpShape, TypeOK, StampObject, Running, CanStart,
       FreeOf, Return, NoOp, RootLabel, ObjectLabel, AllocLabel, LinkLabel, FreeLabel,
       PreCas, PostCas
  <1>7. ASSUME NEW k \in Thread \ {i} PROVE OpShape(k)'
    <2>1. OpShape(k) /\ pc'[k] = pc[k] /\ op'[k] = op[k] /\ slot'[k] = slot[k]
          /\ era'[k][k] = era[k][k]
      BY <1>1 DEF TypeInv, TypeOK, StampObject, Return, Noted
    <2> QED
      BY <2>1, <1>1, OpFrame DEF TypeOK
  <1>8. MonShape'
    <2>1. MonShape /\ mon' = mon /\ slot' = slot /\ pptr' = pptr
      BY DEF TypeInv, StampObject
    <2> QED
      BY <2>1, MonFrame
  <1> QED
    BY <1>5, <1>6, <1>7, <1>8 DEF TypeInv

LEMMA ReadInfoTyped ==
  ASSUME NEW i \in Thread, TypeInv, ReadInfo(i)
  PROVE  TypeInv'
  <1>1. TypeOK /\ OpShape(i)
    BY DEF TypeInv
  <1>2. op' \in [Thread -> Op]
    BY <1>1, OpUpdate DEF TypeOK, ReadInfo, OpShape, Running, RootLabel, ObjectLabel,
       AllocLabel, LinkLabel, FreeLabel, PreCas, PostCas
  <1>3. pc' \in [Thread -> Label]
    BY <1>1 DEF TypeOK, ReadInfo, Label
  <1>4. TypeOK'
    BY <1>1, <1>2, <1>3 DEF TypeOK, ReadInfo
  <1>5. OpShape(i)'
    BY <1>1, <1>4, BlockAssumption DEF OpShape, TypeOK, ReadInfo, Running, CanStart,
       FreeOf, Return, NoOp, RootLabel, ObjectLabel, AllocLabel, LinkLabel, FreeLabel,
       PreCas, PostCas
  <1>6. ASSUME NEW k \in Thread \ {i} PROVE OpShape(k)'
    <2>1. OpShape(k) /\ pc'[k] = pc[k] /\ op'[k] = op[k] /\ slot'[k] = slot[k]
          /\ era'[k][k] = era[k][k]
      BY <1>1 DEF TypeInv, TypeOK, ReadInfo, Return, Noted
    <2> QED
      BY <2>1, <1>1, OpFrame DEF TypeOK
  <1>7. MonShape'
    <2>1. MonShape /\ mon' = mon /\ slot' = slot /\ pptr' = pptr
      BY DEF TypeInv, ReadInfo
    <2> QED
      BY <2>1, MonFrame
  <1> QED
    BY <1>4, <1>5, <1>6, <1>7 DEF TypeInv

LEMMA NoteEraTyped ==
  ASSUME NEW i \in Thread, TypeInv, NoteEra(i)
  PROVE  TypeInv'
  <1>1. TypeOK /\ OpShape(i)
    BY DEF TypeInv
  <1>2. era' \in [Thread -> [Thread -> Nat]]
    BY <1>1, NotedType DEF TypeOK, NoteEra, Op
  <1>3. pc' \in [Thread -> Label]
    BY <1>1 DEF TypeOK, NoteEra, Label
  <1>4. TypeOK'
    BY <1>1, <1>2, <1>3 DEF TypeOK, NoteEra
  <1>5. OpShape(i)'
    BY <1>1, <1>4, BlockAssumption DEF OpShape, TypeOK, NoteEra, Running, CanStart,
       FreeOf, Return, NoOp, RootLabel, ObjectLabel, AllocLabel, LinkLabel, FreeLabel,
       PreCas, PostCas
  <1>6. ASSUME NEW k \in Thread \ {i} PROVE OpShape(k)'
    <2>1. OpShape(k) /\ pc'[k] = pc[k] /\ op'[k] = op[k] /\ slot'[k] = slot[k]
          /\ era'[k][k] = era[k][k]
      BY <1>1 DEF TypeInv, TypeOK, NoteEra, Return, Noted
    <2> QED
      BY <2>1, <1>1, OpFrame DEF TypeOK
  <1>7. MonShape'
    <2>1. MonShape /\ mon' = mon /\ slot' = slot /\ pptr' = pptr
      BY DEF TypeInv, NoteEra
    <2> QED
      BY <2>1, MonFrame
  <1> QED
    BY <1>4, <1>5, <1>6, <1>7 DEF TypeInv

LEMMA WriteLogTyped ==
  ASSUME NEW i \in Thread, TypeInv, WriteLog(i)
  PROVE  TypeInv'
  <1>1. TypeOK /\ OpShape(i)
    BY DEF TypeInv
  <1>2. redo' \in [Thread -> [Lines -> Log]]
    <2>1. [func_id |-> op[i].func, cur_era |-> era[i][i],
           ref |-> op[i].ref, refed |-> op[i].refed] \in Log
      BY <1>1 DEF Log, TypeOK, OpShape, WriteLog, Running, RootLabel, ObjectLabel,
         AllocLabel, LinkLabel, FreeLabel, PreCas, PostCas
    <2> QED
      BY <1>1, <2>1 DEF TypeOK, WriteLog
  <1>3. pc' \in [Thread -> Label]
    BY <1>1 DEF TypeOK, WriteLog, Label
  <1>4. TypeOK'
    BY <1>1, <1>2, <1>3 DEF TypeOK, WriteLog
  <1>5. OpShape(i)'
    BY <1>1, <1>4, BlockAssumption DEF OpShape, TypeOK, WriteLog, Running, CanStart,
       FreeOf, Return, NoOp, RootLabel, ObjectLabel, AllocLabel, LinkLabel, FreeLabel,
       PreCas, PostCas
  <1>6. ASSUME NEW k \in Thread \ {i} PROVE OpShape(k)'
    <2>1. OpShape(k) /\ pc'[k] = pc[k] /\ op'[k] = op[k] /\ slot'[k] = slot[k]
          /\ era'[k][k] = era[k][k]
      BY <1>1 DEF TypeInv, TypeOK, WriteLog, Return, Noted
    <2> QED
      BY <2>1, <1>1, OpFrame DEF TypeOK
  <1>7. MonShape'
    <2>1. MonShape /\ mon' = mon /\ slot' = slot /\ pptr' = pptr
      BY DEF TypeInv, WriteLog
    <2> QED
      BY <2>1, MonFrame
  <1> QED
    BY <1>4, <1>5, <1>6, <1>7 DEF TypeInv

LEMMA CasInfoTyped ==
  ASSUME NEW i \in Thread, TypeInv, CasInfo(i)
  PROVE  TypeInv'
  <1>1. TypeOK /\ OpShape(i)
    BY DEF TypeInv
  <1>2. refInfo' \in [CXLObj -> Info]
    <2>1. i \in Int /\ op[i].saw.cnt + Delta(i) \in Int /\ era[i][i] \in Nat
      BY <1>1, ThreadAssumption DEF TypeOK, Op, Info, Delta
    <2>2. PackRefInfo(i, op[i].saw.cnt + Delta(i), era[i][i]) \in Info
      BY <2>1, PackType
    <2> QED
      BY <1>1, <2>2 DEF TypeOK, CasInfo
  <1>3. op' \in [Thread -> Op]
    BY <1>1, OpUpdate DEF TypeOK, CasInfo
  <1>4. pc' \in [Thread -> Label]
    BY <1>1 DEF TypeOK, CasInfo, Label
  <1>5. TypeOK'
    BY <1>1, <1>2, <1>3, <1>4 DEF TypeOK, CasInfo
  <1>6. OpShape(i)'
    BY <1>1, <1>5, BlockAssumption DEF OpShape, TypeOK, CasInfo, Running, CanStart,
       FreeOf, Return, NoOp, RootLabel, ObjectLabel, AllocLabel, LinkLabel, FreeLabel,
       PreCas, PostCas
  <1>7. ASSUME NEW k \in Thread \ {i} PROVE OpShape(k)'
    <2>1. OpShape(k) /\ pc'[k] = pc[k] /\ op'[k] = op[k] /\ slot'[k] = slot[k]
          /\ era'[k][k] = era[k][k]
      BY <1>1 DEF TypeInv, TypeOK, CasInfo, Return, Noted
    <2> QED
      BY <2>1, <1>1, OpFrame DEF TypeOK
  <1>8. MonShape'
    <2>1. MonShape /\ mon' = mon /\ slot' = slot /\ pptr' = pptr
      BY DEF TypeInv, CasInfo
    <2> QED
      BY <2>1, MonFrame
  <1> QED
    BY <1>5, <1>6, <1>7, <1>8 DEF TypeInv

LEMMA CasRetryTyped ==
  ASSUME NEW i \in Thread, TypeInv, CasRetry(i)
  PROVE  TypeInv'
  <1>1. TypeOK /\ OpShape(i)
    BY DEF TypeInv
  <1>2. pc' \in [Thread -> Label]
    BY <1>1 DEF TypeOK, CasRetry, Label
  <1>3. TypeOK'
    BY <1>1, <1>2 DEF TypeOK, CasRetry
  <1>4. OpShape(i)'
    BY <1>1, <1>3, BlockAssumption DEF OpShape, TypeOK, CasRetry, Running, CanStart,
       FreeOf, Return, NoOp, RootLabel, ObjectLabel, AllocLabel, LinkLabel, FreeLabel,
       PreCas, PostCas
  <1>5. ASSUME NEW k \in Thread \ {i} PROVE OpShape(k)'
    <2>1. OpShape(k) /\ pc'[k] = pc[k] /\ op'[k] = op[k] /\ slot'[k] = slot[k]
          /\ era'[k][k] = era[k][k]
      BY <1>1 DEF TypeInv, TypeOK, CasRetry, Return, Noted
    <2> QED
      BY <2>1, <1>1, OpFrame DEF TypeOK
  <1>6. MonShape'
    <2>1. MonShape /\ mon' = mon /\ slot' = slot /\ pptr' = pptr
      BY DEF TypeInv, CasRetry
    <2> QED
      BY <2>1, MonFrame
  <1> QED
    BY <1>3, <1>4, <1>5, <1>6 DEF TypeInv

LEMMA StoreRefTyped ==
  ASSUME NEW i \in Thread, TypeInv, StoreRef(i)
  PROVE  TypeInv'
  <1>1. TypeOK /\ OpShape(i)
    BY DEF TypeInv
  <1>2. pptr' \in [RootRef -> CXLObj \cup {NULL}]
    BY <1>1 DEF TypeOK, StoreRef, Op
  <1>3. pc' \in [Thread -> Label]
    BY <1>1 DEF TypeOK, StoreRef, Label
  <1>4. TypeOK'
    BY <1>1, <1>2, <1>3 DEF TypeOK, StoreRef
  <1>5. OpShape(i)'
    BY <1>1, <1>4, BlockAssumption DEF OpShape, TypeOK, StoreRef, Running, CanStart,
       FreeOf, Return, NoOp, RootLabel, ObjectLabel, AllocLabel, LinkLabel, FreeLabel,
       PreCas, PostCas
  <1>6. ASSUME NEW k \in Thread \ {i} PROVE OpShape(k)'
    <2>1. OpShape(k) /\ pc'[k] = pc[k] /\ op'[k] = op[k] /\ slot'[k] = slot[k]
          /\ era'[k][k] = era[k][k]
      BY <1>1 DEF TypeInv, TypeOK, StoreRef, Return, Noted
    <2> QED
      BY <2>1, <1>1, OpFrame DEF TypeOK
  <1>7. MonShape'
    <2>1. MonShape /\ mon' = mon /\ slot' = slot /\ slot[i] = "run"
      BY DEF TypeInv, StoreRef, Running
    <2>2. op[i].ref \in RootRef /\ Home[op[i].ref] = i
      BY <1>1 DEF OpShape, StoreRef, Running, LinkLabel, PostCas
    <2>3. \A l \in RootRef : l # op[i].ref => pptr'[l] = pptr[l]
      BY <1>1 DEF TypeOK, StoreRef
    <2> QED
      BY <2>1, <2>2, <2>3, MonFrame
  <1> QED
    BY <1>4, <1>5, <1>6, <1>7 DEF TypeInv

LEMMA BumpEraTyped ==
  ASSUME NEW i \in Thread, TypeInv, BumpEra(i)
  PROVE  TypeInv'
  <1>1. TypeOK /\ OpShape(i)
    BY DEF TypeInv
  <1>2. era' \in [Thread -> [Thread -> Nat]]
    BY <1>1 DEF TypeOK, BumpEra
  <1>3. pc' \in [Thread -> Label]
    BY <1>1 DEF TypeOK, BumpEra, Label, Return
  <1>4. op' \in [Thread -> Op]
    BY <1>1, OpUpdate, OpNew DEF TypeOK, BumpEra, Return
  <1>5. TypeOK'
    BY <1>1, <1>2, <1>3, <1>4 DEF TypeOK, BumpEra
  <1>6. OpShape(i)'
    <2>1. CASE op[i].func = "LINK"
      BY <1>1, <2>1 DEF OpShape, TypeOK, BumpEra, Running, Return, RootLabel,
         ObjectLabel, AllocLabel, LinkLabel, FreeLabel, PreCas, PostCas
    <2>2. CASE op[i].func # "LINK"
      <3>1. /\ op' = op /\ slot' = slot /\ slot[i] = "run" /\ pc[i] = "bump"
            /\ pc'[i] \in {"release", "wipe"}
        BY <1>1, <2>2 DEF BumpEra, Running, TypeOK
      <3>2. /\ op[i].func = "UNLINK" /\ op[i].ref \in RootRef /\ Home[op[i].ref] = i
            /\ op[i].refed \in CXLObj
        BY <1>1, <2>2, <3>1 DEF OpShape, LinkLabel, PostCas
      <3> QED
        BY <3>1, <3>2 DEF OpShape, RootLabel, ObjectLabel, AllocLabel, LinkLabel,
           FreeLabel, PreCas, PostCas
    <2> QED
      BY <2>1, <2>2
  <1>7. ASSUME NEW k \in Thread \ {i} PROVE OpShape(k)'
    <2>1. OpShape(k) /\ pc'[k] = pc[k] /\ op'[k] = op[k] /\ slot'[k] = slot[k]
          /\ era'[k][k] = era[k][k]
      BY <1>1 DEF TypeInv, TypeOK, BumpEra, Return, Noted
    <2> QED
      BY <2>1, <1>1, OpFrame DEF TypeOK
  <1>8. MonShape'
    <2>1. MonShape /\ mon' = mon /\ slot' = slot /\ pptr' = pptr
      BY DEF TypeInv, BumpEra
    <2> QED
      BY <2>1, MonFrame
  <1> QED
    BY <1>5, <1>6, <1>7, <1>8 DEF TypeInv

LEMMA WipeObjectTyped ==
  ASSUME NEW i \in Thread, TypeInv, WipeObject(i)
  PROVE  TypeInv'
  <1>1. TypeOK /\ OpShape(i)
    BY DEF TypeInv
  <1>2. refInfo' \in [CXLObj -> Info]
    <2>1. ZeroInfo \in Info
      BY DEF ZeroInfo, Info
    <2> QED
      BY <1>1, <2>1 DEF TypeOK, WipeObject
  <1>3. pc' \in [Thread -> Label]
    BY <1>1 DEF TypeOK, WipeObject, Label
  <1>4. TypeOK'
    BY <1>1, <1>2, <1>3 DEF TypeOK, WipeObject
  <1>5. OpShape(i)'
    BY <1>1, <1>4, BlockAssumption DEF OpShape, TypeOK, WipeObject, Running, CanStart,
       FreeOf, Return, NoOp, RootLabel, ObjectLabel, AllocLabel, LinkLabel, FreeLabel,
       PreCas, PostCas
  <1>6. ASSUME NEW k \in Thread \ {i} PROVE OpShape(k)'
    <2>1. OpShape(k) /\ pc'[k] = pc[k] /\ op'[k] = op[k] /\ slot'[k] = slot[k]
          /\ era'[k][k] = era[k][k]
      BY <1>1 DEF TypeInv, TypeOK, WipeObject, Return, Noted
    <2> QED
      BY <2>1, <1>1, OpFrame DEF TypeOK
  <1>7. MonShape'
    <2>1. MonShape /\ mon' = mon /\ slot' = slot /\ pptr' = pptr
      BY DEF TypeInv, WipeObject
    <2> QED
      BY <2>1, MonFrame
  <1> QED
    BY <1>4, <1>5, <1>6, <1>7 DEF TypeInv

LEMMA PushObjectTyped ==
  ASSUME NEW i \in Thread, TypeInv, PushObject(i)
  PROVE  TypeInv'
  <1>1. TypeOK /\ OpShape(i)
    BY DEF TypeInv
  <1>2. block' \in [Block -> {"away", "free", "used"}]
    BY <1>1 DEF TypeOK, PushObject, Block, Pushed, FreeOf
  <1>3. pc' \in [Thread -> Label]
    BY <1>1 DEF TypeOK, PushObject, Label
  <1>4. TypeOK'
    BY <1>1, <1>2, <1>3 DEF TypeOK, PushObject
  <1>5. OpShape(i)'
    BY <1>1, <1>4, BlockAssumption DEF OpShape, TypeOK, PushObject, Running, CanStart,
       FreeOf, Return, NoOp, RootLabel, ObjectLabel, AllocLabel, LinkLabel, FreeLabel,
       PreCas, PostCas
  <1>6. ASSUME NEW k \in Thread \ {i} PROVE OpShape(k)'
    <2>1. OpShape(k) /\ pc'[k] = pc[k] /\ op'[k] = op[k] /\ slot'[k] = slot[k]
          /\ era'[k][k] = era[k][k]
      BY <1>1 DEF TypeInv, TypeOK, PushObject, Return, Noted
    <2> QED
      BY <2>1, <1>1, OpFrame DEF TypeOK
  <1>7. MonShape'
    <2>1. MonShape /\ mon' = mon /\ slot' = slot /\ pptr' = pptr
      BY DEF TypeInv, PushObject
    <2> QED
      BY <2>1, MonFrame
  <1> QED
    BY <1>4, <1>5, <1>6, <1>7 DEF TypeInv

LEMMA ReleaseTyped ==
  ASSUME NEW i \in Thread, TypeInv, Release(i)
  PROVE  TypeInv'
  <1>1. TypeOK /\ OpShape(i)
    BY DEF TypeInv
  <1>2. inUse' \in [RootRef -> BOOLEAN]
    BY <1>1 DEF TypeOK, Release
  <1>3. pptr' \in [RootRef -> CXLObj \cup {NULL}]
    BY <1>1 DEF TypeOK, Release
  <1>4. block' \in [Block -> {"away", "free", "used"}]
    BY <1>1 DEF TypeOK, Release, Block, Pushed, FreeOf
  <1>5. pc' \in [Thread -> Label]
    BY <1>1 DEF TypeOK, Release, Label, Return
  <1>6. op' \in [Thread -> Op]
    BY <1>1, OpUpdate, OpNew DEF TypeOK, Release, Return
  <1>7. TypeOK'
    BY <1>1, <1>2, <1>3, <1>4, <1>5, <1>6 DEF TypeOK, Release
  <1>8. OpShape(i)'
    BY <1>1, <1>7, BlockAssumption DEF OpShape, TypeOK, Release, Running, CanStart,
       FreeOf, Return, NoOp, RootLabel, ObjectLabel, AllocLabel, LinkLabel, FreeLabel,
       PreCas, PostCas
  <1>9. ASSUME NEW k \in Thread \ {i} PROVE OpShape(k)'
    <2>1. OpShape(k) /\ pc'[k] = pc[k] /\ op'[k] = op[k] /\ slot'[k] = slot[k]
          /\ era'[k][k] = era[k][k]
      BY <1>1 DEF TypeInv, TypeOK, Release, Return, Noted
    <2> QED
      BY <2>1, <1>1, OpFrame DEF TypeOK
  <1>10. MonShape'
    <2>1. \A l \in RootRef : Home[l] # i => pptr'[l] = pptr[l]
      BY <1>1, BlockAssumption DEF TypeOK, OpShape, Release, Running, FreeOf,
         RootLabel, ObjectLabel, AllocLabel, LinkLabel, FreeLabel, PreCas, PostCas
    <2>2. slot[i] = "run" /\ mon' = mon /\ slot' = slot
      BY DEF Release, Running
    <2> QED
      BY <2>1, <2>2, MonFrame DEF TypeInv
  <1> QED
    BY <1>7, <1>8, <1>9, <1>10 DEF TypeInv

-----------------------------------------------------------------------------
(* The steps of the monitor. *)

(* Storing into one field of the monitor's variables keeps their type. *)
LEMMA MonUpdate ==
  ASSUME mon \in MonState, NEW p \in {"watch", "lcid", "lenum", "scan", "redo", "gc",
                                    "read", "note", "cas", "store", "drop"}
  PROVE  /\ [mon EXCEPT !.pc = p] \in MonState
         /\ \A w \in Info : [mon EXCEPT !.saw = w, !.pc = p] \in MonState
         /\ \A c \in Int : [mon EXCEPT !.saw.cid = c, !.pc = p] \in MonState
         /\ \A b \in BOOLEAN : [mon EXCEPT !.need = b, !.pc = p] \in MonState
         /\ \A n \in Nat : [mon EXCEPT !.row = n, !.pc = p] \in MonState
         /\ \A n, m \in Nat : [mon EXCEPT !.row = n, !.max = m] \in MonState
         /\ \A l \in RootRef : [mon EXCEPT !.ref = l, !.pc = p] \in MonState
  <1>1. [mon EXCEPT !.pc = p] \in MonState
    BY DEF MonState
  <1>2. \A w \in Info : [mon EXCEPT !.saw = w, !.pc = p] \in MonState
    BY DEF MonState
  <1>3. ASSUME NEW c \in Int PROVE [mon EXCEPT !.saw.cid = c, !.pc = p] \in MonState
    <2>1. [mon.saw EXCEPT !.cid = c] \in Info
      BY DEF MonState, Info
    <2> QED
      BY <2>1 DEF MonState
  <1>4. \A b \in BOOLEAN : [mon EXCEPT !.need = b, !.pc = p] \in MonState
    BY DEF MonState
  <1>5. \A n \in Nat : [mon EXCEPT !.row = n, !.pc = p] \in MonState
    BY DEF MonState
  <1>6. \A n, m \in Nat : [mon EXCEPT !.row = n, !.max = m] \in MonState
    BY DEF MonState
  <1>7. \A l \in RootRef : [mon EXCEPT !.ref = l, !.pc = p] \in MonState
    BY DEF MonState
  <1> QED
    BY <1>1, <1>2, <1>3, <1>4, <1>5, <1>6, <1>7

(* A step that changes neither the clients nor the memory they use. *)
LEMMA MonOnly ==
  ASSUME TypeInv, UNCHANGED clientVars, mon' \in MonState, MonShape'
  PROVE  TypeInv'
  <1>1. TypeOK'
    BY DEF TypeInv, TypeOK, clientVars
  <1>2. ASSUME NEW k \in Thread PROVE OpShape(k)'
    BY OpFrame DEF TypeInv, TypeOK, clientVars
  <1> QED
    BY <1>1, <1>2 DEF TypeInv

LEMMA DetectTyped ==
  ASSUME NEW i \in Thread, TypeInv, Detect(i)
  PROVE  TypeInv'
  <1>1. TypeOK /\ MonShape /\ UNCHANGED clientVars
    BY DEF TypeInv, Detect
  <1>2. PICK n \in Lines : mon' = [NoMon EXCEPT !.tgt = i, !.log = redo[i][n], !.pc =
                              IF redo[i][n].func_id = "none" THEN "gc" ELSE "lcid"]
    BY DEF Detect
  <1>3. NoMon \in MonState /\ redo[i][n] \in Log
    BY <1>1 DEF NoMon, MonState, ZeroInfo, Info, TypeOK, Log
  <1>7. mon' \in MonState
    BY <1>2, <1>3 DEF MonState
  <1>8. MonShape'
    BY <1>1 DEF TypeOK, MonState, MonShape, Detect, RedoLabel, UnlinkLabel, Mon, NoMon,
       NoLog, clientVars
  <1> QED
    BY <1>1, <1>7, <1>8, MonOnly

LEMMA LoadLcidTyped ==
  ASSUME TypeInv, LoadLcid
  PROVE  TypeInv'
  <1>1. TypeOK /\ MonShape /\ UNCHANGED clientVars
    BY DEF TypeInv, LoadLcid
  <1>2. refInfo[mon.log.refed].cid \in Int
    BY <1>1 DEF TypeOK, MonState, MonShape, LoadLcid, Log, NoLog, RedoLabel, Mon, Info
  <1>7. mon' \in MonState
    BY <1>1, <1>2, MonUpdate DEF TypeOK, LoadLcid
  <1>8. MonShape'
    BY <1>1 DEF TypeOK, MonState, MonShape, LoadLcid, RedoLabel, UnlinkLabel, Mon,
       NoMon, NoLog, clientVars
  <1> QED
    BY <1>1, <1>7, <1>8, MonOnly

LEMMA LoadLenumTyped ==
  ASSUME TypeInv, LoadLenum
  PROVE  TypeInv'
  <1>1. TypeOK /\ MonShape /\ UNCHANGED clientVars
    BY DEF TypeInv, LoadLenum
  <1>7. mon' \in MonState
    BY <1>1, MonUpdate DEF TypeOK, LoadLenum
  <1>8. MonShape'
    BY <1>1 DEF TypeOK, MonState, MonShape, LoadLenum, RedoLabel, UnlinkLabel, Mon,
       NoMon, NoLog, clientVars
  <1> QED
    BY <1>1, <1>7, <1>8, MonOnly

LEMMA ScanRowTyped ==
  ASSUME TypeInv, ScanRow
  PROVE  TypeInv'
  <1>1. TypeOK /\ MonShape /\ UNCHANGED clientVars
    BY DEF TypeInv, ScanRow
  <1>2. mon.row + 1 \in Nat /\ mon.max \in Nat /\ SeenBy(mon.row, mon.tgt) \in Nat
    BY <1>1 DEF TypeOK, MonState, MonShape, SeenBy, ScanRow, Mon
  <1>7. mon' \in MonState
    BY <1>1, <1>2, MonUpdate DEF TypeOK, ScanRow
  <1>8. MonShape'
    BY <1>1 DEF TypeOK, MonState, MonShape, ScanRow, RedoLabel, UnlinkLabel, Mon,
       NoMon, NoLog, clientVars
  <1> QED
    BY <1>1, <1>7, <1>8, MonOnly

LEMMA ScanEndTyped ==
  ASSUME TypeInv, ScanEnd
  PROVE  TypeInv'
  <1>1. TypeOK /\ MonShape /\ UNCHANGED clientVars
    BY DEF TypeInv, ScanEnd
  <1>2. (mon.log.cur_era <= mon.max) \in BOOLEAN
    OBVIOUS
  <1>3. mon' = [mon EXCEPT !.need = (mon.log.cur_era <= mon.max), !.pc = "redo"]
    BY DEF ScanEnd, Covered
  <1>7. mon' \in MonState
    BY <1>1, <1>2, <1>3, MonUpdate DEF TypeOK
  <1>8. MonShape'
    BY <1>1 DEF TypeOK, MonState, MonShape, ScanEnd, RedoLabel, UnlinkLabel, Mon,
       NoMon, NoLog, clientVars
  <1> QED
    BY <1>1, <1>7, <1>8, MonOnly

LEMMA VisitTyped ==
  ASSUME NEW l \in RootRef, TypeInv, Visit(l)
  PROVE  TypeInv'
  <1>1. TypeOK /\ MonShape /\ UNCHANGED clientVars
    BY DEF TypeInv, Visit
  <1>7. mon' \in MonState
    BY <1>1, MonUpdate DEF TypeOK, Visit
  <1>8. MonShape'
    BY <1>1 DEF TypeOK, MonState, MonShape, Visit, RedoLabel, UnlinkLabel, Mon, NoMon,
       NoLog, clientVars
  <1> QED
    BY <1>1, <1>7, <1>8, MonOnly

LEMMA MonReadTyped ==
  ASSUME TypeInv, MonRead
  PROVE  TypeInv'
  <1>1. TypeOK /\ MonShape /\ UNCHANGED clientVars
    BY DEF TypeInv, MonRead
  <1>2. refInfo[pptr[mon.ref]] \in Info
    BY <1>1 DEF TypeOK, MonShape, MonRead, UnlinkLabel, Mon
  <1>7. mon' \in MonState
    BY <1>1, <1>2, MonUpdate DEF TypeOK, MonRead
  <1>8. MonShape'
    BY <1>1 DEF TypeOK, MonState, MonShape, MonRead, RedoLabel, UnlinkLabel, Mon,
       NoMon, NoLog, clientVars
  <1> QED
    BY <1>1, <1>7, <1>8, MonOnly

LEMMA MonRetryTyped ==
  ASSUME TypeInv, MonRetry
  PROVE  TypeInv'
  <1>1. TypeOK /\ MonShape /\ UNCHANGED clientVars
    BY DEF TypeInv, MonRetry
  <1>7. mon' \in MonState
    BY <1>1, MonUpdate DEF TypeOK, MonRetry
  <1>8. MonShape'
    BY <1>1 DEF TypeOK, MonState, MonShape, MonRetry, RedoLabel, UnlinkLabel, Mon,
       NoMon, NoLog, clientVars
  <1> QED
    BY <1>1, <1>7, <1>8, MonOnly

LEMMA RedoTyped ==
  ASSUME TypeInv, Redo
  PROVE  TypeInv'
  <1>1. TypeOK /\ MonShape /\ mon.tgt \in Thread /\ slot[mon.tgt] = "dead"
    BY DEF TypeInv, MonShape, Redo, Mon
  <1>2. mon' \in MonState
    BY <1>1, MonUpdate DEF TypeOK, Redo
  <1>3. pptr' \in [RootRef -> CXLObj \cup {NULL}]
    BY <1>1 DEF TypeOK, MonState, MonShape, Redo, Log, RedoValue, RedoLabel, Mon
  <1>4. era' = era /\ pc' = pc /\ op' = op /\ slot' = slot
    BY DEF Redo
  <1>7. TypeOK'
    BY <1>1, <1>2, <1>3, <1>4 DEF TypeOK, Redo
  <1>8. ASSUME NEW k \in Thread PROVE OpShape(k)'
    BY <1>1, <1>4, <1>7, OpFrame DEF TypeInv, TypeOK, Redo
  <1>9. MonShape'
    BY <1>1 DEF TypeOK, MonState, MonShape, Redo, RedoLabel, UnlinkLabel, Mon, NoMon
  <1> QED
    BY <1>7, <1>8, <1>9 DEF TypeInv

LEMMA MonNoteTyped ==
  ASSUME TypeInv, MonNote
  PROVE  TypeInv'
  <1>1. TypeOK /\ MonShape /\ mon.tgt \in Thread /\ slot[mon.tgt] = "dead"
    BY DEF TypeInv, MonShape, MonNote, Mon
  <1>2. mon' \in MonState
    BY <1>1, MonUpdate DEF TypeOK, MonNote
  <1>3. era' \in [Thread -> [Thread -> Nat]] /\ \A k \in Thread : era[k][k] <= era'[k][k]
    BY <1>1, NotedType DEF TypeOK, MonNote, MonState
  <1>4. pc' = pc /\ op' = op /\ slot' = slot /\ \A k \in Thread : era[k][k] <= era'[k][k]
    BY <1>3 DEF MonNote
  <1>7. TypeOK'
    BY <1>1, <1>2, <1>3, <1>4 DEF TypeOK, MonNote
  <1>8. ASSUME NEW k \in Thread PROVE OpShape(k)'
    BY <1>1, <1>4, <1>7, OpFrame DEF TypeInv, TypeOK, MonNote
  <1>9. MonShape'
    BY <1>1 DEF TypeOK, MonState, MonShape, MonNote, RedoLabel, UnlinkLabel, Mon, NoMon
  <1> QED
    BY <1>7, <1>8, <1>9 DEF TypeInv

LEMMA MonCasTyped ==
  ASSUME TypeInv, MonCas
  PROVE  TypeInv'
  <1>1. TypeOK /\ MonShape /\ mon.tgt \in Thread /\ slot[mon.tgt] = "dead"
    BY DEF TypeInv, MonShape, MonCas, Mon
  <1>2. mon' \in MonState
    BY <1>1, MonUpdate DEF TypeOK, MonCas
  <1>3. refInfo' \in [CXLObj -> Info]
    <2>1. PICK i \in Thread : i = mon.tgt
      BY <1>1
    <2>2. i \in Int /\ era[i][i] \in Nat
      BY <1>1, ThreadAssumption DEF TypeOK
    <2>3. mon.saw \in Info /\ mon.saw.cnt - 1 \in Int
      BY <1>1 DEF TypeOK, MonState, Info
    <2>4. PackRefInfo(i, mon.saw.cnt - 1, era[i][i]) \in Info
      BY <2>2, <2>3, PackType
    <2> QED
      BY <1>1, <2>1, <2>4 DEF TypeOK, MonCas
  <1>4. era' = era /\ pc' = pc /\ op' = op /\ slot' = slot
    BY DEF MonCas
  <1>7. TypeOK'
    BY <1>1, <1>2, <1>3, <1>4 DEF TypeOK, MonCas
  <1>8. ASSUME NEW k \in Thread PROVE OpShape(k)'
    BY <1>1, <1>4, <1>7, OpFrame DEF TypeInv, TypeOK, MonCas
  <1>9. MonShape'
    BY <1>1 DEF TypeOK, MonState, MonShape, MonCas, RedoLabel, UnlinkLabel, Mon, NoMon
  <1> QED
    BY <1>7, <1>8, <1>9 DEF TypeInv

LEMMA MonStoreTyped ==
  ASSUME TypeInv, MonStore
  PROVE  TypeInv'
  <1>1. TypeOK /\ MonShape /\ mon.tgt \in Thread /\ slot[mon.tgt] = "dead"
    BY DEF TypeInv, MonShape, MonStore, Mon
  <1>2. mon' \in MonState
    BY <1>1, MonUpdate DEF TypeOK, MonStore
  <1>3. /\ refInfo' \in [CXLObj -> Info]
        /\ block' \in [Block -> {"away", "free", "used"}]
        /\ pptr' \in [RootRef -> CXLObj \cup {NULL}]
    <2>1. ZeroInfo \in Info
      BY DEF ZeroInfo, Info
    <2> QED
      BY <1>1, <2>1 DEF TypeOK, MonStore
  <1>4. /\ pc' = pc /\ op' = op /\ slot' = slot
        /\ era' \in [Thread -> [Thread -> Nat]]
        /\ \A k \in Thread : era[k][k] <= era'[k][k]
    BY <1>1 DEF TypeOK, MonStore
  <1>7. TypeOK'
    BY <1>1, <1>2, <1>3, <1>4 DEF TypeOK, MonStore
  <1>8. ASSUME NEW k \in Thread PROVE OpShape(k)'
    BY <1>1, <1>4, <1>7, OpFrame DEF TypeInv, TypeOK, MonStore
  <1>9. MonShape'
    BY <1>1 DEF TypeOK, MonState, MonShape, MonStore, RedoLabel, UnlinkLabel, Mon, NoMon
  <1> QED
    BY <1>7, <1>8, <1>9 DEF TypeInv

LEMMA MonDropTyped ==
  ASSUME TypeInv, MonDrop
  PROVE  TypeInv'
  <1>1. TypeOK /\ MonShape /\ mon.tgt \in Thread /\ slot[mon.tgt] = "dead"
    BY DEF TypeInv, MonShape, MonDrop, Mon
  <1>2. mon' \in MonState
    BY <1>1, MonUpdate DEF TypeOK, MonDrop
  <1>3. /\ inUse' \in [RootRef -> BOOLEAN]
        /\ block' \in [Block -> {"away", "free", "used"}]
        /\ pptr' \in [RootRef -> CXLObj \cup {NULL}]
    BY <1>1 DEF TypeOK, MonDrop
  <1>4. era' = era /\ pc' = pc /\ op' = op /\ slot' = slot
    BY DEF MonDrop
  <1>7. TypeOK'
    BY <1>1, <1>2, <1>3, <1>4 DEF TypeOK, MonDrop
  <1>8. ASSUME NEW k \in Thread PROVE OpShape(k)'
    BY <1>1, <1>4, <1>7, OpFrame DEF TypeInv, TypeOK, MonDrop
  <1>9. MonShape'
    BY <1>1 DEF TypeOK, MonState, MonShape, MonDrop, RedoLabel, UnlinkLabel, Mon, NoMon
  <1> QED
    BY <1>7, <1>8, <1>9 DEF TypeInv

LEMMA FinishTyped ==
  ASSUME TypeInv, Finish
  PROVE  TypeInv'
  <1>1. TypeOK /\ MonShape /\ mon.tgt \in Thread
    BY DEF TypeInv, MonShape, Finish, Mon
  <1>2. NoOp \in Op /\ NoMon \in MonState
    BY DEF NoOp, Op, NoMon, MonState, ZeroInfo, Info, Log
  <1>3. op' \in [Thread -> Op] /\ pc' \in [Thread -> Label]
    BY <1>1, <1>2 DEF TypeOK, Finish, Return, Label
  <1>4. TypeOK'
    BY <1>1, <1>2, <1>3 DEF TypeOK, Finish
  <1>5. PICK i \in Thread : i = mon.tgt
    BY <1>1
  <1>6. ASSUME NEW k \in Thread PROVE OpShape(k)'
    <2>1. CASE k = i
      <3>1. pc'[k] = "idle" /\ op'[k] = NoOp
        BY <1>1, <1>5, <2>1 DEF TypeOK, Finish, Return
      <3> QED
        BY <3>1 DEF OpShape, RootLabel, ObjectLabel, AllocLabel, LinkLabel, FreeLabel,
           PreCas, PostCas
    <2>2. CASE k # i
      <3>1. pc'[k] = pc[k] /\ op'[k] = op[k] /\ slot'[k] = slot[k] /\ era' = era
        BY <1>1, <1>5, <2>2 DEF TypeOK, Finish, Return
      <3>2. OpShape(k) /\ era[k][k] \in Nat
        BY <1>1 DEF TypeInv, TypeOK
      <3> QED
        BY <3>1, <3>2, OpFrame
    <2> QED
      BY <2>1, <2>2
  <1>7. MonShape'
    BY DEF MonShape, Finish, NoMon, RedoLabel, UnlinkLabel, Mon
  <1> QED
    BY <1>4, <1>6, <1>7 DEF TypeInv

-----------------------------------------------------------------------------
(* Every step keeps the memory and the local variables well typed. *)
LEMMA NextTyped == TypeInv /\ [Next]_vars => TypeInv'
  <1> SUFFICES ASSUME TypeInv, [Next]_vars PROVE TypeInv'
    OBVIOUS
  <1>1. ASSUME NEW i \in Thread, ThreadInit(i) \/ Crash(i) PROVE TypeInv'
    BY <1>1, ThreadInitTyped, CrashTyped
  <1>2. ASSUME NEW i \in Thread, Start(i) PROVE TypeInv'
    BY <1>2, CxlMallocTyped, GetRefTyped, DropTyped DEF Start
  <1>3. ASSUME NEW i \in Thread, Step(i) PROVE TypeInv'
    BY <1>3,
       SlowPathTyped, ClearRedoTyped, CollectTyped, BlockToTbrTyped,
       LinkBlockToTbrTyped, TakeBlockTyped, StampObjectTyped,
       ReadInfoTyped, NoteEraTyped, WriteLogTyped, CasInfoTyped,
       CasRetryTyped, StoreRefTyped, BumpEraTyped, WipeObjectTyped,
       PushObjectTyped, ReleaseTyped DEF Step
  <1>4. CASE Monitor
    BY <1>4, DetectTyped, VisitTyped,
       LoadLcidTyped, LoadLenumTyped, ScanRowTyped, ScanEndTyped,
       RedoTyped, MonReadTyped, MonNoteTyped, MonCasTyped, MonRetryTyped,
       MonStoreTyped, MonDropTyped, FinishTyped DEF Monitor
  <1>5. CASE UNCHANGED vars
    <2>1. MonShape' /\ UNCHANGED clientVars /\ mon' = mon
      BY <1>5 DEF TypeInv, MonShape, vars, clientVars
    <2> QED
      BY <2>1, MonOnly DEF TypeInv, TypeOK
  <1> QED
    BY <1>1, <1>2, <1>3, <1>4, <1>5 DEF Next

(* The memory, the local variables of every client (at each of its steps,  *)
(* its failure and its recovery included) and those of the monitor keep    *)
(* their types and shapes, for any number of threads, RootRefs and objects *)
(* and whether recovery waits for the clients or runs beside them.         *)
THEOREM Typing == Spec => []TypeInv
  <1> QED
    BY InitTyped, NextTyped, PTL DEF Spec

(* Every variable keeps its type: what refInfo, the era array, the redo    *)
(* log and the RootRefs hold stays what the code declares them to hold.    *)
THEOREM TypeCorrect == Spec => []TypeOK
  <1>1. TypeInv => TypeOK
    BY DEF TypeInv
  <1> QED
    BY <1>1, Typing, PTL

-----------------------------------------------------------------------------
(* The eras are causal, as long as every count fits its field (CountFits): *)
(* the stamps then name the client that wrote them.                        *)

LEMMA PackExact ==
  ASSUME NEW c \in Thread, NEW n \in 0 .. CNT_LIMIT - 1, NEW e \in Nat
  PROVE  PackRefInfo(c, n, e) = [cid |-> c, cnt |-> n, era |-> e]
  <1>1. n \div CNT_LIMIT = 0 /\ n % CNT_LIMIT = n
    BY SizeAssumption
  <1> QED
    BY <1>1, ThreadAssumption DEF PackRefInfo

(* What an action may do to the eras, the words and the words seen. *)
LEMMA EraStep ==
  ASSUME TypeOK, TypeOK', EraInv,
         \A i \in Thread : era'[i][i] >= era[i][i],
         \A i, j \in Thread : era'[j][i] = era[j][i] \/ era'[j][i] <= era'[i][i],
         \A o \in CXLObj : refInfo'[o] = refInfo[o] \/ Reached(refInfo[o])',
         \A k \in Thread : \/ op'[k].saw = op[k].saw
                           \/ op'[k].saw.era = 0
                           \/ \E o \in CXLObj : op'[k].saw = refInfo[o],
         \/ mon'.saw = mon.saw
         \/ mon'.saw.era = 0
         \/ \E o \in CXLObj : mon'.saw = refInfo[o],
         mon'.pc = "lcid" => mon'.saw = ZeroInfo
  PROVE  EraInv'
  <1>1. \A i, j \in Thread : era[i][j] \in Nat /\ era'[i][j] \in Nat
    BY DEF TypeOK
  <1>2. \A i, j \in Thread : era'[j][i] <= era'[i][i]
    BY <1>1 DEF EraInv
  <1>3. ASSUME NEW w, w.era \in Nat, Reached(w), NEW i \in Thread, w.cid = i
        PROVE  w.era <= era'[i][i]
    BY <1>1, <1>3 DEF Reached
  <1>4. \A o \in CXLObj : Reached(refInfo[o])'
    BY <1>1, <1>3 DEF EraInv, Reached, TypeOK, Info
  <1>5. ASSUME NEW w, NEW v \in Info, v.era \in Nat, Reached(v),
               w = v \/ w.era = 0 \/ \E o \in CXLObj : w = refInfo[o],
               NEW i \in Thread, w.cid = i
        PROVE  w.era <= era'[i][i]
    <2>1. CASE w = v
      BY <1>3, <1>5, <2>1
    <2>2. CASE w.era = 0
      BY <1>1, <2>2
    <2>3. ASSUME NEW o \in CXLObj, w = refInfo[o] PROVE w.era <= era'[i][i]
      <3>1. refInfo[o].era \in Nat /\ Reached(refInfo[o])
        BY DEF EraInv, TypeOK, Info
      <3> QED
        BY <1>3, <1>5, <2>3, <3>1
    <2> QED
      BY <1>5, <2>1, <2>2, <2>3
  <1>6. ASSUME NEW k \in Thread PROVE Reached(op[k].saw)'
    <2>1. op[k].saw \in Info /\ op[k].saw.era \in Nat /\ Reached(op[k].saw)
      BY DEF EraInv, TypeOK, Op, Info
    <2>2. ASSUME NEW i \in Thread, op'[k].saw.cid = i
          PROVE  op'[k].saw.era <= era'[i][i]
      BY <1>5, <2>1, <2>2
    <2> QED
      BY <2>2 DEF Reached
  <1>7. Reached(mon.saw)'
    <2>1. mon.saw \in Info /\ mon.saw.era \in Nat /\ Reached(mon.saw)
      BY DEF EraInv, TypeOK, MonState, Info
    <2>2. ASSUME NEW i \in Thread, mon'.saw.cid = i
          PROVE  mon'.saw.era <= era'[i][i]
      BY <1>5, <2>1, <2>2
    <2> QED
      BY <2>2 DEF Reached
  <1> QED
    BY <1>2, <1>4, <1>6, <1>7 DEF EraInv

(* The steps of a client that leave the eras and the words alone. *)
LEMMA EraQuiet ==
  ASSUME TypeOK, TypeOK', EraInv, UNCHANGED <<era, refInfo, mon>>,
         \A k \in Thread : \/ op'[k].saw = op[k].saw
                           \/ op'[k].saw.era = 0
                           \/ \E o \in CXLObj : op'[k].saw = refInfo[o]
  PROVE  EraInv'
  <1>1. \A i, j \in Thread : era[i][j] \in Nat
    BY DEF TypeOK
  <1>2. mon'.pc = "lcid" => mon'.saw = ZeroInfo
    BY DEF EraInv
  <1> QED
    BY <1>1, <1>2, EraStep

(* The steps of the monitor that leave them alone. *)
LEMMA EraMonQuiet ==
  ASSUME TypeOK, TypeOK', EraInv, UNCHANGED <<era, refInfo>>,
         \A k \in Thread : op'[k].saw = op[k].saw \/ op'[k].saw.era = 0,
         \/ mon'.saw = mon.saw
         \/ mon'.saw.era = 0
         \/ \E o \in CXLObj : mon'.saw = refInfo[o],
         mon'.pc = "lcid" => mon'.saw = ZeroInfo
  PROVE  EraInv'
  <1>1. \A i, j \in Thread : era[i][j] \in Nat
    BY DEF TypeOK
  <1> QED
    BY <1>1, EraStep

LEMMA EraInit == Init => EraInv
  <1> SUFFICES ASSUME Init PROVE EraInv
    OBVIOUS
  <1>1. \A i, j \in Thread : era[j][i] <= era[i][i] /\ era[i][i] \in Nat
    BY EraAssumption DEF Init
  <1>2. Reached(ZeroInfo)
    BY <1>1 DEF Reached, ZeroInfo
  <1> QED
    BY <1>1, <1>2 DEF Init, EraInv, NoOp, NoMon

(* The words a client has seen, when its operation starts, ends or goes on. *)
LEMMA SawKept ==
  ASSUME TypeOK, NEW i \in Thread, NEW v, op' = [op EXCEPT ![i] = v],
         v.saw = op[i].saw \/ v.saw.era = 0
  PROVE  \A k \in Thread : op'[k].saw = op[k].saw \/ op'[k].saw.era = 0
  BY DEF TypeOK

LEMMA StartEras ==
  ASSUME NEW i \in Thread, TypeInv, TypeInv', EraInv, Start(i)
  PROVE  EraInv'
  <1>1. TypeOK /\ TypeOK' /\ UNCHANGED <<era, refInfo, mon>>
    BY DEF TypeInv, Start, CxlMalloc, GetRef, Drop
  <1>2. ASSUME NEW v, op' = [op EXCEPT ![i] = v], v.saw = ZeroInfo
        PROVE  EraInv'
    BY <1>1, <1>2, SawKept, EraQuiet DEF ZeroInfo
  <1>3. CASE CxlMalloc(i)
    <2>1. [NoOp EXCEPT !.func = "ALLOC"].saw = ZeroInfo
      BY DEF NoOp
    <2> QED
      BY <1>2, <1>3, <2>1 DEF CxlMalloc
  <1>4. ASSUME NEW l \in RootRef, GetRef(i, l) PROVE EraInv'
    <2>1. [NoOp EXCEPT !.func = "LINK", !.refed = pptr[l], !.src = l].saw = ZeroInfo
      BY DEF NoOp
    <2> QED
      BY <1>2, <1>4, <2>1 DEF GetRef
  <1>5. ASSUME NEW l \in RootRef, Drop(i, l) PROVE EraInv'
    <2>1. [NoOp EXCEPT !.func = "UNLINK", !.ref = l, !.refed = pptr[l]].saw = ZeroInfo
      BY DEF NoOp
    <2> QED
      BY <1>2, <1>5, <2>1 DEF Drop
  <1> QED
    BY <1>3, <1>4, <1>5 DEF Start

(* Steps into the next era. *)
LEMMA EraUp ==
  ASSUME NEW i \in Thread, TypeOK, TypeOK', EraInv, UNCHANGED mon,
         era' = [era EXCEPT ![i][i] = @ + 1], refInfo' = refInfo,
         \A k \in Thread : op'[k].saw = op[k].saw \/ op'[k].saw.era = 0
  PROVE  EraInv'
  <1>1. \A k, j \in Thread :
          era'[k][j] = IF k = i /\ j = i THEN era[i][i] + 1 ELSE era[k][j]
    BY DEF TypeOK
  <1>2. \A k, j \in Thread : era[k][j] \in Nat
    BY DEF TypeOK
  <1>3. \A k \in Thread : era'[k][k] >= era[k][k]
    BY <1>1, <1>2
  <1>4. \A k, j \in Thread : era'[j][k] = era[j][k] \/ era'[j][k] <= era'[k][k]
    BY <1>1, <1>2
  <1>5. mon'.pc = "lcid" => mon'.saw = ZeroInfo
    BY DEF EraInv
  <1> QED
    BY <1>3, <1>4, <1>5, EraStep

(* Noting a stamp that its client has reached. *)
LEMMA NotedEras ==
  ASSUME NEW i \in Thread, NEW info \in Info, TypeOK, EraInv, Reached(info),
         era' = Noted(i, info)
  PROVE  /\ \A k \in Thread : era'[k][k] = era[k][k]
         /\ \A k, j \in Thread : era'[j][k] = era[j][k] \/ era'[j][k] <= era'[k][k]
         /\ \A k, j \in Thread : era'[j][k] >= era[j][k]
  <1>1. \A k, j \in Thread : era[k][j] \in Nat /\ era[j][k] <= era[k][k]
    BY DEF TypeOK, EraInv
  <1>2. CASE ~(info.cid \in Thread /\ info.era > era[i][info.cid])
    BY <1>1, <1>2 DEF Noted
  <1>3. CASE info.cid \in Thread /\ info.era > era[i][info.cid]
    <2>1. info.era <= era[info.cid][info.cid] /\ info.era \in Nat /\ info.cid # i
      BY <1>1, <1>3 DEF Reached, Info
    <2>2. \A k, j \in Thread :
            era'[j][k] = IF j = i /\ k = info.cid THEN info.era ELSE era[j][k]
      BY <1>3 DEF Noted, TypeOK
    <2> QED
      BY <1>1, <1>3, <2>1, <2>2
  <1> QED
    BY <1>2, <1>3

LEMMA SlotEras ==
  ASSUME NEW i \in Thread, TypeInv, TypeInv', EraInv, ThreadInit(i) \/ Crash(i)
  PROVE  EraInv'
  <1>1. TypeOK /\ TypeOK'
    BY DEF TypeInv
  <1>2. CASE ThreadInit(i)
    BY <1>1, <1>2, EraUp DEF ThreadInit
  <1>3. CASE Crash(i)
    BY <1>1, <1>3, EraQuiet DEF Crash
  <1> QED
    BY <1>2, <1>3

(* Steps of an operation that read or write neither words nor eras. *)
LEMMA QuietStepEras ==
  ASSUME NEW i \in Thread, TypeInv, TypeInv', EraInv,
         \/ SlowPath(i) \/ ClearRedo(i) \/ Collect(i) \/ BlockToTbr(i)
         \/ LinkBlockToTbr(i) \/ WriteLog(i) \/ CasRetry(i) \/ StoreRef(i)
         \/ PushObject(i) \/ Release(i)
  PROVE  EraInv'
  <1>1. TypeOK /\ TypeOK' /\ op[i] \in Op
    BY DEF TypeInv, TypeOK
  <1>2. UNCHANGED <<era, refInfo, mon>>
    BY DEF SlowPath, ClearRedo, Collect, BlockToTbr, LinkBlockToTbr, WriteLog,
       CasRetry, StoreRef, PushObject, Release
  <1>3. \/ UNCHANGED op
        \/ \E v : op' = [op EXCEPT ![i] = v] /\ (v.saw = op[i].saw \/ v.saw.era = 0)
    <2>1. CASE Collect(i) \/ WriteLog(i) \/ CasRetry(i) \/ StoreRef(i) \/ PushObject(i)
      BY <2>1 DEF Collect, WriteLog, CasRetry, StoreRef, PushObject
    <2>2. CASE SlowPath(i)
      <3>1. op' = [op EXCEPT ![i] = [op[i] EXCEPT !.line = 0]]
        BY <2>2 DEF SlowPath
      <3>2. [op[i] EXCEPT !.line = 0].saw = op[i].saw
        BY <1>1 DEF Op
      <3> QED
        BY <3>1, <3>2
    <2>3. CASE ClearRedo(i)
      <3>1. op' = [op EXCEPT ![i] = [op[i] EXCEPT !.line = op[i].line + 1]]
        BY <2>3 DEF ClearRedo
      <3>2. [op[i] EXCEPT !.line = op[i].line + 1].saw = op[i].saw
        BY <1>1 DEF Op
      <3> QED
        BY <3>1, <3>2
    <2>4. CASE BlockToTbr(i)
      <3>1. PICK l \in RootRef : op' = [op EXCEPT ![i] = [op[i] EXCEPT !.ref = l]]
        BY <2>4 DEF BlockToTbr, FreeOf
      <3>2. [op[i] EXCEPT !.ref = l].saw = op[i].saw
        BY <1>1 DEF Op
      <3> QED
        BY <3>1, <3>2
    <2>5. CASE LinkBlockToTbr(i)
      <3>1. PICK o \in CXLObj : op' = [op EXCEPT ![i] = [op[i] EXCEPT !.refed = o]]
        BY <2>5 DEF LinkBlockToTbr, FreeOf
      <3>2. [op[i] EXCEPT !.refed = o].saw = op[i].saw
        BY <1>1 DEF Op
      <3> QED
        BY <3>1, <3>2
    <2>6. CASE Release(i)
      <3>1. op' = [op EXCEPT ![i] = NoOp] /\ NoOp.saw.era = 0
        BY <2>6 DEF Release, Return, NoOp, ZeroInfo
      <3> QED
        BY <3>1
    <2> QED
      BY <2>1, <2>2, <2>3, <2>4, <2>5, <2>6
  <1>4. \A k \in Thread : op'[k].saw = op[k].saw \/ op'[k].saw.era = 0
    BY <1>1, <1>3, SawKept
  <1> QED
    BY <1>1, <1>2, <1>4, EraQuiet

LEMMA ReadInfoEras ==
  ASSUME NEW i \in Thread, TypeInv, TypeInv', EraInv, ReadInfo(i)
  PROVE  EraInv'
  <1>1. TypeOK /\ TypeOK' /\ op[i].refed \in CXLObj
    BY DEF TypeInv, OpShape, ReadInfo, Running, LinkLabel, PreCas
  <1>2. op[i] \in Op /\ op' = [op EXCEPT ![i] = [op[i] EXCEPT !.saw = refInfo[op[i].refed]]]
    BY <1>1 DEF ReadInfo, TypeOK
  <1>3. [op[i] EXCEPT !.saw = refInfo[op[i].refed]].saw = refInfo[op[i].refed]
    BY <1>2 DEF Op
  <1>4. ASSUME NEW k \in Thread
        PROVE  op'[k].saw = op[k].saw \/ \E o \in CXLObj : op'[k].saw = refInfo[o]
    BY <1>1, <1>2, <1>3 DEF TypeOK
  <1> QED
    BY <1>1, <1>4, EraQuiet DEF ReadInfo

LEMMA NoteEraEras ==
  ASSUME NEW i \in Thread, TypeInv, TypeInv', EraInv, NoteEra(i)
  PROVE  EraInv'
  <1>1. TypeOK /\ TypeOK' /\ op[i].saw \in Info /\ Reached(op[i].saw)
    BY DEF TypeInv, TypeOK, Op, EraInv
  <1>2. /\ \A k \in Thread : era'[k][k] = era[k][k]
        /\ \A k, j \in Thread : era'[j][k] = era[j][k] \/ era'[j][k] <= era'[k][k]
    BY <1>1, NotedEras DEF NoteEra
  <1>3. \A k \in Thread : era'[k][k] >= era[k][k]
    BY <1>1, <1>2 DEF TypeOK
  <1>4. mon'.pc = "lcid" => mon'.saw = ZeroInfo
    BY DEF EraInv, NoteEra
  <1> QED
    BY <1>1, <1>2, <1>3, <1>4, EraStep DEF NoteEra

LEMMA TakeBlockEras ==
  ASSUME NEW i \in Thread, TypeInv, TypeInv', EraInv, TakeBlock(i)
  PROVE  EraInv'
  BY EraUp DEF TypeInv, TakeBlock

LEMMA BumpEraEras ==
  ASSUME NEW i \in Thread, TypeInv, TypeInv', EraInv, BumpEra(i)
  PROVE  EraInv'
  <1>1. TypeOK /\ TypeOK'
    BY DEF TypeInv
  <1>2. UNCHANGED op \/ op' = [op EXCEPT ![i] = NoOp]
    BY DEF BumpEra, Return
  <1>3. \A k \in Thread : op'[k].saw = op[k].saw \/ op'[k].saw.era = 0
    <2>1. NoOp.saw.era = 0
      BY DEF NoOp, ZeroInfo
    <2> QED
      BY <1>1, <1>2, <2>1, SawKept
  <1> QED
    BY <1>1, <1>3, EraUp DEF BumpEra

(* Steps that write a word: the new word names its writer's own era. *)
LEMMA WordEras ==
  ASSUME NEW i \in Thread, TypeOK, TypeOK', EraInv, UNCHANGED era,
         NEW o \in CXLObj, NEW w \in Info, refInfo' = [refInfo EXCEPT ![o] = w],
         w.cid \in Thread => w.cid = i /\ w.era <= era[i][i],
         \A k \in Thread : op'[k].saw = op[k].saw \/ op'[k].saw.era = 0,
         mon'.saw = mon.saw,
         mon'.pc = "lcid" => mon.pc = "lcid"
  PROVE  EraInv'
  <1>1. \A k, j \in Thread : era[k][j] \in Nat
    BY DEF TypeOK
  <1>2. \A p \in CXLObj : refInfo'[p] = refInfo[p] \/ Reached(refInfo[p])'
    BY DEF TypeOK, Reached
  <1>3. mon'.pc = "lcid" => mon'.saw = ZeroInfo
    BY DEF EraInv
  <1> QED
    BY <1>1, <1>2, <1>3, EraStep

LEMMA StampObjectEras ==
  ASSUME NEW i \in Thread, TypeInv, TypeInv', EraInv, StampObject(i)
  PROVE  EraInv'
  <1>1. TypeOK /\ TypeOK' /\ op[i].refed \in CXLObj /\ era[i][i] \in Nat \ {0}
    BY DEF TypeInv, TypeOK, OpShape, StampObject, Running
  <1>2. PackRefInfo(i, 1, era[i][i] - 1) = [cid |-> i, cnt |-> 1, era |-> era[i][i] - 1]
    BY <1>1, PackExact, SizeAssumption
  <1>3. PackRefInfo(i, 1, era[i][i] - 1) \in Info
    BY <1>1, <1>2, ThreadAssumption DEF Info
  <1>4. \A k \in Thread : op'[k].saw = op[k].saw \/ op'[k].saw.era = 0
    <2>1. op' = [op EXCEPT ![i] = NoOp] /\ NoOp.saw.era = 0
      BY DEF StampObject, Return, NoOp, ZeroInfo
    <2> QED
      BY <1>1, <2>1, SawKept
  <1> DEFINE w == PackRefInfo(i, 1, era[i][i] - 1)
  <1>5. refInfo' = [refInfo EXCEPT ![op[i].refed] = w] /\ UNCHANGED <<era, mon>>
    BY DEF StampObject
  <1>6. w.cid = i /\ w.era <= era[i][i] /\ w \in Info
    BY <1>1, <1>2, <1>3
  <1> HIDE DEF w
  <1> QED
    BY <1>1, <1>4, <1>5, <1>6, WordEras

LEMMA CasInfoEras ==
  ASSUME NEW i \in Thread, TypeInv, TypeInv', EraInv, CountFits, CasInfo(i)
  PROVE  EraInv'
  <1>1. TypeOK /\ TypeOK' /\ op[i].refed \in CXLObj /\ era[i][i] \in Nat
    BY DEF TypeInv, TypeOK, OpShape, CasInfo, Running, LinkLabel, PreCas
  <1>2. op[i].saw.cnt + Delta(i) \in 0 .. CNT_LIMIT - 1
    BY DEF CountFits, CasInfo, Running
  <1> DEFINE w == PackRefInfo(i, op[i].saw.cnt + Delta(i), era[i][i])
  <1>3. w = [cid |-> i, cnt |-> op[i].saw.cnt + Delta(i), era |-> era[i][i]]
    BY <1>1, <1>2, PackExact
  <1>4. w \in Info
    BY <1>1, <1>2, <1>3, ThreadAssumption, SizeAssumption DEF Info
  <1>5. \A k \in Thread : op'[k].saw = op[k].saw
    BY <1>1 DEF TypeOK, Op, CasInfo
  <1>6. refInfo' = [refInfo EXCEPT ![op[i].refed] = w] /\ UNCHANGED <<era, mon>>
    BY DEF CasInfo
  <1>7. w.cid = i /\ w.era <= era[i][i]
    BY <1>1, <1>3
  <1> HIDE DEF w
  <1> QED
    BY <1>1, <1>4, <1>5, <1>6, <1>7, WordEras

LEMMA WipeObjectEras ==
  ASSUME NEW i \in Thread, TypeInv, TypeInv', EraInv, WipeObject(i)
  PROVE  EraInv'
  <1>1. TypeOK /\ TypeOK' /\ op[i].refed \in CXLObj
    BY DEF TypeInv, OpShape, WipeObject, Running, LinkLabel, FreeLabel
  <1>2. ZeroInfo \in Info /\ ZeroInfo.cid \notin Thread
    BY ThreadAssumption DEF ZeroInfo, Info
  <1> QED
    BY <1>1, <1>2, WordEras DEF WipeObject

LEMMA StepEras ==
  ASSUME NEW i \in Thread, TypeInv, TypeInv', EraInv, CountFits, Step(i)
  PROVE  EraInv'
  BY QuietStepEras, ReadInfoEras, NoteEraEras, TakeBlockEras, BumpEraEras,
     StampObjectEras, CasInfoEras, WipeObjectEras DEF Step
-----------------------------------------------------------------------------
(* The monitor. *)
LEMMA ScanEras ==
  ASSUME TypeInv, TypeInv', EraInv,
         \/ \E i \in Thread : Detect(i)
         \/ LoadLcid \/ LoadLenum \/ ScanRow \/ ScanEnd \/ Redo
         \/ \E l \in RootRef : Visit(l)
         \/ MonRetry \/ MonDrop
  PROVE  EraInv'
  <1>1. TypeOK /\ TypeOK' /\ mon \in MonState
    BY DEF TypeInv, TypeOK
  <1>2. UNCHANGED <<era, refInfo, op>>
    BY DEF Detect, LoadLcid, LoadLenum, ScanRow, ScanEnd, Redo, Visit, MonRetry,
       MonDrop, clientVars
  <1>3. ASSUME mon'.saw = mon.saw \/ mon'.saw.era = 0,
               mon'.pc = "lcid" => mon'.saw = ZeroInfo
        PROVE  EraInv'
    BY <1>1, <1>2, <1>3, EraMonQuiet
  <1>4. ASSUME NEW i \in Thread, Detect(i) PROVE EraInv'
    <2>1. PICK n \in Lines, p \in {"gc", "lcid"} :
            mon' = [NoMon EXCEPT !.tgt = i, !.log = redo[i][n], !.pc = p]
      BY <1>4 DEF Detect
    <2>2. mon'.saw = ZeroInfo
      BY <2>1 DEF NoMon
    <2> QED
      BY <1>3, <2>2 DEF ZeroInfo
  <1>5. CASE LoadLcid
    <2>1. mon.saw = ZeroInfo
      BY <1>5 DEF LoadLcid, Mon, EraInv
    <2>2. mon'.saw.era = 0 /\ mon'.pc = "lenum"
      BY <1>1, <1>5, <2>1 DEF LoadLcid, MonState, ZeroInfo
    <2> QED
      BY <1>3, <2>2
  <1>6. CASE LoadLenum
    <2>1. mon'.saw = mon.saw /\ mon'.pc # "lcid"
      BY <1>1, <1>6 DEF LoadLenum, MonState
    <2> QED
      BY <1>3, <2>1
  <1>7. CASE ScanRow
    <2>1. mon'.saw = mon.saw /\ mon'.pc # "lcid"
      BY <1>1, <1>7 DEF ScanRow, Mon, MonState
    <2> QED
      BY <1>3, <2>1
  <1>8. CASE ScanEnd
    <2>1. mon'.saw = mon.saw /\ mon'.pc # "lcid"
      BY <1>1, <1>8 DEF ScanEnd, MonState
    <2> QED
      BY <1>3, <2>1
  <1>9. CASE Redo
    <2>1. mon'.saw = mon.saw /\ mon'.pc # "lcid"
      BY <1>1, <1>9 DEF Redo, MonState
    <2> QED
      BY <1>3, <2>1
  <1>10. ASSUME NEW l \in RootRef, Visit(l) PROVE EraInv'
    <2>1. mon'.saw = mon.saw /\ mon'.pc # "lcid"
      BY <1>1, <1>10 DEF Visit, MonState
    <2> QED
      BY <1>3, <2>1
  <1>11. CASE MonRetry \/ MonDrop
    <2>1. mon'.saw = mon.saw /\ mon'.pc # "lcid"
      BY <1>1, <1>11 DEF MonRetry, MonDrop, MonState
    <2> QED
      BY <1>3, <2>1
  <1> QED
    BY <1>4, <1>5, <1>6, <1>7, <1>8, <1>9, <1>10, <1>11

LEMMA MonReadEras ==
  ASSUME TypeInv, TypeInv', EraInv, MonRead
  PROVE  EraInv'
  <1>1. TypeOK /\ TypeOK' /\ mon \in MonState
    BY DEF TypeInv, TypeOK
  <1>2. pptr[mon.ref] \in CXLObj
    BY DEF TypeInv, MonShape, MonRead, Mon, UnlinkLabel
  <1>3. mon'.saw = refInfo[pptr[mon.ref]] /\ mon'.pc = "note"
    BY <1>1 DEF MonRead, MonState
  <1> QED
    BY <1>1, <1>2, <1>3, EraMonQuiet DEF MonRead, clientVars

LEMMA MonNoteEras ==
  ASSUME TypeInv, TypeInv', EraInv, MonNote
  PROVE  EraInv'
  <1>1. TypeOK /\ TypeOK' /\ mon.saw \in Info /\ Reached(mon.saw) /\ mon \in MonState
    BY DEF TypeInv, TypeOK, MonState, EraInv
  <1>2. mon.tgt \in Thread
    BY DEF TypeInv, MonShape, MonNote, Mon
  <1>3. /\ \A k \in Thread : era'[k][k] = era[k][k]
        /\ \A k, j \in Thread : era'[j][k] = era[j][k] \/ era'[j][k] <= era'[k][k]
    BY <1>1, <1>2, NotedEras DEF MonNote
  <1>4. \A k \in Thread : era'[k][k] >= era[k][k]
    BY <1>1, <1>3 DEF TypeOK
  <1>5. mon'.saw = mon.saw /\ mon'.pc # "lcid"
    BY <1>1 DEF MonNote, MonState
  <1> QED
    BY <1>1, <1>3, <1>4, <1>5, EraStep DEF MonNote

LEMMA MonCasEras ==
  ASSUME TypeInv, TypeInv', EraInv, CountFits, MonCas
  PROVE  EraInv'
  <1>1. TypeOK /\ TypeOK' /\ mon \in MonState
    BY DEF TypeInv, TypeOK
  <1>2. mon.tgt \in Thread /\ pptr[mon.ref] \in CXLObj
    BY DEF TypeInv, MonShape, MonCas, Mon, UnlinkLabel
  <1>3. mon.saw.cnt - 1 \in 0 .. CNT_LIMIT - 1 /\ era[mon.tgt][mon.tgt] \in Nat
    BY <1>1, <1>2 DEF CountFits, MonCas, Mon, TypeOK
  <1> DEFINE w == PackRefInfo(mon.tgt, mon.saw.cnt - 1, era[mon.tgt][mon.tgt])
  <1>4. w = [cid |-> mon.tgt, cnt |-> mon.saw.cnt - 1, era |-> era[mon.tgt][mon.tgt]]
    BY <1>2, <1>3, PackExact
  <1>5. w \in Info
    <2> HIDE DEF w
    <2>1. mon.tgt \in Int
      <3>1. \A k \in Thread : k \in Int
        BY ThreadAssumption
      <3> QED
        BY <1>2, <3>1
    <2>2. \A n \in 0 .. CNT_LIMIT - 1 : n \in Nat
      BY SizeAssumption
    <2>3. mon.saw.cnt - 1 \in Nat
      BY <1>3, <2>2
    <2> QED
      BY <1>3, <1>4, <2>1, <2>3 DEF Info
  <1>6. w.cid = mon.tgt /\ w.era <= era[mon.tgt][mon.tgt]
    BY <1>3, <1>4
  <1>7. /\ refInfo' = [refInfo EXCEPT ![pptr[mon.ref]] = w] /\ UNCHANGED <<era, op>>
        /\ mon'.saw = mon.saw /\ mon'.pc # "lcid"
    BY <1>1 DEF MonCas, MonState
  <1> HIDE DEF w
  <1> QED
    BY <1>1, <1>2, <1>5, <1>6, <1>7, WordEras

LEMMA MonStoreEras ==
  ASSUME TypeInv, TypeInv', EraInv, MonStore
  PROVE  EraInv'
  <1>1. TypeOK /\ TypeOK' /\ mon \in MonState /\ mon.tgt \in Thread
    BY DEF TypeInv, TypeOK, MonShape, MonStore, Mon
  <1>2. \A k, j \in Thread : era'[k][j] =
          IF k = mon.tgt /\ j = mon.tgt THEN era[k][j] + 1 ELSE era[k][j]
    BY <1>1 DEF MonStore, TypeOK
  <1>3. \A k, j \in Thread : era[k][j] \in Nat
    BY <1>1 DEF TypeOK
  <1>4. \A k \in Thread : era'[k][k] >= era[k][k]
    BY <1>2, <1>3
  <1>5. \A k, j \in Thread : era'[j][k] = era[j][k] \/ era'[j][k] <= era'[k][k]
    BY <1>2, <1>3
  <1>6. \A o \in CXLObj : refInfo'[o] = refInfo[o] \/ Reached(refInfo[o])'
    <2>1. ZeroInfo.cid \notin Thread
      BY ThreadAssumption DEF ZeroInfo
    <2>2. \A o \in CXLObj : refInfo'[o] = refInfo[o] \/ refInfo'[o] = ZeroInfo
      BY <1>1 DEF MonStore, TypeOK
    <2> QED
      BY <2>1, <2>2 DEF Reached
  <1>7. mon'.saw = mon.saw /\ mon'.pc # "lcid"
    BY <1>1 DEF MonStore, MonState
  <1> QED
    BY <1>1, <1>4, <1>5, <1>6, <1>7, EraStep DEF MonStore

LEMMA FinishEras ==
  ASSUME TypeInv, TypeInv', EraInv, Finish
  PROVE  EraInv'
  <1>1. TypeOK /\ TypeOK' /\ mon.tgt \in Thread
    BY DEF TypeInv, MonShape, Finish, Mon
  <1>2. op' = [op EXCEPT ![mon.tgt] = NoOp] /\ NoOp.saw.era = 0
    BY DEF Finish, Return, NoOp, ZeroInfo
  <1>3. \A k \in Thread : op'[k].saw = op[k].saw \/ op'[k].saw.era = 0
    BY <1>1, <1>2, SawKept
  <1>4. mon'.saw.era = 0 /\ mon'.pc # "lcid"
    BY DEF Finish, NoMon, ZeroInfo
  <1> QED
    BY <1>1, <1>3, <1>4, EraMonQuiet DEF Finish

LEMMA MonitorEras ==
  ASSUME TypeInv, TypeInv', EraInv, CountFits, Monitor
  PROVE  EraInv'
  BY ScanEras, MonReadEras, MonNoteEras, MonCasEras, MonStoreEras, FinishEras
     DEF Monitor

-----------------------------------------------------------------------------
LEMMA NextEras == TypeInv /\ TypeInv' /\ EraInv /\ CountFits /\ [Next]_vars => EraInv'
  <1> SUFFICES ASSUME TypeInv, TypeInv', EraInv, CountFits, [Next]_vars PROVE EraInv'
    OBVIOUS
  <1>1. CASE Next
    BY <1>1, SlotEras, StartEras, StepEras, MonitorEras DEF Next
  <1>2. CASE UNCHANGED vars
    BY <1>2 DEF vars, EraInv, Reached
  <1> QED
    BY <1>1, <1>2

(* As long as every count fits its field, no stamp and no era noted by     *)
(* anybody is ahead of the client it belongs to: what the CASes write and  *)
(* what link_reference, unlink_reference and the monitor note.             *)
THEOREM ErasCausal == Spec /\ []CountFits => []EraCausal
  <1>1. EraInv => EraCausal
    BY DEF EraInv, EraCausal, Reached
  <1> QED
    BY <1>1, EraInit, NextEras, Typing, PTL DEF Spec
=============================================================================
