----------------------- MODULE EraRefCountRedo_proofs -----------------------
(***************************************************************************)
(* Proof that a record of the redo log whose operation is over can be      *)
(* replayed at any time, as long as every count fits its field; that a     *)
(* client has been seen in its current era exactly if it has passed its    *)
(* CAS, that the era evidence of a redo record is therefore exact, and that*)
(* the monitor, which reads the evidence piece by piece, comes to the right*)
(* verdict.                                                                *)
(***************************************************************************)
EXTENDS EraRefCount_proofs

LEMMA LineIn ==
  ASSUME NEW e \in Nat
  PROVE  RedoLine(e) \in Lines
  BY SizeAssumption DEF RedoLine, Lines

LEMMA RecordType ==
  ASSUME TypeOK, NEW i \in Thread, NEW n \in Lines, Kept(i, n)
  PROVE  /\ redo[i][n].ref \in RootRef /\ redo[i][n].refed \in CXLObj
         /\ redo[i][n].cur_era \in Nat /\ redo[i][n].func_id \in {"LINK", "UNLINK"}
  <1>1. redo[i][n] \in Log /\ redo[i][n] # NoLog
    BY DEF TypeOK, Kept, NoLog
  <1> QED
    BY <1>1 DEF Log

LEMMA NatOrder ==
  ASSUME NEW a \in Nat, NEW b \in Nat
  PROVE  /\ a < b + 1 => a < b \/ a = b
         /\ a <= b => a < b + 1 /\ a # b + 1
         /\ a <= b /\ a # b => a < b
         /\ a < b => a # b
  OBVIOUS

LEMMA NotNull == NULL \notin CXLObj /\ NULL \notin RootRef /\ RootRef \cap CXLObj = {}
  BY BlockAssumption DEF Block

(* A client that runs is not being recovered. *)
LEMMA RunActive ==
  ASSUME MonShape, NEW i \in Thread, slot[i] = "run"
  PROVE  LogActive(i)
  BY DEF MonShape, LogActive, Redone

(* The log of a client that does not act, and whose RootRefs stay. *)
LEMMA LogFrame ==
  ASSUME NEW i \in Thread, TypeOK, OpShape(i), LogInv(i),
         redo'[i] = redo[i], pc'[i] = pc[i], op'[i] = op[i],
         slot'[i] = "vacant" => slot[i] = "vacant",
         LogActive(i)' =>
           /\ LogActive(i)
           /\ era'[i][i] = era[i][i]
           /\ \A l \in RootRef : Home[l] = i =>
                /\ pptr'[l] = pptr[l] /\ inUse'[l] = inUse[l]
                /\ block[l] # "free" => block'[l] = block[l]
  PROVE  LogInv(i)'
  <1>1. /\ slot'[i] = "vacant" => \A n \in Lines : redo'[i][n] = NoLog
        /\ \A n \in Lines : Kept(i, n)' => Home[redo'[i][n].ref] = i
    BY DEF LogInv, Kept
  <1>2. ASSUME LogActive(i)'
        PROVE  (LogLines(i) /\ LogCurrent(i) /\ LogFresh(i) /\ OpHolds(i) /\ LogOld(i))'
    <2>1. /\ LogLines(i) /\ LogCurrent(i) /\ LogFresh(i) /\ OpHolds(i) /\ LogOld(i)
          /\ era'[i][i] = era[i][i]
      BY <1>2 DEF LogInv
    <2>2. \A n \in Lines : Kept(i, n) => redo[i][n].ref \in RootRef /\ Home[redo[i][n].ref] = i
      BY RecordType DEF LogInv
    <2>3. \A n \in Lines : Kept(i, n)' = Kept(i, n)
      BY DEF Kept
    <2>4. \A l \in RootRef : Home[l] = i =>
            /\ pptr'[l] = pptr[l] /\ inUse'[l] = inUse[l]
            /\ block[l] # "free" => block'[l] = block[l]
      BY <1>2
    <2>5. pc[i] \in AllocLabel \cup LinkLabel => op[i].ref \in RootRef /\ Home[op[i].ref] = i
      BY DEF OpShape
    <2>6. LogLines(i)'
      BY <2>1, <2>2, <2>3, <2>4 DEF LogLines, Record
    <2>7. LogCurrent(i)' /\ LogFresh(i)'
      BY <2>1, <2>3 DEF LogCurrent, LogFresh, Record
    <2>8. OpHolds(i)'
      BY <2>1, <2>4, <2>5 DEF OpHolds, Emptied, LinkLabel, PreCas, PostCas, FreeLabel
    <2>9. LogOld(i)'
      BY <2>1, <2>2, <2>3, <2>4 DEF LogOld, Emptied, RedoValue
    <2> QED
      BY <2>6, <2>7, <2>8, <2>9
  <1> QED
    BY <1>1, <1>2 DEF LogInv

(* A step of client i, whose log has been dealt with. *)
LEMMA ClientRedo ==
  ASSUME NEW i \in Thread, TypeInv, RedoInv, UNCHANGED mon, LogInv(i)',
         \A k \in Thread \ {i} :
           /\ redo'[k] = redo[k] /\ era'[k][k] = era[k][k]
           /\ pc'[k] = pc[k] /\ op'[k] = op[k] /\ slot'[k] = slot[k],
         \A l \in RootRef : Home[l] # i =>
           /\ pptr'[l] = pptr[l] /\ inUse'[l] = inUse[l]
           /\ block[l] # "free" => block'[l] = block[l],
         \A l \in RootRef : inUse'[l] => block'[l] = "used"
  PROVE  RedoInv'
  <1>1. ASSUME NEW k \in Thread \ {i} PROVE LogInv(k)'
    <2>1. TypeOK /\ OpShape(k) /\ LogInv(k)
      BY DEF TypeInv, RedoInv
    <2>2. LogActive(k)' => LogActive(k)
      BY DEF LogActive, Redone
    <2> QED
      BY <2>1, <2>2, LogFrame
  <1> QED
    BY <1>1 DEF RedoInv

(* What is known when client i takes a step. *)
LEMMA Running1 ==
  ASSUME TypeInv, RedoInv, NEW i \in Thread, slot[i] = "run"
  PROVE  /\ TypeOK /\ OpShape(i) /\ LogInv(i) /\ LogActive(i)
         /\ LogLines(i) /\ LogCurrent(i) /\ LogFresh(i) /\ OpHolds(i) /\ LogOld(i)
         /\ \A n \in Lines : Kept(i, n) =>
              redo[i][n].ref \in RootRef /\ redo[i][n].cur_era \in Nat
         /\ pc[i] \in AllocLabel \cup LinkLabel =>
              op[i].ref \in RootRef /\ Home[op[i].ref] = i
         /\ era[i][i] \in Nat
  <1>1. TypeOK /\ OpShape(i) /\ LogInv(i) /\ LogActive(i) /\ era[i][i] \in Nat
    BY RunActive DEF TypeInv, RedoInv, TypeOK
  <1>2. \A n \in Lines : Kept(i, n) =>
          redo[i][n].ref \in RootRef /\ redo[i][n].cur_era \in Nat
    BY <1>1, RecordType
  <1>3. pc[i] \in AllocLabel \cup LinkLabel => op[i].ref \in RootRef /\ Home[op[i].ref] = i
    BY <1>1 DEF OpShape
  <1> QED
    BY <1>1, <1>2, <1>3 DEF LogInv

LEMMA CxlMallocRedo ==
  ASSUME NEW i \in Thread, TypeInv, TypeInv', EraInv, RedoInv, CxlMalloc(i)
  PROVE  RedoInv'
  <1> USE DEF AllocLabel, ObjectLabel, LinkLabel, PreCas, PostCas, FreeLabel
  <1>1. /\ TypeOK /\ OpShape(i) /\ LogInv(i) /\ LogActive(i) /\ slot[i] = "run"
        /\ LogLines(i) /\ LogCurrent(i) /\ LogFresh(i) /\ OpHolds(i) /\ LogOld(i)
        /\ \A n \in Lines : Kept(i, n) =>
             redo[i][n].ref \in RootRef /\ redo[i][n].cur_era \in Nat
        /\ pc[i] \in AllocLabel \cup LinkLabel =>
             op[i].ref \in RootRef /\ Home[op[i].ref] = i
        /\ era[i][i] \in Nat
    BY Running1 DEF CxlMalloc, Running, CanStart
  <1>2. /\ UNCHANGED <<mon, slot>>
        /\ \A k \in Thread \ {i} :
             /\ redo'[k] = redo[k] /\ era'[k][k] = era[k][k]
             /\ pc'[k] = pc[k] /\ op'[k] = op[k] /\ slot'[k] = slot[k]
    BY <1>1 DEF TypeOK, CxlMalloc
  <1>3. /\ redo'[i] = redo[i] /\ era'[i][i] = era[i][i] /\ pptr' = pptr /\ inUse' = inUse
        /\ \A r \in RootRef : block'[r] = block[r]
    BY <1>1 DEF TypeOK, CxlMalloc
  <1>4. pc[i] = "idle" /\ pc'[i] = "root" /\ op[i] = NoOp
    BY <1>1 DEF TypeOK, CxlMalloc, Running, CanStart, OpShape
  <1>5. LogLines(i)'
    BY <1>1, <1>3, <1>4 DEF LogLines, Kept, Record
  <1>6. LogCurrent(i)'
    BY <1>1, <1>3, <1>4 DEF LogCurrent, Record
  <1>7. LogFresh(i)'
    BY <1>1, <1>3, <1>4 DEF LogFresh, Kept
  <1>8. OpHolds(i)'
    BY <1>1, <1>3, <1>4 DEF OpHolds, Emptied
  <1>9. LogOld(i)'
    BY <1>1, <1>3, <1>4 DEF LogOld, Kept, Emptied, RedoValue
  <1>10. \A n \in Lines : Kept(i, n)' => Home[redo'[i][n].ref] = i
    BY <1>1, <1>3 DEF LogInv, Kept
  <1>11. \A r \in RootRef : Home[r] # i =>
           /\ pptr'[r] = pptr[r] /\ inUse'[r] = inUse[r]
           /\ block[r] # "free" => block'[r] = block[r]
    BY <1>3
  <1>12. \A r \in RootRef : inUse'[r] => block'[r] = "used"
    BY <1>3 DEF RedoInv
  <1>13. LogInv(i)'
    BY <1>1, <1>2, <1>5, <1>6, <1>7, <1>8, <1>9, <1>10 DEF LogInv
  <1> QED
    BY <1>2, <1>11, <1>12, <1>13, ClientRedo

LEMMA GetRefRedo ==
  ASSUME NEW i \in Thread, NEW s \in RootRef, TypeInv, TypeInv', EraInv, RedoInv, GetRef(i, s)
  PROVE  RedoInv'
  <1> USE DEF AllocLabel, ObjectLabel, LinkLabel, PreCas, PostCas, FreeLabel
  <1>1. /\ TypeOK /\ OpShape(i) /\ LogInv(i) /\ LogActive(i) /\ slot[i] = "run"
        /\ LogLines(i) /\ LogCurrent(i) /\ LogFresh(i) /\ OpHolds(i) /\ LogOld(i)
        /\ \A n \in Lines : Kept(i, n) =>
             redo[i][n].ref \in RootRef /\ redo[i][n].cur_era \in Nat
        /\ pc[i] \in AllocLabel \cup LinkLabel =>
             op[i].ref \in RootRef /\ Home[op[i].ref] = i
        /\ era[i][i] \in Nat
    BY Running1 DEF GetRef, Running, CanStart
  <1>2. /\ UNCHANGED <<mon, slot>>
        /\ \A k \in Thread \ {i} :
             /\ redo'[k] = redo[k] /\ era'[k][k] = era[k][k]
             /\ pc'[k] = pc[k] /\ op'[k] = op[k] /\ slot'[k] = slot[k]
    BY <1>1 DEF TypeOK, GetRef
  <1>3. /\ redo'[i] = redo[i] /\ era'[i][i] = era[i][i] /\ pptr' = pptr /\ inUse' = inUse
        /\ \A r \in RootRef : block'[r] = block[r]
    BY <1>1 DEF TypeOK, GetRef
  <1>4. pc[i] = "idle" /\ pc'[i] = "root" /\ op[i] = NoOp
    BY <1>1 DEF TypeOK, GetRef, Running, CanStart, OpShape
  <1>5. LogLines(i)'
    BY <1>1, <1>3, <1>4 DEF LogLines, Kept, Record
  <1>6. LogCurrent(i)'
    BY <1>1, <1>3, <1>4 DEF LogCurrent, Record
  <1>7. LogFresh(i)'
    BY <1>1, <1>3, <1>4 DEF LogFresh, Kept
  <1>8. OpHolds(i)'
    BY <1>1, <1>3, <1>4 DEF OpHolds, Emptied
  <1>9. LogOld(i)'
    BY <1>1, <1>3, <1>4 DEF LogOld, Kept, Emptied, RedoValue
  <1>10. \A n \in Lines : Kept(i, n)' => Home[redo'[i][n].ref] = i
    BY <1>1, <1>3 DEF LogInv, Kept
  <1>11. \A r \in RootRef : Home[r] # i =>
           /\ pptr'[r] = pptr[r] /\ inUse'[r] = inUse[r]
           /\ block[r] # "free" => block'[r] = block[r]
    BY <1>3
  <1>12. \A r \in RootRef : inUse'[r] => block'[r] = "used"
    BY <1>3 DEF RedoInv
  <1>13. LogInv(i)'
    BY <1>1, <1>2, <1>5, <1>6, <1>7, <1>8, <1>9, <1>10 DEF LogInv
  <1> QED
    BY <1>2, <1>11, <1>12, <1>13, ClientRedo

LEMMA DropRedo ==
  ASSUME NEW i \in Thread, NEW l \in RootRef, TypeInv, TypeInv', EraInv, RedoInv, Drop(i, l)
  PROVE  RedoInv'
  <1> USE DEF AllocLabel, ObjectLabel, LinkLabel, PreCas, PostCas, FreeLabel
  <1>1. /\ TypeOK /\ OpShape(i) /\ LogInv(i) /\ LogActive(i) /\ slot[i] = "run"
        /\ LogLines(i) /\ LogCurrent(i) /\ LogFresh(i) /\ OpHolds(i) /\ LogOld(i)
        /\ \A n \in Lines : Kept(i, n) =>
             redo[i][n].ref \in RootRef /\ redo[i][n].cur_era \in Nat
        /\ pc[i] \in AllocLabel \cup LinkLabel =>
             op[i].ref \in RootRef /\ Home[op[i].ref] = i
        /\ era[i][i] \in Nat
    BY Running1 DEF Drop, Running, CanStart
  <1>2. /\ UNCHANGED <<mon, slot>>
        /\ \A k \in Thread \ {i} :
             /\ redo'[k] = redo[k] /\ era'[k][k] = era[k][k]
             /\ pc'[k] = pc[k] /\ op'[k] = op[k] /\ slot'[k] = slot[k]
    BY <1>1 DEF TypeOK, Drop
  <1>3. /\ redo'[i] = redo[i] /\ era'[i][i] = era[i][i] /\ pptr' = pptr /\ inUse' = inUse
        /\ \A r \in RootRef : block'[r] = block[r]
    BY <1>1 DEF TypeOK, Drop
  <1>4. /\ pc[i] = "idle" /\ pc'[i] = "read" /\ op[i] = NoOp
        /\ op'[i].func = "UNLINK" /\ op'[i].ref = l /\ op'[i].refed = pptr[l]
        /\ inUse[l] /\ block[l] = "used"
    BY <1>1 DEF TypeOK, Drop, Running, CanStart, OpShape, NoOp, RedoInv
  <1>5. LogLines(i)'
    BY <1>1, <1>3, <1>4 DEF LogLines, Kept, Record
  <1>6. LogCurrent(i)'
    BY <1>1, <1>3, <1>4 DEF LogCurrent, Record
  <1>7. LogFresh(i)'
    BY <1>1, <1>3, <1>4 DEF LogFresh, Kept
  <1>8. OpHolds(i)'
    BY <1>1, <1>3, <1>4 DEF OpHolds, Emptied
  <1>9. LogOld(i)'
    BY <1>1, <1>3, <1>4 DEF LogOld, Kept, Emptied, RedoValue
  <1>10. \A n \in Lines : Kept(i, n)' => Home[redo'[i][n].ref] = i
    BY <1>1, <1>3 DEF LogInv, Kept
  <1>11. \A r \in RootRef : Home[r] # i =>
           /\ pptr'[r] = pptr[r] /\ inUse'[r] = inUse[r]
           /\ block[r] # "free" => block'[r] = block[r]
    BY <1>3
  <1>12. \A r \in RootRef : inUse'[r] => block'[r] = "used"
    BY <1>3 DEF RedoInv
  <1>13. LogInv(i)'
    BY <1>1, <1>2, <1>5, <1>6, <1>7, <1>8, <1>9, <1>10 DEF LogInv
  <1> QED
    BY <1>2, <1>11, <1>12, <1>13, ClientRedo

(* A step that leaves the records, the RootRefs and the operation alone    *)
(* keeps what the old records say.                                         *)
LEMMA LogOldFrame ==
  ASSUME NEW i \in Thread, LogOld(i), redo'[i] = redo[i], era'[i][i] = era[i][i],
         pptr' = pptr, inUse' = inUse, op'[i].ref = op[i].ref, ~Emptied(i)
  PROVE  LogOld(i)'
  BY DEF LogOld, Kept, RedoValue

LEMMA SlowPathRedo ==
  ASSUME NEW i \in Thread, TypeInv, TypeInv', EraInv, RedoInv, SlowPath(i)
  PROVE  RedoInv'
  <1> USE DEF AllocLabel, ObjectLabel, LinkLabel, PreCas, PostCas, FreeLabel
  <1>1. /\ TypeOK /\ OpShape(i) /\ LogInv(i) /\ LogActive(i) /\ slot[i] = "run"
        /\ LogLines(i) /\ LogCurrent(i) /\ LogFresh(i) /\ OpHolds(i) /\ LogOld(i)
        /\ \A n \in Lines : Kept(i, n) =>
             redo[i][n].ref \in RootRef /\ redo[i][n].cur_era \in Nat
        /\ pc[i] \in AllocLabel \cup LinkLabel =>
             op[i].ref \in RootRef /\ Home[op[i].ref] = i
        /\ era[i][i] \in Nat
    BY Running1 DEF SlowPath, Running, CanStart
  <1>2. /\ UNCHANGED <<mon, slot>>
        /\ \A k \in Thread \ {i} :
             /\ redo'[k] = redo[k] /\ era'[k][k] = era[k][k]
             /\ pc'[k] = pc[k] /\ op'[k] = op[k] /\ slot'[k] = slot[k]
    BY <1>1 DEF TypeOK, SlowPath
  <1>3. /\ redo'[i] = redo[i] /\ era'[i][i] = era[i][i] /\ pptr' = pptr /\ inUse' = inUse
        /\ \A r \in RootRef : block'[r] = block[r]
    BY <1>1 DEF TypeOK, SlowPath
  <1>4. /\ op'[i].line = 0 /\ op'[i].func = op[i].func
        /\ op'[i].ref = op[i].ref /\ op'[i].refed = op[i].refed
        /\ \/ pc[i] = "root" /\ pc'[i] = "clear root"
           \/ pc[i] = "object" /\ pc'[i] = "clear object"
        /\ \A n \in Lines : ~(n < 0)
    <2>1. op'[i] = [op[i] EXCEPT !.line = 0] /\ op[i] \in Op
      BY <1>1 DEF TypeOK, SlowPath
    <2>2. \/ pc[i] = "root" /\ pc'[i] = "clear root"
          \/ pc[i] = "object" /\ pc'[i] = "clear object"
      BY <1>1 DEF TypeOK, SlowPath, Running
    <2>3. /\ op'[i].line = 0 /\ op'[i].func = op[i].func
          /\ op'[i].ref = op[i].ref /\ op'[i].refed = op[i].refed
      BY <2>1 DEF Op
    <2>4. \A n \in Lines : ~(n < 0)
      BY DEF Lines
    <2> QED
      BY <2>2, <2>3, <2>4
  <1>5. LogLines(i)'
    BY <1>1, <1>3, <1>4 DEF LogLines, Kept, Record
  <1>6. LogCurrent(i)'
    BY <1>1, <1>3, <1>4 DEF LogCurrent, Record
  <1>7. LogFresh(i)'
    BY <1>1, <1>3, <1>4 DEF LogFresh, Kept
  <1>8. OpHolds(i)'
    BY <1>1, <1>3, <1>4 DEF OpHolds, Emptied
  <1>9. LogOld(i)'
    <2>1. ~Emptied(i)
      BY <1>4 DEF Emptied
    <2> QED
      BY <2>1, <1>1, <1>3, <1>4, LogOldFrame
  <1>10. \A n \in Lines : Kept(i, n)' => Home[redo'[i][n].ref] = i
    BY <1>1, <1>3 DEF LogInv, Kept
  <1>11. \A r \in RootRef : Home[r] # i =>
           /\ pptr'[r] = pptr[r] /\ inUse'[r] = inUse[r]
           /\ block[r] # "free" => block'[r] = block[r]
    BY <1>3
  <1>12. \A r \in RootRef : inUse'[r] => block'[r] = "used"
    BY <1>3 DEF RedoInv
  <1>13. LogInv(i)'
    BY <1>1, <1>2, <1>5, <1>6, <1>7, <1>8, <1>9, <1>10 DEF LogInv
  <1> QED
    BY <1>2, <1>11, <1>12, <1>13, ClientRedo

LEMMA ClearRedoRedo ==
  ASSUME NEW i \in Thread, TypeInv, TypeInv', EraInv, RedoInv, ClearRedo(i)
  PROVE  RedoInv'
  <1> USE DEF AllocLabel, ObjectLabel, LinkLabel, PreCas, PostCas, FreeLabel
  <1>1. /\ TypeOK /\ OpShape(i) /\ LogInv(i) /\ LogActive(i) /\ slot[i] = "run"
        /\ LogLines(i) /\ LogCurrent(i) /\ LogFresh(i) /\ OpHolds(i) /\ LogOld(i)
        /\ \A n \in Lines : Kept(i, n) =>
             redo[i][n].ref \in RootRef /\ redo[i][n].cur_era \in Nat
        /\ pc[i] \in AllocLabel \cup LinkLabel =>
             op[i].ref \in RootRef /\ Home[op[i].ref] = i
        /\ era[i][i] \in Nat
    BY Running1 DEF ClearRedo, Running, CanStart
  <1>2. /\ UNCHANGED <<mon, slot>>
        /\ \A k \in Thread \ {i} :
             /\ redo'[k] = redo[k] /\ era'[k][k] = era[k][k]
             /\ pc'[k] = pc[k] /\ op'[k] = op[k] /\ slot'[k] = slot[k]
    BY <1>1 DEF TypeOK, ClearRedo
  <1>3. /\ era'[i][i] = era[i][i] /\ UNCHANGED <<pptr, inUse, block>> /\ pc'[i] = pc[i]
        /\ pc[i] \in {"clear root", "clear object"} /\ op[i].line \in Lines
        /\ op'[i].line = op[i].line + 1 /\ op'[i].ref = op[i].ref
        /\ op'[i].func = op[i].func /\ op'[i].refed = op[i].refed
    <2>1. op[i] \in Op /\ op'[i] = [op[i] EXCEPT !.line = op[i].line + 1]
      BY <1>1 DEF TypeOK, ClearRedo
    <2>2. op'[i].line = op[i].line + 1 /\ op'[i].ref = op[i].ref
          /\ op'[i].func = op[i].func /\ op'[i].refed = op[i].refed
      BY <2>1 DEF Op
    <2> QED
      BY <1>1, <2>2 DEF ClearRedo
  <1>4. /\ \A n \in Lines : redo'[i][n] = IF n = op[i].line THEN NoLog ELSE redo[i][n]
        /\ \A n \in Lines : Kept(i, n)' => Kept(i, n) /\ redo'[i][n] = redo[i][n]
    <2>1. \A n \in Lines : redo'[i][n] = IF n = op[i].line THEN NoLog ELSE redo[i][n]
      BY <1>1 DEF TypeOK, ClearRedo
    <2> QED
      BY <2>1 DEF Kept, NoLog
  <1>5. LogLines(i)'
    BY <1>1, <1>3, <1>4 DEF LogLines
  <1>6. LogCurrent(i)'
    BY <1>1, <1>3 DEF LogCurrent
  <1>7. LogFresh(i)'
    <2>1. \A n \in Lines : n < op[i].line + 1 => n < op[i].line \/ n = op[i].line
      <3>1. \A n \in Lines : n \in Nat
        BY SizeAssumption DEF Lines
      <3>2. op[i].line \in Nat
        BY <1>3, <3>1
      <3> QED
        BY <3>1, <3>2, NatOrder
    <2>2. \A n \in Lines : n < op'[i].line => redo'[i][n] = NoLog
      BY <1>1, <1>3, <1>4, <2>1 DEF LogFresh
    <2> QED
      BY <1>1, <1>3, <1>4, <2>2 DEF LogFresh
  <1>8. OpHolds(i)'
    BY <1>1, <1>3, <1>4 DEF OpHolds, Emptied
  <1>9. LogOld(i)'
    <2> SUFFICES ASSUME NEW n \in Lines, Kept(i, n)', redo'[i][n].cur_era < era[i][i],
                        inUse[redo'[i][n].ref]
                 PROVE  pptr[redo'[i][n].ref] = RedoValue(redo'[i][n])
      BY <1>3 DEF LogOld, RedoValue
    <2>1. Kept(i, n) /\ redo'[i][n] = redo[i][n]
      BY <1>4
    <2>2. ~Emptied(i)
      BY <1>3 DEF Emptied
    <2> QED
      BY <1>1, <2>1, <2>2 DEF LogOld
  <1>10. \A n \in Lines : Kept(i, n)' => Home[redo'[i][n].ref] = i
    BY <1>1, <1>4 DEF LogInv
  <1>11. \A r \in RootRef : Home[r] # i =>
           /\ pptr'[r] = pptr[r] /\ inUse'[r] = inUse[r]
           /\ block[r] # "free" => block'[r] = block[r]
    BY <1>3
  <1>12. \A r \in RootRef : inUse'[r] => block'[r] = "used"
    BY <1>3 DEF RedoInv
  <1>13. LogInv(i)'
    BY <1>1, <1>2, <1>5, <1>6, <1>7, <1>8, <1>9, <1>10 DEF LogInv
  <1> QED
    BY <1>2, <1>11, <1>12, <1>13, ClientRedo

LEMMA CollectRedo ==
  ASSUME NEW i \in Thread, TypeInv, TypeInv', EraInv, RedoInv, Collect(i)
  PROVE  RedoInv'
  <1> USE DEF AllocLabel, ObjectLabel, LinkLabel, PreCas, PostCas, FreeLabel
  <1>1. /\ TypeOK /\ OpShape(i) /\ LogInv(i) /\ LogActive(i) /\ slot[i] = "run"
        /\ LogLines(i) /\ LogCurrent(i) /\ LogFresh(i) /\ OpHolds(i) /\ LogOld(i)
        /\ \A n \in Lines : Kept(i, n) =>
             redo[i][n].ref \in RootRef /\ redo[i][n].cur_era \in Nat
        /\ pc[i] \in AllocLabel \cup LinkLabel =>
             op[i].ref \in RootRef /\ Home[op[i].ref] = i
        /\ era[i][i] \in Nat
    BY Running1 DEF Collect, Running, CanStart
  <1>2. /\ UNCHANGED <<mon, slot>>
        /\ \A k \in Thread \ {i} :
             /\ redo'[k] = redo[k] /\ era'[k][k] = era[k][k]
             /\ pc'[k] = pc[k] /\ op'[k] = op[k] /\ slot'[k] = slot[k]
    BY <1>1 DEF TypeOK, Collect
  <1>3. /\ redo'[i] = redo[i] /\ era'[i][i] = era[i][i] /\ UNCHANGED <<pptr, inUse, op>>
        /\ \/ pc[i] = "clear root" /\ pc'[i] = "root"
           \/ pc[i] = "clear object" /\ pc'[i] = "object"
        /\ \A l \in RootRef : block[l] # "away" => block'[l] = block[l]
    BY <1>1 DEF TypeOK, Collect, AwayOf, Block
  <1>4. /\ pc[i] = "clear object" => \A l \in RootRef : block'[l] = block[l]
        /\ pc[i] = "clear root" => \A n \in Lines : ~Kept(i, n)
    <2>1. CASE pc[i] = "clear object"
      <3>1. PICK found \in SUBSET AwayOf(i, CXLObj) :
              block' = [b \in Block |-> IF b \in found THEN "free" ELSE block[b]]
        BY <2>1 DEF Collect
      <3>2. \A l \in RootRef : l \in Block /\ l \notin found
        BY BlockAssumption DEF AwayOf, Block
      <3> QED
        BY <2>1, <3>1, <3>2
    <2>2. CASE pc[i] = "clear root"
      <3>1. op[i].line \in Nat \ Lines
        BY <1>1 DEF TypeOK, Op, Collect
      <3>2. \A n \in Lines : n < op[i].line
        BY <3>1, SizeAssumption DEF Lines
      <3>3. \A n \in Lines : redo[i][n] = NoLog
        BY <1>1, <2>2, <3>2 DEF LogFresh
      <3>4. NoLog.func_id = "none"
        BY DEF NoLog
      <3> QED
        BY <2>2, <3>3, <3>4 DEF Kept
    <2> QED
      BY <1>3, <2>1, <2>2
  <1>5. LogLines(i)'
    BY <1>1, <1>3, <1>4 DEF LogLines, Kept, Record
  <1>6. LogCurrent(i)'
    BY <1>1, <1>3, <1>4 DEF LogCurrent, Record
  <1>7. LogFresh(i)'
    BY <1>1, <1>3, <1>4 DEF LogFresh, Kept
  <1>8. OpHolds(i)'
    BY <1>1, <1>3, <1>4 DEF OpHolds, Emptied
  <1>9. LogOld(i)'
    <2>1. ~Emptied(i) /\ op'[i].ref = op[i].ref
      BY <1>3 DEF Emptied
    <2> QED
      BY <2>1, <1>1, <1>3, LogOldFrame
  <1>10. \A n \in Lines : Kept(i, n)' => Home[redo'[i][n].ref] = i
    BY <1>1, <1>3 DEF LogInv, Kept
  <1>11. \A r \in RootRef : Home[r] # i =>
           /\ pptr'[r] = pptr[r] /\ inUse'[r] = inUse[r]
           /\ block[r] # "free" => block'[r] = block[r]
    <2>1. PICK found \in SUBSET {b \in Block : Home[b] = i} :
            block' = [b \in Block |-> IF b \in found THEN "free" ELSE block[b]]
      BY DEF Collect, AwayOf, Block
    <2>2. \A l \in RootRef : Home[l] # i => l \in Block /\ l \notin found
      BY <2>1 DEF Block
    <2> QED
      BY <1>3, <2>1, <2>2
  <1>12. \A r \in RootRef : inUse'[r] => block'[r] = "used"
    BY <1>3 DEF RedoInv
  <1>13. LogInv(i)'
    BY <1>1, <1>2, <1>5, <1>6, <1>7, <1>8, <1>9, <1>10 DEF LogInv
  <1> QED
    BY <1>2, <1>11, <1>12, <1>13, ClientRedo

LEMMA BlockToTbrRedo ==
  ASSUME NEW i \in Thread, TypeInv, TypeInv', EraInv, RedoInv, BlockToTbr(i)
  PROVE  RedoInv'
  <1> USE DEF AllocLabel, ObjectLabel, LinkLabel, PreCas, PostCas, FreeLabel
  <1>1. /\ TypeOK /\ OpShape(i) /\ LogInv(i) /\ LogActive(i) /\ slot[i] = "run"
        /\ LogLines(i) /\ LogCurrent(i) /\ LogFresh(i) /\ OpHolds(i) /\ LogOld(i)
        /\ \A n \in Lines : Kept(i, n) =>
             redo[i][n].ref \in RootRef /\ redo[i][n].cur_era \in Nat
        /\ pc[i] \in AllocLabel \cup LinkLabel =>
             op[i].ref \in RootRef /\ Home[op[i].ref] = i
        /\ era[i][i] \in Nat
    BY Running1 DEF BlockToTbr, Running, CanStart
  <1>2. /\ UNCHANGED <<mon, slot>>
        /\ \A k \in Thread \ {i} :
             /\ redo'[k] = redo[k] /\ era'[k][k] = era[k][k]
             /\ pc'[k] = pc[k] /\ op'[k] = op[k] /\ slot'[k] = slot[k]
    BY <1>1 DEF TypeOK, BlockToTbr
  <1> USE DEF Block
  <1>3. PICK l \in RootRef :
          /\ block[l] = "free" /\ Home[l] = i
          /\ block' = [block EXCEPT ![l] = "used"] /\ pptr' = [pptr EXCEPT ![l] = NULL]
          /\ inUse' = [inUse EXCEPT ![l] = TRUE]
          /\ op' = [op EXCEPT ![i] = [op[i] EXCEPT !.ref = l]]
    BY DEF BlockToTbr, FreeOf
  <1>4. /\ redo'[i] = redo[i] /\ era'[i][i] = era[i][i] /\ pc[i] = "root"
        /\ block'[l] = "used" /\ op'[i].ref = l /\ op'[i].func = op[i].func
        /\ op[i].func \in {"ALLOC", "LINK"}
        /\ pc'[i] = IF op[i].func = "ALLOC" THEN "object" ELSE "read"
        /\ \A r \in RootRef : r # l =>
             block'[r] = block[r] /\ pptr'[r] = pptr[r] /\ inUse'[r] = inUse[r]
        /\ \A n \in Lines : Kept(i, n) => redo[i][n].ref \in RootRef /\ redo[i][n].ref # l
    <2>1. op[i] \in Op /\ op'[i] = [op[i] EXCEPT !.ref = l]
      BY <1>1, <1>3 DEF TypeOK
    <2>2. op'[i].ref = l /\ op'[i].func = op[i].func
      BY <2>1 DEF Op
    <2>3. \A n \in Lines : Kept(i, n) => redo[i][n].ref \in RootRef /\ redo[i][n].ref # l
      BY <1>1, <1>3, RecordType DEF LogLines
    <2>4. /\ redo'[i] = redo[i] /\ era'[i][i] = era[i][i] /\ pc[i] = "root"
          /\ pc'[i] = IF op[i].func = "ALLOC" THEN "object" ELSE "read"
          /\ op[i].func \in {"ALLOC", "LINK"}
      BY <1>1 DEF BlockToTbr, Running, TypeOK, OpShape, RootLabel
    <2>5. /\ block'[l] = "used"
          /\ \A r \in RootRef : r # l =>
               block'[r] = block[r] /\ pptr'[r] = pptr[r] /\ inUse'[r] = inUse[r]
      BY <1>1, <1>3 DEF TypeOK
    <2> QED
      BY <2>2, <2>3, <2>4, <2>5
  <1>5. LogLines(i)'
    BY <1>1, <1>3, <1>4 DEF LogLines, Kept, Record
  <1>6. LogCurrent(i)'
    BY <1>1, <1>3, <1>4 DEF LogCurrent, Record
  <1>7. LogFresh(i)'
    BY <1>1, <1>3, <1>4 DEF LogFresh, Kept
  <1>8. OpHolds(i)'
    BY <1>1, <1>3, <1>4 DEF OpHolds, Emptied
  <1>9. LogOld(i)'
    BY <1>1, <1>3, <1>4 DEF LogOld, Kept, Emptied, RedoValue
  <1>10. \A n \in Lines : Kept(i, n)' => Home[redo'[i][n].ref] = i
    BY <1>1, <1>4 DEF LogInv, Kept
  <1>11. \A r \in RootRef : Home[r] # i =>
           /\ pptr'[r] = pptr[r] /\ inUse'[r] = inUse[r]
           /\ block[r] # "free" => block'[r] = block[r]
    BY <1>3, <1>4
  <1>12. \A r \in RootRef : inUse'[r] => block'[r] = "used"
    BY <1>4 DEF RedoInv
  <1>13. LogInv(i)'
    BY <1>1, <1>2, <1>5, <1>6, <1>7, <1>8, <1>9, <1>10 DEF LogInv
  <1> QED
    BY <1>2, <1>11, <1>12, <1>13, ClientRedo

LEMMA LinkBlockToTbrRedo ==
  ASSUME NEW i \in Thread, TypeInv, TypeInv', EraInv, RedoInv, LinkBlockToTbr(i)
  PROVE  RedoInv'
  <1> USE DEF AllocLabel, ObjectLabel, LinkLabel, PreCas, PostCas, FreeLabel
  <1>1. /\ TypeOK /\ OpShape(i) /\ LogInv(i) /\ LogActive(i) /\ slot[i] = "run"
        /\ LogLines(i) /\ LogCurrent(i) /\ LogFresh(i) /\ OpHolds(i) /\ LogOld(i)
        /\ \A n \in Lines : Kept(i, n) =>
             redo[i][n].ref \in RootRef /\ redo[i][n].cur_era \in Nat
        /\ pc[i] \in AllocLabel \cup LinkLabel =>
             op[i].ref \in RootRef /\ Home[op[i].ref] = i
        /\ era[i][i] \in Nat
    BY Running1 DEF LinkBlockToTbr, Running, CanStart
  <1>2. /\ UNCHANGED <<mon, slot>>
        /\ \A k \in Thread \ {i} :
             /\ redo'[k] = redo[k] /\ era'[k][k] = era[k][k]
             /\ pc'[k] = pc[k] /\ op'[k] = op[k] /\ slot'[k] = slot[k]
    BY <1>1 DEF TypeOK, LinkBlockToTbr
  <1>3. /\ redo'[i] = redo[i] /\ era'[i][i] = era[i][i] /\ UNCHANGED <<inUse, block>>
        /\ pc[i] = "object" /\ pc'[i] = "take"
        /\ \A l \in RootRef : l # op[i].ref => pptr'[l] = pptr[l]
        /\ op[i].ref \in RootRef /\ Home[op[i].ref] = i /\ op[i].func = "ALLOC"
    BY <1>1 DEF TypeOK, LinkBlockToTbr, Running, OpShape, AllocLabel, ObjectLabel
  <1>4. /\ op'[i].ref = op[i].ref /\ op'[i].func = op[i].func
        /\ \A n \in Lines : Kept(i, n) =>
             redo[i][n].ref \in RootRef /\ redo[i][n].ref # op[i].ref
    <2>1. PICK o : op' = [op EXCEPT ![i] = [op[i] EXCEPT !.refed = o]]
      BY DEF LinkBlockToTbr
    <2>2. op[i] \in Op /\ op'[i] = [op[i] EXCEPT !.refed = o]
      BY <1>1, <2>1 DEF TypeOK
    <2>3. op'[i].ref = op[i].ref /\ op'[i].func = op[i].func
      BY <2>2 DEF Op
    <2>4. \A n \in Lines : Kept(i, n) =>
             redo[i][n].ref \in RootRef /\ redo[i][n].ref # op[i].ref
      BY <1>1, <1>3, RecordType DEF LogFresh, AllocLabel, ObjectLabel
    <2> QED
      BY <2>3, <2>4
  <1>5. LogLines(i)'
    BY <1>1, <1>3, <1>4 DEF LogLines, Kept, Record
  <1>6. LogCurrent(i)'
    BY <1>1, <1>3, <1>4 DEF LogCurrent, Record
  <1>7. LogFresh(i)'
    BY <1>1, <1>3, <1>4 DEF LogFresh, Kept
  <1>8. OpHolds(i)'
    BY <1>1, <1>3, <1>4 DEF OpHolds, Emptied
  <1>9. LogOld(i)'
    BY <1>1, <1>3, <1>4 DEF LogOld, Kept, Emptied, RedoValue
  <1>10. \A n \in Lines : Kept(i, n)' => Home[redo'[i][n].ref] = i
    BY <1>1, <1>3 DEF LogInv, Kept
  <1>11. \A r \in RootRef : Home[r] # i =>
           /\ pptr'[r] = pptr[r] /\ inUse'[r] = inUse[r]
           /\ block[r] # "free" => block'[r] = block[r]
    BY <1>3
  <1>12. \A r \in RootRef : inUse'[r] => block'[r] = "used"
    BY <1>3 DEF RedoInv
  <1>13. LogInv(i)'
    BY <1>1, <1>2, <1>5, <1>6, <1>7, <1>8, <1>9, <1>10 DEF LogInv
  <1> QED
    BY <1>2, <1>11, <1>12, <1>13, ClientRedo

LEMMA TakeBlockRedo ==
  ASSUME NEW i \in Thread, TypeInv, TypeInv', EraInv, RedoInv, TakeBlock(i)
  PROVE  RedoInv'
  <1> USE DEF AllocLabel, ObjectLabel, LinkLabel, PreCas, PostCas, FreeLabel
  <1>1. /\ TypeOK /\ OpShape(i) /\ LogInv(i) /\ LogActive(i) /\ slot[i] = "run"
        /\ LogLines(i) /\ LogCurrent(i) /\ LogFresh(i) /\ OpHolds(i) /\ LogOld(i)
        /\ \A n \in Lines : Kept(i, n) =>
             redo[i][n].ref \in RootRef /\ redo[i][n].cur_era \in Nat
        /\ pc[i] \in AllocLabel \cup LinkLabel =>
             op[i].ref \in RootRef /\ Home[op[i].ref] = i
        /\ era[i][i] \in Nat
    BY Running1 DEF TakeBlock, Running, CanStart
  <1>2. /\ UNCHANGED <<mon, slot>>
        /\ \A k \in Thread \ {i} :
             /\ redo'[k] = redo[k] /\ era'[k][k] = era[k][k]
             /\ pc'[k] = pc[k] /\ op'[k] = op[k] /\ slot'[k] = slot[k]
    BY <1>1 DEF TypeOK, TakeBlock
  <1>3. /\ redo'[i] = redo[i] /\ era'[i][i] = era[i][i] + 1 /\ UNCHANGED <<inUse, pptr, op>>
        /\ pc[i] = "take" /\ pc'[i] = "stamp" /\ op[i].func = "ALLOC"
        /\ \A l \in RootRef : block'[l] = block[l]
    <2>1. op[i].refed \in CXLObj
      BY <1>1 DEF OpShape, TakeBlock, Running
    <2> QED
      BY <1>1, <2>1, NotNull DEF TypeOK, TakeBlock, Running, OpShape, AllocLabel, Block
  <1>4. /\ era[i][i] \in Nat
        /\ \A n \in Lines : Kept(i, n) =>
             redo[i][n].cur_era \in Nat /\ redo[i][n].cur_era < era[i][i]
    <2>1. era[i][i] \in Nat
      BY <1>1 DEF TypeOK
    <2>2. ASSUME NEW n \in Lines, Kept(i, n)
          PROVE  redo[i][n].cur_era \in Nat /\ redo[i][n].cur_era < era[i][i]
      BY <1>1, <1>3, <2>1, <2>2, RecordType DEF LogLines, PreCas, PostCas
    <2> QED
      BY <2>1, <2>2
  <1>5. LogLines(i)'
    BY <1>1, <1>3, <1>4 DEF LogLines, Kept, Record
  <1>6. LogCurrent(i)'
    BY <1>1, <1>3, <1>4 DEF LogCurrent, Record
  <1>7. LogFresh(i)'
    BY <1>1, <1>3, <1>4 DEF LogFresh, Kept
  <1>8. OpHolds(i)'
    BY <1>1, <1>3, <1>4 DEF OpHolds, Emptied
  <1>9. LogOld(i)'
    BY <1>1, <1>3, <1>4 DEF LogOld, Kept, Emptied, RedoValue
  <1>10. \A n \in Lines : Kept(i, n)' => Home[redo'[i][n].ref] = i
    BY <1>1, <1>3 DEF LogInv, Kept
  <1>11. \A r \in RootRef : Home[r] # i =>
           /\ pptr'[r] = pptr[r] /\ inUse'[r] = inUse[r]
           /\ block[r] # "free" => block'[r] = block[r]
    BY <1>3
  <1>12. \A r \in RootRef : inUse'[r] => block'[r] = "used"
    BY <1>3 DEF RedoInv
  <1>13. LogInv(i)'
    BY <1>1, <1>2, <1>5, <1>6, <1>7, <1>8, <1>9, <1>10 DEF LogInv
  <1> QED
    BY <1>2, <1>11, <1>12, <1>13, ClientRedo

LEMMA StampObjectRedo ==
  ASSUME NEW i \in Thread, TypeInv, TypeInv', EraInv, RedoInv, StampObject(i)
  PROVE  RedoInv'
  <1> USE DEF AllocLabel, ObjectLabel, LinkLabel, PreCas, PostCas, FreeLabel
  <1>1. /\ TypeOK /\ OpShape(i) /\ LogInv(i) /\ LogActive(i) /\ slot[i] = "run"
        /\ LogLines(i) /\ LogCurrent(i) /\ LogFresh(i) /\ OpHolds(i) /\ LogOld(i)
        /\ \A n \in Lines : Kept(i, n) =>
             redo[i][n].ref \in RootRef /\ redo[i][n].cur_era \in Nat
        /\ pc[i] \in AllocLabel \cup LinkLabel =>
             op[i].ref \in RootRef /\ Home[op[i].ref] = i
        /\ era[i][i] \in Nat
    BY Running1 DEF StampObject, Running, CanStart
  <1>2. /\ UNCHANGED <<mon, slot>>
        /\ \A k \in Thread \ {i} :
             /\ redo'[k] = redo[k] /\ era'[k][k] = era[k][k]
             /\ pc'[k] = pc[k] /\ op'[k] = op[k] /\ slot'[k] = slot[k]
    BY <1>1 DEF TypeOK, StampObject, Return
  <1>3. /\ redo'[i] = redo[i] /\ era'[i][i] = era[i][i] /\ pptr' = pptr /\ inUse' = inUse
        /\ \A r \in RootRef : block'[r] = block[r]
    BY <1>1 DEF TypeOK, StampObject
  <1>4. /\ pc[i] = "stamp" /\ pc'[i] = "idle" /\ op'[i] = NoOp /\ op[i].func = "ALLOC"
    BY <1>1 DEF TypeOK, StampObject, Running, CanStart, OpShape, AllocLabel, Return
  <1>5. LogLines(i)'
    BY <1>1, <1>3, <1>4 DEF LogLines, Kept, Record
  <1>6. LogCurrent(i)'
    BY <1>1, <1>3, <1>4 DEF LogCurrent, Record
  <1>7. LogFresh(i)'
    BY <1>4 DEF LogFresh, NoOp
  <1>8. OpHolds(i)'
    BY <1>4 DEF OpHolds, Emptied, NoOp
  <1>9. LogOld(i)'
    BY <1>1, <1>3, <1>4 DEF LogOld, Kept, Emptied, RedoValue, NoOp
  <1>10. \A n \in Lines : Kept(i, n)' => Home[redo'[i][n].ref] = i
    BY <1>1, <1>3 DEF LogInv, Kept
  <1>11. \A r \in RootRef : Home[r] # i =>
           /\ pptr'[r] = pptr[r] /\ inUse'[r] = inUse[r]
           /\ block[r] # "free" => block'[r] = block[r]
    BY <1>3
  <1>12. \A r \in RootRef : inUse'[r] => block'[r] = "used"
    BY <1>3 DEF RedoInv
  <1>13. LogInv(i)'
    BY <1>1, <1>2, <1>5, <1>6, <1>7, <1>8, <1>9, <1>10 DEF LogInv
  <1> QED
    BY <1>2, <1>11, <1>12, <1>13, ClientRedo

(* Steps of link and unlink on either side of the commit point and of the  *)
(* era step, which leave the RootRefs, the log and the own era alone.      *)
LEMMA QuietRedo ==
  ASSUME NEW i \in Thread, TypeInv, RedoInv, slot[i] = "run",
         UNCHANGED <<redo, pptr, inUse, slot, mon>>,
         \A k \in Thread : era'[k][k] = era[k][k],
         \A l \in RootRef : block'[l] = block[l],
         \A k \in Thread \ {i} : pc'[k] = pc[k] /\ op'[k] = op[k],
         op'[i].func = op[i].func, op'[i].ref = op[i].ref, op'[i].refed = op[i].refed,
         \/ pc[i] \in PreCas /\ pc'[i] \in PreCas \ {"cas"}
         \/ pc[i] = "cas" /\ pc'[i] = "store"
         \/ pc[i] \in FreeLabel /\ pc'[i] \in FreeLabel
  PROVE  RedoInv'
  <1> USE DEF AllocLabel, ObjectLabel, LinkLabel, PreCas, PostCas, FreeLabel
  <1>1. /\ LogInv(i) /\ LogLines(i) /\ LogCurrent(i) /\ LogFresh(i) /\ OpHolds(i) /\ LogOld(i)
        /\ \A n \in Lines : Kept(i, n) => redo[i][n].ref \in RootRef
        /\ op[i].ref \in RootRef
    BY Running1
  <1>2. LogLines(i)'
    BY <1>1 DEF LogLines, Kept, Record
  <1>3. LogCurrent(i)'
    BY <1>1 DEF LogCurrent, Record
  <1>4. LogFresh(i)'
    BY <1>1 DEF LogFresh, Kept
  <1>5. OpHolds(i)'
    BY <1>1 DEF OpHolds, Emptied
  <1>6. LogOld(i)'
    BY <1>1 DEF LogOld, Kept, Emptied, RedoValue
  <1>7. LogInv(i)'
    BY <1>1, <1>2, <1>3, <1>4, <1>5, <1>6 DEF LogInv, Kept
  <1>8. \A l \in RootRef : inUse'[l] => block'[l] = "used"
    BY DEF RedoInv
  <1> QED
    BY <1>7, <1>8, ClientRedo

LEMMA ReadInfoRedo ==
  ASSUME NEW i \in Thread, TypeInv, TypeInv', EraInv, RedoInv, ReadInfo(i)
  PROVE  RedoInv'
  <1>1. op[i] \in Op /\ op' = [op EXCEPT ![i] = [op[i] EXCEPT !.saw = refInfo[op[i].refed]]]
    BY DEF TypeInv, TypeOK, ReadInfo
  <1>2. op'[i].func = op[i].func /\ op'[i].ref = op[i].ref /\ op'[i].refed = op[i].refed
    BY <1>1 DEF TypeInv, TypeOK, Op
  <1>3. pc[i] = "read" /\ pc'[i] = "note" /\ slot[i] = "run"
    BY DEF TypeInv, TypeOK, ReadInfo, Running
  <1>4. \A k \in Thread \ {i} : pc'[k] = pc[k] /\ op'[k] = op[k]
    BY <1>1 DEF TypeInv, TypeOK, ReadInfo
  <1> QED
    BY <1>2, <1>3, <1>4, QuietRedo DEF ReadInfo, PreCas

LEMMA NoteEraRedo ==
  ASSUME NEW i \in Thread, TypeInv, TypeInv', EraInv, RedoInv, NoteEra(i)
  PROVE  RedoInv'
  <1>1. op[i].saw \in Info /\ Reached(op[i].saw)
    BY DEF TypeInv, TypeOK, Op, EraInv
  <1>2. \A k \in Thread : era'[k][k] = era[k][k]
    BY <1>1, NotedEras DEF TypeInv, NoteEra
  <1>3. pc[i] = "note" /\ pc'[i] = "log" /\ slot[i] = "run" /\ UNCHANGED op
        /\ \A k \in Thread \ {i} : pc'[k] = pc[k]
    BY DEF TypeInv, TypeOK, NoteEra, Running
  <1> QED
    BY <1>2, <1>3, QuietRedo DEF NoteEra, PreCas

LEMMA CasInfoRedo ==
  ASSUME NEW i \in Thread, TypeInv, TypeInv', EraInv, RedoInv, CasInfo(i)
  PROVE  RedoInv'
  <1>1. op[i] \in Op /\ op' = [op EXCEPT ![i] = [op[i] EXCEPT !.src = NULL]]
    BY DEF TypeInv, TypeOK, CasInfo
  <1>2. op'[i].func = op[i].func /\ op'[i].ref = op[i].ref /\ op'[i].refed = op[i].refed
    BY <1>1 DEF TypeInv, TypeOK, Op
  <1>3. pc[i] = "cas" /\ pc'[i] = "store" /\ slot[i] = "run"
    BY DEF TypeInv, TypeOK, CasInfo, Running
  <1>4. \A k \in Thread \ {i} : pc'[k] = pc[k] /\ op'[k] = op[k]
    BY <1>1 DEF TypeInv, TypeOK, CasInfo
  <1> QED
    BY <1>2, <1>3, <1>4, QuietRedo DEF CasInfo

LEMMA CasRetryRedo ==
  ASSUME NEW i \in Thread, TypeInv, TypeInv', EraInv, RedoInv, CasRetry(i)
  PROVE  RedoInv'
  <1>1. pc[i] = "cas" /\ pc'[i] = "read" /\ slot[i] = "run"
        /\ \A k \in Thread \ {i} : pc'[k] = pc[k]
    BY DEF TypeInv, TypeOK, CasRetry, Running
  <1> QED
    BY <1>1, QuietRedo DEF CasRetry, PreCas

LEMMA WipeObjectRedo ==
  ASSUME NEW i \in Thread, TypeInv, TypeInv', EraInv, RedoInv, WipeObject(i)
  PROVE  RedoInv'
  <1>1. pc[i] = "wipe" /\ pc'[i] = "push" /\ slot[i] = "run"
        /\ \A k \in Thread \ {i} : pc'[k] = pc[k]
    BY DEF TypeInv, TypeOK, WipeObject, Running
  <1> QED
    BY <1>1, QuietRedo DEF WipeObject, FreeLabel

LEMMA PushObjectRedo ==
  ASSUME NEW i \in Thread, TypeInv, TypeInv', EraInv, RedoInv, PushObject(i)
  PROVE  RedoInv'
  <1>1. pc[i] = "push" /\ pc'[i] = "release" /\ slot[i] = "run" /\ op[i].refed \in CXLObj
        /\ \A k \in Thread \ {i} : pc'[k] = pc[k]
    BY DEF TypeInv, TypeOK, OpShape, PushObject, Running, LinkLabel, FreeLabel
  <1>2. PICK gone \in {{}, FreeOf(i, CXLObj)} :
          block' = [c \in Block |-> IF c = op[i].refed \/ c \in gone THEN "away" ELSE block[c]]
    BY DEF PushObject, Pushed
  <1>3. \A l \in RootRef : l # op[i].refed /\ l \notin gone /\ l \in Block
    BY <1>1, NotNull DEF FreeOf, Block
  <1>4. \A l \in RootRef : block'[l] = block[l]
    BY <1>2, <1>3
  <1> QED
    BY <1>1, <1>4, QuietRedo DEF PushObject, FreeLabel

LEMMA WriteLogRedo ==
  ASSUME NEW i \in Thread, TypeInv, TypeInv', EraInv, RedoInv, WriteLog(i)
  PROVE  RedoInv'
  <1> USE DEF AllocLabel, ObjectLabel, LinkLabel, PreCas, PostCas, FreeLabel
  <1>1. /\ TypeOK /\ OpShape(i) /\ LogInv(i) /\ LogActive(i) /\ slot[i] = "run"
        /\ LogLines(i) /\ LogCurrent(i) /\ LogFresh(i) /\ OpHolds(i) /\ LogOld(i)
        /\ \A n \in Lines : Kept(i, n) =>
             redo[i][n].ref \in RootRef /\ redo[i][n].cur_era \in Nat
        /\ pc[i] \in AllocLabel \cup LinkLabel =>
             op[i].ref \in RootRef /\ Home[op[i].ref] = i
        /\ era[i][i] \in Nat
    BY Running1 DEF WriteLog, Running, CanStart
  <1>2. /\ UNCHANGED <<mon, slot>>
        /\ \A k \in Thread \ {i} :
             /\ redo'[k] = redo[k] /\ era'[k][k] = era[k][k]
             /\ pc'[k] = pc[k] /\ op'[k] = op[k] /\ slot'[k] = slot[k]
    BY <1>1 DEF TypeOK, WriteLog
  <1>3. /\ era'[i][i] = era[i][i] /\ UNCHANGED <<pptr, inUse, block, op>>
        /\ pc[i] = "log" /\ pc'[i] = "cas" /\ op[i].func \in {"LINK", "UNLINK"}
    BY <1>1 DEF TypeOK, OpShape, WriteLog, Running
  <1>4. \A n \in Lines :
          \/ /\ n = RedoLine(era[i][i]) /\ redo'[i][n] = Record(i, era[i][i])
             /\ redo'[i][n].cur_era = era[i][i]
          \/ n # RedoLine(era[i][i]) /\ redo'[i][n] = redo[i][n]
    BY <1>1, LineIn DEF TypeOK, WriteLog, Record
  <1>5. LogLines(i)'
    BY <1>1, <1>3, <1>4 DEF LogLines, Kept, Record, OpHolds
  <1>6. LogCurrent(i)'
    BY <1>1, <1>3, <1>4, LineIn DEF LogCurrent, Record
  <1>7. LogFresh(i)'
    <2>1. ASSUME NEW n \in Lines, Kept(i, n)', redo'[i][n].ref = op[i].ref,
                 op[i].func = "LINK"
          PROVE  redo'[i][n].cur_era = era[i][i]
      <3>1. CASE redo'[i][n] = redo[i][n]
        BY <1>1, <1>3, <2>1, <3>1 DEF LogFresh, Kept
      <3> QED
        BY <1>4, <3>1
    <2> QED
      BY <1>3, <2>1 DEF LogFresh
  <1>8. OpHolds(i)'
    BY <1>1, <1>3, <1>4 DEF OpHolds, Emptied
  <1>9. LogOld(i)'
    <2> SUFFICES ASSUME NEW n \in Lines, Kept(i, n)', redo'[i][n].cur_era < era[i][i],
                        inUse[redo'[i][n].ref]
                 PROVE  pptr[redo'[i][n].ref] = RedoValue(redo'[i][n])
      BY <1>3 DEF LogOld, RedoValue
    <2>1. ~(era[i][i] < era[i][i])
      <3>1. era[i][i] \in Nat
        BY <1>1
      <3> QED
        BY <3>1
    <2>2. redo'[i][n] = redo[i][n] /\ Kept(i, n)
      BY <1>4, <2>1 DEF Kept
    <2>3. ~Emptied(i)
      BY <1>3 DEF Emptied
    <2> QED
      BY <1>1, <2>2, <2>3 DEF LogOld
  <1>10. \A n \in Lines : Kept(i, n)' => Home[redo'[i][n].ref] = i
    BY <1>1, <1>3, <1>4 DEF LogInv, Kept, Record
  <1>11. \A r \in RootRef : Home[r] # i =>
           /\ pptr'[r] = pptr[r] /\ inUse'[r] = inUse[r]
           /\ block[r] # "free" => block'[r] = block[r]
    BY <1>3
  <1>12. \A r \in RootRef : inUse'[r] => block'[r] = "used"
    BY <1>3 DEF RedoInv
  <1>13. LogInv(i)'
    BY <1>1, <1>2, <1>5, <1>6, <1>7, <1>8, <1>9, <1>10 DEF LogInv
  <1> QED
    BY <1>2, <1>11, <1>12, <1>13, ClientRedo

LEMMA StoreRefRedo ==
  ASSUME NEW i \in Thread, TypeInv, TypeInv', EraInv, RedoInv, StoreRef(i)
  PROVE  RedoInv'
  <1> USE DEF AllocLabel, ObjectLabel, LinkLabel, PreCas, PostCas, FreeLabel
  <1>1. /\ TypeOK /\ OpShape(i) /\ LogInv(i) /\ LogActive(i) /\ slot[i] = "run"
        /\ LogLines(i) /\ LogCurrent(i) /\ LogFresh(i) /\ OpHolds(i) /\ LogOld(i)
        /\ \A n \in Lines : Kept(i, n) =>
             redo[i][n].ref \in RootRef /\ redo[i][n].cur_era \in Nat
        /\ pc[i] \in AllocLabel \cup LinkLabel =>
             op[i].ref \in RootRef /\ Home[op[i].ref] = i
        /\ era[i][i] \in Nat
    BY Running1 DEF StoreRef, Running, CanStart
  <1>2. /\ UNCHANGED <<mon, slot>>
        /\ \A k \in Thread \ {i} :
             /\ redo'[k] = redo[k] /\ era'[k][k] = era[k][k]
             /\ pc'[k] = pc[k] /\ op'[k] = op[k] /\ slot'[k] = slot[k]
    BY <1>1 DEF TypeOK, StoreRef
  <1>3. /\ redo'[i] = redo[i] /\ era'[i][i] = era[i][i] /\ UNCHANGED <<inUse, block, op>>
        /\ pc[i] = "store" /\ pc'[i] = "bump" /\ op[i].func \in {"LINK", "UNLINK"}
        /\ op[i].ref \in RootRef /\ Home[op[i].ref] = i /\ op[i].refed \in CXLObj
    BY <1>1 DEF TypeOK, OpShape, StoreRef, Running
  <1>4. \A l \in RootRef : pptr'[l] =
          IF l # op[i].ref THEN pptr[l] ELSE IF op[i].func = "LINK" THEN op[i].refed ELSE NULL
    BY <1>1 DEF TypeOK, StoreRef
  <1>5. LogLines(i)'
    BY <1>1, <1>3, <1>4 DEF LogLines, Kept, Record
  <1>6. LogCurrent(i)'
    BY <1>1, <1>3, <1>4 DEF LogCurrent, Record
  <1>7. LogFresh(i)'
    BY <1>1, <1>3, <1>4 DEF LogFresh, Kept
  <1>8. OpHolds(i)'
    BY <1>1, <1>3, <1>4 DEF OpHolds, Emptied
  <1>9. LogOld(i)'
    <2> SUFFICES ASSUME NEW n \in Lines, Kept(i, n), redo[i][n].cur_era < era[i][i],
                        inUse[redo[i][n].ref],
                        ~(/\ op[i].func = "UNLINK" /\ redo[i][n].func_id = "LINK"
                          /\ redo[i][n].ref = op[i].ref)
                 PROVE  pptr'[redo[i][n].ref] = RedoValue(redo[i][n])
      BY <1>3 DEF LogOld, Emptied, Kept, RedoValue
    <2>1. pptr[redo[i][n].ref] = RedoValue(redo[i][n])
      BY <1>1, <1>3 DEF LogOld, Emptied
    <2>2. redo[i][n].ref # op[i].ref
      <3>1. CASE op[i].func = "LINK"
        <4>1. redo[i][n].cur_era \in Nat /\ era[i][i] \in Nat
          BY <1>1
        <4>2. redo[i][n].cur_era # era[i][i]
          BY <4>1, NatOrder
        <4> QED
          BY <1>1, <1>3, <3>1, <4>2 DEF LogFresh
      <3>2. CASE op[i].func = "UNLINK"
        <4>1. pptr[op[i].ref] \in CXLObj
          BY <1>1, <1>3, <3>2 DEF OpHolds
        <4> QED
          BY <2>1, <3>2, <4>1, NotNull DEF RedoValue
      <3> QED
        BY <1>3, <3>1, <3>2
    <2> QED
      BY <1>1, <1>4, <2>1, <2>2
  <1>10. \A n \in Lines : Kept(i, n)' => Home[redo'[i][n].ref] = i
    BY <1>1, <1>3 DEF LogInv, Kept
  <1>11. \A r \in RootRef : Home[r] # i =>
           /\ pptr'[r] = pptr[r] /\ inUse'[r] = inUse[r]
           /\ block[r] # "free" => block'[r] = block[r]
    BY <1>3, <1>4
  <1>12. \A r \in RootRef : inUse'[r] => block'[r] = "used"
    BY <1>3 DEF RedoInv
  <1>13. LogInv(i)'
    BY <1>1, <1>2, <1>5, <1>6, <1>7, <1>8, <1>9, <1>10 DEF LogInv
  <1> QED
    BY <1>2, <1>11, <1>12, <1>13, ClientRedo

LEMMA BumpEraRedo ==
  ASSUME NEW i \in Thread, TypeInv, TypeInv', EraInv, RedoInv, BumpEra(i)
  PROVE  RedoInv'
  <1> USE DEF AllocLabel, ObjectLabel, LinkLabel, PreCas, PostCas, FreeLabel
  <1>1. /\ TypeOK /\ OpShape(i) /\ LogInv(i) /\ LogActive(i) /\ slot[i] = "run"
        /\ LogLines(i) /\ LogCurrent(i) /\ LogFresh(i) /\ OpHolds(i) /\ LogOld(i)
        /\ \A n \in Lines : Kept(i, n) =>
             redo[i][n].ref \in RootRef /\ redo[i][n].cur_era \in Nat
        /\ pc[i] \in AllocLabel \cup LinkLabel =>
             op[i].ref \in RootRef /\ Home[op[i].ref] = i
        /\ era[i][i] \in Nat
    BY Running1 DEF BumpEra, Running, CanStart
  <1>2. /\ UNCHANGED <<mon, slot>>
        /\ \A k \in Thread \ {i} :
             /\ redo'[k] = redo[k] /\ era'[k][k] = era[k][k]
             /\ pc'[k] = pc[k] /\ op'[k] = op[k] /\ slot'[k] = slot[k]
    BY <1>1 DEF TypeOK, BumpEra, Return
  <1>3. /\ redo'[i] = redo[i] /\ UNCHANGED <<pptr, inUse, block>>
        /\ pc[i] = "bump" /\ op[i].func \in {"LINK", "UNLINK"}
        /\ \/ op[i].func = "LINK" /\ pc'[i] = "idle" /\ op'[i] = NoOp
           \/ op[i].func = "UNLINK" /\ pc'[i] \in FreeLabel /\ op' = op
    BY <1>1 DEF TypeOK, OpShape, BumpEra, Running, Return
  <1>4. era'[i][i] = era[i][i] + 1 /\ era'[i][i] - 1 = era[i][i] /\ era'[i][i] > 0
        /\ \A n \in Lines : Kept(i, n) =>
             redo[i][n].cur_era <= era[i][i] /\ redo[i][n].cur_era < era'[i][i]
             /\ redo[i][n].cur_era # era'[i][i]
    <2>1. era'[i][i] = era[i][i] + 1
      BY <1>1 DEF TypeOK, BumpEra
    <2>2. era'[i][i] - 1 = era[i][i] /\ era'[i][i] > 0
      <3>1. era[i][i] \in Nat
        BY <1>1
      <3> QED
        BY <2>1, <3>1
    <2>3. ASSUME NEW n \in Lines, Kept(i, n)
          PROVE  redo[i][n].cur_era <= era[i][i] /\ redo[i][n].cur_era < era'[i][i]
                 /\ redo[i][n].cur_era # era'[i][i]
      <3>1. redo[i][n].cur_era \in Nat /\ era[i][i] \in Nat
        BY <1>1, <2>3
      <3>2. redo[i][n].cur_era <= era[i][i]
        BY <1>1, <2>3 DEF LogLines
      <3> QED
        BY <2>1, <3>1, <3>2, NatOrder
    <2> QED
      BY <2>1, <2>2, <2>3
  <1>5. LogLines(i)'
    BY <1>1, <1>3, <1>4 DEF LogLines, Kept
  <1>6. LogCurrent(i)'
    BY <1>1, <1>3, <1>4 DEF LogCurrent, Record
  <1>7. LogFresh(i)'
    BY <1>3 DEF LogFresh, NoOp
  <1>8. OpHolds(i)'
    BY <1>1, <1>3 DEF OpHolds, Emptied, NoOp
  <1>9. LogOld(i)'
    <2> SUFFICES ASSUME NEW n \in Lines, Kept(i, n), inUse[redo[i][n].ref],
                        ~(/\ op[i].func = "UNLINK" /\ redo[i][n].func_id = "LINK"
                          /\ redo[i][n].ref = op[i].ref)
                 PROVE  pptr[redo[i][n].ref] = RedoValue(redo[i][n])
      BY <1>3 DEF LogOld, Emptied, Kept, RedoValue, NoOp
    <2>1. CASE redo[i][n].cur_era = era[i][i]
      <3>1. redo[i][n] = Record(i, era[i][i])
        BY <1>1, <2>1 DEF LogLines
      <3> QED
        BY <1>1, <1>3, <3>1 DEF Record, RedoValue, OpHolds, Emptied
    <2>2. CASE redo[i][n].cur_era # era[i][i]
      <3>1. redo[i][n].cur_era \in Nat /\ era[i][i] \in Nat /\ redo[i][n].cur_era <= era[i][i]
        BY <1>1, <1>4
      <3>2. redo[i][n].cur_era < era[i][i]
        BY <2>2, <3>1, NatOrder
      <3> QED
        BY <1>1, <1>3, <3>2 DEF LogOld, Emptied
    <2> QED
      BY <2>1, <2>2
  <1>10. \A n \in Lines : Kept(i, n)' => Home[redo'[i][n].ref] = i
    BY <1>1, <1>3 DEF LogInv, Kept
  <1>11. \A r \in RootRef : Home[r] # i =>
           /\ pptr'[r] = pptr[r] /\ inUse'[r] = inUse[r]
           /\ block[r] # "free" => block'[r] = block[r]
    BY <1>3
  <1>12. \A r \in RootRef : inUse'[r] => block'[r] = "used"
    BY <1>3 DEF RedoInv
  <1>13. LogInv(i)'
    BY <1>1, <1>2, <1>5, <1>6, <1>7, <1>8, <1>9, <1>10 DEF LogInv
  <1> QED
    BY <1>2, <1>11, <1>12, <1>13, ClientRedo

LEMMA ReleaseRedo ==
  ASSUME NEW i \in Thread, TypeInv, TypeInv', EraInv, RedoInv, Release(i)
  PROVE  RedoInv'
  <1> USE DEF AllocLabel, ObjectLabel, LinkLabel, PreCas, PostCas, FreeLabel
  <1>1. /\ TypeOK /\ OpShape(i) /\ LogInv(i) /\ LogActive(i) /\ slot[i] = "run"
        /\ LogLines(i) /\ LogCurrent(i) /\ LogFresh(i) /\ OpHolds(i) /\ LogOld(i)
        /\ \A n \in Lines : Kept(i, n) =>
             redo[i][n].ref \in RootRef /\ redo[i][n].cur_era \in Nat
        /\ pc[i] \in AllocLabel \cup LinkLabel =>
             op[i].ref \in RootRef /\ Home[op[i].ref] = i
        /\ era[i][i] \in Nat
    BY Running1 DEF Release, Running, CanStart
  <1>2. /\ UNCHANGED <<mon, slot>>
        /\ \A k \in Thread \ {i} :
             /\ redo'[k] = redo[k] /\ era'[k][k] = era[k][k]
             /\ pc'[k] = pc[k] /\ op'[k] = op[k] /\ slot'[k] = slot[k]
    BY <1>1 DEF TypeOK, Release, Return
  <1>3. /\ redo'[i] = redo[i] /\ era'[i][i] = era[i][i] /\ pc[i] = "release"
        /\ pc'[i] = "idle" /\ op'[i] = NoOp
        /\ op[i].ref \in RootRef /\ Home[op[i].ref] = i
        /\ \A l \in RootRef : inUse'[l] = IF l = op[i].ref THEN FALSE ELSE inUse[l]
        /\ \A l \in RootRef : l # op[i].ref => pptr'[l] = pptr[l]
    BY <1>1 DEF TypeOK, Release, Running, Return
  <1>4. /\ \A l \in RootRef : block'[l] = "away" \/ block'[l] = block[l]
        /\ \A l \in RootRef :
             l # op[i].ref /\ (block[l] # "free" \/ Home[l] # i) => block'[l] = block[l]
    <2>1. PICK gone \in {{}, FreeOf(i, RootRef)} :
            block' = [c \in Block |-> IF c = op[i].ref \/ c \in gone THEN "away" ELSE block[c]]
      BY DEF Release, Pushed
    <2> QED
      BY <2>1 DEF FreeOf, Block
  <1>5. LogLines(i)'
    BY <1>1, <1>3, <1>4 DEF LogLines, Kept
  <1>6. LogCurrent(i)'
    BY <1>3 DEF LogCurrent
  <1>7. LogFresh(i)'
    BY <1>3 DEF LogFresh, NoOp
  <1>8. OpHolds(i)'
    BY <1>3 DEF OpHolds, Emptied, NoOp
  <1>9. LogOld(i)'
    <2> SUFFICES ASSUME NEW n \in Lines, Kept(i, n), redo[i][n].cur_era < era[i][i],
                        inUse'[redo[i][n].ref]
                 PROVE  pptr'[redo[i][n].ref] = RedoValue(redo[i][n])
      BY <1>3 DEF LogOld, RedoValue, Kept
    <2>1. redo[i][n].ref \in RootRef /\ redo[i][n].ref # op[i].ref
      BY <1>1, <1>3
    <2>2. pptr[redo[i][n].ref] = RedoValue(redo[i][n])
      BY <1>1, <1>3, <2>1 DEF LogOld
    <2> QED
      BY <1>3, <2>1, <2>2
  <1>10. \A n \in Lines : Kept(i, n)' => Home[redo'[i][n].ref] = i
    BY <1>1, <1>3 DEF LogInv, Kept
  <1>11. \A r \in RootRef : Home[r] # i =>
           /\ pptr'[r] = pptr[r] /\ inUse'[r] = inUse[r]
           /\ block[r] # "free" => block'[r] = block[r]
    BY <1>3, <1>4
  <1>12. \A r \in RootRef : inUse'[r] => block'[r] = "used"
    BY <1>3, <1>4 DEF RedoInv
  <1>13. LogInv(i)'
    BY <1>1, <1>2, <1>5, <1>6, <1>7, <1>8, <1>9, <1>10 DEF LogInv
  <1> QED
    BY <1>2, <1>11, <1>12, <1>13, ClientRedo

LEMMA ThreadInitRedo ==
  ASSUME NEW i \in Thread, TypeInv, TypeInv', EraInv, RedoInv, ThreadInit(i)
  PROVE  RedoInv'
  <1>1. TypeOK /\ OpShape(i) /\ LogInv(i) /\ slot[i] = "vacant" /\ slot'[i] = "run"
    BY DEF TypeInv, RedoInv, TypeOK, ThreadInit
  <1>2. pc'[i] = "idle" /\ op'[i] = NoOp /\ \A n \in Lines : redo'[i][n] = NoLog
    BY <1>1 DEF OpShape, LogInv, ThreadInit
  <1>3. \A n \in Lines : ~Kept(i, n)'
    BY <1>2 DEF Kept, NoLog
  <1>4. LogLines(i)' /\ LogCurrent(i)' /\ LogFresh(i)' /\ OpHolds(i)' /\ LogOld(i)'
    BY <1>2, <1>3 DEF LogLines, LogCurrent, LogFresh, OpHolds, LogOld, Emptied, NoOp,
       AllocLabel, ObjectLabel, LinkLabel, PreCas, PostCas, FreeLabel
  <1>5. LogInv(i)'
    BY <1>1, <1>3, <1>4 DEF LogInv
  <1>6. \A k \in Thread \ {i} : slot'[k] = slot[k] /\ era'[k][k] = era[k][k]
    BY <1>1 DEF TypeOK, ThreadInit
  <1>7. \A l \in RootRef : inUse'[l] => block'[l] = "used"
    BY DEF ThreadInit, RedoInv
  <1> QED
    BY <1>5, <1>6, <1>7, ClientRedo DEF ThreadInit

LEMMA CrashRedo ==
  ASSUME NEW i \in Thread, TypeInv, TypeInv', EraInv, RedoInv, Crash(i)
  PROVE  RedoInv'
  <1>1. ASSUME NEW k \in Thread PROVE LogInv(k)'
    <2>1. TypeOK /\ OpShape(k) /\ LogInv(k)
      BY DEF TypeInv, RedoInv
    <2>2. (slot'[k] = "vacant" => slot[k] = "vacant") /\ (LogActive(k)' => LogActive(k))
      BY <2>1 DEF Crash, TypeOK, LogActive, Redone
    <2> QED
      BY <2>1, <2>2, LogFrame DEF Crash
  <1> QED
    BY <1>1 DEF Crash, RedoInv

LEMMA ClientStepRedo ==
  ASSUME NEW i \in Thread, TypeInv, TypeInv', EraInv, RedoInv,
         ThreadInit(i) \/ Crash(i) \/ Start(i) \/ Step(i)
  PROVE  RedoInv'
  <1>1. CASE Start(i)
    BY <1>1, CxlMallocRedo, GetRefRedo, DropRedo DEF Start
  <1>2. CASE Step(i)
    BY <1>2, SlowPathRedo, ClearRedoRedo, CollectRedo, BlockToTbrRedo, LinkBlockToTbrRedo,
       TakeBlockRedo, StampObjectRedo, ReadInfoRedo, NoteEraRedo, WriteLogRedo, CasInfoRedo,
       CasRetryRedo, StoreRefRedo, BumpEraRedo, WipeObjectRedo, PushObjectRedo, ReleaseRedo
       DEF Step
  <1> QED
    BY <1>1, <1>2, ThreadInitRedo, CrashRedo

-----------------------------------------------------------------------------
(* A step of the monitor touches the RootRefs of its target only, and not  *)
(* before the redo.                                                        *)
LEMMA MonRedo ==
  ASSUME TypeInv, RedoInv, UNCHANGED <<redo, pc, op, slot>>,
         \A k \in Thread : ~Redone(k)' =>
           /\ ~Redone(k)
           /\ era'[k][k] = era[k][k]
           /\ \A l \in RootRef : Home[l] = k =>
                pptr'[l] = pptr[l] /\ inUse'[l] = inUse[l] /\ block'[l] = block[l],
         \A l \in RootRef : inUse'[l] => block'[l] = "used",
         mon'.pc \in RedoLabel => Home[mon'.log.ref] = mon'.tgt
  PROVE  RedoInv'
  <1>1. ASSUME NEW k \in Thread PROVE LogInv(k)'
    <2>1. TypeOK /\ OpShape(k) /\ LogInv(k)
      BY DEF TypeInv, RedoInv
    <2>2. LogActive(k)' => LogActive(k) /\ ~Redone(k)'
      BY DEF LogActive
    <2> QED
      BY <2>1, <2>2, LogFrame
  <1> QED
    BY <1>1 DEF RedoInv

LEMMA DetectRedo ==
  ASSUME NEW i \in Thread, TypeInv, TypeInv', EraInv, RedoInv, Detect(i)
  PROVE  RedoInv'
  <1>1. PICK n \in Lines :
          mon' = [NoMon EXCEPT !.tgt = i, !.log = redo[i][n], !.pc =
                   IF redo[i][n].func_id = "none" THEN "gc" ELSE "lcid"]
    BY DEF Detect
  <1>2. /\ mon'.tgt = i /\ mon'.log = redo[i][n]
        /\ mon'.pc = IF redo[i][n].func_id = "none" THEN "gc" ELSE "lcid"
    BY <1>1 DEF NoMon
  <1>3. mon'.pc \in RedoLabel => Home[mon'.log.ref] = mon'.tgt
    BY <1>2 DEF RedoInv, LogInv, Kept, RedoLabel
  <1>4. \A k \in Thread : ~Redone(k)
    BY DEF Detect, Mon, Redone
  <1> QED
    BY <1>3, <1>4, MonRedo DEF Detect, clientVars, RedoInv

LEMMA ScanRedo ==
  ASSUME TypeInv, TypeInv', EraInv, RedoInv,
         \/ LoadLcid \/ LoadLenum \/ ScanRow \/ ScanEnd \/ MonRead \/ MonRetry
         \/ \E l \in RootRef : Visit(l)
  PROVE  RedoInv'
  <1>1. mon \in MonState /\ mon' \in MonState /\ UNCHANGED clientVars
    BY DEF TypeInv, TypeOK, LoadLcid, LoadLenum, ScanRow, ScanEnd, MonRead, MonRetry, Visit
  <1>2. /\ mon'.tgt = mon.tgt /\ mon'.log = mon.log
        /\ \/ mon.pc \in RedoLabel
           \/ mon'.pc \in {"gc", "read", "note", "cas", "store", "drop"}
    <2>1. CASE LoadLcid \/ LoadLenum
      BY <1>1, <2>1 DEF LoadLcid, LoadLenum, MonState, Mon, RedoLabel
    <2>2. CASE ScanRow \/ ScanEnd
      BY <1>1, <2>2 DEF ScanRow, ScanEnd, MonState, Mon, RedoLabel
    <2>3. CASE MonRead \/ MonRetry
      BY <1>1, <2>3 DEF MonRead, MonRetry, MonState
    <2>4. CASE \E l \in RootRef : Visit(l)
      BY <1>1, <2>4 DEF Visit, MonState
    <2> QED
      BY <2>1, <2>2, <2>3, <2>4
  <1>3. mon'.pc \in RedoLabel => Home[mon'.log.ref] = mon'.tgt
    BY <1>2 DEF RedoInv, RedoLabel
  <1>4. \A k \in Thread : ~Redone(k)' => ~Redone(k)
    BY <1>2 DEF Redone, RedoLabel
  <1> QED
    BY <1>1, <1>3, <1>4, MonRedo DEF clientVars, RedoInv

LEMMA RedoRedo ==
  ASSUME TypeInv, TypeInv', EraInv, RedoInv, Redo
  PROVE  RedoInv'
  <1>1. mon \in MonState /\ mon' = [mon EXCEPT !.pc = "gc"]
        /\ mon.pc = "redo" /\ Home[mon.log.ref] = mon.tgt
    BY DEF TypeInv, TypeOK, Redo, Mon, RedoInv, RedoLabel
  <1>2. mon'.pc = "gc" /\ mon'.tgt = mon.tgt
    BY <1>1 DEF MonState
  <1>3. \A k \in Thread : ~Redone(k)' => ~Redone(k) /\ k # mon.tgt
    BY <1>1, <1>2 DEF Redone
  <1>4. \A l \in RootRef : Home[l] # mon.tgt => pptr'[l] = pptr[l]
    BY <1>1 DEF Redo, TypeInv, TypeOK
  <1> QED
    BY <1>2, <1>3, <1>4, MonRedo DEF Redo, RedoInv, RedoLabel

LEMMA UnlinkRedo ==
  ASSUME TypeInv, TypeInv', EraInv, RedoInv, MonNote \/ MonCas \/ MonStore \/ MonDrop
  PROVE  RedoInv'
  <1>1. /\ TypeOK /\ mon \in MonState /\ mon.tgt \in Thread
        /\ mon.pc \in UnlinkLabel \cup {"drop"}
        /\ mon.ref \in RootRef /\ Home[mon.ref] = mon.tgt
        /\ mon.pc \in UnlinkLabel => pptr[mon.ref] \in CXLObj
    BY DEF TypeInv, TypeOK, MonShape, MonNote, MonCas, MonStore, MonDrop, Mon, UnlinkLabel
  <1>2. /\ mon'.tgt = mon.tgt /\ mon'.pc \in {"gc", "read", "note", "cas", "store", "drop"}
        /\ UNCHANGED <<redo, pc, op, slot>>
    BY <1>1 DEF MonNote, MonCas, MonStore, MonDrop, MonState
  <1>3. \A k \in Thread : ~Redone(k)' => ~Redone(k) /\ k # mon.tgt
    BY <1>2 DEF Redone
  <1>4. \A k \in Thread \ {mon.tgt} : era'[k][k] = era[k][k]
    <2>1. CASE MonNote
      <3>1. mon.saw \in Info /\ Reached(mon.saw)
        BY <1>1 DEF MonState, EraInv
      <3> QED
        BY <1>1, <2>1, <3>1, NotedEras DEF MonNote
    <2>2. CASE ~MonNote
      BY <1>1, <2>2 DEF TypeOK, MonCas, MonStore, MonDrop
    <2> QED
      BY <2>1, <2>2
  <1>5. /\ \A l \in RootRef : Home[l] # mon.tgt =>
             pptr'[l] = pptr[l] /\ inUse'[l] = inUse[l] /\ block'[l] = block[l]
        /\ \A l \in RootRef : inUse'[l] => block'[l] = "used"
    <2>1. CASE MonNote \/ MonCas
      BY <2>1 DEF MonNote, MonCas, RedoInv
    <2>2. CASE MonStore
      <3>1. pptr[mon.ref] \notin RootRef
        BY <1>1, <2>2, NotNull DEF MonStore, Mon, UnlinkLabel
      <3>2. \A l \in RootRef : block'[l] = block[l]
        BY <1>1, <2>2, <3>1 DEF MonStore, TypeOK, Block
      <3> QED
        BY <1>1, <2>2, <3>2 DEF MonStore, TypeOK, RedoInv
    <2>3. CASE MonDrop
      BY <1>1, <2>3 DEF MonDrop, TypeOK, Block, RedoInv
    <2> QED
      BY <2>1, <2>2, <2>3
  <1>6. mon'.pc \notin RedoLabel
    BY <1>2 DEF RedoLabel
  <1> QED
    BY <1>2, <1>3, <1>4, <1>5, <1>6, MonRedo

LEMMA FinishRedo ==
  ASSUME TypeInv, TypeInv', EraInv, RedoInv, Finish
  PROVE  RedoInv'
  <1>1. TypeOK /\ mon.tgt \in Thread /\ mon'.pc = "watch"
    BY DEF TypeInv, MonShape, Finish, Mon, NoMon
  <1>2. ASSUME NEW k \in Thread \ {mon.tgt} PROVE LogInv(k)'
    <2>1. OpShape(k) /\ LogInv(k)
      BY DEF TypeInv, RedoInv
    <2>2. slot'[k] = slot[k] /\ pc'[k] = pc[k] /\ op'[k] = op[k]
      BY <1>1 DEF Finish, Return, TypeOK
    <2>3. LogActive(k)' => LogActive(k)
      BY <2>2 DEF LogActive, Redone
    <2> QED
      BY <1>1, <2>1, <2>2, <2>3, LogFrame DEF Finish
  <1>3. ASSUME NEW k \in Thread, k = mon.tgt PROVE LogInv(k)'
    <2>1. slot'[k] = "gone" /\ redo' = redo
      BY <1>1, <1>3 DEF Finish, TypeOK
    <2>2. LogInv(k) /\ ~LogActive(k)'
      BY <2>1 DEF LogActive, RedoInv
    <2> QED
      BY <2>1, <2>2 DEF LogInv, Kept
  <1>4. \A k \in Thread : LogInv(k)'
    BY <1>2, <1>3
  <1>5. \A l \in RootRef : inUse'[l] => block'[l] = "used"
    BY DEF Finish, RedoInv
  <1> QED
    BY <1>1, <1>4, <1>5 DEF RedoInv, RedoLabel

LEMMA MonitorRedo ==
  ASSUME TypeInv, TypeInv', EraInv, RedoInv, Monitor
  PROVE  RedoInv'
  BY DetectRedo, ScanRedo, RedoRedo, UnlinkRedo, FinishRedo DEF Monitor

-----------------------------------------------------------------------------
LEMMA InitRedo == Init => RedoInv
  <1> SUFFICES ASSUME Init PROVE RedoInv
    OBVIOUS
  <1>1. \A i \in Thread : ~LogActive(i)
    BY DEF Init, LogActive
  <1>2. \A i \in Thread, n \in Lines : redo[i][n] = NoLog
    BY DEF Init
  <1> QED
    BY <1>1, <1>2 DEF RedoInv, LogInv, Kept, NoLog, Init, NoMon, RedoLabel

LEMMA NextRedo == TypeInv /\ TypeInv' /\ EraInv /\ RedoInv /\ [Next]_vars => RedoInv'
  <1> SUFFICES ASSUME TypeInv, TypeInv', EraInv, RedoInv, [Next]_vars PROVE RedoInv'
    OBVIOUS
  <1>1. CASE Next
    BY <1>1, ClientStepRedo, MonitorRedo DEF Next
  <1>2. CASE UNCHANGED vars
    BY <1>2, MonRedo DEF vars, Redone, RedoInv
  <1> QED
    BY <1>1, <1>2

(* The line the monitor selects is not the one LogOld excepts: while the   *)
(* unlink ends, its own record is later than the record of the link.       *)
LEMMA LatestOld ==
  ASSUME TypeInv, RedoInv, NEW i \in Thread, LogActive(i), NEW n \in Lines, Latest(i, n),
         Kept(i, n), redo[i][n].cur_era < era[i][i], inUse[redo[i][n].ref]
  PROVE  pptr[redo[i][n].ref] = RedoValue(redo[i][n])
  <1> DEFINE g == redo[i][n]
  <1>1. /\ TypeOK /\ era[i][i] \in Nat /\ LogLines(i) /\ LogCurrent(i) /\ LogOld(i)
        /\ g.cur_era \in Nat
    BY RecordType DEF TypeInv, TypeOK, RedoInv, LogInv
  <1>2. ~(Emptied(i) /\ g.func_id = "LINK" /\ g.ref = op[i].ref)
    <2> SUFFICES ASSUME Emptied(i), g.func_id = "LINK" PROVE FALSE
      OBVIOUS
    <2>1. CASE pc[i] = "bump"
      <3>1. redo[i][RedoLine(era[i][i])].cur_era = era[i][i]
        BY <1>1, <2>1 DEF LogCurrent, Record, PostCas
      <3>2. era[i][i] <= g.cur_era
        BY <1>1, <3>1, LineIn DEF Latest
      <3> QED
        BY <1>1, <3>2
    <2>2. CASE pc[i] \in FreeLabel
      <3> DEFINE m == RedoLine(era[i][i] - 1)
      <3>1. era[i][i] - 1 \in Nat /\ redo[i][m] = Record(i, era[i][i] - 1)
        BY <1>1, <2>2 DEF LogCurrent
      <3>2. m \in Lines /\ redo[i][m].cur_era = era[i][i] - 1 /\ redo[i][m].func_id = "UNLINK"
        BY <3>1, LineIn DEF Record, Emptied
      <3>3. era[i][i] - 1 <= g.cur_era
        BY <3>2 DEF Latest
      <3>4. g.cur_era = era[i][i] - 1
        BY <1>1, <3>1, <3>3
      <3>5. n = m
        BY <1>1, <3>4 DEF LogLines
      <3> QED
        BY <3>2, <3>5
    <2> QED
      BY <2>1, <2>2 DEF Emptied
  <1> QED
    BY <1>1, <1>2 DEF LogOld

(* As long as every count fits its field, the monitor's redo of a record   *)
(* of an earlier operation (redo_ref_cnt) writes what its RootRef holds    *)
(* anyway, at whatever step the client failed.                             *)
THEOREM OldRecordsHarmless == Spec /\ []CountFits => []RedoHarmless
  <1>1. TypeInv /\ RedoInv => RedoHarmless
    <2> SUFFICES ASSUME TypeInv, RedoInv PROVE RedoHarmless
      OBVIOUS
    <2> QED
      BY LatestOld DEF RedoHarmless, LogActive, Kept
  <1>2. TypeInv /\ EraInv /\ RedoInv /\ CountFits /\ TypeInv' /\ [Next]_vars
          => EraInv' /\ RedoInv'
    BY NextEras, NextRedo
  <1> QED
    BY <1>1, <1>2, EraInit, InitRedo, Typing, PTL DEF Spec

-----------------------------------------------------------------------------
(* Who has seen a client in its current era.                               *)

LEMMA LabelsApart ==
  /\ PostCas \cap {"idle", "root", "object", "clear root", "clear object", "take", "stamp",
                   "read", "note", "log", "cas", "wipe", "push", "release"} = {}
  /\ "store" \in PostCas /\ "bump" \in PostCas
  BY DEF PostCas

LEMMA UnseenKept ==
  ASSUME NEW k \in Thread, Unseen(k), era'[k][k] = era[k][k],
         \A j \in Thread \ {k} : era'[j][k] = era[j][k] \/ era'[j][k] < era[k][k],
         \A o \in CXLObj : refInfo'[o] = refInfo[o] \/ refInfo'[o].cid # k,
         \A m \in Thread : \/ op'[m].saw = op[m].saw
                           \/ op'[m].saw.cid # k
                           \/ \E o \in CXLObj : op'[m].saw = refInfo[o],
         \/ mon'.saw = mon.saw
         \/ mon'.saw.cid # k
         \/ mon'.saw.era < era[k][k]
         \/ \E o \in CXLObj : mon'.saw = refInfo[o]
  PROVE  Unseen(k)'
  BY DEF Unseen

LEMMA SeenKept ==
  ASSUME NEW k \in Thread, Seen(k), era'[k][k] = era[k][k], op'[k] = op[k],
         \A j \in Thread \ {k} : /\ era[j][k] \in Nat /\ era'[j][k] \in Nat
                                 /\ era[j][k] <= era'[j][k],
         era[k][k] \in Nat,
         \/ refInfo'[op[k].refed] = refInfo[op[k].refed]
         \/ \E j \in Thread \ {k} : era[k][k] <= era'[j][k]
  PROVE  Seen(k)'
  <1>1. RowSeen(k) => RowSeen(k)'
    <2> SUFFICES ASSUME RowSeen(k) PROVE RowSeen(k)'
      OBVIOUS
    <2>1. PICK j \in Thread \ {k} : era[k][k] <= era[j][k]
      BY DEF RowSeen
    <2>2. era[k][k] <= era'[j][k]
      BY <2>1
    <2> QED
      BY <2>2 DEF RowSeen
  <1>2. CASE refInfo'[op[k].refed] = refInfo[op[k].refed]
    BY <1>1, <1>2 DEF Seen, Delta
  <1>3. CASE \E j \in Thread \ {k} : era[k][k] <= era'[j][k]
    BY <1>3 DEF Seen, RowSeen
  <1> QED
    BY <1>2, <1>3

(* The client i is active and has been seen exactly if it is past its CAS. *)
Told(i) == LogActive(i) => IF pc[i] \in PostCas THEN Seen(i) ELSE Unseen(i)

LEMMA NoClient == ZeroInfo.cid \notin Thread /\ NoOp.saw = ZeroInfo /\ NoMon.saw = ZeroInfo
  BY ThreadAssumption DEF ZeroInfo, NoOp, NoMon

(* A step that leaves the eras and the words alone. *)
LEMMA QuietSeen ==
  ASSUME TypeOK, SeenInv, UNCHANGED <<era, refInfo>>,
         \A k \in Thread :
           /\ slot'[k] = "vacant" <=> slot[k] = "vacant"
           /\ LogActive(k)' => LogActive(k)
           /\ pc'[k] \in PostCas <=> pc[k] \in PostCas
           /\ LogActive(k)' /\ pc[k] \in PostCas => op'[k] = op[k]
           /\ op'[k].saw = op[k].saw \/ op'[k].saw = ZeroInfo
                \/ \E o \in CXLObj : op'[k].saw = refInfo[o]
           /\ pc'[k] \in {"log", "cas"} => pc[k] \in {"log", "cas"} /\ op'[k].saw = op[k].saw,
         \/ mon'.saw = mon.saw
         \/ mon'.saw = ZeroInfo
         \/ mon'.saw.era = 0
         \/ \E o \in CXLObj : mon'.saw = refInfo[o],
         mon'.pc = "cas" => mon.pc = "cas" /\ mon'.saw = mon.saw /\ mon'.tgt = mon.tgt
  PROVE  SeenInv'
  <1>1. ASSUME NEW k \in Thread, LogActive(k)', pc'[k] \in PostCas PROVE Seen(k)'
    <2>1. Seen(k) /\ op'[k] = op[k]
      BY <1>1 DEF SeenInv
    <2>2. \A i, j \in Thread : era[i][j] \in Nat /\ era'[i][j] = era[i][j]
      BY DEF TypeOK
    <2> QED
      BY <2>1, <2>2, SeenKept
  <1>2. ASSUME NEW k \in Thread, LogActive(k)', pc'[k] \notin PostCas PROVE Unseen(k)'
    <2>1. Unseen(k) /\ era[k][k] > 0 /\ era[k][k] \in Nat
      BY <1>2 DEF SeenInv, LogActive, TypeOK
    <2>2. ZeroInfo.cid # k
      BY NoClient
    <2>3. \A m \in Thread : op'[m].saw = op[m].saw \/ op'[m].saw.cid # k
                \/ \E o \in CXLObj : op'[m].saw = refInfo[o]
      BY <2>2
    <2>4. mon'.saw = mon.saw \/ mon'.saw.cid # k \/ mon'.saw.era < era[k][k]
            \/ \E o \in CXLObj : mon'.saw = refInfo[o]
      BY <2>1, <2>2
    <2> QED
      BY <2>1, <2>3, <2>4, UnseenKept
  <1>3. \A i \in Thread : slot'[i] # "vacant" => era'[i][i] > 0
    BY DEF SeenInv
  <1>4. \A i, k \in Thread : pc'[i] \in {"log", "cas"} /\ op'[i].saw.cid = k =>
       op'[i].saw.era <= era'[i][k]
    BY DEF SeenInv
  <1>5. \A k \in Thread : mon'.pc = "cas" /\ mon'.saw.cid = k =>
       mon'.saw.era <= era'[mon'.tgt][k]
    BY DEF SeenInv
  <1> QED
    BY <1>1, <1>2, <1>3, <1>4, <1>5 DEF SeenInv

LEMMA QuietClientSeen ==
  ASSUME TypeOK, SeenInv, NEW i \in Thread, UNCHANGED <<era, refInfo, slot, mon>>,
         \A k \in Thread \ {i} : pc'[k] = pc[k] /\ op'[k] = op[k],
         pc'[i] \in PostCas <=> pc[i] \in PostCas,
         pc[i] \in PostCas => op'[i] = op[i],
         \/ op'[i].saw = op[i].saw
         \/ op'[i].saw = ZeroInfo
         \/ \E o \in CXLObj : op'[i].saw = refInfo[o],
         pc'[i] \in {"log", "cas"} => pc[i] \in {"log", "cas"} /\ op'[i].saw = op[i].saw
  PROVE  SeenInv'
  <1>1. ASSUME NEW k \in Thread
        PROVE  /\ slot'[k] = "vacant" <=> slot[k] = "vacant"
               /\ LogActive(k)' => LogActive(k)
               /\ pc'[k] \in PostCas <=> pc[k] \in PostCas
               /\ LogActive(k)' /\ pc[k] \in PostCas => op'[k] = op[k]
               /\ op'[k].saw = op[k].saw \/ op'[k].saw = ZeroInfo
                    \/ \E o \in CXLObj : op'[k].saw = refInfo[o]
               /\ pc'[k] \in {"log", "cas"} => pc[k] \in {"log", "cas"} /\ op'[k].saw = op[k].saw
    <2>1. LogActive(k)' => LogActive(k)
      BY DEF LogActive, Redone
    <2>2. CASE k = i
      BY <2>1, <2>2
    <2>3. CASE k # i
      BY <2>1, <2>3
    <2> QED
      BY <2>2, <2>3
  <1>2. mon'.pc = "cas" => mon.pc = "cas" /\ mon'.saw = mon.saw /\ mon'.tgt = mon.tgt
    OBVIOUS
  <1> QED
    BY <1>1, <1>2, QuietSeen

LEMMA StartSeen ==
  ASSUME NEW i \in Thread, TypeInv, SeenInv, Start(i)
  PROVE  SeenInv'
  <1>1. TypeOK /\ UNCHANGED <<era, refInfo, slot, mon>> /\ pc[i] = "idle"
    BY DEF TypeInv, Start, CxlMalloc, GetRef, Drop, CanStart, Running
  <1>2. ASSUME NEW v, op' = [op EXCEPT ![i] = v], v.saw = ZeroInfo,
               NEW p \in {"root", "read"}, pc' = [pc EXCEPT ![i] = p]
        PROVE  SeenInv'
    <2>1. op'[i].saw = ZeroInfo /\ pc'[i] = p
      BY <1>1, <1>2 DEF TypeOK
    <2>2. \A k \in Thread \ {i} : pc'[k] = pc[k] /\ op'[k] = op[k]
      BY <1>1, <1>2 DEF TypeOK
    <2> QED
      BY <1>1, <2>1, <2>2, LabelsApart, QuietClientSeen
  <1>3. CASE CxlMalloc(i)
    <2>1. [NoOp EXCEPT !.func = "ALLOC"].saw = ZeroInfo
      BY DEF NoOp
    <2> QED
      BY <1>2, <1>3, <2>1 DEF CxlMalloc
  <1>4. ASSUME NEW l \in RootRef, GetRef(i, l) PROVE SeenInv'
    <2>1. [NoOp EXCEPT !.func = "LINK", !.refed = pptr[l], !.src = l].saw = ZeroInfo
      BY DEF NoOp
    <2> QED
      BY <1>2, <1>4, <2>1 DEF GetRef
  <1>5. ASSUME NEW l \in RootRef, Drop(i, l) PROVE SeenInv'
    <2>1. [NoOp EXCEPT !.func = "UNLINK", !.ref = l, !.refed = pptr[l]].saw = ZeroInfo
      BY DEF NoOp
    <2> QED
      BY <1>2, <1>5, <2>1 DEF Drop
  <1> QED
    BY <1>3, <1>4, <1>5 DEF Start

LEMMA QuietStepSeen ==
  ASSUME NEW i \in Thread, TypeInv, SeenInv,
         \/ SlowPath(i) \/ ClearRedo(i) \/ Collect(i) \/ BlockToTbr(i) \/ LinkBlockToTbr(i)
         \/ WriteLog(i) \/ CasRetry(i) \/ StoreRef(i) \/ PushObject(i) \/ Release(i)
         \/ ReadInfo(i)
  PROVE  SeenInv'
  <1>1. TypeOK /\ UNCHANGED <<era, refInfo, slot, mon>>
    BY DEF TypeInv, SlowPath, ClearRedo, Collect, BlockToTbr, LinkBlockToTbr, WriteLog,
           CasRetry, StoreRef, PushObject, Release, ReadInfo
  <1> DEFINE Same == op'[i].saw = op[i].saw
             Others == \A k \in Thread \ {i} : pc'[k] = pc[k] /\ op'[k] = op[k]
  <1>2. CASE SlowPath(i) \/ ClearRedo(i) \/ Collect(i)
    <2>1. Same /\ Others
      <3>1. CASE SlowPath(i)
        BY <1>1, <3>1 DEF TypeOK, Op, SlowPath
      <3>2. CASE ClearRedo(i)
        BY <1>1, <3>2 DEF TypeOK, Op, ClearRedo
      <3>3. CASE Collect(i)
        BY <1>1, <3>3 DEF TypeOK, Collect
      <3> QED
        BY <1>2, <3>1, <3>2, <3>3
    <2>2. /\ pc[i] \in {"root", "object", "clear root", "clear object"}
          /\ pc'[i] \in {"root", "object", "clear root", "clear object"}
      BY <1>1, <1>2 DEF TypeOK, SlowPath, ClearRedo, Collect
    <2> QED
      BY <1>1, <2>1, <2>2, LabelsApart, QuietClientSeen
  <1>3. CASE BlockToTbr(i) \/ LinkBlockToTbr(i)
    <2>1. Same /\ Others
      <3>1. CASE BlockToTbr(i)
        BY <1>1, <3>1 DEF TypeOK, Op, BlockToTbr
      <3>2. CASE LinkBlockToTbr(i)
        BY <1>1, <3>2 DEF TypeOK, Op, LinkBlockToTbr
      <3> QED
        BY <1>3, <3>1, <3>2
    <2>2. pc[i] \in {"root", "object"} /\ pc'[i] \in {"object", "read", "take"}
      BY <1>1, <1>3 DEF TypeOK, BlockToTbr, LinkBlockToTbr, Running
    <2> QED
      BY <1>1, <2>1, <2>2, LabelsApart, QuietClientSeen
  <1>4. CASE WriteLog(i) \/ CasRetry(i) \/ StoreRef(i) \/ PushObject(i)
    <2>1. op'[i] = op[i] /\ Others
      BY <1>1, <1>4 DEF TypeOK, WriteLog, CasRetry, StoreRef, PushObject
    <2>2. \/ pc[i] = "log" /\ pc'[i] = "cas"
          \/ pc[i] = "cas" /\ pc'[i] = "read"
          \/ pc[i] = "store" /\ pc'[i] = "bump"
          \/ pc[i] = "push" /\ pc'[i] = "release"
      BY <1>1, <1>4 DEF TypeOK, WriteLog, CasRetry, StoreRef, PushObject, Running
    <2> QED
      BY <1>1, <2>1, <2>2, LabelsApart, QuietClientSeen
  <1>5. CASE Release(i)
    <2>1. op'[i].saw = ZeroInfo /\ Others
      BY <1>1, <1>5, NoClient DEF TypeOK, Release, Return
    <2>2. pc[i] = "release" /\ pc'[i] = "idle"
      BY <1>1, <1>5 DEF TypeOK, Release, Return, Running
    <2> QED
      BY <1>1, <2>1, <2>2, LabelsApart, QuietClientSeen
  <1>6. CASE ReadInfo(i)
    <2>1. op'[i].saw = refInfo[op[i].refed] /\ Others
      BY <1>1, <1>6 DEF TypeOK, Op, ReadInfo
    <2>2. pc[i] = "read" /\ pc'[i] = "note"
      BY <1>1, <1>6 DEF TypeOK, ReadInfo, Running
    <2>3. op[i].refed \in CXLObj
      BY <2>2 DEF TypeInv, OpShape, LinkLabel, PreCas
    <2> QED
      BY <1>1, <2>1, <2>2, <2>3, LabelsApart, QuietClientSeen
  <1> QED
    BY <1>2, <1>3, <1>4, <1>5, <1>6

(* What is told of the clients that do not act, when the eras and the      *)
(* words change.                                                           *)
LEMMA ToldKept ==
  ASSUME TypeOK, TypeOK', SeenInv, NEW k \in Thread, LogActive(k)' => LogActive(k),
         era'[k][k] = era[k][k], pc'[k] = pc[k], op'[k] = op[k],
         \A j \in Thread \ {k} :
           /\ era[j][k] <= era'[j][k]
           /\ Unseen(k) => era'[j][k] = era[j][k] \/ era'[j][k] < era[k][k],
         \A o \in CXLObj : refInfo'[o] = refInfo[o] \/ refInfo'[o].cid # k,
         \/ ~LogActive(k)
         \/ refInfo'[op[k].refed] = refInfo[op[k].refed]
         \/ ~Seen(k)
         \/ \E j \in Thread \ {k} : era[k][k] <= era'[j][k],
         \A m \in Thread : op'[m].saw = op[m].saw \/ op'[m].saw.cid # k,
         mon'.saw = mon.saw
  PROVE  Told(k)'
  <1>1. /\ era[k][k] \in Nat
        /\ \A j \in Thread : era[j][k] \in Nat /\ era'[j][k] \in Nat
    BY DEF TypeOK
  <1>2. CASE LogActive(k) /\ pc[k] \in PostCas
    <2>1. Seen(k)
      BY <1>2 DEF SeenInv
    <2>2. Seen(k)'
      BY <1>1, <1>2, <2>1, SeenKept
    <2> QED
      BY <1>2, <2>2 DEF Told
  <1>3. CASE LogActive(k) /\ pc[k] \notin PostCas
    <2>1. Unseen(k)
      BY <1>3 DEF SeenInv
    <2>2. Unseen(k)'
      BY <2>1, UnseenKept
    <2> QED
      BY <1>3, <2>2 DEF Told
  <1> QED
    BY <1>2, <1>3 DEF Told

(* Assembling the invariant after a step. *)
LEMMA SeenParts ==
  ASSUME \A k \in Thread : slot'[k] # "vacant" => era'[k][k] > 0,
         \A k \in Thread : Told(k)',
         \A i, k \in Thread : pc'[i] \in {"log", "cas"} /\ op'[i].saw.cid = k =>
           op'[i].saw.era <= era'[i][k],
         \A k \in Thread : mon'.pc = "cas" /\ mon'.saw.cid = k =>
           mon'.saw.era <= era'[mon'.tgt][k]
  PROVE  SeenInv'
  BY DEF SeenInv, Told

LEMMA NoteEraSeen ==
  ASSUME NEW i \in Thread, TypeInv, TypeInv', EraInv, SeenInv, NoteEra(i)
  PROVE  SeenInv'
  <1>1. /\ TypeOK /\ TypeOK' /\ UNCHANGED <<refInfo, slot, op, mon>>
        /\ slot[i] = "run" /\ pc[i] = "note" /\ pc' = [pc EXCEPT ![i] = "log"]
        /\ era' = Noted(i, op[i].saw) /\ op[i].saw \in Info
    BY DEF TypeInv, TypeOK, Op, NoteEra, Running
  <1>2. \A k \in Thread : op[i].saw.cid = k => op[i].saw.era <= era[k][k]
    BY DEF EraInv, Reached
  <1>3. /\ \A j, k \in Thread : era[j][k] \in Nat /\ era'[j][k] \in Nat
        /\ \A j, k \in Thread : era[j][k] <= era'[j][k]
    BY <1>1, NotedType DEF TypeOK
  <1>4. \A j, k \in Thread : \/ era'[j][k] = era[j][k]
                             \/ j = i /\ k = op[i].saw.cid /\ era'[j][k] = op[i].saw.era
                                /\ op[i].saw.era > era[j][k]
    BY <1>1 DEF Noted, TypeOK
  <1>5. \A k \in Thread : op[i].saw.cid = k => op[i].saw.era <= era'[i][k]
    BY <1>1, <1>3 DEF Noted, TypeOK, Info
  <1>6. op[i].saw.era \in Nat
    BY <1>1 DEF Info
  <1>7. \A k \in Thread : era'[k][k] = era[k][k]
    BY <1>2, <1>3, <1>4, <1>6
  <1>8. ASSUME NEW k \in Thread PROVE Told(k)'
    <2>1. LogActive(k)' => LogActive(k)
      BY <1>1 DEF LogActive, Redone
    <2>2. CASE k # i
      <3>1. pc'[k] = pc[k] /\ op'[k] = op[k]
        BY <1>1, <2>2 DEF TypeOK
      <3>2. \A j \in Thread \ {k} : Unseen(k) =>
              era'[j][k] = era[j][k] \/ era'[j][k] < era[k][k]
        BY <1>4 DEF Unseen
      <3> QED
        BY <1>1, <1>3, <1>7, <2>1, <3>1, <3>2, ToldKept
    <2>3. CASE k = i
      <3>1. pc'[k] = "log" /\ pc[k] = "note" /\ op' = op /\ mon' = mon /\ refInfo' = refInfo
        BY <1>1, <2>3 DEF TypeOK
      <3>2. LogActive(k)' => Unseen(k)
        BY <2>1, <3>1, LabelsApart DEF SeenInv
      <3>3. LogActive(k)' => Unseen(k)'
        <4>1. \A j \in Thread \ {k} : Unseen(k) =>
              era'[j][k] = era[j][k] \/ era'[j][k] < era[k][k]
          BY <1>4 DEF Unseen
        <4> QED
          BY <1>7, <3>1, <3>2, <4>1, UnseenKept
      <3> QED
        BY <3>1, <3>3, LabelsApart DEF Told
    <2> QED
      BY <2>2, <2>3
  <1>9. \A m, k \in Thread : pc'[m] \in {"log", "cas"} /\ op'[m].saw.cid = k =>
           op'[m].saw.era <= era'[m][k]
    <2> SUFFICES ASSUME NEW m \in Thread, NEW k \in Thread,
                        pc'[m] \in {"log", "cas"}, op'[m].saw.cid = k
                 PROVE  op'[m].saw.era <= era'[m][k]
      OBVIOUS
    <2>1. CASE m = i
      BY <1>1, <1>5, <2>1
    <2>2. CASE m # i
      <3>1. pc'[m] = pc[m] /\ op'[m] = op[m]
        BY <1>1, <2>2 DEF TypeOK
      <3>2. op[m].saw.era <= era[m][k] /\ op[m].saw.era \in Nat
        BY <1>1, <3>1 DEF SeenInv, TypeOK, Op, Info
      <3> QED
        BY <1>3, <3>1, <3>2
    <2> QED
      BY <2>1, <2>2
  <1>10. \A k \in Thread : slot'[k] # "vacant" => era'[k][k] > 0
    BY <1>1, <1>7 DEF SeenInv
  <1>11. \A k \in Thread : mon'.pc = "cas" /\ mon'.saw.cid = k =>
           mon'.saw.era <= era'[mon'.tgt][k]
    <2> SUFFICES ASSUME NEW k \in Thread, mon.pc = "cas", mon.saw.cid = k
                 PROVE  mon.saw.era <= era'[mon.tgt][k]
      BY <1>1
    <2>1. mon.tgt \in Thread /\ mon.saw.era \in Nat /\ mon.saw.era <= era[mon.tgt][k]
      BY DEF TypeInv, MonShape, TypeOK, MonState, Info, SeenInv
    <2> QED
      BY <1>3, <2>1
  <1> QED
    BY <1>8, <1>9, <1>10, <1>11, SeenParts

(* The era step of a client: nobody has seen it in its new era. *)
LEMMA UpFacts ==
  ASSUME TypeOK, NEW i \in Thread, era' = [era EXCEPT ![i][i] = @ + 1]
  PROVE  /\ era'[i][i] = era[i][i] + 1
         /\ \A k \in Thread \ {i} : era'[k][k] = era[k][k]
         /\ \A j, k \in Thread : j # k => era'[j][k] = era[j][k]
         /\ \A j, k \in Thread : era[j][k] \in Nat /\ era[j][k] <= era'[j][k]
  BY DEF TypeOK

LEMMA UpUnseen ==
  ASSUME TypeOK, EraInv, NEW i \in Thread, era' = [era EXCEPT ![i][i] = @ + 1],
         refInfo' = refInfo, mon' = mon,
         \A m \in Thread : op'[m].saw = op[m].saw \/ op'[m].saw = ZeroInfo
  PROVE  Unseen(i)'
  <1>1. /\ era'[i][i] = era[i][i] + 1 /\ era[i][i] \in Nat
        /\ \A j \in Thread \ {i} : era'[j][i] = era[j][i] /\ era[j][i] \in Nat
    BY UpFacts
  <1>2. \A n \in Nat : n <= era[i][i] => n < era'[i][i]
    BY <1>1
  <1>3. \A j \in Thread \ {i} : era'[j][i] < era'[i][i]
    BY <1>1, <1>2 DEF EraInv
  <1>4. \A o \in CXLObj : refInfo[o].cid = i => refInfo[o].era < era'[i][i]
    BY <1>2 DEF EraInv, Reached, TypeOK, Info
  <1>5. \A m \in Thread : op[m].saw.cid = i => op[m].saw.era < era'[i][i]
    BY <1>2 DEF EraInv, Reached, TypeOK, Op, Info
  <1>6. mon.saw.cid = i => mon.saw.era < era'[i][i]
    BY <1>2 DEF EraInv, Reached, TypeOK, MonState, Info
  <1>7. \A m \in Thread : op'[m].saw.cid = i => op'[m].saw.era < era'[i][i]
    BY <1>5, NoClient
  <1> QED
    BY <1>3, <1>4, <1>6, <1>7 DEF Unseen

LEMMA UpSeen ==
  ASSUME TypeInv, TypeOK', EraInv, SeenInv, NEW i \in Thread,
         era' = [era EXCEPT ![i][i] = @ + 1], UNCHANGED <<refInfo, mon>>,
         \A k \in Thread \ {i} : pc'[k] = pc[k] /\ op'[k] = op[k] /\ slot'[k] = slot[k],
         op'[i].saw = op[i].saw \/ op'[i].saw = ZeroInfo,
         pc'[i] \notin PostCas \cup {"log", "cas"}
  PROVE  SeenInv'
  <1>1. /\ TypeOK /\ MonShape
        /\ era'[i][i] = era[i][i] + 1
        /\ \A k \in Thread \ {i} : era'[k][k] = era[k][k]
        /\ \A j, k \in Thread : j # k => era'[j][k] = era[j][k]
        /\ \A j, k \in Thread : era[j][k] \in Nat /\ era[j][k] <= era'[j][k]
    BY UpFacts DEF TypeInv
  <1>2. ASSUME NEW k \in Thread PROVE Told(k)'
    <2>1. CASE k # i
      <3>1. LogActive(k)' => LogActive(k)
        BY <2>1 DEF LogActive, Redone
      <3>2. \A m \in Thread : op'[m].saw = op[m].saw \/ op'[m].saw.cid # k
        BY NoClient
      <3>3. /\ era'[k][k] = era[k][k] /\ pc'[k] = pc[k] /\ op'[k] = op[k]
            /\ \A j \in Thread \ {k} : era[j][k] <= era'[j][k] /\ era'[j][k] = era[j][k]
        BY <1>1, <2>1
      <3> QED
        BY <1>1, <3>1, <3>2, <3>3, ToldKept
    <2>2. CASE k = i
      <3>1. Unseen(i)'
        BY <1>1, UpUnseen
      <3> QED
        BY <2>2, <3>1 DEF Told
    <2> QED
      BY <2>1, <2>2
  <1>3. ASSUME NEW m \in Thread, NEW k \in Thread,
               pc'[m] \in {"log", "cas"}, op'[m].saw.cid = k
        PROVE  op'[m].saw.era <= era'[m][k]
    <2>1. m # i /\ op'[m] = op[m] /\ pc'[m] = pc[m]
      BY <1>3
    <2>2. op[m].saw.era <= era[m][k]
      BY <1>3, <2>1 DEF SeenInv
    <2>3. op[m].saw.era \in Nat
      BY <1>1 DEF TypeOK, Op, Info
    <2>4. era[m][k] <= era'[m][k] /\ era[m][k] \in Nat /\ era'[m][k] \in Nat
      BY <1>1 DEF TypeOK
    <2> QED
      BY <2>1, <2>2, <2>3, <2>4
  <1>4. ASSUME NEW k \in Thread PROVE slot'[k] # "vacant" => era'[k][k] > 0
    BY <1>1 DEF SeenInv
  <1>5. ASSUME NEW k \in Thread, mon'.pc = "cas", mon'.saw.cid = k
        PROVE  mon'.saw.era <= era'[mon'.tgt][k]
    <2>1. /\ mon.tgt \in Thread /\ mon.saw.era \in Nat /\ mon.saw.era <= era[mon.tgt][k]
          /\ era'[mon.tgt][k] \in Nat
      BY <1>5 DEF MonShape, TypeInv, TypeOK, MonState, Info, SeenInv
    <2> QED
      BY <1>1, <2>1
  <1> QED
    BY <1>2, <1>3, <1>4, <1>5, SeenParts

LEMMA EraStepSeen ==
  ASSUME TypeInv, TypeOK', EraInv, SeenInv, NEW i \in Thread,
         ThreadInit(i) \/ TakeBlock(i) \/ BumpEra(i)
  PROVE  SeenInv'
  <1>1. TypeOK
    BY DEF TypeInv
  <1>2. CASE ThreadInit(i)
    <2>1. pc[i] = "idle"
      BY <1>2 DEF TypeInv, OpShape, ThreadInit
    <2>2. \A k \in Thread \ {i} : slot'[k] = slot[k]
      BY <1>1, <1>2 DEF TypeOK, ThreadInit
    <2> QED
      BY <1>2, <2>1, <2>2, LabelsApart, UpSeen DEF ThreadInit
  <1>3. CASE TakeBlock(i)
    <2>1. pc'[i] = "stamp" /\ \A k \in Thread \ {i} : pc'[k] = pc[k]
      BY <1>1, <1>3 DEF TypeOK, TakeBlock
    <2> QED
      BY <1>3, <2>1, LabelsApart, UpSeen DEF TakeBlock
  <1>4. CASE BumpEra(i)
    <2>1. /\ pc'[i] \in {"idle", "wipe", "release"}
          /\ \A k \in Thread \ {i} : pc'[k] = pc[k] /\ op'[k] = op[k]
          /\ op'[i].saw = op[i].saw \/ op'[i].saw = ZeroInfo
      BY <1>1, <1>4, NoClient DEF TypeOK, BumpEra, Return
    <2> QED
      BY <1>4, <2>1, LabelsApart, UpSeen DEF BumpEra
  <1> QED
    BY <1>2, <1>3, <1>4

(* A word that has lost its count does not bear the stamp of an operation  *)
(* past its CAS, unless this operation has dropped the last reference.     *)
LEMMA UncountedSeen ==
  ASSUME TypeInv, NEW k \in Thread, pc[k] \in PostCas, ~Claims(k),
         refInfo[op[k].refed].cnt = 0, Seen(k)
  PROVE  RowSeen(k)
  <1>1. op[k].func \in {"LINK", "UNLINK"} /\ op[k].saw.cnt \in Nat
    BY DEF TypeInv, TypeOK, OpShape, Op, Info, LinkLabel
  <1>2. op[k].saw.cnt + Delta(k) # 0
    <2>1. CASE op[k].func = "LINK"
      BY <1>1, <2>1 DEF Delta
    <2>2. CASE op[k].func # "LINK"
      <3>1. op[k].saw.cnt # 1
        BY <1>1, <2>2 DEF Claims, PostCas
      <3> QED
        BY <1>1, <2>2, <3>1 DEF Delta
    <2> QED
      BY <2>1, <2>2
  <1> QED
    BY <1>2 DEF Seen

(* A client replaces the word of object x.                                 *)
LEMMA WordSeen ==
  ASSUME TypeInv, TypeOK', SeenInv, NEW i \in Thread, NEW x \in CXLObj, NEW w,
         refInfo' = [refInfo EXCEPT ![x] = w], w.cid = i \/ w = ZeroInfo,
         UNCHANGED <<era, slot, mon>>,
         \A k \in Thread \ {i} : /\ pc'[k] = pc[k] /\ op'[k] = op[k]
                                 /\ LogActive(k) /\ pc[k] \in PostCas /\ op[k].refed = x
                                      /\ Seen(k) => RowSeen(k),
         op'[i].saw = op[i].saw \/ op'[i].saw = ZeroInfo,
         pc'[i] \notin {"log", "cas"}, Told(i)'
  PROVE  SeenInv'
  <1>1. TypeOK /\ \A j, k \in Thread : era[j][k] \in Nat /\ era[j][k] <= era'[j][k]
    BY DEF TypeInv, TypeOK
  <1>2. \A o \in CXLObj : o # x => refInfo'[o] = refInfo[o]
    BY <1>1 DEF TypeOK
  <1>3. refInfo'[x] = w
    BY <1>1 DEF TypeOK
  <1>4. ASSUME NEW k \in Thread \ {i} PROVE Told(k)'
    <2>1. LogActive(k)' => LogActive(k)
      BY DEF LogActive, Redone
    <2>2. \A m \in Thread : op'[m].saw = op[m].saw \/ op'[m].saw.cid # k
      BY NoClient
    <2>3. \A o \in CXLObj : refInfo'[o] = refInfo[o] \/ refInfo'[o].cid # k
      BY <1>2, <1>3, NoClient
    <2>4. \/ ~LogActive(k) \/ pc[k] \notin PostCas
          \/ refInfo'[op[k].refed] = refInfo[op[k].refed]
          \/ ~Seen(k)
          \/ \E j \in Thread \ {k} : era[k][k] <= era'[j][k]
      <3>1. SUFFICES ASSUME LogActive(k), pc[k] \in PostCas, Seen(k), op[k].refed = x
                     PROVE  \E j \in Thread \ {k} : era[k][k] <= era'[j][k]
        <4>1. pc[k] \in PostCas => op[k].refed \in CXLObj
          BY DEF TypeInv, OpShape, LinkLabel
        <4> QED
          BY <1>2, <3>1, <4>1
      <3>2. RowSeen(k)
        BY <3>1
      <3> QED
        BY <3>2 DEF RowSeen
    <2>5. /\ era'[k][k] = era[k][k] /\ pc'[k] = pc[k] /\ op'[k] = op[k] /\ mon' = mon
          /\ \A j \in Thread \ {k} : era[j][k] <= era'[j][k] /\ era'[j][k] = era[j][k]
      BY <1>1
    <2>6. CASE LogActive(k) /\ pc[k] \notin PostCas
      <3>1. Unseen(k)
        BY <2>6 DEF SeenInv
      <3>2. Unseen(k)'
        BY <2>2, <2>3, <2>5, <3>1, UnseenKept
      <3> QED
        BY <2>5, <2>6, <3>2 DEF Told
    <2>7. CASE ~(LogActive(k) /\ pc[k] \notin PostCas)
      BY <1>1, <2>1, <2>2, <2>3, <2>4, <2>5, <2>7, ToldKept
    <2> QED
      BY <2>6, <2>7
  <1>5. \A k \in Thread : Told(k)'
    BY <1>4
  <1>6. ASSUME NEW m \in Thread, NEW k \in Thread,
               pc'[m] \in {"log", "cas"}, op'[m].saw.cid = k
        PROVE  op'[m].saw.era <= era'[m][k]
    BY <1>6 DEF SeenInv
  <1>7. ASSUME NEW k \in Thread PROVE slot'[k] # "vacant" => era'[k][k] > 0
    BY DEF SeenInv
  <1>8. ASSUME NEW k \in Thread, mon'.pc = "cas", mon'.saw.cid = k
        PROVE  mon'.saw.era <= era'[mon'.tgt][k]
    BY <1>8 DEF SeenInv
  <1> QED
    BY <1>5, <1>6, <1>7, <1>8, SeenParts

LEMMA CasInfoSeen ==
  ASSUME NEW i \in Thread, TypeInv, TypeInv', CountFits, SeenInv, CasInfo(i)
  PROVE  SeenInv'
  <1>1. /\ TypeOK /\ TypeOK' /\ slot[i] = "run" /\ pc[i] = "cas"
        /\ refInfo[op[i].refed] = op[i].saw
        /\ pc' = [pc EXCEPT ![i] = "store"] /\ op' = [op EXCEPT ![i].src = NULL]
        /\ UNCHANGED <<era, slot, mon>>
        /\ refInfo' = [refInfo EXCEPT ![op[i].refed] =
                         PackRefInfo(i, op[i].saw.cnt + Delta(i), era[i][i])]
    BY DEF TypeInv, CasInfo, Running
  <1>2. op[i].refed \in CXLObj
    BY <1>1 DEF TypeInv, OpShape, LinkLabel, PreCas
  <1> DEFINE w == [cid |-> i, cnt |-> op[i].saw.cnt + Delta(i), era |-> era[i][i]]
  <1>3. PackRefInfo(i, op[i].saw.cnt + Delta(i), era[i][i]) = w
    <2>1. op[i].saw.cnt + Delta(i) \in 0 .. CNT_LIMIT - 1
      BY <1>1 DEF CountFits
    <2>2. era[i][i] \in Nat
      BY <1>1 DEF TypeOK
    <2> QED
      BY <2>1, <2>2, PackExact
  <1>4. /\ op'[i].saw = op[i].saw /\ op'[i].refed = op[i].refed /\ op'[i].func = op[i].func
        /\ \A k \in Thread \ {i} : op'[k] = op[k]
    BY <1>1 DEF TypeOK, Op
  <1>5. pc'[i] = "store" /\ \A k \in Thread \ {i} : pc'[k] = pc[k]
    BY <1>1 DEF TypeOK
  <1>6. Told(i)'
    <2>1. refInfo'[op[i].refed] = w
      BY <1>1, <1>2, <1>3 DEF TypeOK
    <2>2. Seen(i)'
      BY <1>1, <1>4, <2>1 DEF Seen, Delta
    <2> QED
      BY <1>5, <2>2, LabelsApart DEF Told
  <1>7. ASSUME NEW k \in Thread \ {i}, op[k].refed = op[i].refed, Seen(k) PROVE RowSeen(k)
    <2> SUFFICES ASSUME op[i].saw.cid = k, op[i].saw.era = era[k][k] PROVE RowSeen(k)
      BY <1>1, <1>7 DEF Seen
    <2>1. era[k][k] <= era[i][k]
      BY <1>1 DEF SeenInv
    <2> QED
      BY <2>1 DEF RowSeen
  <1>8. refInfo' = [refInfo EXCEPT ![op[i].refed] = w] /\ w.cid = i
    BY <1>1, <1>3
  <1>9. pc'[i] \notin {"log", "cas"}
    BY <1>5
  <1> HIDE DEF w
  <1>10. PICK v : refInfo' = [refInfo EXCEPT ![op[i].refed] = v] /\ v.cid = i
    BY <1>8
  <1>11. TypeOK' /\ UNCHANGED <<era, slot, mon>>
    BY <1>1
  <1> HIDE DEF CasInfo
  <1> QED
    BY <1>2, <1>4, <1>5, <1>6, <1>7, <1>9, <1>10, <1>11, WordSeen

LEMMA StampObjectSeen ==
  ASSUME NEW i \in Thread, TypeInv, TypeInv', ClaimInv, SeenInv, StampObject(i)
  PROVE  SeenInv'
  <1>1. /\ TypeOK /\ TypeOK' /\ slot[i] = "run" /\ pc[i] = "stamp"
        /\ pc' = [pc EXCEPT ![i] = "idle"] /\ op' = [op EXCEPT ![i] = NoOp]
        /\ UNCHANGED <<era, slot, mon>>
        /\ refInfo' = [refInfo EXCEPT ![op[i].refed] = PackRefInfo(i, 1, era[i][i] - 1)]
    BY DEF TypeInv, StampObject, Return, Running
  <1>2. op[i].refed \in CXLObj /\ era[i][i] \in Nat /\ era[i][i] > 0
    BY <1>1 DEF TypeInv, OpShape, TypeOK
  <1> DEFINE w == [cid |-> i, cnt |-> 1, era |-> era[i][i] - 1]
  <1>3. PackRefInfo(i, 1, era[i][i] - 1) = w
    <2>1. 1 \in 0 .. CNT_LIMIT - 1 /\ era[i][i] - 1 \in Nat
      BY <1>2, SizeAssumption
    <2> QED
      BY <2>1, PackExact
  <1>4. op'[i] = NoOp /\ \A k \in Thread \ {i} : op'[k] = op[k] /\ pc'[k] = pc[k]
    BY <1>1 DEF TypeOK
  <1>5. pc'[i] = "idle" /\ op'[i].saw = ZeroInfo
    BY <1>1, <1>4, NoClient DEF TypeOK
  <1>6. refInfo' = [refInfo EXCEPT ![op[i].refed] = w] /\ w.cid = i
    BY <1>1, <1>3
  <1>7. Told(i)'
    <2>1. LogActive(i)
      BY <1>1, RunActive DEF TypeInv
    <2>2. Unseen(i)
      BY <1>1, <2>1, LabelsApart DEF SeenInv
    <2>3. \A o \in CXLObj : refInfo'[o].cid = i => refInfo'[o].era < era[i][i]
      <3>1. w.era < era[i][i]
        BY <1>2
      <3>2. refInfo'[op[i].refed] = w /\ \A o \in CXLObj : o # op[i].refed => refInfo'[o] = refInfo[o]
        BY <1>1, <1>2, <1>6 DEF TypeOK
      <3> HIDE DEF w
      <3> QED
        BY <2>2, <3>1, <3>2 DEF Unseen
    <2>4. \A m \in Thread : op'[m].saw = op[m].saw \/ op'[m].saw.cid # i
      BY <1>4, <1>5, NoClient
    <2>5. Unseen(i)'
      BY <1>1, <2>2, <2>3, <2>4 DEF Unseen
    <2> QED
      BY <1>5, <2>5, LabelsApart DEF Told
  <1>8. ASSUME NEW k \in Thread \ {i}, pc[k] \in PostCas, op[k].refed = op[i].refed, Seen(k)
        PROVE  RowSeen(k)
    <2>1. Claims(i) /\ ~Claims(k) /\ refInfo[op[k].refed].cnt = 0
      BY <1>1, <1>8 DEF Claims, ClaimInv, Unheld
    <2> QED
      BY <1>8, <2>1, UncountedSeen
  <1>9. pc'[i] \notin {"log", "cas"}
    BY <1>5
  <1> HIDE DEF w
  <1>10. PICK v : refInfo' = [refInfo EXCEPT ![op[i].refed] = v] /\ v.cid = i
    BY <1>6
  <1>11. TypeOK' /\ UNCHANGED <<era, slot, mon>>
    BY <1>1
  <1> QED
    BY <1>2, <1>4, <1>5, <1>7, <1>8, <1>9, <1>10, <1>11, WordSeen

LEMMA WipeObjectSeen ==
  ASSUME NEW i \in Thread, TypeInv, TypeInv', ClaimInv, SeenInv, WipeObject(i)
  PROVE  SeenInv'
  <1>1. /\ TypeOK /\ TypeOK' /\ slot[i] = "run" /\ pc[i] = "wipe"
        /\ pc' = [pc EXCEPT ![i] = "push"] /\ UNCHANGED <<era, slot, mon, op>>
        /\ refInfo' = [refInfo EXCEPT ![op[i].refed] = ZeroInfo]
    BY DEF TypeInv, WipeObject, Running
  <1>2. op[i].refed \in CXLObj /\ op[i].func = "UNLINK"
    BY <1>1 DEF TypeInv, OpShape, LinkLabel, FreeLabel
  <1>3. pc'[i] = "push" /\ \A k \in Thread \ {i} : pc'[k] = pc[k]
    BY <1>1 DEF TypeOK
  <1>4. Told(i)'
    <2>1. LogActive(i)
      BY <1>1, RunActive DEF TypeInv
    <2>2. Unseen(i)
      BY <1>1, <2>1, LabelsApart DEF SeenInv
    <2>3. \A o \in CXLObj : refInfo'[o] = refInfo[o] \/ refInfo'[o].cid # i
      BY <1>1, <1>2, NoClient DEF TypeOK
    <2>4. Unseen(i)'
      BY <1>1, <2>2, <2>3, UnseenKept
    <2> QED
      BY <1>3, <2>4, LabelsApart DEF Told
  <1>5. ASSUME NEW k \in Thread \ {i}, pc[k] \in PostCas, op[k].refed = op[i].refed, Seen(k)
        PROVE  RowSeen(k)
    <2>1. Claims(i)
      BY <1>1, <1>2 DEF Claims, ClaimInv
    <2>2. ~Claims(k) /\ refInfo[op[k].refed].cnt = 0
      BY <1>5, <2>1 DEF ClaimInv, Unheld
    <2> QED
      BY <1>5, <2>2, UncountedSeen
  <1>6. pc'[i] \notin {"log", "cas"}
    BY <1>3
  <1> QED
    BY <1>1, <1>2, <1>3, <1>4, <1>5, <1>6, WordSeen

-----------------------------------------------------------------------------
(* The same for the steps of the monitor.                                  *)

LEMMA CrashSeen ==
  ASSUME NEW i \in Thread, TypeInv, SeenInv, Crash(i)
  PROVE  SeenInv'
  <1>1. TypeOK /\ UNCHANGED <<era, refInfo, pc, op, mon>>
    BY DEF TypeInv, Crash
  <1>2. \A k \in Thread : \/ slot'[k] = slot[k]
                          \/ slot[k] = "run" /\ slot'[k] = "dead"
    BY <1>1 DEF TypeOK, Crash
  <1>3. \A k \in Thread : /\ slot'[k] = "vacant" <=> slot[k] = "vacant"
                          /\ LogActive(k)' => LogActive(k)
    BY <1>1, <1>2 DEF LogActive, Redone
  <1> QED
    BY <1>1, <1>3, QuietSeen

LEMMA QuietMonSeen ==
  ASSUME TypeOK, SeenInv, UNCHANGED <<era, refInfo, slot, pc, op>>,
         mon.tgt = mon'.tgt \/ mon.pc = "watch",
         mon.pc \in {"gc", "read", "note", "cas", "store", "drop"} =>
           mon'.pc \in {"gc", "read", "note", "cas", "store", "drop"},
         \/ mon'.saw = mon.saw
         \/ mon'.saw = ZeroInfo
         \/ mon'.saw.era = 0
         \/ \E o \in CXLObj : mon'.saw = refInfo[o],
         mon'.pc # "cas"
  PROVE  SeenInv'
  <1>1. \A k \in Thread : LogActive(k)' => LogActive(k)
    BY DEF LogActive, Redone
  <1> QED
    BY <1>1, QuietSeen

LEMMA ScanSeen ==
  ASSUME TypeInv, EraInv, SeenInv,
         \/ \E i \in Thread : Detect(i)
         \/ LoadLcid \/ LoadLenum \/ ScanRow \/ ScanEnd \/ Redo
         \/ \E l \in RootRef : Visit(l)
         \/ MonRead \/ MonRetry \/ MonDrop
  PROVE  SeenInv'
  <1>1. TypeOK /\ UNCHANGED <<era, refInfo, slot, pc, op>> /\ mon \in MonState
    BY DEF TypeInv, TypeOK, clientVars, Detect, LoadLcid, LoadLenum, ScanRow, ScanEnd, Redo,
           Visit, MonRead, MonRetry, MonDrop
  <1>2. ASSUME NEW i \in Thread, Detect(i) PROVE SeenInv'
    <2>1. mon.pc = "watch" /\ mon'.saw = ZeroInfo /\ mon'.pc \in {"gc", "lcid"}
      BY <1>2 DEF Detect, Mon, NoMon
    <2> QED
      BY <1>1, <2>1, QuietMonSeen
  <1>3. CASE LoadLcid
    <2>1. mon.saw = ZeroInfo /\ mon.pc = "lcid"
      BY <1>3 DEF EraInv, LoadLcid, Mon
    <2>2. mon'.saw.era = 0 /\ mon'.tgt = mon.tgt /\ mon'.pc = "lenum"
      BY <1>1, <1>3, <2>1 DEF LoadLcid, MonState, Info, ZeroInfo
    <2> QED
      BY <1>1, <2>1, <2>2, QuietMonSeen
  <1>4. CASE LoadLenum \/ ScanRow \/ ScanEnd \/ Redo
    <2>1. /\ mon.pc \in {"lenum", "scan", "redo"}
          /\ mon'.saw = mon.saw /\ mon'.tgt = mon.tgt /\ mon'.pc \in {"redo", "scan", "gc"}
      BY <1>1, <1>4 DEF LoadLenum, ScanRow, ScanEnd, Redo, MonState, Mon
    <2> QED
      BY <1>1, <2>1, QuietMonSeen
  <1>5. ASSUME NEW l \in RootRef, Visit(l) PROVE SeenInv'
    <2>1. mon'.saw = mon.saw /\ mon'.tgt = mon.tgt /\ mon'.pc \in {"drop", "read"}
      BY <1>1, <1>5 DEF Visit, MonState
    <2> QED
      BY <1>1, <2>1, QuietMonSeen
  <1>6. CASE MonRead
    <2>1. mon'.saw = refInfo[pptr[mon.ref]] /\ mon'.tgt = mon.tgt /\ mon'.pc = "note"
      BY <1>1, <1>6 DEF MonRead, MonState
    <2>2. pptr[mon.ref] \in CXLObj
      BY <1>6 DEF TypeInv, MonShape, UnlinkLabel, MonRead, Mon
    <2> QED
      BY <1>1, <2>1, <2>2, QuietMonSeen
  <1>7. CASE MonRetry \/ MonDrop
    <2>1. mon'.saw = mon.saw /\ mon'.tgt = mon.tgt /\ mon'.pc \in {"gc", "read"}
      BY <1>1, <1>7 DEF MonRetry, MonDrop, MonState
    <2> QED
      BY <1>1, <2>1, QuietMonSeen
  <1> QED
    BY <1>2, <1>3, <1>4, <1>5, <1>6, <1>7

LEMMA FinishSeen ==
  ASSUME TypeInv, SeenInv, Finish
  PROVE  SeenInv'
  <1>1. /\ TypeOK /\ mon.tgt \in Thread /\ slot[mon.tgt] = "dead" /\ mon.pc = "gc"
        /\ UNCHANGED <<era, refInfo>> /\ mon' = NoMon
        /\ slot' = [slot EXCEPT ![mon.tgt] = "gone"]
        /\ pc' = [pc EXCEPT ![mon.tgt] = "idle"] /\ op' = [op EXCEPT ![mon.tgt] = NoOp]
    BY DEF TypeInv, MonShape, Finish, Mon, Return
  <1>2. \A k \in Thread \ {mon.tgt} : slot'[k] = slot[k] /\ pc'[k] = pc[k] /\ op'[k] = op[k]
    BY <1>1 DEF TypeOK
  <1>3. slot'[mon.tgt] = "gone" /\ pc'[mon.tgt] = "idle" /\ op'[mon.tgt].saw = ZeroInfo
    BY <1>1, NoClient DEF TypeOK
  <1>4. \A k \in Thread : Told(k)'
    <2>1. ASSUME NEW k \in Thread \ {mon.tgt} PROVE Told(k)'
      <3>1. LogActive(k)' => LogActive(k)
        BY <1>1, <1>2 DEF LogActive, Redone
      <3>2. mon'.saw.cid # k /\ \A m \in Thread : op'[m].saw = op[m].saw \/ op'[m].saw.cid # k
        BY <1>1, <1>2, <1>3, NoClient
      <3>3. CASE LogActive(k) /\ pc[k] \in PostCas
        <4>1. Seen(k)
          BY <3>3 DEF SeenInv
        <4>2. \A i, j \in Thread : era[i][j] \in Nat /\ era'[i][j] = era[i][j]
          BY <1>1 DEF TypeOK
        <4>3. Seen(k)'
          BY <1>1, <1>2, <4>1, <4>2, SeenKept
        <4> QED
          BY <1>2, <3>3, <4>3 DEF Told
      <3>4. CASE LogActive(k) /\ pc[k] \notin PostCas
        <4>1. Unseen(k)
          BY <3>4 DEF SeenInv
        <4>2. Unseen(k)'
          BY <1>1, <3>2, <4>1, UnseenKept
        <4> QED
          BY <1>2, <3>4, <4>2 DEF Told
      <3> QED
        BY <3>1, <3>3, <3>4 DEF Told
    <2>2. \A k \in Thread : k = mon.tgt => Told(k)'
      <3> SUFFICES ASSUME NEW k \in Thread, k = mon.tgt PROVE Told(k)'
        OBVIOUS
      <3>1. slot'[k] = "gone"
        BY <1>3
      <3> QED
        BY <3>1 DEF Told, LogActive
    <2> QED
      BY <2>1, <2>2
  <1>5. \A m, k \in Thread : pc'[m] \in {"log", "cas"} /\ op'[m].saw.cid = k =>
           op'[m].saw.era <= era'[m][k]
    BY <1>1, <1>2, <1>3 DEF SeenInv
  <1>6. \A k \in Thread : slot'[k] # "vacant" => era'[k][k] > 0
    BY <1>1, <1>2 DEF SeenInv
  <1>7. mon'.pc # "cas"
    BY <1>1 DEF NoMon
  <1> QED
    BY <1>4, <1>5, <1>6, <1>7, SeenParts

LEMMA MonNoteSeen ==
  ASSUME TypeInv, TypeInv', EraInv, SeenInv, MonNote
  PROVE  SeenInv'
  <1> DEFINE i == mon.tgt
  <1>1. /\ TypeOK /\ TypeOK' /\ UNCHANGED <<refInfo, slot, op, pc>>
        /\ i \in Thread /\ mon.pc = "note" /\ mon' = [mon EXCEPT !.pc = "cas"]
        /\ era' = Noted(i, mon.saw) /\ mon.saw \in Info /\ mon \in MonState
    BY DEF TypeInv, TypeOK, MonState, MonShape, MonNote, Mon
  <1>a. mon'.pc = "cas" /\ mon'.tgt = i /\ mon'.saw = mon.saw
    BY <1>1 DEF MonState
  <1>2. \A k \in Thread : mon.saw.cid = k => mon.saw.era <= era[k][k]
    BY DEF EraInv, Reached
  <1>3. /\ \A j, k \in Thread : era[j][k] \in Nat /\ era'[j][k] \in Nat
        /\ \A j, k \in Thread : era[j][k] <= era'[j][k]
    BY <1>1, NotedType DEF TypeOK
  <1>4. \A j, k \in Thread : \/ era'[j][k] = era[j][k]
                             \/ j = i /\ k = mon.saw.cid /\ era'[j][k] = mon.saw.era
                                /\ mon.saw.era > era[j][k]
    BY <1>1 DEF Noted, TypeOK
  <1>5. \A k \in Thread : mon.saw.cid = k => mon.saw.era <= era'[i][k]
    BY <1>1, <1>3 DEF Noted, TypeOK, Info
  <1>6. mon.saw.era \in Nat
    BY <1>1 DEF Info
  <1>7. \A k \in Thread : era'[k][k] = era[k][k]
    BY <1>2, <1>3, <1>4, <1>6
  <1>8. ASSUME NEW k \in Thread PROVE Told(k)'
    <2>1. LogActive(k)' => LogActive(k)
      BY <1>1, <1>a DEF LogActive, Redone
    <2>2. \A j \in Thread \ {k} : Unseen(k) =>
              era'[j][k] = era[j][k] \/ era'[j][k] < era[k][k]
      BY <1>4 DEF Unseen
    <2> QED
      BY <1>1, <1>a, <1>3, <1>7, <2>1, <2>2, ToldKept
  <1>9. \A m, k \in Thread : pc'[m] \in {"log", "cas"} /\ op'[m].saw.cid = k =>
           op'[m].saw.era <= era'[m][k]
    <2> SUFFICES ASSUME NEW m \in Thread, NEW k \in Thread,
                        pc'[m] \in {"log", "cas"}, op'[m].saw.cid = k
                 PROVE  op'[m].saw.era <= era'[m][k]
      OBVIOUS
    <2>1. op[m].saw.era <= era[m][k] /\ op[m].saw.era \in Nat
      BY <1>1 DEF SeenInv, TypeOK, Op, Info
    <2> QED
      BY <1>1, <1>3, <2>1
  <1>10. \A k \in Thread : slot'[k] # "vacant" => era'[k][k] > 0
    BY <1>1, <1>7 DEF SeenInv
  <1>11. \A k \in Thread : mon'.pc = "cas" /\ mon'.saw.cid = k =>
           mon'.saw.era <= era'[mon'.tgt][k]
    BY <1>a, <1>5
  <1> QED
    BY <1>8, <1>9, <1>10, <1>11, SeenParts

LEMMA MonCasSeen ==
  ASSUME TypeInv, TypeInv', CountFits, SeenInv, MonCas
  PROVE  SeenInv'
  <1> DEFINE x == pptr[mon.ref]
             w == [cid |-> mon.tgt, cnt |-> mon.saw.cnt - 1, era |-> era[mon.tgt][mon.tgt]]
  <1>1. /\ TypeOK /\ TypeOK' /\ mon.tgt \in Thread /\ mon.pc = "cas" /\ mon \in MonState
        /\ refInfo[x] = mon.saw /\ x \in CXLObj
        /\ UNCHANGED <<era, slot, pc, op>> /\ mon' = [mon EXCEPT !.pc = "store"]
        /\ refInfo' = [refInfo EXCEPT ![x] =
                         PackRefInfo(mon.tgt, mon.saw.cnt - 1, era[mon.tgt][mon.tgt])]
    BY DEF TypeInv, TypeOK, MonShape, UnlinkLabel, MonCas, Mon
  <1>2. PackRefInfo(mon.tgt, mon.saw.cnt - 1, era[mon.tgt][mon.tgt]) = w
    <2>1. mon.saw.cnt - 1 \in 0 .. CNT_LIMIT - 1
      BY <1>1 DEF CountFits
    <2>2. era[mon.tgt][mon.tgt] \in Nat
      BY <1>1 DEF TypeOK
    <2> QED
      BY <1>1, <2>1, <2>2, PackExact
  <1>3. mon'.pc = "store" /\ mon'.tgt = mon.tgt /\ mon'.saw = mon.saw
    BY <1>1 DEF MonState
  <1>4. refInfo'[x] = w /\ \A o \in CXLObj : o # x => refInfo'[o] = refInfo[o]
    BY <1>1, <1>2 DEF TypeOK
  <1>5. w.cid = mon.tgt
    OBVIOUS
  <1> HIDE DEF w
  <1>6. ASSUME NEW k \in Thread PROVE Told(k)'
    <2> SUFFICES ASSUME LogActive(k) PROVE Told(k)'
      BY <1>1, <1>3 DEF Told, LogActive, Redone
    <2>1. k # mon.tgt
      BY <1>1 DEF LogActive, Redone
    <2>2. LogActive(k)' => LogActive(k)
      OBVIOUS
    <2>3. \A j, m \in Thread : era[j][m] \in Nat /\ era'[j][m] = era[j][m] /\ era[j][m] <= era'[j][m]
      BY <1>1 DEF TypeOK
    <2>4. \A o \in CXLObj : refInfo'[o] = refInfo[o] \/ refInfo'[o].cid # k
      BY <1>4, <1>5, <2>1
    <2>5. CASE pc[k] \in PostCas
      <3>1. op[k].refed \in CXLObj /\ Seen(k)
        BY <2>5 DEF TypeInv, OpShape, LinkLabel, SeenInv
      <3>2. \/ refInfo'[op[k].refed] = refInfo[op[k].refed]
            \/ \E j \in Thread \ {k} : era[k][k] <= era'[j][k]
        <4>1. CASE op[k].refed # x
          BY <1>4, <3>1, <4>1
        <4>2. CASE op[k].refed = x /\ RowSeen(k)
          BY <2>3, <4>2 DEF RowSeen
        <4>3. CASE op[k].refed = x /\ ~RowSeen(k)
          <5>1. mon.saw.cid = k /\ mon.saw.era = era[k][k]
            BY <1>1, <3>1, <4>3 DEF Seen
          <5>2. era[k][k] <= era[mon.tgt][k]
            BY <1>1, <5>1 DEF SeenInv
          <5> QED
            BY <1>1, <2>1, <2>3, <5>2
        <4> QED
          BY <4>1, <4>2, <4>3
      <3> QED
        BY <1>1, <1>3, <2>2, <2>3, <2>4, <3>2, ToldKept
    <2>6. CASE pc[k] \notin PostCas
      <3>1. Unseen(k)
        BY <2>6 DEF SeenInv
      <3>2. Unseen(k)'
        BY <1>1, <1>3, <2>3, <2>4, <3>1, UnseenKept
      <3> QED
        BY <1>1, <2>6, <3>2 DEF Told
    <2> QED
      BY <2>5, <2>6
  <1>7. \A m, k \in Thread : pc'[m] \in {"log", "cas"} /\ op'[m].saw.cid = k =>
           op'[m].saw.era <= era'[m][k]
    BY <1>1 DEF SeenInv
  <1>8. \A k \in Thread : slot'[k] # "vacant" => era'[k][k] > 0
    BY <1>1 DEF SeenInv
  <1>9. mon'.pc # "cas"
    BY <1>3
  <1> QED
    BY <1>6, <1>7, <1>8, <1>9, SeenParts

LEMMA MonStoreSeen ==
  ASSUME TypeInv, TypeInv', EraInv, ClaimInv, SeenInv, MonStore
  PROVE  SeenInv'
  <1> DEFINE x == pptr[mon.ref]
             i == mon.tgt
  <1>1. /\ TypeOK /\ TypeOK' /\ i \in Thread /\ mon.pc = "store" /\ mon \in MonState
        /\ x \in CXLObj
        /\ UNCHANGED <<slot, pc, op>> /\ mon' = [mon EXCEPT !.pc = "drop"]
        /\ refInfo' = IF mon.saw.cnt = 1 THEN [refInfo EXCEPT ![x] = ZeroInfo] ELSE refInfo
        /\ era' = [era EXCEPT ![i][i] = @ + 1]
    BY DEF TypeInv, TypeOK, MonShape, UnlinkLabel, MonStore, Mon
  <1>2. /\ era'[i][i] = era[i][i] + 1
        /\ \A k \in Thread \ {i} : era'[k][k] = era[k][k]
        /\ \A j, k \in Thread : j # k => era'[j][k] = era[j][k]
        /\ \A j, k \in Thread : era[j][k] \in Nat /\ era[j][k] <= era'[j][k]
    BY <1>1, UpFacts
  <1>3. mon'.pc = "drop" /\ mon'.tgt = mon.tgt /\ mon'.saw = mon.saw
    BY <1>1 DEF MonState
  <1>4. \A o \in CXLObj : \/ refInfo'[o] = refInfo[o]
                          \/ o = x /\ mon.saw.cnt = 1 /\ refInfo'[o] = ZeroInfo
    BY <1>1 DEF TypeOK
  <1>5. ASSUME NEW k \in Thread PROVE Told(k)'
    <2> SUFFICES ASSUME LogActive(k) PROVE Told(k)'
      BY <1>1, <1>3 DEF Told, LogActive, Redone
    <2>1. k # i
      BY <1>1 DEF LogActive, Redone
    <2>2. LogActive(k)' => LogActive(k)
      OBVIOUS
    <2>3. /\ era'[k][k] = era[k][k]
          /\ \A j \in Thread \ {k} : era'[j][k] = era[j][k] /\ era[j][k] <= era'[j][k]
      BY <1>2, <2>1
    <2>4. \A o \in CXLObj : refInfo'[o] = refInfo[o] \/ refInfo'[o].cid # k
      BY <1>4, NoClient
    <2>5. CASE pc[k] \in PostCas
      <3>1. op[k].refed \in CXLObj /\ Seen(k)
        BY <2>5 DEF TypeInv, OpShape, LinkLabel, SeenInv
      <3>2. \/ refInfo'[op[k].refed] = refInfo[op[k].refed]
            \/ \E j \in Thread \ {k} : era[k][k] <= era'[j][k]
        <4> SUFFICES ASSUME op[k].refed = x, mon.saw.cnt = 1
                     PROVE  \E j \in Thread \ {k} : era[k][k] <= era'[j][k]
          BY <1>4, <3>1
        <4>1. ~Claims(k) /\ refInfo[op[k].refed].cnt = 0
          BY <1>1 DEF ClaimInv, MonClaims, Unheld
        <4>2. RowSeen(k)
          BY <2>5, <3>1, <4>1, UncountedSeen
        <4> QED
          BY <2>3, <4>2 DEF RowSeen
      <3> QED
        BY <1>1, <1>3, <2>2, <2>3, <2>4, <3>2, ToldKept
    <2>6. CASE pc[k] \notin PostCas
      <3>1. Unseen(k)
        BY <2>6 DEF SeenInv
      <3>2. Unseen(k)'
        BY <1>1, <1>3, <2>3, <2>4, <3>1, UnseenKept
      <3> QED
        BY <1>1, <2>6, <3>2 DEF Told
    <2> QED
      BY <2>5, <2>6
  <1>6. \A m, k \in Thread : pc'[m] \in {"log", "cas"} /\ op'[m].saw.cid = k =>
           op'[m].saw.era <= era'[m][k]
    <2> SUFFICES ASSUME NEW m \in Thread, NEW k \in Thread,
                        pc'[m] \in {"log", "cas"}, op'[m].saw.cid = k
                 PROVE  op'[m].saw.era <= era'[m][k]
      OBVIOUS
    <2>1. op[m].saw.era <= era[m][k] /\ op[m].saw.era \in Nat
      BY <1>1 DEF SeenInv, TypeOK, Op, Info
    <2>2. era'[m][k] \in Nat
      BY <1>1 DEF TypeOK
    <2> QED
      BY <1>1, <1>2, <2>1, <2>2
  <1>7. \A k \in Thread : slot'[k] # "vacant" => era'[k][k] > 0
    BY <1>1, <1>2 DEF SeenInv
  <1>8. mon'.pc # "cas"
    BY <1>3
  <1> QED
    BY <1>5, <1>6, <1>7, <1>8, SeenParts

LEMMA NextSeen ==
  ASSUME TypeInv, TypeInv', EraInv, CountFits, ClaimInv, SeenInv, [Next]_vars
  PROVE  SeenInv'
  <1>1. ASSUME NEW i \in Thread, Step(i) PROVE SeenInv'
    BY <1>1, QuietStepSeen, NoteEraSeen, EraStepSeen, CasInfoSeen, StampObjectSeen,
       WipeObjectSeen DEF Step, TypeInv
  <1>2. ASSUME NEW i \in Thread, ThreadInit(i) PROVE SeenInv'
    BY <1>2, EraStepSeen DEF TypeInv
  <1>3. CASE Monitor
    BY <1>3, ScanSeen, MonNoteSeen, MonCasSeen, MonStoreSeen, FinishSeen DEF Monitor
  <1>4. CASE UNCHANGED vars
    <2>1. /\ \A k \in Thread : LogActive(k)' => LogActive(k)
          /\ UNCHANGED <<era, refInfo, slot, pc, op, mon>>
      BY <1>4 DEF vars, LogActive, Redone
    <2> QED
      BY <2>1, QuietSeen DEF TypeInv
  <1> QED
    BY <1>1, <1>2, <1>3, <1>4, StartSeen, CrashSeen DEF Next

LEMMA InitSeen == Init => SeenInv
  <1> SUFFICES ASSUME Init PROVE SeenInv
    OBVIOUS
  <1>1. \A i \in Thread : slot[i] = "vacant" /\ pc[i] = "idle" /\ ~LogActive(i)
    BY DEF Init, LogActive
  <1>2. mon.pc = "watch"
    BY DEF Init, NoMon
  <1> QED
    BY <1>1, <1>2 DEF SeenInv

-----------------------------------------------------------------------------
(* What the monitor's reading of the word and of the era array amounts to. *)

(* A record of the current era is that of the operation in progress.       *)
LEMMA CurrentRecord ==
  ASSUME TypeInv, RedoInv, SeenInv, NEW k \in Thread, LogActive(k), NEW n \in Lines,
         Current(k, redo[k][n])
  PROVE  /\ redo[k][n].refed = op[k].refed /\ redo[k][n].cur_era = era[k][k]
         /\ op[k].refed \in CXLObj /\ pc[k] \in PreCas \cup PostCas
         /\ era[k][k] > 0 /\ era[k][k] \in Nat
         /\ IF pc[k] \in PostCas THEN Seen(k) ELSE Unseen(k)
  <1>1. redo[k][n] = Record(k, era[k][k]) /\ pc[k] \in PreCas \cup PostCas
    BY DEF RedoInv, LogInv, LogLines, Current, Kept
  <1>2. op[k].refed \in CXLObj
    BY <1>1 DEF TypeInv, OpShape, LinkLabel
  <1>3. era[k][k] > 0 /\ era[k][k] \in Nat
    BY DEF SeenInv, LogActive, TypeInv, TypeOK
  <1>4. IF pc[k] \in PostCas THEN Seen(k) ELSE Unseen(k)
    BY DEF SeenInv
  <1> QED
    BY <1>1, <1>2, <1>3, <1>4 DEF Record

(* What the redo finds when it reads the log of its target. *)
LEMMA TargetRecord ==
  ASSUME TypeInv, RedoInv, SeenInv, VerdictInv, mon.pc \in RedoLabel
  PROVE  \E k \in Thread :
           /\ mon.tgt = k /\ LogActive(k) /\ slot[k] = "dead"
           /\ mon.log.refed \in CXLObj
           /\ Current(k, mon.log) =>
                /\ mon.log.refed = op[k].refed /\ mon.log.cur_era = era[k][k]
                /\ era[k][k] > 0 /\ era[k][k] \in Nat
                /\ IF pc[k] \in PostCas THEN Seen(k) ELSE Unseen(k)
  <1>1. PICK k \in Thread : mon.tgt = k
    BY DEF TypeInv, MonShape, RedoLabel
  <1>2. slot[k] = "dead" /\ LogActive(k)
    BY <1>1 DEF TypeInv, MonShape, RedoLabel, LogActive, Redone
  <1>3. PICK n \in Lines : mon.log = redo[k][n]
    BY <1>1 DEF VerdictInv
  <1>4. mon.log.refed \in CXLObj
    BY DEF TypeInv, TypeOK, MonState, MonShape, Log
  <1>5. ASSUME Current(k, mon.log)
        PROVE  /\ mon.log.refed = op[k].refed /\ mon.log.cur_era = era[k][k]
               /\ era[k][k] > 0 /\ era[k][k] \in Nat
               /\ IF pc[k] \in PostCas THEN Seen(k) ELSE Unseen(k)
    <2>1. Current(k, redo[k][n])
      BY <1>3, <1>5 DEF Current
    <2> QED
      BY <1>2, <1>3, <2>1, CurrentRecord
  <1> QED
    BY <1>1, <1>2, <1>4, <1>5

(* A step that leaves the monitor, its target's slot and the evidence of   *)
(* the target's operation alone.                                           *)
LEMMA VerdictKept ==
  ASSUME TypeOK, TypeOK', VerdictInv, mon' = mon, NEW k \in Thread, mon.tgt = k,
         mon.pc \in RedoLabel,
         redo'[k] = redo[k], pc'[k] = pc[k], era'[k][k] = era[k][k],
         \A j \in Thread : era[j][k] <= era'[j][k],
         Quiescent /\ mon.pc = "lenum" => refInfo' = refInfo
  PROVE  VerdictInv'
  <1>1. /\ era[k][k] \in Nat /\ mon.max \in Nat
        /\ \A j \in Thread : era[j][k] \in Nat /\ era'[j][k] \in Nat
    BY DEF TypeOK, MonState
  <1>2. mon'.pc = mon.pc /\ mon'.tgt = k /\ mon'.log = mon.log /\ mon'.saw = mon.saw
        /\ mon'.max = mon.max /\ mon'.row = mon.row /\ mon'.need = mon.need
    OBVIOUS
  <1>3. \A n \in Lines : Latest(k, n) => Latest(k, n)'
    BY DEF Latest
  <1>4. Current(k, mon.log)' = Current(k, mon.log)
    BY <1>2 DEF Current
  <1>5. RowSeen(k) => RowSeen(k)'
    <2> SUFFICES ASSUME RowSeen(k) PROVE RowSeen(k)'
      OBVIOUS
    <2>1. PICK j \in Thread \ {k} : era[k][k] <= era[j][k]
      BY DEF RowSeen
    <2>2. era[k][k] <= era'[j][k]
      BY <1>1, <2>1
    <2> QED
      BY <2>2 DEF RowSeen
  <1>6. \A j \in Thread \ {k} : era[k][k] <= era[j][k] => era'[k][k] <= era'[j][k]
    BY <1>1
  <1>7. \E n \in Lines : Latest(mon.tgt, n)' /\ mon'.log = redo'[mon'.tgt][n]
    BY <1>2, <1>3 DEF VerdictInv, Latest
  <1> QED
    BY <1>2, <1>4, <1>5, <1>6, <1>7 DEF VerdictInv, VerdictExact, Current, RowSeen, Latest

(* What a step of client i leaves alone. *)
LEMMA ClientStep ==
  ASSUME TypeInv, EraInv, NEW i \in Thread,
         ThreadInit(i) \/ Crash(i) \/ Start(i) \/ Step(i)
  PROVE  /\ mon' = mon /\ slot[i] \in {"vacant", "run"}
         /\ \A k \in Thread \ {i} :
              /\ redo'[k] = redo[k] /\ pc'[k] = pc[k] /\ op'[k] = op[k]
              /\ slot'[k] = slot[k] /\ era'[k][k] = era[k][k]
         /\ \A j, k \in Thread : era[j][k] <= era'[j][k]
  <1>1. TypeOK /\ \A j, k \in Thread : era[j][k] \in Nat
    BY DEF TypeInv, TypeOK
  <1> DEFINE Rest == \A k \in Thread \ {i} :
               /\ redo'[k] = redo[k] /\ pc'[k] = pc[k] /\ op'[k] = op[k] /\ slot'[k] = slot[k]
  <1>2. mon' = mon /\ slot[i] \in {"vacant", "run"}
    BY DEF ThreadInit, Crash, Start, CxlMalloc, GetRef, Drop, CanStart, Step, SlowPath,
       ClearRedo, Collect, BlockToTbr, LinkBlockToTbr, TakeBlock, StampObject, ReadInfo,
       NoteEra, WriteLog, CasInfo, CasRetry, StoreRef, BumpEra, WipeObject, PushObject,
       Release, Running
  <1>3. CASE ThreadInit(i) \/ Crash(i)
    <2>1. Rest
      BY <1>1, <1>3 DEF ThreadInit, Crash, TypeOK
    <2>2. era' = era \/ era' = [era EXCEPT ![i][i] = @ + 1]
      BY <1>3 DEF ThreadInit, Crash
    <2>3. /\ \A k \in Thread \ {i} : era'[k][k] = era[k][k]
          /\ \A j, k \in Thread : era[j][k] <= era'[j][k]
      <3>1. CASE era' = era
        BY <1>1, <3>1
      <3>2. CASE era' = [era EXCEPT ![i][i] = @ + 1]
        BY <1>1, <3>2 DEF TypeOK
      <3> QED
        BY <2>2, <3>1, <3>2
    <2> QED
      BY <1>2, <2>1, <2>3
  <1>4. ASSUME Rest, era' = era
        PROVE  /\ \A k \in Thread \ {i} :
                    /\ redo'[k] = redo[k] /\ pc'[k] = pc[k] /\ op'[k] = op[k]
                    /\ slot'[k] = slot[k] /\ era'[k][k] = era[k][k]
               /\ \A j, k \in Thread : era[j][k] <= era'[j][k]
    BY <1>1, <1>4
  <1>5. Start(i) => Rest /\ era' = era
    <2>1. CxlMalloc(i) => Rest /\ era' = era
      BY <1>1 DEF CxlMalloc, TypeOK
    <2>2. \A l \in RootRef : GetRef(i, l) => Rest /\ era' = era
      BY <1>1 DEF GetRef, TypeOK
    <2>3. \A l \in RootRef : Drop(i, l) => Rest /\ era' = era
      BY <1>1 DEF Drop, TypeOK
    <2> QED
      BY <2>1, <2>2, <2>3 DEF Start
  <1>6. /\ SlowPath(i) => Rest /\ era' = era
        /\ ClearRedo(i) => Rest /\ era' = era
        /\ Collect(i) => Rest /\ era' = era
        /\ BlockToTbr(i) => Rest /\ era' = era
        /\ LinkBlockToTbr(i) => Rest /\ era' = era
    <2>1. SlowPath(i) => Rest /\ era' = era
      BY <1>1 DEF SlowPath, TypeOK
    <2>2. ClearRedo(i) => Rest /\ era' = era
      BY <1>1 DEF ClearRedo, TypeOK
    <2>3. Collect(i) => Rest /\ era' = era
      BY <1>1 DEF Collect, TypeOK
    <2>4. BlockToTbr(i) => Rest /\ era' = era
      BY <1>1 DEF BlockToTbr, TypeOK
    <2>5. LinkBlockToTbr(i) => Rest /\ era' = era
      BY <1>1 DEF LinkBlockToTbr, TypeOK
    <2> QED
      BY <2>1, <2>2, <2>3, <2>4, <2>5
  <1>7. /\ StampObject(i) => Rest /\ era' = era
        /\ ReadInfo(i) => Rest /\ era' = era
        /\ WriteLog(i) => Rest /\ era' = era
        /\ CasInfo(i) => Rest /\ era' = era
        /\ CasRetry(i) => Rest /\ era' = era
        /\ StoreRef(i) => Rest /\ era' = era
        /\ WipeObject(i) => Rest /\ era' = era
        /\ PushObject(i) => Rest /\ era' = era
        /\ Release(i) => Rest /\ era' = era
    <2>1. StampObject(i) => Rest /\ era' = era
      BY <1>1 DEF StampObject, Return, TypeOK
    <2>2. ReadInfo(i) => Rest /\ era' = era
      BY <1>1 DEF ReadInfo, TypeOK
    <2>3. WriteLog(i) => Rest /\ era' = era
      BY <1>1 DEF WriteLog, TypeOK
    <2>4. CasInfo(i) => Rest /\ era' = era
      BY <1>1 DEF CasInfo, TypeOK
    <2>5. CasRetry(i) => Rest /\ era' = era
      BY <1>1 DEF CasRetry, TypeOK
    <2>6. StoreRef(i) => Rest /\ era' = era
      BY <1>1 DEF StoreRef, TypeOK
    <2>7. WipeObject(i) => Rest /\ era' = era
      BY <1>1 DEF WipeObject, TypeOK
    <2>8. PushObject(i) => Rest /\ era' = era
      BY <1>1 DEF PushObject, TypeOK
    <2>9. Release(i) => Rest /\ era' = era
      BY <1>1 DEF Release, Return, TypeOK
    <2> QED
      BY <2>1, <2>2, <2>3, <2>4, <2>5, <2>6, <2>7, <2>8, <2>9
  <1>8. CASE TakeBlock(i) \/ BumpEra(i)
    <2>1. Rest
      BY <1>1, <1>8 DEF TakeBlock, BumpEra, Return, TypeOK
    <2>2. era' = [era EXCEPT ![i][i] = @ + 1]
      BY <1>8 DEF TakeBlock, BumpEra
    <2>3. /\ \A k \in Thread \ {i} : era'[k][k] = era[k][k]
          /\ \A j, k \in Thread : era[j][k] <= era'[j][k]
      BY <1>1, <2>2 DEF TypeOK
    <2> QED
      BY <1>2, <2>1, <2>3
  <1>9. CASE NoteEra(i)
    <2>1. Rest /\ era' = Noted(i, op[i].saw)
      BY <1>1, <1>9 DEF NoteEra, TypeOK
    <2>2. op[i].saw \in Info /\ Reached(op[i].saw)
      BY <1>1 DEF TypeOK, Op, EraInv
    <2>3. \A k \in Thread : era'[k][k] = era[k][k]
      BY <1>1, <2>1, <2>2, NotedEras
    <2>4. \A j, k \in Thread : era[j][k] <= era'[j][k]
      BY <1>1, <2>1, <2>2, NotedType DEF TypeOK
    <2> QED
      BY <1>2, <2>1, <2>3, <2>4
  <1> QED
    BY <1>2, <1>3, <1>4, <1>5, <1>6, <1>7, <1>8, <1>9 DEF Step

LEMMA ClientVerdict ==
  ASSUME TypeInv, TypeInv', EraInv, MonHold, VerdictInv, NEW i \in Thread,
         ThreadInit(i) \/ Crash(i) \/ Start(i) \/ Step(i)
  PROVE  VerdictInv'
  <1>1. mon' = mon /\ TypeOK /\ TypeOK'
    BY ClientStep DEF TypeInv
  <1>2. CASE mon.pc \notin RedoLabel
    BY <1>1, <1>2 DEF VerdictInv
  <1>3. CASE mon.pc \in RedoLabel
    <2>1. PICK k \in Thread : mon.tgt = k /\ slot[k] = "dead"
      BY <1>3 DEF TypeInv, MonShape, RedoLabel
    <2>2. k # i
      BY <2>1, ClientStep
    <2>3. /\ redo'[k] = redo[k] /\ pc'[k] = pc[k] /\ era'[k][k] = era[k][k]
          /\ \A j \in Thread : era[j][k] <= era'[j][k]
      BY <2>2, ClientStep
    <2>4. Quiescent /\ mon.pc = "lenum" => refInfo' = refInfo
      <3>1. Quiescent => \A m \in Thread : slot[m] # "run"
        BY <1>3 DEF MonHold, RedoLabel
      <3>2. ThreadInit(i) \/ Crash(i) => refInfo' = refInfo
        BY DEF ThreadInit, Crash
      <3>3. Start(i) \/ Step(i) => slot[i] = "run"
        BY DEF Start, CxlMalloc, GetRef, Drop, CanStart, Step, SlowPath,
           ClearRedo, Collect, BlockToTbr, LinkBlockToTbr, TakeBlock, StampObject, ReadInfo,
           NoteEra, WriteLog, CasInfo, CasRetry, StoreRef, BumpEra, WipeObject, PushObject,
           Release, Running
      <3> QED
        BY <3>1, <3>2, <3>3
    <2> QED
      BY <1>1, <1>3, <2>1, <2>3, <2>4, VerdictKept
  <1> QED
    BY <1>2, <1>3

(* A step of the monitor that only reads, on what it knows afterwards.      *)
LEMMA MonVerdict ==
  ASSUME VerdictInv, mon.pc \in RedoLabel, UNCHANGED clientVars, NEW k \in Thread,
         mon.tgt = k, mon'.tgt = k, mon'.log = mon.log,
         mon'.pc \in {"lcid", "lenum"} => mon'.max = 0,
         mon'.pc = "lenum" /\ Quiescent => mon'.saw.cid = refInfo[mon.log.refed].cid,
         Current(k, mon.log) /\ pc[k] \in PostCas =>
           /\ mon'.pc = "lenum" /\ mon'.saw.cid # k => RowSeen(k)
           /\ mon'.pc = "scan" =>
                \E j \in Thread \ {k} :
                  era[k][k] <= era[j][k] /\ (j < mon'.row => era[k][k] <= mon'.max),
         Current(k, mon.log) /\ pc[k] \notin PostCas /\ mon'.pc = "scan" =>
           mon'.max < era[k][k],
         mon'.pc = "redo" /\ Current(k, mon.log) => (mon'.need <=> pc[k] \in PostCas)
  PROVE  VerdictInv'
  <1>1. \E n \in Lines : Latest(mon.tgt, n)' /\ mon'.log = redo'[mon'.tgt][n]
    BY DEF VerdictInv, Latest, clientVars
  <1>2. refInfo' = refInfo /\ pc' = pc /\ era' = era
    BY DEF clientVars
  <1>3. Current(k, mon.log)' = Current(k, mon.log) /\ RowSeen(k)' = RowSeen(k)
    BY <1>2 DEF Current, RowSeen
  <1> QED
    BY <1>1, <1>2, <1>3 DEF VerdictInv, VerdictExact, Current, RowSeen, Latest, PostCas

LEMMA LoadLcidVerdict ==
  ASSUME TypeInv, RedoInv, SeenInv, VerdictInv, LoadLcid
  PROVE  VerdictInv'
  <1>1. mon \in MonState /\ mon.pc = "lcid" /\ UNCHANGED clientVars
        /\ mon' = [mon EXCEPT !.saw.cid = refInfo[mon.log.refed].cid, !.pc = "lenum"]
    BY DEF TypeInv, TypeOK, LoadLcid, Mon
  <1>2. /\ mon'.pc = "lenum" /\ mon'.tgt = mon.tgt /\ mon'.log = mon.log /\ mon'.max = mon.max
        /\ mon'.saw.cid = refInfo[mon.log.refed].cid
    BY <1>1 DEF MonState, Info
  <1>3. mon.max = 0 /\ mon.pc \in RedoLabel
    BY <1>1 DEF VerdictInv, RedoLabel
  <1>4. PICK k \in Thread :
           /\ mon.tgt = k
           /\ Current(k, mon.log) =>
                /\ mon.log.refed = op[k].refed
                /\ IF pc[k] \in PostCas THEN Seen(k) ELSE Unseen(k)
    BY <1>3, TargetRecord
  <1>5. Current(k, mon.log) /\ pc[k] \in PostCas /\ mon'.saw.cid # k => RowSeen(k)
    BY <1>2, <1>4 DEF Seen
  <1> QED
    BY <1>1, <1>2, <1>3, <1>4, <1>5, MonVerdict

LEMMA LoadLenumVerdict ==
  ASSUME TypeInv, RedoInv, SeenInv, VerdictInv, StampsApart, LoadLenum
  PROVE  VerdictInv'
  <1>1. /\ mon \in MonState /\ mon.pc = "lenum" /\ UNCHANGED clientVars
        /\ mon' = IF mon.saw.cid = mon.tgt /\ refInfo[mon.log.refed].era = mon.log.cur_era
                  THEN [mon EXCEPT !.need = TRUE, !.pc = "redo"]
                  ELSE [mon EXCEPT !.row = 0, !.pc = "scan"]
    BY DEF TypeInv, TypeOK, LoadLenum, Mon
  <1>2. mon.pc \in RedoLabel /\ mon.max = 0
    BY <1>1 DEF RedoLabel, VerdictInv
  <1>3. PICK k \in Thread :
           /\ mon.tgt = k /\ slot[k] = "dead" /\ mon.log.refed \in CXLObj
           /\ Current(k, mon.log) =>
                /\ mon.log.refed = op[k].refed /\ mon.log.cur_era = era[k][k]
                /\ era[k][k] > 0 /\ era[k][k] \in Nat
                /\ IF pc[k] \in PostCas THEN Seen(k) ELSE Unseen(k)
    BY <1>2, TargetRecord
  <1>4. CASE mon.saw.cid = mon.tgt /\ refInfo[mon.log.refed].era = mon.log.cur_era
    <2>1. mon'.pc = "redo" /\ mon'.tgt = k /\ mon'.log = mon.log /\ mon'.need = TRUE
      BY <1>1, <1>3, <1>4 DEF MonState
    <2>2. ASSUME Current(k, mon.log), pc[k] \notin PostCas PROVE FALSE
      <3>1. Unseen(k) /\ refInfo[mon.log.refed].era = era[k][k] /\ era[k][k] \in Nat
        BY <1>3, <1>4, <2>2
      <3>2. refInfo[mon.log.refed].cid = k
        BY <1>1, <1>3, <1>4, <3>1 DEF StampsApart, VerdictInv, RedoLabel
      <3> QED
        BY <1>3, <3>1, <3>2 DEF Unseen
    <2> QED
      BY <1>1, <1>2, <1>3, <2>1, <2>2, MonVerdict
  <1>5. CASE ~(mon.saw.cid = mon.tgt /\ refInfo[mon.log.refed].era = mon.log.cur_era)
    <2>1. mon'.pc = "scan" /\ mon'.tgt = k /\ mon'.log = mon.log /\ mon'.row = 0
          /\ mon'.max = 0
      BY <1>1, <1>2, <1>3, <1>5 DEF MonState
    <2>2. ASSUME Current(k, mon.log), pc[k] \in PostCas PROVE RowSeen(k)
      <3>1. CASE mon.saw.cid # k
        BY <1>1, <1>3, <2>2, <3>1 DEF VerdictInv, RedoLabel
      <3>2. CASE mon.saw.cid = k
        BY <1>3, <1>5, <2>2, <3>2 DEF Seen
      <3> QED
        BY <3>1, <3>2
    <2>3. \A j \in Thread : ~(j < 0)
      BY ThreadAssumption
    <2>4. Current(k, mon.log) /\ pc[k] \in PostCas =>
            \E j \in Thread \ {k} :
              era[k][k] <= era[j][k] /\ (j < mon'.row => era[k][k] <= mon'.max)
      BY <2>1, <2>2, <2>3 DEF RowSeen
    <2>5. Current(k, mon.log) => mon'.max < era[k][k]
      BY <1>3, <2>1
    <2> QED
      BY <1>1, <1>2, <1>3, <2>1, <2>4, <2>5, MonVerdict
  <1> QED
    BY <1>4, <1>5

LEMMA ScanRowVerdict ==
  ASSUME TypeInv, RedoInv, SeenInv, VerdictInv, ScanRow
  PROVE  VerdictInv'
  <1> DEFINE s == SeenBy(mon.row, mon.tgt)
  <1>1. /\ TypeOK /\ mon \in MonState /\ mon.pc = "scan" /\ UNCHANGED clientVars
        /\ mon' = [mon EXCEPT !.row = @ + 1, !.max =
                    IF mon.row # mon.tgt /\ s > @ THEN s ELSE @]
    BY DEF TypeInv, TypeOK, ScanRow, Mon
  <1>2. /\ mon'.pc = "scan" /\ mon'.tgt = mon.tgt /\ mon'.log = mon.log
        /\ mon'.row = mon.row + 1
        /\ mon'.max = IF mon.row # mon.tgt /\ s > mon.max THEN s ELSE mon.max
        /\ mon.row \in Nat /\ mon.max \in Nat /\ mon.pc \in RedoLabel
    BY <1>1 DEF MonState, RedoLabel
  <1>3. PICK k \in Thread :
           /\ mon.tgt = k
           /\ Current(k, mon.log) =>
                /\ era[k][k] > 0 /\ era[k][k] \in Nat
                /\ IF pc[k] \in PostCas THEN Seen(k) ELSE Unseen(k)
    BY <1>2, TargetRecord
  <1>4. s = (IF mon.row \in Thread THEN era[mon.row][k] ELSE 0) /\ s \in Nat
    BY <1>1, <1>3 DEF SeenBy, TypeOK
  <1>5. ASSUME Current(k, mon.log), pc[k] \in PostCas
        PROVE  \E j \in Thread \ {k} :
                 era[k][k] <= era[j][k] /\ (j < mon'.row => era[k][k] <= mon'.max)
    <2>1. PICK j \in Thread \ {k} :
            era[k][k] <= era[j][k] /\ (j < mon.row => era[k][k] <= mon.max)
      BY <1>1, <1>3, <1>5 DEF VerdictInv, RedoLabel
    <2>2. j \in Nat /\ era[j][k] \in Nat /\ era[k][k] \in Nat
      BY <1>1, ThreadAssumption DEF TypeOK
    <2>3. CASE j = mon.row
      <3>1. s = era[j][k] /\ mon.row # mon.tgt
        BY <1>3, <1>4, <2>3
      <3>2. s <= mon'.max /\ mon'.max \in Nat
        BY <1>2, <1>4, <3>1
      <3> QED
        BY <1>4, <2>1, <2>2, <3>1, <3>2
    <2>4. CASE j # mon.row
      <3>1. j < mon'.row => j < mon.row
        BY <1>2, <2>2, <2>4
      <3>2. mon.max <= mon'.max /\ mon'.max \in Nat
        BY <1>2, <1>4
      <3>3. era[k][k] <= mon.max => era[k][k] <= mon'.max
        BY <1>2, <2>2, <3>2
      <3> QED
        BY <2>1, <3>1, <3>3
    <2> QED
      BY <2>3, <2>4
  <1>6. ASSUME Current(k, mon.log), pc[k] \notin PostCas PROVE mon'.max < era[k][k]
    <2>1. mon.max < era[k][k]
      BY <1>1, <1>3, <1>6 DEF VerdictInv, RedoLabel
    <2>2. mon.row # mon.tgt => s < era[k][k]
      BY <1>3, <1>4, <1>6 DEF Unseen
    <2> QED
      BY <1>2, <2>1, <2>2
  <1> QED
    BY <1>1, <1>2, <1>3, <1>5, <1>6, MonVerdict

LEMMA ScanEndVerdict ==
  ASSUME TypeInv, RedoInv, SeenInv, VerdictInv, RowsCovered, ScanEnd
  PROVE  VerdictInv'
  <1>1. /\ TypeOK /\ mon \in MonState /\ mon.pc = "scan" /\ UNCHANGED clientVars
        /\ mon.row = MAX_THREAD
        /\ mon' = [mon EXCEPT !.need = mon.log.cur_era <= mon.max, !.pc = "redo"]
    BY DEF TypeInv, TypeOK, ScanEnd, Mon, Covered
  <1>2. /\ mon'.pc = "redo" /\ mon'.tgt = mon.tgt /\ mon'.log = mon.log
        /\ mon'.need <=> mon.log.cur_era <= mon.max
        /\ mon.max \in Nat /\ mon.pc \in RedoLabel
    BY <1>1 DEF MonState, RedoLabel
  <1>3. PICK k \in Thread :
           /\ mon.tgt = k
           /\ Current(k, mon.log) => mon.log.cur_era = era[k][k] /\ era[k][k] \in Nat
    BY <1>2, TargetRecord
  <1>4. ASSUME Current(k, mon.log), pc[k] \in PostCas PROVE mon'.need
    <2>1. PICK j \in Thread : j < mon.row => era[k][k] <= mon.max
      BY <1>1, <1>3, <1>4 DEF VerdictInv, RedoLabel
    <2> QED
      BY <1>1, <1>2, <1>3, <1>4, <2>1 DEF RowsCovered
  <1>5. ASSUME Current(k, mon.log), pc[k] \notin PostCas PROVE ~mon'.need
    <2>1. mon.max < era[k][k]
      BY <1>1, <1>3, <1>5 DEF VerdictInv, RedoLabel
    <2> QED
      BY <1>2, <1>3, <1>5, <2>1
  <1> QED
    BY <1>1, <1>2, <1>3, <1>4, <1>5, MonVerdict

LEMMA DetectVerdict ==
  ASSUME TypeInv, NEW i \in Thread, Detect(i)
  PROVE  VerdictInv'
  <1>1. PICK n \in Lines :
          /\ Latest(i, n)
          /\ mon' = [NoMon EXCEPT !.tgt = i, !.log = redo[i][n], !.pc =
                       IF redo[i][n].func_id = "none" THEN "gc" ELSE "lcid"]
    BY DEF Detect
  <1>2. /\ mon'.tgt = i /\ mon'.log = redo[i][n] /\ mon'.max = 0
        /\ mon'.pc \in {"gc", "lcid"} /\ redo' = redo
    BY <1>1 DEF NoMon, Detect, clientVars
  <1>3. Latest(i, n)'
    BY <1>1, <1>2 DEF Latest
  <1>4. mon'.log = redo'[mon'.tgt][n] /\ Latest(mon.tgt, n)'
    BY <1>2, <1>3 DEF Latest
  <1> QED
    BY <1>2, <1>4 DEF VerdictInv, VerdictExact

LEMMA NextVerdict ==
  ASSUME TypeInv, TypeInv', EraInv, RedoInv, MonHold, SeenInv, VerdictInv,
         RowsCovered, StampsApart, [Next]_vars
  PROVE  VerdictInv'
  <1>1. CASE Redo \/ MonRead \/ MonNote \/ MonCas \/ MonRetry \/ MonStore \/ MonDrop
             \/ Finish \/ \E l \in RootRef : Visit(l)
    <2>1. mon \in MonState
      BY DEF TypeInv, TypeOK
    <2>2. CASE Redo \/ MonRead \/ MonNote \/ MonCas
      BY <2>1, <2>2 DEF Redo, MonRead, MonNote, MonCas, MonState, RedoLabel, VerdictInv
    <2>3. CASE MonRetry \/ MonStore \/ MonDrop
      BY <2>1, <2>3 DEF MonRetry, MonStore, MonDrop, MonState, RedoLabel, VerdictInv
    <2>4. CASE Finish
      BY <2>4 DEF Finish, NoMon, RedoLabel, VerdictInv
    <2>5. ASSUME NEW l \in RootRef, Visit(l) PROVE VerdictInv'
      <3>1. mon'.pc \in {"drop", "read"}
        BY <2>1, <2>5 DEF Visit, MonState
      <3> QED
        BY <3>1 DEF RedoLabel, VerdictInv
    <2> QED
      BY <1>1, <2>2, <2>3, <2>4, <2>5
  <1>2. CASE Monitor
    BY <1>1, <1>2, LoadLcidVerdict, LoadLenumVerdict, ScanRowVerdict, ScanEndVerdict,
       DetectVerdict DEF Monitor
  <1>3. CASE UNCHANGED vars
    BY <1>3 DEF vars, VerdictInv, VerdictExact, Latest, Current, RowSeen
  <1> QED
    BY <1>2, <1>3, ClientVerdict DEF Next

LEMMA InitVerdict == Init => VerdictInv
  BY DEF Init, NoMon, VerdictInv, RedoLabel

(* The evidence is exact whenever the client has been seen exactly if it   *)
(* is past its CAS.                                                        *)
LEMMA SeenEvidence ==
  ASSUME TypeInv, RedoInv, SeenInv, RowsCovered
  PROVE  EvidenceExact
  <1> SUFFICES ASSUME NEW i \in Thread, LogActive(i), NEW n \in Lines,
                      Current(i, redo[i][n])
               PROVE  Evidence(i, redo[i][n]) <=> pc[i] \in PostCas
    BY DEF EvidenceExact, LogActive, PostCas
  <1>1. /\ redo[i][n].refed = op[i].refed /\ redo[i][n].cur_era = era[i][i]
        /\ op[i].refed \in CXLObj /\ era[i][i] > 0 /\ era[i][i] \in Nat
        /\ IF pc[i] \in PostCas THEN Seen(i) ELSE Unseen(i)
    BY CurrentRecord
  <1>2. \A j \in Thread : era[j][i] \in Nat
    BY DEF TypeInv, TypeOK
  <1>3. CASE pc[i] \in PostCas
    <2>1. CASE RowSeen(i)
      <3>1. PICK j \in Thread \ {i} : era[i][i] <= era[j][i]
        BY <2>1 DEF RowSeen
      <3>2. j \in 0 .. MAX_THREAD - 1
        BY ThreadAssumption, SizeAssumption DEF RowsCovered
      <3> QED
        BY <1>1, <1>3, <3>1, <3>2 DEF Evidence, SeenBy
    <2>2. CASE ~RowSeen(i)
      BY <1>1, <1>3, <2>2 DEF Seen, Evidence
    <2> QED
      BY <2>1, <2>2
  <1>4. CASE pc[i] \notin PostCas
    <2>1. \A j : j # i => ~(era[i][i] <= SeenBy(j, i))
      <3> SUFFICES ASSUME NEW j, j # i PROVE ~(era[i][i] <= SeenBy(j, i))
        OBVIOUS
      <3>1. CASE j \in Thread
        BY <1>1, <1>2, <1>4, <3>1 DEF SeenBy, Unseen
      <3>2. CASE j \notin Thread
        BY <1>1, <3>2 DEF SeenBy
      <3> QED
        BY <3>1, <3>2
    <2>2. ~(refInfo[op[i].refed].cid = i /\ refInfo[op[i].refed].era = era[i][i])
      BY <1>1, <1>4 DEF Unseen
    <2> QED
      BY <1>1, <1>4, <2>1, <2>2 DEF Evidence
  <1> QED
    BY <1>3, <1>4

=============================================================================
