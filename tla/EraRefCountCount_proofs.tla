---------------------- MODULE EraRefCountCount_proofs -----------------------
(***************************************************************************)
(* Proof that the counts are exact at every step of every operation and    *)
(* through every failure and recovery; and that the reference counting of  *)
(* EraRefCount, failures and recovery included, implements AtomicRefs: an  *)
(* operation takes effect in one step, its CAS (or the stamp of a new      *)
(* object), and the monitor only finishes what took effect and drops what a*)
(* failed client held.                                                     *)
(***************************************************************************)
EXTENDS EraRefCountRedo_proofs, FiniteSetTheorems

-----------------------------------------------------------------------------
(* What a RootRef counts for.                                              *)

(* The operation of its owner, or the monitor, is at work on RootRef l.    *)
Mine(l)    == op[Home[l]].ref = l
MonMine(l) == mon.pc = "store" /\ mon.ref = l

ViewTable(l) ==
  /\ ~inUse[l] => View(l) = NULL
  /\ inUse[l] /\ Mine(l) /\ Unstored(Home[l]) =>
       View(l) = IF op[Home[l]].func = "LINK" THEN op[Home[l]].refed ELSE NULL
  /\ inUse[l] /\ Mine(l) /\ Taking(Home[l]) => View(l) = NULL
  /\ inUse[l] /\ MonMine(l) => View(l) = NULL
  /\ inUse[l] /\ ~MonMine(l) /\ ~(Mine(l) /\ (Unstored(Home[l]) \/ Taking(Home[l]))) =>
       View(l) = pptr[l]

LEMMA ViewIs == MonShape => \A l \in RootRef : ViewTable(l)
  <1> SUFFICES ASSUME MonShape, NEW l \in RootRef PROVE ViewTable(l)
    OBVIOUS
  <1>1. MonMine(l) => ~Unstored(Home[l])
    BY DEF MonMine, MonShape, UnlinkLabel, Unstored, Redone
  <1>2. Taking(Home[l]) => ~Unstored(Home[l])
    BY DEF Taking, Unstored
  <1>3. ~inUse[l] => View(l) = NULL
    BY DEF View
  <1>4. inUse[l] /\ Mine(l) /\ Unstored(Home[l]) =>
          View(l) = IF op[Home[l]].func = "LINK" THEN op[Home[l]].refed ELSE NULL
    BY <1>1, <1>2 DEF View, Mine, MonMine, Taking
  <1>5. inUse[l] /\ Mine(l) /\ Taking(Home[l]) => View(l) = NULL
    BY <1>2 DEF View, Mine, Taking
  <1>6. inUse[l] /\ MonMine(l) => View(l) = NULL
    BY <1>1 DEF View, MonMine
  <1>7. inUse[l] /\ ~MonMine(l) /\ ~(Mine(l) /\ (Unstored(Home[l]) \/ Taking(Home[l]))) =>
          View(l) = pptr[l]
    BY DEF View, Mine, MonMine, Taking
  <1> QED
    BY <1>3, <1>4, <1>5, <1>6, <1>7 DEF ViewTable

LEMMA ViewNext == MonShape' => \A l \in RootRef : ViewTable(l)'
  <1>1. (MonShape => \A l \in RootRef : ViewTable(l))'
    BY ViewIs, PTL
  <1> QED
    BY <1>1

(* A RootRef in whose terms nothing changes. *)
LEMMA ViewSame ==
  ASSUME NEW l \in RootRef, inUse'[l] = inUse[l], inUse[l] => pptr'[l] = pptr[l],
         Mine(l)' <=> Mine(l), MonMine(l)' <=> MonMine(l),
         Mine(l) => /\ op'[Home[l]].func = op[Home[l]].func
                    /\ op'[Home[l]].refed = op[Home[l]].refed
                    /\ Unstored(Home[l])' <=> Unstored(Home[l])
                    /\ Taking(Home[l])' <=> Taking(Home[l])
  PROVE  View(l)' = View(l)
  BY DEF View, Mine, MonMine, Taking

LEMMA ViewType ==
  ASSUME TypeInv, NEW l \in RootRef
  PROVE  View(l) \in CXLObj \cup {NULL}
  <1>1. pptr[l] \in CXLObj \cup {NULL} /\ Home[l] \in Thread
    BY BlockAssumption DEF TypeInv, TypeOK, Block
  <1>2. op[Home[l]].refed \in CXLObj \cup {NULL}
    BY <1>1 DEF TypeInv, TypeOK, Op
  <1> QED
    BY <1>1, <1>2, ViewIs DEF ViewTable, TypeInv

LEMMA UsedKept ==
  ASSUME TypeInv, Used,
         \A l \in RootRef : \/ View(l)' = View(l)
                            \/ View(l)' = NULL
                            \/ View(l)' \in Block /\ block'[View(l)'] = "used",
         \A o \in CXLObj : \/ block[o] = "used" => block'[o] = "used"
                           \/ \A l \in RootRef : View(l) # o
  PROVE  Used'
  <1> SUFFICES ASSUME NEW l \in RootRef, View(l)' # NULL PROVE block'[View(l)'] = "used"
    BY DEF Used
  <1>1. CASE View(l)' \in Block /\ block'[View(l)'] = "used"
    BY <1>1
  <1>2. CASE View(l)' = View(l)
    <2>1. PICK o \in CXLObj : o = View(l)
      BY <1>2, ViewType
    <2>2. block[o] = "used"
      BY <1>2, <2>1 DEF Used
    <2> QED
      BY <1>2, <2>1, <2>2
  <1> QED
    BY <1>1, <1>2

-----------------------------------------------------------------------------
(* Counting.                                                               *)

LEMMA HoldersFinite ==
  ASSUME FewRefs, NEW o
  PROVE  /\ IsFiniteSet(Holders(o)) /\ Cardinality(Holders(o)) \in Nat
         /\ Cardinality(Holders(o)) <= Cardinality(RootRef)
         /\ Cardinality(RootRef) \in Nat /\ Cardinality(RootRef) < CNT_LIMIT
         /\ Cardinality(Holders(o)) = 0 <=> \A l \in RootRef : View(l) # o
         /\ \A l \in RootRef : View(l) # o =>
              Cardinality(Holders(o)) + 1 <= Cardinality(RootRef)
  <1>1. Holders(o) \subseteq RootRef /\ IsFiniteSet(RootRef)
        /\ Cardinality(RootRef) < CNT_LIMIT
    BY DEF Holders, FewRefs
  <1>2. /\ IsFiniteSet(Holders(o)) /\ Cardinality(Holders(o)) \in Nat
        /\ Cardinality(Holders(o)) <= Cardinality(RootRef) /\ Cardinality(RootRef) \in Nat
    BY <1>1, FS_Subset, FS_CardinalityType
  <1>3. Cardinality(Holders(o)) = 0 <=> \A l \in RootRef : View(l) # o
    <2>1. Cardinality(Holders(o)) = 0 <=> Holders(o) = {}
      BY <1>2, FS_EmptySet
    <2> QED
      BY <2>1 DEF Holders
  <1>4. ASSUME NEW l \in RootRef, View(l) # o
        PROVE  Cardinality(Holders(o)) + 1 <= Cardinality(RootRef)
    <2>1. Holders(o) \subseteq RootRef /\ Holders(o) # RootRef
      BY <1>1, <1>4 DEF Holders
    <2>2. Cardinality(Holders(o)) < Cardinality(RootRef)
      BY <1>1, <1>2, <2>1, FS_Subset
    <2> QED
      BY <1>2, <2>2
  <1> QED
    BY <1>1, <1>2, <1>3, <1>4

(* A step that changes no reference and no count; one by which RootRef r   *)
(* gets a counted reference of object x; one by which it gives it up.      *)
Steady ==
  /\ \A l \in RootRef : View(l)' = View(l)
  /\ \A o \in CXLObj : refInfo'[o].cnt = refInfo[o].cnt
Gains(r, x) ==
  /\ View(r) = NULL /\ View(r)' = x /\ refInfo'[x].cnt = refInfo[x].cnt + 1
  /\ \A l \in RootRef \ {r} : View(l)' = View(l)
  /\ \A o \in CXLObj \ {x} : refInfo'[o].cnt = refInfo[o].cnt
Loses(r, x) ==
  /\ View(r) = x /\ View(r)' = NULL /\ refInfo'[x].cnt = refInfo[x].cnt - 1
  /\ \A l \in RootRef \ {r} : View(l)' = View(l)
  /\ \A o \in CXLObj \ {x} : refInfo'[o].cnt = refInfo[o].cnt

LEMMA CountSame ==
  ASSUME CountExact, Steady
  PROVE  CountExact'
  <1>1. \A o : Holders(o)' = Holders(o)
    BY DEF Holders, Steady
  <1> QED
    BY <1>1 DEF CountExact, Steady

LEMMA CountAdd ==
  ASSUME CountExact, FewRefs, NEW r \in RootRef, NEW x \in CXLObj, Gains(r, x)
  PROVE  CountExact'
  <1>1. Holders(x)' = Holders(x) \cup {r} /\ r \notin Holders(x)
    BY NotNull DEF Holders, Gains
  <1>2. Cardinality(Holders(x))' = Cardinality(Holders(x)) + 1
    <2>1. IsFiniteSet(Holders(x))
      BY HoldersFinite
    <2> QED
      BY <1>1, <2>1, FS_AddElement
  <1>3. \A o \in CXLObj \ {x} : Holders(o)' = Holders(o)
    BY NotNull DEF Holders, Gains
  <1> QED
    BY <1>2, <1>3 DEF CountExact, Gains

LEMMA CountDel ==
  ASSUME CountExact, FewRefs, NEW r \in RootRef, NEW x \in CXLObj, Loses(r, x)
  PROVE  CountExact'
  <1>1. Holders(x)' = Holders(x) \ {r} /\ r \in Holders(x)
    BY NotNull DEF Holders, Loses
  <1>2. Cardinality(Holders(x))' = Cardinality(Holders(x)) - 1
    <2>1. IsFiniteSet(Holders(x))
      BY HoldersFinite
    <2> QED
      BY <1>1, <2>1, FS_RemoveElement
  <1>3. \A o \in CXLObj \ {x} : Holders(o)' = Holders(o)
    BY NotNull DEF Holders, Loses
  <1> QED
    BY <1>2, <1>3 DEF CountExact, Loses

(* What a reference says of the object: it is counted and has not been     *)
(* freed.                                                                  *)
LEMMA Held ==
  ASSUME CountInv, FewRefs, NEW l \in RootRef, NEW x \in CXLObj, View(l) = x
  PROVE  block[x] = "used" /\ refInfo[x].cnt \in 1 .. CNT_LIMIT - 1
  <1>1. block[x] = "used"
    BY NotNull DEF CountInv, Used
  <1>2. refInfo[x].cnt = Cardinality(Holders(x))
    BY DEF CountInv, CountExact
  <1>3. Cardinality(Holders(x)) # 0
    BY HoldersFinite
  <1> QED
    BY <1>1, <1>2, <1>3, HoldersFinite, SizeAssumption

LEMMA NotHeld ==
  ASSUME CountInv, FewRefs, NEW l \in RootRef, NEW x \in CXLObj, View(l) # x
  PROVE  refInfo[x].cnt \in 0 .. CNT_LIMIT - 2
  <1>1. refInfo[x].cnt = Cardinality(Holders(x))
    BY DEF CountInv, CountExact
  <1> QED
    BY <1>1, HoldersFinite, SizeAssumption

(* An object to which nothing refers, because its block is free or its     *)
(* count is zero.                                                          *)
LEMMA NoHolder ==
  ASSUME CountInv, FewRefs, NEW x \in CXLObj, block[x] # "used" \/ refInfo[x].cnt = 0
  PROVE  refInfo[x].cnt = 0 /\ \A l \in RootRef : View(l) # x
  <1>1. \A l \in RootRef : View(l) # x
    BY Held
  <1> QED
    BY <1>1, HoldersFinite DEF CountInv, CountExact

-----------------------------------------------------------------------------
(* What a step of client i leaves to the others.                           *)

(* Client k links its RootRef to the object that RootRef op[k].src holds.  *)
Linking(k) == slot[k] = "run" /\ op[k].func = "LINK" /\ pc[k] \in RootLabel \cup PreCas

LEMMA StepRuns ==
  ASSUME NEW i \in Thread, Start(i) \/ Step(i)
  PROVE  slot[i] = "run" /\ slot' = slot
  BY DEF Start, CxlMalloc, GetRef, Drop, CanStart, Step, SlowPath, ClearRedo, Collect,
     BlockToTbr, LinkBlockToTbr, TakeBlock, StampObject, ReadInfo, NoteEra, WriteLog,
     CasInfo, CasRetry, StoreRef, BumpEra, WipeObject, PushObject, Release, Running

(* The monitor is not at work on a client that runs. *)
LEMMA RunApart ==
  ASSUME TypeInv, NEW i \in Thread, slot[i] = "run"
  PROVE  /\ mon.pc # "watch" => mon.tgt # i
         /\ ~Redone(i) /\ LogActive(i)
         /\ \A l \in RootRef : Home[l] = i => ~MonMine(l)
  <1>1. mon.pc # "watch" => mon.tgt # i
    BY DEF TypeInv, MonShape
  <1>2. ~Redone(i) /\ LogActive(i)
    BY <1>1 DEF Redone, LogActive
  <1>3. \A l \in RootRef : Home[l] = i => ~MonMine(l)
    BY <1>1 DEF MonMine, TypeInv, MonShape, UnlinkLabel
  <1> QED
    BY <1>1, <1>2, <1>3

(* The source of a hand-over is with a client that runs, or nothing is     *)
(* recovered.                                                              *)
LEMMA SourceRuns ==
  ASSUME MonHold, NEW k \in Thread, SourceInv(k), Linking(k), mon.pc # "watch"
  PROVE  slot[Home[op[k].src]] = "run"
  BY DEF MonHold, SourceInv, Linking

LEMMA SourceView ==
  ASSUME TypeInv, CountInv, NEW k \in Thread, Linking(k)
  PROVE  /\ op[k].src \in RootRef /\ inUse[op[k].src] /\ pptr[op[k].src] = op[k].refed
         /\ op[k].refed \in CXLObj /\ View(op[k].src) = op[k].refed
  <1> DEFINE l == op[k].src
  <1>1. /\ l \in RootRef /\ inUse[l] /\ pptr[l] = op[k].refed /\ ~Mine(l)
        /\ Home[l] \in Thread
    BY BlockAssumption DEF CountInv, SourceInv, Linking, Mine, Block
  <1>2. ~MonMine(l)
    <2> SUFFICES ASSUME MonMine(l) PROVE FALSE
      OBVIOUS
    <2>1. mon.pc = "store" /\ mon.ref = l
      BY DEF MonMine
    <2>2. slot[Home[l]] = "run"
      BY <2>1, SourceRuns DEF CountInv
    <2> QED
      BY <1>1, <2>2, RunApart
  <1>3. View(l) = pptr[l]
    BY <1>1, <1>2, ViewIs DEF ViewTable, TypeInv
  <1>4. op[k].refed \in CXLObj
    BY DEF Linking, TypeInv, OpShape, LinkLabel
  <1> QED
    BY <1>1, <1>3, <1>4

LEMMA HoldKept ==
  ASSUME TypeInv, NEW k \in Thread, HoldInv(k), op'[k] = op[k], pc'[k] = pc[k],
         LogActive(k)' => LogActive(k),
         \A l \in RootRef : Home[l] = k =>
           /\ inUse'[l] => inUse[l] /\ pptr'[l] = pptr[l]
           /\ LogActive(k)' /\ inUse[l] => inUse'[l],
         \A o \in CXLObj : Home[o] = k /\ block[o] = "free" => block'[o] = "free"
  PROVE  HoldInv(k)'
  <1>1. OpShape(k)
    BY DEF TypeInv
  <1>2. ASSUME LogActive(k)'
        PROVE  /\ pc[k] \in AllocLabel \cup LinkLabel => inUse'[op[k].ref]
               /\ pc[k] \in ObjectLabel => pptr'[op[k].ref] = NULL
               /\ op[k].func = "LINK" /\ pc[k] \in PreCas \cup {"store"} =>
                    pptr'[op[k].ref] = NULL
    <2>1. pc[k] \in AllocLabel \cup LinkLabel =>
            /\ op[k].ref \in RootRef /\ Home[op[k].ref] = k /\ inUse[op[k].ref]
            /\ inUse'[op[k].ref] /\ pptr'[op[k].ref] = pptr[op[k].ref]
      BY <1>1, <1>2 DEF HoldInv, OpShape
    <2> QED
      BY <1>2, <2>1 DEF HoldInv, AllocLabel, LinkLabel, PostCas
  <1>3. Taking(k) /\ inUse'[op[k].ref] => pptr'[op[k].ref] = op[k].refed
    BY <1>1 DEF HoldInv, OpShape, Taking, AllocLabel
  <1>4. pc[k] = "take" => block'[op[k].refed] = "free"
    BY <1>1 DEF HoldInv, OpShape
  <1>5. pc[k] \in {"note", "log", "cas"} => op[k].saw.cnt + Delta(k) \in 0 .. CNT_LIMIT - 1
    BY DEF HoldInv
  <1> QED
    BY <1>2, <1>3, <1>4, <1>5 DEF HoldInv, Taking, Delta

LEMMA SourceKept ==
  ASSUME NEW k \in Thread, SourceInv(k), op'[k] = op[k], pc'[k] = pc[k],
         slot'[k] = "run" => slot[k] = "run",
         NEW s, s = op[k].src,
         Linking(k) =>
           /\ inUse'[s] /\ pptr'[s] = pptr[s] /\ op'[Home[s]].ref # s
           /\ slot'[Home[s]] = slot[Home[s]]
  PROVE  SourceInv(k)'
  BY DEF SourceInv, Linking

(* Nobody's claim is disturbed, and the claim that client i makes is to an *)
(* object that nobody has claimed.                                         *)
LEMMA ClaimStep ==
  ASSUME TypeInv, EraInv, ClaimInv, NEW i \in Thread, Start(i) \/ Step(i),
         \A l \in RootRef : Home[l] # i => pptr'[l] = pptr[l],
         \A o \in CXLObj : Unheld(o) /\ ~(Claims(i) /\ o = op[i].refed) => Unheld(o)',
         NEW x, x = op'[i].refed,
         Claims(i)' => Unheld(x)' /\ ((Claims(i) /\ op[i].refed = x) \/ ~Unheld(x)),
         pc'[i] \in {"wipe", "push"} => op'[i].saw.cnt = 1
  PROVE  ClaimInv'
  <1>1. /\ \A k \in Thread \ {i} : Claims(k)' = Claims(k) /\ op'[k] = op[k] /\ pc'[k] = pc[k]
        /\ mon' = mon
    <2>1. mon' = mon /\ \A k \in Thread \ {i} : op'[k] = op[k] /\ pc'[k] = pc[k]
      BY ClientStep
    <2> QED
      BY <2>1 DEF Claims
  <1>2. \A k \in Thread : Claims(k) => op[k].refed \in CXLObj /\ Unheld(op[k].refed)
    BY DEF ClaimInv, Claims, TypeInv, OpShape, LinkLabel, PostCas, FreeLabel
  <1>3. \A k \in Thread \ {i} : Claims(k)' =>
          /\ Unheld(op[k].refed)' /\ Unheld(op[k].refed)
          /\ Claims(i)' => op[k].refed # x
    BY <1>1, <1>2 DEF ClaimInv
  <1>4. MonClaims' =>
          /\ MonClaims /\ pptr'[mon.ref] = pptr[mon.ref] /\ pptr[mon.ref] \in CXLObj
          /\ Unheld(pptr[mon.ref]) /\ Unheld(pptr[mon.ref])'
          /\ Claims(i)' => pptr[mon.ref] # x
    <2> SUFFICES ASSUME MonClaims
                 PROVE  /\ pptr'[mon.ref] = pptr[mon.ref] /\ pptr[mon.ref] \in CXLObj
                        /\ Unheld(pptr[mon.ref]) /\ Unheld(pptr[mon.ref])'
                        /\ Claims(i)' => pptr[mon.ref] # x
      BY <1>1 DEF MonClaims
    <2>1. mon.ref \in RootRef /\ Home[mon.ref] # i /\ pptr[mon.ref] \in CXLObj
      BY StepRuns, RunApart DEF MonClaims, TypeInv, MonShape, UnlinkLabel
    <2>2. Unheld(pptr[mon.ref]) /\ (Claims(i) => op[i].refed # pptr[mon.ref])
      BY DEF ClaimInv
    <2>3. Unheld(pptr[mon.ref])'
      <3>1. PICK o \in CXLObj : o = pptr[mon.ref]
        BY <2>1
      <3>2. o = pptr'[mon.ref] /\ mon'.ref = mon.ref
        BY <1>1, <2>1, <3>1
      <3> QED
        BY <2>2, <3>1, <3>2 DEF Unheld
    <2> QED
      BY <2>1, <2>2, <2>3
  <1>5. \A k \in Thread : Claims(k)' => Unheld(op[k].refed)'
    BY <1>1, <1>3 DEF Unheld
  <1> QED
    BY <1>1, <1>3, <1>4, <1>5 DEF ClaimInv, MonClaims, Unheld

(* The RootRefs client i does not work on, before and after its step.      *)
LEMMA ViewOther ==
  ASSUME TypeInv, EraInv, NEW i \in Thread, Start(i) \/ Step(i), NEW l \in RootRef,
         inUse'[l] = inUse[l], inUse[l] => pptr'[l] = pptr[l],
         Home[l] # i \/ (op[i].ref # l /\ op'[i].ref # l)
  PROVE  View(l)' = View(l)
  <1>1. mon' = mon /\ Home[l] \in Thread
    BY ClientStep, BlockAssumption DEF Block
  <1>2. MonMine(l)' = MonMine(l)
    BY <1>1 DEF MonMine
  <1>3. CASE Home[l] # i
    <2>1. op'[Home[l]] = op[Home[l]] /\ pc'[Home[l]] = pc[Home[l]]
      BY <1>1, <1>3, ClientStep
    <2>2. Mine(l)' = Mine(l) /\ Unstored(Home[l])' = Unstored(Home[l])
          /\ Taking(Home[l])' = Taking(Home[l])
      BY <1>1, <2>1 DEF Mine, Unstored, Redone, Taking
    <2> QED
      BY <1>2, <2>1, <2>2, ViewSame
  <1>4. CASE Home[l] = i
    <2>1. ~Mine(l) /\ ~Mine(l)'
      BY <1>4 DEF Mine
    <2> QED
      BY <1>2, <2>1, ViewSame
  <1> QED
    BY <1>3, <1>4

(* Assembling the invariant after a step of client i. *)
LEMMA ClientCount ==
  ASSUME TypeInv, EraInv, CountInv, NEW i \in Thread, Start(i) \/ Step(i),
         \A l \in RootRef : Home[l] # i \/ (op[i].ref # l /\ inUse[l]) =>
           inUse'[l] = inUse[l] /\ pptr'[l] = pptr[l],
         \A l \in RootRef : op'[i].ref = l =>
           \/ op[i].ref = l
           \/ ~inUse[l]
           \/ \A k \in Thread : Linking(k) => op[k].src # l,
         \A o \in CXLObj : Home[o] # i /\ block[o] = "free" => block'[o] = "free",
         CountExact', Used', ClaimInv', HoldInv(i)', SourceInv(i)'
  PROVE  CountInv'
  <1>1. /\ mon' = mon /\ slot' = slot /\ slot[i] = "run"
        /\ \A k \in Thread \ {i} : op'[k] = op[k] /\ pc'[k] = pc[k]
    BY ClientStep, StepRuns
  <1>2. MonHold'
    <2>1. mon.pc \in UnlinkLabel \cup {"drop"} =>
            /\ mon.ref \in RootRef /\ mon.tgt \in Thread \ {i} /\ Home[mon.ref] # i
      BY <1>1, RunApart DEF TypeInv, MonShape, UnlinkLabel
    <2>2. mon.pc \in UnlinkLabel \cup {"drop"} =>
            /\ inUse'[mon.ref] = inUse[mon.ref] /\ pptr'[mon.ref] = pptr[mon.ref]
            /\ op'[mon.tgt] = op[mon.tgt] /\ pc'[mon.tgt] = pc[mon.tgt]
      BY <1>1, <2>1
    <2> QED
      BY <1>1, <2>2 DEF CountInv, MonHold, Taking
  <1>3. ASSUME NEW k \in Thread \ {i} PROVE HoldInv(k)'
    <2>1. op'[k] = op[k] /\ pc'[k] = pc[k] /\ HoldInv(k)
      BY <1>1 DEF CountInv
    <2>2. LogActive(k)' => LogActive(k)
      BY <1>1 DEF LogActive, Redone
    <2> QED
      BY <2>1, <2>2, HoldKept
  <1>4. ASSUME NEW k \in Thread \ {i} PROVE SourceInv(k)'
    <2>1. op'[k] = op[k] /\ pc'[k] = pc[k] /\ SourceInv(k)
      BY <1>1 DEF CountInv
    <2>2. PICK s : s = op[k].src
      OBVIOUS
    <2>3. ASSUME Linking(k)
          PROVE  inUse'[s] /\ pptr'[s] = pptr[s] /\ op'[Home[s]].ref # s
      <3>1. s \in RootRef /\ inUse[s] /\ Home[s] \in Thread /\ op[Home[s]].ref # s
        BY <2>1, <2>2, <2>3, BlockAssumption DEF SourceInv, Linking, Block
      <3>2. inUse'[s] = inUse[s] /\ pptr'[s] = pptr[s]
        BY <3>1
      <3>3. op'[Home[s]].ref # s
        BY <1>1, <2>2, <2>3, <3>1
      <3> QED
        BY <3>1, <3>2, <3>3
    <2> QED
      BY <1>1, <2>1, <2>2, <2>3, SourceKept
  <1> QED
    BY <1>2, <1>3, <1>4 DEF CountInv

(* A step of client i that leaves the words, the RootRefs and the blocks   *)
(* alone, and no claim after it.                                           *)
LEMMA QuietCount ==
  ASSUME TypeInv, EraInv, CountInv, NEW i \in Thread, Start(i) \/ Step(i),
         UNCHANGED <<refInfo, inUse, pptr>>,
         \A l \in RootRef : op'[i].ref = l =>
           \/ op[i].ref = l /\ op'[i].func = op[i].func /\ op'[i].refed = op[i].refed
                /\ (pc[i] \in {"store", "take", "stamp"} \/ pc'[i] \in {"store", "take", "stamp"}
                      => pc'[i] = pc[i])
           \/ op[i].ref # l /\ (\A k \in Thread : Linking(k) => op[k].src # l)
                /\ pc'[i] \notin {"store", "take", "stamp"},
         op[i].ref \in RootRef /\ pc[i] \in {"store", "take", "stamp"} => op'[i].ref = op[i].ref,
         \A b \in Block : block[b] # "away" => block'[b] = block[b],
         pc'[i] \notin {"stamp", "store", "bump", "wipe", "push"},
         HoldInv(i)', SourceInv(i)'
  PROVE  CountInv' /\ Steady
  <1>1. mon' = mon /\ slot[i] = "run"
    BY ClientStep, StepRuns
  <1>2. ASSUME NEW l \in RootRef PROVE View(l)' = View(l)
    <2>1. CASE Home[l] # i \/ (op[i].ref # l /\ op'[i].ref # l)
      BY <2>1, ViewOther
    <2>2. CASE Home[l] = i /\ op[i].ref = l /\ op'[i].ref = l
      <3>1. Mine(l) /\ Mine(l)' /\ MonMine(l)' = MonMine(l)
            /\ Unstored(i)' = Unstored(i) /\ Taking(i)' = Taking(i)
        BY <1>1, <2>2 DEF Mine, MonMine, Unstored, Redone, Taking
      <3> QED
        BY <2>2, <3>1, ViewSame
    <2>3. CASE Home[l] = i /\ (op[i].ref = l <=> op'[i].ref # l)
      <3>1. /\ ~(Mine(l) /\ (Unstored(i) \/ Taking(i)))
            /\ ~(Mine(l)' /\ (Unstored(i)' \/ Taking(i)'))
            /\ MonMine(l)' = MonMine(l)
        BY <1>1, <2>3 DEF Mine, MonMine, Unstored, Taking
      <3> QED
        BY <2>3, <3>1 DEF View, Mine, MonMine, Unstored, Taking
    <2> QED
      BY <2>1, <2>2, <2>3
  <1>3. Steady /\ CountExact'
    <2>1. Steady
      BY <1>2 DEF Steady
    <2> QED
      BY <2>1, CountSame DEF CountInv
  <1>4. Used'
    BY <1>2, UsedKept DEF CountInv, Block
  <1>5. ~Claims(i)'
    BY DEF Claims
  <1>6. ClaimInv'
    BY <1>5, ClaimStep DEF CountInv, Unheld, Block
  <1> QED
    BY <1>3, <1>4, <1>6, ClientCount DEF Block

-----------------------------------------------------------------------------
(* The steps of client i that count nothing and claim nothing.             *)

LEMMA Acting ==
  ASSUME TypeInv, RedoInv, CountInv, NEW i \in Thread, slot[i] = "run"
  PROVE  /\ TypeOK /\ OpShape(i) /\ OpHolds(i) /\ HoldInv(i) /\ SourceInv(i)
         /\ LogActive(i) /\ ~Redone(i)
         /\ pc[i] \in AllocLabel \cup LinkLabel =>
              op[i].ref \in RootRef /\ Home[op[i].ref] = i /\ inUse[op[i].ref]
  <1>1. LogActive(i) /\ ~Redone(i)
    BY RunApart
  <1> QED
    BY <1>1 DEF TypeInv, RedoInv, LogInv, CountInv, OpShape, HoldInv

LEMMA RootHold ==
  ASSUME NEW i \in Thread, pc'[i] \in RootLabel \cup {"idle"}
  PROVE  HoldInv(i)'
  BY DEF HoldInv, Taking, RootLabel, AllocLabel, ObjectLabel, LinkLabel, PreCas, PostCas,
     FreeLabel

LEMMA NoSource ==
  ASSUME NEW i \in Thread,
         op'[i].func # "LINK" \/ pc'[i] \notin RootLabel \cup PreCas
  PROVE  SourceInv(i)'
  BY DEF SourceInv

LEMMA CxlMallocCount ==
  ASSUME NEW i \in Thread, TypeInv, EraInv, RedoInv, CountInv, CxlMalloc(i)
  PROVE  CountInv' /\ Steady
  <1>1. TypeOK /\ slot[i] = "run" /\ pc[i] = "idle" /\ op[i].ref = NULL
        /\ UNCHANGED <<refInfo, inUse, pptr, block>>
    BY DEF TypeInv, OpShape, NoOp, CxlMalloc, CanStart, Running
  <1>2. pc'[i] = "root" /\ op'[i].func = "ALLOC" /\ op'[i].ref = NULL
    BY <1>1 DEF TypeOK, CxlMalloc, NoOp
  <1>3. HoldInv(i)' /\ SourceInv(i)'
    BY <1>2, RootHold, NoSource DEF RootLabel
  <1>4. Start(i)
    BY DEF Start
  <1> QED
    BY <1>1, <1>2, <1>3, <1>4, NotNull, QuietCount

LEMMA GetRefCount ==
  ASSUME NEW i \in Thread, NEW l \in RootRef, TypeInv, EraInv, RedoInv, CountInv, GetRef(i, l)
  PROVE  CountInv' /\ Steady
  <1>1. TypeOK /\ slot[i] = "run" /\ pc[i] = "idle" /\ op[i].ref = NULL
        /\ UNCHANGED <<refInfo, inUse, pptr, block, slot>>
    BY DEF TypeInv, OpShape, NoOp, GetRef, CanStart, Running
  <1>2. /\ pc'[i] = "root" /\ op'[i].func = "LINK" /\ op'[i].ref = NULL
        /\ op'[i].refed = pptr[l] /\ op'[i].src = l
    BY <1>1 DEF TypeOK, GetRef, NoOp
  <1>3. HoldInv(i)'
    BY <1>2, RootHold DEF RootLabel
  <1>4. SourceInv(i)'
    <2>1. inUse[l] /\ slot[Home[l]] = "run" /\ Home[l] \in Thread
          /\ (pc[Home[l]] # "idle" => op[Home[l]].ref # l)
      BY BlockAssumption DEF GetRef, Block
    <2>2. op[Home[l]].ref # l
      <3>1. CASE pc[Home[l]] = "idle"
        BY <2>1, <3>1, NotNull DEF TypeInv, OpShape, NoOp
      <3> QED
        BY <2>1, <3>1
    <2>3. op'[Home[l]].ref # l
      <3>1. CASE Home[l] = i
        BY <1>2, <3>1, NotNull
      <3>2. CASE Home[l] # i
        BY <1>1, <2>2, <3>2 DEF GetRef, TypeOK
      <3> QED
        BY <3>1, <3>2
    <2> QED
      BY <1>1, <1>2, <2>1, <2>3 DEF SourceInv
  <1>5. Start(i)
    BY DEF Start
  <1> QED
    BY <1>1, <1>2, <1>3, <1>4, <1>5, NotNull, QuietCount

LEMMA DropCount ==
  ASSUME NEW i \in Thread, NEW l \in RootRef, TypeInv, EraInv, RedoInv, CountInv, Drop(i, l)
  PROVE  CountInv' /\ Steady
  <1>1. TypeOK /\ slot[i] = "run" /\ pc[i] = "idle" /\ op[i].ref = NULL
        /\ UNCHANGED <<refInfo, inUse, pptr, block, slot>> /\ inUse[l]
    BY DEF TypeInv, OpShape, NoOp, Drop, CanStart, Running
  <1>2. pc'[i] = "read" /\ op'[i].func = "UNLINK" /\ op'[i].ref = l
    BY <1>1 DEF TypeOK, Drop, NoOp
  <1>3. HoldInv(i)'
    BY <1>1, <1>2 DEF HoldInv, Taking, AllocLabel, ObjectLabel
  <1>4. SourceInv(i)'
    BY <1>2, NoSource
  <1>5. \A k \in Thread : Linking(k) => op[k].src # l
    <2> SUFFICES ASSUME NEW k \in Thread, Linking(k) PROVE op[k].src # l
      OBVIOUS
    <2>1. pc[k] # "idle" /\ slot[k] = "run"
      BY DEF Linking, RootLabel, PreCas
    <2> QED
      BY <2>1 DEF Drop, Pinned
  <1>6. Start(i)
    BY DEF Start
  <1> QED
    BY <1>1, <1>2, <1>3, <1>4, <1>5, <1>6, NotNull, QuietCount

LEMMA SlowPathCount ==
  ASSUME NEW i \in Thread, TypeInv, EraInv, RedoInv, CountInv,
         SlowPath(i) \/ ClearRedo(i) \/ Collect(i)
  PROVE  CountInv' /\ Steady
  <1>1. /\ Step(i) /\ TypeOK /\ slot[i] = "run" /\ HoldInv(i) /\ SourceInv(i) /\ LogActive(i)
        /\ UNCHANGED <<refInfo, inUse, pptr, slot>>
    <2>1. Step(i) /\ slot[i] = "run" /\ UNCHANGED <<refInfo, inUse, pptr, slot>>
      BY DEF Step, SlowPath, ClearRedo, Collect, Running
    <2> QED
      BY <2>1, Acting
  <1>2. /\ op'[i].func = op[i].func /\ op'[i].ref = op[i].ref /\ op'[i].refed = op[i].refed
        /\ op'[i].src = op[i].src
        /\ \A k \in Thread : op'[k].ref = op[k].ref
        /\ \/ pc[i] \in ObjectLabel /\ pc'[i] \in ObjectLabel
           \/ pc[i] \in RootLabel /\ pc'[i] \in RootLabel
    <2>1. CASE SlowPath(i)
      BY <1>1, <2>1 DEF SlowPath, TypeOK, Op, ObjectLabel, RootLabel
    <2>2. CASE ClearRedo(i)
      <3>1. op' = [op EXCEPT ![i].line = @ + 1] /\ pc' = pc
            /\ pc[i] \in {"clear root", "clear object"}
        BY <2>2 DEF ClearRedo
      <3>2. /\ op'[i] = [op[i] EXCEPT !.line = @ + 1] /\ op[i] \in Op
            /\ \A k \in Thread \ {i} : op'[k] = op[k]
        BY <1>1, <3>1 DEF TypeOK
      <3>3. /\ op'[i].func = op[i].func /\ op'[i].ref = op[i].ref
            /\ op'[i].refed = op[i].refed /\ op'[i].src = op[i].src
        BY <3>2 DEF Op
      <3> QED
        BY <3>1, <3>2, <3>3 DEF ObjectLabel, RootLabel
    <2>3. CASE Collect(i)
      BY <1>1, <2>3 DEF Collect, TypeOK, Op, ObjectLabel, RootLabel
    <2> QED
      BY <2>1, <2>2, <2>3
  <1>3. HoldInv(i)'
    BY <1>1, <1>2 DEF HoldInv, Taking, ObjectLabel, RootLabel, AllocLabel, LinkLabel, PreCas,
       PostCas, FreeLabel
  <1>4. SourceInv(i)'
    <2>1. CASE pc'[i] \in ObjectLabel
      BY <2>1, NoSource DEF ObjectLabel, RootLabel, PreCas
    <2>2. CASE pc'[i] \in RootLabel /\ pc[i] \in RootLabel /\ op[i].func = "LINK"
      <3>1. PICK s : s = op[i].src
        OBVIOUS
      <3>2. s \in RootRef /\ inUse[s] /\ pptr[s] = op[i].refed /\ op[Home[s]].ref # s
            /\ (slot[Home[s]] = "run" \/ (Quiescent /\ slot[Home[s]] = "dead"))
            /\ Home[s] \in Thread
        BY <1>1, <2>2, <3>1, BlockAssumption DEF SourceInv, Block
      <3> QED
        BY <1>1, <1>2, <3>1, <3>2 DEF SourceInv
    <2> QED
      BY <1>2, <2>1, <2>2, NoSource
  <1>5. \A b \in Block : block[b] # "away" => block'[b] = block[b]
    BY DEF SlowPath, ClearRedo, Collect, AwayOf
  <1>6. pc[i] \notin {"stamp", "store", "take", "bump", "wipe", "push"}
        /\ pc'[i] \notin {"stamp", "store", "take", "bump", "wipe", "push"}
    BY <1>2 DEF ObjectLabel, RootLabel
  <1> QED
    BY <1>1, <1>2, <1>3, <1>4, <1>5, <1>6, QuietCount

(* What the RootRef of a link or an unlink counts for before its CAS.      *)
LEMMA PreCasView ==
  ASSUME TypeInv, RedoInv, CountInv, NEW i \in Thread, slot[i] = "run", pc[i] \in PreCas
  PROVE  /\ op[i].ref \in RootRef /\ Home[op[i].ref] = i /\ inUse[op[i].ref]
         /\ op[i].refed \in CXLObj /\ op[i].func \in {"LINK", "UNLINK"}
         /\ View(op[i].ref) = IF op[i].func = "LINK" THEN NULL ELSE op[i].refed
  <1>1. /\ op[i].ref \in RootRef /\ Home[op[i].ref] = i /\ inUse[op[i].ref]
        /\ op[i].refed \in CXLObj /\ op[i].func \in {"LINK", "UNLINK"}
    BY Acting DEF OpShape, LinkLabel
  <1>2. pptr[op[i].ref] = IF op[i].func = "LINK" THEN NULL ELSE op[i].refed
    BY <1>1, Acting DEF OpHolds, HoldInv
  <1>3. ~MonMine(op[i].ref) /\ ~Unstored(i) /\ ~Taking(i)
    BY <1>1, RunApart DEF Unstored, Taking, PreCas
  <1> QED
    BY <1>1, <1>2, <1>3, ViewIs DEF ViewTable, TypeInv

(* The count that a client reads leaves room for the change it is about to *)
(* make.                                                                   *)
LEMMA ReadFits ==
  ASSUME TypeInv, RedoInv, CountInv, FewRefs, NEW i \in Thread, slot[i] = "run",
         pc[i] \in PreCas
  PROVE  refInfo[op[i].refed].cnt + Delta(i) \in 0 .. CNT_LIMIT - 1
  <1>1. CASE op[i].func = "LINK"
    <2>1. refInfo[op[i].refed].cnt \in 0 .. CNT_LIMIT - 2
      BY <1>1, PreCasView, NotHeld, NotNull
    <2> QED
      BY <1>1, <2>1, SizeAssumption DEF Delta
  <1>2. CASE op[i].func # "LINK"
    <2>1. refInfo[op[i].refed].cnt \in 1 .. CNT_LIMIT - 1
      BY <1>2, PreCasView, Held
    <2> QED
      BY <1>2, <2>1, SizeAssumption DEF Delta
  <1> QED
    BY <1>1, <1>2

LEMMA PreCasCount ==
  ASSUME NEW i \in Thread, TypeInv, EraInv, RedoInv, CountInv, FewRefs,
         ReadInfo(i) \/ NoteEra(i) \/ WriteLog(i) \/ CasRetry(i)
  PROVE  CountInv' /\ Steady
  <1>1. /\ Step(i) /\ slot[i] = "run" /\ pc[i] \in PreCas
        /\ UNCHANGED <<refInfo, inUse, pptr, slot, block>>
    BY DEF Step, ReadInfo, NoteEra, WriteLog, CasRetry, Running, PreCas
  <1>2. TypeOK /\ HoldInv(i) /\ SourceInv(i) /\ LogActive(i)
    BY <1>1, Acting
  <1>3. /\ op'[i].func = op[i].func /\ op'[i].ref = op[i].ref /\ op'[i].refed = op[i].refed
        /\ op'[i].src = op[i].src /\ pc'[i] \in PreCas
        /\ \A k \in Thread : op'[k].ref = op[k].ref
        /\ \/ op'[i].saw = refInfo[op[i].refed]
           \/ op'[i].saw = op[i].saw /\ pc[i] \in {"note", "log", "cas"}
    <2>1. CASE ReadInfo(i)
      BY <1>2, <2>1 DEF ReadInfo, TypeOK, Op, PreCas
    <2>2. CASE NoteEra(i)
      BY <1>2, <2>2 DEF NoteEra, TypeOK, PreCas, Running
    <2>3. CASE WriteLog(i)
      BY <1>2, <2>3 DEF WriteLog, TypeOK, PreCas, Running
    <2>4. CASE CasRetry(i)
      BY <1>2, <2>4 DEF CasRetry, TypeOK, PreCas, Running
    <2> QED
      BY <2>1, <2>2, <2>3, <2>4
  <1>4. op'[i].saw.cnt + Delta(i) \in 0 .. CNT_LIMIT - 1
    BY <1>1, <1>2, <1>3, ReadFits DEF HoldInv
  <1>5. HoldInv(i)'
    <2>1. inUse'[op'[i].ref] /\ (op'[i].func = "LINK" => pptr'[op'[i].ref] = NULL)
      BY <1>1, <1>2, <1>3 DEF HoldInv, LinkLabel
    <2>2. op'[i].saw.cnt + Delta(i)' \in 0 .. CNT_LIMIT - 1
      BY <1>3, <1>4 DEF Delta
    <2> QED
      BY <1>3, <2>1, <2>2 DEF HoldInv, Taking, PreCas, ObjectLabel
  <1>6. SourceInv(i)'
    <2>1. CASE op[i].func = "LINK"
      <3>1. PICK s : s = op[i].src
        OBVIOUS
      <3>2. s \in RootRef /\ inUse[s] /\ pptr[s] = op[i].refed /\ op[Home[s]].ref # s
            /\ (slot[Home[s]] = "run" \/ (Quiescent /\ slot[Home[s]] = "dead"))
            /\ Home[s] \in Thread
        BY <1>1, <1>2, <2>1, <3>1, BlockAssumption DEF SourceInv, Block
      <3> QED
        BY <1>1, <1>3, <3>1, <3>2 DEF SourceInv
    <2> QED
      BY <1>3, <2>1, NoSource
  <1>7. pc[i] \notin {"stamp", "store", "take", "bump", "wipe", "push"}
        /\ pc'[i] \notin {"stamp", "store", "take", "bump", "wipe", "push"}
    BY <1>1, <1>3 DEF PreCas
  <1> QED
    BY <1>1, <1>3, <1>5, <1>6, <1>7, QuietCount

-----------------------------------------------------------------------------
(* Allocation.                                                             *)

LEMMA BlockToTbrCount ==
  ASSUME NEW i \in Thread, TypeInv, EraInv, RedoInv, CountInv, BlockToTbr(i)
  PROVE  CountInv' /\ Steady
  <1>1. /\ Step(i) /\ slot[i] = "run" /\ pc[i] = "root" /\ UNCHANGED <<refInfo, slot, mon>>
    BY DEF Step, BlockToTbr, Running
  <1>2. TypeOK /\ OpShape(i) /\ HoldInv(i) /\ SourceInv(i) /\ LogActive(i)
    BY <1>1, Acting
  <1>3. op[i].ref = NULL /\ op[i].func \in {"ALLOC", "LINK"}
    BY <1>1, <1>2 DEF OpShape, RootLabel
  <1>4. PICK r \in RootRef :
          /\ Home[r] = i /\ block[r] = "free"
          /\ block' = [block EXCEPT ![r] = "used"]
          /\ pptr' = [pptr EXCEPT ![r] = NULL]
          /\ inUse' = [inUse EXCEPT ![r] = TRUE]
          /\ op' = [op EXCEPT ![i].ref = r]
          /\ pc' = [pc EXCEPT ![i] = IF op[i].func = "ALLOC" THEN "object" ELSE "read"]
    BY DEF BlockToTbr, FreeOf
  <1>5. ~inUse[r]
    BY <1>4 DEF RedoInv
  <1>6. /\ inUse'[r] /\ pptr'[r] = NULL /\ block'[r] = "used"
        /\ \A l \in RootRef \ {r} : inUse'[l] = inUse[l] /\ pptr'[l] = pptr[l]
        /\ \A b \in Block \ {r} : block'[b] = block[b]
        /\ op'[i].ref = r /\ op'[i].func = op[i].func /\ op'[i].refed = op[i].refed
        /\ op'[i].src = op[i].src
        /\ pc'[i] = IF op[i].func = "ALLOC" THEN "object" ELSE "read"
    <2>1. /\ inUse'[r] /\ pptr'[r] = NULL
          /\ \A l \in RootRef \ {r} : inUse'[l] = inUse[l] /\ pptr'[l] = pptr[l]
      BY <1>2, <1>4 DEF TypeOK
    <2>2. block'[r] = "used" /\ \A b \in Block \ {r} : block'[b] = block[b]
      BY <1>2, <1>4 DEF TypeOK, Block
    <2>3. /\ op'[i].ref = r /\ op'[i].func = op[i].func /\ op'[i].refed = op[i].refed
          /\ op'[i].src = op[i].src
      BY <1>2, <1>4 DEF TypeOK, Op
    <2>4. pc'[i] = IF op[i].func = "ALLOC" THEN "object" ELSE "read"
      BY <1>2, <1>4 DEF TypeOK
    <2> QED
      BY <2>1, <2>2, <2>3, <2>4
  <1>7. \A o \in CXLObj : block'[o] = block[o]
    BY <1>6, NotNull DEF Block
  <1>8. View(r) = NULL
    BY <1>5 DEF View
  <1>9. View(r)' = NULL
    <2>1. ~MonMine(r)' /\ ~Unstored(i)' /\ ~Taking(i)'
      BY <1>1, <1>4, <1>6, RunApart DEF MonMine, Unstored, Taking
    <2> QED
      BY <1>4, <1>6, <2>1 DEF View, MonMine, Unstored, Taking
  <1>10. \A l \in RootRef \ {r} : View(l)' = View(l)
    BY <1>1, <1>3, <1>6, NotNull, ViewOther
  <1>11. Steady /\ CountExact'
    <2>1. Steady
      BY <1>1, <1>8, <1>9, <1>10 DEF Steady
    <2> QED
      BY <2>1, CountSame DEF CountInv
  <1>12. Used'
    BY <1>7, <1>9, <1>10, UsedKept DEF CountInv
  <1>13. ~Claims(i)'
    BY <1>6 DEF Claims
  <1>14. ClaimInv'
    BY <1>1, <1>4, <1>6, <1>7, <1>13, ClaimStep DEF CountInv, Unheld
  <1>15. HoldInv(i)'
    BY <1>2, <1>6 DEF HoldInv, Taking, ObjectLabel
  <1>16. SourceInv(i)'
    <2>1. CASE op[i].func = "LINK"
      <3>1. PICK s : s = op[i].src
        OBVIOUS
      <3>2. s \in RootRef /\ inUse[s] /\ pptr[s] = op[i].refed /\ op[Home[s]].ref # s
            /\ (slot[Home[s]] = "run" \/ (Quiescent /\ slot[Home[s]] = "dead"))
            /\ Home[s] \in Thread
        BY <1>1, <1>2, <2>1, <3>1, BlockAssumption DEF SourceInv, Block, RootLabel
      <3>3. s # r
        BY <1>5, <3>2
      <3>4. op'[Home[s]].ref # s
        BY <1>2, <1>4, <3>2, <3>3 DEF TypeOK, Op
      <3> QED
        BY <1>1, <1>6, <3>1, <3>2, <3>3, <3>4 DEF SourceInv
    <2> QED
      BY <1>6, <2>1, NoSource
  <1>17. /\ \A l \in RootRef : Home[l] # i \/ (op[i].ref # l /\ inUse[l]) =>
              inUse'[l] = inUse[l] /\ pptr'[l] = pptr[l]
         /\ \A l \in RootRef : op'[i].ref = l => ~inUse[l]
    BY <1>4, <1>5, <1>6
  <1> QED
    BY <1>1, <1>7, <1>11, <1>12, <1>14, <1>15, <1>16, <1>17, ClientCount

LEMMA LinkBlockToTbrCount ==
  ASSUME NEW i \in Thread, TypeInv, TypeInv', EraInv, RedoInv, CountInv, LinkBlockToTbr(i)
  PROVE  CountInv' /\ Steady
  <1>1. /\ Step(i) /\ slot[i] = "run" /\ pc[i] = "object"
        /\ UNCHANGED <<refInfo, inUse, block, slot, mon>>
    BY DEF Step, LinkBlockToTbr, Running
  <1>2. /\ TypeOK /\ OpShape(i) /\ HoldInv(i) /\ LogActive(i) /\ op[i].func = "ALLOC"
        /\ op[i].ref \in RootRef /\ Home[op[i].ref] = i /\ inUse[op[i].ref]
    BY <1>1, Acting DEF OpShape, AllocLabel, ObjectLabel
  <1>3. PICK o \in CXLObj :
          /\ block[o] = "free"
          /\ pptr' = [pptr EXCEPT ![op[i].ref] = o] /\ op' = [op EXCEPT ![i].refed = o]
    BY DEF LinkBlockToTbr, FreeOf
  <1>4. PICK r \in RootRef : r = op[i].ref
    BY <1>2
  <1>5. /\ pptr'[r] = o /\ pptr[r] = NULL
        /\ \A l \in RootRef \ {r} : pptr'[l] = pptr[l]
        /\ op'[i].ref = r /\ op'[i].func = op[i].func /\ op'[i].refed = o
        /\ pc'[i] = "take"
    BY <1>1, <1>2, <1>3, <1>4 DEF TypeOK, Op, LinkBlockToTbr, HoldInv, ObjectLabel
  <1>6. View(r) = NULL
    <2>1. ~Unstored(i) /\ ~Taking(i)
      BY <1>1 DEF Unstored, Taking
    <2> QED
      BY <1>2, <1>4, <1>5, <2>1, ViewIs DEF ViewTable, TypeInv
  <1>7. View(r)' = NULL
    <2>1. Taking(i)' /\ Mine(r)' /\ inUse'[r]
      BY <1>1, <1>2, <1>4, <1>5 DEF Taking, Mine
    <2> QED
      BY <1>2, <1>4, <2>1, ViewNext DEF ViewTable, TypeInv
  <1>8. \A l \in RootRef \ {r} : View(l)' = View(l)
    BY <1>1, <1>4, <1>5, ViewOther
  <1>9. Steady /\ CountExact'
    <2>1. Steady
      BY <1>1, <1>6, <1>7, <1>8 DEF Steady
    <2> QED
      BY <2>1, CountSame DEF CountInv
  <1>10. Used'
    BY <1>1, <1>7, <1>8, UsedKept DEF CountInv
  <1>11. ~Claims(i)'
    BY <1>5 DEF Claims
  <1>12. ClaimInv'
    BY <1>1, <1>2, <1>4, <1>5, <1>11, ClaimStep DEF CountInv, Unheld
  <1>13. HoldInv(i)'
    BY <1>1, <1>2, <1>3, <1>4, <1>5 DEF HoldInv, Taking, ObjectLabel, PreCas
  <1>14. SourceInv(i)'
    BY <1>2, <1>5, NoSource
  <1> QED
    BY <1>1, <1>2, <1>4, <1>5, <1>9, <1>10, <1>12, <1>13, <1>14, ClientCount

LEMMA TakeBlockCount ==
  ASSUME NEW i \in Thread, TypeInv, EraInv, RedoInv, CountInv, FewRefs, TakeBlock(i)
  PROVE  CountInv' /\ Steady
  <1>1. /\ Step(i) /\ slot[i] = "run" /\ pc[i] = "take"
        /\ UNCHANGED <<refInfo, inUse, pptr, slot, op, mon>>
        /\ pc' = [pc EXCEPT ![i] = "stamp"]
        /\ block' = [block EXCEPT ![op[i].refed] = "used"]
    BY DEF Step, TakeBlock, Running
  <1>2. /\ TypeOK /\ HoldInv(i) /\ LogActive(i) /\ op[i].func = "ALLOC"
        /\ op[i].ref \in RootRef /\ Home[op[i].ref] = i /\ inUse[op[i].ref]
        /\ op[i].refed \in CXLObj /\ Home[op[i].refed] = i /\ block[op[i].refed] = "free"
    BY <1>1, Acting DEF OpShape, AllocLabel, HoldInv
  <1>3. PICK x \in CXLObj : x = op[i].refed
    BY <1>2
  <1>4. /\ pc'[i] = "stamp" /\ block'[x] = "used"
        /\ \A b \in Block \ {x} : block'[b] = block[b]
    BY <1>1, <1>2, <1>3 DEF TypeOK, Block
  <1>5. Taking(i) /\ Taking(i)' /\ ~Unstored(i) /\ ~Unstored(i)'
    BY <1>1, <1>4 DEF Taking, Unstored
  <1>6. ASSUME NEW l \in RootRef PROVE View(l)' = View(l)
    <2>1. CASE Home[l] # i \/ op[i].ref # l
      BY <1>1, <2>1, ViewOther
    <2>2. CASE Home[l] = i /\ op[i].ref = l
      BY <1>1, <1>5, <2>2, ViewSame DEF Mine, MonMine
    <2> QED
      BY <2>1, <2>2
  <1>7. Steady /\ CountExact'
    <2>1. Steady
      BY <1>1, <1>6 DEF Steady
    <2> QED
      BY <2>1, CountSame DEF CountInv
  <1>8. Used'
    BY <1>3, <1>4, <1>6, UsedKept DEF CountInv, Block
  <1>9. refInfo[x].cnt = 0 /\ block[x] = "free"
    BY <1>2, <1>3, NoHolder
  <1>10. ~Unheld(x) /\ Unheld(x)' /\ \A o \in CXLObj : Unheld(o) => Unheld(o)'
    BY <1>1, <1>4, <1>9 DEF Unheld, Block
  <1>11. ClaimInv'
    BY <1>1, <1>3, <1>4, <1>10, ClaimStep DEF CountInv
  <1>12. HoldInv(i)'
    BY <1>1, <1>2, <1>4 DEF HoldInv, Taking, ObjectLabel, PreCas
  <1>13. SourceInv(i)'
    BY <1>1, <1>2, NoSource
  <1>14. \A o \in CXLObj : Home[o] # i /\ block[o] = "free" => block'[o] = "free"
    BY <1>2, <1>3, <1>4 DEF Block
  <1> QED
    BY <1>1, <1>7, <1>8, <1>11, <1>12, <1>13, <1>14, ClientCount

LEMMA StampObjectCount ==
  ASSUME NEW i \in Thread, TypeInv, TypeInv', EraInv, RedoInv, CountInv, FewRefs,
         StampObject(i)
  PROVE  /\ CountInv'
         /\ \E r \in RootRef, x \in CXLObj :
              r = op[i].ref /\ x = op[i].refed /\ Unheld(x) /\ Gains(r, x)
  <1>1. /\ Step(i) /\ slot[i] = "run" /\ pc[i] = "stamp"
        /\ UNCHANGED <<inUse, pptr, slot, mon, block>>
        /\ pc' = [pc EXCEPT ![i] = "idle"] /\ op' = [op EXCEPT ![i] = NoOp]
        /\ refInfo' = [refInfo EXCEPT ![op[i].refed] = PackRefInfo(i, 1, era[i][i] - 1)]
    BY DEF Step, StampObject, Running, Return
  <1>2. /\ TypeOK /\ HoldInv(i) /\ LogActive(i)
        /\ op[i].ref \in RootRef /\ Home[op[i].ref] = i /\ inUse[op[i].ref]
        /\ op[i].refed \in CXLObj /\ pptr[op[i].ref] = op[i].refed
    BY <1>1, Acting DEF OpShape, AllocLabel, HoldInv, Taking
  <1>3. PICK x \in CXLObj, r \in RootRef : x = op[i].refed /\ r = op[i].ref
    BY <1>2
  <1>4. PackRefInfo(i, 1, era[i][i] - 1).cnt = 1
    BY SizeAssumption DEF PackRefInfo
  <1>5. /\ pc'[i] = "idle" /\ op'[i] = NoOp /\ refInfo'[x].cnt = 1
        /\ \A o \in CXLObj \ {x} : refInfo'[o] = refInfo[o]
    BY <1>1, <1>2, <1>3, <1>4 DEF TypeOK
  <1>6. Claims(i) /\ ~Claims(i)' /\ Unheld(x)
    BY <1>1, <1>3, <1>5 DEF Claims, CountInv, ClaimInv, NoOp
  <1>7. View(r) = NULL
    BY <1>1, <1>2, <1>3, ViewIs DEF ViewTable, TypeInv, Mine, Taking
  <1>8. View(r)' = x
    <2>1. ~MonMine(r)' /\ ~Mine(r)'
      BY <1>1, <1>2, <1>3, <1>5, RunApart, NotNull DEF MonMine, Mine, NoOp
    <2> QED
      BY <1>1, <1>2, <1>3, <2>1, ViewNext DEF ViewTable, TypeInv
  <1>9. \A l \in RootRef \ {r} : View(l)' = View(l)
    BY <1>1, <1>3, <1>5, NotNull, ViewOther DEF NoOp
  <1>10. Gains(r, x) /\ CountExact'
    <2>1. Gains(r, x)
      BY <1>5, <1>6, <1>7, <1>8, <1>9 DEF Gains, Unheld
    <2> QED
      BY <2>1, CountAdd DEF CountInv
  <1>11. Used'
    BY <1>1, <1>6, <1>8, <1>9, UsedKept DEF CountInv, Unheld, Block
  <1>12. ClaimInv'
    BY <1>1, <1>3, <1>5, <1>6, ClaimStep DEF CountInv, Unheld
  <1>13. HoldInv(i)' /\ SourceInv(i)'
    BY <1>5, RootHold, NoSource DEF NoOp
  <1>14. \A l \in RootRef : op'[i].ref # l
    BY <1>5, NotNull DEF NoOp
  <1>15. CountInv'
    BY <1>1, <1>10, <1>11, <1>12, <1>13, <1>14, ClientCount
  <1> QED
    BY <1>3, <1>6, <1>10, <1>15

-----------------------------------------------------------------------------
(* The CAS and the store of the pointer.                                   *)

LEMMA CasInfoCount ==
  ASSUME NEW i \in Thread, TypeInv, TypeInv', EraInv, RedoInv, CountInv, FewRefs,
         CasInfo(i)
  PROVE  /\ CountInv'
         /\ \E r \in RootRef, x \in CXLObj :
              /\ r = op[i].ref /\ x = op[i].refed /\ block[x] = "used"
              /\ \/ op[i].func = "LINK" /\ Gains(r, x)
                 \/ op[i].func = "UNLINK" /\ Loses(r, x)
  <1>1. /\ Step(i) /\ slot[i] = "run" /\ pc[i] = "cas" /\ pc[i] \in PreCas
        /\ UNCHANGED <<inUse, pptr, slot, mon, block>>
        /\ refInfo[op[i].refed] = op[i].saw
        /\ refInfo' = [refInfo EXCEPT ![op[i].refed] =
                        PackRefInfo(i, op[i].saw.cnt + Delta(i), era[i][i])]
        /\ op' = [op EXCEPT ![i].src = NULL] /\ pc' = [pc EXCEPT ![i] = "store"]
    BY DEF Step, CasInfo, Running, PreCas
  <1>2. TypeOK /\ HoldInv(i) /\ SourceInv(i) /\ LogActive(i)
    BY <1>1, Acting
  <1>3. PICK x \in CXLObj, r \in RootRef : x = op[i].refed /\ r = op[i].ref
    BY <1>1, PreCasView
  <1>4. /\ Home[r] = i /\ inUse[r] /\ op[i].func \in {"LINK", "UNLINK"}
        /\ View(r) = IF op[i].func = "LINK" THEN NULL ELSE x
    BY <1>1, <1>3, PreCasView
  <1>5. op[i].saw.cnt + Delta(i) \in 0 .. CNT_LIMIT - 1
    BY <1>1, <1>2 DEF HoldInv
  <1>6. PackRefInfo(i, op[i].saw.cnt + Delta(i), era[i][i]).cnt = op[i].saw.cnt + Delta(i)
    <2>1. era[i][i] \in Nat
      BY <1>2 DEF TypeOK
    <2> QED
      BY <1>5, <2>1, PackExact
  <1>7. /\ pc'[i] = "store" /\ op'[i].func = op[i].func /\ op'[i].ref = r /\ op'[i].refed = x
        /\ op'[i].saw = op[i].saw
    BY <1>1, <1>2, <1>3 DEF TypeOK, Op
  <1>8. /\ refInfo'[x].cnt = refInfo[x].cnt + Delta(i) /\ refInfo[x].cnt = op[i].saw.cnt
        /\ \A o \in CXLObj \ {x} : refInfo'[o] = refInfo[o]
    BY <1>1, <1>2, <1>3, <1>6 DEF TypeOK
  <1>9. block[x] = "used" /\ refInfo[x].cnt \in 1 .. CNT_LIMIT - 1
    <2>1. CASE op[i].func = "LINK"
      <3>1. Linking(i)
        BY <1>1, <2>1 DEF Linking
      <3> QED
        BY <1>3, <3>1, SourceView, Held
    <2>2. CASE op[i].func = "UNLINK"
      BY <1>4, <2>2, Held
    <2> QED
      BY <1>4, <2>1, <2>2
  <1>10. View(r)' = IF op[i].func = "LINK" THEN x ELSE NULL
    <2>1. ~Redone(i)'
      BY <1>1, RunApart DEF Redone
    <2>2. Mine(r)' /\ Unstored(i)' /\ inUse'[r]
      BY <1>1, <1>4, <1>7, <2>1 DEF Mine, Unstored
    <2> QED
      BY <1>4, <1>7, <2>2, ViewNext DEF ViewTable, TypeInv
  <1>11. \A l \in RootRef \ {r} : View(l)' = View(l)
    BY <1>1, <1>3, <1>7, ViewOther
  <1>12. /\ CountExact'
         /\ \/ op[i].func = "LINK" /\ Gains(r, x)
            \/ op[i].func = "UNLINK" /\ Loses(r, x)
    <2>1. CASE op[i].func = "LINK"
      <3>1. refInfo'[x].cnt = refInfo[x].cnt + 1
        BY <1>8, <2>1 DEF Delta
      <3> QED
        <4>1. Gains(r, x)
          BY <1>4, <1>8, <1>10, <1>11, <2>1, <3>1 DEF Gains
        <4> QED
          BY <2>1, <4>1, CountAdd DEF CountInv
    <2>2. CASE op[i].func = "UNLINK"
      <3>1. refInfo'[x].cnt = refInfo[x].cnt - 1
        BY <1>8, <1>9, <2>2 DEF Delta
      <3> QED
        <4>1. Loses(r, x)
          BY <1>4, <1>8, <1>10, <1>11, <2>2, <3>1 DEF Loses
        <4> QED
          BY <2>2, <4>1, CountDel, NotNull DEF CountInv
    <2> QED
      BY <1>4, <2>1, <2>2
  <1>13. Used'
    BY <1>1, <1>9, <1>10, <1>11, UsedKept DEF CountInv, Block
  <1>14. ~Claims(i) /\ ~Unheld(x)
    BY <1>1, <1>9 DEF Claims, Unheld
  <1>15. \A o \in CXLObj : Unheld(o) => Unheld(o)'
    BY <1>1, <1>8, <1>14 DEF Unheld
  <1>16. Claims(i)' => Unheld(x)'
    <2> SUFFICES ASSUME Claims(i)' PROVE Unheld(x)'
      OBVIOUS
    <2>1. op[i].func = "UNLINK" /\ op[i].saw.cnt = 1
      BY <1>7 DEF Claims
    <2>2. refInfo'[x].cnt = 0
      BY <1>8, <2>1 DEF Delta
    <2> QED
      BY <1>1, <1>9, <2>2 DEF Unheld
  <1>17. ClaimInv'
    BY <1>1, <1>7, <1>14, <1>15, <1>16, ClaimStep DEF CountInv
  <1>18. HoldInv(i)'
    <2>1. inUse'[op'[i].ref] /\ (op'[i].func = "LINK" => pptr'[op'[i].ref] = NULL)
      BY <1>1, <1>2, <1>3, <1>4, <1>7 DEF HoldInv
    <2> QED
      BY <1>7, <2>1 DEF HoldInv, Taking, ObjectLabel
  <1>19. SourceInv(i)'
    BY <1>7, NoSource DEF RootLabel, PreCas
  <1>20. \A l \in RootRef : op'[i].ref = l => op[i].ref = l
    BY <1>3, <1>7
  <1>21. CountInv'
    BY <1>1, <1>12, <1>13, <1>17, <1>18, <1>19, <1>20, ClientCount
  <1> QED
    BY <1>3, <1>9, <1>12, <1>21

LEMMA StoreRefCount ==
  ASSUME NEW i \in Thread, TypeInv, TypeInv', EraInv, RedoInv, CountInv, StoreRef(i)
  PROVE  CountInv' /\ Steady
  <1>1. /\ Step(i) /\ slot[i] = "run" /\ pc[i] = "store"
        /\ UNCHANGED <<refInfo, inUse, slot, mon, block, op>>
        /\ pc' = [pc EXCEPT ![i] = "bump"]
        /\ pptr' = [pptr EXCEPT ![op[i].ref] =
                     IF op[i].func = "LINK" THEN op[i].refed ELSE NULL]
    BY DEF Step, StoreRef, Running
  <1>2. /\ TypeOK /\ HoldInv(i) /\ LogActive(i) /\ ~Redone(i)
        /\ op[i].ref \in RootRef /\ Home[op[i].ref] = i /\ inUse[op[i].ref]
    BY <1>1, Acting DEF LinkLabel, PostCas
  <1>3. PICK r \in RootRef : r = op[i].ref
    BY <1>2
  <1>4. /\ pc'[i] = "bump" /\ pptr'[r] = IF op[i].func = "LINK" THEN op[i].refed ELSE NULL
        /\ \A l \in RootRef \ {r} : pptr'[l] = pptr[l]
    BY <1>1, <1>2, <1>3 DEF TypeOK
  <1>5. View(r) = IF op[i].func = "LINK" THEN op[i].refed ELSE NULL
    BY <1>1, <1>2, <1>3, ViewIs DEF ViewTable, TypeInv, Mine, Unstored
  <1>6. View(r)' = View(r)
    <2>1. ~MonMine(r)' /\ ~Unstored(i)' /\ ~Taking(i)' /\ inUse'[r]
      BY <1>1, <1>2, <1>3, <1>4, RunApart DEF MonMine, Unstored, Taking
    <2>2. View(r)' = pptr'[r]
      BY <1>2, <1>3, <2>1, ViewNext DEF ViewTable, TypeInv
    <2> QED
      BY <1>4, <1>5, <2>2
  <1>7. \A l \in RootRef : View(l)' = View(l)
    BY <1>1, <1>3, <1>4, <1>6, ViewOther
  <1>8. Steady /\ CountExact'
    <2>1. Steady
      BY <1>1, <1>7 DEF Steady
    <2> QED
      BY <2>1, CountSame DEF CountInv
  <1>9. Used'
    BY <1>1, <1>7, UsedKept DEF CountInv
  <1>10. Claims(i)' => Claims(i) /\ Unheld(op[i].refed)
    BY <1>1, <1>4 DEF Claims, CountInv, ClaimInv
  <1>11. ClaimInv'
    BY <1>1, <1>2, <1>3, <1>4, <1>10, ClaimStep DEF CountInv, Unheld
  <1>12. HoldInv(i)'
    BY <1>1, <1>2, <1>4 DEF HoldInv, Taking, ObjectLabel, PreCas
  <1>13. SourceInv(i)'
    BY <1>4, NoSource DEF RootLabel, PreCas
  <1>14. \A l \in RootRef : Home[l] # i \/ (op[i].ref # l /\ inUse[l]) =>
           inUse'[l] = inUse[l] /\ pptr'[l] = pptr[l]
    BY <1>1, <1>2, <1>3, <1>4
  <1> QED
    BY <1>1, <1>8, <1>9, <1>11, <1>12, <1>13, <1>14, ClientCount

LEMMA BumpEraCount ==
  ASSUME NEW i \in Thread, TypeInv, TypeInv', EraInv, RedoInv, CountInv, BumpEra(i)
  PROVE  CountInv' /\ Steady
  <1>1. /\ Step(i) /\ slot[i] = "run" /\ pc[i] = "bump"
        /\ UNCHANGED <<refInfo, inUse, pptr, slot, mon, block>>
        /\ \/ /\ op[i].func = "LINK"
              /\ pc' = [pc EXCEPT ![i] = "idle"] /\ op' = [op EXCEPT ![i] = NoOp]
           \/ /\ op[i].func # "LINK" /\ op' = op
              /\ pc' = [pc EXCEPT ![i] = IF op[i].saw.cnt = 1 THEN "wipe" ELSE "release"]
    BY DEF Step, BumpEra, Running, Return, LastReference
  <1>2. /\ TypeOK /\ HoldInv(i) /\ LogActive(i) /\ op[i].func \in {"LINK", "UNLINK"}
        /\ op[i].ref \in RootRef /\ Home[op[i].ref] = i /\ inUse[op[i].ref]
    BY <1>1, Acting DEF OpShape, LinkLabel, PostCas
  <1>3. PICK r \in RootRef : r = op[i].ref
    BY <1>2
  <1>4. \/ op[i].func = "LINK" /\ pc'[i] = "idle" /\ op'[i] = NoOp
        \/ /\ op[i].func = "UNLINK" /\ op'[i] = op[i]
           /\ pc'[i] = IF op[i].saw.cnt = 1 THEN "wipe" ELSE "release"
    BY <1>1, <1>2 DEF TypeOK
  <1>5. View(r) = pptr[r]
    <2>1. ~MonMine(r) /\ ~Unstored(i) /\ ~Taking(i)
      BY <1>1, <1>2, <1>3, RunApart DEF Unstored, Taking
    <2> QED
      BY <1>2, <1>3, <2>1, ViewIs DEF ViewTable, TypeInv
  <1>6. View(r)' = pptr[r]
    <2>1. ~MonMine(r)' /\ ~Unstored(i)' /\ ~Taking(i)' /\ inUse'[r] /\ pptr'[r] = pptr[r]
      BY <1>1, <1>2, <1>3, <1>4, RunApart DEF MonMine, Unstored, Taking
    <2> QED
      BY <1>2, <1>3, <2>1, ViewNext DEF ViewTable, TypeInv
  <1>7. \A l \in RootRef : op'[i].ref = l => op[i].ref = l
    BY <1>4, NotNull DEF NoOp
  <1>8. \A l \in RootRef : View(l)' = View(l)
    BY <1>1, <1>3, <1>5, <1>6, <1>7, ViewOther
  <1>9. Steady /\ CountExact'
    <2>1. Steady
      BY <1>1, <1>8 DEF Steady
    <2> QED
      BY <2>1, CountSame DEF CountInv
  <1>10. Used'
    BY <1>1, <1>8, UsedKept DEF CountInv
  <1>11. ClaimInv'
    <2>1. CASE op[i].func = "LINK"
      <3>1. ~Claims(i)' /\ pc'[i] = "idle"
        BY <1>4, <2>1 DEF Claims
      <3> QED
        BY <1>1, <3>1, ClaimStep DEF CountInv, Unheld
    <2>2. CASE op[i].func = "UNLINK"
      <3>1. op'[i] = op[i] /\ pc'[i] = IF op[i].saw.cnt = 1 THEN "wipe" ELSE "release"
        BY <1>4, <2>2
      <3>2. Claims(i)' => Claims(i) /\ Unheld(op[i].refed)
        BY <1>1, <3>1 DEF Claims, CountInv, ClaimInv
      <3> QED
        BY <1>1, <3>1, <3>2, ClaimStep DEF CountInv, Unheld
    <2> QED
      BY <1>2, <2>1, <2>2
  <1>12. HoldInv(i)'
    <2>1. CASE pc'[i] = "idle"
      BY <2>1, RootHold
    <2>2. CASE op'[i] = op[i] /\ pc'[i] \in {"wipe", "release"}
      BY <1>1, <1>2, <2>2 DEF HoldInv, Taking, ObjectLabel, PreCas
    <2> QED
      BY <1>4, <2>1, <2>2
  <1>13. SourceInv(i)'
    BY <1>4, NoSource DEF RootLabel, PreCas
  <1> QED
    BY <1>1, <1>7, <1>9, <1>10, <1>11, <1>12, <1>13, ClientCount

-----------------------------------------------------------------------------
(* Freeing the object, and the RootRef.                                    *)

LEMMA WipeObjectCount ==
  ASSUME NEW i \in Thread, TypeInv, EraInv, RedoInv, CountInv, WipeObject(i)
  PROVE  CountInv' /\ Steady
  <1>1. /\ Step(i) /\ slot[i] = "run" /\ pc[i] = "wipe"
        /\ UNCHANGED <<inUse, pptr, slot, mon, block, op>>
        /\ pc' = [pc EXCEPT ![i] = "push"]
        /\ refInfo' = [refInfo EXCEPT ![op[i].refed] = ZeroInfo]
    BY DEF Step, WipeObject, Running
  <1>2. /\ TypeOK /\ HoldInv(i) /\ LogActive(i) /\ op[i].func = "UNLINK"
        /\ op[i].ref \in RootRef /\ Home[op[i].ref] = i /\ inUse[op[i].ref]
        /\ op[i].refed \in CXLObj
    BY <1>1, Acting DEF OpShape, LinkLabel, FreeLabel
  <1>3. PICK r \in RootRef, x \in CXLObj : r = op[i].ref /\ x = op[i].refed
    BY <1>2
  <1>4. /\ pc'[i] = "push" /\ refInfo'[x].cnt = 0
        /\ \A o \in CXLObj \ {x} : refInfo'[o] = refInfo[o]
    BY <1>1, <1>2, <1>3 DEF TypeOK, ZeroInfo
  <1>5. Claims(i) /\ Unheld(x) /\ op[i].saw.cnt = 1
    BY <1>1, <1>2, <1>3 DEF Claims, CountInv, ClaimInv
  <1>6. \A o \in CXLObj : refInfo'[o].cnt = refInfo[o].cnt
    BY <1>4, <1>5 DEF Unheld
  <1>7. View(r)' = View(r)
    BY <1>1, <1>2, <1>3, <1>4, ViewSame DEF Mine, MonMine, Unstored, Redone, Taking
  <1>8. \A l \in RootRef : View(l)' = View(l)
    BY <1>1, <1>3, <1>7, ViewOther
  <1>9. Steady /\ CountExact'
    <2>1. Steady
      BY <1>6, <1>8 DEF Steady
    <2> QED
      BY <2>1, CountSame DEF CountInv
  <1>10. Used'
    BY <1>1, <1>8, UsedKept DEF CountInv
  <1>11. ClaimInv'
    <2>1. \A o \in CXLObj : Unheld(o) => Unheld(o)'
      BY <1>1, <1>6 DEF Unheld
    <2> QED
      BY <1>1, <1>3, <1>5, <2>1, ClaimStep DEF CountInv
  <1>12. HoldInv(i)'
    BY <1>1, <1>2, <1>4 DEF HoldInv, Taking, ObjectLabel, PreCas
  <1>13. SourceInv(i)'
    BY <1>4, NoSource DEF RootLabel, PreCas
  <1> QED
    BY <1>1, <1>9, <1>10, <1>11, <1>12, <1>13, ClientCount

LEMMA PushObjectCount ==
  ASSUME NEW i \in Thread, TypeInv, EraInv, RedoInv, CountInv, FewRefs, PushObject(i)
  PROVE  CountInv' /\ Steady
  <1>1. /\ Step(i) /\ slot[i] = "run" /\ pc[i] = "push"
        /\ UNCHANGED <<refInfo, inUse, pptr, slot, mon, op>>
        /\ pc' = [pc EXCEPT ![i] = "release"]
        /\ block' \in Pushed(i, op[i].refed, CXLObj)
    BY DEF Step, PushObject, Running
  <1>2. /\ TypeOK /\ HoldInv(i) /\ LogActive(i) /\ op[i].func = "UNLINK"
        /\ op[i].ref \in RootRef /\ Home[op[i].ref] = i /\ inUse[op[i].ref]
        /\ op[i].refed \in CXLObj
    BY <1>1, Acting DEF OpShape, LinkLabel, FreeLabel
  <1>3. PICK r \in RootRef, x \in CXLObj : r = op[i].ref /\ x = op[i].refed
    BY <1>2
  <1>4. Claims(i) /\ Unheld(x) /\ op[i].saw.cnt = 1
    BY <1>1, <1>2, <1>3 DEF Claims, CountInv, ClaimInv
  <1>5. \A b \in Block : b # x /\ (block[b] # "free" \/ Home[b] # i) => block'[b] = block[b]
    <2>1. PICK gone \in {{}, IF Home[x] = i THEN FreeOf(i, CXLObj) ELSE {}} :
            block' = [c \in Block |-> IF c = x \/ c \in gone THEN "away" ELSE block[c]]
      BY <1>1, <1>3 DEF Pushed
    <2> QED
      BY <2>1 DEF FreeOf
  <1>6. pc'[i] = "release" /\ ~Claims(i)'
    BY <1>1, <1>2 DEF TypeOK, Claims
  <1>7. View(r)' = View(r)
    BY <1>1, <1>2, <1>3, <1>6, ViewSame DEF Mine, MonMine, Unstored, Redone, Taking
  <1>8. \A l \in RootRef : View(l)' = View(l)
    BY <1>1, <1>3, <1>7, ViewOther
  <1>9. Steady /\ CountExact'
    <2>1. Steady
      BY <1>1, <1>8 DEF Steady
    <2> QED
      BY <2>1, CountSame DEF CountInv
  <1>10. Used'
    <2>1. \A l \in RootRef : View(l) # x
      BY <1>4, NoHolder DEF Unheld
    <2> QED
      BY <1>5, <1>8, <2>1, UsedKept DEF CountInv, Block
  <1>11. ClaimInv'
    <2>1. \A o \in CXLObj : Unheld(o) /\ o # x => Unheld(o)'
      BY <1>1, <1>5 DEF Unheld, Block
    <2> QED
      BY <1>1, <1>3, <1>4, <1>6, <2>1, ClaimStep DEF CountInv
  <1>12. HoldInv(i)'
    BY <1>1, <1>2, <1>6 DEF HoldInv, Taking, ObjectLabel, PreCas
  <1>13. SourceInv(i)'
    BY <1>6, NoSource DEF RootLabel, PreCas
  <1>14. \A o \in CXLObj : Home[o] # i /\ block[o] = "free" => block'[o] = "free"
    BY <1>4, <1>5 DEF Block, Unheld
  <1> QED
    BY <1>1, <1>9, <1>10, <1>11, <1>12, <1>13, <1>14, ClientCount

LEMMA ReleaseCount ==
  ASSUME NEW i \in Thread, TypeInv, EraInv, RedoInv, CountInv, Release(i)
  PROVE  CountInv' /\ Steady
  <1>1. /\ Step(i) /\ slot[i] = "run" /\ pc[i] = "release"
        /\ UNCHANGED <<refInfo, slot, mon>>
        /\ pc' = [pc EXCEPT ![i] = "idle"] /\ op' = [op EXCEPT ![i] = NoOp]
        /\ inUse' = [inUse EXCEPT ![op[i].ref] = FALSE]
        /\ pptr' = [pptr EXCEPT ![op[i].ref] = NULL]
        /\ block' \in Pushed(i, op[i].ref, RootRef)
    BY DEF Step, Release, Running, Return
  <1>2. /\ TypeOK /\ OpHolds(i) /\ op[i].func = "UNLINK"
        /\ op[i].ref \in RootRef /\ Home[op[i].ref] = i /\ inUse[op[i].ref]
    BY <1>1, Acting DEF OpShape, LinkLabel, FreeLabel
  <1>3. PICK r \in RootRef : r = op[i].ref
    BY <1>2
  <1>4. /\ pc'[i] = "idle" /\ op'[i] = NoOp /\ ~inUse'[r] /\ pptr'[r] = NULL /\ pptr[r] = NULL
        /\ \A l \in RootRef \ {r} : inUse'[l] = inUse[l] /\ pptr'[l] = pptr[l]
    BY <1>1, <1>2, <1>3 DEF TypeOK, OpHolds, Emptied, FreeLabel
  <1>5. \A o \in CXLObj : block'[o] = block[o]
    <2>1. PICK gone \in {{}, IF Home[r] = i THEN FreeOf(i, RootRef) ELSE {}} :
            block' = [c \in Block |-> IF c = r \/ c \in gone THEN "away" ELSE block[c]]
      BY <1>1, <1>3 DEF Pushed
    <2> QED
      BY <2>1, NotNull DEF FreeOf, Block
  <1>6. View(r) = NULL
    <2>1. ~Unstored(i) /\ ~Taking(i)
      BY <1>1 DEF Unstored, Taking
    <2> QED
      BY <1>2, <1>3, <1>4, <2>1, ViewIs DEF ViewTable, TypeInv
  <1>7. View(r)' = NULL
    BY <1>4 DEF View
  <1>8. \A l \in RootRef \ {r} : View(l)' = View(l)
    <2> SUFFICES ASSUME NEW l \in RootRef \ {r} PROVE View(l)' = View(l)
      OBVIOUS
    <2>1. inUse'[l] = inUse[l] /\ pptr'[l] = pptr[l] /\ op[i].ref # l /\ op'[i].ref # l
      BY <1>3, <1>4, NotNull DEF NoOp
    <2> QED
      BY <1>1, <2>1, ViewOther
  <1>9. \A l \in RootRef : View(l)' = View(l)
    BY <1>6, <1>7, <1>8
  <1>10. Steady /\ CountExact'
    <2>1. Steady
      BY <1>1, <1>9 DEF Steady
    <2> QED
      BY <2>1, CountSame DEF CountInv
  <1>11. Used'
    BY <1>5, <1>9, UsedKept DEF CountInv
  <1>12. ~Claims(i)'
    BY <1>4 DEF Claims, NoOp
  <1>13. ClaimInv'
    BY <1>1, <1>2, <1>3, <1>4, <1>5, <1>12, ClaimStep DEF CountInv, Unheld
  <1>14. HoldInv(i)' /\ SourceInv(i)'
    BY <1>4, RootHold, NoSource DEF NoOp
  <1>15. /\ \A l \in RootRef : Home[l] # i \/ (op[i].ref # l /\ inUse[l]) =>
              inUse'[l] = inUse[l] /\ pptr'[l] = pptr[l]
         /\ \A l \in RootRef : op'[i].ref # l
    BY <1>2, <1>3, <1>4, NotNull DEF NoOp
  <1> QED
    BY <1>1, <1>5, <1>10, <1>11, <1>13, <1>14, <1>15, ClientCount

-----------------------------------------------------------------------------
(* A client arrives or fails.                                              *)

LEMMA SlotCount ==
  ASSUME NEW i \in Thread, TypeInv, EraInv, CountInv, ThreadInit(i) \/ Crash(i)
  PROVE  CountInv' /\ Steady
  <1>1. /\ TypeOK /\ UNCHANGED <<refInfo, redo, pptr, inUse, block, pc, op, mon>>
        /\ \/ slot[i] = "vacant" /\ slot' = [slot EXCEPT ![i] = "run"]
              /\ (Quiescent => mon.pc = "watch")
           \/ slot[i] = "run" /\ slot' = [slot EXCEPT ![i] = "dead"]
              /\ (Quiescent \/ \A l \in RootRef : Home[l] = i => ~Pinned(l))
    BY DEF TypeInv, ThreadInit, Crash
  <1>2. slot[i] = "vacant" => pc[i] = "idle"
    BY DEF TypeInv, OpShape
  <1>3. \A l \in RootRef : View(l)' = View(l)
    BY <1>1, ViewSame DEF Mine, MonMine, Unstored, Redone, Taking
  <1>4. Steady /\ CountExact'
    <2>1. Steady
      BY <1>1, <1>3 DEF Steady
    <2> QED
      BY <2>1, CountSame DEF CountInv
  <1>5. Used'
    BY <1>1, <1>3, UsedKept DEF CountInv
  <1>6. ClaimInv'
    BY <1>1 DEF CountInv, ClaimInv, Claims, MonClaims, Unheld
  <1>7. MonHold'
    BY <1>1 DEF CountInv, MonHold, Taking, TypeOK
  <1>8. ASSUME NEW k \in Thread PROVE HoldInv(k)'
    <2>1. CASE k = i /\ slot[i] = "vacant"
      BY <1>1, <1>2, <2>1, RootHold
    <2>2. CASE k # i \/ slot[i] = "run"
      <3>1. LogActive(k)' => LogActive(k)
        BY <1>1, <2>2 DEF LogActive, Redone, TypeOK
      <3> QED
        BY <1>1, <3>1, HoldKept DEF CountInv
    <2> QED
      BY <1>1, <2>1, <2>2
  <1>9. ASSUME NEW k \in Thread PROVE SourceInv(k)'
    <2> SUFFICES ASSUME slot'[k] = "run", op[k].func = "LINK", pc[k] \in RootLabel \cup PreCas
                 PROVE  LET l == op[k].src IN
                        /\ l \in RootRef /\ inUse[l] /\ pptr[l] = op[k].refed
                        /\ op[Home[l]].ref # l
                        /\ slot'[Home[l]] = "run" \/ (Quiescent /\ slot'[Home[l]] = "dead")
      BY <1>1 DEF SourceInv
    <2>1. pc[k] # "idle" /\ slot[k] = "run"
      BY <1>1, <1>2 DEF RootLabel, PreCas, TypeOK
    <2>2. PICK s : s = op[k].src
      OBVIOUS
    <2>3. /\ s \in RootRef /\ inUse[s] /\ pptr[s] = op[k].refed /\ op[Home[s]].ref # s
          /\ slot[Home[s]] = "run" \/ (Quiescent /\ slot[Home[s]] = "dead")
          /\ Home[s] \in Thread
      BY <2>1, <2>2, BlockAssumption DEF CountInv, SourceInv, Block
    <2>4. Pinned(s)
      BY <2>1, <2>2 DEF Pinned
    <2>5. slot'[Home[s]] = "run" \/ (Quiescent /\ slot'[Home[s]] = "dead")
      BY <1>1, <2>3, <2>4 DEF TypeOK
    <2> QED
      BY <2>2, <2>3, <2>5
  <1> QED
    BY <1>4, <1>5, <1>6, <1>7, <1>8, <1>9 DEF CountInv

LEMMA ClientNextCount ==
  ASSUME NEW i \in Thread, TypeInv, TypeInv', EraInv, RedoInv, CountInv, FewRefs,
         ThreadInit(i) \/ Crash(i) \/ Start(i) \/ Step(i)
  PROVE  CountInv'
  <1>1. CASE Start(i)
    BY <1>1, CxlMallocCount, GetRefCount, DropCount DEF Start
  <1>2. CASE Step(i)
    BY <1>2, SlowPathCount, BlockToTbrCount, LinkBlockToTbrCount, TakeBlockCount,
       StampObjectCount, PreCasCount, CasInfoCount, StoreRefCount, BumpEraCount,
       WipeObjectCount, PushObjectCount, ReleaseCount DEF Step
  <1> QED
    BY <1>1, <1>2, SlotCount

-----------------------------------------------------------------------------
(* The monitor.                                                            *)

(* A step that leaves the words, the RootRefs and the blocks alone.        *)
LEMMA MonQuietCount ==
  ASSUME TypeInv, CountInv, UNCHANGED <<refInfo, pptr, inUse, block, slot, pc, op>>,
         \A k \in Thread : LogActive(k)' => LogActive(k),
         \A k \in Thread : pc[k] = "store" => (Redone(k)' <=> Redone(k)),
         mon.pc = "store" <=> mon'.pc = "store",
         mon.pc = "store" => mon'.ref = mon.ref /\ mon'.saw = mon.saw,
         MonHold'
  PROVE  CountInv' /\ Steady
  <1>1. ASSUME NEW l \in RootRef PROVE View(l)' = View(l)
    <2>1. MonMine(l)' <=> MonMine(l)
      BY DEF MonMine
    <2>2. Home[l] \in Thread
      BY BlockAssumption DEF Block
    <2>3. Unstored(Home[l])' <=> Unstored(Home[l])
      BY <2>2 DEF Unstored
    <2> QED
      BY <2>1, <2>3, ViewSame DEF Mine, Taking
  <1>2. Steady /\ CountExact'
    <2>1. Steady
      BY <1>1 DEF Steady
    <2> QED
      BY <2>1, CountSame DEF CountInv
  <1>3. Used'
    BY <1>1, UsedKept DEF CountInv
  <1>4. ClaimInv'
    BY DEF CountInv, ClaimInv, Claims, MonClaims, Unheld
  <1>5. ASSUME NEW k \in Thread PROVE HoldInv(k)' /\ SourceInv(k)'
    <2>1. HoldInv(k)'
      BY HoldKept DEF CountInv
    <2>2. SourceInv(k)'
      BY DEF CountInv, SourceInv
    <2> QED
      BY <2>1, <2>2
  <1> QED
    BY <1>2, <1>3, <1>4, <1>5 DEF CountInv

LEMMA DetectCount ==
  ASSUME NEW i \in Thread, TypeInv, RedoInv, SeenInv, CountInv, Detect(i)
  PROVE  CountInv' /\ Steady
  <1>1. PICK n \in Lines :
          /\ Latest(i, n)
          /\ mon' = [NoMon EXCEPT !.tgt = i, !.log = redo[i][n], !.pc =
                       IF redo[i][n].func_id = "none" THEN "gc" ELSE "lcid"]
    BY DEF Detect
  <1>2. /\ mon'.tgt = i /\ mon'.pc = (IF redo[i][n].func_id = "none" THEN "gc" ELSE "lcid")
        /\ mon.pc = "watch" /\ slot[i] = "dead" /\ UNCHANGED clientVars
        /\ Quiescent => \A k \in Thread : slot[k] # "run"
    BY <1>1 DEF NoMon, Detect, Mon
  <1>3. /\ \A k \in Thread : ~Redone(k)
        /\ \A k \in Thread : LogActive(k)' => LogActive(k)
    BY <1>2 DEF Redone, LogActive, clientVars
  <1>4. ASSUME NEW k \in Thread, pc[k] = "store", Redone(k)' PROVE FALSE
    <2>1. k = i /\ redo[i][n].func_id = "none"
      BY <1>2, <1>4 DEF Redone
    <2>2. TypeOK /\ LogCurrent(i) /\ era[i][i] > 0 /\ era[i][i] \in Nat
      BY <1>2, <1>3 DEF TypeInv, TypeOK, RedoInv, LogInv, LogActive, SeenInv
    <2>3. redo[i][RedoLine(era[i][i])].cur_era = era[i][i] /\ RedoLine(era[i][i]) \in Lines
      BY <1>4, <2>1, <2>2, LineIn DEF LogCurrent, PostCas, Record
    <2>4. redo[i][n].cur_era = 0
      BY <2>1, <2>2 DEF TypeOK, Log, NoLog
    <2> QED
      BY <1>1, <2>2, <2>3, <2>4 DEF Latest
  <1>5. MonHold'
    BY <1>2 DEF MonHold, clientVars, UnlinkLabel
  <1> QED
    BY <1>2, <1>3, <1>4, <1>5, MonQuietCount DEF clientVars

LEMMA ScanCount ==
  ASSUME TypeInv, CountInv, LoadLcid \/ LoadLenum \/ ScanRow \/ ScanEnd
  PROVE  CountInv' /\ Steady
  <1>1. mon \in MonState /\ UNCHANGED clientVars /\ mon.pc \in {"lcid", "lenum", "scan"}
    BY DEF TypeInv, TypeOK, LoadLcid, LoadLenum, ScanRow, ScanEnd, Mon
  <1>2. mon'.tgt = mon.tgt /\ mon'.pc \in {"lenum", "scan", "redo"}
    <2>1. CASE LoadLcid \/ LoadLenum
      BY <1>1, <2>1 DEF LoadLcid, LoadLenum, MonState
    <2>2. CASE ScanRow
      BY <1>1, <2>2 DEF ScanRow, MonState, Mon
    <2>3. CASE ScanEnd
      BY <1>1, <2>3 DEF ScanEnd, MonState
    <2> QED
      BY <2>1, <2>2, <2>3
  <1>3. \A k \in Thread : ~Redone(k) /\ ~Redone(k)'
    BY <1>1, <1>2 DEF Redone
  <1>4. \A k \in Thread : LogActive(k)' => LogActive(k)
    BY <1>1, <1>3 DEF LogActive, clientVars
  <1>5. MonHold'
    BY <1>1, <1>2 DEF CountInv, MonHold, clientVars, UnlinkLabel
  <1> QED
    BY <1>1, <1>2, <1>3, <1>4, <1>5, MonQuietCount DEF clientVars

(* After the redo, a RootRef of the target that is in use holds what it    *)
(* counts for, unless its allocation had not got as far as the stamp.      *)
LEMMA TargetView ==
  ASSUME TypeInv, NEW l \in RootRef, Home[l] = mon.tgt, inUse[l],
         mon.pc \in {"gc", "read", "note", "cas"},
         ~(op[mon.tgt].ref = l /\ Taking(mon.tgt))
  PROVE  View(l) = pptr[l]
  <1>1. ~Unstored(Home[l]) /\ ~MonMine(l)
    BY DEF Unstored, Redone, MonMine
  <1>2. ~(Mine(l) /\ Taking(Home[l]))
    BY DEF Mine
  <1> QED
    BY <1>1, <1>2, ViewIs DEF ViewTable, TypeInv

LEMMA VisitCount ==
  ASSUME NEW l \in RootRef, TypeInv, CountInv, FewRefs, Visit(l)
  PROVE  CountInv' /\ Steady
  <1>1. /\ mon \in MonState /\ UNCHANGED clientVars /\ mon.pc = "gc"
        /\ Home[l] = mon.tgt /\ inUse[l]
        /\ mon' = [mon EXCEPT !.ref = l, !.pc =
              IF pptr[l] = NULL \/ block[pptr[l]] = "free" \/ refInfo[pptr[l]].cnt = 0
              THEN "drop" ELSE "read"]
    BY DEF TypeInv, TypeOK, Visit, Mon
  <1>2. /\ mon'.tgt = mon.tgt /\ mon'.ref = l
        /\ mon'.pc = IF pptr[l] = NULL \/ block[pptr[l]] = "free" \/ refInfo[pptr[l]].cnt = 0
                     THEN "drop" ELSE "read"
    BY <1>1 DEF MonState
  <1>3. PICK t \in Thread : t = mon.tgt
    BY <1>1 DEF TypeInv, MonShape
  <1>4. pptr[l] \in CXLObj \cup {NULL}
    BY DEF TypeInv, TypeOK
  <1>5. CASE op[t].ref = l /\ Taking(t)
    <2>1. pptr[l] = op[t].refed /\ op[t].refed \in CXLObj
      BY <1>1, <1>5 DEF CountInv, HoldInv, TypeInv, OpShape, Taking
    <2>2. block[pptr[l]] = "free" \/ refInfo[pptr[l]].cnt = 0
      BY <1>5, <2>1 DEF CountInv, HoldInv, Taking, ClaimInv, Claims, Unheld
    <2>3. mon'.pc = "drop"
      BY <1>2, <2>2
    <2> QED
      <3>1. MonHold'
        BY <1>1, <1>2, <1>3, <1>5, <2>3
        DEF CountInv, MonHold, clientVars, UnlinkLabel, Taking
      <3>2. \A k \in Thread : Redone(k)' <=> Redone(k)
        BY <1>1, <1>2, <2>3 DEF Redone
      <3>3. \A k \in Thread : LogActive(k)' => LogActive(k)
        BY <1>1, <3>2 DEF LogActive, clientVars
      <3> QED
        BY <1>1, <2>3, <3>1, <3>2, <3>3, MonQuietCount DEF clientVars
  <1>6. CASE ~(op[t].ref = l /\ Taking(t))
    <2>1. View(l) = pptr[l]
      BY <1>1, <1>3, <1>6, TargetView
    <2>2. pptr[l] # NULL => block[pptr[l]] = "used" /\ refInfo[pptr[l]].cnt # 0
      BY <1>4, <2>1, Held, SizeAssumption
    <2>3. mon'.pc = IF pptr[l] = NULL THEN "drop" ELSE "read"
      BY <1>2, <2>2
    <2>4. MonHold'
      BY <1>1, <1>2, <1>3, <1>6, <2>3 DEF CountInv, MonHold, clientVars, UnlinkLabel, Taking
    <2>5. \A k \in Thread : Redone(k)' <=> Redone(k)
      BY <1>1, <1>2, <2>3 DEF Redone
    <2>6. \A k \in Thread : LogActive(k)' => LogActive(k)
      BY <1>1, <2>5 DEF LogActive, clientVars
    <2> QED
      BY <1>1, <2>3, <2>4, <2>5, <2>6, MonQuietCount DEF clientVars
  <1> QED
    BY <1>5, <1>6

LEMMA MonUnlinkCount ==
  ASSUME TypeInv, CountInv, FewRefs, MonRead \/ MonNote \/ MonRetry
  PROVE  CountInv' /\ Steady
  <1>1. /\ mon \in MonState /\ mon.pc \in {"read", "note", "cas"} /\ mon.pc \in UnlinkLabel
        /\ UNCHANGED <<refInfo, redo, pptr, inUse, block, slot, pc, op>>
        /\ \/ mon' = [mon EXCEPT !.saw = refInfo[pptr[mon.ref]], !.pc = "note"]
           \/ mon.pc = "note" /\ mon' = [mon EXCEPT !.pc = "cas"]
           \/ mon' = [mon EXCEPT !.pc = "read"]
    BY DEF TypeInv, TypeOK, MonRead, MonNote, MonRetry, Mon, clientVars, UnlinkLabel
  <1>2. /\ mon'.tgt = mon.tgt /\ mon'.ref = mon.ref
        /\ \/ mon'.pc = "note" /\ mon'.saw = refInfo[pptr[mon.ref]]
           \/ mon'.pc = "cas" /\ mon'.saw = mon.saw /\ mon.pc = "note"
           \/ mon'.pc = "read"
    BY <1>1 DEF MonState
  <1>3. /\ mon.ref \in RootRef /\ Home[mon.ref] = mon.tgt /\ pptr[mon.ref] \in CXLObj
        /\ inUse[mon.ref] /\ ~(op[mon.tgt].ref = mon.ref /\ Taking(mon.tgt))
    BY <1>1 DEF TypeInv, MonShape, CountInv, MonHold
  <1>4. refInfo[pptr[mon.ref]].cnt \in 1 .. CNT_LIMIT - 1
    <2>1. View(mon.ref) = pptr[mon.ref]
      BY <1>1, <1>3, TargetView
    <2> QED
      BY <1>3, <2>1, Held
  <1>5. mon'.pc \in {"note", "cas"} => mon'.saw.cnt - 1 \in 0 .. CNT_LIMIT - 1
    <2>1. CASE mon'.pc = "note" /\ mon'.saw = refInfo[pptr[mon.ref]]
      BY <1>4, <2>1, SizeAssumption
    <2>2. CASE mon'.pc = "cas" /\ mon'.saw = mon.saw /\ mon.pc = "note"
      BY <2>2 DEF CountInv, MonHold
    <2> QED
      BY <1>2, <2>1, <2>2
  <1>6. MonHold'
    <2>1. Taking(mon.tgt)' <=> Taking(mon.tgt)
      BY <1>1, <1>2 DEF Taking
    <2>2. Quiescent => \A k \in Thread : slot'[k] # "run"
      BY <1>1 DEF CountInv, MonHold
    <2> QED
      BY <1>1, <1>2, <1>3, <1>5, <2>1, <2>2 DEF MonHold, Taking
  <1>7. \A k \in Thread : Redone(k)' <=> Redone(k)
    BY <1>1, <1>2 DEF Redone
  <1>8. \A k \in Thread : LogActive(k)' => LogActive(k)
    BY <1>1, <1>7 DEF LogActive
  <1> QED
    BY <1>1, <1>2, <1>6, <1>7, <1>8, MonQuietCount

(* A step of the monitor that changes the memory: it works for client t,   *)
(* whose redo is over after the step, and no other client is concerned.    *)
LEMMA MonFrameCount ==
  ASSUME TypeInv, CountInv, UNCHANGED <<slot, pc, op>>, NEW t \in Thread, mon.tgt = t,
         mon.pc # "watch", Redone(t)',
         \A l \in RootRef : Home[l] # t => inUse'[l] = inUse[l] /\ pptr'[l] = pptr[l],
         \A l \in RootRef : Home[l] = t /\ inUse'[l] =>
           inUse[l] /\ (pptr'[l] = pptr[l] \/ ~(op[t].ref = l /\ Taking(t))),
         \A o \in CXLObj : block[o] = "free" => block'[o] = "free",
         CountExact', Used', ClaimInv', MonHold'
  PROVE  CountInv'
  <1>1. slot[t] = "dead" /\ mon'.tgt = t
    BY DEF TypeInv, MonShape, Redone
  <1>2. HoldInv(t)'
    <2>1. OpShape(t) /\ HoldInv(t) /\ ~LogActive(t)'
      BY DEF TypeInv, CountInv, LogActive
    <2>2. Taking(t)' /\ inUse'[op'[t].ref] => pptr'[op'[t].ref] = op'[t].refed
      BY <2>1 DEF OpShape, HoldInv, Taking, AllocLabel
    <2>3. pc'[t] = "take" => block'[op'[t].refed] = "free"
      BY <2>1 DEF OpShape, HoldInv
    <2>4. pc'[t] \in {"note", "log", "cas"} =>
            op'[t].saw.cnt + Delta(t)' \in 0 .. CNT_LIMIT - 1
      BY <2>1 DEF HoldInv, Delta
    <2> QED
      BY <2>1, <2>2, <2>3, <2>4 DEF HoldInv
  <1>3. ASSUME NEW k \in Thread \ {t} PROVE HoldInv(k)'
    <2>1. HoldInv(k) /\ op'[k] = op[k] /\ pc'[k] = pc[k]
      BY DEF CountInv
    <2>2. LogActive(k)' => LogActive(k)
      BY DEF LogActive, Redone
    <2>3. \A l \in RootRef : Home[l] = k =>
            /\ inUse'[l] => inUse[l] /\ pptr'[l] = pptr[l]
            /\ LogActive(k)' /\ inUse[l] => inUse'[l]
      OBVIOUS
    <2> QED
      BY <2>1, <2>2, <2>3, HoldKept
  <1>4. ASSUME NEW k \in Thread PROVE SourceInv(k)'
    <2>1. SourceInv(k) /\ op'[k] = op[k] /\ pc'[k] = pc[k] /\ slot'[k] = slot[k]
      BY DEF CountInv
    <2>2. PICK s : s = op[k].src
      OBVIOUS
    <2>3. Linking(k) =>
            /\ inUse'[s] /\ pptr'[s] = pptr[s] /\ op'[Home[s]].ref # s
            /\ slot'[Home[s]] = slot[Home[s]]
      <3> SUFFICES ASSUME Linking(k)
                   PROVE  /\ inUse'[s] /\ pptr'[s] = pptr[s] /\ op'[Home[s]].ref # s
                          /\ slot'[Home[s]] = slot[Home[s]]
        OBVIOUS
      <3>1. s \in RootRef /\ inUse[s] /\ op[Home[s]].ref # s
        BY <2>1, <2>2 DEF SourceInv, Linking
      <3>2. slot[Home[s]] = "run"
        BY <2>1, <2>2, SourceRuns DEF CountInv
      <3>3. Home[s] # t
        BY <1>1, <3>2
      <3> QED
        BY <3>1, <3>3
    <2> QED
      BY <2>1, <2>2, <2>3, SourceKept
  <1> QED
    BY <1>2, <1>3, <1>4 DEF CountInv

(* The same for the object of a claim: it stays claimed. *)
LEMMA ClaimMon ==
  ASSUME TypeInv, ClaimInv, UNCHANGED <<pc, op>>, mon'.pc # "store",
         \A o \in CXLObj : Unheld(o) /\ (\E k \in Thread : Claims(k) /\ op[k].refed = o)
                             => Unheld(o)'
  PROVE  ClaimInv'
  <1>1. \A k \in Thread : Claims(k)' <=> Claims(k)
    BY DEF Claims
  <1>2. ASSUME NEW k \in Thread, Claims(k) PROVE Unheld(op[k].refed)'
    <2>1. op[k].refed \in CXLObj
      BY <1>2 DEF Claims, TypeInv, OpShape, LinkLabel, PostCas, FreeLabel
    <2>2. PICK o \in CXLObj : o = op[k].refed
      BY <2>1
    <2>3. Unheld(o)'
      BY <1>2, <2>2 DEF ClaimInv
    <2> QED
      BY <2>2, <2>3 DEF Unheld
  <1>3. ~MonClaims'
    BY DEF MonClaims
  <1> QED
    BY <1>1, <1>2, <1>3 DEF ClaimInv, Unheld

-----------------------------------------------------------------------------
(* The redo.                                                               *)

(* What it writes is the reference that the commit point counted, or what  *)
(* the RootRef holds already.                                              *)
LEMMA RedoRecord ==
  ASSUME TypeInv, RedoInv, SeenInv, VerdictInv, NEW t \in Thread, mon.tgt = t,
         mon.pc = "redo"
  PROVE  /\ LogActive(t) /\ mon.log.ref \in RootRef /\ Home[mon.log.ref] = t
         /\ pc[t] = "store" =>
              /\ mon.need /\ mon.log.ref = op[t].ref
              /\ RedoValue(mon.log) = IF op[t].func = "LINK" THEN op[t].refed ELSE NULL
         /\ pc[t] # "store" /\ mon.need /\ inUse[mon.log.ref] =>
              pptr[mon.log.ref] = RedoValue(mon.log)
  <1>1. slot[t] = "dead" /\ LogActive(t)
    BY DEF TypeInv, MonShape, LogActive, Redone
  <1>2. PICK n \in Lines : Latest(t, n) /\ mon.log = redo[t][n]
    BY DEF VerdictInv, RedoLabel
  <1>3. /\ Kept(t, n) /\ mon.log.ref \in RootRef /\ mon.log.func_id \in {"LINK", "UNLINK"}
        /\ mon.log.cur_era \in Nat
    <2>1. mon.log # NoLog /\ mon.log \in Log
      BY DEF TypeInv, TypeOK, MonState, MonShape, RedoLabel
    <2>2. /\ mon.log.ref \in RootRef /\ mon.log.func_id \in {"LINK", "UNLINK"}
          /\ mon.log.cur_era \in Nat
      BY <2>1 DEF Log
    <2> QED
      BY <1>2, <2>2 DEF Kept
  <1>4. Home[mon.log.ref] = t
    BY DEF RedoInv, RedoLabel
  <1>5. LogLines(t) /\ LogCurrent(t) /\ OpHolds(t) /\ era[t][t] \in Nat /\ OpShape(t)
    BY <1>1 DEF RedoInv, LogInv, TypeInv, TypeOK
  <1>6. mon.log.cur_era <= era[t][t]
    BY <1>2, <1>3, <1>5 DEF LogLines
  <1>7. mon.log.cur_era = era[t][t] =>
          /\ mon.log = Record(t, era[t][t]) /\ pc[t] \in PreCas \cup PostCas
          /\ Current(t, mon.log)
    BY <1>2, <1>3, <1>5 DEF LogLines, Current
  <1>8. mon.log.cur_era = era[t][t] => (mon.need <=> pc[t] \in PostCas)
    BY <1>7 DEF VerdictInv, VerdictExact, RedoLabel, PostCas
  <1>9. ASSUME pc[t] = "store"
        PROVE  /\ mon.need /\ mon.log.ref = op[t].ref
               /\ RedoValue(mon.log) = IF op[t].func = "LINK" THEN op[t].refed ELSE NULL
    <2>1. redo[t][RedoLine(era[t][t])].cur_era = era[t][t] /\ RedoLine(era[t][t]) \in Lines
      BY <1>5, <1>9, LineIn DEF LogCurrent, PostCas, Record
    <2>2. era[t][t] <= mon.log.cur_era
      BY <1>2, <2>1 DEF Latest
    <2>3. mon.log.cur_era = era[t][t]
      BY <1>3, <1>5, <1>6, <2>2
    <2>4. mon.log = Record(t, era[t][t]) /\ mon.need
      BY <1>7, <1>8, <1>9, <2>3 DEF PostCas
    <2> QED
      BY <2>4 DEF Record, RedoValue
  <1>10. ASSUME pc[t] # "store", mon.need, inUse[mon.log.ref]
         PROVE  pptr[mon.log.ref] = RedoValue(mon.log)
    <2>1. CASE mon.log.cur_era = era[t][t]
      <3>1. mon.log = Record(t, era[t][t]) /\ pc[t] = "bump"
        BY <1>7, <1>8, <1>10, <2>1 DEF PostCas
      <3>2. /\ RedoValue(mon.log) = IF op[t].func = "LINK" THEN op[t].refed ELSE NULL
            /\ mon.log.ref = op[t].ref
        BY <3>1 DEF Record, RedoValue
      <3>3. op[t].func \in {"LINK", "UNLINK"}
        BY <1>5, <3>1 DEF OpShape, LinkLabel, PostCas
      <3> QED
        BY <1>5, <3>1, <3>2, <3>3 DEF OpHolds, Emptied
    <2>2. CASE mon.log.cur_era # era[t][t]
      <3>1. mon.log.cur_era < era[t][t]
        BY <1>3, <1>5, <1>6, <2>2, NatOrder
      <3> QED
        BY <1>1, <1>2, <1>3, <1>10, <3>1, LatestOld
    <2> QED
      BY <2>1, <2>2
  <1> QED
    BY <1>1, <1>3, <1>4, <1>9, <1>10

LEMMA RedoCount ==
  ASSUME TypeInv, RedoInv, SeenInv, VerdictInv, CountInv, Redo
  PROVE  CountInv' /\ Steady
  <1>1. /\ mon \in MonState /\ mon.pc = "redo" /\ mon' = [mon EXCEPT !.pc = "gc"]
        /\ UNCHANGED <<refInfo, era, redo, inUse, block, slot, pc, op>>
        /\ pptr' = IF mon.need THEN [pptr EXCEPT ![mon.log.ref] = RedoValue(mon.log)]
                   ELSE pptr
    BY DEF TypeInv, TypeOK, Redo, Mon
  <1>2. mon'.tgt = mon.tgt /\ mon'.pc = "gc"
    BY <1>1 DEF MonState
  <1>3. PICK t \in Thread : mon.tgt = t
    BY <1>1 DEF TypeInv, MonShape
  <1>4. /\ LogActive(t) /\ mon.log.ref \in RootRef /\ Home[mon.log.ref] = t
        /\ pc[t] = "store" =>
             /\ mon.need /\ mon.log.ref = op[t].ref
             /\ RedoValue(mon.log) = IF op[t].func = "LINK" THEN op[t].refed ELSE NULL
        /\ pc[t] # "store" /\ mon.need /\ inUse[mon.log.ref] =>
             pptr[mon.log.ref] = RedoValue(mon.log)
    BY <1>1, <1>3, RedoRecord
  <1>5. pptr \in [RootRef -> CXLObj \cup {NULL}]
    BY DEF TypeInv, TypeOK
  <1>6. \A l \in RootRef : l # mon.log.ref \/ ~mon.need => pptr'[l] = pptr[l]
    BY <1>1, <1>5
  <1>7. mon.need => pptr'[mon.log.ref] = RedoValue(mon.log)
    BY <1>1, <1>4, <1>5
  <1>8. \A l \in RootRef : inUse[l] /\ ~(op[t].ref = l /\ pc[t] = "store") => pptr'[l] = pptr[l]
    BY <1>4, <1>6, <1>7
  <1>9. ASSUME NEW l \in RootRef PROVE View(l)' = View(l)
    <2>1. Home[l] \in Thread /\ ~MonMine(l) /\ ~MonMine(l)'
      BY <1>1, <1>2, BlockAssumption DEF MonMine, Block
    <2>2. CASE Home[l] = t /\ op[t].ref = l /\ pc[t] = "store" /\ inUse[l]
      <3>1. View(l) = IF op[t].func = "LINK" THEN op[t].refed ELSE NULL
        BY <1>1, <2>2, ViewIs DEF ViewTable, TypeInv, Mine, Unstored, Redone
      <3>2. View(l)' = pptr'[l]
        <4>1. MonShape' /\ ~Unstored(Home[l])' /\ ~Taking(Home[l])'
          BY <1>1, <1>2, <1>3, <2>2 DEF Unstored, Redone, Taking, TypeInv, MonShape, RedoLabel,
             UnlinkLabel
        <4> QED
          BY <1>1, <2>1, <2>2, <4>1, ViewNext DEF ViewTable
      <3> QED
        BY <1>4, <1>7, <2>2, <3>1, <3>2
    <2>3. CASE ~(Home[l] = t /\ op[t].ref = l /\ pc[t] = "store" /\ inUse[l])
      <3>1. inUse[l] => pptr'[l] = pptr[l]
        <4>1. CASE Home[l] = t
          BY <1>8, <2>3, <4>1
        <4>2. CASE Home[l] # t
          BY <1>4, <1>6, <4>2
        <4> QED
          BY <4>1, <4>2
      <3>2. ~inUse[l] => View(l)' = View(l)
        BY <1>1 DEF View
      <3>3. inUse[l] /\ Mine(l) => (Unstored(Home[l])' <=> Unstored(Home[l]))
        BY <1>1, <1>2, <1>3, <2>3 DEF Unstored, Redone, Mine
      <3>4. inUse[l] => View(l)' = View(l)
        BY <1>1, <2>1, <3>1, <3>3, ViewSame DEF Mine, Taking
      <3> QED
        BY <3>2, <3>4
    <2> QED
      BY <2>2, <2>3
  <1>10. Steady /\ CountExact'
    <2>1. Steady
      BY <1>1, <1>9 DEF Steady
    <2> QED
      BY <2>1, CountSame DEF CountInv
  <1>11. Used'
    BY <1>1, <1>9, UsedKept DEF CountInv
  <1>12. ClaimInv'
    BY <1>1, <1>2, ClaimMon DEF CountInv, Unheld
  <1>13. MonHold'
    BY <1>1, <1>2 DEF CountInv, MonHold, UnlinkLabel
  <1>14. Redone(t)'
    BY <1>2, <1>3 DEF Redone
  <1>15. /\ \A l \in RootRef : Home[l] # t => inUse'[l] = inUse[l] /\ pptr'[l] = pptr[l]
         /\ \A l \in RootRef : Home[l] = t /\ inUse'[l] =>
              inUse[l] /\ (pptr'[l] = pptr[l] \/ ~(op[t].ref = l /\ Taking(t)))
    BY <1>1, <1>4, <1>6, <1>8 DEF Taking
  <1> QED
    BY <1>1, <1>3, <1>10, <1>11, <1>12, <1>13, <1>14, <1>15, MonFrameCount

-----------------------------------------------------------------------------
(* The release of the target's references.                                 *)

LEMMA MonCasCount ==
  ASSUME TypeInv, TypeInv', CountInv, FewRefs, MonCas
  PROVE  /\ CountInv'
         /\ \E r \in RootRef, x \in CXLObj :
              r = mon.ref /\ x = pptr[mon.ref] /\ block[x] = "used" /\ Loses(r, x)
  <1>1. /\ mon \in MonState /\ mon.pc = "cas" /\ mon.pc \in UnlinkLabel
        /\ UNCHANGED <<era, redo, pptr, inUse, block, slot, pc, op>>
        /\ mon' = [mon EXCEPT !.pc = "store"]
        /\ refInfo[pptr[mon.ref]] = mon.saw
        /\ refInfo' = [refInfo EXCEPT ![pptr[mon.ref]] =
                        PackRefInfo(mon.tgt, mon.saw.cnt - 1, era[mon.tgt][mon.tgt])]
    BY DEF TypeInv, TypeOK, MonCas, Mon, UnlinkLabel
  <1>2. mon'.pc = "store" /\ mon'.ref = mon.ref /\ mon'.saw = mon.saw /\ mon'.tgt = mon.tgt
    BY <1>1 DEF MonState
  <1>3. PICK t \in Thread, r \in RootRef, o \in CXLObj :
          t = mon.tgt /\ r = mon.ref /\ o = pptr[mon.ref]
    BY <1>1 DEF TypeInv, MonShape
  <1>4. /\ Home[r] = t /\ inUse[r] /\ ~(op[t].ref = r /\ Taking(t))
        /\ mon.saw.cnt - 1 \in 0 .. CNT_LIMIT - 1 /\ era[t][t] \in Nat
    BY <1>1, <1>3 DEF TypeInv, TypeOK, MonShape, CountInv, MonHold
  <1>5. View(r) = o
    BY <1>1, <1>3, <1>4, TargetView
  <1>6. /\ refInfo'[o].cnt = refInfo[o].cnt - 1 /\ refInfo[o].cnt = mon.saw.cnt
        /\ \A x \in CXLObj \ {o} : refInfo'[x] = refInfo[x]
    <2>1. PackRefInfo(t, mon.saw.cnt - 1, era[t][t]).cnt = mon.saw.cnt - 1
      BY <1>4, PackExact
    <2>2. refInfo \in [CXLObj -> Info]
      BY DEF TypeInv, TypeOK
    <2> QED
      BY <1>1, <1>3, <2>1, <2>2
  <1>7. block[o] = "used" /\ refInfo[o].cnt \in 1 .. CNT_LIMIT - 1
    BY <1>5, Held
  <1>8. View(r)' = NULL
    <2>1. MonShape' /\ inUse'[r] /\ MonMine(r)'
      BY <1>1, <1>2, <1>3, <1>4 DEF TypeInv, MonMine
    <2> QED
      BY <2>1, ViewNext DEF ViewTable
  <1>9. ASSUME NEW l \in RootRef \ {r} PROVE View(l)' = View(l)
    <2>1. ~MonMine(l) /\ ~MonMine(l)' /\ Home[l] \in Thread
      BY <1>1, <1>2, <1>3, BlockAssumption DEF MonMine, Block
    <2>2. Unstored(Home[l])' <=> Unstored(Home[l])
      BY <1>1, <1>2 DEF Unstored, Redone
    <2> QED
      BY <1>1, <2>1, <2>2, ViewSame DEF Mine, Taking
  <1>10. Loses(r, o) /\ CountExact'
    <2>1. Loses(r, o)
      BY <1>5, <1>6, <1>8, <1>9 DEF Loses
    <2> QED
      BY <2>1, CountDel DEF CountInv
  <1>11. Used'
    BY <1>1, <1>8, <1>9, UsedKept DEF CountInv
  <1>12. ClaimInv'
    <2>1. \A k \in Thread : Claims(k)' <=> Claims(k)
      BY <1>1 DEF Claims
    <2>2. ASSUME NEW k \in Thread, Claims(k) PROVE Unheld(op[k].refed)' /\ op[k].refed # o
      <3>1. op[k].refed \in CXLObj /\ Unheld(op[k].refed)
        BY <2>2 DEF Claims, TypeInv, OpShape, LinkLabel, PostCas, FreeLabel, CountInv, ClaimInv
      <3>2. op[k].refed # o
        BY <1>7, <3>1 DEF Unheld
      <3> QED
        BY <1>1, <1>6, <3>1, <3>2 DEF Unheld
    <2>3. MonClaims' => Unheld(pptr[mon.ref])'
      <3> SUFFICES ASSUME mon.saw.cnt = 1 PROVE Unheld(o)'
        BY <1>1, <1>2, <1>3 DEF MonClaims, Unheld
      <3> QED
        BY <1>1, <1>6, <1>7 DEF Unheld
    <2> QED
      BY <1>1, <1>2, <1>3, <2>1, <2>2, <2>3 DEF CountInv, ClaimInv, Unheld
  <1>13. MonHold'
    BY <1>1, <1>2, <1>3, <1>4 DEF CountInv, MonHold, Taking
  <1>14. Redone(t)'
    BY <1>2, <1>3 DEF Redone
  <1>15. CountInv'
    BY <1>1, <1>3, <1>10, <1>11, <1>12, <1>13, <1>14, MonFrameCount
  <1> QED
    BY <1>3, <1>7, <1>10, <1>15

LEMMA MonStoreCount ==
  ASSUME TypeInv, TypeInv', CountInv, FewRefs, MonStore
  PROVE  CountInv' /\ Steady
  <1>1. /\ mon \in MonState /\ mon.pc = "store" /\ mon.pc \in UnlinkLabel
        /\ UNCHANGED <<redo, inUse, slot, pc, op>>
        /\ mon' = [mon EXCEPT !.pc = "drop"]
        /\ pptr' = [pptr EXCEPT ![mon.ref] = NULL]
        /\ refInfo' = IF mon.saw.cnt = 1 THEN [refInfo EXCEPT ![pptr[mon.ref]] = ZeroInfo]
                      ELSE refInfo
        /\ block' = IF mon.saw.cnt = 1 THEN [block EXCEPT ![pptr[mon.ref]] = "away"]
                    ELSE block
    BY DEF TypeInv, TypeOK, MonStore, Mon, UnlinkLabel
  <1>2. mon'.pc = "drop" /\ mon'.ref = mon.ref /\ mon'.tgt = mon.tgt
    BY <1>1 DEF MonState
  <1>3. PICK t \in Thread, r \in RootRef, o \in CXLObj :
          t = mon.tgt /\ r = mon.ref /\ o = pptr[mon.ref]
    BY <1>1 DEF TypeInv, MonShape
  <1>4. Home[r] = t /\ inUse[r] /\ ~(op[t].ref = r /\ Taking(t))
    BY <1>1, <1>3 DEF TypeInv, MonShape, CountInv, MonHold
  <1>5. TypeOK
    BY DEF TypeInv
  <1>6. pptr'[r] = NULL /\ \A l \in RootRef \ {r} : pptr'[l] = pptr[l]
    BY <1>1, <1>3, <1>5 DEF TypeOK
  <1>7. \A x \in CXLObj : x # o \/ mon.saw.cnt # 1 => refInfo'[x] = refInfo[x] /\ block'[x] = block[x]
    BY <1>1, <1>3, <1>5 DEF TypeOK, Block
  <1>8. mon.saw.cnt = 1 =>
          /\ block[o] = "used" /\ refInfo[o].cnt = 0 /\ refInfo'[o] = ZeroInfo
          /\ \A l \in RootRef : View(l) # o
          /\ \A k \in Thread : Claims(k) => op[k].refed # o
    <2> SUFFICES ASSUME mon.saw.cnt = 1
                 PROVE  /\ block[o] = "used" /\ refInfo[o].cnt = 0 /\ refInfo'[o] = ZeroInfo
                        /\ \A l \in RootRef : View(l) # o
                        /\ \A k \in Thread : Claims(k) => op[k].refed # o
      OBVIOUS
    <2>1. /\ block[o] = "used" /\ refInfo[o].cnt = 0
          /\ \A k \in Thread : Claims(k) => op[k].refed # o
      BY <1>1, <1>3 DEF CountInv, ClaimInv, MonClaims, Unheld
    <2>2. \A l \in RootRef : View(l) # o
      BY <2>1, NoHolder
    <2>3. refInfo'[o] = ZeroInfo
      BY <1>1, <1>3, <1>5 DEF TypeOK
    <2> QED
      BY <2>1, <2>2, <2>3
  <1>9. View(r) = NULL
    BY <1>1, <1>3, <1>4, ViewIs DEF ViewTable, TypeInv, MonMine
  <1>10. View(r)' = NULL
    <2>1. MonShape' /\ inUse'[r] /\ ~MonMine(r)' /\ ~Unstored(Home[r])'
      BY <1>1, <1>2, <1>3, <1>4 DEF TypeInv, MonMine, Unstored, Redone
    <2> QED
      BY <1>6, <2>1, ViewNext DEF ViewTable
  <1>11. ASSUME NEW l \in RootRef PROVE View(l)' = View(l)
    <2>1. CASE l = r
      BY <1>9, <1>10, <2>1
    <2>2. CASE l # r
      <3>1. ~MonMine(l) /\ ~MonMine(l)' /\ Home[l] \in Thread
        BY <1>1, <1>2, <1>3, <2>2, BlockAssumption DEF MonMine, Block
      <3>2. Unstored(Home[l])' <=> Unstored(Home[l])
        BY <1>1, <1>2 DEF Unstored, Redone
      <3> QED
        BY <1>1, <1>6, <2>2, <3>1, <3>2, ViewSame DEF Mine, Taking
    <2> QED
      BY <2>1, <2>2
  <1>12. Steady /\ CountExact'
    <2>1. \A x \in CXLObj : refInfo'[x].cnt = refInfo[x].cnt
      BY <1>7, <1>8 DEF ZeroInfo
    <2>2. Steady
      BY <1>11, <2>1 DEF Steady
    <2> QED
      BY <2>2, CountSame DEF CountInv
  <1>13. Used'
    BY <1>7, <1>8, <1>11, UsedKept DEF CountInv
  <1>14. ClaimInv'
    <2>1. \A x \in CXLObj : Unheld(x) /\ (\E k \in Thread : Claims(k) /\ op[k].refed = x)
                              => Unheld(x)'
      BY <1>7, <1>8 DEF Unheld
    <2> QED
      BY <1>1, <1>2, <2>1, ClaimMon DEF CountInv
  <1>15. MonHold'
    BY <1>1, <1>2, <1>3, <1>6 DEF CountInv, MonHold, UnlinkLabel
  <1>16. Redone(t)'
    BY <1>2, <1>3 DEF Redone
  <1>17. \A x \in CXLObj : block[x] = "free" => block'[x] = "free"
    BY <1>7, <1>8
  <1>18. /\ \A l \in RootRef : Home[l] # t => inUse'[l] = inUse[l] /\ pptr'[l] = pptr[l]
         /\ \A l \in RootRef : Home[l] = t /\ inUse'[l] =>
              inUse[l] /\ (pptr'[l] = pptr[l] \/ ~(op[t].ref = l /\ Taking(t)))
    BY <1>1, <1>4, <1>6
  <1> QED
    BY <1>1, <1>3, <1>12, <1>13, <1>14, <1>15, <1>16, <1>17, <1>18, MonFrameCount

LEMMA MonDropCount ==
  ASSUME TypeInv, TypeInv', CountInv, MonDrop
  PROVE  CountInv' /\ Steady
  <1>1. /\ mon \in MonState /\ mon.pc = "drop"
        /\ UNCHANGED <<refInfo, era, redo, slot, pc, op>>
        /\ mon' = [mon EXCEPT !.pc = "gc"]
        /\ pptr' = [pptr EXCEPT ![mon.ref] = NULL]
        /\ inUse' = [inUse EXCEPT ![mon.ref] = FALSE]
        /\ block' = [block EXCEPT ![mon.ref] = "away"]
    BY DEF TypeInv, TypeOK, MonDrop, Mon
  <1>2. mon'.pc = "gc" /\ mon'.ref = mon.ref /\ mon'.tgt = mon.tgt
    BY <1>1 DEF MonState
  <1>3. PICK t \in Thread, r \in RootRef : t = mon.tgt /\ r = mon.ref
    BY <1>1 DEF TypeInv, MonShape, UnlinkLabel
  <1>4. Home[r] = t /\ (pptr[r] = NULL \/ (op[t].ref = r /\ Taking(t)))
    BY <1>1, <1>3 DEF TypeInv, MonShape, CountInv, MonHold
  <1>5. TypeOK
    BY DEF TypeInv
  <1>6. /\ ~inUse'[r]
        /\ \A l \in RootRef \ {r} : pptr'[l] = pptr[l] /\ inUse'[l] = inUse[l]
        /\ \A x \in CXLObj : block'[x] = block[x]
    BY <1>1, <1>3, <1>5, NotNull DEF TypeOK, Block
  <1>7. View(r) = NULL
    <2>1. ~Unstored(Home[r]) /\ ~MonMine(r)
      BY <1>1, <1>3, <1>4 DEF Unstored, Redone, MonMine
    <2> QED
      BY <1>4, <2>1, ViewIs DEF ViewTable, TypeInv, Mine
  <1>8. View(r)' = NULL
    BY <1>6, ViewNext DEF ViewTable, TypeInv
  <1>9. ASSUME NEW l \in RootRef PROVE View(l)' = View(l)
    <2>1. CASE l = r
      BY <1>7, <1>8, <2>1
    <2>2. CASE l # r
      <3>1. ~MonMine(l) /\ ~MonMine(l)'
        BY <1>1, <1>2 DEF MonMine
      <3>2. Unstored(Home[l])' <=> Unstored(Home[l])
        BY <1>1, <1>2 DEF Unstored, Redone
      <3> QED
        BY <1>1, <1>6, <2>2, <3>1, <3>2, ViewSame DEF Mine, Taking
    <2> QED
      BY <2>1, <2>2
  <1>10. Steady /\ CountExact'
    <2>1. Steady
      BY <1>1, <1>9 DEF Steady
    <2> QED
      BY <2>1, CountSame DEF CountInv
  <1>11. Used'
    BY <1>6, <1>9, UsedKept DEF CountInv
  <1>12. ClaimInv'
    BY <1>1, <1>2, <1>6, ClaimMon DEF CountInv, Unheld
  <1>13. MonHold'
    BY <1>1, <1>2 DEF CountInv, MonHold, UnlinkLabel
  <1>14. Redone(t)'
    BY <1>2, <1>3 DEF Redone
  <1>15. /\ \A l \in RootRef : Home[l] # t => inUse'[l] = inUse[l] /\ pptr'[l] = pptr[l]
         /\ \A l \in RootRef : Home[l] = t /\ inUse'[l] =>
              inUse[l] /\ (pptr'[l] = pptr[l] \/ ~(op[t].ref = l /\ Taking(t)))
    BY <1>4, <1>6
  <1> QED
    BY <1>1, <1>3, <1>6, <1>10, <1>11, <1>12, <1>13, <1>14, <1>15, MonFrameCount

LEMMA FinishCount ==
  ASSUME TypeInv, CountInv, Finish
  PROVE  CountInv' /\ Steady
  <1>1. /\ mon.pc = "gc" /\ mon' = NoMon
        /\ \A l \in RootRef : Home[l] = mon.tgt => ~inUse[l]
        /\ UNCHANGED <<refInfo, era, redo, pptr, inUse, block>>
        /\ slot' = [slot EXCEPT ![mon.tgt] = "gone"]
        /\ pc' = [pc EXCEPT ![mon.tgt] = "idle"] /\ op' = [op EXCEPT ![mon.tgt] = NoOp]
    BY DEF Finish, Mon, Return
  <1>2. PICK t \in Thread : t = mon.tgt /\ slot[t] = "dead"
    BY <1>1 DEF TypeInv, MonShape
  <1>3. TypeOK
    BY DEF TypeInv
  <1>4. /\ pc'[t] = "idle" /\ op'[t] = NoOp /\ slot'[t] = "gone"
        /\ \A k \in Thread \ {t} : pc'[k] = pc[k] /\ op'[k] = op[k] /\ slot'[k] = slot[k]
    BY <1>1, <1>2, <1>3 DEF TypeOK
  <1>5. mon'.pc = "watch" /\ \A k \in Thread \ {t} : ~Redone(k) /\ ~Redone(k)'
    BY <1>1, <1>2 DEF NoMon, Redone
  <1>6. ASSUME NEW l \in RootRef PROVE View(l)' = View(l)
    <2>1. CASE Home[l] = t
      BY <1>1, <1>2, <2>1 DEF View
    <2>2. CASE Home[l] # t
      <3>1. ~MonMine(l) /\ ~MonMine(l)' /\ Home[l] \in Thread \ {t}
        BY <1>1, <1>5, <2>2, BlockAssumption DEF MonMine, Block
      <3>2. op'[Home[l]] = op[Home[l]] /\ pc'[Home[l]] = pc[Home[l]]
        BY <1>4, <3>1
      <3>3. (Unstored(Home[l])' <=> Unstored(Home[l])) /\ (Taking(Home[l])' <=> Taking(Home[l]))
        BY <1>5, <3>1, <3>2 DEF Unstored, Taking
      <3> QED
        BY <1>1, <3>1, <3>2, <3>3, ViewSame DEF Mine
    <2> QED
      BY <2>1, <2>2
  <1>7. Steady /\ CountExact'
    <2>1. Steady
      BY <1>1, <1>6 DEF Steady
    <2> QED
      BY <2>1, CountSame DEF CountInv
  <1>8. Used'
    BY <1>1, <1>6, UsedKept DEF CountInv
  <1>9. ClaimInv'
    <2>1. ~Claims(t)' /\ ~MonClaims'
      BY <1>4, <1>5 DEF Claims, MonClaims, NoOp
    <2>2. \A k \in Thread : Claims(k)' => Claims(k) /\ k # t /\ op'[k] = op[k]
      BY <1>4, <2>1 DEF Claims
    <2>3. \A k \in Thread : Claims(k)' => Unheld(op[k].refed)'
      BY <1>1, <2>2 DEF CountInv, ClaimInv, Unheld
    <2>4. \A k \in Thread : pc'[k] \in {"wipe", "push"} => op'[k].saw.cnt = 1
      BY <1>4 DEF CountInv, ClaimInv
    <2> QED
      BY <2>1, <2>2, <2>3, <2>4 DEF CountInv, ClaimInv, Unheld
  <1>10. MonHold'
    BY <1>5 DEF MonHold, UnlinkLabel
  <1>11. HoldInv(t)' /\ SourceInv(t)'
    BY <1>4, RootHold, NoSource DEF NoOp
  <1>12. ASSUME NEW k \in Thread \ {t} PROVE HoldInv(k)' /\ SourceInv(k)'
    <2>1. HoldInv(k) /\ SourceInv(k) /\ op'[k] = op[k] /\ pc'[k] = pc[k] /\ slot'[k] = slot[k]
      BY <1>4 DEF CountInv
    <2>2. LogActive(k)' => LogActive(k)
      BY <1>5, <2>1 DEF LogActive
    <2>3. HoldInv(k)'
      BY <1>1, <2>1, <2>2, HoldKept
    <2>4. PICK s : s = op[k].src
      OBVIOUS
    <2>5. Linking(k) =>
            /\ inUse'[s] /\ pptr'[s] = pptr[s] /\ op'[Home[s]].ref # s
            /\ slot'[Home[s]] = slot[Home[s]]
      <3> SUFFICES ASSUME Linking(k)
                   PROVE  /\ inUse'[s] /\ pptr'[s] = pptr[s] /\ op'[Home[s]].ref # s
                          /\ slot'[Home[s]] = slot[Home[s]]
        OBVIOUS
      <3>1. s \in RootRef /\ inUse[s] /\ op[Home[s]].ref # s
        BY <2>1, <2>4 DEF SourceInv, Linking
      <3>2. slot[Home[s]] = "run"
        BY <1>1, <2>1, <2>4, SourceRuns DEF CountInv
      <3>3. Home[s] \in Thread \ {t}
        BY <1>2, <3>1, <3>2, BlockAssumption DEF Block
      <3> QED
        BY <1>1, <1>4, <3>1, <3>3
    <2>6. SourceInv(k)'
      BY <2>1, <2>4, <2>5, SourceKept
    <2> QED
      BY <2>3, <2>6
  <1> QED
    BY <1>7, <1>8, <1>9, <1>10, <1>11, <1>12 DEF CountInv

-----------------------------------------------------------------------------
(* Every step. *)

LEMMA NextCount ==
  ASSUME TypeInv, TypeInv', EraInv, RedoInv, SeenInv, VerdictInv, CountInv, FewRefs,
         [Next]_vars
  PROVE  CountInv'
  <1>1. CASE Monitor
    BY <1>1, DetectCount, ScanCount, RedoCount, VisitCount, MonUnlinkCount, MonCasCount,
       MonStoreCount, MonDropCount, FinishCount DEF Monitor
  <1>2. CASE UNCHANGED vars
    <2>1. MonHold'
      BY <1>2 DEF vars, CountInv, MonHold, Taking
    <2>2. \A k \in Thread : (Redone(k)' <=> Redone(k)) /\ (LogActive(k)' => LogActive(k))
      BY <1>2 DEF vars, Redone, LogActive
    <2> QED
      BY <1>2, <2>1, <2>2, MonQuietCount DEF vars
  <1> QED
    BY <1>1, <1>2, ClientNextCount DEF Next

LEMMA InitCount ==
  ASSUME FewRefs, Init
  PROVE  CountInv
  <1>1. /\ \A i \in Thread : slot[i] = "vacant" /\ pc[i] = "idle" /\ op[i] = NoOp
        /\ \A l \in RootRef : ~inUse[l]
        /\ \A o \in CXLObj : refInfo[o] = ZeroInfo
        /\ mon = NoMon
    BY DEF Init
  <1>2. \A l \in RootRef : View(l) = NULL
    BY <1>1 DEF View
  <1>3. CountExact
    <2> SUFFICES ASSUME NEW o \in CXLObj PROVE refInfo[o].cnt = Cardinality(Holders(o))
      BY DEF CountExact
    <2>1. Cardinality(Holders(o)) = 0
      BY <1>2, HoldersFinite, NotNull
    <2> QED
      BY <1>1, <2>1 DEF ZeroInfo
  <1>4. Used
    BY <1>2 DEF Used
  <1>5. ClaimInv /\ MonHold
    BY <1>1 DEF ClaimInv, Claims, MonClaims, MonHold, NoMon, UnlinkLabel
  <1>6. \A i \in Thread : HoldInv(i) /\ SourceInv(i)
    BY <1>1 DEF HoldInv, SourceInv, LogActive, Taking, RootLabel, PreCas
  <1> QED
    BY <1>3, <1>4, <1>5, <1>6 DEF CountInv

(* The changes about to be made were checked when the word was read. *)
LEMMA Fitting == CountInv => CountFits
  <1> SUFFICES ASSUME CountInv PROVE CountFits
    OBVIOUS
  <1>1. \A i \in Thread : pc[i] = "cas" => op[i].saw.cnt + Delta(i) \in 0 .. CNT_LIMIT - 1
    BY DEF CountInv, HoldInv
  <1>2. mon.pc = "cas" => mon.saw.cnt - 1 \in 0 .. CNT_LIMIT - 1
    BY DEF CountInv, MonHold
  <1> QED
    BY <1>1, <1>2 DEF CountFits

LEMMA InitRef ==
  ASSUME FewRefs, Init
  PROVE  RefInv
  BY InitTyped, EraInit, InitRedo, InitSeen, InitVerdict, InitCount DEF RefInv

LEMMA NextRef ==
  ASSUME FewRefs, RowsCovered, StampsApart, RefInv, [Next]_vars
  PROVE  RefInv'
  <1>1. /\ TypeInv /\ EraInv /\ RedoInv /\ SeenInv /\ VerdictInv /\ CountInv
        /\ ClaimInv /\ MonHold
    BY DEF RefInv, CountInv
  <1>2. TypeInv' /\ CountFits
    BY <1>1, NextTyped, Fitting
  <1>3. EraInv' /\ RedoInv'
    BY <1>1, <1>2, NextEras, NextRedo
  <1>4. SeenInv'
    BY <1>1, <1>2, NextSeen
  <1>5. VerdictInv'
    BY <1>1, <1>2, NextVerdict
  <1>6. CountInv'
    BY <1>1, <1>2, NextCount
  <1> QED
    BY <1>2, <1>3, <1>4, <1>5, <1>6 DEF RefInv

-----------------------------------------------------------------------------
(* What the invariant says.                                                *)

LEMMA NoneWild ==
  ASSUME FewRefs, RefInv
  PROVE  NoWildPointer
  <1>1. TypeInv /\ RedoInv /\ CountInv /\ Used
    BY DEF RefInv, CountInv
  <1>2. ASSUME NEW i \in Thread, slot[i] = "run", pc[i] \in PreCas
        PROVE  block[op[i].refed] = "used" /\ refInfo[op[i].refed].cnt > 0
    <2>1. PICK x \in CXLObj, r \in RootRef : x = op[i].refed /\ r = op[i].ref
      BY <1>1, <1>2, PreCasView
    <2>2. op[i].func \in {"LINK", "UNLINK"}
      BY <1>1, <1>2, PreCasView
    <2>3. block[x] = "used" /\ refInfo[x].cnt \in 1 .. CNT_LIMIT - 1
      <3>1. CASE op[i].func = "LINK"
        <4>1. Linking(i)
          BY <1>2, <3>1 DEF Linking
        <4> QED
          BY <1>1, <2>1, <4>1, SourceView, Held
      <3>2. CASE op[i].func = "UNLINK"
        BY <1>1, <1>2, <2>1, <3>2, PreCasView, Held
      <3> QED
        BY <2>2, <3>1, <3>2
    <2> QED
      BY <2>1, <2>3, SizeAssumption
  <1> QED
    BY <1>1, <1>2 DEF NoWildPointer, Used, PreCas

LEMMA SettledExact ==
  ASSUME RefInv
  PROVE  RecoveredExact
  <1> SUFFICES ASSUME Settled, NEW o \in CXLObj
               PROVE  refInfo[o].cnt = Cardinality({l \in RootRef : inUse[l] /\ pptr[l] = o})
    BY DEF RecoveredExact
  <1>1. TypeInv /\ CountExact
    BY DEF RefInv, CountInv
  <1>2. \A i \in Thread : pc[i] = "idle"
    <2> SUFFICES ASSUME NEW i \in Thread PROVE pc[i] = "idle"
      OBVIOUS
    <2>1. OpShape(i) /\ slot[i] \in {"vacant", "run", "dead", "gone"}
      BY <1>1 DEF TypeInv, TypeOK
    <2> QED
      BY <2>1 DEF Settled, OpShape
  <1>3. mon.pc = "watch"
    BY <1>1 DEF TypeInv, MonShape, Settled
  <1>4. \A l \in RootRef : View(l) = IF inUse[l] THEN pptr[l] ELSE NULL
    <2> SUFFICES ASSUME NEW l \in RootRef PROVE View(l) = IF inUse[l] THEN pptr[l] ELSE NULL
      OBVIOUS
    <2>1. pc[Home[l]] = "idle"
      BY <1>2, BlockAssumption DEF Block
    <2>2. ~MonMine(l) /\ ~Unstored(Home[l]) /\ ~Taking(Home[l])
      BY <1>3, <2>1 DEF MonMine, Unstored, Taking
    <2> QED
      BY <1>1, <2>2, ViewIs DEF ViewTable, TypeInv
  <1>5. Holders(o) = {l \in RootRef : inUse[l] /\ pptr[l] = o}
    BY <1>4, NotNull DEF Holders
  <1> QED
    BY <1>1, <1>5 DEF CountExact

-----------------------------------------------------------------------------
(* The results.  They rest on FewRefs (a count fits its field), on         *)
(* RowsCovered (the monitor's loop has a row for every client) and on      *)
(* StampsApart: the monitor loads the two halves of ref_info one after the *)
(* other, and a word of another client that carries the failed client's    *)
(* era would be taken for the failed client's.                             *)

(* The inductive invariant holds throughout. *)
LEMMA RefInvariant ==
  ASSUME FewRefs, RowsCovered
  PROVE  Spec /\ []StampsApart => []RefInv
  <1>1. Init => RefInv
    BY InitRef
  <1>2. RefInv /\ StampsApart /\ [Next]_vars => RefInv'
    BY NextRef
  <1> QED
    BY <1>1, <1>2, PTL DEF Spec

(* The count of an object is the number of RootRefs that hold it, at every *)
(* step of cxl_malloc, get_ref, link_reference and unlink_reference, when  *)
(* a client fails between any two of them, and at every step of the        *)
(* monitor's redo and release.                                             *)
THEOREM CountsExact ==
  ASSUME FewRefs, RowsCovered
  PROVE  Spec /\ []StampsApart => []CountExact
  <1>1. RefInv => CountExact
    BY DEF RefInv, CountInv
  <1> QED
    BY <1>1, RefInvariant, PTL

(* No operation and no failure leaves a count behind: when nothing is in   *)
(* progress, the counts are what a walk over the RootRefs in use gives.    *)
THEOREM CountsRecovered ==
  ASSUME FewRefs, RowsCovered
  PROVE  Spec /\ []StampsApart => []RecoveredExact
  <1>1. RefInv => RecoveredExact
    BY SettledExact
  <1> QED
    BY <1>1, RefInvariant, PTL

(* Neither link_reference nor unlink_reference, nor the monitor's          *)
(* recovery_unlink_reference, carries or borrows out of the ref_cnt field. *)
THEOREM CountsFit ==
  ASSUME FewRefs, RowsCovered
  PROVE  Spec /\ []StampsApart => []CountFits
  <1>1. RefInv => CountFits
    BY Fitting DEF RefInv
  <1> QED
    BY <1>1, RefInvariant, PTL

(* No RootRef, and no client between its read and its CAS, refers to a     *)
(* block that test_free or recovery_test_free has given back.              *)
THEOREM NothingWild ==
  ASSUME FewRefs, RowsCovered
  PROVE  Spec /\ []StampsApart => []NoWildPointer
  <1>1. RefInv => NoWildPointer
    BY NoneWild
  <1> QED
    BY <1>1, RefInvariant, PTL

(* The stamp on the object, or a row of the era array, shows whether the   *)
(* operation of a record was committed, and never shows it falsely.        *)
THEOREM EvidenceIsExact ==
  ASSUME FewRefs, RowsCovered
  PROVE  Spec /\ []StampsApart => []EvidenceExact
  <1>1. RefInv => EvidenceExact
    BY SeenEvidence DEF RefInv
  <1> QED
    BY <1>1, RefInvariant, PTL

(* redo_ref_cnt sets need_redo exactly if the operation in progress had    *)
(* been committed, although it loads the word twice and the rows of the    *)
(* era array one at a time while other clients go on.                      *)
THEOREM VerdictsExact ==
  ASSUME FewRefs, RowsCovered
  PROVE  Spec /\ []StampsApart => []VerdictExact
  <1>1. RefInv => VerdictExact
    BY DEF RefInv, VerdictInv, VerdictExact, RedoLabel
  <1> QED
    BY <1>1, RefInvariant, PTL

(* With the counts known to fit, the eras are causal and the records of    *)
(* earlier operations can be replayed.                                     *)
THEOREM ErasAndRecords ==
  ASSUME FewRefs, RowsCovered
  PROVE  Spec /\ []StampsApart => []EraCausal /\ []RedoHarmless
  BY CountsFit, ErasCausal, OldRecordsHarmless, PTL

(* All of it for a single_recovery_loop as recovery_check runs it, with no *)
(* client running: then the two halves of a word belong together, and      *)
(* nothing is supposed of the eras.                                        *)
THEOREM QuiescentRecovery ==
  ASSUME FewRefs, RowsCovered, Quiescent
  PROVE  Spec => [](/\ CountExact /\ RecoveredExact /\ CountFits /\ NoWildPointer
                    /\ EvidenceExact /\ VerdictExact)
  <1>1. StampsApart
    BY DEF StampsApart
  <1> QED
    BY <1>1, CountsExact, CountsRecovered, CountsFit, NothingWild, EvidenceIsExact,
       VerdictsExact, PTL

-----------------------------------------------------------------------------
(* The word a pending CAS expects.                                         *)

(* Only a CAS of a client changes the word of an object that a client has  *)
(* read and is about to change, if the monitor waits for the clients.      *)
LEMMA WordChanges ==
  ASSUME FewRefs, Quiescent, RefInv, [Next]_vars,
         NEW i \in Thread, Running(i, "cas"), NEW x \in CXLObj, x = op[i].refed,
         refInfo'[x] # refInfo[x]
  PROVE  \E k \in Thread : CasInfo(k) /\ op[k].refed = x
  <1>1. /\ TypeInv /\ CountInv /\ TypeOK /\ MonHold /\ ClaimInv /\ refInfo[x].cnt > 0
    <2>1. NoWildPointer
      BY NoneWild
    <2> QED
      BY <2>1 DEF RefInv, TypeInv, CountInv, NoWildPointer, Running
  <1>2. ~MonCas /\ ~MonStore
    BY <1>1 DEF MonHold, Running, MonCas, MonStore, Mon
  <1>3. ASSUME NEW k \in Thread, StampObject(k) \/ WipeObject(k) PROVE FALSE
    <2>1. Claims(k) /\ OpShape(k)
      BY <1>1, <1>3 DEF TypeInv, StampObject, WipeObject, Running, Claims, ClaimInv,
         OpShape, FreeLabel
    <2>2. PICK y \in CXLObj : y = op[k].refed
      BY <2>1 DEF OpShape, Claims, LinkLabel, PostCas, FreeLabel
    <2>3. Unheld(y)
      BY <1>1, <2>1, <2>2 DEF ClaimInv
    <2>4. y # x
      BY <1>1, <2>3 DEF Unheld
    <2>5. refInfo'[x] = refInfo[x]
      BY <1>1, <1>3, <2>2, <2>4 DEF TypeOK, StampObject, WipeObject
    <2> QED
      BY <2>5
  <1>4. ASSUME NEW k \in Thread, CasInfo(k) PROVE op[k].refed = x
    BY <1>1, <1>4 DEF TypeOK, CasInfo
  <1>5. \E k \in Thread : StampObject(k) \/ WipeObject(k) \/ CasInfo(k)
    <2>1. ~UNCHANGED vars
      BY DEF vars
    <2>2. ~Monitor
      BY <1>2 DEF Monitor, Detect, LoadLcid, LoadLenum, ScanRow, ScanEnd, Redo, Visit,
         MonRead, MonNote, MonRetry, MonDrop, Finish, clientVars
    <2>3. PICK k \in Thread : ThreadInit(k) \/ Crash(k) \/ Start(k) \/ Step(k)
      BY <2>1, <2>2 DEF Next
    <2>4. ~ThreadInit(k) /\ ~Crash(k) /\ ~Start(k)
      BY DEF ThreadInit, Crash, Start, CxlMalloc, GetRef, Drop
    <2>5. StampObject(k) \/ WipeObject(k) \/ CasInfo(k)
      BY <2>3, <2>4 DEF Step, SlowPath, ClearRedo, Collect, BlockToTbr, LinkBlockToTbr,
         TakeBlock, ReadInfo, NoteEra, WriteLog, CasRetry, StoreRef, BumpEra, PushObject,
         Release
    <2> QED
      BY <2>5
  <1> QED
    BY <1>3, <1>4, <1>5

(* What that CAS writes names an era of its client that nobody has seen. *)
LEMMA WordFresh ==
  ASSUME FewRefs, Quiescent, RefInv, [Next]_vars,
         NEW i \in Thread, Running(i, "cas"), pc'[i] = "cas", NEW x \in CXLObj,
         x = op[i].refed, refInfo[x] # op[i].saw
  PROVE  refInfo'[x] # op[i].saw
  <1> SUFFICES ASSUME refInfo'[x] # refInfo[x] PROVE refInfo'[x] # op[i].saw
    OBVIOUS
  <1>1. TypeInv /\ SeenInv /\ CountInv /\ TypeOK
    BY DEF RefInv, TypeInv
  <1>2. PICK k \in Thread : CasInfo(k) /\ op[k].refed = x
    BY WordChanges
  <1>3. slot[k] = "run" /\ pc[k] = "cas"
    BY <1>2 DEF CasInfo, Running
  <1>4. LogActive(k) /\ HoldInv(k)
    BY <1>1, <1>3, RunApart DEF CountInv
  <1>5. refInfo'[x].cid = k /\ refInfo'[x].era = era[k][k]
    <2>1. op[k].saw.cnt + Delta(k) \in 0 .. CNT_LIMIT - 1 /\ era[k][k] \in Nat
      BY <1>1, <1>3, <1>4 DEF HoldInv, TypeOK
    <2>2. PackRefInfo(k, op[k].saw.cnt + Delta(k), era[k][k])
            = [cid |-> k, cnt |-> op[k].saw.cnt + Delta(k), era |-> era[k][k]]
      BY <2>1, PackExact
    <2>3. refInfo'[x] = PackRefInfo(k, op[k].saw.cnt + Delta(k), era[k][k])
      BY <1>1, <1>2 DEF TypeOK, CasInfo
    <2> QED
      BY <2>2, <2>3
  <1>6. op[i].saw.cid = k => op[i].saw.era < era[k][k]
    BY <1>1, <1>3, <1>4 DEF SeenInv, Unseen, PostCas
  <1>7. era[k][k] \in Nat
    BY <1>1 DEF TypeOK
  <1> QED
    BY <1>5, <1>6, <1>7

(* A CAS of link_reference or unlink_reference that finds the word it has  *)
(* read finds it unchanged: the word of an object never returns to a value *)
(* that a client still expects.  The monitor's recovery_unlink_reference,  *)
(* which does not step the failed client's era before its first CAS, waits *)
(* for the clients here.                                                   *)
THEOREM WordsNeverReturn ==
  ASSUME FewRefs, RowsCovered, Quiescent
  PROVE  Spec => NoABA
  <1>1. StampsApart
    BY DEF StampsApart
  <1>2. RefInv /\ [Next]_vars =>
          [\A i \in Thread : Running(i, "cas") /\ pc'[i] = "cas" =>
             (refInfo[op[i].refed] # op[i].saw => refInfo'[op[i].refed] # op[i].saw)]_vars
    <2> SUFFICES ASSUME RefInv, [Next]_vars, NEW i \in Thread, Running(i, "cas"), pc'[i] = "cas",
                        refInfo[op[i].refed] # op[i].saw
                 PROVE  refInfo'[op[i].refed] # op[i].saw
      OBVIOUS
    <2>1. PICK x \in CXLObj : x = op[i].refed
      BY DEF RefInv, TypeInv, OpShape, Running, LinkLabel, PreCas
    <2> QED
      BY <2>1, WordFresh
  <1> QED
    BY <1>1, <1>2, RefInvariant, PTL DEF Spec, NoABA

-----------------------------------------------------------------------------
(* The status of an object, as a table.                                    *)

(* A block that is handed out and not an allocation in progress. *)
Handed(o) == block[o] = "used" /\ ~Stamping(o)

StatusTable(o) ==
  /\ refInfo[o].cnt > 0 => Status(o) = "live"
  /\ refInfo[o].cnt = 0 /\ Handed(o) => Status(o) = "dying"
  /\ refInfo[o].cnt = 0 /\ ~Handed(o) => Status(o) = "pool"

LEMMA StatusIs == \A o \in CXLObj : StatusTable(o)
  <1> SUFFICES ASSUME NEW o \in CXLObj PROVE StatusTable(o)
    OBVIOUS
  <1>1. refInfo[o].cnt > 0 => Status(o) = "live"
    BY DEF Status
  <1>2. refInfo[o].cnt = 0 => ~(refInfo[o].cnt > 0)
    OBVIOUS
  <1> QED
    BY <1>1, <1>2 DEF StatusTable, Status, Handed

LEMMA StatusNext == \A o \in CXLObj : StatusTable(o)'
  <1>1. (\A o \in CXLObj : StatusTable(o))'
    BY StatusIs, PTL
  <1> QED
    BY <1>1

LEMMA CountIsNat ==
  ASSUME TypeInv
  PROVE  \A o \in CXLObj : refInfo[o].cnt \in Nat
  BY DEF TypeInv, TypeOK, Info

LEMMA StatusSame ==
  ASSUME TypeInv, NEW o \in CXLObj, refInfo'[o].cnt = refInfo[o].cnt,
         refInfo[o].cnt = 0 => (Handed(o)' <=> Handed(o))
  PROVE  Status(o)' = Status(o)
  <1>1. refInfo[o].cnt \in Nat /\ StatusTable(o) /\ StatusTable(o)'
    BY CountIsNat, StatusIs, StatusNext
  <1>2. CASE refInfo[o].cnt > 0
    BY <1>1, <1>2 DEF StatusTable
  <1>3. CASE refInfo[o].cnt = 0
    BY <1>1, <1>3 DEF StatusTable
  <1> QED
    BY <1>1, <1>2, <1>3

(* An object that another allocation or release has to itself is not being *)
(* stamped.                                                                *)
LEMMA StampedIsClaimed ==
  ASSUME TypeInv, CountInv, NEW o \in CXLObj, Stamping(o)
  PROVE  Unheld(o)
  <1>1. PICK k \in Thread : pc[k] = "stamp" /\ op[k].refed = o
    BY DEF Stamping
  <1> QED
    BY <1>1 DEF CountInv, ClaimInv, Claims

LEMMA ClaimedOnce ==
  ASSUME CountInv, NEW i \in Thread, Claims(i), NEW o, o = op[i].refed
  PROVE  \A k \in Thread \ {i} : ~(pc[k] = "stamp" /\ op[k].refed = o)
  BY DEF CountInv, ClaimInv, Claims

-----------------------------------------------------------------------------
(* The steps that hand out no object, stamp none and give none back.       *)
Undisturbed ==
  /\ \A o \in CXLObj : block'[o] = "used" <=> block[o] = "used"
  /\ \A k \in Thread : pc'[k] = "stamp" <=> pc[k] = "stamp"
  /\ \A k \in Thread : pc[k] = "stamp" => op'[k].refed = op[k].refed

LEMMA HandedSame ==
  ASSUME Undisturbed, NEW o \in CXLObj
  PROVE  (Handed(o)' <=> Handed(o)) /\ (Stamping(o)' <=> Stamping(o))
  BY DEF Undisturbed, Handed, Stamping

HeldMap == [l \in RootRef |-> View(l)]
StatusMap == [o \in CXLObj |-> Status(o)]

LEMMA SteadyStutters ==
  ASSUME TypeInv, Steady, Undisturbed
  PROVE  UNCHANGED <<HeldMap, StatusMap>>
  <1>1. \A o \in CXLObj : Status(o)' = Status(o)
    BY HandedSame, StatusSame DEF Steady
  <1> QED
    BY <1>1 DEF Steady, HeldMap, StatusMap

(* A client that changes the label or the variables of its operation. *)
LEMMA OneClient ==
  ASSUME NEW i \in Thread, \A k \in Thread \ {i} : op'[k] = op[k] /\ pc'[k] = pc[k],
         pc[i] # "stamp", pc'[i] # "stamp",
         \A o \in CXLObj : block'[o] = "used" <=> block[o] = "used"
  PROVE  Undisturbed
  BY DEF Undisturbed

LEMMA StartUndisturbed ==
  ASSUME TypeInv, EraInv, NEW i \in Thread, Start(i)
  PROVE  Undisturbed
  <1>1. \A k \in Thread \ {i} : op'[k] = op[k] /\ pc'[k] = pc[k]
    BY ClientStep
  <1>2. TypeOK
    BY DEF TypeInv
  <1>3. pc[i] # "stamp" /\ pc'[i] # "stamp" /\ block' = block
    BY <1>2 DEF TypeOK, Start, CxlMalloc, GetRef, Drop, CanStart, Running
  <1> QED
    BY <1>1, <1>3, OneClient

LEMMA PushedBlocks ==
  ASSUME TypeInv, NEW i \in Thread, NEW b \in Block, NEW class, class \subseteq Block,
         block' \in Pushed(i, b, class)
  PROVE  /\ block'[b] = "away"
         /\ \A c \in Block \ {b} : block'[c] = "used" <=> block[c] = "used"
  <1>1. PICK gone \in {{}, IF Home[b] = i THEN FreeOf(i, class) ELSE {}} :
          block' = [c \in Block |-> IF c = b \/ c \in gone THEN "away" ELSE block[c]]
    BY DEF Pushed
  <1>2. \A c \in gone : block[c] = "free"
    BY <1>1 DEF FreeOf
  <1> QED
    BY <1>1, <1>2

LEMMA StepUndisturbed ==
  ASSUME TypeInv, EraInv, NEW i \in Thread, Step(i),
         ~TakeBlock(i), ~StampObject(i), ~PushObject(i)
  PROVE  Undisturbed
  <1>1. /\ \A k \in Thread \ {i} : op'[k] = op[k] /\ pc'[k] = pc[k]
        /\ TypeOK /\ OpShape(i)
    BY ClientStep DEF TypeInv
  <1>2. CASE SlowPath(i) \/ ClearRedo(i) \/ ReadInfo(i) \/ NoteEra(i) \/ WriteLog(i)
             \/ CasInfo(i) \/ CasRetry(i) \/ StoreRef(i) \/ BumpEra(i) \/ WipeObject(i)
    <2>1. pc[i] # "stamp" /\ block' = block
      BY <1>2 DEF SlowPath, ClearRedo, ReadInfo, NoteEra, WriteLog, CasInfo, CasRetry,
         StoreRef, BumpEra, WipeObject, Running
    <2>2. pc'[i] # "stamp"
      BY <1>1, <1>2 DEF TypeOK, SlowPath, ClearRedo, ReadInfo, NoteEra, WriteLog, CasInfo,
         CasRetry, StoreRef, BumpEra, WipeObject, Running, Return
    <2> QED
      BY <1>1, <2>1, <2>2, OneClient
  <1>3. CASE Collect(i)
    <2>1. pc[i] # "stamp" /\ pc'[i] # "stamp"
      BY <1>1, <1>3 DEF TypeOK, Collect
    <2>2. PICK found :
            /\ \A b \in found : block[b] = "away"
            /\ block' = [b \in Block |-> IF b \in found THEN "free" ELSE block[b]]
      BY <1>3 DEF Collect, AwayOf
    <2>3. \A o \in CXLObj : block'[o] = "used" <=> block[o] = "used"
      BY <2>2 DEF Block
    <2> QED
      BY <1>1, <2>1, <2>3, OneClient
  <1>4. CASE BlockToTbr(i)
    <2>1. pc[i] # "stamp" /\ pc'[i] # "stamp"
      BY <1>1, <1>4 DEF TypeOK, BlockToTbr, Running
    <2>2. PICK l \in RootRef : block' = [block EXCEPT ![l] = "used"]
      BY <1>4 DEF BlockToTbr, FreeOf
    <2>3. \A o \in CXLObj : block'[o] = block[o]
      BY <1>1, <2>2, NotNull DEF TypeOK, Block
    <2> QED
      BY <1>1, <2>1, <2>3, OneClient
  <1>5. CASE LinkBlockToTbr(i)
    <2>1. pc[i] # "stamp" /\ pc'[i] # "stamp" /\ block' = block
      BY <1>1, <1>5 DEF TypeOK, LinkBlockToTbr, Running
    <2> QED
      BY <1>1, <2>1, OneClient
  <1>6. CASE Release(i)
    <2>1. pc[i] # "stamp" /\ pc'[i] # "stamp"
      BY <1>1, <1>6 DEF TypeOK, Release, Running, Return
    <2>2. PICK r \in RootRef : r = op[i].ref
      BY <1>1, <1>6 DEF OpShape, Release, Running, LinkLabel, FreeLabel
    <2>3. block' \in Pushed(i, r, RootRef)
      BY <1>6, <2>2 DEF Release
    <2>4. \A o \in CXLObj : block'[o] = "used" <=> block[o] = "used"
      BY <2>2, <2>3, PushedBlocks, NotNull DEF Block
    <2> QED
      BY <1>1, <2>1, <2>4, OneClient
  <1> QED
    BY <1>2, <1>3, <1>4, <1>5, <1>6 DEF Step

(* An allocation takes its block: it is not in use before, and has yet to  *)
(* be stamped.                                                             *)
LEMMA TakeBlockStutters ==
  ASSUME TypeInv, EraInv, CountInv, FewRefs, Steady, NEW i \in Thread, TakeBlock(i)
  PROVE  UNCHANGED <<HeldMap, StatusMap>>
  <1>1. /\ TypeOK /\ OpShape(i) /\ HoldInv(i) /\ pc[i] = "take" /\ pc'[i] = "stamp"
        /\ op' = op /\ block' = [block EXCEPT ![op[i].refed] = "used"]
        /\ \A k \in Thread \ {i} : pc'[k] = pc[k]
    BY DEF TypeInv, TypeOK, CountInv, TakeBlock, Running
  <1>2. PICK x \in CXLObj : x = op[i].refed
    BY <1>1 DEF OpShape
  <1>3. block[x] = "free" /\ block'[x] = "used"
        /\ \A o \in CXLObj \ {x} : block'[o] = block[o]
    BY <1>1, <1>2 DEF TypeOK, HoldInv, Block
  <1>4. ~Handed(x)
    BY <1>3 DEF Handed
  <1>5. ~Handed(x)'
    <2>1. Stamping(x)'
      BY <1>1, <1>2 DEF Stamping
    <2> QED
      BY <2>1 DEF Handed
  <1>6. \A o \in CXLObj \ {x} : Handed(o)' <=> Handed(o)
    <2>1. \A o \in CXLObj \ {x} : Stamping(o)' <=> Stamping(o)
      BY <1>1, <1>2 DEF Stamping
    <2> QED
      BY <1>3, <2>1 DEF Handed
  <1>7. \A o \in CXLObj : Handed(o)' <=> Handed(o)
    BY <1>4, <1>5, <1>6
  <1>8. \A o \in CXLObj : Status(o)' = Status(o)
    BY <1>7, StatusSame DEF Steady
  <1> QED
    BY <1>8 DEF Steady, HeldMap, StatusMap

(* The stamp creates the object. *)
LEMMA StampCreates ==
  ASSUME TypeInv, TypeInv', CountInv, NEW i \in Thread, StampObject(i),
         NEW r \in RootRef, NEW x \in CXLObj, x = op[i].refed, Unheld(x), Gains(r, x)
  PROVE  Atomic!Create(r, x)
  <1>1. /\ TypeOK /\ pc[i] = "stamp" /\ pc'[i] = "idle" /\ block' = block
        /\ \A k \in Thread \ {i} : pc'[k] = pc[k] /\ op'[k] = op[k]
    BY DEF TypeInv, TypeOK, StampObject, Running, Return
  <1>2. refInfo[x].cnt = 0 /\ refInfo'[x].cnt = 1
    BY DEF Unheld, Gains
  <1>3. Status(x) = "pool"
    <2>1. Stamping(x)
      BY <1>1 DEF Stamping
    <2> QED
      BY <1>2, <2>1, StatusIs DEF StatusTable, Handed
  <1>4. Status(x)' = "live"
    <2>1. StatusTable(x)'
      BY StatusNext
    <2> QED
      BY <1>2, <2>1 DEF StatusTable
  <1>5. ASSUME NEW o \in CXLObj \ {x} PROVE Status(o)' = Status(o)
    <2>1. Handed(o)' <=> Handed(o)
      BY <1>1 DEF Handed, Stamping
    <2> QED
      BY <2>1, StatusSame DEF Gains
  <1>6. [o \in CXLObj |-> Status(o)'] = [[o \in CXLObj |-> Status(o)] EXCEPT ![x] = "live"]
    BY <1>4, <1>5
  <1>7. [l \in RootRef |-> View(l)'] = [[l \in RootRef |-> View(l)] EXCEPT ![r] = x]
    BY DEF Gains
  <1> QED
    BY <1>3, <1>6, <1>7 DEF Gains, Atomic!Create

-----------------------------------------------------------------------------
(* The CAS of link_reference and of the two forms of unlink_reference.     *)

(* Such a step changes the status of the object it counts at most. *)
LEMMA OthersKeepStatus ==
  ASSUME TypeInv, Undisturbed, NEW x \in CXLObj,
         \A o \in CXLObj \ {x} : refInfo'[o].cnt = refInfo[o].cnt
  PROVE  \A o \in CXLObj \ {x} : Status(o)' = Status(o)
  BY HandedSame, StatusSame

LEMMA GainsShares ==
  ASSUME TypeInv, TypeInv', CountInv, FewRefs, Undisturbed,
         NEW r \in RootRef, NEW x \in CXLObj, Gains(r, x), NEW s \in RootRef, View(s) = x
  PROVE  Atomic!Share(r, s)
  <1>1. refInfo[x].cnt \in Nat \ {0} /\ refInfo'[x].cnt > 0
    <2>1. refInfo[x].cnt \in 1 .. CNT_LIMIT - 1
      BY Held
    <2> QED
      BY <2>1, CountIsNat DEF Gains
  <1>2. Status(x)' = Status(x)
    <2>1. StatusTable(x) /\ StatusTable(x)'
      BY StatusIs, StatusNext
    <2> QED
      BY <1>1, <2>1 DEF StatusTable
  <1>3. \A o \in CXLObj \ {x} : Status(o)' = Status(o)
    BY OthersKeepStatus DEF Gains
  <1>4. [o \in CXLObj |-> Status(o)'] = [o \in CXLObj |-> Status(o)]
    BY <1>2, <1>3
  <1>5. [l \in RootRef |-> View(l)'] = [[l \in RootRef |-> View(l)] EXCEPT ![r] = x]
    BY DEF Gains
  <1>6. View(r) = NULL /\ View(s) # NULL
    BY NotNull DEF Gains
  <1> QED
    BY <1>4, <1>5, <1>6 DEF Atomic!Share

LEMMA NoHolders == FewRefs => \A o : Cardinality(Holders(o)) = 0 <=> \A l \in RootRef : View(l) # o
  BY HoldersFinite

LEMMA NoHoldersNext ==
  ASSUME FewRefs
  PROVE  \A o : Cardinality(Holders(o)') = 0 <=> \A l \in RootRef : View(l)' # o
  <1>1. (FewRefs => \A o : Cardinality(Holders(o)) = 0 <=> \A l \in RootRef : View(l) # o)'
    BY NoHolders, PTL
  <1> QED
    BY <1>1 DEF FewRefs

LEMMA LosesDrops ==
  ASSUME TypeInv, TypeInv', CountInv, CountInv', FewRefs, Undisturbed,
         NEW r \in RootRef, NEW x \in CXLObj, Loses(r, x)
  PROVE  Atomic!Drop(r)
  <1>1. refInfo[x].cnt \in 1 .. CNT_LIMIT - 1 /\ block[x] = "used" /\ x # NULL
    BY Held, NotNull DEF Loses
  <1>2. Handed(x)'
    <2>1. ~Stamping(x)
      BY <1>1, StampedIsClaimed, SizeAssumption DEF Unheld
    <2> QED
      BY <1>1, <2>1, HandedSame DEF Handed
  <1>3. (\E s \in RootRef \ {r} : View(s) = x) <=> refInfo'[x].cnt # 0
    <2>1. refInfo'[x].cnt = Cardinality(Holders(x)')
      BY DEF CountInv, CountExact
    <2>2. Cardinality(Holders(x)') = 0 <=> \A l \in RootRef : View(l)' # x
      BY NoHoldersNext
    <2>3. \A l \in RootRef : View(l)' = x <=> l # r /\ View(l) = x
      BY <1>1 DEF Loses
    <2> QED
      BY <2>1, <2>2, <2>3
  <1>4. Status(x)' = IF \E s \in RootRef \ {r} : View(s) = x THEN "live" ELSE "dying"
    <2>1. StatusTable(x)' /\ refInfo'[x].cnt \in Nat
      BY <1>1, StatusNext, SizeAssumption DEF Loses
    <2>2. CASE refInfo'[x].cnt # 0
      BY <1>3, <2>1, <2>2 DEF StatusTable
    <2>3. CASE refInfo'[x].cnt = 0
      BY <1>2, <1>3, <2>1, <2>3 DEF StatusTable
    <2> QED
      BY <2>2, <2>3
  <1>5. \A o \in CXLObj \ {x} : Status(o)' = Status(o)
    BY OthersKeepStatus DEF Loses
  <1>6. [o \in CXLObj |-> Status(o)'] =
          [[o \in CXLObj |-> Status(o)] EXCEPT ![x] =
             IF \E s \in RootRef \ {r} : View(s) = x THEN "live" ELSE "dying"]
    BY <1>4, <1>5
  <1>7. [l \in RootRef |-> View(l)'] = [[l \in RootRef |-> View(l)] EXCEPT ![r] = NULL]
    BY DEF Loses
  <1>8. View(r) = x
    BY DEF Loses
  <1> QED
    BY <1>1, <1>6, <1>7, <1>8 DEF Atomic!Drop

LEMMA CasIsAtomic ==
  ASSUME NEW i \in Thread, TypeInv, TypeInv', EraInv, RedoInv, CountInv, FewRefs,
         CasInfo(i), Undisturbed
  PROVE  Atomic!Next
  <1>1. CountInv'
    BY CasInfoCount
  <1>2. PICK r \in RootRef, x \in CXLObj :
          /\ r = op[i].ref /\ x = op[i].refed
          /\ \/ op[i].func = "LINK" /\ Gains(r, x)
             \/ op[i].func = "UNLINK" /\ Loses(r, x)
    BY CasInfoCount
  <1>3. CASE op[i].func = "LINK" /\ Gains(r, x)
    <2>1. Linking(i)
      BY <1>3 DEF CasInfo, Running, Linking, PreCas
    <2>2. PICK s \in RootRef : View(s) = x
      BY <1>2, <2>1, SourceView
    <2>3. Atomic!Share(r, s)
      BY <1>3, <2>2, GainsShares
    <2> QED
      BY <2>3 DEF Atomic!Next
  <1>4. CASE op[i].func = "UNLINK" /\ Loses(r, x)
    <2>1. Atomic!Drop(r)
      BY <1>1, <1>4, LosesDrops
    <2> QED
      BY <2>1 DEF Atomic!Next
  <1> QED
    BY <1>2, <1>3, <1>4

LEMMA MonCasIsAtomic ==
  ASSUME TypeInv, TypeInv', CountInv, FewRefs, MonCas, Undisturbed
  PROVE  Atomic!Next
  <1>1. CountInv'
    BY MonCasCount
  <1>2. PICK r \in RootRef, x \in CXLObj : Loses(r, x)
    BY MonCasCount
  <1>3. Atomic!Drop(r)
    BY <1>1, <1>2, LosesDrops
  <1> QED
    BY <1>3 DEF Atomic!Next

-----------------------------------------------------------------------------
(* Giving an object back.                                                  *)

(* Only object x stops being handed out, or starts to be. *)
LEMMA OneReturned ==
  ASSUME TypeInv, Steady, NEW x \in CXLObj, refInfo[x].cnt = 0,
         \A o \in CXLObj \ {x} : Handed(o)' <=> Handed(o)
  PROVE  /\ Handed(x) /\ ~Handed(x)' => Atomic!Reclaim(x)
         /\ ~Handed(x) /\ Handed(x)' => Atomic!Lose(x)
  <1>1. StatusTable(x) /\ StatusTable(x)' /\ refInfo'[x].cnt = 0
    BY StatusIs, StatusNext DEF Steady
  <1>2. \A o \in CXLObj \ {x} : Status(o)' = Status(o)
    BY StatusSame DEF Steady
  <1>3. [l \in RootRef |-> View(l)'] = [l \in RootRef |-> View(l)]
    BY DEF Steady
  <1>4. ASSUME Handed(x), ~Handed(x)' PROVE Atomic!Reclaim(x)
    <2>1. Status(x) = "dying" /\ Status(x)' = "pool"
      BY <1>1, <1>4 DEF StatusTable
    <2>2. [o \in CXLObj |-> Status(o)'] = [[o \in CXLObj |-> Status(o)] EXCEPT ![x] = "pool"]
      BY <1>2, <2>1
    <2> QED
      BY <1>3, <2>1, <2>2 DEF Atomic!Reclaim
  <1>5. ASSUME ~Handed(x), Handed(x)' PROVE Atomic!Lose(x)
    <2>1. Status(x) = "pool" /\ Status(x)' = "dying"
      BY <1>1, <1>5 DEF StatusTable
    <2>2. [o \in CXLObj |-> Status(o)'] = [[o \in CXLObj |-> Status(o)] EXCEPT ![x] = "dying"]
      BY <1>2, <2>1
    <2> QED
      BY <1>3, <2>1, <2>2 DEF Atomic!Lose
  <1> QED
    BY <1>4, <1>5

LEMMA PushReclaims ==
  ASSUME NEW i \in Thread, TypeInv, EraInv, CountInv, Steady, PushObject(i)
  PROVE  \E x \in CXLObj : Atomic!Reclaim(x)
  <1>1. /\ TypeOK /\ OpShape(i) /\ ClaimInv /\ pc[i] = "push" /\ pc'[i] = "release" /\ op' = op
        /\ \A k \in Thread \ {i} : pc'[k] = pc[k]
        /\ block' \in Pushed(i, op[i].refed, CXLObj)
    BY DEF TypeInv, TypeOK, CountInv, PushObject, Running
  <1>2. PICK x \in CXLObj : x = op[i].refed
    BY <1>1 DEF OpShape, LinkLabel, FreeLabel
  <1>3. Claims(i)
    BY <1>1 DEF Claims, ClaimInv, OpShape, FreeLabel
  <1>4. Unheld(x) /\ ~Stamping(x)
    <2>1. Unheld(x)
      BY <1>1, <1>2, <1>3 DEF ClaimInv
    <2>2. ~Stamping(x)
      BY <1>1, <1>2, <1>3, ClaimedOnce DEF Stamping
    <2> QED
      BY <2>1, <2>2
  <1>5. \A k \in Thread : pc'[k] = "stamp" <=> pc[k] = "stamp"
    BY <1>1
  <1>6. \A o \in CXLObj : Stamping(o)' <=> Stamping(o)
    BY <1>1, <1>5 DEF Stamping
  <1>7. block'[x] = "away" /\ \A o \in CXLObj \ {x} : block'[o] = "used" <=> block[o] = "used"
    BY <1>1, <1>2, PushedBlocks DEF Block
  <1>8. /\ Handed(x) /\ ~Handed(x)'
        /\ \A o \in CXLObj \ {x} : Handed(o)' <=> Handed(o)
    BY <1>4, <1>6, <1>7 DEF Handed, Unheld
  <1>9. refInfo[x].cnt = 0
    BY <1>4 DEF Unheld
  <1> QED
    BY <1>8, <1>9, OneReturned

LEMMA MonStoreReclaims ==
  ASSUME TypeInv, CountInv, Steady, MonStore
  PROVE  (\E x \in CXLObj : Atomic!Reclaim(x)) \/ UNCHANGED <<HeldMap, StatusMap>>
  <1>1. /\ TypeOK /\ MonShape /\ ClaimInv /\ mon.pc = "store" /\ pc' = pc /\ op' = op
        /\ block' = IF mon.saw.cnt = 1 THEN [block EXCEPT ![pptr[mon.ref]] = "away"] ELSE block
    BY DEF TypeInv, CountInv, MonStore, Mon
  <1>2. \A o \in CXLObj : Stamping(o)' <=> Stamping(o)
    BY <1>1 DEF Stamping
  <1>3. CASE mon.saw.cnt # 1
    <2>1. Undisturbed
      BY <1>1, <1>3 DEF Undisturbed
    <2> QED
      BY <2>1, SteadyStutters
  <1>4. CASE mon.saw.cnt = 1
    <2>1. PICK x \in CXLObj : x = pptr[mon.ref]
      BY <1>1 DEF MonShape, UnlinkLabel
    <2>2. MonClaims
      BY <1>1, <1>4 DEF MonClaims
    <2>3. Unheld(x) /\ ~Stamping(x)
      <3>1. Unheld(x)
        BY <1>1, <2>1, <2>2 DEF ClaimInv
      <3>2. ~Stamping(x)
        BY <1>1, <2>1, <2>2 DEF ClaimInv, Claims, Stamping
      <3> QED
        BY <3>1, <3>2
    <2>4. block'[x] = "away" /\ \A o \in CXLObj \ {x} : block'[o] = block[o]
      BY <1>1, <1>4, <2>1 DEF TypeOK, Block
    <2>5. /\ Handed(x) /\ ~Handed(x)'
          /\ \A o \in CXLObj \ {x} : Handed(o)' <=> Handed(o)
      BY <1>2, <2>3, <2>4 DEF Handed, Unheld
    <2>6. refInfo[x].cnt = 0
      BY <2>3 DEF Unheld
    <2> QED
      BY <2>5, <2>6, OneReturned
  <1> QED
    BY <1>3, <1>4

(* A client that failed before it stamped its object: the block stays     *)
(* handed out, and nothing refers to it.                                  *)
LEMMA FinishLoses ==
  ASSUME TypeInv, CountInv, Steady, Finish
  PROVE  (\E x \in CXLObj : Atomic!Lose(x)) \/ UNCHANGED <<HeldMap, StatusMap>>
  <1>1. /\ TypeOK /\ MonShape /\ ClaimInv /\ block' = block
        /\ pc' = [pc EXCEPT ![mon.tgt] = "idle"] /\ op' = [op EXCEPT ![mon.tgt] = NoOp]
        /\ mon.pc = "gc"
    BY DEF TypeInv, CountInv, Finish, Mon, Return
  <1>2. PICK t \in Thread : t = mon.tgt
    BY <1>1 DEF MonShape
  <1>3. /\ pc'[t] = "idle" /\ OpShape(t)
        /\ \A k \in Thread \ {t} : pc'[k] = pc[k] /\ op'[k] = op[k]
    BY <1>1, <1>2 DEF TypeOK, TypeInv
  <1>4. CASE pc[t] # "stamp"
    <2>1. Undisturbed
      BY <1>1, <1>3, <1>4, OneClient
    <2> QED
      BY <2>1, SteadyStutters
  <1>5. CASE pc[t] = "stamp"
    <2>1. PICK x \in CXLObj : x = op[t].refed
      BY <1>3, <1>5 DEF OpShape
    <2>2. Claims(t)
      BY <1>5 DEF Claims
    <2>3. Unheld(x) /\ Stamping(x)
      <3>1. Unheld(x)
        BY <1>1, <2>1, <2>2 DEF ClaimInv
      <3> QED
        BY <1>5, <2>1, <3>1 DEF Stamping
    <2>4. ~Stamping(x)'
      <3>1. \A k \in Thread \ {t} : ~(pc[k] = "stamp" /\ op[k].refed = x)
        BY <2>1, <2>2, ClaimedOnce
      <3> QED
        BY <1>3, <3>1 DEF Stamping
    <2>5. \A o \in CXLObj \ {x} : Stamping(o)' <=> Stamping(o)
      BY <1>3, <2>1 DEF Stamping
    <2>6. /\ ~Handed(x) /\ Handed(x)'
          /\ \A o \in CXLObj \ {x} : Handed(o)' <=> Handed(o)
      BY <1>1, <2>3, <2>4, <2>5 DEF Handed, Unheld
    <2>7. refInfo[x].cnt = 0
      BY <2>3 DEF Unheld
    <2> QED
      BY <2>6, <2>7, OneReturned
  <1> QED
    BY <1>4, <1>5

-----------------------------------------------------------------------------
(* Every step. *)

LEMMA ClientIsAtomic ==
  ASSUME NEW i \in Thread, TypeInv, TypeInv', EraInv, RedoInv, CountInv, FewRefs,
         ThreadInit(i) \/ Crash(i) \/ Start(i) \/ Step(i)
  PROVE  Atomic!Next \/ UNCHANGED <<HeldMap, StatusMap>>
  <1>1. CASE ThreadInit(i) \/ Crash(i)
    <2>1. Undisturbed
      BY <1>1 DEF ThreadInit, Crash, Undisturbed
    <2> QED
      BY <1>1, <2>1, SlotCount, SteadyStutters
  <1>2. CASE Start(i)
    <2>1. Steady
      BY <1>2, CxlMallocCount, GetRefCount, DropCount DEF Start
    <2> QED
      BY <1>2, <2>1, StartUndisturbed, SteadyStutters
  <1>3. CASE TakeBlock(i)
    BY <1>3, TakeBlockCount, TakeBlockStutters
  <1>4. CASE StampObject(i)
    <2>1. PICK r \in RootRef, x \in CXLObj : x = op[i].refed /\ Unheld(x) /\ Gains(r, x)
      BY <1>4, StampObjectCount
    <2>2. Atomic!Create(r, x)
      BY <1>4, <2>1, StampCreates
    <2> QED
      BY <2>2 DEF Atomic!Next
  <1>5. CASE PushObject(i)
    <2>1. Steady
      BY <1>5, PushObjectCount
    <2> QED
      BY <1>5, <2>1, PushReclaims DEF Atomic!Next
  <1>6. CASE Step(i) /\ ~TakeBlock(i) /\ ~StampObject(i) /\ ~PushObject(i)
    <2>1. Undisturbed
      BY <1>6, StepUndisturbed
    <2>2. CASE CasInfo(i)
      BY <2>1, <2>2, CasIsAtomic
    <2>3. CASE ~CasInfo(i)
      <3>1. Steady
        BY <1>6, <2>3, SlowPathCount, BlockToTbrCount, LinkBlockToTbrCount, PreCasCount,
           StoreRefCount, BumpEraCount, WipeObjectCount, ReleaseCount DEF Step
      <3> QED
        BY <2>1, <3>1, SteadyStutters
    <2> QED
      BY <2>2, <2>3
  <1> QED
    BY <1>1, <1>2, <1>3, <1>4, <1>5, <1>6

LEMMA MonitorUndisturbed ==
  ASSUME TypeInv, Monitor, ~MonStore, ~Finish
  PROVE  Undisturbed
  <1>1. TypeOK /\ MonShape
    BY DEF TypeInv
  <1>2. pc' = pc /\ op' = op
    BY DEF Monitor, Detect, LoadLcid, LoadLenum, ScanRow, ScanEnd, Redo, Visit, MonRead,
       MonNote, MonCas, MonRetry, MonDrop, clientVars
  <1>3. \A o \in CXLObj : block'[o] = block[o]
    <2>1. CASE MonDrop
      <3>1. mon.ref \in RootRef /\ block' = [block EXCEPT ![mon.ref] = "away"]
        BY <1>1, <2>1 DEF MonDrop, Mon, MonShape
      <3> QED
        BY <1>1, <3>1, NotNull DEF TypeOK, Block
    <2>2. CASE ~MonDrop
      BY <2>2 DEF Monitor, Detect, LoadLcid, LoadLenum, ScanRow, ScanEnd, Redo, Visit, MonRead,
         MonNote, MonCas, MonRetry, clientVars
    <2> QED
      BY <2>1, <2>2
  <1> QED
    BY <1>2, <1>3 DEF Undisturbed

LEMMA MonitorIsAtomic ==
  ASSUME TypeInv, TypeInv', RedoInv, SeenInv, VerdictInv, CountInv, FewRefs, Monitor
  PROVE  Atomic!Next \/ UNCHANGED <<HeldMap, StatusMap>>
  <1>1. CASE MonStore
    <2>1. Steady
      BY <1>1, MonStoreCount
    <2> QED
      BY <1>1, <2>1, MonStoreReclaims DEF Atomic!Next
  <1>2. CASE Finish
    <2>1. Steady
      BY <1>2, FinishCount
    <2> QED
      BY <1>2, <2>1, FinishLoses DEF Atomic!Next
  <1>3. CASE ~MonStore /\ ~Finish
    <2>1. Undisturbed
      BY <1>3, MonitorUndisturbed
    <2>2. CASE MonCas
      BY <2>1, <2>2, MonCasIsAtomic
    <2>3. CASE ~MonCas
      <3>1. Steady
        BY <1>3, <2>3, DetectCount, ScanCount, RedoCount, VisitCount, MonUnlinkCount,
           MonDropCount DEF Monitor
      <3> QED
        BY <2>1, <3>1, SteadyStutters
    <2> QED
      BY <2>2, <2>3
  <1> QED
    BY <1>1, <1>2, <1>3

LEMMA StepIsAtomic ==
  ASSUME FewRefs, RefInv, RefInv', [Next]_vars
  PROVE  Atomic!Next \/ UNCHANGED <<HeldMap, StatusMap>>
  <1>1. /\ TypeInv /\ TypeInv' /\ EraInv /\ RedoInv /\ SeenInv /\ VerdictInv /\ CountInv
    BY DEF RefInv
  <1>2. CASE UNCHANGED vars
    BY <1>2 DEF vars, HeldMap, StatusMap, View, Unstored, Redone, Status, Stamping
  <1>3. CASE Next
    BY <1>1, <1>3, ClientIsAtomic, MonitorIsAtomic DEF Next
  <1> QED
    BY <1>2, <1>3

LEMMA InitIsAtomic == Init => Atomic!Init
  <1> SUFFICES ASSUME Init PROVE Atomic!Init
    OBVIOUS
  <1>1. \A l \in RootRef : View(l) = NULL
    BY DEF Init, View
  <1>2. \A o \in CXLObj : Status(o) = "pool"
    <2> SUFFICES ASSUME NEW o \in CXLObj PROVE Status(o) = "pool"
      OBVIOUS
    <2>1. refInfo[o].cnt = 0 /\ ~Handed(o)
      BY DEF Init, ZeroInfo, Handed, Block
    <2> QED
      BY <2>1, StatusIs DEF StatusTable
  <1> QED
    BY <1>1, <1>2 DEF Atomic!Init

(* The protocol implements AtomicRefs: whatever fails wherever, the users   *)
(* of CXLRefs see references that are made, copied and dropped in one step, *)
(* and objects that are reclaimed after the last of them is gone.           *)
THEOREM CountingIsAtomic ==
  ASSUME FewRefs, RowsCovered
  PROVE  Spec /\ []StampsApart => ImplementsAtomicRefs
  <1>1. Init => Atomic!Init
    BY InitIsAtomic
  <1>2. RefInv /\ RefInv' /\ [Next]_vars => [Atomic!Next]_<<HeldMap, StatusMap>>
    BY StepIsAtomic
  <1> QED
    BY <1>1, <1>2, RefInvariant, PTL
    DEF Spec, ImplementsAtomicRefs, Atomic!Spec, HeldMap, StatusMap

(* The same for a recovery that waits for the clients, of which nothing is *)
(* supposed but the sizes.                                                 *)
THEOREM QuiescentIsAtomic ==
  ASSUME FewRefs, RowsCovered, Quiescent
  PROVE  Spec => ImplementsAtomicRefs
  <1>1. StampsApart
    BY DEF StampsApart
  <1> QED
    BY <1>1, CountingIsAtomic, PTL

=============================================================================
