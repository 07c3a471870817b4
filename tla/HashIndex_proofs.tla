--------------------------- MODULE HashIndex_proofs ---------------------------
(***************************************************************************)
(* Proofs about HashIndex, for any keys, values, buckets, blocks, readers  *)
(* and numbers of operations.                                              *)
(*                                                                         *)
(* Everything about links rests on one invariant: the chain is only ever   *)
(* extended, at a word that is a bucket or a linked entry, by an entry     *)
(* that nothing else refers to; and the record of the writer is that of a  *)
(* link that has been made or that the redo still has to make.             *)
(***************************************************************************)
EXTENDS HashIndex, TLAPS

(* A word that the walk of put can reach: a bucket or a linked entry. *)
Anchored(w) == w \in Word /\ (w \in Entry => w \in Linked)

(* Types, those of the local variables of the writer included. *)
Types ==
  /\ next \in [Word -> Entry \cup {None}]
  /\ data \in [Entry -> [key : Key \cup {None}, value : Value \cup {None}]]
  /\ stamp \in [Entry -> [count : 0 .. 1, era : Nat]]
  /\ free \subseteq Entry
  /\ era \in Nat \ {0}
  /\ log \in [era : Nat, word : Word \cup {None}, entry : Entry \cup {None}]
  /\ status \in {"run", "dead", "redone", "vacant"}
  /\ at \in {"idle", "walk", "fill", "log", "cas", "store", "bump"}
  /\ op \in [key : Key \cup {None}, value : Value \cup {None},
             word : Word \cup {None}, entry : Entry \cup {None}]
  /\ cursor \in [Reader -> {NoGet} \cup [key : Key, word : Word]]
  /\ puts \in Nat

(* What an operation of put has in its hands at each label. *)
OpShape ==
  /\ at # "idle" => status = "run" /\ op.key \in Key /\ op.value \in Value /\ Anchored(op.word)
  /\ at \in {"fill", "log", "cas", "store"} =>
       op.entry \in Entry \ (free \cup Linked) /\ next[op.word] = None
  /\ at \in {"fill", "log", "cas"} => stamp[op.entry].count = 0
  /\ at \in {"log", "cas", "store"} => stamp[op.entry].era = era

(* The record: of the operation in progress, or of a link that was counted  *)
(* and stored, unless the redo still has to store it.                       *)
LogShape ==
  /\ at \in {"cas", "store"} => log = [era |-> era, word |-> op.word, entry |-> op.entry]
  /\ log.entry # None =>
       /\ Anchored(log.word)
       /\ at # "cas" => stamp[log.entry].era = log.era
       /\ next[log.word] = log.entry
            \/ /\ next[log.word] = None /\ log.entry \notin Linked
               /\ at \in {"cas", "store"} \/ status = "dead"

(* An entry goes on only if it is linked; a free block is not counted. *)
Extends == \A e \in Entry : next[e] # None => e \in Linked

FreeUncounted == \A e \in free : stamp[e].count = 0

LinkInv == Types /\ OpShape /\ LogShape /\ Extends /\ FreeUncounted /\ CountExact

(* The era against its bound. *)
EraBound ==
  /\ era + (IF at = "idle" THEN 0 ELSE 1) <= MaxEra + puts
  /\ puts <= MaxPut
  /\ \A e \in Entry : stamp[e].era <= era

-----------------------------------------------------------------------------
LEMMA NoneApart == None \notin Key /\ None \notin Value /\ None \notin Entry
  BY IndexAssumption

LEMMA LinkedAfter ==
  ASSUME next \in [Word -> Entry \cup {None}],
         NEW w \in Word, NEW e \in Entry, next[w] \in {None, e},
         next' = [next EXCEPT ![w] = e]
  PROVE  Linked' = Linked \cup {e}
  <1>1. \A v \in Word : next'[v] = IF v = w THEN e ELSE next[v]
    OBVIOUS
  <1>2. e \in Linked'
    BY <1>1, NoneApart DEF Linked
  <1>3. Linked \subseteq Linked'
    BY <1>1, NoneApart DEF Linked
  <1>4. Linked' \subseteq Linked \cup {e}
    BY <1>1 DEF Linked
  <1> QED
    BY <1>2, <1>3, <1>4

LEMMA BucketIsWord == \A k \in Key : Anchored(Bucket[k])
  BY IndexAssumption DEF Anchored, Word

(* The parts of the invariant that an action leaves alone with the heap. *)
LEMMA LinkedKept ==
  ASSUME next' = next
  PROVE  Linked' = Linked /\ \A w \in Word : Anchored(w)' <=> Anchored(w)
  BY DEF Linked, Anchored

LEMMA InitLinkInv == Init => LinkInv
  <1> SUFFICES ASSUME Init PROVE LinkInv
    OBVIOUS
  <1>1. Linked = {}
    BY DEF Init, Linked
  <1>2. Types
    BY DEF Init, Types, NoOp, NoLog, NoGet
  <1>3. OpShape /\ LogShape /\ Extends /\ FreeUncounted
    BY DEF Init, OpShape, LogShape, Extends, FreeUncounted, NoLog, Word
  <1>4. CountExact
    BY <1>1, NoneApart DEF Init, CountExact
  <1> QED
    BY <1>2, <1>3, <1>4 DEF LinkInv

LEMMA ReadKeeps ==
  ASSUME LinkInv, UNCHANGED <<heap, writer>>,
         cursor' \in [Reader -> {NoGet} \cup [key : Key, word : Word]]
  PROVE  LinkInv'
  <1>1. Linked' = Linked
    BY DEF heap, Linked
  <1>2. Types'
    BY DEF LinkInv, Types, heap, writer
  <1>3. OpShape' /\ LogShape' /\ Extends' /\ FreeUncounted'
    BY <1>1 DEF LinkInv, OpShape, LogShape, Extends, FreeUncounted, heap, writer, Anchored
  <1>4. CountExact'
    BY <1>1 DEF LinkInv, CountExact, Committed, heap, writer
  <1> QED
    BY <1>2, <1>3, <1>4 DEF LinkInv

LEMMA PutKeeps ==
  ASSUME LinkInv, NEW k \in Key, NEW v \in Value, Put(k, v)
  PROVE  LinkInv'
  <1> USE DEF LinkInv, Put, Running, heap, readers
  <1>1. Linked' = Linked
    BY LinkedKept
  <1>2. op' = [key |-> k, value |-> v, word |-> Bucket[k], entry |-> None] /\ Bucket[k] \in Word
    BY BucketIsWord DEF NoOp, Anchored
  <1>3. Types'
    <2>1. puts' \in Nat
      BY DEF Types
    <2>2. op' \in [key : Key \cup {None}, value : Value \cup {None},
                  word : Word \cup {None}, entry : Entry \cup {None}]
      <3> HIDE DEF Put, LinkInv
      <3> QED
        BY <1>2
    <2>3. at' = "walk"
      OBVIOUS
    <2> QED
      BY <2>1, <2>2, <2>3 DEF Types
  <1>4. OpShape'
    BY <1>1, <1>2, BucketIsWord DEF OpShape, Anchored
  <1>5. LogShape' /\ Extends' /\ FreeUncounted'
    BY <1>1 DEF LogShape, Extends, FreeUncounted, Anchored
  <1>6. CountExact'
    BY <1>1 DEF CountExact, Committed
  <1> QED
    BY <1>3, <1>4, <1>5, <1>6
LEMMA OverwriteKeeps ==
  ASSUME LinkInv, Overwrite
  PROVE  LinkInv'
  <1> USE DEF LinkInv, Overwrite, Running, readers
  <1>1. Linked' = Linked
    BY LinkedKept
  <1>2. Types'
    <2>1. op' = NoOp /\ NoOp \in [key : Key \cup {None}, value : Value \cup {None},
                                 word : Word \cup {None}, entry : Entry \cup {None}]
      BY DEF NoOp
    <2>2. data' \in [Entry -> [key : Key \cup {None}, value : Value \cup {None}]]
      <3>1. /\ data \in [Entry -> [key : Key \cup {None}, value : Value \cup {None}]]
            /\ op.value \in Value /\ data' = [data EXCEPT ![next[op.word]].value = op.value]
        BY DEF Types, OpShape
      <3> HIDE DEF LinkInv, Overwrite
      <3> QED
        BY <3>1
    <2> QED
      BY <2>1, <2>2 DEF Types
  <1>3. OpShape' /\ LogShape' /\ Extends' /\ FreeUncounted'
    BY <1>1 DEF OpShape, LogShape, Extends, FreeUncounted, Anchored
  <1>4. CountExact'
    BY <1>1 DEF CountExact, Committed
  <1> QED
    BY <1>2, <1>3, <1>4

LEMMA WalkKeeps ==
  ASSUME LinkInv, Walk
  PROVE  LinkInv'
  <1> USE DEF LinkInv, Walk, Running, heap, readers
  <1>1. Linked' = Linked
    BY LinkedKept
  <1>2. next[op.word] \in Linked /\ op.word \in Word
    BY NoneApart DEF OpShape, Types, Linked, Anchored
  <1>3. next[op.word] \in Entry \cap Word
    BY <1>2 DEF Types, Word
  <1>4. Types'
    BY <1>3 DEF Types
  <1>5. op'.word = next[op.word] /\ op'.key = op.key /\ op'.value = op.value
    BY DEF Types
  <1>6. OpShape'
    BY <1>1, <1>2, <1>3, <1>5 DEF OpShape, Anchored
  <1>7. LogShape' /\ Extends' /\ FreeUncounted'
    BY <1>1 DEF LogShape, Extends, FreeUncounted, Anchored
  <1>8. CountExact'
    BY <1>1 DEF CountExact, Committed
  <1> QED
    BY <1>4, <1>6, <1>7, <1>8

(* A block that is taken was free: it is not counted, hence not linked. *)
LEMMA FreeNotLinked ==
  ASSUME LinkInv, NEW e \in free
  PROVE  e \in Entry /\ stamp[e].count = 0 /\ e \notin Linked
  BY DEF LinkInv, Types, FreeUncounted, CountExact

LEMMA TakeKeeps ==
  ASSUME LinkInv, Take
  PROVE  LinkInv'
  <1> USE DEF LinkInv, Take, Running, readers
  <1>1. PICK e \in free : op' = [op EXCEPT !.entry = e] /\ free' = free \ {e}
    OBVIOUS
  <1>2. Linked' = Linked
    BY LinkedKept
  <1>3. e \in Entry /\ stamp[e].count = 0 /\ e \notin Linked
    BY FreeNotLinked
  <1>4. Types'
    BY <1>1, <1>3 DEF Types, NoLog
  <1>5. op'.entry = e /\ op'.word = op.word /\ op'.key = op.key /\ op'.value = op.value
    BY <1>1 DEF Types
  <1>6. OpShape'
    BY <1>1, <1>2, <1>3, <1>5 DEF OpShape, Anchored
  <1>7. LogShape'
    BY <1>2 DEF LogShape, Anchored, NoLog
  <1>8. Extends' /\ FreeUncounted'
    BY <1>1, <1>2 DEF Extends, FreeUncounted
  <1>9. CountExact'
    BY <1>2 DEF CountExact, Committed, OpShape
  <1> QED
    BY <1>4, <1>6, <1>7, <1>8, <1>9

(* What is written to a block that is not linked disturbs no link and no    *)
(* record.                                                                  *)
LEMMA FillKeeps ==
  ASSUME LinkInv, Fill
  PROVE  LinkInv'
  <1> USE DEF LinkInv, Fill, Filled, Running, readers
  <1> DEFINE e == op.entry
  <1>1. e \in Entry /\ e \notin Linked /\ e \notin free /\ stamp[e].count = 0
    BY DEF OpShape
  <1>2. next' = next
    BY <1>1 DEF Extends, Types, Word
  <1>3. Linked' = Linked
    BY <1>2, LinkedKept
  <1>4. Types'
    BY <1>2 DEF Types, OpShape
  <1>5. \A f \in Entry : stamp'[f] = IF f = e THEN [count |-> 0, era |-> era] ELSE stamp[f]
    BY DEF Types
  <1>6. OpShape'
    BY <1>1, <1>2, <1>3, <1>5 DEF OpShape, Anchored
  <1>7. log.entry # e
    BY <1>1, NoneApart DEF LogShape, Types, Linked, Anchored, OpShape
  <1>8. LogShape'
    BY <1>2, <1>3, <1>5, <1>7 DEF LogShape, Anchored, Types
  <1>9. Extends' /\ FreeUncounted'
    BY <1>1, <1>2, <1>3, <1>5 DEF Extends, FreeUncounted, Types
  <1>10. \A f \in Entry : stamp'[f].count = stamp[f].count
    BY <1>1, <1>5
  <1>11. CountExact'
    BY <1>3, <1>10 DEF CountExact, OpShape
  <1> QED
    BY <1>4, <1>6, <1>8, <1>9, <1>11

LEMMA WriteLogKeeps ==
  ASSUME LinkInv, WriteLog
  PROVE  LinkInv'
  <1> USE DEF LinkInv, WriteLog, Running, heap, readers
  <1>1. Linked' = Linked
    BY LinkedKept
  <1>2. Types' /\ OpShape'
    BY <1>1 DEF Types, OpShape, Anchored
  <1>3. LogShape' /\ Extends' /\ FreeUncounted'
    BY <1>1 DEF OpShape, LogShape, Extends, FreeUncounted, Anchored
  <1>4. CountExact'
    BY <1>1 DEF CountExact, Committed, OpShape
  <1> QED
    BY <1>2, <1>3, <1>4
(* The CAS counts the entry that the store is about to link. *)
LEMMA CasKeeps ==
  ASSUME LinkInv, Cas
  PROVE  LinkInv'
  <1> USE DEF LinkInv, Cas, Counted, Running, readers
  <1> DEFINE e == op.entry
  <1>1. e \in Entry /\ e \notin Linked /\ e \notin free /\ stamp[e].count = 0
    BY DEF OpShape
  <1>2. Linked' = Linked
    BY LinkedKept
  <1>3. \A f \in Entry : stamp'[f] = IF f = e THEN [count |-> 1, era |-> era] ELSE stamp[f]
    BY <1>1 DEF Types
  <1>4. stamp' \in [Entry -> [count : 0 .. 1, era : Nat]]
    BY <1>1 DEF Types
  <1>5. Types'
    BY <1>4 DEF Types
  <1>6. OpShape'
    BY <1>1, <1>2, <1>3 DEF OpShape, Anchored
  <1>7. log.entry = e /\ log.era = era /\ log.word = op.word
    BY DEF LogShape
  <1>8. LogShape'
    BY <1>1, <1>2, <1>3, <1>7 DEF LogShape, Anchored
  <1>9. Extends' /\ FreeUncounted'
    BY <1>1, <1>2, <1>3 DEF Extends, FreeUncounted, Types
  <1>10. {f \in Entry : stamp'[f].count = 1} = {f \in Entry : stamp[f].count = 1} \cup {e}
    BY <1>1, <1>3
  <1>11. CountExact'
    BY <1>2, <1>10 DEF CountExact, OpShape
  <1> QED
    BY <1>5, <1>6, <1>8, <1>9, <1>11

LEMMA StoreKeeps ==
  ASSUME LinkInv, Store
  PROVE  LinkInv'
  <1> USE DEF LinkInv, Store, Target, Running, readers
  <1> DEFINE e == op.entry
             w == op.word
  <1>1. e \in Entry /\ e \notin Linked /\ e \notin free /\ w \in Word /\ next[w] = None
    BY DEF OpShape, Anchored
  <1>2. next' = [next EXCEPT ![w] = e] /\ next \in [Word -> Entry \cup {None}]
    BY DEF Types
  <1>3. Linked' = Linked \cup {e}
    BY <1>1, <1>2, LinkedAfter
  <1>4. Types'
    BY <1>1 DEF Types
  <1>5. OpShape'
    BY <1>3 DEF OpShape, Anchored
  <1>6. log.entry = e /\ log.era = era /\ log.word = w
    BY DEF LogShape
  <1>7. LogShape'
    BY <1>1, <1>2, <1>3, <1>6 DEF LogShape, Anchored, OpShape
  <1>8. Extends'
    BY <1>1, <1>2, <1>3 DEF Extends, OpShape, Anchored
  <1>9. FreeUncounted'
    BY DEF FreeUncounted
  <1>10. CountExact'
    BY <1>3 DEF CountExact
  <1> QED
    BY <1>4, <1>5, <1>7, <1>8, <1>9, <1>10

LEMMA BumpKeeps ==
  ASSUME LinkInv, Bump
  PROVE  LinkInv'
  <1> USE DEF LinkInv, Bump, Running, heap, readers
  <1>1. Linked' = Linked
    BY LinkedKept
  <1>2. Types'
    BY DEF Types, NoOp
  <1>3. OpShape' /\ LogShape' /\ Extends' /\ FreeUncounted'
    BY <1>1 DEF OpShape, LogShape, Extends, FreeUncounted, Anchored
  <1>4. CountExact'
    BY <1>1 DEF CountExact, Committed, OpShape
  <1> QED
    BY <1>2, <1>3, <1>4

(* What the writer was about to store is what its record names. *)
LEMMA FailKeeps ==
  ASSUME LinkInv, Fail, ~FailBeforeCas
  PROVE  LinkInv'
  <1> USE DEF LinkInv, Fail, heap, readers
  <1>1. Linked' = Linked /\ at # "cas"
    BY LinkedKept
  <1>2. Types'
    BY DEF Types, NoOp
  <1>3. OpShape' /\ LogShape' /\ Extends' /\ FreeUncounted'
    BY <1>1 DEF OpShape, LogShape, Extends, FreeUncounted, Anchored
  <1>4. at = "store" => log.entry = op.entry /\ op.entry # None /\ Committed
    BY NoneApart DEF LogShape, OpShape, Committed
  <1>5. at # "store" /\ log.entry # None => log.entry \in Linked
    BY <1>1, NoneApart DEF LogShape, OpShape, Types, Linked, Anchored
  <1>6. CountExact'
    BY <1>1, <1>4, <1>5 DEF CountExact, Committed
  <1> QED
    BY <1>2, <1>3, <1>6
(* The redo stores what the record names, or what the word holds anyway. *)
LEMMA RedoKeeps ==
  ASSUME LinkInv, Redo
  PROVE  LinkInv'
  <1> USE DEF LinkInv, Redo, readers
  <1>1. at = "idle"
    BY DEF OpShape
  <1>2. CASE log.entry = None
    <2>1. next' = next /\ ~Committed /\ ~Committed'
      BY <1>2 DEF Committed
    <2>2. Linked' = Linked
      BY <2>1, LinkedKept
    <2>3. Types' /\ OpShape' /\ LogShape'
      BY <1>1, <1>2, <2>1 DEF Types, OpShape, LogShape
    <2>4. Extends' /\ FreeUncounted' /\ CountExact'
      BY <1>1, <2>1, <2>2 DEF Extends, FreeUncounted, CountExact
    <2> QED
      BY <2>3, <2>4
  <1>3. CASE log.entry # None
    <2> DEFINE e == log.entry
               w == log.word
    <2>1. Committed
      BY <1>1, <1>3 DEF Committed, LogShape
    <2>2. e \in Entry /\ w \in Word /\ next[w] \in {None, e}
      BY <1>3 DEF LogShape, Types, Anchored
    <2>3. next' = [next EXCEPT ![w] = e] /\ next \in [Word -> Entry \cup {None}]
      BY <2>1 DEF Types
    <2>4. Linked' = Linked \cup {e}
      BY <2>2, <2>3, LinkedAfter
    <2>5. Types'
      BY <2>2, <2>3 DEF Types
    <2>6. OpShape'
      BY <1>1 DEF OpShape
    <2>7. LogShape'
      BY <1>1, <1>3, <2>2, <2>3, <2>4 DEF LogShape, Anchored
    <2>8. Extends'
      BY <1>3, <2>2, <2>3, <2>4 DEF Extends, LogShape, Anchored
    <2>9. FreeUncounted'
      BY DEF FreeUncounted
    <2>10. CountExact'
      BY <1>1, <2>1, <2>4 DEF CountExact
    <2> QED
      BY <2>5, <2>6, <2>7, <2>8, <2>9, <2>10
  <1> QED
    BY <1>2, <1>3

LEMMA SweepKeeps ==
  ASSUME LinkInv, Sweep
  PROVE  LinkInv'
  <1> USE DEF LinkInv, Sweep, readers
  <1>1. PICK S \in SUBSET Uncounted : free' = free \cup S
    OBVIOUS
  <1>2. Linked' = Linked /\ at = "idle"
    BY LinkedKept DEF OpShape
  <1>3. Types'
    BY <1>1 DEF Types, Uncounted
  <1>4. OpShape' /\ LogShape' /\ Extends'
    BY <1>2 DEF OpShape, LogShape, Extends, Anchored
  <1>5. FreeUncounted'
    BY <1>1 DEF FreeUncounted, Uncounted
  <1>6. CountExact'
    BY <1>2 DEF CountExact
  <1> QED
    BY <1>3, <1>4, <1>5, <1>6

LEMMA ThreadInitKeeps ==
  ASSUME LinkInv, ThreadInit
  PROVE  LinkInv'
  <1> USE DEF LinkInv, ThreadInit, heap, readers
  <1>1. Linked' = Linked /\ at = "idle"
    BY LinkedKept DEF OpShape
  <1>2. Types'
    BY DEF Types
  <1>3. OpShape' /\ LogShape' /\ Extends' /\ FreeUncounted'
    BY <1>1 DEF OpShape, LogShape, Extends, FreeUncounted, Anchored
  <1>4. CountExact'
    BY <1>1 DEF CountExact
  <1> QED
    BY <1>2, <1>3, <1>4

LEMMA GetKeeps ==
  ASSUME LinkInv, NEW r \in Reader, NEW k \in Key, Get(r, k)
  PROVE  LinkInv'
  <1>1. Bucket[k] \in Word
    BY BucketIsWord DEF Anchored
  <1>2. cursor' \in [Reader -> {NoGet} \cup [key : Key, word : Word]]
    BY <1>1 DEF LinkInv, Types, Get
  <1>3. UNCHANGED <<heap, writer>>
    BY DEF Get
  <1> QED
    BY <1>2, <1>3, ReadKeeps

LEMMA ReadStepKeeps ==
  ASSUME LinkInv, NEW r \in Reader, Read(r)
  PROVE  LinkInv'
  <1> DEFINE e == next[cursor[r].word]
  <1>1. UNCHANGED <<heap, writer>>
    BY DEF Read
  <1>2. cursor[r] \in [key : Key, word : Word] /\ e \in Entry \cup {None}
    BY DEF Read, LinkInv, Types
  <1>3. cursor' \in [Reader -> {NoGet} \cup [key : Key, word : Word]]
    <2>1. CASE cursor' = [cursor EXCEPT ![r] = NoGet]
      BY <2>1 DEF LinkInv, Types
    <2>2. CASE e # None /\ cursor' = [cursor EXCEPT ![r].word = e]
      <3>1. [cursor[r] EXCEPT !.word = e] \in [key : Key, word : Word]
        BY <1>2, <2>2 DEF Word
      <3> QED
        BY <2>2, <3>1 DEF LinkInv, Types
    <2> QED
      BY <2>1, <2>2 DEF Read, Step, Answer
  <1> QED
    BY <1>1, <1>3, ReadKeeps

LEMMA StepLinkInv ==
  ASSUME LinkInv, [Next]_vars, ~FailBeforeCas
  PROVE  LinkInv'
  <1>1. CASE UNCHANGED vars
    BY <1>1, ReadKeeps DEF vars, readers, LinkInv, Types
  <1>2. CASE \E k \in Key, v \in Value : Put(k, v)
    BY <1>2, PutKeeps
  <1>3. CASE Writer
    BY <1>3, OverwriteKeeps, WalkKeeps, TakeKeeps, FillKeeps, WriteLogKeeps, CasKeeps,
       StoreKeeps, BumpKeeps DEF Writer
  <1>4. CASE Fail \/ Recovery \/ ThreadInit
    BY <1>4, FailKeeps, RedoKeeps, SweepKeeps, ThreadInitKeeps DEF Recovery
  <1>5. CASE \E r \in Reader : Read(r) \/ \E k \in Key : Get(r, k)
    BY <1>5, ReadStepKeeps, GetKeeps
  <1> QED
    BY <1>1, <1>2, <1>3, <1>4, <1>5 DEF Next

(* As long as the writer does not stop between its record and its CAS, the  *)
(* links, the counts and the records agree, through every put, every        *)
(* failure and every recovery of every process that takes the slot.         *)
THEOREM LinksCorrect ==
  ASSUME ~FailBeforeCas
  PROVE  Spec => []LinkInv
  <1>1. Init => LinkInv
    BY InitLinkInv
  <1>2. LinkInv /\ [Next]_vars => LinkInv'
    BY StepLinkInv
  <1> QED
    BY <1>1, <1>2, PTL DEF Spec

(* An entry is counted exactly if it is linked or about to be: link_        *)
(* reference in cxl_shm::put, with the redo of its record.                  *)
THEOREM CountsExact ==
  ASSUME ~FailBeforeCas
  PROVE  Spec => []CountExact
  <1>1. LinkInv => CountExact
    BY DEF LinkInv
  <1> QED
    BY <1>1, LinksCorrect, PTL

(* No word of the index refers to a free block, whatever blocks without a   *)
(* count the recovery frees.                                                *)
THEOREM NeverDangling ==
  ASSUME ~FailBeforeCas
  PROVE  Spec => []NoDanglingEntry
  <1>1. LinkInv => NoDanglingEntry
    BY FreeNotLinked DEF NoDanglingEntry
  <1> QED
    BY <1>1, LinksCorrect, PTL
LEMMA NextKept ==
  ASSUME LinkInv, [Next]_vars, ~FailBeforeCas, NEW w \in Word, next[w] # None
  PROVE  next'[w] = next[w]
  <1> USE DEF LinkInv
  <1>1. CASE Store
    <2>1. op.word # w /\ next \in [Word -> Entry \cup {None}]
      BY <1>1 DEF Store, Running, OpShape, Types
    <2> QED
      BY <1>1, <2>1 DEF Store, Target
  <1>2. CASE Redo
    <2>1. log.word = w => log.entry = None \/ next[w] = log.entry
      BY DEF LogShape
    <2>2. next \in [Word -> Entry \cup {None}]
      BY DEF Types
    <2> QED
      BY <1>2, <2>1, <2>2 DEF Redo, Committed
  <1>3. CASE Fill
    <2>1. op.entry # w /\ next \in [Word -> Entry \cup {None}]
      BY <1>3 DEF Fill, Running, OpShape, Types, Extends
    <2> QED
      BY <1>3, <2>1 DEF Fill, Filled
  <1>4. CASE ~Store /\ ~Redo /\ ~Fill
    <2>1. next' = next
      BY <1>4 DEF Next, vars, heap, Put, Writer, Overwrite, Walk, Take, WriteLog, Cas, Bump,
         Fail, Recovery, Sweep, ThreadInit, Read, Get
    <2> QED
      BY <2>1
  <1> QED
    BY <1>1, <1>2, <1>3, <1>4

(* A linked entry stays where it is: neither put nor the redo of whatever   *)
(* record the slot holds changes a word that refers to an entry.            *)
THEOREM EntriesNeverMove ==
  ASSUME ~FailBeforeCas
  PROVE  Spec => EntriesStay
  <1>1. LinkInv /\ [Next]_vars => [\A w \in Word : next[w] # None => next'[w] = next[w]]_vars
    BY NextKept
  <1> QED
    BY <1>1, LinksCorrect, PTL DEF Spec, EntriesStay

-----------------------------------------------------------------------------
LEMMA InitEraBound == Init => EraBound
  BY IndexAssumption DEF Init, EraBound

LEMMA StepEraBound ==
  ASSUME LinkInv, EraBound, [Next]_vars
  PROVE  EraBound'
  <1> USE IndexAssumption DEF LinkInv, Types, EraBound, Running
  <1>1. CASE UNCHANGED vars
    BY <1>1 DEF vars, heap, writer
  <1>2. CASE \E k \in Key, v \in Value : Put(k, v)
    BY <1>2 DEF Put, heap
  <1>3. CASE Overwrite \/ Walk \/ Take \/ WriteLog \/ Store
    BY <1>3 DEF Overwrite, Walk, Take, WriteLog, Store, heap
  <1>4. CASE Fill
    BY <1>4 DEF Fill, Filled
  <1>5. CASE Cas
    BY <1>5 DEF Cas, Counted
  <1>6. CASE Bump
    BY <1>6 DEF Bump, heap
  <1>7. CASE Fail \/ Recovery
    BY <1>7 DEF Fail, Recovery, Redo, Sweep, heap
  <1>8. CASE ThreadInit
    BY <1>8 DEF ThreadInit, heap, OpShape
  <1>9. CASE \E r \in Reader : Read(r) \/ \E k \in Key : Get(r, k)
    BY <1>9 DEF Read, Get, heap, writer
  <1> QED
    BY <1>1, <1>2, <1>3, <1>4, <1>5, <1>6, <1>7, <1>8, <1>9 DEF Next, Writer

(* Every variable holds what the code can put there; counts are 0 or 1, as  *)
(* an entry is linked once.                                                 *)
THEOREM TypeCorrect ==
  ASSUME ~FailBeforeCas
  PROVE  Spec => []TypeOK
  <1>1. LinkInv /\ EraBound => TypeOK
    <2> SUFFICES ASSUME LinkInv, EraBound PROVE TypeOK
      OBVIOUS
    <2>1. era \in 1 .. MaxEra + MaxPut
      <3>1. era \in Nat /\ era >= 1 /\ puts \in Nat /\ puts <= MaxPut
        BY DEF LinkInv, Types, EraBound
      <3>2. era + (IF at = "idle" THEN 0 ELSE 1) <= MaxEra + puts
        BY DEF EraBound
      <3> QED
        BY <3>1, <3>2, IndexAssumption
    <2>2. \A e \in Entry : stamp[e] \in [count : 0 .. 1, era : 0 .. MaxEra + MaxPut]
      <3> SUFFICES ASSUME NEW e \in Entry
                   PROVE  stamp[e] \in [count : 0 .. 1, era : 0 .. MaxEra + MaxPut]
        OBVIOUS
      <3>1. stamp[e] \in [count : 0 .. 1, era : Nat] /\ stamp[e].era <= era
        BY DEF LinkInv, Types, EraBound
      <3> QED
        BY <2>1, <3>1, IndexAssumption
    <2>3. \A r \in Reader : cursor[r].word \in Word \cup {None}
      BY DEF LinkInv, Types, NoGet
    <2>4. stamp \in [Entry -> [count : 0 .. 1, era : 0 .. MaxEra + MaxPut]]
      BY <2>2 DEF LinkInv, Types
    <2> QED
      BY <2>1, <2>3, <2>4 DEF LinkInv, Types, TypeOK
  <1> QED
    BY <1>1, InitEraBound, StepEraBound, LinksCorrect, PTL DEF Spec

-----------------------------------------------------------------------------
(***************************************************************************)
(* The index implements a map (KeyValue), beside readers, failures and     *)
(* recoveries.                                                             *)
(*                                                                         *)
(* That a chain reaches every entry of its bucket is stated without        *)
(* recursion: every set of words that is closed under next and contains    *)
(* the bucket contains the entries of the bucket.  A walk has passed a set *)
(* of words without its key; at the end of the chain that set is closed.   *)
(***************************************************************************)

BucketOf(w) == IF w \in Entry THEN Bucket[data[w].key] ELSE w

Closed(S) == \A w \in S : next[w] # None => next[w] \in S

(* A walk that looks for k and is at word w met no entry of k so far. *)
Passed(k, w) ==
  \E V \in SUBSET Word :
    /\ Bucket[k] \in V /\ w \in V
    /\ \A v \in V \ {w} : next[v] # None /\ next[v] \in V
    /\ \A f \in V \cap Entry : f \in Linked /\ data[f].key # k

LinkedData == \A e \in Linked : data[e].key \in Key /\ data[e].value \in Value

Chains == \A w \in Word : next[w] # None => BucketOf(next[w]) = BucketOf(w)

Reachable ==
  \A S \in SUBSET Word, k \in Key :
    Closed(S) /\ Bucket[k] \in S =>
      \A e \in Linked : Bucket[data[e].key] = Bucket[k] => e \in S

Structure == LinkedData /\ Chains /\ Reachable /\ KeysUnique

(* An entry that may be linked at w. *)
Linkable(w, e) ==
  /\ data[e].key \in Key /\ data[e].value \in Value
  /\ BucketOf(w) = Bucket[data[e].key]
  /\ \A f \in Linked : data[f].key # data[e].key

PutShape ==
  /\ at = "walk" => Passed(op.key, op.word)
  /\ at \in {"walk", "fill"} => BucketOf(op.word) = Bucket[op.key]
  /\ at = "fill" => \A f \in Linked : data[f].key # op.key
  /\ at \in {"log", "cas", "store"} => Linkable(op.word, op.entry)

PendingShape ==
  status = "dead" /\ log.entry # None /\ log.entry \notin Linked => Linkable(log.word, log.entry)

ReaderShape == \A r \in Reader : cursor[r] # NoGet => Passed(cursor[r].key, cursor[r].word)

MapInv == Structure /\ PutShape /\ PendingShape /\ ReaderShape
-----------------------------------------------------------------------------
LEMMA LinkedIsEntry ==
  ASSUME LinkInv, NEW w \in Word, next[w] # None
  PROVE  next[w] \in Linked /\ next[w] \in Entry /\ next[w] \in Word /\ (w \in Entry => w \in Linked)
  BY DEF LinkInv, Types, Linked, Extends, Word

(* At the end of the chain the words passed are closed: no entry of k.      *)
LEMMA EndOfChain ==
  ASSUME LinkInv, Reachable, NEW k \in Key, NEW w \in Word, Passed(k, w), next[w] = None,
         NEW e \in Linked
  PROVE  data[e].key # k
  <1>1. PICK V \in SUBSET Word :
          /\ Bucket[k] \in V /\ w \in V
          /\ \A v \in V \ {w} : next[v] # None /\ next[v] \in V
          /\ \A f \in V \cap Entry : f \in Linked /\ data[f].key # k
    BY DEF Passed
  <1>2. Closed(V)
    BY <1>1 DEF Closed
  <1>3. data[e].key = k => e \in V
    BY <1>1, <1>2 DEF Reachable
  <1> QED
    BY <1>1, <1>3, LinkedIsEntry DEF Linked

(* A step that leaves the links and the keys of the linked entries alone. *)
LEMMA StructureKept ==
  ASSUME LinkInv, Structure, next' = next,
         \A e \in Linked : data'[e].key = data[e].key /\ data'[e].value \in Value
  PROVE  Structure'
  <1> USE DEF Structure
  <1>1. Linked' = Linked
    BY LinkedKept
  <1>2. LinkedData' /\ KeysUnique'
    BY <1>1 DEF LinkedData, KeysUnique
  <1>3. Chains'
    BY <1>1, LinkedIsEntry DEF Chains, BucketOf
  <1>4. Reachable'
    BY <1>1 DEF Reachable, Closed
  <1> QED
    BY <1>2, <1>3, <1>4

LEMMA PassedKept ==
  ASSUME next' = next, \A e \in Linked : data'[e].key = data[e].key,
         NEW k, NEW w, Passed(k, w)
  PROVE  Passed(k, w)'
  <1>1. Linked' = Linked
    BY LinkedKept
  <1> QED
    BY <1>1 DEF Passed

(* A step that links e at w, the end of a chain. *)
LEMMA StructureLinked ==
  ASSUME LinkInv, Structure, NEW w, Anchored(w), NEW e \in Entry, e \notin Linked,
         next[w] = None, Linkable(w, e), next' = [next EXCEPT ![w] = e], data' = data
  PROVE  Structure'
  <1> USE DEF Structure
  <1>1. w \in Word /\ next \in [Word -> Entry \cup {None}]
    BY DEF Anchored, LinkInv, Types
  <1>2. Linked' = Linked \cup {e}
    BY <1>1, LinkedAfter
  <1>3. LinkedData' /\ KeysUnique'
    BY <1>2 DEF LinkedData, KeysUnique, Linkable
  <1>4. \A v \in Word : next'[v] = IF v = w THEN e ELSE next[v]
    BY <1>1
  <1>5. \A v : BucketOf(v)' = BucketOf(v)
    BY DEF BucketOf
  <1>6. BucketOf(e) = BucketOf(w)
    BY DEF Linkable, BucketOf
  <1>7. Chains'
    BY <1>4, <1>5, <1>6 DEF Chains
  <1>8. Reachable'
    <2> SUFFICES ASSUME NEW S \in SUBSET Word, NEW k \in Key, Closed(S)', Bucket[k] \in S,
                        NEW f \in Linked', Bucket[data[f].key] = Bucket[k]
                 PROVE  f \in S
      BY DEF Reachable
    <2>1. Closed(S)
      BY <1>1, <1>4 DEF Closed
    <2>2. CASE f \in Linked
      BY <2>1, <2>2 DEF Reachable
    <2>3. CASE f = e
      <3>1. w \in S
        <4>1. CASE w \in Entry
          <5>1. w \in Linked /\ Bucket[data[w].key] = Bucket[k]
            BY <4>1, <2>3 DEF Anchored, Linkable, BucketOf
          <5> QED
            BY <5>1, <2>1 DEF Reachable
        <4>2. CASE w \notin Entry
          BY <4>2, <2>3 DEF Linkable, BucketOf
        <4> QED
          BY <4>1, <4>2
      <3> QED
        BY <3>1, <1>1, <1>4, <2>3, NoneApart DEF Closed
    <2> QED
      BY <1>2, <2>2, <2>3
  <1> QED
    BY <1>3, <1>7, <1>8

LEMMA PassedLinked ==
  ASSUME LinkInv, NEW u, Anchored(u), NEW e \in Entry,
         next[u] = None, next' = [next EXCEPT ![u] = e], data' = data,
         NEW k, NEW w, Passed(k, w)
  PROVE  Passed(k, w)'
  <1>1. u \in Word /\ next \in [Word -> Entry \cup {None}]
    BY DEF Anchored, LinkInv, Types
  <1>2. Linked' = Linked \cup {e}
    BY <1>1, LinkedAfter
  <1>3. \A v \in Word : next[v] # None => next'[v] = next[v]
    BY <1>1
  <1>4. PICK V \in SUBSET Word :
          /\ Bucket[k] \in V /\ w \in V
          /\ \A v \in V \ {w} : next[v] # None /\ next[v] \in V
          /\ \A f \in V \cap Entry : f \in Linked /\ data[f].key # k
    BY DEF Passed
  <1>5. /\ \A v \in V \ {w} : next'[v] # None /\ next'[v] \in V
        /\ \A f \in V \cap Entry : f \in Linked' /\ data'[f].key # k
    BY <1>2, <1>3, <1>4
  <1> QED
    BY <1>4, <1>5 DEF Passed

(* A walk begins at the bucket, and passes an entry of another key. *)
LEMMA PassedBegin ==
  ASSUME NEW k \in Key
  PROVE  Passed(k, Bucket[k])
  <1>1. Bucket[k] \in Word /\ Bucket[k] \notin Entry
    BY IndexAssumption DEF Word
  <1> DEFINE V == {Bucket[k]}
  <1>2. V \in SUBSET Word /\ Bucket[k] \in V /\ V \ {Bucket[k]} = {} /\ V \cap Entry = {}
    BY <1>1
  <1> QED
    BY <1>2 DEF Passed

LEMMA PassedOn ==
  ASSUME LinkInv, NEW k, NEW w \in Word, Passed(k, w), next[w] # None, data[next[w]].key # k
  PROVE  Passed(k, next[w])
  <1>1. PICK V \in SUBSET Word :
          /\ Bucket[k] \in V /\ w \in V
          /\ \A v \in V \ {w} : next[v] # None /\ next[v] \in V
          /\ \A f \in V \cap Entry : f \in Linked /\ data[f].key # k
    BY DEF Passed
  <1> DEFINE U == V \cup {next[w]}
  <1>2. U \in SUBSET Word /\ Bucket[k] \in U /\ next[w] \in U
    BY <1>1, LinkedIsEntry
  <1>3. \A v \in U \ {next[w]} : next[v] # None /\ next[v] \in U
    BY <1>1
  <1>4. \A f \in U \cap Entry : f \in Linked /\ data[f].key # k
    BY <1>1, LinkedIsEntry
  <1> QED
    BY <1>2, <1>3, <1>4 DEF Passed
-----------------------------------------------------------------------------
LEMMA InitMapInv == Init => MapInv
  <1> SUFFICES ASSUME Init PROVE MapInv
    OBVIOUS
  <1>1. Linked = {} /\ next = [w \in Word |-> None]
    BY DEF Init, Linked
  <1>2. Structure
    BY <1>1 DEF Structure, LinkedData, Chains, Reachable, KeysUnique
  <1>3. PutShape /\ PendingShape /\ ReaderShape
    BY DEF Init, PutShape, PendingShape, ReaderShape
  <1> QED
    BY <1>2, <1>3 DEF MapInv

(* The steps that change neither a link nor the data of a linked entry. *)
LEMMA QuietKeeps ==
  ASSUME LinkInv, MapInv, next' = next,
         \A e \in Linked : data'[e].key = data[e].key /\ data'[e].value \in Value,
         cursor' = cursor, PutShape', PendingShape'
  PROVE  MapInv'
  <1>1. Structure'
    BY StructureKept DEF MapInv
  <1>2. ReaderShape'
    BY PassedKept DEF MapInv, ReaderShape
  <1> QED
    BY <1>1, <1>2 DEF MapInv

LEMMA PutMap ==
  ASSUME LinkInv, MapInv, NEW k \in Key, NEW v \in Value, Put(k, v)
  PROVE  MapInv'
  <1>1. next' = next /\ data' = data /\ cursor' = cursor /\ at' = "walk" /\ status' = "run"
        /\ op'.key = k /\ op'.word = Bucket[k]
    BY DEF Put, heap, readers, Running, NoOp
  <1>2. Passed(k, Bucket[k])'
    BY <1>1, PassedBegin, PassedKept
  <1>3. BucketOf(Bucket[k])' = Bucket[k]
    BY IndexAssumption DEF BucketOf
  <1>4. PutShape' /\ PendingShape'
    BY <1>1, <1>2, <1>3 DEF PutShape, PendingShape
  <1>5. \A e \in Linked : data'[e].key = data[e].key /\ data'[e].value \in Value
    BY <1>1 DEF MapInv, Structure, LinkedData
  <1> QED
    BY <1>1, <1>4, <1>5, QuietKeeps

LEMMA OverwriteMap ==
  ASSUME LinkInv, MapInv, Overwrite
  PROVE  MapInv'
  <1>1. next' = next /\ cursor' = cursor /\ at' = "idle" /\ status' = "run"
    BY DEF Overwrite, readers, Running
  <1>2. \A e \in Linked : data'[e].key = data[e].key /\ data'[e].value \in Value
    BY DEF Overwrite, Running, MapInv, Structure, LinkedData, LinkInv, Types, OpShape, Linked
  <1>3. PutShape' /\ PendingShape'
    BY <1>1 DEF PutShape, PendingShape
  <1> QED
    BY <1>1, <1>2, <1>3, QuietKeeps

LEMMA WalkMap ==
  ASSUME LinkInv, MapInv, Walk
  PROVE  MapInv'
  <1> PICK k, w, e : k = op.key /\ w = op.word /\ e = next[w]
    OBVIOUS
  <1>1. next' = next /\ data' = data /\ cursor' = cursor /\ at' = "walk" /\ at = "walk"
        /\ status' = "run" /\ op'.key = k /\ op'.word = e
    BY DEF Walk, heap, readers, Running, LinkInv, Types
  <1>2. k \in Key /\ w \in Word /\ e # None /\ data[e].key # k
    BY <1>1 DEF Walk, LinkInv, OpShape, Anchored
  <1>3. Passed(k, e)
    BY <1>1, <1>2, PassedOn DEF MapInv, PutShape
  <1>4. Passed(k, e)'
    BY <1>1, <1>3, PassedKept
  <1>5. BucketOf(e)' = Bucket[k]
    BY <1>1, <1>2 DEF MapInv, Structure, Chains, PutShape, BucketOf
  <1>6. PutShape' /\ PendingShape'
    BY <1>1, <1>4, <1>5 DEF PutShape, PendingShape
  <1>7. \A f \in Linked : data'[f].key = data[f].key /\ data'[f].value \in Value
    BY <1>1 DEF MapInv, Structure, LinkedData
  <1> QED
    BY <1>1, <1>6, <1>7, QuietKeeps

LEMMA TakeMap ==
  ASSUME LinkInv, MapInv, Take
  PROVE  MapInv'
  <1>1. next' = next /\ data' = data /\ cursor' = cursor /\ at' = "fill" /\ at = "walk"
        /\ status' = "run" /\ op'.key = op.key /\ op'.word = op.word /\ next[op.word] = None
    BY DEF Take, readers, Running, LinkInv, Types
  <1>2. op.key \in Key /\ op.word \in Word
    BY <1>1 DEF LinkInv, OpShape, Anchored
  <1>3. \A f \in Linked : data[f].key # op.key
    BY <1>1, <1>2, EndOfChain DEF MapInv, Structure, PutShape
  <1>4. Linked' = Linked /\ BucketOf(op.word)' = BucketOf(op.word)
    BY <1>1, LinkedKept DEF BucketOf
  <1>5. PutShape' /\ PendingShape'
    BY <1>1, <1>3, <1>4 DEF PutShape, PendingShape, MapInv
  <1>6. \A f \in Linked : data'[f].key = data[f].key /\ data'[f].value \in Value
    BY <1>1 DEF MapInv, Structure, LinkedData
  <1> QED
    BY <1>1, <1>5, <1>6, QuietKeeps

LEMMA FillMap ==
  ASSUME LinkInv, MapInv, Fill
  PROVE  MapInv'
  <1> PICK e, w, k : e = op.entry /\ w = op.word /\ k = op.key
    OBVIOUS
  <1>1. e \in Entry /\ e \notin Linked /\ Anchored(w) /\ k \in Key /\ op.value \in Value
        /\ at = "fill" /\ next[e] = None
    BY DEF Fill, Running, LinkInv, OpShape, Extends
  <1>2. next' = next /\ cursor' = cursor /\ at' = "log" /\ status' = "run" /\ op' = op
    BY <1>1 DEF Fill, Filled, readers, Running, LinkInv, Types, Word
  <1>3. \A f \in Entry : data'[f] = IF f = e THEN [key |-> k, value |-> op.value] ELSE data[f]
    BY <1>1 DEF Fill, Filled, LinkInv, Types
  <1>4. Linked \subseteq Entry /\ Linked' = Linked
    BY <1>2, LinkedKept, LinkedIsEntry DEF Linked
  <1>5. BucketOf(w)' = Bucket[k]
    BY <1>1, <1>3, <1>4 DEF BucketOf, Anchored, MapInv, PutShape
  <1>6. Linkable(w, e)'
    BY <1>1, <1>2, <1>3, <1>4, <1>5 DEF Linkable, MapInv, PutShape
  <1>7. PutShape' /\ PendingShape'
    BY <1>2, <1>6 DEF PutShape, PendingShape
  <1>8. \A f \in Linked : data'[f].key = data[f].key /\ data'[f].value \in Value
    BY <1>1, <1>3, <1>4 DEF MapInv, Structure, LinkedData
  <1> QED
    BY <1>2, <1>7, <1>8, QuietKeeps

(* The steps that leave links and data alone altogether. *)
LEMMA StillKeeps ==
  ASSUME LinkInv, MapInv, next' = next, data' = data, cursor' = cursor, PutShape', PendingShape'
  PROVE  MapInv'
  <1>1. \A f \in Linked : data'[f].key = data[f].key /\ data'[f].value \in Value
    BY DEF MapInv, Structure, LinkedData
  <1> QED
    BY <1>1, QuietKeeps
LEMMA WriteLogMap ==
  ASSUME LinkInv, MapInv, WriteLog
  PROVE  MapInv'
  <1>1. next' = next /\ data' = data /\ cursor' = cursor /\ at' = "cas" /\ at = "log"
        /\ status' = "run" /\ op' = op
    BY DEF WriteLog, heap, readers, Running
  <1>2. Linked' = Linked
    BY <1>1, LinkedKept
  <1>3. PutShape' /\ PendingShape'
    BY <1>1, <1>2 DEF PutShape, PendingShape, MapInv, Linkable, BucketOf
  <1> QED
    BY <1>1, <1>3, StillKeeps

LEMMA CasMap ==
  ASSUME LinkInv, MapInv, Cas
  PROVE  MapInv'
  <1>1. next' = next /\ data' = data /\ cursor' = cursor /\ at' = "store" /\ at = "cas"
        /\ status' = "run" /\ op' = op
    BY DEF Cas, readers, Running
  <1>2. Linked' = Linked
    BY <1>1, LinkedKept
  <1>3. PutShape' /\ PendingShape'
    BY <1>1, <1>2 DEF PutShape, PendingShape, MapInv, Linkable, BucketOf
  <1> QED
    BY <1>1, <1>3, StillKeeps

LEMMA BumpMap ==
  ASSUME LinkInv, MapInv, Bump
  PROVE  MapInv'
  <1>1. next' = next /\ data' = data /\ cursor' = cursor /\ at' = "idle" /\ status' = "run"
    BY DEF Bump, heap, readers, Running
  <1>2. PutShape' /\ PendingShape'
    BY <1>1 DEF PutShape, PendingShape
  <1> QED
    BY <1>1, <1>2, StillKeeps

(* What a failed put was about to link may still be linked by the redo. *)
LEMMA FailMap ==
  ASSUME LinkInv, MapInv, Fail, ~FailBeforeCas
  PROVE  MapInv'
  <1>1. next' = next /\ data' = data /\ cursor' = cursor /\ at' = "idle" /\ log' = log
        /\ status = "run" /\ at # "cas"
    BY DEF Fail, heap, readers
  <1>2. Linked' = Linked
    BY <1>1, LinkedKept
  <1>3. log.entry # None /\ log.entry \notin Linked =>
          at = "store" /\ log.entry = op.entry /\ log.word = op.word
    BY <1>1 DEF LinkInv, LogShape, Linked, Anchored
  <1>4. PutShape' /\ PendingShape'
    BY <1>1, <1>2, <1>3 DEF PutShape, PendingShape, MapInv, Linkable, BucketOf
  <1> QED
    BY <1>1, <1>4, StillKeeps

LEMMA ThreadInitMap ==
  ASSUME LinkInv, MapInv, ThreadInit \/ Sweep
  PROVE  MapInv'
  <1>1. next' = next /\ data' = data /\ cursor' = cursor /\ at' = at /\ status' # "dead"
    BY DEF ThreadInit, Sweep, heap, readers
  <1>2. at = "idle"
    BY DEF ThreadInit, Sweep, LinkInv, OpShape
  <1>3. PutShape' /\ PendingShape'
    BY <1>1, <1>2 DEF PutShape, PendingShape
  <1> QED
    BY <1>1, <1>3, StillKeeps

(* The two steps that link an entry: put's own store, and the redo's. *)
LEMMA LinkKeeps ==
  ASSUME LinkInv, MapInv, NEW w, Anchored(w), NEW e \in Entry, e \notin Linked,
         next[w] = None, Linkable(w, e), next' = [next EXCEPT ![w] = e], data' = data,
         cursor' = cursor, PutShape', PendingShape'
  PROVE  MapInv'
  <1>1. Structure'
    BY StructureLinked DEF MapInv
  <1>2. ReaderShape'
    BY PassedLinked DEF MapInv, ReaderShape
  <1> QED
    BY <1>1, <1>2 DEF MapInv

(* What Store links, and what Redo links if it links anything.              *)
LEMMA StoreLinks ==
  ASSUME LinkInv, MapInv, Store
  PROVE  /\ Anchored(op.word) /\ op.entry \in Entry /\ op.entry \notin Linked
         /\ next[op.word] = None /\ Linkable(op.word, op.entry)
         /\ next' = [next EXCEPT ![op.word] = op.entry]
         /\ data' = data /\ UNCHANGED readers
  BY DEF Store, Target, Running, LinkInv, OpShape, MapInv, PutShape

LEMMA RedoLinks ==
  ASSUME LinkInv, MapInv, Redo
  PROVE  \/ next' = next /\ data' = data /\ UNCHANGED readers
         \/ /\ Anchored(log.word) /\ log.entry \in Entry /\ log.entry \notin Linked
            /\ next[log.word] = None /\ Linkable(log.word, log.entry)
            /\ next' = [next EXCEPT ![log.word] = log.entry]
            /\ data' = data /\ UNCHANGED readers
  <1>1. data' = data /\ UNCHANGED readers /\ status = "dead"
    BY DEF Redo
  <1>2. CASE ~Committed
    BY <1>1, <1>2 DEF Redo
  <1>3. CASE Committed
    <2>1. log.entry \in Entry /\ log.entry # None /\ Anchored(log.word)
          /\ next' = [next EXCEPT ![log.word] = log.entry]
      BY <1>3 DEF Redo, Committed, LinkInv, LogShape, Types
    <2>2. CASE next[log.word] = log.entry
      BY <1>1, <2>1, <2>2 DEF LinkInv, Types, Anchored
    <2>3. CASE next[log.word] = None /\ log.entry \notin Linked
      BY <1>1, <2>1, <2>3 DEF MapInv, PendingShape
    <2> QED
      BY <2>1, <2>2, <2>3 DEF LinkInv, LogShape
  <1> QED
    BY <1>2, <1>3

LEMMA StoreMap ==
  ASSUME LinkInv, MapInv, Store
  PROVE  MapInv'
  <1>1. at' = "bump" /\ status' = "run" /\ cursor' = cursor
    BY DEF Store, Running, readers
  <1>2. PutShape' /\ PendingShape'
    BY <1>1 DEF PutShape, PendingShape
  <1> QED
    BY <1>1, <1>2, StoreLinks, LinkKeeps

LEMMA RedoMap ==
  ASSUME LinkInv, MapInv, Redo
  PROVE  MapInv'
  <1>1. at' = "idle" /\ status' = "redone" /\ cursor' = cursor
    BY DEF Redo, readers, LinkInv, OpShape
  <1>2. PutShape' /\ PendingShape'
    BY <1>1 DEF PutShape, PendingShape
  <1>3. CASE next' = next /\ data' = data
    BY <1>1, <1>2, <1>3, StillKeeps
  <1>4. CASE ~(next' = next /\ data' = data)
    BY <1>1, <1>2, <1>4, RedoLinks, LinkKeeps
  <1> QED
    BY <1>3, <1>4
(* A step of the index that no reader sees in its walk. *)
LEMMA CursorKeeps ==
  ASSUME LinkInv, MapInv, UNCHANGED <<heap, writer>>,
         \A r \in Reader : cursor'[r] = cursor[r] \/ cursor'[r] = NoGet
                             \/ Passed(cursor'[r].key, cursor'[r].word)
  PROVE  MapInv'
  <1>1. next' = next /\ data' = data /\ at' = at /\ op' = op /\ status' = status /\ log' = log
    BY DEF heap, writer
  <1>2. Linked' = Linked
    BY <1>1, LinkedKept
  <1>3. Structure'
    BY <1>1, StructureKept DEF MapInv, Structure, LinkedData
  <1>4. \A k, w : Passed(k, w) => Passed(k, w)'
    BY <1>1, PassedKept
  <1>5. PutShape' /\ PendingShape'
    BY <1>1, <1>2, <1>4 DEF PutShape, PendingShape, MapInv, Linkable, BucketOf
  <1>6. ReaderShape'
    BY <1>4 DEF ReaderShape, MapInv
  <1> QED
    BY <1>3, <1>5, <1>6 DEF MapInv

LEMMA GetMap ==
  ASSUME LinkInv, MapInv, NEW r \in Reader, NEW k \in Key, Get(r, k)
  PROVE  MapInv'
  <1>1. UNCHANGED <<heap, writer>>
    BY DEF Get
  <1>2. cursor' = [cursor EXCEPT ![r] = [key |-> k, word |-> Bucket[k]]]
    BY DEF Get
  <1>3. \A s \in Reader : cursor'[s] = IF s = r THEN [key |-> k, word |-> Bucket[k]] ELSE cursor[s]
    BY <1>2 DEF LinkInv, Types
  <1>4. Passed(k, Bucket[k])
    BY PassedBegin
  <1> QED
    BY <1>1, <1>3, <1>4, CursorKeeps

(* Where a reader stands: it answers with the value of its key, or that     *)
(* there is none, or goes on past an entry of another key.                  *)
LEMMA ReadCases ==
  ASSUME LinkInv, MapInv, NEW r \in Reader, Read(r)
  PROVE  LET k == cursor[r].key
             w == cursor[r].word
             e == next[w]
         IN /\ k \in Key /\ w \in Word /\ Passed(k, w)
            /\ \/ e = None /\ Answer(r, None)
               \/ e # None /\ data[e].key = k /\ Answer(r, data[e].value)
               \/ /\ e # None /\ data[e].key # k /\ UNCHANGED answer
                  /\ cursor' = [cursor EXCEPT ![r].word = e]
  <1>1. cursor[r] \in [key : Key, word : Word]
    BY DEF Read, LinkInv, Types
  <1>2. Passed(cursor[r].key, cursor[r].word)
    BY DEF Read, MapInv, ReaderShape
  <1> QED
    BY <1>1, <1>2 DEF Read, Step

LEMMA ReadMap ==
  ASSUME LinkInv, MapInv, NEW r \in Reader, Read(r)
  PROVE  MapInv'
  <1> PICK k, w, e : k = cursor[r].key /\ w = cursor[r].word /\ e = next[w]
    OBVIOUS
  <1>1. UNCHANGED <<heap, writer>> /\ cursor \in [Reader -> {NoGet} \cup [key : Key, word : Word]]
    BY DEF Read, LinkInv, Types
  <1>2. CASE cursor' = [cursor EXCEPT ![r] = NoGet]
    <2>1. \A s \in Reader : cursor'[s] = cursor[s] \/ cursor'[s] = NoGet
      BY <1>1, <1>2
    <2> QED
      BY <1>1, <2>1, CursorKeeps
  <1>3. CASE e # None /\ data[e].key # k /\ cursor' = [cursor EXCEPT ![r].word = e]
    <2>1. k \in Key /\ w \in Word /\ Passed(k, w)
      BY ReadCases
    <2>2. Passed(k, e)
      BY <1>3, <2>1, PassedOn
    <2>3. cursor[r] \in [key : Key, word : Word]
      BY <1>1 DEF Read
    <2>4. cursor'[r].key = k /\ cursor'[r].word = e
      BY <1>1, <1>3, <2>3
    <2>5. \A s \in Reader : s # r => cursor'[s] = cursor[s]
      BY <1>1, <1>3
    <2> QED
      BY <1>1, <2>2, <2>4, <2>5, CursorKeeps
  <1> QED
    BY <1>2, <1>3, ReadCases DEF Answer

LEMMA StepMapInv ==
  ASSUME LinkInv, MapInv, [Next]_vars, ~FailBeforeCas
  PROVE  MapInv'
  <1>1. CASE UNCHANGED vars
    BY <1>1, CursorKeeps DEF vars, readers
  <1>2. CASE \E k \in Key, v \in Value : Put(k, v)
    BY <1>2, PutMap
  <1>3. CASE Writer
    BY <1>3, OverwriteMap, WalkMap, TakeMap, FillMap, WriteLogMap, CasMap, StoreMap, BumpMap
       DEF Writer
  <1>4. CASE Fail \/ Recovery \/ ThreadInit
    BY <1>4, FailMap, RedoMap, ThreadInitMap DEF Recovery
  <1>5. CASE \E r \in Reader : Read(r) \/ \E k \in Key : Get(r, k)
    BY <1>5, ReadMap, GetMap
  <1> QED
    BY <1>1, <1>2, <1>3, <1>4, <1>5 DEF Next

(* The chain of a bucket reaches every entry of the bucket and each entry   *)
(* lies in the chain of its key, at every step of put, of a failure and of  *)
(* the recovery; a put or a get that walks has met no entry of its key.     *)
THEOREM ChainsCorrect ==
  ASSUME ~FailBeforeCas
  PROVE  Spec => []MapInv
  <1> QED
    BY InitMapInv, StepMapInv, LinksCorrect, PTL DEF Spec

(* A key has one entry, also if a process fails while it puts the key and   *)
(* the next one puts it again: put appends only after a walk to the end.    *)
THEOREM OneEntryPerKey ==
  ASSUME ~FailBeforeCas
  PROVE  Spec => []KeysUnique
  <1>1. MapInv => KeysUnique
    BY DEF MapInv, Structure
  <1> QED
    BY <1>1, ChainsCorrect, PTL
-----------------------------------------------------------------------------
(* The value of a key, with and without an entry, before and after a step. *)
LEMMA ChooseOnly ==
  ASSUME NEW e
  PROVE  (CHOOSE x \in {e} : TRUE) = e
  OBVIOUS

LEMMA ValueOfEntry ==
  ASSUME KeysUnique, NEW e \in Linked, NEW k, data[e].key = k
  PROVE  ValueOf(k) = data[e].value
  <1>1. {f \in Linked : data[f].key = k} = {e}
    BY DEF KeysUnique
  <1> QED
    BY <1>1, ChooseOnly DEF ValueOf

LEMMA ValueOfNothing ==
  ASSUME NEW k, \A e \in Linked : data[e].key # k
  PROVE  ValueOf(k) = None
  <1>1. {f \in Linked : data[f].key = k} = {}
    OBVIOUS
  <1> QED
    BY <1>1 DEF ValueOf

LEMMA ValueOfEntryNext ==
  ASSUME KeysUnique', NEW e \in Linked', NEW k, data'[e].key = k
  PROVE  ValueOf(k)' = data'[e].value
  <1>1. {f \in Linked' : data'[f].key = k} = {e}
    BY DEF KeysUnique
  <1> QED
    BY <1>1, ChooseOnly DEF ValueOf

LEMMA ValueOfNothingNext ==
  ASSUME NEW k, \A e \in Linked' : data'[e].key # k
  PROVE  ValueOf(k)' = None
  <1>1. {f \in Linked' : data'[f].key = k} = {}
    OBVIOUS
  <1> QED
    BY <1>1 DEF ValueOf

Map == [k \in Key |-> ValueOf(k)]

LEMMA MapKept ==
  ASSUME KeysUnique, KeysUnique', next' = next, \A e \in Linked : data'[e] = data[e]
  PROVE  Map' = Map
  <1>1. Linked' = Linked
    BY LinkedKept
  <1>2. ASSUME NEW k \in Key PROVE ValueOf(k)' = ValueOf(k)
    <2>1. CASE \E e \in Linked : data[e].key = k
      BY <1>1, <2>1, ValueOfEntry, ValueOfEntryNext
    <2>2. CASE \A e \in Linked : data[e].key # k
      BY <1>1, <2>2, ValueOfNothing, ValueOfNothingNext
    <2> QED
      BY <2>1, <2>2
  <1> QED
    BY <1>2 DEF Map

(* Linking an entry is a put of its key. *)
LEMMA MapLinked ==
  ASSUME LinkInv, KeysUnique, KeysUnique', NEW w, Anchored(w), NEW e \in Entry, e \notin Linked,
         next[w] = None, Linkable(w, e), next' = [next EXCEPT ![w] = e], data' = data
  PROVE  data[e].key \in Key /\ data[e].value \in Value
         /\ Map' = [Map EXCEPT ![data[e].key] = data[e].value]
  <1>1. w \in Word /\ next \in [Word -> Entry \cup {None}]
    BY DEF Anchored, LinkInv, Types
  <1>2. Linked' = Linked \cup {e}
    BY <1>1, LinkedAfter
  <1>3. ValueOf(data[e].key)' = data[e].value
    BY <1>2, ValueOfEntryNext
  <1>4. ASSUME NEW k \in Key, k # data[e].key PROVE ValueOf(k)' = ValueOf(k)
    <2>1. CASE \E f \in Linked : data[f].key = k
      BY <1>2, <2>1, ValueOfEntry, ValueOfEntryNext
    <2>2. CASE \A f \in Linked : data[f].key # k
      BY <1>2, <1>4, <2>2, ValueOfNothing, ValueOfNothingNext
    <2> QED
      BY <2>1, <2>2
  <1> QED
    BY <1>3, <1>4 DEF Map, Linkable
LEMMA InitIsMap == Init => AsMap!Init
  <1> SUFFICES ASSUME Init PROVE AsMap!Init
    OBVIOUS
  <1>1. \A e \in Linked : FALSE
    BY DEF Init, Linked
  <1>2. \A k \in Key : ValueOf(k) = None
    BY <1>1, ValueOfNothing
  <1> QED
    BY <1>2 DEF Init, AsMap!Init

(* Put takes effect with the store of the value, of the link, or of the     *)
(* redo; get with its last read; nothing else is seen.                      *)
LEMMA OverwriteIsPut ==
  ASSUME LinkInv, MapInv, MapInv', Overwrite
  PROVE  AsMap!Put(op.key, op.value) /\ op.key \in Key /\ op.value \in Value
  <1> PICK e, k, v : e = next[op.word] /\ k = op.key /\ v = op.value
    OBVIOUS
  <1>1. k \in Key /\ v \in Value /\ e \in Linked /\ e \in Entry /\ data[e].key = k
    BY LinkedIsEntry DEF Overwrite, Running, LinkInv, OpShape, Anchored
  <1>2. Linked' = Linked /\ answer' = answer
    BY LinkedKept DEF Overwrite, readers
  <1>3. data' = [data EXCEPT ![e].value = v]
    BY DEF Overwrite
  <1>4. data'[e].key = k /\ data'[e].value = v /\ \A f \in Entry : f # e => data'[f] = data[f]
    BY <1>1, <1>3 DEF LinkInv, Types
  <1>5. KeysUnique /\ KeysUnique'
    BY DEF MapInv, Structure
  <1>6. ValueOf(k)' = v
    BY <1>1, <1>2, <1>4, <1>5, ValueOfEntryNext
  <1>7. ASSUME NEW j \in Key, j # k PROVE ValueOf(j)' = ValueOf(j)
    <2>0. Linked \subseteq Entry
      BY LinkedIsEntry DEF Linked
    <2>1. CASE \E f \in Linked : data[f].key = j
      <3>1. PICK f \in Linked : data[f].key = j
        BY <2>1
      <3>2. data'[f] = data[f]
        BY <1>1, <1>4, <1>7, <2>0, <3>1
      <3> QED
        BY <1>2, <1>5, <3>1, <3>2, ValueOfEntry, ValueOfEntryNext
    <2>2. CASE \A f \in Linked : data[f].key # j
      <3>1. \A f \in Linked' : data'[f].key # j
        BY <1>2, <1>4, <1>7, <2>0, <2>2
      <3> QED
        BY <2>2, <3>1, ValueOfNothing, ValueOfNothingNext
    <2> QED
      BY <2>1, <2>2
  <1> QED
    BY <1>1, <1>2, <1>6, <1>7 DEF AsMap!Put

LEMMA LinkIsPut ==
  ASSUME LinkInv, MapInv, MapInv', NEW w, Anchored(w), NEW e \in Entry, e \notin Linked,
         next[w] = None, Linkable(w, e), next' = [next EXCEPT ![w] = e], data' = data,
         answer' = answer
  PROVE  \E k \in Key, v \in Value : AsMap!Put(k, v)
  <1>1. KeysUnique /\ KeysUnique'
    BY DEF MapInv, Structure
  <1>2. data[e].key \in Key /\ data[e].value \in Value
        /\ Map' = [Map EXCEPT ![data[e].key] = data[e].value]
    BY <1>1, MapLinked
  <1> QED
    BY <1>2 DEF AsMap!Put, Map

LEMMA ReadIsGet ==
  ASSUME LinkInv, MapInv, NEW r \in Reader, Read(r)
  PROVE  (\E k \in Key : AsMap!Get(r, k)) \/ UNCHANGED <<Map, answer>>
  <1> PICK k, w, e : k = cursor[r].key /\ w = cursor[r].word /\ e = next[w]
    OBVIOUS
  <1>1. k \in Key /\ w \in Word /\ Passed(k, w)
    BY ReadCases
  <1>2. KeysUnique /\ KeysUnique' /\ next' = next /\ data' = data
    BY DEF MapInv, Structure, Read, heap, KeysUnique, Linked
  <1>3. Map' = Map
    BY <1>2, MapKept
  <1>4. CASE e = None /\ Answer(r, None)
    <2>1. \A f \in Linked : data[f].key # k
      BY <1>1, <1>4, EndOfChain DEF MapInv, Structure
    <2>2. ValueOf(k) = None
      BY <2>1, ValueOfNothing
    <2> QED
      BY <1>1, <1>3, <1>4, <2>2 DEF AsMap!Get, Map, Answer
  <1>5. CASE e # None /\ data[e].key = k /\ Answer(r, data[e].value)
    <2>1. e \in Linked
      BY <1>1, <1>5, LinkedIsEntry
    <2>2. ValueOf(k) = data[e].value
      BY <1>2, <1>5, <2>1, ValueOfEntry
    <2> QED
      BY <1>1, <1>3, <1>5, <2>2 DEF AsMap!Get, Map, Answer
  <1>6. CASE UNCHANGED answer
    BY <1>3, <1>6
  <1> QED
    BY <1>4, <1>5, <1>6, ReadCases

(* The steps that change neither a link nor the data of a linked entry. *)
LEMMA QuietIsStutter ==
  ASSUME LinkInv, MapInv, MapInv', next' = next, \A e \in Linked : data'[e] = data[e],
         answer' = answer
  PROVE  UNCHANGED <<Map, answer>>
  <1>1. KeysUnique /\ KeysUnique'
    BY DEF MapInv, Structure
  <1> QED
    BY <1>1, MapKept

LEMMA StepIsMap ==
  ASSUME LinkInv, MapInv, MapInv', [Next]_vars
  PROVE  AsMap!Next \/ UNCHANGED <<Map, answer>>
  <1>1. CASE Overwrite
    BY <1>1, OverwriteIsPut DEF AsMap!Next
  <1>2. CASE Store
    <2>1. answer' = answer
      BY <1>2, StoreLinks DEF readers
    <2> QED
      BY <1>2, <2>1, StoreLinks, LinkIsPut DEF AsMap!Next
  <1>3. CASE Redo
    <2>1. answer' = answer /\ data' = data
      BY <1>3, RedoLinks DEF readers
    <2>2. CASE next' = next
      BY <2>1, <2>2, QuietIsStutter
    <2>3. CASE next' # next
      BY <1>3, <2>1, <2>3, RedoLinks, LinkIsPut DEF AsMap!Next
    <2> QED
      BY <2>2, <2>3
  <1>4. CASE Fill
    <2>1. op.entry \in Entry /\ op.entry \notin Linked /\ answer' = answer
      BY <1>4 DEF Fill, Running, LinkInv, OpShape, readers
    <2>2. next' = next
      BY <1>4, <2>1 DEF Fill, Filled, LinkInv, Types, Extends, Word
    <2>3. \A e \in Linked : data'[e] = data[e]
      BY <1>4, <2>1 DEF Fill, Filled, LinkInv, Types, Linked
    <2> QED
      BY <2>1, <2>2, <2>3, QuietIsStutter
  <1>5. CASE \E r \in Reader : Read(r)
    BY <1>5, ReadIsGet DEF AsMap!Next
  <1>6. CASE ~Overwrite /\ ~Store /\ ~Redo /\ ~Fill /\ ~\E r \in Reader : Read(r)
    <2>1. next' = next /\ data' = data /\ answer' = answer
      BY <1>6 DEF Next, vars, heap, readers, Put, Writer, Walk, Take, WriteLog, Cas, Bump,
         Fail, Recovery, Sweep, ThreadInit, Get
    <2> QED
      BY <2>1, QuietIsStutter
  <1> QED
    BY <1>1, <1>2, <1>3, <1>4, <1>5, <1>6

(* A get beside a put, a failure or a recovery answers like a map that      *)
(* changes in one step: HashIndex implements KeyValue.                      *)
THEOREM IndexIsMap ==
  ASSUME ~FailBeforeCas
  PROVE  Spec => ImplementsKeyValue
  <1>1. Init => AsMap!Init
    BY InitIsMap
  <1>2. LinkInv /\ MapInv /\ MapInv' /\ [Next]_vars => [AsMap!Next]_<<Map, answer>>
    BY StepIsMap
  <1> QED
    BY <1>1, <1>2, LinksCorrect, ChainsCorrect, PTL DEF Spec, ImplementsKeyValue, AsMap!Spec, Map
===============================================================================
