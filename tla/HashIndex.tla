------------------------------ MODULE HashIndex ------------------------------
(***************************************************************************)
(* One partition of the hash index, which one client writes (put) and any  *)
(* client reads (get) while it does.                                       *)
(*                                                                         *)
(* A bucket is a word that refers to an entry; an entry holds a key, a     *)
(* value and the word that refers to the next entry.  put walks the chain  *)
(* and either overwrites the value it finds or appends an entry, which it  *)
(* stamps with count zero and its current era and then links with          *)
(* link_reference.  The writer may fail at any step; the monitor replays   *)
(* its last record and frees what it finds uncounted, and another process  *)
(* takes the slot, with its eras, its record and its partition.            *)
(***************************************************************************)
EXTENDS Naturals, FiniteSets

CONSTANTS
  Key, Value,
  Bucket,          \* Bucket[k]: key & ((1 << 17) - 1), the bucket of a key
  Entry,           \* blocks of the size of an entry
  Reader,          \* threads that read
  None,
  MaxPut,          \* bound: puts in a behaviour
  MaxGet,          \* bound: MaxGet[r] gets of a reader
  MaxEra,          \* bound: no process takes the slot from this era on
  FailBeforeCas    \* TRUE: the writer may fail between its record and its CAS

Word == {Bucket[k] : k \in Key} \cup Entry    \* an entry stands for its data + 2

ASSUME IndexAssumption ==
  /\ {Bucket[k] : k \in Key} \cap Entry = {}
  /\ None \notin Key \cup Value \cup Entry
  /\ MaxPut \in Nat /\ MaxEra \in Nat \ {0} /\ MaxGet \in [Reader -> Nat] /\ FailBeforeCas \in BOOLEAN

VARIABLES
  next,     \* next[w]: the entry that word w refers to
  data,     \* data[e]: key and value of an entry
  stamp,    \* stamp[e]: count and era in its ref_info
  free,     \* blocks on a free list of the writer's pages
  era,      \* the writer's own era
  log,      \* its latest redo record: era, word and entry
  status,   \* of the writer's slot: "run", "dead", "redone", "vacant"
  at, op,   \* the writer's next step and its local variables
  cursor,   \* cursor[r]: key and word of the get that reader r is in
  answer,   \* answer[r]: the last answer of reader r
  puts, gets

heap == <<next, data, stamp, free>>
writer == <<era, log, status, at, op, puts>>
readers == <<cursor, answer, gets>>
vars == <<heap, writer, readers>>

NoOp == [key |-> None, value |-> None, word |-> None, entry |-> None]
NoLog == [era |-> 0, word |-> None, entry |-> None]
NoGet == [key |-> None, word |-> None]

Init ==
  /\ next = [w \in Word |-> None]
  /\ data = [e \in Entry |-> [key |-> None, value |-> None]]
  /\ stamp = [e \in Entry |-> [count |-> 0, era |-> 0]]
  /\ free = Entry
  /\ era = 1 /\ log = NoLog
  /\ status = "run" /\ at = "idle" /\ op = NoOp
  /\ cursor = [r \in Reader |-> NoGet]
  /\ answer = [r \in Reader |-> [key |-> None, value |-> None]]
  /\ puts = 0 /\ gets = [r \in Reader |-> 0]

Running(label) == status = "run" /\ at = label

-----------------------------------------------------------------------------
(* cxl_shm::put *)
Put(k, v) ==
  /\ Running("idle") /\ puts < MaxPut
  /\ puts' = puts + 1
  /\ op' = [NoOp EXCEPT !.key = k, !.value = v, !.word = Bucket[k]]
  /\ at' = "walk"
  /\ UNCHANGED <<heap, readers, era, log, status>>

(* While the word refers to an entry: the value of the key is overwritten,  *)
(* or the chain goes on.                                                    *)
Overwrite ==
  LET e == next[op.word] IN
  /\ Running("walk") /\ e # None /\ data[e].key = op.key
  /\ data' = [data EXCEPT ![e].value = op.value]
  /\ at' = "idle" /\ op' = NoOp
  /\ UNCHANGED <<next, stamp, free, readers, era, log, status, puts>>

WalkPast ==    \* faulty variant: does not stop at its key
  LET e == next[op.word] IN
  /\ Running("walk") /\ e # None
  /\ op' = [op EXCEPT !.word = e]
  /\ UNCHANGED <<heap, readers, era, log, status, at, puts>>

Walk ==
  LET e == next[op.word] IN
  /\ Running("walk") /\ e # None /\ data[e].key # op.key
  /\ op' = [op EXCEPT !.word = e]
  /\ UNCHANGED <<heap, readers, era, log, status, at, puts>>

(* The end of the chain: a block is taken; the slow path wipes the record.  *)
Take ==
  /\ Running("walk") /\ next[op.word] = None
  /\ \E e \in free : op' = [op EXCEPT !.entry = e] /\ free' = free \ {e}
  /\ log' \in {log, NoLog}
  /\ at' = "fill"
  /\ UNCHANGED <<next, data, stamp, readers, era, status, puts>>

(* The stamp, then key, value and next, of a block nobody refers to.        *)
FilledAsObject(e) ==    \* faulty variant: stamps count one, as block_to_cxlobj does
  /\ stamp' = [stamp EXCEPT ![e] = [count |-> 1, era |-> era]]
  /\ data' = [data EXCEPT ![e] = [key |-> op.key, value |-> op.value]]
  /\ next' = [next EXCEPT ![e] = None]

Filled(e) ==
  /\ stamp' = [stamp EXCEPT ![e] = [count |-> 0, era |-> era]]
  /\ data' = [data EXCEPT ![e] = [key |-> op.key, value |-> op.value]]
  /\ next' = [next EXCEPT ![e] = None]

Fill ==
  /\ Running("fill")
  /\ Filled(op.entry)
  /\ at' = "log"
  /\ UNCHANGED <<free, readers, era, log, status, op, puts>>

(* link_reference, of an entry that no other client changes: record, CAS,   *)
(* store, era.                                                              *)
WriteLog ==
  /\ Running("log")
  /\ log' = [era |-> era, word |-> op.word, entry |-> op.entry]
  /\ at' = "cas"
  /\ UNCHANGED <<heap, readers, era, status, op, puts>>

Counted(s) == [count |-> s.count + 1, era |-> era]

Cas ==
  /\ Running("cas")
  /\ stamp' = [stamp EXCEPT ![op.entry] = Counted(@)]
  /\ at' = "store"
  /\ UNCHANGED <<next, data, free, readers, era, log, status, op, puts>>

TargetBucket == Bucket[op.key]    \* faulty variant: links at the head, dropping the chain

Target == op.word

Store ==
  /\ Running("store")
  /\ next' = [next EXCEPT ![Target] = op.entry]
  /\ at' = "bump"
  /\ UNCHANGED <<data, stamp, free, readers, era, log, status, op, puts>>

Bump ==
  /\ Running("bump")
  /\ era' = era + 1
  /\ at' = "idle" /\ op' = NoOp
  /\ UNCHANGED <<heap, readers, log, status, puts>>

-----------------------------------------------------------------------------
(* The writer's process stops. *)
Fail ==
  /\ status = "run"
  /\ FailBeforeCas \/ at # "cas"
  /\ status' = "dead" /\ at' = "idle" /\ op' = NoOp
  /\ UNCHANGED <<heap, readers, era, log, puts>>

(* redo_ref_cnt: nobody but the writer ever stamps an entry, so that its    *)
(* own stamp is the only evidence.                                          *)
CommittedNever == FALSE    \* faulty variant

Committed == log.entry # None /\ stamp[log.entry].era = log.era

Redo ==
  /\ status = "dead"
  /\ status' = "redone"
  /\ next' = IF Committed THEN [next EXCEPT ![log.word] = log.entry] ELSE next
  /\ UNCHANGED <<data, stamp, free, readers, era, log, at, op, puts>>

(* The passes over pages and segments may find pages without a counted      *)
(* block and free all of their blocks; then the slot is given back.         *)
UncountedAny == Entry    \* faulty variant: frees blocks without a look at the count

Uncounted == {e \in Entry : stamp[e].count = 0}

Sweep ==
  /\ status = "redone"
  /\ status' = "vacant"
  /\ \E S \in SUBSET Uncounted : free' = free \cup S
  /\ UNCHANGED <<next, data, stamp, readers, era, log, at, op, puts>>

(* The next process in the slot finds its record and its eras, of which it  *)
(* steps its own.                                                           *)
ThreadInit ==
  /\ status = "vacant" /\ era < MaxEra
  /\ status' = "run"
  /\ era' = era + 1
  /\ UNCHANGED <<heap, readers, log, at, op, puts>>

-----------------------------------------------------------------------------
(* cxl_shm::get *)
Get(r, k) ==
  /\ cursor[r] = NoGet /\ gets[r] < MaxGet[r]
  /\ gets' = [gets EXCEPT ![r] = @ + 1]
  /\ cursor' = [cursor EXCEPT ![r] = [key |-> k, word |-> Bucket[k]]]
  /\ UNCHANGED <<heap, writer, answer>>

Answer(r, v) ==
  /\ answer' = [answer EXCEPT ![r] = [key |-> cursor[r].key, value |-> v]]
  /\ cursor' = [cursor EXCEPT ![r] = NoGet]

StepOnce(r, e) ==    \* faulty variant: looks at the first entry only
  IF e # None /\ data[e].key = cursor[r].key THEN Answer(r, data[e].value)
  ELSE Answer(r, None)

StepBack(r, e) ==    \* faulty variant: goes on at the bucket
  IF e = None THEN Answer(r, None)
  ELSE IF data[e].key = cursor[r].key THEN Answer(r, data[e].value)
  ELSE cursor' = [cursor EXCEPT ![r].word = Bucket[cursor[r].key]] /\ UNCHANGED answer

Step(r, e) ==
  IF e = None THEN Answer(r, None)
  ELSE IF data[e].key = cursor[r].key THEN Answer(r, data[e].value)
  ELSE cursor' = [cursor EXCEPT ![r].word = e] /\ UNCHANGED answer

Read(r) ==
  /\ cursor[r] # NoGet
  /\ Step(r, next[cursor[r].word])
  /\ UNCHANGED <<heap, writer, gets>>

-----------------------------------------------------------------------------
Writer ==
  \/ Overwrite \/ Walk \/ Take \/ Fill \/ WriteLog \/ Cas \/ Store \/ Bump

Recovery == Redo \/ Sweep

Next ==
  \/ \E k \in Key, v \in Value : Put(k, v)
  \/ Writer \/ Fail \/ Recovery \/ ThreadInit
  \/ \E r \in Reader : Read(r) \/ \E k \in Key : Get(r, k)

Spec == Init /\ [][Next]_vars

(* A reader goes on with its get: it waits for nobody. *)
FairSpec == Spec /\ \A r \in Reader : WF_vars(Read(r))

-----------------------------------------------------------------------------
Linked == {next[w] : w \in Word} \ {None}

(* State: every variable holds what the code can put there. *)
TypeOK ==
  /\ next \in [Word -> Entry \cup {None}]
  /\ data \in [Entry -> [key : Key \cup {None}, value : Value \cup {None}]]
  /\ stamp \in [Entry -> [count : 0 .. 1, era : 0 .. MaxEra + MaxPut]]
  /\ free \subseteq Entry
  /\ era \in 1 .. MaxEra + MaxPut
  /\ log.word \in Word \cup {None} /\ log.entry \in Entry \cup {None}
  /\ status \in {"run", "dead", "redone", "vacant"}
  /\ at \in {"idle", "walk", "fill", "log", "cas", "store", "bump"}
  /\ \A r \in Reader : cursor[r].word \in Word \cup {None}

(* An entry is counted exactly if it is linked, or if its writer is about   *)
(* to link it or failed about to and the redo will.                         *)
CountExact ==
  LET pending == IF at = "store" THEN {op.entry}
                 ELSE IF status = "dead" /\ Committed THEN {log.entry} ELSE {}
  IN {e \in Entry : stamp[e].count = 1} = Linked \cup pending

(* No word refers to a free block, whatever the passes of the recovery take *)
(* for unused (wild pointer).                                               *)
NoDanglingEntry == Linked \cap free = {}

(* A key has one entry, also if a process fails while it puts the key and   *)
(* the next one puts it again.                                              *)
KeysUnique == \A e, f \in Linked : data[e].key = data[f].key => e = f

(* A linked entry stays where it is: neither put nor a redo of whatever     *)
(* record the slot holds changes a word that refers to an entry.            *)
EntriesStay == [][\A w \in Word : next[w] # None => next'[w] = next[w]]_vars

(* A get beside a put, a failure or a recovery answers like a map that      *)
(* changes in one step, see KeyValue.                                       *)
ValueOf(k) ==
  LET E == {e \in Linked : data[e].key = k}
  IN IF E = {} THEN None ELSE data[CHOOSE e \in E : TRUE].value
AsMap == INSTANCE KeyValue WITH map <- [k \in Key |-> ValueOf(k)]
ImplementsKeyValue == AsMap!Spec

(* A get ends although the chain may grow while it walks. *)
GetEnds == \A r \in Reader : cursor[r] # NoGet ~> cursor[r] = NoGet
=============================================================================
