----------------------------- MODULE ObjectGraph -----------------------------
(***************************************************************************)
(* Handles, objects and the references between objects.                    *)
(*                                                                         *)
(* A client holds an object by a RootRef, which counts the C++ handles     *)
(* (CXLRef) that name it.  An object may embed references to others, in    *)
(* words that are plain data in another object.  The destructor of the     *)
(* last handle releases the object: test_free reads the count, releases    *)
(* what the object embeds if the count says that this is the last          *)
(* reference, and unlinks.  The release recurses, and other clients work   *)
(* between any two of its steps.  A client may fail at any step; the       *)
(* monitor releases the RootRefs it left in use by the same recursion.     *)
(*                                                                         *)
(* link_reference and unlink_reference are one step here: EraRefCount      *)
(* shows what they are made of, and that redo makes them all or nothing.   *)
(***************************************************************************)
EXTENDS Integers, FiniteSets, Sequences, SequencesExt

CONSTANTS
  NClient,       \* clients 1 .. NClient; the monitor is agent 0
  NBlock,        \* blocks of one size class
  NRoot,         \* bound: RootRefs of a client
  MaxEmbed,      \* words of a block that can embed references
  Budget,        \* bound: allocations, copies of handles, messages and failures
  Maker,         \* bound: the clients that allocate
  FailOnStale    \* TRUE: a client may fail before it overwrote a used block

Client == 1 .. NClient
Block == 1 .. NBlock
Monitor == 0
Agent == Client \cup {Monitor}

ASSUME GraphAssumption ==
  /\ {NClient, NBlock, NRoot, MaxEmbed} \subseteq Nat \ {0}
  /\ Budget \in [{"malloc", "copy", "send", "fail"} -> Nat]
  /\ Maker \subseteq Client /\ FailOnStale \in BOOLEAN

Null == 0
Data == -1     \* a word that holds what a user wrote

(* Where a reference can be: <<kind, index, index>>. *)
Root(c, k) == <<"root", c, k>>
Word(b, i) == <<"word", b, i>>
Mail(c, d) == <<"mail", c, d>>
RootOf(c) == {Root(c, k) : k \in 1 .. NRoot}
WordOf(b) == {Word(b, i) : i \in 1 .. MaxEmbed}
Location ==
  (UNION {RootOf(c) : c \in Client}) \cup (UNION {WordOf(b) : b \in Block})
    \cup {Mail(c, d) : c, d \in Client}
\* a client has no queue to itself: Mail(c, c) stays empty

VARIABLES
  ref,      \* ref[l]: RootRef.pptr, a word of a block, or the queue's buffer
  count,    \* count[b]: the count in ref_info of the block
  embed,    \* embed[b]: embedded_ref_cnt
  live,     \* blocks allocated and not freed
  use,      \* RootRefs with in_use = 1
  cnt,      \* cnt[l]: RootRef.ref_cnt
  status,   \* of a client: "run", "dead" or "vacant"
  fill,     \* fill[c]: the object client c is completing and the references to embed
  stack,    \* stack[a]: frames of the test_free of agent a, the last one on top
  ending,   \* ending[a]: the RootRef that agent a is releasing
  patient,  \* the failed client that the monitor recovers
  orphan,   \* auxiliary: objects whose reference went with an object that two released
  left      \* what is left of the budget

memory == <<ref, count, embed, live>>
vars == <<memory, use, cnt, status, fill, stack, ending, patient, orphan, left>>

NoRoot == Root(0, 0)
NoFill == [block |-> Null, todo |-> <<>>]

Init ==
  /\ ref = [l \in Location |-> Null]
  /\ count = [b \in Block |-> 0]
  /\ embed = [b \in Block |-> 0]
  /\ live = {}
  /\ use = {}
  /\ cnt = [l \in UNION {RootOf(c) : c \in Client} |-> 0]
  /\ status = [c \in Client |-> "run"]
  /\ fill = [c \in Client |-> NoFill]
  /\ stack = [a \in Agent |-> <<>>]
  /\ ending = [a \in Agent |-> NoRoot]
  /\ patient = 0
  /\ orphan = {}
  /\ left = Budget

Spend(op) == left[op] > 0 /\ left' = [left EXCEPT ![op] = @ - 1]

(* The client is in none of the operations below. *)
Ready(c) == status[c] = "run" /\ fill[c] = NoFill /\ ending[c] = NoRoot

-----------------------------------------------------------------------------
(* thread_init takes a slot that no process uses. *)
ThreadInit(c) ==
  /\ status[c] = "vacant"
  /\ status' = [status EXCEPT ![c] = "run"]
  /\ UNCHANGED <<memory, use, cnt, fill, stack, ending, patient, orphan, left>>

(* cxl_malloc(size, Len(kids)): a RootRef, a block, and a handle.  The      *)
(* words of the block keep what was in them.  The user means to embed the   *)
(* objects that it holds by the RootRefs kids.                              *)
Malloc(c, k, b, kids) ==
  LET l == Root(c, k) IN
  /\ Ready(c) /\ c \in Maker /\ Spend("malloc")
  /\ l \notin use /\ b \notin live
  /\ use' = use \cup {l}
  /\ cnt' = [cnt EXCEPT ![l] = 1]
  /\ ref' = [ref EXCEPT ![l] = b]
  /\ count' = [count EXCEPT ![b] = 1]
  /\ embed' = [embed EXCEPT ![b] = Len(kids)]
  /\ live' = live \cup {b}
  /\ fill' = [fill EXCEPT ![c] = IF kids = <<>> THEN NoFill ELSE [block |-> b, todo |-> kids]]
  /\ UNCHANGED <<status, stack, ending, patient, orphan>>

(* The word that the user links next. *)
Filling(c) == Word(fill[c].block, embed[fill[c].block] - Len(fill[c].todo) + 1)

(* link_reference(word, get_tbr()->pptr) *)
LinkKid(c) ==
  LET kid == ref[Head(fill[c].todo)]
      rest == Tail(fill[c].todo)
  IN
  /\ status[c] = "run" /\ fill[c] # NoFill
  /\ ref' = [ref EXCEPT ![Filling(c)] = kid]
  /\ count' = [count EXCEPT ![kid] = @ + 1]
  /\ fill' = [fill EXCEPT ![c] = IF rest = <<>> THEN NoFill ELSE [@ EXCEPT !.todo = rest]]
  /\ UNCHANGED <<embed, live, use, cnt, status, stack, ending, patient, orphan, left>>

(* The user writes to an object without embedded references. *)
WriteData(c, l) ==
  /\ Ready(c) /\ l \in RootOf(c) \cap use
  /\ embed[ref[l]] = 0
  /\ ref' = [m \in Location |-> IF m \in WordOf(ref[l]) THEN Data ELSE ref[m]]
  /\ UNCHANGED <<count, embed, live, use, cnt, status, fill, stack, ending, patient, orphan, left>>

(* The copy constructor of CXLRef. *)
CopyHandle(c, l) ==
  /\ Ready(c) /\ l \in RootOf(c) \cap use
  /\ Spend("copy")
  /\ cnt' = [cnt EXCEPT ![l] = @ + 1]
  /\ UNCHANGED <<memory, use, status, fill, stack, ending, patient, orphan>>

SendUncounted(c, l, d) ==    \* faulty variant: writes the buffer without link_reference
  /\ Ready(c) /\ l \in RootOf(c) \cap use /\ d # c /\ Spend("send")
  /\ ref[Mail(c, d)] = Null
  /\ ref' = [ref EXCEPT ![Mail(c, d)] = ref[l]]
  /\ UNCHANGED <<count, embed, live, use, cnt, status, fill, stack, ending, patient, orphan>>

(* sent_to with a queue of one message. *)
SendRef(c, l, d) ==
  /\ Ready(c) /\ l \in RootOf(c) \cap use /\ d # c /\ Spend("send")
  /\ ref[Mail(c, d)] = Null
  /\ ref' = [ref EXCEPT ![Mail(c, d)] = ref[l]]
  /\ count' = [count EXCEPT ![ref[l]] = @ + 1]
  /\ UNCHANGED <<embed, live, use, cnt, status, fill, stack, ending, patient, orphan>>

(* cxl_unwrap: a new RootRef is linked, then the message is unlinked; the   *)
(* count is what it was.                                                    *)
Unwrap(c, d, k) ==
  LET l == Root(d, k) IN
  /\ Ready(d) /\ l \notin use
  /\ ref[Mail(c, d)] # Null
  /\ ref' = [ref EXCEPT ![l] = ref[Mail(c, d)], ![Mail(c, d)] = Null]
  /\ use' = use \cup {l}
  /\ cnt' = [cnt EXCEPT ![l] = 1]
  /\ UNCHANGED <<count, embed, live, status, fill, stack, ending, patient, orphan, left>>

-----------------------------------------------------------------------------
(* A frame of test_free(_ref): where it is, the location _ref, the next     *)
(* embedded reference to release, and the count that it read.               *)
Call(l) == [at |-> "read", ref |-> l, next |-> 1, seen |-> 0]
Push(s, l) == Append(s, Call(l))
Pop(s) == Front(s)

Releasing(a) == stack[a] # <<>> /\ (a \in Client => status[a] = "run")
Top(a) == Last(stack[a])
SetTop(a, f) == stack' = [stack EXCEPT ![a] = Append(Pop(@), f)]

(* ~CXLRef_s: the last handle of a RootRef releases it. *)
DropHandle(c, l) ==
  /\ Ready(c) /\ l \in RootOf(c) \cap use
  /\ cnt' = [cnt EXCEPT ![l] = @ - 1]
  /\ IF cnt'[l] # 0
     THEN UNCHANGED <<stack, ending>>
     ELSE /\ stack' = [stack EXCEPT ![c] = Push(@, l)]
          /\ ending' = [ending EXCEPT ![c] = l]
  /\ UNCHANGED <<memory, use, status, fill, patient, orphan, left>>

SharedAlways(n) == n > 0      \* faulty variant: compares the count itself
SharedFromThree(n) == n > 2   \* faulty variant

(* get_ref_cnt_from_info(ref_info) - 1 > 0 *)
Shared(n) == n > 1

(* test_free and recovery_test_free, up to the recursion.  Only the latter  *)
(* returns if the count is zero.                                            *)
ReadCount(a) ==
  LET f == Top(a)
      n == count[ref[f.ref]]
  IN
  /\ Releasing(a) /\ f.at = "read"
  /\ IF ref[f.ref] = Null \/ (a = Monitor /\ n = 0)
     THEN stack' = [stack EXCEPT ![a] = Pop(@)]
     ELSE SetTop(a, [f EXCEPT !.at = IF Shared(n) THEN "unlink" ELSE "kids", !.seen = n])
  /\ UNCHANGED <<memory, use, cnt, status, fill, ending, patient, orphan, left>>

ReleaseSameKid(a) ==    \* faulty variant: does not go on to the next reference
  /\ Releasing(a) /\ Top(a).at = "kids" /\ Top(a).next <= embed[ref[Top(a).ref]]
  /\ stack' = [stack EXCEPT ![a] = Append(@, Call(Word(ref[Top(a).ref], Top(a).next)))]
  /\ UNCHANGED <<memory, use, cnt, status, fill, ending, patient, orphan, left>>

(* The recursive call for the next embedded reference. *)
ReleaseKid(a) ==
  LET f == Top(a)
      b == ref[f.ref]
  IN
  /\ Releasing(a) /\ f.at = "kids" /\ f.next <= embed[b]
  /\ stack' = [stack EXCEPT ![a] = Push(Append(Pop(@), [f EXCEPT !.next = @ + 1]), Word(b, f.next))]
  /\ UNCHANGED <<memory, use, cnt, status, fill, ending, patient, orphan, left>>

(* unlink_reference(_ref, _ref), which frees the block with its last        *)
(* reference whether or not test_free saw that it would be the last.        *)
UnlinkRef(a) ==
  LET f == Top(a)
      b == ref[f.ref]
      raced == {ref[Word(b, i)] : i \in 1 .. embed[b]} \ {Null}
  IN
  /\ Releasing(a)
  /\ f.at = "unlink" \/ (f.at = "kids" /\ f.next > embed[b])
  /\ ref' = [ref EXCEPT ![f.ref] = Null]
  /\ count' = [count EXCEPT ![b] = @ - 1]
  /\ stack' = [stack EXCEPT ![a] = Pop(@)]
  /\ IF count[b] - 1 > 0
     THEN UNCHANGED <<live, orphan>>
     ELSE /\ live' = live \ {b}
          /\ orphan' = (orphan \ {b}) \cup (IF f.seen > 1 THEN raced ELSE {})
  /\ UNCHANGED <<embed, use, cnt, status, fill, ending, patient, left>>

(* in_use = 0 and cxl_free(true, ref), in ~CXLRef_s and in the recovery;    *)
(* the counter of a free RootRef means nothing, block_to_tbr resets it.     *)
EndRoot(a) ==
  /\ ending[a] # NoRoot /\ stack[a] = <<>>
  /\ a \in Client => status[a] = "run"
  /\ use' = use \ {ending[a]}
  /\ ending' = [ending EXCEPT ![a] = NoRoot]
  /\ cnt' = [cnt EXCEPT ![ending[a]] = 0]
  /\ UNCHANGED <<memory, status, fill, stack, patient, orphan, left>>

-----------------------------------------------------------------------------
(* A client stops; what it had in its own memory is gone.                   *)
Unfilled(c) ==
  LET b == fill[c].block
  IN IF b = Null THEN {} ELSE {Word(b, i) : i \in embed[b] - Len(fill[c].todo) + 1 .. embed[b]}

Fail(c) ==
  /\ status[c] = "run" /\ Spend("fail")
  /\ FailOnStale \/ \A l \in Unfilled(c) : ref[l] = Null
  /\ status' = [status EXCEPT ![c] = "dead"]
  /\ fill' = [fill EXCEPT ![c] = NoFill]
  /\ stack' = [stack EXCEPT ![c] = <<>>]
  /\ ending' = [ending EXCEPT ![c] = NoRoot]
  /\ UNCHANGED <<memory, use, cnt, patient, orphan>>

(* recovery_garbage_collection: the pass over the RootRefs in use. *)
StartRecovery(c) ==
  /\ patient = 0 /\ status[c] = "dead"
  /\ patient' = c
  /\ UNCHANGED <<memory, use, cnt, status, fill, stack, ending, orphan, left>>

RecoverRoot(l) ==
  /\ patient # 0 /\ l \in RootOf(patient) \cap use
  /\ ending[Monitor] = NoRoot
  /\ ending' = [ending EXCEPT ![Monitor] = l]
  /\ stack' = [stack EXCEPT ![Monitor] = IF ref[l] = Null THEN <<>> ELSE Push(@, l)]
  /\ UNCHANGED <<memory, use, cnt, status, fill, patient, orphan, left>>

Recovered ==
  /\ patient # 0 /\ RootOf(patient) \cap use = {} /\ ending[Monitor] = NoRoot
  /\ status' = [status EXCEPT ![patient] = "vacant"]
  /\ patient' = 0
  /\ UNCHANGED <<memory, use, cnt, fill, stack, ending, orphan, left>>

-----------------------------------------------------------------------------
(* The RootRef that the allocator takes; which one makes no difference. *)
FreeRoot(c) == {k \in 1 .. NRoot : Root(c, k) \notin use /\ \A j \in 1 .. k - 1 : Root(c, j) \in use}
Kids(c) == UNION {[1 .. n -> RootOf(c) \cap use] : n \in {0, MaxEmbed}}

Work(c) ==
  \/ \E k \in FreeRoot(c), b \in Block, kids \in Kids(c) : Malloc(c, k, b, kids)
  \/ \E l \in RootOf(c) : WriteData(c, l) \/ CopyHandle(c, l) \/ DropHandle(c, l)
  \/ \E l \in RootOf(c), d \in Client : SendRef(c, l, d)
  \/ \E d \in Client, k \in FreeRoot(c) : Unwrap(d, c, k)

Release(a) == ReadCount(a) \/ ReleaseKid(a) \/ UnlinkRef(a) \/ EndRoot(a)

Recover ==
  \/ \E c \in Client : StartRecovery(c)
  \/ \E l \in UNION {RootOf(c) : c \in Client} : RecoverRoot(l)
  \/ Recovered

Next ==
  \/ \E c \in Client : ThreadInit(c) \/ Work(c) \/ LinkKid(c) \/ Fail(c)
  \/ \E a \in Agent : Release(a)
  \/ Recover

Spec == Init /\ [][Next]_vars

(* A client that is releasing goes on with it, and the monitor runs: no    *)
(* step of either waits for anybody.                                        *)
Fairness ==
  /\ \A c \in Client : WF_vars(Release(c))
  /\ WF_vars(Release(Monitor) \/ Recover)

FairSpec == Spec /\ Fairness

-----------------------------------------------------------------------------
(* The locations that hold references: not the words of free blocks or of   *)
(* plain data, nor those of an object that is not complete.                 *)
Counts(l) ==
  CASE l[1] = "root" -> l \in use
    [] l[1] = "word" -> /\ l[2] \in live /\ l[3] <= embed[l[2]]
                        /\ \A c \in Client : fill[c].block = l[2] => l \notin Unfilled(c)
    [] OTHER -> TRUE
RefersTo(b) == {l \in Location : ref[l] = b /\ Counts(l)}

(* The count of an object is the number of references to it, failures and   *)
(* recoveries included; only that of an object whose holder was released by *)
(* two at once stays above.                                                 *)
CountExact ==
  \A b \in live :
    /\ count[b] >= Cardinality(RefersTo(b))
    /\ b \notin orphan => count[b] = Cardinality(RefersTo(b))

(* No location refers to a block that is free (wild pointer). *)
NoWildPointer == \A l \in Location : Counts(l) => ref[l] \in live \cup {Null}

(* A release in progress holds a reference of its own to every object it    *)
(* is at: nobody else can free it in between (double free).                 *)
ReleaseHolds ==
  \A a \in Agent : \A i \in DOMAIN stack[a] :
    LET f == stack[a][i] IN
    f.at # "read" => /\ Counts(f.ref) /\ ref[f.ref] \in live
                     /\ \A d \in Agent : \A j \in DOMAIN stack[d] :
                          stack[d][j].ref = f.ref => d = a /\ i = j

(* When nobody holds anything, nothing is allocated (memory leak).  The     *)
(* code does not provide this: see CountExact for what it does provide.     *)
NothingLeaks ==
  /\ use = {} /\ \A c, d \in Client : ref[Mail(c, d)] = Null
  /\ \A a \in Agent : ending[a] = NoRoot
  => live = {}

(* A release only follows words in which a reference was put. *)
ReleaseFollowsReferences ==
  \A a \in Agent : \A i \in DOMAIN stack[a] : ref[stack[a][i].ref] # Data

(* References behave as the holders of references expect, see SharedObjects. *)
Abstract == INSTANCE SharedObjects WITH
  Object <- Block, NoObject <- Null, Inside <- WordOf,
  target <- [l \in Location |-> IF Counts(l) THEN ref[l] ELSE Null]
ImplementsSharedObjects == Abstract!Spec

(* A client that destroys its last handle of an object gets through with    *)
(* it, however deep the recursion and whatever others do, unless it fails.  *)
ReleaseEnds ==
  \A c \in Client : ending[c] # NoRoot ~> ending[c] = NoRoot

(* The monitor comes to the end of the RootRefs of a failed client. *)
RecoveryEnds == \A c \in Client : status[c] = "dead" ~> status[c] = "vacant"
=============================================================================
