# CXL-SHM: a TLA+ development

CXL-SHM (`src/include`, `src/src`) lets clients on several machines share a CXL
memory.  It is a library: every client maps the same memory and runs the same
code, there is no server.  Objects are reference counted, a client may fail at
any instruction, and a monitor process recovers what the failed client left.
The repository's promise (`src/README.md:5`) is that there are "no global
blocking, memory leak, double free, and wild pointer problems, even if some
participating clients unexpectedly fail".

## 1. Inventory

| Part | Code | State | Operations | What makes it correct |
|---|---|---|---|---|
| Reference counts | `cxl_shm.cpp:157-267` | `CXLObj.ref_info` = (lcid, ref_cnt, lenum), the era array `era(i, j)`, the redo log of each slot | `link_reference`, `unlink_reference` | the count is the number of references, at every step and after every failure |
| RootRefs and handles | `cxl_ref.cpp`, `cxl_shm.cpp:84-139` | `RootRef` = (pptr, in_use, ref_cnt), `CXLRef` on the stack | `get_ref`, `~CXLRef`, copies, moves | a RootRef is released exactly when its last handle goes |
| Embedded references | `cxl_shm.cpp:270-297`, `recovery.cpp:448-467` | `CXLObj.embedded_ref_cnt`, offsets in the object's data | `set_embedded`-style linking by the user, `test_free`, `recovery_test_free` | what an object embeds lives as long as the object and goes with it |
| Allocation | `alloc.cpp`, `page.cpp` | page free lists (`free`, `local_free`), the segment's `thread_free` | `cxl_malloc`, `cxl_free`, slow path, carving, collecting | a block has one owner; nothing is lost but on a failure |
| Page queues | `page_queue.cpp` | doubly linked lists in the memory | push, remove | the links describe one sequence |
| Segments | `segment.cpp` | allocation states (thread id, NORMAL / ABANDON / POTENTIAL_LEAKING, `thread_free`) | claim, free, reclaim | a segment has one owner |
| Slots | `cxl_shm.cpp:44-71` | `packed_machine_process_id`, page queues, redo log | `thread_init`, release | one client per slot; nothing of the last user survives |
| Message queues | `transfer.cpp` | a ring of 16 counted references, two cursors, sender and receiver lists | `create_msg_queue`, `sent_to`, `cxl_unwrap` | a reference sent is received once, in order, or released |
| Hash index | `hash_index.cpp` | one table per thread | `put`, `get` | single writer per table, entries are never lost |
| Recovery | `recovery.cpp` | none of its own | redo, release of RootRefs, queues, pages and segments | the failed client's effects are finished or dropped, exactly once |
| Orderly exit | `recovery.cpp:48-184` | none of its own | `normal_garbage_collection` | the same, by the client itself |

Interaction is through shared memory only.  Clients meet at `ref_info` (CAS), at
a segment's `thread_id` and `thread_free` list (CAS), in the era array (each row is written
by its owner, or by the monitor for a failed owner, and read by the monitor),
at the message queues (one sender, one receiver) and when they hand over a plain
offset that the other side turns into a reference with `get_ref`.

The hard behaviours: the CAS and the store of the pointer are two steps, with a
failure between them; whether the CAS of a dead client happened has to be found
from its stamp or from what others noted about it; the monitor reads that
evidence in many loads; old redo lines stay in the log; blocks, pages, segments and
slots are reused; a release recurses through objects that others work on; readers of
the index take no lock.
`PROJECT.json` lists each as a hazard with its line.

## 2. Modules

| Module | Role |
|---|---|
| `AtomicRefs` | what reference counting promises: create, share, drop and reclaim in one step each; a failure is invisible |
| `EraRefCount` | the protocol: clients, failures, the monitor; its properties |
| `EraRefCountInv` | the parts of its inductive invariant, and the hypotheses of the theorems |
| `EraRefCount_proofs` | types, the shape of the local variables, and the causality of the eras, proved |
| `EraRefCountRedo_proofs` | the harmlessness of old redo records; that a committed operation leaves evidence and the monitor reads it right, proved |
| `EraRefCountCount_proofs` | the counts through every failure and recovery, what follows from them, and that it implements `AtomicRefs`, proved |
| `RefChannel` | what a message queue promises: a bounded first-in first-out channel |
| `Transfer` | one message queue: `sent_to`, `cxl_unwrap`, failures, orderly exit and recovery of both sides |
| `TransferInv` | the parts of its inductive invariant |
| `Transfer_proofs` | its safety properties and the refinement of `RefChannel`, proved |
| `BlockPool` | what the allocator promises: memory handed out overlaps no memory in use |
| `PageHeap` | the allocator: blocks, pages, page queues, segments, failures and the monitor's passes over them |
| `PageHeapInv` | the parts of its inductive invariant |
| `PageHeapBlocks_proofs` | lemmas about its lists and queues, and the steps of a client that move blocks |
| `PageHeap_proofs` | the steps that take and give back pages and segments, the monitor's, and its safety properties and the refinement of `BlockPool`, proved |
| `SharedObjects` | what counted references promise to their holders, with references between objects |
| `ObjectGraph` | handles, embedded references, the recursive release by clients and by the monitor |
| `ObjectGraph_proofs` | its counts, its releases and the refinement of `SharedObjects`, proved |
| `KeyValue` | what the index promises: a map |
| `HashIndex` | one partition of the index: `put`, `get`, failures, recovery, reuse of the writer's slot |
| `HashIndex_proofs` | counts, links and types of the index, and that it is a map, proved |
| `MCEraRefCount`, `MCTransfer`, `MCPageHeap`, `MCObjectGraph`, `MCHashIndex` | the constants of the instances |

The modules divide the library by what its parts share.  `EraRefCount` shows that a
link or an unlink, with its failures and its redo, takes effect in one step or not
at all (`ImplementsAtomicRefs`); `Transfer` and `ObjectGraph` use counts that change in
one step and look at what is new above them.  `PageHeap` shows that blocks are handed
out once; `EraRefCount`, `ObjectGraph` and `HashIndex` take blocks from a set.

### EraRefCount and the code

| State | Code |
|---|---|
| `refInfo[o]` | `CXLObj.ref_info`, unpacked; `PackRefInfo` carries an overflow of the count into the lcid as the additions of `pack_ref_info` do |
| `era[i][j]` | `*era(i, j)` |
| `redo[i][n]` | the n-th cache line of `tls->redo`; `saved_ref_cnt` and `old_refed` are left out, see section 6 |
| `pptr`, `inUse` | `RootRef.pptr`, `RootRef.in_use` |
| `block[b]` | `"free"`: on `page->free`; `"away"`: on `local_free`, `thread_free` or no page; `"used"`: handed out |
| `slot[i]` | `packed_machine_process_id` zero or not, and whether its process is alive |
| `pc[i]`, `op[i]` | the place a client executes and its local variables; after a failure they are what the properties compare the recovery with, the monitor never reads them |
| `mon` | the monitor's local variables |

One action is one access to the memory that another party can observe, or that a
failure may separate from the next one: a client fails (`Crash`) between any
two actions, which is where `POTENTIAL_FAULT` stands.  Steps that are merged:

- reading `page->free` and the page queue is part of the action that takes the
  block: only the owner of the page writes them;
- `block_to_tbr` is one action: a failure inside it loses a RootRef block that
  is not in use, and the whole page goes back with its owner;
- the end of `~CXLRef` (`in_use = 0`, `cxl_free(true, ...)`) and the monitor's
  store, era step and free (`MonStore`) touch memory that only the acting party
  can reach at that point;
- `clwb` and `sfence` have no counterpart: the memory of the model is the
  coherent one; a loss of power is not considered, as in the code's own tests,
  where a failure is `_exit`.

Operations: `CxlMalloc` (`cxl_malloc`), `GetRef` (`get_ref` of an offset that a
RootRef holds) and `Drop` (`~CXLRef` of the last handle).  `Collect` is
nondeterministic in which freed blocks it finds, and in what a fresh page brings.

Assumptions on the use of the library, each visible in a guard:

- objects have no embedded references (`embedded_ref_cnt = 0`), so `test_free` is
  `unlink_reference` whatever count it reads;
- one `CXLRef` per RootRef;
- the holder of an offset it handed over keeps it until the receiver has linked
  it (`Pinned`).  If recovery runs beside live clients, it also outlives the
  receiver's `get_ref` (`Crash`): nothing in the code protects a bare offset.
- a recovered slot is not claimed again (`"gone"`), a segment keeps its owner
  (`Home`), and the heap does not run out (`Available`).

`Quiescent = TRUE` is the recovery of the repository's tests: `recovery_check`
runs when every client has exited (`check_tls` takes each claimed slot for a
failed one, `recovery.cpp:655-661`).  `Quiescent = FALSE` is `recovery_loop` with the failure detector that
`check_tls` leaves to the user ("todo for user with specific machine ... ",
`recovery.cpp:658`): it is external, and assumed to report failed clients only.

### Transfer and the code

| State | Code |
|---|---|
| `val[l]`, `inUse[r]` | `RootRef.pptr` or `buffer[l]`; `RootRef.in_use` |
| `count[o]` | the count of `ref_info` |
| `start`, `end`, `receiverId` | the fields of `cxl_message_queue_t` |
| `listed` | the queue is in the receiver's `receiver_queue` |
| `status`, `pc`, `op` | as `slot`, `pc` and `op` of `EraRefCount`; with `"rec"` the monitor takes the steps in the place of the failed client |
| `log[p]` | the latest redo record; `done`: its operation passed the CAS |
| `walk[p]` | where the walk of `normal_garbage_collection` or `recovery_garbage_collection` is |
| `races`, `sent`, `received` | history variables |

`Transfer` takes over from `EraRefCount` what that module establishes: a count
changes in one step (`Count`), and the monitor knows whether the operation of
the latest record was counted (`EvidenceExact`, `VerdictExact`).  What is new is that
counted references lie in slots that two clients share, so that a record names
a place that somebody else may change.  The redo's verdict and its store are one
action, as the verdict cannot change any more.  `normal_garbage_collection` and
`recovery_garbage_collection` walk in the same order, so they share their actions; they
differ in the log (the client writes one, `Begin`) and in the test for a count
of zero (the monitor's only, `Nothing`).

Assumptions: the sender's objects exist before the queue is used, and it
allocates nothing while it is (fewer records wiped, so more are replayed); a
queue that both sides have left is not used; a freed object is not allocated again.

### PageHeap and the code

| State | Code |
|---|---|
| `owner[k]`, `info[k]` | `cxl_segment_allocation_state_t`: `thread_id`; `info` with the state and the `thread_free` list |
| `segment[k]` | `cxl_segment_t.thread_id`, `used` |
| `page[p]` | `cxl_page_t`: `free`, `local_free`, `block_size` (as a bin), `used`, `next`, `prev` |
| `queue[c][b]` | `tls->pages[b]`, and `tls->free_page` |
| `word[w]` | what the monitor reads as a count if a block's header is at `w`: zero, not zero, or what earlier use of the memory left |
| `held[c]` | the blocks that client `c` has to free |
| `op`, `pc`, `mon` | local variables and next step of a client and of the monitor |

Only `owner` and `info` are accessed by more than one client at a time; each of these
accesses is a step (a CAS compares the state and the offset of the first block, which is
what `Seen` keeps).  The rest of an operation works on pages that the client owns and
joins the step before or after it, cut where a failure shows: a page that has been taken
and not carved (`TakePage`, `Carve`), a segment that has been claimed and not
initialised (`ClaimSegment`, `InitSegment`), one that is empty and not yet given back.
A client fails between any two steps.  `PassOn` hands a block to
another client, which is how remote frees come about; `WriteData` leaves data where a
smaller block would later have its header.  The redo log does not occur here: its wiping
before the collecting is in `EraRefCount`.  The monitor's passes are in the code's order:
per failed slot the blocks it held, its RootRef pages, its object pages, its segments;
then every claimed segment (`ScanSegment`).  The monitor's `check_tls` takes each slot in
use for a failed one; the model knows who has failed, which is the same when recovery is
quiescent.  `in_use` of a RootRef that was never cleared does no harm, because the
release checks what the RootRef refers to (`recovery.cpp:293`).

When no segment is left `cxl_page_init` writes through a null pointer
(`page.cpp:148-150`): the client ends there, as a failure.  Pages of message queues are
not modelled, and a word stands for as many bytes as the smallest block takes.

### ObjectGraph and the code

| State | Code |
|---|---|
| `ref[l]` | `RootRef.pptr`; the offset in an embedded word; the reference in a queue |
| `count[b]`, `embed[b]` | the count of `ref_info`, `embedded_ref_cnt` |
| `use`, `cnt[l]` | `RootRef.in_use`, `RootRef.ref_cnt` |
| `fill[c]` | the references that a user has yet to link into an object it allocated |
| `stack[a]` | the frames of `test_free` or `recovery_test_free` of client `a` or of the monitor (0) |
| `ending[a]`, `patient` | the RootRef whose last handle goes; the client that is recovered |
| `orphan` | auxiliary: objects whose holder was released by two at once |

A frame reads the count (`"read"`), releases the words one after the other (`"kids"`) if
the count was one, and unlinks (`"unlink"`); the steps of all frames interleave with
those of other clients.  The monitor's recursion is the same with its own checks for
counts that are zero.  It prints "error" when a RootRef refers to an object with embedded
references (`recovery.cpp:295`) but goes on and handles them.

Assumptions on the use of the library: the words of an object are linked before it is
shared; an object embeds no references or as many as it was allocated for; cycles are
not built (the code would not collect them); a client fails only when the words of a new
object hold no data of the block's last user (`FailOnStale = FALSE`: `block_to_cxlobj`
sets `embedded_ref_cnt` and leaves the words as they are, see `MCStaleWords.cfg`).

### HashIndex and the code

| State | Code |
|---|---|
| `next[w]` | the bucket's word, or the `next` of the entry `w` |
| `data[e]`, `stamp[e]` | key and value of an entry; count and era of its `ref_info` |
| `free` | the blocks that are on a free list |
| `era`, `log` | `era(i, i)` and the latest redo record of the writer's slot |
| `status`, `at`, `op` | the slot; the next step of `put` and its local variables |
| `cursor[r]`, `answer[r]` | where a `get` is; what the last one returned |

`put` is spelled out with its link (walk, fill, record, CAS, store, era), because the
evidence of the redo differs here: nobody else stamps an entry.  The benchmark gives
each thread a partition of its own by the top byte of the key
(`src/test/benchmark/kv.cpp`), so a partition has one writer.  After a failure the
monitor redoes the latest record and frees uncounted blocks, and another process takes
the slot (`ThreadInit`) with its eras, its record and its partition.  `put` holds no
`POTENTIAL_FAULT`, but a process may stop anywhere: `FailBeforeCas` says whether it may
between record and CAS.

## 3. Properties

`EraRefCount`:


- `CountExact`: the count of every object is the number of references to it,
  where an operation counts from its CAS (`View`), in every state.
- `RecoveredExact`: the same in terms of the memory alone, when nothing is in
  progress and nothing is left to recover: no leaked count, no missing one.
- `CountFits`: every count that a client or the monitor is about to write fits
  its field, so no carry or borrow reaches the lcid.
- `NoWildPointer`: what a RootRef holds or a live client works on has not been freed.
  That one party frees an object, once, is part of `ImplementsAtomicRefs`.
- `EraCausal`: nobody has seen an era that its owner has not reached.
- `EvidenceExact`: for the record of the operation in progress, stamp or rows
  say "committed" exactly from the CAS on, in every state, whoever replaces the
  stamp meanwhile.
- `VerdictExact`: so says the monitor, although it reads the evidence step by
  step.
- `RedoHarmless`: the record of an earlier operation may be replayed: the
  reference it names is not in use, or already holds what the redo stores.
- `NoABA`: a word that moved on from what a pending CAS expects never returns.
  Only claimed for quiescent recovery: the monitor's first unlink reuses the era
  of the operation it redid (`recovery.cpp:484-490`), and with two other clients
  running beside it the same (lcid, ref_cnt, lenum) can be written twice.
- `ImplementsAtomicRefs`: the protocol refines `AtomicRefs`, with the CAS (for an
  allocation, the stamp) as the point at which an operation takes effect.
- `ClientsNotBlocked`, `RecoveryCompletes`: liveness.

`Transfer`.  Four races break the counts; the history variable `races` records each
of them at the step at which it becomes possible:

- `late`: the receiver writes `receiver_id` after the sender's side has found it zero
  and before its walk over the messages is over;
- `both`: the same when the receiver fails before it writes `receiver_id`, so that the
  recovery of the receiver and the walk of the sender's side release the same messages;
- `stranded`: the sender's side finds `receiver_id` set although the receiver's side
  has finished its walk;
- `replayed`: the redo stores a reference in a slot that has been emptied since.

The run `replayed_send` shows what the last does (finding 1); section 4 names
configurations for two others.  The properties say that there is no fifth:

- `CountExact`: but for these races the count of an object is the number of
  RootRefs and slots that hold it, in every state;
- `AllReleased`: but for them no slot and no RootRef holds anything once both
  clients are gone: each slot is emptied by one side, in any order of departures;
- `MessageStays`: but for them the slot that `cxl_unwrap` has tested stays filled until
  the receiver empties it;
- `OldUnlinkHarmless`: the replay of an old unlink never removes a message of the
  next round.  It depends on the slot that a full ring leaves empty;
- `ImplementsRefChannel`: messages arrive once, in order and at most
  `MESSAGE_BUFFER_SIZE - 1` are in flight, races or not;
- `WalksEnd`: liveness.

`PageHeap`:

- `EveryBlockOnce`: every block of a page in use is in one place: on `free`, on
  `local_free`, on `thread_free`, with a holder, or on its way to `thread_free`.
- `UsedExact`: `page->used` counts the blocks that are on neither of the page's own
  lists, so a page with blocks pending on `thread_free` is not given back.
- `QueuesExact`: a client's page queues are linked in both directions and hold exactly
  the pages of its segments, each on the queue of its block size, and `segment->used`
  counts those taken.
- `HeldPagesStay`: the page of a block that a running client holds, or is about to push
  to another client's segment, is not given back and not turned to another block size.
- `OnlyStaleHeadersStay`: after the recovery of all clients a segment stays claimed only
  because of a header that the carving did not write; `CheckRecovery`, which the
  repository's test expects, makes no such exception (finding 2).
- `ImplementsBlockPool`: memory handed out overlaps no memory in use.
- `PushEnds`: the CAS loop of a remote free ends.

`ObjectGraph`:

- `CountExact`: a count is never below the number of references, and exact but for
  objects whose holder two clients released at once (finding 3).
- `NoWildPointer`: no RootRef, embedded word or queue refers to a free block.
- `ReleaseHolds`: each frame past its read owns a reference of its own to an object that
  is still allocated; no two frames work on the same reference.
- `ImplementsSharedObjects`: an object goes with its last reference, what it embeds with it.
- `ReleaseEnds`, `RecoveryEnds`: the recursion ends, for clients and for the monitor.

`HashIndex`:

- `CountExact`: an entry is counted if and only if it is linked, or its writer is about
  to link it or failed about to and the redo will.
- `NoDanglingEntry`: the pass over the pages frees no entry that a word refers to.
- `KeysUnique`: a put that was cut short and made again by the next process leaves one
  entry.
- `EntriesStay`: no step, redo included, changes a word that refers to an entry.
- `ImplementsKeyValue`: readers without a lock see a map that changes in one step.
- `GetEnds`: liveness.

## 4. Runs

| Run | Instance | Shows |
|---|---|---|
| `quiescent` | 2 clients, 3 RootRefs, 2 objects, 2 redo lines, 4 eras per client; recovery when no client runs | exact counts, no double free, evidence, old redo lines and reused RootRefs, refinement |
| `online` | the same with 1 object, recovery beside live clients | wild pointers, verdict and refinement under all interleavings of monitor and clients |
| `three` | 3 clients, 1 RootRef each, 1 redo line, 2 eras, online | evidence that passes through two other clients; every operation ends; every recovery ends |
| `transfer` | ring of 3 slots, 4 messages, 2 objects, 2 RootRefs of the sender and 1 of the receiver, failures and exits of both sides at any time | counts, release, refinement, the races are the only ones |
| `transfer_liveness` | ring of 3, 3 messages, 1 object, 2 RootRefs of the receiver | the walks end |
| `replayed_send` | 1 message, failures | finding 1 |
| `page_heap` | 2 clients, 2 segments of 2 pages of 2 words; RootRefs and small blocks take 1 word, large ones 2; 3 and 1 allocations, recovery when no client runs | blocks, queues, remote frees, refinement |
| `stale_header` | the same | finding 2 |
| `object_graph` | 2 clients, 2 blocks with up to 2 embedded words, 2 RootRefs each; 3 allocations, 1 copy, 1 message, 1 failure | counts, recursion, refinement, liveness |
| `skipped_children` | 1 embedded word, 2 allocations, no failures | finding 3 |
| `hash_index` | 2 keys of one bucket, 2 values, 3 entries, 1 reader, 3 puts; a slot that is taken again up to era 3 | the index is a map |
| `false_put` | the same with failures between record and CAS | finding 4 |

Bounds.  Four messages through a ring of three slots fill it, wrap `end`, and write
the first slot a second time; two objects tell the order of messages.  `MaxEra` stops a client from starting a new operation after that many eras;
4 eras let one client allocate, drop and allocate again (so a RootRef and its
redo line are reused, with two lines in turn) while the other links and drops
the same object.  Two lines are enough for "latest" to differ from "current".
Two RootRefs of one client and one of another give counts up to 3.  In `PageHeap` two words make a page
with two small blocks or one large one, so that a page is partly used, full, and turned to
another size; two segments of two pages let a client own both, exhaust the memory, and
lose one to the other client; three allocations fill a page and begin the next while the
second client frees remotely.  In `ObjectGraph` one object embeds the other once or twice,
and a third allocation reuses a block.  In `HashIndex` one bucket for all keys makes chains
of two, and the third entry replaces one that a failure lost.  `MaxPut`, `MaxGet`,
`MaxMalloc` and `Budget` bound what is begun, never what is in progress.  `CNT_LIMIT`
is the code's 65536 and out of reach.  There is no symmetry: eras and ids are
compared.  Deadlock is not checked: the bounds make every instance stop.

`InitEra` is what earlier users of a slot left in the era array.  `FreshEras` is a fresh
memory.  `ApartEras` starts the slots 100 eras apart, so that no era of one
client equals one of another; the online runs use it because with equal eras the
torn read (`MCTornRefInfo.cfg`, below) breaks the redo.

Fairness.  In `Transfer` the steps of what has been begun (by a client that
runs, or by the monitor) and the start of a recovery are fair, and nothing else.  In
`EraRefCount` a client that has not failed goes on with the operation it started
(`ClientFairness`: it is a running thread); nothing makes it start one, and a failure is
never forced.  That the monitor goes on (`recovery_loop`) is a premise of
`RecoveryCompletes` only.  The CAS loops end because the others may only start
`MaxEra` operations: the code is lock-free, not wait-free, and this is what is
shown.
In `PageHeap` only the push of a remote free is fair, in `ObjectGraph` the releases of each
client and the monitor, in `HashIndex` the walk of a reader: each is a loop of a running
thread that waits for nobody, and only a failure cuts it short.

Findings.  Each is a run that TLC has to find violated.

1. `replayed_send`: the redo of a send that ended long ago writes the slot again
   (`recovery.cpp:223`), which the receiver has emptied; the walk over the ring finds the
   reference outside `[start, end)` and drops it a second time.  The receiver's
   object is freed.  With recovery after all clients have failed, as in the
   repository's test, `recovery_test_free` skips the object whose count is zero, and
   nothing shows.
2. `stale_header`: the carving loop (`page.cpp:189`) writes the header of every block of
   a page but the last.  If earlier use of the memory left a count there, the monitor
   takes the block for a live object and keeps the segment, and the test's
   `check_recovery` does not find every segment free.
3. `skipped_children`: `test_free` decides by a count it read earlier (`cxl_shm.cpp:279`)
   whether to release the embedded references.  Two clients that drop the last two
   references at once both read two, and the embedded references are never released.  No
   failure is needed; in the RPC benchmark client and server both drop the object with
   the arguments.
4. `false_put`: `put` stamps a new entry with the era of the link that follows
   (`hash_index.cpp:26`).  After a failure between the link's record and its CAS the redo
   takes this stamp for the link's own and links an entry that nobody counted; the page
   pass then frees it.

Six more configurations are kept for use by hand; TLC finds each violated by what the
code does:

| Configuration | Module | Property violated | What happens |
|---|---|---|---|
| `MCOffByOneRow.cfg` | `MCEraRefCount` | `RecoveredExact` | the redo reads the rows `0 .. MAX_THREAD-1` (`recovery.cpp:211`, `:240`) but ids count from 1 (`cxl_shm.cpp:262`): what the thread in the last slot noted is never read.  The runs leave the last slot free |
| `MCTornRefInfo.cfg` | `MCEraRefCount` | `RecoveredExact` | `ref_info` is loaded twice (`recovery.cpp:201-202`, `:229-230`); a live client between the loads makes the lcid of one stamp and the lenum of another look like a stamp that never was |
| `MCTransferStranded.cfg` | `MCTransfer` | `NoLeak` | `receiver_id` is reset after the walk (`recovery.cpp:132`); a message sent in between belongs to nobody |
| `MCTransferLate.cfg` | `MCTransfer` | `NoNullOffset` | `cxl_unwrap` reads `buffer[start]` again after its test (`transfer.cpp:51`, `:56`, `:61`); a sender that leaves meanwhile empties it |
| `MCLivePages.cfg` | `MCPageHeap` | `HeldPagesStay` | the segment pass (`recovery.cpp:580`) runs over the segments of live clients too and wipes a page whose block is not linked yet |
| `MCStaleWords.cfg` | `MCObjectGraph` | `ReleaseFollowsReferences` | a client that fails before it has linked the words of a new object leaves the data of the block's last user there, which the monitor follows |

## 5. Proofs

Eight modules hold theorems and lemmas.  Those about `EraRefCount` are for any set of threads,
RootRefs and objects, any number of redo lines and any number of eras, with failures at
every step and recovery beside running clients.  They use the assumptions on the constants
that the module states (`ThreadAssumption` .. `ModeAssumption`), and three hypotheses
(`EraRefCountInv`):

- `FewRefs`: there are fewer RootRefs than counts that fit the field.  `pack_ref_info` has no
  guard against its width, so the 65536th reference to one object breaks everything.
- `RowsCovered`: the monitor's loop has a row for every client.  Thread ids start from 1 and the
  loop runs over `0 .. MAX_THREAD - 1`, so the last id has no row that is read:
  `MCOffByOneRow.cfg` shows a wrong verdict without this hypothesis.
- `StampsApart`, as `[]StampsApart`: while a failed client waits for recovery or is being
  recovered, no word of another client carries its era, or recovery waits for the clients
  (`Quiescent`).  The monitor loads the two halves of the word one after the
  other; `MCTornRefInfo.cfg` shows the wrong verdict without this hypothesis.  With `Quiescent` it is
  trivially true, and the theorems `QuiescentRecovery`, `QuiescentIsAtomic` and
  `WordsNeverReturn` do without it.  TLC found it to hold on the instances of `online` and
  `three`, whose clients start in eras that are apart.

The inductive invariant is `RefInv`, and each of its parts needs others:

- `TypeInv` (theorems `TypeCorrect` of `TypeOK`, and `Typing`).  `TypeOK` alone is not
  inductive: the CAS applies a count to `refInfo[op[i].refed]`, which needs to be an object.
  `OpShape` and `MonShape` say what the local variables hold at each label.
- `EraInv` (`ErasCausal` of `EraCausal`).  It adds what is in flight: the stamp that a client or
  the monitor has read and not yet noted is not ahead of the client it names either.  The only
  way to break it would be a stamp that names the wrong client, which a carry out
  of the count can make, so this part needs `CountFits`.
- `RedoInv` (`OldRecordsHarmless` of `RedoHarmless`) says where the records are: each in
  the line of its era; the one of the current era is the operation's in
  progress (`LogLines`, `LogCurrent`); no record names a RootRef that is up
  for allocation, and none names the RootRef of an allocation in progress
  (`LogFresh`: the slow path wipes the log before it collects freed RootRefs, and this
  is where the proof uses it); an old record agrees with the RootRef it names,
  unless the unlink of that RootRef is about to end (`LogOld`).  In that last
  case the record of the unlink is a later one, so the monitor does not select
  the old one (`LatestOld`).
- `SeenInv` (`EvidenceIsExact` of `EvidenceExact`): before its CAS nobody has seen a client in
  its current era (`Unseen`), neither in a row, nor in a word, nor in a word somebody has
  read; after it the word is still there or a row other than its own has noted it
  (`Seen`).  The step that matters is the CAS that replaces the word: whoever makes it has
  noted the era of what it replaces (third and fourth conjunct), because the CAS only
  succeeds against the very word it noted.
- `VerdictInv` (`VerdictsExact` of `VerdictExact`): what the monitor has loaded so far.  A committed
  operation whose word was gone when the lcid was loaded is in some row (rows only grow), and the
  part of the loop still to come includes that row or the maximum already does.  An
  operation that was not committed stays out of every row.  Here `StampsApart` is
  needed, for a word that changes between the two loads, and `RowsCovered`.
- `CountInv` (`CountsExact` of `CountExact`, `CountsFit` of `CountFits`, `NothingWild` of
  `NoWildPointer`, `CountsRecovered` of `RecoveredExact`).  The count is compared with `View`, what
  each RootRef counts for.  `ClaimInv`: an operation that is about to stamp an object, or has
  dropped its last reference, has it to itself.  `HoldInv`, `SourceInv`, `MonHold`: what the RootRef of
  an operation, the RootRef a hand-over comes from, and the one the monitor works on
  hold.  The redo changes no `View`, if its verdict is right: that is where the counts need
  `VerdictInv`, and through `CountFits` the eras need the counts.

`WordsNeverReturn` (`NoABA`) follows from `SeenInv`: the word a CAS writes carries an era of its
client that is in nobody's hands.  It is stated, and true, for `Quiescent` only.  Beside running clients the
monitor's `recovery_unlink_reference` may write a word that a client has read: the redo does
not step the failed client's era, so the monitor's first CAS carries the stamp of the
operation that was committed before the failure, with perhaps the same count.  TLC finds such a step when the
instance of `three` gets a second RootRef of client 1 and one more era.  The counts stay exact
(`CountsExact` covers it): a CAS that succeeds against such a word still adds one to the number it
replaces.

`CountingIsAtomic` (`ImplementsAtomicRefs`): every step maps to a step of `AtomicRefs` or to
none.  An allocation is created by its stamp, a link is a share and an unlink a drop at the CAS, the push of
the block or the monitor's free reclaims the object, and a client that failed
between taking a block and stamping it loses the block at the end of its recovery
(`FinishLoses`).  All else stutters (`SteadyStutters`), the redo included.

Those about `HashIndex` are for any keys, values, buckets, blocks and readers, and any
number of puts, gets and failures, from `IndexAssumption` and the premise
`~FailBeforeCas`, which finding 4 shows to be necessary.

- `TypeCorrect` (`TypeOK`), `CountsExact` (`CountExact`), `NeverDangling`
  (`NoDanglingEntry`) and `EntriesNeverMove` (`EntriesStay`), from the inductive invariant
  `LinkInv` (`LinksCorrect`).  `CountExact` alone says nothing of where a link will be
  made.  `OpShape` adds that the word a put is at is a bucket or a linked entry, that it is
  empty from the end of the walk to the store, and that the entry in hand is nobody
  else's; `LogShape`, that the record is that of the put in progress, of a link that is in
  place, or of the one link that the redo has to make; `Extends`, that no unlinked entry
  goes on to another.
- `OneEntryPerKey` (`KeysUnique`) and `IndexIsMap` (`ImplementsKeyValue`), from `MapInv`
  (`ChainsCorrect`) on top of `LinkInv`.  That a walk to the end of a chain has met every
  entry of its bucket is an induction over the chain; it is stated without one: every set
  of words that is closed under `next` and contains the bucket contains the bucket's
  entries (`Reachable`), and a walk has passed a set of words without its key (`Passed`),
  which is closed when the walk is at the end (`EndOfChain`).  The map changes at the
  store of a new entry, at the redo's store, and at the write of a value.

Those about `ObjectGraph` are for any number of clients, RootRefs, blocks and embedded
references, any depth of the recursion and any number of failures, from `GraphAssumption`
and the premise `~FailOnStale`, which `MCStaleWords.cfg` shows to be necessary.

- `GraphInvariant`: `GraphInv` is inductive.  `CountExact` alone is not: nothing in it
  says whose reference a release drops, or that the words it follows stay put.  `Frames`
  adds what a release in progress is: a chain, whose first frame works on the RootRef
  that its agent gives up (`Endings`), and each further one on a word of the object
  that the frame below is at.  A frame that releases embedded references has read a
  count of one, so its reference is the only one (`KidsFrame`): nobody can copy, send or
  link it, and nobody else comes to the words.  `NoSharedFrame`: no two frames work on
  one location.  `Fillers`: an object that is not complete has no reference but its
  maker's handle.  `RootsHold`: a client that runs holds something by every RootRef in
  use.
- `GraphCountExact`, `GraphNoWildPointer`, `GraphReleaseHolds` follow from it, and
  `GraphReleaseFollowsReferences`: under the premise no release follows a user's data.
- `GraphIsSharedObjects` (`ImplementsSharedObjects`): each step's effect on what the
  locations refer to is a step of `SharedObjects` or none.  The hard one is
  `unlink_reference` of an embedded reference: that the object around it has only one
  holder left is what the frame below says.

Those about `Transfer` are for a ring of any size from two slots on, any finite set of
RootRefs, any objects and any number of messages, with failures, orderly exits and
recoveries of either side at every step, from the module's assumptions on its constants
alone.  The inductive invariant (`TransferInv`) has three layers:

- `ShapeInv`: what the local variables hold at each step; the receiver works on the ring
  only after it has written `receiver_id`; a record names a RootRef of its client's own.
- `RingInv` (theorem `RingInvariant`): what holds whatever races have happened.
  `CursorInv`: a send has a slot to spare and a fetch has a message, from the test of the
  ring to the move of the cursor, although the other side moves its cursor in between.
  `ContentInv`: a slot in flight holds the message sent as many sends ago as it is slots
  behind `end`, or nothing.  `LogInv`: the record of the operation in
  progress, and where the record of an operation that ended points: an old send of the
  sender points at the slot behind `end`; an old unlink of the receiver at a slot in flight
  or at the slot behind `start`.  `OldUnlinksHarmless` (`OldUnlinkHarmless`) is a part of it: that slot
  can only be filled again by a ring without an empty slot.
- `QuietInv`, as long as `races` is empty: `CountExact` and `MessageStays`, which are not
  inductive, and what they need.  `PlacesInv`: the place an operation works on holds what it is about to
  release, or nothing if it is about to link.  `WalkInv`: the sender's walk keeps off the
  slots in flight until it has found that nobody receives.  `OutsideInv`: a slot that is not in flight is empty, but for
  the message of a sender that failed between storing it and moving `end`.  `FoundInv`:
  what a slot in flight holds will be found by one of the two walks, and the walk that will find
  it has not passed it.  `RootsInv`: a walk that has passed the RootRefs has released them.

`CountsStayExact` (`CountExact`), `MessagesStay` (`MessageStays`) and `EverythingReleased` (`AllReleased`) follow from
the three.  The step they turn on is the redo: it ends the operation in progress, or
writes what the place holds already (`RedoVal`), unless it is the race `replayed`.  `RingIsChannel`
(`ImplementsRefChannel`) needs only the first two: the move of `end` sends, the receiver's
count of the message (`Count`) receives, and every other step leaves what is in flight as it is.

Those about `PageHeap` are for any number of clients, segments and pages per segment, any
page size, any size classes and any number of allocations, with failures of clients at every
step, from `SizeAssumption` and the premise `Quiescent`: the monitor runs when no client
does, as in `recovery_check`.  `MCLivePages.cfg` shows that `HeldPagesStay` needs it: beside a live
client the segment pass wipes a page whose block is not linked yet.
`HeapInvariant`: `HeapInv` (`PageHeapInv`) is inductive.  None of the five properties is,
for each says something of the pages that are on a queue and nothing of how a page
comes there.

- `StageInv`, `ClientInv`, `SegmentInv`, `HeaderInv` and `ScanInv` hold at every step.
  A client that works on a segment owns it by the allocation state and has not
  initialised it (`"segment"`), or has cleared it (`"release"`); a segment without a thread id
  has only cleared pages, so that the next owner, and a second initialisation after a
  failure, begin with none in use; a word that shows a live object is that of a block
  somebody holds; the slots and the segments that the monitor has passed are as it left them.
- `CalmInv` holds while the monitor is idle.  A recovery takes the lists and queues apart in an order
  of its own, and what it leaves satisfies `CalmInv` because no segment is active then
  (`EmptyCalm`): each is free or abandoned.  Here the premise is used.
- `PagesInv`: a page of an active segment is free, or carved, its blocks counted, or its owner is
  about to carve it.  A client that fails in between leaves a page on no queue.
- `LinkInv`: each queue links the pages of its class.  `BothWays` and `Ends` are what
  `cxl_page_queue_remove` needs, which follows `prev` and `next` of a page in the middle.
  `Reaches` says that whoever follows `next` from the first page comes to all of them: every set
  of pages that is closed under `next` and contains the first is the whole class.
  It is preserved by push and remove without an induction, and gives, with one along the links
  (`PagesAll`), what the monitor's walk finds.  The inductions over a list of blocks
  (`DrainedIs`, `DrainedEffect`), over the pages of a segment (`PushAllIs`, `RemoveAllIs`) and along the links
  are made with the least number that has a property (`LeastNumber`, `NumberInduction`),
  which is proved from the well-foundedness of the inclusion of finite sets.
- `CountInv`: `segment->used` counts the pages in use, and an active segment has some,
  unless it has just been claimed and its owner is about to take a page of it.  So the last
  page that is given back takes its segment with it (`LastPageStep`).
- `BlockInv`: `Free`, `LocallyFree`, `Pending`, what clients hold and what they are about to push
  are disjoint and together all blocks of the pages in use.  `cxl_free` gives the page back
  when `used` is zero: all its blocks are on its own two lists then, because these are as
  long as the page has blocks and hold none twice (`AllOnLists`); so nobody holds one and none is
  pending, and no other list changes (`DroppedBlocks`).

`HeapEveryBlockOnce`, `HeapUsedExact`, `HeapQueuesExact`, `HeapHeldPagesStay` and
`HeapOnlyStaleHeadersStay` state the five properties of the run.
`HeapIsBlockPool` (`ImplementsBlockPool`): blocks of one page have one size and start at its
multiples, so two that are held overlap only if they are the same (`HeldApart`).  `HeapInv` after the step says
that the block handed out was nobody's.

`RefInv`, `LinkInv`, `MapInv`, `GraphInv`, `HeapInv` and the three layers of `TransferInv` held in TLC
on the instances of `quiescent`, `online` and `three`, of `hash_index`, of `object_graph`, of
`page_heap` and of `transfer` (and with a ring of four slots and five messages) before they were
proved.

Not proved, and checked by TLC only: liveness (`PushEnds`, `WalksEnd`, `ReleaseEnds`, `RecoveryEnds`,
`GetEnds`, and those of `three`), which is out of the prover's reach, as is anything with
ENABLED.  Every safety invariant and every refinement that a passing run checks is a theorem.

## 6. Not modelled, and why

- `redo_log.saved_ref_cnt`: its only reader (`recovery.cpp:253`) extracts a count
  field from a value that already is a count, which gives 0 for every 16-bit
  value: the branch that marks a segment POTENTIAL_LEAKING is never taken.
  A failure of a client between its last
  unlink and `cxl_free` of a block of a live client's page loses the block until the
  page's owner fails.
- `old_refed`, `ver`: never read.
- The segment state POTENTIAL_LEAKING and the branch of the collecting that looks for
  it (`alloc.cpp:124`): never set, for the same reason.
- Moves and assignments of handles (`cxl_ref.cpp:23-48`).  A move copies the handle
  without counting it and both destructors run; a copy assignment forgets the old
  target.  No code of the repository uses either on a live handle: results are
  constructed in place.
- `normal_garbage_collection`'s passes over pages and segments; it has no caller.  Its
  walk over the queues is in `Transfer`.
- Allocation of message queues (`create_msg_queue`) and the lists that hold several.
- A redo record that outlives its RootRef's page, a slot that is taken again with the
  redo log of RootRefs, and a monitor that fails: planned, below.
- Widths of eras (32 bits: after a wrap the redo's comparisons of eras go wrong) and of the machine and process ids; placement on NUMA nodes.
- Benchmarks, tests, scripts: users of the library.

## 7. Plan

Done: `EraRefCount`, `Transfer`, `PageHeap`, `ObjectGraph`, `HashIndex` and the proofs of
section 5.  Left, in this order (a module that is proved about has no RECURSIVE operator):

1. `SlotReuse`: `thread_init` of a recovered slot with the redo log and the eras of its
   last user; a RootRef whose page was given back while a record names it
   (`recovery.cpp:224`); a monitor that is started again in the middle of a recovery.
2. `Transfer`, continued: the allocation of queues with the lists `sender_queue` and
   `receiver_queue`.
3. The orderly exit's passes over pages and segments, in `PageHeap`.
4. Size classes and packed words as operators at their widths.
