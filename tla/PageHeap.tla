------------------------------- MODULE PageHeap -------------------------------
(***************************************************************************)
(* The heap: blocks on pages on segments.                                  *)
(*                                                                         *)
(* A client allocates from the free list of a page of its own and frees a  *)
(* block of its own segments to the local list; a block of another         *)
(* client's segment goes to the segment's thread_free list, by CAS.  The   *)
(* slow path collects these lists, then takes a page from free_page, then  *)
(* claims a segment.  A page without used blocks and a segment without     *)
(* used pages are given back.  A client may fail between any two steps;    *)
(* the monitor releases what it held, then wipes pages and segments on     *)
(* which it finds no live block.                                           *)
(*                                                                         *)
(* A page is PageWords words.  A block of bin b is Size[b] consecutive     *)
(* words; the first holds its header, of which a word keeps what the       *)
(* monitor reads there as the reference count.  Lists through b->next are  *)
(* sequences; the page queues are the doubly linked lists of the code.     *)
(***************************************************************************)
EXTENDS Integers, FiniteSets, Sequences, Functions

CONSTANTS
  NClient,          \* slots, and thread ids 1 .. NClient
  NSegment,         \* segments of the memory
  PagesPerSegment,  \* pages of a segment that are used (the code's 1 .. 1023)
  PageWords,        \* size of a page
  Bin, Size,        \* size classes: Size[b] words per block
  RootBin,          \* the bin of RootRefs, pages[0]
  NONE,             \* block_size 0: the page is not in use
  Quiescent,        \* TRUE: the monitor only runs when no client does
  MaxMalloc         \* bound: MaxMalloc[c] allocations through slot c

Client == 1 .. NClient
Segment == 1 .. NSegment
Page == 1 .. NSegment * PagesPerSegment
SegmentOf(p) == (p - 1) \div PagesPerSegment + 1
PagesOf(k) == {p \in Page : SegmentOf(p) = k}
Word == Page \X (0 .. PageWords - 1)

ASSUME SizeAssumption ==
  /\ {NClient, NSegment, PagesPerSegment, PageWords} \subseteq Nat \ {0}
  /\ Size \in [Bin -> 1 .. PageWords]
  /\ RootBin \in Bin /\ NONE \notin Bin
  /\ Quiescent \in BOOLEAN /\ MaxMalloc \in [Client -> Nat]

(* The blocks of a page, and the memory a block takes: <<page, word, size>>. *)
BlocksOf(bin) == [i \in 1 .. PageWords \div Size[bin] |-> (i - 1) * Size[bin]]
Extent == {<<p, w, Size[b]>> : p \in Page, w \in 0 .. PageWords - 1, b \in Bin}
Overlap(e, f) == e[1] = f[1] /\ e[2] < f[2] + f[3] /\ f[2] < e[2] + e[3]

VARIABLES
  owner,    \* cxl_segment_allocation_state_t.thread_id; 0: not claimed
  info,     \* its info: state and the list thread_free
  segment,  \* cxl_segment_t: thread_id and used
  page,     \* cxl_page_t
  queue,    \* queue[c][b]: tls->pages[b], and tls->free_page as queue[c][NONE]
  word,     \* what a header at this word says: "clear", "live" or "junk"
  held,     \* held[c]: the blocks whose release is up to client c
  status,   \* of a slot: "vacant", "run" or "dead"
  pc, op,   \* next step of a client, and its local variables
  mon,      \* the monitor's step and local variables
  mallocs   \* mallocs[c]: allocations begun through slot c

shared == <<owner, info>>
heap == <<segment, page, queue>>
vars == <<shared, heap, word, held, status, pc, op, mon, mallocs>>

ZeroPage == [free |-> <<>>, local |-> <<>>, bin |-> NONE, used |-> 0, next |-> 0, prev |-> 0]
ZeroSegment == [tid |-> 0, used |-> 0]
NoQueues == [b \in Bin \cup {NONE} |-> [first |-> 0, last |-> 0]]
NoOp == [bin |-> NONE, page |-> 0, seg |-> 0, block |-> <<>>,
         seen |-> [state |-> "NORMAL", head |-> {}]]
Idle == [at |-> "idle", slot |-> 0, seg |-> 0, todo |-> {}]

Init ==
  /\ owner = [k \in Segment |-> 0]
  /\ info = [k \in Segment |-> [state |-> "NORMAL", list |-> <<>>]]
  /\ segment = [k \in Segment |-> ZeroSegment]
  /\ page = [p \in Page |-> ZeroPage]
  /\ queue = [c \in Client |-> NoQueues]
  /\ word = [w \in Word |-> "clear"]
  /\ held = [c \in Client |-> {}]
  /\ status = [c \in Client |-> "vacant"]
  /\ pc = [c \in Client |-> "idle"]
  /\ op = [c \in Client |-> NoOp]
  /\ mon = Idle
  /\ mallocs = [c \in Client |-> 0]

(* The offset of the first block of a list, which stands for the list.      *)
First(list) == IF list = <<>> THEN {} ELSE {Head(list)}

At(c, label) == status[c] = "run" /\ pc[c] = label
Goto(c, label) == pc' = [pc EXCEPT ![c] = label]

-----------------------------------------------------------------------------
(* cxl_page_queue_push and cxl_page_queue_remove, on a state that holds     *)
(* the page headers and one queue.                                          *)
SetNext(pages, p, q) == IF p = 0 THEN pages ELSE [pages EXCEPT ![p].next = q]
SetPrev(pages, p, q) == IF p = 0 THEN pages ELSE [pages EXCEPT ![p].prev = q]

PushPage(s, p) ==
  LET linked == [s.pages EXCEPT ![p].next = s.q.first, ![p].prev = 0]
  IN [pages |-> SetPrev(linked, s.q.first, p),
      q |-> [first |-> p, last |-> IF s.q.first = 0 THEN p ELSE s.q.last]]

RemoveForward(s, p) ==    \* faulty variant: only the forward links are repaired
  [pages |-> [SetNext(s.pages, s.pages[p].prev, s.pages[p].next) EXCEPT ![p].next = 0, ![p].prev = 0],
   q |-> [first |-> IF p = s.q.first THEN s.pages[p].next ELSE s.q.first,
          last |-> IF p = s.q.last THEN s.pages[p].prev ELSE s.q.last]]

RemovePage(s, p) ==
  LET prev == s.pages[p].prev
      next == s.pages[p].next
  IN [pages |-> [SetPrev(SetNext(s.pages, prev, next), next, prev)
                   EXCEPT ![p].next = 0, ![p].prev = 0],
      q |-> [first |-> IF p = s.q.first THEN next ELSE s.q.first,
             last |-> IF p = s.q.last THEN prev ELSE s.q.last]]

(* cxl_segment_alloc pushes the pages of a segment from the last to the     *)
(* first; cxl_segment_free removes them from the first to the last.         *)
PushAll(s, k) ==
  LET f[n \in 0 .. PagesPerSegment] ==
        IF n = 0 THEN s ELSE PushPage(f[n - 1], k * PagesPerSegment - n + 1)
  IN f[PagesPerSegment]

RemoveAll(s, k) ==
  LET f[n \in 0 .. PagesPerSegment] ==
        IF n = 0 THEN s ELSE RemovePage(f[n - 1], (k - 1) * PagesPerSegment + n)
  IN f[PagesPerSegment]

-----------------------------------------------------------------------------
(* The client fails.  Of its local variables only the block that it was     *)
(* about to push is kept, for the properties.                               *)
Fail(c) ==
  /\ status' = [status EXCEPT ![c] = "dead"]
  /\ Goto(c, "idle")
  /\ op' = [op EXCEPT ![c] = [NoOp EXCEPT !.block = op[c].block]]
  /\ UNCHANGED <<shared, heap, word, held, mon, mallocs>>

(* thread_init. *)
ThreadInit(c) ==
  /\ status[c] = "vacant"
  /\ Quiescent => mon = Idle
  /\ status' = [status EXCEPT ![c] = "run"]
  /\ queue' = [queue EXCEPT ![c] = NoQueues]
  /\ UNCHANGED <<shared, segment, page, word, held, pc, op, mon, mallocs>>

(* The block on top of page->free is handed out.  The stamp of an object    *)
(* makes its header live; a RootRef leaves the bytes the monitor reads.     *)
TakeFrom(c, pages, p) ==
  LET w == Head(pages[p].free)
      bin == pages[p].bin
  IN /\ page' = [pages EXCEPT ![p].free = Tail(@), ![p].used = @ + 1]
     /\ held' = [held EXCEPT ![c] = @ \cup {<<p, w, Size[bin]>>}]
     /\ Goto(c, "idle")
     /\ op' = [op EXCEPT ![c] = NoOp]

Stamped(words, p, w, bin) == IF bin = RootBin THEN words ELSE [words EXCEPT ![<<p, w>>] = "live"]

(* cxl_find_page only looks at the first page of the queue. *)
FirstPage(c, bin) == queue[c][bin].first
HasFree(p) == p # 0 /\ page[p].free # <<>>

Called(c) ==
  /\ At(c, "idle") /\ mallocs[c] < MaxMalloc[c]
  /\ mallocs' = [mallocs EXCEPT ![c] = @ + 1]

MallocFast(c, bin) ==
  LET p == FirstPage(c, bin)
  IN /\ Called(c) /\ HasFree(p)
     /\ TakeFrom(c, page, p)
     /\ word' = Stamped(word, p, Head(page[p].free), bin)
     /\ UNCHANGED <<shared, segment, queue, status, mon>>

MallocSlow(c, bin) ==
  /\ Called(c) /\ ~HasFree(FirstPage(c, bin))
  /\ op' = [op EXCEPT ![c] = [NoOp EXCEPT !.bin = bin, !.page = FirstPage(c, bin), !.seg = 1]]
  /\ Goto(c, "collect")
  /\ UNCHANGED <<shared, heap, word, held, status, mon>>

(* A block goes to the local list of a page: the one it lies on.            *)
FreeOn(pages, b) == [pages EXCEPT ![b[1]].local = <<b[2]>> \o @, ![b[1]].used = @ - 1]

(* cxl_thread_free_collect: the blocks of the list go to the local lists    *)
(* of the pages they lie on, which may be pages of other bins.              *)
DrainedToFirst(pages, list) ==    \* faulty variant: all blocks to the page of the first one
  LET f[n \in 0 .. Len(list)] ==
        IF n = 0 THEN pages ELSE FreeOn(f[n - 1], <<list[1][1], list[n][2]>>)
  IN f[Len(list)]
DrainedUncounted(pages, list) ==  \* faulty variant: used is left alone
  LET f[n \in 0 .. Len(list)] ==
        IF n = 0 THEN pages ELSE [f[n - 1] EXCEPT ![list[n][1]].local = <<list[n][2]>> \o @]
  IN f[Len(list)]

Drained(pages, list) ==
  LET f[n \in 0 .. Len(list)] == IF n = 0 THEN pages ELSE FreeOn(f[n - 1], list[n])
  IN f[Len(list)]

(* cxl_page_free_collect moves the local list of the page it looks at. *)
RefilledKeepsLocal(pages, p) ==   \* faulty variant
  IF pages[p].free = <<>> THEN [pages EXCEPT ![p].free = pages[p].local] ELSE pages

Refilled(pages, p) ==
  IF pages[p].free = <<>>
  THEN [pages EXCEPT ![p].free = pages[p].local, ![p].local = <<>>]
  ELSE pages

(* cxl_page_queue_find_free_ex, one page of the queue. *)
CollectPage(c) ==
  LET p == op[c].page
      k == SegmentOf(p)
      pages == Refilled(Drained(page, info[k].list), p)
  IN /\ At(c, "collect") /\ p # 0
     /\ info' = [info EXCEPT ![k].list = <<>>]
     /\ IF pages[p].free = <<>>
        THEN /\ page' = pages
             /\ op' = [op EXCEPT ![c].page = page[p].next]
             /\ UNCHANGED <<word, held, pc>>
        ELSE /\ TakeFrom(c, pages, p)
             /\ word' = Stamped(word, p, Head(pages[p].free), op[c].bin)
     /\ UNCHANGED <<owner, segment, queue, status, mon, mallocs>>

-----------------------------------------------------------------------------
(* cxl_page_fresh: a page from free_page, or from a new segment.            *)
(* cxl_page_init writes the header of the page first.                       *)
NoneFound(c) == At(c, "collect") /\ op[c].page = 0
FreePages(c) == queue[c][NONE]

TakePage(c) ==
  LET p == FreePages(c).first
      s == RemovePage([pages |-> page, q |-> FreePages(c)], p)
  IN /\ NoneFound(c) /\ p # 0
     /\ segment' = [segment EXCEPT ![SegmentOf(p)].used = @ + 1]
     /\ page' = [s.pages EXCEPT ![p] = [ZeroPage EXCEPT !.free = page[p].free, !.bin = op[c].bin]]
     /\ queue' = [queue EXCEPT ![c][NONE] = s.q]
     /\ op' = [op EXCEPT ![c].page = p]
     /\ Goto(c, "carve")
     /\ UNCHANGED <<shared, word, held, status, mon, mallocs>>

(* cxl_segment_alloc: a CAS on one segment after the other. *)
ClaimSegment(c) ==
  LET k == op[c].seg
  IN /\ NoneFound(c) /\ FreePages(c).first = 0
     /\ k \in Segment
     /\ IF owner[k] = 0
        THEN owner' = [owner EXCEPT ![k] = c] /\ Goto(c, "segment") /\ UNCHANGED op
        ELSE op' = [op EXCEPT ![c].seg = k + 1] /\ UNCHANGED <<owner, pc>>
     /\ UNCHANGED <<info, heap, word, held, status, mon, mallocs>>

(* No segment is left: cxl_segment_page_alloc returns NULL and              *)
(* cxl_page_init writes through it, which ends the process.                 *)
OutOfMemory(c) ==
  /\ NoneFound(c) /\ FreePages(c).first = 0 /\ op[c].seg \notin Segment
  /\ Fail(c)

InitSegment(c) ==
  LET k == op[c].seg
      s == PushAll([pages |-> page, q |-> FreePages(c)], k)
  IN /\ At(c, "segment")
     /\ info' = [info EXCEPT ![k] = [state |-> "NORMAL", list |-> <<>>]]
     /\ segment' = [segment EXCEPT ![k] = [tid |-> c, used |-> 0]]
     /\ page' = s.pages
     /\ queue' = [queue EXCEPT ![c][NONE] = s.q]
     /\ Goto(c, "collect")
     /\ UNCHANGED <<owner, word, held, status, op, mon, mallocs>>

(* The carving loop clears the header of every block but the last; of a     *)
(* RootRef it clears the first eight bytes, which the monitor never reads   *)
(* as a count.                                                              *)
Cleared(bin) == IF bin = RootBin THEN {} ELSE {BlocksOf(bin)[i] : i \in 1 .. Len(BlocksOf(bin)) - 1}

Carve(c) ==
  LET p == op[c].page
      bin == op[c].bin
      carved == [page EXCEPT ![p].free = BlocksOf(bin) \o @]
      s == PushPage([pages |-> carved, q |-> queue[c][bin]], p)
      clear == [w \in Word |-> IF w[1] = p /\ w[2] \in Cleared(bin) THEN "clear" ELSE word[w]]
  IN /\ At(c, "carve")
     /\ queue' = [queue EXCEPT ![c][bin] = s.q]
     /\ TakeFrom(c, s.pages, p)
     /\ word' = Stamped(clear, p, 0, bin)
     /\ UNCHANGED <<shared, segment, status, mon, mallocs>>

-----------------------------------------------------------------------------
(* What the holder of a block does with it: it passes an object on (the     *)
(* last reference is now another client's), or writes data that reaches     *)
(* words where a block of another size would have its header.               *)
PassOn(c, d, e) ==
  /\ At(c, "idle") /\ status[d] = "run" /\ c # d
  /\ e \in held[c] /\ page[e[1]].bin # RootBin
  /\ held' = [held EXCEPT ![c] = @ \ {e}, ![d] = @ \cup {e}]
  /\ UNCHANGED <<shared, heap, word, status, pc, op, mon, mallocs>>

WriteData(c, e) ==
  /\ At(c, "idle") /\ e \in held[c] /\ e[3] > 1
  /\ word' = [w \in Word |-> IF w[1] = e[1] /\ w[2] \in e[2] + 1 .. e[2] + e[3] - 1
                             THEN "junk" ELSE word[w]]
  /\ UNCHANGED <<shared, heap, held, status, pc, op, mon, mallocs>>

-----------------------------------------------------------------------------
(* memset of the header. *)
ClearedNot(words, p, w) == words    \* faulty variant: only b->next is written
ClearHeader(words, p, w) == [words EXCEPT ![<<p, w>>] = "clear"]

(* The test for the last used block of a page. *)
LastUsedTooSoon(pages, p) == pages[p].used <= 1    \* faulty variant
LastUsed(pages, p) == pages[p].used = 0

(* cxl_page_free and cxl_segment_free, after the last used block of p. *)
FreePage(c, pages, p) ==
  LET k == SegmentOf(p)
      bin == pages[p].bin
      s == RemovePage([pages |-> pages, q |-> queue[c][bin]], p)
      t == PushPage([pages |-> [s.pages EXCEPT ![p] = ZeroPage], q |-> queue[c][NONE]], p)
      u == RemoveAll(t, k)
  IN IF segment[k].used > 1
     THEN /\ page' = t.pages
          /\ queue' = [queue EXCEPT ![c][bin] = s.q, ![c][NONE] = t.q]
          /\ segment' = [segment EXCEPT ![k].used = @ - 1]
          /\ UNCHANGED <<pc, op>>
     ELSE /\ page' = [q \in Page |-> IF q \in PagesOf(k) THEN ZeroPage ELSE u.pages[q]]
          /\ queue' = [queue EXCEPT ![c][bin] = s.q, ![c][NONE] = u.q]
          /\ segment' = [segment EXCEPT ![k] = ZeroSegment]
          /\ op' = [op EXCEPT ![c] = [NoOp EXCEPT !.seg = k]]
          /\ Goto(c, "release")

(* cxl_free of a block of the client's own segment. *)
FreeLocal(c, e) ==
  LET p == e[1]
      freed == FreeOn(page, <<p, e[2]>>)
  IN /\ At(c, "idle") /\ e \in held[c]
     /\ segment[SegmentOf(p)].tid = c
     /\ word' = ClearHeader(word, p, e[2])
     /\ held' = [held EXCEPT ![c] = @ \ {e}]
     /\ IF LastUsed(freed, p) THEN FreePage(c, freed, p)
        ELSE page' = freed /\ UNCHANGED <<segment, queue, pc, op>>
     /\ UNCHANGED <<shared, status, mon, mallocs>>

ReleaseSegment(c) ==
  /\ At(c, "release") /\ owner[op[c].seg] = c
  /\ owner' = [owner EXCEPT ![op[c].seg] = 0]
  /\ Goto(c, "idle")
  /\ op' = [op EXCEPT ![c] = NoOp]
  /\ UNCHANGED <<info, heap, word, held, status, mon, mallocs>>

(* cxl_free of a block of another client's segment: load info, then CAS.    *)
(* info holds the offset of the first block of the list, not the list.      *)
Seen(k) == [state |-> info[k].state, head |-> First(info[k].list)]

FreeRemote(c, e) ==
  LET k == SegmentOf(e[1])
  IN /\ At(c, "idle") /\ e \in held[c]
     /\ segment[k].tid # c
     /\ word' = ClearHeader(word, e[1], e[2])
     /\ held' = [held EXCEPT ![c] = @ \ {e}]
     /\ op' = [op EXCEPT ![c] = [NoOp EXCEPT !.seg = k, !.block = <<e[1], e[2]>>, !.seen = Seen(k)]]
     /\ Goto(c, "push")
     /\ UNCHANGED <<shared, heap, status, mon, mallocs>>

(* After a failed CAS info is loaded again. *)
ReloadStale(c, k) == op[c].seen    \* faulty variant
Reload(c, k) == Seen(k)

PushRemote(c) ==
  LET k == op[c].seg
  IN /\ At(c, "push")
     /\ IF op[c].seen = Seen(k)
        THEN /\ info' = [info EXCEPT ![k].list = <<op[c].block>> \o @]
             /\ Goto(c, "idle")
             /\ op' = [op EXCEPT ![c] = NoOp]
        ELSE op' = [op EXCEPT ![c].seen = Reload(c, k)] /\ UNCHANGED <<info, pc>>
     /\ UNCHANGED <<owner, heap, word, held, status, mon, mallocs>>

(* A client fails between any two steps. *)
Crash(c) == status[c] = "run" /\ Fail(c)

-----------------------------------------------------------------------------
(* single_recovery_loop.  Slots in order: a failed client's blocks are      *)
(* released (recovery_cxl_free), its RootRef pages wiped, its object pages  *)
(* wiped if they look empty, its segments freed unless abandoned.           *)
Failed(c) == status[c] = "dead"
Recovering(label) == mon.at = label
MonGoto(label) == mon' = [mon EXCEPT !.at = label]

StartRecovery ==
  /\ Recovering("idle")
  /\ Quiescent => \A c \in Client : status[c] # "run"
  /\ \E c \in Client : Failed(c)
  /\ mon' = [Idle EXCEPT !.at = "slot", !.slot = 1]
  /\ UNCHANGED <<shared, heap, word, held, status, pc, op, mallocs>>

CheckSlot ==
  /\ Recovering("slot")
  /\ mon' = IF mon.slot \notin Client THEN [Idle EXCEPT !.at = "scan", !.seg = 1]
            ELSE IF Failed(mon.slot) THEN [mon EXCEPT !.at = "release"]
            ELSE [mon EXCEPT !.slot = @ + 1]
  /\ UNCHANGED <<shared, heap, word, held, status, pc, op, mallocs>>

(* A block of another client's segment goes to its thread_free list; one of *)
(* the failed client's own stays where it is, its page is looked at next.   *)
ReleaseHeld(e) ==
  LET k == SegmentOf(e[1])
  IN /\ Recovering("release") /\ e \in held[mon.slot]
     /\ word' = ClearHeader(word, e[1], e[2])
     /\ held' = [held EXCEPT ![mon.slot] = @ \ {e}]
     /\ info' = IF segment[k].tid # mon.slot
                THEN [info EXCEPT ![k].list = <<<<e[1], e[2]>>>> \o @] ELSE info
     /\ UNCHANGED <<owner, heap, status, pc, op, mon, mallocs>>

(* The pages of a queue, as the monitor finds them through next. *)
PagesFrom(first) ==
  LET f[n \in 0 .. Cardinality(Page)] ==
        IF n = 0 THEN {first} \ {0}
        ELSE f[n - 1] \cup ({page[p].next : p \in f[n - 1]} \ {0})
  IN f[Cardinality(Page)]
QueuePages(c, b) == PagesFrom(queue[c][b].first)

WipeRootPages ==
  LET c == mon.slot
  IN /\ Recovering("release") /\ held[c] = {}
     /\ page' = [p \in Page |-> IF p \in QueuePages(c, RootBin) THEN ZeroPage ELSE page[p]]
     /\ mon' = [mon EXCEPT !.at = "pages", !.todo = UNION {QueuePages(c, b) : b \in Bin \ {RootBin}}]
     /\ UNCHANGED <<shared, segment, queue, word, held, status, pc, op, mallocs>>

(* Whether a block header of the page shows a reference count. *)
LooksLive(p, words) ==
  /\ page[p].bin # NONE
  /\ \E i \in 1 .. Len(BlocksOf(page[p].bin)) : words[<<p, BlocksOf(page[p].bin)[i]>>] # "clear"

(* The first block of the free list is taken for one that a failed          *)
(* allocation left behind.                                                  *)
WipePage(p) ==
  LET k == SegmentOf(p)
  IN /\ Recovering("pages") /\ p \in mon.todo
     /\ word' = [w \in Word |-> IF w[1] = p /\ w[2] \in First(page[p].free) THEN "clear" ELSE word[w]]
     /\ IF LooksLive(p, word')
        THEN info' = [info EXCEPT ![k].state = "ABANDON"] /\ UNCHANGED page
        ELSE page' = [page EXCEPT ![p] = ZeroPage] /\ UNCHANGED info
     /\ mon' = [mon EXCEPT !.todo = @ \ {p}]
     /\ UNCHANGED <<owner, segment, queue, held, status, pc, op, mallocs>>

(* memset of a whole segment, headers of its pages included. *)
WipedPages(k) == [p \in Page |-> IF SegmentOf(p) = k THEN ZeroPage ELSE page[p]]

NotAbandoned(c) == {k \in Segment : owner[k] = c /\ info[k].state # "ABANDON"}

FreeSegment(k) ==
  /\ Recovering("pages") /\ mon.todo = {}
  /\ k \in NotAbandoned(mon.slot)
  /\ page' = WipedPages(k)
  /\ segment' = [segment EXCEPT ![k] = ZeroSegment]
  /\ owner' = [owner EXCEPT ![k] = 0]
  /\ UNCHANGED <<info, queue, word, held, status, pc, op, mon, mallocs>>

ReturnSlot ==
  /\ Recovering("pages") /\ mon.todo = {} /\ NotAbandoned(mon.slot) = {}
  /\ queue' = [queue EXCEPT ![mon.slot] = NoQueues]
  /\ status' = [status EXCEPT ![mon.slot] = "vacant"]
  /\ op' = [op EXCEPT ![mon.slot] = NoOp]
  /\ mon' = [Idle EXCEPT !.at = "slot", !.slot = mon.slot + 1]
  /\ UNCHANGED <<shared, segment, page, word, held, pc, mallocs>>

(* The segment pass: every claimed segment, whoever claimed it, is looked   *)
(* through for a page with a live block; pages before it are wiped.         *)
ScanSegment ==
  LET k == mon.seg
      pages == {p \in PagesOf(k) : LooksLive(p, word)}
      wiped == {p \in PagesOf(k) : page[p].bin # NONE /\ \A q \in pages : p < q}
  IN /\ Recovering("scan")
     /\ IF k \notin Segment THEN mon' = Idle /\ UNCHANGED page
        ELSE /\ mon' = IF owner[k] = 0 \/ pages # {} THEN [mon EXCEPT !.seg = @ + 1]
                       ELSE [mon EXCEPT !.at = "wipe"]
             /\ page' = [p \in Page |-> IF owner[k] # 0 /\ p \in wiped THEN ZeroPage ELSE page[p]]
     /\ UNCHANGED <<shared, segment, queue, word, held, status, pc, op, mallocs>>

WipeSegment ==
  LET k == mon.seg
  IN /\ Recovering("wipe")
     /\ page' = WipedPages(k)
     /\ segment' = [segment EXCEPT ![k] = ZeroSegment]
     /\ info' = [info EXCEPT ![k] = [state |-> "NORMAL", list |-> <<>>]]
     /\ owner' = [owner EXCEPT ![k] = 0]
     /\ mon' = [mon EXCEPT !.at = "scan", !.seg = k + 1]
     /\ UNCHANGED <<queue, word, held, status, pc, op, mallocs>>

ClientStep(c) ==
  \/ \E bin \in Bin : MallocFast(c, bin) \/ MallocSlow(c, bin)
  \/ CollectPage(c) \/ TakePage(c) \/ ClaimSegment(c) \/ InitSegment(c) \/ Carve(c)
  \/ \E e \in held[c] : FreeLocal(c, e) \/ FreeRemote(c, e) \/ WriteData(c, e)
  \/ \E d \in Client, e \in held[c] : PassOn(c, d, e)
  \/ ReleaseSegment(c) \/ PushRemote(c) \/ OutOfMemory(c)

MonitorStep ==
  \/ CheckSlot \/ WipeRootPages \/ ReturnSlot \/ ScanSegment \/ WipeSegment
  \/ mon.slot \in Client /\ \E e \in held[mon.slot] : ReleaseHeld(e)
  \/ \E p \in mon.todo : WipePage(p)
  \/ \E k \in Segment : FreeSegment(k)

Next ==
  \/ \E c \in Client : ThreadInit(c) \/ ClientStep(c) \/ Crash(c)
  \/ StartRecovery
  \/ MonitorStep

Spec == Init /\ [][Next]_vars

(* A client that pushes a block goes on with it, unless it fails. *)
FairSpec == Spec /\ \A c \in Client : WF_vars(PushRemote(c))

-----------------------------------------------------------------------------
(* Properties. *)

Live(c) == status[c] # "vacant" /\ mon = Idle
Bins(c) == {b \in Bin : queue[c][b].first # 0}
HeldOn(p) == {e[2] : e \in {f \in UNION {held[c] : c \in Client} : f[1] = p}}
InHandOn(p) == {op[c].block[2] : c \in {d \in Client : op[d].block # <<>> /\ op[d].block[1] = p}}
PendingOn(p) == {b[2] : b \in {x \in Range(info[SegmentOf(p)].list) : x[1] = p}}
Local(p) == page[p].free \o page[p].local

(* Every block of a page in use is in one place: on one of the three lists, *)
(* with a holder, or on its way to the thread_free list.  Two clients push  *)
(* and the owner takes the list meanwhile, and no block is lost or put on   *)
(* two lists (alloc.cpp:112-128, page.cpp:62-91).                           *)
EveryBlockOnce ==
  \A c \in Client : Live(c) => \A b \in Bins(c) : \A p \in QueuePages(c, b) :
    /\ IsInjective(info[SegmentOf(p)].list)
    /\ Len(Local(p)) + Cardinality(PendingOn(p)) + Cardinality(HeldOn(p))
         + Cardinality(InHandOn(p)) = Len(BlocksOf(b))
    /\ Range(Local(p)) \cup PendingOn(p) \cup HeldOn(p) \cup InHandOn(p) = Range(BlocksOf(b))

(* page->used counts the blocks that are not on free or local_free, those   *)
(* that other clients have freed included: a page whose blocks are pending  *)
(* on thread_free is not given back (alloc.cpp:98-104, page.cpp:86).        *)
UsedExact ==
  \A c \in Client : Live(c) => \A b \in Bins(c) : \A p \in QueuePages(c, b) :
    page[p].used = Len(BlocksOf(b)) - Len(page[p].free) - Len(page[p].local)

(* The pages of a client's segments are all on its queues, each on the one  *)
(* of its block size or on free_page, linked in both directions, and        *)
(* segment->used counts those taken.  A segment is given back with its last *)
(* used page and no page of it stays on a queue (segment.cpp:98-118).       *)
Settled(c) == status[c] = "run" /\ pc[c] \in {"idle", "collect", "push"}
AllQueued(c) == UNION {QueuePages(c, b) : b \in Bin \cup {NONE}}
QueuesExact ==
  \A c \in Client : Settled(c) =>
    /\ \A b \in Bin \cup {NONE} : \A p \in QueuePages(c, b) :
         /\ page[p].bin = b
         /\ p = queue[c][b].first \/ page[page[p].prev].next = p
         /\ p = queue[c][b].last \/ page[page[p].next].prev = p
    /\ \A k \in {SegmentOf(p) : p \in AllQueued(c)} :
         /\ PagesOf(k) \subseteq AllQueued(c)
         /\ owner[k] = c /\ segment[k].tid = c
         /\ segment[k].used = Cardinality({p \in PagesOf(k) : page[p].bin # NONE})
         /\ segment[k].used > 0 \/ pc[c] = "collect"

(* What a running client holds, or is about to push to another client's     *)
(* segment, lies on a page that is in use with that block size: neither the *)
(* page's owner nor the monitor has given it back.  Its owner will find the *)
(* pushed block on thread_free and take it for one of that page             *)
(* (page.cpp:76-90).                                                        *)
HeldPagesStay ==
  \A c \in Client : status[c] = "run" =>
    /\ \A e \in held[c] : page[e[1]].bin \in Bin /\ Size[page[e[1]].bin] = e[3]
    /\ op[c].block # <<>> =>
         LET p == op[c].block[1]
         IN page[p].bin \in Bin /\ op[c].block[2] \in Range(BlocksOf(page[p].bin))

(* recovery_check (recovery.cpp:663-688): when every client has failed and  *)
(* the monitor is done, no segment is claimed.                              *)
Recovered == mon = Idle /\ (\A c \in Client : status[c] = "vacant") /\ (\E c \in Client : mallocs[c] > 0)
CheckRecovery == Recovered => \A k \in Segment : owner[k] = 0

(* The same, but for a segment that keeps a page because of what earlier    *)
(* use of the memory left where a block has its header: the carving loop    *)
(* stops before the last block, a failure stops it anywhere.  No block that *)
(* anybody held is left.                                                    *)
OnlyStaleHeadersStay ==
  Recovered => /\ \A w \in Word : word[w] # "live"
               /\ \A k \in Segment : owner[k] # 0 => \E p \in PagesOf(k) : LooksLive(p, word)

(* Memory handed out never overlaps memory in use. *)
Pool == INSTANCE BlockPool
ImplementsBlockPool == Pool!Spec

(* A remote free ends although others push to and take from the same list. *)
PushEnds == \A c \in Client : pc[c] = "push" ~> pc[c] # "push"
=============================================================================
