----------------------------- MODULE PageHeapInv -----------------------------
(***************************************************************************)
(* The inductive strengthening of the invariants of PageHeap, in named     *)
(* parts, for a monitor that only runs when no client does (Quiescent).    *)
(* What is said of pages, queues and blocks holds while the monitor is     *)
(* idle (Calm); a recovery leaves nothing in use and so begins afresh.     *)
(***************************************************************************)
EXTENDS PageHeap

Offset == 0 .. PageWords - 1
PageType ==
  [free : Seq(Offset), local : Seq(Offset), bin : Bin \cup {NONE}, used : Int,
   next : Page \cup {0}, prev : Page \cup {0}]
QueueType == [first : Page \cup {0}, last : Page \cup {0}]
SeenType == [state : {"NORMAL", "ABANDON"}, head : SUBSET Word]
OpType ==
  [bin : Bin \cup {NONE}, page : Page \cup {0}, seg : 0 .. NSegment + 1,
   block : Word \cup {<<>>}, seen : SeenType]
MonType ==
  [at : {"idle", "slot", "release", "pages", "scan", "wipe"}, slot : 0 .. NClient + 1,
   seg : 0 .. NSegment + 1, todo : SUBSET Page]

TypeOK ==
  /\ owner \in [Segment -> 0 .. NClient]
  /\ info \in [Segment -> [state : {"NORMAL", "ABANDON"}, list : Seq(Word)]]
  /\ segment \in [Segment -> [tid : 0 .. NClient, used : Int]]
  /\ page \in [Page -> PageType]
  /\ queue \in [Client -> [Bin \cup {NONE} -> QueueType]]
  /\ word \in [Word -> {"clear", "live", "junk"}]
  /\ held \in [Client -> SUBSET Extent]
  /\ status \in [Client -> {"vacant", "run", "dead"}]
  /\ pc \in [Client -> {"idle", "collect", "carve", "segment", "release", "push"}]
  /\ op \in [Client -> OpType]
  /\ mon \in MonType
  /\ mallocs \in [Client -> Nat]

-----------------------------------------------------------------------------
(* Slots and the monitor. *)
Calm == mon = Idle
StageInv ==
  /\ mon.at = "idle" => Calm
  /\ ~Calm => \A c \in Client : status[c] # "run"
  /\ mon.at \in {"slot", "release", "pages"} =>
       mon.slot # 0 /\ \A c \in Client : c < mon.slot => status[c] = "vacant"
  /\ mon.at \in {"release", "pages"} => mon.slot \in Client /\ status[mon.slot] = "dead"
  /\ mon.at = "pages" => held[mon.slot] = {}
  /\ mon.at \in {"scan", "wipe"} => mon.seg # 0 /\ \A c \in Client : status[c] = "vacant"
  /\ mon.at = "wipe" => mon.seg \in Segment

ClientInv(c) ==
  /\ status[c] # "run" => pc[c] = "idle"
  /\ status[c] = "vacant" =>
       /\ held[c] = {} /\ op[c].block = <<>>
       /\ \A k \in Segment : owner[k] = c => info[k].state = "ABANDON"
  /\ status[c] = "run" => (op[c].block = <<>> <=> pc[c] # "push")
  /\ pc[c] \in {"collect", "carve", "segment"} => op[c].bin \in Bin
  /\ pc[c] = "collect" => op[c].seg # 0
  /\ pc[c] \in {"segment", "release"} =>
       op[c].seg \in Segment /\ owner[op[c].seg] = c /\ segment[op[c].seg].tid = 0
  /\ pc[c] = "segment" => op[c].page = 0 /\ queue[c][NONE].first = 0
  /\ pc[c] = "push" => op[c].seg = SegmentOf(op[c].block[1])

(* A segment that nobody has initialised, or that has been given back, is  *)
(* empty.                                                                  *)
SegmentInv ==
  \A k \in Segment :
    IF segment[k].tid = 0
    THEN info[k].state = "NORMAL" /\ \A p \in PagesOf(k) : page[p] = ZeroPage
    ELSE owner[k] = segment[k].tid

-----------------------------------------------------------------------------
(* Pages.                                                                  *)
Active(k) == segment[k].tid # 0 /\ info[k].state = "NORMAL"
Owns(c, k) == segment[k].tid = c /\ info[k].state = "NORMAL"

Blank(p) == page[p].free = <<>> /\ page[p].local = <<>> /\ page[p].used = 0
Carved(p) ==
  /\ page[p].bin \in Bin
  /\ page[p].used + Len(page[p].free) + Len(page[p].local) = Len(BlocksOf(page[p].bin))

(* A page is free, or carved; or its owner has taken it and not carved it. *)
PagesInv ==
  \A p \in Page : Active(SegmentOf(p)) =>
    \/ Blank(p) /\ page[p].bin = NONE
    \/ Carved(p)
    \/ /\ Blank(p) /\ page[p].bin # NONE
       /\ \A c \in Client : status[c] = "run" /\ Owns(c, SegmentOf(p)) =>
            pc[c] = "carve" /\ op[c].page = p

(* The pages of C are linked both ways, from the first of the queue q to   *)
(* its last.                                                               *)
BothWays(pages, q, C) ==
  \A p \in C :
    /\ pages[p].next \in C \cup {0} /\ pages[p].prev \in C \cup {0}
    /\ pages[p].next # 0 => pages[pages[p].next].prev = p
    /\ pages[p].prev # 0 => pages[pages[p].prev].next = p
    /\ pages[p].prev = 0 => p = q.first
    /\ pages[p].next = 0 => p = q.last
Ends(pages, q, C) ==
  /\ q.first \in C \cup {0} /\ q.last \in C \cup {0}
  /\ q.first # 0 => pages[q.first].prev = 0
  /\ q.last # 0 => pages[q.last].next = 0

(* Whoever follows next from the first page comes to all of C.             *)
Closed(pages, q, S) == q.first \in S \cup {0} /\ \A p \in S : pages[p].next \in S \cup {0}
Reaches(pages, q, C) == \A S \in SUBSET C : Closed(pages, q, S) => S = C

Linked(pages, q, C) == Ends(pages, q, C) /\ BothWays(pages, q, C) /\ Reaches(pages, q, C)

Class(c, b) ==
  {p \in Page : Owns(c, SegmentOf(p)) /\ page[p].bin = b /\ (b = NONE \/ Carved(p))}
LinkInv ==
  \A c \in Client : status[c] # "vacant" =>
    \A b \in Bin \cup {NONE} : Linked(page, queue[c][b], Class(c, b))

(* The pages a client works on. *)
WorkInv ==
  \A c \in Client :
    /\ pc[c] = "collect" => op[c].page \in Class(c, op[c].bin) \cup {0}
    /\ pc[c] = "carve" =>
         /\ op[c].page \in Page /\ Owns(c, SegmentOf(op[c].page))
         /\ Blank(op[c].page) /\ page[op[c].page].bin = op[c].bin

(* segment->used; only a segment just claimed has no page in use.          *)
InUse(k) == {p \in PagesOf(k) : page[p].bin # NONE}
CountInv ==
  \A k \in Segment : Active(k) =>
    /\ segment[k].used = Cardinality(InUse(k))
    /\ \A c \in Client : status[c] = "run" /\ Owns(c, k) /\ InUse(k) = {} =>
         pc[c] = "collect" /\ op[c].page = 0 /\ Class(c, NONE) \subseteq PagesOf(k)

-----------------------------------------------------------------------------
(* Blocks.                                                                 *)
Starts(b) == Range(BlocksOf(b))
Holds(c, p, w) == \E e \in held[c] : e[1] = p /\ e[2] = w

ListInv ==
  /\ \A p \in Page : Active(SegmentOf(p)) => IsInjective(page[p].free) /\ IsInjective(page[p].local)
  /\ \A k \in Segment : Active(k) =>
       IsInjective(info[k].list) /\ \A x \in Range(info[k].list) : SegmentOf(x[1]) = k

SizeInv == \A c \in Client : \A e \in held[c] : e[3] = Size[page[e[1]].bin]

(* The blocks of the pages in use, and those of them that are on the three *)
(* lists, with a holder, or with a client that is about to push them.      *)
Blocks == {x \in Word : /\ Active(SegmentOf(x[1])) /\ Carved(x[1])
                        /\ x[2] \in Starts(page[x[1]].bin)}
Free == {x \in Word : Active(SegmentOf(x[1])) /\ x[2] \in Range(page[x[1]].free)}
LocallyFree == {x \in Word : Active(SegmentOf(x[1])) /\ x[2] \in Range(page[x[1]].local)}
Pending == {x \in Word : Active(SegmentOf(x[1])) /\ x \in Range(info[SegmentOf(x[1])].list)}
Held == [c \in Client |-> {<<e[1], e[2]>> : e \in held[c]}]
Pushed == [c \in Client |-> {op[c].block} \ {<<>>}]

(* Every block of B is in exactly one of these places.                     *)
Partition(F, L, P, H, D, B) ==
  /\ F \cap L = {} /\ F \cap P = {} /\ L \cap P = {}
  /\ \A c \in Client :
       /\ H[c] \cap (F \cup L \cup P) = {} /\ D[c] \cap (F \cup L \cup P) = {}
       /\ \A d \in Client : /\ H[c] \cap D[d] = {}
                            /\ c # d => H[c] \cap H[d] = {} /\ D[c] \cap D[d] = {}
  /\ F \cup L \cup P \cup UNION {H[c] \cup D[c] : c \in Client} = B

BlockInv == Partition(Free, LocallyFree, Pending, Held, Pushed, Blocks)

-----------------------------------------------------------------------------
(* A header that shows a live object is that of a block somebody holds.    *)
HeaderInv ==
  \A x \in Word : word[x] = "live" => \E c \in Client : Holds(c, x[1], x[2])

(* The segments that the monitor has looked through.                       *)
Shows(k) == owner[k] # 0 => \E p \in PagesOf(k) : LooksLive(p, word)
ScanInv ==
  /\ mon.at \in {"scan", "wipe"} => \A k \in Segment : k < mon.seg => Shows(k)
  /\ Calm /\ (\A c \in Client : status[c] = "vacant") => \A k \in Segment : Shows(k)

CalmInv ==
  PagesInv /\ LinkInv /\ WorkInv /\ CountInv /\ ListInv /\ SizeInv /\ BlockInv
HeapInv ==
  /\ TypeOK /\ StageInv /\ (\A c \in Client : ClientInv(c)) /\ SegmentInv
  /\ HeaderInv /\ ScanInv /\ (Calm => CalmInv)
=============================================================================
