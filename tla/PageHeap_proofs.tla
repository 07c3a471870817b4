-------------------------- MODULE PageHeap_proofs ---------------------------
(***************************************************************************)
(* Proof that HeapInv is an invariant of PageHeap, for any numbers of      *)
(* clients, segments and pages and any block sizes, and of what follows from*)
(* it: every block is in one place, the counters of pages and segments are *)
(* exact, the queues are doubly linked, and the allocator with its failures*)
(* and recoveries implements BlockPool.                                    *)
(*                                                                         *)
(* Quiescent is a premise: the monitor only runs when no client does.  It  *)
(* cannot be dropped, for the steps of the monitor that wipe pages do not  *)
(* ask whether a page, or the segment it lies on, is in use by somebody who*)
(* lives (MCLivePages).                                                    *)
(***************************************************************************)
EXTENDS PageHeapBlocks_proofs

-----------------------------------------------------------------------------
(* Steps in which pages and segments come or go: of client c, on the       *)
(* segments T.                                                             *)
PageOk(p) ==
  \/ Blank(p) /\ page[p].bin = NONE
  \/ Carved(p)
  \/ /\ Blank(p) /\ page[p].bin # NONE
     /\ \A d \in Client : status[d] = "run" /\ Owns(d, SegmentOf(p)) =>
          pc[d] = "carve" /\ op[d].page = p
WorkOk(c) ==
  /\ pc[c] = "collect" => op[c].page \in Class(c, op[c].bin) \cup {0}
  /\ pc[c] = "carve" =>
       /\ op[c].page \in Page /\ Owns(c, SegmentOf(op[c].page))
       /\ Blank(op[c].page) /\ page[op[c].page].bin = op[c].bin
CountOk(k) ==
  /\ segment[k].used = Cardinality(InUse(k))
  /\ \A c \in Client : status[c] = "run" /\ Owns(c, k) /\ InUse(k) = {} =>
       pc[c] = "collect" /\ op[c].page = 0 /\ Class(c, NONE) \subseteq PagesOf(k)

Within(c, T) ==
  /\ T \subseteq Segment /\ \A k \in Segment : Owns(c, k) => k \in T
  /\ \A k \in T : owner[k] = c /\ segment[k].tid \in {0, c} /\ segment'[k].tid \in {0, c}
  /\ \A k \in Segment \ T : segment'[k] = segment[k] /\ info'[k].state = info[k].state
  /\ \A x \in Page : SegmentOf(x) \notin T => page'[x] = page[x]
  /\ \A d \in Client \ {c} : queue'[d] = queue[d]
  /\ OthersKept(c)

LEMMA WithinKeeps ==
  ASSUME NEW c \in Client, NEW T, Within(c, T)
  PROVE  /\ \A k \in Segment \ T : (Active(k)' <=> Active(k)) /\ InUse(k)' = InUse(k)
                                   /\ (\A d \in Client : Owns(d, k)' <=> Owns(d, k))
                                   /\ ~ Owns(c, k)
         /\ \A d \in Client \ {c}, k \in T : ~ Owns(d, k) /\ ~ Owns(d, k)'
         /\ \A x \in Page : SegmentOf(x) \notin T =>
              (Blank(x)' <=> Blank(x)) /\ (Carved(x)' <=> Carved(x)) /\ page'[x] = page[x]
         /\ \A d \in Client \ {c}, b \in Bin \cup {NONE} :
              Class(d, b)' = Class(d, b) /\ \A x \in Class(d, b) : x \in Page /\ SegmentOf(x) \notin T
  <1>1. \A k \in Segment \ T : (Active(k)' <=> Active(k)) /\ InUse(k)' = InUse(k)
                               /\ (\A d \in Client : Owns(d, k)' <=> Owns(d, k))
                               /\ ~ Owns(c, k)
    <2> SUFFICES ASSUME NEW k \in Segment \ T
                 PROVE  (Active(k)' <=> Active(k)) /\ InUse(k)' = InUse(k)
                        /\ (\A d \in Client : Owns(d, k)' <=> Owns(d, k)) /\ ~ Owns(c, k)
      OBVIOUS
    <2>1. segment'[k] = segment[k] /\ info'[k].state = info[k].state /\ ~ Owns(c, k)
      BY DEF Within
    <2>2. \A x \in PagesOf(k) : page'[x] = page[x]
      BY DEF Within, PagesOf
    <2> QED
      BY <2>1, <2>2 DEF Active, Owns, InUse
  <1>2. \A d \in Client \ {c}, k \in T : ~ Owns(d, k) /\ ~ Owns(d, k)'
    BY DEF Within, Owns, Client
  <1>3. \A x \in Page : SegmentOf(x) \notin T =>
          (Blank(x)' <=> Blank(x)) /\ (Carved(x)' <=> Carved(x)) /\ page'[x] = page[x]
    BY DEF Within, Blank, Carved
  <1>4. ASSUME NEW d \in Client \ {c}, NEW b \in Bin \cup {NONE}
        PROVE  Class(d, b)' = Class(d, b) /\ \A x \in Class(d, b) : x \in Page /\ SegmentOf(x) \notin T
    <2>1. ASSUME NEW x \in Page
          PROVE  /\ x \in Class(d, b)' <=> x \in Class(d, b)
                 /\ x \in Class(d, b) => SegmentOf(x) \notin T
      <3>1. CASE SegmentOf(x) \in T
        BY <1>2, <3>1 DEF Class
      <3>2. CASE SegmentOf(x) \notin T
        BY <1>1, <1>3, <3>2, SegmentOfIs DEF Class
      <3> QED
        BY <3>1, <3>2
    <2> QED
      BY <2>1 DEF Class
  <1> QED
    BY <1>1, <1>2, <1>3, <1>4

LEMMA WithinStep ==
  ASSUME HeapInv, CalmInv, Calm, NEW c \in Client, NEW T, Within(c, T), status'[c] # "vacant", status[c] # "vacant",
         UNCHANGED <<owner, mon>>,
         \A d \in Client \ {c} : status[d] = "vacant" => held'[d] = held[d],
         TypeOK', ClientInv(c)', HeaderInv', ListInv', SizeInv', BlockInv', WorkOk(c)',
         \A k \in T : segment'[k].tid = 0 =>
           info'[k].state = "NORMAL" /\ \A p \in PagesOf(k) : page'[p] = ZeroPage,
         \A p \in Page : SegmentOf(p) \in T /\ Active(SegmentOf(p))' => PageOk(p)',
         \A b \in Bin \cup {NONE} : Linked(page', queue'[c][b], Class(c, b)'),
         \A k \in T : Active(k)' => CountOk(k)'
  PROVE  HeapInv'
  <1> USE DEF HeapInv
  <1>1. ASSUME NEW d \in Client PROVE ClientInv(d)'
    <2>1. CASE d # c
      <3>1. \A k \in Segment : owner[k] = d => k \notin T
        BY <2>1 DEF Within
      <3> QED
        BY <2>1, <3>1, ClientKept DEF Within, OthersKept
    <2> QED
      BY <2>1
  <1>2. SegmentInv'
    <2> SUFFICES ASSUME NEW k \in Segment
                 PROVE  IF segment'[k].tid = 0
                        THEN info'[k].state = "NORMAL" /\ \A p \in PagesOf(k) : page'[p] = ZeroPage
                        ELSE owner'[k] = segment'[k].tid
      BY DEF SegmentInv
    <2>1. CASE k \in T
      BY <2>1 DEF Within
    <2>2. CASE k \notin T
      <3>1. \A p \in PagesOf(k) : page'[p] = page[p]
        BY <2>2 DEF Within, PagesOf
      <3>2. segment'[k] = segment[k] /\ info'[k].state = info[k].state
        BY <2>2 DEF Within
      <3> QED
        BY <3>1, <3>2 DEF SegmentInv
    <2> QED
      BY <2>1, <2>2
  <1>3. PagesInv'
    <2> SUFFICES ASSUME NEW p \in Page, Active(SegmentOf(p))', SegmentOf(p) \notin T
                 PROVE  PageOk(p)'
      BY DEF PagesInv, PageOk
    <2>1. Active(SegmentOf(p)) /\ page'[p] = page[p] /\ (Blank(p)' <=> Blank(p)) /\ (Carved(p)' <=> Carved(p))
          /\ \A d \in Client : Owns(d, SegmentOf(p))' => Owns(d, SegmentOf(p)) /\ d # c
      BY WithinKeeps, SegmentOfIs
    <2>2. \/ Blank(p) /\ page[p].bin = NONE
          \/ Carved(p)
          \/ /\ Blank(p) /\ page[p].bin # NONE
             /\ \A d \in Client : status[d] = "run" /\ Owns(d, SegmentOf(p)) =>
                  pc[d] = "carve" /\ op[d].page = p
      BY <2>1 DEF PagesInv, CalmInv
    <2>3. \A d \in Client : Owns(d, SegmentOf(p))' =>
            Owns(d, SegmentOf(p)) /\ status'[d] = status[d] /\ pc'[d] = pc[d] /\ op'[d] = op[d]
      BY <2>1 DEF Within, OthersKept
    <2> QED
      BY <2>1, <2>2, <2>3 DEF PageOk
  <1>4. LinkInv'
    <2> SUFFICES ASSUME NEW d \in Client \ {c}, status'[d] # "vacant", NEW b \in Bin \cup {NONE}
                 PROVE  Linked(page', queue'[d][b], Class(d, b)')
      BY DEF LinkInv
    <2>1. status[d] # "vacant" /\ queue'[d] = queue[d]
      BY DEF Within, OthersKept
    <2>2. Linked(page, queue[d][b], Class(d, b))
      BY <2>1 DEF LinkInv, CalmInv
    <2>3. Class(d, b)' = Class(d, b) /\ 0 \notin Class(d, b)
          /\ \A x \in Class(d, b) : page'[x].next = page[x].next /\ page'[x].prev = page[x].prev
      BY WithinKeeps, ZeroIsNoPage
    <2> QED
      BY <2>1, <2>2, <2>3, LinkedSame
  <1>5. CountInv'
    <2> SUFFICES ASSUME NEW k \in Segment \ T, Active(k)'
                 PROVE  CountOk(k)'
      BY DEF CountInv, CountOk
    <2>1. /\ Active(k) /\ segment[k].used = Cardinality(InUse(k))
          /\ \A d \in Client : status[d] = "run" /\ Owns(d, k) /\ InUse(k) = {} =>
               pc[d] = "collect" /\ op[d].page = 0 /\ Class(d, NONE) \subseteq PagesOf(k)
      BY WithinKeeps DEF CountInv, CalmInv
    <2>2. segment'[k] = segment[k] /\ InUse(k)' = InUse(k)
      BY WithinKeeps DEF Within
    <2>3. \A d \in Client : Owns(d, k)' =>
            /\ Owns(d, k) /\ status'[d] = status[d] /\ pc'[d] = pc[d] /\ op'[d] = op[d]
            /\ Class(d, NONE)' = Class(d, NONE)
      <3>1. \A d \in Client : Owns(d, k)' => Owns(d, k) /\ d # c
        BY WithinKeeps
      <3> QED
        <4>1. \A d \in Client \ {c} : status'[d] = status[d] /\ pc'[d] = pc[d] /\ op'[d] = op[d]
          BY DEF Within, OthersKept
        <4>2. \A d \in Client \ {c} : Class(d, NONE)' = Class(d, NONE)
          BY WithinKeeps
        <4> QED
          BY <3>1, <4>1, <4>2
    <2> QED
      BY <2>1, <2>2, <2>3 DEF CountOk
  <1>6. WorkInv'
    <2> SUFFICES ASSUME NEW d \in Client \ {c}
                 PROVE  WorkOk(d)'
      BY DEF WorkInv, WorkOk
    <2>1. pc'[d] = pc[d] /\ op'[d] = op[d]
      BY DEF Within, OthersKept
    <2>2. pc[d] = "collect" => op[d].page \in Class(d, op[d].bin) \cup {0} /\ op[d].bin \in Bin
      BY DEF WorkInv, CalmInv, ClientInv
    <2>3. pc[d] = "carve" =>
            /\ op[d].page \in Page /\ Owns(d, SegmentOf(op[d].page))
            /\ Blank(op[d].page) /\ page[op[d].page].bin = op[d].bin
      BY DEF WorkInv, CalmInv
    <2>4. \A p \in Page : Owns(d, SegmentOf(p)) =>
            Owns(d, SegmentOf(p))' /\ (Blank(p)' <=> Blank(p)) /\ page'[p] = page[p]
      BY WithinKeeps, SegmentOfIs
    <2>5. \A b \in Bin : Class(d, b)' = Class(d, b)
      BY WithinKeeps
    <2> QED
      BY <2>1, <2>2, <2>3, <2>4, <2>5 DEF WorkOk
  <1> QED
    BY <1>1, <1>2, <1>3, <1>4, <1>5, <1>6, CalmStep DEF CalmInv

Own(c) == {k \in Segment : Owns(c, k)}

LEMMA OwnIs ==
  ASSUME SegmentInv, NEW c \in Client
  PROVE  \A k \in Own(c) : owner[k] = c /\ segment[k].tid = c /\ Active(k)
  BY DEF SegmentInv, Own, Owns, Active, Client

LEMMA FreePageIs ==
  ASSUME HeapInv, CalmInv, NEW c \in Client, NEW p \in Class(c, NONE)
  PROVE  /\ p \in Page /\ Blank(p) /\ page[p].bin = NONE /\ SegmentOf(p) \in Own(c)
         /\ Active(SegmentOf(p)) /\ page[p].free = <<>> /\ page[p].local = <<>> /\ page[p].used = 0
  <1>1. p \in Page /\ page[p].bin = NONE /\ Owns(c, SegmentOf(p)) /\ SegmentOf(p) \in Segment
    BY SegmentOfIs DEF Class
  <1>2. Active(SegmentOf(p))
    BY <1>1 DEF Owns, Active, Client
  <1>3. NONE \notin Bin
    BY SizeAssumption
  <1>4. Blank(p)
    BY <1>1, <1>2, <1>3 DEF CalmInv, PagesInv, Carved
  <1> QED
    BY <1>1, <1>2, <1>4 DEF Own, Blank

LEMMA TakePageStep ==
  ASSUME HeapInv, NEW c \in Client, TakePage(c)
  PROVE  HeapInv'
  <1> USE DEF HeapInv
  <1>0. /\ Calm /\ CalmInv /\ status[c] = "run" /\ pc[c] = "collect" /\ op[c].page = 0
        /\ pc' = [pc EXCEPT ![c] = "carve"]
        /\ UNCHANGED <<owner, info, word, held, status, mon, mallocs>>
    BY RunningCalm DEF TakePage, NoneFound, At, Goto, shared
  <1>1. PICK q \in QueueType : q = queue[c][NONE]
    BY DEF TypeOK
  <1>2. PICK p : p = q.first /\ p # 0
    BY <1>1 DEF TakePage, FreePages
  <1>3. Linked(page, q, Class(c, NONE))
    BY <1>0, <1>1 DEF CalmInv, LinkInv
  <1>4. p \in Class(c, NONE)
    BY <1>2, <1>3 DEF Linked, Ends
  <1>5. /\ p \in Page /\ Blank(p) /\ page[p].bin = NONE /\ SegmentOf(p) \in Own(c)
        /\ Active(SegmentOf(p)) /\ page[p].free = <<>> /\ page[p].local = <<>> /\ page[p].used = 0
    BY <1>0, <1>4, FreePageIs
  <1>6. PICK k \in Segment : k = SegmentOf(p) /\ k \in Own(c) /\ Active(k)
    BY <1>5 DEF Own
  <1>7. PICK b \in Bin : b = op[c].bin
    BY <1>0 DEF ClientInv
  <1>8. PICK s : s = RemovePage([pages |-> page, q |-> q], p)
    OBVIOUS
  <1>9. PICK g \in [Page -> PageType], h \in QueueType :
          /\ g = s.pages /\ h = s.q /\ Linked(g, h, Class(c, NONE) \ {p})
          /\ (\A x \in Page : SameBlocks(g[x], page[x])) /\ SameOutside(g, page, Class(c, NONE))
    <2>1. page \in [Page -> PageType] /\ Class(c, NONE) \subseteq Page
      BY DEF TypeOK, Class
    <2> HIDE DEF HeapInv
    <2> QED
      BY <1>3, <1>4, <1>5, <1>8, <2>1, RemoveLinked
  <1>10. PICK z \in PageType : /\ z = [ZeroPage EXCEPT !.free = page[p].free, !.bin = b]
                               /\ z.free = <<>> /\ z.local = <<>> /\ z.bin = b /\ z.used = 0
                               /\ z.next = 0 /\ z.prev = 0
    <2>1. <<>> \in Seq(Offset)
      OBVIOUS
    <2>2. PICK y : y = [ZeroPage EXCEPT !.free = <<>>, !.bin = b]
      OBVIOUS
    <2>3. y = [free |-> <<>>, local |-> <<>>, bin |-> b, used |-> 0, next |-> 0, prev |-> 0]
      BY <2>2 DEF ZeroPage
    <2>4. y \in PageType
      BY <2>1, <2>3 DEF PageType
    <2> QED
      BY <1>5, <2>2, <2>3, <2>4
  <1>11. /\ page' = [g EXCEPT ![p] = z] /\ queue' = [queue EXCEPT ![c][NONE] = h]
         /\ segment' = [segment EXCEPT ![k].used = @ + 1] /\ op' = [op EXCEPT ![c].page = p]
    BY <1>1, <1>2, <1>6, <1>7, <1>8, <1>9, <1>10 DEF TakePage, FreePages
  <1>12. /\ page' \in [Page -> PageType] /\ page'[p] = z /\ \A x \in Page \ {p} : page'[x] = g[x]
    BY <1>5, <1>9, <1>10, <1>11
  <1>13. PICK o \in OpType : /\ op' = [op EXCEPT ![c] = o] /\ o.page = p /\ o.bin = b
                             /\ o.seg = op[c].seg /\ o.block = op[c].block
    <2>1. PICK y \in OpType : y = op[c]
      BY DEF TypeOK
    <2>2. PICK o : o = [y EXCEPT !.page = p]
      OBVIOUS
    <2>3. o \in OpType /\ o.page = p /\ o.bin = y.bin /\ o.seg = y.seg /\ o.block = y.block
      BY <1>5, <2>2 DEF OpType
    <2> QED
      BY <1>7, <1>11, <2>1, <2>2, <2>3
  <1>14. /\ op'[c] = o /\ pc'[c] = "carve" /\ OthersKept(c)
         /\ op' \in [Client -> OpType]
         /\ pc' \in [Client -> {"idle", "collect", "carve", "segment", "release", "push"}]
    BY <1>0, <1>13 DEF TypeOK, OthersKept
  <1>15. /\ segment' \in [Segment -> [tid : 0 .. NClient, used : Int]]
         /\ segment'[k].tid = segment[k].tid /\ segment'[k].used = segment[k].used + 1
         /\ \A j \in Segment \ {k} : segment'[j] = segment[j]
    <2>1. PICK y : y = segment[k] /\ y \in [tid : 0 .. NClient, used : Int]
      BY DEF TypeOK
    <2>2. PICK x : x = [y EXCEPT !.used = y.used + 1]
      OBVIOUS
    <2>3. x \in [tid : 0 .. NClient, used : Int] /\ x.tid = y.tid /\ x.used = y.used + 1
      BY <2>1, <2>2
    <2>4. segment' = [segment EXCEPT ![k] = x]
      BY <1>11, <2>1, <2>2
    <2> QED
      BY <2>1, <2>3, <2>4 DEF TypeOK
  <1>16. /\ queue' \in [Client -> [Bin \cup {NONE} -> QueueType]] /\ queue'[c][NONE] = h
         /\ \A a \in Bin : queue'[c][a] = queue[c][a]
         /\ \A d \in Client \ {c} : queue'[d] = queue[d]
    <2>1. NONE \notin Bin
      BY SizeAssumption
    <2>2. PICK y \in [Bin \cup {NONE} -> QueueType] : y = queue[c]
      BY DEF TypeOK
    <2>3. PICK x \in [Bin \cup {NONE} -> QueueType] : x = [y EXCEPT ![NONE] = h]
      OBVIOUS
    <2>4. queue' = [queue EXCEPT ![c] = x]
      BY <1>11, <2>2, <2>3
    <2> QED
      BY <2>1, <2>2, <2>3, <2>4 DEF TypeOK
  <1>17. TypeOK'
    BY <1>0, <1>12, <1>14, <1>15, <1>16 DEF TypeOK
  <1>18. \A x \in Page \ {p} :
           /\ page'[x].free = page[x].free /\ page'[x].local = page[x].local
           /\ page'[x].bin = page[x].bin /\ page'[x].used = page[x].used
           /\ (Blank(x)' <=> Blank(x)) /\ (Carved(x)' <=> Carved(x))
           /\ x \notin Class(c, NONE) => page'[x] = page[x]
    BY <1>9, <1>12 DEF SameBlocks, SameOutside, Blank, Carved
  <1>19. Blank(p)' /\ page'[p].bin = b /\ ~ Carved(p)' /\ ~ Carved(p) /\ b # NONE
         /\ page'[p].free = page[p].free /\ page'[p].local = page[p].local
    <2>1. NONE \notin Bin
      BY SizeAssumption
    <2>2. Len(BlocksOf(b)) # 0
      BY BlocksFacts
    <2>3. ~ Carved(p)'
      BY <1>10, <1>12, <2>2, EmptyList DEF Carved
    <2> QED
      BY <1>5, <1>10, <1>12, <2>1, <2>3 DEF Blank, Carved
  <1>20. /\ \A j \in Segment : (Active(j)' <=> Active(j)) /\ (\A d \in Client : Owns(d, j)' <=> Owns(d, j))
         /\ \A j \in Segment \ {k} : InUse(j)' = InUse(j)
         /\ InUse(k)' = InUse(k) \cup {p} /\ p \notin InUse(k)
    <2>1. \A j \in Segment : (Active(j)' <=> Active(j)) /\ (\A d \in Client : Owns(d, j)' <=> Owns(d, j))
      BY <1>0, <1>15 DEF Active, Owns
    <2>2. \A j \in Segment \ {k} : InUse(j)' = InUse(j)
      BY <1>6, <1>18 DEF InUse, PagesOf
    <2>3. InUse(k)' = InUse(k) \cup {p} /\ p \notin InUse(k)
      BY <1>5, <1>6, <1>18, <1>19 DEF InUse, PagesOf
    <2> QED
      BY <2>1, <2>2, <2>3
  <1>21. Class(c, NONE)' = Class(c, NONE) \ {p} /\ \A a \in Bin : Class(c, a)' = Class(c, a) /\ p \notin Class(c, a)
    <2>1. ASSUME NEW x \in Page
          PROVE  (x \in Class(c, NONE)' <=> x \in Class(c, NONE) /\ x # p)
      <3>1. Owns(c, SegmentOf(x))' <=> Owns(c, SegmentOf(x))
        BY <1>20, SegmentOfIs
      <3> QED
        BY <1>18, <1>19, <3>1 DEF Class
    <2>2. ASSUME NEW x \in Page, NEW a \in Bin
          PROVE  (x \in Class(c, a)' <=> x \in Class(c, a)) /\ p \notin Class(c, a)
      <3>1. Owns(c, SegmentOf(x))' <=> Owns(c, SegmentOf(x))
        BY <1>20, SegmentOfIs
      <3>2. a # NONE
        BY SizeAssumption
      <3> QED
        BY <1>18, <1>19, <3>1, <3>2 DEF Class
    <2> QED
      BY <2>1, <2>2 DEF Class
  <1>22. Within(c, Own(c))
    <2>1. \A x \in Page : SegmentOf(x) \notin Own(c) => x # p /\ x \notin Class(c, NONE)
      BY <1>5, SegmentOfIs DEF Own, Class
    <2>2. \A x \in Page : SegmentOf(x) \notin Own(c) => page'[x] = page[x]
      BY <1>18, <2>1
    <2>3. \A j \in Own(c) : owner[j] = c /\ segment[j].tid \in {0, c} /\ segment'[j].tid \in {0, c}
      BY <1>15, OwnIs DEF Own
    <2>4. \A j \in Segment \ Own(c) : segment'[j] = segment[j] /\ info'[j].state = info[j].state
      BY <1>0, <1>6, <1>15
    <2> QED
      BY <1>14, <1>16, <2>2, <2>3, <2>4 DEF Within, Own
  <1>23. ClientInv(c)'
    BY <1>0, <1>7, <1>13, <1>14 DEF ClientInv
  <1>24. HeaderInv'
    BY <1>0 DEF HeaderInv, Holds
  <1>25. ListInv'
    <2>1. \A x \in Page : page'[x].free = page[x].free /\ page'[x].local = page[x].local
      BY <1>18, <1>19
    <2> QED
      BY <1>0, <1>20, <2>1, SegmentOfIs DEF ListInv, CalmInv
  <1>26. SizeInv'
    <2>1. \A d \in Client : \A e \in held[d] : e[1] \in Page /\ e[1] # p
      BY <1>0, <1>19, HeldIsBlock, ExtentIs DEF CalmInv
    <2> QED
      BY <1>0, <1>18, <2>1 DEF SizeInv, CalmInv
  <1>27. BlockInv'
    <2>1. \A x \in Page : page'[x].free = page[x].free /\ page'[x].local = page[x].local
      BY <1>18, <1>19
    <2>2. Free' = Free /\ LocallyFree' = LocallyFree /\ Pending' = Pending
      BY <1>0, <1>20, <2>1, WordIs DEF Free, LocallyFree, Pending
    <2>3. Blocks' = Blocks
      <3> SUFFICES ASSUME NEW x \in Word PROVE x \in Blocks' <=> x \in Blocks
        BY DEF Blocks
      <3>1. Active(SegmentOf(x[1]))' <=> Active(SegmentOf(x[1]))
        BY <1>20, WordIs
      <3>2. Carved(x[1])' <=> Carved(x[1])
        BY <1>18, <1>19, WordIs
      <3>3. Carved(x[1]) => page'[x[1]].bin = page[x[1]].bin
        BY <1>18, <1>19, WordIs
      <3> QED
        BY <3>1, <3>2, <3>3 DEF Blocks
    <2>4. Pushed' = Pushed /\ Held' = Held
      <3>1. \A d \in Client : op'[d].block = op[d].block
        BY <1>13, <1>14 DEF OthersKept
      <3> QED
        BY <1>0, <3>1 DEF Pushed, Held
    <2> QED
      BY <1>0, <2>2, <2>3, <2>4 DEF BlockInv, CalmInv
  <1>28. WorkOk(c)'
    <2>1. Owns(c, SegmentOf(p))'
      BY <1>6, <1>20 DEF Own
    <2> QED
      BY <1>5, <1>13, <1>14, <1>19, <2>1 DEF WorkOk
  <1>29. \A j \in Own(c) : segment'[j].tid # 0
    BY <1>15, OwnIs DEF Client, Own
  <1>30. ASSUME NEW x \in Page, SegmentOf(x) \in Own(c), Active(SegmentOf(x))'
         PROVE  PageOk(x)'
    <2>1. CASE x = p
      <3>1. \A d \in Client : Owns(d, SegmentOf(x))' => d = c
        BY <1>20, <1>30, OwnIs DEF Owns, Own
      <3> QED
        BY <1>13, <1>14, <1>19, <2>1, <3>1 DEF PageOk
    <2>2. CASE x # p
      <3>1. Active(SegmentOf(x)) /\ Owns(c, SegmentOf(x))
        BY <1>20, <1>30 DEF Own
      <3>2. \/ Blank(x) /\ page[x].bin = NONE
            \/ Carved(x)
        BY <1>0, <3>1 DEF PagesInv, CalmInv
      <3> QED
        BY <1>18, <2>2, <3>2 DEF PageOk
    <2> QED
      BY <2>1, <2>2
  <1>31. ASSUME NEW a \in Bin \cup {NONE}
         PROVE  Linked(page', queue'[c][a], Class(c, a)')
    <2>1. CASE a = NONE
      <3>1. 0 \notin Class(c, NONE) \ {p} /\ \A x \in Class(c, NONE) \ {p} : page'[x] = g[x]
        BY <1>12, ZeroIsNoPage DEF Class
      <3>2. Linked(page', h, Class(c, NONE) \ {p})
        BY <1>9, <3>1, LinkedSame
      <3> QED
        BY <1>16, <1>21, <2>1, <3>2
    <2>2. CASE a \in Bin
      <3>1. Linked(page, queue[c][a], Class(c, a))
        BY <1>0, <2>2 DEF LinkInv, CalmInv
      <3>2. a # NONE
        BY <2>2, SizeAssumption
      <3>3. 0 \notin Class(c, a) /\ \A x \in Class(c, a) : page'[x] = page[x]
        BY <1>18, <1>21, <2>2, <3>2, ZeroIsNoPage DEF Class
      <3>4. Linked(page', queue[c][a], Class(c, a))
        BY <3>1, <3>3, LinkedSame
      <3> QED
        BY <1>16, <1>21, <2>2, <3>4
    <2> QED
      BY <2>1, <2>2
  <1>32. ASSUME NEW j \in Own(c), Active(j)'
         PROVE  CountOk(j)'
    <2>1. /\ segment[j].used = Cardinality(InUse(j)) /\ j \in Segment
          /\ InUse(j) = {} => Class(c, NONE) \subseteq PagesOf(j)
      <3>1. Active(j) /\ j \in Segment /\ Owns(c, j)
        BY <1>32, OwnIs DEF Own
      <3> QED
        BY <1>0, <3>1 DEF CountInv, CalmInv
    <2>2. \A d \in Client : Owns(d, j)' => d = c
      BY <1>20, <2>1, OwnIs DEF Owns
    <2>3. CASE j = k
      <3>1. IsFiniteSet(InUse(k))
        BY PageOfSegment, FS_Subset DEF InUse
      <3>2. Cardinality(InUse(k) \cup {p}) = Cardinality(InUse(k)) + 1
        BY <1>20, <3>1, FS_AddElement
      <3> QED
        BY <1>15, <1>20, <2>1, <2>3, <3>2 DEF CountOk
    <2>4. CASE j # k
      <3>1. InUse(j) # {}
        BY <1>4, <1>6, <2>1, <2>4 DEF PagesOf
      <3> QED
        BY <1>15, <1>20, <2>1, <2>4, <3>1 DEF CountOk
    <2> QED
      BY <2>3, <2>4
  <1>33. status'[c] = "run" /\ \A d \in Client \ {c} : held'[d] = held[d]
    BY <1>0
  <1> QED
    BY <1>0, <1>17, <1>22, <1>23, <1>24, <1>25, <1>26, <1>27, <1>28, <1>29, <1>30, <1>31, <1>32, <1>33, WithinStep

LEMMA InitSegmentStep ==
  ASSUME HeapInv, NEW c \in Client, InitSegment(c)
  PROVE  HeapInv'
  <1> USE DEF HeapInv
  <1>0. /\ Calm /\ CalmInv /\ status[c] = "run" /\ pc[c] = "segment"
        /\ pc' = [pc EXCEPT ![c] = "collect"]
        /\ UNCHANGED <<owner, word, held, status, op, mon, mallocs>>
    BY RunningCalm DEF InitSegment, At, Goto
  <1>1. PICK k \in Segment : k = op[c].seg /\ owner[k] = c /\ segment[k].tid = 0
    BY <1>0 DEF ClientInv
  <1>2. op[c].page = 0 /\ queue[c][NONE].first = 0 /\ op[c].bin \in Bin /\ op[c].block = <<>>
    BY <1>0 DEF ClientInv
  <1>3. info[k].state = "NORMAL" /\ \A p \in PagesOf(k) : page[p] = ZeroPage
    BY <1>1 DEF SegmentInv
  <1>4. PICK q \in QueueType : q = queue[c][NONE] /\ q.first = 0
    BY <1>2 DEF TypeOK
  <1>5. Class(c, NONE) = {} /\ Linked(page, q, {})
    <2>1. Linked(page, q, Class(c, NONE))
      BY <1>0, <1>4 DEF CalmInv, LinkInv
    <2> QED
      BY <1>4, <2>1, LinkedNone
  <1>6. PICK s : s = PushAll([pages |-> page, q |-> q], k)
    OBVIOUS
  <1>7. PagesOf(k) \subseteq Page /\ \A x \in Page : x \in PagesOf(k) <=> SegmentOf(x) = k
    BY DEF PagesOf
  <1>8. PICK g \in [Page -> PageType], h \in QueueType :
          /\ g = s.pages /\ h = s.q /\ Linked(g, h, PagesOf(k))
          /\ (\A x \in Page : SameBlocks(g[x], page[x])) /\ SameOutside(g, page, PagesOf(k))
    <2>1. page \in [Page -> PageType]
      BY DEF TypeOK
    <2>2. {} \subseteq Page /\ {} \cap PagesOf(k) = {}
      OBVIOUS
    <2>3. Relinked(s, page, {} \cup PagesOf(k), {} \cup PagesOf(k))
      BY ONLY <1>5, <1>6, <2>1, <2>2, PushAllLinked, q \in QueueType, k \in Segment
    <2>4. {} \cup PagesOf(k) = PagesOf(k)
      OBVIOUS
    <2> QED
      BY <2>3, <2>4 DEF Relinked
  <1>9. /\ page' = g /\ queue' = [queue EXCEPT ![c][NONE] = h]
        /\ segment' = [segment EXCEPT ![k] = [tid |-> c, used |-> 0]]
        /\ info' = [info EXCEPT ![k] = [state |-> "NORMAL", list |-> <<>>]]
    BY <1>1, <1>4, <1>6, <1>8 DEF InitSegment, FreePages
  <1>10. op' = op /\ pc'[c] = "collect" /\ OthersKept(c)
         /\ pc' \in [Client -> {"idle", "collect", "carve", "segment", "release", "push"}]
    BY <1>0 DEF TypeOK, OthersKept
  <1>11. /\ segment' \in [Segment -> [tid : 0 .. NClient, used : Int]]
         /\ segment'[k].tid = c /\ segment'[k].used = 0
         /\ \A j \in Segment \ {k} : segment'[j] = segment[j]
    <2>1. [tid |-> c, used |-> 0] \in [tid : 0 .. NClient, used : Int]
      BY DEF Client
    <2> QED
      BY <1>9, <2>1 DEF TypeOK
  <1>12. /\ info' \in [Segment -> [state : {"NORMAL", "ABANDON"}, list : Seq(Word)]]
         /\ info'[k].state = "NORMAL" /\ info'[k].list = <<>>
         /\ \A j \in Segment \ {k} : info'[j] = info[j]
    <2>1. [state |-> "NORMAL", list |-> <<>>] \in [state : {"NORMAL", "ABANDON"}, list : Seq(Word)]
      <3>1. <<>> \in Seq(Word)
        OBVIOUS
      <3> QED
        BY <3>1
    <2> QED
      BY <1>9, <2>1 DEF TypeOK
  <1>13. /\ queue' \in [Client -> [Bin \cup {NONE} -> QueueType]] /\ queue'[c][NONE] = h
         /\ \A a \in Bin : queue'[c][a] = queue[c][a]
         /\ \A d \in Client \ {c} : queue'[d] = queue[d]
    <2>1. NONE \notin Bin
      BY SizeAssumption
    <2>2. PICK y \in [Bin \cup {NONE} -> QueueType] : y = queue[c]
      BY DEF TypeOK
    <2>3. PICK x \in [Bin \cup {NONE} -> QueueType] : x = [y EXCEPT ![NONE] = h]
      OBVIOUS
    <2>4. queue' = [queue EXCEPT ![c] = x]
      BY <1>9, <2>2, <2>3
    <2> QED
      BY <2>1, <2>2, <2>3, <2>4 DEF TypeOK
  <1>14. TypeOK'
    BY <1>0, <1>9, <1>10, <1>11, <1>12, <1>13 DEF TypeOK
  <1>15. \A x \in Page :
           /\ page'[x].free = page[x].free /\ page'[x].local = page[x].local
           /\ page'[x].bin = page[x].bin /\ page'[x].used = page[x].used
           /\ (Blank(x)' <=> Blank(x)) /\ (Carved(x)' <=> Carved(x))
           /\ x \notin PagesOf(k) => page'[x] = page[x]
    BY <1>8, <1>9 DEF SameBlocks, SameOutside, Blank, Carved
  <1>16. \A x \in PagesOf(k) : Blank(x)' /\ ~ Carved(x)' /\ ~ Carved(x) /\ page'[x].bin = NONE
                               /\ page'[x].free = <<>> /\ page'[x].local = <<>>
    <2>1. NONE \notin Bin
      BY SizeAssumption
    <2> QED
      BY <1>3, <1>7, <1>15, <2>1 DEF ZeroPage, Blank, Carved
  <1>17. /\ \A j \in Segment \ {k} : (Active(j)' <=> Active(j)) /\ (\A d \in Client : Owns(d, j)' <=> Owns(d, j))
                                     /\ InUse(j)' = InUse(j)
         /\ ~ Active(k) /\ Active(k)' /\ InUse(k)' = {}
         /\ \A d \in Client : ~ Owns(d, k) /\ (Owns(d, k)' <=> d = c)
    <2>1. \A j \in Segment \ {k} : (Active(j)' <=> Active(j)) /\ (\A d \in Client : Owns(d, j)' <=> Owns(d, j))
      BY <1>11, <1>12 DEF Active, Owns
    <2>2. \A j \in Segment : j # k => InUse(j)' = InUse(j)
      BY <1>15 DEF InUse, PagesOf
    <2>3. InUse(k)' = {}
      BY <1>16 DEF InUse
    <2>4. ~ Active(k) /\ Active(k)' /\ \A d \in Client : ~ Owns(d, k) /\ (Owns(d, k)' <=> d = c)
      BY <1>1, <1>11, <1>12 DEF Active, Owns, Client
    <2> QED
      BY <2>1, <2>2, <2>3, <2>4
  <1>18. Class(c, NONE)' = PagesOf(k) /\ \A a \in Bin : Class(c, a)' = Class(c, a)
    <2>1. ASSUME NEW x \in Page
          PROVE  x \in Class(c, NONE)' <=> SegmentOf(x) = k
      <3>1. CASE SegmentOf(x) = k
        BY <1>7, <1>16, <1>17, <3>1 DEF Class
      <3>2. CASE SegmentOf(x) # k
        <4>1. Owns(c, SegmentOf(x))' <=> Owns(c, SegmentOf(x))
          BY <1>17, <3>2, SegmentOfIs
        <4>2. x \notin Class(c, NONE)
          BY <1>5
        <4> QED
          BY <1>15, <3>2, <4>1, <4>2 DEF Class
      <3> QED
        BY <3>1, <3>2
    <2>2. ASSUME NEW x \in Page, NEW a \in Bin
          PROVE  x \in Class(c, a)' <=> x \in Class(c, a)
      <3>1. a # NONE
        BY SizeAssumption
      <3>2. CASE SegmentOf(x) = k
        BY <1>7, <1>16, <3>1, <3>2 DEF Class
      <3>3. CASE SegmentOf(x) # k
        <4>1. Owns(c, SegmentOf(x))' <=> Owns(c, SegmentOf(x))
          BY <1>17, <3>3, SegmentOfIs
        <4> QED
          BY <1>15, <3>3, <4>1 DEF Class
      <3> QED
        BY <3>2, <3>3
    <2>3. Class(c, NONE)' \subseteq Page
      BY DEF Class
    <2> QED
      BY <1>7, <2>1, <2>2, <2>3 DEF Class
  <1>19. PICK T : T = Own(c) \cup {k}
    OBVIOUS
  <1>20. Within(c, T)
    <2>1. \A x \in Page : SegmentOf(x) \notin T => page'[x] = page[x]
      BY <1>7, <1>15, <1>19
    <2>2. \A j \in T : owner[j] = c /\ segment[j].tid \in {0, c} /\ segment'[j].tid \in {0, c}
      BY <1>1, <1>11, <1>19, OwnIs DEF Own
    <2>3. \A j \in Segment \ T : segment'[j] = segment[j] /\ info'[j].state = info[j].state
      BY <1>11, <1>12, <1>19
    <2> QED
      BY <1>10, <1>13, <1>19, <2>1, <2>2, <2>3 DEF Within, Own
  <1>21. ClientInv(c)'
    <2>1. k # 0
      BY DEF Segment
    <2> QED
      BY <1>0, <1>1, <1>2, <1>10, <2>1 DEF ClientInv
  <1>22. HeaderInv'
    BY <1>0 DEF HeaderInv, Holds
  <1>23. ListInv'
    <2>1. \A x \in Page : Active(SegmentOf(x))' => IsInjective(page'[x].free) /\ IsInjective(page'[x].local)
      <3> SUFFICES ASSUME NEW x \in Page, Active(SegmentOf(x))'
                   PROVE  IsInjective(page'[x].free) /\ IsInjective(page'[x].local)
        OBVIOUS
      <3>1. CASE SegmentOf(x) = k
        BY <1>7, <1>16, <3>1, EmptyList
      <3>2. CASE SegmentOf(x) # k
        BY <1>0, <1>15, <1>17, <3>2, SegmentOfIs DEF ListInv, CalmInv
      <3> QED
        BY <3>1, <3>2
    <2>2. \A j \in Segment : Active(j)' =>
            IsInjective(info'[j].list) /\ \A x \in Range(info'[j].list) : SegmentOf(x[1]) = j
      <3> SUFFICES ASSUME NEW j \in Segment, Active(j)'
                   PROVE  IsInjective(info'[j].list) /\ \A x \in Range(info'[j].list) : SegmentOf(x[1]) = j
        OBVIOUS
      <3>1. CASE j = k
        BY <1>12, <3>1, EmptyList
      <3>2. CASE j # k
        BY <1>0, <1>12, <1>17, <3>2 DEF ListInv, CalmInv
      <3> QED
        BY <3>1, <3>2
    <2> QED
      BY <2>1, <2>2 DEF ListInv
  <1>24. SizeInv'
    <2>1. \A d \in Client : \A e \in held[d] : e[1] \in Page
      BY ExtentIs DEF TypeOK
    <2> QED
      BY <1>0, <1>15, <2>1 DEF SizeInv, CalmInv
  <1>25. BlockInv'
    <2>1. ASSUME NEW x \in Word
          PROVE  /\ x \in Free' <=> x \in Free
                 /\ x \in LocallyFree' <=> x \in LocallyFree
                 /\ x \in Pending' <=> x \in Pending
                 /\ x \in Blocks' <=> x \in Blocks
      <3>1. x[1] \in Page /\ SegmentOf(x[1]) \in Segment
        BY WordIs
      <3>2. CASE SegmentOf(x[1]) = k
        <4>1. ~ Active(SegmentOf(x[1]))
          BY <1>17, <3>2
        <4>2. page'[x[1]].free = <<>> /\ page'[x[1]].local = <<>> /\ ~ Carved(x[1])'
          BY <1>7, <1>16, <3>1, <3>2
        <4>3. info'[SegmentOf(x[1])].list = <<>>
          BY <1>12, <3>2
        <4> QED
          BY <4>1, <4>2, <4>3, EmptyList DEF Free, LocallyFree, Pending, Blocks
      <3>3. CASE SegmentOf(x[1]) # k
        <4>1. Active(SegmentOf(x[1]))' <=> Active(SegmentOf(x[1]))
          BY <1>17, <3>1, <3>3
        <4>2. /\ page'[x[1]].free = page[x[1]].free /\ page'[x[1]].local = page[x[1]].local
              /\ page'[x[1]].bin = page[x[1]].bin /\ (Carved(x[1])' <=> Carved(x[1]))
          BY <1>15, <3>1
        <4>3. info'[SegmentOf(x[1])] = info[SegmentOf(x[1])]
          BY <1>12, <3>1, <3>3
        <4> QED
          BY <4>1, <4>2, <4>3 DEF Free, LocallyFree, Pending, Blocks
      <3> QED
        BY <3>2, <3>3
    <2>2. Free' = Free /\ LocallyFree' = LocallyFree /\ Pending' = Pending /\ Blocks' = Blocks
      BY <2>1 DEF Free, LocallyFree, Pending, Blocks
    <2>3. Pushed' = Pushed /\ Held' = Held
      BY <1>0 DEF Pushed, Held
    <2> QED
      BY <1>0, <2>2, <2>3 DEF BlockInv, CalmInv
  <1>26. WorkOk(c)'
    BY <1>2, <1>10 DEF WorkOk
  <1>27. \A j \in T : segment'[j].tid # 0
    BY <1>11, <1>19, OwnIs DEF Client, Own
  <1>28. ASSUME NEW x \in Page, SegmentOf(x) \in T, Active(SegmentOf(x))'
         PROVE  PageOk(x)'
    <2>1. CASE SegmentOf(x) = k
      BY <1>7, <1>16, <2>1 DEF PageOk
    <2>2. CASE SegmentOf(x) # k
      <3>1. Active(SegmentOf(x)) /\ Owns(c, SegmentOf(x))
        BY <1>17, <1>19, <1>28, <2>2 DEF Own
      <3>2. \/ Blank(x) /\ page[x].bin = NONE
            \/ Carved(x)
        BY <1>0, <3>1 DEF PagesInv, CalmInv
      <3> QED
        BY <1>15, <3>2 DEF PageOk
    <2> QED
      BY <2>1, <2>2
  <1>29. ASSUME NEW a \in Bin \cup {NONE}
         PROVE  Linked(page', queue'[c][a], Class(c, a)')
    <2>1. CASE a = NONE
      BY <1>8, <1>9, <1>13, <1>18, <2>1
    <2>2. CASE a \in Bin
      <3>1. Linked(page, queue[c][a], Class(c, a))
        BY <1>0, <2>2 DEF LinkInv, CalmInv
      <3>2. \A x \in Class(c, a) : x \in Page /\ x \notin PagesOf(k)
        BY <1>7, <1>17 DEF Class
      <3>3. 0 \notin Class(c, a) /\ \A x \in Class(c, a) : page'[x] = page[x]
        BY <1>15, <3>2, ZeroIsNoPage
      <3>4. Linked(page', queue[c][a], Class(c, a))
        BY <3>1, <3>3, LinkedSame
      <3> QED
        BY <1>13, <1>18, <2>2, <3>4
    <2> QED
      BY <2>1, <2>2
  <1>30. ASSUME NEW j \in T, Active(j)'
         PROVE  CountOk(j)'
    <2>1. CASE j = k
      <3>1. Cardinality({}) = 0
        BY FS_EmptySet
      <3>2. \A d \in Client : Owns(d, k)' => d = c
        BY <1>17
      <3> QED
        BY <1>2, <1>10, <1>11, <1>17, <1>18, <2>1, <3>1, <3>2 DEF CountOk
    <2>2. CASE j # k
      <3>1. j \in Own(c) /\ j \in Segment /\ Owns(c, j) /\ Active(j)
        BY <1>19, <2>2, OwnIs DEF Own
      <3>2. segment[j].used = Cardinality(InUse(j)) /\ InUse(j) # {}
        BY <1>0, <3>1 DEF CountInv, CalmInv
      <3> QED
        BY <1>11, <1>17, <2>2, <3>1, <3>2 DEF CountOk
    <2> QED
      BY <2>1, <2>2
  <1>31. status'[c] = "run" /\ \A d \in Client \ {c} : held'[d] = held[d]
    BY <1>0
  <1> QED
    BY <1>0, <1>14, <1>20, <1>21, <1>22, <1>23, <1>24, <1>25, <1>26, <1>27, <1>28, <1>29, <1>30, <1>31, WithinStep

LEMMA CarveStep ==
  ASSUME HeapInv, NEW c \in Client, Carve(c)
  PROVE  HeapInv'
  <1> USE DEF HeapInv
  <1>0. /\ Calm /\ CalmInv /\ status[c] = "run" /\ pc[c] = "carve"
        /\ UNCHANGED <<owner, info, segment, status, mon, mallocs>>
    BY RunningCalm DEF Carve, At, shared
  <1>1. PICK p \in Page : p = op[c].page /\ Owns(c, SegmentOf(p)) /\ Blank(p) /\ page[p].bin = op[c].bin
    BY <1>0 DEF WorkInv, CalmInv
  <1>2. PICK b \in Bin : b = op[c].bin /\ b # NONE
    <2>1. op[c].bin \in Bin /\ NONE \notin Bin
      BY <1>0, SizeAssumption DEF ClientInv
    <2> QED
      BY <2>1
  <1>3. op[c].block = <<>>
    BY <1>0 DEF ClientInv
  <1>4. PICK l \in Seq(Offset) : /\ l = BlocksOf(b) /\ Len(l) \in Nat \ {0} /\ Head(l) = 0 /\ IsInjective(l)
                                 /\ Range(l) = Starts(b) /\ 0 \in Range(l) /\ l # <<>>
    <2>1. BlocksOf(b) \in Seq(Offset) /\ Len(BlocksOf(b)) \in Nat \ {0}
          /\ Head(BlocksOf(b)) = 0 /\ IsInjective(BlocksOf(b)) /\ 0 \in Starts(b)
      BY BlocksFacts
    <2>2. BlocksOf(b) # <<>>
      BY <2>1, EmptyList
    <2> QED
      BY <2>1, <2>2 DEF Starts
  <1>5. PICK f : f = [page EXCEPT ![p].free = l \o @]
    OBVIOUS
  <1>6. /\ f \in [Page -> PageType] /\ \A x \in Page \ {p} : f[x] = page[x]
        /\ f[p].free = l /\ f[p].local = <<>> /\ f[p].used = 0 /\ f[p].bin = b
        /\ f[p].next = page[p].next /\ f[p].prev = page[p].prev
    <2>1. page \in [Page -> PageType]
      BY DEF TypeOK
    <2>2. PICK y \in PageType : y = page[p] /\ y.free = <<>> /\ y.local = <<>> /\ y.used = 0 /\ y.bin = b
      BY <1>1, <1>2, <2>1 DEF Blank
    <2>3. l \o <<>> = l
      BY ConcatEmptySeq
    <2>4. PICK z : z = [y EXCEPT !.free = l]
      OBVIOUS
    <2>5. /\ z \in PageType /\ z.free = l /\ z.local = y.local /\ z.used = y.used /\ z.bin = y.bin
          /\ z.next = y.next /\ z.prev = y.prev
      BY <2>4 DEF PageType
    <2>6. f = [page EXCEPT ![p] = z]
      BY <1>5, <2>2, <2>3, <2>4
    <2> QED
      BY <2>1, <2>2, <2>5, <2>6
  <1>7. PICK q \in QueueType : q = queue[c][b]
    BY DEF TypeOK
  <1>8. Class(c, b) \subseteq Page /\ p \notin Class(c, b) /\ ~ Carved(p)
    <2>1. ~ Carved(p)
      BY <1>1, <1>2, CarvedIsFull, EmptyList DEF Blank
    <2> QED
      BY <1>2, <2>1 DEF Class
  <1>9. Linked(f, q, Class(c, b))
    <2>1. Linked(page, q, Class(c, b))
      BY <1>0, <1>7 DEF CalmInv, LinkInv
    <2>2. 0 \notin Class(c, b) /\ \A x \in Class(c, b) : f[x] = page[x]
      BY <1>6, <1>8, ZeroIsNoPage
    <2> QED
      BY <2>1, <2>2, LinkedSame
  <1>10. PICK s : s = PushPage([pages |-> f, q |-> q], p)
    OBVIOUS
  <1>11. PICK g \in [Page -> PageType], h \in QueueType :
          /\ g = s.pages /\ h = s.q /\ Linked(g, h, Class(c, b) \cup {p})
          /\ (\A x \in Page : SameBlocks(g[x], f[x])) /\ SameOutside(g, f, Class(c, b) \cup {p})
    <2>1. f \in [Page -> PageType] /\ p \in Page \ Class(c, b)
      BY <1>6, <1>8
    <2> QED
      BY ONLY <2>1, <1>8, <1>9, <1>10, q \in QueueType, PushLinked
  <1>12. g[p].free = l /\ g[p].local = <<>> /\ g[p].used = 0 /\ g[p].bin = b
    BY <1>6, <1>11 DEF SameBlocks
  <1>13. PICK m \in [Word -> {"clear", "live", "junk"}] :
           /\ m = [w \in Word |-> IF w[1] = p /\ w[2] \in Cleared(b) THEN "clear" ELSE word[w]]
           /\ \A x \in Word : m[x] = "live" => word[x] = "live"
    <2>1. PICK m : m = [w \in Word |-> IF w[1] = p /\ w[2] \in Cleared(b) THEN "clear" ELSE word[w]]
      OBVIOUS
    <2>2. word \in [Word -> {"clear", "live", "junk"}]
      BY DEF TypeOK
    <2>3. m \in [Word -> {"clear", "live", "junk"}] /\ \A x \in Word : m[x] = "live" => word[x] = "live"
      BY ONLY <2>1, <2>2
    <2> QED
      BY <2>1, <2>3
  <1>14. /\ queue' = [queue EXCEPT ![c][b] = h]
         /\ TakeFrom(c, g, p) /\ word' = Stamped(m, p, 0, b)
    <2>1. f = [page EXCEPT ![op[c].page].free = BlocksOf(op[c].bin) \o @]
      BY <1>1, <1>2, <1>4, <1>5
    <2> QED
      BY <1>1, <1>2, <1>7, <1>10, <1>11, <1>13, <2>1 DEF Carve
  <1>15. /\ page' = Taken(g, p) /\ held' = [held EXCEPT ![c] = @ \cup {<<p, 0, Size[b]>>}]
         /\ pc' = [pc EXCEPT ![c] = "idle"] /\ op' = [op EXCEPT ![c] = NoOp]
    BY <1>4, <1>12, <1>14 DEF TakeFrom, Taken, Goto
  <1>16. /\ page' \in [Page -> PageType] /\ \A x \in Page \ {p} : page'[x] = g[x]
         /\ page'[p].local = <<>> /\ page'[p].used = 1 /\ page'[p].bin = b
         /\ Len(page'[p].free) = Len(l) - 1 /\ page'[p].next = g[p].next /\ page'[p].prev = g[p].prev
         /\ Range(l) = {0} \cup Range(page'[p].free)
         /\ IsInjective(page'[p].free) /\ 0 \notin Range(page'[p].free) /\ 0 \in Offset
    <2>1. PICK t : t = page' /\ t = Taken(g, p)
      BY <1>15
    <2>2. g[p].free # <<>> /\ g \in [Page -> PageType] /\ p \in Page
      BY <1>4, <1>11, <1>12
    <2>3. TakenFrom(g, p, t)
      BY ONLY <2>1, <2>2, TakenIs
    <2> QED
      BY <1>4, <1>12, <2>1, <2>3 DEF TakenFrom
  <1>17. /\ op'[c] = NoOp /\ pc'[c] = "idle" /\ OthersKept(c)
         /\ op' \in [Client -> OpType]
         /\ pc' \in [Client -> {"idle", "collect", "carve", "segment", "release", "push"}]
    BY <1>0, <1>15, NoOpType DEF TypeOK, OthersKept
  <1>18. /\ queue' \in [Client -> [Bin \cup {NONE} -> QueueType]] /\ queue'[c][b] = h
         /\ \A a \in (Bin \cup {NONE}) \ {b} : queue'[c][a] = queue[c][a]
         /\ \A d \in Client \ {c} : queue'[d] = queue[d]
    <2>1. PICK y \in [Bin \cup {NONE} -> QueueType] : y = queue[c]
      BY DEF TypeOK
    <2>2. PICK x \in [Bin \cup {NONE} -> QueueType] : x = [y EXCEPT ![b] = h]
      OBVIOUS
    <2>3. queue' = [queue EXCEPT ![c] = x]
      BY <1>14, <2>1, <2>2
    <2> QED
      BY <2>1, <2>2, <2>3 DEF TypeOK
  <1>19. \A x \in Page \ {p} :
           /\ page'[x].free = page[x].free /\ page'[x].local = page[x].local
           /\ page'[x].bin = page[x].bin /\ page'[x].used = page[x].used
           /\ (Blank(x)' <=> Blank(x)) /\ (Carved(x)' <=> Carved(x))
           /\ x \notin Class(c, b) => page'[x] = page[x]
    <2> TAKE x \in Page \ {p}
    <2>1. page'[x] = g[x] /\ f[x] = page[x] /\ SameBlocks(g[x], f[x])
      BY <1>6, <1>11, <1>16
    <2>2. x \notin Class(c, b) => g[x] = f[x]
      BY <1>11 DEF SameOutside
    <2>3. /\ page'[x].free = page[x].free /\ page'[x].local = page[x].local
          /\ page'[x].bin = page[x].bin /\ page'[x].used = page[x].used
      BY ONLY <2>1 DEF SameBlocks
    <2>4. (Blank(x)' <=> Blank(x)) /\ (Carved(x)' <=> Carved(x))
      BY <2>3 DEF Blank, Carved
    <2> QED
      BY <2>1, <2>2, <2>3, <2>4
  <1>20. Carved(p)' /\ ~ Blank(p)' /\ page[p].bin = b
    <2>1. 1 + Len(page'[p].free) + 0 = Len(l)
      BY <1>4, <1>16
    <2>2. Carved(p)'
      BY <1>4, <1>16, <2>1, EmptyList DEF Carved
    <2> QED
      BY <1>1, <1>2, <1>16, <2>2 DEF Blank
  <1>21. held' \in [Client -> SUBSET Extent] /\ Held' = [Held EXCEPT ![c] = @ \cup {<<p, 0>>}] /\ SizeInv'
    <2>1. page'[p].bin = b /\ \A x \in Page : x # p => page'[x].bin = page[x].bin
      BY <1>16, <1>19
    <2>2. SizeInv /\ TypeOK
      BY <1>0 DEF CalmInv
    <2>3. page[p].bin \in {b, NONE} /\ \A d \in Client : \A e \in held[d] : e[1] = p => page[p].bin = b
      BY <1>20
    <2>4. held' = [held EXCEPT ![c] = @ \cup {<<p, 0, Size[b]>>}] /\ 0 \in Offset
      BY <1>15, <1>16
    <2> HIDE DEF HeapInv
    <2> QED
      BY <2>1, <2>2, <2>3, <2>4, HeldWith
  <1>22. HeaderInv' /\ word' \in [Word -> {"clear", "live", "junk"}]
    <2>1. held' = [held EXCEPT ![c] = @ \cup {<<p, 0, Size[b]>>}] /\ 0 \in Offset
      BY <1>15, <1>16
    <2>2. TypeOK /\ HeaderInv
      OBVIOUS
    <2> QED
      BY <1>13, <1>14, <2>1, <2>2, HeaderStamped
  <1>23. TypeOK'
    BY <1>0, <1>16, <1>17, <1>18, <1>21, <1>22 DEF TypeOK
  <1>24. \A j \in Segment : /\ (Active(j)' <=> Active(j)) /\ (\A d \in Client : Owns(d, j)' <=> Owns(d, j))
                            /\ InUse(j)' = InUse(j)
    <2>1. \A x \in Page : page'[x].bin = page[x].bin
      BY <1>16, <1>19, <1>20
    <2> QED
      BY <1>0, <2>1 DEF Active, Owns, InUse, PagesOf
  <1>25. Class(c, b)' = Class(c, b) \cup {p} /\ \A a \in (Bin \cup {NONE}) \ {b} : Class(c, a)' = Class(c, a)
    <2>1. ASSUME NEW x \in Page
          PROVE  x \in Class(c, b)' <=> x \in Class(c, b) \/ x = p
      <3>1. Owns(c, SegmentOf(x))' <=> Owns(c, SegmentOf(x))
        BY <1>24, SegmentOfIs
      <3> QED
        BY <1>1, <1>2, <1>16, <1>19, <1>20, <3>1 DEF Class
    <2>2. ASSUME NEW x \in Page, NEW a \in (Bin \cup {NONE}) \ {b}
          PROVE  x \in Class(c, a)' <=> x \in Class(c, a)
      <3>1. Owns(c, SegmentOf(x))' <=> Owns(c, SegmentOf(x))
        BY <1>24, SegmentOfIs
      <3> QED
        BY <1>16, <1>19, <1>20, <3>1 DEF Class
    <2> QED
      BY <2>1, <2>2 DEF Class
  <1>26. PICK k \in Segment : k = SegmentOf(p) /\ Active(k) /\ k \in Own(c)
    BY <1>1, SegmentOfIs DEF Own, Owns, Active, Client
  <1>27. Within(c, Own(c))
    <2>1. \A x \in Page : SegmentOf(x) \notin Own(c) => x # p /\ x \notin Class(c, b)
      BY <1>26, SegmentOfIs DEF Own, Class
    <2>2. \A x \in Page : SegmentOf(x) \notin Own(c) => page'[x] = page[x]
      BY <1>19, <2>1
    <2>3. \A j \in Own(c) : owner[j] = c /\ segment[j].tid \in {0, c} /\ segment'[j].tid \in {0, c}
      BY <1>0, OwnIs
    <2>4. \A j \in Segment \ Own(c) : segment'[j] = segment[j] /\ info'[j].state = info[j].state
      BY <1>0
    <2> QED
      BY <1>17, <1>18, <2>2, <2>3, <2>4 DEF Within, Own
  <1>28. ClientInv(c)'
    BY <1>0, <1>17 DEF ClientInv, NoOp
  <1>29. ListInv'
    <2>1. \A x \in Page : Active(SegmentOf(x)) => IsInjective(page'[x].free) /\ IsInjective(page'[x].local)
      BY <1>0, <1>16, <1>19, EmptyList DEF ListInv, CalmInv
    <2> QED
      BY <1>0, <1>24, <2>1, SegmentOfIs DEF ListInv, CalmInv
  <1>30. BlockInv'
    <2>1. PICK x \in Word : x = <<p, 0>> /\ x[1] = p /\ x[2] = 0
      <3>1. 0 \in Offset
        BY <1>16
      <3> QED
        BY ONLY <3>1, BlockIsExtent, p \in Page, b \in Bin
    <2>2. PICK Q : Q = {y \in Word : y[1] = p /\ y[2] \in Starts(b)}
      OBVIOUS
    <2>3. x \in Q /\ Q \cap Blocks = {}
      BY <1>4, <1>8, <2>1, <2>2 DEF Blocks
    <2>4. ASSUME NEW y \in Word
          PROVE  /\ y \in Free' <=> y \in (Free \cup Q) \ {x}
                 /\ y \in LocallyFree' <=> y \in LocallyFree
                 /\ y \in Pending' <=> y \in Pending
                 /\ y \in Blocks' <=> y \in Blocks \cup Q
      <3>1. y[1] \in Page /\ SegmentOf(y[1]) \in Segment /\ y = <<y[1], y[2]>>
        BY WordIs
      <3>2. Active(SegmentOf(y[1]))' <=> Active(SegmentOf(y[1]))
        BY <1>24, <3>1
      <3>3. CASE y[1] = p
        <4>1. y = x <=> y[2] = 0
          BY <2>1, <3>1, <3>3
        <4>2. Active(SegmentOf(y[1]))
          BY <1>26, <3>3
        <4>3. y \in Q <=> y[2] \in {0} \cup Range(page'[p].free)
          BY <1>4, <1>16, <2>2, <3>3
        <4>4. page[p].free = <<>> /\ page[p].local = <<>>
          BY <1>1 DEF Blank
        <4>5. y \in Free' <=> y \in (Free \cup Q) \ {x}
          BY <1>16, <3>2, <3>3, <4>1, <4>2, <4>3, <4>4, EmptyList DEF Free
        <4>6. y \in LocallyFree' <=> y \in LocallyFree
          BY <1>16, <3>2, <3>3, <4>2, <4>4 DEF LocallyFree
        <4>7. y \in Pending' <=> y \in Pending
          BY <1>0, <3>2 DEF Pending
        <4>8. y \in Blocks' <=> y \in Blocks \cup Q
          BY <1>8, <1>16, <1>20, <2>2, <3>2, <3>3, <4>2 DEF Blocks
        <4> QED
          BY <4>5, <4>6, <4>7, <4>8
      <3>4. CASE y[1] # p
        <4>1. /\ page'[y[1]].free = page[y[1]].free /\ page'[y[1]].local = page[y[1]].local
              /\ page'[y[1]].bin = page[y[1]].bin /\ (Carved(y[1])' <=> Carved(y[1]))
          BY <1>19, <3>1, <3>4
        <4>2. y \notin Q /\ y # x
          BY <2>1, <2>2, <3>4
        <4>3. (y \in Free' <=> y \in Free) /\ (y \in LocallyFree' <=> y \in LocallyFree)
              /\ (y \in Pending' <=> y \in Pending) /\ (y \in Blocks' <=> y \in Blocks)
          BY <1>0, <3>2, <4>1 DEF Free, LocallyFree, Pending, Blocks
        <4> QED
          BY <4>2, <4>3
      <3> QED
        BY <3>3, <3>4
    <2>5. Free' = (Free \cup Q) \ {x} /\ LocallyFree' = LocallyFree /\ Pending' = Pending /\ Blocks' = Blocks \cup Q
      <3>1. Free \subseteq Word /\ Free' \subseteq Word /\ LocallyFree \subseteq Word /\ LocallyFree' \subseteq Word
            /\ Pending \subseteq Word /\ Pending' \subseteq Word /\ Blocks \subseteq Word /\ Blocks' \subseteq Word
            /\ Q \subseteq Word
        BY <2>2 DEF Free, LocallyFree, Pending, Blocks
      <3> QED
        BY <2>4, <3>1
    <2>6. Pushed' = Pushed
      <3>1. \A d \in Client : op'[d].block = op[d].block
        BY <1>3, <1>17 DEF OthersKept, NoOp
      <3> QED
        BY <3>1 DEF Pushed
    <2>7. Partition(Free \cup Q, LocallyFree, Pending, Held, Pushed, Blocks \cup Q)
      BY <1>0, <2>3, HeldTypes, BlocksCarved DEF BlockInv, CalmInv
    <2>8. Partition((Free \cup Q) \ {x}, LocallyFree, Pending, [Held EXCEPT ![c] = @ \cup {x}], Pushed, Blocks \cup Q)
      <3>1. x \in Free \cup Q
        BY <2>3
      <3> QED
        BY <2>7, <3>1, HeldTypes, BlockTaken
    <2> QED
      BY <1>21, <2>1, <2>5, <2>6, <2>8 DEF BlockInv
  <1>31. WorkOk(c)'
    BY <1>17 DEF WorkOk
  <1>32. \A j \in Own(c) : segment'[j].tid # 0
    BY <1>0, OwnIs DEF Client
  <1>33. ASSUME NEW x \in Page, SegmentOf(x) \in Own(c), Active(SegmentOf(x))'
         PROVE  PageOk(x)'
    <2>1. CASE x = p
      BY <1>20, <2>1 DEF PageOk
    <2>2. CASE x # p
      <3>1. Active(SegmentOf(x)) /\ Owns(c, SegmentOf(x))
        BY <1>24, <1>33 DEF Own
      <3>2. \/ Blank(x) /\ page[x].bin = NONE
            \/ Carved(x)
        BY <1>0, <1>1, <2>2, <3>1 DEF PagesInv, CalmInv
      <3> QED
        BY <1>19, <2>2, <3>2 DEF PageOk
    <2> QED
      BY <2>1, <2>2
  <1>34. ASSUME NEW a \in Bin \cup {NONE}
         PROVE  Linked(page', queue'[c][a], Class(c, a)')
    <2>1. CASE a = b
      <3>1. 0 \notin Class(c, b) \cup {p}
            /\ \A x \in Class(c, b) \cup {p} : page'[x].next = g[x].next /\ page'[x].prev = g[x].prev
        BY <1>8, <1>16, ZeroIsNoPage
      <3>2. Linked(page', h, Class(c, b) \cup {p})
        BY <1>11, <3>1, LinkedSame
      <3> QED
        BY <1>18, <1>25, <2>1, <3>2
    <2>2. CASE a # b
      <3>1. Linked(page, queue[c][a], Class(c, a))
        BY <1>0, <2>2 DEF LinkInv, CalmInv
      <3>2. \A x \in Class(c, a) : x \in Page /\ x # p /\ x \notin Class(c, b)
        BY <1>20, <2>2 DEF Class
      <3>3. 0 \notin Class(c, a) /\ \A x \in Class(c, a) : page'[x] = page[x]
        BY <1>19, <3>2, ZeroIsNoPage
      <3>4. Linked(page', queue[c][a], Class(c, a))
        BY <3>1, <3>3, LinkedSame
      <3> QED
        BY <1>18, <1>25, <2>2, <3>4
    <2> QED
      BY <2>1, <2>2
  <1>35. ASSUME NEW j \in Own(c), Active(j)'
         PROVE  CountOk(j)'
    <2>1. Active(j) /\ j \in Segment /\ Owns(c, j)
      BY <1>35, OwnIs DEF Own
    <2>2. segment[j].used = Cardinality(InUse(j)) /\ InUse(j) # {}
      BY <1>0, <2>1 DEF CountInv, CalmInv
    <2> QED
      BY <1>0, <1>24, <2>1, <2>2 DEF CountOk
  <1>36. status'[c] = "run" /\ \A d \in Client \ {c} : held'[d] = held[d]
    BY <1>0, <1>15 DEF TypeOK
  <1> QED
    BY <1>0, <1>21, <1>22, <1>23, <1>27, <1>28, <1>29, <1>30, <1>31, <1>32, <1>33, <1>34, <1>35, <1>36, WithinStep

(* A block that a client frees to its own page. *)
LEMMA FreedIs ==
  ASSUME TypeOK, BlockInv, ListInv, NEW c \in Client, NEW x \in Word, x \in Held[c],
         NEW p \in Page, p = x[1], NEW f, f = FreeOn(page, x)
  PROVE  /\ f \in [Page -> PageType] /\ \A y \in Page \ {p} : f[y] = page[y]
         /\ f[p].free = page[p].free /\ f[p].bin = page[p].bin
         /\ f[p].next = page[p].next /\ f[p].prev = page[p].prev
         /\ f[p].used = page[p].used - 1 /\ Len(f[p].local) = Len(page[p].local) + 1
         /\ Range(f[p].local) = Range(page[p].local) \cup {x[2]} /\ IsInjective(f[p].local)
         /\ Active(SegmentOf(p)) /\ Carved(p) /\ x[2] \in Starts(page[p].bin)
         /\ x \notin LocallyFree
  <1>1. x \in Blocks /\ x \notin LocallyFree
    BY DEF BlockInv, Partition
  <1>2. Active(SegmentOf(p)) /\ Carved(p) /\ x[2] \in Starts(page[p].bin)
    BY <1>1 DEF Blocks
  <1>3. PICK w \in Offset : w = x[2] /\ x = <<p, w>>
    BY WordIs
  <1>4. PICK y \in PageType : y = page[p]
    BY DEF TypeOK
  <1>5. PICK l \in Seq(Offset) : l = y.local
    BY PageFields
  <1>6. PICK m : m = <<w>> \o l
    OBVIOUS
  <1>7. PICK z : z = WithFreed(y, w)
    OBVIOUS
  <1>8. f \in [Page -> PageType] /\ f[p] = z /\ \A v \in Page \ {p} : f[v] = page[v]
    <2>1. page \in [Page -> PageType]
      BY DEF TypeOK
    <2>2. FreeOn(page, x) \in [Page -> PageType]
      BY <2>1, FreeOnIs
    <2>3. f[p] = WithFreed(page[p], w)
      BY <1>3, <2>1, FreeOnIs
    <2>4. \A v \in Page \ {p} : f[v] = page[v]
      BY <2>1, FreeOnIs
    <2> QED
      BY <1>4, <1>7, <2>2, <2>3, <2>4
  <1>9. /\ z.local = m /\ z.free = y.free /\ z.bin = y.bin /\ z.next = y.next /\ z.prev = y.prev
        /\ z.used = y.used - 1
    BY <1>5, <1>6, <1>7 DEF WithFreed, PageType
  <1>10. w \notin Range(l) /\ IsInjective(l)
    BY <1>1, <1>2, <1>3, <1>4, <1>5 DEF LocallyFree, ListInv
  <1>11. Len(m) = Len(l) + 1 /\ Range(m) = {w} \cup Range(l) /\ IsInjective(m)
    <2>1. Prepended(Offset, w, l, m)
      BY <1>6, Prepend
    <2> QED
      BY <1>10, <2>1 DEF Prepended
  <1> QED
    BY <1>1, <1>2, <1>3, <1>4, <1>5, <1>8, <1>9, <1>11

LEMMA FreedMoved ==
  ASSUME TypeOK, BlockInv, ListInv, NEW c \in Client, NEW x \in Word, x \in Held[c],
         NEW f, f = FreeOn(page, x)
  PROVE  /\ Moved(f) /\ Distinct(f)
         /\ FreeIn(f) = Free /\ LocalIn(f) = LocallyFree \cup {x}
  <1>1. PICK p \in Page : p = x[1]
    BY WordIs
  <1>2. /\ f \in [Page -> PageType] /\ \A y \in Page \ {p} : f[y] = page[y]
        /\ f[p].free = page[p].free /\ f[p].bin = page[p].bin
        /\ f[p].next = page[p].next /\ f[p].prev = page[p].prev
        /\ f[p].used = page[p].used - 1 /\ Len(f[p].local) = Len(page[p].local) + 1
        /\ Range(f[p].local) = Range(page[p].local) \cup {x[2]} /\ IsInjective(f[p].local)
        /\ Active(SegmentOf(p)) /\ Carved(p)
    BY <1>1, FreedIs
  <1>3. f[p].used + Len(f[p].free) + Len(f[p].local)
          = page[p].used + Len(page[p].free) + Len(page[p].local)
    <2>1. PICK i \in Int, m \in Nat, l \in Nat :
            i = page[p].used /\ m = Len(page[p].free) /\ l = Len(page[p].local)
      BY PageFields DEF TypeOK
    <2>2. f[p].used = i - 1 /\ Len(f[p].free) = m /\ Len(f[p].local) = l + 1
      BY <1>2, <2>1
    <2>3. (i - 1) + m + (l + 1) = i + m + l
      OBVIOUS
    <2> QED
      BY <2>1, <2>2, <2>3
  <1>4. Moved(f)
    BY <1>2, <1>3 DEF Moved
  <1>5. Distinct(f)
    BY <1>2 DEF Distinct, ListInv
  <1>6. \A y \in Word : /\ y \in FreeIn(f) <=> y \in Free
                        /\ y \in LocalIn(f) <=> y \in LocallyFree \/ y = x
    <2> TAKE y \in Word
    <2>1. y[1] \in Page /\ y = <<y[1], y[2]>> /\ x = <<x[1], x[2]>>
      BY WordIs
    <2>2. CASE y[1] # p
      BY <1>1, <1>2, <2>1, <2>2 DEF FreeIn, LocalIn, Free, LocallyFree
    <2>3. CASE y[1] = p
      <3>1. y = x <=> y[2] = x[2]
        BY <1>1, <2>1, <2>3
      <3> QED
        BY <1>1, <1>2, <2>1, <2>3, <3>1 DEF FreeIn, LocalIn, Free, LocallyFree
    <2> QED
      BY <2>2, <2>3
  <1> QED
    BY <1>4, <1>5, <1>6 DEF FreeIn, LocalIn, Free, LocallyFree

LEMMA FreeBlockStep ==
  ASSUME HeapInv, NEW c \in Client, NEW e \in held[c], FreeLocal(c, e),
         page' = FreeOn(page, <<e[1], e[2]>>), UNCHANGED <<segment, queue, pc, op>>
  PROVE  HeapInv'
  <1> USE DEF HeapInv
  <1>0. /\ Calm /\ CalmInv /\ status[c] = "run" /\ pc[c] = "idle"
        /\ held' = [held EXCEPT ![c] = @ \ {e}] /\ word' = ClearHeader(word, e[1], e[2])
        /\ UNCHANGED <<owner, info, status, mon, mallocs>>
    BY RunningCalm DEF FreeLocal, At, shared
  <1>1. /\ e \in Extent /\ <<e[1], e[2]>> \in Held[c]
    BY <1>0, HeldIsBlock DEF CalmInv
  <1>2. PICK x \in Word : x = <<e[1], e[2]>> /\ x \in Held[c]
    BY <1>1, ExtentIs
  <1>3. PICK f : f = FreeOn(page, x) /\ page' = f
    BY <1>2
  <1>4. f \in [Page -> PageType]
    <2>1. page \in [Page -> PageType]
      BY DEF TypeOK
    <2> QED
      BY <1>3, <2>1, FreeOnIs
  <1>5. Moved(f) /\ Distinct(f) /\ FreeIn(f) = Free /\ LocalIn(f) = LocallyFree \cup {x}
    BY <1>0, <1>2, <1>3, FreedMoved DEF CalmInv
  <1>6. HeaderInv' /\ word' \in [Word -> {"clear", "live", "junk"}] /\ held' \in [Client -> SUBSET Extent]
    BY <1>0, HeaderCleared
  <1>7. TypeOK'
    BY <1>0, <1>3, <1>4, <1>6 DEF TypeOK
  <1>8. PagesSteady
    BY <1>3, <1>5, <1>7, MovedSteady
  <1>9. SameStates /\ OthersKept(c) /\ Steady
    BY <1>0 DEF SameStates, OthersKept, Steady
  <1>10. ClientInv(c)'
    BY <1>0 DEF ClientInv
  <1>11. /\ \A k \in Segment : Active(k)' <=> Active(k)
         /\ Blocks' = Blocks
    BY <1>8, <1>9, PagesKept
  <1>12. ListInv'
    BY <1>0, <1>3, <1>5, <1>11, SegmentOfIs DEF ListInv, CalmInv, Distinct
  <1>13. SizeInv'
    <2>1. \A d \in Client : held'[d] \subseteq held[d] /\ held[d] \subseteq Extent
      BY <1>0 DEF TypeOK
    <2>2. \A d \in Client : \A y \in held[d] : y[1] \in Page
      BY <2>1, ExtentIs
    <2>3. \A y \in Page : page'[y].bin = page[y].bin
      BY <1>8 DEF PagesSteady
    <2> QED
      BY <1>0, <2>1, <2>2, <2>3 DEF SizeInv, CalmInv
  <1>14. BlockInv'
    <2>1. Held' = [Held EXCEPT ![c] = @ \ {x}]
      BY <1>0, <1>2, HeldWithout DEF CalmInv
    <2>2. Pushed' = Pushed
      BY <1>0 DEF Pushed
    <2>3. \A y \in Word : SegmentOf(y[1]) \in Segment
      BY WordIs
    <2>4. Free' = FreeIn(f) /\ LocallyFree' = LocalIn(f) /\ Pending' = Pending
      BY <1>0, <1>3, <1>11, <2>3 DEF Free, LocallyFree, Pending, FreeIn, LocalIn
    <2>5. Partition(Free, LocallyFree \cup {x}, Pending, [Held EXCEPT ![c] = @ \ {x}], Pushed, Blocks)
      BY <1>0, <1>2, HeldTypes, BlockFreed DEF BlockInv, CalmInv
    <2> QED
      BY <1>5, <1>11, <2>1, <2>2, <2>4, <2>5 DEF BlockInv
  <1>15. \A d \in Client \ {c} : held'[d] = held[d]
    BY <1>0 DEF TypeOK
  <1> QED
    BY <1>0, <1>6, <1>7, <1>8, <1>9, <1>10, <1>12, <1>13, <1>14, <1>15, BlocksStep

-----------------------------------------------------------------------------
(* The last used block of a page: all its blocks are on its lists.          *)
LEMMA InjectiveCard ==
  ASSUME NEW S, NEW s \in Seq(S), IsInjective(s)
  PROVE  IsFiniteSet(Range(s)) /\ Cardinality(Range(s)) = Len(s)
  <1>1. Len(s) \in Nat /\ DOMAIN s = 1 .. Len(s) /\ s \in [1 .. Len(s) -> S]
    BY LenProperties
  <1>2. PICK n \in Nat : n = Len(s)
    BY <1>1
  <1>3. s \in Surjection(1 .. n, Range(s))
    BY <1>1, <1>2 DEF Surjection, Range
  <1>4. s \in Injection(1 .. n, Range(s))
    BY <1>1, <1>2, <1>3 DEF Injection, Surjection, IsInjective
  <1>5. IsFiniteSet(1 .. n) /\ Cardinality(1 .. n) = n
    BY FS_Interval
  <1> QED
    BY <1>2, <1>3, <1>4, <1>5, FS_Surjection

LEMMA AllOnLists ==
  ASSUME NEW l \in Seq(Offset), NEW m \in Seq(Offset), IsInjective(l), IsInjective(m),
         Range(l) \cap Range(m) = {}, NEW S, IsFiniteSet(S), Range(l) \cup Range(m) \subseteq S,
         Cardinality(S) = Len(l) + Len(m)
  PROVE  Range(l) \cup Range(m) = S
  <1>1. PICK L, M : L = Range(l) /\ M = Range(m)
    OBVIOUS
  <1>2. IsFiniteSet(L) /\ Cardinality(L) = Len(l) /\ IsFiniteSet(M) /\ Cardinality(M) = Len(m)
    BY <1>1, InjectiveCard
  <1>3. Len(l) \in Nat /\ Len(m) \in Nat
    BY LenProperties
  <1>4. Cardinality(L \cap M) = 0
    <2>1. PICK I : I = L \cap M
      OBVIOUS
    <2>2. I = {}
      BY <1>1, <2>1
    <2>3. Cardinality(I) = 0
      BY <2>2, FS_EmptySet
    <2> QED
      BY ONLY <2>1, <2>3, Zenon
  <1>5. Cardinality(L \cup M) = Cardinality(L) + Cardinality(M) - Cardinality(L \cap M)
    BY <1>2, FS_Union
  <1>6. Cardinality(L \cup M) = Cardinality(S)
    BY <1>2, <1>3, <1>4, <1>5
  <1>7. L \cup M \in SUBSET S
    BY <1>1
  <1> QED
    BY <1>1, <1>6, <1>7, FS_Subset

(* The blocks of page p. *)
BlocksOn(p) == {y \in Word : y[1] = p /\ y[2] \in Starts(page[p].bin)}

LEMMA LastUsedIs ==
  ASSUME TypeOK, BlockInv, ListInv, NEW c \in Client, NEW x \in Word, x \in Held[c],
         NEW p \in Page, p = x[1], NEW f, f = FreeOn(page, x), f[p].used = 0
  PROVE  /\ x \in BlocksOn(p)
         /\ Partition(Free \ BlocksOn(p), LocallyFree \ BlocksOn(p), Pending, [Held EXCEPT ![c] = @ \ {x}],
                      Pushed, Blocks \ BlocksOn(p))
  <1>1. /\ f \in [Page -> PageType]
        /\ f[p].free = page[p].free /\ f[p].bin = page[p].bin
        /\ f[p].used = page[p].used - 1 /\ Len(f[p].local) = Len(page[p].local) + 1
        /\ Range(f[p].local) = Range(page[p].local) \cup {x[2]} /\ IsInjective(f[p].local)
        /\ Active(SegmentOf(p)) /\ Carved(p) /\ x[2] \in Starts(page[p].bin)
        /\ x \notin LocallyFree
    <2>1. TypeOK /\ BlockInv /\ ListInv /\ x \in Held[c] /\ p = x[1] /\ f = FreeOn(page, x)
      OBVIOUS
    <2>2. /\ f \in [Page -> PageType]
          /\ f[p].free = page[p].free /\ f[p].bin = page[p].bin
          /\ f[p].used = page[p].used - 1 /\ Len(f[p].local) = Len(page[p].local) + 1
      BY ONLY <2>1, FreedIs
    <2>3. Range(f[p].local) = Range(page[p].local) \cup {x[2]} /\ IsInjective(f[p].local)
      BY ONLY <2>1, FreedIs
    <2>4. Active(SegmentOf(p)) /\ Carved(p) /\ x[2] \in Starts(page[p].bin) /\ x \notin LocallyFree
      BY ONLY <2>1, FreedIs
    <2> QED
      BY <2>2, <2>3, <2>4
  <1>2. PICK l \in Seq(Offset), m \in Seq(Offset), b \in Bin :
          l = f[p].free /\ m = f[p].local /\ b = page[p].bin
    BY <1>1, PageFields DEF Carved
  <1>3. /\ Free \subseteq Blocks /\ LocallyFree \subseteq Blocks /\ x \in Blocks
        /\ Free \cap (LocallyFree \cup {x}) = {}
    BY DEF BlockInv, Partition
  <1>4. ASSUME NEW w \in Offset
        PROVE  /\ w \in Range(l) <=> <<p, w>> \in Free
               /\ w \in Range(m) <=> <<p, w>> \in LocallyFree \cup {x}
               /\ w \in Starts(b) <=> <<p, w>> \in Blocks
    <2>1. PICK y \in Word : y = <<p, w>> /\ y[1] = p /\ y[2] = w
      BY <1>2, BlockIsExtent
    <2>2. x = <<p, x[2]>>
      BY WordIs
    <2>3. y = x <=> w = x[2]
      BY <2>1, <2>2
    <2> QED
      BY <1>1, <1>2, <2>1, <2>3 DEF Free, LocallyFree, Blocks
  <1>5. Range(l) \subseteq Offset /\ Range(m) \subseteq Offset
    BY RangeOfSeq
  <1>6. Range(l) \cup Range(m) \subseteq Starts(b) /\ Range(l) \cap Range(m) = {}
    BY <1>3, <1>4, <1>5
  <1>7. IsFiniteSet(Starts(b)) /\ Cardinality(Starts(b)) = Len(BlocksOf(b)) /\ Starts(b) \subseteq Offset
    BY BlocksFacts
  <1>8. Len(l) + Len(m) = Len(BlocksOf(b))
    <2>1. PICK i \in Int, j \in Nat, n \in Nat :
            i = page[p].used /\ j = Len(page[p].free) /\ n = Len(page[p].local)
      BY PageFields DEF TypeOK
    <2>2. i - 1 = 0 /\ Len(l) = j /\ Len(m) = n + 1
      BY <1>1, <1>2, <2>1
    <2>3. Len(BlocksOf(b)) = i + j + n
      BY <1>1, <1>2, <2>1 DEF Carved
    <2> QED
      BY <2>2, <2>3
  <1>9. IsInjective(l) /\ IsInjective(m)
    BY <1>1, <1>2 DEF ListInv
  <1>10. Range(l) \cup Range(m) = Starts(b)
    BY <1>6, <1>7, <1>8, <1>9, AllOnLists
  <1>11. PICK Q : Q = BlocksOn(p)
    OBVIOUS
  <1>12. Q \subseteq Free \cup (LocallyFree \cup {x}) /\ x \in Q
    <2>1. ASSUME NEW y \in Q
          PROVE  y \in Free \cup (LocallyFree \cup {x})
      <3>1. y \in Word /\ y[1] = p /\ y[2] \in Starts(b)
        BY <1>2, <1>11 DEF BlocksOn
      <3>2. y = <<p, y[2]>> /\ y[2] \in Offset
        BY <3>1, WordIs
      <3> QED
        BY <1>4, <1>10, <3>1, <3>2
    <2> QED
      BY <1>1, <1>11, <2>1 DEF BlocksOn
  <1>13. PICK G \in [Client -> SUBSET Word], D \in [Client -> SUBSET Word] : G = Held /\ D = Pushed
    BY HeldTypes
  <1>14. Partition(Free, LocallyFree \cup {x}, Pending, [G EXCEPT ![c] = @ \ {x}], D, Blocks)
    BY <1>13, BlockFreed DEF BlockInv
  <1>15. PICK H : H = [G EXCEPT ![c] = @ \ {x}]
    OBVIOUS
  <1>16. H \in [Client -> SUBSET Word]
    BY ONLY <1>15, G \in [Client -> SUBSET Word]
  <1>17. Partition(Free \ Q, (LocallyFree \cup {x}) \ Q, Pending, H, D, Blocks \ Q)
    <2>1. Q \subseteq Free \cup (LocallyFree \cup {x})
      BY <1>12
    <2>2. PICK L : L = LocallyFree \cup {x}
      OBVIOUS
    <2>3. Q \subseteq Free \cup L /\ Partition(Free, L, Pending, H, D, Blocks)
      BY <1>14, <1>15, <2>1, <2>2
    <2>4. Partition(Free \ Q, L \ Q, Pending, H, D, Blocks \ Q)
      BY ONLY <1>16, <2>3, D \in [Client -> SUBSET Word], BlocksDropped
    <2> QED
      BY <2>2, <2>4
  <1>18. (LocallyFree \cup {x}) \ Q = LocallyFree \ Q
    BY <1>12
  <1> QED
    BY <1>11, <1>12, <1>13, <1>15, <1>17, <1>18

(* Page p, whose blocks are all on its lists, goes; nothing else that      *)
(* carries blocks changes.                                                 *)
OnlyGone(p) ==
  /\ page'[p].free = <<>> /\ page'[p].local = <<>> /\ page'[p].used = 0 /\ page'[p].bin = NONE
  /\ \A y \in Page \ {p} :
       /\ page'[y].free = page[y].free /\ page'[y].local = page[y].local
       /\ page'[y].used = page[y].used /\ page'[y].bin = page[y].bin
       /\ Active(SegmentOf(y)) /\ ~ Active(SegmentOf(y))' => Blank(y) /\ page[y].bin = NONE
  /\ \A j \in Segment : Active(j)' => Active(j)
  /\ info' = info
  /\ \A d \in Client : op'[d].block = op[d].block

LEMMA GoneKeeps ==
  ASSUME NEW p \in Page, OnlyGone(p), TypeOK
  PROVE  /\ ~ Carved(p)' /\ Blank(p)'
         /\ \A y \in Page \ {p} : (Carved(y)' <=> Carved(y)) /\ (Blank(y)' <=> Blank(y))
         /\ \A y \in Page \ {p} : Carved(y) => (Active(SegmentOf(y))' <=> Active(SegmentOf(y)))
  <1>1. NONE \notin Bin
    BY SizeAssumption
  <1>2. ~ Carved(p)' /\ Blank(p)'
    BY <1>1 DEF OnlyGone, Carved, Blank
  <1>3. \A y \in Page \ {p} : (Carved(y)' <=> Carved(y)) /\ (Blank(y)' <=> Blank(y))
    BY DEF OnlyGone, Carved, Blank
  <1>4. \A y \in Page \ {p} : Carved(y) => (Active(SegmentOf(y))' <=> Active(SegmentOf(y)))
    BY <1>1, SegmentOfIs DEF OnlyGone, Carved
  <1> QED
    BY <1>2, <1>3, <1>4

LEMMA DroppedBlocks ==
  ASSUME TypeOK, BlockInv, ListInv, SizeInv, NEW c \in Client, NEW e \in held[c],
         NEW x \in Word, x = <<e[1], e[2]>>, NEW p \in Page, p = e[1],
         NEW f, f = FreeOn(page, x), f[p].used = 0,
         held' = [held EXCEPT ![c] = @ \ {e}], OnlyGone(p)
  PROVE  BlockInv' /\ ListInv' /\ SizeInv'
  <1>1. x \in Held[c] /\ p = x[1]
    BY HeldIsBlock
  <1>2. PICK Q : Q = BlocksOn(p)
    OBVIOUS
  <1>3. PICK H : H = [Held EXCEPT ![c] = @ \ {x}]
    OBVIOUS
  <1>4. /\ x \in Q
        /\ Partition(Free \ Q, LocallyFree \ Q, Pending, H, Pushed, Blocks \ Q)
    BY <1>1, <1>2, <1>3, LastUsedIs
  <1>5. Held' = H
    BY <1>3, HeldWithout
  <1>6. Pushed' = Pushed
    BY DEF Pushed, OnlyGone
  <1>7. /\ ~ Carved(p)' /\ Blank(p)'
        /\ \A y \in Page \ {p} : (Carved(y)' <=> Carved(y)) /\ (Blank(y)' <=> Blank(y))
        /\ \A y \in Page \ {p} : Carved(y) => (Active(SegmentOf(y))' <=> Active(SegmentOf(y)))
    BY GoneKeeps
  <1>8. Free \subseteq Blocks /\ LocallyFree \subseteq Blocks /\ Pending \subseteq Blocks \ Q
    BY <1>4 DEF BlockInv, Partition
  <1>9. ASSUME NEW y \in Word
        PROVE  /\ y \in Free' <=> y \in Free \ Q
               /\ y \in LocallyFree' <=> y \in LocallyFree \ Q
               /\ y \in Pending' <=> y \in Pending
               /\ y \in Blocks' <=> y \in Blocks \ Q
    <2>1. y[1] \in Page /\ SegmentOf(y[1]) \in Segment
      BY WordIs
    <2>2. Active(SegmentOf(y[1]))' => Active(SegmentOf(y[1]))
      BY <2>1 DEF OnlyGone
    <2>3. CASE y[1] = p
      <3>1. y \in Blocks => y \in Q
        BY <1>2, <2>3 DEF Blocks, BlocksOn
      <3>2. y \notin Free' /\ y \notin LocallyFree' /\ y \notin Blocks'
        BY <1>7, <2>3, EmptyList DEF Free, LocallyFree, Blocks, OnlyGone
      <3>3. y \notin Pending /\ y \notin Pending'
        <4>1. y \notin Pending
          BY <1>8, <3>1
        <4>2. y \in Pending' => y \in Pending
          BY <2>2 DEF Pending, OnlyGone
        <4> QED
          BY <4>1, <4>2
      <3> QED
        BY <1>8, <3>1, <3>2, <3>3
    <2>4. CASE y[1] # p
      <3>1. y \notin Q
        BY <1>2, <2>4 DEF BlocksOn
      <3>2. /\ page'[y[1]].free = page[y[1]].free /\ page'[y[1]].local = page[y[1]].local
            /\ page'[y[1]].bin = page[y[1]].bin /\ info' = info
            /\ Carved(y[1])' <=> Carved(y[1])
            /\ Carved(y[1]) => (Active(SegmentOf(y[1]))' <=> Active(SegmentOf(y[1])))
        BY <1>7, <2>1, <2>4 DEF OnlyGone
      <3>3. y \in Blocks => Carved(y[1])
        BY DEF Blocks
      <3>4. (y \in Free' <=> y \in Free) /\ (y \in LocallyFree' <=> y \in LocallyFree)
        BY <1>8, <2>2, <3>2, <3>3 DEF Free, LocallyFree
      <3>5. y \in Pending' <=> y \in Pending
        BY <1>8, <2>2, <3>2, <3>3 DEF Pending
      <3>6. y \in Blocks' <=> y \in Blocks
        BY <2>2, <3>2 DEF Blocks
      <3> QED
        BY <3>1, <3>4, <3>5, <3>6
    <2> QED
      BY <2>3, <2>4
  <1>10. Free' = Free \ Q /\ LocallyFree' = LocallyFree \ Q /\ Pending' = Pending /\ Blocks' = Blocks \ Q
    <2>1. Free \subseteq Word /\ Free' \subseteq Word /\ LocallyFree \subseteq Word /\ LocallyFree' \subseteq Word
          /\ Pending \subseteq Word /\ Pending' \subseteq Word /\ Blocks \subseteq Word /\ Blocks' \subseteq Word
      BY DEF Free, LocallyFree, Pending, Blocks
    <2> QED
      BY <1>9, <2>1
  <1>11. BlockInv'
    BY <1>4, <1>5, <1>6, <1>10 DEF BlockInv
  <1>12. ListInv'
    <2>1. \A y \in Page : Active(SegmentOf(y))' => IsInjective(page'[y].free) /\ IsInjective(page'[y].local)
      <3> TAKE y \in Page
      <3>1. CASE y = p
        BY <3>1, EmptyList DEF OnlyGone
      <3>2. CASE y # p
        BY <3>2, SegmentOfIs DEF OnlyGone, ListInv
      <3> QED
        BY <3>1, <3>2
    <2> QED
      BY <2>1 DEF OnlyGone, ListInv
  <1>13. SizeInv'
    <2> SUFFICES ASSUME NEW d \in Client, NEW g \in held'[d]
                 PROVE  g[3] = Size[page'[g[1]].bin]
      BY DEF SizeInv
    <2>1. g \in held[d] /\ g \in Extent
      BY DEF TypeOK
    <2>2. PICK y \in Word : y = <<g[1], g[2]>>
      BY <2>1, ExtentIs
    <2>3. y \in Held'[d]
      BY <2>2 DEF Held
    <2>4. y \in Blocks \ Q
      BY <1>4, <1>5, <2>3 DEF Partition
    <2>5. y[1] # p
      BY <1>2, <2>4 DEF Blocks, BlocksOn
    <2>6. g[1] \in Page \ {p}
      BY <2>1, <2>2, <2>5, ExtentIs
    <2>7. g[3] = Size[page[g[1]].bin]
      BY <2>1 DEF SizeInv
    <2> QED
      BY <2>6, <2>7 DEF OnlyGone
  <1> QED
    BY <1>11, <1>12, <1>13

(* A page goes from one queue to another, its header cleared between. *)
Regrouped(s, t, f, C, F, p) ==
  /\ s.q \in QueueType /\ t.q \in QueueType /\ t.pages \in [Page -> PageType]
  /\ Linked(t.pages, s.q, C \ {p}) /\ Linked(t.pages, t.q, F \cup {p})
  /\ \A x \in Page \ {p} : SameBlocks(t.pages[x], f[x])
  /\ SameBlocks(t.pages[p], ZeroPage) /\ SameOutside(t.pages, f, C \cup F)

LEMMA PageGiven ==
  ASSUME NEW f \in [Page -> PageType], NEW q \in QueueType, NEW n \in QueueType,
         NEW C, C \subseteq Page, NEW F, F \subseteq Page, C \cap F = {}, NEW p \in Page, p \in C,
         Linked(f, q, C), Linked(f, n, F),
         NEW s, s = RemovePage([pages |-> f, q |-> q], p),
         NEW t, t = PushPage([pages |-> [s.pages EXCEPT ![p] = ZeroPage], q |-> n], p)
  PROVE  Regrouped(s, t, f, C, F, p)
  <1>1. PICK g \in [Page -> PageType], r \in QueueType : g = s.pages /\ r = s.q
    BY RemoveLinked
  <1>2. /\ Linked(g, r, C \ {p}) /\ (\A x \in Page : SameBlocks(g[x], f[x])) /\ SameOutside(g, f, C)
    BY <1>1, RemoveLinked
  <1>3. ZeroPage \in PageType
    BY EmptySeq DEF ZeroPage, PageType
  <1>4. PICK z : z = [g EXCEPT ![p] = ZeroPage]
    OBVIOUS
  <1>5. z \in [Page -> PageType] /\ z[p] = ZeroPage /\ \A x \in Page \ {p} : z[x] = g[x]
    BY ONLY <1>3, <1>4, g \in [Page -> PageType], p \in Page
  <1>6. p \notin F /\ 0 \notin F /\ 0 \notin C
    BY ZeroIsNoPage
  <1>7. Linked(z, n, F)
    <2>1. \A x \in F : z[x] = f[x]
      BY <1>2, <1>5, <1>6 DEF SameOutside
    <2> QED
      BY <1>6, <2>1, LinkedSame
  <1>8. t = PushPage([pages |-> z, q |-> n], p)
    BY <1>1, <1>4
  <1>15. z \in [Page -> PageType] /\ F \subseteq Page /\ p \in Page \ F /\ n \in QueueType
    BY <1>5, <1>6
  <1>16. PICK v : v = PushPage([pages |-> z, q |-> n], p) /\ v = t
    BY <1>8
  <1>17. /\ v.pages \in [Page -> PageType] /\ v.q \in QueueType
         /\ Linked(v.pages, v.q, F \cup {p})
         /\ \A x \in Page : SameBlocks(v.pages[x], z[x])
         /\ SameOutside(v.pages, z, F \cup {p})
    <2>1. /\ z \in [Page -> PageType] /\ n \in QueueType /\ F \subseteq Page
          /\ p \in Page \ F /\ Linked(z, n, F) /\ v = PushPage([pages |-> z, q |-> n], p)
      BY <1>7, <1>15, <1>16
    <2>2. v.pages \in [Page -> PageType] /\ v.q \in QueueType
      BY ONLY <2>1, PushLinked
    <2>3. Linked(v.pages, v.q, F \cup {p})
      BY ONLY <2>1, PushLinked
    <2>4. \A x \in Page : SameBlocks(v.pages[x], z[x])
      BY ONLY <2>1, PushLinked
    <2>5. SameOutside(v.pages, z, F \cup {p})
      BY ONLY <2>1, PushLinked
    <2> QED
      BY ONLY <2>2, <2>3, <2>4, <2>5
  <1>9. PICK h \in [Page -> PageType], u \in QueueType : h = v.pages /\ u = v.q /\ h = t.pages /\ u = t.q
    BY <1>16, <1>17
  <1>10. Linked(h, u, F \cup {p}) /\ (\A x \in Page : SameBlocks(h[x], z[x])) /\ SameOutside(h, z, F \cup {p})
    BY <1>9, <1>17
  <1>11. Linked(h, r, C \ {p})
    <2>1. \A x \in C \ {p} : h[x] = g[x]
      BY <1>5, <1>10 DEF SameOutside
    <2>2. 0 \notin C \ {p}
      BY <1>6
    <2> QED
      BY <1>2, <2>1, <2>2, LinkedSame
  <1>12. \A x \in Page \ {p} : SameBlocks(h[x], f[x])
    BY <1>2, <1>5, <1>10 DEF SameBlocks
  <1>13. SameBlocks(h[p], ZeroPage)
    BY <1>5, <1>10
  <1>14. SameOutside(h, f, C \cup F)
    BY <1>2, <1>5, <1>10 DEF SameOutside
  <1> QED
    BY <1>1, <1>9, <1>10, <1>11, <1>12, <1>13, <1>14 DEF Regrouped

(* The last block of page p of client c has been freed, and p put back on  *)
(* free_page.                                                              *)
Given(c, b, p, s, t) ==
  /\ s.q \in QueueType /\ t.q \in QueueType /\ t.pages \in [Page -> PageType]
  /\ Linked(t.pages, s.q, Class(c, b) \ {p}) /\ Linked(t.pages, t.q, Class(c, NONE) \cup {p})
  /\ \A y \in Page \ {p} : SameBlocks(t.pages[y], page[y])
  /\ SameBlocks(t.pages[p], ZeroPage)
  /\ SameOutside(t.pages, page, Class(c, b) \cup Class(c, NONE))
  /\ p \in Class(c, b) /\ Owns(c, SegmentOf(p)) /\ Carved(p)

LEMMA GivenBack ==
  ASSUME HeapInv, CalmInv, NEW c \in Client, status[c] = "run", NEW e \in held[c],
         segment[SegmentOf(e[1])].tid = c, NEW p \in Page, p = e[1], NEW b \in Bin, b = page[p].bin,
         NEW f, f = FreeOn(page, <<p, e[2]>>),
         NEW s, s = RemovePage([pages |-> f, q |-> queue[c][b]], p),
         NEW t, t = PushPage([pages |-> [s.pages EXCEPT ![p] = ZeroPage], q |-> queue[c][NONE]], p)
  PROVE  Given(c, b, p, s, t)
  <1> USE DEF HeapInv
  <1>1. PICK x \in Word : x = <<p, e[2]>> /\ x \in Held[c] /\ x[1] = p
    <2>1. e \in Extent /\ <<e[1], e[2]>> \in Held[c]
      BY HeldIsBlock DEF CalmInv
    <2> QED
      BY <2>1, ExtentIs
  <1>2. /\ f \in [Page -> PageType] /\ \A y \in Page \ {p} : f[y] = page[y]
        /\ f[p].free = page[p].free /\ f[p].bin = page[p].bin
        /\ f[p].next = page[p].next /\ f[p].prev = page[p].prev
        /\ Active(SegmentOf(p)) /\ Carved(p)
    BY <1>1, FreedIs DEF CalmInv
  <1>3. PICK q \in QueueType, n \in QueueType : q = queue[c][b] /\ n = queue[c][NONE]
    BY DEF TypeOK
  <1>4. PICK C, F : C = Class(c, b) /\ F = Class(c, NONE)
    OBVIOUS
  <1>5. b # NONE
    BY SizeAssumption
  <1>6. C \subseteq Page /\ F \subseteq Page /\ C \cap F = {} /\ 0 \notin C /\ 0 \notin F
    BY <1>4, <1>5, ZeroIsNoPage DEF Class
  <1>7. Owns(c, SegmentOf(p)) /\ p \in C
    BY <1>2, <1>4 DEF Class, Owns, Active
  <1>8. Linked(f, q, C) /\ Linked(f, n, F)
    <2>1. Linked(page, q, C) /\ Linked(page, n, F)
      BY <1>3, <1>4 DEF LinkInv, CalmInv
    <2>2. \A y \in Page : f[y].next = page[y].next /\ f[y].prev = page[y].prev
      BY <1>2
    <2> QED
      BY <1>6, <2>1, <2>2, LinkedSame
  <1>9. PICK g, h : /\ g = RemovePage([pages |-> f, q |-> q], p) /\ g = s
                    /\ h = PushPage([pages |-> [g.pages EXCEPT ![p] = ZeroPage], q |-> n], p) /\ h = t
    BY <1>3
  <1>10. /\ f \in [Page -> PageType] /\ q \in QueueType /\ n \in QueueType
         /\ C \subseteq Page /\ F \subseteq Page /\ C \cap F = {} /\ p \in Page /\ p \in C
         /\ Linked(f, q, C) /\ Linked(f, n, F)
         /\ g = RemovePage([pages |-> f, q |-> q], p)
         /\ h = PushPage([pages |-> [g.pages EXCEPT ![p] = ZeroPage], q |-> n], p)
    BY <1>2, <1>6, <1>7, <1>8, <1>9
  <1>11. Regrouped(g, h, f, C, F, p)
    BY ONLY <1>10, PageGiven
  <1>13. /\ g.q \in QueueType /\ h.q \in QueueType /\ h.pages \in [Page -> PageType]
         /\ Linked(h.pages, g.q, C \ {p}) /\ Linked(h.pages, h.q, F \cup {p})
         /\ \A y \in Page \ {p} : SameBlocks(h.pages[y], f[y])
         /\ SameBlocks(h.pages[p], ZeroPage) /\ SameOutside(h.pages, f, C \cup F)
    BY ONLY <1>11 DEF Regrouped
  <1>14. \A y \in Page \ {p} : SameBlocks(h.pages[y], page[y])
    BY <1>2, <1>13
  <1>15. SameOutside(h.pages, page, C \cup F)
    BY <1>2, <1>7, <1>13 DEF SameOutside
  <1> QED
    BY <1>2, <1>4, <1>7, <1>9, <1>13, <1>14, <1>15 DEF Given

(* What cxl_free of the last used block of a page does, of which only the  *)
(* segment may still be in use.                                            *)
LEMMA LastFreed ==
  ASSUME HeapInv, NEW c \in Client, NEW e \in held[c], FreeLocal(c, e),
         LastUsed(FreeOn(page, <<e[1], e[2]>>), e[1])
  PROVE  /\ Calm /\ CalmInv /\ status[c] = "run" /\ pc[c] = "idle" /\ op[c].block = <<>>
         /\ held' = [held EXCEPT ![c] = @ \ {e}]
         /\ UNCHANGED <<owner, info, status, mon, mallocs>>
         /\ HeaderInv' /\ word' \in [Word -> {"clear", "live", "junk"}]
         /\ held' \in [Client -> SUBSET Extent]
         /\ \E p \in Page, x \in Word, b \in Bin, k \in Segment :
              /\ p = e[1] /\ x = <<p, e[2]>> /\ b = page[p].bin /\ b # NONE /\ k = SegmentOf(p)
              /\ k \in Own(c) /\ FreeOn(page, x)[p].used = 0 /\ FreePage(c, FreeOn(page, x), p)
              /\ FreeOn(page, x)[p].bin = b
  <1> USE DEF HeapInv
  <1>0. /\ Calm /\ CalmInv /\ status[c] = "run" /\ pc[c] = "idle" /\ op[c].block = <<>>
        /\ held' = [held EXCEPT ![c] = @ \ {e}] /\ word' = ClearHeader(word, e[1], e[2])
        /\ UNCHANGED <<owner, info, status, mon, mallocs>>
        /\ FreePage(c, FreeOn(page, <<e[1], e[2]>>), e[1])
        /\ FreeOn(page, <<e[1], e[2]>>)[e[1]].used = 0
    BY RunningCalm DEF FreeLocal, At, shared, ClientInv, LastUsed
  <1>1. HeaderInv' /\ word' \in [Word -> {"clear", "live", "junk"}] /\ held' \in [Client -> SUBSET Extent]
    BY <1>0, HeaderCleared
  <1>2. /\ e \in Extent /\ <<e[1], e[2]>> \in Held[c] /\ Active(SegmentOf(e[1])) /\ Carved(e[1])
    BY <1>0, HeldIsBlock DEF CalmInv
  <1>3. PICK p \in Page, x \in Word, k \in Segment :
          p = e[1] /\ x = <<e[1], e[2]>> /\ x[1] = p /\ k = SegmentOf(p)
    BY <1>2, ExtentIs
  <1>4. PICK b \in Bin : b = page[p].bin /\ b # NONE
    BY <1>2, <1>3, SizeAssumption DEF Carved
  <1>5. k \in Own(c)
    BY <1>2, <1>3 DEF FreeLocal, Own, Owns, Active
  <1>6. FreeOn(page, x)[p].bin = b
    BY <1>0, <1>2, <1>3, <1>4, FreedIs DEF CalmInv
  <1> QED
    BY <1>0, <1>1, <1>3, <1>4, <1>5, <1>6

LEMMA FreePageStep ==
  ASSUME HeapInv, NEW c \in Client, NEW e \in held[c], FreeLocal(c, e),
         LastUsed(FreeOn(page, <<e[1], e[2]>>), e[1]), segment[SegmentOf(e[1])].used > 1
  PROVE  HeapInv'
  <1> USE DEF HeapInv
  <1>0. /\ Calm /\ CalmInv /\ status[c] = "run" /\ pc[c] = "idle" /\ op[c].block = <<>>
        /\ held' = [held EXCEPT ![c] = @ \ {e}]
        /\ UNCHANGED <<owner, info, status, mon, mallocs>>
        /\ HeaderInv' /\ word' \in [Word -> {"clear", "live", "junk"}]
        /\ held' \in [Client -> SUBSET Extent]
    BY LastFreed
  <1>1. PICK p \in Page, x \in Word, b \in Bin, k \in Segment :
              /\ p = e[1] /\ x = <<p, e[2]>> /\ b = page[p].bin /\ b # NONE /\ k = SegmentOf(p)
              /\ k \in Own(c) /\ FreeOn(page, x)[p].used = 0 /\ FreePage(c, FreeOn(page, x), p)
              /\ FreeOn(page, x)[p].bin = b
    BY LastFreed
  <1>2. PICK f : f = FreeOn(page, x)
    OBVIOUS
  <1>3. PICK s : s = RemovePage([pages |-> f, q |-> queue[c][b]], p)
    OBVIOUS
  <1>4. PICK t : t = PushPage([pages |-> [s.pages EXCEPT ![p] = ZeroPage], q |-> queue[c][NONE]], p)
    OBVIOUS
  <1>5. /\ page' = t.pages /\ queue' = [queue EXCEPT ![c][b] = s.q, ![c][NONE] = t.q]
        /\ segment' = [segment EXCEPT ![k].used = @ - 1] /\ UNCHANGED <<pc, op>>
    BY <1>1, <1>2, <1>3, <1>4 DEF FreePage
  <1>6. /\ s.q \in QueueType /\ t.q \in QueueType /\ t.pages \in [Page -> PageType]
        /\ Linked(t.pages, s.q, Class(c, b) \ {p}) /\ Linked(t.pages, t.q, Class(c, NONE) \cup {p})
        /\ \A y \in Page \ {p} : SameBlocks(t.pages[y], page[y])
        /\ SameBlocks(t.pages[p], ZeroPage)
        /\ SameOutside(t.pages, page, Class(c, b) \cup Class(c, NONE))
        /\ p \in Class(c, b) /\ Owns(c, SegmentOf(p)) /\ Carved(p)
    <2>1. /\ e \in held[c] /\ segment[SegmentOf(e[1])].tid = c /\ p = e[1] /\ b = page[p].bin
          /\ f = FreeOn(page, <<p, e[2]>>)
      BY <1>1, <1>2 DEF FreeLocal
    <2>2. Given(c, b, p, s, t)
      <3> HIDE DEF HeapInv
      <3>1. HeapInv /\ CalmInv /\ status[c] = "run"
        BY <1>0
      <3> QED
        BY ONLY <1>3, <1>4, <2>1, <3>1, GivenBack
    <2> QED
      BY <2>2 DEF Given
  <1>7. /\ page'[p].free = <<>> /\ page'[p].local = <<>> /\ page'[p].used = 0 /\ page'[p].bin = NONE
        /\ \A y \in Page \ {p} :
             /\ page'[y].free = page[y].free /\ page'[y].local = page[y].local
             /\ page'[y].used = page[y].used /\ page'[y].bin = page[y].bin
    BY <1>5, <1>6 DEF SameBlocks, ZeroPage
  <1>8. /\ segment' \in [Segment -> [tid : 0 .. NClient, used : Int]]
        /\ segment'[k].used = segment[k].used - 1
        /\ \A j \in Segment : segment'[j].tid = segment[j].tid
        /\ \A j \in Segment \ {k} : segment'[j] = segment[j]
    <2>1. PICK y \in [tid : 0 .. NClient, used : Int] : y = segment[k]
      BY DEF TypeOK
    <2>2. PICK z : z = [y EXCEPT !.used = y.used - 1]
      OBVIOUS
    <2>3. z \in [tid : 0 .. NClient, used : Int] /\ z.tid = y.tid /\ z.used = y.used - 1
      BY <2>2
    <2>4. segment' = [segment EXCEPT ![k] = z]
      BY <1>5, <2>1, <2>2
    <2> QED
      BY <2>1, <2>3, <2>4 DEF TypeOK
  <1>9. \A j \in Segment : (Active(j)' <=> Active(j)) /\ (\A d \in Client : Owns(d, j)' <=> Owns(d, j))
    BY <1>0, <1>8 DEF Active, Owns
  <1>10. OnlyGone(p)
    BY <1>0, <1>5, <1>7, <1>9, SegmentOfIs DEF OnlyGone
  <1>11. BlockInv' /\ ListInv' /\ SizeInv'
    BY <1>0, <1>1, <1>2, <1>10, DroppedBlocks DEF CalmInv
  <1>12. /\ queue' \in [Client -> [Bin \cup {NONE} -> QueueType]]
         /\ queue'[c][b] = s.q /\ queue'[c][NONE] = t.q
         /\ \A a \in Bin \ {b} : queue'[c][a] = queue[c][a]
         /\ \A d \in Client \ {c} : queue'[d] = queue[d]
    <2>1. PICK y \in [Bin \cup {NONE} -> QueueType] : y = queue[c]
      BY DEF TypeOK
    <2>2. PICK v : v = [y EXCEPT ![b] = s.q, ![NONE] = t.q]
      OBVIOUS
    <2>3. /\ v \in [Bin \cup {NONE} -> QueueType] /\ v[b] = s.q /\ v[NONE] = t.q
          /\ \A a \in Bin \ {b} : v[a] = y[a]
      BY <1>1, <1>6, <2>2, SizeAssumption
    <2>4. queue' = [queue EXCEPT ![c] = v]
      BY <1>5, <2>1, <2>2
    <2> QED
      BY <2>1, <2>3, <2>4 DEF TypeOK
  <1>13. TypeOK'
    BY <1>0, <1>5, <1>6, <1>8, <1>12 DEF TypeOK
  <1>14. /\ ~ Carved(p)' /\ Blank(p)'
         /\ \A y \in Page \ {p} : (Carved(y)' <=> Carved(y)) /\ (Blank(y)' <=> Blank(y))
    BY <1>10, GoneKeeps
  <1>15. OthersKept(c)
    BY <1>0, <1>5 DEF OthersKept
  <1>16. Within(c, Own(c))
    <2>1. \A y \in Page : SegmentOf(y) \notin Own(c) => page'[y] = page[y]
      <3>1. \A y \in Page : SegmentOf(y) \notin Own(c) => y \notin Class(c, b) \cup Class(c, NONE)
        BY SegmentOfIs DEF Own, Class
      <3> QED
        BY <1>5, <1>6, <3>1 DEF SameOutside
    <2>2. \A j \in Own(c) : owner[j] = c /\ segment[j].tid \in {0, c} /\ segment'[j].tid \in {0, c}
      BY <1>8, OwnIs DEF Own
    <2>3. \A j \in Segment \ Own(c) : segment'[j] = segment[j] /\ info'[j].state = info[j].state
      BY <1>0, <1>1, <1>8
    <2> QED
      BY <1>12, <1>15, <2>1, <2>2, <2>3 DEF Within, Own
  <1>17. ClientInv(c)'
    BY <1>0, <1>5 DEF ClientInv
  <1>18. WorkOk(c)'
    BY <1>0, <1>5 DEF WorkOk
  <1>19. \A j \in Own(c) : segment'[j].tid # 0
    BY <1>8, OwnIs DEF Own, Client
  <1>20. ASSUME NEW y \in Page, SegmentOf(y) \in Own(c), Active(SegmentOf(y))'
         PROVE  PageOk(y)'
    <2>1. CASE y = p
      BY <1>7, <1>14, <2>1 DEF PageOk
    <2>2. CASE y # p
      <3>1. Active(SegmentOf(y)) /\ Owns(c, SegmentOf(y))
        BY <1>9, <1>20 DEF Own
      <3>2. \/ Blank(y) /\ page[y].bin = NONE
            \/ Carved(y)
        BY <1>0, <3>1 DEF PagesInv, CalmInv
      <3> QED
        BY <1>7, <1>14, <2>2, <3>2 DEF PageOk
    <2> QED
      BY <2>1, <2>2
  <1>21. /\ Class(c, b)' = Class(c, b) \ {p} /\ Class(c, NONE)' = Class(c, NONE) \cup {p}
         /\ \A a \in Bin \ {b} : Class(c, a)' = Class(c, a)
    <2>1. \A y \in Page, a \in Bin \cup {NONE} :
            y # p => (y \in Class(c, a)' <=> y \in Class(c, a))
      BY <1>7, <1>9, <1>14, SegmentOfIs DEF Class
    <2>2. p \in Class(c, NONE)' /\ \A a \in Bin : p \notin Class(c, a)'
      BY <1>1, <1>6, <1>7, <1>9, SegmentOfIs, SizeAssumption DEF Class
    <2>3. \A a \in Bin \ {b} : p \notin Class(c, a)
      BY <1>1 DEF Class
    <2>4. \A a \in Bin \cup {NONE} : Class(c, a) \subseteq Page /\ Class(c, a)' \subseteq Page
      BY DEF Class
    <2> QED
      BY <2>1, <2>2, <2>3, <2>4
  <1>22. ASSUME NEW a \in Bin \cup {NONE}
         PROVE  Linked(page', queue'[c][a], Class(c, a)')
    <2>1. CASE a = b
      BY <1>5, <1>6, <1>12, <1>21, <2>1
    <2>2. CASE a = NONE
      BY <1>5, <1>6, <1>12, <1>21, <2>2
    <2>3. CASE a \in Bin \ {b}
      <3>1. Linked(page, queue[c][a], Class(c, a))
        BY <1>0 DEF LinkInv, CalmInv
      <3>2. \A y \in Class(c, a) : y \in Page /\ y \notin Class(c, b) \cup Class(c, NONE)
        BY <1>1, <2>3, SizeAssumption DEF Class
      <3>3. 0 \notin Class(c, a) /\ \A y \in Class(c, a) : page'[y] = page[y]
        BY <1>5, <1>6, <3>2, ZeroIsNoPage DEF SameOutside
      <3>4. Linked(page', queue[c][a], Class(c, a))
        BY <3>1, <3>3, LinkedSame
      <3> QED
        BY <1>12, <1>21, <2>3, <3>4
    <2> QED
      BY <2>1, <2>2, <2>3
  <1>23. ASSUME NEW j \in Own(c), Active(j)'
         PROVE  CountOk(j)'
    <2>1. Active(j) /\ j \in Segment /\ Owns(c, j)
      BY <1>23, OwnIs DEF Own
    <2>2. segment[j].used = Cardinality(InUse(j)) /\ InUse(j) # {}
      BY <1>0, <2>1 DEF CountInv, CalmInv
    <2>3. CASE j # k
      <3>1. InUse(j)' = InUse(j)
        BY <1>1, <1>7, <2>3 DEF InUse, PagesOf
      <3> QED
        BY <1>8, <2>1, <2>2, <2>3, <3>1 DEF CountOk
    <2>4. CASE j = k
      <3>1. InUse(k)' = InUse(k) \ {p} /\ p \in InUse(k)
        BY <1>1, <1>7 DEF InUse, PagesOf
      <3>2. IsFiniteSet(InUse(k))
        <4>1. InUse(k) \subseteq PagesOf(k) /\ IsFiniteSet(PagesOf(k))
          BY PageOfSegment DEF InUse
        <4> QED
          BY <4>1, FS_Subset
      <3>3. PICK U, V : U = InUse(k) /\ V = U \ {p}
        OBVIOUS
      <3>4. Cardinality(V) = Cardinality(U) - 1 /\ Cardinality(U) \in Nat
        BY <3>1, <3>2, <3>3, FS_RemoveElement, FS_CardinalityType
      <3>5. segment'[k].used = Cardinality(V) /\ Cardinality(V) > 0
        BY <1>1, <1>8, <2>2, <2>4, <3>3, <3>4
      <3>6. V # {}
        BY <3>5, FS_EmptySet
      <3> QED
        BY <2>4, <3>1, <3>3, <3>5, <3>6 DEF CountOk
    <2> QED
      BY <2>3, <2>4
  <1>24. \A d \in Client \ {c} : held'[d] = held[d]
    BY <1>0 DEF TypeOK
  <1> QED
    BY <1>0, <1>11, <1>13, <1>16, <1>17, <1>18, <1>19, <1>20, <1>22, <1>23, <1>24, WithinStep

(* The only page in use of segment k of client c. *)
LEMMA OnlyPage ==
  ASSUME TypeOK, CalmInv, NEW c \in Client, status[c] = "run", pc[c] = "idle",
         NEW k \in Own(c), NEW p \in Page, SegmentOf(p) = k, page[p].bin # NONE,
         ~ (segment[k].used > 1)
  PROVE  /\ \A y \in PagesOf(k) \ {p} : Blank(y) /\ page[y].bin = NONE
         /\ PagesOf(k) \subseteq Class(c, NONE) \cup {p}
  <1>1. k \in Segment /\ Owns(c, k) /\ Active(k)
    BY DEF Own, Owns, Active, Client
  <1>2. PICK U : U = InUse(k)
    OBVIOUS
  <1>3. IsFiniteSet(U) /\ p \in U /\ segment[k].used = Cardinality(U)
    <2>1. U \subseteq PagesOf(k) /\ IsFiniteSet(PagesOf(k))
      BY <1>1, <1>2, PageOfSegment DEF InUse
    <2>2. p \in U
      BY <1>2 DEF InUse, PagesOf
    <2> QED
      BY <1>1, <1>2, <2>1, <2>2, FS_Subset DEF CalmInv, CountInv
  <1>4. U = {p}
    <2>1. Cardinality(U) \in Nat /\ Cardinality(U) # 0
      BY <1>3, FS_CardinalityType, FS_EmptySet
    <2>2. Cardinality(U) = 1
      BY <1>3, <2>1
    <2>3. PICK y : U = {y}
      BY <1>3, <2>2, FS_Singleton
    <2> QED
      BY <1>3, <2>3
  <1>5. \A y \in PagesOf(k) \ {p} : page[y].bin = NONE /\ Blank(y)
    <2> TAKE y \in PagesOf(k) \ {p}
    <2>1. y \in Page /\ SegmentOf(y) = k /\ page[y].bin = NONE
      BY <1>2, <1>4 DEF InUse, PagesOf
    <2> QED
      BY <1>1, <2>1, SizeAssumption DEF CalmInv, PagesInv, Carved
  <1>6. PagesOf(k) \subseteq Class(c, NONE) \cup {p}
    BY <1>1, <1>5 DEF Class, PagesOf
  <1> QED
    BY <1>5, <1>6

LEMMA LastPageStep ==
  ASSUME HeapInv, NEW c \in Client, NEW e \in held[c], FreeLocal(c, e),
         LastUsed(FreeOn(page, <<e[1], e[2]>>), e[1]), ~ (segment[SegmentOf(e[1])].used > 1)
  PROVE  HeapInv'
  <1> USE DEF HeapInv
  <1>0. /\ Calm /\ CalmInv /\ status[c] = "run" /\ pc[c] = "idle" /\ op[c].block = <<>>
        /\ held' = [held EXCEPT ![c] = @ \ {e}]
        /\ UNCHANGED <<owner, info, status, mon, mallocs>>
        /\ HeaderInv' /\ word' \in [Word -> {"clear", "live", "junk"}]
        /\ held' \in [Client -> SUBSET Extent]
    BY LastFreed
  <1>1. PICK p \in Page, x \in Word, b \in Bin, k \in Segment :
              /\ p = e[1] /\ x = <<p, e[2]>> /\ b = page[p].bin /\ b # NONE /\ k = SegmentOf(p)
              /\ k \in Own(c) /\ FreeOn(page, x)[p].used = 0 /\ FreePage(c, FreeOn(page, x), p)
              /\ FreeOn(page, x)[p].bin = b
    BY LastFreed
  <1>2. PICK f : f = FreeOn(page, x)
    OBVIOUS
  <1>3. PICK s : s = RemovePage([pages |-> f, q |-> queue[c][b]], p)
    OBVIOUS
  <1>4. PICK t : t = PushPage([pages |-> [s.pages EXCEPT ![p] = ZeroPage], q |-> queue[c][NONE]], p)
    OBVIOUS
  <1>5. PICK u : u = RemoveAll(t, k)
    OBVIOUS
  <1>6. /\ page' = [y \in Page |-> IF y \in PagesOf(k) THEN ZeroPage ELSE u.pages[y]]
        /\ queue' = [queue EXCEPT ![c][b] = s.q, ![c][NONE] = u.q]
        /\ segment' = [segment EXCEPT ![k] = ZeroSegment]
        /\ op' = [op EXCEPT ![c] = [NoOp EXCEPT !.seg = k]]
        /\ pc' = [pc EXCEPT ![c] = "release"]
    BY <1>1, <1>2, <1>3, <1>4, <1>5 DEF FreePage, Goto
  <1>7. PICK C, F : C = Class(c, b) /\ F = Class(c, NONE)
    OBVIOUS
  <1>8. /\ s.q \in QueueType /\ t.q \in QueueType /\ t.pages \in [Page -> PageType]
        /\ Linked(t.pages, s.q, C \ {p}) /\ Linked(t.pages, t.q, F \cup {p})
        /\ \A y \in Page \ {p} : SameBlocks(t.pages[y], page[y])
        /\ SameBlocks(t.pages[p], ZeroPage)
        /\ SameOutside(t.pages, page, C \cup F)
        /\ p \in C /\ Owns(c, SegmentOf(p)) /\ Carved(p)
    <2>1. /\ e \in held[c] /\ segment[SegmentOf(e[1])].tid = c /\ p = e[1] /\ b = page[p].bin
          /\ f = FreeOn(page, <<p, e[2]>>)
      BY <1>1, <1>2 DEF FreeLocal
    <2>2. Given(c, b, p, s, t)
      <3> HIDE DEF HeapInv
      <3>1. HeapInv /\ CalmInv /\ status[c] = "run"
        BY <1>0
      <3> QED
        BY ONLY <1>3, <1>4, <2>1, <3>1, GivenBack
    <2> QED
      BY <1>7, <2>2 DEF Given
  <1>9. /\ \A y \in PagesOf(k) \ {p} : Blank(y) /\ page[y].bin = NONE
        /\ PagesOf(k) \subseteq F \cup {p}
    BY <1>0, <1>1, <1>7, OnlyPage
  <1>10. PICK D : D = F \cup {p} /\ D \subseteq Page
    BY <1>7 DEF Class
  <1>11. Relinked(u, t.pages, D \ PagesOf(k), D)
    <2>1. PICK h, n : h = t.pages /\ n = t.q
      OBVIOUS
    <2>2. t = [pages |-> h, q |-> n]
      BY <1>4, <2>1 DEF PushPage
    <2>3. /\ h \in [Page -> PageType] /\ n \in QueueType /\ D \subseteq Page /\ k \in Segment
          /\ PagesOf(k) \subseteq D /\ Linked(h, n, D) /\ u = RemoveAll([pages |-> h, q |-> n], k)
      BY <1>5, <1>8, <1>9, <1>10, <2>1, <2>2
    <2>4. Relinked(u, h, D \ PagesOf(k), D)
      BY ONLY <2>3, RemoveAllLinked
    <2> QED
      BY <2>1, <2>4
  <1>12. /\ u.pages \in [Page -> PageType] /\ u.q \in QueueType
         /\ Linked(u.pages, u.q, D \ PagesOf(k))
         /\ \A y \in Page : SameBlocks(u.pages[y], t.pages[y])
         /\ SameOutside(u.pages, t.pages, D)
    BY <1>11 DEF Relinked
  <1>13. p \in PagesOf(k)
    BY <1>1 DEF PagesOf
  <1>14. /\ page' \in [Page -> PageType]
         /\ \A y \in PagesOf(k) : page'[y] = ZeroPage
         /\ \A y \in Page \ PagesOf(k) : page'[y] = u.pages[y]
    <2>1. ZeroPage \in PageType
      BY EmptySeq DEF ZeroPage, PageType
    <2>2. PagesOf(k) \subseteq Page
      BY DEF PagesOf
    <2> QED
      BY <1>6, <1>12, <2>1, <2>2
  <1>15. /\ page'[p].free = <<>> /\ page'[p].local = <<>> /\ page'[p].used = 0 /\ page'[p].bin = NONE
         /\ \A y \in Page \ {p} :
              /\ page'[y].free = page[y].free /\ page'[y].local = page[y].local
              /\ page'[y].used = page[y].used /\ page'[y].bin = page[y].bin
    <2>1. page'[p] = ZeroPage
      BY <1>13, <1>14
    <2>2. ASSUME NEW y \in Page \ {p}
          PROVE  /\ page'[y].free = page[y].free /\ page'[y].local = page[y].local
                 /\ page'[y].used = page[y].used /\ page'[y].bin = page[y].bin
      <3>1. CASE y \in PagesOf(k)
        BY <1>9, <1>14, <3>1 DEF Blank, ZeroPage
      <3>2. CASE y \notin PagesOf(k)
        BY <1>8, <1>12, <1>14, <3>2 DEF SameBlocks
      <3> QED
        BY <3>1, <3>2
    <2> QED
      BY <2>1, <2>2 DEF ZeroPage
  <1>16. /\ segment' \in [Segment -> [tid : 0 .. NClient, used : Int]]
         /\ segment'[k].tid = 0
         /\ \A j \in Segment \ {k} : segment'[j] = segment[j]
    <2>1. ZeroSegment \in [tid : 0 .. NClient, used : Int] /\ ZeroSegment.tid = 0
      BY SizeAssumption DEF ZeroSegment
    <2> QED
      BY <1>1, <1>6, <2>1 DEF TypeOK
  <1>17. /\ \A j \in Segment \ {k} : (Active(j)' <=> Active(j)) /\ (\A d \in Client : Owns(d, j)' <=> Owns(d, j))
         /\ ~ Active(k)' /\ \A d \in Client : ~ Owns(d, k)'
    BY <1>0, <1>16 DEF Active, Owns, Client
  <1>18. /\ op'[c].block = <<>> /\ op'[c].seg = k /\ op' \in [Client -> OpType]
         /\ \A d \in Client \ {c} : op'[d] = op[d]
    <2>1. PICK o \in OpType : o = NoOp
      BY NoOpType
    <2>2. k \in 0 .. NSegment + 1
      BY SizeAssumption DEF Segment
    <2>3. PICK z : z = [o EXCEPT !.seg = k]
      OBVIOUS
    <2>4. z \in OpType /\ z.seg = k /\ z.block = o.block
      BY <2>2, <2>3 DEF OpType
    <2>5. op' = [op EXCEPT ![c] = z] /\ o.block = <<>>
      BY <1>6, <2>1, <2>3 DEF NoOp
    <2> QED
      BY <2>4, <2>5 DEF TypeOK
  <1>19. OnlyGone(p)
    <2>1. \A j \in Segment : Active(j)' => Active(j)
      BY <1>17
    <2>2. \A y \in Page \ {p} : Active(SegmentOf(y)) /\ ~ Active(SegmentOf(y))' =>
            Blank(y) /\ page[y].bin = NONE
      BY <1>9, <1>17, SegmentOfIs DEF PagesOf
    <2>3. \A d \in Client : op'[d].block = op[d].block
      BY <1>0, <1>18
    <2> QED
      BY <1>0, <1>15, <2>1, <2>2, <2>3 DEF OnlyGone
  <1>20. BlockInv' /\ ListInv' /\ SizeInv'
    BY <1>0, <1>1, <1>2, <1>19, DroppedBlocks DEF CalmInv
  <1>21. /\ queue' \in [Client -> [Bin \cup {NONE} -> QueueType]]
         /\ queue'[c][b] = s.q /\ queue'[c][NONE] = u.q
         /\ \A a \in Bin \ {b} : queue'[c][a] = queue[c][a]
         /\ \A d \in Client \ {c} : queue'[d] = queue[d]
    <2>1. PICK y \in [Bin \cup {NONE} -> QueueType] : y = queue[c]
      BY DEF TypeOK
    <2>2. PICK v : v = [y EXCEPT ![b] = s.q, ![NONE] = u.q]
      OBVIOUS
    <2>3. /\ v \in [Bin \cup {NONE} -> QueueType] /\ v[b] = s.q /\ v[NONE] = u.q
          /\ \A a \in Bin \ {b} : v[a] = y[a]
      BY <1>1, <1>8, <1>12, <2>2, SizeAssumption
    <2>4. queue' = [queue EXCEPT ![c] = v]
      BY <1>6, <2>1, <2>2
    <2> QED
      BY <2>1, <2>3, <2>4 DEF TypeOK
  <1>22. /\ pc' \in [Client -> {"idle", "collect", "carve", "segment", "release", "push"}]
         /\ pc'[c] = "release" /\ OthersKept(c)
    BY <1>0, <1>6, <1>18 DEF OthersKept, TypeOK
  <1>23. TypeOK'
    BY <1>0, <1>14, <1>16, <1>18, <1>21, <1>22 DEF TypeOK
  <1>24. /\ ~ Carved(p)' /\ Blank(p)'
         /\ \A y \in Page \ {p} : (Carved(y)' <=> Carved(y)) /\ (Blank(y)' <=> Blank(y))
    BY <1>19, GoneKeeps
  <1>25. Within(c, Own(c))
    <2>1. \A y \in Page : SegmentOf(y) \notin Own(c) => page'[y] = page[y]
      <3>1. \A y \in Page : SegmentOf(y) \notin Own(c) => y \notin C \cup F /\ y \notin D /\ y \notin PagesOf(k)
        BY <1>1, <1>7, <1>10, SegmentOfIs DEF Own, Class, PagesOf
      <3> QED
        BY <1>8, <1>12, <1>14, <3>1 DEF SameOutside
    <2>2. \A j \in Own(c) : owner[j] = c /\ segment[j].tid \in {0, c} /\ segment'[j].tid \in {0, c}
      BY <1>16, OwnIs DEF Own
    <2>3. \A j \in Segment \ Own(c) : segment'[j] = segment[j] /\ info'[j].state = info[j].state
      BY <1>0, <1>1, <1>16
    <2> QED
      BY <1>21, <1>22, <2>1, <2>2, <2>3 DEF Within, Own
  <1>26. ClientInv(c)'
    <2>1. owner[k] = c
      BY <1>1, OwnIs
    <2> QED
      BY <1>0, <1>16, <1>18, <1>22, <2>1 DEF ClientInv
  <1>27. WorkOk(c)'
    BY <1>22 DEF WorkOk
  <1>28. ASSUME NEW j \in Own(c), segment'[j].tid = 0
         PROVE  info'[j].state = "NORMAL" /\ \A y \in PagesOf(j) : page'[y] = ZeroPage
    <2>1. j \in Segment /\ segment[j].tid = c /\ c # 0 /\ Owns(c, j)
      BY OwnIs DEF Own, Client
    <2>2. j = k
      BY <1>16, <1>28, <2>1
    <2> QED
      BY <1>0, <1>14, <2>1, <2>2 DEF Owns
  <1>29. ASSUME NEW y \in Page, SegmentOf(y) \in Own(c), Active(SegmentOf(y))'
         PROVE  PageOk(y)'
    <2>1. y # p /\ SegmentOf(y) # k
      BY <1>1, <1>17, <1>29
    <2>2. Active(SegmentOf(y)) /\ Owns(c, SegmentOf(y))
      BY <1>17, <1>29, <2>1, SegmentOfIs DEF Own
    <2>3. \/ Blank(y) /\ page[y].bin = NONE
          \/ Carved(y)
      BY <1>0, <2>2 DEF PagesInv, CalmInv
    <2> QED
      BY <1>15, <1>24, <2>1, <2>3 DEF PageOk
  <1>30. /\ Class(c, b)' = C \ {p} /\ Class(c, NONE)' = D \ PagesOf(k)
         /\ \A a \in Bin \ {b} : Class(c, a)' = Class(c, a)
    <2>1. ASSUME NEW y \in Page, y \notin PagesOf(k), NEW a \in Bin \cup {NONE}
          PROVE  y \in Class(c, a)' <=> y \in Class(c, a)
      <3>1. SegmentOf(y) # k /\ y # p
        BY <1>13, <2>1 DEF PagesOf
      <3> QED
        BY <1>15, <1>17, <1>24, <2>1, <3>1, SegmentOfIs DEF Class
    <2>2. ASSUME NEW y \in PagesOf(k), NEW a \in Bin \cup {NONE}
          PROVE  y \notin Class(c, a)'
      <3>1. SegmentOf(y) = k
        BY DEF PagesOf
      <3> QED
        BY <1>17, <3>1 DEF Class
    <2>3. ASSUME NEW y \in PagesOf(k), NEW a \in Bin, y \in Class(c, a)
          PROVE  y = p /\ a = b
      BY <1>1, <1>9, <2>3, SizeAssumption DEF Class
    <2>4. \A a \in Bin \cup {NONE} : Class(c, a) \subseteq Page /\ Class(c, a)' \subseteq Page
      BY DEF Class
    <2>5. p \in C /\ p \in PagesOf(k) /\ PagesOf(k) \subseteq Page
      BY <1>8, <1>13 DEF PagesOf
    <2>6. Class(c, b)' = C \ {p}
      BY <1>7, <2>1, <2>2, <2>3, <2>4, <2>5
    <2>7. Class(c, NONE)' = D \ PagesOf(k)
      BY <1>7, <1>10, <2>1, <2>2, <2>4, <2>5
    <2>8. \A a \in Bin \ {b} : Class(c, a)' = Class(c, a)
      BY <2>1, <2>2, <2>3, <2>4
    <2> QED
      BY <2>6, <2>7, <2>8
  <1>31. ASSUME NEW a \in Bin, NEW y \in Class(c, a), y # p
         PROVE  y \in Page /\ page'[y] = t.pages[y] /\ (a # b => page'[y] = page[y])
    <2>1. y \in Page /\ page[y].bin = a /\ a # NONE
      BY SizeAssumption DEF Class
    <2>2. y \notin D /\ y \notin PagesOf(k) /\ (a # b => y \notin C \cup F)
      BY <1>7, <1>9, <1>10, <1>31, <2>1 DEF Class
    <2> QED
      BY <1>8, <1>12, <1>14, <2>1, <2>2 DEF SameOutside
  <1>32. ASSUME NEW a \in Bin \cup {NONE}
         PROVE  Linked(page', queue'[c][a], Class(c, a)')
    <2>1. CASE a = b
      <3>1. 0 \notin C \ {p} /\ \A y \in C \ {p} : page'[y] = t.pages[y]
        BY <1>7, <1>31, ZeroIsNoPage
      <3>2. Linked(page', s.q, C \ {p})
        BY <1>8, <3>1, LinkedSame
      <3> QED
        BY <1>21, <1>30, <2>1, <3>2
    <2>2. CASE a = NONE
      <3>1. 0 \notin D \ PagesOf(k) /\ \A y \in D \ PagesOf(k) : page'[y] = u.pages[y]
        BY <1>10, <1>14, ZeroIsNoPage
      <3>2. Linked(page', u.q, D \ PagesOf(k))
        BY <1>12, <3>1, LinkedSame
      <3> QED
        BY <1>21, <1>30, <2>2, <3>2
    <2>3. CASE a \in Bin \ {b}
      <3>1. Linked(page, queue[c][a], Class(c, a))
        BY <1>0 DEF LinkInv, CalmInv
      <3>2. p \notin Class(c, a)
        BY <1>1, <2>3 DEF Class
      <3>3. 0 \notin Class(c, a) /\ \A y \in Class(c, a) : page'[y] = page[y]
        BY <1>31, <2>3, <3>2, ZeroIsNoPage
      <3>4. Linked(page', queue[c][a], Class(c, a))
        BY <3>1, <3>3, LinkedSame
      <3> QED
        BY <1>21, <1>30, <2>3, <3>4
    <2> QED
      BY <2>1, <2>2, <2>3
  <1>33. ASSUME NEW j \in Own(c), Active(j)'
         PROVE  CountOk(j)'
    <2>1. j # k /\ Active(j) /\ j \in Segment /\ Owns(c, j)
      BY <1>17, <1>33, OwnIs DEF Own
    <2>2. segment[j].used = Cardinality(InUse(j)) /\ InUse(j) # {}
      BY <1>0, <2>1 DEF CountInv, CalmInv
    <2>3. InUse(j)' = InUse(j)
      BY <1>1, <1>15, <2>1 DEF InUse, PagesOf
    <2> QED
      BY <1>16, <2>1, <2>2, <2>3 DEF CountOk
  <1>34. \A d \in Client \ {c} : held'[d] = held[d]
    BY <1>0 DEF TypeOK
  <1> QED
    BY <1>0, <1>20, <1>23, <1>25, <1>26, <1>27, <1>28, <1>29, <1>32, <1>33, <1>34, WithinStep

LEMMA FreeLocalStep ==
  ASSUME HeapInv, NEW c \in Client, NEW e \in held[c], FreeLocal(c, e)
  PROVE  HeapInv'
  <1>1. CASE LastUsed(FreeOn(page, <<e[1], e[2]>>), e[1])
    BY <1>1, FreePageStep, LastPageStep
  <1>2. CASE ~ LastUsed(FreeOn(page, <<e[1], e[2]>>), e[1])
    <2>1. page' = FreeOn(page, <<e[1], e[2]>>) /\ UNCHANGED <<segment, queue, pc, op>>
      BY <1>2 DEF FreeLocal
    <2> QED
      BY <2>1, FreeBlockStep
  <1> QED
    BY <1>1, <1>2

-----------------------------------------------------------------------------
(* The monitor's steps.  No client runs, and what is said of pages, queues *)
(* and blocks need not hold.                                               *)
LEMMA MonIs ==
  ASSUME TypeOK
  PROVE  /\ mon.at \in {"idle", "slot", "release", "pages", "scan", "wipe"}
         /\ mon.slot \in 0 .. NClient + 1 /\ mon.seg \in 0 .. NSegment + 1 /\ mon.todo \in SUBSET Page
         /\ NClient \in Nat \ {0} /\ NSegment \in Nat \ {0} /\ Idle \in MonType
  <1>1. NClient \in Nat \ {0} /\ NSegment \in Nat \ {0}
    BY SizeAssumption
  <1>2. Idle \in MonType
    BY <1>1 DEF Idle, MonType
  <1> QED
    BY <1>1, <1>2 DEF TypeOK, MonType

LEMMA StartRecoveryStep ==
  ASSUME Quiescent, HeapInv, StartRecovery
  PROVE  HeapInv'
  <1> USE DEF HeapInv
  <1>1. /\ \A c \in Client : status[c] # "run"
        /\ UNCHANGED <<owner, info, segment, page, queue, word, held, status, pc, op, mallocs>>
    BY DEF StartRecovery, shared, heap
  <1>2. mon' \in MonType /\ mon'.at = "slot" /\ mon'.slot = 1 /\ ~ Calm'
    <2>1. PICK m \in MonType : m = Idle
      BY MonIs
    <2>2. 1 \in 0 .. NClient + 1
      BY MonIs
    <2>3. PICK z : z = [m EXCEPT !.at = "slot", !.slot = 1]
      OBVIOUS
    <2>4. z \in MonType /\ z.at = "slot" /\ z.slot = 1
      BY <2>2, <2>3 DEF MonType
    <2>5. mon' = z
      BY <2>1, <2>3 DEF StartRecovery
    <2> QED
      BY <2>4, <2>5 DEF Calm, Idle
  <1>3. TypeOK'
    BY <1>1, <1>2 DEF TypeOK
  <1>4. StageInv'
    BY <1>1, <1>2 DEF StageInv, Client
  <1>5. ASSUME NEW c \in Client
        PROVE  ClientInv(c)'
    BY <1>1 DEF ClientInv
  <1>6. SegmentInv' /\ HeaderInv'
    BY <1>1 DEF SegmentInv, HeaderInv, Holds
  <1>7. ScanInv'
    BY <1>2 DEF ScanInv
  <1> QED
    BY <1>2, <1>3, <1>4, <1>5, <1>6, <1>7

LEMMA CheckSlotStep ==
  ASSUME HeapInv, CheckSlot
  PROVE  HeapInv'
  <1> USE DEF HeapInv
  <1>1. /\ mon.at = "slot" /\ mon.slot # 0 /\ \A c \in Client : c < mon.slot => status[c] = "vacant"
        /\ \A c \in Client : status[c] # "run"
        /\ UNCHANGED <<owner, info, segment, page, queue, word, held, status, pc, op, mallocs>>
    <2>1. mon.at = "slot" /\ ~ Calm
      BY DEF CheckSlot, Recovering, Calm, Idle
    <2> QED
      BY <2>1 DEF CheckSlot, StageInv, shared, heap
  <1>2. PICK m \in MonType : m = mon
    BY DEF TypeOK
  <1>3. PICK n \in MonType : n = Idle
    BY MonIs
  <1>4. mon' \in MonType /\ ~ Calm' /\ StageInv' /\ ScanInv'
    <2>1. CASE mon.slot \notin Client
      <3>1. PICK z : z = [n EXCEPT !.at = "scan", !.seg = 1]
        OBVIOUS
      <3>2. 1 \in 0 .. NSegment + 1
        BY MonIs
      <3>3. z \in MonType /\ z.at = "scan" /\ z.seg = 1
        BY <3>1, <3>2 DEF MonType
      <3>4. mon' = z
        BY <1>3, <2>1, <3>1 DEF CheckSlot
      <3>5. mon.slot = NClient + 1
        BY <1>1, <2>1, MonIs DEF Client
      <3>6. \A c \in Client : status[c] = "vacant"
        BY <1>1, <3>5, MonIs DEF Client
      <3> QED
        BY <1>1, <3>3, <3>4, <3>6 DEF StageInv, ScanInv, Calm, Idle, Segment
    <2>2. CASE mon.slot \in Client /\ Failed(mon.slot)
      <3>1. PICK z : z = [m EXCEPT !.at = "release"]
        OBVIOUS
      <3>2. z \in MonType /\ z.at = "release" /\ z.slot = m.slot
        BY <3>1 DEF MonType
      <3>3. mon' = z
        BY <1>2, <2>2, <3>1 DEF CheckSlot
      <3> QED
        BY <1>1, <1>2, <2>2, <3>2, <3>3 DEF StageInv, ScanInv, Calm, Idle, Failed
    <2>3. CASE mon.slot \in Client /\ ~ Failed(mon.slot)
      <3>1. PICK i \in Int : i = m.slot /\ i + 1 \in 0 .. NClient + 1 /\ i \in Client
        BY <1>2, <2>3, MonIs DEF Client
      <3>2. PICK z : z = [m EXCEPT !.slot = i + 1]
        OBVIOUS
      <3>3. z \in MonType /\ z.at = m.at /\ z.slot = i + 1
        BY <3>1, <3>2 DEF MonType
      <3>4. mon' = z
        BY <1>2, <2>3, <3>1, <3>2 DEF CheckSlot
      <3>5. status[i] = "vacant"
        BY <1>1, <1>2, <2>3, <3>1 DEF TypeOK, Failed
      <3>6. \A c \in Client : c < i + 1 => status[c] = "vacant"
        BY <1>1, <1>2, <3>1, <3>5 DEF Client
      <3>7. i + 1 # 0
        BY <3>1 DEF Client
      <3> QED
        BY <1>1, <1>2, <3>3, <3>4, <3>6, <3>7 DEF StageInv, ScanInv, Calm, Idle
    <2> QED
      BY <2>1, <2>2, <2>3
  <1>5. TypeOK'
    BY <1>1, <1>4 DEF TypeOK
  <1>6. ASSUME NEW c \in Client
        PROVE  ClientInv(c)'
    BY <1>1 DEF ClientInv
  <1>7. SegmentInv' /\ HeaderInv'
    BY <1>1 DEF SegmentInv, HeaderInv, Holds
  <1> QED
    BY <1>4, <1>5, <1>6, <1>7

LEMMA ReleaseHeldStep ==
  ASSUME HeapInv, mon.slot \in Client, NEW e \in held[mon.slot], ReleaseHeld(e)
  PROVE  HeapInv'
  <1> USE DEF HeapInv
  <1>1. PICK c \in Client : c = mon.slot
    OBVIOUS
  <1>2. /\ mon.at = "release" /\ ~ Calm /\ status[c] = "dead" /\ e \in held[c]
        /\ word' = ClearHeader(word, e[1], e[2])
        /\ held' = [held EXCEPT ![c] = @ \ {e}]
        /\ info' = IF segment[SegmentOf(e[1])].tid # c
                   THEN [info EXCEPT ![SegmentOf(e[1])].list = <<<<e[1], e[2]>>>> \o @] ELSE info
        /\ UNCHANGED <<owner, segment, page, queue, status, pc, op, mon, mallocs>>
    BY <1>1 DEF ReleaseHeld, Recovering, Calm, Idle, StageInv, heap
  <1>3. HeaderInv' /\ word' \in [Word -> {"clear", "live", "junk"}] /\ held' \in [Client -> SUBSET Extent]
    BY <1>2, HeaderCleared
  <1>4. PICK x \in Word, k \in Segment : x = <<e[1], e[2]>> /\ k = SegmentOf(e[1])
    <2>1. e \in Extent
      BY <1>2 DEF TypeOK
    <2> QED
      BY <2>1, ExtentIs
  <1>5. info' \in [Segment -> [state : {"NORMAL", "ABANDON"}, list : Seq(Word)]] /\ SameStates
    <2>1. CASE segment[k].tid = c
      BY <1>2, <1>4, <2>1 DEF TypeOK, SameStates
    <2>2. CASE segment[k].tid # c
      <3>1. PICK y \in [state : {"NORMAL", "ABANDON"}, list : Seq(Word)] : y = info[k]
        BY DEF TypeOK
      <3>2. PICK l : l = <<x>> \o y.list
        OBVIOUS
      <3>30. Prepended(Word, x, y.list, l)
        BY <3>2, Prepend
      <3>3. l \in Seq(Word)
        BY <3>30 DEF Prepended
      <3>4. PICK z : z = [y EXCEPT !.list = l]
        OBVIOUS
      <3>5. z \in [state : {"NORMAL", "ABANDON"}, list : Seq(Word)] /\ z.state = y.state
        BY <3>3, <3>4
      <3>6. info' = [info EXCEPT ![k] = z]
        BY <1>2, <1>4, <2>2, <3>1, <3>2, <3>4
      <3> QED
        BY <3>1, <3>5, <3>6 DEF TypeOK, SameStates
    <2> QED
      BY <2>1, <2>2
  <1>6. TypeOK'
    BY <1>2, <1>3, <1>5 DEF TypeOK
  <1>7. StageInv' /\ ScanInv' /\ ~ Calm'
    BY <1>1, <1>2 DEF StageInv, ScanInv, Calm
  <1>8. SegmentInv'
    BY <1>2, <1>5 DEF SegmentInv, SameStates
  <1>9. ASSUME NEW d \in Client
        PROVE  ClientInv(d)'
    <2>1. status[d] = "vacant" => held'[d] = held[d]
      BY <1>2 DEF TypeOK
    <2> QED
      BY <1>2, <1>5, <2>1 DEF ClientInv, SameStates
  <1> QED
    BY <1>3, <1>6, <1>7, <1>8, <1>9

(* No client runs, and every segment is free, or abandoned. *)
Empty ==
  /\ \A k \in Segment : ~ Active(k)
  /\ \A c \in Client : status[c] = "vacant" /\ pc[c] = "idle" /\ held[c] = {} /\ op[c].block = <<>>

LEMMA EmptyCalm == Empty => CalmInv
  <1> SUFFICES ASSUME Empty PROVE CalmInv
    OBVIOUS
  <1>1. \A k \in Segment : ~ Active(k)
    BY DEF Empty
  <1>2. \A c \in Client : status[c] = "vacant" /\ pc[c] = "idle" /\ held[c] = {} /\ op[c].block = <<>>
    BY DEF Empty
  <1>3. PagesInv
    BY <1>1, SegmentOfIs DEF PagesInv
  <1>4. LinkInv /\ WorkInv /\ SizeInv
    BY <1>2 DEF LinkInv, WorkInv, SizeInv
  <1>5. CountInv /\ ListInv
    BY <1>1, SegmentOfIs DEF CountInv, ListInv
  <1>6. Free = {} /\ LocallyFree = {} /\ Pending = {} /\ Blocks = {}
    BY <1>1, WordIs DEF Free, LocallyFree, Pending, Blocks
  <1>7. \A c \in Client : Held[c] = {} /\ Pushed[c] = {}
    BY <1>2 DEF Held, Pushed
  <1>8. Partition({}, {}, {}, Held, Pushed, {})
    BY <1>7 DEF Partition
  <1> QED
    BY <1>3, <1>4, <1>5, <1>6, <1>8 DEF CalmInv, BlockInv

LEMMA EmptyCalmNext == Empty' => CalmInv'
  BY EmptyCalm, PTL

-----------------------------------------------------------------------------
(* The pages of a queue, as the monitor finds them. *)
Onward(S) == S \cup ({page[p].next : p \in S} \ {0})
FollowedUpTo(first, n, f) ==
  f = [i \in 0 .. n |-> IF i = 0 THEN {first} \ {0} ELSE Onward(f[i - 1])]

LEMMA FollowedExists ==
  ASSUME NEW first, NEW m \in Nat
  PROVE  \E f : FollowedUpTo(first, m, f)
  <1> DEFINE T == {n \in Nat : \E f : FollowedUpTo(first, n, f)}
  <1>1. 0 \in T
    <2>1. FollowedUpTo(first, 0, [i \in 0 .. 0 |-> {first} \ {0}])
      BY DEF FollowedUpTo
    <2> QED
      BY <2>1
  <1>2. ASSUME NEW n \in Nat, n \in T
        PROVE  n + 1 \in T
    <2>1. PICK f : FollowedUpTo(first, n, f)
      BY <1>2
    <2> DEFINE g == [i \in 0 .. n + 1 |-> IF i = n + 1 THEN Onward(f[n]) ELSE f[i]]
    <2>2. FollowedUpTo(first, n + 1, g)
      <3> DEFINE h == [i \in 0 .. n + 1 |-> IF i = 0 THEN {first} \ {0}
                                            ELSE Onward(g[i - 1])]
      <3>1. ASSUME NEW i \in 0 .. n + 1
            PROVE  g[i] = h[i]
        <4>1. CASE i = n + 1
          BY <4>1
        <4>2. CASE i # n + 1
          <5>1. i \in 0 .. n /\ g[i] = f[i] /\ (i # 0 => g[i - 1] = f[i - 1])
            BY <4>2
          <5>2. f[i] = IF i = 0 THEN {first} \ {0} ELSE Onward(f[i - 1])
            BY <2>1, <5>1 DEF FollowedUpTo
          <5> QED
            BY <5>1, <5>2
        <4> QED
          BY <4>1, <4>2
      <3>2. g = h
        BY <3>1
      <3> QED
        BY <3>2 DEF FollowedUpTo
    <2> QED
      BY <2>2
  <1>3. m \in T
    <2> HIDE DEF T
    <2> QED
      BY <1>1, <1>2, NumberInduction
  <1> QED
    BY <1>3

LEMMA PagesFinite == IsFiniteSet(Page) /\ Cardinality(Page) \in Nat
  <1>1. NSegment * PagesPerSegment \in Nat
    BY SizeAssumption
  <1>2. IsFiniteSet(1 .. NSegment * PagesPerSegment)
    BY <1>1, FS_Interval
  <1> QED
    BY <1>2, FS_CardinalityType DEF Page

LEMMA PagesFromIs ==
  ASSUME NEW first
  PROVE  \E f : /\ FollowedUpTo(first, Cardinality(Page), f)
                /\ PagesFrom(first) = f[Cardinality(Page)]
  <1> DEFINE f == CHOOSE f : FollowedUpTo(first, Cardinality(Page), f)
  <1>1. FollowedUpTo(first, Cardinality(Page), f)
    BY FollowedExists, PagesFinite
  <1>2. PagesFrom(first) = f[Cardinality(Page)]
    BY DEF PagesFrom, FollowedUpTo, Onward
  <1> QED
    BY <1>1, <1>2

Followed(first, n, f) == f[0] = {first} \ {0} /\ \A i \in 0 .. n - 1 : f[i + 1] = Onward(f[i])

LEMMA FollowedStep ==
  ASSUME NEW first, NEW n \in Nat, NEW f, FollowedUpTo(first, n, f)
  PROVE  Followed(first, n, f)
  <1>1. \A i \in 0 .. n : f[i] = IF i = 0 THEN {first} \ {0} ELSE Onward(f[i - 1])
    BY DEF FollowedUpTo
  <1>2. ASSUME NEW i \in 0 .. n - 1
        PROVE  f[i + 1] = Onward(f[i])
    <2>1. i + 1 \in 0 .. n /\ i + 1 # 0 /\ i + 1 - 1 = i
      OBVIOUS
    <2> QED
      BY <1>1, <2>1
  <1>3. f[0] = {first} \ {0}
    BY <1>1
  <1> QED
    BY <1>2, <1>3 DEF Followed

(* No page is found outside a set that next does not leave. *)
LEMMA PagesWithin ==
  ASSUME NEW first, NEW S, first \in S \cup {0}, \A p \in S : page[p].next \in S \cup {0}
  PROVE  PagesFrom(first) \subseteq S
  <1>1. PICK m \in Nat : m = Cardinality(Page)
    BY PagesFinite
  <1>2. PICK f : FollowedUpTo(first, m, f) /\ PagesFrom(first) = f[m]
    BY <1>1, PagesFromIs
  <1>19. Followed(first, m, f)
    BY <1>2, FollowedStep
  <1>20. f[0] = {first} \ {0} /\ \A i \in 0 .. m - 1 : f[i + 1] = Onward(f[i])
    BY <1>19 DEF Followed
  <1> DEFINE T == {n \in Nat : n <= m => f[n] \subseteq S}
  <1>3. 0 \in T
    BY <1>20
  <1>4. ASSUME NEW n \in Nat, n \in T
        PROVE  n + 1 \in T
    <2> SUFFICES ASSUME n + 1 <= m PROVE f[n + 1] \subseteq S
      OBVIOUS
    <2>1. n \in 0 .. m - 1 /\ f[n] \subseteq S
      BY <1>4
    <2>0. f[n + 1] = Onward(f[n])
      BY <1>20, <2>1
    <2>2. f[n + 1] = f[n] \cup ({page[p].next : p \in f[n]} \ {0})
      BY <2>0 DEF Onward
    <2> QED
      BY <2>1, <2>2
  <1>5. m \in T
    <2> HIDE DEF T
    <2> QED
      BY <1>3, <1>4, NumberInduction
  <1> QED
    BY <1>2, <1>5

(* Every page is found of a set that next only leaves where it is complete. *)
LEMMA PagesAll ==
  ASSUME TypeOK, NEW q \in QueueType, NEW C \in SUBSET Page, Linked(page, q, C)
  PROVE  PagesFrom(q.first) = C
  <1>0. PICK m \in Nat : m = Cardinality(Page)
    BY PagesFinite
  <1>1. PICK a \in Page \cup {0} : a = q.first /\ m = Cardinality(Page)
    BY <1>0 DEF QueueType
  <1>2. PICK f : FollowedUpTo(a, m, f) /\ PagesFrom(a) = f[m]
    BY <1>1, PagesFromIs
  <1>19. Followed(a, m, f)
    BY <1>2, FollowedStep
  <1>20. f[0] = {a} \ {0} /\ \A i \in 0 .. m - 1 : f[i + 1] = Onward(f[i])
    BY <1>19 DEF Followed
  <1>3. a \in C \cup {0} /\ \A p \in C : page[p].next \in C \cup {0}
    BY <1>1 DEF Linked, Ends, BothWays
  <1>4. PagesFrom(a) \subseteq C
    BY <1>3, PagesWithin
  <1> DEFINE Done(n) == \A p \in f[n] : page[p].next \in f[n] \cup {0}
             T == {n \in Nat : n <= m => /\ f[n] \subseteq Page /\ a \in f[n] \cup {0}
                                         /\ Done(n) \/ Cardinality(f[n]) >= n}
  <1>5. 0 \in T
    <2>1. f[0] = {a} \ {0} /\ a \in Page \cup {0}
      BY <1>3, <1>20
    <2>2. Cardinality(f[0]) \in Nat
      BY <2>1, FS_CardinalityType, FS_Singleton, FS_Difference
    <2> QED
      BY <2>1, <2>2
  <1>6. ASSUME NEW n \in Nat, n \in T
        PROVE  n + 1 \in T
    <2> SUFFICES ASSUME n + 1 <= m
                 PROVE  /\ f[n + 1] \subseteq Page /\ a \in f[n + 1] \cup {0}
                        /\ Done(n + 1) \/ Cardinality(f[n + 1]) >= n + 1
      OBVIOUS
    <2>1. n \in 0 .. m - 1 /\ f[n] \subseteq Page /\ a \in f[n] \cup {0} /\ (Done(n) \/ Cardinality(f[n]) >= n)
      BY <1>6
    <2>0. f[n + 1] = Onward(f[n])
      BY <1>20, <2>1
    <2>2. f[n + 1] = f[n] \cup ({page[p].next : p \in f[n]} \ {0})
      BY <2>0 DEF Onward
    <2>3. \A p \in f[n] : page[p].next \in Page \cup {0}
      BY <2>1 DEF TypeOK, PageType
    <2>4. f[n + 1] \subseteq Page /\ a \in f[n + 1] \cup {0}
      BY <2>1, <2>2, <2>3
    <2>5. CASE Done(n)
      <3>1. f[n + 1] = f[n]
        BY <2>2, <2>5
      <3> QED
        BY <2>4, <2>5, <3>1
    <2>6. CASE ~ Done(n)
      <3>1. PICK y \in f[n + 1] : y \notin f[n]
        BY <2>2, <2>6
      <3>2. PICK A, B : A = f[n] /\ B = f[n + 1]
        OBVIOUS
      <3>3. A \subseteq B /\ A # B /\ B \subseteq Page /\ IsFiniteSet(B)
        BY <2>2, <2>4, <3>1, <3>2, PagesFinite, FS_Subset
      <3>4. IsFiniteSet(A) /\ Cardinality(A) <= Cardinality(B) /\ (Cardinality(A) = Cardinality(B) => A = B)
        BY <3>3, FS_Subset
      <3>5. Cardinality(A) \in Nat /\ Cardinality(B) \in Nat
        BY <3>3, <3>4, FS_CardinalityType
      <3> QED
        BY <2>1, <2>4, <2>6, <3>2, <3>3, <3>4, <3>5
    <2> QED
      BY <2>4, <2>5, <2>6
  <1>7. m \in T
    <2> HIDE DEF T
    <2> QED
      BY <1>5, <1>6, NumberInduction
  <1>8. Done(m)
    <2> SUFFICES ASSUME Cardinality(f[m]) >= m PROVE Done(m)
      BY <1>7
    <2>1. f[m] \subseteq Page
      BY <1>7
    <2>2. Cardinality(f[m]) <= Cardinality(Page) /\ (Cardinality(f[m]) = Cardinality(Page) => f[m] = Page)
          /\ Cardinality(f[m]) \in Nat
      BY <2>1, PagesFinite, FS_Subset, FS_CardinalityType
    <2>3. f[m] = Page
      BY <1>1, <2>2
    <2> QED
      BY <2>3 DEF TypeOK, PageType
  <1>9. a \in f[m] \cup {0}
    BY <1>7
  <1>10. Closed(page, q, f[m]) /\ f[m] \in SUBSET C
    BY <1>1, <1>2, <1>4, <1>8, <1>9 DEF Closed
  <1> QED
    BY <1>1, <1>2, <1>10 DEF Linked, Reaches

-----------------------------------------------------------------------------
(* The monitor's steps that wipe pages. *)
LEMMA ZeroPageType == ZeroPage \in PageType
  <1>1. <<>> \in Seq(Offset)
    OBVIOUS
  <1> QED
    BY <1>1 DEF ZeroPage, PageType

LEMMA WipeRootPagesStep ==
  ASSUME HeapInv, WipeRootPages
  PROVE  HeapInv'
  <1> USE DEF HeapInv
  <1>1. PICK c \in Client : c = mon.slot
    BY DEF WipeRootPages, Recovering, StageInv
  <1>2. /\ mon.at = "release" /\ ~ Calm /\ held[c] = {}
        /\ page' = [p \in Page |-> IF p \in QueuePages(c, RootBin) THEN ZeroPage ELSE page[p]]
        /\ UNCHANGED <<owner, info, segment, queue, word, held, status, pc, op, mallocs>>
    BY <1>1 DEF WipeRootPages, Recovering, Calm, Idle, shared
  <1>3. PICK m \in MonType : m = mon
    BY DEF TypeOK
  <1>4. \A b \in Bin : QueuePages(c, b) \subseteq Page
    <2> SUFFICES ASSUME NEW b \in Bin PROVE QueuePages(c, b) \subseteq Page
      OBVIOUS
    <2>1. queue[c][b].first \in Page \cup {0}
      BY DEF TypeOK, QueueType
    <2>2. \A p \in Page : page[p].next \in Page \cup {0}
      BY DEF TypeOK, PageType
    <2> QED
      BY <2>1, <2>2, PagesWithin DEF QueuePages
  <1>5. PICK todo \in SUBSET Page : mon' = [m EXCEPT !.at = "pages", !.todo = todo]
    <2>1. UNION {QueuePages(c, b) : b \in Bin \ {RootBin}} \in SUBSET Page
      BY <1>4
    <2> QED
      BY <1>1, <1>3, <2>1 DEF WipeRootPages
  <1>6. mon' \in MonType /\ mon'.at = "pages" /\ mon'.slot = m.slot /\ ~ Calm'
    <2>1. PICK z : z = [m EXCEPT !.at = "pages", !.todo = todo]
      OBVIOUS
    <2>2. z \in MonType /\ z.at = "pages" /\ z.slot = m.slot
      BY <2>1 DEF MonType
    <2> QED
      BY <1>5, <2>1, <2>2 DEF Calm, Idle
  <1>7. page' \in [Page -> PageType]
    BY <1>2, ZeroPageType DEF TypeOK
  <1>8. TypeOK'
    BY <1>2, <1>6, <1>7 DEF TypeOK
  <1>9. StageInv' /\ ScanInv'
    BY <1>1, <1>2, <1>3, <1>6 DEF StageInv, ScanInv
  <1>10. ASSUME NEW d \in Client
         PROVE  ClientInv(d)'
    BY <1>2 DEF ClientInv
  <1>11. SegmentInv'
    BY <1>2 DEF SegmentInv, PagesOf
  <1>12. HeaderInv'
    BY <1>2 DEF HeaderInv, Holds
  <1> QED
    BY <1>6, <1>8, <1>9, <1>10, <1>11, <1>12

(* A page in use lies on a segment that has been initialised. *)
LEMMA UsedPage ==
  ASSUME SegmentInv, NEW p \in Page, page[p].bin # NONE
  PROVE  segment[SegmentOf(p)].tid # 0
  BY SegmentOfIs DEF SegmentInv, PagesOf, ZeroPage

LEMMA WipePageStep ==
  ASSUME HeapInv, NEW p \in mon.todo, WipePage(p)
  PROVE  HeapInv'
  <1> USE DEF HeapInv
  <1>1. PICK m \in MonType : m = mon
    BY DEF TypeOK
  <1>2. p \in Page
    BY <1>1 DEF MonType
  <1>3. PICK k \in Segment : k = SegmentOf(p)
    BY <1>2, SegmentOfIs
  <1>4. /\ mon.at = "pages" /\ ~ Calm
        /\ word' = [w \in Word |-> IF w[1] = p /\ w[2] \in First(page[p].free) THEN "clear" ELSE word[w]]
        /\ \/ LooksLive(p, word') /\ info' = [info EXCEPT ![k].state = "ABANDON"] /\ page' = page
           \/ page' = [page EXCEPT ![p] = ZeroPage] /\ info' = info
        /\ mon' = [m EXCEPT !.todo = @ \ {p}]
        /\ UNCHANGED <<owner, segment, queue, held, status, pc, op, mallocs>>
    BY <1>1, <1>3 DEF WipePage, Recovering, Calm, Idle
  <1>5. mon' \in MonType /\ mon'.at = "pages" /\ mon'.slot = m.slot /\ ~ Calm'
    <2>1. PICK z : z = [m EXCEPT !.todo = @ \ {p}]
      OBVIOUS
    <2>2. z \in MonType /\ z.at = m.at /\ z.slot = m.slot
      BY <2>1 DEF MonType
    <2> QED
      BY <1>1, <1>4, <2>1, <2>2 DEF Calm, Idle
  <1>6. word' \in [Word -> {"clear", "live", "junk"}] /\ \A w \in Word : word'[w] = "live" => word[w] = "live"
    BY <1>4 DEF TypeOK
  <1>7. page' \in [Page -> PageType] /\ \A q \in Page : page'[q] = page[q] \/ page'[q] = ZeroPage
    BY <1>2, <1>4, ZeroPageType DEF TypeOK
  <1>8. /\ info' \in [Segment -> [state : {"NORMAL", "ABANDON"}, list : Seq(Word)]]
        /\ \A j \in Segment : info'[j].state = info[j].state
                              \/ (info'[j].state = "ABANDON" /\ segment[j].tid # 0)
    <2>1. CASE info' = info
      BY <2>1 DEF TypeOK
    <2>2. CASE LooksLive(p, word') /\ info' = [info EXCEPT ![k].state = "ABANDON"]
      <3>1. segment[k].tid # 0
        BY <1>2, <1>3, <2>2, UsedPage DEF LooksLive
      <3>2. PICK y \in [state : {"NORMAL", "ABANDON"}, list : Seq(Word)] : y = info[k]
        BY DEF TypeOK
      <3>3. PICK z : z = [y EXCEPT !.state = "ABANDON"]
        OBVIOUS
      <3>4. z \in [state : {"NORMAL", "ABANDON"}, list : Seq(Word)] /\ z.state = "ABANDON"
        BY <3>3
      <3>5. info' = [info EXCEPT ![k] = z]
        BY <2>2, <3>2, <3>3
      <3> QED
        BY <3>1, <3>4, <3>5 DEF TypeOK
    <2> QED
      BY <1>4, <2>1, <2>2
  <1>9. TypeOK'
    BY <1>4, <1>5, <1>6, <1>7, <1>8 DEF TypeOK
  <1>10. StageInv' /\ ScanInv'
    BY <1>1, <1>4, <1>5 DEF StageInv, ScanInv
  <1>11. ASSUME NEW d \in Client
         PROVE  ClientInv(d)'
    <2>1. status[d] # "run"
      BY <1>4 DEF StageInv
    <2> QED
      BY <1>4, <1>8, <2>1 DEF ClientInv
  <1>12. SegmentInv'
    BY <1>4, <1>7, <1>8 DEF SegmentInv, PagesOf
  <1>13. HeaderInv'
    BY <1>4, <1>6 DEF HeaderInv, Holds
  <1> QED
    BY <1>5, <1>9, <1>10, <1>11, <1>12, <1>13

LEMMA WipedIs ==
  ASSUME TypeOK, NEW k \in Segment
  PROVE  /\ WipedPages(k) \in [Page -> PageType]
         /\ \A p \in PagesOf(k) : WipedPages(k)[p] = ZeroPage
         /\ \A p \in Page : SegmentOf(p) # k => WipedPages(k)[p] = page[p]
         /\ [segment EXCEPT ![k] = ZeroSegment] \in [Segment -> [tid : 0 .. NClient, used : Int]]
         /\ [owner EXCEPT ![k] = 0] \in [Segment -> 0 .. NClient]
  <1>1. ZeroSegment \in [tid : 0 .. NClient, used : Int] /\ 0 \in 0 .. NClient
    BY SizeAssumption DEF ZeroSegment
  <1> QED
    BY <1>1, ZeroPageType DEF TypeOK, WipedPages, PagesOf

LEMMA FreeSegmentStep ==
  ASSUME HeapInv, NEW k \in Segment, FreeSegment(k)
  PROVE  HeapInv'
  <1> USE DEF HeapInv
  <1>1. /\ mon.at = "pages" /\ ~ Calm /\ info[k].state # "ABANDON"
        /\ page' = WipedPages(k) /\ segment' = [segment EXCEPT ![k] = ZeroSegment]
        /\ owner' = [owner EXCEPT ![k] = 0]
        /\ UNCHANGED <<info, queue, word, held, status, pc, op, mon, mallocs>>
    BY DEF FreeSegment, NotAbandoned, Recovering, Calm, Idle
  <1>2. TypeOK'
    BY <1>1, WipedIs DEF TypeOK
  <1>3. StageInv' /\ ScanInv' /\ ~ Calm'
    BY <1>1 DEF StageInv, ScanInv, Calm
  <1>4. /\ owner'[k] = 0 /\ segment'[k].tid = 0 /\ info[k].state = "NORMAL"
        /\ \A j \in Segment \ {k} : owner'[j] = owner[j] /\ segment'[j] = segment[j]
    BY <1>1 DEF TypeOK, ZeroSegment
  <1>5. ASSUME NEW d \in Client
        PROVE  ClientInv(d)'
    <2>1. status[d] # "run" /\ d # 0
      BY <1>1 DEF StageInv, Client
    <2> QED
      BY <1>1, <1>4, <2>1 DEF ClientInv
  <1>6. SegmentInv'
    <2>1. \A j \in Segment \ {k} : \A p \in PagesOf(j) : page'[p] = page[p]
      BY <1>1, WipedIs DEF PagesOf
    <2>2. \A p \in PagesOf(k) : page'[p] = ZeroPage
      BY <1>1, WipedIs
    <2> QED
      BY <1>1, <1>4, <2>1, <2>2 DEF SegmentInv
  <1>7. HeaderInv'
    BY <1>1 DEF HeaderInv, Holds
  <1> QED
    BY <1>2, <1>3, <1>5, <1>6, <1>7

LEMMA ReturnSlotStep ==
  ASSUME HeapInv, ReturnSlot
  PROVE  HeapInv'
  <1> USE DEF HeapInv
  <1>1. PICK c \in Client : c = mon.slot
    BY DEF ReturnSlot, Recovering, StageInv
  <1>2. /\ mon.at = "pages" /\ ~ Calm /\ held[c] = {} /\ status[c] = "dead"
        /\ \A k \in Segment : owner[k] = c => info[k].state = "ABANDON"
        /\ \A d \in Client : d < c => status[d] = "vacant"
        /\ \A d \in Client : status[d] # "run"
        /\ queue' = [queue EXCEPT ![c] = NoQueues] /\ status' = [status EXCEPT ![c] = "vacant"]
        /\ op' = [op EXCEPT ![c] = NoOp]
        /\ mon' = [Idle EXCEPT !.at = "slot", !.slot = c + 1]
        /\ UNCHANGED <<owner, info, segment, page, word, held, pc, mallocs>>
    BY <1>1 DEF ReturnSlot, Recovering, Calm, Idle, shared, StageInv, NotAbandoned
  <1>3. mon' \in MonType /\ mon'.at = "slot" /\ mon'.slot = c + 1 /\ ~ Calm'
    <2>1. PICK m \in MonType : m = Idle
      BY MonIs
    <2>2. PICK i \in 0 .. NClient + 1 : i = c + 1
      BY MonIs DEF Client
    <2>3. PICK z : z = [m EXCEPT !.at = "slot", !.slot = i]
      OBVIOUS
    <2>4. z \in MonType /\ z.at = "slot" /\ z.slot = i
      BY <2>3 DEF MonType
    <2>5. mon' = z
      BY <1>2, <2>1, <2>2, <2>3
    <2> QED
      BY <2>2, <2>4, <2>5 DEF Calm, Idle
  <1>4. /\ status'[c] = "vacant" /\ op'[c] = NoOp
        /\ \A d \in Client \ {c} : status'[d] = status[d] /\ op'[d] = op[d] /\ queue'[d] = queue[d]
    BY <1>2 DEF TypeOK
  <1>5. TypeOK'
    <2>1. NoQueues \in [Bin \cup {NONE} -> QueueType]
      BY DEF NoQueues, QueueType
    <2>2. queue' \in [Client -> [Bin \cup {NONE} -> QueueType]]
      BY <1>2, <2>1 DEF TypeOK
    <2>3. status' \in [Client -> {"vacant", "run", "dead"}] /\ op' \in [Client -> OpType]
      BY <1>2, NoOpType DEF TypeOK
    <2> QED
      BY <1>2, <1>3, <2>2, <2>3 DEF TypeOK
  <1>6. StageInv' /\ ScanInv'
    <2>1. \A d \in Client : d < c + 1 => status'[d] = "vacant"
      BY <1>2, <1>4 DEF Client
    <2>2. c + 1 # 0 /\ \A d \in Client : status'[d] # "run"
      BY <1>2, <1>4 DEF Client
    <2> QED
      BY <1>3, <2>1, <2>2 DEF StageInv, ScanInv
  <1>7. ASSUME NEW d \in Client
        PROVE  ClientInv(d)'
    <2>1. CASE d = c
      <3>1. pc[c] = "idle"
        BY <1>2 DEF ClientInv
      <3> QED
        BY <1>2, <1>4, <2>1, <3>1 DEF ClientInv, NoOp
    <2>2. CASE d # c
      BY <1>2, <1>4, <2>2, ClientKept
    <2> QED
      BY <2>1, <2>2
  <1>8. SegmentInv' /\ HeaderInv'
    BY <1>2 DEF SegmentInv, HeaderInv, Holds
  <1> QED
    BY <1>3, <1>5, <1>6, <1>7, <1>8

(* The segment that the monitor looks through; what it saw of the others   *)
(* stays.                                                                  *)
LEMMA ShowsKept ==
  ASSUME NEW j \in Segment, Shows(j), owner'[j] = owner[j] \/ owner'[j] = 0, word' = word,
         \A p \in PagesOf(j) : LooksLive(p, word) => page'[p] = page[p]
  PROVE  Shows(j)'
  <1> SUFFICES ASSUME owner'[j] # 0 PROVE \E p \in PagesOf(j) : LooksLive(p, word)'
    BY DEF Shows
  <1>1. PICK p \in PagesOf(j) : LooksLive(p, word)
    BY DEF Shows
  <1>2. page'[p] = page[p]
    BY <1>1
  <1>3. LooksLive(p, word)'
    BY <1>1, <1>2 DEF LooksLive
  <1> QED
    BY <1>3

LEMMA ScanSegmentStep ==
  ASSUME HeapInv, ScanSegment
  PROVE  HeapInv'
  <1> USE DEF HeapInv
  <1>1. /\ mon.at = "scan" /\ ~ Calm /\ mon.seg # 0 /\ (\A c \in Client : status[c] = "vacant")
        /\ \A k \in Segment : k < mon.seg => Shows(k)
        /\ UNCHANGED <<owner, info, segment, queue, word, held, status, pc, op, mallocs>>
    BY DEF ScanSegment, Recovering, Calm, Idle, shared, StageInv, ScanInv
  <1>2. PICK m \in MonType : m = mon
    BY DEF TypeOK
  <1>3. ASSUME NEW d \in Client
        PROVE  ClientInv(d)'
    BY <1>1 DEF ClientInv
  <1>4. HeaderInv'
    BY <1>1 DEF HeaderInv, Holds
  <1>5. CASE m.seg \notin Segment
    <2>1. mon' = Idle /\ page' = page /\ Calm'
      BY <1>2, <1>5 DEF ScanSegment, Calm
    <2>2. TypeOK'
      BY <1>1, <2>1, MonIs DEF TypeOK
    <2>3. StageInv'
      BY <2>1 DEF StageInv, Calm, Idle
    <2>4. SegmentInv'
      BY <1>1, <2>1 DEF SegmentInv
    <2>5. \A k \in Segment : k < m.seg
      BY <1>1, <1>2, <1>5, MonIs DEF Segment
    <2>6. \A k \in Segment : Shows(k)'
      BY <1>1, <1>2, <2>1, <2>5, ShowsKept
    <2>7. ScanInv'
      BY <2>1, <2>6 DEF ScanInv, Calm, Idle
    <2>8. Empty'
      <3>1. ASSUME NEW k \in Segment
            PROVE  ~ Active(k)
        <4> SUFFICES ASSUME segment[k].tid # 0 PROVE info[k].state = "ABANDON"
          BY DEF Active
        <4>1. PICK d \in Client : d = owner[k]
          BY DEF SegmentInv, TypeOK, Client
        <4> QED
          BY <1>1, <4>1 DEF ClientInv
      <3>2. \A c \in Client : pc[c] = "idle" /\ held[c] = {} /\ op[c].block = <<>>
        BY <1>1 DEF ClientInv
      <3> QED
        BY <1>1, <3>1, <3>2 DEF Empty, Active
    <2> QED
      BY <1>3, <1>4, <2>2, <2>3, <2>4, <2>7, <2>8, EmptyCalmNext
  <1>6. CASE m.seg \in Segment
    <2>1. PICK k \in Segment : k = m.seg
      BY <1>6
    <2> DEFINE pages == {p \in PagesOf(k) : LooksLive(p, word)}
               wiped == {p \in PagesOf(k) : page[p].bin # NONE /\ \A q \in pages : p < q}
    <2>2. /\ mon' = IF owner[k] = 0 \/ pages # {} THEN [m EXCEPT !.seg = k + 1] ELSE [m EXCEPT !.at = "wipe"]
          /\ page' = [p \in Page |-> IF owner[k] # 0 /\ p \in wiped THEN ZeroPage ELSE page[p]]
      BY <1>2, <2>1 DEF ScanSegment
    <2>3. \A p \in pages : p \notin wiped
      BY DEF PagesOf, Page
    <2>4. /\ \A p \in Page : page'[p] = page[p] \/ (page'[p] = ZeroPage /\ p \in PagesOf(k))
          /\ \A p \in pages : page'[p] = page[p]
      BY <2>2, <2>3 DEF PagesOf
    <2>5. page' \in [Page -> PageType]
      BY <2>2, ZeroPageType DEF TypeOK
    <2> HIDE DEF wiped, pages
    <2>6. /\ mon' \in MonType /\ ~ Calm'
          /\ \/ mon'.at = "scan" /\ mon'.seg = k + 1 /\ (owner[k] = 0 \/ pages # {})
             \/ mon'.at = "wipe" /\ mon'.seg = k
      <3>1. k + 1 \in 0 .. NSegment + 1
        BY MonIs DEF Segment
      <3>2. CASE owner[k] = 0 \/ pages # {}
        <4>1. PICK z : z = [m EXCEPT !.seg = k + 1]
          OBVIOUS
        <4>2. z \in MonType /\ z.at = m.at /\ z.seg = k + 1
          BY <3>1, <4>1 DEF MonType
        <4> QED
          BY <1>1, <1>2, <2>2, <3>2, <4>1, <4>2 DEF Calm, Idle
      <3>3. CASE ~ (owner[k] = 0 \/ pages # {})
        <4>1. PICK z : z = [m EXCEPT !.at = "wipe"]
          OBVIOUS
        <4>2. z \in MonType /\ z.at = "wipe" /\ z.seg = k
          BY <2>1, <4>1 DEF MonType
        <4> QED
          BY <2>2, <3>3, <4>1, <4>2 DEF Calm, Idle
      <3> QED
        BY <3>2, <3>3
    <2>7. TypeOK'
      BY <1>1, <2>5, <2>6 DEF TypeOK
    <2>8. \A j \in Segment : j < k => Shows(j)'
      <3> SUFFICES ASSUME NEW j \in Segment, j < k PROVE Shows(j)'
        OBVIOUS
      <3>0. j # k
        BY DEF Segment
      <3>1. \A p \in PagesOf(j) : page'[p] = page[p]
        BY <2>4, <3>0 DEF PagesOf
      <3> QED
        BY <1>1, <1>2, <2>1, <3>1, ShowsKept
    <2>9. owner[k] = 0 \/ pages # {} => Shows(k)'
      <3>1. CASE owner[k] = 0
        BY <1>1, <3>1 DEF Shows
      <3>2. CASE pages # {}
        <4>1. Shows(k)
          BY <3>2 DEF Shows, pages
        <4>2. \A p \in PagesOf(k) : LooksLive(p, word) => page'[p] = page[p]
          BY <2>4 DEF pages
        <4> QED
          BY <1>1, <4>1, <4>2, ShowsKept
      <3> QED
        BY <3>1, <3>2
    <2>10. ScanInv'
      <3>1. ASSUME NEW j \in Segment, j < k + 1, ~ (j < k)
            PROVE  j = k
        BY <3>1 DEF Segment
      <3> QED
        BY <2>6, <2>8, <2>9, <3>1 DEF ScanInv
    <2>11. StageInv'
      <3>1. k # 0 /\ k + 1 # 0
        BY DEF Segment
      <3> QED
        BY <1>1, <2>6, <3>1 DEF StageInv
    <2>12. SegmentInv'
      <3>1. \A j \in Segment : \A p \in PagesOf(j) : page'[p] = page[p] \/ page'[p] = ZeroPage
        BY <2>4 DEF PagesOf
      <3> QED
        BY <1>1, <3>1 DEF SegmentInv
    <2> QED
      BY <1>3, <1>4, <2>6, <2>7, <2>10, <2>11, <2>12
  <1> QED
    BY <1>5, <1>6

LEMMA WipeSegmentStep ==
  ASSUME HeapInv, WipeSegment
  PROVE  HeapInv'
  <1> USE DEF HeapInv
  <1>1. PICK m \in MonType : m = mon
    BY DEF TypeOK
  <1>2. PICK k \in Segment : k = m.seg
    BY <1>1 DEF WipeSegment, Recovering, StageInv
  <1>3. /\ mon.at = "wipe" /\ ~ Calm /\ (\A c \in Client : status[c] = "vacant")
        /\ \A j \in Segment : j < k => Shows(j)
        /\ page' = WipedPages(k) /\ segment' = [segment EXCEPT ![k] = ZeroSegment]
        /\ info' = [info EXCEPT ![k] = [state |-> "NORMAL", list |-> <<>>]]
        /\ owner' = [owner EXCEPT ![k] = 0]
        /\ mon' = [m EXCEPT !.at = "scan", !.seg = k + 1]
        /\ UNCHANGED <<queue, word, held, status, pc, op, mallocs>>
    BY <1>1, <1>2 DEF WipeSegment, Recovering, Calm, Idle, StageInv, ScanInv
  <1>4. mon' \in MonType /\ mon'.at = "scan" /\ mon'.seg = k + 1 /\ ~ Calm'
    <2>1. k + 1 \in 0 .. NSegment + 1
      BY MonIs DEF Segment
    <2>2. PICK z : z = [m EXCEPT !.at = "scan", !.seg = k + 1]
      OBVIOUS
    <2>3. z \in MonType /\ z.at = "scan" /\ z.seg = k + 1
      BY <2>1, <2>2 DEF MonType
    <2> QED
      BY <1>3, <2>2, <2>3 DEF Calm, Idle
  <1>5. info' \in [Segment -> [state : {"NORMAL", "ABANDON"}, list : Seq(Word)]]
    <2>1. [state |-> "NORMAL", list |-> <<>>] \in [state : {"NORMAL", "ABANDON"}, list : Seq(Word)]
      OBVIOUS
    <2> QED
      BY <1>3, <2>1 DEF TypeOK
  <1>6. TypeOK'
    <2>1. page' \in [Page -> PageType] /\ segment' \in [Segment -> [tid : 0 .. NClient, used : Int]]
          /\ owner' \in [Segment -> 0 .. NClient]
      BY <1>3, WipedIs
    <2> QED
      BY <1>3, <1>4, <1>5, <2>1 DEF TypeOK
  <1>7. /\ owner'[k] = 0 /\ segment'[k].tid = 0 /\ info'[k].state = "NORMAL"
        /\ \A j \in Segment \ {k} : owner'[j] = owner[j] /\ segment'[j] = segment[j] /\ info'[j] = info[j]
    BY <1>3 DEF TypeOK, ZeroSegment
  <1>8. /\ \A p \in PagesOf(k) : page'[p] = ZeroPage
        /\ \A j \in Segment \ {k} : \A p \in PagesOf(j) : page'[p] = page[p]
    BY <1>3, WipedIs DEF PagesOf
  <1>9. ASSUME NEW d \in Client
        PROVE  ClientInv(d)'
    <2>1. status[d] # "run" /\ d # 0
      BY <1>3 DEF Client
    <2> QED
      BY <1>3, <1>7, <2>1 DEF ClientInv
  <1>10. SegmentInv'
    BY <1>7, <1>8 DEF SegmentInv
  <1>11. HeaderInv'
    BY <1>3 DEF HeaderInv, Holds
  <1>12. ScanInv'
    <2>1. ASSUME NEW j \in Segment, j < k + 1
          PROVE  Shows(j)'
      <3>1. CASE j = k
        BY <1>7, <3>1 DEF Shows
      <3>2. CASE j # k
        <4>1. Shows(j)
          BY <1>3, <2>1, <3>2 DEF Segment
        <4> QED
          BY <1>3, <1>7, <1>8, <3>2, <4>1, ShowsKept
      <3> QED
        BY <3>1, <3>2
    <2> QED
      BY <1>4, <2>1 DEF ScanInv
  <1>13. StageInv'
    <2>1. k + 1 # 0
      BY DEF Segment
    <2> QED
      BY <1>3, <1>4, <2>1 DEF StageInv
  <1> QED
    BY <1>4, <1>6, <1>9, <1>10, <1>11, <1>12, <1>13

-----------------------------------------------------------------------------
(* The invariant.                                                          *)

LEMMA InitHeap == Init => HeapInv
  <1> SUFFICES ASSUME Init PROVE HeapInv
    OBVIOUS
  <1>1. TypeOK
    <2>1. 0 \in 0 .. NClient /\ 0 \in 0 .. NSegment + 1 /\ 0 \in 0 .. NClient + 1
      BY SizeAssumption
    <2>2. NoQueues \in [Bin \cup {NONE} -> QueueType]
      BY DEF NoQueues, QueueType
    <2>3. ZeroSegment \in [tid : 0 .. NClient, used : Int]
      BY <2>1 DEF ZeroSegment
    <2>4. [state |-> "NORMAL", list |-> <<>>] \in [state : {"NORMAL", "ABANDON"}, list : Seq(Word)]
      OBVIOUS
    <2>5. page \in [Page -> PageType] /\ queue \in [Client -> [Bin \cup {NONE} -> QueueType]]
      BY <2>2, ZeroPageType DEF Init
    <2>6. segment \in [Segment -> [tid : 0 .. NClient, used : Int]] /\ op \in [Client -> OpType]
      BY <2>3, NoOpType DEF Init
    <2>7. info \in [Segment -> [state : {"NORMAL", "ABANDON"}, list : Seq(Word)]]
      BY <2>4 DEF Init
    <2>8. mon \in MonType
      BY <2>1 DEF Init, Idle, MonType
    <2> QED
      BY <2>1, <2>5, <2>6, <2>7, <2>8 DEF Init, TypeOK
  <1>2. StageInv /\ ScanInv
    BY DEF Init, StageInv, ScanInv, Calm, Idle, Shows
  <1>3. ASSUME NEW c \in Client
        PROVE  ClientInv(c)
    BY <1>1 DEF Init, ClientInv, NoOp, Client
  <1>4. SegmentInv /\ HeaderInv
    BY DEF Init, SegmentInv, HeaderInv, ZeroSegment, PagesOf
  <1>5. Empty
    BY DEF Init, Empty, Active, ZeroSegment, NoOp
  <1> QED
    BY <1>1, <1>2, <1>3, <1>4, <1>5, EmptyCalm DEF HeapInv

LEMMA ClientStepKeeps ==
  ASSUME HeapInv, NEW c \in Client, ClientStep(c)
  PROVE  HeapInv'
  <1>1. ASSUME NEW bin \in Bin, MallocFast(c, bin) \/ MallocSlow(c, bin)
        PROVE  HeapInv'
    BY <1>1, MallocFastStep, MallocSlowStep
  <1>2. ASSUME NEW e \in held[c], FreeLocal(c, e) \/ FreeRemote(c, e) \/ WriteData(c, e)
        PROVE  HeapInv'
    BY <1>2, FreeLocalStep, FreeRemoteStep, WriteDataStep
  <1>3. ASSUME NEW d \in Client, NEW e \in held[c], PassOn(c, d, e)
        PROVE  HeapInv'
    BY <1>3, PassOnStep
  <1>4. CASE CollectPage(c)
    BY <1>4, CollectPageStep
  <1>5. CASE TakePage(c)
    BY <1>5, TakePageStep
  <1>6. CASE ClaimSegment(c)
    BY <1>6, ClaimSegmentStep
  <1>7. CASE InitSegment(c)
    BY <1>7, InitSegmentStep
  <1>8. CASE Carve(c)
    BY <1>8, CarveStep
  <1>9. CASE ReleaseSegment(c)
    BY <1>9, ReleaseSegmentStep
  <1>10. CASE PushRemote(c)
    BY <1>10, PushRemoteStep
  <1>11. CASE OutOfMemory(c)
    BY <1>11, EndOfClientStep
  <1> QED
    BY <1>1, <1>2, <1>3, <1>4, <1>5, <1>6, <1>7, <1>8, <1>9, <1>10, <1>11 DEF ClientStep

LEMMA MonitorStepKeeps ==
  ASSUME HeapInv, MonitorStep
  PROVE  HeapInv'
  <1>1. CASE CheckSlot
    BY <1>1, CheckSlotStep
  <1>2. CASE WipeRootPages
    BY <1>2, WipeRootPagesStep
  <1>3. CASE ReturnSlot
    BY <1>3, ReturnSlotStep
  <1>4. CASE ScanSegment
    BY <1>4, ScanSegmentStep
  <1>5. CASE WipeSegment
    BY <1>5, WipeSegmentStep
  <1>6. CASE mon.slot \in Client /\ \E e \in held[mon.slot] : ReleaseHeld(e)
    BY <1>6, ReleaseHeldStep
  <1>7. CASE \E p \in mon.todo : WipePage(p)
    BY <1>7, WipePageStep
  <1>8. CASE \E k \in Segment : FreeSegment(k)
    BY <1>8, FreeSegmentStep
  <1> QED
    BY <1>1, <1>2, <1>3, <1>4, <1>5, <1>6, <1>7, <1>8 DEF MonitorStep

LEMMA StutterKeeps ==
  ASSUME HeapInv, UNCHANGED vars
  PROVE  HeapInv'
  <1> USE DEF HeapInv
  <1>1. UNCHANGED <<owner, info, segment, page, queue, word, held, status, pc, op, mon, mallocs>>
    BY DEF vars, shared, heap
  <1>2. TypeOK' /\ StageInv' /\ (Calm' <=> Calm)
    BY <1>1 DEF TypeOK, StageInv, Calm
  <1>3. ASSUME NEW c \in Client PROVE ClientInv(c)'
    BY <1>1 DEF ClientInv
  <1>4. SegmentInv' /\ HeaderInv'
    BY <1>1 DEF SegmentInv, HeaderInv, Holds
  <1>5. ScanInv'
    BY <1>1, <1>2 DEF ScanInv, Shows, LooksLive
  <1>6. Calm => CalmInv'
    <2> SUFFICES ASSUME Calm PROVE CalmInv'
      OBVIOUS
    <2>1. SameStates /\ ListInv' /\ Pending' = Pending
      BY <1>1, ListsKept DEF CalmInv
    <2>2. PagesInv' /\ LinkInv' /\ CountInv' /\ SizeInv'
      BY <1>1, <2>1, CalmKept DEF CalmInv, Steady, SizeInv
    <2>3. WorkInv'
      <3> SUFFICES ASSUME NEW d \in Client
                   PROVE  (/\ pc[d] = "collect" => op[d].page \in Class(d, op[d].bin) \cup {0}
                           /\ pc[d] = "carve" =>
                                /\ op[d].page \in Page /\ Owns(d, SegmentOf(op[d].page))
                                /\ Blank(op[d].page) /\ page[op[d].page].bin = op[d].bin)'
        BY DEF WorkInv
      <3>1. /\ pc[d] = "collect" => op[d].page \in Class(d, op[d].bin) \cup {0} /\ op[d].bin \in Bin
            /\ pc[d] = "carve" =>
                 /\ op[d].page \in Page /\ Owns(d, SegmentOf(op[d].page))
                 /\ Blank(op[d].page) /\ page[op[d].page].bin = op[d].bin
        BY DEF WorkInv, CalmInv, ClientInv
      <3>2. \A b \in Bin : Class(d, b)' = Class(d, b)
        BY <1>1, <2>1, HeapKept
      <3>3. \A p \in Page : (Owns(d, SegmentOf(p))' <=> Owns(d, SegmentOf(p))) /\ (Blank(p)' <=> Blank(p))
        BY <1>1, <2>1, HeapKept, SegmentOfIs
      <3> QED
        BY <1>1, <3>1, <3>2, <3>3
    <2>4. Held' = Held /\ Pushed' = Pushed
      BY <1>1 DEF Held, Pushed
    <2>5. BlockInv'
      BY <1>1, <2>1, <2>4, HeapKept DEF BlockInv, CalmInv
    <2> QED
      BY <2>1, <2>2, <2>3, <2>5 DEF CalmInv
  <1> QED
    BY <1>2, <1>3, <1>4, <1>5, <1>6

(* HeapInv holds through every allocation, local or remote free, failure   *)
(* and recovery (alloc.cpp, page.cpp, page_queue.cpp, segment.cpp, and the *)
(* page and segment passes of recovery.cpp:367-446, 572-645).              *)
THEOREM HeapInvariant ==
  ASSUME Quiescent PROVE Spec => []HeapInv
  <1>1. HeapInv /\ [Next]_vars => HeapInv'
    <2> SUFFICES ASSUME HeapInv, [Next]_vars PROVE HeapInv'
      OBVIOUS
    <2>1. ASSUME NEW c \in Client, ThreadInit(c)
          PROVE  HeapInv'
      BY <2>1, ThreadInitStep
    <2>2. ASSUME NEW c \in Client, ClientStep(c)
          PROVE  HeapInv'
      BY <2>2, ClientStepKeeps
    <2>3. ASSUME NEW c \in Client, Crash(c)
          PROVE  HeapInv'
      BY <2>3, EndOfClientStep
    <2>4. CASE StartRecovery
      BY <2>4, StartRecoveryStep
    <2>5. CASE MonitorStep
      BY <2>5, MonitorStepKeeps
    <2>6. CASE UNCHANGED vars
      BY <2>6, StutterKeeps
    <2> QED
      BY <2>1, <2>2, <2>3, <2>4, <2>5, <2>6 DEF Next
  <1> QED
    BY <1>1, InitHeap, PTL DEF Spec

-----------------------------------------------------------------------------
(* What the invariant says of the queues that the monitor would walk. *)
LEMMA QueueIs ==
  ASSUME HeapInv, Calm, NEW c \in Client, status[c] # "vacant", NEW b \in Bin \cup {NONE}
  PROVE  QueuePages(c, b) = Class(c, b)
  <1> USE DEF HeapInv
  <1>1. PICK q \in QueueType : q = queue[c][b]
    BY DEF TypeOK
  <1>2. PICK C \in SUBSET Page : C = Class(c, b)
    BY DEF Class
  <1>3. Linked(page, q, C)
    BY <1>1, <1>2 DEF LinkInv, CalmInv
  <1>4. PagesFrom(q.first) = C
    BY <1>3, PagesAll
  <1> QED
    BY <1>1, <1>2, <1>4 DEF QueuePages

LEMMA OfClass ==
  ASSUME NEW c \in Client, NEW b \in Bin \cup {NONE}, NEW p \in Class(c, b)
  PROVE  /\ p \in Page /\ SegmentOf(p) \in Segment /\ Owns(c, SegmentOf(p)) /\ Active(SegmentOf(p))
         /\ page[p].bin = b /\ (b = NONE \/ Carved(p))
  <1>1. p \in Page /\ Owns(c, SegmentOf(p)) /\ page[p].bin = b /\ (b = NONE \/ Carved(p))
    BY DEF Class
  <1> QED
    BY <1>1, SegmentOfIs DEF Owns, Active, Client

LEMMA UsedExactNow == HeapInv => UsedExact
  <1> SUFFICES ASSUME HeapInv, NEW c \in Client, Live(c), NEW b \in Bins(c), NEW p \in QueuePages(c, b)
               PROVE  page[p].used = Len(BlocksOf(b)) - Len(page[p].free) - Len(page[p].local)
    BY DEF UsedExact
  <1>1. b \in Bin /\ b # NONE /\ Calm /\ status[c] # "vacant"
    BY SizeAssumption DEF Bins, Live, Calm
  <1>2. p \in Class(c, b)
    BY <1>1, QueueIs
  <1>3. p \in Page /\ page[p].bin = b /\ Carved(p)
    BY <1>1, <1>2, OfClass
  <1>4. PICK i \in Int, j \in Nat, n \in Nat :
          i = page[p].used /\ j = Len(page[p].free) /\ n = Len(page[p].local)
    BY <1>3, PageFields DEF TypeOK, HeapInv
  <1>5. PICK m \in Nat : m = Len(BlocksOf(b))
    BY <1>1, BlocksFacts
  <1>6. i + j + n = m
    BY <1>3, <1>4, <1>5 DEF Carved
  <1>7. i = m - j - n
    BY <1>6
  <1> QED
    BY <1>4, <1>5, <1>7

LEMMA QueuesExactNow == HeapInv => QueuesExact
  <1> SUFFICES ASSUME HeapInv, NEW c \in Client, Settled(c)
               PROVE  /\ \A b \in Bin \cup {NONE} : \A p \in QueuePages(c, b) :
                           /\ page[p].bin = b
                           /\ p = queue[c][b].first \/ page[page[p].prev].next = p
                           /\ p = queue[c][b].last \/ page[page[p].next].prev = p
                      /\ \A k \in {SegmentOf(p) : p \in AllQueued(c)} :
                           /\ PagesOf(k) \subseteq AllQueued(c)
                           /\ owner[k] = c /\ segment[k].tid = c
                           /\ segment[k].used = Cardinality({p \in PagesOf(k) : page[p].bin # NONE})
                           /\ segment[k].used > 0 \/ pc[c] = "collect"
    BY DEF QueuesExact
  <1>1. status[c] = "run" /\ status[c] # "vacant" /\ pc[c] # "carve" /\ Calm /\ CalmInv
    BY RunningCalm DEF Settled, HeapInv
  <1>2. \A b \in Bin \cup {NONE} : QueuePages(c, b) = Class(c, b)
    BY <1>1, QueueIs
  <1>3. ASSUME NEW b \in Bin \cup {NONE}, NEW p \in QueuePages(c, b)
        PROVE  /\ page[p].bin = b
               /\ p = queue[c][b].first \/ page[page[p].prev].next = p
               /\ p = queue[c][b].last \/ page[page[p].next].prev = p
    <2>1. p \in Class(c, b)
      BY <1>2, <1>3
    <2>2. BothWays(page, queue[c][b], Class(c, b))
      BY <1>1 DEF LinkInv, CalmInv, Linked
    <2>3. page[p].bin = b
      BY <2>1, OfClass
    <2>4. p = queue[c][b].first \/ page[page[p].prev].next = p
      BY <2>1, <2>2 DEF BothWays
    <2>5. p = queue[c][b].last \/ page[page[p].next].prev = p
      BY <2>1, <2>2 DEF BothWays
    <2> QED
      BY <2>3, <2>4, <2>5
  <1>4. ASSUME NEW p \in Page
        PROVE  p \in AllQueued(c) <=> Owns(c, SegmentOf(p))
    <2>1. ASSUME p \in AllQueued(c)
          PROVE  Owns(c, SegmentOf(p))
      BY <1>2, <2>1, OfClass DEF AllQueued
    <2>2. ASSUME Owns(c, SegmentOf(p))
          PROVE  \E b \in Bin \cup {NONE} : p \in Class(c, b)
      <3>1. Active(SegmentOf(p))
        BY <2>2 DEF Owns, Active, Client
      <3>2. (Blank(p) /\ page[p].bin = NONE) \/ Carved(p)
        BY <1>1, <2>2, <3>1 DEF PagesInv, CalmInv
      <3> QED
        BY <2>2, <3>2 DEF Class, Carved
    <2> QED
      BY <1>2, <2>1, <2>2 DEF AllQueued
  <1>5. ASSUME NEW k \in {SegmentOf(p) : p \in AllQueued(c)}
        PROVE  /\ PagesOf(k) \subseteq AllQueued(c)
               /\ owner[k] = c /\ segment[k].tid = c
               /\ segment[k].used = Cardinality({p \in PagesOf(k) : page[p].bin # NONE})
               /\ segment[k].used > 0 \/ pc[c] = "collect"
    <2>10. PICK p \in AllQueued(c) : k = SegmentOf(p)
      BY <1>5
    <2>1. PICK b \in Bin \cup {NONE} : p \in Class(c, b) /\ k = SegmentOf(p)
      BY <1>2, <2>10 DEF AllQueued
    <2>2. k \in Segment /\ Owns(c, k) /\ Active(k)
      BY <2>1, OfClass
    <2>3. PagesOf(k) \subseteq AllQueued(c)
      BY <1>4, <2>2 DEF PagesOf
    <2>4. segment[k].tid = c /\ owner[k] = c
      BY <2>2 DEF Owns, Active, SegmentInv, HeapInv
    <2>5. segment[k].used = Cardinality(InUse(k)) /\ (InUse(k) = {} => pc[c] = "collect")
      BY <1>1, <2>2 DEF CountInv, CalmInv
    <2>6. InUse(k) # {} => Cardinality(InUse(k)) > 0
      <3>1. IsFiniteSet(InUse(k))
        BY <2>2, PageOfSegment, FS_Subset DEF InUse
      <3> QED
        BY <3>1, FS_EmptySet, FS_CardinalityType
    <2> QED
      BY <2>3, <2>4, <2>5, <2>6 DEF InUse
  <1> QED
    BY <1>3, <1>5

LEMMA HeldPagesStayNow == HeapInv => HeldPagesStay
  <1> SUFFICES ASSUME HeapInv, NEW c \in Client, status[c] = "run"
               PROVE  /\ \A e \in held[c] : page[e[1]].bin \in Bin /\ Size[page[e[1]].bin] = e[3]
                      /\ op[c].block # <<>> =>
                           /\ page[op[c].block[1]].bin \in Bin
                           /\ op[c].block[2] \in Range(BlocksOf(page[op[c].block[1]].bin))
    BY DEF HeldPagesStay
  <1> USE DEF HeapInv
  <1>1. CalmInv
    BY RunningCalm
  <1>2. ASSUME NEW e \in held[c]
        PROVE  page[e[1]].bin \in Bin /\ Size[page[e[1]].bin] = e[3]
    BY <1>1, HeldIsBlock DEF CalmInv, SizeInv, Carved
  <1>3. ASSUME op[c].block # <<>>
        PROVE  /\ page[op[c].block[1]].bin \in Bin
               /\ op[c].block[2] \in Range(BlocksOf(page[op[c].block[1]].bin))
    <2>1. op[c].block \in Pushed[c]
      BY <1>3 DEF Pushed
    <2>2. op[c].block \in Blocks
      BY <1>1, <2>1 DEF CalmInv, BlockInv, Partition
    <2> QED
      BY <2>2 DEF Blocks, Carved, Starts
  <1> QED
    BY <1>2, <1>3

LEMMA OnlyStaleHeadersStayNow == HeapInv => OnlyStaleHeadersStay
  <1> SUFFICES ASSUME HeapInv, Recovered
               PROVE  /\ \A w \in Word : word[w] # "live"
                      /\ \A k \in Segment : owner[k] # 0 => \E p \in PagesOf(k) : LooksLive(p, word)
    BY DEF OnlyStaleHeadersStay
  <1> USE DEF HeapInv
  <1>1. Calm /\ \A c \in Client : status[c] = "vacant"
    BY DEF Recovered, Calm
  <1>2. \A c \in Client : held[c] = {}
    BY <1>1 DEF ClientInv
  <1>3. \A w \in Word : word[w] # "live"
    BY <1>2 DEF HeaderInv, Holds
  <1>4. \A k \in Segment : Shows(k)
    BY <1>1 DEF ScanInv
  <1> QED
    BY <1>3, <1>4 DEF Shows

-----------------------------------------------------------------------------
(* Every block of a page in one place, counted. *)
LEMMA TwoParts ==
  ASSUME NEW A, NEW B, IsFiniteSet(A), IsFiniteSet(B), A \cap B = {}
  PROVE  /\ IsFiniteSet(A \cup B) /\ Cardinality(A \cup B) = Cardinality(A) + Cardinality(B)
         /\ Cardinality(A) \in Nat /\ Cardinality(B) \in Nat
  <1>1. Cardinality(A) \in Nat /\ Cardinality(B) \in Nat
    BY FS_CardinalityType
  <1>2. PICK I : I = A \cap B
    OBVIOUS
  <1>3. Cardinality(I) = 0
    BY <1>2, FS_EmptySet
  <1>4. Cardinality(A \cap B) = 0
    BY ONLY <1>2, <1>3, Zenon
  <1>5. IsFiniteSet(A \cup B) /\ Cardinality(A \cup B) = Cardinality(A) + Cardinality(B) - Cardinality(A \cap B)
    BY FS_Union
  <1> QED
    BY <1>1, <1>4, <1>5

Split(S, A, B, C, D, E) ==
  /\ A \cup B \cup C \cup D \cup E = S
  /\ A \cap B = {} /\ (A \cup B) \cap C = {} /\ (A \cup B \cup C) \cap D = {}
  /\ (A \cup B \cup C \cup D) \cap E = {}

LEMMA FiveParts ==
  ASSUME NEW S, IsFiniteSet(S), NEW A, NEW B, NEW C, NEW D, NEW E, Split(S, A, B, C, D, E)
  PROVE  Cardinality(A) + Cardinality(B) + Cardinality(C) + Cardinality(D) + Cardinality(E) = Cardinality(S)
  <1> USE DEF Split
  <1>1. IsFiniteSet(A) /\ IsFiniteSet(B) /\ IsFiniteSet(C) /\ IsFiniteSet(D) /\ IsFiniteSet(E)
    BY FS_Subset
  <1>2. PICK T : T = A \cup B
    OBVIOUS
  <1>3. IsFiniteSet(T) /\ Cardinality(T) = Cardinality(A) + Cardinality(B)
        /\ Cardinality(A) \in Nat /\ Cardinality(B) \in Nat
    BY <1>1, <1>2, TwoParts
  <1>4. PICK U : U = T \cup C
    OBVIOUS
  <1>5. IsFiniteSet(U) /\ Cardinality(U) = Cardinality(T) + Cardinality(C) /\ Cardinality(C) \in Nat
    <2>1. T \cap C = {}
      BY <1>2
    <2> QED
      BY <1>1, <1>3, <1>4, <2>1, TwoParts
  <1>6. PICK V : V = U \cup D
    OBVIOUS
  <1>7. IsFiniteSet(V) /\ Cardinality(V) = Cardinality(U) + Cardinality(D) /\ Cardinality(D) \in Nat
    <2>1. U \cap D = {}
      BY <1>2, <1>4
    <2> QED
      BY <1>1, <1>5, <1>6, <2>1, TwoParts
  <1>8. Cardinality(V \cup E) = Cardinality(V) + Cardinality(E) /\ Cardinality(E) \in Nat
    <2>1. V \cap E = {}
      BY <1>2, <1>4, <1>6
    <2> QED
      BY <1>1, <1>7, <2>1, TwoParts
  <1>9. V \cup E = S
    BY <1>2, <1>4, <1>6
  <1> QED
    BY <1>3, <1>5, <1>7, <1>8, <1>9

(* The places on page p, as the property and as the invariant name them. *)
LEMMA PlacesOn ==
  ASSUME TypeOK, NEW p \in Page, Active(SegmentOf(p)), NEW w \in Offset
  PROVE  /\ w \in Range(page[p].free) <=> <<p, w>> \in Free
         /\ w \in Range(page[p].local) <=> <<p, w>> \in LocallyFree
         /\ w \in PendingOn(p) <=> <<p, w>> \in Pending
         /\ w \in HeldOn(p) <=> \E c \in Client : <<p, w>> \in Held[c]
         /\ w \in InHandOn(p) <=> \E c \in Client : <<p, w>> \in Pushed[c]
         /\ w \in Starts(page[p].bin) /\ Carved(p) <=> <<p, w>> \in Blocks
  <1>0. <<p, w>> \in Word
    BY DEF Word, Offset
  <1>1. PICK x \in Word : x = <<p, w>> /\ x[1] = p /\ x[2] = w
    BY <1>0
  <1>2. \A y \in Word : y[1] = p /\ y[2] = w => y = x
    BY <1>1, WordIs
  <1>3. /\ w \in Range(page[p].free) <=> x \in Free
        /\ w \in Range(page[p].local) <=> x \in LocallyFree
        /\ w \in Starts(page[p].bin) /\ Carved(p) <=> x \in Blocks
    BY <1>1 DEF Free, LocallyFree, Blocks
  <1>4. w \in PendingOn(p) <=> x \in Pending
    <2>1. info[SegmentOf(p)].list \in Seq(Word)
      BY SegmentOfIs DEF TypeOK
    <2>2. Range(info[SegmentOf(p)].list) \subseteq Word
      BY <2>1, RangeOfSeq
    <2> QED
      BY <1>1, <1>2, <2>2 DEF Pending, PendingOn
  <1>5. w \in HeldOn(p) <=> \E c \in Client : x \in Held[c]
    <2>1. w \in HeldOn(p) <=> \E c \in Client : \E e \in held[c] : e[1] = p /\ e[2] = w
      BY DEF HeldOn
    <2>2. \A c \in Client : x \in Held[c] <=> \E e \in held[c] : e[1] = p /\ e[2] = w
      BY <1>1 DEF Held
    <2> QED
      BY <2>1, <2>2
  <1>6. w \in InHandOn(p) <=> \E c \in Client : x \in Pushed[c]
    <2>1. w \in InHandOn(p) <=> \E c \in Client : op[c].block # <<>> /\ op[c].block[1] = p /\ op[c].block[2] = w
      BY DEF InHandOn
    <2>2. ASSUME NEW c \in Client
          PROVE  x \in Pushed[c] <=> op[c].block # <<>> /\ op[c].block[1] = p /\ op[c].block[2] = w
      <3>1. op[c].block \in Word \cup {<<>>}
        BY DEF TypeOK, OpType
      <3>2. x # <<>>
        BY WordIs
      <3> QED
        BY <1>1, <1>2, <3>1, <3>2 DEF Pushed
    <2> QED
      BY <2>1, <2>2
  <1> QED
    BY <1>1, <1>3, <1>4, <1>5, <1>6

LEMMA PlacesWithin ==
  ASSUME TypeOK, NEW p \in Page
  PROVE  /\ Range(page[p].free) \subseteq Offset /\ Range(page[p].local) \subseteq Offset
         /\ PendingOn(p) \subseteq Offset /\ HeldOn(p) \subseteq Offset /\ InHandOn(p) \subseteq Offset
  <1>1. Range(page[p].free) \subseteq Offset /\ Range(page[p].local) \subseteq Offset
    BY PageFields, RangeOfSeq DEF TypeOK
  <1>2. PendingOn(p) \subseteq Offset
    <2>1. info[SegmentOf(p)].list \in Seq(Word)
      BY SegmentOfIs DEF TypeOK
    <2>2. Range(info[SegmentOf(p)].list) \subseteq Word
      BY <2>1, RangeOfSeq
    <2> QED
      BY <2>2, WordIs DEF PendingOn
  <1>3. HeldOn(p) \subseteq Offset
    <2>1. \A c \in Client : \A e \in held[c] : e[2] \in Offset
      BY ExtentIs DEF TypeOK
    <2> QED
      BY <2>1 DEF HeldOn
  <1>4. InHandOn(p) \subseteq Offset
    <2>1. \A c \in Client : op[c].block # <<>> => op[c].block[2] \in Offset
      BY WordIs DEF TypeOK, OpType
    <2> QED
      BY <2>1 DEF InHandOn
  <1> QED
    BY <1>1, <1>2, <1>3, <1>4

LEMMA EveryBlockOnceNow == HeapInv => EveryBlockOnce
  <1> SUFFICES ASSUME HeapInv, NEW c \in Client, Live(c), NEW b \in Bins(c), NEW p \in QueuePages(c, b)
               PROVE  /\ IsInjective(info[SegmentOf(p)].list)
                      /\ Len(Local(p)) + Cardinality(PendingOn(p)) + Cardinality(HeldOn(p))
                           + Cardinality(InHandOn(p)) = Len(BlocksOf(b))
                      /\ Range(Local(p)) \cup PendingOn(p) \cup HeldOn(p) \cup InHandOn(p)
                           = Range(BlocksOf(b))
    BY DEF EveryBlockOnce
  <1>1. b \in Bin /\ b # NONE /\ Calm /\ status[c] # "vacant" /\ CalmInv /\ TypeOK
    BY SizeAssumption DEF Bins, Live, Calm, HeapInv
  <1>2. p \in Class(c, b)
    BY <1>1, QueueIs
  <1>3. p \in Page /\ page[p].bin = b /\ Carved(p) /\ Active(SegmentOf(p)) /\ SegmentOf(p) \in Segment
    BY <1>1, <1>2, OfClass
  <1>4. /\ IsInjective(info[SegmentOf(p)].list)
        /\ IsInjective(page[p].free) /\ IsInjective(page[p].local) /\ BlockInv
    BY <1>1, <1>3 DEF CalmInv, ListInv
  <1>5. PICK l \in Seq(Offset), m \in Seq(Offset) : l = page[p].free /\ m = page[p].local
    BY <1>1, <1>3, PageFields DEF TypeOK
  <1>6. PICK S : S = Starts(b)
    OBVIOUS
  <1>7. IsFiniteSet(S) /\ Cardinality(S) = Len(BlocksOf(b)) /\ S \subseteq Offset
    BY <1>1, <1>6, BlocksFacts
  <1>8. PICK A : A = Range(l)
    OBVIOUS
  <1>9. PICK B : B = Range(m)
    OBVIOUS
  <1>10. PICK C : C = PendingOn(p)
    OBVIOUS
  <1>11. PICK D : D = HeldOn(p)
    OBVIOUS
  <1>12. PICK E : E = InHandOn(p)
    OBVIOUS
  <1>13. A \subseteq Offset /\ B \subseteq Offset /\ C \subseteq Offset /\ D \subseteq Offset /\ E \subseteq Offset
    BY <1>1, <1>3, <1>5, <1>8, <1>9, <1>10, <1>11, <1>12, PlacesWithin
  <1>14. ASSUME NEW w \in Offset
         PROVE  /\ w \in A <=> <<p, w>> \in Free
                /\ w \in B <=> <<p, w>> \in LocallyFree
                /\ w \in C <=> <<p, w>> \in Pending
                /\ w \in D <=> \E d \in Client : <<p, w>> \in Held[d]
                /\ w \in E <=> \E d \in Client : <<p, w>> \in Pushed[d]
                /\ w \in S <=> <<p, w>> \in Blocks
    BY <1>1, <1>3, <1>5, <1>6, <1>8, <1>9, <1>10, <1>11, <1>12, PlacesOn
  <1>15. /\ Free \cap LocallyFree = {} /\ Free \cap Pending = {} /\ LocallyFree \cap Pending = {}
         /\ \A d \in Client : /\ Held[d] \cap (Free \cup LocallyFree \cup Pending) = {}
                              /\ Pushed[d] \cap (Free \cup LocallyFree \cup Pending) = {}
                              /\ \A a \in Client : Held[d] \cap Pushed[a] = {}
         /\ Free \cup LocallyFree \cup Pending \cup UNION {Held[d] \cup Pushed[d] : d \in Client} = Blocks
    BY <1>4 DEF BlockInv, Partition
  <1>16. A \cap B = {} /\ (A \cup B) \cap C = {} /\ (A \cup B \cup C) \cap D = {}
         /\ (A \cup B \cup C \cup D) \cap E = {}
    BY <1>13, <1>14, <1>15
  <1>17. A \cup B \cup C \cup D \cup E = S
    <2>1. ASSUME NEW w \in Offset
          PROVE  w \in S <=> w \in A \cup B \cup C \cup D \cup E
      <3>1. <<p, w>> \in Blocks <=> \/ <<p, w>> \in Free \/ <<p, w>> \in LocallyFree \/ <<p, w>> \in Pending
                                    \/ \E d \in Client : <<p, w>> \in Held[d] \/ <<p, w>> \in Pushed[d]
        BY <1>15
      <3> QED
        BY <1>14, <3>1
    <2> QED
      BY <1>7, <1>13, <2>1
  <1>18. Cardinality(A) + Cardinality(B) + Cardinality(C) + Cardinality(D) + Cardinality(E) = Cardinality(S)
    <2>1. Split(S, A, B, C, D, E)
      BY <1>16, <1>17 DEF Split
    <2> QED
      BY <1>7, <2>1, FiveParts
  <1>19. /\ Cardinality(A) = Len(l) /\ Cardinality(B) = Len(m)
         /\ Len(l \o m) = Len(l) + Len(m) /\ Range(l \o m) = A \cup B
    <2>1. IsInjective(l) /\ IsInjective(m)
      BY <1>4, <1>5
    <2>2. Cardinality(A) = Len(l) /\ Cardinality(B) = Len(m)
      BY <1>8, <1>9, <2>1, InjectiveCard
    <2>3. Len(l \o m) = Len(l) + Len(m) /\ Range(l \o m) = A \cup B
      BY <1>8, <1>9, RangeConcatenation
    <2> QED
      BY <2>2, <2>3
  <1>20. Local(p) = l \o m
    BY <1>5 DEF Local
  <1>21. Range(BlocksOf(b)) = S
    BY <1>6 DEF Starts
  <1> QED
    BY <1>4, <1>7, <1>10, <1>11, <1>12, <1>17, <1>18, <1>19, <1>20, <1>21

-----------------------------------------------------------------------------
(* The pool of extents: no two held blocks overlap. *)
Apart ==
  \A c, d \in Client : \A e \in held[c], f \in held[d] : Overlap(e, f) => c = d /\ e = f

LEMMA HeldApart == HeapInv /\ Calm => Apart
  <1> SUFFICES ASSUME HeapInv, Calm, NEW c \in Client, NEW d \in Client,
                      NEW e \in held[c], NEW f \in held[d], Overlap(e, f)
               PROVE  c = d /\ e = f
    BY DEF Apart
  <1>1. TypeOK /\ CalmInv /\ BlockInv /\ SizeInv
    BY DEF HeapInv, CalmInv
  <1>2. /\ e \in Extent /\ <<e[1], e[2]>> \in Held[c] /\ Carved(e[1]) /\ e[2] \in Starts(page[e[1]].bin)
        /\ f \in Extent /\ <<f[1], f[2]>> \in Held[d] /\ f[2] \in Starts(page[f[1]].bin)
    BY <1>1, HeldIsBlock
  <1>3. PICK b \in Bin : b = page[e[1]].bin
    BY <1>2 DEF Carved
  <1>4. e[1] = f[1] /\ e[3] = Size[b] /\ f[3] = Size[b]
    BY <1>1, <1>3 DEF Overlap, SizeInv
  <1>5. e[2] = f[2]
    <2>1. PICK w \in Offset, v \in Offset, n \in Nat : w = e[2] /\ v = f[2] /\ n = Size[b]
      BY <1>2, ExtentIs, BlocksFacts
    <2>2. w \in Starts(b) /\ v \in Starts(b)
      BY <1>2, <1>3, <1>4, <2>1
    <2>3. w # v => w + n <= v \/ v + n <= w
      BY <2>1, <2>2, BlocksFacts
    <2>4. w < v + n /\ v < w + n
      BY <1>4, <2>1 DEF Overlap
    <2> QED
      BY <2>1, <2>3, <2>4 DEF Offset
  <1>6. e = f
    BY <1>2, <1>4, <1>5, ExtentIs
  <1>7. c = d
    BY <1>1, <1>2, <1>6 DEF BlockInv, Partition
  <1> QED
    BY <1>6, <1>7

LEMMA HeldApartNext == HeapInv' /\ Calm' => Apart'
  BY HeldApart, PTL

(* What a client is given, it had already, or nobody has any part of. *)
LEMMA PoolAlloc ==
  ASSUME HeapInv, HeapInv', Calm', NEW c \in Client, NEW e, held' = [held EXCEPT ![c] = @ \cup {e}]
  PROVE  Pool!Next \/ held' = held
  <1>1. held \in [Client -> SUBSET Extent] /\ held' \in [Client -> SUBSET Extent] /\ Apart'
    BY HeldApartNext DEF HeapInv, TypeOK
  <1>2. held'[c] = held[c] \cup {e} /\ \A d \in Client \ {c} : held'[d] = held[d]
    BY <1>1
  <1>3. e \in Extent
    BY <1>1, <1>2
  <1>4. CASE e \in held[c]
    <2>1. \A d \in Client : held'[d] = held[d]
      BY <1>2, <1>4
    <2> QED
      BY <1>1, <2>1
  <1>5. CASE e \notin held[c]
    <2>1. ASSUME NEW d \in Client, NEW f \in held[d]
          PROVE  ~ Overlap(e, f)
      <3>1. e \in held'[c] /\ f \in held'[d]
        BY <1>2
      <3>2. Overlap(e, f) => c = d /\ e = f
        BY <1>1, <3>1 DEF Apart
      <3> QED
        BY <1>5, <3>2
    <2>2. Pool!Alloc(c, e)
      BY <2>1 DEF Pool!Alloc
    <2> QED
      BY <1>3, <2>2 DEF Pool!Next
  <1> QED
    BY <1>4, <1>5

LEMMA PoolFree ==
  ASSUME TypeOK, NEW c \in Client, NEW e \in held[c], held' = [held EXCEPT ![c] = @ \ {e}]
  PROVE  Pool!Next
  <1>1. e \in Extent
    BY DEF TypeOK
  <1>2. Pool!Free(c, e)
    BY DEF Pool!Free
  <1> QED
    BY <1>1, <1>2 DEF Pool!Next

LEMMA PoolPass ==
  ASSUME TypeOK, NEW c \in Client, NEW d \in Client, NEW e \in held[c],
         held' = [held EXCEPT ![c] = @ \ {e}, ![d] = @ \cup {e}]
  PROVE  Pool!Next
  <1>1. e \in Extent
    BY DEF TypeOK
  <1>2. Pool!Pass(c, d, e)
    BY DEF Pool!Pass
  <1> QED
    BY <1>1, <1>2 DEF Pool!Next

LEMMA ClientPool ==
  ASSUME HeapInv, HeapInv', NEW c \in Client, ClientStep(c)
  PROVE  Pool!Next \/ held' = held
  <1>1. TypeOK /\ (status[c] = "run" => Calm)
    BY RunningCalm DEF HeapInv
  <1>2. ASSUME NEW pages, NEW p, TakeFrom(c, pages, p), status[c] = "run", mon' = mon
        PROVE  Pool!Next \/ held' = held
    <2>1. held' = [held EXCEPT ![c] = @ \cup {<<p, Head(pages[p].free), Size[pages[p].bin]>>}]
      BY <1>2 DEF TakeFrom
    <2>2. Calm'
      BY <1>1, <1>2 DEF Calm
    <2> QED
      BY <2>1, <2>2, PoolAlloc
  <1>3. ASSUME NEW bin \in Bin, MallocFast(c, bin) \/ MallocSlow(c, bin)
        PROVE  Pool!Next \/ held' = held
    BY <1>2, <1>3 DEF MallocFast, MallocSlow, Called, At
  <1>4. CASE CollectPage(c)
    BY <1>2, <1>4 DEF CollectPage, At
  <1>5. CASE Carve(c)
    BY <1>2, <1>5 DEF Carve, At
  <1>6. ASSUME NEW e \in held[c], FreeLocal(c, e) \/ FreeRemote(c, e) \/ WriteData(c, e)
        PROVE  Pool!Next \/ held' = held
    BY <1>1, <1>6, PoolFree DEF FreeLocal, FreeRemote, WriteData
  <1>7. ASSUME NEW d \in Client, NEW e \in held[c], PassOn(c, d, e)
        PROVE  Pool!Next \/ held' = held
    BY <1>1, <1>7, PoolPass DEF PassOn
  <1>8. CASE TakePage(c) \/ ClaimSegment(c) \/ InitSegment(c) \/ ReleaseSegment(c) \/ PushRemote(c) \/ OutOfMemory(c)
    BY <1>8 DEF TakePage, ClaimSegment, InitSegment, ReleaseSegment, PushRemote, OutOfMemory, Fail
  <1> QED
    BY <1>3, <1>4, <1>5, <1>6, <1>7, <1>8 DEF ClientStep

LEMMA PoolStep ==
  ASSUME HeapInv, HeapInv', [Next]_vars
  PROVE  [Pool!Next]_held
  <1>1. ASSUME NEW c \in Client, ThreadInit(c) \/ Crash(c)
        PROVE  held' = held
    BY <1>1 DEF ThreadInit, Crash, Fail
  <1>2. ASSUME NEW c \in Client, ClientStep(c)
        PROVE  Pool!Next \/ held' = held
    BY <1>2, ClientPool
  <1>3. CASE mon.slot \in Client /\ \E e \in held[mon.slot] : ReleaseHeld(e)
    BY <1>3, PoolFree DEF ReleaseHeld, HeapInv
  <1>4. CASE StartRecovery \/ CheckSlot \/ WipeRootPages \/ ReturnSlot \/ ScanSegment \/ WipeSegment
    BY <1>4 DEF StartRecovery, CheckSlot, WipeRootPages, ReturnSlot, ScanSegment, WipeSegment
  <1>5. ASSUME NEW p \in mon.todo, WipePage(p)
        PROVE  held' = held
    BY <1>5 DEF WipePage
  <1>6. ASSUME NEW k \in Segment, FreeSegment(k)
        PROVE  held' = held
    BY <1>6 DEF FreeSegment
  <1>7. CASE UNCHANGED vars
    BY <1>7 DEF vars
  <1> QED
    BY <1>1, <1>2, <1>3, <1>4, <1>5, <1>6, <1>7 DEF Next, MonitorStep

-----------------------------------------------------------------------------
(* The theorems.                                                           *)

(* Every block of a page in use is on one of free, local_free and          *)
(* thread_free, with a holder, or with a client that is about to push it:  *)
(* remote frees and the owner's collecting lose no block and put none on   *)
(* two lists (alloc.cpp:112-128, page.cpp:32-104).                         *)
THEOREM HeapEveryBlockOnce ==
  ASSUME Quiescent PROVE Spec => []EveryBlockOnce
  BY HeapInvariant, EveryBlockOnceNow, PTL

(* page->used is the number of blocks that are neither on free nor on      *)
(* local_free, so no page is given back from which blocks are out or       *)
(* pending on thread_free (alloc.cpp:98-104, page.cpp:86).                 *)
THEOREM HeapUsedExact ==
  ASSUME Quiescent PROVE Spec => []UsedExact
  BY HeapInvariant, UsedExactNow, PTL

(* The queues of a client are doubly linked and hold all pages of its      *)
(* segments, each on the queue of its block size; segment->used counts     *)
(* the pages in use (page_queue.cpp, segment.cpp:98-118).                  *)
THEOREM HeapQueuesExact ==
  ASSUME Quiescent PROVE Spec => []QueuesExact
  BY HeapInvariant, QueuesExactNow, PTL

(* No page is given back, by its owner or by the monitor, while a running  *)
(* client holds a block of it or is about to push one to it                *)
(* (alloc.cpp:91-133, page.cpp:76-90).                                     *)
THEOREM HeapHeldPagesStay ==
  ASSUME Quiescent PROVE Spec => []HeldPagesStay
  BY HeapInvariant, HeldPagesStayNow, PTL

(* After a recovery of all clients no object is left, and a segment that   *)
(* stays claimed shows the segment pass a header that it takes for a live  *)
(* object (recovery.cpp:572-645).                                          *)
THEOREM HeapOnlyStaleHeadersStay ==
  ASSUME Quiescent PROVE Spec => []OnlyStaleHeadersStay
  BY HeapInvariant, OnlyStaleHeadersStayNow, PTL

(* The allocator implements a pool of memory: what cxl_malloc hands out    *)
(* overlaps nothing that anybody still holds, and a block is freed once.   *)
THEOREM HeapIsBlockPool ==
  ASSUME Quiescent PROVE Spec => ImplementsBlockPool
  <1>1. Init => Pool!Init
    BY DEF Init, Pool!Init
  <1>2. HeapInv /\ HeapInv' /\ [Next]_vars => [Pool!Next]_held
    BY PoolStep
  <1> QED
    BY <1>1, <1>2, HeapInvariant, PTL DEF Spec, ImplementsBlockPool, Pool!Spec

=============================================================================
