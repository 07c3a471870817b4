----------------------- MODULE PageHeapBlocks_proofs ------------------------
(***************************************************************************)
(* Lemmas about the lists of PageHeap, for any numbers of clients, segments*)
(* and pages and any block sizes: the queues of pages, the free lists of a *)
(* page and the block list of a segment; and the proof that the steps of a *)
(* client that move blocks, and take or give back no page, preserve HeapInv.*)
(***************************************************************************)
EXTENDS PageHeapInv, TLAPS, FiniteSetTheorems, SequenceTheorems

-----------------------------------------------------------------------------
(* Induction, for sets of numbers. *)

LEMMA LeastNumber ==
  ASSUME NEW T, T \subseteq Nat, T # {}
  PROVE  \E n \in T : \A m \in T : n <= m
  <1> DEFINE U == {0 .. n - 1 : n \in T}
  <1>1. U \subseteq FiniteSubsetsOf(Nat) /\ U # {}
    <2>1. \A n \in T : IsFiniteSet(0 .. n - 1) /\ 0 .. n - 1 \subseteq Nat
      BY FS_Interval
    <2> QED
      BY <2>1 DEF FiniteSubsetsOf
  <1>2. \E x \in U : \A y \in U : <<y, x>> \notin StrictSubsetOrdering(Nat)
    <2> HIDE DEF U
    <2> QED
      BY <1>1, FS_StrictSubsetOrderingWellFounded, WFMin
  <1>3. PICK n \in T : \A m \in T : <<0 .. m - 1, 0 .. n - 1>> \notin StrictSubsetOrdering(Nat)
    BY <1>2
  <1>4. ASSUME NEW m \in T, m < n
        PROVE  <<0 .. m - 1, 0 .. n - 1>> \in StrictSubsetOrdering(Nat)
    <2> DEFINE M == 0 .. m - 1
               N == 0 .. n - 1
    <2>1. m \in Nat /\ n \in Nat
      OBVIOUS
    <2>2. M \subseteq N /\ M # N
      <3>1. n - 1 \in N /\ n - 1 \notin M
        BY <1>4, <2>1
      <3> QED
        BY <1>4, <2>1, <3>1
    <2>3. IsFiniteSet(M) /\ IsFiniteSet(N) /\ M \subseteq Nat /\ N \subseteq Nat
      BY <2>1, FS_Interval
    <2> HIDE DEF M, N
    <2>4. <<M, N>> \in StrictSubsetOrdering(Nat)
      BY <2>2, <2>3 DEF StrictSubsetOrdering, FiniteSubsetsOf
    <2> QED
      BY <2>4 DEF M, N
  <1>5. \A m \in T : ~ (m < n)
    BY <1>3, <1>4
  <1> QED
    BY <1>5

LEMMA NumberInduction ==
  ASSUME NEW T, 0 \in T, \A n \in Nat : n \in T => n + 1 \in T
  PROVE  Nat \subseteq T
  <1>1. SUFFICES ASSUME Nat \ T # {} PROVE FALSE
    OBVIOUS
  <1>2. PICK n \in Nat \ T : \A m \in Nat \ T : n <= m
    BY <1>1, LeastNumber
  <1>3. n - 1 \in Nat /\ n - 1 \in T
    BY <1>2
  <1> QED
    BY <1>2, <1>3

(* A list that is freed block by block. *)
FreedUpTo(pages, list, n, f) ==
  f = [i \in 0 .. n |-> IF i = 0 THEN pages ELSE FreeOn(f[i - 1], list[i])]

LEMMA DrainedExists ==
  ASSUME NEW pages, NEW list, Len(list) \in Nat
  PROVE  \E f : FreedUpTo(pages, list, Len(list), f)
  <1> DEFINE T == {n \in Nat : \E f : FreedUpTo(pages, list, n, f)}
  <1>1. 0 \in T
    <2>1. FreedUpTo(pages, list, 0, [i \in 0 .. 0 |-> pages])
      BY DEF FreedUpTo
    <2> QED
      BY <2>1
  <1>2. ASSUME NEW n \in Nat, n \in T
        PROVE  n + 1 \in T
    <2>1. PICK f : FreedUpTo(pages, list, n, f)
      BY <1>2
    <2> DEFINE g == [i \in 0 .. n + 1 |-> IF i = n + 1 THEN FreeOn(f[n], list[n + 1]) ELSE f[i]]
    <2>2. FreedUpTo(pages, list, n + 1, g)
      <3> DEFINE h == [i \in 0 .. n + 1 |-> IF i = 0 THEN pages ELSE FreeOn(g[i - 1], list[i])]
      <3>1. ASSUME NEW i \in 0 .. n + 1
            PROVE  g[i] = h[i]
        <4>1. CASE i = n + 1
          BY <4>1
        <4>2. CASE i # n + 1
          <5>1. i \in 0 .. n /\ g[i] = f[i] /\ (i # 0 => g[i - 1] = f[i - 1])
            BY <4>2
          <5>2. f[i] = IF i = 0 THEN pages ELSE FreeOn(f[i - 1], list[i])
            BY <2>1, <5>1 DEF FreedUpTo
          <5> QED
            BY <5>1, <5>2
        <4> QED
          BY <4>1, <4>2
      <3>2. g = h
        BY <3>1
      <3> QED
        BY <3>2 DEF FreedUpTo
    <2> QED
      BY <2>2
  <1>3. Len(list) \in T
    <2> HIDE DEF T
    <2> QED
      BY <1>1, <1>2, NumberInduction
  <1> QED
    BY <1>3

LEMMA DrainedIs ==
  ASSUME NEW pages, NEW list, Len(list) \in Nat
  PROVE  \E f : FreedUpTo(pages, list, Len(list), f) /\ Drained(pages, list) = f[Len(list)]
  <1> DEFINE f == CHOOSE f : FreedUpTo(pages, list, Len(list), f)
  <1>1. FreedUpTo(pages, list, Len(list), f)
    BY DrainedExists
  <1>2. Drained(pages, list) = f[Len(list)]
    BY DEF Drained, FreedUpTo
  <1> QED
    BY <1>1, <1>2

-----------------------------------------------------------------------------
(* Pages of segments, blocks of pages. *)

LEMMA Quotient ==
  ASSUME NEW a \in Nat, NEW b \in Nat \ {0}
  PROVE  /\ a \div b \in Nat
         /\ b * (a \div b) <= a /\ a < b * (a \div b + 1)
  OBVIOUS

LEMMA LessTimes ==
  ASSUME NEW a \in Int, NEW b \in Int, NEW c \in Nat, a <= b
  PROVE  c * a <= c * b
  OBVIOUS

LEMMA Times ==
  ASSUME NEW a \in Nat, NEW b \in Nat
  PROVE  a * b \in Nat /\ a * b = b * a /\ (a + 1) * b = a * b + b
  OBVIOUS

LEMMA SegmentOfPage ==
  ASSUME NEW p \in Page, NEW k \in Segment
  PROVE  /\ SegmentOf(p) \in Segment
         /\ SegmentOf(p) = k <=> p \in (k - 1) * PagesPerSegment + 1 .. k * PagesPerSegment
  <1> DEFINE P == PagesPerSegment
             q == (p - 1) \div P
  <1>1. P \in Nat \ {0} /\ p - 1 \in Nat /\ NSegment \in Nat /\ p - 1 < P * NSegment /\ p \in Int
    BY SizeAssumption DEF Page
  <1>2. q \in Nat /\ P * q <= p - 1 /\ p - 1 < P * (q + 1)
    BY <1>1, Quotient
  <1> HIDE DEF P, q
  <1>3. q + 1 \in 1 .. NSegment
    <2>1. ASSUME NSegment <= q PROVE FALSE
      <3>1. P * NSegment <= P * q
        BY <2>1, <1>1, <1>2, LessTimes
      <3>2. P * NSegment \in Int /\ P * q \in Int
        BY <1>1, <1>2
      <3> QED
        BY <3>1, <3>2, <1>1, <1>2
    <2> QED
      BY <2>1, <1>1, <1>2
  <1>4. k \in Nat /\ k - 1 \in Nat
    BY DEF Segment
  <1>5. ASSUME q + 1 = k
        PROVE  p \in (k - 1) * P + 1 .. k * P
    <2>1. (k - 1) * P = P * q /\ k * P = P * (q + 1) /\ P * q \in Int /\ P * (q + 1) \in Int
      BY <1>5, <1>1, <1>2, <1>4
    <2> QED
      BY <2>1, <1>1, <1>2
  <1>6. ASSUME p \in (k - 1) * P + 1 .. k * P
        PROVE  q + 1 = k
    <2>1. P * (k - 1) <= p - 1 /\ p - 1 < P * k
      <3>1. (k - 1) * P = P * (k - 1) /\ k * P = P * k /\ P * k \in Int /\ P * (k - 1) \in Int
        BY <1>1, <1>4
      <3> QED
        BY <3>1, <1>6, <1>1
    <2>2. ASSUME q < k - 1 PROVE FALSE
      <3>1. P * (q + 1) <= P * (k - 1)
        BY <2>2, <1>1, <1>2, <1>4, LessTimes
      <3>2. P * (q + 1) \in Int /\ P * (k - 1) \in Int
        BY <1>1, <1>2, <1>4
      <3> QED
        BY <3>1, <3>2, <2>1, <1>1, <1>2
    <2>3. ASSUME q > k - 1 PROVE FALSE
      <3>1. P * k <= P * q
        BY <2>3, <1>1, <1>2, <1>4, LessTimes
      <3>2. P * q \in Int /\ P * k \in Int
        BY <1>1, <1>2, <1>4
      <3> QED
        BY <3>1, <3>2, <2>1, <1>1, <1>2
    <2> QED
      BY <2>2, <2>3, <1>2, <1>4
  <1> QED
    BY <1>3, <1>5, <1>6, <1>2, <1>4 DEF SegmentOf, Segment, P, q

LEMMA PageOfSegment ==
  ASSUME NEW k \in Segment
  PROVE  /\ PagesOf(k) = (k - 1) * PagesPerSegment + 1 .. k * PagesPerSegment
         /\ PagesOf(k) \subseteq Page /\ IsFiniteSet(PagesOf(k)) /\ PagesOf(k) # {}
         /\ (k - 1) * PagesPerSegment \in Nat
         /\ k * PagesPerSegment = (k - 1) * PagesPerSegment + PagesPerSegment
  <1> DEFINE a == (k - 1) * PagesPerSegment
  <1>1. PagesPerSegment \in Nat \ {0} /\ NSegment \in Nat /\ k - 1 \in Nat /\ k <= NSegment
    BY SizeAssumption DEF Segment
  <1>2. a \in Nat /\ k * PagesPerSegment = a + PagesPerSegment
    <2>1. k - 1 + 1 = k
      BY <1>1 DEF Segment
    <2> QED
      BY <1>1, <2>1, Times
  <1>3. PagesPerSegment * k <= PagesPerSegment * NSegment
    BY <1>1, LessTimes DEF Segment
  <1>4. k * PagesPerSegment <= NSegment * PagesPerSegment /\ NSegment * PagesPerSegment \in Nat
    <2>1. k \in Nat
      BY DEF Segment
    <2> QED
      BY <1>1, <1>3, <2>1, Times
  <1> HIDE DEF a
  <1>5. a + 1 .. k * PagesPerSegment \subseteq Page
    BY <1>1, <1>2, <1>4 DEF Page
  <1>6. PagesOf(k) = a + 1 .. k * PagesPerSegment
    BY <1>5, SegmentOfPage DEF PagesOf, a
  <1>7. IsFiniteSet(a + 1 .. a + PagesPerSegment) /\ a + 1 \in a + 1 .. a + PagesPerSegment
    BY <1>1, <1>2, FS_Interval
  <1> QED
    BY <1>2, <1>5, <1>6, <1>7 DEF a

LEMMA BlocksFacts ==
  ASSUME NEW b \in Bin
  PROVE  /\ BlocksOf(b) \in Seq(Offset) /\ Len(BlocksOf(b)) \in Nat \ {0}
         /\ Size[b] \in Nat \ {0}
         /\ \A w \in Starts(b), v \in Starts(b) : w # v => w + Size[b] <= v \/ v + Size[b] <= w
         /\ Starts(b) \subseteq Offset /\ IsFiniteSet(Starts(b))
         /\ Cardinality(Starts(b)) = Len(BlocksOf(b))
         /\ 0 \in Starts(b) /\ IsInjective(BlocksOf(b)) /\ Head(BlocksOf(b)) = 0
  <1> DEFINE S == Size[b]
             N == PageWords \div S
  <1>1. S \in Nat \ {0} /\ S <= PageWords /\ PageWords \in Nat \ {0}
    BY SizeAssumption
  <1>2. N \in Nat /\ S * N <= PageWords /\ PageWords < S * (N + 1)
    BY <1>1, Quotient
  <1> HIDE DEF N
  <1>3. N # 0
    BY <1>1, <1>2
  <1>4. ASSUME NEW i \in 1 .. N, NEW j \in 1 .. N, i < j
        PROVE  (i - 1) * S + S <= (j - 1) * S
    <2>1. S * i <= S * (j - 1)
      BY <1>1, <1>2, <1>4, LessTimes
    <2>2. (i - 1) * S + S = S * i /\ (j - 1) * S = S * (j - 1)
      BY <1>1, <1>2
    <2> QED
      BY <2>1, <2>2
  <1>5. ASSUME NEW i \in 1 .. N
        PROVE  (i - 1) * S \in Offset
    <2>1. S * i <= S * N
      BY <1>1, <1>2, LessTimes
    <2>2. (i - 1) * S = S * i - S /\ S * i \in Nat /\ (i - 1) * S \in Nat
      BY <1>1, <1>2
    <2> QED
      BY <2>1, <2>2, <1>1, <1>2 DEF Offset
  <1>6. BlocksOf(b) = [i \in 1 .. N |-> (i - 1) * S]
    BY DEF BlocksOf, N
  <1>7. BlocksOf(b) \in Seq(Offset) /\ Len(BlocksOf(b)) = N
    BY <1>2, <1>5, <1>6, IsASeq
  <1>8. DOMAIN BlocksOf(b) = 1 .. N /\ \A i \in 1 .. N : BlocksOf(b)[i] = (i - 1) * S
    BY <1>6
  <1>9. Starts(b) = {(i - 1) * S : i \in 1 .. N}
    BY <1>8 DEF Starts, Range
  <1>10. IsInjective(BlocksOf(b))
    <2>1. \A i \in 1 .. N, j \in 1 .. N : i < j => (i - 1) * S # (j - 1) * S
      <3> SUFFICES ASSUME NEW i \in 1 .. N, NEW j \in 1 .. N, i < j, (i - 1) * S = (j - 1) * S
                   PROVE  FALSE
        OBVIOUS
      <3>1. (i - 1) * S + S <= (j - 1) * S /\ (i - 1) * S \in Int /\ (j - 1) * S \in Int
        BY <1>4, <1>1, <1>2
      <3> QED
        BY <3>1, <1>1
    <2>2. \A i \in 1 .. N, j \in 1 .. N : i = j \/ i < j \/ j < i
      BY <1>2
    <2>3. \A i \in 1 .. N, j \in 1 .. N : (i - 1) * S = (j - 1) * S => i = j
      BY <2>1, <2>2
    <2> QED
      BY <1>8, <2>3 DEF IsInjective
  <1>11. \A w \in Starts(b), v \in Starts(b) : w # v => w + S <= v \/ v + S <= w
    <2> SUFFICES ASSUME NEW i \in 1 .. N, NEW j \in 1 .. N, (i - 1) * S # (j - 1) * S
                 PROVE  (i - 1) * S + S <= (j - 1) * S \/ (j - 1) * S + S <= (i - 1) * S
      BY <1>9
    <2>1. i < j \/ j < i
      BY <1>2
    <2> QED
      BY <2>1, <1>4
  <1>12. IsFiniteSet(Starts(b)) /\ Cardinality(Starts(b)) = N
    <2>1. BlocksOf(b) \in Surjection(1 .. N, Starts(b))
      BY <1>8, <1>6, <1>9 DEF Surjection
    <2>2. BlocksOf(b) \in Injection(1 .. N, Starts(b))
      BY <1>10, <2>1 DEF Injection, Surjection
    <2>3. IsFiniteSet(1 .. N) /\ Cardinality(1 .. N) = N
      BY <1>2, FS_Interval
    <2> QED
      BY <2>1, <2>2, <2>3, FS_Surjection
  <1>13. 0 \in Starts(b) /\ Head(BlocksOf(b)) = 0
    BY <1>1, <1>2, <1>3, <1>7, <1>8, <1>9, HeadTailProperties
  <1>14. Starts(b) \subseteq Offset
    BY <1>5, <1>9
  <1> QED
    BY <1>1, <1>2, <1>3, <1>7, <1>10, <1>11, <1>12, <1>13, <1>14

-----------------------------------------------------------------------------
(* The page queues. *)

LEMMA ZeroIsNoPage == 0 \notin Page
  BY DEF Page

(* Headers that differ in their links, pages outside a set that are alike. *)
SameOutside(f, g, C) == \A x \in Page : x \notin C => f[x] = g[x]
SameBlocks(x, y) == x.free = y.free /\ x.local = y.local /\ x.bin = y.bin /\ x.used = y.used

NextSet(f, pages, p, n) ==
  /\ f \in [Page -> PageType]
  /\ \A x \in Page : /\ f[x].next = IF x = p THEN n ELSE pages[x].next
                     /\ f[x].prev = pages[x].prev
                     /\ SameBlocks(f[x], pages[x])
                     /\ x # p => f[x] = pages[x]
PrevSet(f, pages, p, n) ==
  /\ f \in [Page -> PageType]
  /\ \A x \in Page : /\ f[x].prev = IF x = p THEN n ELSE pages[x].prev
                     /\ f[x].next = pages[x].next
                     /\ SameBlocks(f[x], pages[x])
                     /\ x # p => f[x] = pages[x]

LEMMA SetNextIs ==
  ASSUME NEW pages \in [Page -> PageType], NEW p \in Page \cup {0}, NEW n \in Page \cup {0}
  PROVE  NextSet(SetNext(pages, p, n), pages, p, n)
  BY ZeroIsNoPage DEF SetNext, PageType, SameBlocks, NextSet

LEMMA SetPrevIs ==
  ASSUME NEW pages \in [Page -> PageType], NEW p \in Page \cup {0}, NEW n \in Page \cup {0}
  PROVE  PrevSet(SetPrev(pages, p, n), pages, p, n)
  BY ZeroIsNoPage DEF SetPrev, PageType, SameBlocks, PrevSet

LEMMA PushIs ==
  ASSUME NEW pages \in [Page -> PageType], NEW q \in QueueType, NEW p \in Page, p # q.first,
         NEW r, r = PushPage([pages |-> pages, q |-> q], p)
  PROVE  /\ r.pages \in [Page -> PageType] /\ r.q \in QueueType
         /\ r.q.first = p /\ r.q.last = IF q.first = 0 THEN p ELSE q.last
         /\ \A x \in Page :
              /\ r.pages[x].next = IF x = p THEN q.first ELSE pages[x].next
              /\ r.pages[x].prev = IF x = p THEN 0 ELSE IF x = q.first THEN p ELSE pages[x].prev
              /\ SameBlocks(r.pages[x], pages[x])
              /\ x \notin {p, q.first} => r.pages[x] = pages[x]
  <1> DEFINE l == [pages EXCEPT ![p].next = q.first, ![p].prev = 0]
  <1>1. l \in [Page -> PageType] /\ q.first \in Page \cup {0} /\ q.last \in Page \cup {0}
    BY DEF PageType, QueueType
  <1>2. \A x \in Page : /\ l[x].next = IF x = p THEN q.first ELSE pages[x].next
                        /\ l[x].prev = IF x = p THEN 0 ELSE pages[x].prev
                        /\ SameBlocks(l[x], pages[x])
                        /\ x # p => l[x] = pages[x]
    <2>1. PICK z \in PageType : z = pages[p]
      OBVIOUS
    <2>2. l[p] = [z EXCEPT !.next = q.first, !.prev = 0] /\ \A x \in Page : x # p => l[x] = pages[x]
      BY <2>1
    <2>3. l[p].next = q.first /\ l[p].prev = 0 /\ SameBlocks(l[p], z)
      BY <2>2 DEF PageType, SameBlocks
    <2> HIDE DEF l
    <2> QED
      BY <2>1, <2>2, <2>3 DEF SameBlocks
  <1>3. r.pages = SetPrev(l, q.first, p)
        /\ r.q = [first |-> p, last |-> IF q.first = 0 THEN p ELSE q.last]
    BY DEF PushPage
  <1> HIDE DEF l
  <1>4. r.q \in QueueType /\ r.q.first = p /\ r.q.last = IF q.first = 0 THEN p ELSE q.last
    BY <1>1, <1>3 DEF QueueType
  <1>5. /\ r.pages \in [Page -> PageType]
        /\ \A x \in Page : /\ r.pages[x].prev = IF x = q.first THEN p ELSE l[x].prev
                           /\ r.pages[x].next = l[x].next
                           /\ SameBlocks(r.pages[x], l[x])
                           /\ x # q.first => r.pages[x] = l[x]
    <2>1. PICK f \in Page \cup {0}, n \in Page \cup {0}, m \in [Page -> PageType] :
            f = q.first /\ n = p /\ m = l
      BY <1>1
    <2>2. r.pages = SetPrev(m, f, n)
      BY <1>3, <2>1
    <2>3. PrevSet(SetPrev(m, f, n), m, f, n)
      BY ONLY SetPrevIs, f \in Page \cup {0}, n \in Page \cup {0}, m \in [Page -> PageType]
    <2> QED
      BY <2>1, <2>2, <2>3 DEF PrevSet
  <1> QED
    BY <1>2, <1>4, <1>5 DEF SameBlocks

LEMMA RemoveIs ==
  ASSUME NEW pages \in [Page -> PageType], NEW q \in QueueType, NEW p \in Page,
         pages[p].next # p, pages[p].prev # p,
         NEW r, r = RemovePage([pages |-> pages, q |-> q], p)
  PROVE  /\ r.pages \in [Page -> PageType] /\ r.q \in QueueType
         /\ r.q.first = IF p = q.first THEN pages[p].next ELSE q.first
         /\ r.q.last = IF p = q.last THEN pages[p].prev ELSE q.last
         /\ \A x \in Page :
              /\ r.pages[x].next = IF x = p THEN 0 ELSE IF x = pages[p].prev THEN pages[p].next
                                   ELSE pages[x].next
              /\ r.pages[x].prev = IF x = p THEN 0 ELSE IF x = pages[p].next THEN pages[p].prev
                                   ELSE pages[x].prev
              /\ SameBlocks(r.pages[x], pages[x])
              /\ x \notin {p, pages[p].prev, pages[p].next} => r.pages[x] = pages[x]
  <1>1. PICK a \in Page \cup {0}, n \in Page \cup {0} : a = pages[p].prev /\ n = pages[p].next
    BY DEF PageType
  <1> DEFINE g == SetNext(pages, a, n)
             f == SetPrev(g, n, a)
  <1>2. /\ f \in [Page -> PageType]
        /\ \A x \in Page : /\ f[x].next = IF x = a THEN n ELSE pages[x].next
                           /\ f[x].prev = IF x = n THEN a ELSE pages[x].prev
                           /\ SameBlocks(f[x], pages[x])
                           /\ x # a /\ x # n => f[x] = pages[x]
    <2>1. /\ g \in [Page -> PageType]
          /\ \A x \in Page : /\ g[x].next = IF x = a THEN n ELSE pages[x].next
                             /\ g[x].prev = pages[x].prev
                             /\ SameBlocks(g[x], pages[x])
                             /\ x # a => g[x] = pages[x]
      <3>1. NextSet(g, pages, a, n)
        BY ONLY SetNextIs, a \in Page \cup {0}, n \in Page \cup {0}, pages \in [Page -> PageType]
      <3> HIDE DEF g
      <3> QED
        BY <3>1 DEF NextSet
    <2> HIDE DEF g
    <2>2. /\ f \in [Page -> PageType]
          /\ \A x \in Page : /\ f[x].prev = IF x = n THEN a ELSE g[x].prev
                             /\ f[x].next = g[x].next
                             /\ SameBlocks(f[x], g[x])
                             /\ x # n => f[x] = g[x]
      <3>1. PrevSet(f, g, n, a)
        BY ONLY <2>1, SetPrevIs, a \in Page \cup {0}, n \in Page \cup {0}
      <3> HIDE DEF f
      <3> QED
        BY <3>1 DEF PrevSet
    <2> HIDE DEF f
    <2> QED
      BY <2>1, <2>2 DEF SameBlocks
  <1>3. r.pages = [f EXCEPT ![p].next = 0, ![p].prev = 0]
        /\ r.q = [first |-> IF p = q.first THEN n ELSE q.first, last |-> IF p = q.last THEN a ELSE q.last]
    BY <1>1 DEF RemovePage
  <1> HIDE DEF f, g
  <1>4. r.q \in QueueType /\ r.q.first = (IF p = q.first THEN n ELSE q.first)
        /\ r.q.last = (IF p = q.last THEN a ELSE q.last)
    BY <1>1, <1>3 DEF QueueType
  <1>5. /\ r.pages \in [Page -> PageType]
        /\ \A x \in Page : /\ r.pages[x].next = IF x = p THEN 0 ELSE f[x].next
                           /\ r.pages[x].prev = IF x = p THEN 0 ELSE f[x].prev
                           /\ SameBlocks(r.pages[x], f[x])
                           /\ x # p => r.pages[x] = f[x]
    <2>1. PICK z \in PageType : z = f[p]
      BY <1>2
    <2>2. /\ r.pages[p] = [z EXCEPT !.next = 0, !.prev = 0]
          /\ \A x \in Page : x # p => r.pages[x] = f[x]
      BY <1>2, <1>3, <2>1
    <2>3. /\ r.pages[p].next = 0 /\ r.pages[p].prev = 0 /\ SameBlocks(r.pages[p], z)
          /\ r.pages[p] \in PageType
      BY <2>2 DEF PageType, SameBlocks
    <2>4. r.pages \in [Page -> PageType]
      BY <1>2, <1>3, <2>2, <2>3
    <2> QED
      BY <2>1, <2>2, <2>3, <2>4 DEF SameBlocks
  <1> QED
    BY <1>1, <1>2, <1>4, <1>5 DEF SameBlocks

(* The queue depends on the links of its own pages only. *)
LEMMA LinkedSame ==
  ASSUME NEW pages, NEW other, NEW q, NEW C, Linked(pages, q, C), 0 \notin C,
         \A x \in C : other[x].next = pages[x].next /\ other[x].prev = pages[x].prev
  PROVE  Linked(other, q, C)
  BY DEF Linked, Ends, BothWays, Reaches, Closed

LEMMA LinkedEmpty ==
  ASSUME NEW pages, NEW q, q.first = 0, q.last = 0
  PROVE  Linked(pages, q, {})
  BY DEF Linked, Ends, BothWays, Reaches, Closed

LEMMA LinkedNone ==
  ASSUME NEW pages, NEW q, NEW C, Linked(pages, q, C), q.first = 0
  PROVE  C = {}
  <1>1. {} \in SUBSET C /\ q.first \in {} \cup {0}
    OBVIOUS
  <1> QED
    BY <1>1 DEF Linked, Ends, BothWays, Reaches, Closed

(* A page of a queue comes neither before nor after itself. *)
LEMMA LinkedApart ==
  ASSUME NEW pages, NEW q, NEW C, C \subseteq Page, Linked(pages, q, C), NEW p \in C
  PROVE  /\ pages[p].next # p /\ pages[p].prev # p
         /\ pages[p].next # 0 => pages[p].next # pages[p].prev
  <1>1. 0 \notin C /\ p # 0
    BY ZeroIsNoPage
  <1>2. ASSUME pages[p].next # 0, pages[p].prev # 0,
               pages[p].next = p \/ pages[p].prev = p \/ pages[p].next = pages[p].prev
        PROVE  FALSE
    <2> DEFINE S == C \ {p, pages[p].next}
    <2>1. q.first \in S \cup {0}
      BY <1>1, <1>2 DEF Linked, Ends, BothWays, Reaches, Closed
    <2>2. \A x \in S : pages[x].next \in S \cup {0}
      BY <1>1, <1>2 DEF Linked, Ends, BothWays, Reaches, Closed
    <2>3. S = C
      BY <2>1, <2>2 DEF Linked, Ends, BothWays, Reaches, Closed
    <2> QED
      BY <2>3
  <1> QED
    BY <1>1, <1>2 DEF Linked, Ends, BothWays, Reaches, Closed

LEMMA PushLinked ==
  ASSUME NEW pages \in [Page -> PageType], NEW q \in QueueType, NEW C, C \subseteq Page,
         NEW p \in Page \ C, Linked(pages, q, C),
         NEW r, r = PushPage([pages |-> pages, q |-> q], p)
  PROVE  /\ r.pages \in [Page -> PageType] /\ r.q \in QueueType /\ r.q.first = p
         /\ Linked(r.pages, r.q, C \cup {p})
         /\ \A x \in Page : SameBlocks(r.pages[x], pages[x])
         /\ SameOutside(r.pages, pages, C \cup {p})
  <1> DEFINE f == r.pages
             D == C \cup {p}
  <1>1. q.first \in C \cup {0} /\ p # q.first /\ 0 \notin C /\ p # 0
    BY ZeroIsNoPage DEF Linked, Ends, BothWays, Reaches, Closed
  <1>2. /\ f \in [Page -> PageType] /\ r.q \in QueueType
        /\ r.q.first = p /\ r.q.last = IF q.first = 0 THEN p ELSE q.last
        /\ \A x \in Page :
             /\ f[x].next = IF x = p THEN q.first ELSE pages[x].next
             /\ f[x].prev = IF x = p THEN 0 ELSE IF x = q.first THEN p ELSE pages[x].prev
             /\ SameBlocks(f[x], pages[x])
             /\ x \notin {p, q.first} => f[x] = pages[x]
    BY <1>1, PushIs
  <1> HIDE DEF f
  <1>3. r.q.first \in D \cup {0} /\ r.q.last \in D \cup {0} /\ f[r.q.first].prev = 0
    BY <1>1, <1>2 DEF Linked, Ends, BothWays, Reaches, Closed
  <1>4. r.q.last # 0 => f[r.q.last].next = 0
    BY <1>1, <1>2 DEF Linked, Ends, BothWays, Reaches, Closed
  <1>5. ASSUME NEW x \in D
        PROVE  /\ f[x].next \in D \cup {0} /\ f[x].prev \in D \cup {0}
               /\ f[x].next # 0 => f[f[x].next].prev = x
               /\ f[x].prev # 0 => f[f[x].prev].next = x
               /\ f[x].prev = 0 => x = r.q.first
               /\ f[x].next = 0 => x = r.q.last
    <2>1. CASE x = p
      BY <1>1, <1>2, <2>1 DEF Linked, Ends, BothWays, Reaches, Closed
    <2>2. CASE x # p
      <3>1. x \in C /\ f[x].next = pages[x].next
            /\ f[x].prev = IF x = q.first THEN p ELSE pages[x].prev
        BY <1>2, <2>2
      <3>2. f[x].next \in D \cup {0} /\ f[x].prev \in D \cup {0}
        BY <3>1 DEF Linked, Ends, BothWays, Reaches, Closed
      <3>3. f[x].next # 0 => f[f[x].next].prev = x
        BY <1>1, <1>2, <3>1 DEF Linked, Ends, BothWays, Reaches, Closed
      <3>4. f[x].prev # 0 => f[f[x].prev].next = x
        BY <1>1, <1>2, <3>1 DEF Linked, Ends, BothWays, Reaches, Closed
      <3>5. f[x].prev = 0 => x = r.q.first
        BY <1>1, <1>2, <3>1 DEF Linked, Ends, BothWays, Reaches, Closed
      <3>6. f[x].next = 0 => x = r.q.last
        <4>1. pages[x].next = 0 => x = q.last
          BY <3>1 DEF Linked, Ends, BothWays, Reaches, Closed
        <4>2. q.first # 0
          BY <3>1, LinkedNone
        <4> QED
          BY <1>2, <3>1, <4>1, <4>2
      <3> QED
        BY <3>2, <3>3, <3>4, <3>5, <3>6
    <2> QED
      BY <2>1, <2>2
  <1>6. ASSUME NEW S \in SUBSET D, r.q.first \in S \cup {0}, \A x \in S : f[x].next \in S \cup {0}
        PROVE  S = D
    <2> DEFINE U == S \ {p}
    <2>1. U \in SUBSET C /\ p \in S
      BY <1>1, <1>2, <1>6
    <2>2. q.first \in U \cup {0}
      BY <1>1, <1>2, <1>6, <2>1
    <2>3. ASSUME NEW x \in U
          PROVE  pages[x].next \in U \cup {0}
      <3>1. x \in C /\ x \in S /\ x \in Page /\ x # p
        BY <2>1
      <3>2. f[x].next = pages[x].next /\ pages[x].next \in C \cup {0}
        BY <1>2, <3>1 DEF Linked, Ends, BothWays, Reaches, Closed
      <3> QED
        BY <1>6, <3>1, <3>2
    <2>4. U = C
      BY <2>1, <2>2, <2>3 DEF Linked, Ends, BothWays, Reaches, Closed
    <2> QED
      BY <1>6, <2>1, <2>4
  <1>7. Linked(f, r.q, D)
    <2> HIDE DEF D
    <2>1. Reaches(f, r.q, D)
      BY <1>6 DEF Reaches, Closed
    <2>2. BothWays(f, r.q, D)
      BY <1>5 DEF BothWays
    <2> QED
      BY <1>3, <1>4, <2>1, <2>2 DEF Linked, Ends
  <1>8. SameOutside(f, pages, D)
    BY <1>1, <1>2, ZeroIsNoPage DEF SameOutside
  <1> QED
    BY <1>2, <1>7, <1>8 DEF f

LEMMA RemoveLinked ==
  ASSUME NEW pages \in [Page -> PageType], NEW q \in QueueType, NEW C, C \subseteq Page,
         NEW p \in Page, p \in C, Linked(pages, q, C),
         NEW r, r = RemovePage([pages |-> pages, q |-> q], p)
  PROVE  /\ r.pages \in [Page -> PageType] /\ r.q \in QueueType
         /\ Linked(r.pages, r.q, C \ {p})
         /\ \A x \in Page : SameBlocks(r.pages[x], pages[x])
         /\ SameOutside(r.pages, pages, C)
  <1> DEFINE f == r.pages
             D == C \ {p}
  <1>1. PICK a, n : a = pages[p].prev /\ n = pages[p].next
    OBVIOUS
  <1>2. 0 \notin C /\ p # 0 /\ a # p /\ n # p /\ (n # 0 => n # a) /\ a \in D \cup {0} /\ n \in D \cup {0}
    <2>1. a \in C \cup {0} /\ n \in C \cup {0}
      BY <1>1 DEF Linked, Ends, BothWays, Reaches, Closed
    <2>2. a # p /\ n # p /\ (n # 0 => n # a)
      BY <1>1, LinkedApart
    <2> QED
      BY <2>1, <2>2, ZeroIsNoPage
  <1>3. /\ f \in [Page -> PageType] /\ r.q \in QueueType
        /\ r.q.first = IF p = q.first THEN n ELSE q.first
        /\ r.q.last = IF p = q.last THEN a ELSE q.last
        /\ \A x \in Page :
             /\ f[x].next = IF x = p THEN 0 ELSE IF x = a THEN n ELSE pages[x].next
             /\ f[x].prev = IF x = p THEN 0 ELSE IF x = n THEN a ELSE pages[x].prev
             /\ SameBlocks(f[x], pages[x])
             /\ x \notin {p, a, n} => f[x] = pages[x]
    BY <1>1, <1>2, RemoveIs
  <1> HIDE DEF f
  <1>4. r.q.first \in D \cup {0} /\ r.q.last \in D \cup {0}
    BY <1>2, <1>3 DEF Linked, Ends, BothWays, Reaches, Closed
  <1>5. r.q.first # 0 => f[r.q.first].prev = 0
    BY <1>1, <1>2, <1>3 DEF Linked, Ends, BothWays, Reaches, Closed
  <1>6. r.q.last # 0 => f[r.q.last].next = 0
    BY <1>1, <1>2, <1>3 DEF Linked, Ends, BothWays, Reaches, Closed
  <1>7. ASSUME NEW x \in D
        PROVE  /\ f[x].next \in D \cup {0} /\ f[x].prev \in D \cup {0}
               /\ f[x].next # 0 => f[f[x].next].prev = x
               /\ f[x].prev # 0 => f[f[x].prev].next = x
               /\ f[x].prev = 0 => x = r.q.first
               /\ f[x].next = 0 => x = r.q.last
    <2>1. /\ f[x].next = IF x = a THEN n ELSE pages[x].next
          /\ f[x].prev = IF x = n THEN a ELSE pages[x].prev
          /\ x \in C /\ x # p /\ x \in Page /\ x # 0
      BY <1>2, <1>3
    <2>2. /\ pages[x].next = p <=> x = a
          /\ pages[x].prev = p <=> x = n
      BY <1>1, <1>2, <2>1 DEF Linked, Ends, BothWays, Reaches, Closed
    <2>3. f[x].next \in D \cup {0} /\ f[x].prev \in D \cup {0}
      BY <1>2, <2>1, <2>2 DEF Linked, Ends, BothWays, Reaches, Closed
    <2>4. f[x].next # 0 => f[f[x].next].prev = x
      BY <1>1, <1>2, <1>3, <2>1, <2>2, <2>3 DEF Linked, Ends, BothWays, Reaches, Closed
    <2>5. f[x].prev # 0 => f[f[x].prev].next = x
      BY <1>1, <1>2, <1>3, <2>1, <2>2, <2>3 DEF Linked, Ends, BothWays, Reaches, Closed
    <2>6. f[x].prev = 0 => x = r.q.first
      BY <1>1, <1>2, <1>3, <2>1, <2>2 DEF Linked, Ends, BothWays, Reaches, Closed
    <2>7. f[x].next = 0 => x = r.q.last
      BY <1>1, <1>2, <1>3, <2>1, <2>2 DEF Linked, Ends, BothWays, Reaches, Closed
    <2> QED
      BY <2>3, <2>4, <2>5, <2>6, <2>7
  <1>8. ASSUME NEW S \in SUBSET D, r.q.first \in S \cup {0}, \A x \in S : f[x].next \in S \cup {0}
        PROVE  S = D
    <2>0. \A x \in S : f[x].next = IF x = a THEN n ELSE pages[x].next
      BY <1>3
    <2>1. CASE p = q.first \/ a \in S
      <3> DEFINE U == S \cup {p}
      <3>1. U \in SUBSET C /\ q.first \in U \cup {0}
        BY <1>2, <1>3, <1>8
      <3>2. n \in S \cup {0}
        <4>1. CASE p = q.first
          BY <1>3, <1>8, <4>1
        <4>2. CASE a \in S
          BY <1>8, <2>0, <4>2
        <4> QED
          BY <2>1, <4>1, <4>2
      <3>3. \A x \in U : pages[x].next \in U \cup {0}
        <4> SUFFICES ASSUME NEW x \in U PROVE pages[x].next \in U \cup {0}
          OBVIOUS
        <4>1. CASE x = p \/ x = a
          BY <1>1, <1>2, <3>2, <4>1 DEF Linked, Ends, BothWays, Reaches, Closed
        <4>2. CASE x # p /\ x # a
          BY <1>8, <2>0, <4>2
        <4> QED
          BY <4>1, <4>2
      <3>4. U = C
        BY <3>1, <3>3 DEF Linked, Ends, BothWays, Reaches, Closed
      <3> QED
        BY <3>4
    <2>2. CASE p # q.first /\ a \notin S
      <3>1. S \in SUBSET C /\ q.first \in S \cup {0}
        BY <1>3, <1>8, <2>2
      <3>2. \A x \in S : pages[x].next \in S \cup {0}
        BY <1>8, <2>0, <2>2
      <3>3. S = C
        BY <3>1, <3>2 DEF Linked, Ends, BothWays, Reaches, Closed
      <3> QED
        BY <3>3
    <2> QED
      BY <2>1, <2>2
  <1>9. Linked(f, r.q, D)
    <2> HIDE DEF D
    <2>1. Reaches(f, r.q, D)
      BY <1>8 DEF Reaches, Closed
    <2>2. BothWays(f, r.q, D)
      BY <1>7 DEF BothWays
    <2> QED
      BY <1>4, <1>5, <1>6, <2>1, <2>2 DEF Linked, Ends
  <1>10. SameOutside(f, pages, C)
    BY <1>2, <1>3, ZeroIsNoPage DEF SameOutside
  <1> QED
    BY <1>3, <1>9, <1>10 DEF f

(* cxl_segment_alloc's loop over the pages, up to the n-th. *)
PushedUpTo(s, k, n, f) ==
  f = [i \in 0 .. n |-> IF i = 0 THEN s ELSE PushPage(f[i - 1], k * PagesPerSegment - i + 1)]

LEMMA PushedExists ==
  ASSUME NEW s, NEW k, NEW m \in Nat
  PROVE  \E f : PushedUpTo(s, k, m, f)
  <1> DEFINE T == {n \in Nat : \E f : PushedUpTo(s, k, n, f)}
  <1>1. 0 \in T
    <2>1. PushedUpTo(s, k, 0, [i \in 0 .. 0 |-> s])
      BY DEF PushedUpTo
    <2> QED
      BY <2>1
  <1>2. ASSUME NEW n \in Nat, n \in T
        PROVE  n + 1 \in T
    <2>1. PICK f : PushedUpTo(s, k, n, f)
      BY <1>2
    <2> DEFINE g == [i \in 0 .. n + 1 |-> IF i = n + 1 THEN PushPage(f[n], k * PagesPerSegment - (n + 1) + 1) ELSE f[i]]
               h == [i \in 0 .. n + 1 |-> IF i = 0 THEN s ELSE PushPage(g[i - 1], k * PagesPerSegment - i + 1)]
    <2>2. ASSUME NEW i \in 0 .. n + 1
          PROVE  g[i] = h[i]
      <3>1. CASE i = n + 1
        BY <3>1
      <3>2. CASE i # n + 1
        <4>1. i \in 0 .. n /\ g[i] = f[i] /\ (i # 0 => g[i - 1] = f[i - 1])
          BY <3>2
        <4>2. f[i] = IF i = 0 THEN s ELSE PushPage(f[i - 1], k * PagesPerSegment - i + 1)
          BY <2>1, <4>1 DEF PushedUpTo
        <4> QED
          BY <4>1, <4>2
      <3> QED
        BY <3>1, <3>2
    <2>3. g = h
      BY <2>2
    <2>4. PushedUpTo(s, k, n + 1, g)
      BY <2>3 DEF PushedUpTo
    <2> QED
      BY <2>4
  <1>3. m \in T
    <2> HIDE DEF T
    <2> QED
      BY <1>1, <1>2, NumberInduction
  <1> QED
    BY <1>3

LEMMA PushAllIs ==
  ASSUME NEW s, NEW k
  PROVE  \E f : PushedUpTo(s, k, PagesPerSegment, f) /\ PushAll(s, k) = f[PagesPerSegment]
  <1> DEFINE f == CHOOSE f : PushedUpTo(s, k, PagesPerSegment, f)
  <1>1. PushedUpTo(s, k, PagesPerSegment, f)
    BY PushedExists, SizeAssumption
  <1>2. PushAll(s, k) = f[PagesPerSegment]
    BY DEF PushAll, PushedUpTo
  <1> QED
    BY <1>1, <1>2

(* cxl_segment_free's loop over the pages, up to the n-th. *)
RemovedUpTo(s, k, n, f) ==
  f = [i \in 0 .. n |-> IF i = 0 THEN s ELSE RemovePage(f[i - 1], (k - 1) * PagesPerSegment + i)]

LEMMA RemovedExists ==
  ASSUME NEW s, NEW k, NEW m \in Nat
  PROVE  \E f : RemovedUpTo(s, k, m, f)
  <1> DEFINE T == {n \in Nat : \E f : RemovedUpTo(s, k, n, f)}
  <1>1. 0 \in T
    <2>1. RemovedUpTo(s, k, 0, [i \in 0 .. 0 |-> s])
      BY DEF RemovedUpTo
    <2> QED
      BY <2>1
  <1>2. ASSUME NEW n \in Nat, n \in T
        PROVE  n + 1 \in T
    <2>1. PICK f : RemovedUpTo(s, k, n, f)
      BY <1>2
    <2> DEFINE g == [i \in 0 .. n + 1 |-> IF i = n + 1 THEN RemovePage(f[n], (k - 1) * PagesPerSegment + (n + 1)) ELSE f[i]]
               h == [i \in 0 .. n + 1 |-> IF i = 0 THEN s ELSE RemovePage(g[i - 1], (k - 1) * PagesPerSegment + i)]
    <2>2. ASSUME NEW i \in 0 .. n + 1
          PROVE  g[i] = h[i]
      <3>1. CASE i = n + 1
        BY <3>1
      <3>2. CASE i # n + 1
        <4>1. i \in 0 .. n /\ g[i] = f[i] /\ (i # 0 => g[i - 1] = f[i - 1])
          BY <3>2
        <4>2. f[i] = IF i = 0 THEN s ELSE RemovePage(f[i - 1], (k - 1) * PagesPerSegment + i)
          BY <2>1, <4>1 DEF RemovedUpTo
        <4> QED
          BY <4>1, <4>2
      <3> QED
        BY <3>1, <3>2
    <2>3. g = h
      BY <2>2
    <2>4. RemovedUpTo(s, k, n + 1, g)
      BY <2>3 DEF RemovedUpTo
    <2> QED
      BY <2>4
  <1>3. m \in T
    <2> HIDE DEF T
    <2> QED
      BY <1>1, <1>2, NumberInduction
  <1> QED
    BY <1>3

LEMMA RemoveAllIs ==
  ASSUME NEW s, NEW k
  PROVE  \E f : RemovedUpTo(s, k, PagesPerSegment, f) /\ RemoveAll(s, k) = f[PagesPerSegment]
  <1> DEFINE f == CHOOSE f : RemovedUpTo(s, k, PagesPerSegment, f)
  <1>1. RemovedUpTo(s, k, PagesPerSegment, f)
    BY RemovedExists, SizeAssumption
  <1>2. RemoveAll(s, k) = f[PagesPerSegment]
    BY DEF RemoveAll, RemovedUpTo
  <1> QED
    BY <1>1, <1>2

(* All pages of a segment come to the queue of free pages, or leave it:    *)
(* the pages of D are linked, those not in E are as they were.             *)
Relinked(t, pages, D, E) ==
  /\ t.pages \in [Page -> PageType] /\ t.q \in QueueType
  /\ Linked(t.pages, t.q, D)
  /\ \A x \in Page : SameBlocks(t.pages[x], pages[x])
  /\ SameOutside(t.pages, pages, E)

LEMMA RelinkedPush ==
  ASSUME NEW t, NEW pages, NEW D, D \subseteq Page, Relinked(t, pages, D, D),
         NEW p \in Page, p \notin D
  PROVE  Relinked(PushPage(t, p), pages, D \cup {p}, D \cup {p})
  <1>1. PICK g \in [Page -> PageType], h \in QueueType : g = t.pages /\ h = t.q
    BY DEF Relinked
  <1>2. PICK r : r = PushPage(t, p)
    OBVIOUS
  <1>3. r = PushPage([pages |-> g, q |-> h], p)
    BY <1>1, <1>2 DEF PushPage
  <1>4. /\ Linked(g, h, D) /\ \A x \in Page : SameBlocks(g[x], pages[x])
        /\ SameOutside(g, pages, D)
    BY <1>1 DEF Relinked
  <1>5. /\ r.pages \in [Page -> PageType] /\ r.q \in QueueType
        /\ Linked(r.pages, r.q, D \cup {p})
        /\ \A x \in Page : SameBlocks(r.pages[x], g[x])
        /\ SameOutside(r.pages, g, D \cup {p})
    BY <1>3, <1>4, PushLinked
  <1>6. \A x \in Page : SameBlocks(r.pages[x], pages[x])
    BY <1>4, <1>5 DEF SameBlocks
  <1>7. SameOutside(r.pages, pages, D \cup {p})
    BY <1>4, <1>5 DEF SameOutside
  <1>8. Relinked(r, pages, D \cup {p}, D \cup {p})
    BY <1>5, <1>6, <1>7 DEF Relinked
  <1> QED
    BY <1>2, <1>8

LEMMA RelinkedRemove ==
  ASSUME NEW t, NEW pages, NEW D, D \subseteq Page, NEW E, D \subseteq E,
         Relinked(t, pages, D, E), NEW p \in D
  PROVE  Relinked(RemovePage(t, p), pages, D \ {p}, E)
  <1>1. PICK g \in [Page -> PageType], h \in QueueType : g = t.pages /\ h = t.q
    BY DEF Relinked
  <1>2. PICK r : r = RemovePage(t, p)
    OBVIOUS
  <1>3. r = RemovePage([pages |-> g, q |-> h], p)
    BY <1>1, <1>2 DEF RemovePage
  <1>4. /\ Linked(g, h, D) /\ \A x \in Page : SameBlocks(g[x], pages[x])
        /\ SameOutside(g, pages, E)
    BY <1>1 DEF Relinked
  <1>5. /\ r.pages \in [Page -> PageType] /\ r.q \in QueueType
        /\ Linked(r.pages, r.q, D \ {p})
        /\ \A x \in Page : SameBlocks(r.pages[x], g[x])
        /\ SameOutside(r.pages, g, D)
    <2>1. Linked(g, h, D) /\ p \in D /\ p \in Page
      BY <1>4
    <2> QED
      BY <1>3, <2>1, RemoveLinked
  <1>6. \A x \in Page : SameBlocks(r.pages[x], pages[x])
    BY <1>4, <1>5 DEF SameBlocks
  <1>7. SameOutside(r.pages, pages, E)
    BY <1>4, <1>5 DEF SameOutside
  <1>8. Relinked(r, pages, D \ {p}, E)
    BY <1>5, <1>6, <1>7 DEF Relinked
  <1> QED
    BY <1>2, <1>8

LEMMA RelinkedSelf ==
  ASSUME NEW pages \in [Page -> PageType], NEW q \in QueueType, NEW C, Linked(pages, q, C), NEW E
  PROVE  Relinked([pages |-> pages, q |-> q], pages, C, E)
  <1>1. PICK s : s = [pages |-> pages, q |-> q]
    OBVIOUS
  <1>2. s.pages = pages /\ s.q = q
    BY <1>1
  <1>3. Relinked(s, pages, C, E)
    BY <1>2 DEF Relinked, SameBlocks, SameOutside
  <1> QED
    BY <1>1, <1>3

LEMMA PushAllLinked ==
  ASSUME NEW pages \in [Page -> PageType], NEW q \in QueueType, NEW C, C \subseteq Page,
         NEW k \in Segment, C \cap PagesOf(k) = {}, Linked(pages, q, C),
         NEW r, r = PushAll([pages |-> pages, q |-> q], k)
  PROVE  Relinked(r, pages, C \cup PagesOf(k), C \cup PagesOf(k))
  <1> DEFINE P == PagesPerSegment
  <1>0. PICK s : s = [pages |-> pages, q |-> q]
    OBVIOUS
  <1>1. PICK f : PushedUpTo(s, k, P, f) /\ r = f[P]
    BY <1>0, PushAllIs
  <1>2. PICK a \in Nat : a = (k - 1) * P /\ k * P = a + P /\ PagesOf(k) = a + 1 .. a + P
                         /\ PagesOf(k) \subseteq Page
    BY PageOfSegment
  <1>3. P \in Nat \ {0}
    BY SizeAssumption
  <1> DEFINE D(n) == C \cup (a + P - n + 1 .. a + P)
             T == {n \in Nat : n <= P => Relinked(f[n], pages, D(n), D(n))}
  <1> HIDE DEF P
  <1>4. 0 \in T
    <2>1. f[0] = s
      BY <1>1, <1>3 DEF PushedUpTo
    <2>2. PICK E : E = D(0)
      OBVIOUS
    <2>3. E = C
      BY <1>3, <2>2
    <2>4. Relinked(s, pages, E, E)
      BY <1>0, <2>3, RelinkedSelf
    <2> QED
      BY <2>1, <2>2, <2>4
  <1>5. ASSUME NEW n \in Nat, n \in T
        PROVE  n + 1 \in T
    <2>1. SUFFICES ASSUME n + 1 <= P
                   PROVE  Relinked(f[n + 1], pages, D(n + 1), D(n + 1))
      OBVIOUS
    <2>2. Relinked(f[n], pages, D(n), D(n))
      BY <1>3, <1>5, <2>1
    <2>3. PICK p : p = a + P - n
      OBVIOUS
    <2>40. /\ p \in a + 1 .. a + P /\ p \notin a + P - n + 1 .. a + P
           /\ a + P - (n + 1) + 1 .. a + P = (a + P - n + 1 .. a + P) \cup {p}
           /\ a + P - n + 1 .. a + P \subseteq a + 1 .. a + P
      BY <1>3, <2>1, <2>3
    <2>4. p \in Page /\ p \notin D(n) /\ D(n + 1) = D(n) \cup {p} /\ D(n) \subseteq Page
      BY <1>2, <2>40
    <2>5. n + 1 \in 0 .. P /\ n + 1 # 0 /\ n + 1 - 1 = n /\ k * P - (n + 1) + 1 = p
      BY <1>2, <1>3, <2>1, <2>3
    <2>6. f[n + 1] = PushPage(f[n], p)
      <3>1. PICK i \in 0 .. P : i = n + 1
        BY <2>5
      <3>2. f[i] = IF i = 0 THEN s ELSE PushPage(f[i - 1], k * PagesPerSegment - i + 1)
        BY <1>1 DEF PushedUpTo, P
      <3>3. i # 0 /\ i - 1 = n /\ k * PagesPerSegment - i + 1 = p
        BY <2>5, <3>1 DEF P
      <3> QED
        BY <3>1, <3>2, <3>3
    <2> HIDE DEF D
    <2> QED
      BY <2>2, <2>4, <2>6, RelinkedPush
  <1>6. P \in T
    <2> HIDE DEF T
    <2> QED
      BY <1>3, <1>4, <1>5, NumberInduction
  <1>7. D(P) = C \cup PagesOf(k)
    BY <1>2, <1>3
  <1> HIDE DEF D
  <1>8. Relinked(r, pages, D(P), D(P))
    BY <1>1, <1>3, <1>6
  <1> QED
    BY <1>7, <1>8

LEMMA RemoveAllLinked ==
  ASSUME NEW pages \in [Page -> PageType], NEW q \in QueueType, NEW C, C \subseteq Page,
         NEW k \in Segment, PagesOf(k) \subseteq C, Linked(pages, q, C),
         NEW r, r = RemoveAll([pages |-> pages, q |-> q], k)
  PROVE  Relinked(r, pages, C \ PagesOf(k), C)
  <1> DEFINE P == PagesPerSegment
  <1>0. PICK s : s = [pages |-> pages, q |-> q]
    OBVIOUS
  <1>1. PICK f : RemovedUpTo(s, k, P, f) /\ r = f[P]
    BY <1>0, RemoveAllIs
  <1>2. PICK a \in Nat : a = (k - 1) * P /\ k * P = a + P /\ PagesOf(k) = a + 1 .. a + P
                         /\ PagesOf(k) \subseteq Page
    BY PageOfSegment
  <1>3. P \in Nat \ {0}
    BY SizeAssumption
  <1> DEFINE D(n) == C \ (a + 1 .. a + n)
             T == {n \in Nat : n <= P => Relinked(f[n], pages, D(n), C)}
  <1> HIDE DEF P
  <1>4. 0 \in T
    <2>1. f[0] = s
      BY <1>1, <1>3 DEF RemovedUpTo
    <2>2. PICK E : E = D(0)
      OBVIOUS
    <2>3. E = C
      BY <2>2
    <2>4. Relinked(s, pages, E, C)
      BY <1>0, <2>3, RelinkedSelf
    <2> QED
      BY <2>1, <2>2, <2>4
  <1>5. ASSUME NEW n \in Nat, n \in T
        PROVE  n + 1 \in T
    <2>1. SUFFICES ASSUME n + 1 <= P
                   PROVE  Relinked(f[n + 1], pages, D(n + 1), C)
      OBVIOUS
    <2>2. Relinked(f[n], pages, D(n), C)
      BY <1>3, <1>5, <2>1
    <2>3. PICK p : p = a + n + 1
      OBVIOUS
    <2>40. /\ p \in a + n + 1 .. a + P /\ a + (n + 1) + 1 .. a + P = (a + n + 1 .. a + P) \ {p}
           /\ p \in a + 1 .. a + P /\ a + n + 1 .. a + P \subseteq a + 1 .. a + P
      BY <1>3, <2>1, <2>3
    <2>4. p \in D(n) /\ D(n + 1) = D(n) \ {p} /\ D(n) \subseteq Page /\ D(n) \subseteq C
      BY <1>2, <2>40
    <2>5. n + 1 \in 0 .. P /\ n + 1 # 0 /\ n + 1 - 1 = n /\ (k - 1) * P + (n + 1) = p
      BY <1>2, <1>3, <2>1, <2>3
    <2>6. f[n + 1] = RemovePage(f[n], p)
      <3>1. PICK i \in 0 .. P : i = n + 1
        BY <2>5
      <3>2. f[i] = IF i = 0 THEN s ELSE RemovePage(f[i - 1], (k - 1) * PagesPerSegment + i)
        BY <1>1 DEF RemovedUpTo, P
      <3>3. i # 0 /\ i - 1 = n /\ (k - 1) * PagesPerSegment + i = p
        BY <2>5, <3>1 DEF P
      <3> QED
        BY <3>1, <3>2, <3>3
    <2> HIDE DEF D
    <2> QED
      BY <2>2, <2>4, <2>6, RelinkedRemove
  <1>6. P \in T
    <2> HIDE DEF T
    <2> QED
      BY <1>3, <1>4, <1>5, NumberInduction
  <1>7. D(P) = C \ PagesOf(k)
    BY <1>2, <1>3
  <1> HIDE DEF D
  <1>8. Relinked(r, pages, D(P), C)
    BY <1>1, <1>3, <1>6
  <1> QED
    BY <1>7, <1>8

-----------------------------------------------------------------------------
(* Lists of blocks. *)

LEMMA InjectiveSeq ==
  ASSUME NEW S, NEW s \in Seq(S)
  PROVE  IsInjective(s) <=> (\A i, j \in 1 .. Len(s) : s[i] = s[j] => i = j)
  <1>1. DOMAIN s = 1 .. Len(s)
    BY LenProperties
  <1> QED
    BY <1>1, Zenon DEF IsInjective

Prepended(S, x, s, r) ==
  /\ r \in Seq(S) /\ Len(r) = Len(s) + 1 /\ r # <<>>
  /\ Range(r) = {x} \cup Range(s)
  /\ IsInjective(r) <=> IsInjective(s) /\ x \notin Range(s)
  /\ Head(r) = x /\ Tail(r) = s

LEMMA Prepend ==
  ASSUME NEW S, NEW x \in S, NEW s \in Seq(S), NEW r, r = <<x>> \o s
  PROVE  Prepended(S, x, s, r)
  <1>1. /\ r \in Seq(S) /\ Len(r) = Len(s) + 1 /\ Len(s) \in Nat
        /\ r[1] = x /\ \A i \in 1 .. Len(s) : r[i + 1] = s[i]
    <2>1. PICK u : u = <<x>>
      OBVIOUS
    <2>0. u \in Seq(S) /\ Len(u) = 1 /\ u[1] = x
      BY <2>1
    <2>2. Len(s) \in Nat /\ r = u \o s
      BY <2>1, LenProperties
    <2>3. /\ r \in Seq(S) /\ Len(r) = 1 + Len(s)
          /\ \A i \in 1 .. 1 + Len(s) : r[i] = IF i <= 1 THEN u[i] ELSE s[i - 1]
      BY <2>0, <2>2, ConcatProperties
    <2> QED
      BY <2>0, <2>2, <2>3
  <1>2. \A i \in 1 .. Len(r) : i = 1 \/ (i - 1 \in 1 .. Len(s) /\ r[i] = s[i - 1])
    BY <1>1
  <1>3. /\ Range(s) = {s[i] : i \in 1 .. Len(s)}
        /\ Range(r) = {r[i] : i \in 1 .. Len(r)}
        /\ (IsInjective(s) <=> (\A i, j \in 1 .. Len(s) : s[i] = s[j] => i = j))
        /\ (IsInjective(r) <=> (\A i, j \in 1 .. Len(r) : r[i] = r[j] => i = j))
    <2>1. r \in Seq(S)
      BY <1>1
    <2>2. Range(s) = {s[i] : i \in 1 .. Len(s)} /\ Range(r) = {r[i] : i \in 1 .. Len(r)}
      <3>1. \A S1 : \A q \in Seq(S1) : Range(q) = {q[i] : i \in 1 .. Len(q)}
        BY RangeEquality, Zenon
      <3>2. Range(s) = {s[i] : i \in 1 .. Len(s)}
        BY <3>1, Zenon
      <3>3. Range(r) = {r[i] : i \in 1 .. Len(r)}
        BY ONLY <2>1, <3>1, Zenon
      <3> QED
        BY <3>2, <3>3
    <2>3. IsInjective(s) <=> (\A i, j \in 1 .. Len(s) : s[i] = s[j] => i = j)
      BY ONLY s \in Seq(S), InjectiveSeq
    <2>4. IsInjective(r) <=> (\A i, j \in 1 .. Len(r) : r[i] = r[j] => i = j)
      BY ONLY <2>1, InjectiveSeq
    <2> QED
      BY <2>2, <2>3, <2>4
  <1>4. Range(r) = {x} \cup Range(s)
    <2>1. ASSUME NEW y \in Range(r) PROVE y \in {x} \cup Range(s)
      <3>1. PICK i \in 1 .. Len(r) : y = r[i]
        BY <1>3, Zenon
      <3>2. i = 1 \/ (i - 1 \in 1 .. Len(s) /\ y = s[i - 1])
        BY <1>2, <3>1
      <3>3. CASE i = 1
        BY <1>1, <3>1, <3>3
      <3>4. CASE i - 1 \in 1 .. Len(s) /\ y = s[i - 1]
        BY <1>3, <3>4, Zenon
      <3> QED
        BY <3>2, <3>3, <3>4
    <2>2. x \in Range(r)
      <3>1. 1 \in 1 .. Len(r) /\ r[1] = x
        BY <1>1
      <3> QED
        BY <3>1, <1>3
    <2>3. ASSUME NEW i \in 1 .. Len(s) PROVE s[i] \in Range(r)
      <3>1. i + 1 \in 1 .. Len(r) /\ r[i + 1] = s[i]
        BY <1>1
      <3> QED
        BY <3>1, <1>3
    <2> QED
      BY <2>1, <2>2, <2>3, <1>3
  <1>5. ASSUME IsInjective(r)
        PROVE  IsInjective(s) /\ x \notin Range(s)
    <2>1. \A i \in 1 .. Len(r), j \in 1 .. Len(r) : r[i] = r[j] => i = j
      BY <1>3, <1>5
    <2>2. ASSUME NEW i \in 1 .. Len(s), NEW j \in 1 .. Len(s), s[i] = s[j]
          PROVE  i = j
      <3>1. i + 1 \in 1 .. Len(r) /\ j + 1 \in 1 .. Len(r) /\ r[i + 1] = r[j + 1]
        BY <1>1, <2>2
      <3>2. i + 1 = j + 1
        BY <2>1, <3>1
      <3> QED
        BY <3>2
    <2>3. ASSUME NEW i \in 1 .. Len(s), s[i] = x
          PROVE  FALSE
      <3>1. i + 1 \in 1 .. Len(r) /\ 1 \in 1 .. Len(r) /\ r[i + 1] = r[1]
        BY <1>1, <2>3
      <3>2. i + 1 = 1
        BY <2>1, <3>1
      <3> QED
        BY <3>2
    <2> QED
      BY <2>2, <2>3, <1>3
  <1>6. ASSUME IsInjective(s), x \notin Range(s)
        PROVE  IsInjective(r)
    <2>1. \A i \in 1 .. Len(s), j \in 1 .. Len(s) : s[i] = s[j] => i = j
      BY <1>3, <1>6
    <2>2. \A i \in 1 .. Len(s) : s[i] # x
      BY <1>3, <1>6
    <2>3. ASSUME NEW i \in 1 .. Len(r), NEW j \in 1 .. Len(r), r[i] = r[j]
          PROVE  i = j
      <3>1. CASE i = 1 \/ j = 1
        BY <1>1, <1>2, <2>2, <2>3, <3>1
      <3>2. CASE i # 1 /\ j # 1
        <4>1. i - 1 \in 1 .. Len(s) /\ j - 1 \in 1 .. Len(s) /\ s[i - 1] = s[j - 1]
          BY <1>2, <2>3, <3>2
        <4>2. i - 1 = j - 1
          BY <2>1, <4>1
        <4> QED
          BY <4>2
      <3> QED
        BY <3>1, <3>2
    <2> QED
      BY <1>3, <2>3
  <1>7. Head(r) = x /\ Tail(r) = s
    <2>1. Tail(r) = [i \in 1 .. Len(s) |-> r[i + 1]]
      BY <1>1
    <2>2. s = [i \in 1 .. Len(s) |-> s[i]]
      OBVIOUS
    <2>3. Tail(r) = s
      BY <2>1, <2>2, <1>1
    <2> QED
      BY <1>1, <2>3
  <1> QED
    BY <1>1, <1>4, <1>5, <1>6, <1>7 DEF Prepended

LEMMA HeadAndTail ==
  ASSUME NEW S, NEW s \in Seq(S), s # <<>>
  PROVE  /\ Head(s) \in S /\ Tail(s) \in Seq(S)
         /\ Len(Tail(s)) = Len(s) - 1 /\ Len(s) \in Nat \ {0}
         /\ Range(s) = {Head(s)} \cup Range(Tail(s))
         /\ IsInjective(s) <=> IsInjective(Tail(s)) /\ Head(s) \notin Range(Tail(s))
  <1>1. PICK x \in S, t \in Seq(S) : x = Head(s) /\ t = Tail(s) /\ Len(t) = Len(s) - 1 /\ Len(s) \in Nat \ {0}
    BY HeadTailProperties, EmptySeq
  <1>2. s = <<x>> \o t
    <2>1. \A i \in 1 .. Len(s) : s[i] = (<<x>> \o t)[i]
      <3>1. /\ <<x>> \in Seq(S) /\ Len(<<x>>) = 1 /\ <<x>>[1] = x
            /\ \A i \in 1 .. Len(s) : s[i] = IF i <= 1 THEN x ELSE t[i - 1]
        BY <1>1, HeadTailProperties
      <3> QED
        BY <3>1, <1>1, ConcatProperties
    <2>2. Len(<<x>> \o t) = Len(s) /\ <<x>> \o t \in Seq(S)
      BY <1>1
    <2> QED
      BY <2>1, <2>2, SeqEqual
  <1>3. Range(s) = {x} \cup Range(t) /\ (IsInjective(s) <=> IsInjective(t) /\ x \notin Range(t))
    <2>1. Prepended(S, x, t, s)
      BY <1>2, Prepend
    <2> QED
      BY <2>1 DEF Prepended
  <1> QED
    BY <1>1, <1>3

(* x is the page header y after the blocks at W were freed to its page. *)
FreedTo(x, y, W) ==
  /\ x \in PageType
  /\ x.free = y.free /\ x.bin = y.bin /\ x.next = y.next /\ x.prev = y.prev
  /\ x.used + Len(x.local) = y.used + Len(y.local)
  /\ Range(x.local) = Range(y.local) \cup W
  /\ IsInjective(y.local) /\ W \cap Range(y.local) = {} => IsInjective(x.local)
  /\ W = {} => x = y

LEMMA PageFields ==
  ASSUME NEW x \in PageType
  PROVE  /\ x.free \in Seq(Offset) /\ x.local \in Seq(Offset) /\ x.bin \in Bin \cup {NONE}
         /\ x.used \in Int /\ x.next \in Page \cup {0} /\ x.prev \in Page \cup {0}
         /\ Len(x.free) \in Nat /\ Len(x.local) \in Nat
         /\ Range(x.free) \subseteq Offset /\ Range(x.local) \subseteq Offset
  <1>1. /\ x.free \in Seq(Offset) /\ x.local \in Seq(Offset) /\ x.bin \in Bin \cup {NONE}
        /\ x.used \in Int /\ x.next \in Page \cup {0} /\ x.prev \in Page \cup {0}
    BY DEF PageType
  <1>2. Range(x.free) \subseteq Offset /\ Range(x.local) \subseteq Offset
    BY <1>1, RangeOfSeq
  <1> QED
    BY <1>1, <1>2, LenProperties

WithFreed(x, w) == [x EXCEPT !.local = <<w>> \o @, !.used = @ - 1]

LEMMA FreedToOne ==
  ASSUME NEW x \in PageType, NEW y \in PageType, NEW W, FreedTo(x, y, W), NEW w \in Offset, w \notin W,
         NEW z, z = WithFreed(x, w)
  PROVE  FreedTo(z, y, W \cup {w})
  <1>1. PICK l \in Seq(Offset) : l = x.local
    BY PageFields
  <1>2. PICK m : m = <<w>> \o l
    OBVIOUS
  <1>3. /\ m \in Seq(Offset) /\ Len(m) = Len(l) + 1 /\ Range(m) = {w} \cup Range(l)
        /\ (IsInjective(m) <=> IsInjective(l) /\ w \notin Range(l))
        /\ Len(l) \in Nat
    <2>1. Prepended(Offset, w, l, m)
      BY <1>2, Prepend
    <2>2. Len(l) \in Nat
      BY LenProperties
    <2> QED
      BY <2>1, <2>2 DEF Prepended
  <1>4. x.used \in Int /\ y.used \in Int /\ Len(y.local) \in Nat
    <2>1. \A v \in PageType : v.used \in Int /\ Len(v.local) \in Nat
      BY PageFields
    <2> QED
      BY <2>1
  <1>5. z = [x EXCEPT !.local = m, !.used = x.used - 1]
    BY <1>1, <1>2 DEF WithFreed
  <1>6. /\ z \in PageType /\ z.free = x.free /\ z.bin = x.bin /\ z.next = x.next /\ z.prev = x.prev
        /\ z.local = m /\ z.used = x.used - 1
    <2>1. \A n \in Int : [x EXCEPT !.local = m, !.used = n] \in PageType
      BY <1>3 DEF PageType
    <2>2. x.used - 1 \in Int
      BY <1>4
    <2>3. z \in PageType
      BY <1>5, <2>1, <2>2
    <2>4. /\ z.free = x.free /\ z.bin = x.bin /\ z.next = x.next /\ z.prev = x.prev
          /\ z.local = m /\ z.used = x.used - 1
      BY <1>5 DEF PageType
    <2> QED
      BY <2>3, <2>4
  <1>7. z.used + Len(z.local) = y.used + Len(y.local)
    <2>1. x.used + Len(l) = y.used + Len(y.local)
      BY <1>1 DEF FreedTo
    <2>2. z.used = x.used - 1 /\ Len(z.local) = Len(l) + 1
      BY <1>3, <1>6
    <2>3. PICK i \in Int, j \in Nat, m2 \in Nat, n2 \in Int :
            i = x.used /\ j = Len(l) /\ m2 = Len(y.local) /\ n2 = y.used
      BY <1>3, <1>4
    <2>40. i + j = n2 + m2
      BY ONLY <2>1, <2>3
    <2>4. i - 1 + (j + 1) = n2 + m2
      BY <2>40
    <2> QED
      BY <2>2, <2>3, <2>4
  <1>8. Range(z.local) = Range(y.local) \cup (W \cup {w})
    BY <1>1, <1>3, <1>6 DEF FreedTo
  <1>9. IsInjective(y.local) /\ (W \cup {w}) \cap Range(y.local) = {} => IsInjective(z.local)
    <2>1. w \notin Range(y.local) => w \notin Range(l)
      BY <1>1 DEF FreedTo
    <2> QED
      BY <1>1, <1>3, <1>6, <2>1 DEF FreedTo
  <1> QED
    BY <1>6, <1>7, <1>8, <1>9 DEF FreedTo

LEMMA FreedToSelf ==
  ASSUME NEW y \in PageType
  PROVE  FreedTo(y, y, {})
  BY DEF FreedTo

(* The offsets on page p of the blocks of a set. *)
On(p, B) == {w \in Offset : <<p, w>> \in B}

LEMMA FreeOnIs ==
  ASSUME NEW pages \in [Page -> PageType], NEW b \in Word
  PROVE  /\ FreeOn(pages, b) \in [Page -> PageType]
         /\ b[1] \in Page /\ b[2] \in Offset
         /\ \A p \in Page : FreeOn(pages, b)[p] =
              IF p = b[1] THEN WithFreed(pages[p], b[2]) ELSE pages[p]
  <1>1. PICK p \in Page, w \in Offset : b = <<p, w>>
    BY DEF Word, Offset
  <1>2. PICK z : z = WithFreed(pages[p], w)
    OBVIOUS
  <1>3. FreedTo(z, pages[p], {} \cup {w})
    BY <1>2, FreedToOne, FreedToSelf
  <1>4. z \in PageType
    BY <1>3 DEF FreedTo
  <1>5. FreeOn(pages, b) = [pages EXCEPT ![p] = z]
    BY <1>1, <1>2 DEF FreeOn, WithFreed
  <1> QED
    BY <1>1, <1>2, <1>4, <1>5

LEMMA DrainedEffect ==
  ASSUME NEW pages \in [Page -> PageType], NEW list \in Seq(Word), IsInjective(list),
         NEW r, r = Drained(pages, list)
  PROVE  /\ r \in [Page -> PageType]
         /\ \A p \in Page : FreedTo(r[p], pages[p], On(p, Range(list)))
  <1> DEFINE N == Len(list)
             B(n) == {list[i] : i \in 1 .. n}
  <1>1. N \in Nat /\ (\A i \in 1 .. N : list[i] \in Word) /\ Range(list) = B(N)
        /\ \A i, j \in 1 .. N : list[i] = list[j] => i = j
    <2>1. \A i, j \in 1 .. N : list[i] = list[j] => i = j
      BY InjectiveSeq
    <2> QED
      BY <2>1, LenProperties, ElementOfSeq, RangeEquality
  <1>2. PICK f : FreedUpTo(pages, list, N, f) /\ r = f[N]
    BY <1>1, DrainedIs
  <1> DEFINE Good(m, A) == m \in [Page -> PageType] /\ \A p \in Page : FreedTo(m[p], pages[p], On(p, A))
             T == {n \in Nat : n <= N => Good(f[n], B(n))}
  <1> HIDE DEF N
  <1>3. 0 \in T
    <2>1. f[0] = pages
      BY <1>1, <1>2 DEF FreedUpTo
    <2>2. \A p \in Page : On(p, B(0)) = {}
      BY DEF On
    <2> QED
      BY <2>1, <2>2, FreedToSelf
  <1>4. ASSUME NEW n \in Nat, n \in T
        PROVE  n + 1 \in T
    <2>1. SUFFICES ASSUME n + 1 <= N
                   PROVE  Good(f[n + 1], B(n + 1))
      OBVIOUS
    <2>2. Good(f[n], B(n))
      BY <1>1, <1>4, <2>1
    <2>3. PICK i \in 1 .. N : i = n + 1 /\ i - 1 = n /\ i # 0 /\ i \in 0 .. N
      BY <1>1, <2>1
    <2>4. PICK b \in Word : b = list[i]
      BY <1>1
    <2>5. f[i] = FreeOn(f[n], b)
      <3>1. f[i] = IF i = 0 THEN pages ELSE FreeOn(f[i - 1], list[i])
        BY <1>2, <2>3 DEF FreedUpTo
      <3> QED
        BY <3>1, <2>3, <2>4
    <2>6. B(n + 1) = B(n) \cup {b} /\ b \notin B(n)
      BY <1>1, <2>3, <2>4
    <2> HIDE DEF B
    <2>70. PICK A : A = B(n)
      OBVIOUS
    <2>7. PICK g \in [Page -> PageType] : g = f[n] /\ A = B(n)
      BY <2>2, <2>70
    <2>8. PICK h \in [Page -> PageType] : h = f[n + 1] /\ h = FreeOn(g, b)
      BY <2>3, <2>5, <2>7, FreeOnIs
    <2>9. ASSUME NEW p \in Page
          PROVE  FreedTo(h[p], pages[p], On(p, A \cup {b}))
      <3>1. FreedTo(g[p], pages[p], On(p, A))
        BY <2>2, <2>7
      <3>2. PICK q \in Page, w \in Offset : b = <<q, w>>
        BY DEF Word, Offset
      <3>3. CASE p = q
        <4>1. h[p] = WithFreed(g[p], w)
          <5>1. h[p] = IF p = b[1] THEN WithFreed(g[p], b[2]) ELSE g[p]
            BY <2>8, FreeOnIs
          <5>2. b[1] = p /\ b[2] = w
            BY <3>2, <3>3
          <5> QED
            BY <5>1, <5>2
        <4>2. On(p, A \cup {b}) = On(p, A) \cup {w} /\ w \notin On(p, A)
          BY <2>6, <2>7, <3>2, <3>3 DEF On
        <4>3. g[p] \in PageType /\ pages[p] \in PageType
          OBVIOUS
        <4>4. FreedTo(h[p], pages[p], On(p, A) \cup {w})
          BY <3>1, <4>1, <4>2, <4>3, FreedToOne
        <4> QED
          BY <4>2, <4>4
      <3>4. CASE p # q
        <4>1. h[p] = g[p]
          <5>1. h[p] = IF p = b[1] THEN WithFreed(g[p], b[2]) ELSE g[p]
            BY <2>8, FreeOnIs
          <5>2. b[1] # p
            BY <3>2, <3>4
          <5> QED
            BY <5>1, <5>2
        <4>2. On(p, A \cup {b}) = On(p, A)
          BY <3>2, <3>4 DEF On
        <4> QED
          BY <3>1, <4>1, <4>2
      <3> QED
        BY <3>3, <3>4
    <2> QED
      BY <2>6, <2>7, <2>8, <2>9
  <1>5. N \in T
    <2> HIDE DEF T
    <2> QED
      BY <1>1, <1>3, <1>4, NumberInduction
  <1> HIDE DEF B
  <1> QED
    BY <1>1, <1>2, <1>5

-----------------------------------------------------------------------------
(* How blocks move from one place to another. *)

LEMMA BlockTaken ==
  ASSUME NEW F, NEW L, NEW P, NEW H \in [Client -> SUBSET Word], NEW D \in [Client -> SUBSET Word],
         NEW B, Partition(F, L, P, H, D, B), NEW c \in Client, NEW x \in Word, x \in F
  PROVE  Partition(F \ {x}, L, P, [H EXCEPT ![c] = @ \cup {x}], D, B)
  BY DEF Partition

LEMMA BlocksCollected ==
  ASSUME NEW F, NEW L, NEW P, NEW H \in [Client -> SUBSET Word], NEW D \in [Client -> SUBSET Word],
         NEW B, Partition(F, L, P, H, D, B), NEW Q, Q \subseteq P
  PROVE  Partition(F, L \cup Q, P \ Q, H, D, B)
  BY DEF Partition

LEMMA BlocksRefilled ==
  ASSUME NEW F, NEW L, NEW P, NEW H \in [Client -> SUBSET Word], NEW D \in [Client -> SUBSET Word],
         NEW B, Partition(F, L, P, H, D, B), NEW Q, Q \subseteq L
  PROVE  Partition(F \cup Q, L \ Q, P, H, D, B)
  BY DEF Partition

LEMMA BlocksCarved ==
  ASSUME NEW F, NEW L, NEW P, NEW H \in [Client -> SUBSET Word], NEW D \in [Client -> SUBSET Word],
         NEW B, Partition(F, L, P, H, D, B), NEW Q, Q \cap B = {}
  PROVE  Partition(F \cup Q, L, P, H, D, B \cup Q)
  BY DEF Partition

LEMMA BlocksDropped ==
  ASSUME NEW F, NEW L, NEW P, NEW H \in [Client -> SUBSET Word], NEW D \in [Client -> SUBSET Word],
         NEW B, Partition(F, L, P, H, D, B), NEW Q, Q \subseteq F \cup L
  PROVE  Partition(F \ Q, L \ Q, P, H, D, B \ Q)
  BY DEF Partition

LEMMA BlockPassed ==
  ASSUME NEW F, NEW L, NEW P, NEW H \in [Client -> SUBSET Word], NEW D \in [Client -> SUBSET Word],
         NEW B, Partition(F, L, P, H, D, B), NEW c \in Client, NEW d \in Client, c # d,
         NEW x \in Word, x \in H[c]
  PROVE  Partition(F, L, P, [H EXCEPT ![c] = @ \ {x}, ![d] = @ \cup {x}], D, B)
  BY DEF Partition

LEMMA BlockFreed ==
  ASSUME NEW F, NEW L, NEW P, NEW H \in [Client -> SUBSET Word], NEW D \in [Client -> SUBSET Word],
         NEW B, Partition(F, L, P, H, D, B), NEW c \in Client, NEW x \in Word, x \in H[c]
  PROVE  Partition(F, L \cup {x}, P, [H EXCEPT ![c] = @ \ {x}], D, B)
  BY DEF Partition

LEMMA BlockHanded ==
  ASSUME NEW F, NEW L, NEW P, NEW H \in [Client -> SUBSET Word], NEW D \in [Client -> SUBSET Word],
         NEW B, Partition(F, L, P, H, D, B), NEW c \in Client, NEW x \in Word, x \in H[c], D[c] = {}
  PROVE  Partition(F, L, P, [H EXCEPT ![c] = @ \ {x}], [D EXCEPT ![c] = {x}], B)
  BY DEF Partition

LEMMA BlockPushed ==
  ASSUME NEW F, NEW L, NEW P, NEW H \in [Client -> SUBSET Word], NEW D \in [Client -> SUBSET Word],
         NEW B, Partition(F, L, P, H, D, B), NEW c \in Client, NEW x \in Word, D[c] = {x}
  PROVE  Partition(F, L, P \cup {x}, H, [D EXCEPT ![c] = {}], B)
  BY DEF Partition

-----------------------------------------------------------------------------
(* The steps of a client that leave the pages where they are.              *)

LEMMA RunningCalm ==
  ASSUME StageInv, NEW c \in Client, status[c] = "run"
  PROVE  Calm
  BY DEF StageInv

LEMMA CalmStep ==
  ASSUME Calm, mon' = mon, NEW c \in Client, status'[c] # "vacant"
  PROVE  Calm' /\ StageInv' /\ ScanInv'
  BY DEF Calm, Idle, StageInv, ScanInv

(* The monitor's marks, without the lists. *)
SameStates == \A k \in Segment : info'[k].state = info[k].state

LEMMA HeapKept ==
  ASSUME page' = page, segment' = segment, SameStates
  PROVE  /\ \A k \in Segment : (Active(k)' <=> Active(k)) /\ InUse(k)' = InUse(k)
         /\ \A c \in Client, k \in Segment : Owns(c, k)' <=> Owns(c, k)
         /\ \A p \in Page : (Blank(p)' <=> Blank(p)) /\ (Carved(p)' <=> Carved(p))
         /\ \A c \in Client, b \in Bin \cup {NONE} : Class(c, b)' = Class(c, b)
         /\ Blocks' = Blocks /\ Free' = Free /\ LocallyFree' = LocallyFree
  <1>0. \A p \in Page : SegmentOf(p) \in Segment
    BY SegmentOfPage, SizeAssumption DEF Segment
  <1>1. \A k \in Segment : (Active(k)' <=> Active(k)) /\ InUse(k)' = InUse(k)
    BY DEF Active, InUse, SameStates
  <1>2. \A c \in Client, k \in Segment : Owns(c, k)' <=> Owns(c, k)
    BY DEF Owns, SameStates
  <1>3. \A p \in Page : (Blank(p)' <=> Blank(p)) /\ (Carved(p)' <=> Carved(p))
    BY DEF Blank, Carved
  <1>4. \A c \in Client, b \in Bin \cup {NONE} : Class(c, b)' = Class(c, b)
    BY <1>0, <1>2, <1>3 DEF Class
  <1>5. Blocks' = Blocks /\ Free' = Free /\ LocallyFree' = LocallyFree
    <2>1. \A x \in Word : x[1] \in Page
      BY DEF Word
    <2> QED
      BY <1>0, <1>1, <1>3, <2>1 DEF Blocks, Free, LocallyFree
  <1> QED
    BY <1>1, <1>2, <1>3, <1>4, <1>5

(* What client c does to its own variables leaves the others' alone. *)
OthersKept(c) ==
  \A d \in Client : d # c => status'[d] = status[d] /\ pc'[d] = pc[d] /\ op'[d] = op[d]

(* No client starts or stops to work on a page. *)
Steady ==
  \A d \in Client : status'[d] # "vacant" =>
    /\ status[d] # "vacant"
    /\ status'[d] = "run" =>
         /\ status[d] = "run"
         /\ pc[d] = "carve" => pc'[d] = "carve" /\ op'[d].page = op[d].page
         /\ \/ pc[d] = "collect" /\ op[d].page = 0 => pc'[d] = "collect" /\ op'[d].page = 0
            \/ \A k \in Segment : Active(k) /\ Owns(d, k) => InUse(k) # {}

LEMMA CalmKept ==
  ASSUME page' = page, segment' = segment, SameStates, queue' = queue, Steady,
         PagesInv, LinkInv, CountInv
  PROVE  PagesInv' /\ LinkInv' /\ CountInv'
  <1>0. \A p \in Page : SegmentOf(p) \in Segment
    BY SegmentOfPage, SizeAssumption DEF Segment
  <1>1. PagesInv'
    <2> SUFFICES ASSUME NEW p \in Page, Active(SegmentOf(p))'
                 PROVE  (\/ Blank(p) /\ page[p].bin = NONE
                         \/ Carved(p)
                         \/ /\ Blank(p) /\ page[p].bin # NONE
                            /\ \A c \in Client : status[c] = "run" /\ Owns(c, SegmentOf(p)) =>
                                 pc[c] = "carve" /\ op[c].page = p)'
      BY DEF PagesInv
    <2>1. Active(SegmentOf(p))
      BY <1>0, HeapKept
    <2>2. \/ Blank(p) /\ page[p].bin = NONE
          \/ Carved(p)
          \/ /\ Blank(p) /\ page[p].bin # NONE
             /\ \A c \in Client : status[c] = "run" /\ Owns(c, SegmentOf(p)) =>
                  pc[c] = "carve" /\ op[c].page = p
      BY <2>1 DEF PagesInv
    <2>3. \A d \in Client : status'[d] = "run" /\ Owns(d, SegmentOf(p))' =>
            status[d] = "run" /\ Owns(d, SegmentOf(p))
            /\ (pc[d] = "carve" => pc'[d] = "carve" /\ op'[d].page = op[d].page)
      BY <1>0, HeapKept DEF Steady
    <2> QED
      BY <2>2, <2>3, HeapKept
  <1>2. LinkInv'
    <2>1. \A c \in Client : status'[c] # "vacant" => status[c] # "vacant"
      BY DEF Steady
    <2> QED
      BY <2>1, HeapKept DEF LinkInv
  <1>3. CountInv'
    <2> SUFFICES ASSUME NEW k \in Segment, Active(k)'
                 PROVE  (/\ segment[k].used = Cardinality(InUse(k))
                         /\ \A c \in Client : status[c] = "run" /\ Owns(c, k) /\ InUse(k) = {} =>
                              pc[c] = "collect" /\ op[c].page = 0 /\ Class(c, NONE) \subseteq PagesOf(k))'
      BY DEF CountInv
    <2>1. /\ Active(k) /\ segment[k].used = Cardinality(InUse(k))
          /\ \A c \in Client : status[c] = "run" /\ Owns(c, k) /\ InUse(k) = {} =>
               pc[c] = "collect" /\ op[c].page = 0 /\ Class(c, NONE) \subseteq PagesOf(k)
      BY HeapKept DEF CountInv
    <2>2. segment'[k].used = Cardinality(InUse(k)')
      BY <2>1, HeapKept
    <2>3. ASSUME NEW c \in Client, status'[c] = "run", Owns(c, k)', InUse(k)' = {}
          PROVE  pc'[c] = "collect" /\ op'[c].page = 0 /\ Class(c, NONE)' \subseteq PagesOf(k)
      <3>1. status[c] = "run" /\ Owns(c, k) /\ InUse(k) = {}
        BY <2>3, HeapKept DEF Steady
      <3>2. pc[c] = "collect" /\ op[c].page = 0 /\ Class(c, NONE) \subseteq PagesOf(k)
        BY <2>1, <3>1
      <3>3. Class(c, NONE)' = Class(c, NONE)
        BY HeapKept
      <3>4. pc'[c] = "collect" /\ op'[c].page = 0
        BY <2>1, <2>3, <3>1, <3>2 DEF Steady
      <3> QED
        BY <3>2, <3>3, <3>4
    <2> QED
      BY <2>2, <2>3
  <1> QED
    BY <1>1, <1>2, <1>3

LEMMA NoOpType == NoOp \in OpType
  <1>1. {} \in SUBSET Word /\ 0 \in Page \cup {0}
    OBVIOUS
  <1>2. 0 \in 0 .. NSegment + 1
    BY SizeAssumption
  <1> QED
    BY <1>1, <1>2 DEF NoOp, OpType, SeenType

LEMMA SegmentOfIs ==
  ASSUME NEW p \in Page
  PROVE  SegmentOf(p) \in Segment
  BY SegmentOfPage, SizeAssumption DEF Segment

(* The clients that do not move. *)
LEMMA ClientKept ==
  ASSUME NEW d \in Client, ClientInv(d), status'[d] = status[d], pc'[d] = pc[d], op'[d] = op[d],
         status[d] = "vacant" => held'[d] = held[d],
         \A k \in Segment : owner'[k] = d => owner[k] = d /\ info'[k].state = info[k].state,
         \A k \in Segment : owner[k] = d /\ segment[k].tid = 0 =>
           owner'[k] = d /\ segment'[k].tid = 0,
         queue'[d] = queue[d]
  PROVE  ClientInv(d)'
  BY DEF ClientInv

LEMMA ListsKept ==
  ASSUME page' = page, segment' = segment, info' = info
  PROVE  /\ SameStates /\ Pending' = Pending
         /\ (ListInv => ListInv') /\ (SegmentInv /\ owner' = owner => SegmentInv')
  <1>1. SameStates
    BY DEF SameStates
  <1>2. Pending' = Pending
    BY <1>1, HeapKept, SegmentOfIs DEF Pending, Word
  <1>3. ListInv => ListInv'
    BY <1>1, HeapKept, SegmentOfIs DEF ListInv
  <1>4. SegmentInv /\ owner' = owner => SegmentInv'
    BY DEF SegmentInv
  <1> QED
    BY <1>1, <1>2, <1>3, <1>4

LEMMA WorkKept ==
  ASSUME NEW c \in Client, OthersKept(c), WorkInv,
         page' = page, segment' = segment, SameStates,
         pc'[c] = "collect" => op'[c].page \in Class(c, op'[c].bin) \cup {0} /\ op'[c].bin \in Bin,
         pc'[c] # "carve",
         \A d \in Client : pc[d] = "collect" => op[d].bin \in Bin
  PROVE  WorkInv'
  <1> SUFFICES ASSUME NEW d \in Client
               PROVE  (/\ pc[d] = "collect" => op[d].page \in Class(d, op[d].bin) \cup {0}
                       /\ pc[d] = "carve" =>
                            /\ op[d].page \in Page /\ Owns(d, SegmentOf(op[d].page))
                            /\ Blank(op[d].page) /\ page[op[d].page].bin = op[d].bin)'
    BY DEF WorkInv
  <1>1. CASE d = c
    <2>1. \A b \in Bin : Class(c, b)' = Class(c, b)
      BY HeapKept
    <2> QED
      BY <1>1, <2>1
  <1>2. CASE d # c
    <2>1. pc'[d] = pc[d] /\ op'[d] = op[d]
      BY <1>2 DEF OthersKept
    <2>2. \A b \in Bin : Class(d, b)' = Class(d, b)
      BY HeapKept
    <2>3. pc[d] = "collect" => op[d].page \in Class(d, op[d].bin) \cup {0}
      BY DEF WorkInv
    <2>4. pc[d] = "carve" =>
            /\ op[d].page \in Page /\ Owns(d, SegmentOf(op[d].page))
            /\ Blank(op[d].page) /\ page[op[d].page].bin = op[d].bin
      BY DEF WorkInv
    <2>5. pc[d] = "carve" =>
            /\ Owns(d, SegmentOf(op[d].page))' /\ Blank(op[d].page)'
      BY <2>1, <2>4, HeapKept, SegmentOfIs
    <2> QED
      BY <2>1, <2>2, <2>3, <2>4, <2>5
  <1> QED
    BY <1>1, <1>2

LEMMA MallocSlowStep ==
  ASSUME HeapInv, NEW c \in Client, NEW bin \in Bin, MallocSlow(c, bin)
  PROVE  HeapInv'
  <1> USE DEF HeapInv
  <1>0. /\ status[c] = "run" /\ pc[c] = "idle" /\ Calm /\ CalmInv
        /\ mallocs' = [mallocs EXCEPT ![c] = @ + 1]
        /\ pc' = [pc EXCEPT ![c] = "collect"]
        /\ UNCHANGED <<owner, info, segment, page, queue, word, held, status, mon>>
    BY RunningCalm DEF MallocSlow, Called, At, Goto, FirstPage, shared, heap
  <1>1. PICK f \in Page \cup {0} : f = queue[c][bin].first
    BY DEF TypeOK, QueueType
  <1>2. PICK o \in OpType : /\ op' = [op EXCEPT ![c] = o] /\ o.bin = bin /\ o.page = f /\ o.seg = 1
                            /\ o.block = <<>>
    <2>1. [NoOp EXCEPT !.bin = bin, !.page = f, !.seg = 1] \in OpType
      <3>1. 1 \in 0 .. NSegment + 1
        BY SizeAssumption
      <3> QED
        BY <3>1, NoOpType DEF OpType
    <2> QED
      BY <1>1, <2>1, NoOpType DEF NoOp, MallocSlow, FirstPage
  <1>3. TypeOK'
    <2>1. op' \in [Client -> OpType]
      BY <1>2 DEF TypeOK
    <2>2. pc' \in [Client -> {"idle", "collect", "carve", "segment", "release", "push"}]
      BY <1>0 DEF TypeOK
    <2>3. mallocs' \in [Client -> Nat]
      BY <1>0 DEF TypeOK
    <2> QED
      BY <1>0, <2>1, <2>2, <2>3 DEF TypeOK
  <1>4. op'[c] = o /\ pc'[c] = "collect" /\ OthersKept(c)
    BY <1>0, <1>2 DEF TypeOK, OthersKept
  <1>5. ASSUME NEW d \in Client PROVE ClientInv(d)'
    <2>1. CASE d = c
      <3>1. o.block = <<>> /\ o.seg = 1 /\ o.bin \in Bin
        BY <1>2
      <3> QED
        BY <1>0, <1>4, <2>1, <3>1 DEF ClientInv
    <2>2. CASE d # c
      BY <1>0, <1>4, <2>2, ClientKept DEF OthersKept
    <2> QED
      BY <2>1, <2>2
  <1>6. SegmentInv' /\ ListInv' /\ SameStates /\ Pending' = Pending
    BY <1>0, ListsKept DEF CalmInv
  <1>7. HeaderInv'
    BY <1>0 DEF HeaderInv, Holds
  <1>8. Steady
    BY <1>0, <1>4 DEF Steady, OthersKept
  <1>9. PagesInv' /\ LinkInv' /\ CountInv'
    BY <1>0, <1>6, <1>8, CalmKept DEF CalmInv
  <1>10. WorkInv'
    <2>1. f \in Class(c, bin) \cup {0}
      BY <1>0, <1>1 DEF CalmInv, LinkInv, Linked, Ends
    <2> QED
      BY <1>0, <1>2, <1>4, <1>6, <2>1, WorkKept DEF CalmInv, ClientInv
  <1>11. SizeInv'
    BY <1>0 DEF SizeInv, CalmInv
  <1>12. BlockInv'
    <2>1. Pushed' = Pushed
      <3>1. op[c].block = <<>>
        BY <1>0 DEF ClientInv
      <3>2. \A d \in Client : op'[d].block = op[d].block
        BY <1>2, <1>4, <3>1 DEF OthersKept
      <3> QED
        BY <3>2 DEF Pushed
    <2> QED
      BY <1>0, <1>6, <2>1, HeapKept DEF CalmInv, BlockInv, Held
  <1> QED
    BY <1>0, <1>3, <1>5, <1>6, <1>7, <1>9, <1>10, <1>11, <1>12, CalmStep DEF CalmInv

(* A step of client c that leaves pages, queues and lists alone. *)
LEMMA QuietStep ==
  ASSUME HeapInv, CalmInv, NEW c \in Client, OthersKept(c), Steady, Calm, status'[c] # "vacant",
         UNCHANGED <<info, segment, page, queue, mon>>,
         \A d \in Client \ {c} : /\ status[d] = "vacant" => held'[d] = held[d]
                                 /\ \A k \in Segment : owner'[k] = d <=> owner[k] = d,
         pc'[c] = "collect" => op'[c].page \in Class(c, op'[c].bin) \cup {0} /\ op'[c].bin \in Bin,
         pc'[c] # "carve",
         TypeOK', ClientInv(c)', SegmentInv', HeaderInv', SizeInv',
         Partition(Free, LocallyFree, Pending, Held', Pushed', Blocks)
  PROVE  HeapInv'
  <1> USE DEF HeapInv
  <1>1. SameStates /\ ListInv' /\ Pending' = Pending
    BY ListsKept DEF CalmInv
  <1>2. ASSUME NEW d \in Client PROVE ClientInv(d)'
    <2>1. CASE d # c
      BY <1>1, <2>1, ClientKept DEF OthersKept, SameStates
    <2> QED
      BY <2>1
  <1>3. PagesInv' /\ LinkInv' /\ CountInv'
    BY <1>1, CalmKept DEF CalmInv
  <1>4. WorkInv'
    BY <1>1, WorkKept DEF CalmInv, ClientInv
  <1>5. BlockInv'
    BY <1>1, HeapKept DEF BlockInv
  <1> QED
    BY <1>1, <1>2, <1>3, <1>4, <1>5, CalmStep DEF CalmInv

LEMMA FailStep ==
  ASSUME HeapInv, NEW c \in Client, status[c] = "run", Fail(c)
  PROVE  HeapInv'
  <1> USE DEF HeapInv
  <1>0. /\ Calm /\ CalmInv /\ status' = [status EXCEPT ![c] = "dead"] /\ pc' = [pc EXCEPT ![c] = "idle"]
        /\ UNCHANGED <<owner, info, segment, page, queue, word, held, mon, mallocs>>
    BY RunningCalm DEF Fail, Goto, shared, heap
  <1>1. PICK x \in Word \cup {<<>>} : x = op[c].block
    BY DEF TypeOK, OpType
  <1>2. PICK o \in OpType : op' = [op EXCEPT ![c] = o] /\ o.block = x
    <2>1. [NoOp EXCEPT !.block = x] \in OpType
      BY NoOpType DEF OpType
    <2> QED
      BY <1>1, <2>1, NoOpType DEF NoOp, Fail
  <1>3. TypeOK'
    <2>1. op' \in [Client -> OpType]
      BY <1>2 DEF TypeOK
    <2>2. pc' \in [Client -> {"idle", "collect", "carve", "segment", "release", "push"}]
      BY <1>0 DEF TypeOK
    <2>3. status' \in [Client -> {"vacant", "run", "dead"}]
      BY <1>0 DEF TypeOK
    <2> QED
      BY <1>0, <2>1, <2>2, <2>3 DEF TypeOK
  <1>4. op'[c] = o /\ pc'[c] = "idle" /\ status'[c] = "dead" /\ OthersKept(c)
    BY <1>0, <1>2 DEF TypeOK, OthersKept
  <1>5. ClientInv(c)'
    BY <1>4 DEF ClientInv
  <1>6. SegmentInv'
    BY <1>0, ListsKept
  <1>7. HeaderInv'
    BY <1>0 DEF HeaderInv, Holds
  <1>8. Steady
    BY <1>0, <1>4 DEF Steady, OthersKept
  <1>9. SizeInv'
    BY <1>0 DEF SizeInv, CalmInv
  <1>10. Pushed' = Pushed /\ Held' = Held
    <2>1. \A d \in Client : op'[d].block = op[d].block
      BY <1>1, <1>2, <1>4 DEF OthersKept
    <2> QED
      BY <1>0, <2>1 DEF Pushed, Held
  <1> QED
    BY <1>0, <1>3, <1>4, <1>5, <1>6, <1>7, <1>8, <1>9, <1>10, QuietStep DEF CalmInv, BlockInv

LEMMA WriteDataStep ==
  ASSUME HeapInv, NEW c \in Client, NEW e \in held[c], WriteData(c, e)
  PROVE  HeapInv'
  <1> USE DEF HeapInv
  <1>0. /\ Calm /\ CalmInv /\ status[c] = "run" /\ pc[c] = "idle"
        /\ UNCHANGED <<owner, info, segment, page, queue, held, status, pc, op, mon, mallocs>>
    BY RunningCalm DEF WriteData, At, shared, heap
  <1>1. \A x \in Word : word'[x] \in {word[x], "junk"}
    BY DEF WriteData
  <1>2. word' \in [Word -> {"clear", "live", "junk"}]
    BY DEF TypeOK, WriteData
  <1>3. TypeOK'
    BY <1>0, <1>2 DEF TypeOK
  <1>4. OthersKept(c)
    BY <1>0 DEF OthersKept
  <1>5. ClientInv(c)'
    BY <1>0 DEF ClientInv
  <1>6. SegmentInv'
    BY <1>0, ListsKept
  <1>7. HeaderInv'
    BY <1>0, <1>1 DEF HeaderInv, Holds
  <1>8. Steady
    BY <1>0 DEF Steady
  <1>9. SizeInv'
    BY <1>0 DEF SizeInv, CalmInv
  <1>10. Pushed' = Pushed /\ Held' = Held
    BY <1>0 DEF Pushed, Held
  <1> QED
    BY <1>0, <1>3, <1>4, <1>5, <1>6, <1>7, <1>8, <1>9, <1>10, QuietStep DEF CalmInv, BlockInv

LEMMA WordIs ==
  ASSUME NEW x \in Word
  PROVE  x[1] \in Page /\ x[2] \in Offset /\ x = <<x[1], x[2]>> /\ x # <<>> /\ SegmentOf(x[1]) \in Segment
  <1>1. x[1] \in Page /\ x[2] \in Offset /\ x = <<x[1], x[2]>> /\ x # <<>>
    <2>1. PICK p \in Page, w \in Offset : x = <<p, w>>
      BY DEF Word, Offset
    <2>2. Len(<<p, w>>) = 2 /\ Len(<<>>) = 0
      OBVIOUS
    <2> QED
      BY <2>1, <2>2
  <1> QED
    BY <1>1, SegmentOfIs

LEMMA ExtentIs ==
  ASSUME NEW e \in Extent
  PROVE  /\ e[1] \in Page /\ e[2] \in Offset /\ e = <<e[1], e[2], e[3]>>
         /\ <<e[1], e[2]>> \in Word /\ SegmentOf(e[1]) \in Segment
  <1>1. e[1] \in Page /\ e[2] \in Offset /\ e = <<e[1], e[2], e[3]>> /\ <<e[1], e[2]>> \in Word
    BY DEF Extent, Offset, Word
  <1> QED
    BY <1>1, SegmentOfIs

(* A block that is held is one of a page in use. *)
LEMMA HeldIsBlock ==
  ASSUME TypeOK, BlockInv, NEW c \in Client, NEW e \in held[c]
  PROVE  /\ e \in Extent /\ <<e[1], e[2]>> \in Held[c] /\ <<e[1], e[2]>> \in Blocks
         /\ Active(SegmentOf(e[1])) /\ Carved(e[1]) /\ e[2] \in Starts(page[e[1]].bin)
  <1>1. e \in Extent /\ <<e[1], e[2]>> \in Held[c]
    BY DEF TypeOK, Held
  <1>2. <<e[1], e[2]>> \in Blocks
    BY <1>1 DEF BlockInv, Partition
  <1> QED
    BY <1>1, <1>2 DEF Blocks

LEMMA HeldWithout ==
  ASSUME TypeOK, SizeInv, NEW c \in Client, NEW e \in held[c], held' = [held EXCEPT ![c] = @ \ {e}]
  PROVE  Held' = [Held EXCEPT ![c] = @ \ {<<e[1], e[2]>>}]
  <1>1. \A f \in held[c] : <<f[1], f[2]>> = <<e[1], e[2]>> => f = e
    <2> SUFFICES ASSUME NEW f \in held[c], f[1] = e[1], f[2] = e[2] PROVE f = e
      OBVIOUS
    <2>1. f[3] = e[3]
      BY DEF SizeInv
    <2>2. f \in Extent /\ e \in Extent
      BY DEF TypeOK
    <2> QED
      BY <2>1, <2>2, ExtentIs
  <1>2. Held'[c] = Held[c] \ {<<e[1], e[2]>>}
    BY <1>1 DEF Held, TypeOK
  <1>3. \A d \in Client \ {c} : Held'[d] = Held[d]
    BY DEF Held, TypeOK
  <1> QED
    BY <1>2, <1>3 DEF Held

LEMMA HeldTypes ==
  ASSUME TypeOK
  PROVE  Held \in [Client -> SUBSET Word] /\ Pushed \in [Client -> SUBSET Word]
  <1>1. \A c \in Client : \A e \in held[c] : <<e[1], e[2]>> \in Word
    BY ExtentIs DEF TypeOK
  <1>2. \A c \in Client : op[c].block \in Word \cup {<<>>}
    BY DEF TypeOK, OpType
  <1>3. Held \in [Client -> SUBSET Word]
    BY <1>1 DEF Held
  <1> QED
    BY <1>2, <1>3 DEF Pushed

LEMMA HeaderCleared ==
  ASSUME TypeOK, HeaderInv, NEW c \in Client, NEW e \in held[c], held' = [held EXCEPT ![c] = @ \ {e}],
         word' = ClearHeader(word, e[1], e[2])
  PROVE  HeaderInv' /\ word' \in [Word -> {"clear", "live", "junk"}] /\ held' \in [Client -> SUBSET Extent]
  <1>1. e \in Extent
    BY DEF TypeOK
  <1>2. PICK x \in Word : x = <<e[1], e[2]>>
    BY <1>1, ExtentIs
  <1>3. word' = [word EXCEPT ![x] = "clear"]
    BY <1>2 DEF ClearHeader
  <1>4. ASSUME NEW y \in Word, word'[y] = "live"
        PROVE  \E d \in Client : \E f \in held'[d] : f[1] = y[1] /\ f[2] = y[2]
    <2>1. y # x /\ word[y] = "live"
      BY <1>3, <1>4 DEF TypeOK
    <2>20. PICK d \in Client : Holds(d, y[1], y[2])
      BY <2>1 DEF HeaderInv
    <2>2. PICK f \in held[d] : f[1] = y[1] /\ f[2] = y[2]
      BY <2>20 DEF Holds
    <2>3. f # e
      BY <2>1, <2>2, <1>2, WordIs
    <2>4. f \in held'[d]
      BY <2>2, <2>3 DEF TypeOK
    <2> QED
      BY <2>2, <2>4
  <1>5. word' \in [Word -> {"clear", "live", "junk"}]
    BY <1>3 DEF TypeOK
  <1>6. held' \in [Client -> SUBSET Extent]
    BY DEF TypeOK
  <1> QED
    BY <1>4, <1>5, <1>6 DEF HeaderInv, Holds

LEMMA SeenTyped ==
  ASSUME TypeOK, NEW k \in Segment
  PROVE  Seen(k) \in SeenType
  <1>1. PICK i : i = info[k] /\ i.state \in {"NORMAL", "ABANDON"} /\ i.list \in Seq(Word)
    BY DEF TypeOK
  <1>2. First(i.list) \in SUBSET Word
    <2>1. CASE i.list = <<>>
      BY <2>1 DEF First
    <2>2. CASE i.list # <<>>
      BY <1>1, <2>2, HeadTailProperties DEF First
    <2> QED
      BY <2>1, <2>2
  <1> QED
    BY <1>1, <1>2 DEF Seen, SeenType

LEMMA FreeRemoteStep ==
  ASSUME HeapInv, NEW c \in Client, NEW e \in held[c], FreeRemote(c, e)
  PROVE  HeapInv'
  <1> USE DEF HeapInv
  <1>0. /\ Calm /\ CalmInv /\ status[c] = "run" /\ pc[c] = "idle"
        /\ pc' = [pc EXCEPT ![c] = "push"] /\ held' = [held EXCEPT ![c] = @ \ {e}]
        /\ word' = ClearHeader(word, e[1], e[2])
        /\ UNCHANGED <<owner, info, segment, page, queue, status, mon, mallocs>>
    BY RunningCalm DEF FreeRemote, At, Goto, shared, heap
  <1>1. /\ e \in Extent /\ <<e[1], e[2]>> \in Held[c]
    BY <1>0, HeldIsBlock DEF CalmInv
  <1>2. PICK x \in Word : x = <<e[1], e[2]>> /\ x \in Held[c] /\ x[1] = e[1] /\ SegmentOf(x[1]) \in Segment
    BY <1>1, ExtentIs
  <1>3. PICK o \in OpType : op' = [op EXCEPT ![c] = o] /\ o.block = x /\ o.seg = SegmentOf(x[1])
    <2>1. PICK k \in Segment, s \in SeenType : k = SegmentOf(e[1]) /\ s = Seen(k)
      BY <1>2, SeenTyped
    <2>2. k \in 0 .. NSegment + 1
      BY SizeAssumption DEF Segment
    <2>3. [NoOp EXCEPT !.seg = k, !.block = x, !.seen = s] \in OpType
      BY <2>2, NoOpType DEF OpType
    <2> QED
      BY <1>2, <2>1, <2>3, NoOpType DEF NoOp, FreeRemote
  <1>4. HeaderInv' /\ word' \in [Word -> {"clear", "live", "junk"}] /\ held' \in [Client -> SUBSET Extent]
    BY <1>0, HeaderCleared
  <1>5. TypeOK'
    <2>1. op' \in [Client -> OpType]
      BY <1>3 DEF TypeOK
    <2>2. pc' \in [Client -> {"idle", "collect", "carve", "segment", "release", "push"}]
      BY <1>0 DEF TypeOK
    <2> QED
      BY <1>0, <1>4, <2>1, <2>2 DEF TypeOK
  <1>6. op'[c] = o /\ pc'[c] = "push" /\ OthersKept(c)
    BY <1>0, <1>3 DEF TypeOK, OthersKept
  <1>7. ClientInv(c)'
    <2>1. x # <<>>
      BY WordIs
    <2> QED
      BY <1>0, <1>3, <1>6, <2>1 DEF ClientInv
  <1>8. SegmentInv'
    BY <1>0, ListsKept
  <1>9. Steady
    BY <1>0, <1>6 DEF Steady, OthersKept
  <1>10. SizeInv'
    BY <1>0 DEF SizeInv, CalmInv, TypeOK
  <1>11. Held' = [Held EXCEPT ![c] = @ \ {x}]
    BY <1>0, <1>2, HeldWithout DEF CalmInv
  <1>12. Pushed[c] = {} /\ Pushed' = [Pushed EXCEPT ![c] = {x}]
    <2>1. op[c].block = <<>> /\ x # <<>>
      BY <1>0, WordIs DEF ClientInv
    <2>2. Pushed'[c] = {x} /\ \A d \in Client \ {c} : Pushed'[d] = Pushed[d]
      BY <1>3, <1>6, <2>1 DEF Pushed, OthersKept
    <2> QED
      BY <2>1, <2>2 DEF Pushed
  <1>13. Partition(Free, LocallyFree, Pending, Held', Pushed', Blocks)
    BY <1>0, <1>2, <1>11, <1>12, HeldTypes, BlockHanded DEF CalmInv, BlockInv
  <1>14. \A d \in Client \ {c} : held'[d] = held[d]
    BY <1>0 DEF TypeOK
  <1> QED
    BY <1>0, <1>4, <1>5, <1>6, <1>7, <1>8, <1>9, <1>10, <1>13, <1>14, QuietStep

LEMMA PassOnStep ==
  ASSUME HeapInv, NEW c \in Client, NEW d \in Client, NEW e \in held[c], PassOn(c, d, e)
  PROVE  HeapInv'
  <1> USE DEF HeapInv
  <1>0. /\ Calm /\ CalmInv /\ status[c] = "run" /\ pc[c] = "idle" /\ status[d] = "run" /\ c # d
        /\ held' = [held EXCEPT ![c] = @ \ {e}, ![d] = @ \cup {e}]
        /\ UNCHANGED <<owner, info, segment, page, queue, word, status, pc, op, mon, mallocs>>
    BY RunningCalm DEF PassOn, At, shared, heap
  <1>1. /\ e \in Extent /\ <<e[1], e[2]>> \in Held[c]
    BY <1>0, HeldIsBlock DEF CalmInv
  <1>2. PICK x \in Word : x = <<e[1], e[2]>> /\ x \in Held[c]
    BY <1>1, ExtentIs
  <1>3. /\ held' \in [Client -> SUBSET Extent]
        /\ held'[c] = held[c] \ {e} /\ held'[d] = held[d] \cup {e}
        /\ \A b \in Client \ {c, d} : held'[b] = held[b]
    BY <1>0, <1>1 DEF TypeOK
  <1>4. TypeOK'
    BY <1>0, <1>3 DEF TypeOK
  <1>5. OthersKept(c)
    BY <1>0 DEF OthersKept
  <1>6. ClientInv(c)'
    BY <1>0 DEF ClientInv
  <1>7. SegmentInv'
    BY <1>0, ListsKept
  <1>8. HeaderInv'
    <2> SUFFICES ASSUME NEW y \in Word, word'[y] = "live"
                 PROVE  \E b \in Client : \E f \in held'[b] : f[1] = y[1] /\ f[2] = y[2]
      BY DEF HeaderInv, Holds
    <2>1. PICK b \in Client : \E f \in held[b] : f[1] = y[1] /\ f[2] = y[2]
      BY <1>0 DEF HeaderInv, Holds
    <2>2. PICK f \in held[b] : f[1] = y[1] /\ f[2] = y[2]
      BY <2>1
    <2>3. f \in held'[b] \/ f \in held'[d]
      BY <1>3
    <2> QED
      BY <2>2, <2>3
  <1>9. Steady
    BY <1>0 DEF Steady
  <1>10. SizeInv'
    BY <1>0, <1>3 DEF SizeInv, CalmInv
  <1>11. Held' = [Held EXCEPT ![c] = @ \ {x}, ![d] = @ \cup {x}]
    <2>1. \A f \in held[c] : <<f[1], f[2]>> = x => f = e
      <3> SUFFICES ASSUME NEW f \in held[c], f[1] = e[1], f[2] = e[2] PROVE f = e
        BY <1>2
      <3>1. f[3] = e[3]
        BY <1>0 DEF SizeInv, CalmInv
      <3>2. f \in Extent
        BY DEF TypeOK
      <3> QED
        BY <3>1, <3>2, <1>1, ExtentIs
    <2>2. Held'[c] = Held[c] \ {x}
      BY <1>2, <1>3, <2>1 DEF Held
    <2>3. Held'[d] = Held[d] \cup {x}
      BY <1>2, <1>3 DEF Held
    <2>4. \A b \in Client \ {c, d} : Held'[b] = Held[b]
      BY <1>3 DEF Held
    <2> QED
      BY <1>0, <2>2, <2>3, <2>4 DEF Held
  <1>12. Partition(Free, LocallyFree, Pending, Held', Pushed', Blocks)
    <2>1. Pushed' = Pushed
      BY <1>0 DEF Pushed
    <2> QED
      BY <1>0, <1>2, <1>11, <2>1, HeldTypes, BlockPassed DEF CalmInv, BlockInv
  <1>13. \A b \in Client \ {c} : status[b] = "vacant" => held'[b] = held[b]
    BY <1>0, <1>3
  <1> QED
    BY <1>0, <1>4, <1>5, <1>6, <1>7, <1>8, <1>9, <1>10, <1>12, <1>13, QuietStep

LEMMA ReleaseSegmentStep ==
  ASSUME HeapInv, NEW c \in Client, ReleaseSegment(c)
  PROVE  HeapInv'
  <1> USE DEF HeapInv
  <1>0. /\ Calm /\ CalmInv /\ status[c] = "run" /\ pc[c] = "release"
        /\ owner[op[c].seg] = c /\ owner' = [owner EXCEPT ![op[c].seg] = 0]
        /\ pc' = [pc EXCEPT ![c] = "idle"] /\ op' = [op EXCEPT ![c] = NoOp]
        /\ UNCHANGED <<info, segment, page, queue, word, held, status, mon, mallocs>>
    BY RunningCalm DEF ReleaseSegment, At, Goto, shared, heap
  <1>1. PICK k \in Segment : k = op[c].seg /\ segment[k].tid = 0 /\ owner[k] = c
    BY <1>0 DEF ClientInv
  <1>2. owner' \in [Segment -> 0 .. NClient] /\ owner'[k] = 0 /\ \A j \in Segment \ {k} : owner'[j] = owner[j]
    <2>1. 0 \in 0 .. NClient
      BY SizeAssumption
    <2> QED
      BY <1>0, <1>1, <2>1 DEF TypeOK
  <1>3. TypeOK'
    <2>1. op' \in [Client -> OpType]
      BY <1>0, NoOpType DEF TypeOK
    <2>2. pc' \in [Client -> {"idle", "collect", "carve", "segment", "release", "push"}]
      BY <1>0 DEF TypeOK
    <2> QED
      BY <1>0, <1>2, <2>1, <2>2 DEF TypeOK
  <1>4. op'[c] = NoOp /\ pc'[c] = "idle" /\ OthersKept(c)
    BY <1>0 DEF TypeOK, OthersKept
  <1>5. ClientInv(c)'
    BY <1>0, <1>4 DEF ClientInv, NoOp
  <1>6. SegmentInv'
    <2>1. \A j \in Segment : segment[j].tid # 0 => owner'[j] = owner[j]
      BY <1>1, <1>2
    <2> QED
      BY <1>0, <2>1 DEF SegmentInv
  <1>7. HeaderInv'
    BY <1>0 DEF HeaderInv, Holds
  <1>8. Steady
    BY <1>0, <1>4 DEF Steady, OthersKept
  <1>9. SizeInv'
    BY <1>0 DEF SizeInv, CalmInv
  <1>10. Pushed' = Pushed /\ Held' = Held
    <2>1. op[c].block = <<>>
      BY <1>0 DEF ClientInv
    <2>2. \A d \in Client : op'[d].block = op[d].block
      BY <1>4, <2>1 DEF OthersKept, NoOp
    <2> QED
      BY <1>0, <2>2 DEF Pushed, Held
  <1>11. \A d \in Client \ {c} : \A j \in Segment : owner'[j] = d <=> owner[j] = d
    <2>1. 0 \notin Client
      BY DEF Client
    <2> QED
      BY <1>1, <1>2, <2>1
  <1> QED
    BY <1>0, <1>3, <1>4, <1>5, <1>6, <1>7, <1>8, <1>9, <1>10, <1>11, QuietStep DEF CalmInv, BlockInv

LEMMA ClaimSegmentStep ==
  ASSUME HeapInv, NEW c \in Client, ClaimSegment(c)
  PROVE  HeapInv'
  <1> USE DEF HeapInv
  <1>0. /\ Calm /\ CalmInv /\ status[c] = "run" /\ pc[c] = "collect" /\ op[c].page = 0
        /\ queue[c][NONE].first = 0
        /\ UNCHANGED <<info, segment, page, queue, word, held, status, mon, mallocs>>
    BY RunningCalm DEF ClaimSegment, NoneFound, FreePages, At, Goto, heap
  <1>1. PICK k \in Segment :
          /\ k = op[c].seg
          /\ \/ owner[k] = 0 /\ owner' = [owner EXCEPT ![k] = c] /\ pc' = [pc EXCEPT ![c] = "segment"] /\ op' = op
             \/ op' = [op EXCEPT ![c].seg = k + 1] /\ owner' = owner /\ pc' = pc
    BY DEF ClaimSegment, Goto
  <1>2. /\ op' \in [Client -> OpType] /\ op'[c].page = 0 /\ op'[c].bin = op[c].bin
        /\ op'[c].block = op[c].block /\ (op'[c] = op[c] \/ op'[c].seg = k + 1)
        /\ \A d \in Client \ {c} : op'[d] = op[d]
    <2>1. CASE op' = op
      BY <1>0, <2>1 DEF TypeOK
    <2>2. CASE op' = [op EXCEPT ![c].seg = k + 1]
      <3>1. k + 1 \in 0 .. NSegment + 1
        BY SizeAssumption DEF Segment
      <3>2. PICK o \in OpType : o = op[c]
        BY DEF TypeOK
      <3>3. PICK z : z = [o EXCEPT !.seg = k + 1]
        OBVIOUS
      <3>4. z \in OpType /\ z.page = o.page /\ z.bin = o.bin /\ z.block = o.block /\ z.seg = k + 1
        BY <3>1, <3>3 DEF OpType
      <3>5. op' = [op EXCEPT ![c] = z]
        BY <2>2, <3>2, <3>3
      <3> QED
        BY <1>0, <3>2, <3>4, <3>5 DEF TypeOK
    <2> QED
      BY <1>1, <2>1, <2>2
  <1>3. owner' \in [Segment -> 0 .. NClient] /\ \A j \in Segment : owner'[j] = owner[j] \/ (owner[j] = 0 /\ owner'[j] = c)
    <2>1. c \in 0 .. NClient
      BY DEF Client
    <2>2. owner \in [Segment -> 0 .. NClient]
      BY DEF TypeOK
    <2>3. CASE owner' = owner
      BY <2>2, <2>3
    <2>4. CASE owner[k] = 0 /\ owner' = [owner EXCEPT ![k] = c]
      <3>1. owner' \in [Segment -> 0 .. NClient]
        BY <2>1, <2>2, <2>4
      <3>2. \A j \in Segment : owner'[j] = owner[j] \/ (owner[j] = 0 /\ owner'[j] = c)
        BY <2>2, <2>4
      <3> QED
        BY <3>1, <3>2
    <2> QED
      BY <1>1, <2>3, <2>4
  <1>4. TypeOK'
    <2>1. pc' \in [Client -> {"idle", "collect", "carve", "segment", "release", "push"}]
      BY <1>1 DEF TypeOK
    <2> QED
      BY <1>0, <1>2, <1>3, <2>1 DEF TypeOK
  <1>5. OthersKept(c)
    <2>1. \A d \in Client \ {c} : pc'[d] = pc[d]
      BY <1>1 DEF TypeOK
    <2> QED
      BY <1>0, <1>2, <2>1 DEF OthersKept
  <1>6. \/ pc'[c] = "segment" /\ op' = op /\ owner[k] = 0 /\ owner'[k] = c
        \/ pc'[c] = "collect" /\ op'[c].seg = k + 1
    <2>1. CASE owner[k] = 0 /\ owner' = [owner EXCEPT ![k] = c] /\ pc' = [pc EXCEPT ![c] = "segment"] /\ op' = op
      BY <2>1 DEF TypeOK
    <2>2. CASE op' = [op EXCEPT ![c].seg = k + 1] /\ owner' = owner /\ pc' = pc
      BY <1>0, <2>2 DEF TypeOK, OpType
    <2> QED
      BY <1>1, <2>1, <2>2
  <1>7. \A j \in Segment : owner[j] = 0 => segment[j].tid = 0
    BY DEF SegmentInv
  <1>8. ClientInv(c)'
    <2>1. k + 1 # 0 /\ op[c].block = <<>> /\ op[c].bin \in Bin
      BY <1>0 DEF ClientInv, Segment
    <2> QED
      BY <1>0, <1>1, <1>2, <1>6, <1>7, <2>1 DEF ClientInv
  <1>9. SegmentInv'
    BY <1>0, <1>3, <1>7 DEF SegmentInv
  <1>10. HeaderInv'
    BY <1>0 DEF HeaderInv, Holds
  <1>11. Steady
    <2>1. Class(c, NONE) = {}
      BY <1>0, LinkedNone DEF CalmInv, LinkInv
    <2>2. ASSUME NEW j \in Segment, Active(j), Owns(c, j), InUse(j) = {}
          PROVE  FALSE
      <3>1. PICK p \in PagesOf(j) : p \in Page
        BY PageOfSegment
      <3>2. SegmentOf(p) = j /\ page[p].bin = NONE
        BY <2>2, <3>1 DEF PagesOf, InUse
      <3>3. p \in Class(c, NONE)
        BY <2>2, <3>1, <3>2 DEF Class
      <3> QED
        BY <2>1, <3>3
    <2> QED
      BY <1>0, <1>5, <2>2 DEF Steady, OthersKept
  <1>12. SizeInv'
    BY <1>0 DEF SizeInv, CalmInv
  <1>13. Pushed' = Pushed /\ Held' = Held
    <2>1. \A d \in Client : op'[d].block = op[d].block
      BY <1>2
    <2> QED
      BY <1>0, <2>1 DEF Pushed, Held
  <1>14. \A d \in Client \ {c} : \A j \in Segment : owner'[j] = d <=> owner[j] = d
    <2>1. 0 \notin Client
      BY DEF Client
    <2> QED
      BY <1>3, <2>1
  <1>15. pc'[c] # "carve" /\ op'[c].page \in Class(c, op'[c].bin) \cup {0} /\ op'[c].bin \in Bin
    BY <1>0, <1>2, <1>6 DEF ClientInv
  <1> QED
    BY <1>0, <1>4, <1>5, <1>8, <1>9, <1>10, <1>11, <1>12, <1>13, <1>14, <1>15, QuietStep DEF CalmInv, BlockInv

LEMMA ThreadInitStep ==
  ASSUME Quiescent, HeapInv, NEW c \in Client, ThreadInit(c)
  PROVE  HeapInv'
  <1> USE DEF HeapInv
  <1>0. /\ Calm /\ CalmInv /\ status[c] = "vacant" /\ pc[c] = "idle"
        /\ status' = [status EXCEPT ![c] = "run"] /\ queue' = [queue EXCEPT ![c] = NoQueues]
        /\ UNCHANGED <<owner, info, segment, page, word, held, pc, op, mon, mallocs>>
    <2>1. status[c] = "vacant" /\ mon = Idle
      BY DEF ThreadInit
    <2>2. pc[c] = "idle"
      BY <2>1 DEF ClientInv
    <2> QED
      BY <2>1, <2>2 DEF ThreadInit, Calm, shared
  <1>1. /\ status'[c] = "run" /\ queue'[c] = NoQueues
        /\ \A d \in Client \ {c} : status'[d] = status[d] /\ queue'[d] = queue[d]
    BY <1>0 DEF TypeOK
  <1>2. TypeOK'
    <2>1. NoQueues \in [Bin \cup {NONE} -> QueueType]
      BY DEF NoQueues, QueueType
    <2>2. queue' \in [Client -> [Bin \cup {NONE} -> QueueType]]
      BY <1>0, <2>1 DEF TypeOK
    <2>3. status' \in [Client -> {"vacant", "run", "dead"}]
      BY <1>0 DEF TypeOK
    <2> QED
      BY <1>0, <2>2, <2>3 DEF TypeOK
  <1>3. op[c].block = <<>> /\ \A k \in Segment : ~ Owns(c, k)
    <2>1. \A k \in Segment : owner[k] = c => info[k].state = "ABANDON"
      BY <1>0 DEF ClientInv
    <2>2. 0 \notin Client
      BY DEF Client
    <2>3. \A k \in Segment : segment[k].tid = c => owner[k] = c
      BY <2>2 DEF SegmentInv
    <2> QED
      BY <1>0, <2>1, <2>3 DEF ClientInv, Owns
  <1>4. ASSUME NEW d \in Client PROVE ClientInv(d)'
    <2>1. CASE d = c
      BY <1>0, <1>1, <1>3, <2>1 DEF ClientInv
    <2>2. CASE d # c
      BY <1>0, <1>1, <2>2, ClientKept
    <2> QED
      BY <2>1, <2>2
  <1>5. SegmentInv' /\ ListInv' /\ SameStates /\ Pending' = Pending
    BY <1>0, ListsKept DEF CalmInv
  <1>6. HeaderInv'
    BY <1>0 DEF HeaderInv, Holds
  <1>7. PagesInv'
    <2>1. ASSUME NEW p \in Page, Active(SegmentOf(p)), NEW d \in Client, status'[d] = "run",
                 Owns(d, SegmentOf(p))
          PROVE  status[d] = "run"
      BY <1>1, <1>3, <2>1, SegmentOfIs
    <2>2. \A p \in Page : Active(SegmentOf(p)) =>
            \/ Blank(p) /\ page[p].bin = NONE
            \/ Carved(p)
            \/ /\ Blank(p) /\ page[p].bin # NONE
               /\ \A d \in Client : status'[d] = "run" /\ Owns(d, SegmentOf(p)) =>
                    pc[d] = "carve" /\ op[d].page = p
      BY <1>0, <2>1 DEF PagesInv, CalmInv
    <2>3. \A p \in Page : (Active(SegmentOf(p))' <=> Active(SegmentOf(p)))
                          /\ \A d \in Client : Owns(d, SegmentOf(p))' <=> Owns(d, SegmentOf(p))
      BY <1>0, <1>5, HeapKept, SegmentOfIs
    <2>4. \A p \in Page : (Blank(p)' <=> Blank(p)) /\ (Carved(p)' <=> Carved(p))
      BY <1>0, <1>5, HeapKept
    <2> QED
      BY <1>0, <2>2, <2>3, <2>4 DEF PagesInv
  <1>8. LinkInv'
    <2> SUFFICES ASSUME NEW d \in Client, status'[d] # "vacant", NEW b \in Bin \cup {NONE}
                 PROVE  Linked(page', queue'[d][b], Class(d, b)')
      BY DEF LinkInv
    <2>1. Class(d, b)' = Class(d, b)
      BY <1>0, <1>5, HeapKept
    <2>2. CASE d = c
      <3>1. Class(c, b) = {}
        BY <1>3, SegmentOfIs DEF Class
      <3>2. queue'[c][b].first = 0 /\ queue'[c][b].last = 0
        BY <1>1 DEF NoQueues
      <3> QED
        BY <2>1, <2>2, <3>1, <3>2, LinkedEmpty
    <2>3. CASE d # c
      BY <1>0, <1>1, <2>1, <2>3 DEF LinkInv, CalmInv
    <2> QED
      BY <2>2, <2>3
  <1>9. CountInv'
    <2>1. \A k \in Segment : Active(k) =>
            /\ segment[k].used = Cardinality(InUse(k))
            /\ \A d \in Client : status'[d] = "run" /\ Owns(d, k) /\ InUse(k) = {} =>
                 pc[d] = "collect" /\ op[d].page = 0 /\ Class(d, NONE) \subseteq PagesOf(k)
      BY <1>0, <1>1, <1>3 DEF CountInv, CalmInv
    <2>2. \A k \in Segment : (Active(k)' <=> Active(k)) /\ InUse(k)' = InUse(k)
                             /\ \A d \in Client : (Owns(d, k)' <=> Owns(d, k)) /\ Class(d, NONE)' = Class(d, NONE)
      BY <1>0, <1>5, HeapKept
    <2> QED
      BY <1>0, <2>1, <2>2 DEF CountInv
  <1>10. WorkInv'
    <2> SUFFICES ASSUME NEW d \in Client
                 PROVE  (/\ pc[d] = "collect" => op[d].page \in Class(d, op[d].bin) \cup {0}
                         /\ pc[d] = "carve" =>
                              /\ op[d].page \in Page /\ Owns(d, SegmentOf(op[d].page))
                              /\ Blank(op[d].page) /\ page[op[d].page].bin = op[d].bin)'
      BY DEF WorkInv
    <2>1. /\ pc[d] = "collect" => op[d].page \in Class(d, op[d].bin) \cup {0} /\ op[d].bin \in Bin
          /\ pc[d] = "carve" =>
               /\ op[d].page \in Page /\ Owns(d, SegmentOf(op[d].page))
               /\ Blank(op[d].page) /\ page[op[d].page].bin = op[d].bin
      BY <1>0 DEF WorkInv, CalmInv, ClientInv
    <2>2. \A b \in Bin : Class(d, b)' = Class(d, b)
      BY <1>0, <1>5, HeapKept
    <2>3. \A p \in Page : (Owns(d, SegmentOf(p))' <=> Owns(d, SegmentOf(p))) /\ (Blank(p)' <=> Blank(p))
      BY <1>0, <1>5, HeapKept, SegmentOfIs
    <2> QED
      BY <1>0, <2>1, <2>2, <2>3
  <1>11. SizeInv'
    BY <1>0 DEF SizeInv, CalmInv
  <1>12. BlockInv'
    BY <1>0, <1>5, HeapKept DEF CalmInv, BlockInv, Held, Pushed
  <1> QED
    BY <1>0, <1>1, <1>2, <1>4, <1>5, <1>6, <1>7, <1>8, <1>9, <1>10, <1>11, <1>12, CalmStep DEF CalmInv

(* A function with one value changed. *)
Updated(S, T, f, x, y, g) == g \in [S -> T] /\ g[x] = y /\ \A z \in S \ {x} : g[z] = f[z]

LEMMA UpdatedIs ==
  ASSUME NEW S, NEW T, NEW f \in [S -> T], NEW x \in S, NEW y \in T, NEW g, g = [f EXCEPT ![x] = y]
  PROVE  Updated(S, T, f, x, y, g)
  BY DEF Updated

(* A block x is put at the front of the list of its segment. *)
LEMMA ListExtended ==
  ASSUME TypeOK, ListInv, NEW x \in Word, x \notin Pending, Active(SegmentOf(x[1])),
         info' = [info EXCEPT ![SegmentOf(x[1])].list = <<x>> \o @],
         page' = page, segment' = segment
  PROVE  /\ info' \in [Segment -> [state : {"NORMAL", "ABANDON"}, list : Seq(Word)]]
         /\ SameStates /\ ListInv' /\ Pending' = Pending \cup {x}
  <1>1. PICK k \in Segment : k = SegmentOf(x[1])
    BY WordIs
  <1>2. PICK i : i = info[k] /\ i \in [state : {"NORMAL", "ABANDON"}, list : Seq(Word)]
    BY DEF TypeOK
  <1>3. PICK l \in Seq(Word) : l = i.list
    BY <1>2
  <1>4. PICK m \in Seq(Word) : m = <<x>> \o l /\ Range(m) = {x} \cup Range(l)
                               /\ (IsInjective(m) <=> IsInjective(l) /\ x \notin Range(l))
    <2>1. PICK r : r = <<x>> \o l
      OBVIOUS
    <2>2. Prepended(Word, x, l, r)
      BY <2>1, Prepend
    <2> QED
      BY <2>1, <2>2 DEF Prepended
  <1>5. PICK j : j = [i EXCEPT !.list = m]
    OBVIOUS
  <1>6. j \in [state : {"NORMAL", "ABANDON"}, list : Seq(Word)] /\ j.state = i.state /\ j.list = m
    BY <1>2, <1>5
  <1>7. info' = [info EXCEPT ![k] = j]
    BY <1>1, <1>2, <1>3, <1>4, <1>5
  <1>8. /\ info' \in [Segment -> [state : {"NORMAL", "ABANDON"}, list : Seq(Word)]]
        /\ info'[k] = j /\ \A h \in Segment \ {k} : info'[h] = info[h]
    <2>1. PICK T : T = [state : {"NORMAL", "ABANDON"}, list : Seq(Word)]
      OBVIOUS
    <2>2. info \in [Segment -> T] /\ j \in T
      BY <1>6, <2>1 DEF TypeOK
    <2>3. Updated(Segment, T, info, k, j, info')
      BY ONLY <1>7, <2>2, UpdatedIs
    <2> QED
      BY <2>1, <2>3 DEF Updated
  <1>9. SameStates
    <2>1. info'[k].state = info[k].state
      BY <1>2, <1>6, <1>8
    <2>2. \A h \in Segment \ {k} : info'[h].state = info[h].state
      BY <1>8
    <2> QED
      BY <2>1, <2>2 DEF SameStates
  <1>10. IsInjective(l) /\ \A y \in Range(l) : SegmentOf(y[1]) = k
    BY <1>1, <1>2, <1>3 DEF ListInv
  <1>11. x \notin Range(l)
    BY <1>1, <1>2, <1>3 DEF Pending
  <1>12. ListInv'
    <2>1. \A h \in Segment : Active(h)' => Active(h)
      BY <1>9, HeapKept
    <2>2. \A p \in Page : Active(SegmentOf(p))' => IsInjective(page'[p].free) /\ IsInjective(page'[p].local)
      BY <2>1, SegmentOfIs DEF ListInv
    <2>3. \A h \in Segment \ {k} : Active(h)' =>
            IsInjective(info'[h].list) /\ \A y \in Range(info'[h].list) : SegmentOf(y[1]) = h
      BY <1>8, <2>1 DEF ListInv
    <2>4. IsInjective(info'[k].list) /\ \A y \in Range(info'[k].list) : SegmentOf(y[1]) = k
      BY <1>1, <1>4, <1>6, <1>8, <1>10, <1>11
    <2> QED
      BY <2>2, <2>3, <2>4 DEF ListInv
  <1>13. Pending' = Pending \cup {x}
    <2>1. \A h \in Segment : Active(h)' <=> Active(h)
      BY <1>9, HeapKept
    <2>2. Range(info'[k].list) = {x} \cup Range(info[k].list)
      BY <1>2, <1>3, <1>4, <1>6, <1>8
    <2>3. \A y \in Word : SegmentOf(y[1]) \in Segment
      BY WordIs
    <2>4. \A y \in Word : y \in Range(info'[SegmentOf(y[1])].list) <=>
                            y \in Range(info[SegmentOf(y[1])].list) \/ y = x
      BY <1>1, <1>8, <2>2, <2>3
    <2> QED
      BY <1>1, <2>1, <2>3, <2>4 DEF Pending
  <1> QED
    BY <1>8, <1>9, <1>12, <1>13

LEMMA PushRemoteStep ==
  ASSUME HeapInv, NEW c \in Client, PushRemote(c)
  PROVE  HeapInv'
  <1> USE DEF HeapInv
  <1>0. /\ Calm /\ CalmInv /\ status[c] = "run" /\ pc[c] = "push"
        /\ UNCHANGED <<owner, segment, page, queue, word, held, status, mon, mallocs>>
    BY RunningCalm DEF PushRemote, At, heap
  <1>1. PICK x \in Word : x = op[c].block /\ op[c].seg = SegmentOf(x[1]) /\ x # <<>>
    <2>1. op[c].block # <<>> /\ op[c].seg = SegmentOf(op[c].block[1])
      BY <1>0 DEF ClientInv
    <2>2. op[c].block \in Word \cup {<<>>}
      BY DEF TypeOK, OpType
    <2> QED
      BY <2>1, <2>2
  <1>2. PICK k \in Segment : k = SegmentOf(x[1])
    BY WordIs
  <1>3. CASE info' = [info EXCEPT ![k].list = <<x>> \o @] /\ pc' = [pc EXCEPT ![c] = "idle"]
             /\ op' = [op EXCEPT ![c] = NoOp]
    <2>1. Pushed[c] = {x}
      BY <1>1 DEF Pushed
    <2>2. x \notin Pending /\ x \in Blocks
      BY <1>0, <2>1 DEF CalmInv, BlockInv, Partition
    <2>3. Active(k)
      BY <1>2, <2>2 DEF Blocks
    <2>4. /\ info' \in [Segment -> [state : {"NORMAL", "ABANDON"}, list : Seq(Word)]]
          /\ SameStates /\ ListInv' /\ Pending' = Pending \cup {x}
      BY <1>0, <1>2, <1>3, <2>2, <2>3, ListExtended DEF CalmInv
    <2>5. TypeOK'
      <3>1. op' \in [Client -> OpType]
        BY <1>3, NoOpType DEF TypeOK
      <3>2. pc' \in [Client -> {"idle", "collect", "carve", "segment", "release", "push"}]
        BY <1>3 DEF TypeOK
      <3> QED
        BY <1>0, <2>4, <3>1, <3>2 DEF TypeOK
    <2>6. op'[c] = NoOp /\ pc'[c] = "idle" /\ OthersKept(c)
      BY <1>0, <1>3 DEF TypeOK, OthersKept
    <2>7. ASSUME NEW d \in Client PROVE ClientInv(d)'
      <3>1. CASE d = c
        BY <1>0, <2>6, <3>1 DEF ClientInv, NoOp
      <3>2. CASE d # c
        BY <1>0, <2>4, <2>6, <3>2, ClientKept DEF OthersKept, SameStates
      <3> QED
        BY <3>1, <3>2
    <2>8. SegmentInv'
      BY <1>0, <2>4 DEF SegmentInv, SameStates
    <2>9. HeaderInv'
      BY <1>0 DEF HeaderInv, Holds
    <2>10. Steady
      BY <1>0, <2>6 DEF Steady, OthersKept
    <2>11. PagesInv' /\ LinkInv' /\ CountInv'
      BY <1>0, <2>4, <2>10, CalmKept DEF CalmInv
    <2>12. WorkInv'
      BY <1>0, <2>4, <2>6, WorkKept DEF CalmInv, ClientInv
    <2>13. SizeInv'
      BY <1>0 DEF SizeInv, CalmInv
    <2>14. BlockInv'
      <3>1. Pushed' = [Pushed EXCEPT ![c] = {}]
        <4>1. Pushed'[c] = {} /\ \A d \in Client \ {c} : Pushed'[d] = Pushed[d]
          BY <2>6 DEF Pushed, OthersKept, NoOp
        <4> QED
          BY <4>1 DEF Pushed
      <3>2. Held' = Held
        BY <1>0 DEF Held
      <3>3. Partition(Free, LocallyFree, Pending \cup {x}, Held, Pushed', Blocks)
        BY <1>0, <2>1, <3>1, HeldTypes, BlockPushed DEF CalmInv, BlockInv
      <3> QED
        BY <1>0, <2>4, <3>2, <3>3, HeapKept DEF BlockInv
    <2> QED
      BY <1>0, <2>4, <2>5, <2>7, <2>8, <2>9, <2>11, <2>12, <2>13, <2>14, CalmStep DEF CalmInv
  <1>4. CASE op' = [op EXCEPT ![c].seen = Seen(k)] /\ info' = info /\ pc' = pc
    <2>1. PICK o \in OpType : /\ op' = [op EXCEPT ![c] = o] /\ o.bin = op[c].bin /\ o.page = op[c].page
                              /\ o.seg = op[c].seg /\ o.block = op[c].block
      <3>1. PICK s \in SeenType : s = Seen(k)
        BY SeenTyped
      <3>2. PICK z \in OpType : z = op[c]
        BY DEF TypeOK
      <3>3. [z EXCEPT !.seen = s] \in OpType
        BY DEF OpType
      <3> QED
        BY <1>4, <3>1, <3>2, <3>3 DEF OpType
    <2>2. TypeOK'
      <3>1. op' \in [Client -> OpType]
        BY <2>1 DEF TypeOK
      <3> QED
        BY <1>0, <1>4, <3>1 DEF TypeOK
    <2>3. op'[c] = o /\ OthersKept(c)
      BY <1>0, <1>4, <2>1 DEF TypeOK, OthersKept
    <2>4. ClientInv(c)'
      BY <1>0, <1>4, <2>1, <2>3 DEF ClientInv
    <2>5. SegmentInv'
      BY <1>0, <1>4, ListsKept
    <2>6. HeaderInv'
      BY <1>0 DEF HeaderInv, Holds
    <2>7. Steady
      BY <1>0, <2>3 DEF Steady, OthersKept
    <2>8. SizeInv'
      BY <1>0 DEF SizeInv, CalmInv
    <2>9. Pushed' = Pushed /\ Held' = Held
      <3>1. \A d \in Client : op'[d].block = op[d].block
        BY <2>1, <2>3 DEF OthersKept
      <3> QED
        BY <1>0, <3>1 DEF Pushed, Held
    <2> QED
      BY <1>0, <1>4, <2>2, <2>3, <2>4, <2>5, <2>6, <2>7, <2>8, <2>9, QuietStep DEF CalmInv, BlockInv
  <1> QED
    BY <1>1, <1>2, <1>3, <1>4 DEF PushRemote, Goto, Reload

LEMMA EndOfClientStep ==
  ASSUME HeapInv, NEW c \in Client, OutOfMemory(c) \/ Crash(c)
  PROVE  HeapInv'
  BY FailStep DEF OutOfMemory, Crash, NoneFound, At

(* A step that moves blocks between the lists of pages, and no page. *)
PagesSteady ==
  \A p \in Page :
    /\ page'[p].bin = page[p].bin /\ page'[p].next = page[p].next /\ page'[p].prev = page[p].prev
    /\ Active(SegmentOf(p)) => (Carved(p)' <=> Carved(p)) /\ (Blank(p)' <=> Blank(p))
    /\ segment[SegmentOf(p)].tid = 0 => page'[p] = page[p]

LEMMA PagesKept ==
  ASSUME PagesSteady, segment' = segment, SameStates
  PROVE  /\ \A k \in Segment : (Active(k)' <=> Active(k)) /\ InUse(k)' = InUse(k)
         /\ \A c \in Client, k \in Segment : (Owns(c, k)' <=> Owns(c, k)) /\ (Owns(c, k) => c # 0 /\ Active(k))
         /\ \A c \in Client, b \in Bin \cup {NONE} : Class(c, b)' = Class(c, b)
         /\ Blocks' = Blocks
  <1>1. \A k \in Segment : (Active(k)' <=> Active(k)) /\ InUse(k)' = InUse(k)
    BY DEF Active, InUse, SameStates, PagesSteady, PagesOf
  <1>2. \A c \in Client, k \in Segment : (Owns(c, k)' <=> Owns(c, k)) /\ (Owns(c, k) => c # 0 /\ Active(k))
    BY DEF Owns, SameStates, Active, Client
  <1>3. \A c \in Client, b \in Bin \cup {NONE} : Class(c, b)' = Class(c, b)
    <2> SUFFICES ASSUME NEW c \in Client, NEW b \in Bin \cup {NONE}, NEW p \in Page
                 PROVE  p \in Class(c, b)' <=> p \in Class(c, b)
      BY DEF Class
    <2>1. /\ Owns(c, SegmentOf(p))' <=> Owns(c, SegmentOf(p))
          /\ page'[p].bin = page[p].bin
          /\ Owns(c, SegmentOf(p)) => (Carved(p)' <=> Carved(p))
      BY <1>2, SegmentOfIs DEF PagesSteady
    <2> QED
      BY <2>1 DEF Class
  <1>4. Blocks' = Blocks
    <2> SUFFICES ASSUME NEW x \in Word
                 PROVE  x \in Blocks' <=> x \in Blocks
      BY DEF Blocks
    <2>1. /\ Active(SegmentOf(x[1]))' <=> Active(SegmentOf(x[1]))
          /\ page'[x[1]].bin = page[x[1]].bin
          /\ Active(SegmentOf(x[1])) => (Carved(x[1])' <=> Carved(x[1]))
      BY <1>1, WordIs DEF PagesSteady
    <2> QED
      BY <2>1 DEF Blocks
  <1> QED
    BY <1>1, <1>2, <1>3, <1>4

LEMMA BlocksStep ==
  ASSUME HeapInv, CalmInv, NEW c \in Client, OthersKept(c), Steady, Calm, status'[c] # "vacant",
         UNCHANGED <<owner, segment, queue, mon>>, SameStates, PagesSteady,
         \A d \in Client \ {c} : status[d] = "vacant" => held'[d] = held[d],
         pc'[c] = "collect" => op'[c].page \in Class(c, op'[c].bin) \cup {0} /\ op'[c].bin \in Bin,
         pc'[c] # "carve",
         TypeOK', ClientInv(c)', HeaderInv', ListInv', SizeInv', BlockInv'
  PROVE  HeapInv'
  <1> USE DEF HeapInv
  <1>1. ASSUME NEW d \in Client PROVE ClientInv(d)'
    <2>1. CASE d # c
      BY <2>1, ClientKept DEF OthersKept, SameStates
    <2> QED
      BY <2>1
  <1>2. SegmentInv'
    <2>1. \A k \in Segment : \A p \in PagesOf(k) : segment[k].tid = 0 => page'[p] = page[p]
      BY DEF PagesSteady, PagesOf
    <2> QED
      BY <2>1 DEF SegmentInv, SameStates
  <1>3. PagesInv'
    <2> SUFFICES ASSUME NEW p \in Page, Active(SegmentOf(p))'
                 PROVE  (\/ Blank(p) /\ page[p].bin = NONE
                         \/ Carved(p)
                         \/ /\ Blank(p) /\ page[p].bin # NONE
                            /\ \A d \in Client : status[d] = "run" /\ Owns(d, SegmentOf(p)) =>
                                 pc[d] = "carve" /\ op[d].page = p)'
      BY DEF PagesInv
    <2>1. Active(SegmentOf(p)) /\ (Carved(p)' <=> Carved(p)) /\ (Blank(p)' <=> Blank(p))
          /\ page'[p].bin = page[p].bin
      BY PagesKept, SegmentOfIs DEF PagesSteady
    <2>2. \/ Blank(p) /\ page[p].bin = NONE
          \/ Carved(p)
          \/ /\ Blank(p) /\ page[p].bin # NONE
             /\ \A d \in Client : status[d] = "run" /\ Owns(d, SegmentOf(p)) =>
                  pc[d] = "carve" /\ op[d].page = p
      BY <2>1 DEF PagesInv, CalmInv
    <2>3. \A d \in Client : status'[d] = "run" /\ Owns(d, SegmentOf(p))' =>
            status[d] = "run" /\ Owns(d, SegmentOf(p))
            /\ (pc[d] = "carve" => pc'[d] = "carve" /\ op'[d].page = op[d].page)
      BY PagesKept, SegmentOfIs DEF Steady
    <2> QED
      BY <2>1, <2>2, <2>3
  <1>4. LinkInv'
    <2> SUFFICES ASSUME NEW d \in Client, status'[d] # "vacant", NEW b \in Bin \cup {NONE}
                 PROVE  Linked(page', queue[d][b], Class(d, b)')
      BY DEF LinkInv
    <2>1. Linked(page, queue[d][b], Class(d, b))
      BY DEF LinkInv, CalmInv, Steady
    <2>2. Class(d, b)' = Class(d, b) /\ 0 \notin Class(d, b)
          /\ \A p \in Class(d, b) : page'[p].next = page[p].next /\ page'[p].prev = page[p].prev
      BY PagesKept, ZeroIsNoPage DEF Class, PagesSteady
    <2> QED
      BY <2>1, <2>2, LinkedSame
  <1>5. CountInv'
    <2> SUFFICES ASSUME NEW k \in Segment, Active(k)'
                 PROVE  (/\ segment[k].used = Cardinality(InUse(k))
                         /\ \A d \in Client : status[d] = "run" /\ Owns(d, k) /\ InUse(k) = {} =>
                              pc[d] = "collect" /\ op[d].page = 0 /\ Class(d, NONE) \subseteq PagesOf(k))'
      BY DEF CountInv
    <2>1. /\ Active(k) /\ segment[k].used = Cardinality(InUse(k))
          /\ \A d \in Client : status[d] = "run" /\ Owns(d, k) /\ InUse(k) = {} =>
               pc[d] = "collect" /\ op[d].page = 0 /\ Class(d, NONE) \subseteq PagesOf(k)
      BY PagesKept DEF CountInv, CalmInv
    <2>2. InUse(k)' = InUse(k)
      BY PagesKept
    <2>3. ASSUME NEW d \in Client, status'[d] = "run", Owns(d, k)', InUse(k)' = {}
          PROVE  pc'[d] = "collect" /\ op'[d].page = 0 /\ Class(d, NONE)' \subseteq PagesOf(k)
      <3>1. status[d] = "run" /\ Owns(d, k) /\ InUse(k) = {}
        BY <2>3, PagesKept DEF Steady
      <3>2. pc[d] = "collect" /\ op[d].page = 0 /\ Class(d, NONE) \subseteq PagesOf(k)
        BY <2>1, <3>1
      <3>3. Class(d, NONE)' = Class(d, NONE)
        BY PagesKept
      <3>4. pc'[d] = "collect" /\ op'[d].page = 0
        BY <2>1, <2>3, <3>1, <3>2 DEF Steady
      <3> QED
        BY <3>2, <3>3, <3>4
    <2> QED
      BY <2>1, <2>2, <2>3
  <1>6. WorkInv'
    <2> SUFFICES ASSUME NEW d \in Client
                 PROVE  (/\ pc[d] = "collect" => op[d].page \in Class(d, op[d].bin) \cup {0}
                         /\ pc[d] = "carve" =>
                              /\ op[d].page \in Page /\ Owns(d, SegmentOf(op[d].page))
                              /\ Blank(op[d].page) /\ page[op[d].page].bin = op[d].bin)'
      BY DEF WorkInv
    <2>1. \A b \in Bin : Class(d, b)' = Class(d, b)
      BY PagesKept
    <2>2. CASE d = c
      BY <2>1, <2>2
    <2>3. CASE d # c
      <3>1. pc'[d] = pc[d] /\ op'[d] = op[d]
        BY <2>3 DEF OthersKept
      <3>2. pc[d] = "collect" => op[d].page \in Class(d, op[d].bin) \cup {0} /\ op[d].bin \in Bin
        BY DEF WorkInv, CalmInv, ClientInv
      <3>3. pc[d] = "carve" =>
              /\ op[d].page \in Page /\ Owns(d, SegmentOf(op[d].page))
              /\ Blank(op[d].page) /\ page[op[d].page].bin = op[d].bin
        BY DEF WorkInv, CalmInv
      <3>4. \A p \in Page : Owns(d, SegmentOf(p)) =>
              Owns(d, SegmentOf(p))' /\ (Blank(p)' <=> Blank(p)) /\ page'[p].bin = page[p].bin
        BY PagesKept, SegmentOfIs DEF PagesSteady
      <3> QED
        BY <2>1, <3>1, <3>2, <3>3, <3>4
    <2> QED
      BY <2>2, <2>3
  <1> QED
    BY <1>1, <1>2, <1>3, <1>4, <1>5, <1>6, CalmStep DEF CalmInv

(* Page headers f among whose lists blocks have moved, with the blocks P   *)
(* pending; no page has come or gone.                                      *)
Moved(f) ==
  \A x \in Page :
    /\ f[x].bin = page[x].bin /\ f[x].next = page[x].next /\ f[x].prev = page[x].prev
    /\ f[x].used + Len(f[x].free) + Len(f[x].local)
         = page[x].used + Len(page[x].free) + Len(page[x].local)
    /\ f[x] = page[x] \/ (Active(SegmentOf(x)) /\ Carved(x))
FreeIn(f) == {x \in Word : Active(SegmentOf(x[1])) /\ x[2] \in Range(f[x[1]].free)}
LocalIn(f) == {x \in Word : Active(SegmentOf(x[1])) /\ x[2] \in Range(f[x[1]].local)}
Distinct(f) ==
  \A x \in Page : Active(SegmentOf(x)) => IsInjective(f[x].free) /\ IsInjective(f[x].local)
Arranged(f, P) ==
  /\ f \in [Page -> PageType] /\ Moved(f) /\ Distinct(f)
  /\ Partition(FreeIn(f), LocalIn(f), P, Held, Pushed, Blocks)

LEMMA CarvedIsFull ==
  ASSUME NEW p \in Page, Carved(p)
  PROVE  page[p].used + Len(page[p].free) + Len(page[p].local) >= 1
  BY BlocksFacts DEF Carved

LEMMA MovedSteady ==
  ASSUME TypeOK, TypeOK', Moved(page')
  PROVE  PagesSteady
  <1> SUFFICES ASSUME NEW p \in Page
               PROVE  /\ page'[p].bin = page[p].bin /\ page'[p].next = page[p].next /\ page'[p].prev = page[p].prev
                      /\ Active(SegmentOf(p)) => (Carved(p)' <=> Carved(p)) /\ (Blank(p)' <=> Blank(p))
                      /\ segment[SegmentOf(p)].tid = 0 => page'[p] = page[p]
    BY DEF PagesSteady
  <1>1. /\ page'[p].bin = page[p].bin /\ page'[p].next = page[p].next /\ page'[p].prev = page[p].prev
        /\ page'[p].used + Len(page'[p].free) + Len(page'[p].local)
             = page[p].used + Len(page[p].free) + Len(page[p].local)
        /\ page'[p] = page[p] \/ (Active(SegmentOf(p)) /\ Carved(p))
    BY DEF Moved
  <1>2. CASE page'[p] = page[p]
    BY <1>2 DEF Carved, Blank
  <1>3. CASE Active(SegmentOf(p)) /\ Carved(p)
    <2>1. Carved(p)'
      BY <1>1, <1>3 DEF Carved
    <2>2. ~ Blank(p) /\ ~ Blank(p)'
      BY <1>1, <1>3, CarvedIsFull DEF Blank
    <2> QED
      BY <1>1, <1>3, <2>1, <2>2 DEF Active
  <1> QED
    BY <1>1, <1>2, <1>3

LEMMA ArrangedNow ==
  ASSUME TypeOK, ListInv, BlockInv
  PROVE  Arranged(page, Pending)
  <1>1. page \in [Page -> PageType] /\ Moved(page)
    <2>1. Moved(page)
      BY DEF Moved
    <2> QED
      BY <2>1 DEF TypeOK
  <1>2. Distinct(page)
    BY DEF ListInv, Distinct
  <1>3. FreeIn(page) = Free /\ LocalIn(page) = LocallyFree
    BY DEF FreeIn, LocalIn, Free, LocallyFree
  <1> QED
    BY <1>1, <1>2, <1>3 DEF Arranged, BlockInv

LEMMA ArrangedDrained ==
  ASSUME TypeOK, ListInv, BlockInv, NEW k \in Segment, Active(k), NEW f, f = Drained(page, info[k].list)
  PROVE  Arranged(f, Pending \ Range(info[k].list))
  <1>1. PICK j \in Seq(Word) : j = info[k].list /\ IsInjective(j) /\ \A x \in Range(j) : SegmentOf(x[1]) = k
    BY DEF TypeOK, ListInv
  <1>2. PICK Q : Q = Range(j)
    OBVIOUS
  <1>3. Q \subseteq Word
    BY <1>1, <1>2, RangeOfSeq
  <1>4. Q \subseteq Pending
    BY <1>1, <1>2, <1>3 DEF Pending
  <1>5. Q \cap LocallyFree = {} /\ Q \subseteq Blocks
    BY <1>4 DEF BlockInv, Partition
  <1>6. page \in [Page -> PageType]
    BY DEF TypeOK
  <1>7. f \in [Page -> PageType] /\ \A x \in Page : FreedTo(f[x], page[x], On(x, Q))
    BY <1>1, <1>2, <1>6, DrainedEffect
  <1>8. \A x \in Page : On(x, Q) # {} => Active(SegmentOf(x)) /\ Carved(x)
    <2> SUFFICES ASSUME NEW x \in Page, NEW w \in Offset, <<x, w>> \in Q
                 PROVE  Active(SegmentOf(x)) /\ Carved(x)
      BY DEF On
    <2>1. <<x, w>> \in Blocks
      BY <1>5
    <2> QED
      BY <2>1 DEF Blocks
  <1>9. \A x \in Page : f[x] \in PageType /\ page[x] \in PageType
    BY <1>6, <1>7
  <1>10. Moved(f)
    <2> SUFFICES ASSUME NEW x \in Page
                 PROVE  /\ f[x].bin = page[x].bin /\ f[x].next = page[x].next /\ f[x].prev = page[x].prev
                        /\ f[x].used + Len(f[x].free) + Len(f[x].local)
                             = page[x].used + Len(page[x].free) + Len(page[x].local)
                        /\ f[x] = page[x] \/ (Active(SegmentOf(x)) /\ Carved(x))
      BY DEF Moved
    <2>1. /\ f[x].free = page[x].free /\ f[x].bin = page[x].bin /\ f[x].next = page[x].next
          /\ f[x].prev = page[x].prev
          /\ f[x].used + Len(f[x].local) = page[x].used + Len(page[x].local)
          /\ On(x, Q) = {} => f[x] = page[x]
      BY <1>7 DEF FreedTo
    <2>2. PICK a \in Int, b \in Int, l \in Nat, m \in Nat, n \in Nat :
            /\ a = f[x].used /\ b = page[x].used /\ l = Len(page[x].free)
            /\ m = Len(f[x].local) /\ n = Len(page[x].local)
      BY <1>9, PageFields
    <2>3. a + m = b + n
      BY <2>1, <2>2
    <2>4. a + l + m = b + l + n
      BY <2>3
    <2>5. f[x].used + Len(f[x].free) + Len(f[x].local)
            = page[x].used + Len(page[x].free) + Len(page[x].local)
      BY <2>1, <2>2, <2>4
    <2> QED
      BY <1>8, <2>1, <2>5
  <1>11. Distinct(f)
    <2> SUFFICES ASSUME NEW x \in Page, Active(SegmentOf(x))
                 PROVE  IsInjective(f[x].free) /\ IsInjective(f[x].local)
      BY DEF Distinct
    <2>1. IsInjective(page[x].free) /\ IsInjective(page[x].local)
      BY DEF ListInv
    <2>2. On(x, Q) \cap Range(page[x].local) = {}
      <3> SUFFICES ASSUME NEW w \in Offset, <<x, w>> \in Q, w \in Range(page[x].local)
                   PROVE  FALSE
        BY DEF On
      <3>1. <<x, w>> \in Word /\ <<x, w>>[1] = x /\ <<x, w>>[2] = w
        BY <1>3
      <3>2. <<x, w>> \in LocallyFree
        BY <3>1 DEF LocallyFree
      <3> QED
        BY <1>5, <3>2
    <2>3. FreedTo(f[x], page[x], On(x, Q))
      BY <1>7
    <2> QED
      BY <2>1, <2>2, <2>3 DEF FreedTo
  <1>12. FreeIn(f) = Free
    <2>1. \A x \in Word : f[x[1]].free = page[x[1]].free
      BY <1>7, WordIs DEF FreedTo
    <2> QED
      BY <2>1 DEF FreeIn, Free
  <1>13. LocalIn(f) = LocallyFree \cup Q
    <2> SUFFICES ASSUME NEW x \in Word
                 PROVE  x \in LocalIn(f) <=> x \in LocallyFree \cup Q
      BY <1>3 DEF LocalIn, LocallyFree
    <2>1. x[1] \in Page /\ x[2] \in Offset /\ x = <<x[1], x[2]>>
      BY WordIs
    <2>2. Range(f[x[1]].local) = Range(page[x[1]].local) \cup On(x[1], Q)
      BY <1>7, <2>1 DEF FreedTo
    <2>3. x[2] \in On(x[1], Q) <=> x \in Q
      BY <2>1 DEF On
    <2>4. x \in Q => Active(SegmentOf(x[1]))
      BY <1>5 DEF Blocks
    <2> QED
      BY <2>2, <2>3, <2>4 DEF LocalIn, LocallyFree
  <1>14. Partition(Free, LocallyFree \cup Q, Pending \ Q, Held, Pushed, Blocks)
    BY <1>4, HeldTypes, BlocksCollected DEF BlockInv
  <1> QED
    BY <1>1, <1>2, <1>7, <1>10, <1>11, <1>12, <1>13, <1>14 DEF Arranged

LEMMA EmptyList ==
  /\ IsInjective(<<>>) /\ Range(<<>>) = {} /\ Len(<<>>) = 0
  BY DEF IsInjective, Range

LEMMA RefilledIs ==
  ASSUME NEW f \in [Page -> PageType], NEW p \in Page, f[p].free = <<>>, NEW g, g = Refilled(f, p)
  PROVE  /\ g \in [Page -> PageType] /\ \A x \in Page \ {p} : g[x] = f[x]
         /\ g[p].free = f[p].local /\ g[p].local = <<>> /\ g[p].used = f[p].used
         /\ g[p].bin = f[p].bin /\ g[p].next = f[p].next /\ g[p].prev = f[p].prev
  <1>1. PICK z \in PageType : z = f[p]
    OBVIOUS
  <1>2. PICK l \in Seq(Offset) : l = z.local
    BY PageFields
  <1>3. PICK y : y = [z EXCEPT !.free = l, !.local = <<>>]
    OBVIOUS
  <1>4. /\ y \in PageType /\ y.free = l /\ y.local = <<>> /\ y.used = z.used
        /\ y.bin = z.bin /\ y.next = z.next /\ y.prev = z.prev
    <2>1. <<>> \in Seq(Offset)
      OBVIOUS
    <2> QED
      BY <1>3, <2>1 DEF PageType
  <1>5. g = [f EXCEPT ![p] = y]
    BY <1>1, <1>2, <1>3 DEF Refilled
  <1> QED
    BY <1>1, <1>2, <1>4, <1>5

LEMMA ArrangedRefilled ==
  ASSUME TypeOK, NEW f, NEW P, Arranged(f, P), NEW p \in Page, Active(SegmentOf(p)), Carved(p),
         NEW g, g = Refilled(f, p)
  PROVE  Arranged(g, P)
  <1>0. f \in [Page -> PageType] /\ Moved(f) /\ Distinct(f)
        /\ Partition(FreeIn(f), LocalIn(f), P, Held, Pushed, Blocks)
    BY DEF Arranged
  <1>1. CASE f[p].free # <<>>
    BY <1>1 DEF Refilled
  <1>2. CASE f[p].free = <<>>
    <2>1. /\ g \in [Page -> PageType] /\ \A x \in Page \ {p} : g[x] = f[x]
          /\ g[p].free = f[p].local /\ g[p].local = <<>> /\ g[p].used = f[p].used
          /\ g[p].bin = f[p].bin /\ g[p].next = f[p].next /\ g[p].prev = f[p].prev
      BY <1>0, <1>2, RefilledIs
    <2>2. Moved(g)
      <3>1. \A x \in Page \ {p} :
              /\ g[x].bin = page[x].bin /\ g[x].next = page[x].next /\ g[x].prev = page[x].prev
              /\ g[x].used + Len(g[x].free) + Len(g[x].local)
                   = page[x].used + Len(page[x].free) + Len(page[x].local)
              /\ g[x] = page[x] \/ (Active(SegmentOf(x)) /\ Carved(x))
        BY <1>0, <2>1 DEF Moved
      <3>2. /\ g[p].bin = page[p].bin /\ g[p].next = page[p].next /\ g[p].prev = page[p].prev
            /\ f[p].used + Len(f[p].free) + Len(f[p].local)
                 = page[p].used + Len(page[p].free) + Len(page[p].local)
        BY <1>0, <2>1 DEF Moved
      <3>3. f[p].used \in Int /\ Len(f[p].local) \in Nat /\ Len(f[p].free) = 0 /\ Len(g[p].local) = 0
        BY <1>0, <1>2, <2>1, PageFields, EmptyList
      <3>4. g[p].used + Len(g[p].free) + Len(g[p].local) = f[p].used + Len(f[p].free) + Len(f[p].local)
        BY <2>1, <3>3
      <3> QED
        BY <3>1, <3>2, <3>4 DEF Moved
    <2>3. Distinct(g)
      <3>1. \A x \in Page \ {p} : Active(SegmentOf(x)) => IsInjective(g[x].free) /\ IsInjective(g[x].local)
        BY <1>0, <2>1 DEF Distinct
      <3>2. IsInjective(g[p].free) /\ IsInjective(g[p].local)
        BY <1>0, <2>1, EmptyList DEF Distinct
      <3> QED
        BY <3>1, <3>2 DEF Distinct
    <2>4. PICK Q : Q = {x \in LocalIn(f) : x[1] = p}
      OBVIOUS
    <2>5. FreeIn(g) = FreeIn(f) \cup Q
      <3> SUFFICES ASSUME NEW x \in Word
                   PROVE  x \in FreeIn(g) <=> x \in FreeIn(f) \/ x \in Q
        BY <2>4 DEF FreeIn, LocalIn
      <3>1. CASE x[1] = p
        <4>1. Range(f[p].free) = {}
          BY <1>2, EmptyList
        <4> QED
          BY <2>1, <2>4, <3>1, <4>1 DEF FreeIn, LocalIn
      <3>2. CASE x[1] # p
        <4>1. g[x[1]] = f[x[1]]
          BY <2>1, <3>2, WordIs
        <4> QED
          BY <2>4, <3>2, <4>1 DEF FreeIn, LocalIn
      <3> QED
        BY <3>1, <3>2
    <2>6. LocalIn(g) = LocalIn(f) \ Q
      <3> SUFFICES ASSUME NEW x \in Word
                   PROVE  x \in LocalIn(g) <=> x \in LocalIn(f) /\ x \notin Q
        BY <2>4 DEF LocalIn
      <3>1. CASE x[1] = p
        <4>1. Range(g[p].local) = {}
          BY <2>1, EmptyList
        <4> QED
          BY <2>4, <3>1, <4>1 DEF LocalIn
      <3>2. CASE x[1] # p
        <4>1. g[x[1]] = f[x[1]]
          BY <2>1, <3>2, WordIs
        <4> QED
          BY <2>4, <3>2, <4>1 DEF LocalIn
      <3> QED
        BY <3>1, <3>2
    <2>7. Partition(FreeIn(f) \cup Q, LocalIn(f) \ Q, P, Held, Pushed, Blocks)
      <3>1. Q \subseteq LocalIn(f)
        BY <2>4
      <3> QED
        BY <1>0, <3>1, HeldTypes, BlocksRefilled
    <2> QED
      BY <2>1, <2>2, <2>3, <2>5, <2>6, <2>7 DEF Arranged
  <1> QED
    BY <1>1, <1>2

Taken(f, p) == [f EXCEPT ![p].free = Tail(@), ![p].used = @ + 1]

(* g are the headers f after a block was taken from the free list of p. *)
TakenFrom(f, p, g) ==
  /\ g \in [Page -> PageType] /\ \A x \in Page \ {p} : g[x] = f[x]
  /\ g[p].local = f[p].local /\ g[p].used = f[p].used + 1 /\ Len(g[p].free) = Len(f[p].free) - 1
  /\ g[p].bin = f[p].bin /\ g[p].next = f[p].next /\ g[p].prev = f[p].prev
  /\ Head(f[p].free) \in Offset /\ Range(f[p].free) = {Head(f[p].free)} \cup Range(g[p].free)
  /\ IsInjective(f[p].free) =>
       IsInjective(g[p].free) /\ Head(f[p].free) \notin Range(g[p].free)

LEMMA TakenIs ==
  ASSUME NEW f \in [Page -> PageType], NEW p \in Page, f[p].free # <<>>,
         NEW g, g = Taken(f, p)
  PROVE  TakenFrom(f, p, g)
  <1>1. PICK z \in PageType : z = f[p]
    OBVIOUS
  <1>2. PICK l \in Seq(Offset), i \in Int : l = z.free /\ l # <<>> /\ i = z.used
    BY <1>1, PageFields
  <1>3. PICK t \in Seq(Offset) : t = Tail(l) /\ Len(t) = Len(l) - 1
    BY <1>2, HeadAndTail
  <1>4. /\ Head(l) \in Offset /\ Range(l) = {Head(l)} \cup Range(t)
        /\ IsInjective(l) => IsInjective(t) /\ Head(l) \notin Range(t)
    BY <1>2, <1>3, HeadAndTail
  <1>5. PICK y : y = [z EXCEPT !.free = t, !.used = i + 1]
    OBVIOUS
  <1>6. /\ y \in PageType /\ y.free = t /\ y.local = z.local /\ y.used = i + 1
        /\ y.bin = z.bin /\ y.next = z.next /\ y.prev = z.prev
    <2>1. i + 1 \in Int
      OBVIOUS
    <2> QED
      BY <1>5, <2>1 DEF PageType
  <1>7. g = [f EXCEPT ![p] = y]
    BY <1>1, <1>2, <1>3, <1>5 DEF Taken
  <1>8. g \in [Page -> PageType] /\ g[p] = y /\ \A x \in Page \ {p} : g[x] = f[x]
    <2>1. Updated(Page, PageType, f, p, y, g)
      BY ONLY <1>6, <1>7, f \in [Page -> PageType], p \in Page, UpdatedIs
    <2> QED
      BY <2>1 DEF Updated
  <1> QED
    BY <1>1, <1>2, <1>3, <1>4, <1>6, <1>8 DEF TakenFrom

LEMMA BlockIsExtent ==
  ASSUME NEW p \in Page, NEW w \in Offset, NEW b \in Bin
  PROVE  /\ <<p, w, Size[b]>> \in Extent /\ <<p, w>> \in Word
  <1>1. <<p, w, Size[b]>> \in Extent
    BY DEF Extent, Offset
  <1>2. <<p, w>> \in Word
    BY DEF Word, Offset
  <1> QED
    BY <1>1, <1>2

(* The block that is handed out is the caller's. *)
LEMMA HeldWith ==
  ASSUME TypeOK, SizeInv, NEW c \in Client, NEW p \in Page, NEW w \in Offset, NEW b \in Bin,
         page'[p].bin = b, \A x \in Page : x # p => page'[x].bin = page[x].bin, page[p].bin \in {b, NONE},
         \A d \in Client : \A e \in held[d] : e[1] = p => page[p].bin = b,
         held' = [held EXCEPT ![c] = @ \cup {<<p, w, Size[b]>>}]
  PROVE  /\ held' \in [Client -> SUBSET Extent] /\ Held' = [Held EXCEPT ![c] = @ \cup {<<p, w>>}]
         /\ SizeInv'
  <1>1. PICK e \in Extent : e = <<p, w, Size[b]>>
    BY ONLY BlockIsExtent, p \in Page, w \in Offset, b \in Bin
  <1>2. e[1] = p /\ e[2] = w /\ e[3] = Size[b]
    BY <1>1
  <1>3. /\ held' \in [Client -> SUBSET Extent] /\ held'[c] = held[c] \cup {e}
        /\ \A d \in Client \ {c} : held'[d] = held[d]
    BY <1>1 DEF TypeOK
  <1>4. Held' = [Held EXCEPT ![c] = @ \cup {<<p, w>>}]
    <2>1. Held'[c] = Held[c] \cup {<<p, w>>}
      BY <1>2, <1>3 DEF Held
    <2>2. \A d \in Client \ {c} : Held'[d] = Held[d]
      BY <1>3 DEF Held
    <2> QED
      BY <2>1, <2>2 DEF Held
  <1>5. SizeInv'
    <2>1. \A d \in Client : \A f \in held[d] : f[3] = Size[page'[f[1]].bin]
      <3> SUFFICES ASSUME NEW d \in Client, NEW f \in held[d]
                   PROVE  f[3] = Size[page'[f[1]].bin]
        OBVIOUS
      <3>1. f[1] \in Page /\ f[3] = Size[page[f[1]].bin]
        BY ExtentIs DEF TypeOK, SizeInv
      <3> QED
        BY <3>1
    <2> QED
      BY <1>2, <1>3, <2>1 DEF SizeInv
  <1> QED
    BY <1>3, <1>4, <1>5

LEMMA HeaderStamped ==
  ASSUME TypeOK, HeaderInv, NEW c \in Client, NEW p \in Page, NEW w \in Offset, NEW b \in Bin,
         held' = [held EXCEPT ![c] = @ \cup {<<p, w, Size[b]>>}],
         NEW m \in [Word -> {"clear", "live", "junk"}], \A x \in Word : m[x] = "live" => word[x] = "live",
         NEW n, word' = Stamped(m, p, w, n)
  PROVE  HeaderInv' /\ word' \in [Word -> {"clear", "live", "junk"}]
  <1>1. PICK e \in Extent : e = <<p, w, Size[b]>> /\ e[1] = p /\ e[2] = w
    BY ONLY BlockIsExtent, p \in Page, w \in Offset, b \in Bin
  <1>2. PICK x \in Word : x = <<p, w>> /\ x[1] = p /\ x[2] = w
    BY ONLY BlockIsExtent, p \in Page, w \in Offset, b \in Bin
  <1>3. word' \in [Word -> {"clear", "live", "junk"}] /\ \A y \in Word \ {x} : word'[y] = m[y]
    BY <1>2 DEF Stamped
  <1>4. held'[c] = held[c] \cup {e} /\ \A d \in Client \ {c} : held'[d] = held[d]
    BY <1>1 DEF TypeOK
  <1>5. ASSUME NEW y \in Word, word'[y] = "live"
        PROVE  \E d \in Client : \E f \in held'[d] : f[1] = y[1] /\ f[2] = y[2]
    <2>1. CASE y = x
      BY <1>1, <1>2, <1>4, <2>1
    <2>2. CASE y # x
      <3>1. word[y] = "live"
        BY <1>3, <1>5, <2>2
      <3>20. PICK d \in Client : Holds(d, y[1], y[2])
        BY <3>1 DEF HeaderInv
      <3>2. PICK f \in held[d] : f[1] = y[1] /\ f[2] = y[2]
        BY <3>20 DEF Holds
      <3>3. f \in held'[d]
        BY <1>4
      <3> QED
        BY <3>2, <3>3
    <2> QED
      BY <2>1, <2>2
  <1> QED
    BY <1>3, <1>5 DEF HeaderInv, Holds

(* A block is taken from the free list of a page p of those in f. *)
LEMMA TakeStep ==
  ASSUME HeapInv, CalmInv, NEW c \in Client, status[c] = "run", op[c].block = <<>>, pc[c] # "carve",
         pc[c] = "collect" => op[c].page # 0,
         NEW f, NEW P, Arranged(f, P), NEW p \in Page, Active(SegmentOf(p)), Carved(p),
         f[p].free # <<>>, TakeFrom(c, f, p),
         NEW n, word' = Stamped(word, p, Head(f[p].free), n),
         UNCHANGED <<owner, segment, queue, status, mon>>, mallocs' \in [Client -> Nat],
         info' \in [Segment -> [state : {"NORMAL", "ABANDON"}, list : Seq(Word)]],
         SameStates, Pending' = P,
         \A k \in Segment : Active(k) =>
           IsInjective(info'[k].list) /\ \A x \in Range(info'[k].list) : SegmentOf(x[1]) = k
  PROVE  HeapInv'
  <1> USE DEF HeapInv
  <1>1. /\ f \in [Page -> PageType] /\ Moved(f) /\ Distinct(f)
        /\ Partition(FreeIn(f), LocalIn(f), P, Held, Pushed, Blocks)
    BY DEF Arranged
  <1>2. PICK w \in Offset : w = Head(f[p].free)
    <2>1. TakenFrom(f, p, Taken(f, p))
      BY <1>1, TakenIs
    <2> QED
      BY <2>1 DEF TakenFrom
  <1>3. PICK b \in Bin : b = page[p].bin /\ b = f[p].bin
    BY <1>1 DEF Carved, Moved
  <1>4. /\ page' = [f EXCEPT ![p].free = Tail(@), ![p].used = @ + 1]
        /\ held' = [held EXCEPT ![c] = @ \cup {<<p, w, Size[b]>>}]
        /\ pc' = [pc EXCEPT ![c] = "idle"] /\ op' = [op EXCEPT ![c] = NoOp]
    BY <1>2, <1>3 DEF TakeFrom, Goto
  <1>5. /\ page' \in [Page -> PageType] /\ \A x \in Page \ {p} : page'[x] = f[x]
        /\ page'[p].local = f[p].local /\ page'[p].used = f[p].used + 1
        /\ Len(page'[p].free) = Len(f[p].free) - 1
        /\ page'[p].bin = f[p].bin /\ page'[p].next = f[p].next /\ page'[p].prev = f[p].prev
        /\ Range(f[p].free) = {w} \cup Range(page'[p].free)
        /\ IsInjective(f[p].free) => IsInjective(page'[p].free) /\ w \notin Range(page'[p].free)
    <2>1. PICK g : g = page' /\ g = Taken(f, p)
      BY <1>4 DEF Taken
    <2>2. f \in [Page -> PageType]
      BY <1>1
    <2>3. TakenFrom(f, p, g)
      BY ONLY <2>1, <2>2, f[p].free # <<>>, p \in Page, TakenIs
    <2> QED
      BY <1>2, <2>1, <2>3 DEF TakenFrom
  <1>6. Moved(page')
    <2>1. \A x \in Page \ {p} :
            /\ page'[x].bin = page[x].bin /\ page'[x].next = page[x].next /\ page'[x].prev = page[x].prev
            /\ page'[x].used + Len(page'[x].free) + Len(page'[x].local)
                 = page[x].used + Len(page[x].free) + Len(page[x].local)
            /\ page'[x] = page[x] \/ (Active(SegmentOf(x)) /\ Carved(x))
      BY <1>1, <1>5 DEF Moved
    <2>2. /\ f[p].bin = page[p].bin /\ f[p].next = page[p].next /\ f[p].prev = page[p].prev
          /\ f[p].used + Len(f[p].free) + Len(f[p].local)
               = page[p].used + Len(page[p].free) + Len(page[p].local)
      BY <1>1 DEF Moved
    <2>3. PICK i \in Int, m \in Nat, l \in Nat : i = f[p].used /\ m = Len(f[p].local) /\ l = Len(f[p].free)
      BY <1>1, PageFields
    <2>4. page'[p].used + Len(page'[p].free) + Len(page'[p].local)
            = f[p].used + Len(f[p].free) + Len(f[p].local)
      <3>1. page'[p].used = i + 1 /\ Len(page'[p].free) = l - 1 /\ Len(page'[p].local) = m
        BY <1>5, <2>3
      <3>2. (i + 1) + (l - 1) + m = i + l + m
        OBVIOUS
      <3> QED
        BY <2>3, <3>1, <3>2
    <2> QED
      BY <1>5, <2>1, <2>2, <2>4 DEF Moved
  <1>7. held' \in [Client -> SUBSET Extent] /\ Held' = [Held EXCEPT ![c] = @ \cup {<<p, w>>}] /\ SizeInv'
    <2>1. page'[p].bin = b /\ \A x \in Page : x # p => page'[x].bin = page[x].bin
      BY <1>3, <1>6 DEF Moved
    <2>2. SizeInv /\ TypeOK
      BY DEF CalmInv
    <2>3. page[p].bin \in {b, NONE} /\ \A d \in Client : \A e \in held[d] : e[1] = p => page[p].bin = b
      BY <1>3
    <2>4. held' = [held EXCEPT ![c] = @ \cup {<<p, w, Size[b]>>}]
      BY <1>4
    <2> HIDE DEF HeapInv
    <2> QED
      BY <2>1, <2>2, <2>3, <2>4, HeldWith
  <1>8. HeaderInv' /\ word' \in [Word -> {"clear", "live", "junk"}]
    <2>1. word \in [Word -> {"clear", "live", "junk"}]
      BY DEF TypeOK
    <2> QED
      BY <1>2, <1>4, <2>1, HeaderStamped
  <1>9. TypeOK'
    <2>1. op' \in [Client -> OpType]
      BY <1>4, NoOpType DEF TypeOK
    <2>2. pc' \in [Client -> {"idle", "collect", "carve", "segment", "release", "push"}]
      BY <1>4 DEF TypeOK
    <2> QED
      BY <1>5, <1>7, <1>8, <2>1, <2>2 DEF TypeOK
  <1>10. PagesSteady
    BY <1>6, <1>9, MovedSteady
  <1>11. op'[c] = NoOp /\ pc'[c] = "idle" /\ OthersKept(c)
    BY <1>4 DEF TypeOK, OthersKept
  <1>12. ClientInv(c)'
    BY <1>11 DEF ClientInv, NoOp
  <1>13. Steady
    BY <1>11 DEF Steady, OthersKept
  <1>14. ListInv'
    <2>1. \A k \in Segment : Active(k)' <=> Active(k)
      BY <1>10, PagesKept
    <2>2. \A x \in Page : Active(SegmentOf(x)) => IsInjective(page'[x].free) /\ IsInjective(page'[x].local)
      BY <1>1, <1>5 DEF Distinct
    <2> QED
      BY <2>1, <2>2, SegmentOfIs DEF ListInv
  <1>15. BlockInv'
    <2>1. PICK x \in Word : x = <<p, w>> /\ x[1] = p /\ x[2] = w
      BY ONLY BlockIsExtent, p \in Page, w \in Offset, b \in Bin
    <2>2. \A k \in Segment : Active(k)' <=> Active(k)
      BY <1>10, PagesKept
    <2>3. x \in FreeIn(f)
      BY <1>5, <2>1 DEF FreeIn
    <2>4. Free' = FreeIn(f) \ {x}
      <3> SUFFICES ASSUME NEW y \in Word
                   PROVE  y \in Free' <=> y \in FreeIn(f) /\ y # x
        BY DEF Free, FreeIn
      <3>1. y[1] \in Page /\ y = <<y[1], y[2]>> /\ SegmentOf(y[1]) \in Segment
        BY WordIs
      <3>2. CASE y[1] # p
        BY <1>5, <2>1, <2>2, <3>1, <3>2 DEF Free, FreeIn
      <3>3. CASE y[1] = p
        <4>1. w \notin Range(page'[p].free)
          BY <1>1, <1>5 DEF Distinct
        <4>2. y = x <=> y[2] = w
          BY <2>1, <3>1, <3>3
        <4> QED
          BY <1>5, <2>2, <3>1, <3>3, <4>1, <4>2 DEF Free, FreeIn
      <3> QED
        BY <3>2, <3>3
    <2>5. LocallyFree' = LocalIn(f)
      <3>1. \A y \in Page : page'[y].local = f[y].local
        BY <1>5
      <3> QED
        BY <2>2, <3>1, WordIs DEF LocallyFree, LocalIn
    <2>6. Pushed' = Pushed
      <3>1. \A d \in Client : op'[d].block = op[d].block
        BY <1>11 DEF OthersKept, NoOp
      <3> QED
        BY <3>1 DEF Pushed
    <2>7. Blocks' = Blocks
      BY <1>10, PagesKept
    <2>8. Partition(FreeIn(f) \ {x}, LocalIn(f), P, [Held EXCEPT ![c] = @ \cup {x}], Pushed, Blocks)
      BY <1>1, <2>3, HeldTypes, BlockTaken
    <2> QED
      BY <1>7, <2>1, <2>4, <2>5, <2>6, <2>7, <2>8 DEF BlockInv
  <1>16. Calm
    BY RunningCalm
  <1>17. \A d \in Client \ {c} : status[d] = "vacant" => held'[d] = held[d]
    BY <1>4 DEF TypeOK
  <1> QED
    BY <1>7, <1>8, <1>9, <1>10, <1>11, <1>12, <1>13, <1>14, <1>15, <1>16, <1>17, BlocksStep

LEMMA ClassIs ==
  ASSUME HeapInv, NEW c \in Client, NEW b \in Bin, NEW p \in Class(c, b)
  PROVE  p \in Page /\ p # 0 /\ Active(SegmentOf(p)) /\ Carved(p) /\ page[p].bin = b /\ b # NONE
         /\ Owns(c, SegmentOf(p)) /\ SegmentOf(p) \in Segment
  <1>1. p \in Page /\ Owns(c, SegmentOf(p)) /\ page[p].bin = b /\ (b = NONE \/ Carved(p))
    BY DEF Class
  <1>2. b # NONE /\ 0 \notin Client
    BY SizeAssumption DEF Client
  <1> QED
    BY <1>1, <1>2, ZeroIsNoPage, SegmentOfIs DEF Owns, Active

LEMMA MallocFastStep ==
  ASSUME HeapInv, NEW c \in Client, NEW bin \in Bin, MallocFast(c, bin)
  PROVE  HeapInv'
  <1> USE DEF HeapInv
  <1>0. /\ Calm /\ CalmInv /\ status[c] = "run" /\ pc[c] = "idle"
        /\ mallocs' = [mallocs EXCEPT ![c] = @ + 1]
        /\ UNCHANGED <<owner, info, segment, queue, status, mon>>
    BY RunningCalm DEF MallocFast, Called, At, shared
  <1>1. PICK p \in Page \cup {0} : p = queue[c][bin].first
    BY DEF TypeOK, QueueType
  <1>2. /\ p # 0 /\ page[p].free # <<>> /\ TakeFrom(c, page, p)
        /\ word' = Stamped(word, p, Head(page[p].free), bin)
    BY <1>1 DEF MallocFast, FirstPage, HasFree
  <1>3. p \in Class(c, bin)
    BY <1>0, <1>1, <1>2 DEF CalmInv, LinkInv, Linked, Ends
  <1>4. p \in Page /\ Active(SegmentOf(p)) /\ Carved(p)
    BY <1>3, ClassIs
  <1>5. Arranged(page, Pending)
    BY <1>0, ArrangedNow DEF CalmInv
  <1>6. op[c].block = <<>>
    BY <1>0 DEF ClientInv
  <1>7. SameStates /\ Pending' = Pending
    <2>1. SameStates
      BY <1>0 DEF SameStates
    <2> QED
      BY <1>0, <2>1 DEF Pending, Active
  <1>8. mallocs' \in [Client -> Nat] /\ info' \in [Segment -> [state : {"NORMAL", "ABANDON"}, list : Seq(Word)]]
    BY <1>0 DEF TypeOK
  <1>9. \A k \in Segment : Active(k) =>
           IsInjective(info'[k].list) /\ \A x \in Range(info'[k].list) : SegmentOf(x[1]) = k
    BY <1>0 DEF ListInv, CalmInv
  <1> QED
    BY <1>0, <1>2, <1>4, <1>5, <1>6, <1>7, <1>8, <1>9, TakeStep

LEMMA ListEmptied ==
  ASSUME TypeOK, ListInv, NEW k \in Segment, info' = [info EXCEPT ![k].list = <<>>], segment' = segment
  PROVE  /\ info' \in [Segment -> [state : {"NORMAL", "ABANDON"}, list : Seq(Word)]]
         /\ SameStates
         /\ Active(k) => Pending' = Pending \ Range(info[k].list)
         /\ \A h \in Segment : Active(h) =>
              IsInjective(info'[h].list) /\ \A x \in Range(info'[h].list) : SegmentOf(x[1]) = h
  <1>1. PICK i : i = info[k] /\ i \in [state : {"NORMAL", "ABANDON"}, list : Seq(Word)]
    BY DEF TypeOK
  <1>2. PICK j : j = [i EXCEPT !.list = <<>>]
    OBVIOUS
  <1>3. j \in [state : {"NORMAL", "ABANDON"}, list : Seq(Word)] /\ j.state = i.state /\ j.list = <<>>
    <2>1. <<>> \in Seq(Word)
      OBVIOUS
    <2> QED
      BY <1>1, <1>2, <2>1
  <1>4. info' = [info EXCEPT ![k] = j]
    BY <1>1, <1>2
  <1>5. /\ info' \in [Segment -> [state : {"NORMAL", "ABANDON"}, list : Seq(Word)]]
        /\ info'[k] = j /\ \A h \in Segment \ {k} : info'[h] = info[h]
    BY <1>3, <1>4 DEF TypeOK
  <1>6. SameStates
    BY <1>1, <1>3, <1>5 DEF SameStates
  <1>7. \A h \in Segment : Active(h) =>
              IsInjective(info'[h].list) /\ \A x \in Range(info'[h].list) : SegmentOf(x[1]) = h
    BY <1>3, <1>5, EmptyList DEF ListInv
  <1>8. ASSUME Active(k)
        PROVE  Pending' = Pending \ Range(info[k].list)
    <2> SUFFICES ASSUME NEW x \in Word
                 PROVE  x \in Pending' <=> x \in Pending /\ x \notin Range(info[k].list)
      BY DEF Pending
    <2>1. PICK h \in Segment : h = SegmentOf(x[1])
      BY WordIs
    <2>2. Active(h)' <=> Active(h)
      BY <1>6 DEF Active, SameStates
    <2>3. CASE h = k
      <3>1. Range(info'[k].list) = {}
        BY <1>3, <1>5, EmptyList
      <3> QED
        BY <2>1, <2>2, <2>3, <3>1 DEF Pending
    <2>4. CASE h # k
      <3>1. x \notin Range(info[k].list)
        BY <1>8, <2>1, <2>4 DEF ListInv
      <3> QED
        BY <1>5, <2>1, <2>2, <2>4, <3>1 DEF Pending
    <2> QED
      BY <2>3, <2>4
  <1> QED
    BY <1>5, <1>6, <1>7, <1>8

(* The lists of a page are put in order, and the client looks further. *)
LEMMA LookFurtherStep ==
  ASSUME HeapInv, CalmInv, NEW c \in Client, status[c] = "run", pc[c] = "collect", op[c].page # 0,
         NEW P, Arranged(page', P), NEW q \in Class(c, op[c].bin) \cup {0}, op' = [op EXCEPT ![c].page = q],
         UNCHANGED <<owner, segment, queue, status, mon, word, held, pc, mallocs>>,
         info' \in [Segment -> [state : {"NORMAL", "ABANDON"}, list : Seq(Word)]],
         SameStates, Pending' = P,
         \A k \in Segment : Active(k) =>
           IsInjective(info'[k].list) /\ \A x \in Range(info'[k].list) : SegmentOf(x[1]) = k
  PROVE  HeapInv'
  <1> USE DEF HeapInv
  <1>1. /\ page' \in [Page -> PageType] /\ Moved(page') /\ Distinct(page')
        /\ Partition(FreeIn(page'), LocalIn(page'), P, Held, Pushed, Blocks)
    BY DEF Arranged
  <1>2. q \in Page \cup {0}
    BY DEF Class
  <1>3. PICK z \in OpType : z = op[c]
    BY DEF TypeOK
  <1>4. PICK o : o = [z EXCEPT !.page = q]
    OBVIOUS
  <1>5. o \in OpType /\ o.page = q /\ o.bin = z.bin /\ o.seg = z.seg /\ o.block = z.block
    BY <1>2, <1>4 DEF OpType
  <1>6. /\ op' \in [Client -> OpType] /\ op'[c] = o /\ \A d \in Client \ {c} : op'[d] = op[d]
    <2>1. op' = [op EXCEPT ![c] = o]
      BY <1>3, <1>4
    <2>2. op \in [Client -> OpType]
      BY DEF TypeOK
    <2> QED
      BY ONLY <1>5, <2>1, <2>2, c \in Client
  <1>7. TypeOK'
    BY <1>1, <1>6 DEF TypeOK
  <1>8. PagesSteady
    BY <1>1, <1>7, MovedSteady
  <1>9. OthersKept(c)
    BY <1>6 DEF OthersKept
  <1>10. z.seg # 0 /\ z.bin \in Bin /\ z.block = <<>>
    BY <1>3 DEF ClientInv
  <1>11. ClientInv(c)'
    BY <1>5, <1>6, <1>10 DEF ClientInv
  <1>12. Steady
    BY <1>9 DEF Steady, OthersKept
  <1>13. HeaderInv'
    BY DEF HeaderInv, Holds
  <1>14. SizeInv'
    <2>1. \A d \in Client : \A e \in held[d] : page'[e[1]].bin = page[e[1]].bin
      BY <1>1, ExtentIs DEF TypeOK, Moved
    <2> QED
      BY <2>1 DEF SizeInv, CalmInv
  <1>15. ListInv'
    <2>1. \A k \in Segment : Active(k)' <=> Active(k)
      BY <1>8, PagesKept
    <2> QED
      BY <1>1, <2>1, SegmentOfIs DEF ListInv, Distinct
  <1>16. BlockInv'
    <2>1. \A k \in Segment : Active(k)' <=> Active(k)
      BY <1>8, PagesKept
    <2>2. Free' = FreeIn(page') /\ LocallyFree' = LocalIn(page')
      BY <2>1, WordIs DEF Free, FreeIn, LocallyFree, LocalIn
    <2>3. Blocks' = Blocks
      BY <1>8, PagesKept
    <2>4. Pushed' = Pushed /\ Held' = Held
      <3>1. \A d \in Client : op'[d].block = op[d].block
        BY <1>3, <1>5, <1>6
      <3> QED
        BY <3>1 DEF Pushed, Held
    <2> QED
      BY <1>1, <2>2, <2>3, <2>4 DEF BlockInv
  <1>17. Calm
    BY RunningCalm
  <1> QED
    BY <1>3, <1>5, <1>6, <1>7, <1>8, <1>9, <1>10, <1>11, <1>12, <1>13, <1>14, <1>15, <1>16, <1>17, BlocksStep

LEMMA CollectPageStep ==
  ASSUME HeapInv, NEW c \in Client, CollectPage(c)
  PROVE  HeapInv'
  <1> USE DEF HeapInv
  <1>0. /\ Calm /\ CalmInv /\ status[c] = "run" /\ pc[c] = "collect" /\ op[c].page # 0
        /\ UNCHANGED <<owner, segment, queue, status, mon, mallocs>>
    BY RunningCalm DEF CollectPage, At
  <1>1. op[c].block = <<>> /\ op[c].bin \in Bin
    BY <1>0 DEF ClientInv
  <1>2. PICK p \in Class(c, op[c].bin) : p = op[c].page
    BY <1>0 DEF CalmInv, WorkInv
  <1>3. PICK k \in Segment : k = SegmentOf(p) /\ Active(k) /\ Carved(p) /\ p \in Page
    BY <1>1, ClassIs
  <1>4. PICK f, P, g : /\ f = Drained(page, info[k].list) /\ P = Pending \ Range(info[k].list)
                       /\ g = Refilled(f, p)
    OBVIOUS
  <1>5. Arranged(f, P)
    BY <1>0, <1>3, <1>4, ArrangedDrained DEF CalmInv
  <1>6. Arranged(g, P)
    BY <1>3, <1>4, <1>5, ArrangedRefilled
  <1>7. info' = [info EXCEPT ![k].list = <<>>]
    BY <1>2, <1>3 DEF CollectPage
  <1>8. /\ info' \in [Segment -> [state : {"NORMAL", "ABANDON"}, list : Seq(Word)]]
        /\ SameStates /\ Pending' = P
        /\ \A h \in Segment : Active(h) =>
              IsInjective(info'[h].list) /\ \A x \in Range(info'[h].list) : SegmentOf(x[1]) = h
    BY <1>0, <1>3, <1>4, <1>7, ListEmptied DEF CalmInv
  <1>9. mallocs' \in [Client -> Nat]
    BY <1>0 DEF TypeOK
  <1>10. CASE g[p].free = <<>>
    <2>1. page' = g /\ op' = [op EXCEPT ![c].page = page[p].next] /\ UNCHANGED <<word, held, pc>>
      BY <1>2, <1>3, <1>4, <1>10 DEF CollectPage
    <2>2. PICK q : q = page[p].next
      OBVIOUS
    <2>3. q \in Class(c, op[c].bin) \cup {0}
      <3>1. Linked(page, queue[c][op[c].bin], Class(c, op[c].bin))
        BY <1>0, <1>1 DEF CalmInv, LinkInv
      <3> QED
        BY <1>2, <2>2, <3>1 DEF Linked, BothWays
    <2> QED
      BY <1>0, <1>6, <1>8, <2>1, <2>2, <2>3, LookFurtherStep
  <1>11. CASE g[p].free # <<>>
    <2>1. TakeFrom(c, g, p) /\ word' = Stamped(word, p, Head(g[p].free), op[c].bin)
      BY <1>2, <1>3, <1>4, <1>11 DEF CollectPage
    <2> QED
      BY <1>0, <1>1, <1>3, <1>6, <1>8, <1>9, <1>11, <2>1, TakeStep
  <1> QED
    BY <1>10, <1>11

=============================================================================
