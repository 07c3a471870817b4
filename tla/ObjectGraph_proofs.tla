-------------------------- MODULE ObjectGraph_proofs --------------------------
(***************************************************************************)
(* Proofs about ObjectGraph, for any number of clients, RootRefs, blocks   *)
(* and embedded references.                                                *)
(*                                                                         *)
(* A release in progress is a chain: its first frame works on a RootRef    *)
(* that is being given up, each further one on a word of the object that   *)
(* the frame below it is at.  That object has no reference but the one the *)
(* frame below holds, so nobody else comes to its words.                   *)
(***************************************************************************)
EXTENDS ObjectGraph, FiniteSetTheorems, TLAPS

Roots == UNION {RootOf(c) : c \in Client}
Frame == [at : {"read", "kids", "unlink"}, ref : Location, next : Nat \ {0}, seen : Int]

Types ==
  /\ ref \in [Location -> Block \cup {Null, Data}]
  /\ count \in [Block -> Int]
  /\ embed \in [Block -> 0 .. MaxEmbed]
  /\ live \subseteq Block /\ use \subseteq Roots
  /\ cnt \in [Roots -> Int]
  /\ status \in [Client -> {"run", "dead", "vacant"}]
  /\ fill \in [Client -> [block : Block \cup {Null}, todo : Seq(Roots)]]
  /\ stack \in [Agent -> Seq(Frame)]
  /\ ending \in [Agent -> Roots \cup {NoRoot}]
  /\ patient \in Client \cup {0}

(* A client that completes an object holds it and what it will embed. *)
Filler(c) ==
  LET b == fill[c].block  todo == fill[c].todo IN
  /\ status[c] = "run" /\ ending[c] = NoRoot
  /\ b \in live /\ Len(todo) \in 1 .. embed[b]
  /\ \E l \in RootOf(c) : RefersTo(b) = {l}
  /\ \A i \in 1 .. Len(todo) : todo[i] \in RootOf(c) \cap use /\ ref[todo[i]] # b
Fillers == \A c \in Client : fill[c] # NoFill => Filler(c)

(* A client that runs holds something by each RootRef that it is not giving *)
(* up; a slot that nobody uses has none.                                    *)
RootsHold ==
  \A c \in Client : \A l \in RootOf(c) \cap use :
    /\ status[c] # "vacant"
    /\ status[c] = "run" /\ l # ending[c] => ref[l] # Null

(* Who gives up which RootRef. *)
Endings ==
  /\ patient # 0 => status[patient] = "dead"
  /\ \A c \in Client : ending[c] # NoRoot =>
       ending[c] \in RootOf(c) \cap use /\ status[c] = "run" /\ fill[c] = NoFill
  /\ ending[Monitor] # NoRoot => patient # 0 /\ ending[Monitor] \in RootOf(patient) \cap use
  /\ \A a \in Agent :
       IF stack[a] = <<>> THEN ending[a] # NoRoot => ref[ending[a]] = Null
       ELSE ending[a] # NoRoot /\ stack[a][1].ref = ending[a]

(* A frame that releases what an object embeds: it holds the only reference *)
(* to it, and has emptied the words that it has passed, but for the one     *)
(* that the frame above is at.                                              *)
KidsFrame(a, i) ==
  LET f == stack[a][i]  b == ref[f.ref] IN
  /\ RefersTo(b) = {f.ref} /\ count[b] = 1
  /\ f.seen = 1 /\ f.next <= embed[b] + 1
  /\ \A j \in 1 .. f.next - 1 :
       (i < Len(stack[a]) /\ j = f.next - 1) \/ ref[Word(b, j)] = Null

FrameOk(a, i) ==
  LET f == stack[a][i] IN
  /\ Counts(f.ref)
  /\ IF f.at = "read" THEN f.next = 1 ELSE ref[f.ref] \in live
  /\ f.at = "kids" => KidsFrame(a, i)
  /\ f.at = "unlink" => f.seen > 1
  /\ i < Len(stack[a]) =>
       /\ f.at = "kids" /\ f.next > 1
       /\ stack[a][i + 1].ref = Word(ref[f.ref], f.next - 1)
FramesOf(a) == \A i \in 1 .. Len(stack[a]) : FrameOk(a, i)
Frames == \A a \in Agent : FramesOf(a)

NoSharedFrame ==
  \A a, d \in Agent : \A i \in 1 .. Len(stack[a]), j \in 1 .. Len(stack[d]) :
    stack[a][i].ref = stack[d][j].ref => a = d /\ i = j

GraphInv ==
  /\ Types /\ Fillers /\ RootsHold /\ Endings /\ Frames /\ NoSharedFrame
  /\ NoWildPointer /\ CountExact
-----------------------------------------------------------------------------
(* Locations. *)

LEMMA Kinds ==
  /\ \A b, d, i, j : Word(b, i) = Word(d, j) <=> b = d /\ i = j
  /\ \A b \in Block, i \in 1 .. MaxEmbed : Word(b, i) \in Location
  /\ \A c, d \in Client : Mail(c, d) \in Location
  /\ \A c \in Client : RootOf(c) \subseteq Roots
  /\ \A c \in Client, k \in 1 .. NRoot : Root(c, k) \in RootOf(c)
  /\ \A l \in Roots : l \in Location /\ \E c \in Client : l \in RootOf(c)
  /\ \A l \in Roots : \A x, y : l # Word(x, y) /\ l # Mail(x, y)
  /\ \A x, y, u, v : Word(x, y) # Mail(u, v)
  /\ \A l : \A c, d \in Client : l \in RootOf(c) /\ l \in RootOf(d) => c = d
  /\ NoRoot \notin Roots
  <1>1. \A c \in Client : \A l \in RootOf(c) : l[1] = "root" /\ l[2] = c
    BY DEF RootOf, Root
  <1>2. \A x, y : Word(x, y)[1] = "word" /\ Word(x, y)[2] = x /\ Word(x, y)[3] = y
    BY DEF Word
  <1>3. \A x, y : Mail(x, y)[1] = "mail"
    BY DEF Mail
  <1>4. NoRoot[2] = 0 /\ 0 \notin Client
    BY DEF NoRoot, Root, Client
  <1>5. \A c \in Client, k \in 1 .. NRoot : Root(c, k) \in RootOf(c)
    BY DEF RootOf
  <1>6. \A c \in Client : RootOf(c) \subseteq Roots /\ RootOf(c) \subseteq Location
    BY DEF Roots, Location
  <1>7. \A l \in Roots : \E c \in Client : l \in RootOf(c)
    BY DEF Roots
  <1>8. \A b \in Block, i \in 1 .. MaxEmbed : Word(b, i) \in Location
    BY DEF Location, WordOf
  <1>9. \A c, d \in Client : Mail(c, d) \in Location
    BY DEF Location
  <1>10. \A b, d, i, j : Word(b, i) = Word(d, j) <=> b = d /\ i = j
    BY <1>2
  <1> QED
    BY <1>1, <1>2, <1>3, <1>4, <1>5, <1>6, <1>7, <1>8, <1>9, <1>10

LEMMA AnyLocation ==
  ASSUME NEW l \in Location
  PROVE  \/ l \in Roots
         \/ \E b \in Block, i \in 1 .. MaxEmbed : l = Word(b, i)
         \/ \E c, d \in Client : l = Mail(c, d)
  BY DEF Location, Roots, WordOf

LEMMA Constants ==
  /\ NBlock \in Nat /\ MaxEmbed \in Nat /\ NClient \in Nat /\ NRoot \in Nat
  /\ Null \notin Block /\ Data \notin Block /\ Monitor \notin Client /\ Monitor \in Agent
  /\ Client \subseteq Agent /\ Agent = Client \cup {Monitor} /\ Null # Data
  /\ MaxEmbed > 0
  BY GraphAssumption DEF Block, Null, Data, Monitor, Agent, Client

(* There are finitely many of them. *)
MailFrom(c) == {Mail(c, d) : d \in Client}

LEMMA FiniteLocation == IsFiniteSet(Location)
  <1>1. ASSUME NEW n \in Nat, NEW S, NEW f \in [1 .. n -> S], \A s \in S : \E i \in 1 .. n : f[i] = s
        PROVE  IsFiniteSet(S)
    <2>1. IsFiniteSet(1 .. n)
      BY FS_Interval
    <2>2. f \in Surjection(1 .. n, S)
      BY <1>1 DEF Surjection
    <2> QED
      BY <2>1, <2>2, FS_Surjection
  <1>2. \A c \in Client : IsFiniteSet(RootOf(c))
    <2> TAKE c \in Client
    <2> DEFINE f == [k \in 1 .. NRoot |-> Root(c, k)]
    <2>1. f \in [1 .. NRoot -> RootOf(c)] /\ \A s \in RootOf(c) : \E i \in 1 .. NRoot : f[i] = s
      BY DEF RootOf
    <2> QED
      BY <2>1, <1>1, Constants
  <1>3. \A b \in Block : IsFiniteSet(WordOf(b))
    <2> TAKE b \in Block
    <2> DEFINE f == [k \in 1 .. MaxEmbed |-> Word(b, k)]
    <2>1. f \in [1 .. MaxEmbed -> WordOf(b)] /\ \A s \in WordOf(b) : \E i \in 1 .. MaxEmbed : f[i] = s
      BY DEF WordOf
    <2> QED
      BY <2>1, <1>1, Constants
  <1>4. \A c \in Client : IsFiniteSet(MailFrom(c))
    <2> TAKE c \in Client
    <2> DEFINE f == [k \in 1 .. NClient |-> Mail(c, k)]
    <2>1. f \in [1 .. NClient -> MailFrom(c)] /\ \A s \in MailFrom(c) : \E i \in 1 .. NClient : f[i] = s
      BY DEF Client, MailFrom
    <2> QED
      BY <2>1, <1>1, Constants
  <1>5. IsFiniteSet(UNION {RootOf(c) : c \in Client})
    <2> DEFINE S == {RootOf(c) : c \in Client}
               f == [k \in 1 .. NClient |-> RootOf(k)]
    <2>1. f \in [1 .. NClient -> S] /\ \A s \in S : \E i \in 1 .. NClient : f[i] = s
      BY DEF Client
    <2>2. IsFiniteSet(S)
      BY <2>1, <1>1, Constants
    <2> QED
      BY <2>2, <1>2, FS_UNION
  <1>6. IsFiniteSet(UNION {WordOf(b) : b \in Block})
    <2> DEFINE S == {WordOf(b) : b \in Block}
               f == [k \in 1 .. NBlock |-> WordOf(k)]
    <2>1. f \in [1 .. NBlock -> S] /\ \A s \in S : \E i \in 1 .. NBlock : f[i] = s
      BY DEF Block
    <2>2. IsFiniteSet(S)
      BY <2>1, <1>1, Constants
    <2> QED
      BY <2>2, <1>3, FS_UNION
  <1>7. IsFiniteSet(UNION {MailFrom(c) : c \in Client})
    <2> DEFINE S == {MailFrom(c) : c \in Client}
               f == [k \in 1 .. NClient |-> MailFrom(k)]
    <2>1. f \in [1 .. NClient -> S] /\ \A s \in S : \E i \in 1 .. NClient : f[i] = s
      BY DEF Client
    <2>2. IsFiniteSet(S)
      BY <2>1, <1>1, Constants
    <2> QED
      BY <2>2, <1>4, FS_UNION
  <1>8. IsFiniteSet((UNION {RootOf(c) : c \in Client}) \cup (UNION {WordOf(b) : b \in Block}))
    BY <1>5, <1>6, FS_Union
  <1>9. Location = ((UNION {RootOf(c) : c \in Client}) \cup (UNION {WordOf(b) : b \in Block}))
                      \cup (UNION {MailFrom(c) : c \in Client})
    BY DEF Location, MailFrom
  <1> QED
    BY <1>7, <1>8, <1>9, FS_Union

LEMMA FiniteRefers == \A b : IsFiniteSet(RefersTo(b)) /\ Cardinality(RefersTo(b)) \in Nat
  <1>1. \A b : RefersTo(b) \in SUBSET Location
    BY DEF RefersTo
  <1> QED
    BY <1>1, FiniteLocation, FS_Subset, FS_CardinalityType

LEMMA FiniteRefersNext == \A b : IsFiniteSet(RefersTo(b)') /\ Cardinality(RefersTo(b)') \in Nat
  <1>1. \A b : RefersTo(b)' \in SUBSET Location
    BY DEF RefersTo
  <1> QED
    BY <1>1, FiniteLocation, FS_Subset, FS_CardinalityType

(* Which locations hold references, before and after a step. *)
CountsByKind ==
  /\ \A l \in Roots : Counts(l) <=> l \in use
  /\ \A b \in Block, i \in 1 .. MaxEmbed :
       Counts(Word(b, i)) <=>
         /\ b \in live /\ i <= embed[b]
         /\ \A c \in Client : fill[c].block = b => i <= embed[b] - Len(fill[c].todo)
  /\ \A c, d \in Client : Counts(Mail(c, d))

LEMMA CountsCases == Types => CountsByKind
  <1> SUFFICES ASSUME Types PROVE CountsByKind
    OBVIOUS
  <1>1. \A l \in Roots : l[1] = "root"
    BY DEF Roots, RootOf, Root
  <1>2. \A b \in Block, i \in 1 .. MaxEmbed, c \in Client :
          fill[c].block = b => (i <= embed[b] => (Word(b, i) \in Unfilled(c) <=> ~(i <= embed[b] - Len(fill[c].todo))))
    <2> TAKE b \in Block, i \in 1 .. MaxEmbed, c \in Client
    <2> SUFFICES ASSUME fill[c].block = b, i <= embed[b]
                 PROVE  Word(b, i) \in Unfilled(c) <=> ~(i <= embed[b] - Len(fill[c].todo))
      OBVIOUS
    <2>1. Len(fill[c].todo) \in Nat /\ embed[b] \in Nat /\ b # Null
      BY Constants DEF Types
    <2>2. Unfilled(c) = {Word(b, j) : j \in embed[b] - Len(fill[c].todo) + 1 .. embed[b]}
      BY <2>1 DEF Unfilled
    <2>3. Word(b, i) \in Unfilled(c) <=> i \in embed[b] - Len(fill[c].todo) + 1 .. embed[b]
      BY <2>2, Kinds
    <2> QED
      BY <2>1, <2>3
  <1>3. \A b \in Block, i \in 1 .. MaxEmbed :
          Counts(Word(b, i)) <=>
            /\ b \in live /\ i <= embed[b]
            /\ \A c \in Client : fill[c].block = b => Word(b, i) \notin Unfilled(c)
    BY DEF Counts, Word
  <1>4. \A c, d \in Client : Counts(Mail(c, d))
    BY DEF Counts, Mail
  <1>5. \A l \in Roots : Counts(l) <=> l \in use
    BY <1>1 DEF Counts
  <1> QED
    BY <1>2, <1>3, <1>4, <1>5 DEF CountsByKind

LEMMA CountsCasesNext == Types' => CountsByKind'
  BY CountsCases, PTL
-----------------------------------------------------------------------------
(* Frames. *)

IsFrame(a, i) == a \in Agent /\ i \in 1 .. Len(stack[a])

LEMMA FrameType ==
  ASSUME Types, NEW a, NEW i, IsFrame(a, i)
  PROVE  /\ stack[a][i] \in Frame /\ stack[a][i].ref \in Location
         /\ Len(stack[a]) \in Nat /\ stack[a] # <<>> /\ i \in Nat \ {0} /\ stack[a] \in Seq(Frame)
  <1>1. stack[a] \in Seq(Frame)
    BY DEF Types, IsFrame
  <1>2. stack[a][i] \in Frame /\ Len(stack[a]) \in Nat /\ stack[a] # <<>>
    BY <1>1 DEF IsFrame
  <1>3. \A f \in Frame : f.ref \in Location
    BY DEF Frame
  <1>4. i \in Nat \ {0}
    BY <1>2 DEF IsFrame
  <1> QED
    BY <1>1, <1>2, <1>3, <1>4

(* The first frame is at the RootRef that its agent gives up. *)
LEMMA FirstFrame ==
  ASSUME Types, Endings, NEW a, IsFrame(a, 1)
  PROVE  /\ stack[a][1].ref = ending[a] /\ ending[a] \in Roots \cap use
         /\ a \in Client => ending[a] \in RootOf(a) /\ status[a] = "run" /\ fill[a] = NoFill
         /\ a = Monitor => patient \in Client /\ ending[a] \in RootOf(patient) /\ status[patient] = "dead"
  <1>1. stack[a][1].ref = ending[a] /\ ending[a] # NoRoot
    BY FrameType DEF Endings, IsFrame
  <1>2. a \in Client \/ a = Monitor
    BY Constants DEF IsFrame
  <1>3. patient \in Client \cup {0}
    BY DEF Types
  <1> QED
    BY <1>1, <1>2, <1>3, Kinds DEF Endings

(* Every other one is at a word of the object that the frame below is at. *)
LEMMA NextFrame ==
  ASSUME Types, Frames, NEW a, NEW i, IsFrame(a, i), i # 1
  PROVE  LET f == stack[a][i - 1] IN
         /\ IsFrame(a, i - 1) /\ f.at = "kids" /\ f.next \in Nat /\ f.next > 1
         /\ ref[f.ref] \in live /\ ref[f.ref] \in Block
         /\ f.next - 1 \in 1 .. MaxEmbed /\ f.next - 1 <= embed[ref[f.ref]]
         /\ stack[a][i].ref = Word(ref[f.ref], f.next - 1)
  <1> DEFINE f == stack[a][i - 1]
  <1>1. IsFrame(a, i - 1) /\ i - 1 < Len(stack[a]) /\ (i - 1) + 1 = i
    BY FrameType DEF IsFrame
  <1>2. f.next \in Nat
    BY <1>1, FrameType DEF Frame
  <1>3. f.at = "kids" /\ f.next > 1 /\ stack[a][i].ref = Word(ref[f.ref], f.next - 1)
    BY <1>1 DEF FrameOk, FramesOf, Frames, IsFrame
  <1>4. ref[f.ref] \in live /\ f.next <= embed[ref[f.ref]] + 1
    BY <1>1, <1>3 DEF FrameOk, FramesOf, Frames, IsFrame, KidsFrame
  <1>5. ref[f.ref] \in Block /\ embed[ref[f.ref]] \in 0 .. MaxEmbed
    BY <1>4 DEF Types
  <1>6. f.next - 1 \in 1 .. MaxEmbed /\ f.next - 1 <= embed[ref[f.ref]]
    <2>1. \A m, n, x \in Int : m > 1 /\ n \in 0 .. x /\ m <= n + 1 => m - 1 \in 1 .. x /\ m - 1 <= n
      OBVIOUS
    <2>2. MaxEmbed \in Int /\ f.next \in Int /\ embed[ref[f.ref]] \in Int /\ f.next > 1
      BY <1>2, <1>3, <1>5, Constants
    <2> QED
      BY <1>4, <1>5, <2>1, <2>2
  <1> QED
    BY <1>1, <1>2, <1>3, <1>4, <1>5, <1>6

(* No frame is at a RootRef of a client that gives nothing up, nor at a     *)
(* message.                                                                 *)
LEMMA FrameNotOf ==
  ASSUME Types, Endings, Frames, NEW a, NEW i, IsFrame(a, i)
  PROVE  /\ \A c \in Client : status[c] = "run" /\ stack[a][i].ref \in RootOf(c) =>
              a = c /\ i = 1 /\ ending[c] = stack[a][i].ref
         /\ \A u, v : stack[a][i].ref # Mail(u, v)
         /\ stack[a][i].ref \in Roots <=> i = 1
  <1>0. a \in Client \/ a = Monitor
    BY Constants DEF IsFrame
  <1>1. CASE i = 1
    BY <1>0, <1>1, FirstFrame, Kinds
  <1>2. CASE i # 1
    <2> DEFINE f == stack[a][i - 1]
               x == ref[f.ref]
               y == f.next - 1
    <2>1. stack[a][i].ref = Word(x, y)
      BY <1>2, NextFrame
    <2> HIDE DEF x, y
    <2>2. stack[a][i].ref \notin Roots
      BY <2>1, Kinds
    <2>3. \A c \in Client : RootOf(c) \subseteq Roots
      BY Kinds
    <2>4. \A u, v : Word(x, y) # Mail(u, v)
      BY Kinds
    <2> QED
      BY <1>2, <2>1, <2>2, <2>3, <2>4
  <1> QED
    BY <1>1, <1>2

(* A frame at a word of b: the frame below has the only reference to b. *)
LEMMA FrameAtWord ==
  ASSUME Types, Endings, Frames, NEW a, NEW i, IsFrame(a, i), NEW b, NEW j,
         stack[a][i].ref = Word(b, j)
  PROVE  /\ i # 1 /\ IsFrame(a, i - 1) /\ b \in live
         /\ stack[a][i - 1].at = "kids" /\ ref[stack[a][i - 1].ref] = b
         /\ RefersTo(b) = {stack[a][i - 1].ref}
  <1>1. i # 1
    BY FrameNotOf, Kinds
  <1>2. IsFrame(a, i - 1) /\ stack[a][i - 1].at = "kids" /\ ref[stack[a][i - 1].ref] = b /\ b \in live
    BY <1>1, NextFrame, Kinds
  <1> QED
    BY <1>1, <1>2 DEF FrameOk, FramesOf, Frames, IsFrame, KidsFrame

LEMMA WordHeld ==
  ASSUME Types, Endings, Frames
  PROVE  \A a, i, b, j : IsFrame(a, i) /\ stack[a][i].ref = Word(b, j) => \E g : RefersTo(b) = {g}
  <1> SUFFICES ASSUME NEW a, NEW i, NEW b, NEW j, IsFrame(a, i), stack[a][i].ref = Word(b, j)
               PROVE  \E g : RefersTo(b) = {g}
    OBVIOUS
  <1>1. RefersTo(b) = {stack[a][i - 1].ref}
    BY FrameAtWord
  <1> QED
    BY <1>1

(* An object that a client completes is not released meanwhile. *)
LEMMA NotFilled ==
  ASSUME Types, Endings, Frames, Fillers, NEW a, NEW i, IsFrame(a, i), NEW c \in Client,
         ref[stack[a][i].ref] \in live, ref[stack[a][i].ref] = fill[c].block
  PROVE  FALSE
  <1>1. fill[c] # NoFill
    BY Constants DEF NoFill, Types
  <1>2. PICK l \in RootOf(c) : RefersTo(fill[c].block) = {l}
    BY <1>1 DEF Fillers, Filler
  <1>3. stack[a][i].ref \in RefersTo(fill[c].block)
    BY FrameType DEF RefersTo, FrameOk, FramesOf, Frames, IsFrame
  <1>4. status[c] = "run" /\ ending[c] = NoRoot
    BY <1>1 DEF Fillers, Filler
  <1> QED
    BY <1>2, <1>3, <1>4, FrameNotOf, Kinds

(* The object of a frame, if it is not empty. *)
LEMMA FrameObject ==
  ASSUME Types, Frames, NoWildPointer, CountExact, NEW a, NEW i, IsFrame(a, i),
         ref[stack[a][i].ref] # Null
  PROVE  LET l == stack[a][i].ref  b == ref[l] IN
         b \in live /\ b \in Block /\ l \in RefersTo(b) /\ count[b] \in Nat \ {0}
  <1> DEFINE l == stack[a][i].ref  b == ref[l]
  <1>1. l \in Location /\ Counts(l)
    BY FrameType DEF FrameOk, FramesOf, Frames, IsFrame
  <1>2. b \in live /\ b \in Block
    BY <1>1 DEF NoWildPointer, Types
  <1>3. l \in RefersTo(b)
    BY <1>1 DEF RefersTo
  <1>4. Cardinality(RefersTo(b)) # 0
    BY <1>3, FiniteRefers, FS_EmptySet
  <1> QED
    BY <1>2, <1>3, <1>4, FiniteRefers DEF CountExact, Types
(* An object that a running client holds and does not give up is neither    *)
(* being released nor, by another client, being completed.                  *)
LEMMA Held ==
  ASSUME Types, Endings, Frames, Fillers, RootsHold, NoWildPointer,
         NEW c \in Client, NEW l \in RootOf(c) \cap use, status[c] = "run", ending[c] = NoRoot
  PROVE  /\ ref[l] \in live /\ ref[l] \in Block /\ l \in RefersTo(ref[l])
         /\ \A d \in Client : fill[d].block = ref[l] => d = c
         /\ \A a, i : IsFrame(a, i) /\ stack[a][i].at = "kids" => ref[stack[a][i].ref] # ref[l]
  <1>1. l \in Roots /\ l \in Location /\ Counts(l) /\ l # NoRoot
    BY Kinds, CountsCases DEF CountsByKind
  <1>2. ref[l] \in live /\ ref[l] \in Block
    BY <1>1 DEF RootsHold, NoWildPointer, Types
  <1>3. l \in RefersTo(ref[l])
    BY <1>1 DEF RefersTo
  <1>4. ASSUME NEW d \in Client, fill[d].block = ref[l]
        PROVE  d = c
    <2>1. fill[d] # NoFill
      BY <1>2, <1>4, Constants DEF NoFill
    <2>2. PICK m \in RootOf(d) : RefersTo(fill[d].block) = {m}
      BY <2>1 DEF Fillers, Filler
    <2> QED
      BY <2>2, <1>3, <1>4, Kinds
  <1>5. ASSUME NEW a, NEW i, IsFrame(a, i), stack[a][i].at = "kids", ref[stack[a][i].ref] = ref[l]
        PROVE  FALSE
    <2>1. stack[a][i].ref = l
      BY <1>3, <1>5 DEF Frames, FramesOf, FrameOk, KidsFrame, IsFrame
    <2>2. \A d \in Client : status[d] = "run" /\ stack[a][i].ref \in RootOf(d) => ending[d] = stack[a][i].ref
      BY <1>5, FrameNotOf
    <2>3. l \in RootOf(c)
      OBVIOUS
    <2> QED
      BY <2>1, <2>2, <2>3, <1>1
  <1> QED
    BY <1>2, <1>3, <1>4, <1>5

(* Two agents never give up the same RootRef. *)
LEMMA EndingsApart ==
  ASSUME Types, Endings, NEW a \in Agent, NEW d \in Agent, ending[a] # NoRoot, ending[a] = ending[d]
  PROVE  a = d
  <1>1. /\ a \in Client \/ a = Monitor
        /\ d \in Client \/ d = Monitor
        /\ patient \in Client \cup {0}
    BY Constants DEF Types
  <1>2. /\ \A c \in Client : c \in {a, d} => ending[a] \in RootOf(c) /\ status[c] = "run"
        /\ Monitor \in {a, d} => patient \in Client /\ ending[a] \in RootOf(patient) /\ status[patient] = "dead"
    BY <1>1 DEF Endings
  <1> QED
    BY <1>1, <1>2, Kinds
-----------------------------------------------------------------------------
(* What a location refers to: a step is told by how this changes. *)
Target(l) == IF Counts(l) THEN ref[l] ELSE Null

LEMMA TargetRefers ==
  ASSUME NEW b \in Block, NEW l \in Location
  PROVE  /\ l \in RefersTo(b) <=> Target(l) = b
         /\ l \in RefersTo(b)' <=> Target(l)' = b
  <1>1. b # Null
    BY Constants
  <1> QED
    BY <1>1 DEF RefersTo, Target

LEMMA RefersLocation == \A b : RefersTo(b) \subseteq Location /\ RefersTo(b)' \subseteq Location
  BY DEF RefersTo

(* An object whose references stay. *)
LEMMA SameTarget ==
  ASSUME NEW b \in Block, \A l \in Location : Target(l)' = b <=> Target(l) = b
  PROVE  RefersTo(b)' = RefersTo(b)
  BY TargetRefers, RefersLocation

LEMMA MoreTarget ==
  ASSUME NEW b \in Block, NEW m \in Location, Target(m) # b,
         \A l \in Location : Target(l)' = b <=> Target(l) = b \/ l = m
  PROVE  /\ RefersTo(b)' = RefersTo(b) \cup {m}
         /\ Cardinality(RefersTo(b)') = Cardinality(RefersTo(b)) + 1
  <1>1. RefersTo(b)' = RefersTo(b) \cup {m} /\ m \notin RefersTo(b)
    BY TargetRefers, RefersLocation
  <1> QED
    BY <1>1, FiniteRefers, FS_AddElement

LEMMA LessTarget ==
  ASSUME NEW b \in Block, NEW m \in Location, Target(m) = b,
         \A l \in Location : Target(l)' = b <=> Target(l) = b /\ l # m
  PROVE  /\ RefersTo(b)' = RefersTo(b) \ {m}
         /\ Cardinality(RefersTo(b)') = Cardinality(RefersTo(b)) - 1
  <1>1. RefersTo(b)' = RefersTo(b) \ {m} /\ m \in RefersTo(b)
    BY TargetRefers, RefersLocation
  <1> QED
    BY <1>1, FiniteRefers, FS_RemoveElement

LEMMA TargetLive ==
  ASSUME NoWildPointer, NEW l \in Location
  PROVE  Target(l) \in live \cup {Null}
  BY DEF NoWildPointer, Target

-----------------------------------------------------------------------------
(* The steps of SharedObjects, told by what locations refer to. *)
Targets == [l \in Location |-> IF Counts(l) THEN ref[l] ELSE Null]
Refines == [Abstract!Next]_<<Targets, live>>
Alike(S) == \A x \in S : Target(x)' = Target(x)

LEMMA TargetsAre ==
  \A l \in Location : Targets[l] = Target(l) /\ Targets'[l] = Target(l)'
  BY DEF Targets, Target

LEMMA RefinesSteady ==
  ASSUME Alike(Location), UNCHANGED live
  PROVE  Refines
  <1>1. \A l \in Location : (IF Counts(l) THEN ref[l] ELSE Null)' = (IF Counts(l) THEN ref[l] ELSE Null)
    BY DEF Alike, Target
  <1>2. Targets' = Targets
    BY <1>1 DEF Targets
  <1> QED
    BY <1>2 DEF Refines

LEMMA RefinesNew ==
  ASSUME NEW l \in Location, NEW b \in Block, Target(l) = Null, b \notin live, live' = live \cup {b},
         Target(l)' = b, Alike(Location \ {l})
  PROVE  Refines
  <1>1. Abstract!New(l, b)
    BY TargetsAre DEF Abstract!New, Abstract!Keep, Alike, Targets
  <1> QED
    BY <1>1 DEF Refines, Abstract!Next

LEMMA RefinesLink ==
  ASSUME NEW l \in Location, NEW b \in Block, Target(l) = Null, b \in live, live' = live,
         Target(l)' = b, Alike(Location \ {l})
  PROVE  Refines
  <1>1. Abstract!Link(l, b)
    BY TargetsAre DEF Abstract!Link, Abstract!Keep, Alike, Targets
  <1> QED
    BY <1>1 DEF Refines, Abstract!Next

LEMMA RefinesMove ==
  ASSUME NEW l \in Location, NEW m \in Location, Target(l) # Null, Target(l)' = Null,
         Target(m) = Null, Target(m)' = Target(l), live' = live, Alike(Location \ {l, m})
  PROVE  Refines
  <1>1. Abstract!Move(l, m)
    BY TargetsAre DEF Abstract!Move, Abstract!Keep, Alike, Targets
  <1> QED
    BY <1>1 DEF Refines, Abstract!Next

(* A reference may go unless two locations refer to the object it is in. *)
MayGo(l) == \A b \in live : l \in WordOf(b) =>
  \A m, n \in Location : Target(m) = b /\ Target(n) = b => m = n

LEMMA RefinesDrop ==
  ASSUME NEW l \in Location, MayGo(l), Target(l) # Null, Target(l)' = Null, live' = live,
         Alike(Location \ {l})
  PROVE  Refines
  <1>1. Abstract!Released(l)
    BY TargetsAre DEF Abstract!Released, MayGo, Targets
  <1>2. Abstract!Drop(l)
    BY <1>1, TargetsAre DEF Abstract!Drop, Abstract!Keep, Alike, Targets
  <1> QED
    BY <1>2 DEF Refines, Abstract!Next

LEMMA RefinesReclaim ==
  ASSUME NEW l \in Location, NEW b \in Block, MayGo(l), Target(l) = b, b # Null, live' = live \ {b},
         \A m \in Location : Target(m) = b => m = l,
         \A m \in Location : Target(m)' = IF m = l \/ m \in WordOf(b) THEN Null ELSE Target(m)
  PROVE  Refines
  <1>1. Abstract!Released(l)
    BY TargetsAre DEF Abstract!Released, MayGo, Targets
  <1>2. WordOf(b) \subseteq Location
    BY Kinds DEF WordOf
  <1>3. Targets[l] = b /\ \A m \in Location : Targets[m] = b => m = l
    BY TargetsAre
  <1>4. \A m \in {l} \cup WordOf(b) : Targets'[m] = Null
    BY <1>2, TargetsAre
  <1>5. \A m \in Location \ ({l} \cup WordOf(b)) : Targets'[m] = Targets[m]
    BY TargetsAre
  <1>6. Abstract!Reclaim(l)
    BY <1>1, <1>3, <1>4, <1>5 DEF Abstract!Reclaim, Abstract!Keep, Targets
  <1> QED
    BY <1>6 DEF Refines, Abstract!Next

-----------------------------------------------------------------------------
(* A step that leaves all references as they are. *)
LEMMA Quiet ==
  ASSUME GraphInv, \A l \in Location : Target(l)' = Target(l), UNCHANGED <<count, live, orphan>>
  PROVE  NoWildPointer' /\ CountExact' /\ Refines /\ \A b \in Block : RefersTo(b)' = RefersTo(b)
  <1>0. Refines
    BY RefinesSteady DEF Alike
  <1>1. \A b \in Block : RefersTo(b)' = RefersTo(b)
    BY SameTarget
  <1>2. live \subseteq Block
    BY DEF GraphInv, Types
  <1>3. CountExact'
    <2>1. \A b \in live : RefersTo(b)' = RefersTo(b)
      BY <1>1, <1>2
    <2> QED
      BY <2>1 DEF GraphInv, CountExact
  <1>4. NoWildPointer'
    <2>1. \A l \in Location : Target(l) \in live \cup {Null}
      BY TargetLive DEF GraphInv
    <2> QED
      BY <2>1 DEF NoWildPointer, Target
  <1> QED
    BY <1>0, <1>1, <1>3, <1>4

(* A step does not disturb a frame f that is at object b. *)
Undisturbed(f, b) ==
  /\ Counts(f.ref)'
  /\ f.at # "read" => ref'[f.ref] = b /\ b \in live'
  /\ f.at = "kids" =>
       /\ embed'[b] = embed[b] /\ count'[b] = count[b] /\ RefersTo(b)' = RefersTo(b)
       /\ \A j \in 1 .. f.next - 1 : ref[Word(b, j)] = Null => ref'[Word(b, j)] = Null
FrameStays(a, i) == \A f, b : f = stack[a][i] /\ b = ref[f.ref] => Undisturbed(f, b)

LEMMA FramesStay ==
  ASSUME NEW a \in Agent, FramesOf(a), stack'[a] = stack[a],
         \A i \in 1 .. Len(stack[a]) : FrameStays(a, i)
  PROVE  FramesOf(a)'
  <1> SUFFICES ASSUME NEW i \in 1 .. Len(stack[a]) PROVE FrameOk(a, i)'
    BY DEF FramesOf
  <1>1. PICK f, b : f = stack[a][i] /\ b = ref[f.ref]
    OBVIOUS
  <1>2. FrameOk(a, i) /\ Undisturbed(f, b) /\ stack'[a][i] = f
    BY <1>1 DEF FramesOf, FrameStays
  <1>3. ASSUME f.at = "kids" PROVE KidsFrame(a, i)' /\ ref'[f.ref] = b
    BY <1>1, <1>2, <1>3 DEF KidsFrame, Undisturbed, FrameOk
  <1>4. /\ Counts(f.ref)'
        /\ f.at # "read" => ref'[f.ref] = b /\ b \in live'
    BY <1>2 DEF Undisturbed
  <1> QED
    BY <1>1, <1>2, <1>3, <1>4 DEF FrameOk

LEMMA KidsStay ==
  ASSUME NEW a, NEW i, NEW f, NEW b, f = stack[a][i], b = ref[f.ref], stack'[a][i] = f,
         f.at = "kids", Undisturbed(f, b), KidsFrame(a, i),
         i < Len(stack[a]) => i < Len(stack'[a])
  PROVE  KidsFrame(a, i)' /\ ref'[f.ref] = b
  <1>1. /\ RefersTo(b) = {f.ref} /\ count[b] = 1 /\ f.seen = 1 /\ f.next <= embed[b] + 1
        /\ \A j \in 1 .. f.next - 1 : (i < Len(stack[a]) /\ j = f.next - 1) \/ ref[Word(b, j)] = Null
    BY DEF KidsFrame
  <1>2. /\ RefersTo(b)' = {f.ref} /\ count'[b] = 1 /\ f.next <= embed'[b] + 1 /\ ref'[f.ref] = b
        /\ \A j \in 1 .. f.next - 1 : ref[Word(b, j)] = Null => ref'[Word(b, j)] = Null
    BY <1>1 DEF Undisturbed
  <1>3. \A j \in 1 .. f.next - 1 : (i < Len(stack'[a]) /\ j = f.next - 1) \/ ref'[Word(b, j)] = Null
    BY <1>1, <1>2
  <1> QED
    BY <1>1, <1>2, <1>3 DEF KidsFrame

LEMMA FewerFrames ==
  ASSUME NoSharedFrame,
         \A a \in Agent : \A i \in 1 .. Len(stack'[a]) :
           i \in 1 .. Len(stack[a]) /\ stack'[a][i].ref = stack[a][i].ref
  PROVE  NoSharedFrame'
  <1> SUFFICES ASSUME NEW a \in Agent, NEW d \in Agent,
                      NEW i \in 1 .. Len(stack'[a]), NEW j \in 1 .. Len(stack'[d]),
                      stack'[a][i].ref = stack'[d][j].ref
               PROVE  a = d /\ i = j
    BY DEF NoSharedFrame
  <1>1. i \in 1 .. Len(stack[a]) /\ j \in 1 .. Len(stack[d]) /\ stack[a][i].ref = stack[d][j].ref
    OBVIOUS
  <1> QED
    BY <1>1 DEF NoSharedFrame

LEMMA Alone ==
  ASSUME NEW S, IsFiniteSet(S), Cardinality(S) <= 1, NEW y \in S
  PROVE  S = {y}
  <1>1. IsFiniteSet(S \ {y}) /\ Cardinality(S \ {y}) = Cardinality(S) - 1
    BY FS_RemoveElement
  <1>2. Cardinality(S) \in Nat /\ Cardinality(S \ {y}) \in Nat
    BY <1>1, FS_CardinalityType
  <1>3. Cardinality(S \ {y}) = 0
    BY <1>1, <1>2
  <1>4. S \ {y} = {}
    BY <1>1, <1>3, FS_EmptySet
  <1> QED
    BY <1>4

LEMMA FrontOf ==
  ASSUME NEW S, NEW s \in Seq(S), s # <<>>
  PROVE  /\ Len(s) \in Nat \ {0} /\ Last(s) = s[Len(s)] /\ Last(s) \in S
         /\ Front(s) \in Seq(S) /\ Len(Front(s)) = Len(s) - 1
         /\ \A i \in 1 .. Len(s) - 1 : Front(s)[i] = s[i]
  <1>1. Len(s) \in Nat \ {0} /\ Last(s) = s[Len(s)] /\ Last(s) \in S
    BY DEF Last
  <1>2. Front(s) = [i \in 1 .. Len(s) - 1 |-> s[i]]
    BY <1>1 DEF Front
  <1>3. Front(s) \in Seq(S) /\ Len(Front(s)) = Len(s) - 1
    BY <1>1, <1>2
  <1> QED
    BY <1>1, <1>2, <1>3

(* An agent that is done with its top frame has emptied where that was. *)
LEMMA FramesPopped ==
  ASSUME Types, Types', NEW a \in Agent, FramesOf(a), stack[a] # <<>>,
         stack'[a] = Pop(stack[a]), ref'[Top(a).ref] = Null,
         \A i \in 1 .. Len(stack[a]) - 1 : FrameStays(a, i)
  PROVE  FramesOf(a)'
  <1> DEFINE n == Len(stack[a])
  <1>1. /\ stack[a] \in Seq(Frame) /\ n \in Nat \ {0}
        /\ Len(stack'[a]) = n - 1 /\ \A i \in 1 .. n - 1 : stack'[a][i] = stack[a][i]
        /\ Top(a) = stack[a][n] /\ \A i \in 1 .. n : stack[a][i].next \in Nat
    <2>1. stack[a] \in Seq(Frame)
      BY DEF Types
    <2>2. \A i \in 1 .. n : stack[a][i] \in Frame
      BY <2>1
    <2>3. /\ Len(Front(stack[a])) = n - 1 /\ Last(stack[a]) = stack[a][n] /\ n \in Nat \ {0}
          /\ \A i \in 1 .. n - 1 : Front(stack[a])[i] = stack[a][i]
      BY <2>1, FrontOf
    <2> QED
      BY <2>1, <2>2, <2>3 DEF Pop, Top, Frame
  <1> SUFFICES ASSUME NEW i \in 1 .. Len(stack'[a]) PROVE FrameOk(a, i)'
    BY DEF FramesOf
  <1>2. i \in 1 .. n - 1 /\ i \in 1 .. n /\ i < n /\ n \in Nat \ {0} /\ i \in Nat
    BY <1>1
  <1> DEFINE g == stack[a][i + 1]
  <1>3. PICK f, b : f = stack[a][i] /\ b = ref[f.ref]
    OBVIOUS
  <1>4. /\ f.at = "kids" /\ f.next > 1 /\ f.next \in Nat
        /\ g.ref = Word(b, f.next - 1) /\ KidsFrame(a, i)
    BY <1>1, <1>2, <1>3 DEF FramesOf, FrameOk
  <1>5. Undisturbed(f, b) /\ stack'[a][i] = f
    BY <1>1, <1>2, <1>3 DEF FrameStays
  <1>6. i < n - 1 => stack'[a][i + 1] = g
    <2>1. i < n - 1 => i + 1 \in 1 .. n - 1
      BY <1>2
    <2> QED
      BY <2>1, <1>1
  <1>7. i + 1 = n => ref'[Word(b, f.next - 1)] = Null
    BY <1>1, <1>4
  <1>8. Len(stack'[a]) = n - 1
    BY <1>1
  <1> HIDE DEF n, g
  <1>9. /\ RefersTo(b) = {f.ref} /\ count[b] = 1 /\ f.seen = 1 /\ f.next <= embed[b] + 1
        /\ \A j \in 1 .. f.next - 1 : j = f.next - 1 \/ ref[Word(b, j)] = Null
    BY <1>3, <1>4 DEF KidsFrame
  <1>10. /\ RefersTo(b)' = {f.ref} /\ count'[b] = 1 /\ f.next <= embed'[b] + 1
         /\ ref'[f.ref] = b /\ b \in live' /\ Counts(f.ref)'
    BY <1>4, <1>5, <1>9 DEF Undisturbed
  <1>11. \A j \in 1 .. f.next - 1 :
           (i < Len(stack'[a]) /\ j = f.next - 1) \/ ref'[Word(b, j)] = Null
    <2> SUFFICES ASSUME NEW j \in 1 .. f.next - 1, ref'[Word(b, j)] # Null
                 PROVE  i < n - 1 /\ j = f.next - 1
      BY <1>8
    <2>1. ref[Word(b, j)] # Null
      BY <1>4, <1>5 DEF Undisturbed
    <2>2. j = f.next - 1
      BY <2>1, <1>9
    <2> QED
      BY <2>2, <1>2, <1>7
  <1>12. KidsFrame(a, i)'
    BY <1>5, <1>9, <1>10, <1>11 DEF KidsFrame
  <1> QED
    BY <1>4, <1>5, <1>6, <1>8, <1>10, <1>12 DEF FrameOk
-----------------------------------------------------------------------------
(* Types. *)

LEMMA KidsType ==
  ASSUME Types, NEW c \in Client, NEW kids \in Kids(c)
  PROVE  /\ kids \in Seq(Roots) /\ Len(kids) \in {0, MaxEmbed}
         /\ \A i \in 1 .. Len(kids) : kids[i] \in RootOf(c) \cap use
  <1>1. PICK n \in {0, MaxEmbed} : kids \in [1 .. n -> RootOf(c) \cap use]
    BY DEF Kids
  <1>2. n \in Nat
    BY Constants
  <1>3. kids \in Seq(Roots) /\ Len(kids) = n
    BY <1>1, <1>2, Kinds
  <1> QED
    BY <1>1, <1>3

LEMMA TopFrame ==
  ASSUME Types, NEW a \in Agent, Releasing(a)
  PROVE  /\ IsFrame(a, Len(stack[a])) /\ Top(a) = stack[a][Len(stack[a])]
         /\ stack[a] \in Seq(Frame) /\ Top(a) \in Frame /\ Top(a).ref \in Location
         /\ Len(stack[a]) \in Nat \ {0}
         /\ Pop(stack[a]) \in Seq(Frame) /\ Len(Pop(stack[a])) = Len(stack[a]) - 1
         /\ \A i \in 1 .. Len(stack[a]) - 1 : Pop(stack[a])[i] = stack[a][i]
  <1>1. stack[a] \in Seq(Frame) /\ stack[a] # <<>>
    BY DEF Types, Releasing
  <1>2. /\ Len(stack[a]) \in Nat \ {0} /\ Last(stack[a]) = stack[a][Len(stack[a])]
        /\ Last(stack[a]) \in Frame
        /\ Front(stack[a]) \in Seq(Frame) /\ Len(Front(stack[a])) = Len(stack[a]) - 1
        /\ \A i \in 1 .. Len(stack[a]) - 1 : Front(stack[a])[i] = stack[a][i]
    BY <1>1, FrontOf
  <1>3. Top(a) = Last(stack[a]) /\ Pop(stack[a]) = Front(stack[a])
    BY DEF Top, Pop
  <1>4. IsFrame(a, Len(stack[a]))
    BY <1>2 DEF IsFrame
  <1>5. Last(stack[a]).ref \in Location
    BY <1>2 DEF Frame
  <1> QED
    BY <1>1, <1>2, <1>3, <1>4, <1>5

LEMMA ExceptType ==
  ASSUME NEW D, NEW R, NEW f \in [D -> R], NEW x, NEW v, x \in D => v \in R
  PROVE  [f EXCEPT ![x] = v] \in [D -> R]
  OBVIOUS

LEMMA ChangeType ==
  ASSUME NEW f \in [Block -> Int], NEW x
  PROVE  [f EXCEPT ![x] = @ + 1] \in [Block -> Int] /\ [f EXCEPT ![x] = @ - 1] \in [Block -> Int]
  <1>1. x \in Block => f[x] + 1 \in Int /\ f[x] - 1 \in Int
    OBVIOUS
  <1> QED
    BY <1>1, ExceptType

LEMMA CallType ==
  /\ \A l \in Location : Call(l) \in Frame
  /\ \A f \in Frame : [f EXCEPT !.next = f.next + 1] \in Frame
  <1>1. \A l \in Location : Call(l) \in Frame
    BY DEF Call, Frame
  <1>2. ASSUME NEW f \in Frame PROVE [f EXCEPT !.next = f.next + 1] \in Frame
    <2>1. f.next + 1 \in Nat \ {0}
      BY DEF Frame
    <2> QED
      BY <2>1 DEF Frame
  <1> QED
    BY <1>1, <1>2

LEMMA TypeStep ==
  ASSUME GraphInv, [Next]_vars
  PROVE  Types'
  <1> USE DEF Types
  <1> USE DEF GraphInv
  <1>0. /\ \A c \in Client : c \in Agent /\ RootOf(c) \subseteq Roots
        /\ \A c \in Client, k \in 1 .. NRoot : Root(c, k) \in Roots
        /\ Roots \subseteq Location
    BY Kinds, Constants
  <1>1. ASSUME NEW c \in Client, ThreadInit(c) PROVE Types'
    BY <1>1 DEF ThreadInit, memory
  <1>2. ASSUME NEW c \in Client, NEW k \in FreeRoot(c), NEW b \in Block, NEW kids \in Kids(c),
               Malloc(c, k, b, kids)
        PROVE  Types'
    <2>1. Root(c, k) \in Roots /\ Root(c, k) \in Location
      BY <1>0 DEF FreeRoot
    <2>2. kids \in Seq(Roots) /\ Len(kids) \in 0 .. MaxEmbed
      BY KidsType, Constants
    <2>3. [block |-> b, todo |-> kids] \in [block : Block \cup {Null}, todo : Seq(Roots)]
      BY <2>2
    <2>4. NoFill \in [block : Block \cup {Null}, todo : Seq(Roots)]
      BY DEF NoFill
    <2>5. fill' \in [Client -> [block : Block \cup {Null}, todo : Seq(Roots)]]
      BY <1>2, <2>3, <2>4 DEF Malloc
    <2> QED
      BY <1>2, <2>1, <2>2, <2>5 DEF Malloc
  <1>3. ASSUME NEW c \in Client, LinkKid(c) PROVE Types'
    <2>1. fill[c].todo \in Seq(Roots) /\ fill[c].block \in Block \cup {Null} /\ fill[c] \in [block : Block \cup {Null}, todo : Seq(Roots)]
      OBVIOUS
    <2> DEFINE kid == ref[Head(fill[c].todo)]
    <2>2. fill[c] # NoFill /\ fill[c].todo # <<>>
      <3>1. fill[c] # NoFill
        BY <1>3 DEF LinkKid
      <3>2. Len(fill[c].todo) # 0
        BY <3>1 DEF Fillers, Filler
      <3> QED
        BY <3>1, <3>2
    <2>3. Head(fill[c].todo) \in Roots /\ Tail(fill[c].todo) \in Seq(Roots)
      BY <2>1, <2>2
    <2>4. kid \in Block \cup {Null, Data}
      BY <2>3, <1>0
    <2>5. ref' = [ref EXCEPT ![Filling(c)] = kid] /\ count' = [count EXCEPT ![kid] = @ + 1]
      BY <1>3 DEF LinkKid
    <2> HIDE DEF kid
    <2>6. ref' \in [Location -> Block \cup {Null, Data}] /\ count' \in [Block -> Int]
      BY <2>4, <2>5, ExceptType, ChangeType
    <2>7. NoFill \in [block : Block \cup {Null}, todo : Seq(Roots)]
      BY DEF NoFill
    <2>8. [fill[c] EXCEPT !.todo = Tail(fill[c].todo)] \in [block : Block \cup {Null}, todo : Seq(Roots)]
      BY <2>1, <2>3
    <2>9. fill' \in [Client -> [block : Block \cup {Null}, todo : Seq(Roots)]]
      BY <1>3, <2>7, <2>8 DEF LinkKid
    <2> QED
      BY <1>3, <2>6, <2>9 DEF LinkKid
  <1>4. ASSUME NEW c \in Client, NEW l \in RootOf(c),
               WriteData(c, l) \/ CopyHandle(c, l) \/ DropHandle(c, l)
        PROVE  Types'
    <2>1. l \in Roots
      BY <1>0
    <2>2. CASE WriteData(c, l)
      <3>1. ref' \in [Location -> Block \cup {Null, Data}]
        BY <2>2 DEF WriteData
      <3> QED
        BY <2>2, <3>1 DEF WriteData
    <2>3. CASE CopyHandle(c, l)
      BY <2>1, <2>3 DEF CopyHandle, memory
    <2>4. CASE DropHandle(c, l)
      <3>1. Call(l) \in Frame
        BY <2>1, <1>0 DEF Call, Frame
      <3>2. Push(stack[c], l) \in Seq(Frame)
        BY <3>1, <1>0 DEF Push
      <3>3. stack' \in [Agent -> Seq(Frame)] /\ ending' \in [Agent -> Roots \cup {NoRoot}]
        BY <2>1, <2>4, <3>2 DEF DropHandle
      <3>4. cnt' \in [Roots -> Int]
        BY <2>1, <2>4 DEF DropHandle
      <3> QED
        BY <2>4, <3>3, <3>4 DEF DropHandle, memory
    <2> QED
      BY <1>4, <2>2, <2>3, <2>4
  <1>5. ASSUME NEW c \in Client, NEW l \in RootOf(c), NEW d \in Client, SendRef(c, l, d) PROVE Types'
    <2>1. l \in Location
      BY <1>0
    <2>2. ref' \in [Location -> Block \cup {Null, Data}] /\ count' \in [Block -> Int]
      <3>1. ref' = [ref EXCEPT ![Mail(c, d)] = ref[l]] /\ count' = [count EXCEPT ![ref[l]] = @ + 1]
        BY <1>5 DEF SendRef
      <3>2. ref[l] \in Block \cup {Null, Data}
        BY <2>1
      <3> QED
        BY <3>1, <3>2, ExceptType, ChangeType
    <2> QED
      BY <1>5, <2>2 DEF SendRef
  <1>6. ASSUME NEW c \in Client, NEW d \in Client, NEW k \in FreeRoot(c), Unwrap(d, c, k) PROVE Types'
    <2>1. Root(c, k) \in Roots
      BY <1>0 DEF FreeRoot
    <2>2. Mail(d, c) \in Location
      BY Kinds
    <2>3. ref' \in [Location -> Block \cup {Null, Data}] /\ cnt' \in [Roots -> Int] /\ use' \subseteq Roots
      <3>1. ref[Mail(d, c)] \in Block \cup {Null, Data}
        BY <2>2
      <3>2. ref' \in [Location -> Block \cup {Null, Data}]
        BY <1>6, <3>1 DEF Unwrap
      <3>3. cnt' = [cnt EXCEPT ![Root(c, k)] = 1] /\ use' = use \cup {Root(c, k)}
        BY <1>6 DEF Unwrap
      <3>4. cnt' \in [Roots -> Int]
        BY <3>3, ExceptType
      <3> QED
        BY <2>1, <3>2, <3>3, <3>4
    <2> QED
      BY <1>6, <2>3 DEF Unwrap
  <1>7. ASSUME NEW c \in Client, Fail(c) PROVE Types'
    <2>1. NoFill \in [block : Block \cup {Null}, todo : Seq(Roots)] /\ <<>> \in Seq(Frame)
      BY DEF NoFill
    <2>2. fill' \in [Client -> [block : Block \cup {Null}, todo : Seq(Roots)]]
      BY <1>7, <2>1 DEF Fail
    <2> QED
      BY <1>7, <2>1, <2>2 DEF Fail, memory
  <1>8. ASSUME NEW a \in Agent, ReadCount(a) PROVE Types'
    <2> DEFINE f == Top(a)
    <2>1. Pop(stack[a]) \in Seq(Frame) /\ f \in Frame
      BY <1>8, TopFrame DEF ReadCount
    <2>2. CASE stack' = [stack EXCEPT ![a] = Pop(@)]
      <3>1. stack' \in [Agent -> Seq(Frame)]
        BY <2>1, <2>2
      <3> QED
        BY <1>8, <3>1 DEF ReadCount, memory
    <2>3. CASE ~ (stack' = [stack EXCEPT ![a] = Pop(@)])
      <3> DEFINE n == count[ref[f.ref]]
                 g == [f EXCEPT !.at = IF Shared(n) THEN "unlink" ELSE "kids", !.seen = n]
      <3>1. ref[f.ref] # Null
        BY <1>8, <2>3 DEF ReadCount
      <3>2. f.at = "read" /\ f.ref \in Location
        BY <1>8, <2>1 DEF ReadCount, Frame
      <3>3. IsFrame(a, Len(stack[a])) /\ f = stack[a][Len(stack[a])]
        BY <1>8, TopFrame DEF ReadCount
      <3>4. ref[f.ref] \in Block
        BY <3>1, <3>3, FrameObject
      <3>5. n \in Int
        BY <3>4
      <3>6. g \in Frame
        BY <2>1, <3>5 DEF Frame
      <3>7. stack' = [stack EXCEPT ![a] = Append(Pop(@), g)]
        BY <1>8, <2>3 DEF ReadCount, SetTop
      <3> HIDE DEF g
      <3>8. stack' \in [Agent -> Seq(Frame)]
        BY <2>1, <3>6, <3>7
      <3> QED
        BY <1>8, <3>8 DEF ReadCount, memory
    <2> QED
      BY <2>2, <2>3
  <1>9. ASSUME NEW a \in Agent, ReleaseKid(a) PROVE Types'
    <2> DEFINE f == Top(a)  b == ref[f.ref]
               g == [f EXCEPT !.next = @ + 1]
               h == Call(Word(b, f.next))
    <2>1. Pop(stack[a]) \in Seq(Frame) /\ f \in Frame
      BY <1>9, TopFrame DEF ReleaseKid
    <2>2. IsFrame(a, Len(stack[a])) /\ f = stack[a][Len(stack[a])]
      BY <1>9, TopFrame DEF ReleaseKid
    <2>3. b \in Block /\ f.next \in 1 .. MaxEmbed
      <3>1. b \in live
        BY <1>9, <2>2 DEF ReleaseKid, Frames, FramesOf, FrameOk, IsFrame
      <3>2. embed[b] \in 0 .. MaxEmbed /\ f.next \in Nat \ {0}
        BY <2>1, <3>1 DEF Frame
      <3> QED
        BY <1>9, <3>1, <3>2, Constants DEF ReleaseKid
    <2>4. Word(b, f.next) \in Location
      BY <2>3, Kinds
    <2>5. h \in Frame
      BY <2>4, CallType
    <2>6. g \in Frame
      BY <2>1, CallType
    <2>7. stack' = [stack EXCEPT ![a] = Append(Append(Pop(@), g), h)]
      BY <1>9 DEF ReleaseKid, Push
    <2> HIDE DEF g, h
    <2>8. Append(Append(Pop(stack[a]), g), h) \in Seq(Frame)
      BY <2>1, <2>5, <2>6
    <2>9. stack' \in [Agent -> Seq(Frame)]
      BY <2>7, <2>8
    <2> QED
      BY <1>9, <2>9 DEF ReleaseKid, memory
  <1>10. ASSUME NEW a \in Agent, UnlinkRef(a) PROVE Types'
    <2>1. Pop(stack[a]) \in Seq(Frame) /\ Top(a).ref \in Location
      BY <1>10, TopFrame DEF UnlinkRef
    <2>2. stack' \in [Agent -> Seq(Frame)]
      BY <1>10, <2>1 DEF UnlinkRef
    <2>3. ref' \in [Location -> Block \cup {Null, Data}]
      BY <1>10 DEF UnlinkRef
    <2>4. count' = [count EXCEPT ![ref[Top(a).ref]] = @ - 1]
      BY <1>10 DEF UnlinkRef
    <2>5. count' \in [Block -> Int]
      BY <2>4, ChangeType
    <2> QED
      BY <1>10, <2>2, <2>3, <2>5 DEF UnlinkRef
  <1>11. ASSUME NEW a \in Agent, EndRoot(a) PROVE Types'
    <2>1. cnt' = [cnt EXCEPT ![ending[a]] = 0]
      BY <1>11 DEF EndRoot
    <2>2. cnt' \in [Roots -> Int]
      BY <2>1, ExceptType
    <2> QED
      BY <1>11, <2>2 DEF EndRoot, memory
  <1>12. ASSUME NEW c \in Client, StartRecovery(c) PROVE Types'
    BY <1>12 DEF StartRecovery, memory
  <1>13. ASSUME NEW l \in UNION {RootOf(c) : c \in Client}, RecoverRoot(l) PROVE Types'
    <2>1. l \in Roots
      BY DEF Roots
    <2>2. Call(l) \in Frame
      BY <2>1, <1>0 DEF Call, Frame
    <2>3. Push(stack[Monitor], l) \in Seq(Frame) /\ <<>> \in Seq(Frame)
      BY <2>2, Constants DEF Push
    <2>4. stack' \in [Agent -> Seq(Frame)] /\ ending' \in [Agent -> Roots \cup {NoRoot}]
      BY <1>13, <2>1, <2>3 DEF RecoverRoot
    <2> QED
      BY <1>13, <2>4 DEF RecoverRoot, memory
  <1>14. CASE Recovered
    BY <1>14 DEF Recovered, memory
  <1>15. CASE UNCHANGED vars
    BY <1>15 DEF vars, memory
  <1> HIDE DEF Types
  <1> QED
    BY <1>1, <1>2, <1>3, <1>4, <1>5, <1>6, <1>7, <1>8, <1>9, <1>10, <1>11, <1>12, <1>13, <1>14, <1>15
    DEF Next, Work, Release, Recover
-----------------------------------------------------------------------------
(* One lemma per action. *)

LEMMA AllStay ==
  ASSUME GraphInv, stack' = stack, \A a, i : IsFrame(a, i) => FrameStays(a, i)
  PROVE  Frames' /\ NoSharedFrame'
  <1>1. ASSUME NEW a \in Agent PROVE FramesOf(a)'
    <2>1. \A i \in 1 .. Len(stack[a]) : FrameStays(a, i)
      BY DEF IsFrame
    <2>2. FramesOf(a)
      BY DEF GraphInv, Frames
    <2> QED
      BY <2>1, <2>2, FramesStay
  <1> QED
    BY <1>1 DEF GraphInv, NoSharedFrame, Frames

(* What is known of a frame and the object it is at. *)
LEMMA AnyFrame ==
  ASSUME GraphInv, NEW a, NEW i, IsFrame(a, i), NEW f, f = stack[a][i], NEW b, b = ref[f.ref]
  PROVE  /\ f \in Frame /\ f.ref \in Location /\ Counts(f.ref)
         /\ f.at # "read" => b \in live /\ b \in Block
         /\ f.at = "kids" => /\ RefersTo(b) = {f.ref} /\ count[b] = 1 /\ f.next <= embed[b] + 1
                             /\ \A j \in 1 .. f.next - 1 : j \in 1 .. embed[b] /\ j \in 1 .. MaxEmbed
  <1>1. f \in Frame /\ f.ref \in Location
    BY FrameType DEF GraphInv
  <1>2. FrameOk(a, i)
    BY DEF GraphInv, Frames, FramesOf, IsFrame
  <1>3. Counts(f.ref) /\ (f.at # "read" => b \in live)
    BY <1>2 DEF FrameOk
  <1>4. b \in live => b \in Block /\ embed[b] \in 0 .. MaxEmbed
    BY DEF GraphInv, Types
  <1>5. f.at = "kids" => RefersTo(b) = {f.ref} /\ count[b] = 1 /\ f.next <= embed[b] + 1
    BY <1>2 DEF FrameOk, KidsFrame
  <1>6. f.next \in Nat /\ MaxEmbed \in Nat
    BY <1>1, Constants DEF Frame
  <1> QED
    BY <1>1, <1>3, <1>4, <1>5, <1>6

LEMMA MallocStep ==
  ASSUME GraphInv, [Next]_vars, NEW c \in Client, NEW k \in FreeRoot(c), NEW b \in Block,
         NEW kids \in Kids(c), Malloc(c, k, b, kids)
  PROVE  GraphInv' /\ Refines
  <1> DEFINE l == Root(c, k)
  <1>0. Types /\ Types' /\ CountsByKind /\ CountsByKind'
    BY TypeStep, CountsCases, CountsCasesNext DEF GraphInv
  <1>1. /\ l \in RootOf(c) /\ l \in Roots /\ l \in Location /\ l \notin use
        /\ status[c] = "run" /\ fill[c] = NoFill /\ ending[c] = NoRoot /\ b \notin live
        /\ use' = use \cup {l} /\ live' = live \cup {b} /\ b # Null
        /\ \A x, y : l # Word(x, y) /\ l # Mail(x, y)
    BY Kinds, Constants DEF FreeRoot, Malloc, Ready
  <1>2. /\ ref' = [ref EXCEPT ![l] = b] /\ count' = [count EXCEPT ![b] = 1]
        /\ embed' = [embed EXCEPT ![b] = Len(kids)] /\ UNCHANGED <<status, stack, ending, patient, orphan>>
        /\ fill' = [fill EXCEPT ![c] = IF kids = <<>> THEN NoFill ELSE [block |-> b, todo |-> kids]]
    BY DEF Malloc
  <1>3. /\ kids \in Seq(Roots) /\ Len(kids) \in {0, MaxEmbed}
        /\ \A i \in 1 .. Len(kids) : kids[i] \in RootOf(c) \cap use
        /\ kids = <<>> <=> Len(kids) = 0
    BY <1>0, KidsType
  <1>4. /\ fill'[c] = IF kids = <<>> THEN NoFill ELSE [block |-> b, todo |-> kids]
        /\ \A d \in Client : d # c => fill'[d] = fill[d]
    BY <1>0, <1>2 DEF Types
  <1>5. \A d \in Client : fill[d].block \in Block => fill[d].block \in live
    <2>1. \A d \in Client : fill[d].block \in Block => fill[d] # NoFill
      BY Constants DEF NoFill
    <2> QED
      BY <2>1 DEF GraphInv, Fillers, Filler
  <1>6. \A m \in Location : /\ Target(m)' = IF m = l THEN b ELSE Target(m)
                            /\ Counts(m) => Counts(m)'
    <2> TAKE m \in Location
    <2>1. CASE m \in Roots
      <3>1. Counts(m) <=> m \in use
        BY <1>0, <2>1 DEF CountsByKind
      <3>2. Counts(m)' <=> m \in use'
        BY <1>0, <2>1 DEF CountsByKind
      <3> QED
        BY <1>0, <1>1, <1>2, <3>1, <3>2 DEF Target, Types
    <2>2. CASE \E x \in Block, i \in 1 .. MaxEmbed : m = Word(x, i)
      <3>1. PICK x \in Block, i \in 1 .. MaxEmbed : m = Word(x, i)
        BY <2>2
      <3>2. m # l /\ ref'[m] = ref[m]
        BY <1>0, <1>1, <1>2, <3>1 DEF Types
      <3>3. CASE x = b
        <4>1. ~Counts(m)
          BY <1>0, <1>1, <3>1, <3>3 DEF CountsByKind
        <4>2. i <= embed'[b] => kids # <<>> /\ Len(kids) = MaxEmbed
          BY <1>0, <1>2, <1>3 DEF Types
        <4>3. embed'[b] = Len(kids) /\ MaxEmbed \in Nat
          BY <1>0, <1>2, Constants DEF Types
        <4>4. ~Counts(m)'
          <5> SUFFICES ASSUME Counts(m)' PROVE FALSE
            OBVIOUS
          <5>1. i <= embed'[b] /\ \A d \in Client : fill'[d].block = b => i <= embed'[b] - Len(fill'[d].todo)
            BY <1>0, <3>1, <3>3 DEF CountsByKind
          <5>2. fill'[c].block = b /\ fill'[c].todo = kids
            BY <1>4, <4>2, <5>1
          <5> QED
            BY <5>1, <5>2, <4>3, <1>3
        <4> QED
          BY <3>2, <4>1, <4>4 DEF Target
      <3>4. CASE x # b
        <4>1. embed'[x] = embed[x] /\ (x \in live' <=> x \in live)
          BY <1>0, <1>1, <1>2, <3>4 DEF Types
        <4>2. fill[c].block # x /\ fill'[c].block # x
          BY <1>1, <1>4, <3>4, Constants DEF NoFill
        <4>3. Counts(m)' <=> Counts(m)
          BY <1>0, <1>4, <3>1, <4>1, <4>2 DEF CountsByKind
        <4> QED
          BY <3>2, <4>3 DEF Target
      <3> QED
        BY <3>3, <3>4
    <2>3. CASE \E x, y \in Client : m = Mail(x, y)
      <3>1. Counts(m) /\ Counts(m)'
        BY <1>0, <2>3 DEF CountsByKind
      <3> QED
        BY <1>0, <1>1, <1>2, <2>3, <3>1 DEF Target, Types
    <2> QED
      BY <2>1, <2>2, <2>3, AnyLocation
  <1> HIDE DEF l
  <1>7. Target(l) = Null /\ \A m \in Location : Target(m) # b
    BY <1>0, <1>1, TargetLive DEF GraphInv, Target, CountsByKind
  <1>8. /\ RefersTo(b)' = {l} /\ Cardinality(RefersTo(b)') = 1
        /\ \A x \in Block : x # b => RefersTo(x)' = RefersTo(x)
    <2>1. \A m \in Location : m \in RefersTo(b)' <=> m = l
      BY <1>6, <1>7, TargetRefers
    <2>2. RefersTo(b)' = {l}
      BY <2>1, <1>1, RefersLocation
    <2>3. ASSUME NEW x \in Block, x # b PROVE RefersTo(x)' = RefersTo(x)
      <3>1. \A m \in Location : Target(m)' = x <=> Target(m) = x
        BY <1>6, <1>7, <2>3, Constants
      <3> QED
        BY <3>1, SameTarget
    <2> QED
      BY <2>2, <2>3, FS_Singleton
  <1>9. NoWildPointer'
    <2>1. \A m \in Location : Target(m)' \in live' \cup {Null}
      BY <1>1, <1>6, TargetLive DEF GraphInv
    <2> QED
      BY <2>1 DEF NoWildPointer, Target
  <1>10. CountExact'
    <2>1. count'[b] = 1 /\ Cardinality(RefersTo(b)') = 1
      BY <1>0, <1>2, <1>8 DEF Types
    <2>2. \A x \in live' : x # b => x \in live /\ count'[x] = count[x] /\ RefersTo(x)' = RefersTo(x)
      BY <1>0, <1>1, <1>2, <1>8 DEF Types
    <2> QED
      BY <1>2, <2>1, <2>2 DEF GraphInv, CountExact
  <1>11. Fillers'
    <2>1. ASSUME kids # <<>> PROVE Filler(c)'
      <3>1. fill'[c].block = b /\ fill'[c].todo = kids
        BY <1>4, <2>1
      <3>2. Len(kids) = MaxEmbed /\ embed'[b] = Len(kids) /\ MaxEmbed \in Nat \ {0}
        BY <1>0, <1>2, <1>3, <2>1, Constants DEF Types
      <3>3. \A i \in 1 .. Len(kids) : kids[i] \in RootOf(c) \cap use' /\ ref'[kids[i]] # b
        <4> TAKE i \in 1 .. Len(kids)
        <4>1. kids[i] \in RootOf(c) /\ kids[i] \in use /\ kids[i] # l /\ kids[i] \in Location
          BY <1>1, <1>3, Kinds
        <4>2. Target(kids[i]) = ref[kids[i]]
          BY <1>0, <4>1, Kinds DEF Target, CountsByKind
        <4>3. ref'[kids[i]] # b
          BY <1>2, <1>7, <4>1, <4>2 DEF Types
        <4> QED
          BY <1>1, <4>1, <4>3
      <3>4. status'[c] = "run" /\ ending'[c] = NoRoot /\ b \in live'
        BY <1>1, <1>2
      <3>5. \E m \in RootOf(c) : RefersTo(b)' = {m}
        BY <1>1, <1>8
      <3> QED
        BY <3>1, <3>2, <3>3, <3>4, <3>5 DEF Filler
    <2>2. ASSUME NEW d \in Client, d # c, fill[d] # NoFill PROVE Filler(d)'
      <3>1. Filler(d)
        BY <2>2 DEF GraphInv, Fillers
      <3>2. PICK x : x = fill[d].block
        OBVIOUS
      <3>3. x \in live /\ x \in Block /\ x # b /\ fill'[d] = fill[d]
        BY <1>0, <1>1, <1>4, <2>2, <3>1, <3>2 DEF Filler, Types
      <3>4. RefersTo(x)' = RefersTo(x) /\ embed'[x] = embed[x] /\ x \in live'
        BY <1>0, <1>1, <1>2, <1>8, <3>3 DEF Types
      <3>5. \A m \in RootOf(d) \cap use : m \in use' /\ ref'[m] = ref[m]
        BY <1>0, <1>1, <1>2, Kinds DEF Types
      <3> QED
        BY <1>2, <3>1, <3>2, <3>3, <3>4, <3>5 DEF Filler
    <2> QED
      BY <1>4, <2>1, <2>2 DEF Fillers
  <1>12. RootsHold'
    <2>1. \A d \in Client : \A m \in RootOf(d) : m \in use' => m = l \/ (m \in use /\ ref'[m] = ref[m])
      BY <1>0, <1>1, <1>2, Kinds DEF Types
    <2>2. ref'[l] = b /\ \A d \in Client : l \in RootOf(d) => d = c
      BY <1>0, <1>1, <1>2, Kinds DEF Types
    <2> QED
      BY <1>1, <1>2, <2>1, <2>2 DEF GraphInv, RootsHold
  <1>13. Endings'
    <2>1. \A a \in Agent : ending[a] # NoRoot => ending[a] \in use /\ ref'[ending[a]] = ref[ending[a]]
      <3> SUFFICES ASSUME NEW a \in Agent, ending[a] # NoRoot
                   PROVE  ending[a] \in use /\ ref'[ending[a]] = ref[ending[a]]
        OBVIOUS
      <3>1. ending[a] \in use
        BY Constants DEF GraphInv, Endings
      <3> QED
        BY <1>0, <1>1, <1>2, <3>1, Kinds DEF Types
    <2>2. Endings
      BY DEF GraphInv
    <2>3. \A d \in Client : ending[d] # NoRoot => fill'[d] = NoFill
      BY <1>1, <1>4, <2>2 DEF Endings
    <2>4. \A d \in Client : ending[d] # NoRoot => ending[d] \in RootOf(d) \cap use' /\ status[d] = "run"
      BY <1>1, <2>2 DEF Endings
    <2>5. ending[Monitor] # NoRoot => patient # 0 /\ ending[Monitor] \in RootOf(patient) \cap use'
      BY <1>1, <2>2 DEF Endings
    <2> QED
      BY <1>2, <2>1, <2>2, <2>3, <2>4, <2>5 DEF Endings
  <1>14. Frames' /\ NoSharedFrame'
    <2> SUFFICES ASSUME NEW a, NEW i, IsFrame(a, i), NEW f, f = stack[a][i], NEW x, x = ref[f.ref]
                 PROVE  Undisturbed(f, x)
      BY <1>2, AllStay DEF FrameStays
    <2>1. /\ f \in Frame /\ f.ref \in Location /\ Counts(f.ref)
          /\ f.at # "read" => x \in live /\ x \in Block
      BY AnyFrame
    <2>2. f.ref # l
      BY <1>0, <1>1, <2>1 DEF CountsByKind
    <2>3. ref'[f.ref] = x
      BY <1>0, <1>2, <2>1, <2>2 DEF Types
    <2>4. f.at # "read" => x # b /\ x \in live' /\ embed'[x] = embed[x] /\ count'[x] = count[x] /\ RefersTo(x)' = RefersTo(x)
      BY <1>0, <1>1, <1>2, <1>8, <2>1 DEF Types
    <2>5. Counts(f.ref)'
      BY <1>6, <2>1
    <2>6. f.at = "kids" => \A j \in 1 .. f.next - 1 : ref'[Word(x, j)] = ref[Word(x, j)]
      <3> SUFFICES ASSUME f.at = "kids", NEW j \in 1 .. f.next - 1
                   PROVE  ref'[Word(x, j)] = ref[Word(x, j)]
        OBVIOUS
      <3>1. Word(x, j) \in Location
        BY <2>1, AnyFrame, Kinds
      <3> QED
        BY <1>0, <1>1, <1>2, <3>1 DEF Types
    <2> QED
      BY <2>1, <2>3, <2>4, <2>5, <2>6 DEF Undisturbed
  <1>15. Refines
    BY <1>1, <1>6, <1>7, RefinesNew DEF Alike
  <1> QED
    BY <1>0, <1>9, <1>10, <1>11, <1>12, <1>13, <1>14, <1>15 DEF GraphInv

(* A step by which m refers to b as well, and by which b counts it. *)
LEMMA LinkEffect ==
  ASSUME GraphInv, NEW m \in Location, NEW b \in live, Target(m) = Null,
         \A x \in Location : Target(x)' = IF x = m THEN b ELSE Target(x),
         count' = [count EXCEPT ![b] = @ + 1], UNCHANGED <<live, orphan>>
  PROVE  /\ NoWildPointer' /\ CountExact' /\ Refines
         /\ \A x \in Block : x # b => RefersTo(x)' = RefersTo(x) /\ count'[x] = count[x]
  <1>1. b \in Block /\ b # Null /\ live \subseteq Block
    BY Constants DEF GraphInv, Types
  <1>2. Cardinality(RefersTo(b)') = Cardinality(RefersTo(b)) + 1
    BY <1>1, MoreTarget
  <1>3. ASSUME NEW x \in Block, x # b PROVE RefersTo(x)' = RefersTo(x) /\ count'[x] = count[x]
    <2>1. \A y \in Location : Target(y)' = x <=> Target(y) = x
      BY <1>3, Constants
    <2> QED
      BY <1>3, <2>1, SameTarget DEF GraphInv, Types
  <1>4. CountExact'
    <2>1. count'[b] = count[b] + 1 /\ count[b] \in Int
      BY <1>1 DEF GraphInv, Types
    <2>2. \A x \in live' : x # b => x \in live /\ count'[x] = count[x] /\ RefersTo(x)' = RefersTo(x)
      BY <1>1, <1>3
    <2>3. /\ count[b] >= Cardinality(RefersTo(b))
          /\ b \notin orphan => count[b] = Cardinality(RefersTo(b))
      BY DEF GraphInv, CountExact
    <2>4. /\ count'[b] >= Cardinality(RefersTo(b)')
          /\ b \notin orphan' => count'[b] = Cardinality(RefersTo(b)')
      BY <1>2, <2>1, <2>3, FiniteRefers
    <2> QED
      BY <2>2, <2>4 DEF GraphInv, CountExact
  <1>5. NoWildPointer'
    <2>1. \A x \in Location : Target(x)' \in live' \cup {Null}
      BY TargetLive DEF GraphInv
    <2> QED
      BY <2>1 DEF NoWildPointer, Target
  <1>6. Refines
    BY <1>1, RefinesLink DEF Alike
  <1> QED
    BY <1>3, <1>4, <1>5, <1>6

LEMMA SendRefStep ==
  ASSUME GraphInv, [Next]_vars, NEW c \in Client, NEW l \in RootOf(c), NEW d \in Client, SendRef(c, l, d)
  PROVE  GraphInv' /\ Refines
  <1> DEFINE m == Mail(c, d)
  <1> PICK b : b = ref[l]
    OBVIOUS
  <1>0. Types /\ Types' /\ CountsByKind /\ CountsByKind'
    BY TypeStep, CountsCases, CountsCasesNext DEF GraphInv
  <1>1. /\ m \in Location /\ ref[m] = Null /\ l \in use
        /\ status[c] = "run" /\ fill[c] = NoFill /\ ending[c] = NoRoot
    BY Kinds DEF SendRef, Ready
  <1>2. /\ ref' = [ref EXCEPT ![m] = b] /\ count' = [count EXCEPT ![b] = @ + 1]
        /\ UNCHANGED <<embed, live, use, cnt, status, fill, stack, ending, patient, orphan>>
    BY DEF SendRef
  <1>3. /\ b \in live /\ b \in Block /\ \A e \in Client : fill[e].block = b => e = c
        /\ \A a, i : IsFrame(a, i) /\ stack[a][i].at = "kids" => ref[stack[a][i].ref] # b
    BY <1>1, Held DEF GraphInv
  <1>4. \A x \in Location : (Counts(x)' <=> Counts(x)) /\ Target(x)' = IF x = m THEN b ELSE Target(x)
    <2> TAKE x \in Location
    <2>1. Counts(x)' <=> Counts(x)
      BY <1>0, <1>2, AnyLocation DEF CountsByKind
    <2>2. Counts(m)
      BY <1>0 DEF CountsByKind
    <2> QED
      BY <1>0, <1>1, <1>2, <2>1, <2>2 DEF Target, Types
  <1>5. Target(m) = Null
    BY <1>1 DEF Target
  <1>6. \A y, j : Word(y, j) # m
    BY Kinds
  <1>7. m \notin Roots /\ \A e \in Client : RootOf(e) \subseteq Roots
    BY Kinds
  <1> HIDE DEF m
  <1>8. /\ NoWildPointer' /\ CountExact' /\ Refines
        /\ \A x \in Block : x # b => RefersTo(x)' = RefersTo(x) /\ count'[x] = count[x]
    BY <1>1, <1>2, <1>3, <1>4, <1>5, LinkEffect
  <1>9. \A x \in Roots : ref'[x] = ref[x]
    BY <1>0, <1>1, <1>2, <1>7, Kinds DEF Types
  <1>10. Fillers'
    <2> SUFFICES ASSUME NEW e \in Client, fill[e] # NoFill PROVE Filler(e)'
      BY <1>2 DEF Fillers
    <2>1. Filler(e)
      BY DEF GraphInv, Fillers
    <2>2. PICK x : x = fill[e].block
      OBVIOUS
    <2>3. x \in live /\ x \in Block /\ x # b
      BY <1>0, <1>1, <1>3, <2>1, <2>2 DEF Filler, Types
    <2>4. RefersTo(x)' = RefersTo(x)
      BY <1>8, <2>3
    <2>5. \A y \in RootOf(e) : ref'[y] = ref[y]
      BY <1>7, <1>9
    <2> QED
      BY <1>2, <2>1, <2>2, <2>4, <2>5 DEF Filler
  <1>11. RootsHold'
    BY <1>2, <1>7, <1>9 DEF GraphInv, RootsHold
  <1>12. Endings'
    <2>1. \A a \in Agent : ending[a] # NoRoot => ref'[ending[a]] = ref[ending[a]]
      BY <1>0, <1>9 DEF Types
    <2> QED
      BY <1>2, <2>1 DEF GraphInv, Endings
  <1>13. Frames' /\ NoSharedFrame'
    <2> SUFFICES ASSUME NEW a, NEW i, IsFrame(a, i), NEW f, f = stack[a][i], NEW x, x = ref[f.ref]
                 PROVE  Undisturbed(f, x)
      BY <1>2, AllStay DEF FrameStays
    <2>1. /\ f \in Frame /\ f.ref \in Location /\ Counts(f.ref)
          /\ f.at # "read" => x \in live /\ x \in Block
      BY AnyFrame
    <2>2. f.ref # m
      BY FrameNotOf DEF GraphInv, m
    <2>3. ref'[f.ref] = x
      BY <1>0, <1>2, <2>1, <2>2 DEF Types
    <2>4. f.at = "kids" => x # b /\ count'[x] = count[x] /\ RefersTo(x)' = RefersTo(x)
      BY <1>3, <1>8, <2>1
    <2>5. f.at = "kids" => \A j \in 1 .. f.next - 1 : ref'[Word(x, j)] = ref[Word(x, j)]
      <3> SUFFICES ASSUME f.at = "kids", NEW j \in 1 .. f.next - 1
                   PROVE  ref'[Word(x, j)] = ref[Word(x, j)]
        OBVIOUS
      <3>1. Word(x, j) \in Location
        BY <2>1, AnyFrame, Kinds
      <3> QED
        BY <1>0, <1>2, <1>6, <3>1 DEF Types
    <2> QED
      BY <1>2, <1>4, <2>1, <2>3, <2>4, <2>5 DEF Undisturbed
  <1> QED
    BY <1>0, <1>8, <1>10, <1>11, <1>12, <1>13 DEF GraphInv

LEMMA LinkKidStep ==
  ASSUME GraphInv, [Next]_vars, NEW c \in Client, LinkKid(c)
  PROVE  GraphInv' /\ Refines
  <1> PICK o, todo : o = fill[c].block /\ todo = fill[c].todo
    OBVIOUS
  <1> PICK n : n = Len(todo)
    OBVIOUS
  <1> PICK b : b = ref[todo[1]]
    OBVIOUS
  <1> DEFINE m == Word(o, embed[o] - n + 1)
  <1>0. Types /\ Types' /\ CountsByKind /\ CountsByKind'
    BY TypeStep, CountsCases, CountsCasesNext DEF GraphInv
  <1>1. /\ status[c] = "run" /\ fill[c] # NoFill /\ ending[c] = NoRoot
        /\ o \in live /\ o \in Block /\ n \in Nat /\ n \in 1 .. embed[o] /\ todo \in Seq(Roots)
        /\ embed[o] \in 0 .. MaxEmbed /\ MaxEmbed \in Nat
        /\ \E l \in RootOf(c) : RefersTo(o) = {l}
        /\ \A i \in 1 .. n : todo[i] \in RootOf(c) \cap use /\ ref[todo[i]] # o
    <2>1. status[c] = "run" /\ fill[c] # NoFill
      BY DEF LinkKid
    <2>2. Filler(c)
      BY <2>1 DEF GraphInv, Fillers
    <2>3. fill[c] \in [block : Block \cup {Null}, todo : Seq(Roots)]
      BY <1>0 DEF Types
    <2>4. todo \in Seq(Roots)
      BY <2>3
    <2>5. o \in Block /\ embed[o] \in 0 .. MaxEmbed
      BY <1>0, <2>2 DEF Types, Filler
    <2> QED
      BY <2>1, <2>2, <2>4, <2>5, Constants DEF Filler
  <1>2. /\ ref' = [ref EXCEPT ![m] = b] /\ count' = [count EXCEPT ![b] = @ + 1]
        /\ fill' = [fill EXCEPT ![c] = IF Tail(todo) = <<>> THEN NoFill ELSE [@ EXCEPT !.todo = Tail(todo)]]
        /\ UNCHANGED <<embed, live, use, cnt, status, stack, ending, patient, orphan>>
    <2>1. Head(todo) = todo[1]
      BY <1>1
    <2> QED
      BY <2>1 DEF LinkKid, Filling
  <1>3. /\ todo[1] \in RootOf(c) \cap use /\ b # o
        /\ b \in live /\ b \in Block /\ \A e \in Client : fill[e].block = b => e = c
        /\ \A a, i : IsFrame(a, i) /\ stack[a][i].at = "kids" => ref[stack[a][i].ref] # b
    <2>1. todo[1] \in RootOf(c) \cap use /\ b # o
      BY <1>1
    <2> QED
      BY <1>1, <2>1, Held DEF GraphInv
  <1>4. \A e \in Client : fill[e].block = o => e = c
    <2>1. PICK l \in RootOf(c) : RefersTo(o) = {l}
      BY <1>1
    <2>2. l \in RefersTo(o)
      BY <2>1
    <2>3. Target(l) = o /\ l \in Location /\ Counts(l) /\ ref[l] = o
      BY <2>2, RefersLocation, TargetRefers, <1>1 DEF RefersTo
    <2>4. l \in use
      BY <1>0, <2>3, Kinds DEF CountsByKind
    <2> QED
      BY <1>1, <2>3, <2>4, Held DEF GraphInv
  <1>5. /\ embed[o] - n + 1 \in 1 .. MaxEmbed /\ embed[o] - n + 1 \in 1 .. embed[o]
        /\ m \in Location /\ m \notin Roots
    BY <1>1, Kinds
  <1>6. /\ Tail(todo) \in Seq(Roots) /\ Len(Tail(todo)) = n - 1
        /\ \A i \in 1 .. n - 1 : Tail(todo)[i] = todo[i + 1]
        /\ Tail(todo) = <<>> <=> n = 1
    <2>1. todo \in Seq(Roots) /\ Len(todo) = n /\ n \in Nat /\ todo # <<>>
      BY <1>1
    <2>2. Tail(todo) \in Seq(Roots) /\ Len(Tail(todo)) = n - 1
      BY <2>1
    <2>3. \A i \in 1 .. n - 1 : Tail(todo)[i] = todo[i + 1]
      BY <2>1
    <2> DEFINE rest == Tail(todo)
    <2> HIDE DEF rest
    <2>4. rest \in Seq(Roots) => (rest = <<>> <=> Len(rest) = 0)
      OBVIOUS
    <2> QED
      BY <2>1, <2>2, <2>3, <2>4 DEF rest
  <1>7. /\ \A e \in Client : e # c => fill'[e] = fill[e]
        /\ n = 1 => fill'[c] = NoFill /\ fill'[c].block = Null
        /\ n # 1 => fill'[c].block = o /\ fill'[c].todo = Tail(todo) /\ fill'[c] # NoFill
    <2>1. fill'[c] = IF n = 1 THEN NoFill ELSE [fill[c] EXCEPT !.todo = Tail(todo)]
      BY <1>0, <1>2, <1>6 DEF Types
    <2>2. fill[c] \in [block : Block \cup {Null}, todo : Seq(Roots)]
      BY <1>0 DEF Types
    <2>3. NoFill.block = Null
      BY DEF NoFill
    <2>4. o # Null
      BY <1>1, Constants
    <2>5. \A e \in Client : e # c => fill'[e] = fill[e]
      BY <1>0, <1>2 DEF Types
    <2>6. n # 1 => fill'[c].block = o /\ fill'[c].todo = Tail(todo)
      BY <2>1, <2>2
    <2> QED
      BY <2>1, <2>3, <2>4, <2>5, <2>6
  <1>8. \A x \in Location : (Counts(x)' <=> Counts(x) \/ x = m) /\ (x = m => ~Counts(x))
    <2> TAKE x \in Location
    <2>1. CASE x \in Roots
      BY <1>0, <1>2, <1>5, <2>1 DEF CountsByKind
    <2>2. CASE \E y, z \in Client : x = Mail(y, z)
      BY <1>0, <2>2, Kinds DEF CountsByKind
    <2>3. CASE \E y \in Block, i \in 1 .. MaxEmbed : x = Word(y, i)
      <3> PICK y \in Block, i \in 1 .. MaxEmbed : x = Word(y, i)
        BY <2>3
      <3>1. CASE y # o
        <4>1. x # m
          BY <3>1, Kinds
        <4>2. fill'[c].block # y /\ fill[c].block # y
          BY <1>7, <3>1, Constants
        <4>3. Counts(x)' <=> Counts(x)
          BY <1>0, <1>2, <1>7, <4>2 DEF CountsByKind
        <4> QED
          BY <4>1, <4>3
      <3>2. CASE y = o
        <4>1. x = m <=> i = embed[o] - n + 1
          BY <3>2, Kinds
        <4>2. Counts(x) <=> i <= embed[o] /\ i <= embed[o] - n
          BY <1>0, <1>1, <1>4, <3>2 DEF CountsByKind
        <4>3. Counts(x)' <=> i <= embed[o] /\ i <= embed[o] - (n - 1)
          <5>1. Counts(x)' <=> /\ o \in live /\ i <= embed[o]
                               /\ \A e \in Client : fill'[e].block = o => i <= embed[o] - Len(fill'[e].todo)
            BY <1>0, <1>2, <3>2 DEF CountsByKind
          <5>2. \A e \in Client : fill'[e].block = o => e = c /\ n # 1
            BY <1>1, <1>4, <1>7, Constants
          <5>3. o \in live /\ embed[o] \in Int /\ n \in Int
            BY <1>1
          <5>4. CASE n = 1
            <6>1. Counts(x)' <=> i <= embed[o]
              BY <5>1, <5>2, <5>3, <5>4
            <6>2. embed[o] - (n - 1) = embed[o]
              BY <5>3, <5>4
            <6> QED
              BY <6>1, <6>2
          <5>5. CASE n # 1
            <6>1. fill'[c].block = o /\ Len(fill'[c].todo) = n - 1
              BY <1>6, <1>7, <5>5
            <6> QED
              BY <5>1, <5>2, <5>3, <6>1
          <5> QED
            BY <5>4, <5>5
        <4>4. i \in Int /\ embed[o] \in Int /\ n \in 1 .. embed[o]
          BY <1>1
        <4> HIDE DEF m
        <4> QED
          BY <4>1, <4>2, <4>3, <4>4
      <3> QED
        BY <3>1, <3>2
    <2> QED
      BY <2>1, <2>2, <2>3, AnyLocation
  <1> HIDE DEF m
  <1>9. \A x \in Location : Target(x)' = IF x = m THEN b ELSE Target(x)
    BY <1>0, <1>2, <1>8 DEF Target, Types
  <1>10. /\ NoWildPointer' /\ CountExact' /\ Refines
         /\ \A x \in Block : x # b => RefersTo(x)' = RefersTo(x) /\ count'[x] = count[x]
    <2>1. Target(m) = Null
      BY <1>5, <1>8 DEF Target
    <2> QED
      BY <1>2, <1>3, <1>5, <1>9, <2>1, LinkEffect
  <1>11. \A x \in Roots : ref'[x] = ref[x]
    BY <1>0, <1>2, <1>5, Kinds DEF Types
  <1>12. \A e \in Client : RootOf(e) \subseteq Roots
    BY Kinds
  <1>13. Fillers'
    <2>1. ASSUME n # 1 PROVE Filler(c)'
      <3>1. RefersTo(o)' = RefersTo(o)
        BY <1>1, <1>3, <1>10
      <3>2. Len(Tail(todo)) \in 1 .. embed[o]
        BY <1>1, <1>6, <2>1
      <3>3. \A i \in 1 .. Len(Tail(todo)) : Tail(todo)[i] \in RootOf(c) \cap use /\ ref'[Tail(todo)[i]] # o
        <4> TAKE i \in 1 .. Len(Tail(todo))
        <4>1. i + 1 \in 1 .. n /\ Tail(todo)[i] = todo[i + 1]
          BY <1>1, <1>6
        <4>2. todo[i + 1] \in RootOf(c) \cap use /\ ref[todo[i + 1]] # o
          BY <1>1, <4>1
        <4> QED
          BY <1>11, <1>12, <4>1, <4>2
      <3>4. /\ status'[c] = "run" /\ ending'[c] = NoRoot /\ o \in live' /\ embed'[o] = embed[o]
            /\ \E l \in RootOf(c) : RefersTo(o)' = {l}
        BY <1>1, <1>2, <3>1
      <3> QED
        BY <1>2, <1>7, <2>1, <3>2, <3>3, <3>4 DEF Filler
    <2>2. ASSUME NEW e \in Client, fill[e] # NoFill, e # c PROVE Filler(e)'
      <3>1. Filler(e) /\ fill'[e] = fill[e]
        BY <1>7, <2>2 DEF GraphInv, Fillers
      <3>2. PICK x : x = fill[e].block
        OBVIOUS
      <3>3. x \in live /\ x \in Block /\ x # b
        BY <1>0, <1>3, <2>2, <3>1, <3>2 DEF Filler, Types
      <3>4. RefersTo(x)' = RefersTo(x)
        BY <1>10, <3>3
      <3>5. \A y \in RootOf(e) : ref'[y] = ref[y]
        BY <1>11, <1>12
      <3>6. x \in live' /\ embed'[x] = embed[x] /\ UNCHANGED <<use, status, ending>>
        BY <1>2, <3>3
      <3> QED
        BY <3>1, <3>2, <3>4, <3>5, <3>6 DEF Filler
    <2> QED
      BY <1>7, <2>1, <2>2 DEF Fillers
  <1>14. RootsHold'
    BY <1>2, <1>11, <1>12 DEF GraphInv, RootsHold
  <1>15. Endings'
    <2>1. \A a \in Agent : ending[a] # NoRoot => ref'[ending[a]] = ref[ending[a]]
      BY <1>0, <1>11 DEF Types
    <2>2. \A e \in Client : ending[e] # NoRoot => fill'[e] = NoFill
      BY <1>1, <1>7 DEF GraphInv, Endings
    <2> QED
      BY <1>2, <2>1, <2>2 DEF GraphInv, Endings
  <1>16. Frames' /\ NoSharedFrame'
    <2> SUFFICES ASSUME NEW a, NEW i, IsFrame(a, i), NEW f, f = stack[a][i], NEW x, x = ref[f.ref]
                 PROVE  Undisturbed(f, x)
      BY <1>2, AllStay DEF FrameStays
    <2>1. /\ f \in Frame /\ f.ref \in Location /\ Counts(f.ref)
          /\ f.at # "read" => x \in live /\ x \in Block
      BY AnyFrame
    <2>2. f.ref # m
      BY <1>8, <2>1
    <2>3. ref'[f.ref] = x
      BY <1>0, <1>2, <2>1, <2>2 DEF Types
    <2>4. f.at = "kids" => x # b /\ count'[x] = count[x] /\ RefersTo(x)' = RefersTo(x)
      BY <1>3, <1>10, <2>1
    <2>5. f.at = "kids" => x # o
      BY <1>1, <2>1, NotFilled DEF GraphInv
    <2>6. f.at = "kids" => \A j \in 1 .. f.next - 1 : ref'[Word(x, j)] = ref[Word(x, j)]
      <3> SUFFICES ASSUME f.at = "kids", NEW j \in 1 .. f.next - 1
                   PROVE  ref'[Word(x, j)] = ref[Word(x, j)]
        OBVIOUS
      <3>1. Word(x, j) \in Location
        BY <2>1, AnyFrame, Kinds
      <3>2. Word(x, j) # m
        BY <2>5, Kinds DEF m
      <3> QED
        BY <1>0, <1>2, <3>1, <3>2 DEF Types
    <2> QED
      BY <1>2, <1>8, <2>1, <2>3, <2>4, <2>6 DEF Undisturbed
  <1> QED
    BY <1>0, <1>10, <1>13, <1>14, <1>15, <1>16 DEF GraphInv

LEMMA WriteDataStep ==
  ASSUME GraphInv, [Next]_vars, NEW c \in Client, NEW l \in RootOf(c), WriteData(c, l)
  PROVE  GraphInv' /\ Refines
  <1> PICK b : b = ref[l]
    OBVIOUS
  <1>0. Types /\ Types' /\ CountsByKind /\ CountsByKind'
    BY TypeStep, CountsCases, CountsCasesNext DEF GraphInv
  <1>1. /\ l \in use /\ status[c] = "run" /\ ending[c] = NoRoot /\ embed[b] = 0
        /\ ref' = [m \in Location |-> IF m \in WordOf(b) THEN Data ELSE ref[m]]
        /\ UNCHANGED <<count, embed, live, use, cnt, status, fill, stack, ending, patient, orphan>>
    BY DEF WriteData, Ready
  <1>2. b \in live /\ b \in Block
    BY <1>1, Held DEF GraphInv
  <1>3. \A x \in Location : (Counts(x)' <=> Counts(x))
    BY <1>0, <1>1, AnyLocation DEF CountsByKind
  <1>4. \A x \in Location : Counts(x) => x \notin WordOf(b)
    <2> SUFFICES ASSUME NEW i \in 1 .. MaxEmbed, Counts(Word(b, i)) PROVE FALSE
      BY DEF WordOf
    <2>1. i <= embed[b]
      BY <1>0, <1>2 DEF CountsByKind
    <2> QED
      BY <1>1, <2>1
  <1>5. \A x \in Location : Counts(x) => ref'[x] = ref[x]
    BY <1>1, <1>4
  <1>6. \A x \in Location : Target(x)' = Target(x)
    BY <1>3, <1>5 DEF Target
  <1>7. NoWildPointer' /\ CountExact' /\ Refines /\ \A x \in Block : RefersTo(x)' = RefersTo(x)
    BY <1>1, <1>6, Quiet
  <1>8. \A x \in Roots : ref'[x] = ref[x] /\ x \in Location
    <2>1. \A x \in Roots : x \notin WordOf(b) /\ x \in Location
      BY Kinds DEF WordOf
    <2> QED
      BY <1>1, <2>1
  <1>9. \A e \in Client : RootOf(e) \subseteq Roots
    BY Kinds
  <1>10. Fillers'
    <2> SUFFICES ASSUME NEW e \in Client, fill[e] # NoFill PROVE Filler(e)'
      BY <1>1 DEF Fillers
    <2>1. Filler(e)
      BY DEF GraphInv, Fillers
    <2>2. PICK x : x = fill[e].block
      OBVIOUS
    <2>3. RefersTo(x)' = RefersTo(x)
      BY <1>0, <1>7, <2>1, <2>2 DEF Filler, Types
    <2>4. \A y \in RootOf(e) : ref'[y] = ref[y]
      BY <1>8, <1>9
    <2>5. UNCHANGED <<embed, live, use, status, fill, ending>>
      BY <1>1
    <2> QED
      BY <2>1, <2>2, <2>3, <2>4, <2>5 DEF Filler
  <1>11. RootsHold'
    BY <1>1, <1>8, <1>9 DEF GraphInv, RootsHold
  <1>12. Endings'
    <2>1. \A a \in Agent : ending[a] # NoRoot => ref'[ending[a]] = ref[ending[a]]
      BY <1>0, <1>8 DEF Types
    <2> QED
      BY <1>1, <2>1 DEF GraphInv, Endings
  <1>13. Frames' /\ NoSharedFrame'
    <2> SUFFICES ASSUME NEW a, NEW i, IsFrame(a, i), NEW f, f = stack[a][i], NEW x, x = ref[f.ref]
                 PROVE  Undisturbed(f, x)
      BY <1>1, AllStay DEF FrameStays
    <2>1. /\ f \in Frame /\ f.ref \in Location /\ Counts(f.ref)
          /\ f.at # "read" => x \in live /\ x \in Block
          /\ f.at = "kids" => \A j \in 1 .. f.next - 1 : j \in 1 .. embed[x] /\ j \in 1 .. MaxEmbed
      BY AnyFrame
    <2>2. f.at = "kids" => \A j \in 1 .. f.next - 1 : ref'[Word(x, j)] = ref[Word(x, j)]
      <3> SUFFICES ASSUME f.at = "kids", NEW j \in 1 .. f.next - 1
                   PROVE  ref'[Word(x, j)] = ref[Word(x, j)]
        OBVIOUS
      <3>1. Word(x, j) \in Location /\ j \in 1 .. embed[x]
        BY <2>1, Kinds
      <3>2. x # b
        BY <1>1, <3>1
      <3>3. Word(x, j) \notin WordOf(b)
        BY <3>2, Kinds DEF WordOf
      <3> QED
        BY <1>1, <3>1, <3>3
    <2> QED
      BY <1>1, <1>3, <1>5, <1>7, <2>1, <2>2 DEF Undisturbed
  <1> QED
    BY <1>0, <1>7, <1>10, <1>11, <1>12, <1>13 DEF GraphInv

LEMMA UnwrapStep ==
  ASSUME GraphInv, [Next]_vars, NEW c \in Client, NEW d \in Client, NEW k \in FreeRoot(d), Unwrap(c, d, k)
  PROVE  GraphInv' /\ Refines
  <1> DEFINE l == Root(d, k)  m == Mail(c, d)
  <1> PICK b : b = ref[m]
    OBVIOUS
  <1>0. Types /\ Types' /\ CountsByKind /\ CountsByKind'
    BY TypeStep, CountsCases, CountsCasesNext DEF GraphInv
  <1>1. /\ l \in RootOf(d) /\ l \in Roots /\ l \in Location /\ l \notin use /\ b # Null
        /\ m \in Location /\ m \notin Roots /\ l # m
        /\ status[d] = "run" /\ ending[d] = NoRoot /\ use' = use \cup {l}
        /\ \A x, y : l # Word(x, y) /\ m # Word(x, y)
    BY Kinds DEF FreeRoot, Unwrap, Ready
  <1>2. /\ ref' = [ref EXCEPT ![l] = b, ![m] = Null]
        /\ UNCHANGED <<count, embed, live, status, fill, stack, ending, patient, orphan>>
    BY DEF Unwrap
  <1>3. Counts(m) /\ b \in live /\ b \in Block
    BY <1>0, <1>1 DEF CountsByKind, GraphInv, NoWildPointer, Types
  <1>4. /\ ref'[l] = b /\ ref'[m] = Null
        /\ \A x \in Location : x # l /\ x # m => ref'[x] = ref[x]
    BY <1>0, <1>1, <1>2 DEF Types
  <1>5. ~Counts(l) /\ Counts(l)' /\ \A x \in Location : x # l => (Counts(x)' <=> Counts(x))
    BY <1>0, <1>1, <1>2, AnyLocation DEF CountsByKind
  <1> HIDE DEF l, m
  <1>6. /\ Target(m) = b /\ Target(m)' = Null /\ Target(l) = Null /\ Target(l)' = b
        /\ \A x \in Location : x # l /\ x # m => Target(x)' = Target(x)
    BY <1>3, <1>4, <1>5, <1>1 DEF Target
  <1>7. /\ Cardinality(RefersTo(b)') = Cardinality(RefersTo(b))
        /\ \A x \in Block : x # b => RefersTo(x)' = RefersTo(x)
    <2>1. \A x \in Block : x # b => RefersTo(x)' = RefersTo(x)
      <3> SUFFICES ASSUME NEW x \in Block, x # b PROVE RefersTo(x)' = RefersTo(x)
        OBVIOUS
      <3>1. \A y \in Location : Target(y)' = x <=> Target(y) = x
        BY <1>6, Constants
      <3> QED
        BY <3>1, SameTarget
    <2>2. /\ RefersTo(b)' = (RefersTo(b) \ {m}) \cup {l}
          /\ m \in RefersTo(b) /\ l \notin RefersTo(b)
      <3>1. \A y \in Location : y \in RefersTo(b)' <=> (y \in RefersTo(b) /\ y # m) \/ y = l
        BY <1>1, <1>3, <1>6, Constants, TargetRefers
      <3>2. m \in RefersTo(b) /\ l \notin RefersTo(b)
        BY <1>1, <1>3, <1>6, Constants, TargetRefers
      <3> QED
        BY <1>1, <3>1, <3>2, RefersLocation
    <2>3. /\ IsFiniteSet(RefersTo(b) \ {m})
          /\ Cardinality(RefersTo(b) \ {m}) = Cardinality(RefersTo(b)) - 1
      BY <2>2, FiniteRefers, FS_RemoveElement
    <2>4. Cardinality((RefersTo(b) \ {m}) \cup {l}) = Cardinality(RefersTo(b) \ {m}) + 1
      BY <2>2, <2>3, FS_AddElement
    <2> QED
      BY <2>1, <2>2, <2>3, <2>4, FiniteRefers
  <1>8. CountExact'
    <2>1. \A x \in live : Cardinality(RefersTo(x)') = Cardinality(RefersTo(x))
      BY <1>0, <1>7 DEF Types
    <2> QED
      BY <1>2, <2>1 DEF GraphInv, CountExact
  <1>9. NoWildPointer'
    <2>1. \A x \in Location : Target(x)' \in live \cup {Null}
      BY <1>3, <1>6, TargetLive DEF GraphInv
    <2> QED
      BY <1>2, <2>1 DEF NoWildPointer, Target
  <1>10. \A e \in Client : \A y \in RootOf(e) : y \in Roots /\ y \in Location /\ y # m
    BY <1>1, Kinds
  <1>11. Fillers'
    <2> SUFFICES ASSUME NEW e \in Client, fill[e] # NoFill PROVE Filler(e)'
      BY <1>2 DEF Fillers
    <2>1. Filler(e)
      BY DEF GraphInv, Fillers
    <2>2. PICK x : x = fill[e].block
      OBVIOUS
    <2>3. x # b
      <3>1. m \in RefersTo(b)
        BY <1>1, <1>3, <1>6, TargetRefers
      <3> QED
        BY <2>1, <2>2, <3>1, <1>10 DEF Filler
    <2>4. RefersTo(x)' = RefersTo(x)
      BY <1>0, <1>7, <2>1, <2>2, <2>3 DEF Filler, Types
    <2>5. \A y \in RootOf(e) \cap use : ref'[y] = ref[y] /\ y \in use'
      BY <1>1, <1>4, <1>10
    <2> QED
      BY <1>2, <2>1, <2>2, <2>4, <2>5 DEF Filler
  <1>12. RootsHold'
    <2>1. \A e \in Client : \A y \in RootOf(e) : y \in use' => y = l \/ (y \in use /\ ref'[y] = ref[y])
      BY <1>1, <1>4, <1>10
    <2>2. \A e \in Client : l \in RootOf(e) => e = d
      BY <1>1, Kinds
    <2>3. ref'[l] # Null /\ status[d] = "run" /\ UNCHANGED <<status, ending>>
      BY <1>1, <1>2, <1>4
    <2>4. ASSUME NEW e \in Client, NEW y \in RootOf(e) \cap use'
          PROVE  /\ status'[e] # "vacant"
                 /\ status'[e] = "run" /\ y # ending'[e] => ref'[y] # Null
      <3>1. CASE y = l
        BY <2>2, <2>3, <2>4, <3>1
      <3>2. CASE y # l
        BY <2>1, <2>3, <2>4, <3>2 DEF GraphInv, RootsHold
      <3> QED
        BY <3>1, <3>2
    <2> QED
      BY <2>4 DEF RootsHold
  <1>13. Endings'
    <2>1. Endings
      BY DEF GraphInv
    <2>2. \A a \in Agent : ending[a] # NoRoot => ending[a] \in use /\ ref'[ending[a]] = ref[ending[a]]
      <3> SUFFICES ASSUME NEW a \in Agent, ending[a] # NoRoot
                   PROVE  ending[a] \in use /\ ref'[ending[a]] = ref[ending[a]]
        OBVIOUS
      <3>1. ending[a] \in use /\ ending[a] \in Roots
        BY <1>0, <2>1, Constants DEF Endings, Types
      <3> QED
        BY <1>1, <1>4, <3>1, Kinds
    <2>3. \A e \in Client : ending[e] # NoRoot => ending[e] \in RootOf(e) \cap use' /\ status[e] = "run" /\ fill[e] = NoFill
      BY <1>1, <2>1 DEF Endings
    <2>4. ending[Monitor] # NoRoot => patient # 0 /\ ending[Monitor] \in RootOf(patient) \cap use'
      BY <1>1, <2>1 DEF Endings
    <2> QED
      BY <1>2, <2>1, <2>2, <2>3, <2>4 DEF Endings
  <1>14. Frames' /\ NoSharedFrame'
    <2> SUFFICES ASSUME NEW a, NEW i, IsFrame(a, i), NEW f, f = stack[a][i], NEW x, x = ref[f.ref]
                 PROVE  Undisturbed(f, x)
      BY <1>2, AllStay DEF FrameStays
    <2>1. /\ f \in Frame /\ f.ref \in Location /\ Counts(f.ref)
          /\ f.at # "read" => x \in live /\ x \in Block
          /\ f.at = "kids" => RefersTo(x) = {f.ref}
          /\ f.at = "kids" => \A j \in 1 .. f.next - 1 : j \in 1 .. embed[x] /\ j \in 1 .. MaxEmbed
      BY AnyFrame
    <2>2. f.ref # l /\ f.ref # m
      BY <1>5, <2>1, FrameNotOf DEF GraphInv, m
    <2>3. ref'[f.ref] = x /\ Counts(f.ref)'
      BY <1>4, <1>5, <2>1, <2>2
    <2>4. f.at = "kids" => x # b
      <3>1. m \in RefersTo(b)
        BY <1>1, <1>3, <1>6, TargetRefers
      <3> QED
        BY <2>1, <2>2, <3>1
    <2>5. f.at = "kids" => \A j \in 1 .. f.next - 1 : ref'[Word(x, j)] = ref[Word(x, j)]
      <3> SUFFICES ASSUME f.at = "kids", NEW j \in 1 .. f.next - 1
                   PROVE  ref'[Word(x, j)] = ref[Word(x, j)]
        OBVIOUS
      <3>1. Word(x, j) \in Location
        BY <2>1, Kinds
      <3> QED
        BY <1>1, <1>4, <3>1
    <2> QED
      BY <1>2, <1>7, <2>1, <2>3, <2>4, <2>5 DEF Undisturbed
  <1>15. Refines
    BY <1>1, <1>2, <1>3, <1>6, RefinesMove DEF Alike
  <1> QED
    BY <1>0, <1>8, <1>9, <1>11, <1>12, <1>13, <1>14, <1>15 DEF GraphInv

(* A step that leaves the shared memory and what a client completes. *)
LEMMA MemoryStays ==
  ASSUME GraphInv, UNCHANGED <<memory, use, fill, orphan>>
  PROVE  /\ NoWildPointer' /\ CountExact' /\ Refines
         /\ \A x \in Location : Counts(x)' <=> Counts(x)
         /\ \A b \in Block : RefersTo(b)' = RefersTo(b)
         /\ \A a, i : IsFrame(a, i) => FrameStays(a, i)
  <1>1. \A x \in Location : Counts(x)' <=> Counts(x)
    BY DEF Counts, Unfilled, memory
  <1>2. NoWildPointer' /\ CountExact' /\ Refines /\ \A b \in Block : RefersTo(b)' = RefersTo(b)
    <2>1. \A x \in Location : Target(x)' = Target(x)
      BY <1>1 DEF Target, memory
    <2> QED
      BY <2>1, Quiet DEF memory
  <1>3. ASSUME NEW a, NEW i, IsFrame(a, i), NEW f, f = stack[a][i], NEW b, b = ref[f.ref]
        PROVE  Undisturbed(f, b)
    <2>1. /\ f \in Frame /\ f.ref \in Location /\ Counts(f.ref)
          /\ f.at # "read" => b \in live /\ b \in Block
      BY <1>3, AnyFrame
    <2>2. f.at = "kids" => b \in live /\ b \in Block
      BY <2>1
    <2> QED
      BY <1>1, <1>2, <1>3, <2>1, <2>2 DEF Undisturbed, memory
  <1> QED
    BY <1>1, <1>2, <1>3 DEF FrameStays

LEMMA FillersStay ==
  ASSUME GraphInv, UNCHANGED <<memory, use, fill, orphan>>,
         \A c \in Client : fill[c] # NoFill => status'[c] = status[c] /\ ending'[c] = ending[c]
  PROVE  Fillers'
  <1> SUFFICES ASSUME NEW c \in Client, fill[c] # NoFill PROVE Filler(c)'
    BY DEF Fillers
  <1>1. Filler(c)
    BY DEF GraphInv, Fillers
  <1>2. PICK b : b = fill[c].block
    OBVIOUS
  <1>3. RefersTo(b)' = RefersTo(b)
    BY <1>1, <1>2, MemoryStays DEF Filler, GraphInv, Types
  <1>4. UNCHANGED <<ref, embed, live, use, fill>>
    BY DEF memory
  <1> QED
    BY <1>1, <1>2, <1>3, <1>4 DEF Filler

LEMMA ThreadInitStep ==
  ASSUME GraphInv, [Next]_vars, NEW c \in Client, ThreadInit(c)
  PROVE  GraphInv' /\ Refines
  <1>0. Types /\ Types'
    BY TypeStep DEF GraphInv
  <1>1. /\ status[c] = "vacant" /\ status'[c] = "run"
        /\ \A d \in Client : d # c => status'[d] = status[d]
        /\ UNCHANGED <<memory, use, cnt, fill, stack, ending, patient, orphan>>
    BY <1>0 DEF ThreadInit, Types
  <1>2. Frames' /\ NoSharedFrame' /\ NoWildPointer' /\ CountExact' /\ Refines
    BY <1>1, MemoryStays, AllStay
  <1>3. Fillers'
    <2>1. \A d \in Client : fill[d] # NoFill => d # c
      BY <1>1 DEF GraphInv, Fillers, Filler
    <2> QED
      BY <1>1, <2>1, FillersStay
  <1>4. RootsHold'
    <2>1. RootOf(c) \cap use = {}
      BY <1>1 DEF GraphInv, RootsHold
    <2> QED
      BY <1>1, <2>1 DEF GraphInv, RootsHold, memory
  <1>5. Endings'
    BY <1>1, <1>0 DEF GraphInv, Endings, memory, Types
  <1> QED
    BY <1>0, <1>2, <1>3, <1>4, <1>5 DEF GraphInv

LEMMA CopyHandleStep ==
  ASSUME GraphInv, [Next]_vars, NEW c \in Client, NEW l \in RootOf(c), CopyHandle(c, l)
  PROVE  GraphInv' /\ Refines
  <1>0. Types /\ Types'
    BY TypeStep DEF GraphInv
  <1>1. UNCHANGED <<memory, use, status, fill, stack, ending, patient, orphan>>
    BY DEF CopyHandle
  <1>2. Frames' /\ NoSharedFrame' /\ NoWildPointer' /\ CountExact' /\ Refines
    BY <1>1, MemoryStays, AllStay
  <1>3. Fillers'
    BY <1>1, FillersStay
  <1>4. RootsHold' /\ Endings'
    BY <1>1 DEF GraphInv, RootsHold, Endings, memory
  <1> QED
    BY <1>0, <1>2, <1>3, <1>4 DEF GraphInv

LEMMA StartRecoveryStep ==
  ASSUME GraphInv, [Next]_vars, NEW c \in Client, StartRecovery(c)
  PROVE  GraphInv' /\ Refines
  <1>0. Types /\ Types'
    BY TypeStep DEF GraphInv
  <1>1. /\ patient = 0 /\ patient' = c /\ status[c] = "dead"
        /\ UNCHANGED <<memory, use, status, fill, stack, ending, orphan>>
    BY DEF StartRecovery
  <1>2. Frames' /\ NoSharedFrame' /\ NoWildPointer' /\ CountExact' /\ Refines
    BY <1>1, MemoryStays, AllStay
  <1>3. Fillers'
    BY <1>1, FillersStay
  <1>4. RootsHold' /\ Endings'
    BY <1>1 DEF GraphInv, RootsHold, Endings, memory
  <1> QED
    BY <1>0, <1>2, <1>3, <1>4 DEF GraphInv

LEMMA RecoveredStep ==
  ASSUME GraphInv, [Next]_vars, Recovered
  PROVE  GraphInv' /\ Refines
  <1>0. Types /\ Types'
    BY TypeStep DEF GraphInv
  <1>1. /\ patient \in Client /\ RootOf(patient) \cap use = {} /\ ending[Monitor] = NoRoot
        /\ patient' = 0 /\ status[patient] = "dead"
        /\ \A d \in Client : d # patient => status'[d] = status[d]
        /\ UNCHANGED <<memory, use, cnt, fill, stack, ending, orphan>>
    BY <1>0 DEF Recovered, Types, GraphInv, Endings
  <1>2. Frames' /\ NoSharedFrame' /\ NoWildPointer' /\ CountExact' /\ Refines
    BY <1>1, MemoryStays, AllStay
  <1>3. Fillers'
    <2>1. \A d \in Client : fill[d] # NoFill => d # patient
      BY <1>1 DEF GraphInv, Fillers, Filler
    <2> QED
      BY <1>1, <2>1, FillersStay
  <1>4. RootsHold'
    BY <1>1 DEF GraphInv, RootsHold, memory
  <1>5. Endings'
    BY <1>1, <1>0 DEF GraphInv, Endings, memory, Types
  <1> QED
    BY <1>0, <1>2, <1>3, <1>4, <1>5 DEF GraphInv

(* The first frame of a release. *)
LEMMA FirstCall ==
  ASSUME GraphInv, UNCHANGED <<memory, use, fill, orphan>>, NEW a \in Agent, NEW l \in Roots \cap use,
         stack[a] = <<>>, stack' = [stack EXCEPT ![a] = Push(@, l)],
         \A d, i : IsFrame(d, i) => stack[d][i].ref # l
  PROVE  Frames' /\ NoSharedFrame'
  <1>0. Types /\ l \in Location /\ Counts(l)'
    BY MemoryStays, Kinds, CountsCases DEF GraphInv, CountsByKind
  <1>1. /\ stack'[a] = <<Call(l)>> /\ Len(stack'[a]) = 1 /\ stack'[a][1] = Call(l)
        /\ \A d \in Agent : d # a => stack'[d] = stack[d]
    BY <1>0 DEF Push, Types
  <1>2. Call(l).at = "read" /\ Call(l).ref = l /\ Call(l).next = 1
    BY DEF Call
  <1>3. ASSUME NEW i \in 1 .. Len(stack'[a]) PROVE FrameOk(a, i)'
    <2>1. PICK f : f = Call(l)
      OBVIOUS
    <2>2. i = 1 /\ Len(stack'[a]) = 1
      <3>1. Len(stack'[a]) = 1
        BY <1>1
      <3>2. i \in 1 .. Len(stack'[a])
        BY <1>3
      <3> QED
        BY ONLY <3>1, <3>2
    <2>3. stack'[a][i] = f
      BY <1>1, <2>1, <2>2
    <2>4. f.at = "read" /\ f.ref = l /\ f.next = 1
      BY <1>2, <2>1
    <2>5. Counts(f.ref)'
      BY <1>0, <2>4, MemoryStays, CountsCases DEF CountsByKind
    <2> QED
      BY <2>2, <2>3, <2>4, <2>5 DEF FrameOk
  <1>4. FramesOf(a)'
    BY <1>3 DEF FramesOf
  <1>5. ASSUME NEW d \in Agent, d # a PROVE FramesOf(d)'
    <2>1. stack'[d] = stack[d] /\ FramesOf(d)
      BY <1>1, <1>5 DEF GraphInv, Frames
    <2>2. \A i \in 1 .. Len(stack[d]) : FrameStays(d, i)
      BY MemoryStays DEF IsFrame
    <2> QED
      BY <2>1, <2>2, FramesStay
  <1>6. NoSharedFrame'
    <2> SUFFICES ASSUME NEW d \in Agent, NEW e \in Agent,
                        NEW i \in 1 .. Len(stack'[d]), NEW j \in 1 .. Len(stack'[e]),
                        stack'[d][i].ref = stack'[e][j].ref
                 PROVE  d = e /\ i = j
      BY DEF NoSharedFrame
    <2>1. \A x \in Agent : x # a => \A y \in 1 .. Len(stack'[x]) : stack'[x][y].ref # l
      BY <1>1 DEF IsFrame
    <2>2. \A y \in 1 .. Len(stack'[a]) : y = 1 /\ stack'[a][y].ref = l
      BY <1>1, <1>2
    <2>3. CASE d = a \/ e = a
      BY <2>1, <2>2, <2>3
    <2>4. CASE d # a /\ e # a
      BY <1>1, <2>4 DEF GraphInv, NoSharedFrame
    <2> QED
      BY <2>3, <2>4
  <1> QED
    BY <1>4, <1>5, <1>6 DEF Frames

LEMMA DropHandleStep ==
  ASSUME GraphInv, [Next]_vars, NEW c \in Client, NEW l \in RootOf(c), DropHandle(c, l)
  PROVE  GraphInv' /\ Refines
  <1>0. Types /\ Types' /\ c \in Agent /\ c # Monitor
    BY TypeStep, Constants DEF GraphInv
  <1>1. /\ l \in use /\ l \in Roots /\ l # NoRoot /\ status[c] = "run" /\ fill[c] = NoFill /\ ending[c] = NoRoot
        /\ UNCHANGED <<memory, use, status, fill, patient, orphan>>
    BY Kinds DEF DropHandle, Ready
  <1>2. CASE UNCHANGED <<stack, ending>>
    <2>1. Frames' /\ NoSharedFrame' /\ NoWildPointer' /\ CountExact' /\ Refines
      BY <1>1, <1>2, MemoryStays, AllStay
    <2>2. Fillers'
      BY <1>1, <1>2, FillersStay
    <2>3. RootsHold' /\ Endings'
      BY <1>1, <1>2 DEF GraphInv, RootsHold, Endings, memory
    <2> QED
      BY <1>0, <2>1, <2>2, <2>3 DEF GraphInv
  <1>3. CASE stack' = [stack EXCEPT ![c] = Push(@, l)] /\ ending' = [ending EXCEPT ![c] = l]
    <2>1. stack[c] = <<>>
      BY <1>0, <1>1 DEF GraphInv, Endings
    <2>2. \A d, i : IsFrame(d, i) => stack[d][i].ref # l
      BY <1>1, FrameNotOf DEF GraphInv
    <2>3. Frames' /\ NoSharedFrame' /\ NoWildPointer' /\ CountExact' /\ Refines
      BY <1>0, <1>1, <1>3, <2>1, <2>2, FirstCall, MemoryStays
    <2>4. /\ ending'[c] = l /\ \A d \in Agent : d # c => ending'[d] = ending[d] /\ stack'[d] = stack[d]
          /\ stack'[c] # <<>> /\ stack'[c][1].ref = l
      BY <1>0, <1>3, <2>1 DEF Types, Push, Call
    <2>5. Fillers'
      <3>1. \A d \in Client : fill[d] # NoFill => d # c /\ d \in Agent
        BY <1>1, Constants
      <3> QED
        BY <1>1, <2>4, <3>1, FillersStay
    <2>6. RootsHold'
      <3>1. \A d \in Client : d \in Agent
        BY Constants
      <3> QED
        BY <1>1, <2>4, <3>1, Kinds DEF GraphInv, RootsHold, memory
    <2>7. Endings'
      <3>1. Endings /\ Client \subseteq Agent /\ Monitor \in Agent /\ UNCHANGED ref
        BY <1>1, Constants DEF GraphInv, memory
      <3>2. \A d \in Client : ending'[d] # NoRoot =>
              ending'[d] \in RootOf(d) \cap use /\ status[d] = "run" /\ fill[d] = NoFill
        BY <1>1, <2>4, <3>1 DEF Endings
      <3>3. ending'[Monitor] = ending[Monitor]
        BY <1>0, <2>4, <3>1
      <3>4. \A a \in Agent :
              IF stack'[a] = <<>> THEN ending'[a] # NoRoot => ref[ending'[a]] = Null
              ELSE ending'[a] # NoRoot /\ stack'[a][1].ref = ending'[a]
        BY <1>1, <2>4, <3>1 DEF Endings
      <3> QED
        BY <1>1, <3>1, <3>2, <3>3, <3>4 DEF Endings
    <2> QED
      BY <1>0, <2>3, <2>5, <2>6, <2>7 DEF GraphInv
  <1> QED
    BY <1>2, <1>3 DEF DropHandle

LEMMA RecoverRootStep ==
  ASSUME GraphInv, [Next]_vars, NEW l \in UNION {RootOf(c) : c \in Client}, RecoverRoot(l)
  PROVE  GraphInv' /\ Refines
  <1>0. Types /\ Types' /\ Monitor \in Agent /\ Monitor \notin Client /\ Client \subseteq Agent
    BY TypeStep, Constants DEF GraphInv
  <1>1. /\ patient \in Client /\ patient # 0 /\ l \in RootOf(patient) /\ l \in use /\ l \in Roots /\ l # NoRoot
        /\ ending[Monitor] = NoRoot /\ ending' = [ending EXCEPT ![Monitor] = l]
        /\ stack' = [stack EXCEPT ![Monitor] = IF ref[l] = Null THEN <<>> ELSE Push(@, l)]
        /\ UNCHANGED <<memory, use, status, fill, patient, orphan>>
    BY <1>0, Kinds DEF RecoverRoot, Types, Roots
  <1>2. stack[Monitor] = <<>> /\ status[patient] = "dead" /\ Endings
    BY <1>0, <1>1 DEF GraphInv, Endings
  <1>3. \A d, i : IsFrame(d, i) => stack[d][i].ref # l
    <2> SUFFICES ASSUME NEW d, NEW i, IsFrame(d, i), stack[d][i].ref = l PROVE FALSE
      OBVIOUS
    <2>1. i = 1
      BY <1>1, FrameNotOf DEF GraphInv
    <2>2. d # Monitor
      BY <1>2 DEF IsFrame
    <2>3. d \in Client
      BY <2>2, Constants DEF IsFrame
    <2>4. l \in RootOf(d) /\ status[d] = "run"
      BY <2>1, <2>3, FirstFrame DEF GraphInv
    <2> QED
      BY <1>1, <1>2, <2>3, <2>4, Kinds
  <1>4. Frames' /\ NoSharedFrame'
    <2>1. CASE ref[l] = Null
      <3>1. stack' = stack
        BY <1>0, <1>1, <1>2, <2>1 DEF Types
      <3> QED
        BY <1>1, <3>1, MemoryStays, AllStay
    <2>2. CASE ref[l] # Null
      BY <1>0, <1>1, <1>2, <1>3, <2>2, FirstCall
    <2> QED
      BY <2>1, <2>2
  <1>5. NoWildPointer' /\ CountExact' /\ Refines
    BY <1>1, MemoryStays
  <1>6. /\ ending'[Monitor] = l
        /\ \A d \in Agent : d # Monitor => ending'[d] = ending[d] /\ stack'[d] = stack[d]
        /\ ref[l] = Null => stack'[Monitor] = <<>>
        /\ ref[l] # Null => stack'[Monitor] # <<>> /\ stack'[Monitor][1].ref = l
    BY <1>0, <1>1, <1>2 DEF Types, Push, Call
  <1>7. Fillers'
    BY <1>0, <1>1, <1>6, FillersStay
  <1>8. RootsHold'
    BY <1>0, <1>1, <1>6 DEF GraphInv, RootsHold, memory
  <1>9. Endings'
    <2>1. \A d \in Client : ending'[d] = ending[d]
      BY <1>0, <1>6
    <2>2. \A a \in Agent :
            IF stack'[a] = <<>> THEN ending'[a] # NoRoot => ref[ending'[a]] = Null
            ELSE ending'[a] # NoRoot /\ stack'[a][1].ref = ending'[a]
      BY <1>1, <1>2, <1>6 DEF Endings
    <2>3. ref' = ref
      BY <1>1 DEF memory
    <2> QED
      BY <1>1, <1>2, <1>6, <2>1, <2>2, <2>3 DEF Endings
  <1> QED
    BY <1>0, <1>4, <1>5, <1>7, <1>8, <1>9 DEF GraphInv

LEMMA EndRootStep ==
  ASSUME GraphInv, [Next]_vars, NEW a \in Agent, EndRoot(a)
  PROVE  GraphInv' /\ Refines
  <1> PICK e : e = ending[a]
    OBVIOUS
  <1>0. /\ Types /\ Types' /\ CountsByKind /\ CountsByKind' /\ Endings
        /\ Client \subseteq Agent /\ Monitor \in Agent /\ Monitor \notin Client
    BY TypeStep, CountsCases, CountsCasesNext, Constants DEF GraphInv
  <1>1. /\ e # NoRoot /\ stack[a] = <<>> /\ use' = use \ {e} /\ ending' = [ending EXCEPT ![a] = NoRoot]
        /\ UNCHANGED <<memory, status, fill, stack, patient, orphan>>
    BY DEF EndRoot
  <1>2. UNCHANGED <<ref, count, embed, live>>
    BY <1>1 DEF memory
  <1>3. e \in Roots /\ ref[e] = Null
    BY <1>0, <1>1 DEF Types, Endings
  <1>4. /\ ending'[a] = NoRoot /\ \A d \in Agent : d # a => ending'[d] = ending[d]
        /\ \A d \in Agent : d # a => ending[d] # e
    BY <1>0, <1>1, EndingsApart DEF Types
  <1>5. \A x \in Location : x # e => (Counts(x)' <=> Counts(x))
    BY <1>0, <1>1, <1>2, AnyLocation DEF CountsByKind
  <1>6. \A x \in Location : Target(x)' = Target(x)
    BY <1>2, <1>3, <1>5 DEF Target
  <1>7. NoWildPointer' /\ CountExact' /\ Refines /\ \A b \in Block : RefersTo(b)' = RefersTo(b)
    BY <1>1, <1>2, <1>6, Quiet
  <1>8. Frames' /\ NoSharedFrame'
    <2> SUFFICES ASSUME NEW d, NEW i, IsFrame(d, i), NEW f, f = stack[d][i], NEW x, x = ref[f.ref]
                 PROVE  Undisturbed(f, x)
      BY <1>1, AllStay DEF FrameStays
    <2>1. /\ f \in Frame /\ f.ref \in Location /\ Counts(f.ref)
          /\ f.at # "read" => x \in live /\ x \in Block
      BY AnyFrame
    <2>2. f.ref # e
      <3> SUFFICES ASSUME f.ref = e PROVE FALSE
        OBVIOUS
      <3>1. i = 1
        BY <1>3, FrameNotOf DEF GraphInv
      <3>2. ending[d] = e /\ d \in Agent
        BY <1>0, <3>1, FirstFrame DEF IsFrame
      <3>3. d = a
        BY <1>4, <3>2
      <3> QED
        BY <1>1, <3>3 DEF IsFrame
    <2> QED
      BY <1>2, <1>5, <1>7, <2>1, <2>2 DEF Undisturbed
  <1>9. \A c \in Client : status[c] = "run" /\ ending[c] # e => e \notin RootOf(c)
    <2> SUFFICES ASSUME NEW c \in Client, status[c] = "run", e \in RootOf(c) PROVE ending[c] = e
      OBVIOUS
    <2>1. CASE a \in Client
      BY <1>0, <1>1, <2>1, Kinds DEF Endings
    <2>2. CASE a = Monitor
      <3>1. patient \in Client /\ status[patient] = "dead" /\ e \in RootOf(patient)
        BY <1>0, <1>1, <2>2 DEF Endings, Types
      <3> QED
        BY <3>1, Kinds
    <2> QED
      BY <2>1, <2>2, Constants
  <1>10. Fillers'
    <2> SUFFICES ASSUME NEW c \in Client, fill[c] # NoFill PROVE Filler(c)'
      BY <1>1 DEF Fillers
    <2>1. Filler(c)
      BY DEF GraphInv, Fillers
    <2>2. PICK x : x = fill[c].block
      OBVIOUS
    <2>3. RefersTo(x)' = RefersTo(x)
      BY <1>0, <1>7, <2>1, <2>2 DEF Filler, Types
    <2>4. ending'[c] = ending[c] /\ e \notin RootOf(c)
      BY <1>0, <1>1, <1>4, <1>9, <2>1 DEF Filler
    <2>5. \A y \in RootOf(c) \cap use : y \in use'
      BY <1>1, <2>4
    <2> QED
      BY <1>1, <1>2, <2>1, <2>2, <2>3, <2>4, <2>5 DEF Filler
  <1>11. RootsHold'
    <2> SUFFICES ASSUME NEW c \in Client, NEW l \in RootOf(c) \cap use'
                 PROVE  /\ status'[c] # "vacant"
                        /\ status'[c] = "run" /\ l # ending'[c] => ref'[l] # Null
      BY DEF RootsHold
    <2>1. l \in use /\ l # e /\ l \in RootOf(c)
      BY <1>1
    <2>2. l # ending'[c] => l # ending[c]
      BY <1>0, <1>4, <2>1
    <2> QED
      BY <1>1, <1>2, <2>1, <2>2 DEF GraphInv, RootsHold
  <1>12. Endings'
    <2>1. \A d \in Agent : ending'[d] # NoRoot => ending'[d] = ending[d] /\ ending[d] # e
      BY <1>4
    <2>2. \A c \in Client : ending'[c] # NoRoot =>
            ending'[c] \in RootOf(c) \cap use' /\ status[c] = "run" /\ fill[c] = NoFill
      BY <1>0, <1>1, <2>1 DEF Endings
    <2>3. ending'[Monitor] # NoRoot => patient # 0 /\ ending'[Monitor] \in RootOf(patient) \cap use'
      BY <1>0, <1>1, <2>1 DEF Endings
    <2>4. \A d \in Agent :
            IF stack[d] = <<>> THEN ending'[d] # NoRoot => ref[ending'[d]] = Null
            ELSE ending'[d] # NoRoot /\ stack[d][1].ref = ending'[d]
      BY <1>0, <1>1, <1>4, <2>1 DEF Endings
    <2> QED
      BY <1>0, <1>1, <1>2, <2>2, <2>3, <2>4 DEF Endings
  <1> QED
    BY <1>0, <1>7, <1>8, <1>10, <1>11, <1>12 DEF GraphInv

(* A client that stops leaves the words that it was still to fill empty, so *)
(* that they count as references to nothing.                                *)
LEMMA FailStep ==
  ASSUME GraphInv, [Next]_vars, ~FailOnStale, NEW c \in Client, Fail(c)
  PROVE  GraphInv' /\ Refines
  <1>0. /\ Types /\ Types' /\ CountsByKind /\ CountsByKind' /\ Endings
        /\ Client \subseteq Agent /\ Monitor \in Agent /\ Monitor \notin Client
    BY TypeStep, CountsCases, CountsCasesNext, Constants DEF GraphInv
  <1>1. /\ status[c] = "run" /\ \A l \in Unfilled(c) : ref[l] = Null
        /\ status' = [status EXCEPT ![c] = "dead"] /\ fill' = [fill EXCEPT ![c] = NoFill]
        /\ stack' = [stack EXCEPT ![c] = <<>>] /\ ending' = [ending EXCEPT ![c] = NoRoot]
        /\ UNCHANGED <<memory, use, patient, orphan>>
    BY DEF Fail
  <1>2. UNCHANGED <<ref, count, embed, live, use>>
    BY <1>1 DEF memory
  <1>3. /\ status'[c] = "dead" /\ fill'[c] = NoFill /\ stack'[c] = <<>> /\ ending'[c] = NoRoot
        /\ NoFill.block = Null
        /\ \A d \in Client : d # c => status'[d] = status[d] /\ fill'[d] = fill[d]
        /\ \A d \in Agent : d # c => stack'[d] = stack[d] /\ ending'[d] = ending[d]
    BY <1>0, <1>1 DEF Types, NoFill
  <1>4. \A x \in Location : (Counts(x) => Counts(x)') /\ (Counts(x)' /\ ~Counts(x) => ref[x] = Null)
    <2> TAKE x \in Location
    <2>1. CASE x \in Roots \/ \E y, z \in Client : x = Mail(y, z)
      BY <1>0, <1>2, <2>1 DEF CountsByKind
    <2>2. CASE \E b \in Block, i \in 1 .. MaxEmbed : x = Word(b, i)
      <3> PICK b \in Block, i \in 1 .. MaxEmbed : x = Word(b, i)
        BY <2>2
      <3>1. \A d \in Client : fill'[d].block = b => d # c
        BY <1>3, Constants
      <3>2. Counts(x) => Counts(x)'
        BY <1>0, <1>2, <1>3, <3>1 DEF CountsByKind
      <3>3. ASSUME Counts(x)', ~Counts(x) PROVE ref[x] = Null
        <4>1. b \in live /\ i <= embed[b] /\ \A d \in Client : d # c /\ fill[d].block = b => i <= embed[b] - Len(fill[d].todo)
          BY <1>0, <1>2, <1>3, <3>3 DEF CountsByKind
        <4>2. fill[c].block = b /\ ~(i <= embed[b] - Len(fill[c].todo))
          BY <1>0, <3>3, <4>1 DEF CountsByKind
        <4>3. i \in embed[b] - Len(fill[c].todo) + 1 .. embed[b]
          <5>1. embed[b] \in Nat /\ i \in Nat
            BY <1>0, Constants DEF Types
          <5>2. fill[c] \in [block : Block \cup {Null}, todo : Seq(Roots)]
            BY <1>0 DEF Types
          <5>3. Len(fill[c].todo) \in Nat
            BY <5>2
          <5> QED
            BY <4>1, <4>2, <5>1, <5>3
        <4>4. x \in Unfilled(c)
          BY <4>2, <4>3, Constants DEF Unfilled
        <4> QED
          BY <1>1, <4>4
      <3> QED
        BY <3>2, <3>3
    <2> QED
      BY <2>1, <2>2, AnyLocation
  <1>5. \A x \in Location : Target(x)' = Target(x)
    BY <1>2, <1>4 DEF Target
  <1>6. NoWildPointer' /\ CountExact' /\ Refines /\ \A b \in Block : RefersTo(b)' = RefersTo(b)
    BY <1>1, <1>2, <1>5, Quiet
  <1>7. Frames' /\ NoSharedFrame'
    <2>1. \A d, i : IsFrame(d, i) => FrameStays(d, i)
      <3> SUFFICES ASSUME NEW d, NEW i, IsFrame(d, i), NEW f, f = stack[d][i], NEW x, x = ref[f.ref]
                   PROVE  Undisturbed(f, x)
        BY DEF FrameStays
      <3>1. /\ f \in Frame /\ f.ref \in Location /\ Counts(f.ref)
            /\ f.at # "read" => x \in live /\ x \in Block
        BY AnyFrame
      <3> QED
        BY <1>2, <1>4, <1>6, <3>1 DEF Undisturbed
    <2>2. ASSUME NEW d \in Agent PROVE FramesOf(d)'
      <3>1. CASE d = c
        <4>1. stack'[d] = <<>>
          BY <1>3, <3>1
        <4> QED
          BY <4>1 DEF FramesOf
      <3>2. CASE d # c
        <4>1. stack'[d] = stack[d] /\ FramesOf(d)
          BY <1>3, <3>2 DEF GraphInv, Frames
        <4>2. \A i \in 1 .. Len(stack[d]) : FrameStays(d, i)
          BY <2>1 DEF IsFrame
        <4> QED
          BY <4>1, <4>2, FramesStay
      <3> QED
        BY <3>1, <3>2
    <2>3. NoSharedFrame'
      <3>1. \A d \in Agent : \A i \in 1 .. Len(stack'[d]) : i \in 1 .. Len(stack[d]) /\ stack'[d][i] = stack[d][i]
        <4> TAKE d \in Agent
        <4>1. CASE d = c
          <5>1. Len(stack'[d]) = 0
            BY <1>3, <4>1
          <5> QED
            BY <5>1
        <4>2. CASE d # c
          BY <1>3, <4>2
        <4> QED
          BY <4>1, <4>2
      <3> QED
        BY <3>1, FewerFrames DEF GraphInv
    <2> QED
      BY <2>2, <2>3 DEF Frames
  <1>8. Fillers'
    <2> SUFFICES ASSUME NEW d \in Client, fill'[d] # NoFill PROVE Filler(d)'
      BY DEF Fillers
    <2>1. d # c /\ fill'[d] = fill[d] /\ status'[d] = status[d] /\ ending'[d] = ending[d]
      BY <1>0, <1>3
    <2>2. Filler(d)
      BY <2>1 DEF GraphInv, Fillers
    <2>3. PICK x : x = fill[d].block
      OBVIOUS
    <2>4. RefersTo(x)' = RefersTo(x)
      BY <1>0, <1>6, <2>2, <2>3 DEF Filler, Types
    <2> QED
      BY <1>2, <2>1, <2>2, <2>3, <2>4 DEF Filler
  <1>9. RootsHold'
    <2>1. \A d \in Client : d \in Agent
      BY <1>0
    <2> QED
      BY <1>1, <1>2, <1>3, <2>1 DEF GraphInv, RootsHold
  <1>10. Endings'
    <2>1. \A d \in Client : ending'[d] # NoRoot => d # c /\ ending'[d] = ending[d] /\ status'[d] = status[d] /\ fill'[d] = fill[d]
      BY <1>0, <1>3
    <2>2. ending'[Monitor] = ending[Monitor] /\ patient' = patient /\ (patient # 0 => status'[patient] = "dead")
      BY <1>0, <1>1, <1>3 DEF Endings, Types
    <2>3. \A d \in Agent :
            IF stack'[d] = <<>> THEN ending'[d] # NoRoot => ref[ending'[d]] = Null
            ELSE ending'[d] # NoRoot /\ stack'[d][1].ref = ending'[d]
      BY <1>0, <1>3 DEF Endings
    <2> QED
      BY <1>0, <1>2, <2>1, <2>2, <2>3 DEF Endings
  <1> QED
    BY <1>0, <1>6, <1>7, <1>8, <1>9, <1>10 DEF GraphInv

LEMMA ReadCountStep ==
  ASSUME GraphInv, [Next]_vars, NEW a \in Agent, ReadCount(a)
  PROVE  GraphInv' /\ Refines
  <1> PICK n, f, b : n = Len(stack[a]) /\ f = stack[a][n] /\ b = ref[f.ref]
    OBVIOUS
  <1> PICK s : s = Pop(stack[a])
    OBVIOUS
  <1>0. Types /\ Types' /\ Endings /\ Frames
    BY TypeStep DEF GraphInv
  <1>1. Releasing(a)
    BY DEF ReadCount
  <1>2. /\ IsFrame(a, n) /\ Top(a) = f /\ f \in Frame /\ f.ref \in Location
        /\ n \in Nat \ {0} /\ stack[a] # <<>>
        /\ s \in Seq(Frame) /\ Len(s) = n - 1 /\ \A i \in 1 .. n - 1 : s[i] = stack[a][i]
    BY <1>0, <1>1, TopFrame, FrameType
  <1>3. /\ f.at = "read" /\ f.next = 1
        /\ UNCHANGED <<memory, use, status, fill, ending, patient, orphan>>
        /\ UNCHANGED <<ref, count, embed, live>>
    BY <1>0, <1>2 DEF ReadCount, memory, Frames, FramesOf, FrameOk, IsFrame
  <1>4. /\ NoWildPointer' /\ CountExact' /\ Refines
        /\ \A x \in Location : Counts(x)' <=> Counts(x)
        /\ \A x \in Block : RefersTo(x)' = RefersTo(x)
        /\ \A d, i : IsFrame(d, i) => FrameStays(d, i)
    BY <1>3, MemoryStays
  <1>5. Fillers' /\ RootsHold'
    BY <1>3, FillersStay DEF GraphInv, RootsHold
  <1>6. ASSUME NEW d \in Agent, stack'[d] = stack[d] PROVE FramesOf(d)'
    <2>1. FramesOf(d) /\ \A i \in 1 .. Len(stack[d]) : FrameStays(d, i)
      BY <1>4 DEF GraphInv, Frames, IsFrame
    <2> QED
      BY <1>6, <2>1, FramesStay
  <1>7. CASE stack' = [stack EXCEPT ![a] = s]
    <2>1. ref[f.ref] = Null
      <3> SUFFICES ASSUME ref[f.ref] # Null PROVE FALSE
        OBVIOUS
      <3>1. count[ref[f.ref]] # 0
        BY <1>0, <1>2, FrameObject DEF GraphInv
      <3>2. stack' = [stack EXCEPT ![a] = Append(s, [f EXCEPT !.at = IF Shared(count[ref[f.ref]]) THEN "unlink" ELSE "kids",
                                                               !.seen = count[ref[f.ref]]])]
        BY <1>2, <3>1 DEF ReadCount, SetTop
      <3>3. Len(stack'[a]) = n
        BY <1>0, <1>2, <3>2 DEF Types
      <3>4. stack'[a] = s
        BY <1>0, <1>7 DEF Types
      <3> QED
        BY <1>2, <3>3, <3>4
    <2>2. stack'[a] = s /\ \A d \in Agent : d # a => stack'[d] = stack[d]
      BY <1>0, <1>7 DEF Types
    <2>3. FramesOf(a)'
      <3>1. FramesOf(a) /\ \A i \in 1 .. Len(stack[a]) - 1 : FrameStays(a, i)
        BY <1>0, <1>2, <1>4 DEF Frames, IsFrame
      <3>2. ref'[Top(a).ref] = Null
        BY <1>2, <1>3, <2>1
      <3> QED
        BY <1>0, <1>2, <2>2, <3>1, <3>2, FramesPopped
    <2>4. NoSharedFrame'
      <3>1. \A d \in Agent : \A i \in 1 .. Len(stack'[d]) : i \in 1 .. Len(stack[d]) /\ stack'[d][i] = stack[d][i]
        BY <1>2, <2>2
      <3> QED
        BY <3>1, FewerFrames DEF GraphInv
    <2>5. Endings'
      <3>1. IF s = <<>> THEN ref[ending[a]] = Null /\ ending[a] # NoRoot
            ELSE ending[a] # NoRoot /\ s[1].ref = ending[a]
        <4>1. ending[a] # NoRoot /\ stack[a][1].ref = ending[a]
          BY <1>0, <1>2 DEF Endings
        <4>2. CASE s = <<>>
          <5>1. n = 1
            BY <1>2, <4>2
          <5> QED
            BY <2>1, <4>1, <4>2, <5>1
        <4>3. CASE s # <<>>
          <5>1. 1 \in 1 .. n - 1
            <6>1. Len(s) # 0
              BY <1>2, <4>3
            <6>2. Len(s) = n - 1 /\ n \in Nat \ {0}
              BY <1>2
            <6>3. \A m \in Nat \ {0} : m - 1 # 0 => 1 \in 1 .. m - 1
              OBVIOUS
            <6> QED
              BY <6>1, <6>2, <6>3
          <5> QED
            BY <1>2, <4>1, <4>3, <5>1
        <4> QED
          BY <4>2, <4>3
      <3>2. \A d \in Agent : IF stack'[d] = <<>> THEN ending[d] # NoRoot => ref[ending[d]] = Null
                             ELSE ending[d] # NoRoot /\ stack'[d][1].ref = ending[d]
        BY <1>0, <2>2, <3>1 DEF Endings
      <3> QED
        BY <1>0, <1>3, <3>2 DEF Endings
    <2>6. Frames'
      BY <1>6, <2>2, <2>3 DEF Frames
    <2> QED
      BY <1>0, <1>4, <1>5, <2>4, <2>5, <2>6 DEF GraphInv
  <1>8. CASE ~ (stack' = [stack EXCEPT ![a] = s])
    <2>0. PICK g : g = [f EXCEPT !.at = IF Shared(count[b]) THEN "unlink" ELSE "kids", !.seen = count[b]]
      OBVIOUS
    <2>1. ref[f.ref] # Null /\ stack' = [stack EXCEPT ![a] = Append(s, g)]
      BY <1>2, <1>8, <2>0 DEF ReadCount, SetTop
    <2>2. b \in live /\ b \in Block /\ f.ref \in RefersTo(b) /\ count[b] \in Nat \ {0} /\ Counts(f.ref)
      <3>1. Counts(f.ref)
        BY <1>2, AnyFrame
      <3> QED
        BY <1>0, <1>2, <2>1, <3>1, FrameObject DEF GraphInv
    <2>3. /\ g.ref = f.ref /\ g.next = 1 /\ g.seen = count[b] /\ g.at # "read"
          /\ g.at = "unlink" => count[b] > 1
          /\ g.at = "kids" => count[b] = 1
          /\ g.at \in {"kids", "unlink"}
      <3>1. /\ g.ref = f.ref /\ g.next = f.next /\ g.seen = count[b]
            /\ g.at = IF Shared(count[b]) THEN "unlink" ELSE "kids"
        BY <1>2, <2>0 DEF Frame
      <3>2. count[b] \in Nat \ {0}
        BY <2>2
      <3>3. f.next = 1
        BY <1>3
      <3> QED
        BY <3>1, <3>2, <3>3 DEF Shared
    <2>4. /\ stack'[a] = Append(s, g) /\ Len(stack'[a]) = n /\ stack'[a][n] = g
          /\ \A i \in 1 .. n - 1 : stack'[a][i] = stack[a][i]
          /\ \A d \in Agent : d # a => stack'[d] = stack[d]
      <3>1. stack'[a] = Append(s, g) /\ \A d \in Agent : d # a => stack'[d] = stack[d]
        BY <1>0, <2>1 DEF Types
      <3>2. Len(stack'[a]) = n /\ stack'[a][n] = g /\ \A i \in 1 .. n - 1 : stack'[a][i] = s[i]
        BY <1>2, <3>1
      <3> QED
        BY <1>2, <3>1, <3>2
    <2>5. \A i \in 1 .. n : stack'[a][i].ref = stack[a][i].ref
      <3> TAKE i \in 1 .. n
      <3>1. CASE i = n
        BY <2>3, <2>4, <3>1
      <3>2. CASE i # n
        BY <1>2, <2>4, <3>2
      <3> QED
        BY <3>1, <3>2
    <2>6. ASSUME NEW i \in 1 .. Len(stack'[a]) PROVE FrameOk(a, i)'
      <3>0. i \in 1 .. n
        BY <2>4, <2>6
      <3>1. CASE i = n
        <4>1. stack'[a][i] = g /\ ~(i < Len(stack'[a])) /\ Len(stack'[a]) = n
          BY <2>4, <3>0, <3>1
        <4>2. Counts(f.ref)'
          BY <1>2, <1>4, <2>2
        <4>3. ASSUME g.at = "kids" PROVE KidsFrame(a, i)'
          <5>1. Cardinality(RefersTo(b)) <= 1
            BY <2>2, <2>3, <4>3, FiniteRefers DEF GraphInv, CountExact
          <5>2. RefersTo(b) = {f.ref}
            BY <2>2, <5>1, FiniteRefers, Alone
          <5>3. RefersTo(b)' = {f.ref} /\ count'[b] = 1 /\ ref'[f.ref] = b /\ embed'[b] \in 0 .. MaxEmbed
            BY <1>0, <1>3, <1>4, <2>2, <2>3, <4>3, <5>2 DEF Types
          <5>4. g.seen = 1 /\ g.next <= embed'[b] + 1 /\ \A j \in 1 .. g.next - 1 : FALSE
            BY <2>3, <4>3, <5>3, Constants
          <5> QED
            BY <2>3, <4>1, <5>3, <5>4 DEF KidsFrame
        <4>4. ref'[f.ref] \in live'
          BY <1>3, <2>2
        <4>5. Counts(g.ref)' /\ ref'[g.ref] \in live'
          BY <1>2, <1>4, <2>2, <2>3, <4>4
        <4> QED
          BY <2>3, <4>1, <4>3, <4>5 DEF FrameOk
      <3>2. CASE i # n
        <4>1. PICK h, x : h = stack[a][i] /\ x = ref[h.ref]
          OBVIOUS
        <4>2. /\ i \in 1 .. n - 1 /\ stack'[a][i] = h /\ IsFrame(a, i) /\ i < n /\ i + 1 \in 1 .. n
              /\ FrameOk(a, i) /\ stack'[a][i + 1].ref = stack[a][i + 1].ref
          BY <1>0, <1>2, <2>4, <2>5, <3>0, <3>2, <4>1 DEF IsFrame, Frames, FramesOf
        <4>3. Undisturbed(h, x)
          BY <1>4, <4>1, <4>2 DEF FrameStays
        <4>4. /\ h.at = "kids" /\ h.next > 1 /\ stack[a][i + 1].ref = Word(x, h.next - 1)
              /\ KidsFrame(a, i)
          BY <4>1, <4>2 DEF FrameOk
        <4>5. KidsFrame(a, i)' /\ ref'[h.ref] = x
          <5>1. i < Len(stack'[a])
            BY <2>4, <4>2
          <5> QED
            BY <4>1, <4>2, <4>3, <4>4, <5>1, KidsStay
        <4>6. Counts(h.ref)' /\ x \in live'
          BY <4>3, <4>4 DEF Undisturbed
        <4> QED
          BY <4>2, <4>4, <4>5, <4>6 DEF FrameOk
      <3> QED
        BY <3>1, <3>2
    <2>7. FramesOf(a)'
      BY <2>6 DEF FramesOf
    <2>8. Frames'
      BY <1>6, <2>4, <2>7 DEF Frames
    <2>9. NoSharedFrame'
      <3>1. \A d \in Agent : Len(stack'[d]) = Len(stack[d]) /\ \A i \in 1 .. Len(stack[d]) : stack'[d][i].ref = stack[d][i].ref
        BY <2>4, <2>5
      <3> QED
        BY <3>1, FewerFrames DEF GraphInv
    <2>10. Endings'
      <3>1. stack'[a] # <<>> /\ stack[a] # <<>> /\ stack'[a][1].ref = stack[a][1].ref
        BY <1>2, <2>4, <2>5
      <3>2. \A d \in Agent : IF stack'[d] = <<>> THEN ending[d] # NoRoot => ref[ending[d]] = Null
                             ELSE ending[d] # NoRoot /\ stack'[d][1].ref = ending[d]
        BY <1>0, <2>4, <3>1 DEF Endings
      <3> QED
        BY <1>0, <1>3, <3>2 DEF Endings
    <2> QED
      BY <1>0, <1>4, <1>5, <2>8, <2>9, <2>10 DEF GraphInv
  <1> QED
    BY <1>7, <1>8

LEMMA ReleaseKidStep ==
  ASSUME GraphInv, [Next]_vars, NEW a \in Agent, ReleaseKid(a)
  PROVE  GraphInv' /\ Refines
  <1> PICK n, f, b : n = Len(stack[a]) /\ f = stack[a][n] /\ b = ref[f.ref]
    OBVIOUS
  <1> PICK s : s = Pop(stack[a])
    OBVIOUS
  <1>a. PICK g, h : g = [f EXCEPT !.next = f.next + 1] /\ h = Call(Word(b, f.next))
    OBVIOUS
  <1>0. Types /\ Types' /\ Endings /\ Frames /\ CountsByKind
    BY TypeStep, CountsCases DEF GraphInv
  <1>1. Releasing(a)
    BY DEF ReleaseKid
  <1>2. /\ IsFrame(a, n) /\ Top(a) = f /\ f \in Frame /\ f.ref \in Location
        /\ n \in Nat \ {0} /\ stack[a] # <<>>
        /\ s \in Seq(Frame) /\ Len(s) = n - 1 /\ \A i \in 1 .. n - 1 : s[i] = stack[a][i]
    BY <1>0, <1>1, TopFrame, FrameType
  <1>3. /\ f.at = "kids" /\ f.next <= embed[b] /\ stack' = [stack EXCEPT ![a] = Append(Append(s, g), h)]
        /\ UNCHANGED <<memory, use, status, fill, ending, patient, orphan>>
        /\ UNCHANGED <<ref, count, embed, live>>
    BY <1>2, <1>a DEF ReleaseKid, memory, Push
  <1>4. /\ NoWildPointer' /\ CountExact' /\ Refines
        /\ \A x \in Location : Counts(x)' <=> Counts(x)
        /\ \A x \in Block : RefersTo(x)' = RefersTo(x)
        /\ \A d, i : IsFrame(d, i) => FrameStays(d, i)
    BY <1>3, MemoryStays
  <1>5. Fillers' /\ RootsHold'
    BY <1>3, FillersStay DEF GraphInv, RootsHold
  <1>6. ASSUME NEW d \in Agent, stack'[d] = stack[d] PROVE FramesOf(d)'
    <2>1. FramesOf(d) /\ \A i \in 1 .. Len(stack[d]) : FrameStays(d, i)
      BY <1>4 DEF GraphInv, Frames, IsFrame
    <2> QED
      BY <1>6, <2>1, FramesStay
  <1>7. /\ b \in live /\ b \in Block /\ Counts(f.ref) /\ RefersTo(b) = {f.ref} /\ count[b] = 1
        /\ f.next \in Nat \ {0} /\ embed[b] \in 0 .. MaxEmbed /\ MaxEmbed \in Nat
        /\ f.seen = 1
        /\ \A j \in 1 .. f.next - 1 : ref[Word(b, j)] = Null
    <2>1. b \in live /\ b \in Block /\ Counts(f.ref) /\ RefersTo(b) = {f.ref} /\ count[b] = 1
      <3>1. FrameOk(a, n)
        BY <1>0, <1>2 DEF Frames, FramesOf, IsFrame
      <3>2. Counts(f.ref) /\ b \in live /\ KidsFrame(a, n)
        BY <1>3, <3>1 DEF FrameOk
      <3> QED
        BY <1>0, <3>2 DEF KidsFrame, Types
    <2>2. f.next \in Nat \ {0} /\ embed[b] \in 0 .. MaxEmbed /\ MaxEmbed \in Nat
      BY <1>0, <1>2, <2>1, Constants DEF Types, Frame
    <2>3. KidsFrame(a, n) /\ ~(n < Len(stack[a]))
      BY <1>0, <1>2, <1>3 DEF Frames, FramesOf, FrameOk, IsFrame
    <2>4. f.seen = 1 /\ \A j \in 1 .. f.next - 1 : ref[Word(b, j)] = Null
      BY <2>3 DEF KidsFrame
    <2> QED
      BY <2>1, <2>2, <2>4
  <1>8. /\ g.at = "kids" /\ g.ref = f.ref /\ g.seen = f.seen /\ g.next = f.next + 1
        /\ h.at = "read" /\ h.ref = Word(b, f.next) /\ h.next = 1
    <2>1. g.at = f.at /\ g.ref = f.ref /\ g.seen = f.seen /\ g.next = f.next + 1
      BY <1>2, <1>a DEF Frame
    <2>2. h.at = "read" /\ h.ref = Word(b, f.next) /\ h.next = 1
      BY <1>a DEF Call
    <2> QED
      BY <1>3, <2>1, <2>2
  <1>9. Word(b, f.next) \in Location /\ Counts(Word(b, f.next))
    <2>1. f.next \in 1 .. MaxEmbed
      BY <1>3, <1>7
    <2>2. \A c \in Client : fill[c].block # b
      BY <1>2, <1>7, NotFilled DEF GraphInv
    <2>3. b \in live /\ b \in Block /\ f.next <= embed[b]
      BY <1>3, <1>7
    <2>4. Word(b, f.next) \in Location
      BY <2>1, <2>3, Kinds
    <2>5. Counts(Word(b, f.next))
      BY <1>0, <2>1, <2>2, <2>3 DEF CountsByKind
    <2> QED
      BY <2>4, <2>5
  <1>10. /\ Len(stack'[a]) = n + 1 /\ stack'[a][n + 1] = h /\ stack'[a][n] = g
         /\ \A i \in 1 .. n - 1 : stack'[a][i] = stack[a][i]
         /\ \A d \in Agent : d # a => stack'[d] = stack[d]
    <2> PICK r : r = Append(s, g)
      OBVIOUS
    <2>1. stack'[a] = Append(r, h) /\ \A d \in Agent : d # a => stack'[d] = stack[d]
      BY <1>0, <1>3 DEF Types
    <2>2. g \in Frame
      BY <1>2, <1>a, CallType
    <2>3. r \in Seq(Frame) /\ Len(r) = n /\ r[n] = g /\ \A i \in 1 .. n - 1 : r[i] = s[i]
      BY <1>2, <2>2
    <2>4. Len(stack'[a]) = n + 1 /\ stack'[a][n + 1] = h /\ \A i \in 1 .. n : stack'[a][i] = r[i]
      BY <1>2, <2>1, <2>3
    <2>5. n \in 1 .. n /\ \A i \in 1 .. n - 1 : i \in 1 .. n
      BY <1>2
    <2> QED
      BY <1>2, <2>1, <2>3, <2>4, <2>5
  <1>11. \A i \in 1 .. n : stack'[a][i].ref = stack[a][i].ref
    <2> TAKE i \in 1 .. n
    <2>1. CASE i = n
      BY <1>8, <1>10, <2>1
    <2>2. CASE i # n
      <3>1. i \in 1 .. n - 1
        BY <1>2, <2>2
      <3> QED
        BY <1>10, <3>1
    <2> QED
      BY <2>1, <2>2
  <1>12. ASSUME NEW i \in 1 .. Len(stack'[a]) PROVE FrameOk(a, i)'
    <2>0. i \in 1 .. n + 1 /\ n \in Nat \ {0}
      BY <1>2, <1>10, <1>12
    <2>1. CASE i = n + 1
      <3>1. stack'[a][i] = h /\ ~(i < Len(stack'[a]))
        BY <1>10, <2>0, <2>1
      <3>2. Counts(h.ref)'
        BY <1>4, <1>8, <1>9
      <3>3. h.at # "kids" /\ h.at # "unlink"
        BY <1>8
      <3> QED
        BY <1>8, <3>1, <3>2, <3>3 DEF FrameOk
    <2>2. CASE i = n
      <3>1. stack'[a][i] = g /\ i < Len(stack'[a]) /\ stack'[a][i + 1] = h
        BY <1>10, <2>0, <2>2
      <3>2. Counts(g.ref)' /\ ref'[g.ref] = b /\ b \in live'
        BY <1>2, <1>3, <1>4, <1>7, <1>8
      <3>3. /\ RefersTo(b)' = {g.ref} /\ count'[b] = 1 /\ g.seen = 1 /\ g.next <= embed'[b] + 1
            /\ \A j \in 1 .. g.next - 1 : j = g.next - 1 \/ ref'[Word(b, j)] = Null
        <4>1. RefersTo(b)' = {g.ref} /\ count'[b] = 1 /\ g.seen = 1 /\ g.next <= embed'[b] + 1
          <5>1. RefersTo(b)' = RefersTo(b)
            BY <1>4, <1>7
          <5>2. count'[b] = 1 /\ embed'[b] = embed[b] /\ f.next <= embed[b]
            BY <1>3, <1>7
          <5>3. RefersTo(b) = {g.ref} /\ g.seen = 1 /\ g.next = f.next + 1 /\ f.next \in Nat /\ embed[b] \in Int
            BY <1>7, <1>8
          <5> QED
            BY <5>1, <5>2, <5>3
        <4>2. \A j \in 1 .. g.next - 1 : j = g.next - 1 \/ j \in 1 .. f.next - 1
          <5>1. \A m \in Nat \ {0} : \A j \in 1 .. (m + 1) - 1 : j = (m + 1) - 1 \/ j \in 1 .. m - 1
            OBVIOUS
          <5>2. f.next \in Nat \ {0} /\ g.next = f.next + 1
            BY <1>7, <1>8
          <5> QED
            BY <5>1, <5>2
        <4>3. \A j \in 1 .. f.next - 1 : ref'[Word(b, j)] = Null
          BY <1>3, <1>7
        <4> QED
          BY <4>1, <4>2, <4>3
      <3>4. KidsFrame(a, i)'
        BY <3>1, <3>2, <3>3 DEF KidsFrame
      <3>5. g.next > 1 /\ g.next - 1 = f.next
        BY <1>7, <1>8
      <3> QED
        BY <1>8, <3>1, <3>2, <3>4, <3>5 DEF FrameOk
    <2>3. CASE i # n /\ i # n + 1
      <3>1. PICK k, x : k = stack[a][i] /\ x = ref[k.ref]
        OBVIOUS
      <3>2. i \in 1 .. n - 1 /\ i < n /\ i + 1 \in 1 .. n /\ i \in 1 .. n
        BY <2>0, <2>3
      <3>3. /\ stack'[a][i] = k /\ IsFrame(a, i) /\ FrameOk(a, i)
            /\ stack'[a][i + 1].ref = stack[a][i + 1].ref /\ i < Len(stack'[a])
        BY <1>0, <1>2, <1>10, <1>11, <3>1, <3>2 DEF IsFrame, Frames, FramesOf
      <3>4. Undisturbed(k, x)
        BY <1>4, <3>1, <3>3 DEF FrameStays
      <3>5. /\ k.at = "kids" /\ k.next > 1 /\ stack[a][i + 1].ref = Word(x, k.next - 1)
            /\ KidsFrame(a, i)
        BY <3>1, <3>2, <3>3 DEF FrameOk
      <3>6. KidsFrame(a, i)' /\ ref'[k.ref] = x
        BY <3>1, <3>3, <3>4, <3>5, KidsStay
      <3>7. Counts(k.ref)' /\ x \in live'
        BY <3>4, <3>5 DEF Undisturbed
      <3> QED
        BY <3>3, <3>5, <3>6, <3>7 DEF FrameOk
    <2> QED
      BY <2>1, <2>2, <2>3
  <1>13. Frames'
    <2>1. FramesOf(a)'
      BY <1>12 DEF FramesOf
    <2> QED
      BY <1>6, <1>10, <2>1 DEF Frames
  <1>14. \A d, i : IsFrame(d, i) => stack[d][i].ref # Word(b, f.next)
    <2> SUFFICES ASSUME NEW d, NEW i, IsFrame(d, i), stack[d][i].ref = Word(b, f.next) PROVE FALSE
      OBVIOUS
    <2>1. /\ IsFrame(d, i - 1) /\ RefersTo(b) = {stack[d][i - 1].ref}
      BY <1>0, FrameAtWord
    <2>2. stack[d][i - 1].ref = stack[a][n].ref
      BY <1>7, <2>1
    <2>3. d = a /\ i - 1 = n
      BY <1>2, <2>1, <2>2 DEF GraphInv, NoSharedFrame, IsFrame
    <2> QED
      BY <1>2, <2>3 DEF IsFrame
  <1>15. NoSharedFrame'
    <2> SUFFICES ASSUME NEW d \in Agent, NEW e \in Agent,
                        NEW i \in 1 .. Len(stack'[d]), NEW j \in 1 .. Len(stack'[e]),
                        stack'[d][i].ref = stack'[e][j].ref
                 PROVE  d = e /\ i = j
      BY DEF NoSharedFrame
    <2>1. \A x \in Agent : \A y \in 1 .. Len(stack'[x]) :
            \/ x = a /\ y = n + 1 /\ stack'[x][y].ref = Word(b, f.next)
            \/ IsFrame(x, y) /\ stack'[x][y].ref = stack[x][y].ref
      <3> TAKE x \in Agent
      <3> TAKE y \in 1 .. Len(stack'[x])
      <3>1. CASE x = a /\ y = n + 1
        BY <1>8, <1>10, <3>1
      <3>2. CASE x = a /\ y # n + 1
        <4>1. y \in 1 .. n
          BY <1>2, <1>10, <3>2
        <4> QED
          BY <1>11, <3>2, <4>1 DEF IsFrame
      <3>3. CASE x # a
        BY <1>10, <3>3 DEF IsFrame
      <3> QED
        BY <3>1, <3>2, <3>3
    <2>2. CASE IsFrame(d, i) /\ IsFrame(e, j) /\ stack[d][i].ref = stack[e][j].ref
      BY <2>2 DEF GraphInv, NoSharedFrame, IsFrame
    <2>3. CASE ~(IsFrame(d, i) /\ IsFrame(e, j) /\ stack[d][i].ref = stack[e][j].ref)
      BY <1>14, <2>1, <2>3
    <2> QED
      BY <2>2, <2>3
  <1>16. Endings'
    <2>1. stack'[a] # <<>> /\ stack[a] # <<>> /\ stack'[a][1].ref = stack[a][1].ref
      BY <1>2, <1>10, <1>11
    <2>2. \A d \in Agent : IF stack'[d] = <<>> THEN ending[d] # NoRoot => ref[ending[d]] = Null
                           ELSE ending[d] # NoRoot /\ stack'[d][1].ref = ending[d]
      BY <1>0, <1>10, <2>1 DEF Endings
    <2> QED
      BY <1>0, <1>3, <2>2 DEF Endings
  <1> QED
    BY <1>0, <1>4, <1>5, <1>13, <1>15, <1>16 DEF GraphInv

(* What UnlinkRef does, told of the frame on top and the object it is at. *)
LEMMA Unlinked ==
  ASSUME NEW a, UnlinkRef(a), NEW f, f = Top(a), NEW b, b = ref[f.ref]
  PROVE  /\ ref' = [ref EXCEPT ![f.ref] = Null] /\ count' = [count EXCEPT ![b] = @ - 1]
         /\ stack' = [stack EXCEPT ![a] = Pop(stack[a])]
         /\ f.at = "unlink" \/ (f.at = "kids" /\ f.next > embed[b])
         /\ count[b] - 1 > 0 => UNCHANGED <<live, orphan>>
         /\ ~(count[b] - 1 > 0) =>
              /\ live' = live \ {b}
              /\ orphan' = (orphan \ {b}) \cup
                   (IF f.seen > 1 THEN {ref[Word(b, i)] : i \in 1 .. embed[b]} \ {Null} ELSE {})
         /\ UNCHANGED <<embed, use, cnt, status, fill, ending, patient>>
  BY DEF UnlinkRef

LEMMA UnlinkRefStep ==
  ASSUME GraphInv, [Next]_vars, NEW a \in Agent, UnlinkRef(a)
  PROVE  GraphInv' /\ Refines
  <1>p. PICK n, f, l, b : n = Len(stack[a]) /\ f = stack[a][n] /\ l = f.ref /\ b = ref[l]
    OBVIOUS
  <1>s. PICK s : s = Pop(stack[a])
    OBVIOUS
  <1> DEFINE last == ~(count[b] - 1 > 0)
  <1>0. /\ Types /\ Types' /\ Endings /\ Frames /\ Fillers /\ CountsByKind /\ CountsByKind'
        /\ NoWildPointer /\ CountExact /\ NoSharedFrame
    BY TypeStep, CountsCases, CountsCasesNext DEF GraphInv
  <1>1. Releasing(a)
    BY DEF UnlinkRef
  <1>2. /\ IsFrame(a, n) /\ Top(a) = f /\ f \in Frame /\ l \in Location
        /\ n \in Nat \ {0} /\ stack[a] # <<>>
        /\ s \in Seq(Frame) /\ Len(s) = n - 1 /\ \A i \in 1 .. n - 1 : s[i] = stack[a][i]
    BY <1>0, <1>1, <1>p, <1>s, TopFrame, FrameType
  <1>3. /\ ref' = [ref EXCEPT ![l] = Null] /\ count' = [count EXCEPT ![b] = @ - 1]
        /\ stack' = [stack EXCEPT ![a] = s]
        /\ f.at = "unlink" \/ (f.at = "kids" /\ f.next > embed[b])
        /\ ~last => UNCHANGED <<live, orphan>>
        /\ last => /\ live' = live \ {b}
                   /\ orphan' = (orphan \ {b}) \cup
                        (IF f.seen > 1 THEN {ref[Word(b, i)] : i \in 1 .. embed[b]} \ {Null} ELSE {})
        /\ UNCHANGED <<embed, use, cnt, status, fill, ending, patient>>
    <2>1. f = Top(a) /\ b = ref[f.ref] /\ l = f.ref /\ s = Pop(stack[a])
      BY <1>2, <1>p, <1>s
    <2> QED
      BY <2>1, Unlinked
  <1>4. /\ Counts(l) /\ b \in live /\ b \in Block /\ b # Null /\ embed[b] \in 0 .. MaxEmbed
        /\ l \in RefersTo(b) /\ Target(l) = b /\ count[b] \in Nat \ {0}
        /\ f.at = "unlink" => f.seen > 1
        /\ f.at = "kids" => KidsFrame(a, n)
    <2>1. FrameOk(a, n) /\ f.at # "read"
      <3>1. FrameOk(a, n)
        BY <1>0, <1>2 DEF Frames, FramesOf, IsFrame
      <3> QED
        BY <1>3, <3>1
    <2>2. /\ Counts(l) /\ b \in live
          /\ f.at = "unlink" => f.seen > 1
          /\ f.at = "kids" => KidsFrame(a, n)
      BY <1>p, <2>1 DEF FrameOk
    <2>3. b \in Block /\ b # Null /\ embed[b] \in 0 .. MaxEmbed
      BY <1>0, <2>2, Constants DEF Types
    <2>4. l \in RefersTo(b) /\ count[b] \in Nat \ {0}
      BY <1>0, <1>2, <1>p, <2>3, FrameObject
    <2> QED
      BY <1>2, <1>p, <2>2, <2>3, <2>4 DEF Target
  <1>5. f.at = "kids" => f.seen = 1 /\ \A j \in 1 .. embed[b] : ref[Word(b, j)] = Null
    <2> SUFFICES ASSUME f.at = "kids" PROVE f.seen = 1 /\ \A j \in 1 .. embed[b] : ref[Word(b, j)] = Null
      OBVIOUS
    <2>1. /\ f.seen = 1 /\ f.next <= embed[b] + 1
          /\ \A j \in 1 .. f.next - 1 : ref[Word(b, j)] = Null
      BY <1>2, <1>p, <1>4 DEF KidsFrame
    <2>2. f.next = embed[b] + 1
      <3>1. f.next \in Nat
        BY <1>2, <1>p DEF Frame
      <3>2. embed[b] \in Nat
        BY <1>4, Constants
      <3>3. f.next > embed[b]
        BY <1>3
      <3> QED
        BY <2>1, <3>1, <3>2, <3>3
    <2>3. f.next - 1 = embed[b]
      BY <1>4, <2>2
    <2> QED
      BY <2>1, <2>3
  <1>6. last => count[b] = 1 /\ RefersTo(b) = {l}
    <2> SUFFICES ASSUME last PROVE count[b] = 1 /\ RefersTo(b) = {l}
      OBVIOUS
    <2>1. count[b] = 1
      <3>1. count[b] \in Nat \ {0}
        BY <1>4
      <3> QED
        BY <3>1
    <2>2. Cardinality(RefersTo(b)) <= 1
      BY <1>0, <1>4, <2>1, FiniteRefers DEF CountExact
    <2> QED
      BY <1>4, <2>1, <2>2, FiniteRefers, Alone
  <1> HIDE DEF last
  <1>7. \A d, i : IsFrame(d, i) /\ stack[d][i].ref = l => d = a /\ i = n
    BY <1>0, <1>2, <1>p DEF NoSharedFrame, IsFrame
  <1>8. ref'[l] = Null /\ \A x \in Location : x # l => ref'[x] = ref[x]
    <2>1. ref \in [Location -> Block \cup {Null, Data}]
      BY <1>0 DEF Types
    <2>2. l \in Location /\ ref' = [ref EXCEPT ![l] = Null]
      BY <1>2, <1>3
    <2> QED
      BY <2>1, <2>2
  <1>9. live' = IF last THEN live \ {b} ELSE live
    BY <1>3
  <1>10. \A x \in Location : Counts(x)' <=> Counts(x) /\ ~(last /\ x \in WordOf(b))
    <2> TAKE x \in Location
    <2>1. CASE x \in Roots \/ \E y, z \in Client : x = Mail(y, z)
      <3>1. x \notin WordOf(b)
        BY <2>1, Kinds DEF WordOf
      <3>2. use' = use
        BY <1>3
      <3>3. x \in Roots => (Counts(x)' <=> Counts(x))
        BY <1>0, <3>2 DEF CountsByKind
      <3>4. (\E y, z \in Client : x = Mail(y, z)) => Counts(x)' /\ Counts(x)
        BY <1>0 DEF CountsByKind
      <3> QED
        BY <2>1, <3>1, <3>3, <3>4
    <2>2. CASE \E y \in Block, i \in 1 .. MaxEmbed : x = Word(y, i)
      <3> PICK y \in Block, i \in 1 .. MaxEmbed : x = Word(y, i)
        BY <2>2
      <3>1. x \in WordOf(b) <=> y = b
        BY Kinds DEF WordOf
      <3>2. y \in live' <=> y \in live /\ ~(last /\ y = b)
        BY <1>9
      <3> QED
        BY <1>0, <1>3, <3>1, <3>2 DEF CountsByKind
    <2> QED
      BY <2>1, <2>2, AnyLocation
  <1>11. \A x \in Location : Target(x)' = IF x = l \/ (last /\ x \in WordOf(b)) THEN Null ELSE Target(x)
    BY <1>8, <1>10 DEF Target
  <1>12. \A x \in Block : x # b => RefersTo(x)' \subseteq RefersTo(x) /\ count'[x] = count[x]
    <2> SUFFICES ASSUME NEW x \in Block, x # b
                 PROVE  RefersTo(x)' \subseteq RefersTo(x) /\ count'[x] = count[x]
      OBVIOUS
    <2>1. \A y \in Location : Target(y)' = x => Target(y) = x
      BY <1>11, Constants
    <2>2. RefersTo(x)' \subseteq RefersTo(x)
      BY <2>1, TargetRefers, RefersLocation
    <2> QED
      BY <1>0, <1>3, <2>2 DEF Types
  <1>13. ASSUME NEW x \in Block, x # b, x \notin orphan'
         PROVE  x \notin orphan /\ RefersTo(x)' = RefersTo(x)
    <2>1. CASE ~last
      <3>1. \A y \in Location : Target(y)' = x <=> Target(y) = x
        BY <1>4, <1>11, <1>13, <2>1, Constants
      <3> QED
        BY <1>3, <1>13, <2>1, <3>1, SameTarget
    <2>2. CASE last
      <3>1. \A y \in Location : y \in WordOf(b) => Target(y) # x
        <4> SUFFICES ASSUME NEW i \in 1 .. MaxEmbed, Target(Word(b, i)) = x, Word(b, i) \in Location PROVE FALSE
          BY DEF WordOf
        <4>1. Counts(Word(b, i)) /\ ref[Word(b, i)] = x /\ x # Null
          BY <1>13, Constants DEF Target
        <4>2. i \in 1 .. embed[b]
          BY <1>0, <1>4, <4>1 DEF CountsByKind
        <4>3. f.at = "unlink"
          BY <1>3, <1>5, <4>1, <4>2
        <4>4. x \in {ref[Word(b, j)] : j \in 1 .. embed[b]} \ {Null}
          BY <4>1, <4>2
        <4>5. x \in orphan'
          BY <1>3, <1>4, <2>2, <4>3, <4>4
        <4> QED
          BY <1>13, <4>5
      <3>2. \A y \in Location : Target(y)' = x <=> Target(y) = x
        BY <1>4, <1>11, <1>13, <3>1, Constants
      <3>3. x \notin orphan
        BY <1>3, <1>13, <2>2
      <3> QED
        BY <1>13, <3>2, <3>3, SameTarget
    <2> QED
      BY <2>1, <2>2
  <1>14. CountExact'
    <2> SUFFICES ASSUME NEW x \in live'
                 PROVE  /\ count'[x] >= Cardinality(RefersTo(x)')
                        /\ x \notin orphan' => count'[x] = Cardinality(RefersTo(x)')
      BY DEF CountExact
    <2>0. x \in live /\ x \in Block
      BY <1>0, <1>9 DEF Types
    <2>1. CASE x # b
      <3>1. Cardinality(RefersTo(x)') <= Cardinality(RefersTo(x))
        BY <1>12, <2>0, <2>1, FiniteRefers, FS_Subset
      <3>2. count[x] >= Cardinality(RefersTo(x)) /\ (x \notin orphan => count[x] = Cardinality(RefersTo(x)))
        BY <1>0, <2>0 DEF CountExact
      <3>3. count'[x] = count[x] /\ count[x] \in Int
        BY <1>0, <1>12, <2>0, <2>1 DEF Types
      <3>4. x \notin orphan' => count'[x] = Cardinality(RefersTo(x)')
        BY <1>13, <2>0, <2>1, <3>2, <3>3
      <3> QED
        BY <3>1, <3>2, <3>3, <3>4, FiniteRefers, FiniteRefersNext
    <2>2. CASE x = b
      <3>1. ~last /\ orphan' = orphan
        BY <1>3, <1>9, <2>2
      <3>2. \A y \in Location : Target(y)' = x <=> Target(y) = x /\ y # l
        BY <1>4, <1>11, <2>2, <3>1
      <3>3. Cardinality(RefersTo(x)') = Cardinality(RefersTo(x)) - 1
        BY <1>2, <1>p, <1>4, <2>0, <2>2, <3>2, LessTarget
      <3>4. count[x] >= Cardinality(RefersTo(x)) /\ (x \notin orphan => count[x] = Cardinality(RefersTo(x)))
        BY <1>0, <2>0 DEF CountExact
      <3>5. count'[x] = count[x] - 1 /\ count[x] \in Int
        BY <1>0, <1>3, <2>0, <2>2 DEF Types
      <3> QED
        BY <3>1, <3>3, <3>4, <3>5, FiniteRefers
    <2> QED
      BY <2>1, <2>2
  <1>15. NoWildPointer'
    <2>1. \A x \in Location : Target(x)' \in live' \cup {Null}
      <3> TAKE x \in Location
      <3>1. CASE Target(x)' = Target(x) /\ x # l
        <4>1. last => Target(x) # b
          BY <1>4, <1>6, <3>1, TargetRefers
        <4> QED
          BY <1>0, <1>9, <3>1, <4>1, TargetLive
      <3>2. CASE ~(Target(x)' = Target(x) /\ x # l)
        BY <1>11, <3>2
      <3> QED
        BY <3>1, <3>2
    <2> QED
      BY <2>1 DEF NoWildPointer, Target
  <1>16. ASSUME NEW d, NEW i, IsFrame(d, i) PROVE ~(last /\ stack[d][i].ref \in WordOf(b))
    <2> SUFFICES ASSUME last, NEW j \in 1 .. MaxEmbed, stack[d][i].ref = Word(b, j) PROVE FALSE
      BY DEF WordOf
    <2>1. IsFrame(d, i - 1) /\ RefersTo(b) = {stack[d][i - 1].ref}
      BY <1>0, <1>16, FrameAtWord
    <2>2. stack[d][i - 1].ref = l
      BY <1>4, <2>1
    <2>3. d = a /\ i - 1 = n
      BY <1>7, <2>1, <2>2
    <2> QED
      BY <1>2, <1>p, <1>16, <2>3 DEF IsFrame
  <1>17. ASSUME NEW d, NEW i, IsFrame(d, i), ~(d = a /\ i = n) PROVE FrameStays(d, i)
    <2> SUFFICES ASSUME NEW g, g = stack[d][i], NEW x, x = ref[g.ref] PROVE Undisturbed(g, x)
      BY DEF FrameStays
    <2>1. g \in Frame /\ g.ref \in Location /\ g.ref # l /\ FrameOk(d, i)
      BY <1>0, <1>7, <1>17, FrameType DEF Frames, FramesOf, IsFrame
    <2>2. Counts(g.ref) /\ Counts(g.ref)' /\ ref'[g.ref] = x
      BY <1>8, <1>10, <1>16, <1>17, <2>1 DEF FrameOk
    <2>3. Target(g.ref) = x /\ Target(g.ref)' = x
      BY <2>2 DEF Target
    <2>4. g.at # "read" => x \in live /\ x \in Block
      BY <1>0, <2>1 DEF FrameOk, Types
    <2>5. last => x # b
      BY <1>4, <1>6, <2>1, <2>3, TargetRefers
    <2>6. g.at # "read" => x \in live'
      BY <1>9, <2>4, <2>5
    <2>7. ASSUME g.at = "kids"
          PROVE  /\ embed'[x] = embed[x] /\ count'[x] = count[x] /\ RefersTo(x)' = RefersTo(x)
                 /\ \A j \in 1 .. g.next - 1 : ref[Word(x, j)] = Null => ref'[Word(x, j)] = Null
      <3>1. /\ RefersTo(x) = {g.ref} /\ x \in Block
            /\ \A j \in 1 .. g.next - 1 : j \in 1 .. MaxEmbed
        <4>1. KidsFrame(d, i)
          BY <2>1, <2>7 DEF FrameOk
        <4>2. RefersTo(x) = {g.ref} /\ g.next <= embed[x] + 1
          BY <4>1 DEF KidsFrame
        <4>3. x \in Block
          BY <2>4, <2>7
        <4>4. embed[x] \in 0 .. MaxEmbed /\ MaxEmbed \in Nat
          BY <1>0, <4>3, Constants DEF Types
        <4>5. g.next \in Nat
          BY <2>1 DEF Frame
        <4> QED
          BY <4>2, <4>3, <4>4, <4>5
      <3>2. x # b
        BY <1>4, <2>1, <3>1
      <3>3. count'[x] = count[x] /\ RefersTo(x)' \subseteq {g.ref}
        BY <1>12, <3>1, <3>2
      <3>4. g.ref \in RefersTo(x)'
        BY <2>1, <2>3, <3>1, TargetRefers
      <3>5. \A j \in 1 .. g.next - 1 : Word(x, j) \in Location
        BY <3>1, Kinds
      <3>6. \A j \in 1 .. g.next - 1 : ref[Word(x, j)] = Null => ref'[Word(x, j)] = Null
        BY <1>8, <3>5
      <3>7. RefersTo(x)' = RefersTo(x)
        BY <3>1, <3>3, <3>4
      <3>8. embed'[x] = embed[x]
        BY <1>3
      <3> QED
        BY <3>3, <3>6, <3>7, <3>8
    <2>8. g.at # "read" => ref'[g.ref] = x /\ x \in live'
      BY <2>2, <2>6
    <2>9. Counts(g.ref)'
      BY <2>2
    <2> QED
      BY <2>7, <2>8, <2>9 DEF Undisturbed
  <1>18. stack'[a] = s /\ \A d \in Agent : d # a => stack'[d] = stack[d]
    <2>1. stack \in [Agent -> Seq(Frame)]
      BY <1>0 DEF Types
    <2>2. stack' = [stack EXCEPT ![a] = s]
      BY <1>3
    <2> QED
      BY <2>1, <2>2
  <1>19. Frames' /\ NoSharedFrame'
    <2>0. a \in Agent
      BY <1>2, <1>p DEF IsFrame
    <2>1. FramesOf(a)'
      <3>1. FramesOf(a) /\ stack'[a] = Pop(stack[a]) /\ ref'[Top(a).ref] = Null
        BY <1>0, <1>2, <1>p, <1>s, <1>8, <1>18, <2>0 DEF Frames
      <3>2. \A i \in 1 .. Len(stack[a]) - 1 : FrameStays(a, i)
        <4> TAKE i \in 1 .. Len(stack[a]) - 1
        <4>1. i \in 1 .. Len(stack[a]) /\ i # n
          BY <1>2, <1>p
        <4> QED
          BY <1>17, <2>0, <4>1 DEF IsFrame
      <3> QED
        BY <1>0, <1>2, <1>p, <2>0, <3>1, <3>2, FramesPopped
    <2>2. ASSUME NEW d \in Agent, d # a PROVE FramesOf(d)'
      <3>1. FramesOf(d) /\ \A i \in 1 .. Len(stack[d]) : FrameStays(d, i)
        BY <1>0, <1>17, <2>2 DEF Frames, IsFrame
      <3> QED
        BY <1>18, <2>2, <3>1, FramesStay
    <2>3. NoSharedFrame'
      <3>1. \A d \in Agent : \A i \in 1 .. Len(stack'[d]) : i \in 1 .. Len(stack[d]) /\ stack'[d][i] = stack[d][i]
        BY <1>2, <1>p, <1>18
      <3> QED
        BY <1>0, <3>1, FewerFrames
    <2> QED
      BY <2>1, <2>2, <2>3 DEF Frames
  <1>20. \A c \in Client : status[c] = "run" /\ l \in RootOf(c) => ending[c] = l /\ l # NoRoot
    <2>1. \A c \in Client : status[c] = "run" /\ stack[a][n].ref \in RootOf(c) => ending[c] = stack[a][n].ref
      BY <1>0, <1>2, <1>p, FrameNotOf
    <2> QED
      BY <1>p, <2>1, Kinds
  <1>21. Fillers'
    <2> SUFFICES ASSUME NEW c \in Client, fill[c] # NoFill PROVE Filler(c)'
      BY <1>3 DEF Fillers
    <2>1. Filler(c)
      BY <1>0 DEF Fillers
    <2>2. PICK x : x = fill[c].block
      OBVIOUS
    <2>3. x \in live /\ x \in Block /\ status[c] = "run" /\ ending[c] = NoRoot
      BY <1>0, <2>1, <2>2 DEF Filler, Types
    <2>4. x # b
      BY <1>0, <1>2, <1>p, <1>4, <2>2, NotFilled
    <2>5. l \notin RootOf(c)
      BY <1>20, <2>3
    <2>6. PICK y \in RootOf(c) : RefersTo(x) = {y}
      BY <2>1, <2>2 DEF Filler
    <2>7. y \in Location /\ y # l /\ y \notin WordOf(b) /\ Target(y) = x
      <3>1. y \in RefersTo(x)
        BY <2>6
      <3> QED
        BY <2>3, <2>5, <3>1, Kinds, RefersLocation, TargetRefers DEF WordOf
    <2>8. RefersTo(x)' = RefersTo(x)
      <3>1. y \in RefersTo(x)'
        BY <1>11, <2>3, <2>7, TargetRefers
      <3>2. RefersTo(x)' \subseteq {y}
        BY <1>12, <2>3, <2>4, <2>6
      <3> QED
        BY <2>6, <3>1, <3>2
    <2>9. \A z \in RootOf(c) : ref'[z] = ref[z]
      BY <1>8, <2>5, Kinds
    <2>10. x \in live' /\ UNCHANGED <<embed, use, status, fill, ending>>
      BY <1>3, <1>9, <2>3, <2>4
    <2> QED
      BY <2>1, <2>2, <2>8, <2>9, <2>10 DEF Filler
  <1>22. RootsHold'
    <2> SUFFICES ASSUME NEW c \in Client, NEW y \in RootOf(c) \cap use
                 PROVE  /\ status[c] # "vacant"
                        /\ status[c] = "run" /\ y # ending[c] => ref'[y] # Null
      BY <1>3 DEF RootsHold
    <2>1. /\ status[c] # "vacant"
          /\ status[c] = "run" /\ y # ending[c] => ref[y] # Null
      BY DEF GraphInv, RootsHold
    <2>2. status[c] = "run" /\ y # ending[c] => ref'[y] = ref[y]
      BY <1>8, <1>20, Kinds
    <2> QED
      BY <2>1, <2>2
  <1>23. Endings'
    <2>1. IF s = <<>> THEN ref'[ending[a]] = Null /\ ending[a] # NoRoot
          ELSE ending[a] # NoRoot /\ s[1].ref = ending[a]
      <3>1. ending[a] # NoRoot /\ stack[a][1].ref = ending[a]
        BY <1>0, <1>2, <1>p DEF Endings, IsFrame
      <3>2. CASE s = <<>>
        <4>1. n = 1
          BY <1>2, <1>p, <3>2
        <4> QED
          BY <1>8, <1>p, <3>1, <3>2, <4>1
      <3>3. CASE s # <<>>
        <4>1. Len(s) # 0
          BY <1>2, <1>p, <3>3
        <4>2. Len(s) = n - 1 /\ n \in Nat \ {0}
          BY <1>2, <1>p
        <4>3. \A m \in Nat \ {0} : m - 1 # 0 => 1 \in 1 .. m - 1
          OBVIOUS
        <4>4. 1 \in 1 .. n - 1
          BY <4>1, <4>2, <4>3
        <4> QED
          BY <1>2, <1>p, <3>1, <3>3, <4>4
      <3> QED
        BY <3>2, <3>3
    <2>2. \A d \in Agent : ref[ending[d]] = Null /\ ending[d] \in Location => ref'[ending[d]] = Null
      BY <1>8
    <2>3. \A d \in Agent : ending[d] # NoRoot => ending[d] \in Location
      BY <1>0, Kinds DEF Types
    <2>4. \A d \in Agent : IF stack'[d] = <<>> THEN ending[d] # NoRoot => ref'[ending[d]] = Null
                           ELSE ending[d] # NoRoot /\ stack'[d][1].ref = ending[d]
      <3> TAKE d \in Agent
      <3>1. CASE d = a
        BY <1>18, <2>1, <3>1
      <3>2. CASE d # a
        <4>1. stack'[d] = stack[d]
          BY <1>18, <3>2
        <4>2. IF stack[d] = <<>> THEN ending[d] # NoRoot => ref[ending[d]] = Null
              ELSE ending[d] # NoRoot /\ stack[d][1].ref = ending[d]
          BY <1>0 DEF Endings
        <4> QED
          BY <2>2, <2>3, <4>1, <4>2
      <3> QED
        BY <3>1, <3>2
    <2>5. /\ patient' # 0 => status'[patient'] = "dead"
          /\ \A c \in Client : ending'[c] # NoRoot =>
               ending'[c] \in RootOf(c) \cap use' /\ status'[c] = "run" /\ fill'[c] = NoFill
          /\ ending'[Monitor] # NoRoot => patient' # 0 /\ ending'[Monitor] \in RootOf(patient') \cap use'
      BY <1>0, <1>3 DEF Endings
    <2>6. ending' = ending
      BY <1>3
    <2> QED
      BY <2>4, <2>5, <2>6 DEF Endings
  <1>24. Refines
    <2>1. MayGo(l)
      <3> SUFFICES ASSUME NEW o \in live, NEW j \in 1 .. MaxEmbed, l = Word(o, j),
                          NEW x \in Location, NEW y \in Location, Target(x) = o, Target(y) = o
                   PROVE  x = y
        BY DEF MayGo, WordOf
      <3>1. stack[a][n].ref = Word(o, j)
        BY <1>p
      <3>2. IsFrame(a, n) /\ Types /\ Endings /\ Frames
        BY <1>0, <1>2, <1>p
      <3>3. PICK g : RefersTo(o) = {g}
        BY <3>1, <3>2, WordHeld
      <3>4. x \in RefersTo(o) /\ y \in RefersTo(o)
        BY <1>0, TargetRefers DEF Types
      <3> QED
        BY <3>3, <3>4
    <2>2. CASE last
      <3>1. \A x \in Location : Target(x) = b => x = l
        BY <1>4, <1>6, <2>2, TargetRefers
      <3> QED
        BY <1>2, <1>p, <1>4, <1>9, <1>11, <2>1, <2>2, <3>1, RefinesReclaim
    <2>3. CASE ~last
      BY <1>2, <1>p, <1>4, <1>9, <1>11, <2>1, <2>3, RefinesDrop DEF Alike
    <2> QED
      BY <2>2, <2>3
  <1> QED
    BY <1>0, <1>14, <1>15, <1>19, <1>21, <1>22, <1>23, <1>24 DEF GraphInv
-----------------------------------------------------------------------------
(* The invariant. *)

LEMMA GraphInit == Init => GraphInv
  <1> SUFFICES ASSUME Init PROVE GraphInv
    OBVIOUS
  <1>1. Types
    <2>1. NoFill \in [block : Block \cup {Null}, todo : Seq(Roots)] /\ <<>> \in Seq(Frame)
      BY DEF NoFill
    <2> QED
      BY <2>1, Constants DEF Init, Types, Roots, Client
  <1>2. \A a \in Agent : stack[a] = <<>> /\ ending[a] = NoRoot /\ Len(stack[a]) = 0
    BY DEF Init
  <1>3. Fillers /\ RootsHold /\ NoWildPointer /\ CountExact
    BY DEF Init, Fillers, RootsHold, NoWildPointer, CountExact
  <1>4. Endings
    BY <1>2, Constants DEF Init, Endings
  <1>5. Frames /\ NoSharedFrame
    BY <1>2 DEF Frames, FramesOf, NoSharedFrame
  <1> QED
    BY <1>1, <1>3, <1>4, <1>5 DEF GraphInv

LEMMA GraphNext ==
  ASSUME ~FailOnStale, GraphInv, [Next]_vars
  PROVE  GraphInv' /\ Refines
  <1>1. CASE UNCHANGED vars
    <2>1. UNCHANGED <<memory, use, fill, orphan, stack, status, ending, patient>>
      BY <1>1 DEF vars
    <2>2. Types' /\ Frames' /\ NoSharedFrame' /\ NoWildPointer' /\ CountExact' /\ Refines /\ Fillers'
      BY <2>1, TypeStep, MemoryStays, AllStay, FillersStay
    <2>3. RootsHold' /\ Endings'
      BY <2>1 DEF GraphInv, RootsHold, Endings, memory
    <2> QED
      BY <2>2, <2>3 DEF GraphInv
  <1>2. CASE Next
    BY <1>2, MallocStep, LinkKidStep, WriteDataStep, CopyHandleStep, SendRefStep, UnwrapStep, DropHandleStep,
       ReadCountStep, ReleaseKidStep, UnlinkRefStep, EndRootStep, ThreadInitStep, FailStep,
       StartRecoveryStep, RecoverRootStep, RecoveredStep
    DEF Next, Work, Release, Recover
  <1> QED
    BY <1>1, <1>2

(* Every step of the clients and of the monitor keeps the chains of        *)
(* releases and the counts, provided that no client fails between          *)
(* cxl_malloc and the link that overwrites a stale word of the block.       *)
THEOREM GraphInvariant ==
  ASSUME ~FailOnStale
  PROVE  Spec => []GraphInv
  <1>1. Init => GraphInv
    BY GraphInit
  <1>2. GraphInv /\ [Next]_vars => GraphInv'
    BY GraphNext
  <1> QED
    BY <1>1, <1>2, PTL DEF Spec

(* The count in ref_info of an object is the number of references to it,    *)
(* whoever fails and is recovered, except for an object whose holder was    *)
(* released by two clients at once.                                         *)
THEOREM GraphCountExact ==
  ASSUME ~FailOnStale
  PROVE  Spec => []CountExact
  <1>1. GraphInv => CountExact
    BY DEF GraphInv
  <1> QED
    BY <1>1, GraphInvariant, PTL

(* No RootRef in use, no message and no embedded reference of an object     *)
(* names a block that unlink_reference has freed.                           *)
THEOREM GraphNoWildPointer ==
  ASSUME ~FailOnStale
  PROVE  Spec => []NoWildPointer
  <1>1. GraphInv => NoWildPointer
    BY DEF GraphInv
  <1> QED
    BY <1>1, GraphInvariant, PTL

(* Each call of test_free that has read the count works on a reference of   *)
(* its own to an object that is allocated: no two calls unlink the same     *)
(* reference, however deep they recurse and whoever makes them.             *)
THEOREM GraphReleaseHolds ==
  ASSUME ~FailOnStale
  PROVE  Spec => []ReleaseHolds
  <1>1. GraphInv => ReleaseHolds
    <2> SUFFICES ASSUME GraphInv, NEW a \in Agent, NEW i \in DOMAIN stack[a], stack[a][i].at # "read"
                 PROVE  /\ Counts(stack[a][i].ref) /\ ref[stack[a][i].ref] \in live
                        /\ \A d \in Agent : \A j \in DOMAIN stack[d] :
                             stack[d][j].ref = stack[a][i].ref => d = a /\ i = j
      BY DEF ReleaseHolds
    <2>1. \A d \in Agent : DOMAIN stack[d] = 1 .. Len(stack[d])
      BY DEF GraphInv, Types
    <2>2. FrameOk(a, i)
      BY <2>1 DEF GraphInv, Frames, FramesOf
    <2>3. Counts(stack[a][i].ref) /\ ref[stack[a][i].ref] \in live
      BY <2>2 DEF FrameOk
    <2>4. \A d \in Agent : \A j \in DOMAIN stack[d] :
            stack[d][j].ref = stack[a][i].ref => d = a /\ i = j
      BY <2>1 DEF GraphInv, NoSharedFrame
    <2> QED
      BY <2>3, <2>4
  <1> QED
    BY <1>1, GraphInvariant, PTL

(* test_free never follows a word that holds a user's data, as it does when *)
(* a client fails before it overwrote what a previous user left.            *)
THEOREM GraphReleaseFollowsReferences ==
  ASSUME ~FailOnStale
  PROVE  Spec => []ReleaseFollowsReferences
  <1>1. GraphInv => ReleaseFollowsReferences
    <2> SUFFICES ASSUME GraphInv, NEW a \in Agent, NEW i \in DOMAIN stack[a]
                 PROVE  ref[stack[a][i].ref] # Data
      BY DEF ReleaseFollowsReferences
    <2>1. Types /\ IsFrame(a, i)
      BY DEF GraphInv, Types, IsFrame
    <2>2. Counts(stack[a][i].ref) /\ stack[a][i].ref \in Location
      BY <2>1, FrameType DEF GraphInv, Frames, FramesOf, FrameOk, IsFrame
    <2>3. ref[stack[a][i].ref] \in Block \cup {Null}
      BY <2>1, <2>2 DEF GraphInv, NoWildPointer, Types
    <2> QED
      BY <2>3, Constants
  <1> QED
    BY <1>1, GraphInvariant, PTL

(* Whatever the clients, the monitor and their failures do, references      *)
(* behave as their holders expect: link_reference, unlink_reference and the *)
(* recursion of test_free implement SharedObjects.                          *)
THEOREM GraphIsSharedObjects ==
  ASSUME ~FailOnStale
  PROVE  Spec => ImplementsSharedObjects
  <1>1. Init => Abstract!Init
    BY DEF Init, Abstract!Init
  <1>2. GraphInv /\ [Next]_vars => [Abstract!Next]_<<Targets, live>>
    BY GraphNext DEF Refines
  <1> QED
    BY <1>1, <1>2, GraphInvariant, PTL DEF Spec, ImplementsSharedObjects, Abstract!Spec, Targets
===============================================================================
