---- MODULE HeapProofs ----
(***************************************************************************)
(* Proofs about HeapAllocator.tla for any set of pages, any sizes with any *)
(* number of cells per block, any number of threads and any behaviour of   *)
(* the other clients of the page list that HeapSpec allows.                *)
(***************************************************************************)
EXTENDS HeapAllocator, FiniteSetTheorems, TLAPS

TypeOK ==
    /\ free_page_list \in Seq(Pages)
    /\ taken \in SUBSET Pages
    /\ head_block \in [ClassSet -> Seq(Pages)]
    /\ next_free_block \in [ClassSet -> Pages \cup {NULL}]
    /\ link \in [Pages -> Pages \cup {NULL}]
    /\ size_of \in [Pages -> Nat]
    /\ used \in [Pages -> Int]
    /\ data \in [Pages -> Seq(Slots)]
    /\ asked \in [Pages -> [Slots -> Nat]]
    /\ pc \in [Actors -> {"idle", "first", "truncate", "walk", "second"}]
    /\ want \in [Actors -> Nat]
    /\ todo \in [Actors -> Nat]
    /\ cursor \in [Actors -> Nat]

\* Where the walk of a truncating thread is, and what an allocating one wants.
InCall ==
    \A a \in Actors :
        /\ pc[a] /= "idle" => want[a] \in Sizes
        /\ pc[a] \in {"truncate", "walk"} => todo[a] >= 1
        /\ pc[a] = "walk" => todo[a] <= Len(Classes) /\ cursor[a] >= 1

\* The objects of a block lie in cells that a block of its size has.
HeldFits == \A c \in ClassSet : \A p \in Blocks(c) : Held(p) \subseteq 0..(Capacity[c] - 1)

\* The blocks along the free chain of size c: FreeChain without the bound on their number.
HasChain(c) == \E s \in Seq(Pages) : Elements(s) \subseteq Blocks(c) /\ Chain(c, s)
Chained == \A c \in ClassSet : HasChain(c)

IInv == TypeOK /\ InCall /\ OwnedPages /\ HeldFits /\ OwnedSlots /\ Chained

-----------------------------------------------------------------------------
\* A sequence with an element put in front (free_page, a new block, a free cell).
LEMMA ConsFacts ==
    ASSUME NEW S, NEW s \in Seq(S), NEW e \in S
    PROVE  /\ <<e>> \o s \in Seq(S)
           /\ Elements(<<e>> \o s) = {e} \cup Elements(s)
           /\ Injective(s) /\ e \notin Elements(s) => Injective(<<e>> \o s)
<1> DEFINE q == <<e>> \o s
<1>1. q \in Seq(S) /\ Len(q) = Len(s) + 1 /\ DOMAIN q = 1..(Len(s) + 1)
  OBVIOUS
<1>2. q[1] = e /\ \A i \in DOMAIN s : q[i + 1] = s[i] /\ i + 1 \in DOMAIN q
  OBVIOUS
<1>3. \A i \in DOMAIN q : i = 1 \/ (i - 1 \in DOMAIN s /\ q[i] = s[i - 1])
  OBVIOUS
<1>4. 1 \in DOMAIN q /\ \A i \in DOMAIN q : i \in Nat
  OBVIOUS
<1>5. Elements(q) = {e} \cup Elements(s)
  <2>1. ASSUME NEW x \in Elements(q) PROVE x \in {e} \cup Elements(s)
    BY <1>2, <1>3 DEF Elements
  <2>2. ASSUME NEW x \in Elements(s) PROVE x \in Elements(q)
    BY <1>2, Zenon DEF Elements
  <2>3. e \in Elements(q)
    BY <1>2, <1>4, Zenon DEF Elements
  <2> QED
    BY <2>1, <2>2, <2>3, Zenon
<1>6. Injective(s) /\ e \notin Elements(s) => Injective(q)
  <2> SUFFICES ASSUME Injective(s), e \notin Elements(s), NEW i \in DOMAIN q, NEW j \in DOMAIN q, q[i] = q[j]
               PROVE  i = j
    BY Zenon DEF Injective
  <2>1. \A k \in DOMAIN s : s[k] /= e
    BY Zenon DEF Elements
  <2>2. i \in Nat /\ j \in Nat
    BY <1>4, Zenon
  <2> QED
    BY <1>2, <1>3, <2>1, <2>2 DEF Injective
<1> QED
  BY <1>1, <1>5, <1>6, Zenon

\* A sequence without its first element (alloc_page, heap_block_t::alloc).
LEMMA TailFacts ==
    ASSUME NEW S, NEW s \in Seq(S), s /= <<>>
    PROVE  /\ Tail(s) \in Seq(S) /\ Head(s) \in S /\ Head(s) \in Elements(s)
           /\ Injective(s) => /\ Injective(Tail(s))
                              /\ Elements(Tail(s)) = Elements(s) \ {Head(s)}
<1>1. Tail(s) \in Seq(S) /\ Head(s) \in S /\ Head(s) = s[1] /\ 1 \in DOMAIN s
  OBVIOUS
<1>2. \A i \in DOMAIN Tail(s) : i \in Nat /\ i + 1 \in DOMAIN s /\ Tail(s)[i] = s[i + 1]
  OBVIOUS
<1>3. \A i \in DOMAIN s : i \in Nat /\ (i = 1 \/ (i - 1 \in DOMAIN Tail(s) /\ Tail(s)[i - 1] = s[i]))
  OBVIOUS
<1>4. ASSUME Injective(s) PROVE Injective(Tail(s)) /\ Elements(Tail(s)) = Elements(s) \ {Head(s)}
  <2>1. Injective(Tail(s))
    BY <1>2, <1>4 DEF Injective
  <2>2. ASSUME NEW x \in Elements(Tail(s)) PROVE x \in Elements(s) /\ x /= Head(s)
    <3>1. PICK i \in DOMAIN Tail(s) : x = Tail(s)[i]
      BY Zenon DEF Elements
    <3>2. i \in Nat /\ i >= 1 /\ i + 1 \in DOMAIN s /\ x = s[i + 1]
      BY <1>2, <3>1
    <3>3. i + 1 /= 1
      BY <3>2
    <3> QED
      BY <1>1, <1>4, <3>2, <3>3, Zenon DEF Injective, Elements
  <2>3. ASSUME NEW x \in Elements(s), x /= Head(s) PROVE x \in Elements(Tail(s))
    BY <1>1, <1>3, <2>3, Zenon DEF Elements
  <2> QED
    BY <2>1, <2>2, <2>3, Zenon
<1> QED
  BY <1>1, <1>4, Zenon DEF Elements

\* A sequence without its i-th element (truncate).
LEMMA WithoutFacts ==
    ASSUME NEW S, NEW s \in Seq(S), NEW i \in DOMAIN s
    PROVE  /\ Without(s, i) \in Seq(S)
           /\ Injective(s) => /\ Injective(Without(s, i))
                              /\ Elements(Without(s, i)) = Elements(s) \ {s[i]}
<1> DEFINE w == Without(s, i)
<1>1. Len(s) \in Nat /\ Len(s) >= 1 /\ DOMAIN s = 1..Len(s) /\ i \in Nat /\ i >= 1 /\ i <= Len(s)
  OBVIOUS
<1>2. DOMAIN w = 1..(Len(s) - 1)
  BY Zenon DEF Without
<1>3. \A j \in DOMAIN w : w[j] = IF j < i THEN s[j] ELSE s[j + 1]
  BY <1>2, Zenon DEF Without
<1>4. \A j \in DOMAIN w : j \in Nat /\ j \in DOMAIN s /\ j + 1 \in DOMAIN s
  BY <1>1, <1>2
<1>5. w \in Seq(S)
  <2>1. \A j \in DOMAIN w : w[j] \in S
    BY <1>3, <1>4
  <2> QED
    BY <1>1, <1>2, <2>1 DEF Without
<1>6. ASSUME Injective(s) PROVE Injective(w)
  BY <1>1, <1>3, <1>4, <1>6 DEF Injective
<1>7. ASSUME Injective(s) PROVE Elements(w) = Elements(s) \ {s[i]}
  <2>1. ASSUME NEW x \in Elements(w) PROVE x \in Elements(s) /\ x /= s[i]
    <3>1. PICK j \in DOMAIN w : x = w[j]
      BY Zenon DEF Elements
    <3>2. CASE j < i
      BY <1>1, <1>3, <1>4, <1>7, <3>1, <3>2 DEF Injective, Elements
    <3>3. CASE ~(j < i)
      BY <1>1, <1>3, <1>4, <1>7, <3>1, <3>3 DEF Injective, Elements
    <3> QED
      BY <3>2, <3>3, Zenon
  <2>2. ASSUME NEW x \in Elements(s), x /= s[i] PROVE x \in Elements(w)
    <3>1. PICK k \in DOMAIN s : x = s[k]
      BY Zenon DEF Elements
    <3>2. k \in Nat /\ k >= 1 /\ k <= Len(s) /\ k /= i
      BY <1>1, <2>2, <3>1
    <3>3. CASE k < i
      <4>1. k \in DOMAIN w /\ w[k] = x
        BY <1>1, <1>2, <1>3, <3>1, <3>2, <3>3
      <4> QED
        BY <4>1, Zenon DEF Elements
    <3>4. CASE k > i
      <4>1. k - 1 \in DOMAIN w /\ w[k - 1] = x
        BY <1>1, <1>2, <1>3, <3>1, <3>2, <3>4
      <4> QED
        BY <4>1, Zenon DEF Elements
    <3> QED
      BY <1>1, <3>2, <3>3, <3>4
  <2> QED
    BY <2>1, <2>2, Zenon
<1> QED
  BY <1>5, <1>6, <1>7, Zenon

-----------------------------------------------------------------------------
\* The empty sequence is the one without elements.
LEMMA EmptySequence ==
    ASSUME NEW S, NEW s \in Seq(S)
    PROVE  s = <<>> <=> Len(s) = 0
OBVIOUS

\* The chain behind its first page (heap_allocator::alloc fills the first block).
LEMMA LinkedTail ==
    ASSUME NEW S, NEW s \in Seq(S), s /= <<>>, NEW h, NEW l, Linked(h, l, s)
    PROVE  /\ h = Head(s)
           /\ Linked(l[h], l, Tail(s))
           /\ After(l[h], l, Tail(s)) = After(h, l, s)
<1>a. Len(s) \in Nat /\ Len(s) >= 1 /\ Head(s) = s[1] /\ Len(Tail(s)) = Len(s) - 1
  OBVIOUS
<1>b. \A i \in 1..(Len(s) - 1) : Tail(s)[i] = s[i + 1]
  OBVIOUS
<1>c. Tail(s) = <<>> <=> Len(s) = 1
  <2>1. Tail(s) = <<>> <=> Len(Tail(s)) = 0
    BY TailFacts, EmptySequence, Zenon
  <2> QED
    BY <1>a, <2>1
<1>1. /\ Len(s) \in Nat /\ Len(s) >= 1 /\ Head(s) = s[1] /\ Len(Tail(s)) = Len(s) - 1
      /\ \A i \in 1..(Len(s) - 1) : Tail(s)[i] = s[i + 1]
      /\ Tail(s) = <<>> <=> Len(s) = 1
  BY <1>a, <1>b, <1>c, Zenon
<1>2. h = s[1] /\ \A i \in 1..(Len(s) - 1) : l[s[i]] = s[i + 1]
  BY Zenon DEF Linked
<1>3. Tail(s) /= <<>> => l[h] = Tail(s)[1]
  BY <1>1, <1>2
<1>4. \A i \in 1..(Len(Tail(s)) - 1) : l[Tail(s)[i]] = Tail(s)[i + 1]
  BY <1>1, <1>2
<1>5. After(l[h], l, Tail(s)) = After(h, l, s)
  BY <1>1, <1>2 DEF After
<1> QED
  BY <1>1, <1>2, <1>3, <1>4, <1>5, Zenon DEF Linked

\* A chain whose pages keep their links.
LEMMA LinkedSame ==
    ASSUME NEW S, NEW s \in Seq(S), NEW h, NEW l, NEW k, \A x \in Elements(s) : k[x] = l[x]
    PROVE  (Linked(h, k, s) <=> Linked(h, l, s)) /\ After(h, k, s) = After(h, l, s)
<1>1. \A i \in 1..(Len(s) - 1) : k[s[i]] = l[s[i]]
  BY DEF Elements
<1>2. s /= <<>> => k[s[Len(s)]] = l[s[Len(s)]]
  BY DEF Elements
<1> QED
  BY <1>1, <1>2, Zenon DEF Linked, After

\* A chain with a page put in front (heap_allocator::free of a full block).
LEMMA LinkedCons ==
    ASSUME NEW S, NEW s \in Seq(S), NEW p \in S, NEW h, NEW l, Linked(h, l, s), l[p] = h
    PROVE  Linked(p, l, <<p>> \o s) /\ After(p, l, <<p>> \o s) = After(h, l, s)
<1> DEFINE q == <<p>> \o s
<1>1. /\ q \in Seq(S) /\ q /= <<>> /\ Len(q) = Len(s) + 1 /\ q[1] = p /\ Len(s) \in Nat
      /\ \A i \in 1..Len(s) : q[i + 1] = s[i]
      /\ s = <<>> <=> Len(s) = 0
  OBVIOUS
<1>2. \A i \in 1..(Len(q) - 1) : l[q[i]] = q[i + 1]
  <2> SUFFICES ASSUME NEW i \in 1..Len(s) PROVE l[q[i]] = q[i + 1]
    BY <1>1
  <2>1. CASE i = 1
    BY <1>1, <2>1 DEF Linked
  <2>2. CASE i /= 1
    <3>1. i - 1 \in 1..Len(s) /\ i - 1 \in 1..(Len(s) - 1) /\ (i - 1) + 1 = i
      BY <1>1, <2>2
    <3>2. q[i] = s[i - 1] /\ q[i + 1] = s[i]
      BY <1>1, <3>1
    <3> QED
      BY <3>1, <3>2 DEF Linked
  <2> QED
    BY <2>1, <2>2, Zenon
<1>3. After(p, l, q) = After(h, l, s)
  BY <1>1 DEF After
<1> QED
  BY <1>1, <1>2, <1>3, Zenon DEF Linked

\* A chain up to its i-th page, which is then the page that it leads to (truncate).
LEMMA LinkedCut ==
    ASSUME NEW S, NEW s \in Seq(S), NEW i \in DOMAIN s, NEW h, NEW l, Linked(h, l, s), Injective(s)
    PROVE  \E t \in Seq(S) : /\ Linked(h, l, t) /\ After(h, l, t) = s[i] /\ Injective(t)
                             /\ Elements(t) \subseteq Elements(s) \ {s[i]}
<1> DEFINE t == SubSeq(s, 1, i - 1)
<1>1. /\ t \in Seq(S) /\ Len(t) = i - 1 /\ DOMAIN t = 1..(i - 1) /\ i \in Nat /\ i >= 1 /\ i <= Len(s)
      /\ \A j \in 1..(i - 1) : t[j] = s[j] /\ j \in DOMAIN s /\ j /= i
      /\ t = <<>> <=> i = 1
  OBVIOUS
<1> HIDE DEF t
<1>2. Linked(h, l, t)
  <2>1. t /= <<>> => h = t[1]
    BY <1>1 DEF Linked
  <2>2. ASSUME NEW j \in 1..(Len(t) - 1) PROVE l[t[j]] = t[j + 1]
    <3>1. j \in 1..(i - 1) /\ j + 1 \in 1..(i - 1) /\ j \in 1..(Len(s) - 1)
      BY <1>1
    <3>2. t[j] = s[j] /\ t[j + 1] = s[j + 1] /\ l[s[j]] = s[j + 1]
      BY <1>1, <3>1, Zenon DEF Linked
    <3> QED
      BY <3>2, Zenon
  <2> QED
    BY <2>1, <2>2, Zenon DEF Linked
<1>3. After(h, l, t) = s[i]
  <2>1. CASE i = 1
    BY <1>1, <2>1 DEF Linked, After
  <2>2. CASE i /= 1
    <3>1. i - 1 \in 1..(i - 1) /\ i - 1 \in 1..(Len(s) - 1) /\ (i - 1) + 1 = i
      BY <1>1, <2>2
    <3>2. After(h, l, t) = l[s[i - 1]]
      BY <1>1, <2>2, <3>1 DEF After
    <3> QED
      BY <3>1, <3>2 DEF Linked
  <2> QED
    BY <2>1, <2>2, Zenon
<1>4. Injective(t)
  BY <1>1 DEF Injective
<1>5. Elements(t) \subseteq Elements(s) \ {s[i]}
  BY <1>1, Zenon DEF Elements, Injective
<1> QED
  BY <1>1, <1>2, <1>3, <1>4, <1>5, Zenon

\* The number of positions of a sequence, and of the cells of a block.
LEMMA IntervalSize ==
    ASSUME NEW n \in Nat
    PROVE  /\ IsFiniteSet(1..n) /\ Cardinality(1..n) = n
           /\ IsFiniteSet(0..(n - 1)) /\ Cardinality(0..(n - 1)) = n
<1>1. 0 \in Int /\ 1 \in Int /\ n \in Int /\ n - 1 \in Int
  OBVIOUS
<1>2. IsFiniteSet(1..n) /\ Cardinality(1..n) = IF 1 > n THEN 0 ELSE n - 1 + 1
  BY <1>1, FS_Interval, Zenon
<1>3. IsFiniteSet(0..(n - 1)) /\ Cardinality(0..(n - 1)) = IF 0 > n - 1 THEN 0 ELSE (n - 1) - 0 + 1
  BY <1>1, FS_Interval, Zenon
<1> QED
  BY <1>2, <1>3

\* A sequence without repetitions is no longer than one that has all its elements.
LEMMA InjectiveLength ==
    ASSUME NEW S, NEW t \in Seq(S), NEW s \in Seq(Elements(t)), Injective(s)
    PROVE  Len(s) <= Len(t)
<1>1. Len(s) \in Nat /\ Len(t) \in Nat /\ DOMAIN s = 1..Len(s) /\ DOMAIN t = 1..Len(t)
  OBVIOUS
<1>2. /\ IsFiniteSet(1..Len(t)) /\ Cardinality(1..Len(t)) = Len(t)
      /\ IsFiniteSet(1..Len(s)) /\ Cardinality(1..Len(s)) = Len(s)
  BY <1>1, IntervalSize, Zenon
<1>3. t \in Surjection(1..Len(t), Elements(t))
  <2>1. t \in [1..Len(t) -> Elements(t)]
    <3>1. \A i \in 1..Len(t) : t[i] \in Elements(t)
      BY <1>1, Zenon DEF Elements
    <3>2. t \in [1..Len(t) -> S]
      OBVIOUS
    <3> QED
      BY <3>1, <3>2
  <2> QED
    BY <1>1, <2>1, Zenon DEF Surjection, Elements
<1>4. s \in Injection(1..Len(s), Elements(t))
  <2>1. s \in [1..Len(s) -> Elements(t)]
    OBVIOUS
  <2> QED
    BY <1>1, <2>1, Zenon DEF Injection, IsInjective, Injective
<1>5. IsFiniteSet(Elements(t)) /\ Cardinality(Elements(t)) <= Cardinality(1..Len(t))
  BY <1>2, <1>3, FS_Surjection, Zenon
<1>6. Cardinality(1..Len(s)) <= Cardinality(Elements(t)) /\ Cardinality(Elements(t)) \in Nat
  BY <1>4, <1>5, FS_Injection, FS_CardinalityType, Zenon
<1> QED
  BY <1>1, <1>2, <1>5, <1>6

-----------------------------------------------------------------------------
\* The position of a walking thread names a size of the heap.
LEMMA WalkClass ==
    ASSUME TypeOK, InCall, NEW a \in Actors, pc[a] = "walk"
    PROVE  /\ todo[a] \in 1..Len(Classes) /\ Classes[todo[a]] \in ClassSet
           /\ cursor[a] \in Nat /\ cursor[a] >= 1
BY ClassesAssumption DEF TypeOK, InCall, ClassSet

\* Cell 0 exists, and every class has at least one cell.
LEMMA Cells ==
    ASSUME NEW c \in ClassSet
    PROVE  /\ Capacity[c] \in Nat /\ Capacity[c] >= 1
           /\ 0 \in 0..(Capacity[c] - 1)
           /\ 0..(Capacity[c] - 1) \subseteq Slots
           /\ Slots \subseteq Nat
BY CapacityAssumption DEF Slots

\* A size whose blocks keep their links and counts keeps its free chain.
LEMMA ChainKept ==
    ASSUME NEW c \in ClassSet, HasChain(c), Blocks(c)' = Blocks(c),
           next_free_block'[c] = next_free_block[c],
           \A q \in Blocks(c) : used'[q] = used[q] /\ link'[q] = link[q]
    PROVE  HasChain(c)'
<1>1. PICK s \in Seq(Pages) : Elements(s) \subseteq Blocks(c) /\ Chain(c, s)
  BY Zenon DEF HasChain
<1> DEFINE h == next_free_block[c]
<1>2. (Linked(h, link', s) <=> Linked(h, link, s)) /\ After(h, link', s) = After(h, link, s)
  BY <1>1, LinkedSame, Zenon
<1>3. /\ Injective(s) /\ Linked(h, link', s) /\ After(h, link', s) \notin Blocks(c)
      /\ \A q \in Elements(s) : used'[q] < Capacity[c]
      /\ After(h, link', s) = NULL => \A q \in Blocks(c) \ Elements(s) : used'[q] = Capacity[c]
  BY <1>1, <1>2, Zenon DEF Chain
<1>4. Chain(c, s)'
  BY <1>3, Zenon DEF Chain
<1> QED
  BY <1>1, <1>4, Zenon DEF HasChain

\* The initial state satisfies the inductive invariant.
LEMMA InitInv == HeapInit => IInv
<1> SUFFICES ASSUME HeapInit PROVE IInv
  BY Zenon
<1> USE DEF HeapInit, PageInit
<1>1. <<>> \in Seq(Pages) /\ <<>> \in Seq(Slots) /\ Elements(<<>>) = {} /\ Injective(<<>>)
  BY DEF Elements, Injective
<1>2. TypeOK
  BY <1>1, FreeListsAssumption DEF TypeOK
<1>3. InCall
  BY Zenon DEF InCall
<1>4. \A c \in ClassSet : Blocks(c) = {}
  BY <1>1, Zenon DEF Blocks
<1>5. HeapPages = {}
  BY <1>4, Zenon DEF HeapPages
<1>6. OwnedPages
  BY <1>1, <1>4, <1>5, FreeListsAssumption, Zenon DEF OwnedPages
<1>7. HeldFits /\ OwnedSlots
  BY <1>4, Zenon DEF HeldFits, OwnedSlots, Held
<1>8. Chained
  <2> SUFFICES ASSUME NEW c \in ClassSet PROVE HasChain(c)
    BY Zenon DEF Chained
  <2>1. next_free_block[c] = NULL
    BY Zenon
  <2>2. Linked(NULL, link, <<>>) /\ After(NULL, link, <<>>) = NULL
    BY DEF Linked, After
  <2>3. Chain(c, <<>>)
    BY <1>1, <1>4, <2>1, <2>2, Zenon DEF Chain
  <2> QED
    BY <1>1, <2>3, Zenon DEF HasChain
<1> QED
  BY <1>2, <1>3, <1>6, <1>7, <1>8, Zenon DEF IInv

\* Steps that change no block keep what is said of blocks.
LEMMA BlocksUnchanged ==
    ASSUME IInv, UNCHANGED blockVars
    PROVE  /\ HeldFits' /\ OwnedSlots' /\ Chained'
           /\ UNCHANGED pageVars => OwnedPages'
<1> USE DEF IInv, blockVars, pageVars
<1>1. (\A c \in ClassSet : Blocks(c)' = Blocks(c)) /\ HeapPages' = HeapPages
  BY Zenon DEF Blocks, HeapPages
<1>2. \A p \in Pages : Held(p)' = Held(p)
  BY Zenon DEF Held
<1>3. \A c \in ClassSet : \A p \in Blocks(c) : p \in Pages
  BY DEF TypeOK, Blocks, Elements
<1>4. HeldFits'
  BY <1>1, <1>2, <1>3, Zenon DEF HeldFits
<1>5. OwnedSlots'
  BY <1>1, <1>2, <1>3 DEF OwnedSlots
<1>6. Chained'
  BY <1>1, ChainKept, Zenon DEF Chained
<1>7. UNCHANGED pageVars => OwnedPages'
  BY <1>1, Zenon DEF OwnedPages
<1> QED
  BY <1>4, <1>5, <1>6, <1>7, Zenon

\* The other clients only move pages between the free list and themselves.
LEMMA ExchangeOwned ==
    ASSUME IInv, UNCHANGED blockVars, Exchange
    PROVE  OwnedPages' /\ free_page_list' \in Seq(Pages) /\ taken' \in SUBSET Pages
<1>1. (\A c \in ClassSet : Blocks(c)' = Blocks(c)) /\ HeapPages' = HeapPages
  BY Zenon DEF Blocks, HeapPages, blockVars
<1> QED
  BY <1>1, Zenon DEF IInv, OwnedPages, Exchange, blockVars

-----------------------------------------------------------------------------
\* heap_allocator::alloc from a block of the free chain: the block is not full, so
\* it has a free cell, which becomes the object's.
LEMMA AllocFromBlockInv ==
    ASSUME IInv, NEW a \in Actors, NEW c \in ClassSet, AllocFromBlock(a, c)
    PROVE  IInv'
<1> DEFINE n == Capacity[c]
<1>a. PICK p : p = next_free_block[c]
  BY Zenon
<1>b. PICK s : s = Head(data[p])
  BY Zenon
<1> USE DEF IInv
<1>c. PICK ch \in Seq(Pages) : Elements(ch) \subseteq Blocks(c) /\ Chain(c, ch)
  BY Zenon DEF Chained, HasChain
<1>d. /\ Injective(ch) /\ Linked(p, link, ch) /\ After(p, link, ch) \notin Blocks(c)
      /\ \A q \in Elements(ch) : used[q] < Capacity[c]
      /\ After(p, link, ch) = NULL => \A q \in Blocks(c) \ Elements(ch) : used[q] = Capacity[c]
  BY <1>a, <1>c, Zenon DEF Chain
<1>e. p \in Blocks(c) /\ p \in Pages
  BY <1>a DEF AllocFromBlock, TypeOK, Blocks, Elements
<1>f. ch /= <<>>
  BY <1>d, <1>e, Zenon DEF After
<1>1. p \in Blocks(c) /\ p \in Pages /\ p = Head(ch) /\ p \in Elements(ch)
  BY <1>d, <1>e, <1>f, LinkedTail, TailFacts, Zenon
<1>2. /\ size_of[p] = c /\ used[p] = Cardinality(Held(p)) /\ used[p] < n
      /\ Injective(data[p]) /\ Elements(data[p]) = (0..(n - 1)) \ Held(p)
      /\ Held(p) \subseteq 0..(n - 1)
  BY <1>1, <1>d, Zenon DEF OwnedSlots, HeldFits
<1>3. n \in Nat /\ n >= 1 /\ 0..(n - 1) \subseteq Slots
  BY Cells, Zenon
<1>4. IsFiniteSet(0..(n - 1)) /\ Cardinality(0..(n - 1)) = n
  BY <1>3, IntervalSize, Zenon
<1>5. IsFiniteSet(Held(p))
  BY <1>2, <1>4, FS_Subset, Zenon
<1>6. data[p] /= <<>>
  <2> SUFFICES ASSUME data[p] = <<>> PROVE FALSE
    BY Zenon
  <2>1. Elements(data[p]) = {}
    BY DEF Elements
  <2>2. Held(p) = 0..(n - 1)
    BY <1>2, <2>1, Zenon
  <2> QED
    BY <1>2, <1>3, <1>4, <2>2
<1>7. /\ s \in Elements(data[p]) /\ s \in Slots /\ Tail(data[p]) \in Seq(Slots)
      /\ Injective(Tail(data[p])) /\ Elements(Tail(data[p])) = Elements(data[p]) \ {s}
  BY <1>b, <1>1, <1>2, <1>6, TailFacts, Zenon DEF TypeOK
<1>8. want[a] \in Sizes /\ want[a] \in Nat /\ want[a] /= 0
  BY SizesAssumption, Zenon DEF AllocFromBlock, InAlloc, InCall
<1>9. /\ data' = [data EXCEPT ![p] = Tail(data[p])]
      /\ used' = [used EXCEPT ![p] = used[p] + 1]
      /\ asked' = [asked EXCEPT ![p] = [asked[p] EXCEPT ![s] = want[a]]]
      /\ next_free_block' = [next_free_block EXCEPT ![c] =
            IF used[p] + 1 = n THEN link[p] ELSE p]
      /\ UNCHANGED <<free_page_list, taken, head_block, link, size_of>>
  BY <1>a, <1>b, Zenon DEF AllocFromBlock, BlockAlloc, pageVars
<1>10. /\ Tail(ch) \in Seq(Pages) /\ Injective(Tail(ch)) /\ Elements(Tail(ch)) = Elements(ch) \ {p}
       /\ Linked(link[p], link, Tail(ch)) /\ After(link[p], link, Tail(ch)) = After(p, link, ch)
  BY <1>1, <1>d, <1>f, LinkedTail, TailFacts, Zenon
<1>11. TypeOK'
  <2>1. pc' \in [Actors -> {"idle", "first", "truncate", "walk", "second"}] /\ want' \in [Actors -> Nat]
        /\ todo' \in [Actors -> Nat] /\ cursor' \in [Actors -> Nat]
    BY Zenon DEF AllocFromBlock, Return, TypeOK
  <2>2. asked' \in [Pages -> [Slots -> Nat]]
    <3>1. [asked[p] EXCEPT ![s] = want[a]] \in [Slots -> Nat]
      BY <1>1, <1>7, <1>8, Zenon DEF TypeOK
    <3> QED
      BY <1>9, <3>1, Zenon DEF TypeOK
  <2>4. data' \in [Pages -> Seq(Slots)]
    BY <1>7, <1>9, Zenon DEF TypeOK
  <2>5. used' \in [Pages -> Int]
    <3>1. used[p] + 1 \in Int
      BY <1>1 DEF TypeOK
    <3> QED
      BY <1>9, <3>1, Zenon DEF TypeOK
  <2>3. next_free_block' \in [ClassSet -> Pages \cup {NULL}]
    BY <1>1, <1>9, Zenon DEF TypeOK
  <2> QED
    BY <1>9, <2>1, <2>2, <2>3, <2>4, <2>5, Zenon DEF TypeOK
<1>12. InCall'
  BY Zenon DEF InCall, AllocFromBlock, Return, TypeOK
<1>13. (\A d \in ClassSet : Blocks(d)' = Blocks(d)) /\ HeapPages' = HeapPages
  BY <1>9, Zenon DEF Blocks, HeapPages
<1>14. OwnedPages'
  BY <1>9, <1>13, Zenon DEF OwnedPages
<1>15. Held(p)' = Held(p) \cup {s} /\ s \notin Held(p)
  <2>1. \A x \in Slots : asked'[p][x] = IF x = s THEN want[a] ELSE asked[p][x]
    BY <1>1, <1>7, <1>9, Zenon DEF TypeOK
  <2> QED
    BY <1>2, <1>7, <1>8, <2>1, Zenon DEF Held
<1>16. \A q \in Pages \ {p} : Held(q)' = Held(q) /\ used'[q] = used[q] /\ data'[q] = data[q]
  BY <1>9, Zenon DEF Held, TypeOK
<1>17. used'[p] = Cardinality(Held(p)') /\ data'[p] = Tail(data[p]) /\ used'[p] = used[p] + 1
  <2>1. used'[p] = used[p] + 1 /\ data'[p] = Tail(data[p])
    BY <1>1, <1>9, Zenon DEF TypeOK
  <2>2. Cardinality(Held(p) \cup {s}) = Cardinality(Held(p)) + 1
    BY <1>5, <1>15, FS_AddElement, Zenon
  <2> QED
    BY <1>2, <1>15, <2>1, <2>2, Zenon
<1>18. \A d \in ClassSet : \A q \in Blocks(d) : q \in Pages /\ (q = p => d = c)
  <2>1. \A d \in ClassSet : \A q \in Blocks(d) : q \in Pages
    BY DEF TypeOK, Blocks, Elements
  <2>2. \A d \in ClassSet : p \in Blocks(d) => d = c
    BY <1>1, Zenon DEF OwnedPages
  <2> QED
    BY <2>1, <2>2, Zenon
<1>19. HeldFits'
  BY <1>2, <1>7, <1>13, <1>15, <1>16, <1>18 DEF HeldFits
<1>20. OwnedSlots'
  <2>1. ASSUME NEW d \in ClassSet, NEW q \in Blocks(d)
        PROVE  /\ size_of'[q] = d /\ used'[q] = Cardinality(Held(q)') /\ Injective(data'[q])
               /\ Elements(data'[q]) = (0..(Capacity[d] - 1)) \ Held(q)'
    <3>1. CASE q = p
      BY <1>2, <1>7, <1>9, <1>15, <1>17, <1>18, <3>1, Zenon
    <3>2. CASE q /= p
      BY <1>9, <1>16, <1>18, <3>2 DEF OwnedSlots
    <3> QED
      BY <3>1, <3>2, Zenon
  <2>2. ASSUME NEW q \in Pages \ HeapPages PROVE Held(q)' = {}
    <3>1. q /= p
      BY <1>1, Zenon DEF HeapPages
    <3> QED
      BY <1>16, <3>1, Zenon DEF OwnedSlots
  <2> QED
    BY <1>13, <2>1, <2>2 DEF OwnedSlots
<1>21. Chained'
  <2> SUFFICES ASSUME NEW d \in ClassSet PROVE HasChain(d)'
    BY Zenon DEF Chained
  <2>1. CASE d = c
    <3>1. CASE used[p] + 1 = n
      <4>1. next_free_block'[c] = link[p] /\ used'[p] = n
        BY <1>9, <1>17, <3>1, Zenon DEF TypeOK
      <4>2. \A q \in Blocks(c) : q /= p => used'[q] = used[q]
        BY <1>16, <1>18, Zenon
      <4>3. Chain(c, Tail(ch))'
        BY <1>9, <1>10, <1>13, <1>c, <1>d, <4>1, <4>2, Zenon DEF Chain
      <4> QED
        BY <1>10, <1>13, <1>c, <2>1, <4>3, Zenon DEF HasChain
    <3>2. CASE used[p] + 1 /= n
      <4>1. next_free_block'[c] = p
        BY <1>9, <3>2, Zenon DEF TypeOK
      <4>2. used'[p] < n
        <5>1. used[p] \in Int
          BY <1>1, Zenon DEF TypeOK
        <5> QED
          BY <1>2, <1>3, <1>17, <3>2, <5>1
      <4>3. \A q \in Blocks(c) : q /= p => used'[q] = used[q]
        BY <1>16, <1>18, Zenon
      <4>4. Chain(c, ch)'
        BY <1>1, <1>9, <1>13, <1>c, <1>d, <4>1, <4>2, <4>3, Zenon DEF Chain
      <4> QED
        BY <1>13, <1>c, <2>1, <4>4, Zenon DEF HasChain
    <3> QED
      BY <3>1, <3>2, Zenon
  <2>2. CASE d /= c
    <3>1. next_free_block'[d] = next_free_block[d] /\ link' = link
      BY <1>9, <2>2, Zenon DEF TypeOK
    <3>2. \A q \in Blocks(d) : used'[q] = used[q] /\ link'[q] = link[q]
      BY <1>16, <1>18, <2>2, <3>1, Zenon
    <3> QED
      BY <1>13, <3>1, <3>2, ChainKept, Zenon DEF Chained
  <2> QED
    BY <2>1, <2>2, Zenon
<1> QED
  BY <1>11, <1>12, <1>14, <1>19, <1>20, <1>21, Zenon

\* heap_allocator::alloc with a new page: it leaves the free list, belongs to no
\* other block, and hands out its cell 0.
LEMMA AllocFromPageInv ==
    ASSUME IInv, NEW a \in Actors, NEW c \in ClassSet, AllocFromPage(a, c)
    PROVE  IInv'
<1> DEFINE n == Capacity[c]
<1>a. PICK p : p = Head(free_page_list)
  BY Zenon
<1> USE DEF IInv
<1>1. free_page_list \in Seq(Pages) /\ free_page_list /= <<>> /\ Injective(free_page_list)
  BY Zenon DEF AllocFromPage, TypeOK, OwnedPages
<1>2. /\ p \in Pages /\ p \in Elements(free_page_list) /\ Tail(free_page_list) \in Seq(Pages)
      /\ Injective(Tail(free_page_list))
      /\ Elements(Tail(free_page_list)) = Elements(free_page_list) \ {p}
  BY <1>a, <1>1, TailFacts, Zenon
<1>3. p \notin HeapPages /\ p \notin taken /\ \A d \in ClassSet : p \notin Blocks(d)
  BY <1>2, Zenon DEF OwnedPages, HeapPages
<1>4. n \in Nat /\ n >= 1 /\ 0 \in 0..(n - 1) /\ 0..(n - 1) \subseteq Slots /\ 0 \in Slots
  BY Cells, Zenon
<1>5. want[a] \in Nat /\ want[a] /= 0
  BY SizesAssumption, Zenon DEF AllocFromPage, InAlloc, InCall
<1>6. /\ free_page_list' = Tail(free_page_list) /\ taken' = taken
      /\ head_block' = [head_block EXCEPT ![c] = <<p>> \o head_block[c]]
      /\ size_of' = [size_of EXCEPT ![p] = c]
      /\ used' = [used EXCEPT ![p] = 1]
      /\ data' = [data EXCEPT ![p] = RestOfBlock(c)]
      /\ asked' = [asked EXCEPT ![p] = [asked[p] EXCEPT ![0] = want[a]]]
      /\ link' = [link EXCEPT ![p] = NULL]
      /\ next_free_block' = [next_free_block EXCEPT ![c] = IF n = 1 THEN NULL ELSE p]
  BY <1>a, <1>1, Zenon DEF AllocFromPage, AllocPage, AfterAlloc
<1>7. /\ RestOfBlock(c) \in Seq(Slots) /\ Injective(RestOfBlock(c))
      /\ Elements(RestOfBlock(c)) = (0..(n - 1)) \ {0}
  <2>1. DOMAIN RestOfBlock(c) = 1..(n - 1) /\ \A i \in 1..(n - 1) : RestOfBlock(c)[i] = i
    BY Zenon DEF RestOfBlock
  <2>2. \A i \in 1..(n - 1) : i \in Slots
    BY <1>4
  <2>3. RestOfBlock(c) \in Seq(Slots)
    BY <1>4, <2>2 DEF RestOfBlock
  <2>4. Elements(RestOfBlock(c)) = 1..(n - 1)
    BY <2>1, Zenon DEF Elements
  <2> QED
    BY <1>4, <2>1, <2>3, <2>4 DEF Injective
<1>8. /\ <<p>> \o head_block[c] \in Seq(Pages) /\ Injective(<<p>> \o head_block[c])
      /\ Elements(<<p>> \o head_block[c]) = {p} \cup Elements(head_block[c])
  <2>1. head_block[c] \in Seq(Pages) /\ Injective(head_block[c]) /\ p \notin Elements(head_block[c])
    BY <1>3, Zenon DEF TypeOK, OwnedPages, Blocks
  <2> QED
    BY <1>2, <2>1, ConsFacts, Zenon
<1>9. /\ Blocks(c)' = Blocks(c) \cup {p}
      /\ \A d \in ClassSet : d /= c => Blocks(d)' = Blocks(d) /\ head_block'[d] = head_block[d]
      /\ head_block'[c] = <<p>> \o head_block[c]
  BY <1>6, <1>8, Zenon DEF Blocks, TypeOK
<1>10. HeapPages' = HeapPages \cup {p}
  BY <1>9, Zenon DEF HeapPages
<1>11. TypeOK'
  <2>1. pc' \in [Actors -> {"idle", "first", "truncate", "walk", "second"}] /\ want' \in [Actors -> Nat]
        /\ todo' \in [Actors -> Nat] /\ cursor' \in [Actors -> Nat]
    BY Zenon DEF AllocFromPage, Return, TypeOK
  <2>2. asked' \in [Pages -> [Slots -> Nat]]
    <3>1. [asked[p] EXCEPT ![0] = want[a]] \in [Slots -> Nat]
      BY <1>2, <1>4, <1>5, Zenon DEF TypeOK
    <3> QED
      BY <1>6, <3>1, Zenon DEF TypeOK
  <2>3. head_block' \in [ClassSet -> Seq(Pages)]
    BY <1>6, <1>8, Zenon DEF TypeOK
  <2>4. next_free_block' \in [ClassSet -> Pages \cup {NULL}] /\ link' \in [Pages -> Pages \cup {NULL}]
    BY <1>2, <1>6, Zenon DEF TypeOK
  <2>5. c \in Nat
    BY ClassesAssumption DEF ClassSet
  <2>6. size_of' \in [Pages -> Nat]
    BY <1>6, <2>5, Zenon DEF TypeOK
  <2>8. used' \in [Pages -> Int]
    <3>1. 1 \in Int
      OBVIOUS
    <3> QED
      BY <1>6, <3>1, Zenon DEF TypeOK
  <2>7. data' \in [Pages -> Seq(Slots)]
    BY <1>6, <1>7, Zenon DEF TypeOK
  <2> QED
    BY <1>2, <1>6, <2>1, <2>2, <2>3, <2>4, <2>6, <2>7, <2>8, Zenon DEF TypeOK
<1>12. InCall'
  BY Zenon DEF InCall, AllocFromPage, Return, TypeOK
<1>13. OwnedPages'
  <2>1. \A d \in ClassSet : Injective(head_block'[d])
    BY <1>8, <1>9, Zenon DEF OwnedPages
  <2>2. \A d, e \in ClassSet : d /= e => Blocks(d)' \cap Blocks(e)' = {}
    BY <1>3, <1>9 DEF OwnedPages
  <2> QED
    BY <1>2, <1>3, <1>6, <1>10, <2>1, <2>2, Zenon DEF OwnedPages
<1>14. Held(p) = {}
  BY <1>2, <1>3, Zenon DEF OwnedSlots
<1>15. Held(p)' = {0}
  <2>1. \A x \in Slots : asked'[p][x] = IF x = 0 THEN want[a] ELSE asked[p][x]
    BY <1>2, <1>4, <1>6, Zenon DEF TypeOK
  <2> QED
    BY <1>4, <1>5, <1>14, <2>1, Zenon DEF Held
<1>16. \A q \in Pages \ {p} :
         Held(q)' = Held(q) /\ used'[q] = used[q] /\ data'[q] = data[q] /\ size_of'[q] = size_of[q]
  BY <1>6, Zenon DEF Held, TypeOK
<1>17. used'[p] = 1 /\ data'[p] = RestOfBlock(c) /\ size_of'[p] = c
  BY <1>2, <1>6, Zenon DEF TypeOK
<1>18. \A d \in ClassSet : \A q \in Blocks(d) : q \in Pages /\ q /= p
  BY <1>3 DEF TypeOK, Blocks, Elements
<1>19. HeldFits'
  BY <1>4, <1>9, <1>15, <1>16, <1>18 DEF HeldFits
<1>20. OwnedSlots'
  <2>1. ASSUME NEW d \in ClassSet, NEW q \in Blocks(d)'
        PROVE  /\ size_of'[q] = d /\ used'[q] = Cardinality(Held(q)') /\ Injective(data'[q])
               /\ Elements(data'[q]) = (0..(Capacity[d] - 1)) \ Held(q)'
    <3>1. CASE q = p
      <4>1. d = c
        BY <1>3, <1>9, <3>1, Zenon
      <4>2. Cardinality({0}) = 1
        BY FS_EmptySet, FS_AddElement
      <4> QED
        BY <1>7, <1>15, <1>17, <3>1, <4>1, <4>2, Zenon
    <3>2. CASE q /= p
      <4>1. q \in Blocks(d) /\ q \in Pages
        BY <1>9, <1>18, <3>2, Zenon
      <4> QED
        BY <1>16, <3>2, <4>1 DEF OwnedSlots
    <3> QED
      BY <3>1, <3>2, Zenon
  <2>2. ASSUME NEW q \in Pages \ HeapPages' PROVE Held(q)' = {}
    BY <1>10, <1>16, Zenon DEF OwnedSlots
  <2> QED
    BY <2>1, <2>2, Zenon DEF OwnedSlots
<1>21. Chained'
  <2> SUFFICES ASSUME NEW d \in ClassSet PROVE HasChain(d)'
    BY Zenon DEF Chained
  <2>1. CASE d = c
    <3>1. PICK ch \in Seq(Pages) : Elements(ch) \subseteq Blocks(c) /\ Chain(c, ch)
      BY Zenon DEF Chained, HasChain
    <3>2. next_free_block[c] = NULL /\ Linked(NULL, link, ch)
      BY <3>1, Zenon DEF AllocFromPage, Chain
    <3>3. ch = <<>>
      <4> SUFFICES ASSUME ch /= <<>> PROVE FALSE
        BY Zenon
      <4>1. NULL = Head(ch)
        BY <3>1, <3>2, LinkedTail, Zenon
      <4>2. NULL \in Elements(ch)
        BY <3>1, <4>1, TailFacts, Zenon
      <4> QED
        BY <1>18, <3>1, <4>2, NullAssumption, Zenon
    <3>4. \A q \in Blocks(c) : used'[q] = n
      <4>1. After(NULL, link, ch) = NULL /\ Elements(ch) = {}
        BY <3>3 DEF After, Elements
      <4>2. After(next_free_block[c], link, ch) = NULL
        BY <3>2, <4>1, Zenon
      <4>3. \A q \in Blocks(c) : used[q] = n
        BY <3>1, <4>1, <4>2 DEF Chain
      <4> QED
        BY <1>16, <1>18, <4>3
    <3>5. \A q \in Blocks(c)' : q \in Pages
      BY <1>2, <1>9, <1>18, Zenon
    <3>6. CASE n = 1
      <4>1. next_free_block'[c] = NULL
        BY <1>6, <3>6, Zenon DEF TypeOK
      <4>2. /\ <<>> \in Seq(Pages) /\ Elements(<<>>) = {} /\ Injective(<<>>)
            /\ Linked(NULL, link', <<>>) /\ After(NULL, link', <<>>) = NULL
        BY DEF Elements, Injective, Linked, After
      <4>3. \A q \in Blocks(c)' : used'[q] = n
        BY <1>9, <1>17, <3>4, <3>6, Zenon
      <4>4. Chain(c, <<>>)'
        BY <3>5, <4>1, <4>2, <4>3, NullAssumption, Zenon DEF Chain
      <4> QED
        BY <2>1, <4>2, <4>4, Zenon DEF HasChain
    <3>7. CASE n /= 1
      <4>1. next_free_block'[c] = p /\ link'[p] = NULL
        BY <1>2, <1>6, <3>7, Zenon DEF TypeOK
      <4>2. /\ <<p>> \in Seq(Pages) /\ Elements(<<p>>) = {p} /\ Injective(<<p>>)
            /\ Linked(p, link', <<p>>) /\ After(p, link', <<p>>) = link'[p]
        BY <1>2 DEF Elements, Injective, Linked, After
      <4>3. used'[p] < n
        BY <1>4, <1>17, <3>7
      <4>4. Chain(c, <<p>>)'
        BY <1>9, <3>4, <3>5, <4>1, <4>2, <4>3, NullAssumption, Zenon DEF Chain
      <4> QED
        BY <1>9, <2>1, <4>2, <4>4, Zenon DEF HasChain
    <3> QED
      BY <3>6, <3>7, Zenon
  <2>2. CASE d /= c
    <3>1. next_free_block'[d] = next_free_block[d] /\ Blocks(d)' = Blocks(d)
      BY <1>6, <1>9, <2>2, Zenon DEF TypeOK
    <3>2. \A q \in Pages \ {p} : link'[q] = link[q]
      BY <1>6, Zenon DEF TypeOK
    <3>3. \A q \in Blocks(d) : used'[q] = used[q] /\ link'[q] = link[q]
      BY <1>16, <1>18, <3>2, Zenon
    <3> QED
      BY <3>1, <3>3, ChainKept, Zenon DEF Chained
  <2> QED
    BY <2>1, <2>2, Zenon
<1> QED
  BY <1>11, <1>12, <1>13, <1>19, <1>20, <1>21, Zenon

\* truncate: a block in use is passed over, an empty one goes back to the free list.
\* The free chain of its size may lead to it still, and then ends there.
LEMMA TruncateBlockInv ==
    ASSUME IInv, NEW a \in Actors, TruncateBlock(a)
    PROVE  IInv'
<1> USE DEF IInv
<1>a. PICK c : c = Classes[todo[a]]
  BY Zenon
<1>b. PICK i : i = cursor[a]
  BY Zenon
<1>c. PICK p : p = head_block[c][i]
  BY Zenon
<1>1. pc[a] = "walk" /\ c \in ClassSet /\ i \in Nat /\ i >= 1 /\ i <= Len(head_block[c])
  BY <1>a, <1>b, WalkClass, Zenon DEF TruncateBlock
<1>2. head_block[c] \in Seq(Pages) /\ i \in DOMAIN head_block[c] /\ Injective(head_block[c])
  BY <1>1 DEF TypeOK, OwnedPages
<1>3. p \in Pages /\ p \in Blocks(c) /\ p \in HeapPages
  BY <1>c, <1>1, <1>2 DEF Blocks, Elements, HeapPages
<1>4. UNCHANGED <<taken, next_free_block, link, used, asked, pc, want, todo>>
  BY Zenon DEF TruncateBlock
<1>5. CASE used[p] /= 0
  <2>1. cursor' = [cursor EXCEPT ![a] = i + 1] /\ UNCHANGED <<head_block, free_page_list, size_of, data>>
    BY <1>a, <1>b, <1>c, <1>5, Zenon DEF TruncateBlock
  <2>2. UNCHANGED blockVars /\ UNCHANGED pageVars
    BY <1>4, <2>1, Zenon DEF blockVars, pageVars
  <2>3. i + 1 \in Nat /\ i + 1 >= 1
    BY <1>1
  <2>4. TypeOK' /\ InCall'
    BY <1>4, <2>1, <2>3, Zenon DEF TypeOK, InCall
  <2> QED
    BY <2>2, <2>4, BlocksUnchanged, Zenon
<1>6. CASE used[p] = 0
  <2>1. /\ head_block' = [head_block EXCEPT ![c] = Without(head_block[c], i)]
        /\ free_page_list' = <<p>> \o free_page_list
        /\ size_of' = [size_of EXCEPT ![p] = 0]
        /\ data' = [data EXCEPT ![p] = <<>>]
        /\ UNCHANGED cursor
    BY <1>a, <1>b, <1>c, <1>3, <1>6, NullAssumption, Zenon DEF TruncateBlock, FreePage
  <2>2. /\ Without(head_block[c], i) \in Seq(Pages) /\ Injective(Without(head_block[c], i))
        /\ Elements(Without(head_block[c], i)) = Blocks(c) \ {p}
    BY <1>c, <1>2, WithoutFacts, Zenon DEF Blocks
  <2>3. p \notin Elements(free_page_list) /\ p \notin taken /\ \A d \in ClassSet : d /= c => p \notin Blocks(d)
    BY <1>1, <1>3, Zenon DEF OwnedPages
  <2>4. /\ free_page_list' \in Seq(Pages) /\ Injective(free_page_list')
        /\ Elements(free_page_list') = {p} \cup Elements(free_page_list)
    BY <1>3, <2>1, <2>3, ConsFacts, Zenon DEF TypeOK, OwnedPages
  <2>5. /\ Blocks(c)' = Blocks(c) \ {p} /\ Injective(head_block'[c])
        /\ \A d \in ClassSet : d /= c => Blocks(d)' = Blocks(d) /\ head_block'[d] = head_block[d]
    BY <1>1, <2>1, <2>2, Zenon DEF Blocks, TypeOK
  <2>6. HeapPages' = HeapPages \ {p}
    BY <1>1, <2>3, <2>5, Zenon DEF HeapPages
  <2>7. TypeOK'
    <3>1. head_block' \in [ClassSet -> Seq(Pages)]
      BY <2>1, <2>2, Zenon DEF TypeOK
    <3>2. size_of' \in [Pages -> Nat]
      BY <2>1, Zenon DEF TypeOK
    <3>3. <<>> \in Seq(Slots)
      OBVIOUS
    <3>4. data' \in [Pages -> Seq(Slots)]
      BY <2>1, <3>3, Zenon DEF TypeOK
    <3> QED
      BY <1>4, <2>1, <2>4, <3>1, <3>2, <3>4, Zenon DEF TypeOK
  <2>8. InCall'
    BY <1>4, <2>1, Zenon DEF InCall
  <2>9. OwnedPages'
    <3>1. \A d \in ClassSet : Injective(head_block'[d])
      BY <2>5, Zenon DEF OwnedPages
    <3>2. \A d, e \in ClassSet : d /= e => Blocks(d)' \cap Blocks(e)' = {}
      BY <2>5 DEF OwnedPages
    <3> QED
      BY <1>4, <2>3, <2>4, <2>6, <3>1, <3>2, Zenon DEF OwnedPages
  <2>10. \A q \in Pages : Held(q)' = Held(q) /\ used'[q] = used[q]
    BY <1>4, Zenon DEF Held
  <2>11. \A q \in Pages \ {p} : size_of'[q] = size_of[q] /\ data'[q] = data[q]
    BY <2>1, Zenon DEF TypeOK
  <2>12. \A d \in ClassSet : \A q \in Blocks(d)' : q \in Blocks(d) /\ q \in Pages /\ q /= p
    <3>1. \A d \in ClassSet : \A q \in Blocks(d) : q \in Pages
      BY DEF TypeOK, Blocks, Elements
    <3> QED
      BY <2>3, <2>5, <3>1, Zenon
  <2>13. Held(p) = {}
    <3>1. Held(p) \subseteq 0..(Capacity[c] - 1) /\ Cardinality(Held(p)) = 0
      BY <1>1, <1>3, <1>6, Zenon DEF HeldFits, OwnedSlots
    <3>2. IsFiniteSet(0..(Capacity[c] - 1))
      BY <1>1, Cells, IntervalSize, Zenon
    <3>3. IsFiniteSet(Held(p))
      BY <3>1, <3>2, FS_Subset, Zenon
    <3> QED
      BY <3>1, <3>3, FS_EmptySet, Zenon
  <2>14. HeldFits'
    BY <2>10, <2>12, Zenon DEF HeldFits
  <2>15. OwnedSlots'
    <3>1. ASSUME NEW d \in ClassSet, NEW q \in Blocks(d)'
          PROVE  /\ size_of'[q] = d /\ used'[q] = Cardinality(Held(q)') /\ Injective(data'[q])
                 /\ Elements(data'[q]) = (0..(Capacity[d] - 1)) \ Held(q)'
      BY <2>10, <2>11, <2>12 DEF OwnedSlots
    <3>2. ASSUME NEW q \in Pages \ HeapPages' PROVE Held(q)' = {}
      BY <2>6, <2>10, <2>13, Zenon DEF OwnedSlots
    <3> QED
      BY <3>1, <3>2, Zenon DEF OwnedSlots
  <2>16. Chained'
    <3> SUFFICES ASSUME NEW d \in ClassSet PROVE HasChain(d)'
      BY Zenon DEF Chained
    <3>1. CASE d = c
      <4>1. PICK ch \in Seq(Pages) : Elements(ch) \subseteq Blocks(c) /\ Chain(c, ch)
        BY <1>1, Zenon DEF Chained, HasChain
      <4> DEFINE h == next_free_block[c]
      <4>2. /\ Injective(ch) /\ Linked(h, link, ch) /\ After(h, link, ch) \notin Blocks(c)
            /\ \A q \in Elements(ch) : used[q] < Capacity[c]
            /\ After(h, link, ch) = NULL => \A q \in Blocks(c) \ Elements(ch) : used[q] = Capacity[c]
        BY <4>1, Zenon DEF Chain
      <4>3. CASE p \in Elements(ch)
        <5>1. PICK k \in DOMAIN ch : p = ch[k]
          BY <4>3, Zenon DEF Elements
        <5>2. PICK t \in Seq(Pages) : /\ Linked(h, link, t) /\ After(h, link, t) = p /\ Injective(t)
                                     /\ Elements(t) \subseteq Elements(ch) \ {p}
          BY <4>1, <4>2, <5>1, LinkedCut, Zenon
        <5>3. Chain(c, t)'
          BY <1>3, <1>4, <2>5, <4>1, <4>2, <5>2, NullAssumption, Zenon DEF Chain
        <5> QED
          BY <2>5, <3>1, <4>1, <5>2, <5>3, Zenon DEF HasChain
      <4>4. CASE p \notin Elements(ch)
        <5>1. Chain(c, ch)'
          BY <1>4, <2>5, <4>1, <4>2, Zenon DEF Chain
        <5> QED
          BY <2>5, <3>1, <4>1, <4>4, <5>1, Zenon DEF HasChain
      <4> QED
        BY <4>3, <4>4, Zenon
    <3>2. CASE d /= c
      BY <1>4, <2>5, <3>2, ChainKept, Zenon DEF Chained
    <3> QED
      BY <3>1, <3>2, Zenon
  <2> QED
    BY <2>7, <2>8, <2>9, <2>14, <2>15, <2>16, Zenon
<1> QED
  BY <1>5, <1>6, Zenon

\* operator delete: the header names the size of the block the object is in, and its
\* cell, which was not free, becomes so.
LEMMA DeleteInv ==
    ASSUME IInv, NEW p \in Pages, NEW s \in Slots, Delete(p, s)
    PROVE  IInv'
<1> USE DEF IInv
<1>a. PICK c : c = size_of[p]
  BY Zenon
<1> DEFINE n == Capacity[c]
<1>1. c \in ClassSet /\ s \in Held(p)
  BY <1>a, Zenon DEF Delete, Held
<1>2. p \in Blocks(c)
  <2>1. p \in HeapPages
    BY <1>1, Zenon DEF OwnedSlots
  <2>2. PICK d \in ClassSet : p \in Blocks(d)
    BY <2>1, Zenon DEF HeapPages
  <2> QED
    BY <1>a, <2>2, Zenon DEF OwnedSlots
<1>3. /\ used[p] = Cardinality(Held(p)) /\ Injective(data[p])
      /\ Elements(data[p]) = (0..(n - 1)) \ Held(p) /\ Held(p) \subseteq 0..(n - 1)
  BY <1>1, <1>2, Zenon DEF OwnedSlots, HeldFits
<1>4. n \in Nat /\ n >= 1 /\ IsFiniteSet(0..(n - 1)) /\ Cardinality(0..(n - 1)) = n
  BY <1>1, Cells, IntervalSize, Zenon
<1>5. IsFiniteSet(Held(p)) /\ Cardinality(Held(p)) <= n
  BY <1>3, <1>4, FS_Subset, Zenon
<1>6. /\ data' = [data EXCEPT ![p] = <<s>> \o data[p]]
      /\ used' = [used EXCEPT ![p] = used[p] - 1]
      /\ asked' = [asked EXCEPT ![p] = [asked[p] EXCEPT ![s] = 0]]
      /\ used[p] = n => /\ link' = [link EXCEPT ![p] = next_free_block[c]]
                         /\ next_free_block' = [next_free_block EXCEPT ![c] = p]
      /\ used[p] /= n => UNCHANGED <<link, next_free_block>>
      /\ UNCHANGED <<free_page_list, taken, head_block, size_of, pc, want, todo, cursor>>
  BY <1>a, Zenon DEF Delete, HeapFree, BlockFree, pageVars, callVars
<1>7. /\ <<s>> \o data[p] \in Seq(Slots) /\ Injective(<<s>> \o data[p])
      /\ Elements(<<s>> \o data[p]) = {s} \cup Elements(data[p])
  <2>1. data[p] \in Seq(Slots) /\ s \notin Elements(data[p])
    BY <1>1, <1>3, Zenon DEF TypeOK
  <2> QED
    BY <1>3, <2>1, ConsFacts, Zenon
<1>8. used[p] \in Int /\ next_free_block[c] \in Pages \cup {NULL}
  BY <1>1, Zenon DEF TypeOK
<1>10. TypeOK'
  <2>1. asked' \in [Pages -> [Slots -> Nat]]
    <3>1. [asked[p] EXCEPT ![s] = 0] \in [Slots -> Nat]
      BY Zenon DEF TypeOK
    <3> QED
      BY <1>6, <3>1, Zenon DEF TypeOK
  <2>2. data' \in [Pages -> Seq(Slots)]
    BY <1>6, <1>7, Zenon DEF TypeOK
  <2>3. used' \in [Pages -> Int]
    <3>1. used[p] - 1 \in Int
      BY <1>8
    <3> QED
      BY <1>6, <3>1, Zenon DEF TypeOK
  <2>4. next_free_block' \in [ClassSet -> Pages \cup {NULL}] /\ link' \in [Pages -> Pages \cup {NULL}]
    <3>1. CASE used[p] = n
      <4>1. link' = [link EXCEPT ![p] = next_free_block[c]] /\ next_free_block' = [next_free_block EXCEPT ![c] = p]
        BY <1>6, <3>1, Zenon
      <4> QED
        BY <1>8, <4>1, Zenon DEF TypeOK
    <3>2. CASE used[p] /= n
      BY <1>6, <3>2, Zenon DEF TypeOK
    <3> QED
      BY <3>1, <3>2, Zenon
  <2> QED
    BY <1>6, <2>1, <2>2, <2>3, <2>4, Zenon DEF TypeOK
<1>11. InCall'
  BY <1>6, Zenon DEF InCall
<1>12. (\A d \in ClassSet : Blocks(d)' = Blocks(d)) /\ HeapPages' = HeapPages
  BY <1>6, Zenon DEF Blocks, HeapPages
<1>13. OwnedPages'
  BY <1>6, <1>12, Zenon DEF OwnedPages
<1>14. Held(p)' = Held(p) \ {s}
  <2>1. \A x \in Slots : asked'[p][x] = IF x = s THEN 0 ELSE asked[p][x]
    BY <1>6, Zenon DEF TypeOK
  <2> QED
    BY <2>1, Zenon DEF Held
<1>15. \A q \in Pages \ {p} : Held(q)' = Held(q) /\ used'[q] = used[q] /\ data'[q] = data[q]
  BY <1>6, Zenon DEF Held, TypeOK
<1>16. used'[p] = Cardinality(Held(p)') /\ data'[p] = <<s>> \o data[p] /\ used'[p] = used[p] - 1
  <2>1. used'[p] = used[p] - 1 /\ data'[p] = <<s>> \o data[p]
    BY <1>6, Zenon DEF TypeOK
  <2>2. Cardinality(Held(p) \ {s}) = Cardinality(Held(p)) - 1
    BY <1>1, <1>5, FS_RemoveElement, Zenon
  <2> QED
    BY <1>3, <1>14, <2>1, <2>2, Zenon
<1>17. \A d \in ClassSet : \A q \in Blocks(d) : q \in Pages /\ (q = p => d = c)
  <2>1. \A d \in ClassSet : \A q \in Blocks(d) : q \in Pages
    BY DEF TypeOK, Blocks, Elements
  <2>2. \A d \in ClassSet : p \in Blocks(d) => d = c
    BY <1>1, <1>2, Zenon DEF OwnedPages
  <2> QED
    BY <2>1, <2>2, Zenon
<1>18. HeldFits'
  BY <1>3, <1>12, <1>14, <1>15, <1>17 DEF HeldFits
<1>19. OwnedSlots'
  <2>1. ASSUME NEW d \in ClassSet, NEW q \in Blocks(d)
        PROVE  /\ size_of'[q] = d /\ used'[q] = Cardinality(Held(q)') /\ Injective(data'[q])
               /\ Elements(data'[q]) = (0..(Capacity[d] - 1)) \ Held(q)'
    <3>1. CASE q = p
      <4>1. {s} \cup ((0..(n - 1)) \ Held(p)) = (0..(n - 1)) \ (Held(p) \ {s})
        BY <1>1, <1>3, Zenon
      <4> QED
        BY <1>a, <1>3, <1>6, <1>7, <1>14, <1>16, <1>17, <3>1, <4>1, Zenon
    <3>2. CASE q /= p
      BY <1>6, <1>15, <1>17, <3>2 DEF OwnedSlots
    <3> QED
      BY <3>1, <3>2, Zenon
  <2>2. ASSUME NEW q \in Pages \ HeapPages PROVE Held(q)' = {}
    <3>1. q /= p
      BY <1>1, <1>2, Zenon DEF HeapPages
    <3> QED
      BY <1>15, <3>1, Zenon DEF OwnedSlots
  <2> QED
    BY <1>12, <2>1, <2>2, Zenon DEF OwnedSlots
<1>20. Chained'
  <2> SUFFICES ASSUME NEW d \in ClassSet PROVE HasChain(d)'
    BY Zenon DEF Chained
  <2>0. \A q \in Pages \ {p} : link'[q] = link[q]
    BY <1>6, Zenon DEF TypeOK
  <2>1. CASE d = c
    <3>1. PICK ch \in Seq(Pages) : Elements(ch) \subseteq Blocks(c) /\ Chain(c, ch)
      BY <1>1, Zenon DEF Chained, HasChain
    <3> DEFINE h == next_free_block[c]
    <3>2. /\ Injective(ch) /\ Linked(h, link, ch) /\ After(h, link, ch) \notin Blocks(c)
          /\ \A q \in Elements(ch) : used[q] < n
          /\ After(h, link, ch) = NULL => \A q \in Blocks(c) \ Elements(ch) : used[q] = n
      BY <3>1, Zenon DEF Chain
    <3>3. used[p] <= n /\ used'[p] < n
      BY <1>3, <1>4, <1>5, <1>8, <1>16
    <3>4. \A q \in Blocks(c) : q /= p => q \in Pages /\ used'[q] = used[q]
      BY <1>1, <1>15, <1>17, Zenon
    <3>5. CASE used[p] = n
      <4>1. link'[p] = h /\ next_free_block'[c] = p
        BY <1>1, <1>6, <3>5, Zenon DEF TypeOK
      <4>2. p \notin Elements(ch)
        BY <1>4, <3>2, <3>5
      <4>3. Linked(h, link', ch) /\ After(h, link', ch) = After(h, link, ch)
        <5>1. \A q \in Elements(ch) : link'[q] = link[q]
          BY <2>0, <3>1, <3>4, <4>2, Zenon
        <5> QED
          BY <3>2, <5>1, LinkedSame, Zenon
      <4>4. /\ <<p>> \o ch \in Seq(Pages) /\ Elements(<<p>> \o ch) = {p} \cup Elements(ch)
            /\ Injective(<<p>> \o ch)
        BY <3>2, <4>2, ConsFacts, Zenon
      <4>5. Linked(p, link', <<p>> \o ch) /\ After(p, link', <<p>> \o ch) = After(h, link, ch)
        BY <4>1, <4>3, LinkedCons, Zenon
      <4>6. Elements(<<p>> \o ch) \subseteq Blocks(c)
        BY <1>2, <3>1, <4>4, Zenon
      <4>7. Chain(c, <<p>> \o ch)'
        <5>1. \A q \in Elements(<<p>> \o ch) : used'[q] < n
          BY <3>1, <3>2, <3>3, <3>4, <4>4, Zenon
        <5>2. After(h, link, ch) = NULL => \A q \in Blocks(c) \ Elements(<<p>> \o ch) : used'[q] = n
          <6> SUFFICES ASSUME After(h, link, ch) = NULL, NEW q \in Blocks(c), q \notin Elements(<<p>> \o ch)
                       PROVE  used'[q] = n
            BY Zenon
          <6>1. q /= p /\ q \notin Elements(ch)
            BY <4>4, Zenon
          <6>2. used[q] = n
            BY <3>2, <6>1, Zenon
          <6> QED
            BY <3>4, <6>1, <6>2, Zenon
        <5> QED
          BY <1>1, <1>12, <3>2, <4>1, <4>4, <4>5, <5>1, <5>2, Zenon DEF Chain
      <4> QED
        BY <1>1, <1>12, <2>1, <4>4, <4>6, <4>7, Zenon DEF HasChain
    <3>6. CASE used[p] /= n
      <4>1. next_free_block'[c] = h /\ link' = link
        BY <1>6, <3>6, Zenon
      <4>2. \A q \in Elements(ch) : used'[q] < n
        BY <3>1, <3>2, <3>3, <3>4, Zenon
      <4>3. After(h, link, ch) = NULL => \A q \in Blocks(c) \ Elements(ch) : used'[q] = n
        BY <3>2, <3>4, <3>6, Zenon
      <4>4. Chain(c, ch)'
        BY <1>1, <1>12, <3>2, <4>1, <4>2, <4>3, Zenon DEF Chain
      <4> QED
        BY <1>1, <1>12, <2>1, <3>1, <4>4, Zenon DEF HasChain
    <3> QED
      BY <3>5, <3>6, Zenon
  <2>2. CASE d /= c
    <3>1. next_free_block'[d] = next_free_block[d]
      BY <1>6, <2>2, Zenon DEF TypeOK
    <3>2. \A q \in Blocks(d) : used'[q] = used[q] /\ link'[q] = link[q]
      BY <1>15, <1>17, <2>0, <2>2, Zenon
    <3> QED
      BY <1>12, <3>1, <3>2, ChainKept, Zenon DEF Chained
  <2> QED
    BY <2>1, <2>2, Zenon
<1> QED
  BY <1>10, <1>11, <1>13, <1>18, <1>19, <1>20, Zenon

-----------------------------------------------------------------------------
\* An attempt ends: the call returns, or begins to truncate.
LEMMA AttemptEnds ==
    ASSUME TypeOK, InCall, NEW a \in Actors, pc[a] \in {"first", "second"}, Return(a) \/ Failed(a)
    PROVE  /\ pc' \in [Actors -> {"idle", "first", "truncate", "walk", "second"}]
           /\ want' \in [Actors -> Nat] /\ todo' \in [Actors -> Nat] /\ cursor' \in [Actors -> Nat]
           /\ InCall'
<1>1. CASE Return(a)
  BY <1>1, Zenon DEF Return, TypeOK, InCall
<1>2. CASE Failed(a) /\ pc[a] = "first"
  <2>1. /\ pc' = [pc EXCEPT ![a] = "truncate"] /\ todo' = [todo EXCEPT ![a] = 1]
        /\ want' = want /\ cursor' = cursor
    BY <1>2, Zenon DEF Failed
  <2>2. InCall'
    BY <1>2, <2>1 DEF TypeOK, InCall
  <2> QED
    BY <2>1, <2>2, Zenon DEF TypeOK
<1> QED
  BY <1>1, <1>2, Zenon DEF Failed

\* The steps of a call that touch neither pages nor blocks.
LEMMA CallInv ==
    ASSUME IInv, NEW a \in Actors,
           \/ \E sz \in Sizes : New(a, sz)
           \/ \E c \in ClassSet : AllocDangling(a, c) \/ AllocFails(a, c)
           \/ TruncateBegin(a) \/ TruncateEnd(a) \/ Retry(a)
    PROVE  IInv'
<1> USE DEF IInv
<1>1. UNCHANGED pageVars /\ UNCHANGED blockVars
  BY Zenon DEF New, AllocDangling, AllocFails, TruncateBegin, TruncateEnd, Retry
<1>2. Sizes \subseteq Nat /\ Len(Classes) \in Nat
  BY SizesAssumption, ClassesAssumption
<1>3. TypeOK' /\ InCall'
  <2>1. CASE \E sz \in Sizes : New(a, sz)
    BY <1>1, <1>2, <2>1 DEF New, TypeOK, InCall, pageVars, blockVars
  <2>2. CASE \E c \in ClassSet : AllocDangling(a, c)
    <3>1. pc[a] \in {"first", "second"} /\ Return(a)
      BY <2>2, Zenon DEF AllocDangling, InAlloc
    <3> QED
      BY <1>1, <3>1, AttemptEnds, Zenon DEF TypeOK, pageVars, blockVars
  <2>3. CASE \E c \in ClassSet : AllocFails(a, c)
    <3>1. pc[a] \in {"first", "second"} /\ Failed(a)
      BY <2>3, Zenon DEF AllocFails, InAlloc
    <3> QED
      BY <1>1, <3>1, AttemptEnds, Zenon DEF TypeOK, pageVars, blockVars
  <2>4. CASE TruncateBegin(a)
    BY <1>1, <2>4 DEF TruncateBegin, TypeOK, InCall, pageVars, blockVars
  <2>5. CASE TruncateEnd(a)
    <3>1. /\ pc[a] = "walk" /\ pc' = [pc EXCEPT ![a] = "truncate"] /\ want' = want
          /\ todo' = [todo EXCEPT ![a] = todo[a] + 1] /\ cursor' = [cursor EXCEPT ![a] = 0]
      BY <2>5, Zenon DEF TruncateEnd
    <3>2. todo[a] + 1 \in Nat /\ todo[a] + 1 >= 1
      BY DEF TypeOK
    <3>3. TypeOK'
      BY <1>1, <3>1, <3>2, Zenon DEF TypeOK, pageVars, blockVars
    <3>4. InCall'
      BY <3>1, <3>2, Zenon DEF TypeOK, InCall
    <3> QED
      BY <3>3, <3>4, Zenon
  <2>6. CASE Retry(a)
    BY <1>1, <2>6, Zenon DEF Retry, TypeOK, InCall, pageVars, blockVars
  <2> QED
    BY <2>1, <2>2, <2>3, <2>4, <2>5, <2>6, Zenon
<1> QED
  BY <1>1, <1>3, BlocksUnchanged, Zenon

\* What the other clients do with pages, and attempts at large objects.
LEMMA OthersInv ==
    ASSUME IInv, Others \/ \E a \in Actors : LargeAttempt(a)
    PROVE  IInv'
<1> USE DEF IInv
<1>1. Exchange /\ UNCHANGED blockVars
  BY Zenon DEF Others, LargeAttempt
<1>2. OwnedPages' /\ free_page_list' \in Seq(Pages) /\ taken' \in SUBSET Pages
  BY <1>1, ExchangeOwned, Zenon
<1>3. TypeOK' /\ InCall'
  <2>1. CASE Others
    BY <1>1, <1>2, <2>1, Zenon DEF Others, callVars, TypeOK, InCall, blockVars
  <2>2. ASSUME NEW a \in Actors, LargeAttempt(a) PROVE TypeOK' /\ InCall'
    <3>1. pc[a] \in {"first", "second"} /\ (Return(a) \/ Failed(a))
      BY <2>2, Zenon DEF LargeAttempt
    <3> QED
      BY <1>1, <1>2, <3>1, AttemptEnds, Zenon DEF TypeOK, blockVars
  <2> QED
    BY <2>1, <2>2, Zenon
<1> QED
  BY <1>1, <1>2, <1>3, BlocksUnchanged, Zenon

\* A step that changes nothing.
LEMMA StutterInv ==
    ASSUME IInv, UNCHANGED heapVars
    PROVE  IInv'
<1> USE DEF IInv
<1>1. UNCHANGED pageVars /\ UNCHANGED blockVars
  BY Zenon DEF heapVars
<1>2. TypeOK' /\ InCall'
  BY Zenon DEF heapVars, pageVars, blockVars, callVars, TypeOK, InCall
<1> QED
  BY <1>1, <1>2, BlocksUnchanged, Zenon

\* The inductive invariant holds in every state of the heap.
THEOREM HeapInvariant == HeapSpec => []IInv
<1>1. HeapInit => IInv
  BY InitInv, Zenon
<1>2. IInv /\ [HeapStep \/ Others \/ \E a \in Actors : LargeAttempt(a)]_heapVars => IInv'
  <2> SUFFICES ASSUME IInv, [HeapStep \/ Others \/ \E a \in Actors : LargeAttempt(a)]_heapVars
               PROVE  IInv'
    BY Zenon
  <2>1. CASE HeapStep
    <3>1. ASSUME NEW a \in Actors, NEW c \in ClassSet, AllocFromBlock(a, c) PROVE IInv'
      BY <3>1, AllocFromBlockInv, Zenon
    <3>2. ASSUME NEW a \in Actors, NEW c \in ClassSet, AllocFromPage(a, c) PROVE IInv'
      BY <3>2, AllocFromPageInv, Zenon
    <3>3. ASSUME NEW a \in Actors, TruncateBlock(a) PROVE IInv'
      BY <3>3, TruncateBlockInv, Zenon
    <3>4. ASSUME NEW p \in Pages, NEW s \in Slots, Delete(p, s) PROVE IInv'
      BY <3>4, DeleteInv, Zenon
    <3>5. ASSUME NEW a \in Actors,
                 \/ \E sz \in Sizes : New(a, sz)
                 \/ \E c \in ClassSet : AllocDangling(a, c) \/ AllocFails(a, c)
                 \/ TruncateBegin(a) \/ TruncateEnd(a) \/ Retry(a)
          PROVE  IInv'
      BY <3>5, CallInv, Zenon
    <3> QED
      BY <2>1, <3>1, <3>2, <3>3, <3>4, <3>5, Zenon DEF HeapStep
  <2>2. CASE Others \/ \E a \in Actors : LargeAttempt(a)
    BY <2>2, OthersInv, Zenon
  <2>3. CASE UNCHANGED heapVars
    BY <2>3, StutterInv, Zenon
  <2> QED
    BY <2>1, <2>2, <2>3, Zenon
<1> QED
  BY <1>1, <1>2, PTL DEF HeapSpec

\* alloc_page, free_page, heap_allocator::alloc and truncate never give a page two
\* owners, for any number of pages, sizes and threads, until alloc is led to a page
\* that truncate has freed.
THEOREM HeapPagesOwned == HeapSpec => []PagesOwned
<1>1. IInv => PagesOwned
  BY Zenon DEF IInv, PagesOwned
<1> QED
  BY <1>1, HeapInvariant, PTL

\* A cell of a block is free or holds one live object, and the header that operator
\* delete trusts is right, until alloc is led to a page that truncate has freed
\* (heap_block_t::alloc, free, default_delete).
THEOREM HeapSlotsOwned == HeapSpec => []SlotsOwned
<1>1. IInv => SlotsOwned
  BY Zenon DEF IInv, SlotsOwned
<1> QED
  BY <1>1, HeapInvariant, PTL

\* Along the links in the headers of the pages, the free chain of a size runs through
\* distinct blocks with a free cell; it ends after all of them, or at a page that
\* truncate has freed (heap_allocator::alloc, free, truncate).
THEOREM HeapFreeChain == HeapSpec => []FreeChain
<1>1. IInv => FreeChain
  <2> SUFFICES ASSUME IInv, NEW c \in ClassSet
               PROVE  \E n \in 0..Len(head_block[c]) : \E s \in [1..n -> Blocks(c)] : Chain(c, s)
    BY Zenon DEF FreeChain
  <2>1. PICK s \in Seq(Pages) : Elements(s) \subseteq Blocks(c) /\ Chain(c, s)
    BY Zenon DEF IInv, Chained, HasChain
  <2>2. head_block[c] \in Seq(Pages) /\ Len(s) \in Nat /\ Len(head_block[c]) \in Nat
    BY DEF IInv, TypeOK
  <2>3. s \in Seq(Blocks(c)) /\ s \in [1..Len(s) -> Blocks(c)]
    <3>1. \A i \in 1..Len(s) : s[i] \in Blocks(c)
      BY <2>1 DEF Elements
    <3> QED
      BY <3>1
  <2>4. Len(s) <= Len(head_block[c])
    BY <2>1, <2>2, <2>3, InjectiveLength, Zenon DEF Chain, Blocks
  <2>5. Len(s) \in 0..Len(head_block[c])
    BY <2>2, <2>4
  <2> QED
    BY <2>1, <2>3, <2>5, Zenon
<1> QED
  BY <1>1, HeapInvariant, PTL
====
