---- MODULE BufferListProofs ----
(***************************************************************************)
(* Proofs about the lists of BufferManager.tla: for any number of tasks,   *)
(* blocks and devices and any limits on the buffers, each step keeps cells *)
(* and buffers in one place, and a block in one buffer of the list.        *)
(* BufferProofs.tla has the theorems.                                      *)
(***************************************************************************)
EXTENDS BufferManager, TLAPS

Injective(s) == \A i, j \in DOMAIN s : s[i] = s[j] => i = j

-----------------------------------------------------------------------------
(* Lists *)

\* A set of numbers has a least element: well-foundedness, which BufferProofs proves (Least).
WellOrder == \A S \in SUBSET Nat : S /= {} => \E m \in S : \A k \in S : m <= k

\* What is true of 0, and of a number if it is true of the one before, is true up to n.
LEMMA UpTo ==
    ASSUME WellOrder, NEW n \in Nat, NEW T, 0 \in T, \A i \in 1..n : i - 1 \in T => i \in T
    PROVE  \A i \in 0..n : i \in T
<1> SUFFICES ASSUME (0..n) \ T /= {} PROVE FALSE
  BY Zenon
<1>0. (0..n) \ T \subseteq Nat
  OBVIOUS
<1>1. PICK m \in (0..n) \ T : \A k \in (0..n) \ T : m <= k
  BY <1>0, Zenon DEF WellOrder
<1>2. m /= 0
  BY <1>1, Zenon
<1>3. m \in 1..n /\ m - 1 \in 0..n /\ ~(m <= m - 1)
  BY <1>1, <1>2
<1> QED
  BY <1>1, <1>3, Zenon

\* The recursion of Only is sound: each element is kept or dropped in turn.
LEMMA OnlyRecursion ==
    ASSUME WellOrder, NEW X, NEW s \in Seq(X), NEW S
    PROVE  \E f : /\ Only(s, S) = f[Len(s)]
                  /\ f[0] = <<>>
                  /\ \A i \in 1..Len(s) :
                        f[i] = IF s[i] \in S THEN Append(f[i - 1], s[i]) ELSE f[i - 1]
<1> DEFINE Step(f, i) == IF i = 0 THEN <<>> ELSE IF s[i] \in S THEN Append(f[i - 1], s[i]) ELSE f[i - 1]
           T == {n \in Nat : \E f : f = [i \in 0..n |-> Step(f, i)]}
<1>1. Len(s) \in Nat
  OBVIOUS
<1>2. 0 \in T
  <2>1. PICK f : f = [i \in 0..0 |-> <<>>]
    BY Zenon
  <2>2. f = [i \in 0..0 |-> Step(f, i)]
    BY <2>1
  <2> QED
    BY <2>2, Zenon
<1>3. ASSUME NEW n \in 1..Len(s), n - 1 \in T PROVE n \in T
  <2>1. PICK f : f = [i \in 0..(n - 1) |-> Step(f, i)]
    BY <1>3, Zenon
  <2>2. PICK g : g = [i \in 0..n |-> IF i = n THEN Step(f, i) ELSE f[i]]
    BY Zenon
  <2>3. ASSUME NEW i \in 0..n PROVE g[i] = Step(g, i)
    <3>1. i /= 0 => i - 1 \in 0..n /\ i - 1 /= n /\ g[i - 1] = f[i - 1]
      BY <2>2
    <3>2. Step(g, i) = Step(f, i)
      BY <3>1, Zenon
    <3>3. i /= n => f[i] = Step(f, i)
      <4> SUFFICES ASSUME i /= n PROVE f[i] = Step(f, i)
        BY Zenon
      <4>1. i \in 0..(n - 1)
        OBVIOUS
      <4> HIDE DEF Step
      <4> QED
        BY <2>1, <4>1, Zenon
    <3> HIDE DEF Step
    <3> QED
      BY <2>2, <3>2, <3>3, Zenon
  <2> HIDE DEF Step
  <2>4. g = [i \in 0..n |-> Step(g, i)]
    BY <2>2, <2>3, Zenon
  <2> QED
    BY <2>4
<1>4. Len(s) \in T
  <2> HIDE DEF T
  <2>1. \A i \in 1..Len(s) : i - 1 \in T => i \in T
    BY <1>3, Zenon
  <2>2. \A i \in 0..Len(s) : i \in T
    BY <1>1, <1>2, <2>1, UpTo, Zenon
  <2>3. Len(s) \in 0..Len(s)
    BY <1>1
  <2> QED
    BY <2>2, <2>3, Zenon
<1>5. PICK f : f = CHOOSE g : g = [i \in 0..Len(s) |->
                 IF i = 0 THEN <<>> ELSE IF s[i] \in S THEN Append(g[i - 1], s[i]) ELSE g[i - 1]]
  BY Zenon
<1>6. Only(s, S) = f[Len(s)]
  BY <1>5, Zenon DEF Only
<1>7. f = [i \in 0..Len(s) |->
             IF i = 0 THEN <<>> ELSE IF s[i] \in S THEN Append(f[i - 1], s[i]) ELSE f[i - 1]]
  BY <1>4, <1>5, Zenon
<1>8. f[0] = <<>>
  BY <1>1, <1>7
<1>9. ASSUME NEW i \in 1..Len(s)
      PROVE  f[i] = IF s[i] \in S THEN Append(f[i - 1], s[i]) ELSE f[i - 1]
  <2>1. i \in 0..Len(s) /\ i /= 0
    BY <1>1
  <2> QED
    BY <1>7, <2>1, Zenon
<1> QED
  BY <1>6, <1>8, <1>9, Zenon

\* list::push_back, and a cell that joins the cache.
LEMMA AppendSet ==
    ASSUME NEW X, NEW s \in Seq(X), NEW e \in X
    PROVE  /\ Append(s, e) \in Seq(X)
           /\ Range(Append(s, e)) = Range(s) \cup {e}
           /\ Injective(s) /\ e \notin Range(s) => Injective(Append(s, e))
<1>1. PICK q : q = Append(s, e)
  BY Zenon
<1>2. /\ q \in Seq(X) /\ DOMAIN q = 1..(Len(s) + 1) /\ Len(s) \in Nat /\ DOMAIN s = 1..Len(s)
      /\ q[Len(s) + 1] = e
  BY <1>1
<1>3. \A i \in DOMAIN s : i \in DOMAIN q /\ q[i] = s[i]
  BY <1>1
<1>4. \A i \in DOMAIN q : i \in DOMAIN s \/ i = Len(s) + 1
  BY <1>2
<1>5. Range(q) = Range(s) \cup {e}
  <2>1. ASSUME NEW x \in Range(q) PROVE x \in Range(s) \cup {e}
    <3>1. PICK i \in DOMAIN q : x = q[i]
      BY Zenon DEF Range
    <3> QED
      BY <1>2, <1>3, <1>4, <3>1, Zenon DEF Range
  <2>2. ASSUME NEW x \in Range(s) PROVE x \in Range(q)
    BY <1>3, Zenon DEF Range
  <2>3. e \in Range(q)
    <3>1. Len(s) + 1 \in DOMAIN q
      BY <1>2
    <3> QED
      BY <1>2, <3>1, Zenon DEF Range
  <2> QED
    BY <2>1, <2>2, <2>3, Zenon
<1>6. ASSUME Injective(s), e \notin Range(s) PROVE Injective(q)
  <2>1. \A k \in DOMAIN s : s[k] /= e
    BY <1>6, Zenon DEF Range
  <2> QED
    BY <1>2, <1>3, <1>4, <1>6, <2>1, Zenon DEF Injective
<1> QED
  BY <1>1, <1>2, <1>5, <1>6, Zenon

\* list::erase and the loop of destroy: what is left of a list.
LEMMA OnlyFacts ==
    ASSUME WellOrder, NEW X, NEW s \in Seq(X), NEW S
    PROVE  /\ Only(s, S) \in Seq(X)
           /\ Range(Only(s, S)) = Range(s) \cap S
           /\ Injective(s) => Injective(Only(s, S))
<1>1. PICK f : /\ Only(s, S) = f[Len(s)]
               /\ f[0] = <<>>
               /\ \A i \in 1..Len(s) :
                     f[i] = IF s[i] \in S THEN Append(f[i - 1], s[i]) ELSE f[i - 1]
  BY OnlyRecursion
<1> DEFINE Before(i) == {s[k] : k \in 1..i}
           Good(i) == /\ f[i] \in Seq(X)
                      /\ Range(f[i]) = Before(i) \cap S
                      /\ Injective(s) => Injective(f[i])
           T == {i \in Nat : Good(i)}
<1>2. Len(s) \in Nat /\ DOMAIN s = 1..Len(s)
  OBVIOUS
<1>3. 0 \in T
  <2>1. f[0] \in Seq(X) /\ Range(f[0]) = {} /\ Injective(f[0])
    BY <1>1 DEF Range, Injective
  <2>2. Before(0) = {}
    OBVIOUS
  <2> QED
    BY <2>1, <2>2, Zenon
<1>4. ASSUME NEW i \in 1..Len(s), i - 1 \in T PROVE i \in T
  <2>1. /\ i \in Nat /\ i - 1 \in Nat /\ i \in DOMAIN s /\ s[i] \in X
        /\ f[i - 1] \in Seq(X) /\ Range(f[i - 1]) = Before(i - 1) \cap S
        /\ Injective(s) => Injective(f[i - 1])
    BY <1>2, <1>4
  <2>2. Before(i) = Before(i - 1) \cup {s[i]}
    <3>1. 1..i = (1..(i - 1)) \cup {i}
      BY <2>1
    <3> QED
      BY <3>1, Zenon
  <2>3. Injective(s) => s[i] \notin Before(i - 1)
    <3>1. \A k \in 1..(i - 1) : k \in DOMAIN s /\ k /= i
      BY <1>2, <2>1
    <3> QED
      BY <2>1, <3>1, Zenon DEF Injective
  <2> HIDE DEF Before
  <2>4. CASE s[i] \in S
    <3>1. f[i] = Append(f[i - 1], s[i])
      BY <1>1, <2>4, Zenon
    <3>2. PICK g, e : g = f[i - 1] /\ e = s[i]
      BY Zenon
    <3>3. /\ Append(g, e) \in Seq(X) /\ Range(Append(g, e)) = Range(g) \cup {e}
          /\ Injective(g) /\ e \notin Range(g) => Injective(Append(g, e))
      BY <2>1, <3>2, AppendSet
    <3> QED
      BY <2>1, <2>2, <2>3, <2>4, <3>1, <3>2, <3>3, Zenon
  <2>5. CASE s[i] \notin S
    <3>1. f[i] = f[i - 1]
      BY <1>1, <2>5, Zenon
    <3> QED
      BY <2>1, <2>2, <2>5, <3>1, Zenon
  <2> QED
    BY <2>4, <2>5, Zenon
<1>5. Len(s) \in T
  <2> HIDE DEF T
  <2>1. Len(s) \in Nat /\ Len(s) \in 0..Len(s)
    BY <1>2
  <2>2. \A i \in 1..Len(s) : i - 1 \in T => i \in T
    BY <1>4, Zenon
  <2>3. \A i \in 0..Len(s) : i \in T
    BY <1>3, <2>1, <2>2, UpTo, Zenon
  <2> QED
    BY <2>1, <2>3, Zenon
<1>6. Before(Len(s)) = Range(s)
  BY <1>2, Zenon DEF Range
<1> QED
  BY <1>1, <1>5, <1>6, Zenon

LEMMA WithoutFacts ==
    ASSUME WellOrder, NEW s \in Seq(Cells), NEW c
    PROVE  /\ Without(s, c) \in Seq(Cells)
           /\ Range(Without(s, c)) = Range(s) \ {c}
           /\ Injective(s) => Injective(Without(s, c))
<1>1. Range(s) \subseteq Cells
  BY DEF Range
<1> QED
  BY <1>1, OnlyFacts DEF Without

\* list::push_front.
LEMMA ConsSet ==
    ASSUME NEW X, NEW s \in Seq(X), NEW e \in X
    PROVE  /\ <<e>> \o s \in Seq(X)
           /\ Range(<<e>> \o s) = Range(s) \cup {e}
           /\ Injective(s) /\ e \notin Range(s) => Injective(<<e>> \o s)
<1>1. PICK q : q = <<e>> \o s
  BY Zenon
<1>2. /\ q \in Seq(X) /\ DOMAIN q = 1..(Len(s) + 1) /\ Len(s) \in Nat /\ DOMAIN s = 1..Len(s)
      /\ q[1] = e
  BY <1>1
<1>3. \A i \in DOMAIN s : i + 1 \in DOMAIN q /\ q[i + 1] = s[i]
  BY <1>1
<1>4. \A i \in DOMAIN q : i \in Nat /\ (i = 1 \/ (i - 1 \in DOMAIN s /\ q[i] = s[i - 1]))
  BY <1>1
<1>5. Range(q) = Range(s) \cup {e}
  <2>1. ASSUME NEW x \in Range(q) PROVE x \in Range(s) \cup {e}
    <3>1. PICK i \in DOMAIN q : x = q[i]
      BY Zenon DEF Range
    <3> QED
      BY <1>2, <1>4, <3>1, Zenon DEF Range
  <2>2. ASSUME NEW x \in Range(s) PROVE x \in Range(q)
    <3>1. PICK i \in DOMAIN s : x = s[i]
      BY Zenon DEF Range
    <3> QED
      BY <1>3, <3>1, Zenon DEF Range
  <2>3. e \in Range(q)
    <3>1. 1 \in DOMAIN q
      BY <1>2
    <3> QED
      BY <1>2, <3>1, Zenon DEF Range
  <2> QED
    BY <2>1, <2>2, <2>3, Zenon
<1>6. ASSUME Injective(s), e \notin Range(s) PROVE Injective(q)
  <2>1. \A k \in DOMAIN s : s[k] /= e
    BY <1>6, Zenon DEF Range
  <2> QED
    BY <1>2, <1>4, <1>6, <2>1 DEF Injective
<1> QED
  BY <1>1, <1>2, <1>5, <1>6, Zenon

\* list::merge, at the end.
LEMMA ConcatSet ==
    ASSUME NEW X, NEW s \in Seq(X), NEW r \in Seq(X)
    PROVE  /\ s \o r \in Seq(X)
           /\ Range(s \o r) = Range(s) \cup Range(r)
           /\ Injective(s) /\ Injective(r) /\ Range(s) \cap Range(r) = {} => Injective(s \o r)
<1>1. PICK q : q = s \o r
  BY Zenon
<1>2. /\ q \in Seq(X) /\ DOMAIN q = 1..(Len(s) + Len(r))
      /\ Len(s) \in Nat /\ DOMAIN s = 1..Len(s) /\ Len(r) \in Nat /\ DOMAIN r = 1..Len(r)
  BY <1>1
<1>3. \A i \in DOMAIN s : i \in DOMAIN q /\ q[i] = s[i]
  BY <1>1
<1>4. \A i \in DOMAIN r : i + Len(s) \in DOMAIN q /\ q[i + Len(s)] = r[i]
  BY <1>1
<1>5. \A i \in DOMAIN q : \/ i \in DOMAIN s
                          \/ i \notin DOMAIN s /\ i - Len(s) \in DOMAIN r /\ (i - Len(s)) + Len(s) = i
  BY <1>2
<1>6. Range(q) = Range(s) \cup Range(r)
  <2>1. ASSUME NEW x \in Range(q) PROVE x \in Range(s) \cup Range(r)
    <3>1. PICK i \in DOMAIN q : x = q[i]
      BY Zenon DEF Range
    <3>2. CASE i \in DOMAIN s
      BY <1>3, <3>1, <3>2, Zenon DEF Range
    <3>3. CASE i - Len(s) \in DOMAIN r /\ (i - Len(s)) + Len(s) = i
      <4>1. q[i] = r[i - Len(s)]
        BY <1>4, <3>3, Zenon
      <4> QED
        BY <3>1, <3>3, <4>1, Zenon DEF Range
    <3> QED
      BY <1>5, <3>2, <3>3, Zenon
  <2>2. ASSUME NEW x \in Range(s) PROVE x \in Range(q)
    BY <1>3, Zenon DEF Range
  <2>3. ASSUME NEW x \in Range(r) PROVE x \in Range(q)
    BY <1>4, Zenon DEF Range
  <2> QED
    BY <2>1, <2>2, <2>3, Zenon
<1>7. ASSUME Injective(s), Injective(r), Range(s) \cap Range(r) = {},
             NEW i \in DOMAIN q, NEW j \in DOMAIN q, q[i] = q[j]
      PROVE  i = j
  <2>1. \A k \in DOMAIN s, l \in DOMAIN r : s[k] /= r[l]
    BY <1>7, Zenon DEF Range
  <2>2. i \in Nat /\ j \in Nat
    BY <1>2
  <2>3. CASE i \in DOMAIN s /\ j \in DOMAIN s
    BY <1>3, <1>7, <2>3, Zenon DEF Injective
  <2>4. CASE i \notin DOMAIN s /\ j \notin DOMAIN s
    <3>1. /\ i - Len(s) \in DOMAIN r /\ r[i - Len(s)] = q[i]
          /\ j - Len(s) \in DOMAIN r /\ r[j - Len(s)] = q[j]
      BY <1>4, <1>5, <2>4, Zenon
    <3>2. i - Len(s) = j - Len(s)
      BY <1>7, <3>1, Zenon DEF Injective
    <3> QED
      BY <1>2, <2>2, <3>2
  <2>5. CASE i \in DOMAIN s /\ j \notin DOMAIN s
    <3>1. q[i] = s[i] /\ j - Len(s) \in DOMAIN r /\ r[j - Len(s)] = q[j]
      BY <1>3, <1>4, <1>5, <2>5, Zenon
    <3> QED
      BY <1>7, <2>1, <2>5, <3>1, Zenon
  <2>6. CASE i \notin DOMAIN s /\ j \in DOMAIN s
    <3>1. q[j] = s[j] /\ i - Len(s) \in DOMAIN r /\ r[i - Len(s)] = q[i]
      BY <1>3, <1>4, <1>5, <2>6, Zenon
    <3> QED
      BY <1>7, <2>1, <2>6, <3>1, Zenon
  <2> QED
    BY <2>3, <2>4, <2>5, <2>6, Zenon
<1> QED
  BY <1>1, <1>2, <1>6, <1>7, Zenon DEF Injective

\* The cells that destroy erases and that the cache has room for.
LEMMA PrefixSet ==
    ASSUME NEW X, NEW s \in Seq(X), NEW n \in Nat, n <= Len(s)
    PROVE  /\ SubSeq(s, 1, n) \in Seq(X)
           /\ Range(SubSeq(s, 1, n)) \subseteq Range(s)
           /\ Injective(s) => Injective(SubSeq(s, 1, n))
<1>1. PICK q : q = SubSeq(s, 1, n)
  BY Zenon
<1>2. q \in Seq(X)
  BY <1>1
<1>3. \A i \in DOMAIN q : i \in DOMAIN s /\ q[i] = s[i]
  BY <1>1
<1> QED
  BY <1>1, <1>2, <1>3, Zenon DEF Range, Injective

\* list::alloc_node with a cell in the cache.
LEMMA LastFacts ==
    ASSUME NEW X, NEW s \in Seq(X), s /= <<>>
    PROVE  /\ s[Len(s)] \in Range(s) /\ s[Len(s)] \in X
           /\ SubSeq(s, 1, Len(s) - 1) \in Seq(X)
           /\ Range(SubSeq(s, 1, Len(s) - 1)) \subseteq Range(s)
           /\ Injective(s) => /\ Injective(SubSeq(s, 1, Len(s) - 1))
                              /\ s[Len(s)] \notin Range(SubSeq(s, 1, Len(s) - 1))
<1>1. Len(s) \in Nat /\ Len(s) >= 1 /\ DOMAIN s = 1..Len(s) 
  OBVIOUS
<1>2. Len(s) \in DOMAIN s
  BY <1>1
<1>3. PICK q : q = SubSeq(s, 1, Len(s) - 1)
  BY Zenon
<1>4. q = SubSeq(s, 1, Len(s) - 1)
  BY <1>3, Zenon
<1>5. q \in Seq(X) /\ \A i \in DOMAIN q : i \in DOMAIN s /\ q[i] = s[i] /\ i /= Len(s)
  BY <1>1, <1>4
<1>6. s[Len(s)] \in Range(s) /\ s[Len(s)] \in X
  BY <1>1, <1>2 DEF Range
<1>7. Range(q) \subseteq Range(s)
  BY <1>5, Zenon DEF Range
<1>8. ASSUME Injective(s) PROVE Injective(q) /\ s[Len(s)] \notin Range(q)
  BY <1>1, <1>2, <1>5, <1>8, Zenon DEF Injective, Range
<1> QED
  BY <1>3, <1>5, <1>6, <1>7, <1>8, Zenon

-----------------------------------------------------------------------------
(* The invariant *)

InBuffer == Range(buffer_list)
InFlush == Range(flush_list)
InLocal(t) == Range(local[t])
Cached == Range(buffer_cache) \cup Range(flush_cache)

\* Cells whose shared_ptr is found by a search of a list.
Live == InBuffer \cup InFlush \cup UNION {InLocal(t) : t \in Tasks}

TypeOK ==
    /\ buffer_list \in Seq(Cells) /\ flush_list \in Seq(Cells)
    /\ buffer_cache \in Seq(Cells) /\ flush_cache \in Seq(Cells)
    /\ local \in [Tasks -> Seq(Cells)]
    /\ cell \in [Cells -> Nodes \cup {None}]
    /\ DOMAIN block = Nodes
    /\ DOMAIN pc = Tasks /\ DOMAIN at = Tasks /\ DOMAIN ptr = Tasks
    /\ Len(buffer_cache) <= CacheSize

\* A cell is in one list, in one place, or in one cache.
CellsApart ==
    /\ Injective(buffer_list) /\ Injective(buffer_cache) /\ Injective(flush_cache)
    /\ \A t \in Tasks : Injective(local[t])
    /\ InBuffer \cap InFlush = {}
    /\ Range(buffer_cache) \cap Range(flush_cache) = {}
    /\ Live \cap Cached = {}
    /\ \A t \in Tasks : InLocal(t) \cap (InBuffer \cup InFlush) = {}
    /\ \A t, u \in Tasks : t /= u => InLocal(t) \cap InLocal(u) = {}

\* A node is in one of the lists, once.
NodesApart ==
    /\ \A c \in Live : cell[c] \in Nodes
    /\ \A c, d \in Live : cell[c] = cell[d] => c = d

\* No two buffers of the cache stand for one block.
BlocksApart ==
    \A c, d \in InBuffer : block[cell[c]] = block[cell[d]] /\ block[cell[c]] /= None => c = d

\* A task that flushes its victim finds it where it left it.
Flushing(t) == pc[t] \in {"flush", "relock"}

InvFlush ==
    /\ \A t \in Tasks : Flushing(t) => at[t] \in InFlush /\ cell[at[t]] = ptr[t]
    /\ \A t, u \in Tasks : Flushing(t) /\ Flushing(u) /\ at[t] = at[u] => t = u

\* The nodes that destroy has been through stand for no block.
InvLocal ==
    \A t \in Tasks : pc[t] = "d_flush" =>
        /\ at[t] \in Nat \ {0}
        /\ \A i \in DOMAIN local[t] : i < at[t] => block[cell[local[t][i]]] = None

IInv == TypeOK /\ CellsApart /\ NodesApart /\ BlocksApart /\ InvFlush /\ InvLocal

-----------------------------------------------------------------------------
(* Searches and list cells *)

\* The first match and the last detachable cell exist.
LEMMA Extremes ==
    ASSUME WellOrder, NEW n \in Nat, NEW S, S \subseteq 1..n, S /= {}
    PROVE  First(S) \in S /\ Final(S) \in S
<1>0. S \subseteq Nat /\ \A i \in S : i \in Nat /\ n - i \in Nat
  OBVIOUS
<1>1. \E m \in S : \A k \in S : m <= k
  BY <1>0, Zenon DEF WellOrder
<1>2. \E m \in S : \A k \in S : k <= m
  <2>1. {n - i : i \in S} \subseteq Nat /\ {n - i : i \in S} /= {}
    BY <1>0, Zenon
  <2>2. PICK d \in {n - i : i \in S} : \A k \in {n - i : i \in S} : d <= k
    BY <2>1, Zenon DEF WellOrder
  <2>3. PICK m \in S : d = n - m
    BY <2>2, Zenon
  <2>4. \A k \in S : n - m <= n - k
    BY <2>2, <2>3, Zenon
  <2>5. ASSUME NEW k \in S PROVE k <= m
    BY <1>0, <2>4
  <2> QED
    BY <2>5, Zenon
<1> QED
  BY <1>1, <1>2, Zenon DEF First, Final

LEMMA UnusedFacts ==
    ASSUME WellOrder, TypeOK, Unused /= None
    PROVE  Unused \in InBuffer
<1>1. buffer_list \in Seq(Cells) /\ DOMAIN buffer_list = 1..Len(buffer_list) /\ Len(buffer_list) \in Nat
  BY DEF TypeOK
<1>2. /\ Detachable(buffer_list) /= {}
      /\ Unused = buffer_list[Final(Detachable(buffer_list))]
  BY Zenon DEF Unused
<1>3. Detachable(buffer_list) \subseteq 1..Len(buffer_list)
  BY <1>1, Zenon DEF Detachable
<1>4. Final(Detachable(buffer_list)) \in Detachable(buffer_list)
  BY <1>1, <1>2, <1>3, Extremes, Zenon
<1> QED
  BY <1>1, <1>2, <1>3, <1>4, Zenon DEF InBuffer, Range

\* make_shared: a node without a reference is in no cell.
LEMMA FreeNodeFacts ==
    ASSUME NEW n \in FreeNodes
    PROVE  n \in Nodes /\ \A c \in Cells : cell[c] /= n
  BY Zenon DEF FreeNodes

\* list::alloc_node: the cell comes from the cache, or is in no list and no cache.
LEMMA AllocFacts ==
    ASSUME WellOrder, NEW cache \in Seq(Cells), CanAlloc(cache), Injective(cache)
    PROVE  /\ AllocCell(cache) \in Cells
           /\ AllocCell(cache) \in Range(cache) \/ AllocCell(cache) \notin InUseCells
           /\ AfterAlloc(cache) \in Seq(Cells)
           /\ Range(AfterAlloc(cache)) \subseteq Range(cache)
           /\ AllocCell(cache) \notin Range(AfterAlloc(cache))
           /\ Injective(AfterAlloc(cache))
           /\ Len(AfterAlloc(cache)) <= Len(cache)
<1>1. CASE cache /= <<>>
  <2>1. AllocCell(cache) = cache[Len(cache)] /\ AfterAlloc(cache) = SubSeq(cache, 1, Len(cache) - 1)
    BY <1>1, Zenon DEF AllocCell, AfterAlloc
  <2>2. Len(SubSeq(cache, 1, Len(cache) - 1)) <= Len(cache)
    BY <1>1
  <2> QED
    BY <1>1, <2>1, <2>2, LastFacts
<1>2. CASE cache = <<>>
  <2>1. AfterAlloc(cache) = <<>>
    BY <1>2, Zenon DEF AfterAlloc
  <2>2. /\ AfterAlloc(cache) \in Seq(Cells) /\ Range(AfterAlloc(cache)) = {}
        /\ Injective(AfterAlloc(cache)) /\ Len(AfterAlloc(cache)) <= Len(cache)
    <3>1. PICK e : e = <<>>
      BY Zenon
    <3>2. e \in Seq(Cells) /\ DOMAIN e = {} /\ Len(e) = 0
      BY <3>1
    <3>3. Range(e) = {} /\ Injective(e)
      BY <3>2, Zenon DEF Range, Injective
    <3>4. AfterAlloc(cache) = e /\ cache = e /\ 0 <= 0
      BY <1>2, <2>1, <3>1
    <3> QED
      BY <3>2, <3>3, <3>4, Zenon
  <2>3. Cells \ InUseCells /= {} /\ Cells \ InUseCells \subseteq Nat
    BY <1>2, CellsAssumption, Zenon DEF CanAlloc
  <2>4. \E m \in Cells \ InUseCells : \A k \in Cells \ InUseCells : m <= k
    BY <2>3, Zenon DEF WellOrder
  <2>5. AllocCell(cache) \in Cells \ InUseCells
    BY <1>2, <2>4, Zenon DEF AllocCell
  <2> QED
    BY <2>2, <2>5, Zenon
<1> QED
  BY <1>1, <1>2, Zenon

\* list::free_node.
LEMMA FreeFacts ==
    ASSUME TypeOK, NEW cache \in Seq(Cells), NEW c \in Cells, Injective(cache), c \notin Range(cache)
    PROVE  /\ AfterFree(cache, c) \in Seq(Cells)
           /\ Range(AfterFree(cache, c)) \subseteq Range(cache) \cup {c}
           /\ Injective(AfterFree(cache, c))
           /\ Len(cache) <= CacheSize => Len(AfterFree(cache, c)) <= CacheSize
           /\ CellsAfterFree(cache, c) \in [Cells -> Nodes \cup {None}]
           /\ \A d \in Cells : d /= c => CellsAfterFree(cache, c)[d] = cell[d]
<1>1. CASE Len(cache) < CacheSize
  <2>1. AfterFree(cache, c) = Append(cache, c) /\ CellsAfterFree(cache, c) = cell
    BY <1>1, Zenon DEF AfterFree, CellsAfterFree
  <2>2. Len(Append(cache, c)) <= CacheSize
    BY <1>1, CellsAssumption
  <2> QED
    BY <2>1, <2>2, AppendSet DEF TypeOK
<1>2. CASE ~(Len(cache) < CacheSize)
  <2>1. AfterFree(cache, c) = cache /\ CellsAfterFree(cache, c) = [cell EXCEPT ![c] = None]
    BY <1>2, Zenon DEF AfterFree, CellsAfterFree
  <2> QED
    BY <2>1, Zenon DEF TypeOK
<1> QED
  BY <1>1, <1>2, Zenon

\* Cells in use, by where they are.
LEMMA InUseFacts ==
    /\ Live \subseteq InUseCells /\ Cached \subseteq InUseCells
    /\ \A t \in Tasks : InLocal(t) \subseteq Live
  BY Zenon DEF Live, Cached, InUseCells, InBuffer, InFlush, InLocal

LEMMA LiveCells ==
    ASSUME TypeOK
    PROVE  Live \subseteq Cells /\ Cached \subseteq Cells
<1>1. \A q \in Seq(Cells) : Range(q) \subseteq Cells
  BY DEF Range
<1> QED
  BY <1>1, Zenon DEF TypeOK, Live, Cached, InBuffer, InFlush, InLocal

-----------------------------------------------------------------------------
(* Steps *)

\* A step in which no list changes and no task begins to flush.
LEMMA FrameKeeps ==
    ASSUME IInv, UNCHANGED <<listVars, block, local>>,
           DOMAIN pc' = Tasks, DOMAIN at' = Tasks, DOMAIN ptr' = Tasks,
           \A u \in Tasks : Flushing(u)' => Flushing(u) /\ at'[u] = at[u] /\ ptr'[u] = ptr[u],
           \A u \in Tasks : pc'[u] = "d_flush" => pc[u] = "d_flush" /\ at'[u] = at[u]
    PROVE  IInv'
<1>1. TypeOK'
  BY Zenon DEF IInv, TypeOK, listVars
<1>2. InBuffer' = InBuffer /\ InFlush' = InFlush /\ Cached' = Cached /\ Live' = Live
  BY Zenon DEF InBuffer, InFlush, Cached, Live, InLocal, listVars
<1>3. CellsApart'
  BY <1>2, Zenon DEF IInv, CellsApart, InLocal, listVars
<1>4. NodesApart'
  BY <1>2, Zenon DEF IInv, NodesApart, listVars
<1>5. BlocksApart'
  BY <1>2, Zenon DEF IInv, BlocksApart, listVars
<1>6. InvFlush'
  BY <1>2, Zenon DEF IInv, InvFlush, listVars
<1>7. InvLocal'
  BY DEF IInv, InvLocal, listVars
<1> QED
  BY <1>1, <1>3, <1>4, <1>5, <1>6, <1>7, Zenon DEF IInv

\* A node n gets a new cell a, in buffer_list or in flush_list; c, if it was a
\* cell of one of them, is freed.  The cells stay apart, and so do the nodes.
LEMMA MoveApart ==
    ASSUME IInv, NEW a, NEW c, NEW n \in Nodes, UNCHANGED local,
           Injective(buffer_list'), Injective(buffer_cache'), Injective(flush_cache'),
           InBuffer' \subseteq (InBuffer \ {c}) \cup {a},
           InFlush' \subseteq (InFlush \ {c}) \cup {a},
           InBuffer' \cap InFlush' = {},
           \A t \in Tasks : c \notin InLocal(t),
           a \notin Live \ {c}, a \notin Cached',
           Cached' \subseteq Cached \cup {c},
           Range(buffer_cache') \cap Range(flush_cache') = {},
           cell'[a] = n, \A d \in Live \ {c} : cell'[d] = cell[d] /\ cell[d] /= n
    PROVE  CellsApart' /\ NodesApart'
<1>1. \A t \in Tasks : InLocal(t)' = InLocal(t) /\ InLocal(t) \subseteq Live \ {c}
  BY InUseFacts, Zenon DEF InLocal
<1>2. InBuffer \subseteq Live /\ InFlush \subseteq Live
  BY Zenon DEF Live
<1>3. Live' \subseteq (Live \ {c}) \cup {a}
  <2>1. Live' = InBuffer' \cup InFlush' \cup UNION {InLocal(t) : t \in Tasks}
    BY <1>1 DEF Live
  <2> QED
    BY <1>1, <1>2, <2>1, Zenon
<1>4. Live \cap Cached = {}
  BY Zenon DEF IInv, CellsApart
<1>5. Live' \cap Cached' = {}
  BY <1>3, <1>4, Zenon
<1>6. ASSUME NEW t \in Tasks PROVE InLocal(t)' \cap (InBuffer' \cup InFlush') = {}
  <2>1. InLocal(t) \cap (InBuffer \cup InFlush) = {}
    BY Zenon DEF IInv, CellsApart
  <2> QED
    BY <1>1, <2>1, Zenon
<1>7. CellsApart'
  <2>1. /\ \A t \in Tasks : Injective(local[t])'
        /\ \A t, u \in Tasks : t /= u => InLocal(t)' \cap InLocal(u)' = {}
    BY <1>1, Zenon DEF IInv, CellsApart
  <2> QED
    BY <1>5, <1>6, <2>1, Zenon DEF CellsApart
<1>8. NodesApart'
  <2>1. /\ \A x \in Live : cell[x] \in Nodes
        /\ \A x, y \in Live : cell[x] = cell[y] => x = y
    BY Zenon DEF IInv, NodesApart
  <2>2. \A x \in Live' : cell'[x] \in Nodes
    BY <1>3, <2>1, Zenon
  <2>3. \A x, y \in Live' : cell'[x] = cell'[y] => x = y
    BY <1>3, <2>1, Zenon
  <2> QED
    BY <2>2, <2>3, Zenon DEF NodesApart
<1> QED
  BY <1>7, <1>8, Zenon

\* The node that moves gets block b, which is none or not in the cache yet.
Assigned(n, b) ==
    /\ block' = [block EXCEPT ![n] = b]
    /\ b = None \/ \A d \in InBuffer : block[cell[d]] /= b

LEMMA MoveBlocks ==
    ASSUME IInv, NEW a, NEW c, NEW n \in Nodes, NEW b, UNCHANGED local,
           InBuffer' \subseteq (InBuffer \ {c}) \cup {a},
           \A t \in Tasks : c \notin InLocal(t),
           cell'[a] = n, \A d \in Live \ {c} : cell'[d] = cell[d] /\ cell[d] /= n,
           Assigned(n, b),
           \A u \in Tasks : pc'[u] = "d_flush" => pc[u] = "d_flush" /\ at'[u] = at[u]
    PROVE  BlocksApart' /\ InvLocal'
<1>1. /\ block'[n] = b /\ \A m \in Nodes : m /= n => block'[m] = block[m]
      /\ b = None \/ \A d \in InBuffer : block[cell[d]] /= b
  BY Zenon DEF IInv, TypeOK, Assigned
<1>2. InBuffer \subseteq Live /\ \A t \in Tasks : InLocal(t) \subseteq Live \ {c}
  BY InUseFacts, Zenon DEF Live
<1>3. \A d \in Live \ {c} : block'[cell'[d]] = block[cell[d]]
  BY <1>1, Zenon DEF IInv, NodesApart
<1>4. BlocksApart'
  <2>1. \A x \in InBuffer' : x = a \/ (x \in InBuffer /\ block'[cell'[x]] = block[cell[x]])
    BY <1>2, <1>3, Zenon
  <2>2. block'[cell'[a]] = b
    BY <1>1, Zenon
  <2>3. \A x, y \in InBuffer : block[cell[x]] = block[cell[y]] /\ block[cell[x]] /= None => x = y
    BY Zenon DEF IInv, BlocksApart
  <2> QED
    BY <1>1, <2>1, <2>2, <2>3 DEF BlocksApart
<1>5. InvLocal'
  <2> SUFFICES ASSUME NEW t \in Tasks, pc'[t] = "d_flush"
               PROVE  /\ at'[t] \in Nat \ {0}
                      /\ \A i \in DOMAIN local[t] : i < at'[t] => block'[cell'[local[t][i]]] = None
    BY DEF InvLocal
  <2>1. /\ at'[t] = at[t] /\ at[t] \in Nat \ {0}
        /\ \A i \in DOMAIN local[t] : i < at[t] => block[cell[local[t][i]]] = None
    BY Zenon DEF IInv, InvLocal
  <2>2. \A i \in DOMAIN local[t] : local[t][i] \in InLocal(t)
    BY Zenon DEF InLocal, Range
  <2> QED
    BY <1>2, <1>3, <2>1, <2>2, Zenon
<1> QED
  BY <1>4, <1>5, Zenon

\* The arguments of a push, of which c may have been freed.
Pushable(list, cells, cache, c) ==
    /\ c \in InBuffer \cup InFlush \/ c \notin Cells
    /\ list \in Seq(Cells) /\ Injective(list) /\ Range(list) \subseteq InBuffer \ {c}
    /\ cache \in Seq(Cells) /\ Injective(cache) /\ Len(cache) <= CacheSize
    /\ Range(cache) \subseteq Range(buffer_cache) \cup {c}
    /\ cells \in [Cells -> Nodes \cup {None}]
    /\ \A d \in Cells : d /= c => cells[d] = cell[d]

\* c leaves the flush list, if it was there, and may join its cache.
FlushListStep(cache, c) ==
    /\ flush_list' \in Seq(Cells) /\ InFlush' = InFlush \ {c}
    /\ flush_cache' \in Seq(Cells) /\ Injective(flush_cache')
    /\ Range(flush_cache') \subseteq Range(flush_cache) \cup {c}
    /\ Range(cache) \cap Range(flush_cache') = {}
    /\ local' = local

\* No task begins to flush, and those that go on do not refer to c.
TasksStep(c) ==
    /\ DOMAIN pc' = Tasks /\ DOMAIN at' = Tasks /\ DOMAIN ptr' = Tasks
    /\ \A u \in Tasks : Flushing(u)' =>
           Flushing(u) /\ at'[u] = at[u] /\ ptr'[u] = ptr[u] /\ at[u] /= c
    /\ \A u \in Tasks : pc'[u] = "d_flush" => pc[u] = "d_flush" /\ at'[u] = at[u]

\* n is a node that no cell of a list holds, once c is freed.
Single(n, c) == n \in Nodes /\ \A d \in Live \ {c} : cell[d] /= n

\* buffer_list.push_front and push_back of a node.
LEMMA PushKeeps ==
    ASSUME WellOrder, IInv, NEW list, NEW cells, NEW cache, NEW c, NEW n, NEW b,
           PushFront(n, list, cells, cache) \/ PushBack(n, list, cells, cache),
           Pushable(list, cells, cache, c), FlushListStep(cache, c), TasksStep(c),
           Single(n, c), Assigned(n, b)
    PROVE  IInv'
<1>1. PICK a : a = AllocCell(cache)
  BY Zenon
<1>2. /\ CanAlloc(cache) /\ buffer_cache' = AfterAlloc(cache)
      /\ cell' = [cells EXCEPT ![a] = n]
      /\ buffer_list' = <<a>> \o list \/ buffer_list' = Append(list, a)
  BY <1>1, Zenon DEF PushFront, PushBack
<1>3. /\ a \in Cells /\ (a \in Range(cache) \/ a \notin InUseCells)
      /\ buffer_cache' \in Seq(Cells) /\ Injective(buffer_cache')
      /\ Range(buffer_cache') \subseteq Range(cache) /\ a \notin Range(buffer_cache')
      /\ Len(buffer_cache') <= Len(cache)
  BY <1>1, <1>2, AllocFacts, Zenon DEF Pushable
<1>4. Live \subseteq Cells /\ Live \cap Cached = {} /\ Cached \subseteq Cells
  BY LiveCells, Zenon DEF IInv, CellsApart
<1>5. /\ InBuffer \subseteq Live /\ InFlush \subseteq Live
      /\ Range(buffer_cache) \subseteq Cached /\ Range(flush_cache) \subseteq Cached
      /\ Live \subseteq InUseCells /\ Cached \subseteq InUseCells
  BY InUseFacts, Zenon DEF Live, Cached
<1>6. a \notin Live \ {c}
  BY <1>3, <1>4, <1>5, Zenon DEF Pushable
<1>7. a \notin Range(list) /\ a \notin InFlush'
  BY <1>5, <1>6, Zenon DEF Pushable, FlushListStep
<1>8. /\ buffer_list' \in Seq(Cells) /\ InBuffer' = Range(list) \cup {a} /\ Injective(buffer_list')
  <2>1. CASE buffer_list' = <<a>> \o list
    BY <1>3, <1>7, <2>1, ConsSet DEF InBuffer, Pushable
  <2>2. CASE buffer_list' = Append(list, a)
    BY <1>3, <1>7, <2>2, AppendSet DEF InBuffer, Pushable
  <2> QED
    BY <1>2, <2>1, <2>2, Zenon
<1>9. a \notin Range(flush_cache')
  BY <1>3, <1>5, Zenon DEF Pushable, FlushListStep
<1>10. Cached' = Range(buffer_cache') \cup Range(flush_cache')
  BY Zenon DEF Cached
<1>11. /\ cell' \in [Cells -> Nodes \cup {None}] /\ cell'[a] = n
       /\ \A d \in Live \ {c} : cell'[d] = cell[d]
  BY <1>2, <1>3, <1>4, <1>6, Zenon DEF Pushable, Single
<1>12. \A t \in Tasks : c \notin InLocal(t)
  <2>1. \A t \in Tasks : InLocal(t) \subseteq Live /\ InLocal(t) \cap (InBuffer \cup InFlush) = {}
    BY InUseFacts, Zenon DEF IInv, CellsApart
  <2> QED
    BY <1>4, <2>1, Zenon DEF Pushable
<1>13. CellsApart' /\ NodesApart'
  <2>1. InBuffer' \cap InFlush' = {}
    <3>1. InBuffer \cap InFlush = {}
      BY Zenon DEF IInv, CellsApart
    <3> QED
      BY <1>7, <1>8, <3>1, Zenon DEF Pushable, FlushListStep
  <2>2. /\ InBuffer' \subseteq (InBuffer \ {c}) \cup {a} /\ InFlush' \subseteq (InFlush \ {c}) \cup {a}
        /\ a \notin Cached'
    BY <1>3, <1>8, <1>9, <1>10, Zenon DEF Pushable, FlushListStep
  <2>3. /\ Cached' \subseteq Cached \cup {c}
        /\ Range(buffer_cache') \cap Range(flush_cache') = {}
    BY <1>3, <1>5, <1>10, Zenon DEF Pushable, FlushListStep
  <2> QED
    BY <1>3, <1>6, <1>8, <1>11, <1>12, <2>1, <2>2, <2>3, MoveApart, ZenonT(60)
       DEF Pushable, FlushListStep, Single
<1>14. BlocksApart' /\ InvLocal'
  <2>1. InBuffer' \subseteq (InBuffer \ {c}) \cup {a}
    BY <1>8, Zenon DEF Pushable, FlushListStep
  <2>2. cell'[a] = n /\ \A d \in Live \ {c} : cell'[d] = cell[d] /\ cell[d] /= n
    BY <1>11, Zenon DEF Single
  <2>3. \A u \in Tasks : pc'[u] = "d_flush" => pc[u] = "d_flush" /\ at'[u] = at[u]
    BY Zenon DEF TasksStep
  <2>4. n \in Nodes /\ local' = local
    BY Zenon DEF FlushListStep, Single
  <2> QED
    BY <1>12, <2>1, <2>2, <2>3, <2>4, MoveBlocks, Zenon
<1>15. TypeOK'
  <2>1. Len(buffer_cache') <= CacheSize
    <3>1. Len(cache) \in Nat /\ Len(cache) <= CacheSize /\ Len(buffer_cache') \in Nat
      BY <1>3 DEF Pushable
    <3> QED
      BY <1>3, <3>1, CellsAssumption
  <2>2. DOMAIN block' = Nodes /\ local' \in [Tasks -> Seq(Cells)]
    BY Zenon DEF IInv, TypeOK, Assigned, FlushListStep
  <2> QED
    BY <1>3, <1>8, <1>11, <2>1, <2>2, Zenon DEF TypeOK, TasksStep, FlushListStep
<1>16. InvFlush'
  <2>1. /\ \A t \in Tasks : Flushing(t) => at[t] \in InFlush /\ cell[at[t]] = ptr[t]
        /\ \A t, u \in Tasks : Flushing(t) /\ Flushing(u) /\ at[t] = at[u] => t = u
    BY Zenon DEF IInv, InvFlush
  <2>2. ASSUME NEW t \in Tasks, Flushing(t)' PROVE at'[t] \in InFlush' /\ cell'[at'[t]] = ptr'[t]
    BY <1>5, <1>11, <2>1, <2>2 DEF TasksStep, FlushListStep, Single
  <2>3. ASSUME NEW t \in Tasks, NEW u \in Tasks, Flushing(t)', Flushing(u)', at'[t] = at'[u]
        PROVE  t = u
    BY <2>1, <2>3, Zenon DEF TasksStep
  <2> QED
    BY <2>2, <2>3, Zenon DEF InvFlush
<1> QED
  BY <1>13, <1>14, <1>15, <1>16, Zenon DEF IInv

\* What the lists and caches are before a step, taken from the invariant.
LEMMA ListTypes ==
    ASSUME IInv
    PROVE  /\ buffer_list \in Seq(Cells) /\ flush_list \in Seq(Cells)
           /\ buffer_cache \in Seq(Cells) /\ flush_cache \in Seq(Cells)
           /\ cell \in [Cells -> Nodes \cup {None}]
  BY Zenon DEF IInv, TypeOK

LEMMA CachesApart ==
    ASSUME IInv
    PROVE  /\ Injective(buffer_list) /\ Injective(buffer_cache) /\ Injective(flush_cache)
           /\ Range(buffer_cache) \cap Range(flush_cache) = {}
           /\ Len(buffer_cache) <= CacheSize
  BY Zenon DEF IInv, TypeOK, CellsApart

LEMMA LiveFacts ==
    ASSUME IInv
    PROVE  /\ InBuffer \subseteq Live /\ InFlush \subseteq Live /\ Live \subseteq Cells
           /\ InBuffer \cap InFlush = {}
           /\ \A c \in Live : c \notin Range(buffer_cache) /\ c \notin Range(flush_cache)
<1>1. Live \subseteq Cells
  BY LiveCells, Zenon DEF IInv
<1>2. \A c \in Live : c \notin Range(buffer_cache) /\ c \notin Range(flush_cache)
  BY Zenon DEF IInv, CellsApart, Cached
<1>3. InBuffer \subseteq Live /\ InFlush \subseteq Live
  BY Zenon DEF Live
<1> QED
  BY <1>1, <1>2, <1>3, Zenon DEF IInv, CellsApart

LEMMA LiveNodes ==
    ASSUME IInv
    PROVE  /\ \A c \in Live : cell[c] \in Nodes
           /\ \A c \in Live : \A d \in Live \ {c} : cell[d] /= cell[c]
  BY Zenon DEF IInv, NodesApart

\* A search that finds nothing.
LEMMA NoMatch ==
    ASSUME NEW b, Matches(buffer_list, b) = {}
    PROVE  \A d \in InBuffer : block[cell[d]] /= b
  BY Zenon DEF Matches, InBuffer, Range

\* Becoming a state other than those of a flush.
LEMMA BecomeFacts ==
    ASSUME IInv, NEW t \in Tasks, NEW state, state \notin {"flush", "relock", "d_flush"},
           Become(t, state)
    PROVE  /\ DOMAIN pc' = Tasks
           /\ \A u \in Tasks : Flushing(u)' => Flushing(u) /\ u /= t
           /\ \A u \in Tasks : pc'[u] = "d_flush" => pc[u] = "d_flush" /\ u /= t
  BY Zenon DEF IInv, TypeOK, Become, Flushing

LEMMA GetNewKeeps ==
    ASSUME WellOrder, IInv, NEW t \in Tasks, GetNew(t)
    PROVE  IInv'
<1>1. PICK n \in FreeNodes :
          /\ block' = [block EXCEPT ![n] = want[t]]
          /\ PushFront(n, buffer_list, cell, buffer_cache)
          /\ ptr' = [ptr EXCEPT ![t] = n]
  BY Zenon DEF GetNew
<1>2. /\ Become(t, "got") /\ Matches(buffer_list, want[t]) = {}
      /\ UNCHANGED <<flush_list, flush_cache, at, local>>
  BY Zenon DEF GetNew, Missing
<1>3. n \in Nodes /\ \A d \in Cells : cell[d] /= n
  BY <1>1, FreeNodeFacts, Zenon
<1>4. /\ DOMAIN pc' = Tasks
      /\ \A u \in Tasks : Flushing(u)' => Flushing(u) /\ u /= t
      /\ \A u \in Tasks : pc'[u] = "d_flush" => pc[u] = "d_flush"
  BY <1>2, BecomeFacts, Zenon
<1>5. /\ DOMAIN at' = Tasks /\ DOMAIN ptr' = Tasks /\ at' = at
      /\ \A u \in Tasks : u /= t => ptr'[u] = ptr[u]
  BY <1>1, <1>2, Zenon DEF IInv, TypeOK
<1>6. InFlush' = InFlush /\ flush_cache' = flush_cache /\ flush_list' = flush_list
  BY <1>2, Zenon DEF InFlush
<1>7. InFlush \subseteq Cells /\ InBuffer \subseteq Cells
  BY LiveFacts, Zenon
<1>8. \A u \in Tasks : Flushing(u) => at[u] \in InFlush
  BY Zenon DEF IInv, InvFlush
<1>9. InFlush = InFlush \ {None} /\ InBuffer = InBuffer \ {None} /\ None \notin Cells
  BY <1>7, NoneAssumption, Zenon
<1>10. Single(n, None)
  BY <1>3, LiveFacts, Zenon DEF Single
<1>11. Pushable(buffer_list, cell, buffer_cache, None)
  <2>1. Range(buffer_list) \subseteq InBuffer \ {None}
    BY <1>9, Zenon DEF InBuffer
  <2> QED
    BY <1>9, <2>1, ListTypes, CachesApart, Zenon DEF Pushable
<1>12. TasksStep(None)
  <2>1. \A u \in Tasks : Flushing(u)' =>
               Flushing(u) /\ at'[u] = at[u] /\ ptr'[u] = ptr[u] /\ at[u] /= None
    BY <1>4, <1>5, <1>8, <1>9, Zenon
  <2> QED
    BY <1>4, <1>5, <2>1, Zenon DEF TasksStep
<1>13. Assigned(n, want[t])
  BY <1>1, <1>2, NoMatch, Zenon DEF Assigned
<1>14. FlushListStep(buffer_cache, None)
  BY <1>2, <1>6, <1>9, ListTypes, CachesApart, Zenon DEF FlushListStep
<1> QED
  BY <1>1, <1>10, <1>11, <1>12, <1>13, <1>14, PushKeeps, Zenon

LEMMA GetReuseKeeps ==
    ASSUME WellOrder, IInv, NEW t \in Tasks, GetReuse(t)
    PROVE  IInv'
<1>1. PICK c : c = Unused
  BY Zenon
<1>2. PICK n, list, cells, cache :
          /\ n = cell[c] /\ list = Without(buffer_list, c)
          /\ cells = CellsAfterFree(buffer_cache, c) /\ cache = AfterFree(buffer_cache, c)
  BY Zenon
<1>3. /\ Become(t, "got") /\ Matches(buffer_list, want[t]) = {} /\ Unused /= None
      /\ UNCHANGED <<flush_list, flush_cache, at, local>>
      /\ block' = [block EXCEPT ![n] = want[t]]
      /\ PushFront(n, list, cells, cache)
      /\ ptr' = [ptr EXCEPT ![t] = n]
  BY <1>1, <1>2, Zenon DEF GetReuse, Missing, Searching, InitNode
<1>4. c \in InBuffer /\ c \in Live /\ c \in Cells
  BY <1>1, <1>3, UnusedFacts, CachesApart, LiveFacts, LiveNodes, Zenon DEF IInv
<1>5. n \in Nodes /\ \A d \in Live \ {c} : cell[d] /= n
  BY <1>2, <1>4, LiveNodes, Zenon
<1>6. list \in Seq(Cells) /\ Injective(list) /\ Range(list) \subseteq InBuffer \ {c}
  BY <1>2, ListTypes, CachesApart, LiveFacts, WithoutFacts, Zenon DEF InBuffer
<1>7. c \notin Range(buffer_cache) /\ c \notin Range(flush_cache) /\ c \notin InFlush
  BY <1>4, ListTypes, LiveFacts, Zenon
<1>8. /\ cache \in Seq(Cells) /\ Injective(cache) /\ Len(cache) <= CacheSize
      /\ Range(cache) \subseteq Range(buffer_cache) \cup {c}
      /\ cells \in [Cells -> Nodes \cup {None}] /\ \A d \in Cells : d /= c => cells[d] = cell[d]
  <2>1. TypeOK /\ buffer_cache \in Seq(Cells) /\ Injective(buffer_cache) /\ Len(buffer_cache) <= CacheSize
    BY ListTypes, CachesApart, Zenon DEF IInv
  <2> QED
    BY <1>2, <1>4, <1>7, <2>1, FreeFacts
<1>9. /\ DOMAIN pc' = Tasks
      /\ \A u \in Tasks : Flushing(u)' => Flushing(u) /\ u /= t
      /\ \A u \in Tasks : pc'[u] = "d_flush" => pc[u] = "d_flush"
  BY <1>3, BecomeFacts, Zenon
<1>10. /\ DOMAIN at' = Tasks /\ DOMAIN ptr' = Tasks /\ at' = at
       /\ \A u \in Tasks : u /= t => ptr'[u] = ptr[u]
  BY <1>3, Zenon DEF IInv, TypeOK
<1>11. \A u \in Tasks : Flushing(u) => at[u] \in InFlush
  BY Zenon DEF IInv, InvFlush
<1>12. TasksStep(c)
  <2>1. \A u \in Tasks : Flushing(u)' =>
               Flushing(u) /\ at'[u] = at[u] /\ ptr'[u] = ptr[u] /\ at[u] /= c
    BY <1>7, <1>9, <1>10, <1>11, Zenon
  <2> QED
    BY <1>9, <1>10, <2>1, Zenon DEF TasksStep
<1>13. Assigned(n, want[t])
  BY <1>3, NoMatch, Zenon DEF Assigned
<1>14. FlushListStep(cache, c)
  <2>1. Range(cache) \cap Range(flush_cache) = {}
    BY <1>7, <1>8, ListTypes, CachesApart, LiveFacts, Zenon
  <2>2. InFlush' = InFlush \ {c}
    BY <1>3, <1>7, Zenon DEF InFlush
  <2> QED
    BY <1>3, <2>1, <2>2, ListTypes, CachesApart, LiveFacts, Zenon DEF FlushListStep
<1>15. Pushable(list, cells, cache, c)
  BY <1>4, <1>6, <1>8, Zenon DEF Pushable
<1>16. Single(n, c)
  BY <1>5, Zenon DEF Single
<1> QED
  BY <1>3, <1>12, <1>13, <1>14, <1>15, <1>16, PushKeeps, Zenon

\* The task's own victim leaves flush_list and comes back to buffer_list.
LEMMA GetFlushedKeeps ==
    ASSUME WellOrder, IInv, NEW t \in Tasks, GetFlushed(t)
    PROVE  IInv'
<1>1. PICK c, n, cells : c = at[t] /\ n = ptr[t] /\ cells = CellsAfterFree(flush_cache, c)
  BY Zenon
<1>2. /\ pc[t] = "relock" /\ local' = local
      /\ flush_list' = Without(flush_list, c)
      /\ flush_cache' = AfterFree(flush_cache, c)
      /\ at' = [at EXCEPT ![t] = None]
      /\ pc' = [u \in Tasks |-> IF u = t THEN "got" ELSE IF pc[u] = "asleep" THEN "get" ELSE pc[u]]
  BY <1>1, Zenon DEF GetFlushed
<1>3. \/ /\ Matches(buffer_list, want[t]) = {}
         /\ block' = [block EXCEPT ![n] = want[t]]
         /\ PushFront(n, buffer_list, cells, buffer_cache)
         /\ ptr' = ptr
      \/ /\ block' = [block EXCEPT ![n] = None]
         /\ PushBack(n, buffer_list, cells, buffer_cache)
         /\ ptr' = [ptr EXCEPT ![t] = cell[buffer_list[First(Matches(buffer_list, want[t]))]]]
  BY <1>1, Zenon DEF GetFlushed, InitNode
<1>4. PICK b : Assigned(n, b)
  BY <1>3, NoMatch, Zenon DEF Assigned
<1>5. PushFront(n, buffer_list, cells, buffer_cache) \/ PushBack(n, buffer_list, cells, buffer_cache)
  BY <1>3, Zenon
<1>6. c \in InFlush /\ n = cell[c]
  BY <1>1, <1>2, Zenon DEF IInv, InvFlush, Flushing
<1>7. c \in Live /\ c \in Cells /\ c \notin InBuffer
  BY <1>6, ListTypes, CachesApart, LiveFacts, Zenon
<1>8. c \notin Range(buffer_cache) /\ c \notin Range(flush_cache)
  BY <1>7, LiveFacts, Zenon
<1>9. Single(n, c)
  BY <1>6, <1>7, LiveNodes, Zenon DEF Single
<1>10. /\ flush_cache' \in Seq(Cells) /\ Injective(flush_cache')
       /\ Range(flush_cache') \subseteq Range(flush_cache) \cup {c}
       /\ cells \in [Cells -> Nodes \cup {None}] /\ \A d \in Cells : d /= c => cells[d] = cell[d]
  <2>1. TypeOK /\ flush_cache \in Seq(Cells) /\ Injective(flush_cache)
    BY ListTypes, CachesApart, Zenon DEF IInv
  <2> QED
    <3>1. /\ flush_cache' = AfterFree(flush_cache, c) /\ cells = CellsAfterFree(flush_cache, c)
          /\ c \in Cells /\ c \notin Range(flush_cache)
      BY <1>1, <1>2, <1>7, <1>8, Zenon
    <3> QED
      BY <2>1, <3>1, FreeFacts
<1>11. flush_list' \in Seq(Cells) /\ InFlush' = InFlush \ {c}
  BY <1>2, ListTypes, WithoutFacts, Zenon DEF InFlush
<1>12. FlushListStep(buffer_cache, c)
  <2>1. Range(buffer_cache) \cap Range(flush_cache') = {}
    BY <1>8, <1>10, CachesApart, Zenon
  <2> QED
    BY <1>2, <1>10, <1>11, <2>1, Zenon DEF FlushListStep
<1>13. Pushable(buffer_list, cells, buffer_cache, c)
  <2>1. Range(buffer_list) \subseteq InBuffer \ {c}
    BY <1>7, Zenon DEF InBuffer
  <2> QED
    BY <1>6, <1>10, <2>1, ListTypes, CachesApart, LiveFacts, Zenon DEF Pushable
<1>14. TasksStep(c)
  <2>1. /\ DOMAIN pc' = Tasks /\ DOMAIN at' = Tasks /\ DOMAIN ptr' = Tasks
        /\ \A u \in Tasks : u /= t => at'[u] = at[u] /\ ptr'[u] = ptr[u]
    BY <1>2, <1>3, Zenon DEF IInv, TypeOK
  <2>2. /\ \A u \in Tasks : Flushing(u)' => Flushing(u) /\ u /= t
        /\ \A u \in Tasks : pc'[u] = "d_flush" => pc[u] = "d_flush" /\ u /= t
    BY <1>2, Zenon DEF Flushing
  <2>3. \A u \in Tasks : Flushing(u) /\ u /= t => at[u] /= c
    BY <1>1, <1>2, Zenon DEF IInv, InvFlush, Flushing
  <2> QED
    BY <2>1, <2>2, <2>3, Zenon DEF TasksStep
<1> QED
  BY <1>4, <1>5, <1>9, <1>12, <1>13, <1>14, PushKeeps, Zenon

\* The victim moves to flush_list, where its task finds it again.
LEMMA GetEvictKeeps ==
    ASSUME WellOrder, IInv, NEW t \in Tasks, GetEvict(t)
    PROVE  IInv'
<1>1. PICK c, a, n, cells : /\ c = Unused /\ a = AllocCell(flush_cache) /\ n = cell[c]
                            /\ cells = CellsAfterFree(buffer_cache, c)
  BY Zenon
<1>2. /\ Unused /= None /\ CanAlloc(flush_cache)
      /\ buffer_list' = Without(buffer_list, c)
      /\ buffer_cache' = AfterFree(buffer_cache, c)
      /\ flush_list' = Append(flush_list, a)
      /\ flush_cache' = AfterAlloc(flush_cache)
      /\ cell' = [cells EXCEPT ![a] = n]
      /\ ptr' = [ptr EXCEPT ![t] = n]
      /\ at' = [at EXCEPT ![t] = a]
      /\ pc' = [pc EXCEPT ![t] = "flush"]
      /\ block' = block /\ local' = local
  BY <1>1, Zenon DEF GetEvict, Become, nodeVars
<1>3. c \in InBuffer /\ c \in Live /\ c \in Cells
  BY <1>1, <1>2, UnusedFacts, LiveFacts, LiveNodes, Zenon DEF IInv
<1>4. n \in Nodes /\ \A d \in Live \ {c} : cell[d] /= n
  BY <1>1, <1>3, ListTypes, LiveNodes, Zenon
<1>5. buffer_list' \in Seq(Cells) /\ Injective(buffer_list') /\ InBuffer' = InBuffer \ {c}
  BY <1>2, ListTypes, CachesApart, LiveNodes, WithoutFacts, Zenon DEF InBuffer
<1>6. c \notin Range(buffer_cache) /\ c \notin Range(flush_cache) /\ c \notin InFlush
  BY <1>3, ListTypes, CachesApart, LiveFacts, LiveNodes, Zenon
<1>7. /\ buffer_cache' \in Seq(Cells) /\ Injective(buffer_cache') /\ Len(buffer_cache') <= CacheSize
      /\ Range(buffer_cache') \subseteq Range(buffer_cache) \cup {c}
      /\ cells \in [Cells -> Nodes \cup {None}] /\ \A d \in Cells : d /= c => cells[d] = cell[d]
  <2>1. TypeOK /\ buffer_cache \in Seq(Cells) /\ Injective(buffer_cache) /\ Len(buffer_cache) <= CacheSize
    BY ListTypes, CachesApart, Zenon DEF IInv
  <2> QED
    <3>1. /\ buffer_cache' = AfterFree(buffer_cache, c) /\ cells = CellsAfterFree(buffer_cache, c)
          /\ c \in Cells /\ c \notin Range(buffer_cache)
      BY <1>1, <1>2, <1>3, <1>6, Zenon
    <3> QED
      BY <2>1, <3>1, FreeFacts
<1>8. /\ a \in Cells /\ (a \in Range(flush_cache) \/ a \notin InUseCells)
      /\ flush_cache' \in Seq(Cells) /\ Injective(flush_cache')
      /\ Range(flush_cache') \subseteq Range(flush_cache) /\ a \notin Range(flush_cache')
  BY <1>1, <1>2, ListTypes, CachesApart, AllocFacts, Zenon
<1>9. /\ Live \subseteq InUseCells /\ Cached \subseteq InUseCells /\ Live \cap Cached = {}
      /\ Cached = Range(buffer_cache) \cup Range(flush_cache)
      /\ Cached' = Range(buffer_cache') \cup Range(flush_cache')
      /\ Range(buffer_cache) \cap Range(flush_cache) = {}
  BY InUseFacts, Zenon DEF IInv, CellsApart, Cached
<1>10. a \notin Live /\ a \notin Range(buffer_cache)
  BY <1>8, <1>9, Zenon
<1>11. a /= c /\ a \notin Cached'
  BY <1>3, <1>7, <1>8, <1>9, Zenon
<1>12. flush_list' \in Seq(Cells) /\ InFlush' = InFlush \cup {a}
  BY <1>2, <1>8, ListTypes, CachesApart, LiveFacts, LiveNodes, AppendSet DEF InFlush
<1>13. /\ cell' \in [Cells -> Nodes \cup {None}] /\ cell'[a] = n
       /\ \A d \in Live \ {c} : cell'[d] = cell[d]
  BY <1>2, <1>4, <1>7, <1>8, <1>10, LiveFacts, Zenon
<1>14. /\ InBuffer \subseteq Live /\ InFlush \subseteq Live /\ InBuffer \cap InFlush = {}
       /\ \A u \in Tasks : InLocal(u) \subseteq Live /\ c \notin InLocal(u)
  BY <1>3, ListTypes, LiveFacts, InUseFacts, Zenon DEF IInv, CellsApart
<1>15. CellsApart' /\ NodesApart'
  <2>1. /\ InBuffer' \subseteq (InBuffer \ {c}) \cup {a}
        /\ InFlush' \subseteq (InFlush \ {c}) \cup {a}
        /\ InBuffer' \cap InFlush' = {}
    BY <1>5, <1>6, <1>10, <1>12, <1>14, Zenon
  <2>2. /\ Cached' \subseteq Cached \cup {c}
        /\ Range(buffer_cache') \cap Range(flush_cache') = {}
    BY <1>6, <1>7, <1>8, <1>9, Zenon
  <2>3. a \notin Live \ {c} /\ \A u \in Tasks : c \notin InLocal(u)
    BY <1>10, <1>14, Zenon
  <2>4. \A d \in Live \ {c} : cell'[d] = cell[d] /\ cell[d] /= n
    BY <1>4, <1>13, Zenon
  <2> QED
    BY <1>2, <1>4, <1>5, <1>7, <1>8, <1>11, <1>13, <2>1, <2>2, <2>3, <2>4, MoveApart, Zenon
<1>16. TypeOK'
  <2>1. /\ DOMAIN block' = Nodes /\ local' \in [Tasks -> Seq(Cells)]
        /\ DOMAIN pc' = Tasks /\ DOMAIN at' = Tasks /\ DOMAIN ptr' = Tasks
    BY <1>2, Zenon DEF IInv, TypeOK
  <2> QED
    BY <1>5, <1>7, <1>8, <1>12, <1>13, <2>1, Zenon DEF TypeOK
<1>17. BlocksApart'
  <2>1. \A d \in InBuffer' : d \in InBuffer /\ block'[cell'[d]] = block[cell[d]]
    BY <1>2, <1>5, <1>13, <1>14, Zenon
  <2> QED
    BY <2>1, Zenon DEF IInv, BlocksApart
<1>18. /\ pc'[t] = "flush" /\ at'[t] = a /\ ptr'[t] = n
       /\ \A u \in Tasks : u /= t => pc'[u] = pc[u] /\ at'[u] = at[u] /\ ptr'[u] = ptr[u]
  BY <1>2, Zenon DEF IInv, TypeOK
<1>19. InvFlush'
  <2>1. /\ \A u \in Tasks : Flushing(u) => at[u] \in InFlush /\ cell[at[u]] = ptr[u]
        /\ \A u, v \in Tasks : Flushing(u) /\ Flushing(v) /\ at[u] = at[v] => u = v
    BY Zenon DEF IInv, InvFlush
  <2>2. \A u \in Tasks : u /= t /\ Flushing(u)' => Flushing(u)
    BY <1>18, Zenon DEF Flushing
  <2>3. \A u \in Tasks : u /= t /\ Flushing(u)' =>
            at'[u] \in InFlush /\ at'[u] /= a /\ cell'[at'[u]] = ptr'[u]
    <3>1. \A d \in InFlush : d \in Live \ {c} /\ d /= a
      BY <1>6, <1>10, <1>14, Zenon
    <3> QED
      BY <1>13, <1>18, <2>1, <2>2, <3>1, ZenonT(60)
  <2>4. \A u \in Tasks : Flushing(u)' => at'[u] \in InFlush' /\ cell'[at'[u]] = ptr'[u]
    BY <1>12, <1>13, <1>18, <2>3, Zenon
  <2>5. ASSUME NEW u \in Tasks, NEW v \in Tasks, Flushing(u)', Flushing(v)', at'[u] = at'[v]
        PROVE  u = v
    BY <1>18, <2>1, <2>2, <2>3, <2>5, Zenon
  <2> QED
    BY <2>4, <2>5, Zenon DEF InvFlush
<1>20. InvLocal'
  <2> SUFFICES ASSUME NEW u \in Tasks, pc'[u] = "d_flush"
               PROVE  /\ at'[u] \in Nat \ {0}
                      /\ \A i \in DOMAIN local[u] : i < at'[u] => block[cell'[local[u][i]]] = None
    BY <1>2, Zenon DEF InvLocal
  <2>1. /\ at'[u] = at[u] /\ at[u] \in Nat \ {0}
        /\ \A i \in DOMAIN local[u] : i < at[u] => block[cell[local[u][i]]] = None
    BY <1>18, Zenon DEF IInv, InvLocal
  <2>2. \A i \in DOMAIN local[u] : local[u][i] \in InLocal(u)
    BY Zenon DEF InLocal, Range
  <2>3. \A i \in DOMAIN local[u] : cell'[local[u][i]] = cell[local[u][i]]
    BY <1>13, <1>14, <2>2, Zenon
  <2> QED
    BY <2>1, <2>3, Zenon
<1> QED
  BY <1>15, <1>16, <1>17, <1>19, <1>20, Zenon DEF IInv

\* Moving the cell that was found to the front.
LEMMA GetHitKeeps ==
    ASSUME WellOrder, IInv, NEW t \in Tasks, GetHit(t)
    PROVE  IInv'
<1>1. PICK c : c = buffer_list[First(Matches(buffer_list, want[t]))]
  BY Zenon
<1>2. /\ Matches(buffer_list, want[t]) /= {}
      /\ buffer_list' = <<c>> \o Without(buffer_list, c)
      /\ at' = [at EXCEPT ![t] = c]
      /\ Become(t, "hit")
      /\ UNCHANGED <<flush_list, buffer_cache, flush_cache, cell, block, ptr, local>>
  BY <1>1, Zenon DEF GetHit, nodeVars
<1>3. c \in InBuffer /\ c \in Cells
  <2>1. /\ Len(buffer_list) \in Nat /\ Matches(buffer_list, want[t]) \subseteq 1..Len(buffer_list)
        /\ DOMAIN buffer_list = 1..Len(buffer_list)
    BY DEF Matches
  <2>2. First(Matches(buffer_list, want[t])) \in Matches(buffer_list, want[t])
    BY <1>2, <2>1, Extremes, Zenon
  <2> QED
    BY <1>1, <2>1, <2>2, ListTypes, CachesApart DEF InBuffer, Range
<1>4. buffer_list' \in Seq(Cells) /\ Injective(buffer_list') /\ InBuffer' = InBuffer
  <2>1. PICK list : list = Without(buffer_list, c)
    BY Zenon
  <2>2. list \in Seq(Cells) /\ Range(list) = InBuffer \ {c} /\ Injective(list)
    BY <2>1, ListTypes, CachesApart, WithoutFacts, Zenon DEF InBuffer
  <2>3. Range(<<c>> \o list) = InBuffer
    <3>1. Range(<<c>> \o list) = Range(list) \cup {c}
      BY <1>3, <2>2, ConsSet
    <3> QED
      BY <1>3, <2>2, <3>1, Zenon
  <2> QED
    BY <1>2, <1>3, <2>1, <2>2, <2>3, ConsSet, Zenon DEF InBuffer
<1>5. InFlush' = InFlush /\ Cached' = Cached /\ Live' = Live
  BY <1>2, <1>4, Zenon DEF InFlush, Cached, Live, InLocal
<1>6. /\ DOMAIN pc' = Tasks
      /\ \A u \in Tasks : Flushing(u)' => Flushing(u) /\ u /= t
      /\ \A u \in Tasks : pc'[u] = "d_flush" => pc[u] = "d_flush" /\ u /= t
  BY <1>2, BecomeFacts, Zenon
<1>7. DOMAIN at' = Tasks /\ \A u \in Tasks : u /= t => at'[u] = at[u]
  BY <1>2, Zenon DEF IInv, TypeOK
<1>8. TypeOK'
  BY <1>2, <1>4, <1>6, <1>7, Zenon DEF IInv, TypeOK
<1>9. CellsApart'
  BY <1>2, <1>4, <1>5, Zenon DEF IInv, CellsApart, InLocal
<1>10. NodesApart' /\ BlocksApart'
  BY <1>2, <1>4, <1>5, Zenon DEF IInv, NodesApart, BlocksApart
<1>11. InvFlush'
  <2>1. /\ \A u \in Tasks : Flushing(u) => at[u] \in InFlush /\ cell[at[u]] = ptr[u]
        /\ \A u, v \in Tasks : Flushing(u) /\ Flushing(v) /\ at[u] = at[v] => u = v
    BY Zenon DEF IInv, InvFlush
  <2> QED
    BY <1>2, <1>5, <1>6, <1>7, <2>1, Zenon DEF InvFlush
<1>12. InvLocal'
  BY <1>2, <1>6, <1>7, ZenonT(60) DEF IInv, InvLocal
<1> QED
  BY <1>8, <1>9, <1>10, <1>11, <1>12, Zenon DEF IInv

\* A node of the local list loses its block.
LEMMA DestroyFlushKeeps ==
    ASSUME IInv, NEW t \in Tasks, DestroyFlush(t)
    PROVE  IInv'
<1>1. PICK n : n = cell[local[t][at[t]]]
  BY Zenon
<1>2. /\ pc[t] = "d_flush"
      /\ block' = [block EXCEPT ![n] = None]
      /\ at' = [at EXCEPT ![t] = @ + 1]
      /\ UNCHANGED <<listVars, pc, ptr, local>>
  BY <1>1, Zenon DEF DestroyFlush
<1>3. /\ DOMAIN block' = Nodes
      /\ \A m \in Nodes : block'[m] = IF m = n THEN None ELSE block[m]
      /\ DOMAIN at' = Tasks /\ at'[t] = at[t] + 1
      /\ \A u \in Tasks : u /= t => at'[u] = at[u]
  BY <1>2, Zenon DEF IInv, TypeOK
<1>4. TypeOK'
  BY <1>2, Zenon DEF IInv, TypeOK, listVars
<1>5. InBuffer' = InBuffer /\ InFlush' = InFlush /\ Cached' = Cached /\ Live' = Live
  BY <1>2, Zenon DEF InBuffer, InFlush, Cached, Live, InLocal, listVars
<1>6. CellsApart'
  BY <1>2, <1>5, Zenon DEF IInv, CellsApart, InLocal, listVars
<1>7. NodesApart'
  BY <1>2, <1>5, Zenon DEF IInv, NodesApart, listVars
<1>8. BlocksApart'
  <2>1. \A d \in InBuffer : block'[cell[d]] = None \/ block'[cell[d]] = block[cell[d]]
    BY <1>3, ListTypes, LiveFacts, LiveNodes, Zenon
  <2> QED
    BY <1>2, <1>5, <2>1 DEF IInv, BlocksApart, listVars
<1>9. InvFlush'
  <2>1. \A u \in Tasks : Flushing(u)' => Flushing(u) /\ u /= t
    BY <1>2, Zenon DEF Flushing
  <2>2. /\ \A u \in Tasks : Flushing(u) => at[u] \in InFlush /\ cell[at[u]] = ptr[u]
        /\ \A u, v \in Tasks : Flushing(u) /\ Flushing(v) /\ at[u] = at[v] => u = v
    BY Zenon DEF IInv, InvFlush
  <2> QED
    BY <1>2, <1>3, <1>5, <2>1, <2>2, Zenon DEF InvFlush, listVars
<1>10. InvLocal'
  <2> SUFFICES ASSUME NEW u \in Tasks, pc[u] = "d_flush"
               PROVE  /\ at'[u] \in Nat \ {0}
                      /\ \A i \in DOMAIN local[u] : i < at'[u] => block'[cell[local[u][i]]] = None
    BY <1>2, Zenon DEF InvLocal, listVars
  <2>1. /\ at[u] \in Nat \ {0}
        /\ \A i \in DOMAIN local[u] : i < at[u] => block[cell[local[u][i]]] = None
    BY Zenon DEF IInv, InvLocal
  <2>2. \A i \in DOMAIN local[u] : i \in Nat /\ cell[local[u][i]] \in Nodes
    <3>1. local[u] \in Seq(Cells) /\ \A i \in DOMAIN local[u] : local[u][i] \in Live
      BY InUseFacts, Zenon DEF IInv, TypeOK, InLocal, Range
    <3> QED
      BY <3>1, LiveNodes
  <2>3. CASE u = t
    <3>1. at'[u] \in Nat \ {0}
      BY <1>3, <2>1
    <3>2. ASSUME NEW i \in DOMAIN local[u], i < at'[u] PROVE block'[cell[local[u][i]]] = None
      <4>1. i < at[u] \/ i = at[u]
        BY <1>3, <2>1, <2>2, <3>2
      <4> QED
        BY <1>1, <1>3, <2>1, <2>2, <2>3, <4>1, Zenon
    <3> QED
      BY <3>1, <3>2, Zenon
  <2>4. CASE u /= t
    BY <1>3, <2>1, <2>2, <2>4, Zenon
  <2> QED
    BY <2>3, <2>4, Zenon
<1> QED
  BY <1>4, <1>6, <1>7, <1>8, <1>9, <1>10, Zenon DEF IInv

\* The local list joins buffer_list, none of its nodes standing for a block.
LEMMA DestroyMergeKeeps ==
    ASSUME IInv, NEW t \in Tasks, DestroyMerge(t)
    PROVE  IInv'
<1>1. /\ pc[t] = "d_flush" /\ at[t] > Len(local[t])
      /\ buffer_list' = buffer_list \o local[t]
      /\ local' = [local EXCEPT ![t] = <<>>]
      /\ at' = [at EXCEPT ![t] = None]
      /\ Become(t, "d_done")
      /\ UNCHANGED <<flush_list, buffer_cache, flush_cache, cell, block, ptr>>
  BY Zenon DEF DestroyMerge, nodeVars
<1>2. /\ local[t] \in Seq(Cells) /\ Injective(local[t])
      /\ \A u \in Tasks : InLocal(u) \cap (InBuffer \cup InFlush) = {}
      /\ \A u, v \in Tasks : u /= v => InLocal(u) \cap InLocal(v) = {}
  BY Zenon DEF IInv, TypeOK, CellsApart
<1>3. buffer_list' \in Seq(Cells) /\ Injective(buffer_list') /\ InBuffer' = InBuffer \cup InLocal(t)
  BY <1>1, <1>2, ListTypes, CachesApart, ConcatSet DEF InBuffer, InLocal
<1>4. /\ local' \in [Tasks -> Seq(Cells)] /\ local'[t] = <<>>
      /\ \A u \in Tasks : u /= t => local'[u] = local[u]
  <2>1. <<>> \in Seq(Cells) /\ local \in [Tasks -> Seq(Cells)]
    BY DEF IInv, TypeOK
  <2> QED
    BY <1>1, <2>1, Zenon
<1>5. InLocal(t)' = {} /\ Injective(local'[t]) /\ \A u \in Tasks : u /= t => InLocal(u)' = InLocal(u)
  BY <1>4 DEF InLocal, Range, Injective
<1>6. InFlush' = InFlush /\ Cached' = Cached
  BY <1>1, Zenon DEF InFlush, Cached
<1>7. Live' = Live
  <2>1. /\ Live = InBuffer \cup InFlush \cup UNION {InLocal(u) : u \in Tasks}
        /\ Live' = InBuffer' \cup InFlush' \cup UNION {InLocal(u)' : u \in Tasks}
    BY Zenon DEF Live
  <2>2. UNION {InLocal(u) : u \in Tasks} = InLocal(t) \cup UNION {InLocal(u)' : u \in Tasks}
    BY <1>5, Zenon
  <2> QED
    BY <1>3, <1>6, <2>1, <2>2, Zenon
<1>8. CellsApart'
  <2>1. \A u \in Tasks : Injective(local'[u])
    BY <1>4, <1>5, Zenon DEF IInv, CellsApart
  <2>2. InBuffer' \cap InFlush' = {}
    BY <1>2, <1>3, <1>6, LiveFacts, Zenon
  <2>3. \A u \in Tasks : InLocal(u)' \cap (InBuffer' \cup InFlush') = {}
    BY <1>2, <1>3, <1>5, <1>6, Zenon
  <2>4. \A u, v \in Tasks : u /= v => InLocal(u)' \cap InLocal(v)' = {}
    BY <1>2, <1>5, Zenon
  <2>5. Live' \cap Cached' = {} /\ Range(buffer_cache') \cap Range(flush_cache') = {}
    BY <1>1, <1>6, <1>7, Zenon DEF IInv, CellsApart
  <2> QED
    BY <1>1, <1>3, <2>1, <2>2, <2>3, <2>4, <2>5, ListTypes, CachesApart, LiveFacts, Zenon DEF CellsApart
<1>9. NodesApart'
  BY <1>1, <1>7, Zenon DEF IInv, NodesApart
<1>10. BlocksApart'
  <2>1. /\ at[t] \in Nat
        /\ \A i \in DOMAIN local[t] : i < at[t] => block[cell[local[t][i]]] = None
    BY <1>1, Zenon DEF IInv, InvLocal
  <2>2. \A i \in DOMAIN local[t] : i < at[t]
    BY <1>1, <2>1
  <2>3. \A d \in InLocal(t) : block[cell[d]] = None
    BY <2>1, <2>2 DEF InLocal, Range
  <2> QED
    BY <1>1, <1>3, <2>3, Zenon DEF IInv, BlocksApart
<1>11. /\ DOMAIN pc' = Tasks /\ DOMAIN at' = Tasks
       /\ \A u \in Tasks : Flushing(u)' => Flushing(u) /\ u /= t
       /\ \A u \in Tasks : pc'[u] = "d_flush" => pc[u] = "d_flush" /\ u /= t
       /\ \A u \in Tasks : u /= t => at'[u] = at[u]
  <2>1. DOMAIN at' = Tasks /\ \A u \in Tasks : u /= t => at'[u] = at[u]
    BY <1>1, Zenon DEF IInv, TypeOK
  <2> QED
    BY <1>1, <2>1, BecomeFacts, Zenon
<1>12. InvFlush'
  <2>1. /\ \A u \in Tasks : Flushing(u) => at[u] \in InFlush /\ cell[at[u]] = ptr[u]
        /\ \A u, v \in Tasks : Flushing(u) /\ Flushing(v) /\ at[u] = at[v] => u = v
    BY Zenon DEF IInv, InvFlush
  <2> QED
    BY <1>1, <1>6, <1>11, <2>1, Zenon DEF InvFlush
<1>13. InvLocal'
  <2>1. \A u \in Tasks : pc[u] = "d_flush" =>
          /\ at[u] \in Nat \ {0}
          /\ \A i \in DOMAIN local[u] : i < at[u] => block[cell[local[u][i]]] = None
    BY Zenon DEF IInv, InvLocal
  <2>2. cell' = cell /\ block' = block
    BY <1>1, Zenon
  <2>3. \A u \in Tasks : u /= t => local'[u] = local[u]
    BY <1>4, Zenon
  <2> QED
    <3>1. ASSUME NEW u \in Tasks, pc'[u] = "d_flush"
          PROVE  /\ at'[u] = at[u] /\ local'[u] = local[u] /\ at[u] \in Nat \ {0}
                 /\ \A i \in DOMAIN local[u] : i < at[u] => block[cell[local[u][i]]] = None
      BY <1>11, <2>1, <2>3, <3>1, Zenon
    <3> QED
      BY <2>2, <3>1 DEF InvLocal
<1>14. TypeOK'
  BY <1>1, <1>3, <1>4, <1>11, Zenon DEF IInv, TypeOK
<1> QED
  BY <1>8, <1>9, <1>10, <1>12, <1>13, <1>14, Zenon DEF IInv

\* The buffers of the device leave buffer_list, to the local list or to the cache.
LEMMA DestroyStartKeeps ==
    ASSUME WellOrder, IInv, NEW t \in Tasks, NEW d, DestroyStart(t, d)
    PROVE  IInv'
<1>1. PICK matching, detached, failed, room, cached :
          /\ matching = {c \in Cells : cell[c] /= None /\ block[cell[c]] \in OfDevice(d)}
          /\ detached = {c \in matching : RefCount(cell[c]) = 1}
          /\ failed = Only(buffer_list, matching \ detached)
          /\ room = CacheSize - Len(buffer_cache)
          /\ cached = SubSeq(failed, 1, IF Len(failed) < room THEN Len(failed) ELSE room)
  BY Zenon
<1>2. /\ pc[t] = "idle"
      /\ local' = [local EXCEPT ![t] = Only(buffer_list, detached)]
      /\ buffer_cache' = buffer_cache \o cached
      /\ cell' = [c \in Cells |-> IF c \in Range(failed) \ Range(cached) THEN None ELSE cell[c]]
      /\ buffer_list' = Only(buffer_list, Cells \ matching)
      /\ at' = [at EXCEPT ![t] = 1]
      /\ pc' = [pc EXCEPT ![t] = "d_flush"]
      /\ UNCHANGED <<flush_list, flush_cache, block, ptr>>
  BY <1>1, Zenon DEF DestroyStart, Become, nodeVars
<1>3. detached \subseteq matching
  BY <1>1, Zenon
<1>4. PICK mine : mine = Only(buffer_list, detached)
  BY Zenon
<1>5. mine \in Seq(Cells) /\ Range(mine) = InBuffer \cap detached /\ Injective(mine)
  BY <1>4, ListTypes, CachesApart, LiveFacts, OnlyFacts DEF InBuffer
<1>6. /\ failed \in Seq(Cells) /\ Range(failed) = InBuffer \cap (matching \ detached)
      /\ Injective(failed)
  BY <1>1, ListTypes, CachesApart, OnlyFacts DEF InBuffer
<1>7. /\ buffer_list' \in Seq(Cells) /\ Injective(buffer_list')
      /\ InBuffer' = InBuffer \cap (Cells \ matching)
  BY <1>2, ListTypes, CachesApart, LiveFacts, OnlyFacts DEF InBuffer
<1>8. /\ cached \in Seq(Cells) /\ Range(cached) \subseteq Range(failed) /\ Injective(cached)
      /\ Len(cached) <= room
  <2>0. room = CacheSize - Len(buffer_cache)
    BY <1>1, Zenon
  <2>1. room \in Nat /\ Len(failed) \in Nat
    BY <1>6, <2>0, ListTypes, CachesApart, CellsAssumption
  <2>2. PICK k : k = IF Len(failed) < room THEN Len(failed) ELSE room
    BY Zenon
  <2>3. k \in Nat /\ k <= Len(failed) /\ k <= room
    BY <2>1, <2>2
  <2>4. cached = SubSeq(failed, 1, k)
    BY <1>1, <2>2, Zenon
  <2>5. Len(cached) = k
    BY <2>3, <2>4
  <2> QED
    BY <1>6, <2>3, <2>4, <2>5, PrefixSet, Zenon
<1>9. /\ InBuffer \subseteq Live /\ InFlush \subseteq Live /\ Live \subseteq Cells
      /\ InBuffer \cap InFlush = {}
      /\ \A c \in Live : c \notin Range(buffer_cache) /\ c \notin Range(flush_cache)
      /\ Range(buffer_cache) \cap Range(flush_cache) = {}
  BY ListTypes, CachesApart, LiveFacts, LiveNodes, Zenon
<1>10. /\ buffer_cache' \in Seq(Cells) /\ Injective(buffer_cache')
       /\ Range(buffer_cache') = Range(buffer_cache) \cup Range(cached)
       /\ Len(buffer_cache') <= CacheSize
  <2>1. Range(buffer_cache) \cap Range(cached) = {}
    BY <1>6, <1>8, <1>9, Zenon
  <2>2. /\ buffer_cache \in Seq(Cells) /\ Injective(buffer_cache) /\ Len(buffer_cache) <= CacheSize
        /\ cached \in Seq(Cells) /\ Injective(cached) /\ Len(cached) <= room
        /\ room = CacheSize - Len(buffer_cache)
    BY <1>1, <1>8, ListTypes, CachesApart, Zenon
  <2>3. Len(buffer_cache \o cached) <= CacheSize
    BY <2>2, CellsAssumption
  <2>4. buffer_cache' = buffer_cache \o cached
    BY <1>2, Zenon
  <2> QED
    BY <2>1, <2>2, <2>3, <2>4, ConcatSet
<1>11. /\ local' \in [Tasks -> Seq(Cells)] /\ local'[t] = mine
       /\ \A u \in Tasks : u /= t => local'[u] = local[u]
  <2>1. local \in [Tasks -> Seq(Cells)]
    BY Zenon DEF IInv, TypeOK
  <2> QED
    BY <1>2, <1>4, <1>5, <2>1, Zenon
<1>12. /\ InLocal(t)' = InBuffer \cap detached /\ Injective(local'[t])
       /\ \A u \in Tasks : u /= t => InLocal(u)' = InLocal(u)
  BY <1>5, <1>11, Zenon DEF InLocal
<1>13. InFlush' = InFlush
  BY <1>2, Zenon DEF InFlush
<1>14. Live' \subseteq Live \ Range(failed)
  <2>1. /\ Live' = InBuffer' \cup InFlush' \cup UNION {InLocal(u)' : u \in Tasks}
        /\ \A u \in Tasks : InLocal(u) \subseteq Live /\ InLocal(u) \cap InBuffer = {}
    BY Zenon DEF IInv, CellsApart, Live
  <2>2. \A u \in Tasks : InLocal(u)' \subseteq Live \ Range(failed)
    BY <1>6, <1>9, <1>12, <2>1, Zenon
  <2>3. InBuffer' \subseteq Live \ Range(failed) /\ InFlush' \subseteq Live \ Range(failed)
    BY <1>6, <1>7, <1>9, <1>13, Zenon
  <2> QED
    BY <2>1, <2>2, <2>3, Zenon
<1>15. Cached' \subseteq Cached \cup Range(failed)
  BY <1>2, <1>8, <1>10, Zenon DEF Cached
<1>16. cell' \in [Cells -> Nodes \cup {None}] /\ \A c \in Live' : cell'[c] = cell[c]
  BY <1>2, <1>14, ListTypes, LiveFacts, Zenon
<1>17. CellsApart'
  <2>1. Live' \cap Cached' = {}
    <3>1. Live \cap Cached = {}
      BY Zenon DEF IInv, CellsApart
    <3> QED
      BY <1>14, <1>15, <3>1, Zenon
  <2>2. Range(buffer_cache') \cap Range(flush_cache') = {} /\ Injective(flush_cache')
    BY <1>2, <1>6, <1>8, <1>9, <1>10, CachesApart, Zenon
  <2>3. InBuffer' \cap InFlush' = {}
    BY <1>7, <1>9, <1>13, Zenon
  <2>4. /\ \A u \in Tasks : Injective(local[u]) /\ InLocal(u) \cap (InBuffer \cup InFlush) = {}
        /\ \A u, v \in Tasks : u /= v => InLocal(u) \cap InLocal(v) = {}
    BY Zenon DEF IInv, CellsApart
  <2>5. \A u \in Tasks : Injective(local'[u])
    BY <1>11, <1>12, <2>4, Zenon
  <2>6. \A u \in Tasks : InLocal(u)' \cap (InBuffer' \cup InFlush') = {}
    BY <1>3, <1>7, <1>9, <1>12, <1>13, <2>4
  <2>7. \A u, v \in Tasks : u /= v => InLocal(u)' \cap InLocal(v)' = {}
    BY <1>12, <2>4
  <2> QED
    BY <1>7, <1>10, <2>1, <2>2, <2>3, <2>5, <2>6, <2>7, Zenon DEF CellsApart
<1>18. NodesApart'
  BY <1>14, <1>16, Zenon DEF IInv, NodesApart
<1>19. BlocksApart'
  <2>1. InBuffer' \subseteq InBuffer /\ InBuffer' \subseteq Live'
    BY <1>7, Zenon DEF Live
  <2>2. block' = block /\ \A c \in InBuffer' : c \in InBuffer /\ cell'[c] = cell[c]
    BY <1>2, <1>16, <2>1, Zenon
  <2>3. BlocksApart
    BY Zenon DEF IInv
  <2> QED
    BY <2>2, <2>3 DEF BlocksApart
<1>20. /\ DOMAIN pc' = Tasks /\ DOMAIN at' = Tasks /\ DOMAIN ptr' = Tasks /\ DOMAIN block' = Nodes
       /\ pc'[t] = "d_flush" /\ at'[t] = 1
       /\ \A u \in Tasks : u /= t => pc'[u] = pc[u] /\ at'[u] = at[u]
  BY <1>2, Zenon DEF IInv, TypeOK
<1>21. InvFlush'
  <2>1. /\ \A u \in Tasks : Flushing(u) => at[u] \in InFlush /\ cell[at[u]] = ptr[u]
        /\ \A u, v \in Tasks : Flushing(u) /\ Flushing(v) /\ at[u] = at[v] => u = v
    BY Zenon DEF IInv, InvFlush
  <2>2. \A u \in Tasks : Flushing(u)' => Flushing(u) /\ u /= t
    BY <1>20, Zenon DEF Flushing
  <2>3. InFlush' \subseteq Live'
    BY Zenon DEF Live
  <2> QED
    BY <1>2, <1>13, <1>16, <1>20, <2>1, <2>2, <2>3, Zenon DEF InvFlush
<1>22. InvLocal'
  <2> SUFFICES ASSUME NEW u \in Tasks, pc'[u] = "d_flush"
               PROVE  /\ at'[u] \in Nat \ {0}
                      /\ \A i \in DOMAIN local'[u] : i < at'[u] => block[cell'[local'[u][i]]] = None
    BY <1>2, Zenon DEF InvLocal
  <2>1. CASE u = t
    <3>1. \A i \in DOMAIN local'[u] : ~(i < 1)
      BY <1>11
    <3>2. at'[u] = 1
      BY <1>20, <2>1, Zenon
    <3> QED
      BY <3>1, <3>2
  <2>2. CASE u /= t
    <3>1. /\ at[u] \in Nat \ {0} /\ local'[u] = local[u] /\ at'[u] = at[u]
          /\ \A i \in DOMAIN local[u] : i < at[u] => block[cell[local[u][i]]] = None
      <4>1. pc[u] = "d_flush" /\ local'[u] = local[u] /\ at'[u] = at[u]
        BY <1>11, <1>20, <2>2, Zenon
      <4> QED
        BY <4>1, Zenon DEF IInv, InvLocal
    <3>2. \A i \in DOMAIN local[u] : local[u][i] \in Live'
      <4>1. \A i \in DOMAIN local'[u] : local'[u][i] \in InLocal(u)'
        BY Zenon DEF InLocal, Range
      <4>2. InLocal(u)' \subseteq Live'
        BY Zenon DEF Live
      <4> QED
        BY <3>1, <4>1, <4>2, Zenon
    <3> QED
      BY <1>16, <3>1, <3>2, Zenon
  <2> QED
    BY <2>1, <2>2, Zenon
<1>23. TypeOK'
  BY <1>2, <1>7, <1>10, <1>11, <1>16, <1>20, ListTypes, CachesApart, LiveFacts, LiveNodes, Zenon DEF TypeOK
<1> QED
  BY <1>17, <1>18, <1>19, <1>21, <1>22, <1>23, Zenon DEF IInv

-----------------------------------------------------------------------------
(* The remaining steps, and the initial states *)

\* The steps of a task that leave the lists alone: waiting, failing, taking a
\* hit out of its cell, flushing the victim, and everything the holder of a
\* buffer does with it.
LEMMA OtherStepsKeep ==
    ASSUME IInv, NEW t \in Tasks,
           \/ \E b \in Blocks : StartGet(t, b)
           \/ GetWait(t) \/ HitReturn(t) \/ GetFail(t) \/ GetNoMemory(t) \/ FlushEvicted(t)
           \/ Use(t) \/ DestroyReturn(t)
    PROVE  IInv'
<1> DEFINE Quiet == /\ UNCHANGED <<listVars, block, local>>
                    /\ DOMAIN at' = Tasks /\ DOMAIN ptr' = Tasks
                    /\ \A u \in Tasks : u /= t => at'[u] = at[u] /\ ptr'[u] = ptr[u]
<1>1. DOMAIN at = Tasks /\ DOMAIN ptr = Tasks /\ DOMAIN pc = Tasks
  BY Zenon DEF IInv, TypeOK
<1>2. Quiet
  BY <1>1, Zenon DEF StartGet, GetWait, HitReturn, GetFail, GetNoMemory, FlushEvicted, Flush, DestroyReturn,
              Use, MutexLock, Load, LoadFail, Modify, Put, Drop, nodeVars
<1>3. \/ FlushEvicted(t)
      \/ \E state : state \notin {"flush", "relock", "d_flush"} /\ Become(t, state)
  BY Zenon DEF StartGet, GetWait, HitReturn, GetFail, GetNoMemory, DestroyReturn,
         Use, MutexLock, Load, LoadFail, Modify, Put, Drop
<1>4. CASE FlushEvicted(t)
  <2>1. pc[t] = "flush" /\ pc' = [pc EXCEPT ![t] = "relock"] /\ at' = at /\ ptr' = ptr
    BY <1>4, Zenon DEF FlushEvicted, Become
  <2>2. /\ DOMAIN pc' = Tasks
        /\ \A u \in Tasks : Flushing(u)' => Flushing(u)
        /\ \A u \in Tasks : pc'[u] = "d_flush" => pc[u] = "d_flush"
    BY <1>1, <2>1, Zenon DEF Flushing
  <2> QED
    BY <1>2, <2>1, <2>2, FrameKeeps, Zenon
<1>5. CASE \E state : state \notin {"flush", "relock", "d_flush"} /\ Become(t, state)
  <2>1. /\ DOMAIN pc' = Tasks
        /\ \A u \in Tasks : Flushing(u)' => Flushing(u) /\ u /= t
        /\ \A u \in Tasks : pc'[u] = "d_flush" => pc[u] = "d_flush" /\ u /= t
    BY <1>5, BecomeFacts, Zenon
  <2> QED
    BY <1>2, <2>1, FrameKeeps, Zenon
<1> QED
  BY <1>3, <1>4, <1>5, Zenon

LEMMA IInvInit == Init => IInv
<1> SUFFICES ASSUME Init PROVE IInv
  BY Zenon
<1>1. PICK e : e = <<>>
  BY Zenon
<1>2. e \in Seq(Cells) /\ DOMAIN e = {} /\ Len(e) = 0 /\ Range(e) = {} /\ Injective(e)
  <2>1. e \in Seq(Cells) /\ DOMAIN e = {} /\ Len(e) = 0
    BY <1>1
  <2> QED
    BY <2>1, Zenon DEF Range, Injective
<1>3. /\ buffer_list = e /\ flush_list = e /\ buffer_cache = e /\ flush_cache = e
      /\ local = [t \in Tasks |-> e]
      /\ cell = [c \in Cells |-> None] /\ block = [n \in Nodes |-> None]
      /\ pc = [t \in Tasks |-> "idle"] /\ ptr = [t \in Tasks |-> None] /\ at = [t \in Tasks |-> None]
  BY <1>1, Zenon DEF Init
<1>4. InBuffer = {} /\ InFlush = {} /\ Cached = {} /\ Live = {} /\ \A t \in Tasks : InLocal(t) = {}
  BY <1>2, <1>3, Zenon DEF InBuffer, InFlush, Cached, Live, InLocal
<1>5. TypeOK
  BY <1>2, <1>3, CellsAssumption DEF TypeOK
<1>6. CellsApart
  BY <1>2, <1>3, <1>4, Zenon DEF CellsApart
<1>7. NodesApart /\ BlocksApart
  BY <1>4, Zenon DEF NodesApart, BlocksApart
<1>8. InvFlush /\ InvLocal
  BY <1>3, Zenon DEF InvFlush, InvLocal, Flushing
<1> QED
  BY <1>5, <1>6, <1>7, <1>8, Zenon DEF IInv

====
