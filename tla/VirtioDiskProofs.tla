---- MODULE VirtioDiskProofs ----
(***************************************************************************)
(* Proofs about VirtioDisk.tla for any number of descriptors, of tasks and *)
(* of commands, and any range of the ring indices that the rings divide.   *)
(***************************************************************************)
EXTENDS VirtioDisk, FiniteSetTheorems, WellFoundedInduction, TLAPS

PCs == {"idle", "alloc", "asleep", "wait", "woken", "failed"}
Indices == 0..(IdxMod - 1)
Busy == {t \in Tasks : Submitted(t)}

Heads == {head[t] : t \in Busy}

\* The descriptors disk_command filled in for a task.
Links(t) == {head[t], nxt[head[t]], nxt[nxt[head[t]]]}

\* Entries between two free-running indices, and the descriptors in them.
Span(from, to) == IF from <= to THEN to - from ELSE to + IdxMod - from
Slot(from, k) == (from + k) % NUM
Window(ring, from, to) == {ring[Slot(from, k)] : k \in 0..(Span(from, to) - 1)}
Distinct(ring, from, to) ==
    \A j, k \in 0..(Span(from, to) - 1) : ring[Slot(from, j)] = ring[Slot(from, k)] => j = k

Published == Window(avail, taken, avail_idx)
Completed == Window(used, used_idx, used_end)

TypeChains ==
    /\ free \in SUBSET Desc
    /\ nxt \in [Desc -> Desc]
    /\ more \in [Desc -> BOOLEAN]
    /\ request_queue \in Seq(Tasks)
    /\ pc \in [Tasks -> PCs]
    /\ head \in [Tasks -> Desc \cup {None}]

\* A submitted command has three linked descriptors, none of them free.
InvLinked ==
    \A t \in Busy :
        /\ head[t] \in Desc
        /\ more[head[t]] /\ more[nxt[head[t]]]
        /\ head[t] /= nxt[head[t]] /\ head[t] /= nxt[nxt[head[t]]] /\ nxt[head[t]] /= nxt[nxt[head[t]]]
        /\ Links(t) \cap free = {}

InvApart == \A t, u \in Busy : t /= u => Links(t) \cap Links(u) = {}

InvCount == IsFiniteSet(Busy) /\ Cardinality(free) + 3 * Cardinality(Busy) = NUM

\* A coroutine in request_queue is asleep there and nowhere else: waking it
\* takes no submitted command away.
InvAsleep ==
    /\ \A i \in DOMAIN request_queue : pc[request_queue[i]] = "asleep"
    /\ \A i, j \in DOMAIN request_queue : request_queue[i] = request_queue[j] => i = j

ChainInv == TypeChains /\ InvLinked /\ InvApart /\ InvCount /\ InvAsleep

TypeRings ==
    /\ avail \in [Desc -> Desc] /\ used \in [Desc -> Desc]
    /\ avail_idx \in Indices /\ taken \in Indices
    /\ used_end \in Indices /\ used_idx \in Indices
    /\ serving \in SUBSET Desc
    /\ done \in [Desc -> BOOLEAN] /\ status \in [Desc -> BOOLEAN]
    /\ served \in [Tasks -> Seq(Requests)]
    /\ req \in [Tasks -> Requests \cup {None}]
    /\ ops \in [Desc -> Requests \cup {None}]
    /\ buffer \in [Desc -> Tasks \cup {None}]
    /\ reply \in [Desc -> Desc \cup {None}]

\* The chain of a submitted command holds its command, its task's buffer and
\* its own info entry.
InvAddresses ==
    \A t \in Busy :
        /\ req[t] \in Requests /\ ops[head[t]] = req[t]
        /\ buffer[nxt[head[t]]] = t
        /\ reply[nxt[nxt[head[t]]]] = head[t]

\* A chain is published, being served, completed, or none of them; no ring
\* holds one twice.
InvPlaces ==
    /\ Distinct(avail, taken, avail_idx) /\ Distinct(used, used_idx, used_end)
    /\ Published \subseteq Heads /\ serving \subseteq Heads /\ Completed \subseteq Heads
    /\ Published \cap serving = {} /\ Published \cap Completed = {} /\ serving \cap Completed = {}

\* Where the chain of a command is tells what the device has done for it.
InvProgress ==
    /\ \A t \in Busy :
        /\ done[head[t]] <=> head[t] \notin Published \cup serving \cup Completed
        /\ head[t] \in Published \cup serving => served[t] = <<>>
        /\ head[t] \in Completed => served[t] = <<req[t]>> /\ status[head[t]]
        /\ done[head[t]] => served[t] = <<req[t]>>
        /\ pc[t] = "wait" => ~done[head[t]]
        /\ pc[t] = "woken" => done[head[t]]
    /\ \A t \in Tasks :
        /\ pc[t] \in {"alloc", "asleep"} => served[t] = <<>> /\ req[t] \in Requests
        /\ Len(served[t]) <= 1

RingInv == TypeRings /\ InvAddresses /\ InvPlaces /\ InvProgress

\* A task waits only while its chain is in a ring or in the device, and the
\* entry virtio_disk_intr reads next has its status: the handler does not spin.
InFlight ==
    /\ \A t \in Tasks : pc[t] = "wait" => head[t] \in Published \cup serving \cup Completed
    /\ used_idx /= used_end => status[used[used_idx % NUM]]

-----------------------------------------------------------------------------
(* Descriptors: the lowest one, and three of them *)

\* alloc_desc returns a free descriptor whenever there is one.
LEMMA LowestFacts ==
    ASSUME NEW S \in SUBSET Nat, S /= {}
    PROVE  Lowest(S) \in S
<1> DEFINE R == {ss \in Nat \X Nat : ss[1] < ss[2]}
<1>1. IsWellFoundedOn(R, Nat)
  BY NatLessThanWellFounded, Zenon DEF OpToRel
<1>2. \A x, y \in Nat : <<y, x>> \in R <=> y < x
  BY Zenon
<1> HIDE DEF R
<1>3. PICK x \in S : \A y \in S : ~ (<<y, x>> \in R)
  BY <1>1, WFMin, Zenon
<1>4. ASSUME NEW y \in S PROVE x <= y
  <2>1. x \in Nat /\ y \in Nat
    BY Zenon
  <2>2. ~ (y < x)
    BY <1>2, <1>3, <2>1, Zenon
  <2> QED
    BY <2>1, <2>2
<1> QED
  BY <1>4, Zenon DEF Lowest

\* Three different things are three.
LEMMA ThreeDistinct ==
    ASSUME NEW a, NEW b, NEW c, a /= b, a /= c, b /= c
    PROVE  IsFiniteSet({a, b, c}) /\ Cardinality({a, b, c}) = 3
<1>1. IsFiniteSet({a}) /\ Cardinality({a}) = 1
  BY FS_Singleton, Zenon
<1>2. IsFiniteSet({a} \cup {b}) /\ Cardinality({a} \cup {b}) = 2
  BY <1>1, FS_AddElement
<1>3. IsFiniteSet(({a} \cup {b}) \cup {c}) /\ Cardinality(({a} \cup {b}) \cup {c}) = 3
  BY <1>2, FS_AddElement
<1>4. ({a} \cup {b}) \cup {c} = {a, b, c}
  BY Zenon
<1> QED
  BY <1>3, <1>4, Zenon

\* Taking three elements out of a finite set.
LEMMA ThreeOut ==
    ASSUME NEW S, IsFiniteSet(S), NEW a \in S, NEW b \in S, NEW c \in S, a /= b, a /= c, b /= c
    PROVE  Cardinality(S \ {a, b, c}) = Cardinality(S) - 3
<1>1. Cardinality({a, b, c}) = 3
  BY ThreeDistinct, Zenon
<1>2. S \cap {a, b, c} = {a, b, c}
  BY Zenon
<1> QED
  BY <1>1, <1>2, FS_Difference

\* Putting three others in.
LEMMA ThreeIn ==
    ASSUME NEW S, IsFiniteSet(S), NEW a, NEW b, NEW c, a /= b, a /= c, b /= c,
           a \notin S, b \notin S, c \notin S
    PROVE  Cardinality(S \cup {a, b, c}) = Cardinality(S) + 3
<1>1. IsFiniteSet({a, b, c}) /\ Cardinality({a, b, c}) = 3
  BY ThreeDistinct, Zenon
<1>2. S \cap {a, b, c} = {} /\ Cardinality({}) = 0 /\ Cardinality(S) \in Nat
  BY FS_EmptySet, FS_CardinalityType, Zenon
<1>3. PICK T : T = {a, b, c}
  BY Zenon
<1>4. Cardinality(S \cup T) = Cardinality(S) + Cardinality(T) - Cardinality(S \cap T)
  BY <1>1, <1>3, FS_Union, Zenon
<1>5. Cardinality(S \cap T) = 0 /\ Cardinality(T) = 3
  BY <1>1, <1>2, <1>3, Zenon
<1>6. Cardinality(S \cup T) = Cardinality(S) + 3
  BY <1>2, <1>4, <1>5
<1> QED
  BY <1>3, <1>6, Zenon

\* alloc_descs: with three free descriptors, the three it takes are distinct
\* and were free.
LEMMA LowestThree ==
    ASSUME NEW S \in SUBSET Nat, IsFiniteSet(S), Cardinality(S) >= 3,
           NEW a, a = Lowest(S), NEW b, b = Lowest(S \ {a}), NEW c, c = Lowest(S \ {a, b})
    PROVE  a \in S /\ b \in S /\ c \in S /\ a /= b /\ a /= c /\ b /= c
<1>1. a \in S
  <2>1. S /= {}
    BY FS_EmptySet
  <2> QED
    BY <2>1, LowestFacts, Zenon
<1>2. PICK T : T = S \ {a}
  BY Zenon
<1>3. IsFiniteSet(T) /\ Cardinality(T) = Cardinality(S) - 1 /\ Cardinality(S) \in Nat
  BY <1>1, <1>2, FS_RemoveElement, FS_CardinalityType, Zenon
<1>4. Cardinality({}) = 0
  BY FS_EmptySet, Zenon
<1>5. b \in T
  <2>1. T /= {}
    BY <1>3, <1>4
  <2>2. T \in SUBSET Nat /\ b = Lowest(T)
    BY <1>2, Zenon
  <2> QED
    BY <2>1, <2>2, LowestFacts, Zenon
<1>6. c \in T \ {b}
  <2>1. Cardinality(T \ {b}) = Cardinality(T) - 1
    BY <1>3, <1>5, FS_RemoveElement, Zenon
  <2>2. T \ {b} /= {}
    BY <1>3, <1>4, <2>1
  <2>3. T \ {b} = S \ {a, b}
    BY <1>2, Zenon
  <2>4. T \ {b} \in SUBSET Nat /\ c = Lowest(T \ {b})
    BY <1>2, <2>3, Zenon
  <2> QED
    BY <2>2, <2>4, LowestFacts, Zenon
<1> QED
  BY <1>1, <1>2, <1>5, <1>6, Zenon

\* NUM descriptors.
LEMMA DescFacts == IsFiniteSet(Desc) /\ Cardinality(Desc) = NUM /\ Desc \subseteq Nat
<1>1. 0 \in Int /\ NUM - 1 \in Int /\ ~(0 > NUM - 1) /\ NUM - 1 - 0 + 1 = NUM
  BY NUMAssumption
<1> QED
  BY <1>1, FS_Interval, NUMAssumption DEF Desc

\* The descriptors outside a chain.
LEMMA DescButThree ==
    ASSUME NEW a \in Desc, NEW b \in Desc, NEW c \in Desc, a /= b, a /= c, b /= c
    PROVE  IsFiniteSet(Desc \ {a, b, c}) /\ Cardinality(Desc \ {a, b, c}) = NUM - 3
<1>1. Cardinality(Desc \ {a, b, c}) = Cardinality(Desc) - 3
  BY DescFacts, ThreeOut, Zenon
<1>2. IsFiniteSet(Desc \ {a, b, c})
  BY DescFacts, FS_Difference, Zenon
<1> QED
  BY <1>1, <1>2, DescFacts, Zenon

-----------------------------------------------------------------------------
(* Chains and the queue for descriptors *)

\* wake_up_one wakes only coroutines that sleep for descriptors, and the others
\* stay in the queue, asleep and once each.
LEMMA WokenFacts ==
    ASSUME TypeChains, InvAsleep, NEW n \in Nat
    PROVE  /\ Sleepers(n) \in Seq(Tasks)
           /\ Woken(n, pc) \in [Tasks -> PCs]
           /\ \A i \in DOMAIN Sleepers(n) : Woken(n, pc)[Sleepers(n)[i]] = "asleep"
           /\ \A i, j \in DOMAIN Sleepers(n) : Sleepers(n)[i] = Sleepers(n)[j] => i = j
           /\ \A t \in Tasks : pc[t] /= "asleep" => Woken(n, pc)[t] = pc[t]
           /\ \A t \in Tasks : pc[t] = "asleep" => Woken(n, pc)[t] \in {"alloc", "asleep"}
<1> DEFINE front == {request_queue[i] : i \in {j \in DOMAIN request_queue : j <= n}}
<1>1. Woken(n, pc) = [t \in Tasks |-> IF t \in front THEN "alloc" ELSE pc[t]]
  BY Zenon DEF Woken
<1>2. \A t \in Tasks : t \in front => pc[t] = "asleep"
  BY Zenon DEF InvAsleep
<1>3. request_queue \in Seq(Tasks) /\ Len(request_queue) \in Nat
  BY DEF TypeChains
<1>4. /\ Sleepers(n) \in Seq(Tasks)
      /\ \A i \in DOMAIN Sleepers(n) :
            /\ i \in Nat /\ i + n \in DOMAIN request_queue /\ ~(i + n <= n)
            /\ Sleepers(n)[i] = request_queue[i + n]
  <2>1. CASE n >= Len(request_queue)
    <3>1. Sleepers(n) = <<>>
      BY <2>1, Zenon DEF Sleepers
    <3>2. <<>> \in Seq(Tasks) /\ DOMAIN <<>> = {}
      OBVIOUS
    <3> QED
      BY <3>1, <3>2, Zenon
  <2>2. CASE ~(n >= Len(request_queue))
    <3>1. Sleepers(n) = SubSeq(request_queue, n + 1, Len(request_queue))
      BY <2>2, Zenon DEF Sleepers
    <3> QED
      BY <1>3, <2>2, <3>1
  <2> QED
    BY <2>1, <2>2, Zenon
<1>5. \A i \in DOMAIN Sleepers(n) : Sleepers(n)[i] \in Tasks /\ Sleepers(n)[i] \notin front
  BY <1>3, <1>4 DEF InvAsleep
<1>6. \A i \in DOMAIN Sleepers(n) : Woken(n, pc)[Sleepers(n)[i]] = "asleep"
  BY <1>1, <1>4, <1>5 DEF InvAsleep
<1>7. \A i, j \in DOMAIN Sleepers(n) : Sleepers(n)[i] = Sleepers(n)[j] => i = j
  BY <1>4 DEF InvAsleep
<1>8. Woken(n, pc) \in [Tasks -> PCs]
  BY <1>1, Zenon DEF TypeChains, PCs
<1> QED
  BY <1>1, <1>2, <1>4, <1>6, <1>7, <1>8, Zenon

\* What free_chain walks over is what disk_command filled in.
LEMMA ChainFacts ==
    ASSUME InvLinked, NEW t \in Busy
    PROVE  Chain(head[t]) = Links(t) /\ Cardinality(Chain(head[t])) = 3
<1>1. Chain(head[t]) = Links(t)
  BY Zenon DEF InvLinked, Chain, Links
<1>2. /\ head[t] /= nxt[head[t]] /\ head[t] /= nxt[nxt[head[t]]]
      /\ nxt[head[t]] /= nxt[nxt[head[t]]]
  BY Zenon DEF InvLinked
<1>3. Cardinality({head[t], nxt[head[t]], nxt[nxt[head[t]]]}) = 3
  BY <1>2, ThreeDistinct, Zenon
<1> QED
  BY <1>1, <1>3, Zenon DEF Links

\* The state open() leaves behind.
LEMMA ChainInit == Init => ChainInv
<1> SUFFICES ASSUME Init PROVE ChainInv
  BY Zenon
<1>1. Busy = {}
  BY Zenon DEF Init, Busy, Submitted
<1>2. TypeChains
  <2>1. <<>> \in Seq(Tasks) /\ 0 \in Desc
    BY NUMAssumption DEF Desc
  <2> QED
    BY <2>1, Zenon DEF Init, TypeChains, PCs
<1>3. InvLinked /\ InvApart
  BY <1>1, Zenon DEF InvLinked, InvApart
<1>4. InvCount
  BY <1>1, FS_EmptySet, DescFacts, NUMAssumption DEF InvCount, Init
<1>5. InvAsleep
  BY DEF Init, InvAsleep
<1> QED
  BY <1>2, <1>3, <1>4, <1>5, Zenon DEF ChainInv

\* A step that touches no chain, submits and returns no command and leaves the
\* sleepers asleep.
LEMMA ChainFrame ==
    ASSUME ChainInv, UNCHANGED <<free, nxt, more, head, request_queue>>,
           pc' \in [Tasks -> PCs],
           \A t \in Tasks : Submitted(t)' <=> Submitted(t),
           \A t \in Tasks : pc[t] = "asleep" => pc'[t] = "asleep"
    PROVE  ChainInv'
<1>1. Busy' = Busy
  BY Zenon DEF Busy
<1>2. TypeChains'
  BY Zenon DEF ChainInv, TypeChains
<1>3. InvLinked' /\ InvApart' /\ InvCount'
  BY <1>1, Zenon DEF ChainInv, InvLinked, InvApart, InvCount, Links
<1>4. InvAsleep'
  BY DEF ChainInv, InvAsleep, TypeChains
<1> QED
  BY <1>2, <1>3, <1>4, Zenon DEF ChainInv

\* A chain whose descriptors a step leaves alone.
Kept(u) ==
    /\ head'[u] = head[u] /\ Links(u)' = Links(u)
    /\ nxt'[head[u]] = nxt[head[u]] /\ nxt'[nxt[head[u]]] = nxt[nxt[head[u]]]
    /\ more'[head[u]] = more[head[u]] /\ more'[nxt[head[u]]] = more[nxt[head[u]]]

\* disk_command takes three free descriptors, links them and leaves the chains
\* of the other commands alone.
LEMMA SubmitEffect ==
    ASSUME ChainInv, NEW t \in Tasks, Submit(t)
    PROVE  \E a, b, c \in Desc :
               /\ a \in free /\ b \in free /\ c \in free /\ a /= b /\ a /= c /\ b /= c
               /\ free' = free \ {a, b, c}
               /\ FillChain(t, a, b, c)
               /\ status' = [status EXCEPT ![a] = FALSE]
               /\ done' = [done EXCEPT ![a] = FALSE]
               /\ avail' = [avail EXCEPT ![avail_idx % NUM] = a]
               /\ head' = [head EXCEPT ![t] = a]
               /\ t \notin Busy /\ Busy' = Busy \cup {t}
               /\ head'[t] = a /\ nxt'[a] = b /\ nxt'[b] = c /\ more'[a] /\ more'[b]
               /\ Links(t)' = {a, b, c}
               /\ \A u \in Busy : Kept(u) /\ Links(u) \cap free = {}
<1> USE DEF ChainInv
<1>1. PICK a, b, c : a = Lowest(free) /\ b = Lowest(free \ {a}) /\ c = Lowest(free \ {a, b})
  BY Zenon
<1>2. free \in SUBSET Desc /\ free \in SUBSET Nat /\ IsFiniteSet(free)
  BY DescFacts, FS_Subset, Zenon DEF TypeChains
<1>3. Cardinality(free) >= 3
  BY Zenon DEF Submit
<1>4. a \in free /\ b \in free /\ c \in free /\ a /= b /\ a /= c /\ b /= c
  BY <1>1, <1>2, <1>3, LowestThree
<1>5. /\ free' = free \ {a, b, c}
      /\ FillChain(t, a, b, c)
      /\ status' = [status EXCEPT ![a] = FALSE]
      /\ done' = [done EXCEPT ![a] = FALSE]
      /\ avail' = [avail EXCEPT ![avail_idx % NUM] = a]
      /\ head' = [head EXCEPT ![t] = a]
  BY <1>1, Zenon DEF Submit
<1>6. /\ nxt' = [nxt EXCEPT ![a] = b, ![b] = c, ![c] = 0]
      /\ more' = [more EXCEPT ![a] = TRUE, ![b] = TRUE, ![c] = FALSE]
  BY <1>5, Zenon DEF FillChain
<1>7. t \notin Busy /\ Busy' = Busy \cup {t}
  <2>1. /\ pc[t] = "alloc"
        /\ pc' = [pc EXCEPT ![t] = IF needs_reset THEN "failed" ELSE "wait"]
    BY Zenon DEF Submit
  <2> QED
    BY <2>1, Zenon DEF Busy, Submitted, TypeChains
<1>8. /\ head'[t] = a /\ nxt'[a] = b /\ nxt'[b] = c /\ more'[a] /\ more'[b]
      /\ Links(t)' = {a, b, c}
  BY <1>2, <1>4, <1>5, <1>6, Zenon DEF TypeChains, Links
<1>9. ASSUME NEW u \in Busy PROVE Kept(u) /\ Links(u) \cap free = {}
  <2>1. head[u] \in Desc /\ nxt[head[u]] \in Desc /\ Links(u) \cap free = {}
    BY Zenon DEF InvLinked, TypeChains
  <2>2. head[u] \notin free /\ nxt[head[u]] \notin free
    BY <2>1, Zenon DEF Links
  <2>3. head'[u] = head[u]
    BY <1>5, <1>7, Zenon DEF Busy, TypeChains
  <2>4. /\ nxt'[head[u]] = nxt[head[u]] /\ nxt'[nxt[head[u]]] = nxt[nxt[head[u]]]
        /\ more'[head[u]] = more[head[u]] /\ more'[nxt[head[u]]] = more[nxt[head[u]]]
    BY <1>4, <1>6, <2>1, <2>2, Zenon DEF TypeChains
  <2> QED
    BY <2>1, <2>3, <2>4, Zenon DEF Links, Kept
<1> QED
  BY <1>2, <1>4, <1>5, <1>7, <1>8, <1>9, Zenon

\* disk_command publishes a command.
LEMMA ChainSubmit ==
    ASSUME ChainInv, NEW t \in Tasks, Submit(t)
    PROVE  ChainInv'
<1> USE DEF ChainInv
<1>1. PICK a, b, c \in Desc :
        /\ a \in free /\ b \in free /\ c \in free /\ a /= b /\ a /= c /\ b /= c
        /\ free' = free \ {a, b, c}
        /\ FillChain(t, a, b, c)
        /\ head' = [head EXCEPT ![t] = a]
        /\ t \notin Busy /\ Busy' = Busy \cup {t}
        /\ head'[t] = a /\ nxt'[a] = b /\ nxt'[b] = c /\ more'[a] /\ more'[b]
        /\ Links(t)' = {a, b, c}
        /\ \A u \in Busy : Kept(u) /\ Links(u) \cap free = {}
  BY SubmitEffect
<1>2. /\ nxt' = [nxt EXCEPT ![a] = b, ![b] = c, ![c] = 0]
      /\ more' = [more EXCEPT ![a] = TRUE, ![b] = TRUE, ![c] = FALSE]
  BY <1>1, Zenon DEF FillChain
<1>3. /\ pc[t] = "alloc" /\ request_queue' = request_queue
      /\ pc' = [pc EXCEPT ![t] = IF needs_reset THEN "failed" ELSE "wait"]
  BY Zenon DEF Submit
<1>4. TypeChains'
  <2>1. 0 \in Desc
    BY NUMAssumption DEF Desc
  <2>2. free' \in SUBSET Desc /\ head' \in [Tasks -> Desc \cup {None}]
    BY <1>1, Zenon DEF TypeChains
  <2>3. nxt' \in [Desc -> Desc] /\ more' \in [Desc -> BOOLEAN]
    BY <1>2, <2>1, Zenon DEF TypeChains
  <2>4. pc' \in [Tasks -> PCs] /\ request_queue' \in Seq(Tasks)
    BY <1>3, Zenon DEF TypeChains, PCs
  <2> QED
    BY <2>2, <2>3, <2>4, Zenon DEF TypeChains
<1>5. InvLinked'
  <2>1. ASSUME NEW u \in Busy PROVE (head[u] \in Desc)' /\ (Links(u) \cap free)' = {}
    BY <1>1 DEF InvLinked, Kept
  <2>2. (Links(t) \cap free)' = {}
    BY <1>1, Zenon
  <2> QED
    BY <1>1, <2>1, <2>2 DEF InvLinked, Kept
<1>6. InvApart'
  <2>1. ASSUME NEW u \in Busy PROVE Links(u)' \cap Links(t)' = {}
    BY <1>1 DEF Kept
  <2> QED
    BY <1>1, <2>1 DEF InvApart, Kept
<1>7. InvCount'
  <2>1. IsFiniteSet(free) /\ IsFiniteSet(Busy)
    BY DescFacts, FS_Subset, Zenon DEF TypeChains, InvCount
  <2>2. Cardinality(free') = Cardinality(free) - 3
    BY <1>1, <2>1, ThreeOut
  <2>3. IsFiniteSet(Busy') /\ Cardinality(Busy') = Cardinality(Busy) + 1
    BY <1>1, <2>1, FS_AddElement, Zenon
  <2>4. Cardinality(free) \in Nat /\ Cardinality(Busy) \in Nat
    BY <2>1, FS_CardinalityType, Zenon
  <2> QED
    BY <2>2, <2>3, <2>4, NUMAssumption DEF InvCount
<1>8. InvAsleep'
  BY <1>3 DEF InvAsleep, TypeChains
<1> QED
  BY <1>4, <1>5, <1>6, <1>7, <1>8, Zenon

\* disk_command gives back the chain of its own command and no other.
LEMMA FinishEffect ==
    ASSUME ChainInv, NEW t \in Tasks, Finish(t)
    PROVE  /\ t \in Busy /\ Busy' = Busy \ {t}
           /\ Chain(head[t]) = Links(t) /\ Cardinality(Links(t)) = 3
           /\ Links(t) \in SUBSET Desc /\ Links(t) \cap free = {}
           /\ \A u \in Busy : u /= t => Kept(u) /\ Links(u) \cap Links(t) = {}
           /\ \A u \in Busy : u /= t => pc'[u] = pc[u]
           /\ \A u \in Tasks : pc'[u] \in {"alloc", "asleep"} => pc[u] \in {"alloc", "asleep"}
<1> USE DEF ChainInv
<1>1. PICK C : C = Links(t)
  BY Zenon
<1>2. pc[t] = "woken" /\ t \in Busy
  BY Zenon DEF Finish, Busy, Submitted
<1>3. Chain(head[t]) = C /\ Cardinality(C) = 3
  BY <1>1, <1>2, ChainFacts, Zenon
<1>4. /\ nxt' = [i \in Desc |-> IF i \in C THEN 0 ELSE nxt[i]]
      /\ more' = [i \in Desc |-> IF i \in C THEN FALSE ELSE more[i]]
      /\ pc' = [Woken(3, pc) EXCEPT ![t] = "idle"]
      /\ head' = [head EXCEPT ![t] = None]
  BY <1>3, Zenon DEF Finish
<1>5. /\ Woken(3, pc) \in [Tasks -> PCs]
      /\ \A u \in Tasks : pc[u] /= "asleep" => Woken(3, pc)[u] = pc[u]
      /\ \A u \in Tasks : pc[u] = "asleep" => Woken(3, pc)[u] \in {"alloc", "asleep"}
  BY WokenFacts, Zenon
<1>6. Busy' = Busy \ {t}
  BY <1>2, <1>4, <1>5, Zenon DEF Busy, Submitted, TypeChains, PCs
<1>7. C \in SUBSET Desc /\ C \cap free = {}
  BY <1>1, <1>2 DEF InvLinked, TypeChains, Links
<1>8. ASSUME NEW u \in Busy, u /= t PROVE Kept(u) /\ Links(u) \cap C = {}
  <2>1. head[u] \in Desc /\ nxt[head[u]] \in Desc /\ Links(u) \cap C = {}
    BY <1>1, <1>2, <1>8, Zenon DEF InvLinked, TypeChains, InvApart
  <2>2. head[u] \notin C /\ nxt[head[u]] \notin C
    BY <2>1, Zenon DEF Links
  <2>3. head'[u] = head[u]
    BY <1>4, <1>8, Zenon DEF Busy, TypeChains
  <2>4. /\ nxt'[head[u]] = nxt[head[u]] /\ nxt'[nxt[head[u]]] = nxt[nxt[head[u]]]
        /\ more'[head[u]] = more[head[u]] /\ more'[nxt[head[u]]] = more[nxt[head[u]]]
    BY <1>4, <2>1, <2>2, Zenon DEF TypeChains
  <2> QED
    BY <2>1, <2>3, <2>4, Zenon DEF Links, Kept
<1>9. \A u \in Busy : u /= t => pc'[u] = pc[u]
  BY <1>4, <1>5, Zenon DEF Busy, Submitted
<1>10. \A u \in Tasks : pc'[u] \in {"alloc", "asleep"} => pc[u] \in {"alloc", "asleep"}
  BY <1>4, <1>5, Zenon
<1> QED
  BY <1>1, <1>2, <1>3, <1>6, <1>7, <1>8, <1>9, <1>10, Zenon

\* disk_command returns its descriptors and wakes three sleepers.
LEMMA ChainFinish ==
    ASSUME ChainInv, NEW t \in Tasks, Finish(t)
    PROVE  ChainInv'
<1> USE DEF ChainInv
<1>1. PICK C : C = Links(t)
  BY Zenon
<1>2. pc[t] = "woken"
  BY Zenon DEF Finish
<1>3. /\ t \in Busy /\ Busy' = Busy \ {t}
      /\ Chain(head[t]) = C /\ Cardinality(C) = 3
      /\ C \in SUBSET Desc /\ C \cap free = {}
      /\ \A u \in Busy : u /= t => Kept(u) /\ Links(u) \cap C = {}
  BY <1>1, FinishEffect, Zenon
<1>4. /\ free' = free \cup C
      /\ nxt' = [i \in Desc |-> IF i \in C THEN 0 ELSE nxt[i]]
      /\ more' = [i \in Desc |-> IF i \in C THEN FALSE ELSE more[i]]
      /\ request_queue' = Sleepers(3)
      /\ pc' = [Woken(3, pc) EXCEPT ![t] = "idle"]
      /\ head' = [head EXCEPT ![t] = None]
  BY <1>3, Zenon DEF Finish
<1>5. /\ Sleepers(3) \in Seq(Tasks)
      /\ Woken(3, pc) \in [Tasks -> PCs]
      /\ \A i \in DOMAIN Sleepers(3) : Woken(3, pc)[Sleepers(3)[i]] = "asleep"
      /\ \A i, j \in DOMAIN Sleepers(3) : Sleepers(3)[i] = Sleepers(3)[j] => i = j
      /\ \A u \in Tasks : pc[u] /= "asleep" => Woken(3, pc)[u] = pc[u]
  BY WokenFacts, Zenon
<1>6. TypeChains'
  <2>1. 0 \in Desc
    BY NUMAssumption DEF Desc
  <2>2. nxt' \in [Desc -> Desc] /\ more' \in [Desc -> BOOLEAN]
    BY <1>4, <2>1, Zenon DEF TypeChains
  <2>3. pc' \in [Tasks -> PCs] /\ head' \in [Tasks -> Desc \cup {None}]
    BY <1>4, <1>5, Zenon DEF TypeChains, PCs
  <2> QED
    BY <1>3, <1>4, <1>5, <2>2, <2>3, Zenon DEF TypeChains
<1>7. InvLinked'
  <2>1. ASSUME NEW u \in Busy, u /= t PROVE (head[u] \in Desc)' /\ (Links(u) \cap free)' = {}
    <3>1. head[u] \in Desc /\ Links(u) \cap free = {}
      BY Zenon DEF InvLinked
    <3>2. head'[u] = head[u] /\ Links(u)' = Links(u) /\ Links(u) \cap C = {}
      BY <1>3, <2>1, Zenon DEF Kept
    <3> QED
      BY <1>4, <3>1, <3>2, Zenon
  <2> QED
    BY <1>3, <2>1 DEF InvLinked, Kept
<1>8. InvApart'
  BY <1>3, Zenon DEF InvApart, Kept
<1>9. InvCount'
  <2>1. IsFiniteSet(free) /\ IsFiniteSet(Busy)
    BY DescFacts, FS_Subset, Zenon DEF TypeChains, InvCount
  <2>2. Cardinality(free') = Cardinality(free) + 3
    <3>1. PICK a, b, c, F : a = head[t] /\ b = nxt[head[t]] /\ c = nxt[nxt[head[t]]] /\ F = free
      BY Zenon
    <3>2. C = {a, b, c} /\ a /= b /\ a /= c /\ b /= c
      BY <1>1, <1>3, <3>1, Zenon DEF InvLinked, Links
    <3>3. /\ IsFiniteSet(F) /\ a \notin F /\ b \notin F /\ c \notin F
          /\ free' = F \cup {a, b, c}
      BY <1>3, <1>4, <2>1, <3>1, <3>2, Zenon
    <3>4. Cardinality(F \cup {a, b, c}) = Cardinality(F) + 3
      BY <3>2, <3>3, ThreeIn, Zenon
    <3> QED
      BY <3>1, <3>3, <3>4, Zenon
  <2>3. IsFiniteSet(Busy') /\ Cardinality(Busy') = Cardinality(Busy) - 1
    BY <1>3, <2>1, FS_RemoveElement, Zenon
  <2>4. Cardinality(free) \in Nat /\ Cardinality(Busy) \in Nat
    BY <2>1, FS_CardinalityType, Zenon
  <2> QED
    BY <2>2, <2>3, <2>4, NUMAssumption DEF InvCount
<1>10. InvAsleep'
  <2>1. PICK q, w : q = Sleepers(3) /\ w = Woken(3, pc)
    BY Zenon
  <2>2. /\ q \in Seq(Tasks) /\ w \in [Tasks -> PCs] /\ w[t] = "woken"
        /\ \A i \in DOMAIN q : w[q[i]] = "asleep"
        /\ \A i, j \in DOMAIN q : q[i] = q[j] => i = j
    BY <1>2, <1>5, <2>1, Zenon
  <2>3. request_queue' = q /\ pc' = [w EXCEPT ![t] = "idle"]
    BY <1>4, <2>1, Zenon
  <2>4. \A i \in DOMAIN q : q[i] \in Tasks /\ q[i] /= t
    BY <2>2
  <2> QED
    BY <2>2, <2>3, <2>4, Zenon DEF InvAsleep
<1> QED
  BY <1>6, <1>7, <1>8, <1>9, <1>10, Zenon

\* disk_command finds too few descriptors and goes to sleep.
LEMMA ChainAllocFails ==
    ASSUME ChainInv, NEW t \in Tasks, AllocFails(t)
    PROVE  ChainInv'
<1> USE DEF ChainInv
<1>1. PICK n \in Nat : n = Cardinality(free)
  BY DescFacts, FS_Subset, FS_CardinalityType, Zenon DEF TypeChains
<1>2. PICK q, w : q = Sleepers(n) /\ w = Woken(n, pc)
  BY Zenon
<1>3. /\ pc[t] = "alloc"
      /\ request_queue' = Append(q, t)
      /\ pc' = [w EXCEPT ![t] = "asleep"]
      /\ UNCHANGED <<free, nxt, more, head>>
  BY <1>1, <1>2, Zenon DEF AllocFails, chainVars
<1>4. /\ q \in Seq(Tasks) /\ w \in [Tasks -> PCs]
      /\ \A i \in DOMAIN q : w[q[i]] = "asleep"
      /\ \A i, j \in DOMAIN q : q[i] = q[j] => i = j
      /\ \A u \in Tasks : pc[u] /= "asleep" => w[u] = pc[u]
      /\ \A u \in Tasks : pc[u] = "asleep" => w[u] \in {"alloc", "asleep"}
  BY <1>2, WokenFacts, Zenon
<1>5. Busy' = Busy
  BY <1>3, <1>4, Zenon DEF Busy, Submitted, TypeChains, PCs
<1>6. /\ Append(q, t) \in Seq(Tasks)
      /\ DOMAIN Append(q, t) = DOMAIN q \cup {Len(q) + 1}
      /\ \A i \in DOMAIN q : Append(q, t)[i] = q[i] /\ i /= Len(q) + 1
      /\ Append(q, t)[Len(q) + 1] = t
  BY <1>4
<1>7. TypeChains'
  BY <1>3, <1>4, <1>6, Zenon DEF TypeChains, PCs
<1>8. InvLinked' /\ InvApart' /\ InvCount'
  BY <1>3, <1>5, Zenon DEF InvLinked, InvApart, InvCount, Links
<1>9. InvAsleep'
  <2>1. \A i \in DOMAIN q : q[i] \in Tasks /\ q[i] /= t
    BY <1>3, <1>4
  <2>2. pc' \in [Tasks -> PCs] /\ pc'[t] = "asleep" /\ \A i \in DOMAIN q : pc'[q[i]] = "asleep"
    BY <1>3, <1>4, <2>1, Zenon DEF PCs
  <2>3. PICK p : p = Append(q, t)
    BY Zenon
  <2>4. /\ request_queue' = p /\ DOMAIN p = DOMAIN q \cup {Len(q) + 1} /\ p[Len(q) + 1] = t
        /\ \A i \in DOMAIN q : p[i] = q[i]
    BY <1>3, <1>6, <2>3, Zenon
  <2>5. \A i \in DOMAIN p : pc'[p[i]] = "asleep"
    BY <2>2, <2>4, Zenon
  <2>6. \A i, j \in DOMAIN p : p[i] = p[j] => i = j
    BY <1>4, <2>1, <2>4, Zenon
  <2> QED
    BY <2>4, <2>5, <2>6, Zenon DEF InvAsleep
<1> QED
  BY <1>7, <1>8, <1>9, Zenon

\* Every step of the driver and of the device keeps the chains intact.
LEMMA ChainNext == ChainInv /\ [Next]_vars => ChainInv'
<1> SUFFICES ASSUME ChainInv, [Next]_vars PROVE ChainInv'
  BY Zenon
<1>1. ASSUME NEW t \in Tasks, NEW r \in Requests, Command(t, r) PROVE ChainInv'
  BY <1>1, ChainFrame, Zenon DEF Command, chainVars, ChainInv, TypeChains, PCs, Submitted
<1>2. ASSUME IntrComplete PROVE ChainInv'
  BY <1>2, ChainFrame, Zenon DEF IntrComplete, chainVars, ChainInv, TypeChains, PCs, Submitted
<1>3. ASSUME UNCHANGED <<chainVars, request_queue, pc, head>> PROVE ChainInv'
  BY <1>3, ChainFrame, Zenon DEF chainVars, ChainInv, TypeChains, Submitted
<1>4. IntrEnter \/ IntrLeave \/ Device \/ DeviceNeedsReset \/ UNCHANGED vars
        => UNCHANGED <<chainVars, request_queue, pc, head>>
  BY Zenon DEF IntrEnter, IntrLeave, Device, DeviceTake, DeviceComplete, DeviceNeedsReset, vars
<1> QED
  BY <1>1, <1>2, <1>3, <1>4, ChainSubmit, ChainFinish, ChainAllocFails, Zenon DEF Next, TaskStep, Intr

\* The driver's descriptors stay partitioned between the free ones and the
\* chains of the commands in flight, whatever the order of submissions,
\* completions and wake-ups (alloc_descs, free_chain, disk_command).
THEOREM DescriptorsCorrect == Spec => []DescriptorsOwned
<1>1. ChainInv => DescriptorsOwned
  <2> SUFFICES ASSUME ChainInv PROVE DescriptorsOwned
    BY Zenon
  <2>1. \A t \in Tasks : Submitted(t) => t \in Busy
    BY Zenon DEF Busy
  <2>2. \A t \in Busy : Chain(head[t]) = Links(t) /\ Cardinality(Chain(head[t])) = 3
    BY ChainFacts, Zenon DEF ChainInv
  <2>3. \A t \in Busy : Links(t) \cap free = {}
    BY Zenon DEF ChainInv, InvLinked
  <2>4. Cardinality(free) + 3 * Cardinality({t \in Tasks : Submitted(t)}) = NUM
    BY Zenon DEF ChainInv, InvCount, Busy
  <2>5. \A t, u \in Busy : t /= u => Links(t) \cap Links(u) = {}
    BY Zenon DEF ChainInv, InvApart
  <2> QED
    BY <2>1, <2>2, <2>3, <2>4, <2>5, Zenon DEF DescriptorsOwned
<1> QED
  BY <1>1, ChainInit, ChainNext, PTL DEF Spec

-----------------------------------------------------------------------------
(* Rings: entries between two free-running indices *)

\* A multiple of the ring's size does not change the slot.
LEMMA ModShift ==
    ASSUME NEW x \in Nat, NEW n \in Nat, n > 0, NEW k \in Nat
    PROVE  (x + k * n) % n = x % n
<1>1. ASSUME NEW q \in Nat, NEW r \in Nat, r < n PROVE (q * n + r) % n = r
  BY <1>1
<1>2. PICK q \in Nat, r \in Nat : r < n /\ x = q * n + r /\ r = x % n
  <2>1. x \div n \in Nat /\ x % n \in Nat /\ x % n < n /\ x = (x \div n) * n + (x % n)
    OBVIOUS
  <2> QED
    BY <2>1, Zenon
<1>3. q + k \in Nat /\ x + k * n = (q + k) * n + r
  BY <1>2
<1> QED
  BY <1>1, <1>2, <1>3, Zenon

\* Fewer than n consecutive indices have different slots.
LEMMA ModApart ==
    ASSUME NEW x \in Nat, NEW y \in Nat, NEW n \in Nat, x < y, y < x + n
    PROVE  x % n /= y % n
<1>1. x \div n \in Nat /\ x = n * (x \div n) + (x % n) /\ x % n \in Nat
  OBVIOUS
<1>2. y \div n \in Nat /\ y = n * (y \div n) + (y % n) /\ y % n \in Nat
  OBVIOUS
<1>3. ASSUME NEW p \in Nat, NEW q \in Nat, n * p < n * q, n * q < n * p + n
      PROVE  FALSE
  <2>1. CASE p < q
    <3>1. PICK d \in Nat : q = p + 1 + d
      BY <2>1
    <3>2. n * q = n * p + n + n * d /\ n * d \in Nat
      BY <3>1
    <3> QED
      BY <3>2, <1>3
  <2>2. CASE q <= p
    <3>1. PICK d \in Nat : p = q + d
      BY <2>2
    <3>2. n * p = n * q + n * d /\ n * d \in Nat
      BY <3>1
    <3> QED
      BY <3>2, <1>3
  <2> QED
    BY <2>1, <2>2
<1>4. SUFFICES ASSUME x % n = y % n PROVE FALSE
  BY Zenon
<1>5. n * (x \div n) < n * (y \div n) /\ n * (y \div n) < n * (x \div n) + n
  BY <1>1, <1>2, <1>4
<1> QED
  BY <1>1, <1>2, <1>3, <1>5, Zenon

\* The 16-bit indices and the rings: an index steps by one or wraps, and a
\* wrapped index has the slot it would have without wrapping.
LEMMA IndexFacts ==
    /\ IdxMod \in Nat /\ NUM \in Nat /\ NUM >= 3 /\ IdxMod >= NUM
    /\ \A i \in Indices : i \in Nat /\ Succ(i) \in Indices
                          /\ Succ(i) = IF i + 1 = IdxMod THEN 0 ELSE i + 1
    /\ \A x \in Nat : (x + IdxMod) % NUM = x % NUM /\ x % NUM \in Desc
<1>1. PICK k \in 1..IdxMod : IdxMod = k * NUM
  BY IdxModAssumption, Zenon
<1>2. IdxMod \in Nat /\ NUM \in Nat /\ NUM >= 3 /\ k \in Nat /\ k >= 1
  BY <1>1, IdxModAssumption, NUMAssumption
<1>3. IdxMod >= NUM
  BY <1>1, <1>2
<1>4. ASSUME NEW i \in Indices
      PROVE  i \in Nat /\ Succ(i) \in Indices /\ Succ(i) = IF i + 1 = IdxMod THEN 0 ELSE i + 1
  <2>1. i \in Nat /\ i < IdxMod
    BY <1>2 DEF Indices
  <2>2. CASE i + 1 = IdxMod
    <3>1. IdxMod % IdxMod = 0
      BY <1>2, <1>3
    <3> QED
      BY <1>2, <1>3, <2>1, <2>2, <3>1 DEF Succ, Indices
  <2>3. CASE i + 1 < IdxMod
    <3>1. (i + 1) % IdxMod = i + 1
      BY <1>2, <2>1, <2>3
    <3> QED
      BY <1>2, <1>3, <2>1, <2>3, <3>1 DEF Succ, Indices
  <2> QED
    BY <1>2, <2>1, <2>2, <2>3
<1>5. ASSUME NEW x \in Nat PROVE (x + IdxMod) % NUM = x % NUM /\ x % NUM \in Desc
  <2>1. (x + IdxMod) % NUM = x % NUM
    <3>1. NUM > 0
      BY <1>2
    <3>2. (x + k * NUM) % NUM = x % NUM
      BY <1>2, <3>1, ModShift, Zenon
    <3> QED
      BY <1>1, <3>2, Zenon
  <2>2. x % NUM \in 0..(NUM - 1)
    BY <1>2
  <2> QED
    BY <2>1, <2>2, Zenon DEF Desc
<1> QED
  BY <1>2, <1>3, <1>4, <1>5, Zenon

\* The number of entries, and the slots they are in.
LEMMA SpanFacts ==
    ASSUME NEW from \in Indices, NEW to \in Indices
    PROVE  /\ Span(from, to) \in Nat /\ Span(from, to) < IdxMod
           /\ Span(from, to) = 0 <=> from = to
           /\ \A k \in Nat : Slot(from, k) \in Desc
           /\ Slot(from, Span(from, to)) = to % NUM
           /\ Slot(from, 0) = from % NUM
           /\ \A j, k \in Nat : j < k /\ k < NUM => Slot(from, j) /= Slot(from, k)
<1>1. from \in Nat /\ to \in Nat /\ from < IdxMod /\ to < IdxMod /\ IdxMod \in Nat /\ NUM \in Nat
  BY IndexFacts DEF Indices
<1>2. /\ Span(from, to) \in Nat /\ Span(from, to) < IdxMod
      /\ Span(from, to) = 0 <=> from = to
      /\ from + Span(from, to) = to \/ from + Span(from, to) = to + IdxMod
  BY <1>1 DEF Span
<1>3. Slot(from, Span(from, to)) = to % NUM
  <2>1. (to + IdxMod) % NUM = to % NUM
    BY <1>1, IndexFacts, Zenon
  <2> QED
    BY <1>2, <2>1, Zenon DEF Slot
<1>4. ASSUME NEW k \in Nat PROVE Slot(from, k) \in Desc
  <2>1. from + k \in Nat
    BY <1>1
  <2> QED
    BY <2>1, IndexFacts, Zenon DEF Slot
<1>5. ASSUME NEW j \in Nat, NEW k \in Nat, j < k, k < NUM PROVE Slot(from, j) /= Slot(from, k)
  <2>1. from + j \in Nat /\ from + k \in Nat /\ from + j < from + k /\ from + k < from + j + NUM
    BY <1>1, <1>5
  <2> QED
    BY <1>1, <2>1, ModApart, Zenon DEF Slot
<1>6. from + 0 = from
  BY <1>1
<1> QED
  BY <1>2, <1>3, <1>4, <1>5, <1>6, Zenon DEF Slot

\* A ring holds no more entries than there are chains to put into it.
LEMMA WindowBound ==
    ASSUME NEW ring, NEW from \in Indices, NEW to \in Indices, Distinct(ring, from, to),
           NEW S, IsFiniteSet(S), Window(ring, from, to) \subseteq S
    PROVE  Span(from, to) <= Cardinality(S)
<1>1. PICK n : n = Span(from, to)
  BY Zenon
<1>2. n \in Nat
  BY <1>1, SpanFacts, Zenon
<1> DEFINE f == [k \in 0..(n - 1) |-> ring[Slot(from, k)]]
<1>3. f \in [0..(n - 1) -> S]
  BY <1>1, Zenon DEF Window
<1>4. \A j, k \in 0..(n - 1) : f[j] = f[k] => j = k
  BY <1>1, Zenon DEF Distinct
<1>5. IsFiniteSet(0..(n - 1)) /\ Cardinality(0..(n - 1)) = n
  <2>1. 0 \in Int /\ n - 1 \in Int
    BY <1>2
  <2>2. /\ IsFiniteSet(0..(n - 1))
        /\ Cardinality(0..(n - 1)) = IF 0 > n - 1 THEN 0 ELSE n - 1 - 0 + 1
    BY <2>1, FS_Interval, Zenon
  <2> QED
    BY <1>2, <2>2
<1> HIDE DEF f
<1>6. ~(Cardinality(S) < n)
  <2> SUFFICES ASSUME Cardinality(S) < n PROVE FALSE
    BY Zenon
  <2>1. PICK D : D = 0..(n - 1)
    BY Zenon
  <2>2. IsFiniteSet(D) /\ Cardinality(S) < Cardinality(D) /\ f \in [D -> S]
    BY <1>3, <1>5, <2>1, Zenon
  <2>3. \E j, k \in D : j /= k /\ f[j] = f[k]
    BY <2>2, FS_PigeonHole, Zenon
  <2> QED
    BY <1>4, <2>1, <2>3, Zenon
<1>7. Cardinality(S) \in Nat
  BY FS_CardinalityType, Zenon
<1> QED
  BY <1>1, <1>2, <1>6, <1>7

\* Writing the entry at the end of a ring that is not full, and advancing the
\* end, adds just that entry (avail->idx by the driver, used->idx by the device).
LEMMA WindowPush ==
    ASSUME NEW ring, NEW next, NEW from \in Indices, NEW to \in Indices, NEW h,
           next[to % NUM] = h, \A i \in Desc : i /= to % NUM => next[i] = ring[i],
           Distinct(ring, from, to), h \notin Window(ring, from, to), Span(from, to) + 1 < NUM
    PROVE  /\ Distinct(next, from, Succ(to))
           /\ Window(next, from, Succ(to)) = Window(ring, from, to) \cup {h}
<1>1. PICK n : n = Span(from, to)
  BY Zenon
<1>2. n \in Nat /\ n + 1 < NUM /\ Slot(from, n) = to % NUM /\ to % NUM \in Desc
  BY <1>1, SpanFacts
<1>3. Span(from, Succ(to)) = n + 1
  <2>1. /\ from \in Nat /\ to \in Nat /\ from < IdxMod /\ to < IdxMod /\ IdxMod \in Nat
        /\ n + 1 < IdxMod
    BY <1>2, IndexFacts DEF Indices
  <2>2. Succ(to) = IF to + 1 = IdxMod THEN 0 ELSE to + 1
    BY IndexFacts, Zenon
  <2>3. n = IF from <= to THEN to - from ELSE to + IdxMod - from
    BY <1>1, Zenon DEF Span
  <2> QED
    BY <2>1, <2>2, <2>3 DEF Span
<1>4. \A k \in 0..(n - 1) : Slot(from, k) \in Desc /\ Slot(from, k) /= to % NUM
  <2>1. \A k \in 0..(n - 1) : k \in Nat /\ k < n /\ n < NUM
    BY <1>2, IndexFacts
  <2> QED
    BY <1>2, <2>1, SpanFacts
<1>5. next[Slot(from, n)] = h /\ \A k \in 0..(n - 1) : next[Slot(from, k)] = ring[Slot(from, k)]
  BY <1>2, <1>4, Zenon
<1>6. 0..(n + 1 - 1) = 0..(n - 1) \cup {n} /\ n \notin 0..(n - 1)
  BY <1>2
<1>7. \A k \in 0..(n - 1) : ring[Slot(from, k)] /= h
  BY <1>1, Zenon DEF Window
<1>8. Distinct(next, from, Succ(to))
  BY <1>1, <1>3, <1>5, <1>6, <1>7 DEF Distinct
<1>9. Window(next, from, Succ(to)) = {next[Slot(from, k)] : k \in 0..(n - 1) \cup {n}}
  BY <1>3, <1>6 DEF Window
<1>10. {next[Slot(from, k)] : k \in 0..(n - 1) \cup {n}} = Window(ring, from, to) \cup {h}
  BY <1>1, <1>5, Zenon DEF Window
<1> QED
  BY <1>8, <1>9, <1>10, Zenon

\* Reading the first entry and advancing the start takes out just that entry
\* (the device in avail, virtio_disk_intr in used).
LEMMA WindowPop ==
    ASSUME NEW ring, NEW from \in Indices, NEW to \in Indices, from /= to,
           NEW h, h = ring[from % NUM], Distinct(ring, from, to)
    PROVE  /\ h \in Window(ring, from, to)
           /\ Distinct(ring, Succ(from), to)
           /\ Window(ring, Succ(from), to) = Window(ring, from, to) \ {h}
<1>1. PICK n : n = Span(from, to)
  BY Zenon
<1>2. n \in Nat /\ n /= 0 /\ h = ring[Slot(from, 0)]
  BY <1>1, SpanFacts, Zenon
<1>3. Span(Succ(from), to) = n - 1
  <2>1. from \in Nat /\ to \in Nat /\ from < IdxMod /\ to < IdxMod /\ IdxMod \in Nat
    BY IndexFacts DEF Indices
  <2>2. Succ(from) = IF from + 1 = IdxMod THEN 0 ELSE from + 1
    BY IndexFacts, Zenon
  <2>3. n = IF from <= to THEN to - from ELSE to + IdxMod - from
    BY <1>1, Zenon DEF Span
  <2> QED
    BY <2>1, <2>2, <2>3 DEF Span
<1>4. ASSUME NEW k \in Nat PROVE Slot(Succ(from), k) = Slot(from, k + 1)
  <2>1. from \in Nat /\ IdxMod \in Nat /\ Succ(from) = IF from + 1 = IdxMod THEN 0 ELSE from + 1
    BY IndexFacts, Zenon
  <2>2. CASE from + 1 = IdxMod
    <3>1. Succ(from) + k = k /\ from + (k + 1) = k + IdxMod
      BY <2>1, <2>2
    <3>2. (k + IdxMod) % NUM = k % NUM
      BY IndexFacts, Zenon
    <3> QED
      BY <3>1, <3>2, Zenon DEF Slot
  <2>3. CASE from + 1 /= IdxMod
    <3>1. Succ(from) + k = from + (k + 1)
      BY <2>1, <2>3
    <3> QED
      BY <3>1, Zenon DEF Slot
  <2> QED
    BY <2>2, <2>3, Zenon
<1>5. \A j, k \in 0..(n - 1) : ring[Slot(from, j)] = ring[Slot(from, k)] => j = k
  BY <1>1, Zenon DEF Distinct
<1>6. \A k \in 0..(n - 1 - 1) : /\ k \in Nat /\ k + 1 \in 0..(n - 1) /\ k + 1 /= 0
                                /\ ring[Slot(Succ(from), k)] = ring[Slot(from, k + 1)]
  BY <1>2, <1>4
<1>7. Distinct(ring, Succ(from), to)
  <2>1. ASSUME NEW j \in 0..(n - 1 - 1), NEW k \in 0..(n - 1 - 1),
               ring[Slot(Succ(from), j)] = ring[Slot(Succ(from), k)]
        PROVE  j = k
    <3>1. j + 1 = k + 1 /\ j \in Nat /\ k \in Nat
      BY <1>5, <1>6, <2>1, Zenon
    <3> QED
      BY <3>1
  <2> QED
    BY <1>3, <2>1, Zenon DEF Distinct
<1>8. 0 \in 0..(n - 1)
  BY <1>2
<1>9. h \in Window(ring, from, to)
  BY <1>1, <1>2, <1>8, Zenon DEF Window
<1>10. ASSUME NEW e \in Window(ring, Succ(from), to) PROVE e \in Window(ring, from, to) \ {h}
  <2>1. PICK k \in 0..(n - 1 - 1) : e = ring[Slot(Succ(from), k)]
    BY <1>3, Zenon DEF Window
  <2>2. k + 1 \in 0..(n - 1) /\ k + 1 /= 0 /\ e = ring[Slot(from, k + 1)]
    BY <1>6, <2>1, Zenon
  <2>3. e /= h
    BY <1>2, <1>5, <1>8, <2>2, Zenon
  <2> QED
    BY <1>1, <2>2, <2>3, Zenon DEF Window
<1>11. ASSUME NEW e \in Window(ring, from, to) \ {h} PROVE e \in Window(ring, Succ(from), to)
  <2>1. PICK k \in 0..(n - 1) : e = ring[Slot(from, k)]
    BY <1>1, Zenon DEF Window
  <2>2. k /= 0
    BY <1>2, <2>1, Zenon
  <2>3. PICK j \in 0..(n - 1 - 1) : k = j + 1
    <3>1. k - 1 \in 0..(n - 1 - 1) /\ k = (k - 1) + 1
      BY <1>2, <2>2
    <3> QED
      BY <3>1, Zenon
  <2>4. e = ring[Slot(Succ(from), j)]
    BY <1>6, <2>1, <2>3, Zenon
  <2> QED
    BY <1>3, <2>3, <2>4, Zenon DEF Window
<1> QED
  BY <1>7, <1>9, <1>10, <1>11, Zenon

-----------------------------------------------------------------------------
(* Where a command is *)

\* The first descriptor of a chain is that of one command, and not free.
LEMMA HeadFacts ==
    ASSUME ChainInv
    PROVE  /\ \A t, u \in Busy : head[t] = head[u] => t = u
           /\ \A t \in Busy : head[t] \in Desc /\ head[t] \notin free
           /\ Heads \subseteq Desc /\ Heads \cap free = {}
<1>1. \A t \in Busy : head[t] \in Links(t)
  BY Zenon DEF Links
<1>2. \A t, u \in Busy : head[t] = head[u] => t = u
  BY <1>1, Zenon DEF ChainInv, InvApart
<1>3. \A t \in Busy : head[t] \in Desc /\ head[t] \notin free
  BY <1>1, Zenon DEF ChainInv, InvLinked
<1> QED
  BY <1>2, <1>3, Zenon DEF Heads

\* open() leaves empty rings.
LEMMA RingInit == Init => RingInv
<1> SUFFICES ASSUME Init PROVE RingInv
  BY Zenon
<1>1. Busy = {}
  BY Zenon DEF Init, Busy, Submitted
<1>2. 0 \in Indices /\ 0 \in Desc
  BY IndexFacts DEF Desc, Indices
<1>3. TypeRings
  <2>1. <<>> \in Seq(Requests)
    OBVIOUS
  <2> QED
    BY <1>2, <2>1, Zenon DEF Init, TypeRings
<1>4. Span(0, 0) = 0 /\ 0..(0 - 1) = {}
  BY <1>2, SpanFacts
<1>5. Published = {} /\ Completed = {}
  BY <1>4, Zenon DEF Init, Published, Completed, Window
<1>6. Distinct(avail, taken, avail_idx) /\ Distinct(used, used_idx, used_end)
  BY <1>4, Zenon DEF Init, Distinct
<1>7. InvPlaces
  BY <1>5, <1>6, Zenon DEF InvPlaces, Init
<1>8. InvAddresses
  BY <1>1, Zenon DEF InvAddresses
<1>9. InvProgress
  <2>1. \A t \in Tasks : served[t] = <<>> /\ Len(<<>>) <= 1 /\ pc[t] = "idle"
    BY DEF Init
  <2> QED
    BY <1>1, <2>1, Zenon DEF InvProgress
<1> QED
  BY <1>3, <1>7, <1>8, <1>9, Zenon DEF RingInv

\* A step that leaves the rings, the info entries and the submitted commands
\* alone; a coroutine may go to sleep for descriptors or be woken.
LEMMA RingFrame ==
    ASSUME RingInv, UNCHANGED <<nxt, ops, buffer, reply, avail, avail_idx, taken, serving, used,
                                used_end, used_idx, done, status, served, req, head>>,
           Busy' = Busy,
           \A t \in Busy : pc'[t] = pc[t],
           \A t \in Tasks : pc'[t] \in {"alloc", "asleep"} => pc[t] \in {"alloc", "asleep"}
    PROVE  RingInv'
<1>1. TypeRings' /\ InvAddresses'
  BY Zenon DEF RingInv, TypeRings, InvAddresses
<1>2. Published' = Published /\ Completed' = Completed /\ Heads' = Heads
  BY Zenon DEF Published, Completed, Window, Slot, Heads
<1>3. InvPlaces'
  BY <1>2, Zenon DEF RingInv, InvPlaces, Distinct, Slot
<1>4. InvProgress'
  BY <1>2, Zenon DEF RingInv, InvProgress
<1> QED
  BY <1>1, <1>3, <1>4, Zenon DEF RingInv

\* disk_command begins with nothing served.
LEMMA RingCommand ==
    ASSUME ChainInv, RingInv, NEW t \in Tasks, NEW r \in Requests, Command(t, r)
    PROVE  RingInv'
<1>1. /\ pc[t] = "idle" /\ pc' = [pc EXCEPT ![t] = "alloc"]
      /\ req' = [req EXCEPT ![t] = r] /\ served' = [served EXCEPT ![t] = <<>>]
      /\ UNCHANGED <<nxt, ops, buffer, reply, avail, avail_idx, taken, serving, used,
                     used_end, used_idx, done, status, head>>
  BY Zenon DEF Command, chainVars
<1>2. Busy' = Busy /\ t \notin Busy /\ \A u \in Busy : u \in Tasks
  BY <1>1, Zenon DEF Busy, Submitted, ChainInv, TypeChains
<1>3. \A u \in Busy : req'[u] = req[u] /\ served'[u] = served[u] /\ pc'[u] = pc[u]
  BY <1>1, <1>2, Zenon DEF ChainInv, TypeChains, RingInv, TypeRings
<1>4. TypeRings'
  <2>1. <<>> \in Seq(Requests)
    OBVIOUS
  <2> QED
    BY <1>1, <2>1, Zenon DEF RingInv, TypeRings
<1>5. InvAddresses'
  BY <1>1, <1>2, <1>3, Zenon DEF RingInv, InvAddresses
<1>6. Published' = Published /\ Completed' = Completed /\ Heads' = Heads
  BY <1>1, <1>2, Zenon DEF Published, Completed, Window, Slot, Heads
<1>7. InvPlaces'
  BY <1>1, <1>6, Zenon DEF RingInv, InvPlaces, Distinct, Slot
<1>8. InvProgress'
  <2>1. ASSUME NEW u \in Tasks
        PROVE  /\ pc'[u] \in {"alloc", "asleep"} => served'[u] = <<>> /\ req'[u] \in Requests
               /\ Len(served'[u]) <= 1
    <3>1. CASE u = t
      BY <1>1, <3>1 DEF RingInv, TypeRings
    <3>2. CASE u /= t
      BY <1>1, <3>2, Zenon DEF RingInv, TypeRings, InvProgress, ChainInv, TypeChains
    <3> QED
      BY <3>1, <3>2, Zenon
  <2> QED
    BY <1>1, <1>2, <1>3, <1>6, <2>1 DEF RingInv, InvProgress
<1> QED
  BY <1>4, <1>5, <1>7, <1>8, Zenon DEF RingInv

\* disk_command publishes a chain that no ring and no device holds.
LEMMA RingSubmit ==
    ASSUME ChainInv, RingInv, NEW t \in Tasks, Submit(t)
    PROVE  RingInv'
<1>1. PICK a, b, c \in Desc :
        /\ a \in free /\ b \in free /\ c \in free /\ a /= b /\ a /= c /\ b /= c
        /\ FillChain(t, a, b, c)
        /\ status' = [status EXCEPT ![a] = FALSE]
        /\ done' = [done EXCEPT ![a] = FALSE]
        /\ avail' = [avail EXCEPT ![avail_idx % NUM] = a]
        /\ t \notin Busy /\ Busy' = Busy \cup {t}
        /\ head'[t] = a /\ nxt'[a] = b /\ nxt'[b] = c
        /\ \A u \in Busy : Kept(u) /\ Links(u) \cap free = {}
  BY SubmitEffect, ZenonT(60)
<1>2. /\ ops' = [ops EXCEPT ![a] = req[t]]
      /\ buffer' = [buffer EXCEPT ![b] = t]
      /\ reply' = [reply EXCEPT ![c] = a]
  BY <1>1, Zenon DEF FillChain
<1>3. /\ pc[t] = "alloc" /\ avail_idx' = Succ(avail_idx)
      /\ pc' = [pc EXCEPT ![t] = IF needs_reset THEN "failed" ELSE "wait"]
      /\ UNCHANGED <<taken, serving, used, used_end, used_idx, served, req>>
  BY Zenon DEF Submit
<1>4. served[t] = <<>> /\ req[t] \in Requests
  BY <1>3, Zenon DEF RingInv, InvProgress
<1>5. ASSUME NEW u \in Busy
      PROVE  /\ u \in Tasks /\ u /= t /\ pc'[u] = pc[u]
             /\ head'[u] = head[u] /\ nxt'[head[u]] = nxt[head[u]]
             /\ nxt'[nxt[head[u]]] = nxt[nxt[head[u]]]
             /\ head[u] \in Desc /\ nxt[head[u]] \in Desc /\ nxt[nxt[head[u]]] \in Desc
             /\ head[u] \notin free /\ nxt[head[u]] \notin free /\ nxt[nxt[head[u]]] \notin free
  <2>1. u \in Tasks /\ u /= t
    BY <1>1, Zenon DEF Busy
  <2>2. /\ head'[u] = head[u] /\ nxt'[head[u]] = nxt[head[u]]
        /\ nxt'[nxt[head[u]]] = nxt[nxt[head[u]]] /\ Links(u) \cap free = {}
    BY <1>1, Zenon DEF Kept
  <2>3. head[u] \in Desc /\ nxt[head[u]] \in Desc /\ nxt[nxt[head[u]]] \in Desc
    BY Zenon DEF ChainInv, InvLinked, TypeChains
  <2> QED
    BY <1>3, <2>1, <2>2, <2>3, Zenon DEF Links, ChainInv, TypeChains
<1>6. Heads' = Heads \cup {a} /\ Heads \subseteq Desc /\ Heads \cap free = {}
  <2>1. Heads' = {head'[u] : u \in Busy \cup {t}}
    BY <1>1, Zenon DEF Heads
  <2> QED
    <3>1. head'[t] = a /\ \A u \in Busy : head'[u] = head[u]
      BY <1>1, <1>5, Zenon
    <3>2. Heads' = Heads \cup {a}
      BY <2>1, <3>1, Zenon DEF Heads
    <3> QED
      BY <3>2, HeadFacts, Zenon
<1>7. /\ avail' \in [Desc -> Desc]
      /\ Distinct(avail', taken, Succ(avail_idx))
      /\ Window(avail', taken, Succ(avail_idx)) = Published \cup {a}
  <2>1. /\ avail \in [Desc -> Desc] /\ taken \in Indices /\ avail_idx \in Indices
        /\ Distinct(avail, taken, avail_idx) /\ Published \subseteq Heads
    BY Zenon DEF RingInv, TypeRings, InvPlaces
  <2>2. Published \subseteq Desc \ {a, b, c}
    BY <1>1, <1>6, <2>1, Zenon
  <2>3. IsFiniteSet(Desc \ {a, b, c}) /\ Cardinality(Desc \ {a, b, c}) = NUM - 3
    BY <1>1, DescButThree
  <2>4. Span(taken, avail_idx) <= NUM - 3
    BY <2>1, <2>2, <2>3, WindowBound DEF Published
  <2>5. Span(taken, avail_idx) + 1 < NUM
    BY <2>1, <2>4, SpanFacts, IndexFacts
  <2>6. a \notin Window(avail, taken, avail_idx)
    BY <1>1, <2>2, Zenon DEF Published
  <2>7. avail_idx % NUM \in Desc
    BY <2>1, IndexFacts, Zenon
  <2>8. /\ avail' \in [Desc -> Desc] /\ avail'[avail_idx % NUM] = a
        /\ \A i \in Desc : i /= avail_idx % NUM => avail'[i] = avail[i]
    BY <1>1, <2>1, <2>7, Zenon
  <2>9. /\ Distinct(avail', taken, Succ(avail_idx))
        /\ Window(avail', taken, Succ(avail_idx)) = Window(avail, taken, avail_idx) \cup {a}
    BY <2>1, <2>5, <2>6, <2>8, WindowPush
  <2> QED
    BY <2>8, <2>9, Zenon DEF Published
<1>8. Published' = Published \cup {a} /\ Completed' = Completed /\ serving' = serving
  BY <1>3, <1>7, Zenon DEF Published, Completed, Window, Slot
<1>9. TypeRings'
  <2>1. avail_idx' \in Indices
    BY <1>3, IndexFacts, Zenon DEF RingInv, TypeRings
  <2>2. done' \in [Desc -> BOOLEAN] /\ status' \in [Desc -> BOOLEAN]
    BY <1>1, Zenon DEF RingInv, TypeRings
  <2>3. /\ ops' \in [Desc -> Requests \cup {None}] /\ buffer' \in [Desc -> Tasks \cup {None}]
        /\ reply' \in [Desc -> Desc \cup {None}]
    BY <1>2, <1>4, Zenon DEF RingInv, TypeRings
  <2> QED
    BY <1>3, <1>7, <2>1, <2>2, <2>3, Zenon DEF RingInv, TypeRings
<1>10. InvAddresses'
  <2>1. ASSUME NEW u \in Busy
        PROVE  /\ (req[u] \in Requests)' /\ (ops[head[u]] = req[u])'
               /\ (buffer[nxt[head[u]]] = u)' /\ (reply[nxt[nxt[head[u]]]] = head[u])'
    <3>1. /\ req[u] \in Requests /\ ops[head[u]] = req[u]
          /\ buffer[nxt[head[u]]] = u /\ reply[nxt[nxt[head[u]]]] = head[u]
      BY Zenon DEF RingInv, InvAddresses
    <3> QED
      BY <1>1, <1>2, <1>3, <1>5, <3>1 DEF RingInv, TypeRings
  <2>2. /\ (req[t] \in Requests)' /\ (ops[head[t]] = req[t])'
        /\ (buffer[nxt[head[t]]] = t)' /\ (reply[nxt[nxt[head[t]]]] = head[t])'
    BY <1>1, <1>2, <1>3, <1>4, Zenon DEF RingInv, TypeRings
  <2> QED
    BY <1>1, <2>1, <2>2, ZenonT(60) DEF InvAddresses
<1>11. InvPlaces'
  <2>1. Distinct(avail, taken, avail_idx)' /\ Distinct(used, used_idx, used_end)'
    BY <1>3, <1>7, Zenon DEF RingInv, InvPlaces, Distinct, Slot
  <2> QED
    BY <1>1, <1>6, <1>8, <2>1, Zenon DEF RingInv, InvPlaces
<1>12. InvProgress'
  <2>1. ASSUME NEW u \in Busy
        PROVE  /\ done'[head'[u]] = done[head[u]] /\ status'[head'[u]] = status[head[u]]
               /\ head'[u] = head[u] /\ head[u] /= a
    BY <1>1, <1>5, Zenon DEF RingInv, TypeRings
  <2>2. ~done'[head'[t]] /\ head'[t] \in Published' /\ head'[t] \notin Completed'
    BY <1>1, <1>6, <1>8, Zenon DEF RingInv, TypeRings, InvPlaces
  <2>3. pc'[t] \in {"failed", "wait"} /\ pc'[t] /= "woken"
    BY <1>3, Zenon DEF ChainInv, TypeChains
  <2>4. \A u \in Tasks :
            /\ pc'[u] \in {"alloc", "asleep"} => served'[u] = <<>> /\ req'[u] \in Requests
            /\ Len(served'[u]) <= 1
    BY <1>3, <2>3, Zenon DEF RingInv, InvProgress, ChainInv, TypeChains
  <2>5. ASSUME NEW u \in Busy
        PROVE  /\ done'[head'[u]] <=> head'[u] \notin Published' \cup serving' \cup Completed'
               /\ head'[u] \in Published' \cup serving' => served'[u] = <<>>
               /\ head'[u] \in Completed' => served'[u] = <<req'[u]>> /\ status'[head'[u]]
               /\ done'[head'[u]] => served'[u] = <<req'[u]>>
               /\ pc'[u] = "wait" => ~done'[head'[u]]
               /\ pc'[u] = "woken" => done'[head'[u]]
    <3>1. /\ done[head[u]] <=> head[u] \notin Published \cup serving \cup Completed
          /\ head[u] \in Published \cup serving => served[u] = <<>>
          /\ head[u] \in Completed => served[u] = <<req[u]>> /\ status[head[u]]
          /\ done[head[u]] => served[u] = <<req[u]>>
          /\ pc[u] = "wait" => ~done[head[u]]
          /\ pc[u] = "woken" => done[head[u]]
      BY Zenon DEF RingInv, InvProgress
    <3>2. /\ head[u] \in Published' <=> head[u] \in Published
          /\ serving' = serving /\ Completed' = Completed
      BY <1>8, <2>1, Zenon
    <3>3. pc'[u] = pc[u] /\ served' = served /\ req' = req
      BY <1>3, <1>5, Zenon
    <3> HIDE DEF Published, Completed
    <3> QED
      BY <2>1, <3>1, <3>2, <3>3, Zenon
  <2> QED
    BY <1>1, <1>3, <1>4, <2>2, <2>3, <2>4, <2>5, Zenon DEF InvProgress
<1> QED
  BY <1>9, <1>10, <1>11, <1>12, Zenon DEF RingInv

\* disk_command gives back a chain that neither a ring nor the device holds.
LEMMA RingFinish ==
    ASSUME ChainInv, RingInv, NEW t \in Tasks, Finish(t)
    PROVE  RingInv'
<1>1. PICK C : C = Links(t)
  BY Zenon
<1>2. /\ t \in Busy /\ Busy' = Busy \ {t} /\ Chain(head[t]) = C
      /\ \A u \in Busy : u /= t => Kept(u) /\ Links(u) \cap C = {}
      /\ \A u \in Busy : u /= t => pc'[u] = pc[u]
      /\ \A u \in Tasks : pc'[u] \in {"alloc", "asleep"} => pc[u] \in {"alloc", "asleep"}
  BY <1>1, FinishEffect, Zenon
<1>3. /\ done[head[t]] /\ pc[t] = "woken"
      /\ buffer' = [i \in Desc |-> IF i \in C THEN None ELSE buffer[i]]
      /\ reply' = [i \in Desc |-> IF i \in C THEN None ELSE reply[i]]
      /\ req' = [req EXCEPT ![t] = None]
      /\ UNCHANGED <<ops, avail, avail_idx, taken, serving, used, used_end, used_idx, done, status,
                     served>>
  BY <1>2, Zenon DEF Finish, deviceVars
<1>4. ASSUME NEW u \in Busy, u /= t
      PROVE  /\ head'[u] = head[u] /\ nxt'[head[u]] = nxt[head[u]]
             /\ nxt'[nxt[head[u]]] = nxt[nxt[head[u]]]
             /\ nxt[head[u]] \in Desc \ C /\ nxt[nxt[head[u]]] \in Desc \ C
             /\ u \in Tasks /\ req'[u] = req[u] /\ head[u] /= head[t]
  <2>1. /\ head'[u] = head[u] /\ nxt'[head[u]] = nxt[head[u]]
        /\ nxt'[nxt[head[u]]] = nxt[nxt[head[u]]] /\ Links(u) \cap C = {}
    BY <1>2, <1>4, Zenon DEF Kept
  <2>2. nxt[head[u]] \in Desc /\ nxt[nxt[head[u]]] \in Desc
    BY Zenon DEF ChainInv, InvLinked, TypeChains
  <2>3. u \in Tasks /\ req'[u] = req[u] /\ head[u] /= head[t]
    BY <1>2, <1>3, <1>4, HeadFacts, Zenon DEF Busy, RingInv, TypeRings
  <2> QED
    BY <2>1, <2>2, <2>3, Zenon DEF Links
<1>5. Published' = Published /\ Completed' = Completed /\ serving' = serving
  BY <1>3, Zenon DEF Published, Completed, Window, Slot
<1>6. head[t] \notin Published \cup serving \cup Completed
  BY <1>2, <1>3, Zenon DEF RingInv, InvProgress
<1>7. TypeRings'
  <2>1. req' \in [Tasks -> Requests \cup {None}]
    BY <1>3, Zenon DEF RingInv, TypeRings
  <2>2. buffer' \in [Desc -> Tasks \cup {None}] /\ reply' \in [Desc -> Desc \cup {None}]
    BY <1>3, Zenon DEF RingInv, TypeRings
  <2> QED
    BY <1>3, <2>1, <2>2, Zenon DEF RingInv, TypeRings
<1>8. InvAddresses'
  <2>1. ASSUME NEW u \in Busy, u /= t
        PROVE  /\ (req[u] \in Requests)' /\ (ops[head[u]] = req[u])'
               /\ (buffer[nxt[head[u]]] = u)' /\ (reply[nxt[nxt[head[u]]]] = head[u])'
    <3>1. /\ req[u] \in Requests /\ ops[head[u]] = req[u]
          /\ buffer[nxt[head[u]]] = u /\ reply[nxt[nxt[head[u]]]] = head[u]
      BY Zenon DEF RingInv, InvAddresses
    <3>2. /\ head'[u] = head[u] /\ nxt'[head[u]] = nxt[head[u]]
          /\ nxt'[nxt[head[u]]] = nxt[nxt[head[u]]]
          /\ nxt[head[u]] \in Desc \ C /\ nxt[nxt[head[u]]] \in Desc \ C
          /\ req'[u] = req[u]
      BY <1>4, <2>1, Zenon
    <3> QED
      BY <1>3, <3>1, <3>2, Zenon
  <2> QED
    BY <1>2, <2>1, Zenon DEF InvAddresses
<1>9. InvPlaces'
  <2>1. Distinct(avail, taken, avail_idx)' /\ Distinct(used, used_idx, used_end)'
    BY <1>3, Zenon DEF RingInv, InvPlaces, Distinct, Slot
  <2>2. Heads \ {head[t]} \subseteq Heads'
    <3>1. Busy' = Busy \ {t} /\ \A u \in Busy : u /= t => head'[u] = head[u]
      BY <1>2, <1>4, Zenon
    <3> QED
      BY <3>1, Zenon DEF Heads
  <2> QED
    <3>1. /\ Published \subseteq Heads /\ serving \subseteq Heads /\ Completed \subseteq Heads
          /\ Published \cap serving = {} /\ Published \cap Completed = {} /\ serving \cap Completed = {}
      BY Zenon DEF RingInv, InvPlaces
    <3>2. /\ Published' \subseteq Heads' /\ serving' \subseteq Heads' /\ Completed' \subseteq Heads'
      BY <1>5, <1>6, <2>2, <3>1, Zenon
    <3> QED
      BY <1>5, <2>1, <3>1, <3>2, Zenon DEF InvPlaces
<1>10. InvProgress'
  <2>1. ASSUME NEW u \in Busy, u /= t
        PROVE  /\ head'[u] = head[u] /\ req'[u] = req[u] /\ pc'[u] = pc[u]
               /\ done'[head'[u]] = done[head[u]] /\ status'[head'[u]] = status[head[u]]
    BY <1>2, <1>3, <1>4, <2>1, Zenon
  <2>2. ASSUME NEW u \in Tasks
        PROVE  /\ pc'[u] \in {"alloc", "asleep"} => served'[u] = <<>> /\ req'[u] \in Requests
               /\ Len(served'[u]) <= 1
    <3>1. pc'[u] \in {"alloc", "asleep"} => u /= t
      BY <1>2, <1>3, Zenon
    <3> QED
      BY <1>2, <1>3, <3>1, Zenon DEF RingInv, InvProgress, TypeRings
  <2>3. ASSUME NEW u \in Busy, u /= t
        PROVE  /\ done'[head'[u]] <=> head'[u] \notin Published' \cup serving' \cup Completed'
               /\ head'[u] \in Published' \cup serving' => served'[u] = <<>>
               /\ head'[u] \in Completed' => served'[u] = <<req'[u]>> /\ status'[head'[u]]
               /\ done'[head'[u]] => served'[u] = <<req'[u]>>
               /\ pc'[u] = "wait" => ~done'[head'[u]]
               /\ pc'[u] = "woken" => done'[head'[u]]
    <3>1. /\ head'[u] = head[u] /\ req'[u] = req[u] /\ pc'[u] = pc[u]
          /\ done'[head'[u]] = done[head[u]] /\ status'[head'[u]] = status[head[u]]
      BY <2>1, <2>3, Zenon
    <3> QED
      BY <1>3, <1>5, <3>1, Zenon DEF RingInv, InvProgress
  <2> QED
    BY <1>2, <2>2, <2>3, Zenon DEF InvProgress
<1> QED
  BY <1>7, <1>8, <1>9, <1>10, Zenon DEF RingInv

\* The device takes the oldest published chain.
LEMMA RingTake ==
    ASSUME ChainInv, RingInv, DeviceTake
    PROVE  RingInv'
<1>1. PICK h : h = avail[taken % NUM]
  BY Zenon
<1>2. /\ taken /= avail_idx /\ taken' = Succ(taken) /\ serving' = serving \cup {h}
      /\ UNCHANGED <<nxt, ops, buffer, reply, avail, avail_idx, used, used_end, used_idx, done,
                     status, served, req, head, pc>>
  BY <1>1, Zenon DEF DeviceTake, chainVars
<1>3. /\ taken \in Indices /\ avail_idx \in Indices /\ Distinct(avail, taken, avail_idx)
      /\ Published \subseteq Heads
  BY Zenon DEF RingInv, TypeRings, InvPlaces
<1>4. /\ h \in Published
      /\ Distinct(avail, Succ(taken), avail_idx)
      /\ Window(avail, Succ(taken), avail_idx) = Published \ {h}
  BY <1>1, <1>2, <1>3, WindowPop DEF Published
<1>5. /\ Published' = Published \ {h} /\ Completed' = Completed /\ Heads' = Heads
      /\ Busy' = Busy
  BY <1>2, <1>4, Zenon DEF Published, Completed, Window, Slot, Heads, Busy, Submitted
<1>6. TypeRings'
  <2>1. taken' \in Indices
    BY <1>2, <1>3, IndexFacts, Zenon
  <2>2. serving' \in SUBSET Desc
    BY <1>2, <1>3, <1>4, HeadFacts, Zenon DEF RingInv, TypeRings
  <2> QED
    BY <1>2, <2>1, <2>2, Zenon DEF RingInv, TypeRings
<1>7. InvAddresses'
  BY <1>2, <1>5, Zenon DEF RingInv, InvAddresses
<1>8. InvPlaces'
  <2>1. Distinct(avail, taken, avail_idx)' /\ Distinct(used, used_idx, used_end)'
    BY <1>2, <1>4, Zenon DEF RingInv, InvPlaces, Distinct, Slot
  <2> QED
    BY <1>2, <1>3, <1>4, <1>5, <2>1, Zenon DEF RingInv, InvPlaces
<1>9. InvProgress'
  BY <1>2, <1>4, <1>5, Zenon DEF RingInv, InvProgress
<1> QED
  BY <1>6, <1>7, <1>8, <1>9, Zenon DEF RingInv

\* The device carries out one command on the buffer of its task, reports it in
\* the command's info entry and puts the chain into a used ring with room for it.
LEMMA RingServe ==
    ASSUME ChainInv, RingInv, NEW h \in Desc, DeviceComplete(h)
    PROVE  RingInv'
<1>1. PICK t \in Busy : h = head[t]
  BY Zenon DEF DeviceComplete, RingInv, InvPlaces, Heads
<1>2. /\ t \in Tasks /\ req[t] \in Requests /\ ops[h] = req[t] /\ buffer[nxt[h]] = t
      /\ reply[nxt[nxt[h]]] = h
  BY <1>1, Zenon DEF RingInv, InvAddresses, Busy
<1>3. /\ h \in serving /\ serving' = serving \ {h}
      /\ served' = [served EXCEPT ![t] = Append(@, req[t])]
      /\ status' = [status EXCEPT ![h] = TRUE]
      /\ used' = [used EXCEPT ![used_end % NUM] = h] /\ used_end' = Succ(used_end)
      /\ UNCHANGED <<nxt, ops, buffer, reply, avail, avail_idx, taken, used_idx, done, req, head, pc>>
  BY <1>2, Zenon DEF DeviceComplete, chainVars
<1>4. served[t] = <<>> /\ ~done[h] /\ h \notin Published /\ h \notin Completed
  BY <1>1, <1>3, Zenon DEF RingInv, InvPlaces, InvProgress
<1>5. served \in [Tasks -> Seq(Requests)] /\ served'[t] = <<req[t]>>
  BY <1>2, <1>3, <1>4 DEF RingInv, TypeRings
<1>6. \A u \in Tasks : u /= t => served'[u] = served[u]
  BY <1>3, <1>5, Zenon
<1>7. /\ used' \in [Desc -> Desc]
      /\ Distinct(used', used_idx, Succ(used_end))
      /\ Window(used', used_idx, Succ(used_end)) = Completed \cup {h}
  <2>1. /\ used \in [Desc -> Desc] /\ used_idx \in Indices /\ used_end \in Indices
        /\ Distinct(used, used_idx, used_end) /\ Completed \subseteq Heads
    BY Zenon DEF RingInv, TypeRings, InvPlaces
  <2>2. PICK b, c \in Desc : b = nxt[h] /\ c = nxt[nxt[h]] /\ h /= b /\ h /= c /\ b /= c
    BY <1>1 DEF ChainInv, InvLinked, TypeChains
  <2>3. Links(t) = {h, b, c}
    BY <1>1, <2>2, Zenon DEF Links
  <2>4. ASSUME NEW u \in Busy, head[u] \in {b, c} PROVE FALSE
    <3>1. u /= t
      BY <1>1, <2>2, <2>4, Zenon
    <3>2. head[u] \in Links(u) /\ head[u] \in Links(t)
      BY <2>3, <2>4, Zenon DEF Links
    <3> QED
      BY <3>1, <3>2, Zenon DEF ChainInv, InvApart
  <2>5. Completed \subseteq Desc \ {h, b, c}
    BY <1>4, <2>1, <2>4, HeadFacts, Zenon DEF Heads
  <2>6. IsFiniteSet(Desc \ {h, b, c}) /\ Cardinality(Desc \ {h, b, c}) = NUM - 3
    BY <2>2, DescButThree, Zenon
  <2>7. Span(used_idx, used_end) <= NUM - 3
    BY <2>1, <2>5, <2>6, WindowBound DEF Completed
  <2>8. Span(used_idx, used_end) + 1 < NUM
    BY <2>1, <2>7, SpanFacts, IndexFacts
  <2>9. h \notin Window(used, used_idx, used_end) /\ used_end % NUM \in Desc
    BY <1>4, <2>1, IndexFacts, Zenon DEF Completed
  <2>10. /\ used' \in [Desc -> Desc] /\ used'[used_end % NUM] = h
         /\ \A i \in Desc : i /= used_end % NUM => used'[i] = used[i]
    BY <1>3, <2>1, <2>9, Zenon
  <2>11. /\ Distinct(used', used_idx, Succ(used_end))
         /\ Window(used', used_idx, Succ(used_end)) = Window(used, used_idx, used_end) \cup {h}
    BY <2>1, <2>8, <2>9, <2>10, WindowPush
  <2> QED
    BY <2>10, <2>11, Zenon DEF Completed
<1>8. /\ Published' = Published /\ Completed' = Completed \cup {h} /\ Heads' = Heads
      /\ Busy' = Busy
  <2>1. Published' = Published
    BY <1>3, Zenon DEF Published, Window, Slot
  <2>2. Completed' = Completed \cup {h}
    BY <1>3, <1>7, Zenon DEF Completed
  <2>3. Busy' = Busy /\ Heads' = Heads
    BY <1>3, Zenon DEF Heads, Busy, Submitted
  <2> QED
    BY <2>1, <2>2, <2>3, Zenon
<1>9. TypeRings'
  <2>1. used_end' \in Indices
    BY <1>3, IndexFacts, Zenon DEF RingInv, TypeRings
  <2>2. served' \in [Tasks -> Seq(Requests)]
    BY <1>2, <1>3, <1>5
  <2>3. status' \in [Desc -> BOOLEAN]
    BY <1>3, Zenon DEF RingInv, TypeRings
  <2> QED
    BY <1>3, <1>7, <2>1, <2>2, <2>3, Zenon DEF RingInv, TypeRings
<1>10. InvAddresses'
  BY <1>3, <1>8, Zenon DEF RingInv, InvAddresses
<1>11. InvPlaces'
  <2>1. Distinct(avail, taken, avail_idx)' /\ Distinct(used, used_idx, used_end)'
    BY <1>3, <1>7 DEF RingInv, InvPlaces, Distinct, Slot
  <2>2. h \in Heads
    BY <1>1, Zenon DEF Heads
  <2> QED
    BY <1>3, <1>4, <1>8, <2>1, <2>2, Zenon DEF RingInv, InvPlaces
<1>12. InvProgress'
  <2>1. ASSUME NEW u \in Busy, u /= t
        PROVE  /\ head[u] /= h /\ u \in Tasks /\ served'[u] = served[u]
               /\ status'[head[u]] = status[head[u]]
    BY <1>1, <1>3, <1>6, <2>1, HeadFacts, Zenon DEF Busy, RingInv, TypeRings
  <2>2. status'[h]
    BY <1>3, Zenon DEF RingInv, TypeRings
  <2>3. \A u \in Tasks : Len(served'[u]) <= 1
    <3>1. Len(<<req[t]>>) <= 1
      OBVIOUS
    <3> QED
      BY <1>5, <1>6, <3>1, Zenon DEF RingInv, InvProgress
  <2>4. \A u \in Tasks : pc[u] \in {"alloc", "asleep"} => u /= t
    BY <1>1, Zenon DEF Busy, Submitted
  <2>5. ASSUME NEW u \in Busy
        PROVE  /\ done[head[u]] <=> head[u] \notin Published \cup serving' \cup Completed'
               /\ head[u] \in Published \cup serving' => served'[u] = <<>>
               /\ head[u] \in Completed' => served'[u] = <<req[u]>> /\ status'[head[u]]
               /\ done[head[u]] => served'[u] = <<req[u]>>
    <3>1. CASE u = t
      BY <1>1, <1>3, <1>4, <1>5, <1>8, <2>2, <3>1, Zenon
    <3>2. CASE u /= t
      <4>1. /\ head[u] /= h /\ served'[u] = served[u] /\ status'[head[u]] = status[head[u]]
        BY <2>1, <3>2, Zenon
      <4> QED
        BY <1>3, <1>8, <4>1, Zenon DEF RingInv, InvProgress
    <3> QED
      BY <3>1, <3>2, Zenon
  <2> QED
    BY <1>3, <1>6, <1>8, <2>3, <2>4, <2>5, Zenon DEF RingInv, InvProgress
<1> QED
  BY <1>9, <1>10, <1>11, <1>12, Zenon DEF RingInv

\* virtio_disk_intr takes the oldest completed chain and wakes its task.
LEMMA RingIntr ==
    ASSUME ChainInv, RingInv, IntrComplete
    PROVE  RingInv'
<1>1. PICK h : h = used[used_idx % NUM]
  BY Zenon
<1>2. /\ used_idx /= used_end /\ used_idx' = Succ(used_idx)
      /\ done' = [done EXCEPT ![h] = TRUE]
      /\ pc' = [t \in Tasks |-> IF pc[t] = "wait" /\ head[t] = h THEN "woken" ELSE pc[t]]
      /\ UNCHANGED <<nxt, ops, buffer, reply, avail, avail_idx, taken, serving, used, used_end,
                     status, served, req, head>>
  BY <1>1, Zenon DEF IntrComplete, chainVars, deviceVars
<1>3. /\ used_idx \in Indices /\ used_end \in Indices /\ Distinct(used, used_idx, used_end)
      /\ Completed \subseteq Heads
  BY ZenonT(60) DEF RingInv, TypeRings, InvPlaces
<1>4. /\ h \in Completed
      /\ Distinct(used, Succ(used_idx), used_end)
      /\ Window(used, Succ(used_idx), used_end) = Completed \ {h}
  BY <1>1, <1>2, <1>3, WindowPop DEF Completed
<1>5. Busy' = Busy
  BY <1>2, Zenon DEF Busy, Submitted
<1>6. Published' = Published /\ Completed' = Completed \ {h} /\ Heads' = Heads
  BY <1>2, <1>4, <1>5, Zenon DEF Published, Completed, Window, Slot, Heads
<1>7. TypeRings'
  <2>1. used_idx' \in Indices
    BY <1>2, <1>3, IndexFacts, Zenon
  <2>2. done' \in [Desc -> BOOLEAN]
    BY <1>2, Zenon DEF RingInv, TypeRings
  <2> QED
    BY <1>2, <2>1, <2>2, Zenon DEF RingInv, TypeRings
<1>8. InvAddresses'
  BY <1>2, <1>5, Zenon DEF RingInv, InvAddresses
<1>9. InvPlaces'
  <2>1. Distinct(avail, taken, avail_idx)' /\ Distinct(used, used_idx, used_end)'
    BY <1>2, <1>4, Zenon DEF RingInv, InvPlaces, Distinct, Slot
  <2> QED
    BY <1>2, <1>6, <2>1, Zenon DEF RingInv, InvPlaces
<1>10. InvProgress'
  <2>1. h \in Desc /\ h \notin Published \cup serving
    BY <1>3, <1>4, HeadFacts, Zenon DEF RingInv, InvPlaces
  <2>2. done'[h] /\ \A i \in Desc : i /= h => done'[i] = done[i]
    BY <1>2, <2>1, Zenon DEF RingInv, TypeRings
  <2>3. ASSUME NEW u \in Busy
        PROVE  /\ done'[head[u]] <=> head[u] \notin Published \cup serving \cup Completed'
               /\ head[u] \in Published \cup serving => served[u] = <<>>
               /\ head[u] \in Completed' => served[u] = <<req[u]>> /\ status[head[u]]
               /\ done'[head[u]] => served[u] = <<req[u]>>
               /\ pc'[u] = "wait" => ~done'[head[u]]
               /\ pc'[u] = "woken" => done'[head[u]]
    <3>1. u \in Tasks /\ head[u] \in Desc
      BY HeadFacts, Zenon DEF Busy
    <3>2. CASE head[u] = h
      BY <1>2, <1>4, <1>6, <2>1, <2>2, <3>1, <3>2, Zenon DEF RingInv, InvProgress
    <3>3. CASE head[u] /= h
      BY <1>2, <1>6, <2>2, <3>1, <3>3, Zenon DEF RingInv, InvProgress
    <3> QED
      BY <3>2, <3>3, Zenon
  <2>4. \A u \in Tasks : pc'[u] \in {"alloc", "asleep"} => pc[u] \in {"alloc", "asleep"}
    BY <1>2, Zenon
  <2> QED
    BY <1>2, <1>5, <1>6, <2>3, <2>4, Zenon DEF RingInv, InvProgress
<1> QED
  BY <1>7, <1>8, <1>9, <1>10, Zenon DEF RingInv

\* Every step keeps each command in its place.
LEMMA RingNext == ChainInv /\ RingInv /\ [Next]_vars => RingInv'
<1> SUFFICES ASSUME ChainInv, RingInv, [Next]_vars PROVE RingInv'
  BY Zenon
<1>1. ASSUME NEW t \in Tasks, AllocFails(t) PROVE RingInv'
  <2>1. PICK n \in Nat : n = Cardinality(free)
    BY DescFacts, FS_Subset, FS_CardinalityType, Zenon DEF ChainInv, TypeChains
  <2>2. /\ pc[t] = "alloc" /\ pc' = [Woken(n, pc) EXCEPT ![t] = "asleep"]
        /\ UNCHANGED <<nxt, ops, buffer, reply, avail, avail_idx, taken, serving, used,
                       used_end, used_idx, done, status, served, req, head>>
    BY <1>1, <2>1, Zenon DEF AllocFails, chainVars, deviceVars
  <2>3. /\ Woken(n, pc) \in [Tasks -> PCs]
        /\ \A u \in Tasks : pc[u] /= "asleep" => Woken(n, pc)[u] = pc[u]
        /\ \A u \in Tasks : pc[u] = "asleep" => Woken(n, pc)[u] \in {"alloc", "asleep"}
    BY WokenFacts, Zenon DEF ChainInv
  <2>4. /\ Busy' = Busy /\ \A u \in Busy : pc'[u] = pc[u]
        /\ \A u \in Tasks : pc'[u] \in {"alloc", "asleep"} => pc[u] \in {"alloc", "asleep"}
    BY <2>2, <2>3, Zenon DEF Busy, Submitted, ChainInv, TypeChains, PCs
  <2> QED
    BY <2>2, <2>4, RingFrame, Zenon
<1>2. ASSUME UNCHANGED <<chainVars, avail, avail_idx, taken, serving, used, used_end, used_idx,
                         done, status, served, req, head, pc>>
      PROVE  RingInv'
  BY <1>2, RingFrame, Zenon DEF chainVars, Busy, Submitted
<1>3. IntrEnter \/ IntrLeave \/ DeviceNeedsReset \/ UNCHANGED vars
        => UNCHANGED <<chainVars, avail, avail_idx, taken, serving, used, used_end, used_idx,
                       done, status, served, req, head, pc>>
  BY Zenon DEF IntrEnter, IntrLeave, DeviceNeedsReset, vars, deviceVars
<1> QED
  BY <1>1, <1>2, <1>3, RingCommand, RingSubmit, RingFinish, RingTake, RingServe, RingIntr, Zenon
     DEF Next, TaskStep, Intr, Device

\* The chains and the rings together.
THEOREM DiskInvariant == Spec => [](ChainInv /\ RingInv)
  BY ChainInit, ChainNext, RingInit, RingNext, PTL DEF Spec

\* disk_command returns only after the device has carried out its command,
\* once, on its own buffer: neither the wrap of the 16-bit indices nor the
\* order of completions makes the handler take another chain's entry.
THEOREM ServedOnceCorrect == Spec => []ServedOnce
<1>1. ChainInv /\ RingInv => ServedOnce
  <2> SUFFICES ASSUME ChainInv, RingInv PROVE ServedOnce
    BY Zenon
  <2>1. \A t \in Tasks : pc[t] = "woken" => t \in Busy
    BY Zenon DEF Busy, Submitted
  <2> QED
    BY <2>1, Zenon DEF ServedOnce, RingInv, InvProgress
<1> QED
  BY <1>1, DiskInvariant, PTL

\* No command is lost on its way through the rings: the chain of a task that
\* waits is still with the device or reported by it, and virtio_disk_intr does
\* not spin for the status of the entry it reads.
THEOREM InFlightCorrect == Spec => []InFlight
<1>1. ChainInv /\ RingInv => InFlight
  <2> SUFFICES ASSUME ChainInv, RingInv PROVE InFlight
    BY Zenon
  <2>1. \A t \in Tasks : pc[t] = "wait" => t \in Busy
    BY Zenon DEF Busy, Submitted
  <2>2. \A t \in Tasks : pc[t] = "wait" => head[t] \in Published \cup serving \cup Completed
    BY <2>1, Zenon DEF RingInv, InvProgress
  <2>3. ASSUME used_idx /= used_end PROVE status[used[used_idx % NUM]]
    <3>1. PICK h : h = used[used_idx % NUM]
      BY Zenon
    <3>2. /\ used_idx \in Indices /\ used_end \in Indices /\ Distinct(used, used_idx, used_end)
          /\ Completed \subseteq Heads
      BY Zenon DEF RingInv, TypeRings, InvPlaces
    <3>3. h \in Completed
      BY <2>3, <3>1, <3>2, WindowPop, Zenon DEF Completed
    <3>4. PICK t \in Busy : h = head[t]
      BY <3>2, <3>3, Zenon DEF Heads
    <3>5. status[h]
      BY <3>3, <3>4, Zenon DEF RingInv, InvProgress
    <3> QED
      BY <3>1, <3>5, Zenon
  <2> QED
    BY <2>2, <2>3, Zenon DEF InFlight
<1> QED
  BY <1>1, DiskInvariant, PTL

====
