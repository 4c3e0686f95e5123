---- MODULE BufferProofs ----
(***************************************************************************)
(* Proofs about BufferManager.tla, for any number of tasks, blocks and     *)
(* devices and any limits on the buffers: the cache holds a block once; no *)
(* update is lost or missed while no buffer of a block is evicted; and     *)
(* nothing is evicted from a cache that makes as many buffers as there are *)
(* blocks before it reuses one.                                            *)
(***************************************************************************)
EXTENDS BufferListProofs

-----------------------------------------------------------------------------
(* The invariant of a cache from which nothing is evicted *)

\* A task whose call has given it a buffer that it has not dropped yet.
Holding(t) == pc[t] \in {"got", "locked", "ready", "modified", "put"}

\* A task that asked for a block and is not through with it.
Wanting(t) == Holding(t) \/ pc[t] \in {"get", "asleep", "hit"}

InDestroy(t) == pc[t] \in {"d_flush", "d_merge", "d_done"}

\* What is reused stands for no block: destroy has been through it.
NothingEvicted == \A t \in Tasks : Missing(t) /\ Unused /= None => block[cell[Unused]] = None

MoreTypes ==
    /\ DOMAIN data = Nodes /\ DOMAIN valid = Nodes /\ DOMAIN dirty = Nodes
    /\ DOMAIN disk = Blocks /\ DOMAIN written = Blocks
    /\ DOMAIN want = Tasks

\* No cell but those of the lists counts as a reference.
NoStray ==
    /\ InFlush = {} /\ Cached = {}
    /\ \A c \in Cells \ Live : cell[c] = None

\* A block has one buffer, in buffer_list or on its way through destroy.
OneCopy ==
    \A c, d \in Live : block[cell[c]] = block[cell[d]] /\ block[cell[c]] /= None => c = d

\* A valid buffer has every update of its block, and so has the device unless it is dirty.
Sound(n) ==
    /\ block[n] \in Blocks \cup {None}
    /\ dirty[n] => valid[n]
    /\ valid[n] => /\ block[n] \in Blocks
                   /\ data[n] = written[block[n]]
                   /\ dirty[n] \/ disk[block[n]] = written[block[n]]

Stored(b) == disk[b] = written[b] \/ \E c \in Live : block[cell[c]] = b /\ dirty[cell[c]]

Store ==
    /\ \A c \in Live : Sound(cell[c])
    /\ \A b \in Blocks : Stored(b)

\* What a task refers to stays in buffer_list and stands for the block it wants.
TaskOK(t) ==
    /\ Wanting(t) => want[t] \in Blocks /\ ~Destroying(DeviceOf[want[t]])
    /\ pc[t] = "hit" => at[t] \in InBuffer /\ block[cell[at[t]]] = want[t]
    /\ Holding(t) => \E c \in InBuffer : ptr[t] = cell[c] /\ block[cell[c]] = want[t]
    /\ ~Holding(t) => ptr[t] = None
    /\ pc[t] \in {"ready", "modified"} => valid[ptr[t]]

\* destroy works on the buffers of its device, which nobody else has.
LocalOK(t) ==
    /\ pc[t] /= "d_flush" => InLocal(t) = {}
    /\ \A c \in InLocal(t) : block[cell[c]] /= None => DeviceOf[block[cell[c]]] = want[t]

Separate ==
    /\ \A c \in InBuffer : block[cell[c]] /= None => ~Destroying(DeviceOf[block[cell[c]]])
    /\ \A t, u \in Tasks : InDestroy(t) /\ InDestroy(u) /\ want[t] = want[u] => t = u

CInv ==
    /\ MoreTypes /\ NoStray /\ OneCopy /\ Store /\ Separate
    /\ \A t \in Tasks : TaskOK(t) /\ LocalOK(t)

-----------------------------------------------------------------------------
(* Steps that move no buffer *)

\* Only task t moves.
OnlyTask(t) ==
    /\ DOMAIN want' = Tasks
    /\ \A u \in Tasks : u /= t =>
           pc'[u] = pc[u] /\ want'[u] = want[u] /\ at'[u] = at[u] /\ ptr'[u] = ptr[u]

\* The lists hold the same cells as before.
SameCells ==
    /\ InBuffer' = InBuffer /\ InFlush' = InFlush /\ Cached' = Cached /\ Live' = Live
    /\ \A u \in Tasks : InLocal(u)' = InLocal(u)

\* Blocks stay where they are.
LEMMA OneCopyKept ==
    ASSUME OneCopy, Live' = Live, UNCHANGED <<cell, block>>
    PROVE  OneCopy'
BY Zenon DEF OneCopy

\* No device begins to be destroyed.
LEMMA DestroyingKept ==
    ASSUME NEW t \in Tasks, OnlyTask(t), InDestroy(t)' => InDestroy(t) /\ want'[t] = want[t]
    PROVE  /\ \A d : Destroying(d)' => Destroying(d)
           /\ \A u \in Tasks : InDestroy(u)' => InDestroy(u) /\ want'[u] = want[u]
<1>1. \A u \in Tasks : InDestroy(u)' => InDestroy(u) /\ want'[u] = want[u]
  BY Zenon DEF OnlyTask, InDestroy
<1>2. \A d : Destroying(d) <=> \E u \in Tasks : InDestroy(u) /\ want[u] = d
  BY Zenon DEF Destroying, InDestroy
<1>3. \A d : Destroying(d)' <=> \E u \in Tasks : InDestroy(u)' /\ want'[u] = d
  BY Zenon DEF Destroying, InDestroy
<1> QED
  BY <1>1, <1>2, <1>3, Zenon

\* The tasks other than t when cells and blocks stay.
LEMMA OthersKept ==
    ASSUME CInv, NEW t \in Tasks, OnlyTask(t), SameCells, UNCHANGED <<cell, block>>,
           \A d : Destroying(d)' => Destroying(d),
           \A u \in Tasks : pc[u] \in {"ready", "modified"} /\ valid[ptr[u]] => valid'[ptr[u]]
    PROVE  \A u \in Tasks : u /= t => TaskOK(u)' /\ LocalOK(u)'
<1> SUFFICES ASSUME NEW u \in Tasks, u /= t PROVE TaskOK(u)' /\ LocalOK(u)'
  BY Zenon
<1>1. /\ pc'[u] = pc[u] /\ want'[u] = want[u] /\ at'[u] = at[u] /\ ptr'[u] = ptr[u]
      /\ InBuffer' = InBuffer /\ InLocal(u)' = InLocal(u) /\ cell' = cell /\ block' = block
  BY Zenon DEF OnlyTask, SameCells
<1>2. TaskOK(u) /\ LocalOK(u)
  BY Zenon DEF CInv
<1>3. TaskOK(u)'
  BY <1>1, <1>2, Zenon DEF TaskOK, Wanting, Holding
<1>4. LocalOK(u)'
  BY <1>1, <1>2, Zenon DEF LocalOK
<1> QED
  BY <1>3, <1>4, Zenon

LEMMA SeparateKept ==
    ASSUME CInv, NEW t \in Tasks, OnlyTask(t), SameCells, UNCHANGED <<cell, block>>,
           InDestroy(t)' => InDestroy(t) /\ want'[t] = want[t]
    PROVE  Separate'
<1>1. /\ \A d : Destroying(d)' => Destroying(d)
      /\ \A u \in Tasks : InDestroy(u)' => InDestroy(u) /\ want'[u] = want[u]
  BY DestroyingKept, Zenon
<1>2. \A c \in InBuffer : block[cell[c]] /= None => ~Destroying(DeviceOf[block[cell[c]]])
  BY Zenon DEF CInv, Separate
<1>3. \A u, v \in Tasks : InDestroy(u) /\ InDestroy(v) /\ want[u] = want[v] => u = v
  BY Zenon DEF CInv, Separate
<1>4. InBuffer' = InBuffer /\ cell' = cell /\ block' = block
  BY Zenon DEF SameCells
<1>5. \A c \in InBuffer' : block'[cell'[c]] /= None => (~Destroying(DeviceOf[block[cell[c]]]))'
  BY <1>1, <1>2, <1>4, Zenon
<1>6. \A u, v \in Tasks : InDestroy(u)' /\ InDestroy(v)' /\ want'[u] = want'[v] => u = v
  BY <1>1, <1>3, Zenon
<1> QED
  BY <1>5, <1>6, Zenon DEF Separate

\* A step of t that changes no buffer and no list.
LEMMA QuietKeeps ==
    ASSUME CInv, NEW t \in Tasks, OnlyTask(t), SameCells,
           UNCHANGED <<cell, block, data, valid, dirty, disk, written>>,
           InDestroy(t)' => InDestroy(t) /\ want'[t] = want[t],
           pc'[t] /= "d_flush", pc[t] /= "d_flush",
           TaskOK(t)'
    PROVE  CInv'
<1>1. MoreTypes'
  BY Zenon DEF CInv, MoreTypes, OnlyTask
<1>2. NoStray'
  BY Zenon DEF CInv, NoStray, SameCells
<1>3. OneCopy'
  BY Zenon DEF CInv, OneCopy, SameCells
<1>4. Store'
  BY Zenon DEF CInv, Store, Sound, Stored, SameCells
<1>5. Separate'
  BY SeparateKept, Zenon
<1>6. \A u \in Tasks : u /= t => TaskOK(u)' /\ LocalOK(u)'
  BY DestroyingKept, OthersKept, Zenon
<1>7. LocalOK(t)'
  <2>1. InLocal(t) = {}
    BY Zenon DEF CInv, LocalOK
  <2> QED
    BY <2>1, Zenon DEF LocalOK, SameCells
<1> QED
  BY <1>1, <1>2, <1>3, <1>4, <1>5, <1>6, <1>7, Zenon DEF CInv

LEMMA ListsSame ==
    ASSUME UNCHANGED <<listVars, local>>
    PROVE  SameCells /\ UNCHANGED cell
  BY Zenon DEF SameCells, InBuffer, InFlush, Cached, Live, InLocal, listVars

\* A search that finds the block: its cell moves to the front.
LEMMA HitMoves ==
    ASSUME WellOrder, IInv, NEW t \in Tasks, GetHit(t)
    PROVE  /\ SameCells
           /\ at'[t] \in InBuffer /\ block[cell[at'[t]]] = want[t]
<1>1. PICK c : c = buffer_list[First(Matches(buffer_list, want[t]))]
  BY Zenon
<1>2. /\ Matches(buffer_list, want[t]) /= {}
      /\ buffer_list' = <<c>> \o Without(buffer_list, c)
      /\ at' = [at EXCEPT ![t] = c]
      /\ UNCHANGED <<flush_list, buffer_cache, flush_cache, local>>
  BY <1>1, Zenon DEF GetHit
<1>3. c \in InBuffer /\ c \in Cells /\ block[cell[c]] = want[t]
  <2>1. /\ Len(buffer_list) \in Nat /\ Matches(buffer_list, want[t]) \subseteq 1..Len(buffer_list)
        /\ DOMAIN buffer_list = 1..Len(buffer_list)
    BY ListTypes DEF Matches
  <2>2. First(Matches(buffer_list, want[t])) \in Matches(buffer_list, want[t])
    BY <1>2, <2>1, Extremes, Zenon
  <2>3. c \in InBuffer /\ block[cell[c]] = want[t]
    BY <1>1, <2>2, Zenon DEF Matches, InBuffer, Range
  <2> QED
    BY <2>3, LiveFacts, Zenon
<1>4. PICK list : list = Without(buffer_list, c)
  BY Zenon
<1>5. list \in Seq(Cells) /\ Range(list) = InBuffer \ {c}
  BY <1>4, ListTypes, WithoutFacts, Zenon DEF InBuffer
<1>6. Range(<<c>> \o list) = Range(list) \cup {c}
  BY <1>3, <1>5, ConsSet
<1>7. InBuffer' = InBuffer
  BY <1>2, <1>3, <1>4, <1>5, <1>6, Zenon DEF InBuffer
<1>8. SameCells
  BY <1>2, <1>7, Zenon DEF SameCells, InFlush, Cached, Live, InLocal
<1> QED
  BY <1>2, <1>3, <1>8, Zenon DEF IInv, TypeOK

\* What a task that holds a buffer has, and what one that begins a call has not.
LEMMA HolderFacts ==
    ASSUME IInv, CInv, NEW t \in Tasks, Holding(t)
    PROVE  \E c \in InBuffer : /\ ptr[t] = cell[c] /\ block[cell[c]] = want[t] /\ cell[c] \in Nodes
                               /\ c \in Live /\ want[t] \in Blocks /\ Sound(cell[c])
<1>1. TaskOK(t)
  BY Zenon DEF CInv
<1>2. PICK c \in InBuffer : ptr[t] = cell[c] /\ block[cell[c]] = want[t]
  BY <1>1, Zenon DEF TaskOK
<1>3. c \in Live /\ cell[c] \in Nodes /\ Sound(cell[c])
  BY LiveFacts, LiveNodes, Zenon DEF CInv, Store
<1> QED
  BY <1>1, <1>2, <1>3, Zenon DEF TaskOK, Wanting

\* Beginning and failing, the mutex, and letting go of the buffer.
LEMMA QuietSteps ==
    ASSUME IInv, CInv, NEW t \in Tasks,
           \/ \E b \in Blocks : StartGet(t, b)
           \/ GetFail(t) \/ GetNoMemory(t) \/ MutexLock(t) \/ LoadFail(t) \/ Put(t) \/ Drop(t)
           \/ DestroyReturn(t)
    PROVE  CInv'
<1>1. DOMAIN pc = Tasks /\ DOMAIN at = Tasks /\ DOMAIN ptr = Tasks /\ DOMAIN want = Tasks
  BY Zenon DEF IInv, TypeOK, CInv, MoreTypes
<1>2. UNCHANGED <<listVars, local, block, data, valid, dirty, disk, written, at>>
  BY Zenon DEF StartGet, GetFail, GetNoMemory, MutexLock, LoadFail, Put, Drop, DestroyReturn, nodeVars, diskVars
<1>3. OnlyTask(t)
  BY <1>1, Zenon DEF OnlyTask, StartGet, GetFail, GetNoMemory, MutexLock, LoadFail, Put, Drop, DestroyReturn, Become
<1>4. SameCells /\ cell' = cell
  BY <1>2, ListsSame, Zenon
<1>5. TaskOK(t)
  BY Zenon DEF CInv
<1>6. CASE \E b \in Blocks : StartGet(t, b)
  <2>1. PICK b \in Blocks : StartGet(t, b)
    BY <1>6, Zenon
  <2>2. /\ pc[t] = "idle" /\ pc'[t] = "get" /\ want'[t] = b /\ ptr'[t] = ptr[t]
        /\ ~Destroying(DeviceOf[b])
    BY <1>1, <2>1, Zenon DEF StartGet, Become
  <2>3. ~InDestroy(t)'
    BY <2>2, Zenon DEF InDestroy
  <2>4. \A d : Destroying(d)' => Destroying(d)
    BY <1>3, <2>3, DestroyingKept, Zenon
  <2>5. TaskOK(t)'
    BY <1>5, <2>2, <2>4, Zenon DEF TaskOK, Wanting, Holding
  <2> QED
    BY <1>2, <1>3, <1>4, <2>2, <2>3, <2>5, QuietKeeps, Zenon
<1>7. CASE MutexLock(t) \/ Put(t)
  <2>1. /\ Holding(t) /\ pc'[t] \in {"locked", "put"} /\ want'[t] = want[t] /\ ptr'[t] = ptr[t]
    BY <1>1, <1>7, Zenon DEF MutexLock, Put, Become, Holding
  <2>2. ~InDestroy(t)' /\ pc[t] /= "d_flush" /\ pc'[t] /= "d_flush"
    BY <2>1, Zenon DEF InDestroy, Holding
  <2>3. \A d : Destroying(d)' => Destroying(d)
    BY <1>3, <2>2, DestroyingKept, Zenon
  <2>4. TaskOK(t)'
    BY <1>2, <1>4, <1>5, <2>1, <2>3, Zenon DEF TaskOK, Wanting, Holding, SameCells
  <2> QED
    BY <1>2, <1>3, <1>4, <2>2, <2>4, QuietKeeps, Zenon
<1>8. CASE GetFail(t) \/ GetNoMemory(t) \/ LoadFail(t) \/ Drop(t) \/ DestroyReturn(t)
  <2>1. pc[t] /= "d_flush" /\ pc'[t] = "idle" /\ ptr'[t] = None
    <3>1. pc[t] /= "d_flush" /\ pc'[t] = "idle"
      BY <1>1, <1>8, Zenon DEF GetFail, GetNoMemory, Missing, Searching, InGet, LoadFail, Drop, DestroyReturn, Become
    <3>2. CASE LoadFail(t) \/ Drop(t)
      BY <1>1, <3>1, <3>2, Zenon DEF LoadFail, Drop
    <3>3. CASE GetFail(t) \/ GetNoMemory(t) \/ DestroyReturn(t)
      <4>1. ptr' = ptr /\ ~Holding(t)
        BY <3>3, Zenon DEF GetFail, GetNoMemory, Missing, Searching, InGet, DestroyReturn, Holding
      <4> QED
        BY <1>5, <3>1, <4>1, Zenon DEF TaskOK
    <3> QED
      BY <1>8, <3>2, <3>3, Zenon
  <2>2. ~InDestroy(t)' /\ TaskOK(t)'
    BY <2>1, Zenon DEF InDestroy, TaskOK, Wanting, Holding
  <2> QED
    BY <1>2, <1>3, <1>4, <2>1, <2>2, QuietKeeps, Zenon
<1> QED
  BY <1>6, <1>7, <1>8, Zenon

\* A hit: the cell found stays in the list until the shared_ptr is copied out of it.
LEMMA HitSteps ==
    ASSUME WellOrder, IInv, CInv, NEW t \in Tasks, GetHit(t) \/ HitReturn(t)
    PROVE  CInv'
<1>1. DOMAIN pc = Tasks /\ DOMAIN at = Tasks /\ DOMAIN ptr = Tasks /\ DOMAIN want = Tasks
  BY Zenon DEF IInv, TypeOK, CInv, MoreTypes
<1>2. UNCHANGED <<cell, want, block, data, valid, dirty, disk, written>>
  BY Zenon DEF GetHit, HitReturn, listVars, nodeVars, diskVars
<1>3. OnlyTask(t)
  BY <1>1, Zenon DEF OnlyTask, GetHit, HitReturn, Become
<1>4. TaskOK(t)
  BY Zenon DEF CInv
<1>5. CASE GetHit(t)
  <2>1. SameCells /\ at'[t] \in InBuffer /\ block[cell[at'[t]]] = want[t]
    BY <1>5, HitMoves, Zenon
  <2>2. pc[t] = "get" /\ pc'[t] = "hit" /\ ptr' = ptr
    BY <1>1, <1>5, Zenon DEF GetHit, Searching, InGet, Become
  <2>3. ~InDestroy(t)'
    BY <2>2, Zenon DEF InDestroy
  <2>4. \A d : Destroying(d)' => Destroying(d)
    BY <1>3, <2>3, DestroyingKept, Zenon
  <2>5. TaskOK(t)'
    BY <1>2, <1>4, <2>1, <2>2, <2>4, Zenon DEF TaskOK, Wanting, Holding, SameCells
  <2> QED
    BY <1>2, <1>3, <2>1, <2>2, <2>3, <2>5, QuietKeeps, Zenon
<1>6. CASE HitReturn(t)
  <2>1. SameCells
    BY <1>6, ListsSame, Zenon DEF HitReturn
  <2>2. pc[t] = "hit" /\ pc'[t] = "got"
    BY <1>1, <1>6, Zenon DEF HitReturn, Become
  <2>3. at[t] \in InBuffer /\ block[cell[at[t]]] = want[t]
    BY <1>4, <2>2, Zenon DEF TaskOK
  <2>4. cell[at[t]] /= None
    BY <2>3, LiveFacts, LiveNodes, NoneAssumption, Zenon
  <2>5. ptr'[t] = cell[at[t]]
    BY <1>1, <1>6, <2>4, Zenon DEF HitReturn, Read
  <2>6. ~InDestroy(t)'
    BY <2>2, Zenon DEF InDestroy
  <2>7. \A d : Destroying(d)' => Destroying(d)
    BY <1>3, <2>6, DestroyingKept, Zenon
  <2>8. TaskOK(t)'
    BY <1>2, <1>4, <2>1, <2>2, <2>3, <2>5, <2>7, Zenon DEF TaskOK, Wanting, Holding, SameCells
  <2> QED
    BY <1>2, <1>3, <2>1, <2>2, <2>6, <2>8, QuietKeeps, Zenon
<1> QED
  BY <1>5, <1>6, Zenon

-----------------------------------------------------------------------------
(* Steps on a buffer *)

\* The holder of a buffer brings it up to date or updates it: the node of cell c
\* is valid afterwards, has every update of its block, and nothing else changes.
LEMMA HeldKeeps ==
    ASSUME IInv, CInv, NEW t \in Tasks, OnlyTask(t), SameCells,
           UNCHANGED <<cell, block, disk>>, pc[t] /= "d_flush", pc'[t] \in {"ready", "modified"},
           ptr'[t] = ptr[t], want'[t] = want[t],
           DOMAIN data' = Nodes, DOMAIN valid' = Nodes, DOMAIN dirty' = Nodes, DOMAIN written' = Blocks,
           NEW c \in InBuffer, ptr[t] = cell[c], block[cell[c]] = want[t], want[t] \in Blocks, Holding(t),
           \A m \in Nodes : m /= cell[c] => data'[m] = data[m] /\ valid'[m] = valid[m] /\ dirty'[m] = dirty[m],
           \A b \in Blocks : b /= want[t] => written'[b] = written[b],
           valid'[cell[c]], data'[cell[c]] = written'[want[t]],
           dirty'[cell[c]] \/ disk[want[t]] = written'[want[t]]
    PROVE  CInv'
<1>1. MoreTypes' /\ NoStray' /\ OneCopy'
  <2>1. MoreTypes /\ NoStray /\ OneCopy
    BY Zenon DEF CInv
  <2>2. /\ Live' = Live /\ Cached' = Cached /\ InFlush' = InFlush
        /\ cell' = cell /\ block' = block /\ disk' = disk
    BY Zenon DEF SameCells
  <2>3. MoreTypes'
    <3>1. DOMAIN want' = Tasks
      BY Zenon DEF OnlyTask
    <3>2. DOMAIN disk = Blocks
      BY <2>1, Zenon DEF MoreTypes
    <3> QED
      BY <2>2, <3>1, <3>2 DEF MoreTypes
  <2>4. NoStray'
    BY <2>1, <2>2, ZenonT(60) DEF NoStray
  <2>5. OneCopy'
    BY <2>1, <2>2, OneCopyKept, Zenon
  <2> QED
    BY <2>3, <2>4, <2>5, Zenon
<1>2. c \in Live /\ Live' = Live /\ \A e \in Live : cell[e] \in Nodes /\ (e /= c => cell[e] /= cell[c])
  BY LiveFacts, LiveNodes, Zenon DEF SameCells
<1>3. want[t] /= None
  BY NoneAssumption, Zenon
<1>4. \A e \in Live : e /= c => block[cell[e]] /= want[t]
  <2>1. \A e \in Live : block[cell[c]] = block[cell[e]] /\ block[cell[c]] /= None => c = e
    BY <1>2, Zenon DEF CInv, OneCopy
  <2> QED
    BY <1>3, <2>1, Zenon
<1>5. ASSUME NEW e \in Live PROVE Sound(cell[e])'
  <2>1. CASE e = c
    BY <2>1, Zenon DEF Sound
  <2>2. CASE e /= c
    <3>1. /\ data'[cell[e]] = data[cell[e]] /\ valid'[cell[e]] = valid[cell[e]]
          /\ dirty'[cell[e]] = dirty[cell[e]] /\ block[cell[e]] /= want[t]
      BY <1>2, <1>4, <2>2, Zenon
    <3>2. Sound(cell[e])
      BY Zenon DEF CInv, Store
    <3> QED
      BY <3>1, <3>2, Zenon DEF Sound
  <2> QED
    BY <2>1, <2>2, Zenon
<1>6. ASSUME NEW b \in Blocks PROVE Stored(b)'
  <2>1. CASE b = want[t]
    BY <1>2, <2>1, Zenon DEF Stored
  <2>2. CASE b /= want[t]
    <3>1. Stored(b) /\ written'[b] = written[b]
      BY <2>2, Zenon DEF CInv, Store
    <3>2. \A e \in Live : block[cell[e]] = b => dirty'[cell[e]] = dirty[cell[e]]
      BY <1>2, <2>2, Zenon
    <3> QED
      BY <1>2, <3>1, <3>2, Zenon DEF Stored
  <2> QED
    BY <2>1, <2>2, Zenon
<1>7. Store'
  BY <1>2, <1>5, <1>6, Zenon DEF Store
<1>8. ~InDestroy(t)'
  BY Zenon DEF InDestroy
<1>9. Separate' /\ \A d : Destroying(d)' => Destroying(d)
  BY <1>8, SeparateKept, DestroyingKept, Zenon
<1>10. \A u \in Tasks : pc[u] \in {"ready", "modified"} /\ valid[ptr[u]] => valid'[ptr[u]]
  <2> SUFFICES ASSUME NEW u \in Tasks, pc[u] \in {"ready", "modified"}, valid[ptr[u]] PROVE valid'[ptr[u]]
    BY Zenon
  <2>1. Holding(u)
    BY Zenon DEF Holding
  <2>2. ptr[u] \in Nodes
    BY <2>1, HolderFacts, Zenon
  <2> QED
    BY <2>2, Zenon
<1>11. \A u \in Tasks : u /= t => TaskOK(u)' /\ LocalOK(u)'
  BY <1>9, <1>10, OthersKept, Zenon
<1>12. TaskOK(t)'
  <2>1. ~Destroying(DeviceOf[want[t]])
    BY Zenon DEF CInv, TaskOK, Wanting
  <2>2. Holding(t)' /\ pc'[t] /= "hit"
    BY Zenon DEF Holding
  <2> QED
    BY <1>9, <2>1, <2>2, Zenon DEF TaskOK, SameCells
<1>13. LocalOK(t)'
  <2>1. LocalOK(t)
    BY Zenon DEF CInv
  <2>2. InLocal(t) = {} /\ InLocal(t)' = InLocal(t)
    BY <2>1, Zenon DEF LocalOK, SameCells
  <2> QED
    BY <2>2, Zenon DEF LocalOK
<1> QED
  BY <1>1, <1>7, <1>9, <1>11, <1>12, <1>13, Zenon DEF CInv

LEMMA UseSteps ==
    ASSUME IInv, CInv, NEW t \in Tasks, Load(t) \/ Modify(t)
    PROVE  CInv'
<1>1. /\ DOMAIN pc = Tasks /\ DOMAIN want = Tasks
      /\ DOMAIN data = Nodes /\ DOMAIN valid = Nodes /\ DOMAIN dirty = Nodes /\ DOMAIN written = Blocks
  BY Zenon DEF IInv, TypeOK, CInv, MoreTypes
<1>2. UNCHANGED <<listVars, local, block, disk, want, at, ptr>>
  BY Zenon DEF Load, Modify, diskVars
<1>3. OnlyTask(t)
  BY <1>1, Zenon DEF OnlyTask, Load, Modify, Become
<1>4. SameCells /\ cell' = cell
  BY <1>2, ListsSame, Zenon
<1>5. Holding(t) /\ pc[t] /= "d_flush" /\ pc'[t] \in {"ready", "modified"}
  BY <1>1, Zenon DEF Load, Modify, Become, Holding
<1>6. PICK c \in InBuffer : /\ ptr[t] = cell[c] /\ block[cell[c]] = want[t] /\ cell[c] \in Nodes
                            /\ c \in Live /\ want[t] \in Blocks /\ Sound(cell[c])
  BY <1>5, HolderFacts, Zenon
<1>7. /\ DOMAIN data' = Nodes /\ DOMAIN valid' = Nodes /\ DOMAIN dirty' = Nodes /\ DOMAIN written' = Blocks
      /\ \A m \in Nodes : m /= cell[c] => data'[m] = data[m] /\ valid'[m] = valid[m] /\ dirty'[m] = dirty[m]
      /\ \A b \in Blocks : b /= want[t] => written'[b] = written[b]
  BY <1>1, <1>6, Zenon DEF Load, Modify, diskVars
<1>8. /\ valid'[cell[c]] /\ data'[cell[c]] = written'[want[t]]
      /\ dirty'[cell[c]] \/ disk[want[t]] = written'[want[t]]
  <2>1. CASE Modify(t)
    <3>1. /\ data'[cell[c]] = data[cell[c]] + 1 /\ written'[want[t]] = written[want[t]] + 1
          /\ dirty'[cell[c]] /\ valid' = valid /\ pc[t] = "ready"
      BY <1>1, <1>6, <2>1, Zenon DEF Modify
    <3>2. valid[cell[c]]
      BY <1>6, <3>1, Zenon DEF CInv, TaskOK
    <3> QED
      BY <1>6, <3>1, <3>2, Zenon DEF Sound
  <2>2. CASE Load(t) /\ valid[cell[c]]
    <3>1. data' = data /\ valid' = valid /\ dirty' = dirty /\ written' = written
      BY <1>6, <2>2, Zenon DEF Load, diskVars
    <3> QED
      BY <1>6, <2>2, <3>1, Zenon DEF Sound
  <2>3. CASE Load(t) /\ ~valid[cell[c]]
    <3>1. data'[cell[c]] = disk[want[t]] /\ valid'[cell[c]] /\ written' = written
      <4>1. /\ ~valid[ptr[t]] => /\ data' = [data EXCEPT ![ptr[t]] = disk[block[ptr[t]]]]
                                /\ valid' = [valid EXCEPT ![ptr[t]] = TRUE]
            /\ written' = written
        BY <2>3, Zenon DEF Load, diskVars
      <4> QED
        BY <1>1, <1>6, <2>3, <4>1
    <3>2. want[t] /= None
      BY <1>6, NoneAssumption, Zenon
    <3>3. \A e \in Live : block[cell[e]] = want[t] => e = c
      BY <1>6, <3>2, Zenon DEF CInv, OneCopy
    <3>4. ~dirty[cell[c]]
      BY <1>6, <2>3, Zenon DEF Sound
    <3>5. Stored(want[t])
      BY <1>6, Zenon DEF CInv, Store
    <3>6. disk[want[t]] = written[want[t]]
      BY <3>3, <3>4, <3>5, Zenon DEF Stored
    <3> QED
      BY <3>1, <3>6, Zenon
  <2> QED
    BY <2>1, <2>2, <2>3, Zenon
<1> QED
  BY <1>2, <1>3, <1>4, <1>5, <1>6, <1>7, <1>8, HeldKeeps, Zenon

-----------------------------------------------------------------------------
(* Steps of destroy *)

\* What the tasks refer to is in buffer_list, and keeps its block.
LEMMA TaskKept ==
    ASSUME CInv, NEW u \in Tasks,
           pc'[u] = pc[u], want'[u] = want[u], at'[u] = at[u] \/ pc[u] /= "hit", ptr'[u] = ptr[u],
           Wanting(u) => (~Destroying(DeviceOf[want[u]]))',
           pc[u] \in {"ready", "modified"} /\ valid[ptr[u]] => valid'[ptr[u]],
           \A c \in InBuffer : Wanting(u) /\ block[cell[c]] = want[u] =>
               c \in InBuffer' /\ cell'[c] = cell[c] /\ block'[cell[c]] = block[cell[c]]
    PROVE  TaskOK(u)'
<1>1. TaskOK(u)
  BY Zenon DEF CInv
<1>2. Wanting(u)' => want'[u] \in Blocks /\ (~Destroying(DeviceOf[want[u]]))'
  BY <1>1, Zenon DEF TaskOK, Wanting, Holding
<1>3. pc'[u] = "hit" => at'[u] \in InBuffer' /\ block'[cell'[at'[u]]] = want'[u]
  BY <1>1, Zenon DEF TaskOK, Wanting
<1>4. ASSUME Holding(u)' PROVE \E c \in InBuffer' : ptr'[u] = cell'[c] /\ block'[cell'[c]] = want'[u]
  <2>1. Holding(u) /\ Wanting(u)
    BY <1>4, Zenon DEF Holding, Wanting
  <2>2. PICK c \in InBuffer : ptr[u] = cell[c] /\ block[cell[c]] = want[u]
    BY <1>1, <2>1, Zenon DEF TaskOK
  <2>3. c \in InBuffer' /\ cell'[c] = cell[c] /\ block'[cell[c]] = block[cell[c]]
    BY <2>1, <2>2, Zenon
  <2>4. ptr'[u] = cell'[c] /\ block'[cell'[c]] = want'[u]
    BY <2>2, <2>3
  <2> QED
    BY <2>3, <2>4, Zenon
<1>5. (~Holding(u) => ptr[u] = None)' /\ (pc'[u] \in {"ready", "modified"} => valid'[ptr'[u]])
  BY <1>1, Zenon DEF TaskOK, Holding
<1> QED
  BY <1>2, <1>3, <1>4, <1>5, Zenon DEF TaskOK

\* flush and init of a buffer of the device: the device has its updates before it is forgotten.
LEMMA DestroyFlushStep ==
    ASSUME IInv, CInv, NEW t \in Tasks, DestroyFlush(t)
    PROVE  CInv'
<1>1. PICK c : c = local[t][at[t]]
  BY Zenon
<1>2. PICK n : n = cell[c]
  BY Zenon
<1>3. /\ pc[t] = "d_flush" /\ at[t] <= Len(local[t])
      /\ Flush(n)
      /\ block' = [block EXCEPT ![n] = None]
      /\ valid' = [valid EXCEPT ![n] = FALSE]
      /\ at' = [at EXCEPT ![t] = @ + 1]
      /\ UNCHANGED <<listVars, data, pc, want, ptr, local>>
  BY <1>1, <1>2, Zenon DEF DestroyFlush
<1>4. SameCells /\ cell' = cell
  BY <1>3, ListsSame, Zenon
<1>5. c \in InLocal(t)
  <2>1. at[t] \in Nat \ {0} /\ local[t] \in Seq(Cells)
    BY <1>3, Zenon DEF IInv, InvLocal, TypeOK
  <2>2. at[t] \in DOMAIN local[t]
    BY <1>3, <2>1
  <2> QED
    BY <1>1, <2>2, Zenon DEF InLocal, Range
<1>6. /\ c \in Live /\ n \in Nodes /\ c \notin InBuffer
      /\ \A e \in Live : cell[e] \in Nodes /\ (e /= c => cell[e] /= n)
  <2>1. InLocal(t) \subseteq Live /\ InLocal(t) \cap (InBuffer \cup InFlush) = {}
    BY InUseFacts, Zenon DEF IInv, CellsApart
  <2> QED
    BY <1>2, <1>5, <2>1, LiveNodes, Zenon
<1>7. /\ DOMAIN block = Nodes /\ DOMAIN valid = Nodes /\ DOMAIN dirty = Nodes /\ DOMAIN disk = Blocks
      /\ DOMAIN at = Tasks
  BY Zenon DEF IInv, TypeOK, CInv, MoreTypes
<1>8. Sound(n)
  BY <1>2, <1>6, Zenon DEF CInv, Store
<1>9. /\ block'[n] = None /\ ~valid'[n] /\ dirty'[n] = (dirty[n] /\ ~valid[n])
      /\ \A m \in Nodes : m /= n => block'[m] = block[m] /\ valid'[m] = valid[m] /\ dirty'[m] = dirty[m]
      /\ written' = written
  BY <1>3, <1>6, <1>7, Zenon DEF Flush
<1>10. ~dirty'[n]
  BY <1>8, <1>9, Zenon DEF Sound
<1>11. MoreTypes'
  <2>1. DOMAIN valid' = Nodes /\ DOMAIN dirty' = Nodes /\ DOMAIN disk' = Blocks
    BY <1>3, <1>7, Zenon DEF Flush
  <2> QED
    BY <1>3, <1>9, <2>1, Zenon DEF CInv, MoreTypes
<1>12. NoStray'
  BY <1>4, Zenon DEF CInv, NoStray, SameCells
<1>13. Live' = Live /\ InBuffer' = InBuffer /\ \A u \in Tasks : InLocal(u)' = InLocal(u)
  BY <1>4, Zenon DEF SameCells
<1>14. \A e \in Live : block'[cell[e]] = None \/ (e /= c /\ block'[cell[e]] = block[cell[e]])
  BY <1>2, <1>6, <1>9, Zenon
<1>15. \A e, f \in Live : block[cell[e]] = block[cell[f]] /\ block[cell[e]] /= None => e = f
  BY Zenon DEF CInv, OneCopy
<1>16. OneCopy'
  BY <1>4, <1>13, <1>14, <1>15 DEF OneCopy
<1>17. /\ \A b \in Blocks : b /= block[n] => disk'[b] = disk[b]
       /\ dirty[n] => disk'[block[n]] = written[block[n]]
       /\ ~dirty[n] => disk' = disk
  <2>1. /\ ~(valid[n] /\ dirty[n] /\ block[n] \in Blocks) => disk' = disk
        /\ valid[n] /\ dirty[n] /\ block[n] \in Blocks => disk' = [disk EXCEPT ![block[n]] = data[n]]
    BY <1>3, Zenon DEF Flush
  <2>2. dirty[n] => valid[n] /\ block[n] \in Blocks /\ data[n] = written[block[n]]
    BY <1>8, Zenon DEF Sound
  <2> QED
    BY <1>7, <2>1, <2>2
<1>18. ASSUME NEW e \in Live PROVE Sound(cell[e])'
  <2>1. CASE e = c
    BY <1>2, <1>4, <1>9, <1>10, <2>1, Zenon DEF Sound
  <2>2. CASE e /= c
    <3>1. /\ block'[cell[e]] = block[cell[e]] /\ valid'[cell[e]] = valid[cell[e]]
          /\ dirty'[cell[e]] = dirty[cell[e]] /\ data' = data /\ Sound(cell[e])
      BY <1>3, <1>6, <1>9, <2>2, Zenon DEF CInv, Store
    <3>2. ASSUME block[cell[e]] \in Blocks PROVE disk'[block[cell[e]]] = disk[block[cell[e]]]
      <4>1. block[cell[e]] /= None
        BY <3>2, NoneAssumption, Zenon
      <4>2. block[cell[e]] /= block[n]
        BY <1>2, <1>6, <1>15, <2>2, <4>1, Zenon
      <4> QED
        BY <1>17, <3>2, <4>2, Zenon
    <3>3. valid[cell[e]] => block[cell[e]] \in Blocks
      BY <3>1, Zenon DEF Sound
    <3> QED
      BY <1>4, <1>9, <3>1, <3>2, <3>3 DEF Sound
  <2> QED
    BY <2>1, <2>2, Zenon
<1>19. ASSUME NEW b \in Blocks PROVE Stored(b)'
  <2>1. Stored(b)
    BY Zenon DEF CInv, Store
  <2>2. CASE b = block[n] /\ dirty[n]
    BY <1>9, <1>17, <2>2, Zenon DEF Stored
  <2>3. CASE disk[b] = written[b] /\ ~(b = block[n] /\ dirty[n])
    BY <1>9, <1>17, <2>3, Zenon DEF Stored
  <2>4. CASE disk[b] /= written[b] /\ ~(b = block[n] /\ dirty[n])
    <3>1. PICK e \in Live : block[cell[e]] = b /\ dirty[cell[e]]
      BY <2>1, <2>4, Zenon DEF Stored
    <3>2. e /= c
      BY <1>2, <2>4, <3>1, Zenon
    <3>3. block'[cell[e]] = block[cell[e]] /\ dirty'[cell[e]] = dirty[cell[e]]
      BY <1>6, <1>9, <3>2, Zenon
    <3>4. e \in Live' /\ block'[cell'[e]] = b /\ dirty'[cell'[e]]
      BY <1>4, <1>13, <3>1, <3>3, Zenon
    <3> QED
      BY <3>4, Zenon DEF Stored
  <2> QED
    BY <2>2, <2>3, <2>4, Zenon
<1>20. Store'
  BY <1>4, <1>13, <1>18, <1>19, Zenon DEF Store
<1>21. /\ \A d : Destroying(d)' <=> Destroying(d)
       /\ \A u \in Tasks : (InDestroy(u)' <=> InDestroy(u)) /\ want'[u] = want[u]
  BY <1>3, Zenon DEF Destroying, InDestroy
<1>22. Separate'
  <2>1. \A e \in InBuffer : block'[cell[e]] = block[cell[e]]
    BY <1>6, <1>9, LiveFacts, Zenon
  <2> QED
    BY <1>4, <1>13, <1>21, <2>1, ZenonT(60) DEF CInv, Separate
<1>23. ASSUME NEW u \in Tasks PROVE LocalOK(u)'
  <2>1. LocalOK(u) /\ InLocal(u) \subseteq Live
    BY InUseFacts, Zenon DEF CInv
  <2>2. \A e \in InLocal(u) : block'[cell[e]] = None \/ block'[cell[e]] = block[cell[e]]
    BY <1>14, <2>1, Zenon
  <2> QED
    BY <1>3, <1>4, <1>13, <2>1, <2>2 DEF LocalOK
<1>24. ASSUME NEW u \in Tasks PROVE TaskOK(u)'
  <2>1. TaskOK(u)
    BY Zenon DEF CInv
  <2>2. pc'[u] = pc[u] /\ want'[u] = want[u] /\ ptr'[u] = ptr[u] /\ (at'[u] = at[u] \/ pc[u] /= "hit")
    BY <1>3, <1>7, Zenon
  <2>3. Wanting(u) => (~Destroying(DeviceOf[want[u]]))'
    BY <1>21, <2>1, <2>2, Zenon DEF TaskOK
  <2>4. \A e \in InBuffer : e \in InBuffer' /\ cell'[e] = cell[e] /\ block'[cell[e]] = block[cell[e]]
    BY <1>4, <1>6, <1>9, <1>13, LiveFacts, Zenon
  <2>5. ASSUME pc[u] \in {"ready", "modified"}, valid[ptr[u]] PROVE valid'[ptr[u]]
    <3>1. Holding(u)
      BY <2>5, Zenon DEF Holding
    <3>2. PICK e \in InBuffer : ptr[u] = cell[e] /\ e \in Live
      BY <3>1, HolderFacts, Zenon
    <3>3. valid'[cell[e]] = valid[cell[e]]
      BY <1>6, <1>9, <3>2, Zenon
    <3> QED
      BY <2>5, <3>2, <3>3, Zenon
  <2> QED
    BY <2>2, <2>3, <2>4, <2>5, TaskKept, Zenon
<1> QED
  BY <1>11, <1>12, <1>16, <1>20, <1>22, <1>23, <1>24, Zenon DEF CInv

\* The local list joins buffer_list, none of its buffers standing for a block.
LEMMA DestroyMergeStep ==
    ASSUME IInv, CInv, NEW t \in Tasks, DestroyMerge(t)
    PROVE  CInv'
<1>1. /\ pc[t] = "d_flush" /\ at[t] > Len(local[t])
      /\ buffer_list' = buffer_list \o local[t]
      /\ local' = [local EXCEPT ![t] = <<>>]
      /\ at' = [at EXCEPT ![t] = None]
      /\ pc' = [pc EXCEPT ![t] = "d_done"]
      /\ UNCHANGED <<flush_list, buffer_cache, flush_cache, cell, nodeVars, diskVars, want, ptr>>
  BY Zenon DEF DestroyMerge, Become
<1>2. DOMAIN pc = Tasks /\ DOMAIN at = Tasks /\ local \in [Tasks -> Seq(Cells)]
  BY Zenon DEF IInv, TypeOK
<1>3. InBuffer' = InBuffer \cup InLocal(t)
  BY <1>1, <1>2, ListTypes, ConcatSet DEF InBuffer, InLocal
<1>4. InLocal(t)' = {} /\ \A u \in Tasks : u /= t => InLocal(u)' = InLocal(u)
  <2>1. local'[t] = <<>> /\ \A u \in Tasks : u /= t => local'[u] = local[u]
    BY <1>1, <1>2, Zenon
  <2> QED
    BY <2>1 DEF InLocal, Range
<1>5. InFlush' = InFlush /\ Cached' = Cached
  BY <1>1, Zenon DEF InFlush, Cached
<1>6. Live' = Live
  <2>1. /\ Live = InBuffer \cup InFlush \cup UNION {InLocal(u) : u \in Tasks}
        /\ Live' = InBuffer' \cup InFlush' \cup UNION {InLocal(u)' : u \in Tasks}
    BY Zenon DEF Live
  <2>2. UNION {InLocal(u) : u \in Tasks} = InLocal(t) \cup UNION {InLocal(u)' : u \in Tasks}
    BY <1>4, Zenon
  <2> QED
    BY <1>3, <1>5, <2>1, <2>2, Zenon
<1>7. \A e \in InLocal(t) : block[cell[e]] = None
  <2>1. /\ at[t] \in Nat
        /\ \A i \in DOMAIN local[t] : i < at[t] => block[cell[local[t][i]]] = None
    BY <1>1, Zenon DEF IInv, InvLocal
  <2>2. \A i \in DOMAIN local[t] : i < at[t]
    BY <1>1, <1>2, <2>1
  <2> QED
    BY <2>1, <2>2 DEF InLocal, Range
<1>8. UNCHANGED <<cell, block, data, valid, dirty, disk, written, want, ptr>>
  BY <1>1, Zenon DEF nodeVars, diskVars
<1>9. MoreTypes' /\ NoStray' /\ OneCopy'
  BY <1>5, <1>6, <1>8, Zenon DEF CInv, MoreTypes, NoStray, OneCopy
<1>10. Store'
  BY <1>6, <1>8, Zenon DEF CInv, Store, Sound, Stored
<1>11. /\ pc'[t] = "d_done"
       /\ \A u \in Tasks : u /= t => pc'[u] = pc[u] /\ at'[u] = at[u]
  BY <1>1, <1>2, Zenon
<1>12. \A u \in Tasks : InDestroy(u)' <=> InDestroy(u)
  BY <1>1, <1>11, Zenon DEF InDestroy
<1>13. \A d : Destroying(d)' <=> Destroying(d)
  <2>1. \A d : Destroying(d) <=> \E u \in Tasks : InDestroy(u) /\ want[u] = d
    BY Zenon DEF Destroying, InDestroy
  <2>2. \A d : Destroying(d)' <=> \E u \in Tasks : InDestroy(u)' /\ want'[u] = d
    BY Zenon DEF Destroying, InDestroy
  <2> QED
    BY <1>8, <1>12, <2>1, <2>2, Zenon
<1>14. Separate'
  <2>1. Separate
    BY Zenon DEF CInv
  <2>2. \A u, v \in Tasks : InDestroy(u)' /\ InDestroy(v)' /\ want'[u] = want'[v] => u = v
    BY <1>8, <1>12, <2>1, Zenon DEF Separate
  <2>3. \A e \in InBuffer : block[cell[e]] /= None => ~Destroying(DeviceOf[block[cell[e]]])
    BY <2>1, Zenon DEF Separate
  <2>4. \A e \in InBuffer' : block[cell[e]] /= None => ~Destroying(DeviceOf[block[cell[e]]])
    BY <1>3, <1>7, <2>3, Zenon
  <2> QED
    BY <1>8, <1>13, <2>2, <2>4 DEF Separate
<1>15. ASSUME NEW u \in Tasks PROVE LocalOK(u)'
  <2>1. LocalOK(u)
    BY Zenon DEF CInv
  <2> QED
    BY <1>4, <1>8, <1>11, <2>1, Zenon DEF LocalOK
<1>16. ASSUME NEW u \in Tasks PROVE TaskOK(u)'
  <2>1. TaskOK(u)
    BY Zenon DEF CInv
  <2>2. CASE u = t
    <3>1. ~Holding(t) /\ ~Holding(t)' /\ ~Wanting(t)'
      BY <1>1, <1>11, Zenon DEF Holding, Wanting
    <3> QED
      BY <1>8, <1>11, <2>1, <2>2, <3>1, Zenon DEF TaskOK
  <2>3. CASE u /= t
    <3>1. Wanting(u) => (~Destroying(DeviceOf[want[u]]))'
      BY <1>8, <1>13, <2>1, Zenon DEF TaskOK
    <3> QED
      BY <1>3, <1>8, <1>11, <2>3, <3>1, TaskKept, Zenon
  <2> QED
    BY <2>2, <2>3, Zenon
<1> QED
  BY <1>9, <1>10, <1>14, <1>15, <1>16, Zenon DEF CInv

-----------------------------------------------------------------------------
(* The order of buffer_list *)

\* Once an element is in E, so are those behind it.
Falling(s, E) == \A i, j \in DOMAIN s : i < j /\ s[i] \in E => s[j] \in E

\* Cells whose buffer stands for no block.
EmptyCells == {c \in Cells : block[cell[c]] = None}

\* What destroy has emptied is behind every buffer of a block: destroy merges at
\* the end, and what is found or brought in goes to the front.
EmptyLast == Falling(buffer_list, EmptyCells)

LEMMA ConsFalling ==
    ASSUME NEW X, NEW s \in Seq(X), NEW e \in X, NEW E, e \notin E, Falling(s, E)
    PROVE  Falling(<<e>> \o s, E)
<1>1. PICK q : q = <<e>> \o s
  BY Zenon
<1>2. ASSUME NEW i \in DOMAIN q, NEW j \in DOMAIN q, i < j, q[i] \in E PROVE q[j] \in E
  <2>1. i \in Nat /\ j \in Nat /\ (i = 1 => q[i] = e)
    BY <1>1
  <2>2. i /= 1
    BY <1>2, <2>1, Zenon
  <2>3. /\ i - 1 \in DOMAIN s /\ q[i] = s[i - 1]
        /\ j - 1 \in DOMAIN s /\ q[j] = s[j - 1] /\ i - 1 < j - 1
    BY <1>1, <1>2, <2>2
  <2> QED
    BY <1>2, <2>3, Zenon DEF Falling
<1> QED
  BY <1>1, <1>2, Zenon DEF Falling

LEMMA ConcatFalling ==
    ASSUME NEW X, NEW s \in Seq(X), NEW r \in Seq(X), NEW E, Falling(s, E), Range(r) \subseteq E
    PROVE  Falling(s \o r, E)
<1>1. PICK q : q = s \o r
  BY Zenon
<1>2. ASSUME NEW i \in DOMAIN q, NEW j \in DOMAIN q, i < j, q[i] \in E PROVE q[j] \in E
  <2>1. CASE j <= Len(s)
    <3>1. i \in DOMAIN s /\ j \in DOMAIN s /\ q[i] = s[i] /\ q[j] = s[j]
      BY <1>1, <1>2, <2>1
    <3> QED
      BY <1>2, <3>1, Zenon DEF Falling
  <2>2. CASE ~(j <= Len(s))
    <3>1. j - Len(s) \in DOMAIN r /\ q[j] = r[j - Len(s)]
      BY <1>1, <2>2
    <3> QED
      BY <3>1, Zenon DEF Range
  <2> QED
    BY <2>1, <2>2, Zenon
<1> QED
  BY <1>1, <1>2, Zenon DEF Falling

LEMMA AppendFalling ==
    ASSUME NEW X, NEW s \in Seq(X), NEW e \in X, NEW E, Falling(s, E), e \in E \/ Range(s) \cap E = {}
    PROVE  Falling(Append(s, e), E)
<1>1. PICK q : q = Append(s, e)
  BY Zenon
<1>2. ASSUME NEW i \in DOMAIN q, NEW j \in DOMAIN q, i < j, q[i] \in E PROVE q[j] \in E
  <2>1. i \in DOMAIN s /\ q[i] = s[i] /\ ((j \in DOMAIN s /\ q[j] = s[j]) \/ q[j] = e)
    BY <1>1, <1>2
  <2>2. e \in E
    BY <1>2, <2>1, Zenon DEF Range
  <2> QED
    BY <1>2, <2>1, <2>2, Zenon DEF Falling
<1> QED
  BY <1>1, <1>2, Zenon DEF Falling

\* What is left of a list keeps its order.
LEMMA OnlyFalling ==
    ASSUME WellOrder, NEW X, NEW s \in Seq(X), NEW S, NEW E, Falling(s, E)
    PROVE  Falling(Only(s, S), E)
<1>1. PICK f : /\ Only(s, S) = f[Len(s)]
               /\ f[0] = <<>>
               /\ \A i \in 1..Len(s) :
                     f[i] = IF s[i] \in S THEN Append(f[i - 1], s[i]) ELSE f[i - 1]
  BY OnlyRecursion
<1> DEFINE Good(i) == f[i] \in Seq(X) /\ Range(f[i]) \subseteq {s[k] : k \in 1..i} /\ Falling(f[i], E)
           T == {i \in Nat : Good(i)}
<1>2. Len(s) \in Nat /\ DOMAIN s = 1..Len(s)
  OBVIOUS
<1>3. 0 \in T
  <2>1. f[0] \in Seq(X) /\ Range(f[0]) = {} /\ Falling(f[0], E)
    BY <1>1 DEF Range, Falling
  <2> QED
    BY <2>1, Zenon
<1>4. ASSUME NEW i \in 1..Len(s), i - 1 \in T PROVE i \in T
  <2>1. /\ i \in Nat /\ i \in DOMAIN s /\ s[i] \in X
        /\ f[i - 1] \in Seq(X) /\ Range(f[i - 1]) \subseteq {s[k] : k \in 1..(i - 1)}
        /\ Falling(f[i - 1], E)
    BY <1>2, <1>4
  <2>2. \A k \in 1..(i - 1) : k \in 1..i /\ k \in DOMAIN s /\ k < i
    BY <1>2, <2>1
  <2>3. i \in 1..i
    BY <2>1
  <2>4. CASE s[i] \in S
    <3>1. f[i] = Append(f[i - 1], s[i])
      BY <1>1, <2>4, Zenon
    <3>2. PICK g, e : g = f[i - 1] /\ e = s[i]
      BY Zenon
    <3>3. e \in E \/ Range(g) \cap E = {}
      <4> SUFFICES ASSUME NEW x \in Range(g), x \in E PROVE e \in E
        BY Zenon
      <4>1. PICK k \in 1..(i - 1) : x = s[k]
        BY <2>1, <3>2, Zenon
      <4> QED
        BY <2>1, <2>2, <3>2, <4>1, Zenon DEF Falling
    <3>4. /\ Append(g, e) \in Seq(X) /\ Range(Append(g, e)) = Range(g) \cup {e}
      BY <2>1, <3>2, AppendSet
    <3>5. Falling(Append(g, e), E)
      BY <2>1, <3>2, <3>3, AppendFalling, Zenon
    <3>6. Range(f[i]) \subseteq {s[k] : k \in 1..i}
      BY <2>1, <2>2, <2>3, <3>1, <3>2, <3>4, Zenon
    <3> QED
      BY <2>1, <3>1, <3>2, <3>4, <3>5, <3>6, Zenon
  <2>5. CASE s[i] \notin S
    <3>1. f[i] = f[i - 1]
      BY <1>1, <2>5, Zenon
    <3> QED
      BY <2>1, <2>2, <3>1, Zenon
  <2> QED
    BY <2>4, <2>5, Zenon
<1>5. Len(s) \in T
  <2> HIDE DEF T
  <2>1. Len(s) \in Nat /\ Len(s) \in 0..Len(s)
    BY <1>2
  <2>2. \A i \in 1..Len(s) : i - 1 \in T => i \in T
    BY <1>4, Zenon
  <2>3. \A i \in 0..Len(s) : i \in T
    BY <1>3, <2>1, <2>2, UpTo, Zenon
  <2> QED
    BY <2>1, <2>3, Zenon
<1> QED
  BY <1>1, <1>5, Zenon

LEMMA OrderSame ==
    ASSUME IInv, EmptyLast, buffer_list' = buffer_list, \A c \in InBuffer : block'[cell'[c]] = block[cell[c]]
    PROVE  EmptyLast'
<1>1. \A i \in DOMAIN buffer_list : buffer_list[i] \in EmptyCells' <=> buffer_list[i] \in EmptyCells
  BY Zenon DEF EmptyCells, InBuffer, Range
<1> QED
  BY <1>1, Zenon DEF EmptyLast, Falling

\* A cell with a block goes to the front of what is left.
LEMMA OrderFront ==
    ASSUME NEW a \in Cells, NEW list \in Seq(Cells), Falling(list, EmptyCells),
           buffer_list' = <<a>> \o list, block'[cell'[a]] /= None,
           \A e \in Range(list) : block'[cell'[e]] = block[cell[e]]
    PROVE  EmptyLast'
<1>1. PICK E : E = EmptyCells'
  BY Zenon
<1>2. a \notin E /\ \A i \in DOMAIN list : list[i] \in E <=> list[i] \in EmptyCells
  BY <1>1, Zenon DEF EmptyCells, Range
<1>3. Falling(list, E)
  BY <1>2, Zenon DEF Falling
<1>4. Falling(<<a>> \o list, E)
  BY <1>2, <1>3, ConsFalling, Zenon
<1> QED
  BY <1>1, <1>4, Zenon DEF EmptyLast

-----------------------------------------------------------------------------
(* Steps that bring a block in *)

\* Node n, which no list holds once c is freed, is put in cell a for the block
\* that t wants; c, if it was listed, held a node without a block.
NewCells(a, c, n) ==
    /\ InBuffer' = (InBuffer \ {c}) \cup {a} /\ Live' = (Live \ {c}) \cup {a}
    /\ InFlush' = {} /\ Cached' = {}
    /\ \A u \in Tasks : InLocal(u)' = InLocal(u) /\ c \notin InLocal(u)
    /\ a \notin Live \ {c}
    /\ c \in InBuffer => block[cell[c]] = None
    /\ c \in InBuffer \/ c \notin Live
    /\ cell'[a] = n
    /\ \A e \in Live \ {c} : cell'[e] = cell[e] /\ cell[e] /= n
    /\ \A e \in Cells \ Live' : cell'[e] = None

NewNode(t, n) ==
    /\ n \in Nodes /\ block'[n] = want[t] /\ ~valid'[n] /\ ~dirty'[n]
    /\ \A m \in Nodes : m /= n => /\ block'[m] = block[m] /\ data'[m] = data[m]
                                  /\ valid'[m] = valid[m] /\ dirty'[m] = dirty[m]
    /\ \A e \in InBuffer : block[cell[e]] /= want[t]
    /\ MoreTypes'

GivenTo(t, n) ==
    /\ UNCHANGED <<disk, written, want, at>>
    /\ pc[t] = "get" /\ pc'[t] = "got" /\ ptr'[t] = n
    /\ \A u \in Tasks : u /= t => pc'[u] = pc[u] /\ ptr'[u] = ptr[u]

LEMMA NewCopyKeeps ==
    ASSUME IInv, CInv, NEW t \in Tasks, NEW a, NEW c, NEW n,
           NewCells(a, c, n), NewNode(t, n), GivenTo(t, n)
    PROVE  CInv'
<1> USE DEF NewCells, NewNode, GivenTo
<1>1. NoStray'
  BY Zenon DEF NoStray
<1>2. TaskOK(t) /\ want[t] \in Blocks /\ ~Destroying(DeviceOf[want[t]])
  BY Zenon DEF CInv, TaskOK, Wanting
<1>3. want[t] /= None
  BY <1>2, NoneAssumption, Zenon
<1>4. \A e \in Live \ {c} : /\ e \in Live' /\ e /= a /\ cell'[e] = cell[e] /\ cell[e] \in Nodes
                            /\ block'[cell[e]] = block[cell[e]] /\ data'[cell[e]] = data[cell[e]]
                            /\ valid'[cell[e]] = valid[cell[e]] /\ dirty'[cell[e]] = dirty[cell[e]]
  BY LiveNodes, Zenon
<1>5. \A e \in Live \ {c} : block[cell[e]] /= want[t]
  <2>0. InFlush = {}
    BY Zenon DEF CInv, NoStray
  <2>1. \A e \in Live : e \in InBuffer \/ \E u \in Tasks : e \in InLocal(u)
    <3> HIDE DEF NewCells, NewNode, GivenTo
    <3> QED
      BY <2>0, Zenon DEF Live
  <2> SUFFICES ASSUME NEW e \in Live \ {c}, block[cell[e]] = want[t] PROVE FALSE
    BY Zenon
  <2>2. PICK u \in Tasks : e \in InLocal(u)
    BY <2>1
  <2>3. LocalOK(u)
    BY Zenon DEF CInv
  <2>4. pc[u] = "d_flush" /\ DeviceOf[want[t]] = want[u]
    BY <1>3, <2>2, <2>3, Zenon DEF LocalOK
  <2>5. Destroying(DeviceOf[want[t]])
    BY <2>4, Zenon DEF Destroying
  <2> QED
    BY <1>2, <2>5, Zenon
<1>6. OneCopy'
  <2>1. \A e, f \in Live : block[cell[e]] = block[cell[f]] /\ block[cell[e]] /= None => e = f
    BY Zenon DEF CInv, OneCopy
  <2>2. ASSUME NEW e \in Live', NEW f \in Live', block'[cell'[e]] = block'[cell'[f]], block'[cell'[e]] /= None
        PROVE  e = f
    <3>1. CASE e = a /\ f = a
      BY <3>1, Zenon
    <3>2. CASE e = a /\ f \in Live \ {c}
      <4>1. block'[cell'[e]] = want[t] /\ block'[cell'[f]] = block[cell[f]]
        BY <1>4, <3>2
      <4> QED
        BY <1>5, <2>2, <3>2, <4>1
    <3>3. CASE e \in Live \ {c} /\ f = a
      <4>1. block'[cell'[f]] = want[t] /\ block'[cell'[e]] = block[cell[e]]
        BY <1>4, <3>3
      <4> QED
        BY <1>5, <2>2, <3>3, <4>1
    <3>4. CASE e \in Live \ {c} /\ f \in Live \ {c}
      <4>1. block'[cell'[f]] = block[cell[f]] /\ block'[cell'[e]] = block[cell[e]]
        BY <1>4, <3>4
      <4> QED
        BY <2>1, <2>2, <3>4, <4>1
    <3> QED
      BY <2>2, <3>1, <3>2, <3>3, <3>4, Zenon
  <2> QED
    BY <2>2, Zenon DEF OneCopy
<1>7. ASSUME NEW e \in Live' PROVE Sound(cell[e])'
  <2>1. CASE e = a
    <3>1. cell'[e] = n
      BY <2>1, Zenon
    <3> QED
      BY <1>2, <3>1 DEF Sound
  <2>2. CASE e \in Live \ {c}
    <3>1. Sound(cell[e])
      BY <2>2, Zenon DEF CInv, Store
    <3>2. disk' = disk /\ written' = written
      BY Zenon
    <3>3. /\ cell'[e] = cell[e] /\ block'[cell[e]] = block[cell[e]] /\ data'[cell[e]] = data[cell[e]]
          /\ valid'[cell[e]] = valid[cell[e]] /\ dirty'[cell[e]] = dirty[cell[e]]
      BY <1>4, <2>2
    <3> HIDE DEF NewCells, NewNode, GivenTo
    <3> QED
      BY <3>1, <3>2, <3>3, Zenon DEF Sound
  <2> QED
    BY <1>7, <2>1, <2>2, Zenon
<1>8. ASSUME NEW b \in Blocks PROVE Stored(b)'
  <2>1. Stored(b)
    BY Zenon DEF CInv, Store
  <2>2. CASE disk[b] = written[b]
    BY <2>2, Zenon DEF Stored
  <2>3. CASE disk[b] /= written[b]
    <3>1. PICK e \in Live : block[cell[e]] = b /\ dirty[cell[e]]
      BY <2>1, <2>3, Zenon DEF Stored
    <3>2. e /= c
      <4>1. c \in Live => block[cell[c]] = None
        BY Zenon
      <4>2. b /= None
        BY NoneAssumption, Zenon
      <4> HIDE DEF NewCells, NewNode, GivenTo
      <4> QED
        BY <3>1, <4>1, <4>2
    <3>3. e \in Live' /\ block'[cell'[e]] = b /\ dirty'[cell'[e]]
      BY <1>4, <3>1, <3>2, ZenonT(60)
    <3> QED
      BY <3>3, Zenon DEF Stored
  <2> QED
    BY <2>2, <2>3, Zenon
<1>9. Store'
  BY <1>7, <1>8, Zenon DEF Store
<1>10. \A u \in Tasks : InDestroy(u)' <=> InDestroy(u)
  BY Zenon DEF InDestroy
<1>11. \A d : Destroying(d)' <=> Destroying(d)
  <2>1. \A d : Destroying(d) <=> \E u \in Tasks : InDestroy(u) /\ want[u] = d
    BY Zenon DEF Destroying, InDestroy
  <2>2. \A d : Destroying(d)' <=> \E u \in Tasks : InDestroy(u)' /\ want'[u] = d
    BY Zenon DEF Destroying, InDestroy
  <2> QED
    BY <1>10, <2>1, <2>2, Zenon
<1>12. InBuffer \subseteq Live
  BY LiveFacts, Zenon
<1>13. Separate'
  <2>1. Separate
    BY Zenon DEF CInv
  <2>2. \A u, v \in Tasks : InDestroy(u)' /\ InDestroy(v)' /\ want'[u] = want'[v] => u = v
    BY <1>10, <2>1, Zenon DEF Separate
  <2>3. \A e \in InBuffer : block[cell[e]] /= None => ~Destroying(DeviceOf[block[cell[e]]])
    BY <2>1, Zenon DEF Separate
  <2>4. ASSUME NEW e \in InBuffer', block'[cell'[e]] /= None
        PROVE  (~Destroying(DeviceOf[block[cell[e]]]))'
    <3>1. CASE e = a
      <4>1. block'[cell'[e]] = want[t]
        BY <3>1, Zenon
      <4> QED
        BY <1>2, <1>11, <4>1, Zenon
    <3>2. CASE e \in InBuffer \ {c}
      <4>1. block'[cell'[e]] = block[cell[e]]
        BY <1>4, <1>12, <3>2, Zenon
      <4> QED
        BY <1>11, <2>3, <2>4, <3>2, <4>1, Zenon
    <3> QED
      BY <3>1, <3>2, Zenon
  <2> QED
    BY <2>2, <2>4, Zenon DEF Separate
<1>14. ASSUME NEW u \in Tasks PROVE LocalOK(u)'
  <2>1. LocalOK(u) /\ InLocal(u) \subseteq Live \ {c} /\ InLocal(u)' = InLocal(u)
    BY InUseFacts, Zenon DEF CInv
  <2>2. \A e \in InLocal(u) : block'[cell'[e]] = block[cell[e]]
    BY <1>4, <2>1
  <2>3. pc'[u] /= "d_flush" => pc[u] /= "d_flush"
    BY Zenon
  <2> QED
    BY <2>1, <2>2, <2>3 DEF LocalOK
<1>15. TaskOK(t)'
  <2>1. a \in InBuffer' /\ ptr'[t] = cell'[a] /\ block'[cell'[a]] = want'[t]
    BY Zenon
  <2>2. (~Destroying(DeviceOf[want[t]]))' /\ want'[t] \in Blocks
    BY <1>2, <1>11, Zenon
  <2> QED
    BY <2>1, <2>2, Zenon DEF TaskOK, Holding
<1>16. ASSUME NEW u \in Tasks, u /= t PROVE TaskOK(u)'
  <2>1. TaskOK(u)
    BY Zenon DEF CInv
  <2>2. pc'[u] = pc[u] /\ want'[u] = want[u] /\ at'[u] = at[u] /\ ptr'[u] = ptr[u]
    BY <1>16, Zenon
  <2>3. Wanting(u) => (~Destroying(DeviceOf[want[u]]))'
    BY <1>11, <2>1, <2>2, Zenon DEF TaskOK
  <2>4. Wanting(u) => want[u] /= None
    BY <2>1, NoneAssumption, Zenon DEF TaskOK
  <2>5. \A e \in InBuffer : Wanting(u) /\ block[cell[e]] = want[u] => e \in InBuffer \ {c} /\ e \in Live \ {c}
    BY <1>12, <2>4, Zenon
  <2>6. \A e \in InBuffer : Wanting(u) /\ block[cell[e]] = want[u] =>
            e \in InBuffer' /\ cell'[e] = cell[e] /\ block'[cell[e]] = block[cell[e]]
    BY <1>4, <2>5, Zenon
  <2>7. ASSUME pc[u] \in {"ready", "modified"}, valid[ptr[u]] PROVE valid'[ptr[u]]
    <3>1. Holding(u) /\ Wanting(u)
      BY <2>7, Zenon DEF Holding, Wanting
    <3>2. PICK e \in InBuffer : ptr[u] = cell[e] /\ block[cell[e]] = want[u]
      BY <3>1, HolderFacts, Zenon
    <3>3. valid'[cell[e]] = valid[cell[e]]
      BY <1>4, <2>5, <3>1, <3>2, Zenon
    <3> QED
      BY <2>7, <3>2, <3>3, Zenon
  <2> QED
    BY <2>2, <2>3, <2>6, <2>7, TaskKept, Zenon
<1> QED
  BY <1>1, <1>6, <1>9, <1>13, <1>14, <1>15, <1>16, Zenon DEF CInv

\* The new buffer comes in front of those that were there.
LEMMA NewCopyOrder ==
    ASSUME IInv, CInv, NEW t \in Tasks, NEW a \in Cells, NEW c, NEW n,
           NewCells(a, c, n), NewNode(t, n), GivenTo(t, n),
           NEW list \in Seq(Cells), Range(list) \subseteq InBuffer \ {c}, Falling(list, EmptyCells),
           buffer_list' = <<a>> \o list
    PROVE  EmptyLast'
<1>1. want[t] /= None
  <2>1. TaskOK(t) /\ Wanting(t)
    BY Zenon DEF CInv, Wanting, GivenTo
  <2> QED
    BY <2>1, NoneAssumption, Zenon DEF TaskOK
<1>2. block'[cell'[a]] = want[t]
  BY Zenon DEF NewCells, NewNode
<1>3. \A e \in Range(list) : e \in Live \ {c}
  BY LiveFacts, Zenon
<1>4. \A e \in Range(list) : cell'[e] = cell[e] /\ cell[e] /= n /\ cell[e] \in Nodes
  BY <1>3, LiveNodes, Zenon DEF NewCells
<1>5. \A e \in Range(list) : block'[cell'[e]] = block[cell[e]]
  BY <1>4, ZenonT(60) DEF NewNode
<1> QED
  BY <1>1, <1>2, <1>5, OrderFront, Zenon

\* make_shared and push_front: no cell was cached, so the new cell is one that no list uses.
LEMMA GetNewStep ==
    ASSUME WellOrder, IInv, CInv, NEW t \in Tasks, GetNew(t)
    PROVE  CInv' /\ (EmptyLast => EmptyLast')
<1>1. PICK n \in FreeNodes :
          /\ block' = [block EXCEPT ![n] = want[t]]
          /\ valid' = [valid EXCEPT ![n] = FALSE]
          /\ dirty' = [dirty EXCEPT ![n] = FALSE]
          /\ data' = [data EXCEPT ![n] = 0]
          /\ PushFront(n, buffer_list, cell, buffer_cache)
          /\ ptr' = [ptr EXCEPT ![t] = n]
  BY Zenon DEF GetNew
<1>2. /\ pc' = [pc EXCEPT ![t] = "got"] /\ pc[t] = "get" /\ Matches(buffer_list, want[t]) = {}
      /\ UNCHANGED <<flush_list, flush_cache, disk, written, want, at, local>>
  BY Zenon DEF GetNew, Missing, Searching, InGet, Become, diskVars
<1>3. PICK a : a = AllocCell(buffer_cache)
  BY Zenon
<1>4. /\ CanAlloc(buffer_cache) /\ buffer_list' = <<a>> \o buffer_list
      /\ buffer_cache' = AfterAlloc(buffer_cache) /\ cell' = [cell EXCEPT ![a] = n]
  BY <1>1, <1>3, Zenon DEF PushFront
<1>5. /\ Cached = {} /\ InFlush = {} /\ Range(buffer_cache) = {} /\ Range(flush_cache) = {}
  BY Zenon DEF CInv, NoStray, Cached
<1>6. a \in Cells /\ a \notin InUseCells /\ Range(buffer_cache') = {}
  BY <1>3, <1>4, <1>5, ListTypes, CachesApart, AllocFacts, Zenon
<1>7. /\ a \notin Live /\ Live \subseteq Cells /\ None \notin Cells /\ InBuffer \subseteq Live
      /\ \A u \in Tasks : InLocal(u) \subseteq Live
  BY <1>6, InUseFacts, LiveFacts, NoneAssumption, Zenon
<1>8. InBuffer' = InBuffer \cup {a}
  BY <1>4, <1>6, ListTypes, ConsSet DEF InBuffer
<1>9. InFlush' = {} /\ Cached' = {} /\ \A u \in Tasks : InLocal(u)' = InLocal(u)
  BY <1>2, <1>5, <1>6, Zenon DEF InFlush, Cached, InLocal
<1>10. Live' = Live \cup {a}
  <2>1. /\ Live = InBuffer \cup InFlush \cup UNION {InLocal(u) : u \in Tasks}
        /\ Live' = InBuffer' \cup InFlush' \cup UNION {InLocal(u)' : u \in Tasks}
    BY Zenon DEF Live
  <2>2. UNION {InLocal(u)' : u \in Tasks} = UNION {InLocal(u) : u \in Tasks}
    BY <1>9, Zenon
  <2> QED
    BY <1>5, <1>8, <1>9, <2>1, <2>2, Zenon
<1>11. /\ InBuffer' = (InBuffer \ {None}) \cup {a} /\ Live' = (Live \ {None}) \cup {a}
       /\ a \notin Live \ {None} /\ None \notin InBuffer /\ None \notin Live
       /\ \A u \in Tasks : None \notin InLocal(u)
  BY <1>7, <1>8, <1>10, Zenon
<1>12. n \in Nodes /\ \A e \in Cells : cell[e] /= n
  BY FreeNodeFacts, Zenon
<1>13. cell \in [Cells -> Nodes \cup {None}]
  BY ListTypes, Zenon
<1>14. /\ cell'[a] = n /\ \A e \in Live \ {None} : cell'[e] = cell[e] /\ cell[e] /= n
       /\ \A e \in Cells : e /= a => cell'[e] = cell[e]
  BY <1>4, <1>6, <1>7, <1>12, <1>13, Zenon
<1>15. \A e \in Cells \ Live' : cell'[e] = None
  BY <1>10, <1>14, Zenon DEF CInv, NoStray
<1>16. /\ DOMAIN block = Nodes /\ DOMAIN pc = Tasks /\ DOMAIN ptr = Tasks /\ MoreTypes
  BY Zenon DEF IInv, TypeOK, CInv
<1>17. MoreTypes'
  BY <1>1, <1>2, <1>16, Zenon DEF MoreTypes
<1>18. /\ block'[n] = want[t] /\ ~valid'[n] /\ ~dirty'[n]
       /\ \A m \in Nodes : m /= n => /\ block'[m] = block[m] /\ data'[m] = data[m]
                                     /\ valid'[m] = valid[m] /\ dirty'[m] = dirty[m]
  BY <1>1, <1>12, <1>16, Zenon DEF MoreTypes
<1>19. /\ pc'[t] = "got" /\ ptr'[t] = n
       /\ \A u \in Tasks : u /= t => pc'[u] = pc[u] /\ ptr'[u] = ptr[u]
  BY <1>1, <1>2, <1>16, Zenon
<1>20. \A e \in InBuffer : block[cell[e]] /= want[t]
  BY <1>2, NoMatch, Zenon
<1>21. NewCells(a, None, n)
  BY <1>9, <1>11, <1>14, <1>15, Zenon DEF NewCells
<1>22. NewNode(t, n)
  BY <1>12, <1>17, <1>18, <1>20, Zenon DEF NewNode
<1>23. GivenTo(t, n)
  BY <1>2, <1>19, Zenon DEF GivenTo
<1>24. CInv'
  BY <1>21, <1>22, <1>23, NewCopyKeeps, Zenon
<1>25. ASSUME EmptyLast PROVE EmptyLast'
  <2>1. /\ buffer_list \in Seq(Cells) /\ Range(buffer_list) \subseteq InBuffer \ {None}
        /\ Falling(buffer_list, EmptyCells)
    BY <1>11, <1>25, ListTypes, Zenon DEF InBuffer, EmptyLast
  <2> QED
    BY <1>4, <1>6, <1>21, <1>22, <1>23, <2>1, NewCopyOrder, Zenon
<1> QED
  BY <1>24, <1>25, Zenon

\* erase and push_front of one list: its cell is taken again, or was deleted.
LEMMA FreeThenAlloc ==
    ASSUME WellOrder, IInv, CInv, NEW c \in InBuffer, CanAlloc(AfterFree(buffer_cache, c))
    PROVE  LET cache == AfterFree(buffer_cache, c)
               a == AllocCell(cache)
           IN /\ a \in Cells /\ Range(AfterAlloc(cache)) = {} /\ (a = c \/ a \notin InUseCells)
              /\ CellsAfterFree(buffer_cache, c) \in [Cells -> Nodes \cup {None}]
              /\ \A e \in Cells : e /= c => CellsAfterFree(buffer_cache, c)[e] = cell[e]
              /\ a /= c => CellsAfterFree(buffer_cache, c)[c] = None
<1>1. PICK cache, a, cells : /\ cache = AfterFree(buffer_cache, c) /\ a = AllocCell(cache)
                             /\ cells = CellsAfterFree(buffer_cache, c)
  BY Zenon
<1>2. Range(buffer_cache) = {}
  BY Zenon DEF CInv, NoStray, Cached
<1>3. c \in Cells /\ c \notin Range(buffer_cache) /\ TypeOK
  BY <1>2, LiveFacts, Zenon DEF IInv
<1>4. /\ cache \in Seq(Cells) /\ Injective(cache) /\ Range(cache) \subseteq {c}
      /\ cells \in [Cells -> Nodes \cup {None}] /\ \A e \in Cells : e /= c => cells[e] = cell[e]
  <2>1. buffer_cache \in Seq(Cells) /\ Injective(buffer_cache)
    BY ListTypes, CachesApart, Zenon
  <2> QED
    BY <1>1, <1>2, <1>3, <2>1, FreeFacts
<1>5. /\ a \in Cells /\ (a \in Range(cache) \/ a \notin InUseCells)
      /\ Range(AfterAlloc(cache)) \subseteq Range(cache) /\ a \notin Range(AfterAlloc(cache))
  BY <1>1, <1>4, AllocFacts, Zenon
<1>6. CASE Len(buffer_cache) < CacheSize
  <2>1. cache = Append(buffer_cache, c)
    BY <1>1, <1>6, Zenon DEF AfterFree
  <2>2. cache /= <<>>
    BY <1>3, <2>1, ListTypes
  <2>3. a = cache[Len(cache)]
    BY <1>1, <2>2, Zenon DEF AllocCell
  <2>4. a \in Range(cache)
    BY <1>4, <2>2, <2>3, LastFacts, Zenon
  <2> QED
    BY <1>1, <1>4, <1>5, <2>4, Zenon
<1>7. CASE ~(Len(buffer_cache) < CacheSize)
  <2>1. cache = buffer_cache /\ cells = [cell EXCEPT ![c] = None]
    BY <1>1, <1>7, Zenon DEF AfterFree, CellsAfterFree
  <2>2. cells[c] = None
    BY <1>3, <2>1, ListTypes, Zenon
  <2> QED
    BY <1>1, <1>2, <1>4, <1>5, <2>1, <2>2, Zenon
<1> QED
  BY <1>6, <1>7, Zenon

\* A buffer that destroy has emptied is given to the block that t wants.
LEMMA GetReuseStep ==
    ASSUME WellOrder, IInv, CInv, NothingEvicted, NEW t \in Tasks, GetReuse(t)
    PROVE  CInv' /\ (EmptyLast => EmptyLast')
<1>1. PICK c : c = Unused
  BY Zenon
<1>2. PICK n, list, cells, cache, a :
          /\ n = cell[c] /\ list = Without(buffer_list, c)
          /\ cells = CellsAfterFree(buffer_cache, c) /\ cache = AfterFree(buffer_cache, c)
          /\ a = AllocCell(cache)
  BY Zenon
<1>3. /\ Missing(t) /\ c /= None
      /\ PushFront(n, list, cells, cache)
      /\ block' = [block EXCEPT ![n] = want[t]] /\ valid' = [valid EXCEPT ![n] = FALSE]
      /\ ptr' = [ptr EXCEPT ![t] = n]
      /\ pc' = [pc EXCEPT ![t] = "got"]
      /\ UNCHANGED <<data, dirty, flush_list, flush_cache, disk, written, want, at, local>>
  BY <1>1, <1>2, Zenon DEF GetReuse, InitNode, Become, diskVars
<1>4. pc[t] = "get" /\ Matches(buffer_list, want[t]) = {}
  BY <1>3, Zenon DEF Missing, Searching, InGet
<1>5. c \in InBuffer /\ block[n] = None
  BY <1>1, <1>2, <1>3, UnusedFacts, Zenon DEF IInv, NothingEvicted
<1>6. /\ CanAlloc(cache) /\ buffer_list' = <<a>> \o list
      /\ buffer_cache' = AfterAlloc(cache) /\ cell' = [cells EXCEPT ![a] = n]
  BY <1>2, <1>3, Zenon DEF PushFront
<1>7. /\ a \in Cells /\ Range(buffer_cache') = {} /\ (a = c \/ a \notin InUseCells)
      /\ cells \in [Cells -> Nodes \cup {None}]
      /\ \A e \in Cells : e /= c => cells[e] = cell[e]
      /\ a /= c => cells[c] = None
  BY <1>2, <1>5, <1>6, FreeThenAlloc, Zenon
<1>8. /\ c \in Live /\ c \in Cells /\ n \in Nodes /\ InBuffer \subseteq Live /\ Live \subseteq Cells
      /\ Live \subseteq InUseCells
      /\ \A e \in Live \ {c} : cell[e] /= n
  BY <1>2, <1>5, LiveFacts, LiveNodes, InUseFacts, Zenon
<1>9. a \notin Live \ {c}
  BY <1>7, <1>8, Zenon
<1>10. list \in Seq(Cells) /\ Range(list) = InBuffer \ {c}
  BY <1>2, ListTypes, WithoutFacts, Zenon DEF InBuffer
<1>11. InBuffer' = (InBuffer \ {c}) \cup {a}
  <2>1. Range(<<a>> \o list) = Range(list) \cup {a}
    BY <1>7, <1>10, ConsSet
  <2> QED
    BY <1>6, <1>10, <2>1, Zenon DEF InBuffer
<1>12. InFlush = {} /\ Range(flush_cache) = {}
  BY Zenon DEF CInv, NoStray, Cached
<1>13. InFlush' = {} /\ Cached' = {} /\ \A u \in Tasks : InLocal(u)' = InLocal(u)
  BY <1>3, <1>7, <1>12, Zenon DEF InFlush, Cached, InLocal
<1>14. \A u \in Tasks : c \notin InLocal(u)
  BY <1>5, Zenon DEF IInv, CellsApart
<1>15. Live' = (Live \ {c}) \cup {a}
  <2>1. /\ Live = InBuffer \cup InFlush \cup UNION {InLocal(u) : u \in Tasks}
        /\ Live' = InBuffer' \cup InFlush' \cup UNION {InLocal(u)' : u \in Tasks}
    BY Zenon DEF Live
  <2>2. UNION {InLocal(u)' : u \in Tasks} = UNION {InLocal(u) : u \in Tasks}
    BY <1>13, Zenon
  <2>3. c \notin UNION {InLocal(u) : u \in Tasks}
    BY <1>14, Zenon
  <2> QED
    BY <1>11, <1>12, <1>13, <2>1, <2>2, <2>3, Zenon
<1>16. /\ cell'[a] = n
       /\ \A e \in Cells : e /= a => cell'[e] = cells[e]
  BY <1>6, <1>7, Zenon
<1>17. \A e \in Live \ {c} : cell'[e] = cell[e] /\ cell[e] /= n
  BY <1>7, <1>8, <1>9, <1>16, Zenon
<1>18. ASSUME NEW e \in Cells \ Live' PROVE cell'[e] = None
  <2>1. e /= a /\ e \notin Live \ {c}
    BY <1>15, Zenon
  <2>2. CASE e = c
    BY <1>7, <1>16, <2>1, <2>2, Zenon
  <2>3. CASE e /= c
    <3>1. cell[e] = None
      BY <2>1, <2>3, Zenon DEF CInv, NoStray
    <3>2. cell'[e] = cells[e] /\ cells[e] = cell[e]
      BY <1>7, <1>16, <2>1, <2>3, Zenon
    <3> QED
      BY <3>1, <3>2, Zenon
  <2> QED
    BY <2>2, <2>3, Zenon
<1>19. NewCells(a, c, n)
  <2>1. c \in InBuffer => block[cell[c]] = None
    BY <1>2, <1>5, Zenon
  <2> QED
    BY <1>5, <1>9, <1>11, <1>13, <1>14, <1>15, <1>16, <1>17, <1>18, <2>1, Zenon DEF NewCells
<1>20. /\ DOMAIN block = Nodes /\ DOMAIN pc = Tasks /\ DOMAIN ptr = Tasks /\ MoreTypes
  BY Zenon DEF IInv, TypeOK, CInv
<1>21. ~dirty[n]
  <2>1. Sound(n)
    BY <1>2, <1>8, Zenon DEF CInv, Store
  <2> QED
    BY <1>5, <2>1, NoneAssumption, Zenon DEF Sound
<1>22. NewNode(t, n)
  <2>1. MoreTypes'
    BY <1>3, <1>20, Zenon DEF MoreTypes
  <2>2. /\ block'[n] = want[t] /\ ~valid'[n] /\ ~dirty'[n]
        /\ \A m \in Nodes : m /= n => /\ block'[m] = block[m] /\ data'[m] = data[m]
                                      /\ valid'[m] = valid[m] /\ dirty'[m] = dirty[m]
    BY <1>3, <1>8, <1>20, <1>21, Zenon DEF MoreTypes
  <2> QED
    BY <1>4, <1>8, <2>1, <2>2, NoMatch, Zenon DEF NewNode
<1>23. GivenTo(t, n)
  BY <1>3, <1>4, <1>20, Zenon DEF GivenTo
<1>24. CInv'
  BY <1>19, <1>22, <1>23, NewCopyKeeps, Zenon
<1>25. ASSUME EmptyLast PROVE EmptyLast'
  <2>1. Falling(list, EmptyCells)
    BY <1>2, <1>25, ListTypes, OnlyFalling, Zenon DEF EmptyLast, Without
  <2> QED
    BY <1>6, <1>7, <1>10, <1>19, <1>22, <1>23, <2>1, NewCopyOrder, Zenon
<1> QED
  BY <1>24, <1>25, Zenon

-----------------------------------------------------------------------------
(* The beginning of destroy *)

\* A buffer of a block for which no task has one is held by its list cell alone:
\* try_detach_weak succeeds.
HeldByCell ==
    \A c \in Cells :
        cell[c] /= None /\ (\A u \in Tasks : Holding(u) => want[u] /= block[cell[c]]) => RefCount(cell[c]) = 1

\* The buffers of the device, none of which anyone else holds, move to the local list.
LEMMA DestroyStartMoves ==
    ASSUME WellOrder, IInv, CInv, HeldByCell, NEW t \in Tasks, NEW d, DestroyStart(t, d)
    PROVE  LET mine == {c \in InBuffer : block[cell[c]] \in OfDevice(d)}
           IN /\ InBuffer' = InBuffer \ mine /\ InLocal(t)' = mine
              /\ \A u \in Tasks : u /= t => InLocal(u)' = InLocal(u)
              /\ InFlush' = {} /\ Cached' = {} /\ Live' = Live /\ cell' = cell
<1>1. PICK matching, detached, failed, room, cached :
          /\ matching = {c \in Cells : cell[c] /= None /\ block[cell[c]] \in OfDevice(d)}
          /\ detached = {c \in matching : RefCount(cell[c]) = 1}
          /\ failed = Only(buffer_list, matching \ detached)
          /\ room = CacheSize - Len(buffer_cache)
          /\ cached = SubSeq(failed, 1, IF Len(failed) < room THEN Len(failed) ELSE room)
  BY Zenon
<1>2. /\ pc[t] = "idle" /\ \A u \in Tasks : want[u] \notin OfDevice(d)
      /\ local' = [local EXCEPT ![t] = Only(buffer_list, detached)]
      /\ buffer_cache' = buffer_cache \o cached
      /\ cell' = [c \in Cells |-> IF c \in Range(failed) \ Range(cached) THEN None ELSE cell[c]]
      /\ buffer_list' = Only(buffer_list, Cells \ matching)
      /\ UNCHANGED <<flush_list, flush_cache>>
  BY <1>1, Zenon DEF DestroyStart
<1>3. detached = matching
  <2>1. ASSUME NEW c \in matching PROVE RefCount(cell[c]) = 1
    <3>1. c \in Cells /\ cell[c] /= None /\ block[cell[c]] \in OfDevice(d)
      BY <1>1, Zenon
    <3>2. \A u \in Tasks : want[u] /= block[cell[c]]
      BY <1>2, <3>1, Zenon
    <3> QED
      BY <3>1, <3>2, Zenon DEF HeldByCell
  <2> QED
    BY <1>1, <2>1, Zenon
<1>4. PICK e : e = <<>>
  BY Zenon
<1>5. e \in Seq(Cells) /\ Range(e) = {} /\ \A q \in Seq(Cells) : Range(q) = {} => q = e
  <2>1. e \in Seq(Cells) /\ DOMAIN e = {}
    BY <1>4
  <2>2. Range(e) = {}
    BY <2>1, Zenon DEF Range
  <2>3. ASSUME NEW q \in Seq(Cells), Range(q) = {} PROVE q = e
    <3>1. \A i \in DOMAIN q : FALSE
      BY <2>3, Zenon DEF Range
    <3>2. DOMAIN q = 1..Len(q) /\ Len(q) \in Nat
      OBVIOUS
    <3>3. 1 \notin 1..Len(q)
      BY <3>1, <3>2, Zenon
    <3>4. Len(q) = 0
      BY <3>2, <3>3
    <3> QED
      BY <1>4, <3>4
  <2> QED
    BY <2>1, <2>2, <2>3, Zenon
<1>6. failed = e
  <2>1. failed \in Seq(Cells) /\ Range(failed) = InBuffer \cap (matching \ detached)
    BY <1>1, ListTypes, OnlyFacts DEF InBuffer
  <2> QED
    BY <1>3, <1>5, <2>1, Zenon
<1>7. cached = e
  <2>1. PICK k : k = IF Len(failed) < room THEN Len(failed) ELSE room
    BY Zenon
  <2>2. cached = SubSeq(failed, 1, k)
    BY <1>1, <2>1, Zenon
  <2>3. room \in Nat
    BY <1>1, ListTypes, CachesApart, CellsAssumption
  <2>4. k = 0
    BY <1>4, <1>6, <2>1, <2>3
  <2> QED
    BY <1>4, <1>6, <2>2, <2>4
<1>8. Range(buffer_cache) = {} /\ Range(flush_cache) = {} /\ InFlush = {}
  BY Zenon DEF CInv, NoStray, Cached
<1>9. Range(buffer_cache') = {}
  <2>1. buffer_cache = e
    BY <1>5, <1>8, ListTypes, Zenon
  <2>2. buffer_cache' = e
    BY <1>2, <1>4, <1>7, <2>1
  <2> QED
    BY <1>5, <2>2, Zenon
<1>10. cell' = cell
  <2>1. cell \in [Cells -> Nodes \cup {None}]
    BY ListTypes, Zenon
  <2>2. cell' = [c \in Cells |-> cell[c]]
    BY <1>2, <1>5, <1>6, Zenon
  <2> QED
    BY <2>1, <2>2, Zenon
<1>11. PICK mine : mine = {c \in InBuffer : block[cell[c]] \in OfDevice(d)}
  BY Zenon
<1>12. InBuffer \cap matching = mine
  <2>1. \A c \in InBuffer : c \in Cells /\ cell[c] /= None
    BY LiveFacts, LiveNodes, NoneAssumption, Zenon
  <2> QED
    BY <1>1, <1>11, <2>1, Zenon
<1>13. InBuffer' = InBuffer \ mine
  <2>1. InBuffer' = InBuffer \cap (Cells \ matching)
    BY <1>2, ListTypes, OnlyFacts DEF InBuffer
  <2>2. InBuffer \subseteq Cells
    BY LiveFacts, Zenon
  <2> QED
    BY <1>12, <2>1, <2>2, Zenon
<1>14. InLocal(t)' = mine /\ \A u \in Tasks : u /= t => InLocal(u)' = InLocal(u)
  <2>1. Range(Only(buffer_list, detached)) = InBuffer \cap detached
    BY ListTypes, OnlyFacts DEF InBuffer
  <2>2. local'[t] = Only(buffer_list, detached) /\ \A u \in Tasks : u /= t => local'[u] = local[u]
    BY <1>2, Zenon DEF IInv, TypeOK
  <2> QED
    BY <1>3, <1>12, <2>1, <2>2, Zenon DEF InLocal
<1>15. InLocal(t) = {}
  BY <1>2, Zenon DEF CInv, LocalOK
<1>16. InFlush' = {} /\ Cached' = {}
  BY <1>2, <1>8, <1>9, Zenon DEF InFlush, Cached
<1>17. Live' = Live
  <2>1. /\ Live = InBuffer \cup InFlush \cup UNION {InLocal(u) : u \in Tasks}
        /\ Live' = InBuffer' \cup InFlush' \cup UNION {InLocal(u)' : u \in Tasks}
    BY Zenon DEF Live
  <2>2. UNION {InLocal(u)' : u \in Tasks} = mine \cup UNION {InLocal(u) : u \in Tasks}
    BY <1>14, <1>15, Zenon
  <2>3. mine \subseteq InBuffer
    BY <1>11, Zenon
  <2> QED
    BY <1>8, <1>13, <1>16, <2>1, <2>2, <2>3, Zenon
<1> QED
  BY <1>10, <1>11, <1>13, <1>14, <1>16, <1>17, Zenon

LEMMA DestroyStartStep ==
    ASSUME WellOrder, IInv, CInv, HeldByCell, NEW t \in Tasks, NEW d, DestroyStart(t, d)
    PROVE  CInv'
<1>1. PICK mine : mine = {c \in InBuffer : block[cell[c]] \in OfDevice(d)}
  BY Zenon
<1>2. /\ InBuffer' = InBuffer \ mine /\ InLocal(t)' = mine
      /\ \A u \in Tasks : u /= t => InLocal(u)' = InLocal(u)
      /\ InFlush' = {} /\ Cached' = {} /\ Live' = Live /\ cell' = cell
  BY <1>1, DestroyStartMoves, Zenon
<1>3. /\ pc[t] = "idle" /\ ~Destroying(d) /\ \A u \in Tasks : want[u] \notin OfDevice(d)
      /\ want' = [want EXCEPT ![t] = d] /\ at' = [at EXCEPT ![t] = 1] /\ pc' = [pc EXCEPT ![t] = "d_flush"]
      /\ UNCHANGED <<block, data, valid, dirty, disk, written, ptr>>
  BY Zenon DEF DestroyStart, Become, nodeVars, diskVars
<1>4. DOMAIN pc = Tasks /\ DOMAIN at = Tasks /\ DOMAIN want = Tasks
  BY Zenon DEF IInv, TypeOK, CInv, MoreTypes
<1>5. /\ pc'[t] = "d_flush" /\ want'[t] = d
      /\ \A u \in Tasks : u /= t => pc'[u] = pc[u] /\ want'[u] = want[u] /\ at'[u] = at[u]
  BY <1>3, <1>4, Zenon
<1>6. MoreTypes' /\ NoStray' /\ OneCopy'
  <2>1. DOMAIN want' = Tasks
    BY <1>3, <1>4, Zenon
  <2> QED
    BY <1>2, <1>3, <2>1, Zenon DEF CInv, MoreTypes, NoStray, OneCopy
<1>7. Store'
  BY <1>2, <1>3, Zenon DEF CInv, Store, Sound, Stored
<1>8. ~InDestroy(t) /\ \A u \in Tasks : u /= t => (InDestroy(u)' <=> InDestroy(u))
  BY <1>3, <1>5, Zenon DEF InDestroy
<1>9. \A x : Destroying(x)' => Destroying(x) \/ x = d
  <2>1. \A x : Destroying(x) <=> \E u \in Tasks : InDestroy(u) /\ want[u] = x
    BY Zenon DEF Destroying, InDestroy
  <2>2. \A x : Destroying(x)' <=> \E u \in Tasks : InDestroy(u)' /\ want'[u] = x
    BY Zenon DEF Destroying, InDestroy
  <2> QED
    BY <1>5, <1>8, <2>1, <2>2, Zenon
<1>10. \A u \in Tasks : InDestroy(u) => want[u] /= d
  BY <1>3, Zenon DEF Destroying, InDestroy
<1>11. Separate'
  <2>1. Separate
    BY Zenon DEF CInv
  <2>2. \A u, v \in Tasks : InDestroy(u)' /\ InDestroy(v)' /\ want'[u] = want'[v] => u = v
    BY <1>5, <1>8, <1>10, <2>1, Zenon DEF Separate
  <2>3. ASSUME NEW c \in InBuffer', block[cell[c]] /= None
        PROVE  ~Destroying(DeviceOf[block[cell[c]]]) /\ DeviceOf[block[cell[c]]] /= d
    <3>1. c \in InBuffer /\ c \notin mine
      BY <1>2, Zenon
    <3>2. Sound(cell[c])
      BY <3>1, LiveFacts, Zenon DEF CInv, Store
    <3>3. block[cell[c]] \in Blocks /\ block[cell[c]] \notin OfDevice(d)
      BY <1>1, <2>3, <3>1, <3>2, Zenon DEF Sound
    <3> QED
      BY <2>1, <2>3, <3>1, <3>3, Zenon DEF Separate, OfDevice
  <2> QED
    BY <1>2, <1>3, <1>9, <2>2, <2>3, Zenon DEF Separate
<1>12. ASSUME NEW u \in Tasks PROVE LocalOK(u)'
  <2>1. CASE u = t
    <3>1. \A c \in mine : DeviceOf[block[cell[c]]] = d
      BY <1>1, Zenon DEF OfDevice
    <3> QED
      BY <1>2, <1>3, <1>5, <2>1, <3>1 DEF LocalOK
  <2>2. CASE u /= t
    <3>1. LocalOK(u)
      BY Zenon DEF CInv
    <3> QED
      BY <1>2, <1>3, <1>5, <2>2, <3>1, Zenon DEF LocalOK
  <2> QED
    BY <2>1, <2>2, Zenon
<1>13. ASSUME NEW u \in Tasks PROVE TaskOK(u)'
  <2>1. TaskOK(u)
    BY Zenon DEF CInv
  <2>2. CASE u = t
    <3>1. ~Holding(t) /\ ~Holding(t)' /\ ~Wanting(t)'
      BY <1>3, <1>5, Zenon DEF Holding, Wanting
    <3> QED
      BY <1>3, <1>5, <2>1, <2>2, <3>1, Zenon DEF TaskOK
  <2>3. CASE u /= t
    <3>1. Wanting(u) => want[u] \in Blocks /\ ~Destroying(DeviceOf[want[u]]) /\ DeviceOf[want[u]] /= d
      BY <1>3, <2>1, Zenon DEF TaskOK, OfDevice
    <3>2. Wanting(u) => (~Destroying(DeviceOf[want[u]]))'
      BY <1>5, <1>9, <2>3, <3>1, Zenon
    <3>3. \A c \in InBuffer : block[cell[c]] = want[u] => c \in InBuffer'
      BY <1>1, <1>2, <1>3, Zenon
    <3> QED
      BY <1>2, <1>3, <1>5, <2>3, <3>2, <3>3, TaskKept, Zenon
  <2> QED
    BY <2>2, <2>3, Zenon
<1> QED
  BY <1>6, <1>7, <1>11, <1>12, <1>13, Zenon DEF CInv

\* A buffer that is found goes to the front.
LEMMA HitOrder ==
    ASSUME WellOrder, IInv, CInv, EmptyLast, NEW t \in Tasks, GetHit(t)
    PROVE  EmptyLast'
<1>1. PICK c : c = buffer_list[First(Matches(buffer_list, want[t]))]
  BY Zenon
<1>2. /\ buffer_list' = <<c>> \o Without(buffer_list, c) /\ at'[t] = c
      /\ UNCHANGED <<cell, block>> /\ pc[t] = "get"
  BY <1>1, Zenon DEF GetHit, IInv, TypeOK, nodeVars, Searching, InGet
<1>3. c \in InBuffer /\ block[cell[c]] = want[t] /\ c \in Cells
  BY <1>2, HitMoves, LiveFacts, Zenon
<1>4. want[t] /= None
  <2>1. TaskOK(t) /\ Wanting(t)
    BY <1>2, Zenon DEF CInv, Wanting
  <2> QED
    BY <2>1, NoneAssumption, Zenon DEF TaskOK
<1>5. PICK list : list = Without(buffer_list, c)
  BY Zenon
<1>6. list \in Seq(Cells)
  BY <1>5, ListTypes, WithoutFacts, Zenon
<1>7. Falling(list, EmptyCells)
  BY <1>5, ListTypes, OnlyFalling, Zenon DEF EmptyLast, Without
<1> QED
  BY <1>2, <1>3, <1>4, <1>5, <1>6, <1>7, OrderFront, Zenon

\* destroy takes buffers out and puts them back, emptied, at the end.
LEMMA DestroyOrder ==
    ASSUME WellOrder, IInv, CInv, HeldByCell, EmptyLast, NEW t \in Tasks, NEW d,
           DestroyStart(t, d) \/ DestroyFlush(t) \/ DestroyMerge(t)
    PROVE  EmptyLast'
<1>1. CASE DestroyStart(t, d)
  <2>1. PICK S : buffer_list' = Only(buffer_list, S)
    BY <1>1, Zenon DEF DestroyStart
  <2>2. block' = block
    BY <1>1, Zenon DEF DestroyStart, nodeVars
  <2>3. cell' = cell
    BY <1>1, DestroyStartMoves, Zenon
  <2>4. Falling(Only(buffer_list, S), EmptyCells)
    BY ListTypes, OnlyFalling, Zenon DEF EmptyLast
  <2>5. EmptyCells' = EmptyCells
    BY <2>2, <2>3, Zenon DEF EmptyCells
  <2> QED
    BY <2>1, <2>4, <2>5, Zenon DEF EmptyLast
<1>2. CASE DestroyFlush(t)
  <2>1. PICK c : c = local[t][at[t]]
    BY Zenon
  <2>2. /\ pc[t] = "d_flush" /\ at[t] <= Len(local[t])
        /\ block' = [block EXCEPT ![cell[c]] = None]
        /\ UNCHANGED listVars
    BY <1>2, <2>1, Zenon DEF DestroyFlush
  <2>3. c \in InLocal(t)
    <3>1. at[t] \in Nat \ {0} /\ local[t] \in Seq(Cells)
      BY <2>2, Zenon DEF IInv, InvLocal, TypeOK
    <3>2. at[t] \in DOMAIN local[t]
      BY <2>2, <3>1
    <3> QED
      BY <2>1, <3>2, Zenon DEF InLocal, Range
  <2>4. c \in Live /\ c \notin InBuffer
    BY <2>3, InUseFacts, Zenon DEF IInv, CellsApart
  <2>5. \A e \in InBuffer : e \in Live /\ cell[e] \in Nodes /\ cell[e] /= cell[c]
    BY <2>4, LiveFacts, LiveNodes, Zenon
  <2>6. DOMAIN block = Nodes
    BY Zenon DEF IInv, TypeOK
  <2>7. buffer_list' = buffer_list /\ \A e \in InBuffer : block'[cell'[e]] = block[cell[e]]
    BY <2>2, <2>5, <2>6, Zenon DEF listVars
  <2> QED
    BY <2>7, OrderSame, Zenon
<1>3. CASE DestroyMerge(t)
  <2>1. /\ pc[t] = "d_flush" /\ at[t] > Len(local[t])
        /\ buffer_list' = buffer_list \o local[t] /\ UNCHANGED <<cell, block>>
    BY <1>3, Zenon DEF DestroyMerge, nodeVars
  <2>2. /\ at[t] \in Nat /\ local[t] \in Seq(Cells)
        /\ \A i \in DOMAIN local[t] : i < at[t] => block[cell[local[t][i]]] = None
    <3>1. /\ at[t] \in Nat \ {0}
          /\ \A i \in DOMAIN local[t] : i < at[t] => block[cell[local[t][i]]] = None
      BY <2>1, Zenon DEF IInv, InvLocal
    <3>2. local[t] \in Seq(Cells)
      BY Zenon DEF IInv, TypeOK
    <3> QED
      BY <3>1, <3>2, Zenon
  <2>3. \A i \in DOMAIN local[t] : i < at[t] /\ local[t][i] \in Cells
    BY <2>1, <2>2
  <2>4. Range(local[t]) \subseteq EmptyCells
    <3>1. ASSUME NEW c \in Range(local[t]) PROVE c \in EmptyCells
      <4>1. PICK i \in DOMAIN local[t] : c = local[t][i]
        BY Zenon DEF Range
      <4>2. c \in Cells /\ block[cell[c]] = None
        BY <2>2, <2>3, <4>1, Zenon
      <4> QED
        BY <4>2, Zenon DEF EmptyCells
    <3> QED
      BY <3>1, Zenon
  <2>5. Falling(buffer_list \o local[t], EmptyCells)
    BY <2>2, <2>4, ListTypes, ConcatFalling, Zenon DEF EmptyLast
  <2>6. EmptyCells' = EmptyCells
    BY <2>1, Zenon DEF EmptyCells
  <2> QED
    BY <2>1, <2>5, <2>6, Zenon DEF EmptyLast
<1> QED
  BY <1>1, <1>2, <1>3, Zenon

-----------------------------------------------------------------------------
(* A cache from which nothing is evicted *)

\* Nothing is in flush_list, so that nobody waits for it, and no victim is dirty.
LEMMA NoEviction ==
    ASSUME WellOrder, IInv, CInv, NothingEvicted, NEW t \in Tasks
    PROVE  ~GetWait(t) /\ ~GetEvict(t) /\ ~FlushEvicted(t) /\ ~GetFlushed(t)
<1>1. InFlush = {}
  BY Zenon DEF CInv, NoStray
<1>2. ~GetWait(t)
  BY <1>1, Zenon DEF GetWait, Matches, InFlush, Range
<1>3. ~GetEvict(t)
  <2> SUFFICES ASSUME GetEvict(t) PROVE FALSE
    BY Zenon
  <2>1. Missing(t) /\ Unused /= None /\ dirty[cell[Unused]]
    BY Zenon DEF GetEvict
  <2>2. block[cell[Unused]] = None
    BY <2>1, Zenon DEF NothingEvicted
  <2>3. Unused \in InBuffer
    BY <2>1, UnusedFacts, Zenon DEF IInv
  <2>4. Sound(cell[Unused])
    BY <2>3, LiveFacts, Zenon DEF CInv, Store
  <2> QED
    BY <2>1, <2>2, <2>4, NoneAssumption, Zenon DEF Sound
<1>4. ~Flushing(t)
  BY <1>1, Zenon DEF IInv, InvFlush
<1> QED
  BY <1>2, <1>3, <1>4, Zenon DEF FlushEvicted, GetFlushed, Flushing

LEMMA CInvInit == Init => CInv
<1> SUFFICES ASSUME Init PROVE CInv
  BY Zenon
<1>1. PICK e : e = <<>>
  BY Zenon
<1>2. Range(e) = {}
  <2>1. DOMAIN e = {}
    BY <1>1
  <2> QED
    BY <2>1, Zenon DEF Range
<1>3. /\ buffer_list = e /\ flush_list = e /\ buffer_cache = e /\ flush_cache = e
      /\ local = [t \in Tasks |-> e] /\ cell = [c \in Cells |-> None]
  BY <1>1, Zenon DEF Init
<1>4. InBuffer = {} /\ InFlush = {} /\ Cached = {} /\ Live = {} /\ \A t \in Tasks : InLocal(t) = {}
  BY <1>2, <1>3, Zenon DEF InBuffer, InFlush, Cached, Live, InLocal
<1>5. MoreTypes
  BY Zenon DEF Init, MoreTypes
<1>6. NoStray /\ OneCopy
  BY <1>3, <1>4, Zenon DEF NoStray, OneCopy
<1>7. Store
  BY <1>4, Zenon DEF Init, Store, Stored
<1>8. \A t \in Tasks : pc[t] = "idle" /\ ptr[t] = None
  BY Zenon DEF Init
<1>9. Separate
  BY <1>4, <1>8, Zenon DEF Separate, InDestroy
<1>10. \A t \in Tasks : TaskOK(t) /\ LocalOK(t)
  BY <1>4, <1>8, Zenon DEF TaskOK, LocalOK, Wanting, Holding
<1> QED
  BY <1>5, <1>6, <1>7, <1>9, <1>10, Zenon DEF CInv

-----------------------------------------------------------------------------
(* All steps together *)

\* Every step keeps the lists apart.
LEMMA IInvStep ==
    ASSUME WellOrder, IInv, [Next]_vars
    PROVE  IInv'
<1>1. CASE UNCHANGED vars
  BY <1>1, FrameKeeps, Zenon DEF vars, taskVars, nodeVars, IInv, TypeOK, Flushing
<1>2. CASE Next
  <2>1. PICK t \in Tasks :
            \/ \E b \in Blocks : StartGet(t, b)
            \/ \E d \in Devices : DestroyStart(t, d)
            \/ TaskStep(t)
    BY <1>2, Zenon DEF Next
  <2>2. CASE \E d \in Devices : DestroyStart(t, d)
    BY <2>2, DestroyStartKeeps, Zenon
  <2>3. CASE GetHit(t)
    BY <2>3, GetHitKeeps, Zenon
  <2>4. CASE GetNew(t)
    BY <2>4, GetNewKeeps, Zenon
  <2>5. CASE GetReuse(t)
    BY <2>5, GetReuseKeeps, Zenon
  <2>6. CASE GetEvict(t)
    BY <2>6, GetEvictKeeps, Zenon
  <2>7. CASE GetFlushed(t)
    BY <2>7, GetFlushedKeeps, Zenon
  <2>8. CASE DestroyFlush(t)
    BY <2>8, DestroyFlushKeeps, Zenon
  <2>9. CASE DestroyMerge(t)
    BY <2>9, DestroyMergeKeeps, Zenon
  <2> QED
    BY <2>1, <2>2, <2>3, <2>4, <2>5, <2>6, <2>7, <2>8, <2>9, OtherStepsKeep, Zenon
    DEF TaskStep, Get, Destroy
<1> QED
  BY <1>1, <1>2, Zenon

\* A list without a cell, node or block twice has no two buffers of a block.
LEMMA UniqueStates == IInv => UniqueBlocks
<1>1. \A i \in DOMAIN buffer_list : buffer_list[i] \in InBuffer
  BY Zenon DEF InBuffer, Range
<1> QED
  BY <1>1, Zenon DEF IInv, CellsApart, BlocksApart, Injective, UniqueBlocks

\* Every step from a state in which nothing is evicted.
LEMMA NoEvictionStep ==
    ASSUME WellOrder, IInv, CInv, HeldByCell, NothingEvicted, [Next]_vars
    PROVE  CInv'
<1>1. CASE UNCHANGED vars
  <2>1. UNCHANGED <<listVars, local, block, data, valid, dirty, disk, written, pc, want, ptr, at>>
    BY <1>1, Zenon DEF vars, taskVars, nodeVars, diskVars
  <2>2. SameCells /\ cell' = cell
    BY <2>1, ListsSame, Zenon
  <2>3. MoreTypes' /\ NoStray' /\ OneCopy'
    BY <2>1, <2>2, Zenon DEF CInv, MoreTypes, NoStray, OneCopy, SameCells
  <2>4. Store'
    BY <2>1, <2>2, Zenon DEF CInv, Store, Sound, Stored, SameCells
  <2>5. Separate'
    BY <2>1, <2>2, Zenon DEF CInv, Separate, Destroying, InDestroy, SameCells
  <2>6. \A t \in Tasks : TaskOK(t)'
    BY <2>1, <2>2, Zenon DEF CInv, TaskOK, Wanting, Holding, Destroying, SameCells
  <2>7. \A t \in Tasks : LocalOK(t)'
    BY <2>1, <2>2, Zenon DEF CInv, LocalOK, SameCells
  <2> QED
    BY <2>3, <2>4, <2>5, <2>6, <2>7, Zenon DEF CInv
<1>2. CASE Next
  <2>1. PICK t \in Tasks :
            \/ \E b \in Blocks : StartGet(t, b)
            \/ \E d \in Devices : DestroyStart(t, d)
            \/ TaskStep(t)
    BY <1>2, Zenon DEF Next
  <2>2. CASE \E d \in Devices : DestroyStart(t, d)
    BY <2>2, DestroyStartStep, Zenon
  <2>3. CASE GetHit(t) \/ HitReturn(t)
    BY <2>3, HitSteps, Zenon
  <2>4. CASE GetNew(t)
    BY <2>4, GetNewStep, Zenon
  <2>5. CASE GetReuse(t)
    BY <2>5, GetReuseStep, Zenon
  <2>6. CASE Load(t) \/ Modify(t)
    BY <2>6, UseSteps, Zenon
  <2>7. CASE DestroyFlush(t)
    BY <2>7, DestroyFlushStep, Zenon
  <2>8. CASE DestroyMerge(t)
    BY <2>8, DestroyMergeStep, Zenon
  <2>9. CASE \/ \E b \in Blocks : StartGet(t, b)
             \/ GetFail(t) \/ GetNoMemory(t) \/ MutexLock(t) \/ LoadFail(t) \/ Put(t) \/ Drop(t)
             \/ DestroyReturn(t)
    BY <2>9, QuietSteps, Zenon
  <2> QED
    BY <2>1, <2>2, <2>3, <2>4, <2>5, <2>6, <2>7, <2>8, <2>9, NoEviction, Zenon
    DEF TaskStep, Get, Use, Destroy
<1> QED
  BY <1>1, <1>2, Zenon

\* Every step that the order of buffer_list survives: all, while nothing is evicted.
LEMMA OrderStep ==
    ASSUME WellOrder, IInv, CInv, HeldByCell, NothingEvicted, EmptyLast, [Next]_vars
    PROVE  EmptyLast'
<1>1. CASE UNCHANGED <<buffer_list, cell, block>>
  BY <1>1, OrderSame, Zenon
<1>2. CASE Next
  <2>1. PICK t \in Tasks :
            \/ \E b \in Blocks : StartGet(t, b)
            \/ \E d \in Devices : DestroyStart(t, d)
            \/ TaskStep(t)
    BY <1>2, Zenon DEF Next
  <2>2. CASE (\E d \in Devices : DestroyStart(t, d)) \/ DestroyFlush(t) \/ DestroyMerge(t)
    BY <2>2, DestroyOrder, Zenon
  <2>3. CASE GetHit(t)
    BY <2>3, HitOrder, Zenon
  <2>4. CASE GetNew(t)
    BY <2>4, GetNewStep, Zenon
  <2>5. CASE GetReuse(t)
    BY <2>5, GetReuseStep, Zenon
  <2>6. CASE \/ \E b \in Blocks : StartGet(t, b)
             \/ HitReturn(t) \/ GetFail(t) \/ GetNoMemory(t) \/ MutexLock(t) \/ Load(t) \/ LoadFail(t)
             \/ Modify(t) \/ Put(t) \/ Drop(t) \/ DestroyReturn(t)
    <3>1. UNCHANGED <<buffer_list, cell, block>>
      BY <2>6, Zenon DEF StartGet, HitReturn, GetFail, GetNoMemory, MutexLock, Load, LoadFail, Modify,
                         Put, Drop, DestroyReturn, listVars, nodeVars
    <3> QED
      BY <1>1, <3>1, Zenon
  <2> QED
    BY <2>1, <2>2, <2>3, <2>4, <2>5, <2>6, NoEviction, Zenon DEF TaskStep, Get, Use, Destroy
<1>3. CASE UNCHANGED vars
  BY <1>1, <1>3, Zenon DEF vars, listVars, nodeVars
<1> QED
  BY <1>2, <1>3, Zenon

\* The invariant says what the runs check: who holds a buffer has that of its block.
LEMMA RightStates == CInv => RightBuffer
<1> SUFFICES ASSUME CInv, NEW t \in Tasks, Holding(t) PROVE block[ptr[t]] = want[t]
  BY Zenon DEF RightBuffer, Holding
<1>1. TaskOK(t)
  BY Zenon DEF CInv
<1> QED
  BY <1>1, Zenon DEF TaskOK

\* A loaded buffer is valid, and a valid buffer has every update.
LEMMA CoherentStates == IInv /\ CInv => Coherent
<1> SUFFICES ASSUME IInv, CInv, NEW t \in Tasks, pc[t] \in {"ready", "modified"}
             PROVE  data[ptr[t]] = written[want[t]]
  BY Zenon DEF Coherent
<1>1. TaskOK(t) /\ Holding(t)
  BY Zenon DEF CInv, Holding
<1>2. PICK c \in InBuffer : ptr[t] = cell[c] /\ block[cell[c]] = want[t] /\ Sound(cell[c])
  BY <1>1, HolderFacts, Zenon
<1>3. valid[ptr[t]]
  BY <1>1, Zenon DEF TaskOK
<1> QED
  BY <1>2, <1>3, Zenon DEF Sound

\* A block that is not stored has a buffer, and destroy has left none of its device.
LEMMA WrittenBackStates == CInv => DestroyWritesBack
<1> SUFFICES ASSUME CInv, NEW t \in Tasks, pc[t] = "d_done", NEW b \in Blocks, DeviceOf[b] = want[t],
                    disk[b] /= written[b]
             PROVE  FALSE
  BY Zenon DEF DestroyWritesBack
<1>1. Stored(b)
  BY Zenon DEF CInv, Store
<1>2. PICK c \in Live : block[cell[c]] = b
  BY <1>1, Zenon DEF Stored
<1>3. b /= None /\ Destroying(DeviceOf[b])
  BY NoneAssumption, Zenon DEF Destroying
<1>4. c \notin InBuffer
  BY <1>2, <1>3, Zenon DEF CInv, Separate
<1>5. c \notin InFlush
  BY Zenon DEF CInv, NoStray
<1>6. PICK u \in Tasks : c \in InLocal(u)
  BY <1>4, <1>5, Zenon DEF Live
<1>7. LocalOK(u)
  BY Zenon DEF CInv
<1>8. pc[u] = "d_flush" /\ DeviceOf[b] = want[u]
  BY <1>2, <1>3, <1>6, <1>7, Zenon DEF LocalOK
<1>9. InDestroy(u) /\ InDestroy(t) /\ want[u] = want[t]
  BY <1>8, Zenon DEF InDestroy
<1>10. u = t
  BY <1>9, Zenon DEF CInv, Separate
<1> QED
  BY <1>8, <1>10, Zenon

-----------------------------------------------------------------------------
(* A cache with room for every block *)

\* The blocks in use are no more than the buffers that are made before any is reused.
Room == MinCount \in Nat /\ IsFiniteSet(Blocks) /\ Cardinality(Blocks) <= MinCount

\* So as many buffers, none of them of block b, cannot each have a block of its own:
\* the pigeon-hole principle, which Pigeons below proves from Room.
FewBlocks ==
    \A b \in Blocks, n \in Nat : n >= MinCount =>
        /\ n >= 1
        /\ \A f \in [1..n -> Blocks \ {b}] : \E i, j \in 1..n : i /= j /\ f[i] = f[j]

\* If the last buffer of the list had a block then all had, each its own and none
\* the block that is missing: more buffers than blocks. So the last one has none,
\* nobody holds it, and the backward search stops at it.
LEMMA RoomSpares ==
    ASSUME IInv, CInv, HeldByCell, EmptyLast, FewBlocks
    PROVE  NothingEvicted
<1> SUFFICES ASSUME NEW t \in Tasks, Missing(t), Unused /= None PROVE block[cell[Unused]] = None
  BY Zenon DEF NothingEvicted
<1>1. PICK n : n = Len(buffer_list)
  BY Zenon
<1>2. n \in Nat /\ DOMAIN buffer_list = 1..n /\ \A i \in 1..n : buffer_list[i] \in Cells
  BY <1>1, ListTypes
<1>3. /\ n >= MinCount /\ Detachable(buffer_list) /= {}
      /\ Unused = buffer_list[Final(Detachable(buffer_list))]
  BY <1>1, Zenon DEF Unused
<1>4. want[t] \in Blocks
  <2>1. TaskOK(t) /\ Wanting(t)
    BY Zenon DEF CInv, Wanting, Missing, Searching, InGet
  <2> QED
    BY <2>1, Zenon DEF TaskOK
<1>5. n \in 1..n
  <2>1. n >= 1
    BY <1>2, <1>3, <1>4, Zenon DEF FewBlocks
  <2> QED
    BY <1>2, <2>1
<1>6. PICK f : f = [i \in 1..n |-> block[cell[buffer_list[i]]]]
  BY Zenon
<1>7. block[cell[buffer_list[n]]] = None
  <2> SUFFICES ASSUME block[cell[buffer_list[n]]] /= None PROVE FALSE
    BY Zenon
  <2>1. ASSUME NEW i \in 1..n PROVE block[cell[buffer_list[i]]] /= None
    <3>1. i < n \/ i = n
      BY <1>2
    <3> QED
      BY <1>2, <1>5, <3>1, Zenon DEF EmptyLast, Falling, EmptyCells
  <2>2. ASSUME NEW i \in 1..n PROVE f[i] \in Blocks \ {want[t]}
    <3>1. buffer_list[i] \in InBuffer
      BY <1>2, Zenon DEF InBuffer, Range
    <3>2. Sound(cell[buffer_list[i]])
      BY <3>1, LiveFacts, Zenon DEF CInv, Store
    <3>3. block[cell[buffer_list[i]]] \in Blocks
      BY <2>1, <3>2, Zenon DEF Sound
    <3>4. block[cell[buffer_list[i]]] /= want[t]
      BY <1>2, Zenon DEF Missing, Matches
    <3> QED
      BY <1>6, <3>3, <3>4, Zenon
  <2>3. f \in [1..n -> Blocks \ {want[t]}]
    BY <1>6, <2>2, Zenon
  <2>4. PICK i, j \in 1..n : i /= j /\ f[i] = f[j]
    BY <1>2, <1>3, <1>4, <2>3, Zenon DEF FewBlocks
  <2>5. UniqueBlocks
    BY UniqueStates, Zenon
  <2>6. block[cell[buffer_list[i]]] = block[cell[buffer_list[j]]]
    BY <1>6, <2>4, Zenon
  <2> QED
    BY <1>2, <2>1, <2>4, <2>5, <2>6, Zenon DEF UniqueBlocks
<1>8. n \in Detachable(buffer_list)
  <2>1. buffer_list[n] \in InBuffer
    BY <1>2, <1>5, Zenon DEF InBuffer, Range
  <2>2. cell[buffer_list[n]] /= None
    BY <2>1, LiveFacts, LiveNodes, NoneAssumption, Zenon
  <2>3. ASSUME NEW u \in Tasks, Holding(u) PROVE want[u] /= None
    <3>1. TaskOK(u) /\ Wanting(u)
      BY <2>3, Zenon DEF CInv, Wanting
    <3> QED
      BY <3>1, NoneAssumption, Zenon DEF TaskOK
  <2>4. RefCount(cell[buffer_list[n]]) = 1
    BY <1>2, <1>5, <1>7, <2>2, <2>3, Zenon DEF HeldByCell
  <2> QED
    BY <1>2, <1>5, <2>4, Zenon DEF Detachable
<1>9. Final(Detachable(buffer_list)) = n
  <2>1. Detachable(buffer_list) \subseteq 1..n
    BY <1>2, Zenon DEF Detachable
  <2>2. \A k \in Detachable(buffer_list) : k <= n
    BY <1>2, <2>1
  <2>3. PICK m : m = Final(Detachable(buffer_list))
    BY Zenon
  <2>4. m \in Detachable(buffer_list) /\ n <= m
    BY <1>8, <2>2, <2>3, Zenon DEF Final
  <2>5. m = n
    BY <1>2, <2>1, <2>4
  <2> QED
    BY <2>3, <2>5, Zenon
<1> QED
  BY <1>3, <1>7, <1>9, Zenon

-----------------------------------------------------------------------------
(* Well-foundedness, reference counts and the theorems *)

INSTANCE WellFoundedInduction
INSTANCE FiniteSetTheorems

\* What the lemmas on lists assume.
LEMMA Least == WellOrder
<1> SUFFICES ASSUME NEW S, S \subseteq Nat, S /= {}
             PROVE  \E m \in S : \A k \in S : m <= k
  BY Zenon DEF WellOrder
<1>1. PICK m \in S : \A k \in S : ~(<<k, m>> \in OpToRel(<, Nat))
  BY NatLessThanWellFounded, WFMin, Zenon
<1>2. \A k \in S : <<k, m>> \in OpToRel(<, Nat) <=> k < m
  BY Zenon DEF OpToRel
<1>3. ASSUME NEW k \in S PROVE m <= k
  <2>1. k \in Nat /\ m \in Nat /\ ~(k < m)
    BY <1>1, <1>2, Zenon
  <2> QED
    BY <2>1
<1> QED
  BY <1>3, Zenon

\* The cells of the lists and the tasks that hold a buffer are all there is to count.
LEMMA Detached ==
    ASSUME IInv, CInv
    PROVE  HeldByCell
<1> SUFFICES ASSUME NEW c \in Cells, cell[c] /= None, \A u \in Tasks : Holding(u) => want[u] /= block[cell[c]]
             PROVE  RefCount(cell[c]) = 1
  BY Zenon DEF HeldByCell
<1>1. c \in Live
  BY Zenon DEF CInv, NoStray
<1>2. {x \in Cells : cell[x] = cell[c]} = {c}
  <2>1. \A x \in Cells : cell[x] = cell[c] => x \in Live
    BY Zenon DEF CInv, NoStray
  <2>2. \A x \in Live : cell[x] = cell[c] => x = c
    BY <1>1, Zenon DEF IInv, NodesApart
  <2> QED
    BY <2>1, <2>2, Zenon
<1>3. {u \in Tasks : ptr[u] = cell[c]} = {}
  <2>1. ASSUME NEW u \in Tasks PROVE ptr[u] /= cell[c]
    <3>1. TaskOK(u)
      BY Zenon DEF CInv
    <3> QED
      BY <3>1, Zenon DEF TaskOK
  <2> QED
    BY <2>1, Zenon
<1>4. Cardinality({c}) = 1
  BY FS_Singleton, Zenon
<1>5. Cardinality({}) = 0
  BY FS_EmptySet, Zenon
<1>6. RefCount(cell[c]) = Cardinality({c}) + Cardinality({})
  BY <1>2, <1>3, Zenon DEF RefCount
<1> QED
  BY <1>4, <1>5, <1>6

\* With fewer blocks than buffers two buffers share a block.
LEMMA Pigeons == Room => FewBlocks
<1> SUFFICES ASSUME Room, NEW b \in Blocks, NEW n \in Nat, n >= MinCount
             PROVE  n >= 1 /\ \A f \in [1..n -> Blocks \ {b}] : \E i, j \in 1..n : i /= j /\ f[i] = f[j]
  BY Zenon DEF FewBlocks
<1>1. Cardinality(Blocks) \in Nat /\ IsFiniteSet(Blocks)
  BY FS_CardinalityType, Zenon DEF Room
<1>2. IsFiniteSet(Blocks \ {b}) /\ Cardinality(Blocks \ {b}) = Cardinality(Blocks) - 1
  BY <1>1, FS_RemoveElement, Zenon
<1>3. Cardinality(Blocks \ {b}) \in Nat
  BY <1>2, FS_CardinalityType, Zenon
<1>4. Cardinality(Blocks \ {b}) < n /\ n >= 1
  BY <1>1, <1>2, <1>3 DEF Room
<1>5. IsFiniteSet(1..n) /\ Cardinality(1..n) = n
  BY <1>4, FS_Interval
<1>6. PICK S, T : S = 1..n /\ T = Blocks \ {b}
  BY Zenon
<1>7. IsFiniteSet(S) /\ IsFiniteSet(T) /\ Cardinality(T) < Cardinality(S)
  BY <1>2, <1>4, <1>5, <1>6, Zenon
<1>8. \A f \in [S -> T] : \E x, y \in S : x # y /\ f[x] = f[y]
  BY <1>7, FS_PigeonHole, Zenon
<1> QED
  BY <1>4, <1>6, <1>8, ZenonT(60)

\* A cell and a node are in one place only, whatever the tasks do: the lists,
\* their caches and the local lists of destroy never share a cell, no two
\* listed cells hold one node, and a victim stays in flush_list until its own
\* task takes it out (get_derived and destroy in utils/buffer_manager.h).
THEOREM ListsApart == Spec => []IInv
<1>1. IInv /\ [Next]_vars => IInv'
  BY Least, IInvStep, Zenon
<1> QED
  BY <1>1, IInvInit, PTL DEF Spec

\* The cache never holds two buffers of one block, although get_derived releases
\* the lock while it flushes a victim and other tasks may bring the block in.
THEOREM BufferUniqueBlocks == Spec => []UniqueBlocks
  BY UniqueStates, ListsApart, PTL

\* While no buffer of a block is taken for another one, a block has one buffer,
\* a valid buffer has every update, and the device has those of the buffers that
\* are not dirty: get_derived, load, mark_dirty and destroy are right together.
THEOREM NoEvictionInvariant ==
    Spec /\ []NothingEvicted => [](CInv /\ RightBuffer /\ Coherent /\ DestroyWritesBack)
<1>1. IInv /\ CInv /\ NothingEvicted /\ [Next]_vars => CInv'
  BY Least, Detached, NoEvictionStep, Zenon
<1> QED
  BY <1>1, CInvInit, ListsApart, RightStates, CoherentStates, WrittenBackStates, PTL DEF Spec

\* With room for every block nothing is ever evicted.
LEMMA RoomInvariant == Room => (Spec => [](CInv /\ EmptyLast))
<1> SUFFICES ASSUME Room PROVE Spec => [](CInv /\ EmptyLast)
  BY Zenon
<1>1. Init => EmptyLast
  <2> SUFFICES ASSUME Init PROVE EmptyLast
    BY Zenon
  <2>1. DOMAIN buffer_list = {}
    BY DEF Init
  <2> QED
    BY <2>1, Zenon DEF EmptyLast, Falling
<1>2. IInv /\ CInv /\ EmptyLast /\ [Next]_vars => CInv' /\ EmptyLast'
  BY Least, Detached, Pigeons, RoomSpares, NoEvictionStep, OrderStep, Zenon
<1> QED
  BY <1>1, <1>2, CInvInit, ListsApart, PTL DEF Spec

\* With room for every block, a task is given the buffer of the block it asked
\* for, and keeps it until it drops it: the cell that get_derived found is still
\* the block's when the shared_ptr is copied out of it, after lock.unlock().
THEOREM BufferRight == Room => (Spec => []RightBuffer)
<1> SUFFICES ASSUME Room PROVE Spec => []RightBuffer
  BY Zenon
<1>1. Spec => [](CInv /\ EmptyLast)
  BY RoomInvariant, Zenon
<1> QED
  BY <1>1, RightStates, PTL

\* With room for every block, a task that has loaded a buffer sees every update
\* made to the block by any task, through get, mark_dirty, put and destroy.
THEOREM BufferCoherent == Room => (Spec => []Coherent)
<1> SUFFICES ASSUME Room PROVE Spec => []Coherent
  BY Zenon
<1>1. Spec => [](CInv /\ EmptyLast)
  BY RoomInvariant, Zenon
<1> QED
  BY <1>1, ListsApart, CoherentStates, PTL

\* With room for every block, destroy returns with every update of its device
\* written back: no list cell but its own keeps a buffer from being detached.
THEOREM BufferDestroyWritesBack == Room => (Spec => []DestroyWritesBack)
<1> SUFFICES ASSUME Room PROVE Spec => []DestroyWritesBack
  BY Zenon
<1>1. Spec => [](CInv /\ EmptyLast)
  BY RoomInvariant, Zenon
<1> QED
  BY <1>1, WrittenBackStates, PTL
====
