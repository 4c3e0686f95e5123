---- MODULE BufferManager ----
(***************************************************************************)
(* buffer_manager<block_buffer_node> (utils/buffer_manager.h): the LRU     *)
(* cache of disk blocks, with the buffers (utils/buffer.h), the block      *)
(* device below it (device/block/buf.cc) and the tasks that use it.        *)
(*                                                                         *)
(* The list class never destroys the data of an erased cell: the cell goes *)
(* to a per-list cache with its shared_ptr still in it and counts as a     *)
(* reference until the cell is used again or, the cache being full,        *)
(* deleted.  So list cells are explicit.                                   *)
(* manager.lock is held from lock() to unlock() without a suspension, so a *)
(* critical section is one action; _in_use_mutex is an abstract lock.      *)
(*                                                                         *)
(* The content of a block is the number of updates made to it, and written *)
(* counts the updates the tasks have made: the increments of               *)
(* test/coroutine/bdev_rw.hpp.                                             *)
(***************************************************************************)
EXTENDS Naturals, FiniteSets, Sequences, Functions

CONSTANTS Tasks,        \* coroutines that use the cache
          Blocks,       \* block numbers, of all devices
          Devices, DeviceOf,  \* block devices, and the device of each block
          BadBlocks,    \* block numbers the device rejects
          Nodes,        \* addresses of block_buffer_node objects
          Cells,        \* bound: addresses of list cells, numbers
          CacheSize,    \* cells that a list keeps for reuse, the 8 of node_cache
          MinCount, MaxCount, \* min_buffer_count, max_buffer_count
          OutOfMemory,  \* may make_shared fail?
          MaxVersion,   \* bound on the updates of one block
          None

ASSUME CellsAssumption == Cells \subseteq Nat /\ IsFiniteSet(Cells) /\ CacheSize \in Nat
ASSUME TasksAssumption == IsFiniteSet(Tasks)
ASSUME NoneAssumption == None \notin Nodes /\ None \notin Cells /\ None \notin Blocks

VARIABLES buffer_list,   \* cells of the list, front first
          flush_list,    \* cells of the flush list
          buffer_cache,  \* node_cache of buffer_list
          flush_cache,   \* node_cache of flush_list
          cell,          \* the shared_ptr in each cell
          leaked,        \* manager.lock was left locked
          block,         \* the block a node stands for, None after init()
          data, valid, dirty, \* its content, _valid and _dirty
          user,          \* the task that holds its _in_use_mutex
          disk,          \* content of the device
          written,       \* updates made so far
          pc, want,      \* where a task is and the block it asked for
          ptr,           \* the task's shared_ptr, or its local buf
          at,            \* the cell a task refers to: a hit, or flush_it
          local          \* the local flush_list of destroy

listVars == <<buffer_list, flush_list, buffer_cache, flush_cache, cell>>
nodeVars == <<block, data, valid, dirty, user>>
diskVars == <<disk, written>>
taskVars == <<pc, want, ptr, at, local>>
vars == <<listVars, leaked, nodeVars, diskVars, taskVars>>

Init ==
    /\ buffer_list = <<>> /\ flush_list = <<>>
    /\ buffer_cache = <<>> /\ flush_cache = <<>>
    /\ cell = [c \in Cells |-> None]
    /\ leaked = FALSE
    /\ block = [n \in Nodes |-> None]
    /\ data = [n \in Nodes |-> 0]
    /\ valid = [n \in Nodes |-> FALSE]
    /\ dirty = [n \in Nodes |-> FALSE]
    /\ user = [n \in Nodes |-> None]
    /\ disk = [b \in Blocks |-> 0]
    /\ written = [b \in Blocks |-> 0]
    /\ pc = [t \in Tasks |-> "idle"]
    /\ want = [t \in Tasks |-> None]
    /\ ptr = [t \in Tasks |-> None]
    /\ at = [t \in Tasks |-> None]
    /\ local = [t \in Tasks |-> <<>>]

-----------------------------------------------------------------------------
(* Lists and reference counts *)

\* shared_ptr::ref_count of a node.
RefCount(n) == Cardinality({c \in Cells : cell[c] = n}) + Cardinality({t \in Tasks : ptr[t] = n})

InUseCells ==
    UNION {Range(s) : s \in {buffer_list, flush_list, buffer_cache, flush_cache}
                              \cup {local[t] : t \in Tasks}}

\* list::alloc_node: the last cell of the cache, else a new one.
CanAlloc(cache) == cache /= <<>> \/ Cells \ InUseCells /= {}

AllocCell(cache) ==
    IF cache /= <<>> THEN cache[Len(cache)]
    ELSE CHOOSE c \in Cells \ InUseCells : \A d \in Cells \ InUseCells : c <= d

AfterAlloc(cache) == IF cache /= <<>> THEN SubSeq(cache, 1, Len(cache) - 1) ELSE <<>>

\* list::free_node: the cell joins the cache with its data, or is deleted.
AfterFree(cache, c) == IF Len(cache) < CacheSize THEN Append(cache, c) ELSE cache

CellsAfterFree(cache, c) == IF Len(cache) < CacheSize THEN cell ELSE [cell EXCEPT ![c] = None]

\* The elements of a list that lie in S, in their order.
Only(list, S) ==
    LET F[i \in 0..Len(list)] ==
            IF i = 0 THEN <<>> ELSE IF list[i] \in S THEN Append(F[i - 1], list[i]) ELSE F[i - 1]
    IN F[Len(list)]

Without(list, c) == Only(list, Cells \ {c})

\* make_shared takes a node that nothing points to.
FreeNodes ==
    {n \in Nodes : (\A c \in Cells : cell[c] /= n) /\ (\A t \in Tasks : ptr[t] /= n)}

Matches(list, b) == {i \in DOMAIN list : block[cell[list[i]]] = b}

First(S) == CHOOSE i \in S : \A j \in S : i <= j
Final(S) == CHOOSE i \in S : \A j \in S : j <= i

\* Positions whose shared_ptr is the only one: try_detach_weak succeeds.
Detachable(list) == {i \in DOMAIN list : RefCount(cell[list[i]]) = 1}

\* The cell found by the backward search for an unused node.
Unused ==
    IF Len(buffer_list) >= MinCount /\ Detachable(buffer_list) /= {}
    THEN buffer_list[Final(Detachable(buffer_list))]
    ELSE None

\* Fault: the node is marked invalid but keeps its block number.
InitNodeKeepsBlock(n, b) ==
    /\ valid' = [valid EXCEPT ![n] = FALSE]
    /\ UNCHANGED <<block, data, dirty, user>>

\* block_buffer_node::init
InitNode(n, b) ==
    /\ block' = [block EXCEPT ![n] = b]
    /\ valid' = [valid EXCEPT ![n] = FALSE]
    /\ UNCHANGED <<data, dirty, user>>

Become(t, state) == pc' = [pc EXCEPT ![t] = state]

-----------------------------------------------------------------------------
(* Clients *)

\* A device that destroy works on is not used meanwhile.
Destroying(d) == \E t \in Tasks : pc[t] \in {"d_flush", "d_merge", "d_done"} /\ want[t] = d

StartGet(t, b) ==
    /\ pc[t] = "idle"
    /\ ~Destroying(DeviceOf[b])
    /\ Become(t, "get")
    /\ want' = [want EXCEPT ![t] = b]
    /\ UNCHANGED <<listVars, leaked, nodeVars, diskVars, ptr, at, local>>

\* The critical section in which get_derived begins, entered by task t.
InGet(t) == pc[t] = "get" /\ ~leaked

\* The block is being flushed: co_await flush_queue.done(lock).
GetWait(t) ==
    /\ InGet(t)
    /\ Matches(flush_list, want[t]) /= {}
    /\ Become(t, "asleep")
    /\ UNCHANGED <<listVars, leaked, nodeVars, diskVars, want, ptr, at, local>>

Searching(t) == InGet(t) /\ Matches(flush_list, want[t]) = {}

\* Found: the cell moves to the front; the task keeps a reference to the cell.
GetHit(t) ==
    /\ Searching(t)
    /\ Matches(buffer_list, want[t]) /= {}
    /\ LET c == buffer_list[First(Matches(buffer_list, want[t]))]
       IN /\ buffer_list' = <<c>> \o Without(buffer_list, c)
          /\ at' = [at EXCEPT ![t] = c]
    /\ Become(t, "hit")
    /\ UNCHANGED <<flush_list, buffer_cache, flush_cache, cell, leaked, nodeVars, diskVars,
                   want, ptr, local>>

\* What a reference to a cell reads; a deleted cell may hold anything.
Read(c) == IF cell[c] = None THEN Nodes ELSE {cell[c]}

\* co_return node, after lock.unlock(): the shared_ptr is copied out of the cell.
HitReturn(t) ==
    /\ pc[t] = "hit"
    /\ \E n \in Read(at[t]) : ptr' = [ptr EXCEPT ![t] = n]
    /\ at' = [at EXCEPT ![t] = None]
    /\ Become(t, "got")
    /\ UNCHANGED <<listVars, leaked, nodeVars, diskVars, want, local>>

Missing(t) == Searching(t) /\ Matches(buffer_list, want[t]) = {}

\* No node to reuse and too many to make another: task_fail.
GetFail(t) ==
    /\ Missing(t)
    /\ Unused = None
    /\ Len(buffer_list) >= MaxCount
    /\ Become(t, "idle")
    /\ want' = [want EXCEPT ![t] = None]
    /\ UNCHANGED <<listVars, leaked, nodeVars, diskVars, ptr, at, local>>

\* make_shared failed: the task fails and leaves the manager locked.
GetNoMemory(t) ==
    /\ OutOfMemory
    /\ Missing(t)
    /\ Unused = None
    /\ Len(buffer_list) < MaxCount
    /\ leaked' = TRUE
    /\ Become(t, "idle")
    /\ want' = [want EXCEPT ![t] = None]
    /\ UNCHANGED <<listVars, nodeVars, diskVars, ptr, at, local>>

\* buffer_list.push_front and push_back, the cells and the cache being as given.
PushFront(n, list, cells, cache) ==
    /\ CanAlloc(cache)
    /\ buffer_list' = <<AllocCell(cache)>> \o list
    /\ buffer_cache' = AfterAlloc(cache)
    /\ cell' = [cells EXCEPT ![AllocCell(cache)] = n]

PushBack(n, list, cells, cache) ==
    /\ CanAlloc(cache)
    /\ buffer_list' = Append(list, AllocCell(cache))
    /\ buffer_cache' = AfterAlloc(cache)
    /\ cell' = [cells EXCEPT ![AllocCell(cache)] = n]

\* A new node.
GetNew(t) ==
    /\ Missing(t)
    /\ Unused = None
    /\ Len(buffer_list) < MaxCount
    /\ \E n \in FreeNodes :
          /\ block' = [block EXCEPT ![n] = want[t]]
          /\ valid' = [valid EXCEPT ![n] = FALSE]
          /\ dirty' = [dirty EXCEPT ![n] = FALSE]
          /\ user' = [user EXCEPT ![n] = None]
          /\ data' = [data EXCEPT ![n] = 0]
          /\ PushFront(n, buffer_list, cell, buffer_cache)
          /\ ptr' = [ptr EXCEPT ![t] = n]
    /\ Become(t, "got")
    /\ UNCHANGED <<flush_list, flush_cache, leaked, diskVars, want, at, local>>

\* The unused node is clean: erased, given the new block and put in front.
GetReuse(t) ==
    /\ Missing(t)
    /\ Unused /= None
    /\ ~dirty[cell[Unused]]
    /\ InitNode(cell[Unused], want[t])
    /\ PushFront(cell[Unused], Without(buffer_list, Unused),
                 CellsAfterFree(buffer_cache, Unused), AfterFree(buffer_cache, Unused))
    /\ ptr' = [ptr EXCEPT ![t] = cell[Unused]]
    /\ Become(t, "got")
    /\ UNCHANGED <<flush_list, flush_cache, leaked, diskVars, want, at, local>>

\* The unused node is dirty: it moves to flush_list and the lock is released.
GetEvict(t) ==
    /\ Missing(t)
    /\ Unused /= None
    /\ dirty[cell[Unused]]
    /\ CanAlloc(flush_cache)
    /\ buffer_list' = Without(buffer_list, Unused)
    /\ buffer_cache' = AfterFree(buffer_cache, Unused)
    /\ flush_list' = Append(flush_list, AllocCell(flush_cache))
    /\ flush_cache' = AfterAlloc(flush_cache)
    /\ cell' = [CellsAfterFree(buffer_cache, Unused) EXCEPT ![AllocCell(flush_cache)] = cell[Unused]]
    /\ ptr' = [ptr EXCEPT ![t] = cell[Unused]]
    /\ at' = [at EXCEPT ![t] = AllocCell(flush_cache)]
    /\ Become(t, "flush")
    /\ UNCHANGED <<leaked, nodeVars, diskVars, want, local>>

\* Fault: _dirty is cleared without a write.
FlushForgets(n) ==
    /\ dirty' = [dirty EXCEPT ![n] = @ /\ ~valid[n]]
    /\ UNCHANGED <<disk, written>>

\* referenceable_buffer::flush
Flush(n) ==
    /\ disk' = IF valid[n] /\ dirty[n] /\ block[n] \in Blocks
               THEN [disk EXCEPT ![block[n]] = data[n]] ELSE disk
    /\ dirty' = [dirty EXCEPT ![n] = @ /\ ~valid[n]]
    /\ UNCHANGED written

\* co_await buf->flush()
FlushEvicted(t) ==
    /\ pc[t] = "flush"
    /\ Flush(ptr[t])
    /\ Become(t, "relock")
    /\ UNCHANGED <<listVars, leaked, block, data, valid, user, want, ptr, at, local>>

\* Fault: flush_queue.wake_up_all() is missing.
GetFlushedNoWake(t) ==
    /\ pc[t] = "relock"
    /\ ~leaked
    /\ flush_list' = Without(flush_list, at[t])
    /\ flush_cache' = AfterFree(flush_cache, at[t])
    /\ at' = [at EXCEPT ![t] = None]
    /\ Become(t, "got")
    /\ LET found == Matches(buffer_list, want[t])
       IN \/ /\ found = {}
             /\ InitNode(ptr[t], want[t])
             /\ PushFront(ptr[t], buffer_list, CellsAfterFree(flush_cache, at[t]), buffer_cache)
             /\ UNCHANGED ptr
          \/ /\ found /= {}
             /\ InitNode(ptr[t], None)
             /\ PushBack(ptr[t], buffer_list, CellsAfterFree(flush_cache, at[t]), buffer_cache)
             /\ ptr' = [ptr EXCEPT ![t] = cell[buffer_list[First(found)]]]
    /\ UNCHANGED <<leaked, diskVars, want, local>>

\* Fault: the list is not searched again after the flush.
GetFlushedNoSearch(t) ==
    /\ pc[t] = "relock"
    /\ ~leaked
    /\ flush_list' = Without(flush_list, at[t])
    /\ flush_cache' = AfterFree(flush_cache, at[t])
    /\ at' = [at EXCEPT ![t] = None]
    /\ pc' = [u \in Tasks |-> IF u = t THEN "got" ELSE IF pc[u] = "asleep" THEN "get" ELSE pc[u]]
    /\ InitNode(ptr[t], want[t])
    /\ PushFront(ptr[t], buffer_list, CellsAfterFree(flush_cache, at[t]), buffer_cache)
    /\ UNCHANGED <<leaked, diskVars, want, ptr, local>>

\* After the flush: all waiters are woken and the block is searched again, in
\* buffer_list only.
GetFlushed(t) ==
    /\ pc[t] = "relock"
    /\ ~leaked
    /\ flush_list' = Without(flush_list, at[t])
    /\ flush_cache' = AfterFree(flush_cache, at[t])
    /\ at' = [at EXCEPT ![t] = None]
    /\ pc' = [u \in Tasks |-> IF u = t THEN "got" ELSE IF pc[u] = "asleep" THEN "get" ELSE pc[u]]
    /\ LET found == Matches(buffer_list, want[t])
       IN \/ /\ found = {}
             /\ InitNode(ptr[t], want[t])
             /\ PushFront(ptr[t], buffer_list, CellsAfterFree(flush_cache, at[t]), buffer_cache)
             /\ UNCHANGED ptr
          \/ /\ found /= {}
             /\ InitNode(ptr[t], None)
             /\ PushBack(ptr[t], buffer_list, CellsAfterFree(flush_cache, at[t]), buffer_cache)
             /\ ptr' = [ptr EXCEPT ![t] = cell[buffer_list[First(found)]]]
    /\ UNCHANGED <<leaked, diskVars, want, local>>

-----------------------------------------------------------------------------
(* referenceable_buffer::get, the user's work and put *)

MutexLock(t) ==
    /\ pc[t] = "got"
    /\ user[ptr[t]] = None
    /\ user' = [user EXCEPT ![ptr[t]] = t]
    /\ Become(t, "locked")
    /\ UNCHANGED <<listVars, leaked, block, data, valid, dirty, diskVars, want, ptr, at, local>>

\* Fault: a valid buffer is read again from the device.
LoadAlways(t) ==
    /\ pc[t] = "locked"
    /\ LET n == ptr[t]
       IN /\ block[n] \in Blocks \ BadBlocks
          /\ data' = [data EXCEPT ![n] = disk[block[n]]]
          /\ valid' = [valid EXCEPT ![n] = TRUE]
          /\ dirty' = [dirty EXCEPT ![n] = FALSE]
    /\ Become(t, "ready")
    /\ UNCHANGED <<listVars, leaked, block, user, diskVars, want, ptr, at, local>>

\* load(): a valid buffer is used as it is, another one is read from the device.
Load(t) ==
    /\ pc[t] = "locked"
    /\ LET n == ptr[t]
       IN \/ /\ valid[n]
             /\ UNCHANGED <<data, valid, dirty>>
          \/ /\ ~valid[n]
             /\ block[n] \in Blocks \ BadBlocks
             /\ data' = [data EXCEPT ![n] = disk[block[n]]]
             /\ valid' = [valid EXCEPT ![n] = TRUE]
             /\ dirty' = [dirty EXCEPT ![n] = FALSE]
    /\ Become(t, "ready")
    /\ UNCHANGED <<listVars, leaked, block, user, diskVars, want, ptr, at, local>>

\* The device rejects the block: the task fails, _in_use_mutex stays locked.
LoadFail(t) ==
    /\ pc[t] = "locked"
    /\ ~valid[ptr[t]]
    /\ block[ptr[t]] \in BadBlocks
    /\ Become(t, "idle")
    /\ want' = [want EXCEPT ![t] = None]
    /\ ptr' = [ptr EXCEPT ![t] = None]
    /\ UNCHANGED <<listVars, leaked, nodeVars, diskVars, at, local>>

\* The user changes the data and calls mark_dirty.
Modify(t) ==
    /\ pc[t] = "ready"
    /\ written[want[t]] < MaxVersion
    /\ data' = [data EXCEPT ![ptr[t]] = @ + 1]
    /\ dirty' = [dirty EXCEPT ![ptr[t]] = TRUE]
    /\ written' = [written EXCEPT ![want[t]] = @ + 1]
    /\ Become(t, "modified")
    /\ UNCHANGED <<listVars, leaked, block, valid, user, disk, want, ptr, at, local>>

Put(t) ==
    /\ pc[t] \in {"ready", "modified"}
    /\ user' = [user EXCEPT ![ptr[t]] = None]
    /\ Become(t, "put")
    /\ UNCHANGED <<listVars, leaked, block, data, valid, dirty, diskVars, want, ptr, at, local>>

\* The task's shared_ptr goes out of scope.
Drop(t) ==
    /\ pc[t] = "put"
    /\ Become(t, "idle")
    /\ want' = [want EXCEPT ![t] = None]
    /\ ptr' = [ptr EXCEPT ![t] = None]
    /\ UNCHANGED <<listVars, leaked, nodeVars, diskVars, at, local>>

-----------------------------------------------------------------------------
(* destroy(device_id), called when nobody uses the device any more *)

OfDevice(d) == {b \in Blocks : DeviceOf[b] = d}

\* Unused buffers of the device go to a local list, the others are erased.
DestroyStart(t, d) ==
    /\ pc[t] = "idle"
    /\ ~leaked
    /\ ~Destroying(d)
    /\ \A u \in Tasks : want[u] \notin OfDevice(d)
    /\ LET matching == {c \in Cells : cell[c] /= None /\ block[cell[c]] \in OfDevice(d)}
           detached == {c \in matching : RefCount(cell[c]) = 1}
           failed == Only(buffer_list, matching \ detached)
           room == CacheSize - Len(buffer_cache)
           cached == SubSeq(failed, 1, IF Len(failed) < room THEN Len(failed) ELSE room)
       IN /\ local' = [local EXCEPT ![t] = Only(buffer_list, detached)]
          /\ buffer_cache' = buffer_cache \o cached
          /\ cell' = [c \in Cells |-> IF c \in Range(failed) \ Range(cached) THEN None ELSE cell[c]]
          /\ buffer_list' = Only(buffer_list, Cells \ matching)
    /\ want' = [want EXCEPT ![t] = d]
    /\ at' = [at EXCEPT ![t] = 1]
    /\ Become(t, "d_flush")
    /\ UNCHANGED <<flush_list, flush_cache, leaked, nodeVars, diskVars, ptr>>

\* co_await node->flush(); node->init() for the next node of the local list.
DestroyFlush(t) ==
    /\ pc[t] = "d_flush"
    /\ at[t] <= Len(local[t])
    /\ LET n == cell[local[t][at[t]]]
       IN /\ Flush(n)
          /\ block' = [block EXCEPT ![n] = None]
          /\ valid' = [valid EXCEPT ![n] = FALSE]
    /\ at' = [at EXCEPT ![t] = @ + 1]
    /\ UNCHANGED <<listVars, leaked, data, user, pc, want, ptr, local>>

DestroyMerge(t) ==
    /\ pc[t] = "d_flush"
    /\ at[t] > Len(local[t])
    /\ ~leaked
    /\ buffer_list' = buffer_list \o local[t]
    /\ local' = [local EXCEPT ![t] = <<>>]
    /\ at' = [at EXCEPT ![t] = None]
    /\ Become(t, "d_done")
    /\ UNCHANGED <<flush_list, buffer_cache, flush_cache, cell, leaked, nodeVars, diskVars, want, ptr>>

DestroyReturn(t) ==
    /\ pc[t] = "d_done"
    /\ Become(t, "idle")
    /\ want' = [want EXCEPT ![t] = None]
    /\ UNCHANGED <<listVars, leaked, nodeVars, diskVars, ptr, at, local>>

-----------------------------------------------------------------------------
Get(t) ==
    \/ GetWait(t)
    \/ GetHit(t)
    \/ HitReturn(t)
    \/ GetFail(t)
    \/ GetNoMemory(t)
    \/ GetNew(t)
    \/ GetReuse(t)
    \/ GetEvict(t)
    \/ FlushEvicted(t)
    \/ GetFlushed(t)

Use(t) ==
    \/ MutexLock(t)
    \/ Load(t)
    \/ LoadFail(t)
    \/ Modify(t)
    \/ Put(t)
    \/ Drop(t)

Destroy(t) ==
    \/ DestroyFlush(t)
    \/ DestroyMerge(t)
    \/ DestroyReturn(t)

TaskStep(t) == Get(t) \/ Use(t) \/ Destroy(t)

Next ==
    \E t \in Tasks :
        \/ \E b \in Blocks : StartGet(t, b)
        \/ \E d \in Devices : DestroyStart(t, d)
        \/ TaskStep(t)

Spec == Init /\ [][Next]_vars

\* A task that has begun a call keeps being resumed by its scheduler.
FairSpec == Spec /\ \A t \in Tasks : WF_vars(TaskStep(t))

-----------------------------------------------------------------------------
(* Properties *)

\* The cache never holds two buffers of one block, although a task that flushes
\* a victim releases the lock between its search and its insertion.
UniqueBlocks ==
    \A i, j \in DOMAIN buffer_list :
        /\ block[cell[buffer_list[i]]] = block[cell[buffer_list[j]]]
        /\ block[cell[buffer_list[i]]] /= None
        => i = j

\* A task that get() has given a buffer holds the buffer of the block it asked
\* for until it drops it.
RightBuffer ==
    \A t \in Tasks : pc[t] \in {"got", "locked", "ready", "modified", "put"} =>
        block[ptr[t]] = want[t]

\* A task that has locked a buffer sees every update made to its block so far:
\* no cached copy is stale and no update is lost.
Coherent ==
    \A t \in Tasks : pc[t] \in {"ready", "modified"} => data[ptr[t]] = written[want[t]]

\* When destroy returns, the device holds every update made through the cache.
DestroyWritesBack ==
    \A t \in Tasks : pc[t] = "d_done" =>
        \A b \in Blocks : DeviceOf[b] = want[t] => disk[b] = written[b]

\* Every task that waits for a flush is woken.
FlushWaitersWoken == \A t \in Tasks : pc[t] = "asleep" ~> pc[t] /= "asleep"

====
