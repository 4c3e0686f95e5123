---- MODULE KernelMemory ----
(***************************************************************************)
(* The kernel's memory as a whole: the heap (HeapAllocator), the objects   *)
(* too large for it (large_mem_allocator) and the user processes           *)
(* (UserMemory) draw on the one list of pages of kernel_allocator.         *)
(*                                                                         *)
(* What user_process and large_mem_allocator do in one call is one step.   *)
(* Two calls meet only on the list of pages, where a call finds a page or  *)
(* does not; the lists that a run starts with make it fail at each place   *)
(* where it can.                                                           *)
(***************************************************************************)
EXTENDS HeapAllocator, UserMemory
LOCAL INSTANCE SequencesExt

CONSTANTS Kernel,        \* the kernel's address space
          VMEM_START,    \* virtual page at which large objects start
          MaxVmem,       \* bound: virtual pages for large objects
          MaxCalls       \* bound: objects asked for, processes created and files loaded

PGSIZE == 4096
LargeInfo == 16          \* sizeof(large_mem_info)

Spaces == Procs \cup {Kernel}

VARIABLES tables, leaf, content, mmap_infos,
          state,         \* of a process: "none" before its constructor and after its destructor
          loads,         \* the files given to it, and whether they could be loaded
          vmem_top,      \* virtual pages handed to large objects so far
          regions,       \* large objects: large_mem_info at each start
          panic,         \* the panic that stopped the kernel
          map_failed,    \* has walk run out of pages?
          boot,          \* pages in use since boot
          calls          \* objects asked for, processes created and files loaded so far

spaceVars == <<tables, leaf, content, mmap_infos, panic, map_failed>>
userVars == <<state, loads>>
largeVars == <<vmem_top, regions>>
memVars == <<heapVars, spaceVars, userVars, largeVars, boot, calls>>

MemInit ==
    /\ HeapInit
    /\ tables = [sp \in Spaces |-> NoEntries]
    /\ leaf = [sp \in Spaces |-> NoEntries]
    /\ content = [p \in Pages |-> [o \in 0..(PageUnits - 1) |-> Junk]]
    /\ mmap_infos = [u \in Procs |-> <<>>]
    /\ state = [u \in Procs |-> "none"]
    /\ loads = [u \in Procs |-> <<>>]
    /\ vmem_top = 0
    /\ regions = NoEntries
    /\ panic = "" /\ map_failed = FALSE
    /\ boot = taken
    /\ calls = 0

\* The memory that the operators of Vmem and UserMemory work on, and what a step
\* makes of it.  The content of a page on the free list is not told apart.
Memory == [free |-> free_page_list, tables |-> tables, leaf |-> leaf, content |-> content,
           mmap_infos |-> mmap_infos, panic |-> panic, map_failed |-> map_failed, mapped |-> 0, ok |-> TRUE]

Commit(m) ==
    /\ free_page_list' = m.free
    /\ taken' = (taken \cup Elements(free_page_list)) \ Elements(m.free)
    /\ tables' = m.tables
    /\ leaf' = m.leaf
    /\ content' = [p \in Pages |-> IF p \in Elements(m.free)
                                   THEN [o \in 0..(PageUnits - 1) |-> Junk] ELSE m.content[p]]
    /\ mmap_infos' = m.mmap_infos
    /\ panic' = m.panic
    /\ map_failed' = m.map_failed
    /\ UNCHANGED boot

Running == panic = "" /\ stray = NULL

-----------------------------------------------------------------------------
\* user_process::user_process: without memory the process is not marked ALLOCATED.
Create(u) ==
    /\ Running
    /\ state[u] = "none"
    /\ calls < MaxCalls
    /\ \E m \in {InitPagetable(Memory, u)} :
       /\ Commit(m)
       /\ state' = [state EXCEPT ![u] = IF m.ok THEN "ALLOCATED" ELSE "unused"]
    /\ calls' = calls + 1
    /\ UNCHANGED <<blockVars, lock, callVars, stray, largeVars, loads>>

\* test_load_elf.  A process whose program could not be loaded keeps its state and the
\* segments mapped so far; nothing stops a second load, whether the first succeeded or
\* not.
Load(u, f) ==
    /\ Running
    /\ state[u] \in {"ALLOCATED", "WAKEN_UP"}
    /\ calls < MaxCalls
    /\ \E m \in {TestLoadElf(Memory, u, f)} :
       /\ Commit(m)
       /\ state' = [state EXCEPT ![u] = IF m.ok THEN "WAKEN_UP" ELSE @]
       /\ loads' = [loads EXCEPT ![u] = Append(@, [file |-> f, ok |-> m.ok])]
    /\ calls' = calls + 1
    /\ UNCHANGED <<blockVars, lock, callVars, stray, largeVars>>

\* process::exit, as far as memory goes: __clean_resources.
Exit(u) ==
    /\ Running
    /\ state[u] = "WAKEN_UP"
    /\ \E m \in {FreePagetable(Memory, u)} : Commit(m)
    /\ state' = [state EXCEPT ![u] = "EXITED"]
    /\ UNCHANGED <<blockVars, lock, callVars, stray, largeVars, loads, calls>>

\* user_process::~user_process: __clean_resources, again if the process has exited.
Destroy(u) ==
    /\ Running
    /\ state[u] \notin {"none", "WAKEN_UP"}
    /\ \E m \in {FreePagetable(Memory, u)} : Commit(m)
    /\ state' = [state EXCEPT ![u] = "none"]
    /\ loads' = [loads EXCEPT ![u] = <<>>]
    /\ UNCHANGED <<blockVars, lock, callVars, stray, largeVars, calls>>

-----------------------------------------------------------------------------
PageCount(sz) == (sz + LargeInfo + PGSIZE - 1) \div PGSIZE

\* The pages of large_mem_allocator::alloc, one after the other; kvmmap panics if
\* there is no page for a table.
LargePages(start, n) ==
    LET step(acc, k) ==
            Then(acc, LAMBDA x :
                IF x.free = <<>> THEN [x EXCEPT !.ok = FALSE]
                ELSE Do(MapPage([x EXCEPT !.free = AfterAlloc(@)], Kernel, start + k - 1,
                                AllocPage(x.free), FALSE),
                        LAMBDA w : IF w.ok THEN [w EXCEPT !.mapped = k] ELSE Panic(w, "kvmmap")))
    IN FoldLeft(step, Memory, [k \in 1..n |-> k])

InLarge(a) ==
    /\ Running
    /\ pc[a] \in {"first", "second"}
    /\ want[a] \notin SmallSizes
    /\ vmem_top + PageCount(want[a]) <= MaxVmem

LargeAlloc(a) ==
    /\ InLarge(a)
    /\ LET n == PageCount(want[a])
           start == VMEM_START + vmem_top
       IN \E m \in {LargePages(start, n)} :
          /\ m.ok
          /\ Commit(m)
          /\ vmem_top' = vmem_top + n
          /\ regions' = regions @@ (start :> [page_count |-> n, requested_size |-> want[a]])
    /\ Return(a)
    /\ UNCHANGED <<blockVars, lock, stray, userVars, calls>>

\* Out of pages: what was mapped is unmapped and freed, the tables stay.
LargeFails(a) ==
    /\ InLarge(a)
    /\ LET start == VMEM_START + vmem_top
       IN \E m \in {LargePages(start, PageCount(want[a]))} :
          /\ ~m.ok /\ m.panic = ""
          /\ \E r \in {Unmap(m, Kernel, start, m.mapped, TRUE)} : Commit(r)
    /\ Failed(a)
    /\ UNCHANGED <<blockVars, lock, stray, userVars, largeVars, calls>>

LargePanics(a) ==
    /\ InLarge(a)
    /\ \E m \in {LargePages(VMEM_START + vmem_top, PageCount(want[a]))} :
          m.panic /= "" /\ Commit(m)
    /\ UNCHANGED <<blockVars, lock, callVars, stray, userVars, largeVars, calls>>

\* large_mem_allocator::free: the header says how many pages to unmap and free.
LargeDelete(start) ==
    /\ Running
    /\ \E m \in {Unmap(Memory, Kernel, start, regions[start].page_count, TRUE)} : Commit(m)
    /\ regions' = Dropped(regions, start)
    /\ UNCHANGED <<blockVars, lock, callVars, stray, userVars, vmem_top, calls>>

-----------------------------------------------------------------------------
Rest == UNCHANGED <<spaceVars, userVars, largeVars, boot>>

Next ==
    \/ \E a \in Actors, sz \in Sizes :
          Running /\ calls < MaxCalls /\ New(a, sz) /\ calls' = calls + 1 /\ Rest
    \/ \E a \in Actors, c \in ClassSet : Running /\ AllocFromBlock(a, c) /\ UNCHANGED calls /\ Rest
    \/ \E a \in Actors, c \in ClassSet : Running /\ AllocFromPage(a, c) /\ UNCHANGED calls /\ Rest
    \/ \E a \in Actors, c \in ClassSet : Running /\ AllocDangling(a, c) /\ UNCHANGED calls /\ Rest
    \/ \E a \in Actors, c \in ClassSet : Running /\ AllocFails(a, c) /\ UNCHANGED calls /\ Rest
    \/ \E a \in Actors : Running /\ TruncateBegin(a) /\ UNCHANGED calls /\ Rest
    \/ \E a \in Actors : Running /\ TruncateBlock(a) /\ UNCHANGED calls /\ Rest
    \/ \E a \in Actors : Running /\ TruncateEnd(a) /\ UNCHANGED calls /\ Rest
    \/ \E a \in Actors : Running /\ Retry(a) /\ UNCHANGED calls /\ Rest
    \/ \E p \in Pages, s \in Slots : Running /\ Delete(p, s) /\ UNCHANGED calls /\ Rest
    \/ \E a \in Actors : LargeAlloc(a) \/ LargeFails(a) \/ LargePanics(a)
    \/ \E start \in DOMAIN regions : LargeDelete(start)
    \/ \E u \in Procs : Create(u) \/ Exit(u) \/ Destroy(u) \/ \E f \in Programs : Load(u, f)

Spec == MemInit /\ [][Next]_memVars

-----------------------------------------------------------------------------
\* How often a page is a table or a leaf of an address space.
References(p) ==
    Cardinality({sp \in Spaces : \E t \in DOMAIN tables[sp] : tables[sp][t] = p})
      + Cardinality(UNION {{<<sp, va>> : va \in {v \in DOMAIN leaf[sp] : leaf[sp][v].pa = p}} : sp \in Spaces})

\* Was u given two segments, of one file or of two, with a page in common?
SharesPage(u) ==
    LET given == UNION {{<<i, j>> : j \in DOMAIN loads[u][i].file.headers} : i \in DOMAIN loads[u]}
        pages(x) == SegmentPages(loads[u][x[1]].file.headers[x[2]])
    IN \E x, y \in given : x /= y /\ pages(x) \cap pages(y) /= {}

\* No page is in two address spaces, twice in one, or at once in an address space
\* and on the free list or in the heap: what one process or the kernel writes through
\* its page table changes nothing of another's.  Conversely a page that was handed out
\* after boot and is not a block of the heap is still in an address space: exit, the
\* destructor, a failed constructor and a failed load lose none, as long as walk has
\* never run out of pages.  No panic reports a page that is not mapped, or a leaf left
\* in a table that is freed.  kvmmap panics, for want of a page for a table, and
\* mappages does ("remap"), but only in a process that was given two segments with a
\* page in common, which __load_elf does not rule out (mappages, uvmunmap, __mmap,
\* __free_pagetable, large_mem_allocator).
SpacesOwnPages ==
    /\ \A p \in Pages : References(p) > 0 => References(p) = 1 /\ p \in taken \ boot
    /\ panic = "" /\ ~map_failed => \A p \in taken \ boot : References(p) > 0
    /\ panic \in {"", "kvmmap", "remap"}
    /\ panic = "remap" => \E u \in Procs : SharesPage(u)

\* A process sees the bytes of every file loaded into it where the headers say and zeros
\* in the rest of their pages, through the page table, whatever was loaded, freed or
\* allocated around it, before it or after it (__load_elf, copyout, memset_user).
LoadedImage ==
    \A u \in Procs : state[u] = "WAKEN_UP" =>
        \A i \in DOMAIN loads[u] : loads[u][i].ok =>
            \A at \in Addresses(loads[u][i].file) :
                /\ WalkAddr(Memory, u, at)
                /\ content[leaf[u][at \div PageUnits].pa][at % PageUnits]
                     = Image(loads[u][i].file, at)

\* An object has the room that was asked for, in its cell (log2_64 and the switch of
\* __alloc) or in pages that follow one another in the kernel's address space and are
\* those of no other object (large_mem_allocator::alloc).
ObjectsFit ==
    /\ \A p \in HeapPages : \A s \in Held(p) : asked[p][s] <= size_of[p]
    /\ \A start \in DOMAIN regions :
         LET r == regions[start] IN
         /\ r.requested_size + LargeInfo <= r.page_count * PGSIZE
         /\ start..(start + r.page_count - 1) \subseteq DOMAIN leaf[Kernel]
         /\ \A other \in DOMAIN regions \ {start} :
              other \notin start..(start + r.page_count - 1)

\* What the rest of the kernel does with pages is what the heap expects of it: pages
\* are taken from the list and only pages that are held are returned.
ImplementsHeap == HeapSpec
====
