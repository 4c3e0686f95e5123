---- MODULE HeapAllocator ----
(***************************************************************************)
(* operator new and operator delete for objects of up to 1024 bytes        *)
(* (mm/allocator.h, mm/allocator.cc): a heap_allocator for each size, whose *)
(* blocks are pages of kernel_allocator, and default_alloc, which when     *)
(* there is no page gives back the empty blocks of every size and tries    *)
(* once more.                                                              *)
(*                                                                         *)
(* A call of heap_allocator::alloc or free runs under the lock of its size *)
(* and is one step.  truncate holds that lock while it walks the blocks;   *)
(* it returns them one at a time, so each block is a step.                 *)
(***************************************************************************)
EXTENDS PageAllocator, FiniteSets

CONSTANTS Actors,      \* threads of control that call operator new
          Classes,     \* the sizes of the heap allocators, smallest first
          Capacity,    \* cells of a block of each size
          Sizes        \* sizes asked for

\* log2_64: the position of the highest bit set.
Log2(v) == CHOOSE l \in 0..10 : 2^l <= v /\ v < 2^(l + 1)

\* Fault: the logarithm of sz rounded down.
ClassOfRoundedDown(sz) == IF sz = 1 THEN 8
                          ELSE LET l == Log2(sz - 1) IN IF l <= 3 THEN 8 ELSE 2^l

\* __alloc: the heap allocator for an object of sz bytes.
ClassOf(sz) == IF sz = 1 THEN 8
               ELSE LET l == Log2(sz - 1) IN IF l <= 2 THEN 8 ELSE 2^(l + 1)

SmallSizes == {sz \in Sizes : sz <= 1024}
ClassSet == {Classes[i] : i \in 1..Len(Classes)}
Slots == UNION {0..(Capacity[c] - 1) : c \in ClassSet}

ASSUME ClassesAssumption == Classes \in Seq(Nat \ {0}) /\ Injective(Classes)
ASSUME CapacityAssumption == Capacity \in [ClassSet -> Nat \ {0}]
ASSUME SizesAssumption ==
    Sizes \subseteq Nat \ {0} /\ \A sz \in SmallSizes : ClassOf(sz) \in ClassSet
ASSUME ActorsAssumption == NULL \notin Actors

VARIABLES head_block,       \* blocks of a size, along info.next_block
          next_free_block,  \* the block a heap allocator takes the next cell from
          link,             \* info.next_free_block of a page
          size_of,          \* info._size of a page
          used,             \* info.used
          data,             \* free cells of a block, from info.next_free_index on
          asked,            \* size of the object in a cell, 0 for none
          lock,             \* heap_allocator::lock: who truncates
          pc, want,         \* default_alloc: where it is, for what size
          todo, cursor,     \* sizes left to truncate, the block it looks at
          stray             \* the cell that was handed out of a page truncate had freed

blockVars == <<head_block, next_free_block, link, size_of, used, data, asked>>
callVars == <<pc, want, todo, cursor>>
heapVars == <<pageVars, blockVars, lock, callVars, stray>>

HeapInit ==
    /\ PageInit
    /\ head_block = [c \in ClassSet |-> <<>>]
    /\ next_free_block = [c \in ClassSet |-> NULL]
    /\ link = [p \in Pages |-> NULL]
    /\ size_of = [p \in Pages |-> 0]
    /\ used = [p \in Pages |-> 0]
    /\ data = [p \in Pages |-> <<>>]
    /\ asked = [p \in Pages |-> [s \in Slots |-> 0]]
    /\ lock = [c \in ClassSet |-> NULL]
    /\ pc = [a \in Actors |-> "idle"]
    /\ want = [a \in Actors |-> 0]
    /\ todo = [a \in Actors |-> 0]
    /\ cursor = [a \in Actors |-> 0]
    /\ stray = NULL

-----------------------------------------------------------------------------
\* operator new, up to the lock of the heap allocator.
New(a, sz) ==
    /\ stray = NULL
    /\ pc[a] = "idle"
    /\ pc' = [pc EXCEPT ![a] = "first"]
    /\ want' = [want EXCEPT ![a] = sz]
    /\ UNCHANGED <<pageVars, blockVars, lock, todo, cursor, stray>>

InAlloc(a, c) ==
    /\ stray = NULL
    /\ pc[a] \in {"first", "second"}
    /\ want[a] \in SmallSizes
    /\ c = ClassOf(want[a])
    /\ lock[c] = NULL

Return(a) ==
    /\ pc' = [pc EXCEPT ![a] = "idle"]
    /\ want' = [want EXCEPT ![a] = 0]
    /\ UNCHANGED <<todo, cursor>>

\* heap_block_t::alloc: the first free cell s of block p.
BlockAlloc(p, s, sz) ==
    /\ data' = [data EXCEPT ![p] = Tail(@)]
    /\ used' = [used EXCEPT ![p] = @ + 1]
    /\ asked' = [asked EXCEPT ![p][s] = sz]

\* heap_allocator::alloc with a block on the free chain.  Such a block is not
\* full (FreeChain), so heap_block_t::alloc finds a cell.
AllocFromBlock(a, c) ==
    /\ InAlloc(a, c)
    /\ next_free_block[c] \in Elements(head_block[c])
    /\ LET p == next_free_block[c] IN
          /\ BlockAlloc(p, Head(data[p]), want[a])
          /\ next_free_block' = [next_free_block EXCEPT ![c] =
                IF used[p] + 1 = Capacity[c] THEN link[p] ELSE p]
    /\ Return(a)
    /\ UNCHANGED <<pageVars, head_block, link, size_of, lock, stray>>

\* Fault: the cell that is handed out stays on the list of free cells.
RestOfBlockAndFirst(c) == [i \in 1..Capacity[c] |-> i - 1]

\* The cells of a new block but the first, which is handed out.
RestOfBlock(c) == [i \in 1..(Capacity[c] - 1) |-> i]

\* heap_allocator::alloc with no block on the free chain and a page to be had.  The
\* new block's header replaces what was in the page: if a free chain of another size
\* still leads there, it is cut.
AllocFromPage(a, c) ==
    /\ InAlloc(a, c)
    /\ next_free_block[c] = NULL
    /\ free_page_list /= <<>>
    /\ LET p == AllocPage(free_page_list)
       IN /\ free_page_list' = AfterAlloc(free_page_list)
          /\ head_block' = [head_block EXCEPT ![c] = <<p>> \o @]
          /\ size_of' = [size_of EXCEPT ![p] = c]
          /\ used' = [used EXCEPT ![p] = 1]
          /\ data' = [data EXCEPT ![p] = RestOfBlock(c)]
          /\ asked' = [asked EXCEPT ![p][0] = want[a]]
          /\ link' = [link EXCEPT ![p] = NULL]
          /\ next_free_block' = [next_free_block EXCEPT ![c] =
                IF Capacity[c] = 1 THEN NULL ELSE p]
    /\ Return(a)
    /\ UNCHANGED <<taken, lock, stray>>

\* The chain leads to a page that truncate has freed: alloc takes what lies there for
\* a block and hands out a cell of it.  What becomes of the page, which is on the free
\* list or another owner's, depends on the bytes in it, and the model stops here.
AllocDangling(a, c) ==
    /\ InAlloc(a, c)
    /\ next_free_block[c] \notin Elements(head_block[c]) \cup {NULL}
    /\ stray' = [size |-> c, page |-> next_free_block[c]]
    /\ Return(a)
    /\ UNCHANGED <<pageVars, blockVars, lock>>

\* default_alloc with a null pointer: truncate, or after that give up.
Failed(a) ==
    IF pc[a] = "first"
    THEN /\ pc' = [pc EXCEPT ![a] = "truncate"]
         /\ todo' = [todo EXCEPT ![a] = 1]
         /\ UNCHANGED <<want, cursor>>
    ELSE Return(a)

AllocFails(a, c) ==
    /\ InAlloc(a, c)
    /\ next_free_block[c] = NULL
    /\ free_page_list = <<>>
    /\ Failed(a)
    /\ UNCHANGED <<pageVars, blockVars, lock, stray>>

-----------------------------------------------------------------------------
\* heap_allocator::truncate of the sizes in turn, then the second attempt.
TruncateBegin(a) ==
    /\ stray = NULL
    /\ pc[a] = "truncate"
    /\ todo[a] <= Len(Classes)
    /\ lock[Classes[todo[a]]] = NULL
    /\ lock' = [lock EXCEPT ![Classes[todo[a]]] = a]
    /\ pc' = [pc EXCEPT ![a] = "walk"]
    /\ cursor' = [cursor EXCEPT ![a] = 1]
    /\ UNCHANGED <<pageVars, blockVars, want, todo, stray>>

\* A sequence without its i-th element.
Without(s, i) == [j \in 1..(Len(s) - 1) |-> IF j < i THEN s[j] ELSE s[j + 1]]

\* One block: unlinked from the blocks (and from them only) and freed if it is
\* empty; free_page writes its link over the block's size.  The free chain keeps
\* leading to the page.  What link says of a page that is not a block is what the last
\* block there left; nothing follows it (AllocDangling).
TruncateBlock(a) ==
    /\ stray = NULL
    /\ pc[a] = "walk"
    /\ LET c == Classes[todo[a]] IN
       /\ cursor[a] <= Len(head_block[c])
       /\ LET p == head_block[c][cursor[a]] IN
          IF used[p] = 0
          THEN /\ head_block' = [head_block EXCEPT ![c] = Without(@, cursor[a])]
               /\ free_page_list' = FreePage(free_page_list, p)
               /\ size_of' = [size_of EXCEPT ![p] = 0]
               /\ data' = [data EXCEPT ![p] = <<>>]
               /\ UNCHANGED cursor
          ELSE /\ cursor' = [cursor EXCEPT ![a] = @ + 1]
               /\ UNCHANGED <<head_block, free_page_list, size_of, data>>
    /\ UNCHANGED <<taken, next_free_block, link, used, asked, lock, pc, want, todo, stray>>

TruncateEnd(a) ==
    /\ stray = NULL
    /\ pc[a] = "walk"
    /\ LET c == Classes[todo[a]] IN
       /\ cursor[a] > Len(head_block[c])
       /\ lock' = [lock EXCEPT ![c] = NULL]
    /\ pc' = [pc EXCEPT ![a] = "truncate"]
    /\ todo' = [todo EXCEPT ![a] = @ + 1]
    /\ cursor' = [cursor EXCEPT ![a] = 0]
    /\ UNCHANGED <<pageVars, blockVars, want, stray>>

Retry(a) ==
    /\ stray = NULL
    /\ pc[a] = "truncate"
    /\ todo[a] > Len(Classes)
    /\ pc' = [pc EXCEPT ![a] = "second"]
    /\ todo' = [todo EXCEPT ![a] = 0]
    /\ UNCHANGED <<pageVars, blockVars, lock, want, cursor, stray>>

-----------------------------------------------------------------------------
\* heap_block_t::free: cell s becomes the first free cell of block p.
BlockFree(p, s) ==
    /\ data' = [data EXCEPT ![p] = <<s>> \o @]
    /\ used' = [used EXCEPT ![p] = @ - 1]
    /\ asked' = [asked EXCEPT ![p][s] = 0]

\* Fault: a block that was full is not put on the free chain.
HeapFreeUnchained(c, p, s) ==
    /\ lock[c] = NULL
    /\ BlockFree(p, s)
    /\ UNCHANGED <<next_free_block, link>>

\* heap_allocator::free: a block that was full goes back on the free chain.
HeapFree(c, p, s) ==
    /\ lock[c] = NULL
    /\ BlockFree(p, s)
    /\ IF used[p] = Capacity[c]
       THEN /\ link' = [link EXCEPT ![p] = next_free_block[c]]
            /\ next_free_block' = [next_free_block EXCEPT ![c] = p]
       ELSE UNCHANGED <<next_free_block, link>>

\* operator delete of the object in cell s of page p: the size in the page's
\* header selects the heap allocator.
Delete(p, s) ==
    /\ stray = NULL
    /\ asked[p][s] /= 0
    /\ size_of[p] \in ClassSet
    /\ HeapFree(size_of[p], p, s)
    /\ UNCHANGED <<pageVars, head_block, size_of, lock, callVars, stray>>

\* The other clients of kernel_allocator take pages from its list and return
\* pages they hold.
Exchange ==
    /\ free_page_list' \in Seq(Pages)
    /\ Injective(free_page_list')
    /\ taken' \subseteq Pages
    /\ taken' \cap Elements(free_page_list') = {}
    /\ taken' \cup Elements(free_page_list') = taken \cup Elements(free_page_list)

Others == Exchange /\ UNCHANGED <<blockVars, lock, callVars, stray>>

\* An attempt at an object too large for the heap allocators.
LargeAttempt(a) ==
    /\ stray = NULL
    /\ pc[a] \in {"first", "second"}
    /\ want[a] \notin SmallSizes
    /\ Exchange
    /\ Return(a) \/ Failed(a)
    /\ UNCHANGED <<blockVars, lock, stray>>

HeapStep ==
    \/ \E a \in Actors :
         \/ \E sz \in Sizes : New(a, sz)
         \/ \E c \in ClassSet : \/ AllocFromBlock(a, c) \/ AllocFromPage(a, c)
                               \/ AllocDangling(a, c) \/ AllocFails(a, c)
         \/ TruncateBegin(a) \/ TruncateBlock(a) \/ TruncateEnd(a) \/ Retry(a)
    \/ \E p \in Pages, s \in Slots : Delete(p, s)

\* The heap as its clients and the other users of pages see it.
HeapSpec ==
    HeapInit /\ [][HeapStep \/ Others \/ \E a \in Actors : LargeAttempt(a)]_heapVars

-----------------------------------------------------------------------------
Blocks(c) == Elements(head_block[c])
HeapPages == UNION {Blocks(c) : c \in ClassSet}
Held(p) == {s \in Slots : asked[p][s] /= 0}

OwnedPages ==
    /\ Injective(free_page_list)
    /\ \A c \in ClassSet : Injective(head_block[c])
    /\ \A c, d \in ClassSet : c /= d => Blocks(c) \cap Blocks(d) = {}
    /\ Elements(free_page_list) \cap HeapPages = {}
    /\ Elements(free_page_list) \cap taken = {}
    /\ HeapPages \cap taken = {}

\* A page is on the free list once, or a block of one size, or held by another
\* client of kernel_allocator, and never two of these, as long as alloc was not led to
\* a page that truncate had freed (alloc_page, free_page, heap_allocator::alloc,
\* truncate).
PagesOwned == stray = NULL => OwnedPages

OwnedSlots ==
    /\ \A c \in ClassSet : \A p \in Blocks(c) :
         /\ size_of[p] = c
         /\ used[p] = Cardinality(Held(p))
         /\ Injective(data[p])
         /\ Elements(data[p]) = (0..(Capacity[c] - 1)) \ Held(p)
    /\ \A p \in Pages \ HeapPages : Held(p) = {}

\* A cell of a block is free or holds one live object, a page that is not a
\* block holds none, and the header says the size of the cells and how many
\* are in use, as long as alloc was not led to a page that truncate had freed
\* (heap_block_t::alloc, free; default_delete trusts the header).
SlotsOwned == stray = NULL => OwnedSlots

\* The pages s follow one another from pointer h on, along the links l, and the
\* pointer that comes after them.
Linked(h, l, s) ==
    /\ s /= <<>> => h = s[1]
    /\ \A i \in 1..(Len(s) - 1) : l[s[i]] = s[i + 1]
After(h, l, s) == IF s = <<>> THEN h ELSE l[s[Len(s)]]

\* Along the free chain of size c lie the blocks s, each once and each with a free
\* cell.  The chain ends with them or leads to a page that is no block of this size;
\* if it ends, the other blocks are full.
Chain(c, s) ==
    LET rest == After(next_free_block[c], link, s) IN
    /\ Injective(s)
    /\ Linked(next_free_block[c], link, s)
    /\ \A p \in Elements(s) : used[p] < Capacity[c]
    /\ rest \notin Blocks(c)
    /\ rest = NULL => \A p \in Blocks(c) \ Elements(s) : used[p] = Capacity[c]

\* The free chain of a size has no cycle, and the blocks on it have a free cell: alloc
\* finds one where its comment says that "there is free block".  No free cell is
\* forgotten, and a page is taken only when every block is full, unless the chain leads
\* to a page that truncate has freed: it hides the blocks behind it
\* (heap_allocator::alloc, free, truncate).
FreeChain ==
    stray = NULL =>
    \A c \in ClassSet :
        \E n \in 0..Len(head_block[c]) : \E s \in [1..n -> Blocks(c)] : Chain(c, s)
====
