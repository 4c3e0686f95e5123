---- MODULE UserMemory ----
(***************************************************************************)
(* The memory of a user process (proc/process.cc, proc/elf.cc): its page   *)
(* table, its mappings, the program that is loaded into it, and the return *)
(* of all of it.                                                           *)
(***************************************************************************)
EXTENDS Vmem
LOCAL INSTANCE SequencesExt

CONSTANTS Procs,
          TRAMPOLINE, TRAPFRAME, USER_STACK_TOP, USER_TEXT_START,  \* virtual pages
          TrampolinePage,   \* the page of the kernel's image that all processes share
          Programs          \* ELF files

ASSUME TrampolineAssumption == TrampolinePage \notin Pages

Zeroed(m, p) == [m EXCEPT !.content[p] = [o \in 0..(PageUnits - 1) |-> 0]]

\* __mmap of a given page.
MmapPage(m, u, va, pa, shared, user) ==
    Then(MapPage(m, u, va, pa, user), LAMBDA w :
        [w EXCEPT !.mmap_infos[u] = Append(@, [start |-> va, size |-> 1, shared |-> shared])])

\* __mmap of size new pages.  If there is no page, or no page for a table, what was
\* mapped is unmapped and freed; a page whose mapping failed is not.
MmapNew(m, u, va, size) ==
    LET step(acc, k) ==
            Then(acc, LAMBDA x :
                IF x.free = <<>> THEN [x EXCEPT !.ok = FALSE]
                ELSE Then(MapPage([x EXCEPT !.free = AfterAlloc(@)], u, va + k - 1,
                                  AllocPage(x.free), TRUE),
                          LAMBDA w : [w EXCEPT !.mapped = k]))
        finish(x) ==
            IF x.panic /= "" THEN x
            ELSE IF x.ok
            THEN [x EXCEPT !.mmap_infos[u] =
                     Append(@, [start |-> va, size |-> size, shared |-> FALSE])]
            ELSE [Unmap(x, u, va, x.mapped, TRUE) EXCEPT !.ok = FALSE]
    IN Do(FoldLeft(step, [m EXCEPT !.mapped = 0], [k \in 1..size |-> k]), finish)

\* __free_pagetable: every mapping, then the tables.
FreePagetable(m, u) ==
    Do(FoldLeft(LAMBDA acc, i : Do(acc, LAMBDA x : Unmap(x, u, i.start, i.size, ~i.shared)),
                m, m.mmap_infos[u]),
       LAMBDA x : FreePagetablePages([x EXCEPT !.mmap_infos[u] = <<>>], u))

\* __init_pagetable: root, trapframe and stack are allocated first and returned if
\* there are not three pages.
InitPagetable(m, u) ==
    LET root == AllocPage(m.free)
        free1 == AfterAlloc(m.free)
        trapframe == AllocPage(free1)
        free2 == AfterAlloc(free1)
        stack == AllocPage(free2)
        start == [m EXCEPT !.free = AfterAlloc(free2), !.tables[u] = <<3, 0>> :> root]
        m0 == Zeroed(Zeroed(start, trapframe), stack)
        m1 == MmapPage(m0, u, TRAMPOLINE, TrampolinePage, TRUE, FALSE)
        m2 == Then(m1, LAMBDA x : MmapPage(x, u, TRAPFRAME, trapframe, FALSE, FALSE))
        m3 == Then(m2, LAMBDA x : MmapPage(x, u, USER_STACK_TOP, stack, FALSE, TRUE))
    IN IF Len(m.free) < 3
       THEN [m EXCEPT !.ok = FALSE,
                      !.free = FreePage(FreePage(FreePage(AfterAlloc(free2), root), trapframe), stack)]
       ELSE Do(m3, LAMBDA x : IF x.ok THEN x ELSE [FreePagetable(x, u) EXCEPT !.ok = FALSE])

-----------------------------------------------------------------------------
RoundDown(at) == at \div PageUnits
RoundUp(at) == (at + PageUnits - 1) \div PageUnits
Zeros(start, end) == [at \in start..(end - 1) |-> 0]
FileBytes(h) == [at \in h.vaddr..(h.vaddr + h.filesz - 1) |-> h.offset + at - h.vaddr]

\* Fault: zeros up to the size in memory only, not up to the end of the page.
LoadSegmentNoBss(m, u, file_size, h) ==
    LET first == RoundDown(h.vaddr)
        last == RoundUp(h.vaddr + h.memsz)
        end_file == h.vaddr + h.filesz
    IN IF h.offset + h.filesz > file_size \/ last >= USER_STACK_TOP \/ first < USER_TEXT_START
       THEN [m EXCEPT !.ok = FALSE]
       ELSE FoldLeft(LAMBDA acc, values : Then(acc, LAMBDA x : Store(x, u, values)),
                     MmapNew(m, u, first, last - first),
                     <<FileBytes(h), Zeros(first * PageUnits, h.vaddr),
                       Zeros(end_file, h.vaddr + h.memsz)>>)

\* __load_elf, one PT_LOAD header: bounds, mapping, the bytes of the file, zeros
\* before and after them.
LoadSegment(m, u, file_size, h) ==
    LET first == RoundDown(h.vaddr)
        last == RoundUp(h.vaddr + h.memsz)
        end_file == h.vaddr + h.filesz
    IN IF \/ h.offset + h.filesz > file_size
          \/ last >= USER_STACK_TOP
          \/ first < USER_TEXT_START
       THEN [m EXCEPT !.ok = FALSE]
       ELSE FoldLeft(LAMBDA acc, values : Then(acc, LAMBDA x : Store(x, u, values)),
                     MmapNew(m, u, first, last - first),
                     <<FileBytes(h), Zeros(first * PageUnits, h.vaddr),
                       Zeros(end_file, last * PageUnits)>>)

LoadElf(m, u, f) ==
    FoldLeft(LAMBDA acc, h : Then(acc, LAMBDA x : LoadSegment(x, u, f.size, h)),
             [m EXCEPT !.ok = f.valid], f.headers)

\* test_load_elf: the program, then its arguments at the bottom of the stack.
TestLoadElf(m, u, f) ==
    LET bottom == (USER_STACK_TOP + 1) * PageUnits
    IN Then(LoadElf(m, u, f), LAMBDA x : Store(x, u, [at \in {bottom - 1} |-> 1]))

\* What the program expects at an address of its segments.
Image(f, at) ==
    LET inFile == {i \in DOMAIN f.headers :
                     f.headers[i].vaddr <= at /\ at < f.headers[i].vaddr + f.headers[i].filesz}
    IN IF inFile = {} THEN 0
       ELSE LET h == f.headers[CHOOSE i \in inFile : TRUE] IN h.offset + at - h.vaddr

\* The virtual pages of a segment, and the addresses in the pages of a file's segments.
SegmentPages(h) == RoundDown(h.vaddr)..(RoundUp(h.vaddr + h.memsz) - 1)
Addresses(f) ==
    {at \in 0..(USER_STACK_TOP * PageUnits - 1) :
        \E i \in DOMAIN f.headers : RoundDown(at) \in SegmentPages(f.headers[i])}
====
