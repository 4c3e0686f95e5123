---- MODULE Vmem ----
(***************************************************************************)
(* Page tables (mm/vmem.cc).  An address space is the set of its page-table *)
(* pages and the set of its leaf entries:                                  *)
(*   tables[sp]  the page of each table: <<3, 0>> is the root, <<2, i>> and *)
(*               <<1, i>> the i-th table of the two levels below it;       *)
(*   leaf[sp]    the page and the PTE_U bit of each virtual page.          *)
(* Pages are numbered, and so are virtual pages.  An operator takes the    *)
(* memory m it starts from and gives the memory it leaves; m.ok is its     *)
(* return value, and m.panic the panic that it ran into.                   *)
(***************************************************************************)
EXTENDS PageAllocator, Integers, TLC
LOCAL INSTANCE SequencesExt

CONSTANTS Fan,        \* entries of a table (512)
          PageUnits   \* parts of a page that are told apart

Junk == -1            \* what alloc_page leaves in a page

NoEntries == [x \in {} |-> x]

\* f without x.
Dropped(f, x) == [y \in (DOMAIN f) \ {x} |-> f[y]]

Panic(m, why) == [m EXCEPT !.panic = IF @ = "" THEN why ELSE @, !.ok = FALSE]

\* What F makes of memory m; the same, if m is not what a failed call or a panic left.
Do(m, F(_)) == CHOOSE r \in {F(x) : x \in {m}} : TRUE
Then(m, F(_)) == Do(m, LAMBDA x : IF x.ok THEN F(x) ELSE x)

\* One level of walk with alloc set: the next table, made if it is missing.
WalkLevel(m, sp, table) ==
    IF table \in DOMAIN m.tables[sp] THEN m
    ELSE IF m.free = <<>> THEN [m EXCEPT !.ok = FALSE, !.map_failed = TRUE]
    ELSE [m EXCEPT !.tables[sp] = @ @@ (table :> AllocPage(m.free)),
                   !.free = AfterAlloc(@)]

\* walk: tables made before it runs out of pages stay.
Walk(m, sp, va) ==
    Then(WalkLevel(m, sp, <<2, va \div (Fan * Fan)>>),
         LAMBDA x : WalkLevel(x, sp, <<1, va \div Fan>>))

\* mappages for one page: every caller after boot maps a page at a time.
MapPage(m, sp, va, pa, user) ==
    Then(Walk(m, sp, va), LAMBDA w :
        IF va \in DOMAIN w.leaf[sp] THEN Panic(w, "remap")
        ELSE [w EXCEPT !.leaf[sp] = @ @@ (va :> [pa |-> pa, user |-> user])])

\* Fault: the entry is not cleared.
UnmapPageKeep(m, sp, va, do_free) ==
    IF va \notin DOMAIN m.leaf[sp] THEN Panic(m, "uvmunmap")
    ELSE [m EXCEPT !.free = IF do_free THEN FreePage(@, m.leaf[sp][va].pa) ELSE @]

\* Fault: the page is freed twice.
UnmapPageTwice(m, sp, va, do_free) ==
    IF va \notin DOMAIN m.leaf[sp] THEN Panic(m, "uvmunmap")
    ELSE [m EXCEPT !.free = IF do_free THEN FreePage(FreePage(@, m.leaf[sp][va].pa), m.leaf[sp][va].pa)
                                       ELSE @,
                   !.leaf[sp] = Dropped(@, va)]

\* uvmunmap of n pages from va; the mappings must exist.
UnmapPage(m, sp, va, do_free) ==
    IF va \notin DOMAIN m.leaf[sp] THEN Panic(m, "uvmunmap")
    ELSE [m EXCEPT !.free = IF do_free THEN FreePage(@, m.leaf[sp][va].pa) ELSE @,
                   !.leaf[sp] = Dropped(@, va)]

Unmap(m, sp, va, n, do_free) ==
    FoldLeft(LAMBDA acc, k : Do(acc, LAMBDA x : UnmapPage(x, sp, va + k - 1, do_free)),
             m, [k \in 1..n |-> k])

\* The tables of an address space, children before their parent.
PostOrder ==
    [k \in 1..(Fan * (Fan + 1) + 1) |->
        LET i == (k - 1) \div (Fan + 1)
            r == (k - 1) % (Fan + 1)
        IN IF i = Fan THEN <<3, 0>> ELSE IF r = Fan THEN <<2, i>> ELSE <<1, i * Fan + r>>]

\* free_pagetable_pages, in that order; nothing to do without a root, and no leaf may
\* be left.
FreePagetablePages(m, sp) ==
    IF <<3, 0>> \notin DOMAIN m.tables[sp] THEN m
    ELSE IF DOMAIN m.leaf[sp] /= {} THEN Panic(m, "free_pagetable_pages")
    ELSE [m EXCEPT !.free = FoldLeft(LAMBDA l, t : FreePage(l, m.tables[sp][t]), @,
                                     SelectSeq(PostOrder, LAMBDA t : t \in DOMAIN m.tables[sp])),
                   !.tables[sp] = NoEntries]

\* walkaddr: is the page that holds address at mapped for the user?
WalkAddr(m, sp, at) ==
    LET va == at \div PageUnits IN va \in DOMAIN m.leaf[sp] /\ m.leaf[sp][va].user

\* copyout and memset_user: the values at their addresses, up to the first page that
\* is not mapped for the user.
Store(m, sp, values) ==
    LET reached == {at \in DOMAIN values :
                      \A b \in DOMAIN values : b <= at => WalkAddr(m, sp, b)}
        target(at) == <<m.leaf[sp][at \div PageUnits].pa, at % PageUnits>>
    IN [m EXCEPT !.ok = reached = DOMAIN values,
                 !.content = [p \in Pages |-> [o \in 0..(PageUnits - 1) |->
                     IF \E at \in reached : target(at) = <<p, o>>
                     THEN values[CHOOSE at \in reached : target(at) = <<p, o>>]
                     ELSE @[p][o]]]]
====
