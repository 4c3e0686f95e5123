---- MODULE PageAllocator ----
(***************************************************************************)
(* kernel_allocator (mm/allocator.h): the pages of the kernel's memory are *)
(* on one list, from which every other part of the kernel takes them and   *)
(* to which it returns them.  free_page pushes and alloc_page pops, each   *)
(* under the allocator's spinlock, so each is one step here.               *)
(***************************************************************************)
EXTENDS Naturals, Sequences

CONSTANTS Pages,       \* the pages between start and end
          NULL,        \* nullptr
          FreeLists    \* what may be left of the list when the kernel has booted

Injective(s) == \A i, j \in DOMAIN s : s[i] = s[j] => i = j
Elements(s) == {s[i] : i \in DOMAIN s}

ASSUME NullAssumption == NULL \notin Pages
ASSUME FreeListsAssumption == \A l \in FreeLists : l \in Seq(Pages) /\ Injective(l)

VARIABLES free_page_list,   \* the pages from free_page_list on
          taken             \* pages held by clients other than the heap

pageVars == <<free_page_list, taken>>

PageInit ==
    /\ free_page_list \in FreeLists
    /\ taken = Pages \ Elements(free_page_list)

\* alloc_page: the page it returns and what it leaves of list l.
AllocPage(l) == IF l = <<>> THEN NULL ELSE Head(l)
AfterAlloc(l) == IF l = <<>> THEN l ELSE Tail(l)

\* Fault: the page is put on the list twice.
FreePageTwice(l, p) == IF p = NULL THEN l ELSE <<p, p>> \o l

\* free_page: list l with page p in front; a null pointer is ignored.
FreePage(l, p) == IF p = NULL THEN l ELSE <<p>> \o l
====
