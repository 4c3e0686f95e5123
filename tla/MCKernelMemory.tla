---- MODULE MCKernelMemory ----
(* An instance of KernelMemory for TLC. *)
EXTENDS KernelMemory

CONSTANTS a1, a2, u1, u2, NPages, FreeCounts

MCPages == 1..NPages
MCFreeLists == {[i \in 1..n |-> i] : n \in FreeCounts}
MCActors == {a1, a2}
MCProcs == {u1, u2}
MCClasses == <<8, 16>>
MCCapacity == (8 :> 2) @@ (16 :> 1)
MCSizes == {8, 9, 4081}

MCSymmetry == Permutations(MCActors) \cup Permutations(MCProcs)

\* Two segments that start and end inside pages, the first with zeros in two pages of
\* its own; a segment and one that reaches beyond the end of the file; a segment
\* elsewhere and one that reaches the stack; two segments in one page.
MCPrograms ==
    {[valid |-> TRUE, size |-> 4,
      headers |-> <<[vaddr |-> 3, filesz |-> 2, memsz |-> 4, offset |-> 1],
                    [vaddr |-> 10, filesz |-> 1, memsz |-> 1, offset |-> 3]>>],
     [valid |-> TRUE, size |-> 4,
      headers |-> <<[vaddr |-> 3, filesz |-> 1, memsz |-> 1, offset |-> 1],
                    [vaddr |-> 10, filesz |-> 2, memsz |-> 2, offset |-> 3]>>],
     [valid |-> TRUE, size |-> 4,
      headers |-> <<[vaddr |-> 14, filesz |-> 1, memsz |-> 1, offset |-> 0],
                    [vaddr |-> 32, filesz |-> 1, memsz |-> 2, offset |-> 1]>>],
     [valid |-> TRUE, size |-> 4,
      headers |-> <<[vaddr |-> 12, filesz |-> 1, memsz |-> 1, offset |-> 0],
                    [vaddr |-> 13, filesz |-> 1, memsz |-> 1, offset |-> 1]>>]}
====
