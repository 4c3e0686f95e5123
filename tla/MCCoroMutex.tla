---- MODULE MCCoroMutex ----
(* Instances of CoroMutex for TLC. *)
EXTENDS CoroMutex, TLC

CONSTANTS c1, c2, c3, c4, h1, h2

MCCoros == {c1, c2, c3, c4}
MCThree == {c1, c2, c3}
MCHarts == {h1, h2}
MCSpinner == {c4}
MCLast == {c3}
MCSymmetry == Permutations(MCThree) \cup Permutations(MCHarts)
====
