---- MODULE MCSpinlock ----
(* Instances of Spinlock for TLC; harts are numbered from 0 as on the board. *)
EXTENDS Spinlock

MCHarts == 0 .. 1
MCLocks == 1 .. 2
====
