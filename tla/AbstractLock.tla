---- MODULE AbstractLock ----
(***************************************************************************)
(* What every lock of the kernel promises its clients: a lock has at most  *)
(* one owner, an owner gives it up before anybody else gets it, and nobody *)
(* releases a lock it does not own.  Spinlock.tla (owners are the contexts of harts) and   *)
(* CoroMutex.tla (owners are coroutines) are shown to implement it.        *)
(***************************************************************************)
CONSTANTS Actors,   \* who may own a lock
          Locks,    \* the locks
          NoOwner   \* owner of a free lock

VARIABLE owner      \* owner[l]: who owns lock l

Init == owner = [l \in Locks |-> NoOwner]

Acquire(a, l) ==
    /\ owner[l] = NoOwner
    /\ owner' = [owner EXCEPT ![l] = a]

Release(a, l) ==
    /\ owner[l] = a
    /\ owner' = [owner EXCEPT ![l] = NoOwner]

Next == \E a \in Actors, l \in Locks : Acquire(a, l) \/ Release(a, l)

Spec == Init /\ [][Next]_owner
====
