---- MODULE Spinlock ----
(***************************************************************************)
(* The kernel's spinlock (atomic/spinlock.cc) at the granularity of the    *)
(* memory accesses that other harts can observe, together with the local   *)
(* interrupt flag it saves and restores and with trap handlers that take   *)
(* locks themselves.                                                       *)
(*                                                                         *)
(* A hart runs one of two contexts: its thread, or the trap handler that   *)
(* interrupted it.  Clients nest locks in increasing order and release     *)
(* them last in first out, as the lock_guard objects and the lock/unlock   *)
(* pairs of the kernel do.                                                 *)
(***************************************************************************)
EXTENDS Integers

CONSTANTS Harts,    \* cpu::current_id() values
          Locks     \* lock identities, numbered in nesting order

ASSUME HartsAssumption == Harts \subseteq Nat
ASSUME LocksAssumption == Locks \subseteq Nat

VARIABLES locked,      \* spinlock::_locked
          core_id,     \* spinlock::core_id, NoCore when nobody's
          old_status,  \* spinlock::old_status, the saved SIE bit
          irq,         \* sstatus.SIE of each hart
          base,        \* SIE as the thread of the hart itself last set it
          trapped,     \* is the hart in its trap handler?
          pc,          \* where each context is in lock() or unlock()
          target,      \* the lock it is working on (this)
          old,         \* its local variable old
          held         \* the locks it has set _locked of

vars == <<locked, core_id, old_status, irq, base, trapped, pc, target, old, held>>

lockVars == <<locked, core_id, old_status>>
hartVars == <<irq, base, trapped>>

NoCore == -1
NoLock == -1

Contexts == Harts \X {"thread", "trap"}

Thread(c) == <<c, "thread">>
Trap(c)   == <<c, "trap">>
Hart(x)   == x[1]

\* The context the hart is executing.
Running(x) == x = IF trapped[Hart(x)] THEN Trap(Hart(x)) ELSE Thread(Hart(x))

\* The context is in neither lock() nor unlock() and holds nothing.
Outside(x) == pc[x] = "idle" /\ held[x] = {}

PCs == {"idle", "holding", "holding_core", "tas", "set_core", "set_old",
        "u_holding", "u_core", "u_old", "u_release", "u_restore", "panic"}

Init ==
    /\ locked = [l \in Locks |-> FALSE]
    /\ core_id = [l \in Locks |-> NoCore]
    /\ old_status = [l \in Locks |-> FALSE]
    /\ irq = [c \in Harts |-> FALSE]
    /\ base = [c \in Harts |-> FALSE]
    /\ trapped = [c \in Harts |-> FALSE]
    /\ pc = [x \in Contexts |-> "idle"]
    /\ target = [x \in Contexts |-> NoLock]
    /\ old = [x \in Contexts |-> FALSE]
    /\ held = [x \in Contexts |-> {}]

-----------------------------------------------------------------------------
(* The interrupt flag and the trap hardware *)

\* cpu::local_irq_enable / local_irq_disable by a thread that holds no lock.
SetIrq(c, on) ==
    /\ ~trapped[c]
    /\ Outside(Thread(c))
    /\ irq' = [irq EXCEPT ![c] = on]
    /\ base' = [base EXCEPT ![c] = on]
    /\ UNCHANGED <<lockVars, trapped, pc, target, old, held>>

\* A trap is taken only with SIE set; the hart clears SIE on entry.
Interrupt(c) ==
    /\ irq[c]
    /\ ~trapped[c]
    /\ irq' = [irq EXCEPT ![c] = FALSE]
    /\ trapped' = [trapped EXCEPT ![c] = TRUE]
    /\ UNCHANGED <<lockVars, base, pc, target, old, held>>

\* sret: the handler holds no lock any more, SIE is set again.
TrapReturn(c) ==
    /\ trapped[c]
    /\ Outside(Trap(c))
    /\ irq' = [irq EXCEPT ![c] = TRUE]
    /\ trapped' = [trapped EXCEPT ![c] = FALSE]
    /\ UNCHANGED <<lockVars, base, pc, target, old, held>>

-----------------------------------------------------------------------------
(* spinlock::lock *)

Goto(x, from, to) ==
    /\ Running(x)
    /\ pc[x] = from
    /\ pc' = [pc EXCEPT ![x] = to]

\* int old = cpu::local_irq_save()
IrqSave(x, l) ==
    /\ Goto(x, "idle", "holding")
    /\ \A h \in held[x] : h < l
    /\ target' = [target EXCEPT ![x] = l]
    /\ old' = [old EXCEPT ![x] = irq[Hart(x)]]
    /\ irq' = [irq EXCEPT ![Hart(x)] = FALSE]
    /\ UNCHANGED <<lockVars, base, trapped, held>>

\* __holding(): _locked is read first, core_id afterwards and only if needed.
HoldingLocked(x) ==
    /\ Goto(x, "holding", IF locked[target[x]] THEN "holding_core" ELSE "tas")
    /\ UNCHANGED <<lockVars, hartVars, target, old, held>>

HoldingCore(x) ==
    /\ Goto(x, "holding_core", IF core_id[target[x]] = Hart(x) THEN "panic" ELSE "tas")
    /\ UNCHANGED <<lockVars, hartVars, target, old, held>>

\* Fault: _locked is set without looking at its old value.
SetWithoutTest(x) ==
    /\ Goto(x, "tas", "set_core")
    /\ locked' = [locked EXCEPT ![target[x]] = TRUE]
    /\ held' = [held EXCEPT ![x] = @ \cup {target[x]}]
    /\ UNCHANGED <<core_id, old_status, hartVars, target, old>>

\* The test-and-set that finds the lock free; one that finds it taken rewrites
\* the same value and spins, which is a stuttering step.
TestAndSet(x) ==
    /\ Goto(x, "tas", "set_core")
    /\ ~locked[target[x]]
    /\ locked' = [locked EXCEPT ![target[x]] = TRUE]
    /\ held' = [held EXCEPT ![x] = @ \cup {target[x]}]
    /\ UNCHANGED <<core_id, old_status, hartVars, target, old>>

SetCore(x) ==
    /\ Goto(x, "set_core", "set_old")
    /\ core_id' = [core_id EXCEPT ![target[x]] = Hart(x)]
    /\ UNCHANGED <<locked, old_status, hartVars, target, old, held>>

\* Fault: SIE is read again after it was cleared, instead of the local old.
SetOldLate(x) ==
    /\ Goto(x, "set_old", "idle")
    /\ old_status' = [old_status EXCEPT ![target[x]] = irq[Hart(x)]]
    /\ old' = [old EXCEPT ![x] = FALSE]
    /\ target' = [target EXCEPT ![x] = NoLock]
    /\ UNCHANGED <<locked, core_id, hartVars, held>>

SetOld(x) ==
    /\ Goto(x, "set_old", "idle")
    /\ old_status' = [old_status EXCEPT ![target[x]] = old[x]]
    /\ old' = [old EXCEPT ![x] = FALSE]
    /\ target' = [target EXCEPT ![x] = NoLock]
    /\ UNCHANGED <<locked, core_id, hartVars, held>>

-----------------------------------------------------------------------------
(* spinlock::unlock of the innermost lock *)

StartUnlock(x, l) ==
    /\ Goto(x, "idle", "u_holding")
    /\ l \in held[x]
    /\ \A h \in held[x] : h <= l
    /\ target' = [target EXCEPT ![x] = l]
    /\ UNCHANGED <<lockVars, hartVars, old, held>>

CheckHolding(x) ==
    /\ Goto(x, "u_holding",
            IF locked[target[x]] /\ core_id[target[x]] = Hart(x) THEN "u_core" ELSE "panic")
    /\ UNCHANGED <<lockVars, hartVars, target, old, held>>

\* Fault: core_id keeps naming the last holder.
KeepCore(x) ==
    /\ Goto(x, "u_core", "u_old")
    /\ UNCHANGED <<lockVars, hartVars, target, old, held>>

ClearCore(x) ==
    /\ Goto(x, "u_core", "u_old")
    /\ core_id' = [core_id EXCEPT ![target[x]] = NoCore]
    /\ UNCHANGED <<locked, old_status, hartVars, target, old, held>>

ClearOld(x) ==
    /\ Goto(x, "u_old", "u_release")
    /\ old' = [old EXCEPT ![x] = old_status[target[x]]]
    /\ old_status' = [old_status EXCEPT ![target[x]] = FALSE]
    /\ UNCHANGED <<locked, core_id, hartVars, target, held>>

ReleaseLock(x) ==
    /\ Goto(x, "u_release", "u_restore")
    /\ locked' = [locked EXCEPT ![target[x]] = FALSE]
    /\ held' = [held EXCEPT ![x] = @ \ {target[x]}]
    /\ UNCHANGED <<core_id, old_status, hartVars, target, old>>

\* cpu::local_irq_restore(old): sets SIE or leaves it alone, never clears it.
IrqRestore(x) ==
    /\ Goto(x, "u_restore", "idle")
    /\ irq' = [irq EXCEPT ![Hart(x)] = @ \/ old[x]]
    /\ old' = [old EXCEPT ![x] = FALSE]
    /\ target' = [target EXCEPT ![x] = NoLock]
    /\ UNCHANGED <<lockVars, base, trapped, held>>

-----------------------------------------------------------------------------
HartStep(c) ==
    \/ \E on \in BOOLEAN : SetIrq(c, on)
    \/ Interrupt(c)
    \/ TrapReturn(c)

LockStep(x) ==
    \/ \E l \in Locks : IrqSave(x, l)
    \/ HoldingLocked(x)
    \/ HoldingCore(x)
    \/ TestAndSet(x)
    \/ SetCore(x)
    \/ SetOld(x)

UnlockStep(x) ==
    \/ \E l \in Locks : StartUnlock(x, l)
    \/ CheckHolding(x)
    \/ ClearCore(x)
    \/ ClearOld(x)
    \/ ReleaseLock(x)
    \/ IrqRestore(x)

Next ==
    \/ \E c \in Harts : HartStep(c)
    \/ \E x \in Contexts : LockStep(x) \/ UnlockStep(x)

Spec == Init /\ [][Next]_vars

-----------------------------------------------------------------------------
(* Properties *)

\* The variables keep the types of the C++ fields and locals they stand for.
TypeOK ==
    /\ locked \in [Locks -> BOOLEAN]
    /\ core_id \in [Locks -> Harts \cup {NoCore}]
    /\ old_status \in [Locks -> BOOLEAN]
    /\ irq \in [Harts -> BOOLEAN]
    /\ base \in [Harts -> BOOLEAN]
    /\ trapped \in [Harts -> BOOLEAN]
    /\ pc \in [Contexts -> PCs]
    /\ target \in [Contexts -> Locks \cup {NoLock}]
    /\ old \in [Contexts -> BOOLEAN]
    /\ held \in [Contexts -> SUBSET Locks]

\* No two contexts, of different harts or a thread and the handler that
\* interrupted it, are between the test-and-set and the release of one lock.
MutualExclusion ==
    \A x, y \in Contexts : x /= y => held[x] \cap held[y] = {}

\* Neither "This cpu is acquiring a acquired lock" nor "Try to release a lock
\* when not holding it" is ever raised although __holding() reads _locked and
\* core_id without the lock while other harts are writing them.
NoPanic == \A x \in Contexts : pc[x] /= "panic"

\* A hart that holds a spinlock, or waits for one, takes no interrupt, so no
\* handler spins on a lock of the code it interrupted.
IrqOffWhileLocking ==
    \A x \in Contexts : ~Outside(x) => ~irq[Hart(x)] /\ Running(x)

\* Back outside every critical section the interrupt flag is what the thread
\* had set before: old_status belongs to the lock, and nested or competing
\* acquisitions never leak theirs into it.
IrqRestored ==
    \A c \in Harts : ~trapped[c] /\ Outside(Thread(c)) => irq[c] = base[c]

\* The spinlock as an abstract lock owned by contexts.
NoHolder == <<NoCore, "none">>

Owner == [l \in Locks |-> IF \E x \in Contexts : l \in held[x]
                            THEN CHOOSE x \in Contexts : l \in held[x]
                            ELSE NoHolder]

Abstract == INSTANCE AbstractLock WITH Actors <- Contexts, NoOwner <- NoHolder, owner <- Owner

\* Every step of lock() and unlock() acquires a free lock, releases one its
\* context owns, or changes no ownership.
ImplementsAbstractLock == Abstract!Spec

====
