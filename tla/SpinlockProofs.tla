---- MODULE SpinlockProofs ----
(***************************************************************************)
(* Proofs about Spinlock.tla for any set of harts and any set of locks.    *)
(***************************************************************************)
EXTENDS Spinlock, TLAPS

\* Where a context is.
Acquiring == {"holding", "holding_core", "tas"}
Acquired  == {"set_core", "set_old"}
Releasing == {"u_holding", "u_core", "u_old", "u_release"}

\* The interrupt flag of the code around every critical section of x.
Outer(x) == x = Thread(Hart(x)) /\ base[Hart(x)]

\* Interrupts find a thread outside lock() and unlock() only, and a handler
\* returns from there only.
IrqAt(x) ==
    /\ ~Outside(x) => Running(x) /\ ~irq[Hart(x)]
    /\ Running(x) /\ Outside(x) => (irq[Hart(x)] <=> Outer(x))
    /\ trapped[Hart(x)] => base[Hart(x)]

InvIrq == \A x \in Contexts : IrqAt(x)

\* The lock a context works on against the locks it holds.
TargetAt(x) ==
    /\ pc[x] /= "panic"
    /\ pc[x] /= "idle" => target[x] \in Locks
    /\ pc[x] \in Acquiring \cup {"u_restore"} => \A h \in held[x] : h < target[x]
    /\ pc[x] \in Acquired \cup Releasing =>
           target[x] \in held[x] /\ \A h \in held[x] : h <= target[x]

InvTarget == \A x \in Contexts : TargetAt(x)

\* A held lock is locked, and held by one context.
InvHeld ==
    /\ \A x \in Contexts : \A l \in held[x] : locked[l]
    /\ MutualExclusion

\* core_id names the hart of the holder, except between the test-and-set and
\* the store and between the clearing store and the release.
Unnamed(x, l) == target[x] = l /\ pc[x] \in {"set_core", "u_old", "u_release"}

InvCore ==
    /\ \A l \in Locks : core_id[l] /= NoCore =>
           \E x \in Contexts : Hart(x) = core_id[l] /\ l \in held[x] /\ ~Unnamed(x, l)
    /\ \A x \in Contexts : \A l \in held[x] : core_id[l] = Hart(x) \/ Unnamed(x, l)

\* The outermost lock of a context carries the flag of the surrounding code,
\* the nested ones carry FALSE; so does the local copy while it is in flight.
InFlight(x, l) == target[x] = l /\ pc[x] \in Acquired \cup {"u_release"}

OldAt(x) ==
    /\ pc[x] \in Acquiring \cup Acquired \cup {"u_release", "u_restore"} =>
           (old[x] <=> Outer(x) /\ held[x] \ {target[x]} = {})
    /\ \A l \in held[x] :
           InFlight(x, l) \/ (old_status[l] <=> Outer(x) /\ \A h \in held[x] : l <= h)

InvOld == \A x \in Contexts : OldAt(x)

IInv == TypeOK /\ InvIrq /\ InvTarget /\ InvHeld /\ InvCore /\ InvOld

\* The initial state satisfies the inductive invariant.
LEMMA InitInv == Init => IInv
<1> SUFFICES ASSUME Init PROVE IInv
  OBVIOUS
<1> USE HartsAssumption, LocksAssumption DEF Init, NoCore, NoLock
<1>1. TypeOK
  BY DEF TypeOK, PCs
<1>2. InvIrq
  BY DEF InvIrq, IrqAt, Outside, Running, Outer, Contexts, Thread, Trap, Hart
<1>3. InvTarget /\ InvHeld /\ InvCore /\ InvOld
  BY DEF InvTarget, InvHeld, InvCore, InvOld, TargetAt, OldAt, MutualExclusion, Acquiring, Acquired, Releasing
<1> QED
  BY <1>1, <1>2, <1>3 DEF IInv

\* A context belongs to a hart and is its thread or its handler.
LEMMA ContextHart ==
    ASSUME NEW x \in Contexts
    PROVE  Hart(x) \in Harts /\ (x = Thread(Hart(x)) \/ x = Trap(Hart(x)))
BY DEF Contexts, Hart, Thread, Trap

LEMMA HartContexts ==
    ASSUME NEW c \in Harts
    PROVE  /\ Thread(c) \in Contexts /\ Trap(c) \in Contexts /\ Thread(c) /= Trap(c)
           /\ Hart(Thread(c)) = c /\ Hart(Trap(c)) = c
BY DEF Contexts, Hart, Thread, Trap

\* Every step preserves the inductive invariant.
LEMMA NextInv == IInv /\ [Next]_vars => IInv'
<1> SUFFICES ASSUME IInv, [Next]_vars PROVE IInv'
  OBVIOUS
<1> USE HartsAssumption, LocksAssumption, ContextHart, HartContexts
<1> USE DEF IInv, NoCore, NoLock, lockVars, hartVars
<1>0. \A x \in Contexts : /\ \A h \in held[x] : h \in Nat
                          /\ pc[x] /= "idle" => target[x] \in Nat
  BY Zenon DEF TypeOK, InvTarget, TargetAt
<1>1. CASE UNCHANGED vars
  BY <1>1 DEF vars, TypeOK, InvIrq, InvTarget, InvHeld, InvCore, InvOld, Outer, Outside, Running,
              Unnamed, InFlight, MutualExclusion, IrqAt, TargetAt, OldAt
<1>2. ASSUME NEW c \in Harts, HartStep(c) PROVE IInv'
  <2>1. ASSUME NEW on \in BOOLEAN, SetIrq(c, on) PROVE IInv'
    <3>1. TypeOK'
      BY <2>1 DEF SetIrq, TypeOK, PCs, InvTarget, TargetAt
    <3>2. ASSUME NEW y \in Contexts PROVE IrqAt(y)'
      BY <3>1, <2>1 DEF SetIrq, TypeOK, InvIrq, InvTarget, InvOld, IrqAt, TargetAt, OldAt, Outer,
             Outside, Running, Acquiring, Acquired, Releasing
    <3>3. ASSUME NEW y \in Contexts PROVE TargetAt(y)'
      BY <3>1, <2>1 DEF SetIrq, TypeOK, InvTarget, InvCore, InvHeld, InvIrq, IrqAt, TargetAt,
             Outside, Running, Unnamed, MutualExclusion, Acquiring, Acquired, Releasing
    <3>4. InvHeld'
      BY <3>1, <2>1 DEF SetIrq, TypeOK, InvHeld, InvTarget, TargetAt, MutualExclusion, Acquiring,
             Acquired, Releasing
    <3>5. InvCore'
      BY <3>1, <2>1 DEF SetIrq, TypeOK, InvCore, InvTarget, InvHeld, InvIrq, TargetAt, IrqAt,
             Running, Outside, MutualExclusion, Unnamed, Acquiring, Acquired, Releasing
    <3>6. ASSUME NEW y \in Contexts PROVE OldAt(y)'
      BY <3>1, <2>1 DEF SetIrq, TypeOK, InvOld, InvIrq, InvTarget, InvHeld, TargetAt, IrqAt, OldAt,
             MutualExclusion, Outer, Outside, Running, InFlight, Acquiring, Acquired, Releasing
    <3> QED
      BY <3>1, <3>2, <3>3, <3>4, <3>5, <3>6 DEF InvIrq, InvTarget, InvOld
  <2>2. CASE Interrupt(c)
    <3>1. TypeOK'
      BY <2>2 DEF Interrupt, TypeOK, PCs, InvTarget, TargetAt
    <3>2. ASSUME NEW y \in Contexts PROVE IrqAt(y)'
      BY <3>1, <2>2 DEF Interrupt, TypeOK, InvIrq, InvTarget, InvOld, IrqAt, TargetAt, OldAt,
             Outer, Outside, Running, Acquiring, Acquired, Releasing
    <3>3. ASSUME NEW y \in Contexts PROVE TargetAt(y)'
      BY <3>1, <2>2 DEF Interrupt, TypeOK, InvTarget, InvCore, InvHeld, InvIrq, IrqAt, TargetAt,
             Outside, Running, Unnamed, MutualExclusion, Acquiring, Acquired, Releasing
    <3>4. InvHeld'
      BY <3>1, <2>2 DEF Interrupt, TypeOK, InvHeld, InvTarget, TargetAt, MutualExclusion,
             Acquiring, Acquired, Releasing
    <3>5. InvCore'
      BY <3>1, <2>2 DEF Interrupt, TypeOK, InvCore, InvTarget, InvHeld, InvIrq, TargetAt, IrqAt,
             Running, Outside, MutualExclusion, Unnamed, Acquiring, Acquired, Releasing
    <3>6. ASSUME NEW y \in Contexts PROVE OldAt(y)'
      BY <3>1, <2>2 DEF Interrupt, TypeOK, InvOld, InvIrq, InvTarget, InvHeld, TargetAt, IrqAt,
             OldAt, MutualExclusion, Outer, Outside, Running, InFlight, Acquiring, Acquired,
             Releasing
    <3> QED
      BY <3>1, <3>2, <3>3, <3>4, <3>5, <3>6 DEF InvIrq, InvTarget, InvOld
  <2>3. CASE TrapReturn(c)
    <3>1. TypeOK'
      BY <2>3 DEF TrapReturn, TypeOK, PCs, InvTarget, TargetAt
    <3>2. ASSUME NEW y \in Contexts PROVE IrqAt(y)'
      BY <3>1, <2>3 DEF TrapReturn, TypeOK, InvIrq, InvTarget, InvOld, IrqAt, TargetAt, OldAt,
             Outer, Outside, Running, Acquiring, Acquired, Releasing
    <3>3. ASSUME NEW y \in Contexts PROVE TargetAt(y)'
      BY <3>1, <2>3 DEF TrapReturn, TypeOK, InvTarget, InvCore, InvHeld, InvIrq, IrqAt, TargetAt,
             Outside, Running, Unnamed, MutualExclusion, Acquiring, Acquired, Releasing
    <3>4. InvHeld'
      BY <3>1, <2>3 DEF TrapReturn, TypeOK, InvHeld, InvTarget, TargetAt, MutualExclusion,
             Acquiring, Acquired, Releasing
    <3>5. InvCore'
      BY <3>1, <2>3 DEF TrapReturn, TypeOK, InvCore, InvTarget, InvHeld, InvIrq, TargetAt, IrqAt,
             Running, Outside, MutualExclusion, Unnamed, Acquiring, Acquired, Releasing
    <3>6. ASSUME NEW y \in Contexts PROVE OldAt(y)'
      BY <3>1, <2>3 DEF TrapReturn, TypeOK, InvOld, InvIrq, InvTarget, InvHeld, TargetAt, IrqAt,
             OldAt, MutualExclusion, Outer, Outside, Running, InFlight, Acquiring, Acquired,
             Releasing
    <3> QED
      BY <3>1, <3>2, <3>3, <3>4, <3>5, <3>6 DEF InvIrq, InvTarget, InvOld
  <2> QED
    BY <1>2, <2>1, <2>2, <2>3 DEF HartStep
<1>3. ASSUME NEW x \in Contexts, LockStep(x) PROVE IInv'
  <2>1. ASSUME NEW l \in Locks, IrqSave(x, l) PROVE IInv'
    <3>1. TypeOK'
      BY <2>1, Zenon DEF IrqSave, Goto, TypeOK, PCs, InvTarget, TargetAt
    <3>2. ASSUME NEW y \in Contexts PROVE IrqAt(y)'
      BY <3>1, <2>1 DEF IrqSave, Goto, TypeOK, InvIrq, InvTarget, InvOld, IrqAt, TargetAt, OldAt,
             Outer, Outside, Running, Acquiring, Acquired, Releasing
    <3>3. ASSUME NEW y \in Contexts PROVE TargetAt(y)'
      BY <3>1, <2>1 DEF IrqSave, Goto, TypeOK, InvTarget, InvCore, InvHeld, InvIrq, IrqAt,
             TargetAt, Outside, Running, Unnamed, MutualExclusion, Acquiring, Acquired, Releasing
    <3>4. InvHeld'
      BY <3>1, <2>1 DEF IrqSave, Goto, TypeOK, InvHeld, InvTarget, TargetAt, MutualExclusion,
             Acquiring, Acquired, Releasing
    <3>5. InvCore'
      BY <3>1, <2>1 DEF IrqSave, Goto, TypeOK, InvCore, InvTarget, InvHeld, InvIrq, TargetAt,
             IrqAt, Running, Outside, MutualExclusion, Unnamed, Acquiring, Acquired, Releasing
    <3>6. ASSUME NEW y \in Contexts PROVE OldAt(y)'
      BY <3>1, <2>1 DEF IrqSave, Goto, TypeOK, InvOld, InvIrq, InvTarget, InvHeld, TargetAt, IrqAt,
             OldAt, MutualExclusion, Outer, Outside, Running, InFlight, Acquiring, Acquired,
             Releasing
    <3> QED
      BY <3>1, <3>2, <3>3, <3>4, <3>5, <3>6 DEF InvIrq, InvTarget, InvOld
  <2>2. CASE HoldingLocked(x)
    <3>1. TypeOK'
      BY <2>2 DEF HoldingLocked, Goto, TypeOK, PCs, InvTarget, TargetAt
    <3>2. ASSUME NEW y \in Contexts PROVE IrqAt(y)'
      BY <3>1, <2>2 DEF HoldingLocked, Goto, TypeOK, InvIrq, InvTarget, InvOld, IrqAt, TargetAt,
             OldAt, Outer, Outside, Running, Acquiring, Acquired, Releasing
    <3>3. ASSUME NEW y \in Contexts PROVE TargetAt(y)'
      BY <3>1, <2>2 DEF HoldingLocked, Goto, TypeOK, InvTarget, InvCore, InvHeld, InvIrq, IrqAt,
             TargetAt, Outside, Running, Unnamed, MutualExclusion, Acquiring, Acquired, Releasing
    <3>4. InvHeld'
      BY <3>1, <2>2 DEF HoldingLocked, Goto, TypeOK, InvHeld, InvTarget, TargetAt, MutualExclusion,
             Acquiring, Acquired, Releasing
    <3>5. InvCore'
      BY <3>1, <2>2 DEF HoldingLocked, Goto, TypeOK, InvCore, InvTarget, InvHeld, InvIrq, TargetAt,
             IrqAt, Running, Outside, MutualExclusion, Unnamed, Acquiring, Acquired, Releasing
    <3>6. ASSUME NEW y \in Contexts PROVE OldAt(y)'
      BY <3>1, <2>2 DEF HoldingLocked, Goto, TypeOK, InvOld, InvIrq, InvTarget, InvHeld, TargetAt,
             IrqAt, OldAt, MutualExclusion, Outer, Outside, Running, InFlight, Acquiring, Acquired,
             Releasing
    <3> QED
      BY <3>1, <3>2, <3>3, <3>4, <3>5, <3>6 DEF InvIrq, InvTarget, InvOld
  <2>3. CASE HoldingCore(x)
    <3>1. TypeOK'
      BY <2>3 DEF HoldingCore, Goto, TypeOK, PCs, InvTarget, TargetAt
    <3>2. ASSUME NEW y \in Contexts PROVE IrqAt(y)'
      BY <3>1, <2>3 DEF HoldingCore, Goto, TypeOK, InvIrq, InvTarget, InvOld, IrqAt, TargetAt,
             OldAt, Outer, Outside, Running, Acquiring, Acquired, Releasing
    <3>3. ASSUME NEW y \in Contexts PROVE TargetAt(y)'
      <4>1. target[x] \notin held[x] /\ target[x] \in Locks
        BY <1>0, <2>3 DEF HoldingCore, Goto, TypeOK, InvTarget, TargetAt, Acquiring
      <4>2. core_id[target[x]] /= Hart(x)
        <5> SUFFICES ASSUME core_id[target[x]] = Hart(x) PROVE FALSE
          OBVIOUS
        <5>0. Hart(x) \in Nat
          BY ContextHart, Zenon
        <5>3. core_id[target[x]] /= NoCore
          BY <5>0
        <5>1. PICK z \in Contexts : Hart(z) = Hart(x) /\ target[x] \in held[z]
          BY <5>3, <4>1, Zenon DEF InvCore
        <5>2. Running(z) /\ Running(x)
          BY <5>1, <2>3 DEF HoldingCore, Goto, InvIrq, IrqAt, Outside
        <5> QED
          BY <5>1, <5>2, <4>1 DEF Running
      <4>3. pc' = [pc EXCEPT ![x] = "tas"] /\ pc[x] = "holding_core"
        BY <4>2, <2>3 DEF HoldingCore, Goto
      <4> QED
        BY <4>3, <2>3 DEF HoldingCore, TypeOK, InvTarget, TargetAt, Acquiring, Acquired, Releasing
    <3>4. InvHeld'
      BY <3>1, <2>3 DEF HoldingCore, Goto, TypeOK, InvHeld, InvTarget, TargetAt, MutualExclusion,
             Acquiring, Acquired, Releasing
    <3>5. InvCore'
      BY <3>1, <2>3 DEF HoldingCore, Goto, TypeOK, InvCore, InvTarget, InvHeld, InvIrq, TargetAt,
             IrqAt, Running, Outside, MutualExclusion, Unnamed, Acquiring, Acquired, Releasing
    <3>6. ASSUME NEW y \in Contexts PROVE OldAt(y)'
      BY <3>1, <2>3 DEF HoldingCore, Goto, TypeOK, InvOld, InvIrq, InvTarget, InvHeld, TargetAt,
             IrqAt, OldAt, MutualExclusion, Outer, Outside, Running, InFlight, Acquiring, Acquired,
             Releasing
    <3> QED
      BY <3>1, <3>2, <3>3, <3>4, <3>5, <3>6 DEF InvIrq, InvTarget, InvOld
  <2>4. CASE TestAndSet(x)
    <3>1. TypeOK'
      BY <2>4 DEF TestAndSet, Goto, TypeOK, PCs, InvTarget, TargetAt
    <3>2. ASSUME NEW y \in Contexts PROVE IrqAt(y)'
      BY <3>1, <2>4 DEF TestAndSet, Goto, TypeOK, InvIrq, InvTarget, InvOld, IrqAt, TargetAt,
             OldAt, Outer, Outside, Running, Acquiring, Acquired, Releasing
    <3>3. ASSUME NEW y \in Contexts PROVE TargetAt(y)'
      <4>1. target[x] \in Locks /\ \A h \in held[x] : h \in Nat /\ h < target[x]
        BY <2>4 DEF TestAndSet, Goto, TypeOK, InvTarget, TargetAt, Acquiring
      <4>2. \A h \in held[x] \cup {target[x]} : h <= target[x]
        BY <1>0, <4>1, <2>4 DEF TestAndSet, Goto
      <4> QED
        BY <4>1, <4>2, <2>4 DEF TestAndSet, Goto, TypeOK, InvTarget, TargetAt, Acquiring, Acquired,
               Releasing
    <3>4. InvHeld'
      <4>1. \A y \in Contexts : target[x] \notin held[y]
        BY <2>4 DEF TestAndSet, InvHeld
      <4>2. target[x] \in Locks
        BY <2>4 DEF TestAndSet, Goto, InvTarget, TargetAt
      <4>3. ASSUME NEW y \in Contexts, NEW l \in held'[y] PROVE locked'[l]
        BY <4>2, <4>3, <2>4 DEF TestAndSet, TypeOK, InvHeld
      <4>4. ASSUME NEW y \in Contexts, NEW z \in Contexts, y /= z
            PROVE  held'[y] \cap held'[z] = {}
        BY <4>1, <4>4, <2>4 DEF TestAndSet, TypeOK, InvHeld, MutualExclusion
      <4> QED
        BY <4>3, <4>4 DEF InvHeld, MutualExclusion
    <3>5. InvCore'
      BY <3>1, <2>4 DEF TestAndSet, Goto, TypeOK, InvCore, InvTarget, InvHeld, InvIrq, TargetAt,
             IrqAt, Running, Outside, MutualExclusion, Unnamed, Acquiring, Acquired, Releasing
    <3>6. ASSUME NEW y \in Contexts PROVE OldAt(y)'
      BY <3>1, <2>4 DEF TestAndSet, Goto, TypeOK, InvOld, InvIrq, InvTarget, InvHeld, TargetAt,
             IrqAt, OldAt, MutualExclusion, Outer, Outside, Running, InFlight, Acquiring, Acquired,
             Releasing
    <3> QED
      BY <3>1, <3>2, <3>3, <3>4, <3>5, <3>6 DEF InvIrq, InvTarget, InvOld
  <2>5. CASE SetCore(x)
    <3>1. TypeOK'
      BY <2>5 DEF SetCore, Goto, TypeOK, PCs, InvTarget, TargetAt
    <3>2. ASSUME NEW y \in Contexts PROVE IrqAt(y)'
      BY <3>1, <2>5 DEF SetCore, Goto, TypeOK, InvIrq, InvTarget, InvOld, IrqAt, TargetAt, OldAt,
             Outer, Outside, Running, Acquiring, Acquired, Releasing
    <3>3. ASSUME NEW y \in Contexts PROVE TargetAt(y)'
      BY <3>1, <2>5 DEF SetCore, Goto, TypeOK, InvTarget, InvCore, InvHeld, InvIrq, IrqAt,
             TargetAt, Outside, Running, Unnamed, MutualExclusion, Acquiring, Acquired, Releasing
    <3>4. InvHeld'
      BY <3>1, <2>5 DEF SetCore, Goto, TypeOK, InvHeld, InvTarget, TargetAt, MutualExclusion,
             Acquiring, Acquired, Releasing
    <3>5. InvCore'
      BY <3>1, <2>5 DEF SetCore, Goto, TypeOK, InvCore, InvTarget, InvHeld, InvIrq, TargetAt,
             IrqAt, Running, Outside, MutualExclusion, Unnamed, Acquiring, Acquired, Releasing
    <3>6. ASSUME NEW y \in Contexts PROVE OldAt(y)'
      BY <3>1, <2>5 DEF SetCore, Goto, TypeOK, InvOld, InvIrq, InvTarget, InvHeld, TargetAt, IrqAt,
             OldAt, MutualExclusion, Outer, Outside, Running, InFlight, Acquiring, Acquired,
             Releasing
    <3> QED
      BY <3>1, <3>2, <3>3, <3>4, <3>5, <3>6 DEF InvIrq, InvTarget, InvOld
  <2>6. CASE SetOld(x)
    <3>1. TypeOK'
      BY <2>6 DEF SetOld, Goto, TypeOK, PCs, InvTarget, TargetAt
    <3>2. ASSUME NEW y \in Contexts PROVE IrqAt(y)'
      BY <3>1, <2>6 DEF SetOld, Goto, TypeOK, InvIrq, InvTarget, InvOld, IrqAt, TargetAt, OldAt,
             Outer, Outside, Running, Acquiring, Acquired, Releasing
    <3>3. ASSUME NEW y \in Contexts PROVE TargetAt(y)'
      BY <3>1, <2>6 DEF SetOld, Goto, TypeOK, InvTarget, InvCore, InvHeld, InvIrq, IrqAt, TargetAt,
             Outside, Running, Unnamed, MutualExclusion, Acquiring, Acquired, Releasing
    <3>4. InvHeld'
      BY <3>1, <2>6 DEF SetOld, Goto, TypeOK, InvHeld, InvTarget, TargetAt, MutualExclusion,
             Acquiring, Acquired, Releasing
    <3>5. InvCore'
      BY <3>1, <2>6 DEF SetOld, Goto, TypeOK, InvCore, InvTarget, InvHeld, InvIrq, TargetAt, IrqAt,
             Running, Outside, MutualExclusion, Unnamed, Acquiring, Acquired, Releasing
    <3>6. ASSUME NEW y \in Contexts PROVE OldAt(y)'
      <4> USE <2>6 DEF SetOld, Goto, TypeOK, Outer
      <4>1. target[x] \in held[x] /\ \A h \in held[x] : h \in Nat /\ h <= target[x]
        BY DEF InvTarget, TargetAt, Acquired, Releasing
      <4>2. held[x] \ {target[x]} = {} <=> \A h \in held[x] : target[x] <= h
        <5> HIDE DEF TypeOK, IInv
        <5>1. ASSUME held[x] \ {target[x]} = {}, NEW h \in held[x] PROVE target[x] <= h
          BY <4>1, <5>1
        <5>2. ASSUME \A h \in held[x] : target[x] <= h PROVE held[x] \ {target[x]} = {}
          BY <4>1, <5>2
        <5> QED
          BY <5>1, <5>2
      <4>3. CASE y = x
        <5>1. \A l \in held[x] \ {target[x]} : old_status'[l] = old_status[l]
          BY <4>1
        <5>2. OldAt(x) /\ Outer(x)' = Outer(x)
          BY DEF InvOld
        <5> QED
          BY <4>1, <4>2, <4>3, <5>1, <5>2 DEF OldAt, InFlight, Acquiring, Acquired
      <4>4. CASE y /= x
        <5>1. target[x] \notin held[y]
          BY <4>1, <4>4 DEF InvHeld, MutualExclusion
        <5> QED
          BY <4>4, <5>1 DEF InvOld, OldAt, InFlight, Acquiring, Acquired
      <4> QED
        BY <4>3, <4>4
    <3> QED
      BY <3>1, <3>2, <3>3, <3>4, <3>5, <3>6 DEF InvIrq, InvTarget, InvOld
  <2> QED
    BY <1>3, <2>1, <2>2, <2>3, <2>4, <2>5, <2>6 DEF LockStep
<1>4. ASSUME NEW x \in Contexts, UnlockStep(x) PROVE IInv'
  <2>1. ASSUME NEW l \in Locks, StartUnlock(x, l) PROVE IInv'
    <3>1. TypeOK'
      BY <2>1 DEF StartUnlock, Goto, TypeOK, PCs, InvTarget, TargetAt
    <3>2. ASSUME NEW y \in Contexts PROVE IrqAt(y)'
      BY <3>1, <2>1 DEF StartUnlock, Goto, TypeOK, InvIrq, InvTarget, InvOld, IrqAt, TargetAt,
             OldAt, Outer, Outside, Running, Acquiring, Acquired, Releasing
    <3>3. ASSUME NEW y \in Contexts PROVE TargetAt(y)'
      BY <3>1, <2>1 DEF StartUnlock, Goto, TypeOK, InvTarget, InvCore, InvHeld, InvIrq, IrqAt,
             TargetAt, Outside, Running, Unnamed, MutualExclusion, Acquiring, Acquired, Releasing
    <3>4. InvHeld'
      BY <3>1, <2>1 DEF StartUnlock, Goto, TypeOK, InvHeld, InvTarget, TargetAt, MutualExclusion,
             Acquiring, Acquired, Releasing
    <3>5. InvCore'
      BY <3>1, <2>1 DEF StartUnlock, Goto, TypeOK, InvCore, InvTarget, InvHeld, InvIrq, TargetAt,
             IrqAt, Running, Outside, MutualExclusion, Unnamed, Acquiring, Acquired, Releasing
    <3>6. ASSUME NEW y \in Contexts PROVE OldAt(y)'
      BY <3>1, <2>1 DEF StartUnlock, Goto, TypeOK, InvOld, InvIrq, InvTarget, InvHeld, TargetAt,
             IrqAt, OldAt, MutualExclusion, Outer, Outside, Running, InFlight, Acquiring, Acquired,
             Releasing
    <3> QED
      BY <3>1, <3>2, <3>3, <3>4, <3>5, <3>6 DEF InvIrq, InvTarget, InvOld
  <2>2. CASE CheckHolding(x)
    <3>1. TypeOK'
      BY <2>2 DEF CheckHolding, Goto, TypeOK, PCs, InvTarget, TargetAt
    <3>2. ASSUME NEW y \in Contexts PROVE IrqAt(y)'
      BY <3>1, <2>2 DEF CheckHolding, Goto, TypeOK, InvIrq, InvTarget, InvOld, IrqAt, TargetAt,
             OldAt, Outer, Outside, Running, Acquiring, Acquired, Releasing
    <3>3. ASSUME NEW y \in Contexts PROVE TargetAt(y)'
      <4>1. target[x] \in held[x] /\ pc[x] = "u_holding"
        BY <2>2 DEF CheckHolding, Goto, InvTarget, TargetAt, Releasing
      <4>2. locked[target[x]] /\ core_id[target[x]] = Hart(x)
        BY <4>1 DEF InvHeld, InvCore, Unnamed
      <4>3. pc' = [pc EXCEPT ![x] = "u_core"]
        BY <4>2, <2>2 DEF CheckHolding, Goto
      <4> QED
        BY <4>1, <4>3, <2>2 DEF CheckHolding, TypeOK, InvTarget, TargetAt, Acquiring, Acquired,
               Releasing
    <3>4. InvHeld'
      BY <3>1, <2>2 DEF CheckHolding, Goto, TypeOK, InvHeld, InvTarget, TargetAt, MutualExclusion,
             Acquiring, Acquired, Releasing
    <3>5. InvCore'
      BY <3>1, <2>2 DEF CheckHolding, Goto, TypeOK, InvCore, InvTarget, InvHeld, InvIrq, TargetAt,
             IrqAt, Running, Outside, MutualExclusion, Unnamed, Acquiring, Acquired, Releasing
    <3>6. ASSUME NEW y \in Contexts PROVE OldAt(y)'
      BY <3>1, <2>2 DEF CheckHolding, Goto, TypeOK, InvOld, InvIrq, InvTarget, InvHeld, TargetAt,
             IrqAt, OldAt, MutualExclusion, Outer, Outside, Running, InFlight, Acquiring, Acquired,
             Releasing
    <3> QED
      BY <3>1, <3>2, <3>3, <3>4, <3>5, <3>6 DEF InvIrq, InvTarget, InvOld
  <2>3. CASE ClearCore(x)
    <3>1. TypeOK'
      BY <2>3 DEF ClearCore, Goto, TypeOK, PCs, InvTarget, TargetAt
    <3>2. ASSUME NEW y \in Contexts PROVE IrqAt(y)'
      BY <3>1, <2>3 DEF ClearCore, Goto, TypeOK, InvIrq, InvTarget, InvOld, IrqAt, TargetAt, OldAt,
             Outer, Outside, Running, Acquiring, Acquired, Releasing
    <3>3. ASSUME NEW y \in Contexts PROVE TargetAt(y)'
      BY <3>1, <2>3 DEF ClearCore, Goto, TypeOK, InvTarget, InvCore, InvHeld, InvIrq, IrqAt,
             TargetAt, Outside, Running, Unnamed, MutualExclusion, Acquiring, Acquired, Releasing
    <3>4. InvHeld'
      BY <3>1, <2>3 DEF ClearCore, Goto, TypeOK, InvHeld, InvTarget, TargetAt, MutualExclusion,
             Acquiring, Acquired, Releasing
    <3>5. InvCore'
      BY <3>1, <2>3 DEF ClearCore, Goto, TypeOK, InvCore, InvTarget, InvHeld, InvIrq, TargetAt,
             IrqAt, Running, Outside, MutualExclusion, Unnamed, Acquiring, Acquired, Releasing
    <3>6. ASSUME NEW y \in Contexts PROVE OldAt(y)'
      BY <3>1, <2>3 DEF ClearCore, Goto, TypeOK, InvOld, InvIrq, InvTarget, InvHeld, TargetAt,
             IrqAt, OldAt, MutualExclusion, Outer, Outside, Running, InFlight, Acquiring, Acquired,
             Releasing
    <3> QED
      BY <3>1, <3>2, <3>3, <3>4, <3>5, <3>6 DEF InvIrq, InvTarget, InvOld
  <2>4. CASE ClearOld(x)
    <3>1. TypeOK'
      BY <2>4, Zenon DEF ClearOld, Goto, TypeOK, PCs, InvTarget, TargetAt
    <3>2. ASSUME NEW y \in Contexts PROVE IrqAt(y)'
      BY <3>1, <2>4 DEF ClearOld, Goto, TypeOK, InvIrq, InvTarget, InvOld, IrqAt, TargetAt, OldAt,
             Outer, Outside, Running, Acquiring, Acquired, Releasing
    <3>3. ASSUME NEW y \in Contexts PROVE TargetAt(y)'
      BY <3>1, <2>4 DEF ClearOld, Goto, TypeOK, InvTarget, InvCore, InvHeld, InvIrq, IrqAt,
             TargetAt, Outside, Running, Unnamed, MutualExclusion, Acquiring, Acquired, Releasing
    <3>4. InvHeld'
      BY <3>1, <2>4 DEF ClearOld, Goto, TypeOK, InvHeld, InvTarget, TargetAt, MutualExclusion,
             Acquiring, Acquired, Releasing
    <3>5. InvCore'
      BY <3>1, <2>4 DEF ClearOld, Goto, TypeOK, InvCore, InvTarget, InvHeld, InvIrq, TargetAt,
             IrqAt, Running, Outside, MutualExclusion, Unnamed, Acquiring, Acquired, Releasing
    <3>6. ASSUME NEW y \in Contexts PROVE OldAt(y)'
      <4> USE <2>4 DEF ClearOld, Goto, TypeOK, Outer
      <4>1. target[x] \in held[x] /\ \A h \in held[x] : h \in Nat /\ h <= target[x]
        BY DEF InvTarget, TargetAt, Acquired, Releasing
      <4>2. held[x] \ {target[x]} = {} <=> \A h \in held[x] : target[x] <= h
        <5> HIDE DEF TypeOK, IInv
        <5>1. ASSUME held[x] \ {target[x]} = {}, NEW h \in held[x] PROVE target[x] <= h
          BY <4>1, <5>1
        <5>2. ASSUME \A h \in held[x] : target[x] <= h PROVE held[x] \ {target[x]} = {}
          BY <4>1, <5>2
        <5> QED
          BY <5>1, <5>2
      <4>3. CASE y = x
        <5>1. \A l \in held[x] \ {target[x]} : old_status'[l] = old_status[l]
          BY <4>1
        <5>2. OldAt(x) /\ Outer(x)' = Outer(x)
          BY DEF InvOld
        <5> QED
          BY <4>1, <4>2, <4>3, <5>1, <5>2, Zenon DEF OldAt, InFlight, Acquiring, Acquired
      <4>4. CASE y /= x
        <5>1. target[x] \notin held[y]
          BY <4>1, <4>4 DEF InvHeld, MutualExclusion
        <5> QED
          BY <4>4, <5>1 DEF InvOld, OldAt, InFlight, Acquiring, Acquired
      <4> QED
        BY <4>3, <4>4
    <3> QED
      BY <3>1, <3>2, <3>3, <3>4, <3>5, <3>6 DEF InvIrq, InvTarget, InvOld
  <2>5. CASE ReleaseLock(x)
    <3>1. TypeOK'
      BY <2>5 DEF ReleaseLock, Goto, TypeOK, PCs, InvTarget, TargetAt
    <3>2. ASSUME NEW y \in Contexts PROVE IrqAt(y)'
      BY <3>1, <2>5 DEF ReleaseLock, Goto, TypeOK, InvIrq, InvTarget, InvOld, IrqAt, TargetAt,
             OldAt, Outer, Outside, Running, Acquiring, Acquired, Releasing
    <3>3. ASSUME NEW y \in Contexts PROVE TargetAt(y)'
      <4>1. ASSUME NEW h \in held[x] \ {target[x]} PROVE h < target[x]
        BY <1>0, <2>5 DEF ReleaseLock, Goto, TypeOK, InvTarget, TargetAt, Releasing
      <4>2. target[x] \in Locks
        BY <2>5 DEF ReleaseLock, Goto, InvTarget, TargetAt
      <4> QED
        BY <4>1, <4>2, <2>5 DEF ReleaseLock, Goto, TypeOK, InvTarget, TargetAt, Acquiring,
               Acquired, Releasing
    <3>4. InvHeld'
      BY <3>1, <2>5 DEF ReleaseLock, Goto, TypeOK, InvHeld, InvTarget, TargetAt, MutualExclusion,
             Acquiring, Acquired, Releasing
    <3>5. InvCore'
      BY <3>1, <2>5 DEF ReleaseLock, Goto, TypeOK, InvCore, InvTarget, InvHeld, InvIrq, TargetAt,
             IrqAt, Running, Outside, MutualExclusion, Unnamed, Acquiring, Acquired, Releasing
    <3>6. ASSUME NEW y \in Contexts PROVE OldAt(y)'
      BY <3>1, <2>5 DEF ReleaseLock, Goto, TypeOK, InvOld, InvIrq, InvTarget, InvHeld, TargetAt,
             IrqAt, OldAt, MutualExclusion, Outer, Outside, Running, InFlight, Acquiring, Acquired,
             Releasing
    <3> QED
      BY <3>1, <3>2, <3>3, <3>4, <3>5, <3>6 DEF InvIrq, InvTarget, InvOld
  <2>6. CASE IrqRestore(x)
    <3>1. TypeOK'
      BY <2>6 DEF IrqRestore, Goto, TypeOK, PCs, InvTarget, TargetAt
    <3>2. ASSUME NEW y \in Contexts PROVE IrqAt(y)'
      <4> USE <2>6 DEF IrqRestore, Goto, TypeOK, InvIrq, IrqAt, Outside, Running, Outer
      <4>1. held[x] \ {target[x]} = held[x]
        BY <1>0 DEF InvTarget, TargetAt
      <4>2. (old[x] <=> Outer(x) /\ held[x] = {}) /\ ~irq[Hart(x)]
        BY <4>1 DEF InvOld, OldAt
      <4>3. CASE y = x
        BY <4>2, <4>3
      <4>4. CASE y /= x
        BY <4>2, <4>4
      <4> QED
        BY <4>3, <4>4
    <3>3. ASSUME NEW y \in Contexts PROVE TargetAt(y)'
      BY <3>1, <2>6 DEF IrqRestore, Goto, TypeOK, InvTarget, InvCore, InvHeld, InvIrq, IrqAt,
             TargetAt, Outside, Running, Unnamed, MutualExclusion, Acquiring, Acquired, Releasing
    <3>4. InvHeld'
      BY <3>1, <2>6 DEF IrqRestore, Goto, TypeOK, InvHeld, InvTarget, TargetAt, MutualExclusion,
             Acquiring, Acquired, Releasing
    <3>5. InvCore'
      BY <3>1, <2>6 DEF IrqRestore, Goto, TypeOK, InvCore, InvTarget, InvHeld, InvIrq, TargetAt,
             IrqAt, Running, Outside, MutualExclusion, Unnamed, Acquiring, Acquired, Releasing
    <3>6. ASSUME NEW y \in Contexts PROVE OldAt(y)'
      BY <3>1, <2>6 DEF IrqRestore, Goto, TypeOK, InvOld, InvIrq, InvTarget, InvHeld, TargetAt,
             IrqAt, OldAt, MutualExclusion, Outer, Outside, Running, InFlight, Acquiring, Acquired,
             Releasing
    <3> QED
      BY <3>1, <3>2, <3>3, <3>4, <3>5, <3>6 DEF InvIrq, InvTarget, InvOld
  <2> QED
    BY <1>4, <2>1, <2>2, <2>3, <2>4, <2>5, <2>6 DEF UnlockStep
<1> QED
  BY <1>1, <1>2, <1>3, <1>4 DEF Next

\* The inductive invariant holds in every reachable state.
LEMMA InvCorrect == Spec => []IInv
BY InitInv, NextInv, PTL DEF Spec

\* For any number of harts and locks the fields and locals of the spinlock keep
\* their types in every reachable state.
THEOREM TypeCorrect == Spec => []TypeOK
BY InvCorrect, PTL DEF IInv

\* For any number of harts and locks a spinlock is held by one context.
THEOREM MutualExclusionCorrect == Spec => []MutualExclusion
<1>1. IInv => MutualExclusion
  BY DEF IInv, InvHeld
<1> QED
  BY <1>1, InvCorrect, PTL

\* For any number of harts and locks neither panic of spinlock.cc is reached:
\* the unsynchronised __holding() test is exact for the hart that asks.
THEOREM NoPanicCorrect == Spec => []NoPanic
<1>1. IInv => NoPanic
  BY DEF IInv, InvTarget, TargetAt, NoPanic
<1> QED
  BY <1>1, InvCorrect, PTL

\* Interrupts are off on a hart from local_irq_save() to local_irq_restore().
THEOREM IrqOffCorrect == Spec => []IrqOffWhileLocking
<1>1. IInv => IrqOffWhileLocking
  BY DEF IInv, InvIrq, IrqAt, IrqOffWhileLocking
<1> QED
  BY <1>1, InvCorrect, PTL

\* Leaving the outermost critical section restores the flag the thread had.
THEOREM IrqRestoredCorrect == Spec => []IrqRestored
<1>1. ASSUME IInv, NEW c \in Harts, ~trapped[c], Outside(Thread(c)) PROVE irq[c] = base[c]
  <2>1. Running(Thread(c)) /\ (irq[c] <=> base[c])
    BY <1>1, HartContexts DEF IInv, InvIrq, IrqAt, Running, Outer
  <2>2. irq[c] \in BOOLEAN /\ base[c] \in BOOLEAN
    BY <1>1 DEF IInv, TypeOK
  <2> QED
    BY <2>1, <2>2
<1>2. IInv => IrqRestored
  BY <1>1 DEF IrqRestored
<1> QED
  BY <1>2, InvCorrect, PTL

\* With mutual exclusion, the owner of a held lock is the context that holds it.
LEMMA OwnerIsHolder ==
    ASSUME MutualExclusion, NEW x \in Contexts, NEW l \in Locks, l \in held[x]
    PROVE  Owner[l] = x
BY DEF MutualExclusion, Owner

LEMMA OwnerOfFree ==
    ASSUME NEW l \in Locks, \A x \in Contexts : l \notin held[x]
    PROVE  Owner[l] = NoHolder
BY DEF Owner

\* The spinlock implements the abstract lock: TestAndSet is Acquire,
\* ReleaseLock is Release, and every other step leaves the owners alone.
THEOREM SpinlockImplementsLock == Spec => ImplementsAbstractLock
<1>1. Init => Abstract!Init
  BY DEF Init, Abstract!Init, Owner
<1>2. ASSUME IInv, IInv', [Next]_vars PROVE [Abstract!Next]_Owner
  <2> USE <1>2 DEF IInv, lockVars, hartVars
  <2>1. CASE UNCHANGED held
    BY <2>1 DEF Owner
  <2>2. ASSUME NEW x \in Contexts, TestAndSet(x) PROVE Abstract!Next
    <3>1. target[x] \in Locks /\ held' = [held EXCEPT ![x] = @ \cup {target[x]}]
      BY <2>2 DEF TestAndSet, Goto, InvTarget, TargetAt
    <3>2. \A y \in Contexts : target[x] \notin held[y]
      BY <2>2 DEF TestAndSet, InvHeld
    <3>3. Owner[target[x]] = NoHolder
      BY <3>1, <3>2, OwnerOfFree
    <3>4. Owner' = [Owner EXCEPT ![target[x]] = x]
      <4>1. ASSUME NEW l \in Locks PROVE Owner'[l] = IF l = target[x] THEN x ELSE Owner[l]
        <5>1. CASE l = target[x]
          BY <5>1, <3>1, <1>2 DEF TypeOK, InvHeld, MutualExclusion, Owner
        <5>2. CASE l /= target[x]
          <6>1. \A y \in Contexts : l \in held'[y] <=> l \in held[y]
            BY <5>2, <3>1 DEF TypeOK
          <6> QED
            BY <5>2, <6>1, Zenon DEF Owner
        <5> QED
          BY <5>1, <5>2
      <4> QED
        BY <4>1, Zenon DEF Owner
    <3> QED
      BY <3>1, <3>3, <3>4, Zenon DEF Abstract!Next, Abstract!Acquire
  <2>3. ASSUME NEW x \in Contexts, ReleaseLock(x) PROVE Abstract!Next
    <3>1. /\ target[x] \in Locks /\ target[x] \in held[x]
          /\ held' = [held EXCEPT ![x] = @ \ {target[x]}]
      BY <2>3 DEF ReleaseLock, Goto, InvTarget, TargetAt, Releasing
    <3>2. Owner[target[x]] = x
      BY <3>1, OwnerIsHolder DEF InvHeld
    <3>3. Owner' = [Owner EXCEPT ![target[x]] = NoHolder]
      <4>1. ASSUME NEW l \in Locks PROVE Owner'[l] = IF l = target[x] THEN NoHolder ELSE Owner[l]
        <5>1. CASE l = target[x]
          <6>1. \A y \in Contexts : l \notin held'[y]
            BY <5>1, <3>1 DEF TypeOK, InvHeld, MutualExclusion
          <6> QED
            BY <5>1, <6>1 DEF Owner
        <5>2. CASE l /= target[x]
          <6>1. \A y \in Contexts : l \in held'[y] <=> l \in held[y]
            BY <5>2, <3>1 DEF TypeOK
          <6> QED
            BY <5>2, <6>1, Zenon DEF Owner
        <5> QED
          BY <5>1, <5>2
      <4> QED
        BY <4>1, Zenon DEF Owner
    <3> QED
      BY <3>1, <3>2, <3>3, Zenon DEF Abstract!Next, Abstract!Release
  <2>4. \/ UNCHANGED held
        \/ \E x \in Contexts : TestAndSet(x) \/ ReleaseLock(x)
    BY Zenon DEF Next, vars, HartStep, LockStep, UnlockStep, SetIrq, Interrupt, TrapReturn, IrqSave,
           HoldingLocked, HoldingCore, SetCore, SetOld, StartUnlock, CheckHolding, ClearCore,
           ClearOld, IrqRestore
  <2> QED
    BY <2>1, <2>2, <2>3, <2>4
<1> QED
  BY <1>1, <1>2, InvCorrect, PTL DEF Spec, ImplementsAbstractLock, Abstract!Spec
====
