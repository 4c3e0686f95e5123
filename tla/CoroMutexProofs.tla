---- MODULE CoroMutexProofs ----
(***************************************************************************)
(* Proofs about CoroMutex.tla for any set of coroutines and harts.         *)
(***************************************************************************)
EXTENDS CoroMutex, TLAPS

\* Where a coroutine may be, by its program counter.
InvPlace ==
    /\ InOnePlace
    /\ \A i \in DOMAIN queue : pc[queue[i]] \in {"start", "start2", "own2", "woken"}
    /\ \A i \in DOMAIN sleepers : pc[sleepers[i]] \in {"sleep", "asleep"}
    /\ \A h \in Harts : running[h] /= None => pc[running[h]] \notin {"new", "asleep"}

\* The guard is held by the hart that runs the coroutine inside lock() or
\* unlock(), so at most one coroutine is there.
InvGuard ==
    /\ \A t \in Coros : pc[t] \in GuardPCs => guard \in Harts /\ running[guard] = t
    /\ guard \in Harts => running[guard] /= None /\ pc[running[guard]] \in GuardPCs

InvOwn ==
    /\ \A t \in Coros : pc[t] \in OwnPCs => locked
    /\ MutualExclusion

IInv == TypeOK /\ InvPlace /\ InvGuard /\ InvOwn /\ NoLostWakeup

\* What appending an element does to a sequence, position by position.
LEMMA AppendFacts ==
    ASSUME NEW S, NEW s \in Seq(S), NEW e \in S
    PROVE  /\ Append(s, e) \in Seq(S)
           /\ DOMAIN Append(s, e) = DOMAIN s \cup {Len(s) + 1}
           /\ \A i \in DOMAIN s : Append(s, e)[i] = s[i]
           /\ Append(s, e)[Len(s) + 1] = e
           /\ Len(s) + 1 \notin DOMAIN s
           /\ Append(s, e) /= <<>>
OBVIOUS

\* The tail of a sequence holds its later elements, shifted by one.
LEMMA TailFacts ==
    ASSUME NEW S, NEW s \in Seq(S), s /= <<>>
    PROVE  /\ Tail(s) \in Seq(S)
           /\ Head(s) = s[1] /\ 1 \in DOMAIN s /\ Head(s) \in S
           /\ \A i \in DOMAIN Tail(s) : i + 1 \in DOMAIN s /\ Tail(s)[i] = s[i + 1]
           /\ \A i \in DOMAIN Tail(s) : i \in Nat /\ i + 1 /= 1
OBVIOUS

\* The initial state satisfies the inductive invariant.
LEMMA InitInv == Init => IInv
<1> SUFFICES ASSUME Init PROVE IInv
  OBVIOUS
<1> USE NoneAssumption DEF Init
<1>1. TypeOK
  <2>1. <<>> \in Seq(Coros)
    OBVIOUS
  <2> QED
    BY <2>1, Zenon DEF TypeOK, PCs
<1>2. InvPlace
  BY DEF InvPlace, InOnePlace
<1>3. InvGuard
  BY DEF InvGuard, GuardPCs
<1>4. InvOwn /\ NoLostWakeup
  BY DEF InvOwn, MutualExclusion, OwnPCs, NoLostWakeup
<1> QED
  BY <1>1, <1>2, <1>3, <1>4 DEF IInv

\* Every step of the schedulers and of the coroutines preserves it.
LEMMA NextInv == IInv /\ [Next]_vars => IInv'
<1> SUFFICES ASSUME IInv, [Next]_vars PROVE IInv'
  OBVIOUS
<1> USE NoneAssumption DEF IInv
<1>1. CASE UNCHANGED vars
  BY <1>1 DEF vars, TypeOK, InvPlace, InOnePlace, InvGuard, InvOwn, NoLostWakeup, MutualExclusion
<1>2. ASSUME NEW t \in Coros, Schedule(t) PROVE IInv'
  <2>1. TypeOK'
    BY <1>2, AppendFacts DEF Schedule, TypeOK, PCs
  <2>2. InvPlace'
    <3> DEFINE q == Append(queue, t)
    <3>1. /\ queue' = q /\ pc' = [pc EXCEPT ![t] = "start"] /\ pc[t] = "new"
          /\ UNCHANGED <<sleepers, running>>
      BY <1>2 DEF Schedule
    <3>2. /\ DOMAIN q = DOMAIN queue \cup {Len(queue) + 1} /\ q[Len(queue) + 1] = t
          /\ \A i \in DOMAIN queue : q[i] = queue[i]
      BY AppendFacts DEF TypeOK
    <3>3. ASSUME NEW i \in DOMAIN queue PROVE queue[i] \in Coros /\ queue[i] /= t
      BY <3>1 DEF TypeOK, InvPlace
    <3>6. ASSUME NEW i \in DOMAIN sleepers PROVE sleepers[i] \in Coros /\ sleepers[i] /= t
      BY <3>1 DEF TypeOK, InvPlace
    <3>5. \A h \in Harts : running[h] /= t
      BY <3>1 DEF TypeOK, InvPlace
    <3> HIDE DEF q
    <3>4. InOnePlace'
      BY <3>1, <3>2, <3>3, <3>5, <3>6 DEF InOnePlace, InvPlace, TypeOK
    <3> QED
      BY <3>1, <3>2, <3>3, <3>4, <3>5, <3>6 DEF InvPlace, TypeOK
  <2>3. InvGuard'
    BY <1>2, AppendFacts DEF Schedule, TypeOK, InvGuard, GuardPCs, InvPlace, InOnePlace
  <2>4. InvOwn'
    BY <1>2, AppendFacts DEF Schedule, TypeOK, InvOwn, OwnPCs, MutualExclusion
  <2>5. NoLostWakeup'
    BY <1>2, AppendFacts DEF Schedule, TypeOK, NoLostWakeup
  <2> QED
    BY <2>1, <2>2, <2>3, <2>4, <2>5
<1>3. ASSUME NEW h \in Harts, Resume(h) PROVE IInv'
  <2>1. TypeOK'
    BY <1>3, TailFacts DEF Resume, TypeOK, PCs
  <2>2. InvPlace'
    BY <1>3, TailFacts DEF Resume, TypeOK, InvPlace, InOnePlace, InvGuard, GuardPCs
  <2>3. InvGuard'
    BY <1>3, TailFacts DEF Resume, TypeOK, InvGuard, GuardPCs, InvPlace, InOnePlace
  <2>4. InvOwn'
    BY <1>3, TailFacts DEF Resume, TypeOK, InvOwn, OwnPCs, MutualExclusion
  <2>5. NoLostWakeup'
    BY <1>3, TailFacts DEF Resume, TypeOK, NoLostWakeup
  <2> QED
    BY <2>1, <2>2, <2>3, <2>4, <2>5
<1>4. ASSUME NEW h \in Harts, NEW t \in Coros, CoroStep(h, t) PROVE IInv'
  <2>0. CASE YieldTest(h, t)
    <3>1. TypeOK'
      BY <2>0 DEF YieldTest, TypeOK, PCs
    <3>2. InvPlace'
      BY <2>0 DEF YieldTest, TypeOK, InvPlace, InOnePlace, InvGuard, GuardPCs
    <3>3. InvGuard'
      BY <2>0 DEF YieldTest, TypeOK, InvGuard, GuardPCs, InvPlace, InOnePlace
    <3>4. InvOwn'
      BY <2>0 DEF YieldTest, TypeOK, InvOwn, OwnPCs, MutualExclusion
    <3>5. NoLostWakeup'
      BY <2>0 DEF YieldTest, TypeOK, NoLostWakeup
    <3> QED
      BY <3>1, <3>2, <3>3, <3>4, <3>5
  <2>1. CASE Yield(h, t)
    <3>1. TypeOK'
      BY <2>1, AppendFacts DEF Yield, TypeOK, PCs
    <3>2. InvPlace'
      BY <2>1, AppendFacts DEF Yield, TypeOK, InvPlace, InOnePlace, InvGuard, GuardPCs
    <3>3. InvGuard'
      BY <2>1, AppendFacts DEF Yield, TypeOK, InvGuard, GuardPCs, InvPlace, InOnePlace
    <3>4. InvOwn'
      BY <2>1, AppendFacts DEF Yield, TypeOK, InvOwn, OwnPCs, MutualExclusion
    <3>5. NoLostWakeup'
      BY <2>1, AppendFacts DEF Yield, TypeOK, NoLostWakeup
    <3> QED
      BY <3>1, <3>2, <3>3, <3>4, <3>5
  <2>2. CASE EnterLock(h, t)
    <3>1. TypeOK'
      BY <2>2 DEF EnterLock, TypeOK, PCs
    <3>2. InvPlace'
      BY <2>2 DEF EnterLock, TypeOK, InvPlace, InOnePlace, InvGuard, GuardPCs
    <3>3. InvGuard'
      BY <2>2 DEF EnterLock, TypeOK, InvGuard, GuardPCs, InvPlace, InOnePlace
    <3>4. InvOwn'
      BY <2>2 DEF EnterLock, TypeOK, InvOwn, OwnPCs, MutualExclusion
    <3>5. NoLostWakeup'
      BY <2>2 DEF EnterLock, TypeOK, NoLostWakeup
    <3> QED
      BY <3>1, <3>2, <3>3, <3>4, <3>5
  <2>3. CASE Take(h, t)
    <3>1. TypeOK'
      BY <2>3 DEF Take, TypeOK, PCs
    <3>2. InvPlace'
      BY <2>3 DEF Take, TypeOK, InvPlace, InOnePlace, InvGuard, GuardPCs
    <3>3. InvGuard'
      BY <2>3 DEF Take, TypeOK, InvGuard, GuardPCs, InvPlace, InOnePlace
    <3>4. InvOwn'
      BY <2>3 DEF Take, TypeOK, InvOwn, OwnPCs, MutualExclusion
    <3>5. NoLostWakeup'
      BY <2>3 DEF Take, TypeOK, NoLostWakeup
    <3> QED
      BY <3>1, <3>2, <3>3, <3>4, <3>5
  <2>4. CASE LeaveLock(h, t)
    <3>1. TypeOK'
      BY <2>4 DEF LeaveLock, TypeOK, PCs
    <3>2. InvPlace'
      BY <2>4 DEF LeaveLock, TypeOK, InvPlace, InOnePlace, InvGuard, GuardPCs
    <3>3. InvGuard'
      BY <2>4 DEF LeaveLock, TypeOK, InvGuard, GuardPCs, InvPlace, InOnePlace
    <3>4. InvOwn'
      BY <2>4 DEF LeaveLock, TypeOK, InvOwn, OwnPCs, MutualExclusion
    <3>5. NoLostWakeup'
      BY <2>4 DEF LeaveLock, TypeOK, NoLostWakeup
    <3> QED
      BY <3>1, <3>2, <3>3, <3>4, <3>5
  <2>5. CASE Sleep(h, t)
    <3>1. TypeOK'
      BY <2>5, AppendFacts DEF Sleep, TypeOK, PCs
    <3>2. InvPlace'
      BY <2>5, AppendFacts DEF Sleep, TypeOK, InvPlace, InOnePlace, InvGuard, GuardPCs
    <3>3. InvGuard'
      BY <2>5, AppendFacts DEF Sleep, TypeOK, InvGuard, GuardPCs, InvPlace, InOnePlace
    <3>4. InvOwn'
      BY <2>5, AppendFacts DEF Sleep, TypeOK, InvOwn, OwnPCs, MutualExclusion
    <3>5. NoLostWakeup'
      BY <2>5, AppendFacts DEF Sleep, TypeOK, NoLostWakeup
    <3> QED
      BY <3>1, <3>2, <3>3, <3>4, <3>5
  <2>6. CASE Suspend(h, t)
    <3>1. TypeOK'
      BY <2>6 DEF Suspend, TypeOK, PCs
    <3>2. InvPlace'
      BY <2>6 DEF Suspend, TypeOK, InvPlace, InOnePlace, InvGuard, GuardPCs
    <3>3. InvGuard'
      BY <2>6 DEF Suspend, TypeOK, InvGuard, GuardPCs, InvPlace, InOnePlace
    <3>4. InvOwn'
      BY <2>6 DEF Suspend, TypeOK, InvOwn, OwnPCs, MutualExclusion
    <3>5. NoLostWakeup'
      BY <2>6 DEF Suspend, TypeOK, NoLostWakeup
    <3> QED
      BY <3>1, <3>2, <3>3, <3>4, <3>5
  <2>7. CASE Spin(h, t)
    <3>1. TypeOK'
      BY <2>7 DEF Spin, TypeOK, PCs
    <3>2. InvPlace'
      BY <2>7 DEF Spin, TypeOK, InvPlace, InOnePlace, InvGuard, GuardPCs
    <3>3. InvGuard'
      BY <2>7 DEF Spin, TypeOK, InvGuard, GuardPCs, InvPlace, InOnePlace
    <3>4. InvOwn'
      BY <2>7 DEF Spin, TypeOK, InvOwn, OwnPCs, MutualExclusion
    <3>5. NoLostWakeup'
      BY <2>7 DEF Spin, TypeOK, NoLostWakeup
    <3> QED
      BY <3>1, <3>2, <3>3, <3>4, <3>5
  <2>8. CASE EnterUnlock(h, t)
    <3>1. TypeOK'
      BY <2>8 DEF EnterUnlock, TypeOK, PCs
    <3>2. InvPlace'
      BY <2>8 DEF EnterUnlock, TypeOK, InvPlace, InOnePlace, InvGuard, GuardPCs
    <3>3. InvGuard'
      BY <2>8 DEF EnterUnlock, TypeOK, InvGuard, GuardPCs, InvPlace, InOnePlace
    <3>4. InvOwn'
      BY <2>8 DEF EnterUnlock, TypeOK, InvOwn, OwnPCs, MutualExclusion
    <3>5. NoLostWakeup'
      BY <2>8 DEF EnterUnlock, TypeOK, NoLostWakeup
    <3> QED
      BY <3>1, <3>2, <3>3, <3>4, <3>5
  <2>9. CASE Clear(h, t)
    <3>1. TypeOK'
      BY <2>9, Zenon DEF Clear, TypeOK, PCs
    <3>2. InvPlace'
      BY <2>9 DEF Clear, TypeOK, InvPlace, InOnePlace, InvGuard, GuardPCs
    <3>3. InvGuard'
      BY <2>9 DEF Clear, TypeOK, InvGuard, GuardPCs, InvPlace, InOnePlace
    <3>4. InvOwn'
      BY <2>9 DEF Clear, TypeOK, InvOwn, OwnPCs, MutualExclusion
    <3>5. NoLostWakeup'
      BY <2>9 DEF Clear, TypeOK, NoLostWakeup
    <3> QED
      BY <3>1, <3>2, <3>3, <3>4, <3>5
  <2>10. CASE WakeUpOne(h, t)
    <3>1. CASE sleepers = <<>>
      <4> USE <2>10, <3>1 DEF WakeUpOne
      <4>1. TypeOK'
        BY DEF TypeOK, PCs
      <4>2. InvPlace'
        BY DEF TypeOK, InvPlace, InOnePlace
      <4>3. InvGuard'
        BY DEF TypeOK, InvGuard, GuardPCs, InvPlace, InOnePlace
      <4>4. InvOwn' /\ NoLostWakeup'
        BY DEF TypeOK, InvOwn, OwnPCs, MutualExclusion, NoLostWakeup
      <4> QED
        BY <4>1, <4>2, <4>3, <4>4
    <3>2. CASE sleepers /= <<>>
      <4> DEFINE w == Head(sleepers)
                 q == Append(queue, w)
                 s == Tail(sleepers)
      <4>1. /\ running[h] = t /\ pc[t] = "wake" /\ UNCHANGED <<locked, guard, running>>
            /\ pc' = [pc EXCEPT ![t] = "done", ![w] = "woken"] /\ queue' = q /\ sleepers' = s
        BY <2>10, <3>2 DEF WakeUpOne
      <4>2. /\ w \in Coros /\ w = sleepers[1] /\ 1 \in DOMAIN sleepers /\ s \in Seq(Coros)
            /\ \A i \in DOMAIN s : i \in Nat /\ i + 1 /= 1 /\ i + 1 \in DOMAIN sleepers /\ s[i] = sleepers[i + 1]
        BY <3>2, TailFacts DEF TypeOK
      <4>3. /\ q \in Seq(Coros) /\ DOMAIN q = DOMAIN queue \cup {Len(queue) + 1}
            /\ q[Len(queue) + 1] = w /\ \A i \in DOMAIN queue : q[i] = queue[i]
        BY <4>2, AppendFacts DEF TypeOK
      <4>4. pc[w] = "asleep" /\ w /= t
        <5>1. pc[w] \in {"sleep", "asleep"}
          BY <4>2 DEF InvPlace
        <5>2. guard = h
          BY <4>1 DEF InvGuard, InvPlace, InOnePlace, GuardPCs
        <5> QED
          BY <4>1, <4>2, <5>1, <5>2 DEF InvGuard, GuardPCs
      <4>5. /\ \A i \in DOMAIN queue : queue[i] \in Coros /\ queue[i] /= w /\ queue[i] /= t
            /\ \A i \in DOMAIN s : s[i] \in Coros /\ s[i] /= w /\ s[i] /= t
            /\ \A g \in Harts : running[g] /= w
        BY <4>1, <4>2, <4>4 DEF TypeOK, InvPlace, InOnePlace
      <4>6. \A i \in DOMAIN s : \A j \in DOMAIN s : s[i] = s[j] => i = j
        BY <4>2 DEF InvPlace, InOnePlace
      <4> HIDE DEF w, q, s
      <4>7. TypeOK'
        BY <4>1, <4>2, <4>3, Zenon DEF TypeOK, PCs
      <4>8. InOnePlace'
        BY <4>1, <4>2, <4>3, <4>5, <4>6 DEF TypeOK, InvPlace, InOnePlace
      <4>9. InvPlace'
        BY <4>1, <4>2, <4>3, <4>4, <4>5, <4>8 DEF TypeOK, InvPlace
      <4>10. InvGuard'
        BY <4>1, <4>2, <4>4, <4>5 DEF TypeOK, InvGuard, GuardPCs
      <4>11. InvOwn' /\ NoLostWakeup'
        BY <4>1, <4>2, <4>4, Zenon DEF TypeOK, InvOwn, OwnPCs, MutualExclusion, NoLostWakeup
      <4> QED
        BY <4>7, <4>9, <4>10, <4>11
    <3> QED
      BY <3>1, <3>2
  <2>11. CASE LeaveUnlock(h, t)
    <3>1. TypeOK'
      BY <2>11 DEF LeaveUnlock, TypeOK, PCs
    <3>2. InvPlace'
      BY <2>11 DEF LeaveUnlock, TypeOK, InvPlace, InOnePlace, InvGuard, GuardPCs
    <3>3. InvGuard'
      BY <2>11 DEF LeaveUnlock, TypeOK, InvGuard, GuardPCs, InvPlace, InOnePlace
    <3>4. InvOwn'
      BY <2>11 DEF LeaveUnlock, TypeOK, InvOwn, OwnPCs, MutualExclusion
    <3>5. NoLostWakeup'
      BY <2>11 DEF LeaveUnlock, TypeOK, NoLostWakeup
    <3> QED
      BY <3>1, <3>2, <3>3, <3>4, <3>5
  <2> QED
    BY <1>4, <2>0, <2>1, <2>2, <2>3, <2>4, <2>5, <2>6, <2>7, <2>8, <2>9, <2>10, <2>11 DEF CoroStep
<1> QED
  BY <1>1, <1>2, <1>3, <1>4 DEF Next, HartStep

\* The inductive invariant holds in every reachable state.
LEMMA InvCorrect == Spec => []IInv
BY InitInv, NextInv, PTL DEF Spec

\* The types of the mutex, its queues and the schedulers hold for any number of
\* coroutines and harts.
THEOREM TypeCorrect == Spec => []TypeOK
BY InvCorrect, PTL DEF IInv

\* However many coroutines and harts there are, one coroutine owns the mutex.
THEOREM MutualExclusionCorrect == Spec => []MutualExclusion
<1>1. IInv => MutualExclusion
  BY DEF IInv, InvOwn
<1> QED
  BY <1>1, InvCorrect, PTL

\* No coroutine is ever queued or resumed twice through the mutex.
THEOREM InOnePlaceCorrect == Spec => []InOnePlace
<1>1. IInv => InOnePlace
  BY DEF IInv, InvPlace
<1> QED
  BY <1>1, InvCorrect, PTL

\* A free mutex never leaves its sleepers behind.
THEOREM NoLostWakeupCorrect == Spec => []NoLostWakeup
BY InvCorrect, PTL DEF IInv

\* The mutex implements the abstract lock: Take is Acquire, Clear is Release,
\* and no other step changes the owner.
THEOREM MutexImplementsLock == Spec => ImplementsAbstractLock
<1>1. Init => Abstract!Init
  BY DEF Init, Abstract!Init, Owner, OwnPCs
<1>2. ASSUME IInv, [Next]_vars PROVE [Abstract!Next]_Owner
  <2> USE <1>2 DEF IInv
  <2>1. ASSUME \A t \in Coros : pc[t] \in OwnPCs <=> pc'[t] \in OwnPCs PROVE UNCHANGED Owner
    BY <2>1, Zenon DEF Owner
  <2>2. ASSUME NEW h \in Harts, NEW t \in Coros, Take(h, t) PROVE Abstract!Next
    <3>1. \A u \in Coros : pc[u] \notin OwnPCs
      BY <2>2 DEF Take, InvOwn
    <3>2. \A u \in Coros : pc'[u] \in OwnPCs <=> u = t
      BY <3>1, <2>2 DEF Take, TypeOK, OwnPCs
    <3>3. Owner["mutex"] = None /\ Owner' = [Owner EXCEPT !["mutex"] = t]
      BY <3>1, <3>2 DEF Owner
    <3> QED
      BY <3>3, Zenon DEF Abstract!Next, Abstract!Acquire
  <2>3. ASSUME NEW h \in Harts, NEW t \in Coros, Clear(h, t) PROVE Abstract!Next
    <3>1. \A u \in Coros : pc[u] \in OwnPCs <=> u = t
      BY <2>3 DEF Clear, InvOwn, MutualExclusion, OwnPCs
    <3>2. \A u \in Coros : pc'[u] \notin OwnPCs
      BY <3>1, <2>3 DEF Clear, TypeOK, OwnPCs
    <3>3. Owner["mutex"] = t /\ Owner' = [Owner EXCEPT !["mutex"] = None]
      BY <3>1, <3>2 DEF Owner
    <3> QED
      BY <3>3 DEF Abstract!Next, Abstract!Release
  <2>4. ASSUME NEW h \in Harts, NEW t \in Coros, WakeUpOne(h, t)
        PROVE  \A u \in Coros : pc[u] \in OwnPCs <=> pc'[u] \in OwnPCs
    <3>1. CASE sleepers = <<>>
      BY <2>4, <3>1 DEF WakeUpOne, TypeOK, OwnPCs
    <3>2. CASE sleepers /= <<>>
      <4>1. pc[Head(sleepers)] \in {"sleep", "asleep"} /\ Head(sleepers) \in Coros
        BY <3>2, TailFacts DEF InvPlace, TypeOK
      <4> QED
        BY <2>4, <3>2, <4>1 DEF WakeUpOne, TypeOK, OwnPCs
    <3> QED
      BY <3>1, <3>2
  <2>5. CASE \E t \in Coros : Schedule(t)
    BY <2>1, <2>5 DEF Schedule, TypeOK, OwnPCs
  <2>6. CASE UNCHANGED pc
    BY <2>1, <2>6
  <2>7. ASSUME NEW h \in Harts, NEW t \in Coros, CoroStep(h, t) PROVE [Abstract!Next]_Owner
    <3>0. CASE YieldTest(h, t)
      BY <2>1, <3>0 DEF YieldTest, TypeOK, OwnPCs
    <3>1. CASE Yield(h, t) \/ EnterLock(h, t) \/ LeaveLock(h, t) \/ Sleep(h, t) \/ Suspend(h, t)
      BY <2>1, <3>1 DEF Yield, EnterLock, LeaveLock, Sleep, Suspend, TypeOK, OwnPCs
    <3>2. CASE Spin(h, t) \/ EnterUnlock(h, t) \/ LeaveUnlock(h, t)
      BY <2>1, <3>2 DEF Spin, EnterUnlock, LeaveUnlock, TypeOK, OwnPCs
    <3> QED
      BY <2>1, <2>2, <2>3, <2>4, <2>7, <3>0, <3>1, <3>2 DEF CoroStep
  <2> QED
    BY <2>5, <2>6, <2>7 DEF Next, HartStep, Resume, vars
<1> QED
  BY <1>1, <1>2, InvCorrect, PTL DEF Spec, ImplementsAbstractLock, Abstract!Spec
====
