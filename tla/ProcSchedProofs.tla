---- MODULE ProcSchedProofs ----
(***************************************************************************)
(* Proofs about ProcSched.tla for any finite set of harts and any set of   *)
(* processes: a process is in one place, what pop() hands out is runnable, *)
(* and no wake-up is lost.                                                 *)
(***************************************************************************)
EXTENDS ProcSched, TLAPS

TypeOK ==
    /\ state \in [Procs -> States]
    /\ queue \in Seq(Procs)
    /\ qlock \in Harts \cup {None}
    /\ on \in [Harts -> Procs \cup {None}]
    /\ hpc \in [Harts -> HartPCs]
    /\ at \in Nat /\ at >= 1

IdleSet == {Idle[h] : h \in Harts}

\* What waits in the queue has been created, does not run and is no idle process.
InvQueue ==
    \A i \in DOMAIN queue : queue[i] \notin IdleSet /\ state[queue[i]] \notin {"RUNNING", "INIT"}

\* A hart has a process from the choice in pop() until it is queued again or dropped,
\* and only one that may run there.
InvHart ==
    \A h \in Harts :
        /\ hpc[h] \in {"top", "scan", "set", "ready"} => on[h] = None
        /\ hpc[h] \notin {"top", "scan", "set", "ready"} =>
              on[h] \in Procs /\ state[on[h]] /= "INIT"
        /\ on[h] \in Procs => MayRunOn(on[h], h)

\* The queue's lock is held by the hart inside pop(), whose position stays valid.
InvLock ==
    \A h \in Harts :
        /\ hpc[h] \in {"scan", "set", "ready"} => qlock = h
        /\ hpc[h] \in {"set", "ready"} => at \in DOMAIN queue

\* Only processes that are yet to be created are in the state INIT.
InvInit == \A p \in Procs : state[p] = "INIT" => p \in Subs

IInv == TypeOK /\ InvInit /\ InvQueue /\ InvHart /\ InvLock /\ OnePlace

-----------------------------------------------------------------------------
\* A sequence with one more element at its end (process_queue::push).
LEMMA AppendFacts ==
    ASSUME NEW S, NEW s \in Seq(S), NEW e \in S
    PROVE  /\ Append(s, e) \in Seq(S)
           /\ \A i \in DOMAIN Append(s, e) : i \in DOMAIN s \/ i = Len(s) + 1
           /\ \A i \in DOMAIN s : Append(s, e)[i] = s[i] /\ i \in DOMAIN Append(s, e)
           /\ Append(s, e)[Len(s) + 1] = e
OBVIOUS

\* Two sequences, one after the other.
LEMMA ConcatFacts ==
    ASSUME NEW S, NEW l \in Seq(S), NEW r \in Seq(S)
    PROVE  /\ l \o r \in Seq(S) /\ Len(l \o r) = Len(l) + Len(r)
           /\ Len(l) \in Nat /\ Len(r) \in Nat
           /\ DOMAIN (l \o r) = 1..(Len(l) + Len(r))
           /\ \A i \in 1..(Len(l) + Len(r)) : (l \o r)[i] = IF i <= Len(l) THEN l[i] ELSE r[i - Len(l)]
OBVIOUS

\* A sequence without its k-th element (the erase in process_queue::pop).
LEMMA EraseFacts ==
    ASSUME NEW S, NEW s \in Seq(S), NEW k \in DOMAIN s
    PROVE  /\ Erase(s, k) \in Seq(S) /\ k \in Nat
           /\ \A i \in DOMAIN Erase(s, k) :
                 /\ i \in Nat /\ Erase(s, k)[i] = IF i < k THEN s[i] ELSE s[i + 1]
                 /\ i < k => i \in DOMAIN s
                 /\ i >= k => i + 1 \in DOMAIN s
<1>1. Len(s) \in Nat /\ DOMAIN s = 1..Len(s) /\ k \in Nat /\ k >= 1 /\ k <= Len(s)
  OBVIOUS
<1>2. PICK l : l = SubSeq(s, 1, k - 1)
  BY Zenon
<1>3. PICK r : r = SubSeq(s, k + 1, Len(s))
  BY Zenon
<1>4. l \in Seq(S) /\ Len(l) = k - 1 /\ \A i \in 1..(k - 1) : l[i] = s[i]
  BY <1>1, <1>2
<1>5. r \in Seq(S) /\ Len(r) = Len(s) - k /\ \A i \in 1..(Len(s) - k) : r[i] = s[i + k]
  BY <1>1, <1>3
<1>6. Erase(s, k) = l \o r
  BY <1>2, <1>3, Zenon DEF Erase
<1>7. Len(l) + Len(r) = Len(s) - 1
  BY <1>1, <1>4, <1>5
<1>8. /\ l \o r \in Seq(S) /\ DOMAIN (l \o r) = 1..(Len(s) - 1)
      /\ \A i \in 1..(Len(s) - 1) : (l \o r)[i] = IF i <= k - 1 THEN l[i] ELSE r[i - (k - 1)]
  <2>1. /\ l \o r \in Seq(S) /\ DOMAIN (l \o r) = 1..(Len(l) + Len(r))
        /\ \A i \in 1..(Len(l) + Len(r)) : (l \o r)[i] = IF i <= Len(l) THEN l[i] ELSE r[i - Len(l)]
    BY <1>4, <1>5, ConcatFacts, Zenon
  <2> QED
    BY <1>4, <1>7, <2>1, Zenon
<1>9. ASSUME NEW i \in 1..(Len(s) - 1) PROVE (l \o r)[i] = IF i < k THEN s[i] ELSE s[i + 1]
  <2>1. CASE i < k
    <3>1. i <= k - 1 /\ i \in 1..(k - 1)
      BY <1>1, <2>1
    <3> QED
      BY <1>4, <1>8, <2>1, <3>1, Zenon
  <2>2. CASE ~(i < k)
    <3>1. ~(i <= k - 1) /\ i - (k - 1) \in 1..(Len(s) - k) /\ i - (k - 1) + k = i + 1
      BY <1>1, <2>2
    <3> QED
      BY <1>5, <1>8, <2>2, <3>1, Zenon
  <2> QED
    BY <2>1, <2>2, Zenon
<1>10. \A i \in 1..(Len(s) - 1) : i \in Nat /\ (i < k => i \in DOMAIN s) /\ (i >= k => i + 1 \in DOMAIN s)
  BY <1>1
<1> QED
  BY <1>1, <1>6, <1>8, <1>9, <1>10, Zenon

\* process::wake_up changes SLEEPING to WAKEN_UP and nothing else.
LEMMA WakeUpFacts ==
    ASSUME state \in [Procs -> States], NEW p
    PROVE  /\ WakeUp(state, p) \in [Procs -> States]
           /\ \A q \in Procs : \/ WakeUp(state, p)[q] = state[q]
                               \/ WakeUp(state, p)[q] = "WAKEN_UP"
BY Zenon DEF WakeUp, States

\* Steps that leave the queue, its lock and the choices of the harts alone, start no
\* process and at most switch one out.
LEMMA FrameStep ==
    ASSUME IInv, UNCHANGED <<queue, qlock, on, at>>,
           state' \in [Procs -> States], hpc' \in [Harts -> HartPCs],
           \A p \in Procs : state'[p] = state[p] \/ state'[p] \notin {"RUNNING", "INIT"},
           \A h \in Harts : hpc'[h] = hpc[h] \/ (hpc[h] = "run" /\ hpc'[h] = "back")
    PROVE  IInv'
<1> USE DEF IInv
<1>1. TypeOK'
  BY Zenon DEF TypeOK
<1>2. InvInit'
  BY Zenon DEF InvInit
<1>3. \A i \in DOMAIN queue : queue[i] \in Procs
  BY DEF TypeOK
<1>4. InvQueue'
  BY <1>3, Zenon DEF InvQueue
<1>5. InvHart'
  BY Zenon DEF InvHart, MayRunOn
<1>6. InvLock'
  BY Zenon DEF InvLock
<1>7. OnePlace'
  BY DEF OnePlace
<1> QED
  BY <1>1, <1>2, <1>4, <1>5, <1>6, <1>7, Zenon

\* The steps of a running process, but for the creation of another, and of the timers.
LEMMA ProcessInv ==
    ASSUME IInv, NEW h \in Harts,
           \/ WakeSleeper(h) \/ Make(h) \/ Wait(h)
           \/ \E p \in Procs : \/ SwitchOut(h, p) \/ Yield(h, p) \/ SleepTimer(h, p)
                               \/ Done(h, p) \/ Exit(h, p)
    PROVE  IInv'
<1>1. state \in [Procs -> States] /\ hpc \in [Harts -> HartPCs]
  BY Zenon DEF IInv, TypeOK
<1> DEFINE Kept == UNCHANGED <<queue, qlock, on, at>>
           States1 == /\ state' \in [Procs -> States]
                      /\ \A p \in Procs : state'[p] = state[p] \/ state'[p] \notin {"RUNNING", "INIT"}
           Harts1 == /\ hpc' \in [Harts -> HartPCs]
                     /\ \A g \in Harts : hpc'[g] = hpc[g] \/ (hpc[g] = "run" /\ hpc'[g] = "back")
<1>2. CASE WakeSleeper(h)
  <2>1. Kept /\ Harts1
    BY <1>1, <1>2, Zenon DEF WakeSleeper
  <2>2. States1
    BY <1>1, <1>2, WakeUpFacts, Zenon DEF WakeSleeper
  <2> QED
    BY <2>1, <2>2, FrameStep, Zenon
<1>3. CASE Make(h)
  <2>1. Kept /\ Harts1 /\ States1
    BY <1>1, <1>3, Zenon DEF Make
  <2> QED
    BY <2>1, FrameStep, Zenon
<1>4. CASE Wait(h)
  <2>1. Kept /\ Harts1
    BY <1>1, <1>4, Zenon DEF Wait
  <2>2. States1
    BY <1>1, <1>4, Zenon DEF Wait, States
  <2> QED
    BY <2>1, <2>2, FrameStep, Zenon
<1>5. ASSUME NEW p \in Procs, SwitchOut(h, p) \/ Yield(h, p) PROVE IInv'
  <2>1. Kept /\ States1
    BY <1>1, <1>5, Zenon DEF SwitchOut, Yield
  <2>2. Harts1
    BY <1>1, <1>5, Zenon DEF SwitchOut, Yield, Running, HartPCs
  <2> QED
    BY <2>1, <2>2, FrameStep, Zenon
<1>6. ASSUME NEW p \in Procs, SleepTimer(h, p) PROVE IInv'
  <2>1. Kept
    BY <1>6, Zenon DEF SleepTimer
  <2>2. Harts1
    BY <1>1, <1>6, Zenon DEF SleepTimer, Running, HartPCs
  <2>3. States1
    BY <1>1, <1>6, Zenon DEF SleepTimer, States
  <2> QED
    BY <2>1, <2>2, <2>3, FrameStep, Zenon
<1>7. ASSUME NEW p \in Procs, Done(h, p) PROVE IInv'
  <2>1. Kept /\ Harts1
    BY <1>1, <1>7, Zenon DEF Done
  <2>2. States1
    BY <1>1, <1>7, WakeUpFacts, Zenon DEF Done
  <2> QED
    BY <2>1, <2>2, FrameStep, Zenon
<1>8. ASSUME NEW p \in Procs, Exit(h, p) PROVE IInv'
  <2>1. Kept
    BY <1>8, Zenon DEF Exit
  <2>2. Harts1
    BY <1>1, <1>8, Zenon DEF Exit, Running, HartPCs
  <2>3. States1
    BY <1>1, <1>8, Zenon DEF Exit, States
  <2> QED
    BY <2>1, <2>2, <2>3, FrameStep, Zenon
<1> QED
  BY <1>2, <1>3, <1>4, <1>5, <1>6, <1>7, <1>8, Zenon

\* The steps of pop() that only look: the lock is taken, the next entry is tested, a
\* woken process is made runnable.
LEMMA ScanInv ==
    ASSUME IInv, NEW h \in Harts, PopStart(h) \/ ScanTest(h) \/ ScanSet(h)
    PROVE  IInv'
<1> USE DEF IInv
<1>0. None \notin Harts /\ None \notin Procs
  BY HartsAssumption, ProcsAssumption, Zenon
<1>1. CASE PopStart(h)
  <2>1. /\ hpc[h] = "top" /\ qlock = None /\ qlock' = h /\ at' = 1 /\ hpc' = [hpc EXCEPT ![h] = "scan"]
        /\ UNCHANGED <<state, queue, on>>
    BY <1>1, Zenon DEF PopStart
  <2>2. TypeOK'
    BY <2>1 DEF TypeOK, HartPCs
  <2>3. InvInit' /\ InvQueue'
    BY <2>1, Zenon DEF InvInit, InvQueue
  <2>4. InvHart'
    BY <2>1, Zenon DEF InvHart, MayRunOn, TypeOK
  <2>5. InvLock'
    BY <1>0, <2>1, Zenon DEF InvLock, TypeOK
  <2>6. OnePlace'
    BY <2>1 DEF OnePlace, TypeOK
  <2> QED
    BY <2>2, <2>3, <2>4, <2>5, <2>6, Zenon
<1>2. CASE ScanTest(h) /\ at > Len(queue)
  <2>1. /\ hpc[h] = "scan" /\ on' = [on EXCEPT ![h] = Idle[h]] /\ qlock' = None /\ at' = 1
        /\ hpc' = [hpc EXCEPT ![h] = "got"] /\ UNCHANGED <<state, queue>>
    BY <1>2, Zenon DEF ScanTest
  <2>2. Idle[h] \in Procs /\ Idle[h] \notin Subs /\ Idle[h] \in IdleSet /\ MayRunOn(Idle[h], h)
    BY ProcsAssumption, Zenon DEF Procs, IdleSet, MayRunOn
  <2>3. TypeOK'
    BY <2>1, <2>2 DEF TypeOK, HartPCs
  <2>4. InvInit' /\ InvQueue'
    BY <2>1, Zenon DEF InvInit, InvQueue
  <2>5. InvHart'
    BY <2>1, <2>2, Zenon DEF InvHart, InvInit, MayRunOn, TypeOK
  <2>6. \A g \in Harts : hpc[g] \in {"scan", "set", "ready"} => g = h
    BY <1>0, <2>1, Zenon DEF InvLock
  <2>7. InvLock'
    BY <2>1, <2>6, Zenon DEF InvLock, TypeOK
  <2>8. on[h] = None /\ \A g \in Harts : g /= h => on[g] /= Idle[h]
    BY <2>1, <2>2, ProcsAssumption DEF InvHart, MayRunOn
  <2>9. OnePlace'
    <3>1. \A g \in Harts : on'[g] = IF g = h THEN Idle[h] ELSE on[g]
      BY <2>1, Zenon DEF TypeOK
    <3>2. \A i \in DOMAIN queue : queue[i] /= Idle[h]
      BY <2>2, Zenon DEF InvQueue
    <3>3. \A g, k \in Harts : on'[g] = on'[k] /\ g /= k => on'[g] = None
      BY <2>8, <3>1 DEF OnePlace
    <3>4. \A g \in Harts, i \in DOMAIN queue : on'[g] /= queue[i]
      BY <3>1, <3>2 DEF OnePlace
    <3>5. \A p \in Procs : state[p] = "RUNNING" =>
             \E g \in Harts : on'[g] = p /\ hpc'[g] \in {"run", "back"}
      <4> SUFFICES ASSUME NEW p \in Procs, state[p] = "RUNNING"
                   PROVE  \E g \in Harts : on'[g] = p /\ hpc'[g] \in {"run", "back"}
        BY Zenon
      <4>1. PICK g \in Harts : on[g] = p /\ hpc[g] \in {"run", "back"}
        BY Zenon DEF OnePlace
      <4>2. g /= h
        BY <2>1, <4>1, Zenon
      <4> QED
        BY <2>1, <4>1, <4>2, Zenon DEF TypeOK
    <3> QED
      BY <2>1, <3>3, <3>4, <3>5 DEF OnePlace
  <2> QED
    BY <2>3, <2>4, <2>5, <2>7, <2>9, Zenon
<1>3. CASE ScanTest(h) /\ ~(at > Len(queue))
  <2>1. /\ hpc[h] = "scan" /\ hpc' \in [Harts -> HartPCs] /\ hpc'[h] \in {"set", "ready"}
        /\ \A g \in Harts : g /= h => hpc'[g] = hpc[g]
        /\ UNCHANGED <<state, queue, on, qlock, at>>
    BY <1>3, Zenon DEF ScanTest, TypeOK, HartPCs
  <2>2. at \in DOMAIN queue
    BY <1>3 DEF TypeOK
  <2>3. TypeOK' /\ InvInit' /\ InvQueue'
    BY <2>1, Zenon DEF TypeOK, InvInit, InvQueue
  <2>4. InvHart' /\ InvLock'
    BY <2>1, <2>2, Zenon DEF InvHart, InvLock, MayRunOn
  <2>5. OnePlace'
    BY <2>1 DEF OnePlace
  <2> QED
    BY <2>3, <2>4, <2>5, Zenon
<1>4. CASE ScanSet(h)
  <2>1. /\ hpc[h] = "set" /\ state' = [state EXCEPT ![queue[at]] = "RUNNABLE"]
        /\ hpc' = [hpc EXCEPT ![h] = "ready"] /\ UNCHANGED <<queue, on, qlock, at>>
    BY <1>4, Zenon DEF ScanSet
  <2>2. at \in DOMAIN queue /\ queue[at] \in Procs
    BY <2>1 DEF InvLock, TypeOK
  <2>3. \A p \in Procs : state'[p] = state[p] \/ state'[p] = "RUNNABLE"
    BY <2>1, Zenon DEF TypeOK
  <2>4. TypeOK' /\ InvInit'
    BY <2>1, <2>3, Zenon DEF TypeOK, InvInit, States, HartPCs
  <2>5. InvQueue'
    BY <2>1, <2>3 DEF InvQueue, TypeOK
  <2>6. InvHart' /\ InvLock'
    BY <2>1, <2>2, <2>3, Zenon DEF InvHart, InvLock, MayRunOn, TypeOK
  <2>7. OnePlace'
    BY <2>1, <2>3 DEF OnePlace, TypeOK
  <2> QED
    BY <2>4, <2>5, <2>6, <2>7, Zenon
<1> QED
  BY <1>1, <1>2, <1>3, <1>4, Zenon

\* pop() takes the process it has found ready out of the queue, or passes over it.
LEMMA ScanReadyInv ==
    ASSUME IInv, NEW h \in Harts, ScanReady(h)
    PROVE  IInv'
<1> USE DEF IInv
<1>0. None \notin Harts /\ None \notin Procs
  BY HartsAssumption, ProcsAssumption, Zenon
<1>a. PICK p : p = queue[at]
  BY Zenon
<1>1. hpc[h] = "ready" /\ qlock = h /\ at \in DOMAIN queue /\ p \in Procs /\ on[h] = None
  BY <1>a DEF ScanReady, InvLock, InvHart, TypeOK
<1>2. \A g \in Harts : hpc[g] \in {"scan", "set", "ready"} => g = h
  BY <1>1, Zenon DEF InvLock
<1>3. CASE state[p] = "RUNNABLE" /\ MayRunOn(p, h)
  <2> DEFINE q == Erase(queue, at)
  <2>1. /\ queue' = q /\ on' = [on EXCEPT ![h] = p] /\ qlock' = None /\ at' = 1
        /\ hpc' = [hpc EXCEPT ![h] = "got"] /\ UNCHANGED state
    BY <1>a, <1>3, Zenon DEF ScanReady
  <2>2. /\ q \in Seq(Procs)
        /\ \A i \in DOMAIN q : i \in Nat /\ q[i] = IF i < at THEN queue[i] ELSE queue[i + 1]
        /\ \A i \in DOMAIN q : i < at => i \in DOMAIN queue
        /\ \A i \in DOMAIN q : i >= at => i + 1 \in DOMAIN queue
        /\ at \in Nat
    BY <1>1, EraseFacts DEF TypeOK
  <2> HIDE DEF q
  <2>3. \A i \in DOMAIN q : \E j \in DOMAIN queue : q[i] = queue[j] /\ j /= at
    BY <2>2
  <2>4. \A i, j \in DOMAIN queue : queue[i] = queue[j] => i = j
    BY Zenon DEF OnePlace
  <2>5. \A i, j \in DOMAIN q : q[i] = q[j] => i = j
    BY <2>2, <2>4
  <2>6. \A i \in DOMAIN q : q[i] /= p
    BY <1>a, <1>1, <2>3, <2>4, Zenon
  <2>7. TypeOK'
    BY <1>1, <2>1, <2>2 DEF TypeOK, HartPCs
  <2>8. InvInit' /\ InvQueue'
    BY <2>1, <2>3, Zenon DEF InvInit, InvQueue
  <2>9. InvHart'
    BY <1>0, <1>1, <1>3, <2>1, Zenon DEF InvHart, MayRunOn, TypeOK
  <2>10. InvLock'
    BY <1>2, <2>1, Zenon DEF InvLock, TypeOK
  <2>11. \A g \in Harts : on'[g] = (IF g = h THEN p ELSE on[g]) /\ on[g] /= p
    BY <1>a, <1>1, <2>1, Zenon DEF TypeOK, OnePlace
  <2>12. \A g, k \in Harts : on'[g] = on'[k] /\ g /= k => on'[g] = None
    BY <2>11 DEF OnePlace
  <2>13. \A g \in Harts, i \in DOMAIN q : on'[g] /= q[i]
    BY <2>3, <2>6, <2>11 DEF OnePlace
  <2>14. \A x \in Procs : state[x] = "RUNNING" =>
             \E g \in Harts : on'[g] = x /\ hpc'[g] \in {"run", "back"}
    <3> SUFFICES ASSUME NEW x \in Procs, state[x] = "RUNNING"
                 PROVE  \E g \in Harts : on'[g] = x /\ hpc'[g] \in {"run", "back"}
      BY Zenon
    <3>1. PICK g \in Harts : on[g] = x /\ hpc[g] \in {"run", "back"}
      BY Zenon DEF OnePlace
    <3>2. g /= h
      BY <1>1, <3>1, Zenon
    <3> QED
      BY <2>1, <3>1, <3>2, Zenon DEF TypeOK
  <2>15. OnePlace'
    BY <2>1, <2>5, <2>12, <2>13, <2>14 DEF OnePlace
  <2> QED
    BY <2>7, <2>8, <2>9, <2>10, <2>15, Zenon
<1>4. CASE ~(state[p] = "RUNNABLE" /\ MayRunOn(p, h))
  <2>1. /\ at' = at + 1 /\ hpc' = [hpc EXCEPT ![h] = "scan"] /\ UNCHANGED <<state, queue, on, qlock>>
    BY <1>a, <1>4, Zenon DEF ScanReady
  <2>2. TypeOK'
    BY <2>1 DEF TypeOK, HartPCs
  <2>3. InvInit' /\ InvQueue'
    BY <2>1, Zenon DEF InvInit, InvQueue
  <2>4. InvHart' /\ InvLock'
    BY <1>1, <1>2, <2>1, Zenon DEF InvHart, InvLock, MayRunOn, TypeOK
  <2>5. OnePlace'
    BY <1>1, <2>1 DEF OnePlace, TypeOK
  <2> QED
    BY <2>2, <2>3, <2>4, <2>5, Zenon
<1> QED
  BY <1>3, <1>4, Zenon

\* The two halves of run(): a process becomes RUNNING on the hart that has it, and
\* stops being so before the hart lets go of it.
LEMMA RunInv ==
    ASSUME IInv, NEW h \in Harts, RunEnter(h) \/ RunLeave(h)
    PROVE  IInv'
<1> USE DEF IInv
<1>0. None \notin Harts /\ None \notin Procs
  BY HartsAssumption, ProcsAssumption, Zenon
<1>a. PICK p : p = on[h]
  BY Zenon
<1>1. hpc[h] \in {"got", "back"} /\ p \in Procs /\ state[p] /= "INIT" /\ UNCHANGED <<queue, qlock, at>>
  BY <1>a, Zenon DEF RunEnter, RunLeave, InvHart
<1>2. \A g \in Harts : on[g] = p => g = h
  BY <1>a, <1>0, <1>1, Zenon DEF OnePlace
<1>3. \A i \in DOMAIN queue : queue[i] /= p /\ queue[i] \in Procs
  BY <1>a DEF OnePlace, TypeOK
<1>4. \* the hart drops an exited process
      ASSUME state[p] = "EXITED", on' = [on EXCEPT ![h] = None], hpc' = [hpc EXCEPT ![h] = "top"],
             state' = [state EXCEPT ![p] = "EXITED"] \/ state' = state
      PROVE  IInv'
  <2>1. state' = state
    BY <1>1, <1>4, Zenon DEF TypeOK
  <2>2. TypeOK'
    BY <1>1, <1>4, <2>1, Zenon DEF TypeOK, HartPCs
  <2>3. InvInit' /\ InvQueue'
    BY <1>1, <2>1, Zenon DEF InvInit, InvQueue
  <2>4. InvHart' /\ InvLock'
    BY <1>0, <1>1, <1>4, <2>1, Zenon DEF InvHart, InvLock, MayRunOn, TypeOK
  <2>5. \A g \in Harts : on'[g] = IF g = h THEN None ELSE on[g]
    BY <1>4, Zenon DEF TypeOK
  <2>6. \A x \in Procs : state[x] = "RUNNING" =>
             \E g \in Harts : on'[g] = x /\ hpc'[g] \in {"run", "back"}
    <3> SUFFICES ASSUME NEW x \in Procs, state[x] = "RUNNING"
                 PROVE  \E g \in Harts : on'[g] = x /\ hpc'[g] \in {"run", "back"}
      BY Zenon
    <3>1. PICK g \in Harts : on[g] = x /\ hpc[g] \in {"run", "back"}
      BY Zenon DEF OnePlace
    <3>2. g /= h
      BY <1>a, <1>4, <3>1, Zenon
    <3> QED
      BY <1>4, <3>1, <3>2, Zenon DEF TypeOK
  <2>7. OnePlace'
    BY <1>0, <1>1, <1>3, <2>1, <2>5, <2>6 DEF OnePlace
  <2> QED
    BY <2>2, <2>3, <2>4, <2>7, Zenon
<1>5. \* the hart keeps it
      ASSUME on' = on, state' \in [Procs -> States], hpc' \in [Harts -> HartPCs],
             hpc'[h] \in {"run", "push", "panic"},
             \A g \in Harts : g /= h => hpc'[g] = hpc[g],
             \A x \in Procs : x /= p => state'[x] = state[x],
             state'[p] /= "INIT", state'[p] = "RUNNING" => hpc'[h] = "run"
      PROVE  IInv'
  <2>1. TypeOK'
    BY <1>1, <1>5, Zenon DEF TypeOK
  <2>2. InvInit'
    BY <1>5, Zenon DEF InvInit
  <2>3. InvQueue'
    BY <1>1, <1>3, <1>5, Zenon DEF InvQueue
  <2>4. InvHart'
    BY <1>a, <1>1, <1>2, <1>5, Zenon DEF InvHart, MayRunOn
  <2>5. InvLock'
    BY <1>1, <1>5, Zenon DEF InvLock
  <2>6. \A x \in Procs : state'[x] = "RUNNING" =>
             \E g \in Harts : on'[g] = x /\ hpc'[g] \in {"run", "back"}
    <3> SUFFICES ASSUME NEW x \in Procs, state'[x] = "RUNNING"
                 PROVE  \E g \in Harts : on'[g] = x /\ hpc'[g] \in {"run", "back"}
      BY Zenon
    <3>1. CASE x = p
      BY <1>a, <1>5, <3>1, Zenon
    <3>2. CASE x /= p
      <4>1. PICK g \in Harts : on[g] = x /\ hpc[g] \in {"run", "back"}
        BY <1>5, <3>2 DEF OnePlace
      <4> QED
        BY <1>a, <1>5, <3>2, <4>1, Zenon
    <3> QED
      BY <3>1, <3>2, Zenon
  <2>7. OnePlace'
    BY <1>1, <1>5, <2>6 DEF OnePlace
  <2> QED
    BY <2>1, <2>2, <2>3, <2>4, <2>5, <2>7, Zenon
<1>6. CASE RunEnter(h)
  <2>1. CASE state[p] = "EXITED"
    <3>1. on' = [on EXCEPT ![h] = None] /\ hpc' = [hpc EXCEPT ![h] = "top"] /\ state' = state
      BY <1>a, <1>6, <2>1, Zenon DEF RunEnter
    <3> QED
      BY <1>4, <2>1, <3>1, Zenon
  <2>2. CASE state[p] = "RUNNABLE"
    <3>1. state' = [state EXCEPT ![p] = "RUNNING"] /\ hpc' = [hpc EXCEPT ![h] = "run"] /\ on' = on
      BY <1>a, <1>6, <2>2, Zenon DEF RunEnter
    <3>2. /\ state' \in [Procs -> States] /\ state'[p] = "RUNNING"
          /\ \A x \in Procs : x /= p => state'[x] = state[x]
      BY <1>1, <3>1, Zenon DEF TypeOK, States
    <3>3. /\ hpc' \in [Harts -> HartPCs] /\ hpc'[h] = "run" /\ \A g \in Harts : g /= h => hpc'[g] = hpc[g]
      BY <3>1, Zenon DEF TypeOK, HartPCs
    <3> QED
      BY <1>5, <3>1, <3>2, <3>3, Zenon
  <2>3. CASE state[p] /= "EXITED" /\ state[p] /= "RUNNABLE"
    <3>1. hpc' = [hpc EXCEPT ![h] = "panic"] /\ on' = on /\ state' = state
      BY <1>a, <1>6, <2>3, Zenon DEF RunEnter
    <3>2. /\ hpc' \in [Harts -> HartPCs] /\ hpc'[h] = "panic" /\ \A g \in Harts : g /= h => hpc'[g] = hpc[g]
      BY <3>1, Zenon DEF TypeOK, HartPCs
    <3>3. state[p] /= "RUNNING"
      <4>1. hpc[h] = "got"
        BY <1>6, Zenon DEF RunEnter
      <4> QED
        BY <1>1, <1>2, <4>1, Zenon DEF OnePlace
    <3> QED
      BY <1>1, <1>5, <3>1, <3>2, <3>3, Zenon DEF TypeOK
  <2> QED
    BY <2>1, <2>2, <2>3, Zenon
<1>7. CASE RunLeave(h)
  <2>1. CASE state[p] = "EXITED"
    <3>1. /\ on' = [on EXCEPT ![h] = None] /\ hpc' = [hpc EXCEPT ![h] = "top"]
          /\ state' = [state EXCEPT ![p] = "EXITED"]
      BY <1>a, <1>7, <2>1, Zenon DEF RunLeave
    <3> QED
      BY <1>4, <2>1, <3>1, Zenon
  <2>2. CASE state[p] /= "EXITED"
    <3>1. /\ hpc' = [hpc EXCEPT ![h] = "push"] /\ on' = on
          /\ \E st \in {"SLEEPING", "RUNNABLE", "WAKEN_UP"} : state' = [state EXCEPT ![p] = st]
      BY <1>a, <1>7, <2>2, Zenon DEF RunLeave
    <3>2. /\ state' \in [Procs -> States] /\ state'[p] \in {"SLEEPING", "RUNNABLE", "WAKEN_UP"}
          /\ \A x \in Procs : x /= p => state'[x] = state[x]
      BY <1>1, <3>1, Zenon DEF TypeOK, States
    <3>3. /\ hpc' \in [Harts -> HartPCs] /\ hpc'[h] = "push" /\ \A g \in Harts : g /= h => hpc'[g] = hpc[g]
      BY <3>1, Zenon DEF TypeOK, HartPCs
    <3> QED
      BY <1>5, <3>1, <3>2, <3>3, Zenon
  <2> QED
    BY <2>1, <2>2, Zenon
<1> QED
  BY <1>6, <1>7, Zenon

\* A process that is neither queued nor on a hart enters the queue at its end.
LEMMA AppendOnce ==
    ASSUME IInv, NEW p \in Procs, p \notin IdleSet, qlock = None,
           \A i \in DOMAIN queue : queue[i] /= p
    PROVE  LET q == Append(queue, p) IN
           /\ q \in Seq(Procs)
           /\ \A i \in DOMAIN q : q[i] = p \/ \E j \in DOMAIN queue : q[i] = queue[j]
           /\ \A i, j \in DOMAIN q : q[i] = q[j] => i = j
           /\ \A i \in DOMAIN queue : i \in DOMAIN q
<1> DEFINE q == Append(queue, p)
<1>1. queue \in Seq(Procs) /\ \A i, j \in DOMAIN queue : queue[i] = queue[j] => i = j
  BY Zenon DEF IInv, TypeOK, OnePlace
<1>2. /\ q \in Seq(Procs)
      /\ \A i \in DOMAIN q : i \in DOMAIN queue \/ i = Len(queue) + 1
      /\ \A i \in DOMAIN queue : q[i] = queue[i] /\ i \in DOMAIN q
      /\ q[Len(queue) + 1] = p
  BY <1>1, AppendFacts, Zenon
<1> HIDE DEF q
<1>3. \A i, j \in DOMAIN q : q[i] = q[j] => i = j
  BY <1>1, <1>2, Zenon
<1>4. \A i \in DOMAIN q : q[i] = p \/ \E j \in DOMAIN queue : q[i] = queue[j]
  BY <1>2, Zenon
<1> QED
  BY <1>2, <1>3, <1>4, Zenon DEF q

\* run() puts the process it has back into the queue, unless it is the idle process.
LEMMA PushInv ==
    ASSUME IInv, NEW h \in Harts, Push(h)
    PROVE  IInv'
<1> USE DEF IInv
<1>0. None \notin Harts /\ None \notin Procs
  BY HartsAssumption, ProcsAssumption, Zenon
<1>a. PICK p : p = on[h]
  BY Zenon
<1>1. /\ hpc[h] = "push" /\ qlock = None /\ UNCHANGED <<state, qlock, at>>
      /\ on' = [on EXCEPT ![h] = None] /\ hpc' = [hpc EXCEPT ![h] = "top"]
      /\ queue' = IF p = Idle[h] THEN queue ELSE Append(queue, p)
  BY <1>a, Zenon DEF Push
<1>2. p \in Procs /\ state[p] /= "INIT" /\ MayRunOn(p, h)
  BY <1>a, <1>1, Zenon DEF InvHart
<1>3. \A g \in Harts : on'[g] = (IF g = h THEN None ELSE on[g]) /\ (on[g] = p => g = h)
  BY <1>a, <1>0, <1>1, <1>2 DEF OnePlace, TypeOK
<1>4. state[p] /= "RUNNING"
  BY <1>1, <1>2, <1>3, Zenon DEF OnePlace
<1>5. \A g \in Harts : hpc[g] \notin {"scan", "set", "ready"}
  BY <1>0, <1>1, Zenon DEF InvLock
<1>6. InvInit' /\ InvHart' /\ InvLock'
  BY <1>0, <1>1, <1>5, Zenon DEF InvInit, InvHart, InvLock, MayRunOn, TypeOK
<1>7. /\ queue' \in Seq(Procs)
      /\ \A i \in DOMAIN queue' : (queue'[i] = p /\ p \notin IdleSet) \/ \E j \in DOMAIN queue : queue'[i] = queue[j]
      /\ \A i, j \in DOMAIN queue' : queue'[i] = queue'[j] => i = j
  <2>1. CASE p = Idle[h]
    BY <1>1, <2>1, Zenon DEF TypeOK, OnePlace
  <2>2. CASE p /= Idle[h]
    <3>1. p \notin IdleSet
      BY <1>2, <2>2, Zenon DEF IdleSet, MayRunOn
    <3>2. \A i \in DOMAIN queue : queue[i] /= p
      BY <1>a, Zenon DEF OnePlace
    <3> QED
      BY <1>1, <1>2, <2>2, <3>1, <3>2, AppendOnce, Zenon
  <2> QED
    BY <2>1, <2>2, Zenon
<1>8. TypeOK'
  BY <1>1, <1>7, Zenon DEF TypeOK, HartPCs
<1>9. InvQueue'
  BY <1>1, <1>2, <1>4, <1>7, Zenon DEF InvQueue
<1>10. \A g \in Harts, i \in DOMAIN queue' : on'[g] /= queue'[i]
  <2>1. \A i \in DOMAIN queue' : queue'[i] \in Procs
    BY <1>7
  <2> QED
    BY <1>0, <1>3, <1>7, <2>1 DEF OnePlace
<1>11. \A x \in Procs : state[x] = "RUNNING" =>
             \E g \in Harts : on'[g] = x /\ hpc'[g] \in {"run", "back"}
  <2> SUFFICES ASSUME NEW x \in Procs, state[x] = "RUNNING"
               PROVE  \E g \in Harts : on'[g] = x /\ hpc'[g] \in {"run", "back"}
    BY Zenon
  <2>1. PICK g \in Harts : on[g] = x /\ hpc[g] \in {"run", "back"}
    BY Zenon DEF OnePlace
  <2>2. g /= h
    BY <1>1, <2>1, Zenon
  <2> QED
    BY <1>1, <2>1, <2>2, Zenon DEF TypeOK
<1>12. OnePlace'
  BY <1>1, <1>3, <1>7, <1>10, <1>11 DEF OnePlace
<1> QED
  BY <1>6, <1>8, <1>9, <1>12, Zenon

\* A new process enters the queue.
LEMMA CreateInv ==
    ASSUME IInv, NEW h \in Harts, NEW p \in Subs, Create(h, p)
    PROVE  IInv'
<1> USE DEF IInv
<1>0. None \notin Harts /\ None \notin Procs
  BY HartsAssumption, ProcsAssumption, Zenon
<1>1. /\ state[p] = "INIT" /\ qlock = None /\ state' = [state EXCEPT ![p] = "WAKEN_UP"]
      /\ queue' = Append(queue, p) /\ UNCHANGED <<qlock, on, hpc, at>>
  BY Zenon DEF Create
<1>2. p \in Procs /\ p \notin IdleSet
  BY ProcsAssumption, Zenon DEF Procs, IdleSet
<1>3. (\A i \in DOMAIN queue : queue[i] /= p) /\ \A g \in Harts : on[g] /= p
  BY <1>0, <1>1, <1>2, Zenon DEF InvQueue, InvHart, TypeOK, HartPCs
<1>4. /\ queue' \in Seq(Procs)
      /\ \A i \in DOMAIN queue' : queue'[i] = p \/ \E j \in DOMAIN queue : queue'[i] = queue[j]
      /\ \A i, j \in DOMAIN queue' : queue'[i] = queue'[j] => i = j
  BY <1>1, <1>2, <1>3, AppendOnce, Zenon
<1>5. state'[p] = "WAKEN_UP" /\ state' \in [Procs -> States] /\ \A x \in Procs : x /= p => state'[x] = state[x]
  BY <1>1, <1>2, Zenon DEF TypeOK, States
<1>6. TypeOK'
  BY <1>1, <1>4, <1>5, Zenon DEF TypeOK
<1>7. InvInit'
  BY <1>5, Zenon DEF InvInit
<1>8. InvQueue'
  <2>1. \A j \in DOMAIN queue : queue[j] \in Procs
    BY DEF TypeOK
  <2> QED
    BY <1>2, <1>3, <1>4, <1>5, <2>1 DEF InvQueue
<1>9. InvHart'
  BY <1>1, <1>3, <1>5, Zenon DEF InvHart, MayRunOn
<1>10. InvLock'
  BY <1>0, <1>1, Zenon DEF InvLock
<1>11. OnePlace'
  BY <1>1, <1>3, <1>4, <1>5 DEF OnePlace
<1> QED
  BY <1>6, <1>7, <1>8, <1>9, <1>10, <1>11, Zenon

-----------------------------------------------------------------------------
(* Wake-ups and what pop() hands out *)

InQueue(p) == \E i \in DOMAIN queue : queue[i] = p

\* The task_scheduler process of a hart never sleeps and never returns, so it is
\* on its hart or in the queue, where pop() reaches it before the end.
InvScheduler ==
    \A h \in Harts :
        /\ ppc[Scheduler[h]] = "work"
        /\ state[Scheduler[h]] \in {"WAKEN_UP", "RUNNABLE", "RUNNING"}
        /\ on[h] = Scheduler[h] \/ InQueue(Scheduler[h])
        /\ hpc[h] \in {"scan", "set", "ready"} =>
              \E i \in DOMAIN queue : i >= at /\ queue[i] = Scheduler[h]
        /\ hpc[h] = "ready" /\ queue[at] = Scheduler[h] => state[Scheduler[h]] = "RUNNABLE"

\* What a hart has chosen is still runnable when run() looks at it.
InvChosen ==
    \A h \in Harts :
        /\ hpc[h] = "got" => state[on[h]] = "RUNNABLE"
        /\ hpc[h] /= "panic"

PanicInv == ppc \in [Procs -> ProcPCs] /\ InvScheduler /\ InvChosen

Ended == {p \in Subs : ppc[p] = "end"}

TypeWake ==
    /\ ppc \in [Procs -> ProcPCs]
    /\ sleepers \in [Harts -> Seq(Subs)]
    /\ sleeper \in {None, Main}
    /\ complete = Cardinality(Ended)

\* Only the waiting process sleeps in the wait queue, and only the others for a time.
InvSleep ==
    \A p \in Procs : state[p] = "SLEEPING" =>
        \/ p = Main /\ sleeper = Main /\ complete < Cardinality(Subs)
        \/ p \in Subs /\ \E h \in Harts : p \in Range(sleepers[h])

WakeInv == TypeWake /\ InvSleep

-----------------------------------------------------------------------------
(* Wake-ups *)

\* Who is who.
LEMMA ProcFacts ==
    /\ None \notin Harts /\ None \notin Procs /\ Main \in Procs /\ Main \notin Subs
    /\ Subs \subseteq Procs
    /\ \A h \in Harts : /\ Scheduler[h] \in Procs /\ Scheduler[h] /= Main /\ Scheduler[h] \notin Subs
                        /\ Idle[h] /= Main /\ Idle[h] \notin Subs
                        /\ MayRunOn(Scheduler[h], h)
    /\ \A g, h \in Harts : Scheduler[g] = Scheduler[h] => g = h
    /\ \A g, h \in Harts : Scheduler[g] /= Idle[h]
<1>1. \A h \in Harts : {Idle[h], Scheduler[h]} \cap (Subs \cup {Main}) = {}
  BY ProcsAssumption, Zenon
<1>2. \A h \in Harts : /\ Scheduler[h] /= Main /\ Scheduler[h] \notin Subs
                       /\ Idle[h] /= Main /\ Idle[h] \notin Subs
  BY <1>1, Zenon
<1>3. \A h \in Harts : MayRunOn(Scheduler[h], h)
  BY ProcsAssumption, Zenon DEF MayRunOn
<1> QED
  BY <1>2, <1>3, ProcsAssumption, HartsAssumption, Zenon DEF Procs

\* A step that puts no process to sleep and reports no completion.
LEMMA WakeFrame ==
    ASSUME WakeInv, UNCHANGED <<sleepers, sleeper, complete>>, ppc' \in [Procs -> ProcPCs],
           \A p \in Subs : ppc'[p] = "end" <=> ppc[p] = "end",
           \A p \in Procs : state'[p] = "SLEEPING" => state[p] = "SLEEPING"
    PROVE  WakeInv'
<1>1. Ended' = Ended
  BY Zenon DEF Ended
<1>2. TypeWake'
  BY <1>1, Zenon DEF WakeInv, TypeWake
<1>3. InvSleep'
  BY Zenon DEF WakeInv, InvSleep
<1> QED
  BY <1>2, <1>3, Zenon DEF WakeInv

\* The scheduler's own steps and those of a process that neither sleeps nor reports.
LEMMA WakeSched ==
    ASSUME IInv, WakeInv, NEW h \in Harts,
           \/ Sched(h)
           \/ \E p \in Procs : SwitchOut(h, p) \/ Yield(h, p) \/ Exit(h, p)
           \/ Make(h) \/ \E p \in Subs : Create(h, p)
    PROVE  WakeInv'
<1> USE DEF IInv, TypeOK, WakeInv, TypeWake
<1>1. CASE PopStart(h)
  BY <1>1, WakeFrame, Zenon DEF PopStart
<1>2. CASE ScanTest(h)
  BY <1>2, WakeFrame, Zenon DEF ScanTest
<1>3. CASE ScanSet(h)
  BY <1>3, WakeFrame, Zenon DEF ScanSet
<1>4. CASE ScanReady(h)
  BY <1>4, WakeFrame, Zenon DEF ScanReady
<1>5. CASE RunEnter(h)
  BY <1>5, WakeFrame, Zenon DEF RunEnter
<1>6. CASE RunLeave(h)
  BY <1>6, WakeFrame, Zenon DEF RunLeave
<1>7. CASE Push(h)
  BY <1>7, WakeFrame, Zenon DEF Push
<1>8. ASSUME NEW p \in Procs, SwitchOut(h, p) PROVE WakeInv'
  BY <1>8, WakeFrame, Zenon DEF SwitchOut
<1>9. ASSUME NEW p \in Procs, Yield(h, p) PROVE WakeInv'
  BY <1>9, WakeFrame, ProcFacts, Zenon DEF Yield, ProcPCs
<1>10. ASSUME NEW p \in Procs, Exit(h, p) PROVE WakeInv'
  BY <1>10, WakeFrame, Zenon DEF Exit
<1>11. CASE Make(h)
  BY <1>11, WakeFrame, ProcFacts, Zenon DEF Make, ProcPCs
<1>12. ASSUME NEW p \in Subs, Create(h, p) PROVE WakeInv'
  BY <1>12, WakeFrame, ProcFacts DEF Create, ProcPCs
<1> QED
  BY <1>1, <1>2, <1>3, <1>4, <1>5, <1>6, <1>7, <1>8, <1>9, <1>10, <1>11, <1>12, Zenon DEF Sched

\* cpu::sleep(ticks) enters the timer list before the process is off its hart.
LEMMA WakeSleepTimer ==
    ASSUME IInv, WakeInv, NEW h \in Harts, NEW p \in Procs, SleepTimer(h, p)
    PROVE  WakeInv'
<1> USE DEF IInv, TypeOK, WakeInv, TypeWake
<1>1. /\ p \in Subs /\ ppc[p] = "work" /\ ppc' = [ppc EXCEPT ![p] = "slept"]
      /\ sleepers' = [sleepers EXCEPT ![h] = Append(@, p)]
      /\ state' = [state EXCEPT ![p] = IF @ = "RUNNING" THEN "SLEEPING" ELSE @]
      /\ UNCHANGED <<sleeper, complete>>
  BY Zenon DEF SleepTimer
<1>2. PICK s : s = sleepers[h]
  BY Zenon
<1>3. s \in Seq(Subs) /\ Append(s, p) \in Seq(Subs)
  BY <1>1, <1>2
<1>4. Range(s) \cup {p} \subseteq Range(Append(s, p))
  <2>1. /\ \A i \in DOMAIN s : Append(s, p)[i] = s[i] /\ i \in DOMAIN Append(s, p)
        /\ Len(s) + 1 \in DOMAIN Append(s, p) /\ Append(s, p)[Len(s) + 1] = p
    BY <1>1, <1>3, AppendFacts
  <2>2. \A x \in Range(s) : \E i \in DOMAIN s : x = s[i]
    BY Zenon DEF Range
  <2>3. \A i \in DOMAIN Append(s, p) : Append(s, p)[i] \in Range(Append(s, p))
    BY Zenon DEF Range
  <2> QED
    BY <2>1, <2>2, <2>3, ZenonT(60)
<1>5. Ended' = Ended
  BY <1>1 DEF Ended
<1>6. /\ sleepers' \in [Harts -> Seq(Subs)] /\ sleepers'[h] = Append(s, p)
      /\ \A g \in Harts : g /= h => sleepers'[g] = sleepers[g]
  BY <1>1, <1>2, <1>3, Zenon
<1>7. TypeWake'
  BY <1>1, <1>5, <1>6, Zenon DEF ProcPCs
<1>8. ASSUME NEW g \in Harts PROVE Range(sleepers[g]) \subseteq Range(sleepers'[g])
  BY <1>2, <1>4, <1>6, Zenon
<1>9. p \in Range(sleepers'[h])
  BY <1>4, <1>6, Zenon
<1>10. InvSleep'
  BY <1>1, <1>8, <1>9, ProcFacts DEF InvSleep
<1> QED
  BY <1>7, <1>10, Zenon

\* cpu::wake_up wakes the process it takes out of the timer list.
LEMMA WakeTimer ==
    ASSUME IInv, WakeInv, NEW h \in Harts, WakeSleeper(h)
    PROVE  WakeInv'
<1> USE DEF IInv, TypeOK, WakeInv, TypeWake
<1>1. PICK s, p : s = sleepers[h] /\ p = Head(s)
  BY Zenon
<1>2. /\ s /= <<>> /\ state' = WakeUp(state, p) /\ sleepers' = [sleepers EXCEPT ![h] = Tail(s)]
      /\ UNCHANGED <<ppc, sleeper, complete>>
  BY <1>1, Zenon DEF WakeSleeper
<1>3. s \in Seq(Subs)
  BY <1>1, Zenon
<1>4. p \in Subs /\ Tail(s) \in Seq(Subs) /\ Range(s) \subseteq Range(Tail(s)) \cup {p}
  <2>1. p \in Subs /\ Tail(s) \in Seq(Subs) /\ p = s[1]
    BY <1>1, <1>2, <1>3
  <2>2. ASSUME NEW i \in DOMAIN s, i /= 1 PROVE i - 1 \in DOMAIN Tail(s) /\ Tail(s)[i - 1] = s[i]
    BY <1>2, <1>3, <2>2
  <2>3. \A x \in Range(s) : \E i \in DOMAIN s : x = s[i]
    BY Zenon DEF Range
  <2>4. \A i \in DOMAIN Tail(s) : Tail(s)[i] \in Range(Tail(s))
    BY Zenon DEF Range
  <2>5. ASSUME NEW x \in Range(s), x /= p PROVE x \in Range(Tail(s))
    <3>1. PICK i \in DOMAIN s : x = s[i]
      BY <2>3, Zenon
    <3>2. i /= 1
      BY <2>1, <2>5, <3>1, Zenon
    <3> QED
      BY <2>2, <2>4, <3>1, <3>2, Zenon
  <2> QED
    BY <2>1, <2>5, Zenon
<1>5. sleepers' \in [Harts -> Seq(Subs)] /\ sleepers'[h] = Tail(s)
      /\ \A g \in Harts : g /= h => sleepers'[g] = sleepers[g]
  BY <1>2, <1>4, Zenon
<1>6. TypeWake'
  BY <1>2, <1>5, Zenon DEF Ended
<1>7. \A q \in Procs : state'[q] = "SLEEPING" => q /= p /\ state[q] = "SLEEPING"
  BY <1>2, <1>4, ProcFacts, Zenon DEF WakeUp
<1>8. ASSUME NEW g \in Harts PROVE Range(sleepers[g]) \subseteq Range(sleepers'[g]) \cup {p}
  BY <1>1, <1>4, <1>5, Zenon
<1>9. InvSleep'
  BY <1>2, <1>7, <1>8, Zenon DEF InvSleep
<1> QED
  BY <1>6, <1>9, Zenon

-----------------------------------------------------------------------------
(* What pop() hands out *)

\* What is left in the queue when pop() takes an element.
LEMMA EraseKeeps ==
    ASSUME NEW S, NEW s \in Seq(S), NEW k \in DOMAIN s, NEW i \in DOMAIN s, i /= k
    PROVE  \E j \in DOMAIN Erase(s, k) : Erase(s, k)[j] = s[i]
<1>1. Len(s) \in Nat /\ DOMAIN s = 1..Len(s) /\ k \in Nat /\ k >= 1 /\ k <= Len(s)
  OBVIOUS
<1>2. PICK l : l = SubSeq(s, 1, k - 1)
  BY Zenon
<1>3. PICK r : r = SubSeq(s, k + 1, Len(s))
  BY Zenon
<1>4. l \in Seq(S) /\ Len(l) = k - 1 /\ r \in Seq(S) /\ Len(r) = Len(s) - k
  BY <1>1, <1>2, <1>3
<1>5. Erase(s, k) = l \o r
  BY <1>2, <1>3, Zenon DEF Erase
<1>6. DOMAIN Erase(s, k) = 1..(Len(s) - 1)
  <2>1. Len(l) + Len(r) = Len(s) - 1
    BY <1>1, <1>4
  <2> QED
    BY <1>4, <1>5, <2>1, ConcatFacts, Zenon
<1>7. \A j \in DOMAIN Erase(s, k) : Erase(s, k)[j] = IF j < k THEN s[j] ELSE s[j + 1]
  BY EraseFacts, Zenon
<1>8. CASE i < k
  <2>1. i \in DOMAIN Erase(s, k)
    BY <1>1, <1>6, <1>8
  <2> QED
    BY <1>7, <1>8, <2>1, Zenon
<1>9. CASE ~(i < k)
  <2>1. i - 1 \in DOMAIN Erase(s, k) /\ ~(i - 1 < k) /\ i - 1 + 1 = i
    BY <1>1, <1>6, <1>9
  <2> QED
    BY <1>7, <2>1, Zenon
<1> QED
  BY <1>8, <1>9, Zenon

LEMMA PanicInit == Init => PanicInv
<1> SUFFICES ASSUME Init PROVE PanicInv
  BY Zenon
<1> DEFINE S == {Scheduler[h] : h \in Harts} \cup {Main}
<1>1. \A p \in S : InQueue(p)
  <2>1. queue \in Surjection(1..Cardinality(S), S)
    BY Zenon DEF Init, Bijection
  <2> QED
    BY <2>1, Zenon DEF Surjection, InQueue
<1>2. ppc \in [Procs -> ProcPCs]
  BY Zenon DEF Init, ProcPCs
<1>3. InvScheduler
  BY <1>1, ProcFacts, Zenon DEF Init, InvScheduler
<1>4. InvChosen
  BY Zenon DEF Init, InvChosen
<1> QED
  BY <1>2, <1>3, <1>4, Zenon DEF PanicInv

\* Steps that leave the queue and the choices of the harts alone and at most write
\* the state of a process that runs and is no task_scheduler.
LEMMA PanicFrame ==
    ASSUME IInv, PanicInv, UNCHANGED <<queue, at, on>>,
           ppc' \in [Procs -> ProcPCs], \A h \in Harts : ppc'[Scheduler[h]] = ppc[Scheduler[h]],
           \A h \in Harts : hpc'[h] = hpc[h] \/ (hpc[h] = "run" /\ hpc'[h] = "back"),
           \A p \in Procs :
               \/ state'[p] = state[p]
               \/ state[p] = "SLEEPING"
               \/ ppc[p] /= "work" /\ \E h \in Harts : on[h] = p /\ hpc[h] = "run"
               \/ p \in Subs /\ \E h \in Harts : on[h] = p /\ hpc[h] = "run"
    PROVE  PanicInv'
<1> USE DEF PanicInv
<1>1. \A h \in Harts : Scheduler[h] \in Procs /\ state'[Scheduler[h]] = state[Scheduler[h]]
  BY ProcFacts DEF InvScheduler
<1>2. InvScheduler'
  BY <1>1 DEF InvScheduler, InQueue
<1>3. ASSUME NEW h \in Harts, hpc[h] = "got" PROVE state'[on[h]] = "RUNNABLE"
  <2>1. on[h] \in Procs /\ state[on[h]] = "RUNNABLE"
    BY <1>3, Zenon DEF IInv, InvHart, InvChosen
  <2>2. \A g \in Harts : on[g] = on[h] => hpc[g] /= "run"
    BY <1>3, <2>1, ProcFacts DEF IInv, OnePlace
  <2> QED
    BY <2>1, <2>2, Zenon
<1>4. InvChosen'
  BY <1>3 DEF InvChosen
<1> QED
  BY <1>2, <1>4, Zenon

\* The steps of running processes, but for the creation of another, and of the timers.
LEMMA PanicProcess ==
    ASSUME IInv, PanicInv, NEW h \in Harts,
           \/ WakeSleeper(h) \/ Make(h) \/ Wait(h)
           \/ \E p \in Procs : \/ SwitchOut(h, p) \/ Yield(h, p) \/ SleepTimer(h, p)
                               \/ Done(h, p) \/ Exit(h, p)
    PROVE  PanicInv'
<1>1. /\ state \in [Procs -> States] /\ hpc \in [Harts -> HartPCs] /\ ppc \in [Procs -> ProcPCs]
      /\ \A g \in Harts : ppc[Scheduler[g]] = "work"
  BY Zenon DEF IInv, TypeOK, PanicInv, InvScheduler
<1> DEFINE Kept == UNCHANGED <<queue, on, at>>
           Places == /\ ppc' \in [Procs -> ProcPCs]
                     /\ \A g \in Harts : ppc'[Scheduler[g]] = ppc[Scheduler[g]]
           Harts1 == \A g \in Harts : hpc'[g] = hpc[g] \/ (hpc[g] = "run" /\ hpc'[g] = "back")
           States1 == \A p \in Procs :
                         \/ state'[p] = state[p]
                         \/ state[p] = "SLEEPING"
                         \/ ppc[p] /= "work" /\ \E g \in Harts : on[g] = p /\ hpc[g] = "run"
                         \/ p \in Subs /\ \E g \in Harts : on[g] = p /\ hpc[g] = "run"
<1> SUFFICES Kept /\ Places /\ Harts1 /\ States1
  BY PanicFrame, Zenon
<1>2. CASE WakeSleeper(h)
  BY <1>1, <1>2, Zenon DEF WakeSleeper, WakeUp
<1>3. CASE Make(h)
  BY <1>1, <1>3, ProcFacts, Zenon DEF Make, ProcPCs
<1>4. CASE Wait(h)
  <2>1. Kept /\ Harts1
    BY <1>4, Zenon DEF Wait
  <2>2. Places
    BY <1>1, <1>4, ProcFacts DEF Wait, ProcPCs
  <2>3. States1
    BY <1>1, <1>4, Zenon DEF Wait, Running
  <2> QED
    BY <2>1, <2>2, <2>3, Zenon
<1>5. ASSUME NEW p \in Procs, SwitchOut(h, p) PROVE Kept /\ Places /\ Harts1 /\ States1
  BY <1>1, <1>5, Zenon DEF SwitchOut, Running
<1>6. ASSUME NEW p \in Procs, Yield(h, p) PROVE Kept /\ Places /\ Harts1 /\ States1
  BY <1>1, <1>6, ProcFacts, Zenon DEF Yield, Running, ProcPCs
<1>7. ASSUME NEW p \in Procs, SleepTimer(h, p) PROVE Kept /\ Places /\ Harts1 /\ States1
  <2>1. Kept /\ Harts1
    BY <1>1, <1>7, Zenon DEF SleepTimer, Running
  <2>2. Places
    BY <1>1, <1>7, ProcFacts, Zenon DEF SleepTimer, ProcPCs
  <2>3. States1
    BY <1>1, <1>7, Zenon DEF SleepTimer, Running
  <2> QED
    BY <2>1, <2>2, <2>3, Zenon
<1>8. ASSUME NEW p \in Procs, Done(h, p) PROVE Kept /\ Places /\ Harts1 /\ States1
  <2>1. Kept /\ Harts1
    BY <1>8, Zenon DEF Done
  <2>2. Places
    BY <1>1, <1>8, ProcFacts DEF Done, ProcPCs
  <2>3. States1
    BY <1>1, <1>8, Zenon DEF Done, WakeUp
  <2> QED
    BY <2>1, <2>2, <2>3, Zenon
<1>9. ASSUME NEW p \in Procs, Exit(h, p) PROVE Kept /\ Places /\ Harts1 /\ States1
  <2>1. Kept /\ Harts1 /\ Places
    BY <1>1, <1>9, Zenon DEF Exit, Running
  <2>2. States1
    BY <1>1, <1>9, Zenon DEF Exit, Running
  <2> QED
    BY <2>1, <2>2, Zenon
<1> QED
  BY <1>2, <1>3, <1>4, <1>5, <1>6, <1>7, <1>8, <1>9, Zenon

\* The lock is taken, and the task_scheduler of the hart is somewhere in the queue.
LEMMA PanicPopStart ==
    ASSUME IInv, PanicInv, NEW h \in Harts, PopStart(h)
    PROVE  PanicInv'
<1> USE DEF PanicInv, IInv, TypeOK
<1>1. /\ hpc[h] = "top" /\ at' = 1 /\ hpc' = [hpc EXCEPT ![h] = "scan"] /\ qlock = None
      /\ UNCHANGED <<state, queue, on, ppc>>
  BY Zenon DEF PopStart
<1>2. \A g \in Harts : hpc'[g] \in {"scan", "set", "ready"} => g = h /\ hpc'[g] = "scan"
  BY <1>1, ProcFacts, Zenon DEF InvLock
<1>3. on[h] /= Scheduler[h]
  BY <1>1, ProcFacts, Zenon DEF InvHart
<1>4. \E i \in DOMAIN queue : i >= 1 /\ queue[i] = Scheduler[h]
  BY <1>3 DEF InvScheduler, InQueue
<1>5. InvScheduler'
  BY <1>1, <1>2, <1>4, Zenon DEF InvScheduler, InQueue
<1>6. InvChosen'
  BY <1>1, Zenon DEF InvChosen
<1> QED
  BY <1>1, <1>5, <1>6, Zenon

\* The end of the queue is never reached, so last_choice is never taken.
LEMMA PanicScanTest ==
    ASSUME IInv, PanicInv, NEW h \in Harts, ScanTest(h)
    PROVE  PanicInv'
<1> USE DEF PanicInv, IInv, TypeOK
<1>1. hpc[h] = "scan" /\ at <= Len(queue)
  BY DEF ScanTest, InvScheduler
<1>2. /\ hpc' = [hpc EXCEPT ![h] = IF state[queue[at]] = "WAKEN_UP" THEN "set" ELSE "ready"]
      /\ UNCHANGED <<state, queue, at, on, ppc>>
  BY <1>1 DEF ScanTest
<1>3. at \in DOMAIN queue
  BY <1>1
<1>4. ASSUME hpc'[h] = "ready", queue[at] = Scheduler[h] PROVE state[Scheduler[h]] = "RUNNABLE"
  BY <1>2, <1>3, <1>4, Zenon DEF InvScheduler, InvQueue
<1>5. hpc'[h] \in {"set", "ready"} /\ \A g \in Harts : g /= h => hpc'[g] = hpc[g]
  BY <1>2, Zenon
<1>6. InvScheduler'
  BY <1>1, <1>2, <1>4, <1>5 DEF InvScheduler, InQueue
<1>7. InvChosen'
  BY <1>2, <1>5, Zenon DEF InvChosen
<1> QED
  BY <1>2, <1>6, <1>7, Zenon

LEMMA PanicScanSet ==
    ASSUME IInv, PanicInv, NEW h \in Harts, ScanSet(h)
    PROVE  PanicInv'
<1> USE DEF PanicInv, IInv, TypeOK
<1>1. /\ hpc[h] = "set" /\ state' = [state EXCEPT ![queue[at]] = "RUNNABLE"]
      /\ hpc' = [hpc EXCEPT ![h] = "ready"] /\ UNCHANGED <<queue, at, on, ppc>>
  BY Zenon DEF ScanSet
<1>2. at \in DOMAIN queue /\ queue[at] \in Procs
  BY <1>1 DEF InvLock
<1>3. /\ state'[queue[at]] = "RUNNABLE"
      /\ \A p \in Procs : state'[p] = state[p] \/ state'[p] = "RUNNABLE"
  BY <1>1, <1>2, Zenon
<1>4. hpc'[h] = "ready" /\ \A g \in Harts : g /= h => hpc'[g] = hpc[g]
  BY <1>1, Zenon
<1>5. InvScheduler'
  BY <1>1, <1>3, <1>4, ProcFacts DEF InvScheduler, InQueue
<1>6. InvChosen'
  BY <1>1, <1>3, <1>4, Zenon DEF InvChosen, InvHart
<1> QED
  BY <1>1, <1>5, <1>6, Zenon

\* The task_scheduler of the hart itself is never passed over, and that of another
\* hart is never taken.
LEMMA PanicScanReady ==
    ASSUME IInv, PanicInv, NEW h \in Harts, ScanReady(h)
    PROVE  PanicInv'
<1> USE DEF PanicInv, IInv, TypeOK
<1>a. PICK p : p = queue[at]
  BY Zenon
<1>1. hpc[h] = "ready" /\ qlock = h /\ at \in DOMAIN queue /\ p \in Procs
  BY <1>a DEF ScanReady, InvLock
<1>2. \A g \in Harts : hpc[g] \in {"scan", "set", "ready"} => g = h
  BY <1>1, Zenon DEF InvLock
<1>3. CASE state[p] = "RUNNABLE" /\ MayRunOn(p, h)
  <2>1. /\ queue' = Erase(queue, at) /\ on' = [on EXCEPT ![h] = p]
        /\ hpc' = [hpc EXCEPT ![h] = "got"] /\ UNCHANGED <<state, ppc>>
    BY <1>a, <1>3, Zenon DEF ScanReady
  <2>2. /\ on'[h] = p /\ hpc'[h] = "got"
        /\ \A g \in Harts : g /= h => on'[g] = on[g] /\ hpc'[g] = hpc[g]
    BY <2>1, Zenon
  <2>3. ASSUME NEW g \in Harts PROVE on'[g] = Scheduler[g] \/ InQueue(Scheduler[g])'
    <3>1. CASE p = Scheduler[g]
      <4>1. g = h
        BY <1>3, <3>1, Zenon DEF MayRunOn
      <4> QED
        BY <2>2, <3>1, <4>1, Zenon
    <3>2. CASE p /= Scheduler[g] /\ InQueue(Scheduler[g])
      <4>1. PICK i \in DOMAIN queue : queue[i] = Scheduler[g]
        BY <3>2, Zenon DEF InQueue
      <4>2. i /= at
        BY <1>a, <3>2, <4>1, Zenon
      <4> QED
        BY <1>1, <2>1, <4>1, <4>2, EraseKeeps DEF InQueue
    <3>3. CASE on[g] = Scheduler[g]
      <4>1. g /= h
        BY <1>1, <3>3, ProcFacts DEF InvHart
      <4> QED
        BY <2>2, <3>3, <4>1, Zenon
    <3> QED
      BY <3>1, <3>2, <3>3, Zenon DEF InvScheduler
  <2>4. \A g \in Harts : hpc'[g] \notin {"scan", "set", "ready"}
    BY <1>2, <2>2, Zenon
  <2>5. InvScheduler'
    BY <2>1, <2>3, <2>4, Zenon DEF InvScheduler
  <2>6. InvChosen'
    BY <1>3, <2>1, <2>2, Zenon DEF InvChosen
  <2> QED
    BY <2>1, <2>5, <2>6, Zenon
<1>4. CASE ~(state[p] = "RUNNABLE" /\ MayRunOn(p, h))
  <2>1. /\ at' = at + 1 /\ hpc' = [hpc EXCEPT ![h] = "scan"] /\ UNCHANGED <<state, queue, on, ppc>>
    BY <1>a, <1>4, Zenon DEF ScanReady
  <2>2. p /= Scheduler[h]
    BY <1>a, <1>1, <1>4, ProcFacts, Zenon DEF InvScheduler
  <2>3. \E i \in DOMAIN queue : i >= at + 1 /\ queue[i] = Scheduler[h]
    <3>1. PICK i \in DOMAIN queue : i >= at /\ queue[i] = Scheduler[h]
      BY <1>1, Zenon DEF InvScheduler
    <3>2. i /= at
      BY <1>a, <2>2, <3>1, Zenon
    <3> QED
      BY <3>1, <3>2
  <2>4. hpc'[h] = "scan" /\ \A g \in Harts : g /= h => hpc'[g] = hpc[g]
    BY <2>1, Zenon
  <2>5. InvScheduler'
    BY <1>2, <2>1, <2>3, <2>4 DEF InvScheduler, InQueue
  <2>6. InvChosen'
    BY <2>1, <2>4, Zenon DEF InvChosen
  <2> QED
    BY <2>1, <2>5, <2>6, Zenon
<1> QED
  BY <1>3, <1>4, Zenon

\* run() finds the process it was given runnable, and switches back from a
\* task_scheduler that has neither slept nor returned.
LEMMA PanicRun ==
    ASSUME IInv, PanicInv, NEW h \in Harts, RunEnter(h) \/ RunLeave(h)
    PROVE  PanicInv'
<1> USE DEF PanicInv, IInv, TypeOK
<1>a. PICK p : p = on[h]
  BY Zenon
<1>1. /\ hpc[h] \in {"got", "back"} /\ p \in Procs /\ UNCHANGED <<queue, at, ppc>>
  BY <1>a, Zenon DEF RunEnter, RunLeave, InvHart
<1>2. \A g \in Harts : on[g] = p => g = h
  BY <1>a, <1>1, ProcFacts, Zenon DEF OnePlace
<1>3. \A i \in DOMAIN queue : queue[i] /= p
  BY <1>a, Zenon DEF OnePlace
<1>4. PICK st \in States :
        /\ state' = [state EXCEPT ![p] = st]
        /\ \/ on' = on /\ hpc' = [hpc EXCEPT ![h] = "run"] /\ st = "RUNNING"
           \/ on' = on /\ hpc' = [hpc EXCEPT ![h] = "push"] /\ (st = state[p] \/ st = "RUNNABLE")
           \/ on' = [on EXCEPT ![h] = None] /\ hpc' = [hpc EXCEPT ![h] = "top"] /\ st = state[p] /\ st = "EXITED"
  <2>1. CASE RunEnter(h)
    <3>1. state[p] = "RUNNABLE"
      BY <1>a, <2>1, Zenon DEF RunEnter, InvChosen
    <3> QED
      BY <1>a, <2>1, <3>1, Zenon DEF RunEnter, States
  <2>2. CASE RunLeave(h)
    BY <1>a, <2>2, Zenon DEF RunLeave, States
  <2> QED
    BY <2>1, <2>2, Zenon
<1>5. /\ hpc'[h] \in {"run", "push", "top"} /\ \A g \in Harts : g /= h => hpc'[g] = hpc[g] /\ on'[g] = on[g]
      /\ state'[p] = st /\ \A q \in Procs : q /= p => state'[q] = state[q]
  BY <1>1, <1>4, Zenon
<1>6. ASSUME NEW g \in Harts PROVE /\ state'[Scheduler[g]] \in {"WAKEN_UP", "RUNNABLE", "RUNNING"}
                                   /\ on'[g] = Scheduler[g] \/ InQueue(Scheduler[g])
  <2>1. CASE p = Scheduler[g]
    <3>1. state[p] \in {"WAKEN_UP", "RUNNABLE", "RUNNING"}
      BY <2>1, Zenon DEF InvScheduler
    <3>2. st \in {"WAKEN_UP", "RUNNABLE", "RUNNING"} /\ on' = on
      BY <1>4, <3>1, Zenon
    <3> QED
      BY <1>5, <2>1, <3>2, Zenon DEF InvScheduler
  <2>2. CASE p /= Scheduler[g]
    BY <1>a, <1>5, <2>2, ProcFacts, Zenon DEF InvScheduler
  <2> QED
    BY <2>1, <2>2, Zenon
<1>7. ASSUME NEW g \in Harts, hpc'[g] \in {"scan", "set", "ready"}
      PROVE  /\ hpc'[g] = hpc[g] /\ Scheduler[g] /= p
  <2>1. g /= h
    BY <1>5, <1>7, Zenon
  <2>2. \E i \in DOMAIN queue : queue[i] = Scheduler[g]
    BY <1>5, <1>7, <2>1, Zenon DEF InvScheduler
  <2> QED
    BY <1>3, <1>5, <2>1, <2>2, Zenon
<1>8. InvScheduler'
  <2>1. InvScheduler /\ queue' = queue /\ at' = at /\ ppc' = ppc
    BY <1>1, Zenon
  <2> HIDE DEF PanicInv, IInv, TypeOK
  <2>2. \A g \in Harts : Scheduler[g] \in Procs
    BY ProcFacts, Zenon
  <2>3. ASSUME NEW g \in Harts, hpc'[g] = "ready", queue[at] = Scheduler[g]
        PROVE  state'[Scheduler[g]] = "RUNNABLE"
    BY <1>5, <1>7, <2>1, <2>2, <2>3, Zenon DEF InvScheduler
  <2>4. ASSUME NEW g \in Harts, hpc'[g] \in {"scan", "set", "ready"}
        PROVE  \E i \in DOMAIN queue : i >= at /\ queue[i] = Scheduler[g]
    BY <1>7, <2>1, <2>4, Zenon DEF InvScheduler
  <2>5. \A g \in Harts : ppc[Scheduler[g]] = "work"
    BY <2>1, Zenon DEF InvScheduler
  <2> QED
    BY <1>6, <2>1, <2>3, <2>4, <2>5, Zenon DEF InvScheduler, InQueue
<1>9. ASSUME NEW g \in Harts, hpc'[g] = "got" PROVE state'[on'[g]] = "RUNNABLE"
  <2>1. g /= h /\ hpc[g] = "got" /\ on'[g] = on[g] /\ on[g] \in Procs
    BY <1>5, <1>9, Zenon DEF InvHart
  <2> QED
    BY <1>2, <1>5, <2>1 DEF InvChosen
<1>10. InvChosen'
  BY <1>5, <1>9, Zenon DEF InvChosen
<1> QED
  BY <1>1, <1>8, <1>10, Zenon

\* A process enters the queue at its end, while no hart is inside pop().
LEMMA PanicAppend ==
    ASSUME IInv, PanicInv, NEW h \in Harts, Push(h) \/ \E p \in Subs : Create(h, p)
    PROVE  PanicInv'
<1> USE DEF PanicInv, IInv, TypeOK
<1>1. qlock = None /\ \A g \in Harts : hpc[g] \notin {"scan", "set", "ready"}
  BY ProcFacts DEF Push, Create, InvLock
<1>2. CASE Push(h)
  <2>a. PICK p : p = on[h]
    BY Zenon
  <2>1. /\ hpc[h] = "push" /\ UNCHANGED <<state, ppc>> /\ on' = [on EXCEPT ![h] = None]
        /\ hpc' = [hpc EXCEPT ![h] = "top"] /\ queue' = IF p = Idle[h] THEN queue ELSE Append(queue, p)
    BY <1>2, <2>a, Zenon DEF Push
  <2>2. p \in Procs
    BY <2>a, <2>1, Zenon DEF InvHart
  <2>3. /\ \A q : InQueue(q) => InQueue(q)'
        /\ p /= Idle[h] => InQueue(p)'
    <3>1. CASE p = Idle[h]
      BY <2>1, <3>1, Zenon DEF InQueue
    <3>2. CASE p /= Idle[h]
      <4>1. /\ \A i \in DOMAIN queue : Append(queue, p)[i] = queue[i] /\ i \in DOMAIN Append(queue, p)
            /\ Len(queue) + 1 \in DOMAIN Append(queue, p) /\ Append(queue, p)[Len(queue) + 1] = p
        BY <2>2, AppendFacts
      <4> QED
        BY <2>1, <3>2, <4>1, Zenon DEF InQueue
    <3> QED
      BY <3>1, <3>2, Zenon
  <2>4. hpc'[h] = "top" /\ \A g \in Harts : g /= h => on'[g] = on[g] /\ hpc'[g] = hpc[g]
    BY <2>1, Zenon
  <2>5. ASSUME NEW g \in Harts PROVE on'[g] = Scheduler[g] \/ InQueue(Scheduler[g])'
    <3>1. CASE InQueue(Scheduler[g])
      BY <2>3, <3>1, Zenon
    <3>2. CASE on[g] = Scheduler[g] /\ g /= h
      BY <2>4, <3>2, Zenon
    <3>3. CASE on[g] = Scheduler[g] /\ g = h
      BY <2>a, <2>3, <3>3, ProcFacts, Zenon
    <3> QED
      BY <3>1, <3>2, <3>3, Zenon DEF InvScheduler
  <2>6. InvScheduler'
    BY <1>1, <2>1, <2>4, <2>5, Zenon DEF InvScheduler
  <2>7. InvChosen'
    BY <2>1, <2>4, Zenon DEF InvChosen
  <2> QED
    BY <2>1, <2>6, <2>7, Zenon
<1>3. ASSUME NEW p \in Subs, Create(h, p) PROVE PanicInv'
  <2>1. /\ state' = [state EXCEPT ![p] = "WAKEN_UP"] /\ queue' = Append(queue, p) /\ state[p] = "INIT"
        /\ UNCHANGED <<on, hpc, at>>
    BY <1>3, Zenon DEF Create
  <2>2. ppc' \in [Procs -> ProcPCs] /\ \A g \in Harts : ppc'[Scheduler[g]] = ppc[Scheduler[g]]
    BY <1>3, ProcFacts, Zenon DEF Create, ProcPCs
  <2>3. p \in Procs /\ \A q \in Procs : q /= p => state'[q] = state[q]
    BY <2>1, ProcFacts, Zenon
  <2>4. \A q : InQueue(q) => InQueue(q)'
    <3>1. \A i \in DOMAIN queue : Append(queue, p)[i] = queue[i] /\ i \in DOMAIN Append(queue, p)
      BY <2>3, AppendFacts, Zenon
    <3> QED
      BY <2>1, <3>1, Zenon DEF InQueue
  <2>5. \A g \in Harts : state'[Scheduler[g]] = state[Scheduler[g]]
    BY <2>3, ProcFacts, Zenon
  <2>6. InvScheduler'
    BY <1>1, <2>1, <2>2, <2>4, <2>5, Zenon DEF InvScheduler
  <2>7. InvChosen'
    BY <2>1, <2>3, Zenon DEF InvChosen, InvHart
  <2> QED
    BY <2>2, <2>6, <2>7, Zenon
<1> QED
  BY <1>2, <1>3, Zenon

-----------------------------------------------------------------------------
(* Initial states, counts and the theorems *)

INSTANCE FiniteSetTheorems

\* The initial state satisfies the inductive invariant.
LEMMA InitInv == Init => IInv
<1> SUFFICES ASSUME Init PROVE IInv
  BY Zenon
<1> DEFINE S == {Scheduler[h] : h \in Harts} \cup {Main}
<1>1. Cardinality(S) \in Nat
  <2>1. IsFiniteSet({Scheduler[h] : h \in Harts})
    <3>1. [h \in Harts |-> Scheduler[h]] \in Surjection(Harts, {Scheduler[h] : h \in Harts})
      BY Zenon DEF Surjection
    <3> QED
      BY <3>1, HartsAssumption, FS_Surjection, Zenon
  <2> QED
    BY <2>1, FS_AddElement, FS_CardinalityType, Zenon
<1>2. queue \in [1..Cardinality(S) -> S] /\ \A i, j \in 1..Cardinality(S) : i # j => queue[i] # queue[j]
  BY Zenon DEF Init, Bijection, Injection, IsInjective
<1>3. S \subseteq Procs /\ S \cap Subs = {} /\ S \cap IdleSet = {}
  BY ProcsAssumption, Zenon DEF Procs, IdleSet
<1>4. queue \in Seq(Procs) /\ DOMAIN queue = 1..Cardinality(S)
  BY <1>1, <1>2, <1>3
<1>5. TypeOK
  BY <1>4 DEF Init, TypeOK, States, HartPCs
<1>6. InvInit /\ InvQueue
  BY <1>2, <1>3, <1>4, Zenon DEF Init, InvInit, InvQueue
<1>7. InvHart /\ InvLock
  BY ProcsAssumption, Zenon DEF Init, InvHart, InvLock
<1>8. OnePlace
  BY <1>2, <1>3, <1>4, ProcsAssumption, Zenon DEF Init, OnePlace
<1> QED
  BY <1>5, <1>6, <1>7, <1>8, Zenon DEF IInv

\* The inductive invariant holds in every state.
THEOREM SchedInvariant == Spec => []IInv
<1>1. Init => IInv
  BY InitInv, Zenon
<1>2. IInv /\ [Next]_vars => IInv'
  <2> SUFFICES ASSUME IInv, [Next]_vars PROVE IInv'
    BY Zenon
  <2>1. ASSUME NEW h \in Harts, Sched(h) PROVE IInv'
    BY <2>1, ScanInv, ScanReadyInv, RunInv, PushInv, Zenon DEF Sched
  <2>2. ASSUME NEW h \in Harts, WakeSleeper(h) \/ \E p \in Procs : SwitchOut(h, p) PROVE IInv'
    BY <2>2, ProcessInv, Zenon
  <2>3. ASSUME NEW p \in Procs, ProcStep(p) PROVE IInv'
    <3>1. PICK h \in Harts :
             \/ Yield(h, p) \/ SleepTimer(h, p) \/ Done(h, p) \/ Exit(h, p)
             \/ Make(h) \/ Wait(h) \/ \E q \in Subs : Create(h, q)
      BY <2>3, Zenon DEF ProcStep
    <3> QED
      BY <3>1, ProcessInv, CreateInv, Zenon
  <2>4. CASE UNCHANGED vars
    <3>1. UNCHANGED <<state, queue, qlock, on, hpc, at>>
      BY <2>4, Zenon DEF vars
    <3> QED
      BY <3>1, FrameStep, Zenon DEF IInv, TypeOK
  <2> QED
    BY <2>1, <2>2, <2>3, <2>4, Zenon DEF Next
<1> QED
  BY <1>1, <1>2, PTL DEF Spec

\* Whatever the number of harts and processes, a process is queued once or on one hart,
\* never both, and only a process on a hart is RUNNING: no two harts run on one stack
\* (process_queue::pop, push, process_scheduler::run).
THEOREM SchedOnePlace == Spec => []OnePlace
BY SchedInvariant, PTL DEF IInv

\* The processes that have reported are counted, and there are no more than all.
LEMMA EndedFacts ==
    /\ IsFiniteSet(Ended) /\ Cardinality(Ended) \in Nat /\ Cardinality(Subs) \in Nat
    /\ Cardinality(Ended) <= Cardinality(Subs)
    /\ \A p \in Subs : p \notin Ended => Cardinality(Ended) < Cardinality(Subs)
<1>1. Ended \in SUBSET Subs
  BY Zenon DEF Ended
<1>2. /\ IsFiniteSet(Ended) /\ Cardinality(Ended) <= Cardinality(Subs)
      /\ Cardinality(Subs) = Cardinality(Ended) => Subs = Ended
  BY <1>1, SubsAssumption, FS_Subset, Zenon
<1>3. Cardinality(Ended) \in Nat /\ Cardinality(Subs) \in Nat
  BY <1>2, SubsAssumption, FS_CardinalityType, Zenon
<1> QED
  BY <1>2, <1>3

LEMMA WakeInit == Init => WakeInv
<1> SUFFICES ASSUME Init PROVE WakeInv
  BY Zenon
<1>1. Ended = {}
  BY ProcFacts, Zenon DEF Init, Ended
<1>2. complete = Cardinality(Ended)
  BY <1>1, FS_EmptySet, Zenon DEF Init
<1>3. ppc \in [Procs -> ProcPCs] /\ sleeper \in {None, Main}
  BY Zenon DEF Init, ProcPCs
<1>4. sleepers \in [Harts -> Seq(Subs)]
  <2>1. <<>> \in Seq(Subs)
    OBVIOUS
  <2> QED
    BY <2>1, Zenon DEF Init
<1>5. InvSleep
  BY Zenon DEF Init, InvSleep
<1> QED
  BY <1>2, <1>3, <1>4, <1>5, Zenon DEF WakeInv, TypeWake

\* wait_done goes to sleep only while a completion is outstanding.
LEMMA WakeWait ==
    ASSUME IInv, WakeInv, NEW h \in Harts, Wait(h)
    PROVE  WakeInv'
<1> USE DEF IInv, TypeOK, WakeInv, TypeWake
<1>1. CASE complete = Cardinality(Subs)
  BY <1>1, WakeFrame, ProcFacts, Zenon DEF Wait, ProcPCs
<1>2. CASE complete /= Cardinality(Subs)
  <2>1. /\ ppc' = [ppc EXCEPT ![Main] = "unlocked"] /\ sleeper' = Main
        /\ state' = [state EXCEPT ![Main] = IF @ = "RUNNING" THEN "SLEEPING" ELSE @]
        /\ UNCHANGED <<sleepers, complete>>
    BY <1>2, Zenon DEF Wait
  <2>2. Ended' = Ended
    BY <2>1, ProcFacts, Zenon DEF Ended
  <2>3. TypeWake'
    BY <2>1, <2>2, ProcFacts, Zenon DEF ProcPCs
  <2>4. complete < Cardinality(Subs)
    BY <1>2, EndedFacts
  <2>5. InvSleep'
    BY <2>1, <2>4, ProcFacts, Zenon DEF InvSleep
  <2> QED
    BY <2>3, <2>5, Zenon
<1> QED
  BY <1>1, <1>2, Zenon

\* The last subtask_done wakes the process in the wait queue.
LEMMA WakeDone ==
    ASSUME IInv, WakeInv, NEW h \in Harts, NEW p \in Procs, Done(h, p)
    PROVE  WakeInv'
<1> USE DEF IInv, TypeOK, WakeInv, TypeWake
<1>1. /\ p \in Subs /\ ppc[p] = "slept" /\ ppc' = [ppc EXCEPT ![p] = "end"]
      /\ complete' = complete + 1 /\ UNCHANGED sleepers
  BY Zenon DEF Done
<1>2. p \notin Ended /\ Ended' = Ended \cup {p}
  BY <1>1, ProcFacts DEF Ended
<1>3. Cardinality(Ended') = Cardinality(Ended) + 1 /\ complete \in Nat
  BY <1>2, EndedFacts, FS_AddElement, Zenon
<1>4. complete + 1 <= Cardinality(Subs) /\ Cardinality(Subs) \in Nat
  BY <1>1, <1>2, <1>3, EndedFacts
<1>5. ppc' \in [Procs -> ProcPCs]
  BY <1>1, Zenon DEF ProcPCs
<1>6. CASE complete + 1 = Cardinality(Subs) /\ sleeper /= None
  <2>1. sleeper' = None /\ state' = WakeUp(state, Main)
    BY <1>6, Zenon DEF Done
  <2>2. \A q \in Procs : state'[q] = "SLEEPING" => q /= Main /\ state[q] = "SLEEPING"
    BY <2>1, ProcFacts, Zenon DEF WakeUp
  <2>3. InvSleep'
    BY <1>1, <2>2, Zenon DEF InvSleep
  <2> QED
    BY <1>1, <1>3, <1>5, <2>1, <2>3, Zenon
<1>7. CASE ~(complete + 1 = Cardinality(Subs) /\ sleeper /= None)
  <2>1. UNCHANGED <<state, sleeper>>
    BY <1>7, Zenon DEF Done
  <2>2. sleeper = Main => complete + 1 < Cardinality(Subs)
    BY <1>3, <1>4, <1>7, ProcFacts
  <2>3. InvSleep'
    BY <1>1, <2>1, <2>2, Zenon DEF InvSleep
  <2> QED
    BY <1>1, <1>3, <1>5, <2>1, <2>3, Zenon
<1> QED
  BY <1>6, <1>7, Zenon

\* A sleeping process is always known to the timer list of a hart or to the wait
\* queue while a completion is outstanding: single_wait_queue::sleep, cpu::sleep and
\* the wake-ups race in any order without losing one.
THEOREM SchedNoLostWakeup == Spec => []NoLostWakeup
<1>1. IInv /\ WakeInv /\ [Next]_vars => WakeInv'
  <2> SUFFICES ASSUME IInv, WakeInv, [Next]_vars PROVE WakeInv'
    BY Zenon
  <2>1. CASE UNCHANGED vars
    BY <2>1, WakeFrame, Zenon DEF vars, WakeInv, TypeWake
  <2>2. ASSUME NEW h \in Harts, Sched(h) \/ WakeSleeper(h) \/ \E p \in Procs : SwitchOut(h, p)
        PROVE  WakeInv'
    BY <2>2, WakeSched, WakeTimer, Zenon
  <2>3. ASSUME NEW p \in Procs, ProcStep(p) PROVE WakeInv'
    BY <2>3, WakeSched, WakeWait, WakeSleepTimer, WakeDone, Zenon DEF ProcStep
  <2> QED
    BY <2>1, <2>2, <2>3, Zenon DEF Next
<1>2. WakeInv => NoLostWakeup
  BY Zenon DEF WakeInv, InvSleep, NoLostWakeup
<1> QED
  BY <1>1, <1>2, WakeInit, SchedInvariant, PTL DEF Spec

\* Whatever the number of harts and processes, run() is never handed a process that is
\* not runnable: its panic is never reached, although pop() reads and writes process
\* states without their locks.
THEOREM SchedNoPanic == Spec => []NoPanic
<1>1. IInv /\ PanicInv /\ [Next]_vars => PanicInv'
  <2> SUFFICES ASSUME IInv, PanicInv, [Next]_vars PROVE PanicInv'
    BY Zenon
  <2>1. CASE UNCHANGED vars
    BY <2>1, PanicFrame, Zenon DEF vars, PanicInv
  <2>2. ASSUME NEW h \in Harts, Sched(h) PROVE PanicInv'
    BY <2>2, PanicPopStart, PanicScanTest, PanicScanSet, PanicScanReady, PanicRun, PanicAppend, Zenon DEF Sched
  <2>3. ASSUME NEW h \in Harts, WakeSleeper(h) \/ \E p \in Procs : SwitchOut(h, p) PROVE PanicInv'
    BY <2>3, PanicProcess, Zenon
  <2>4. ASSUME NEW p \in Procs, ProcStep(p) PROVE PanicInv'
    BY <2>4, PanicProcess, PanicAppend, Zenon DEF ProcStep
  <2> QED
    BY <2>1, <2>2, <2>3, <2>4, Zenon DEF Next
<1>2. PanicInv => NoPanic
  BY Zenon DEF PanicInv, InvChosen, NoPanic
<1> QED
  BY <1>1, <1>2, PanicInit, SchedInvariant, PTL DEF Spec
====
