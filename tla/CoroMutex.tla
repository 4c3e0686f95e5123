---- MODULE CoroMutex ----
(***************************************************************************)
(* coro_mutex (atomic/mutex.cc) with its wait_queue (utils/wait_queue.h)   *)
(* and the shared kernel_task_queue through which the task schedulers of   *)
(* all harts resume coroutines (coroutine.cc).                             *)
(*                                                                         *)
(* _guard_lock is the spinlock of Spinlock.tla, taken here as the abstract *)
(* lock it implements; deques are sequences.  The client of the mutex is   *)
(* any set of coroutines that lock and unlock it for ever and may yield to *)
(* their scheduler before locking and once while they own it.              *)
(***************************************************************************)
EXTENDS Sequences, Naturals

CONSTANTS Coros,     \* coroutines that use the mutex
          Harts,     \* harts, each running one task_scheduler
          NoYield,   \* coroutines with promise_base::no_yield set
          None       \* no coroutine, no hart

ASSUME NoYieldAssumption == NoYield \subseteq Coros
ASSUME NoneAssumption == None \notin Coros /\ None \notin Harts

VARIABLES locked,    \* coro_mutex::_locked
          guard,     \* the hart that holds coro_mutex::_guard_lock
          sleepers,  \* wait_queue::sleepers
          queue,     \* kernel_task_queue
          running,   \* the coroutine each hart's task_scheduler has resumed
          pc         \* where each coroutine is

vars == <<locked, guard, sleepers, queue, running, pc>>

\* new     not yet scheduled
\* start   about to call lock(); yield in co_await this_scheduler, start2 after it
\* test    in lock() with the guard held, at while (_locked)
\* sleep   in await_suspend with the guard held
\* asleep  suspended in the wait queue
\* woken   taken out of the wait queue, await_resume still to run
\* took    _locked set, the guard still held
\* own     lock() returned; own_yield and own2 likewise
\* clear, wake, done   in unlock() with the guard held
PCs == {"new", "start", "yield", "start2", "test", "sleep", "asleep", "woken", "took",
        "own", "own_yield", "own2", "clear", "wake", "done"}

GuardPCs == {"test", "sleep", "took", "clear", "wake", "done"}
OwnPCs   == {"took", "own", "own_yield", "own2", "clear"}

Init ==
    /\ locked = FALSE
    /\ guard = None
    /\ sleepers = <<>>
    /\ queue = <<>>
    /\ running = [h \in Harts |-> None]
    /\ pc = [t \in Coros |-> "new"]

-----------------------------------------------------------------------------
(* The scheduler *)

\* task_scheduler::schedule of a new coroutine, by any code of the kernel.
Schedule(t) ==
    /\ pc[t] = "new"
    /\ queue' = Append(queue, t)
    /\ pc' = [pc EXCEPT ![t] = "start"]
    /\ UNCHANGED <<locked, guard, sleepers, running>>

\* task_scheduler::start: try_pop, then resume.
Resume(h) ==
    /\ running[h] = None
    /\ queue /= <<>>
    /\ running' = [running EXCEPT ![h] = Head(queue)]
    /\ queue' = Tail(queue)
    /\ UNCHANGED <<locked, guard, sleepers, pc>>

\* co_await this_scheduler: only a coroutine that may yield leaves its hart,
\* and only if it sees other work in the queue, which it reads unlocked.
YieldTest(h, t) ==
    /\ running[h] = t
    /\ pc[t] \in {"start", "own"}
    /\ \/ /\ t \in NoYield \/ queue = <<>>
          /\ pc' = [pc EXCEPT ![t] = IF pc[t] = "start" THEN "start2" ELSE "own2"]
       \/ /\ t \notin NoYield /\ queue /= <<>>
          /\ pc' = [pc EXCEPT ![t] = IF pc[t] = "start" THEN "yield" ELSE "own_yield"]
    /\ UNCHANGED <<locked, guard, sleepers, queue, running>>

Yield(h, t) ==
    /\ running[h] = t
    /\ pc[t] \in {"yield", "own_yield"}
    /\ queue' = Append(queue, t)
    /\ running' = [running EXCEPT ![h] = None]
    /\ pc' = [pc EXCEPT ![t] = IF pc[t] = "yield" THEN "start2" ELSE "own2"]
    /\ UNCHANGED <<locked, guard, sleepers>>

-----------------------------------------------------------------------------
(* coro_mutex::lock and wait_queue_done *)

\* _guard_lock.lock(), at the start of lock() or in await_resume.
EnterLock(h, t) ==
    /\ running[h] = t
    /\ pc[t] \in {"start", "start2", "woken"}
    /\ guard = None
    /\ guard' = h
    /\ pc' = [pc EXCEPT ![t] = "test"]
    /\ UNCHANGED <<locked, sleepers, queue, running>>

\* Fault: a woken sleeper does not test _locked again (if instead of while).
TakeUntested(h, t) ==
    /\ running[h] = t
    /\ pc[t] = "test"
    /\ locked' = TRUE
    /\ pc' = [pc EXCEPT ![t] = "took"]
    /\ UNCHANGED <<guard, sleepers, queue, running>>

\* while (_locked) fails: _locked = true.
Take(h, t) ==
    /\ running[h] = t
    /\ pc[t] = "test"
    /\ ~locked
    /\ locked' = TRUE
    /\ pc' = [pc EXCEPT ![t] = "took"]
    /\ UNCHANGED <<guard, sleepers, queue, running>>

\* _guard_lock.unlock() and return to the client.
LeaveLock(h, t) ==
    /\ running[h] = t
    /\ pc[t] = "took"
    /\ guard' = None
    /\ pc' = [pc EXCEPT ![t] = "own"]
    /\ UNCHANGED <<locked, sleepers, queue, running>>

\* while (_locked) holds: wq->sleep(&caller).
Sleep(h, t) ==
    /\ running[h] = t
    /\ pc[t] = "test"
    /\ locked
    /\ t \notin NoYield
    /\ sleepers' = Append(sleepers, t)
    /\ pc' = [pc EXCEPT ![t] = "sleep"]
    /\ UNCHANGED <<locked, guard, queue, running>>

\* lock.unlock() in await_suspend, and the hart returns to its scheduler.
Suspend(h, t) ==
    /\ running[h] = t
    /\ pc[t] = "sleep"
    /\ guard' = None
    /\ running' = [running EXCEPT ![h] = None]
    /\ pc' = [pc EXCEPT ![t] = "asleep"]
    /\ UNCHANGED <<locked, sleepers, queue>>

\* A no_yield coroutine drops the guard and is resumed at once.
Spin(h, t) ==
    /\ running[h] = t
    /\ pc[t] = "test"
    /\ locked
    /\ t \in NoYield
    /\ guard' = None
    /\ pc' = [pc EXCEPT ![t] = "woken"]
    /\ UNCHANGED <<locked, sleepers, queue, running>>

-----------------------------------------------------------------------------
(* coro_mutex::unlock *)

EnterUnlock(h, t) ==
    /\ running[h] = t
    /\ pc[t] \in {"own", "own2"}
    /\ guard = None
    /\ guard' = h
    /\ pc' = [pc EXCEPT ![t] = "clear"]
    /\ UNCHANGED <<locked, sleepers, queue, running>>

\* Fault: unlock() leaves _locked set.
ClearNot(h, t) ==
    /\ running[h] = t
    /\ pc[t] = "clear"
    /\ pc' = [pc EXCEPT ![t] = "wake"]
    /\ UNCHANGED <<locked, guard, sleepers, queue, running>>

Clear(h, t) ==
    /\ running[h] = t
    /\ pc[t] = "clear"
    /\ locked' = FALSE
    /\ pc' = [pc EXCEPT ![t] = "wake"]
    /\ UNCHANGED <<guard, sleepers, queue, running>>

\* Fault: the sleeper is woken but stays in the wait queue.
WakeUpKeeps(h, t) ==
    /\ running[h] = t
    /\ pc[t] = "wake"
    /\ \/ /\ sleepers = <<>>
          /\ pc' = [pc EXCEPT ![t] = "done"]
          /\ UNCHANGED queue
       \/ /\ sleepers /= <<>>
          /\ pc' = [pc EXCEPT ![t] = "done", ![Head(sleepers)] = "woken"]
          /\ queue' = Append(queue, Head(sleepers))
    /\ UNCHANGED <<locked, guard, sleepers, running>>

\* Fault: wake_up_one only when several coroutines sleep.
WakeUpLate(h, t) ==
    /\ running[h] = t
    /\ pc[t] = "wake"
    /\ \/ /\ Len(sleepers) < 2
          /\ pc' = [pc EXCEPT ![t] = "done"]
          /\ UNCHANGED <<sleepers, queue>>
       \/ /\ Len(sleepers) > 1
          /\ pc' = [pc EXCEPT ![t] = "done", ![Head(sleepers)] = "woken"]
          /\ queue' = Append(queue, Head(sleepers))
          /\ sleepers' = Tail(sleepers)
    /\ UNCHANGED <<locked, guard, running>>

\* wait_queue::wake_up_one: the front sleeper goes to the task queue.
WakeUpOne(h, t) ==
    /\ running[h] = t
    /\ pc[t] = "wake"
    /\ \/ /\ sleepers = <<>>
          /\ pc' = [pc EXCEPT ![t] = "done"]
          /\ UNCHANGED <<sleepers, queue>>
       \/ /\ sleepers /= <<>>
          /\ pc' = [pc EXCEPT ![t] = "done", ![Head(sleepers)] = "woken"]
          /\ queue' = Append(queue, Head(sleepers))
          /\ sleepers' = Tail(sleepers)
    /\ UNCHANGED <<locked, guard, running>>

LeaveUnlock(h, t) ==
    /\ running[h] = t
    /\ pc[t] = "done"
    /\ guard' = None
    /\ pc' = [pc EXCEPT ![t] = "start"]
    /\ UNCHANGED <<locked, sleepers, queue, running>>

-----------------------------------------------------------------------------
CoroStep(h, t) ==
    \/ YieldTest(h, t)
    \/ Yield(h, t)
    \/ EnterLock(h, t)
    \/ Take(h, t)
    \/ LeaveLock(h, t)
    \/ Sleep(h, t)
    \/ Suspend(h, t)
    \/ Spin(h, t)
    \/ EnterUnlock(h, t)
    \/ Clear(h, t)
    \/ WakeUpOne(h, t)
    \/ LeaveUnlock(h, t)

HartStep(h) == Resume(h) \/ \E t \in Coros : CoroStep(h, t)

Next == (\E t \in Coros : Schedule(t)) \/ (\E h \in Harts : HartStep(h))

Spec == Init /\ [][Next]_vars

\* A hart that has something to run keeps running it: task_scheduler::start is
\* an endless loop of a process that its hart's scheduler always runs again.
\* Strong fairness: a hart that spins for the guard gets it in the end, though a
\* no_yield coroutine on another hart takes it again and again.
FairSpec == Spec /\ \A h \in Harts : SF_vars(HartStep(h))

-----------------------------------------------------------------------------
(* Properties *)

\* Every variable has the type of the C++ object it stands for.
TypeOK ==
    /\ locked \in BOOLEAN
    /\ guard \in Harts \cup {None}
    /\ sleepers \in Seq(Coros)
    /\ queue \in Seq(Coros)
    /\ running \in [Harts -> Coros \cup {None}]
    /\ pc \in [Coros -> PCs]

\* One coroutine at a time is between a return of lock() and the clearing of
\* _locked in its unlock().
MutualExclusion == \A t, u \in Coros : pc[t] \in OwnPCs /\ pc[u] \in OwnPCs => t = u

\* A coroutine is in one place: it runs on one hart, or waits once in the task
\* queue, or sleeps once in the wait queue.  Resuming a coroutine that is
\* already running, or one that is not suspended, is undefined in C++.
InOnePlace ==
    /\ \A g, h \in Harts : running[g] = running[h] /\ g /= h => running[g] = None
    /\ \A i, j \in DOMAIN queue : queue[i] = queue[j] => i = j
    /\ \A i, j \in DOMAIN sleepers : sleepers[i] = sleepers[j] => i = j
    /\ \A h \in Harts, i \in DOMAIN queue : running[h] /= queue[i]
    /\ \A i \in DOMAIN sleepers, j \in DOMAIN queue : sleepers[i] /= queue[j]
    /\ \A h \in Harts, i \in DOMAIN sleepers :
           running[h] = sleepers[i] => pc[sleepers[i]] = "sleep"

\* No lost wake-up: while the mutex is free and somebody sleeps, an unlock is
\* about to wake the front sleeper or a coroutine is on its way to test
\* _locked and, whether it takes the mutex or not, somebody will unlock later.
NoLostWakeup ==
    ~locked /\ sleepers /= <<>> =>
        \E t \in Coros : pc[t] \in {"wake", "woken", "test"}

\* Every coroutine that went to sleep on the mutex is eventually woken.
SleepersWoken == \A t \in Coros : pc[t] = "asleep" ~> pc[t] = "woken"

\* Whenever a coroutine wants the mutex somebody gets it; it need not be the
\* one that asked, since a newcomer may overtake a woken sleeper.
SomebodyOwns ==
    (\E t \in Coros : pc[t] \in {"start2", "asleep", "woken"}) ~> (\E t \in Coros : pc[t] = "own")

\* The mutex as an abstract lock owned by coroutines.
Owner == [l \in {"mutex"} |-> IF \E t \in Coros : pc[t] \in OwnPCs
                                THEN CHOOSE t \in Coros : pc[t] \in OwnPCs
                                ELSE None]

Abstract == INSTANCE AbstractLock
              WITH Actors <- Coros, Locks <- {"mutex"}, NoOwner <- None, owner <- Owner

\* Setting _locked acquires a free mutex, clearing it releases the caller's.
ImplementsAbstractLock == Abstract!Spec

====
