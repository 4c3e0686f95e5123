---- MODULE ProcSched ----
(***************************************************************************)
(* The process schedulers: the shared process_queue and the per-hart       *)
(* process_scheduler (proc/scheduler.cc), the process states and run()     *)
(* (proc/process.cc) and the per-hart timer sleepers (arch/cpu.cc).        *)
(*                                                                         *)
(* The clients are those of test/process/sleep_task.hpp: one process       *)
(* creates others and waits for all of them, the others sleep for some     *)
(* time and report.  Besides them every hart has its idle process and the  *)
(* process of its task_scheduler, which yields for ever.  User processes   *)
(* and kill() have no caller in the tree.  A process state is written      *)
(* under the process's lock except by pop() and by a kernel function that  *)
(* returns, which are steps of their own.  Time is abstract: a timer       *)
(* sleeper may become due at any moment, in the order of the sorted list,  *)
(* which is that of insertion.                                             *)
(***************************************************************************)
EXTENDS Naturals, Sequences, FiniteSets, Functions

CONSTANTS Harts,
          Idle,        \* Idle[h]: last_choice of hart h
          Scheduler,   \* Scheduler[h]: the task_scheduler process of hart h
          Main,        \* the process that waits for the others
          Subs,        \* the processes it creates
          None

Procs == {Idle[h] : h \in Harts} \cup {Scheduler[h] : h \in Harts} \cup {Main} \cup Subs

ASSUME HartsAssumption == IsFiniteSet(Harts) /\ None \notin Harts
ASSUME SubsAssumption == IsFiniteSet(Subs)   \* subtask_total of them
ASSUME ProcsAssumption ==
    /\ None \notin Procs
    /\ \A g, h \in Harts : (Idle[g] = Idle[h] \/ Scheduler[g] = Scheduler[h]) => g = h
    /\ \A g, h \in Harts : Idle[g] /= Scheduler[h]
    /\ \A h \in Harts : {Idle[h], Scheduler[h]} \cap (Subs \cup {Main}) = {}
    /\ Main \notin Subs

VARIABLES state,        \* process::_state
          queue, qlock, at, \* process_queue::_queue, the hart that holds its lock, its position
          on, hpc,      \* per hart: process chosen, where run() is
          ppc,          \* where the function of each process is
          sleepers,     \* cpu::sleepers of each hart
          sleeper,      \* single_wait_queue::sleeper of the test
          complete      \* subtask_complete

vars == <<state, queue, qlock, on, hpc, at, ppc, sleepers, sleeper, complete>>

\* top: wake_up of due sleepers; scan, set, ready: in pop(); got: about to
\* call run(); run: in the process; back: switched back; push; panic
HartPCs == {"top", "scan", "set", "ready", "got", "run", "back", "push", "panic"}

\* work; pushing: spinning for the queue's lock, interrupts off; wait: at the test of
\* the wait loop; unlocked: in wait_done before yield(); slept: after the timed sleep;
\* end: about to return
ProcPCs == {"work", "pushing", "wait", "unlocked", "slept", "end"}

States == {"INIT", "SLEEPING", "WAKEN_UP", "RUNNABLE", "RUNNING", "EXITED"}

\* binding_core
MayRunOn(p, h) ==
    \A g \in Harts : p \in {Idle[g], Scheduler[g]} => g = h

\* The end of kernel_init on the last hart: each hart has queued its task_scheduler,
\* hart 0 the init process after it.
Init ==
    /\ state = [p \in Procs |-> IF p \in Subs THEN "INIT" ELSE "WAKEN_UP"]
    /\ LET queued == {Scheduler[h] : h \in Harts} \cup {Main}
       IN queue \in {q \in Bijection(1..Cardinality(queued), queued) : q[1] /= Main}
    /\ qlock = None
    /\ on = [h \in Harts |-> None]
    /\ hpc = [h \in Harts |-> "top"]
    /\ at = 1
    /\ ppc = [p \in Procs |-> "work"]
    /\ sleepers = [h \in Harts |-> <<>>]
    /\ sleeper = None
    /\ complete = 0

-----------------------------------------------------------------------------
(* process_scheduler::run and process_queue::pop *)

\* Fault: a wake-up of a process that is still on its hart is ignored.
WakeUpOnlyQueued(s, p) ==
    IF s[p] = "SLEEPING" /\ \A h \in Harts : on[h] /= p THEN [s EXCEPT ![p] = "WAKEN_UP"] ELSE s

\* process::wake_up
WakeUp(s, p) == IF s[p] = "SLEEPING" THEN [s EXCEPT ![p] = "WAKEN_UP"] ELSE s

\* cpu::wake_up: the first sleeper is due.
WakeSleeper(h) ==
    /\ hpc[h] = "top"
    /\ sleepers[h] /= <<>>
    /\ state' = WakeUp(state, Head(sleepers[h]))
    /\ sleepers' = [sleepers EXCEPT ![h] = Tail(@)]
    /\ UNCHANGED <<queue, qlock, on, hpc, at, ppc, sleeper, complete>>

PopStart(h) ==
    /\ hpc[h] = "top"
    /\ qlock = None
    /\ qlock' = h
    /\ at' = 1
    /\ hpc' = [hpc EXCEPT ![h] = "scan"]
    /\ UNCHANGED <<state, queue, on, ppc, sleepers, sleeper, complete>>

\* The loop of pop(): at the end of the queue last_choice is taken, otherwise
\* proc->waken_up() is read without the process's lock.
ScanTest(h) ==
    /\ hpc[h] = "scan"
    /\ IF at > Len(queue)
       THEN /\ on' = [on EXCEPT ![h] = Idle[h]]
            /\ qlock' = None
            /\ at' = 1
            /\ hpc' = [hpc EXCEPT ![h] = "got"]
       ELSE /\ hpc' = [hpc EXCEPT ![h] = IF state[queue[at]] = "WAKEN_UP" THEN "set" ELSE "ready"]
            /\ UNCHANGED <<on, qlock, at>>
    /\ UNCHANGED <<state, queue, ppc, sleepers, sleeper, complete>>

\* Fault: a woken process is not made runnable.
ScanSetNot(h) ==
    /\ hpc[h] = "set"
    /\ hpc' = [hpc EXCEPT ![h] = "ready"]
    /\ UNCHANGED <<state, queue, qlock, on, at, ppc, sleepers, sleeper, complete>>

\* proc->set_runnable(), likewise unlocked
ScanSet(h) ==
    /\ hpc[h] = "set"
    /\ state' = [state EXCEPT ![queue[at]] = "RUNNABLE"]
    /\ hpc' = [hpc EXCEPT ![h] = "ready"]
    /\ UNCHANGED <<queue, qlock, on, at, ppc, sleepers, sleeper, complete>>

\* The queue without its k-th entry.
Erase(s, k) == SubSeq(s, 1, k - 1) \o SubSeq(s, k + 1, Len(s))

\* Fault: the chosen process stays in the queue.
ScanReadyKeeps(h) ==
    /\ hpc[h] = "ready"
    /\ LET p == queue[at]
       IN IF state[p] = "RUNNABLE" /\ MayRunOn(p, h)
          THEN /\ queue' = queue
               /\ on' = [on EXCEPT ![h] = p]
               /\ qlock' = None
               /\ hpc' = [hpc EXCEPT ![h] = "got"]
               /\ at' = 1
          ELSE /\ at' = at + 1
               /\ hpc' = [hpc EXCEPT ![h] = "scan"]
               /\ UNCHANGED <<queue, on, qlock>>
    /\ UNCHANGED <<state, ppc, sleepers, sleeper, complete>>

\* The first process that is ready and may run here is taken.
ScanReady(h) ==
    /\ hpc[h] = "ready"
    /\ LET p == queue[at]
       IN IF state[p] = "RUNNABLE" /\ MayRunOn(p, h)
          THEN /\ queue' = Erase(queue, at)
               /\ on' = [on EXCEPT ![h] = p]
               /\ qlock' = None
               /\ hpc' = [hpc EXCEPT ![h] = "got"]
               /\ at' = 1
          ELSE /\ at' = at + 1
               /\ hpc' = [hpc EXCEPT ![h] = "scan"]
               /\ UNCHANGED <<queue, on, qlock>>
    /\ UNCHANGED <<state, ppc, sleepers, sleeper, complete>>

\* The first half of run(): an exited process is dropped, one that is not
\* runnable is a panic.
RunEnter(h) ==
    /\ hpc[h] = "got"
    /\ LET p == on[h]
       IN CASE state[p] = "EXITED" ->
                 /\ on' = [on EXCEPT ![h] = None]
                 /\ hpc' = [hpc EXCEPT ![h] = "top"]
                 /\ UNCHANGED state
            [] state[p] = "RUNNABLE" ->
                 /\ state' = [state EXCEPT ![p] = "RUNNING"]
                 /\ hpc' = [hpc EXCEPT ![h] = "run"]
                 /\ UNCHANGED on
            [] OTHER ->
                 /\ hpc' = [hpc EXCEPT ![h] = "panic"]
                 /\ UNCHANGED <<state, on>>
    /\ UNCHANGED <<queue, qlock, at, ppc, sleepers, sleeper, complete>>

\* The second half of run(), after the switch back: whether to reschedule.
RunLeave(h) ==
    /\ hpc[h] = "back"
    /\ LET p == on[h]
           Stop(s) ==
               /\ state' = [state EXCEPT ![p] = s]
               /\ on' = [on EXCEPT ![h] = None]
               /\ hpc' = [hpc EXCEPT ![h] = "top"]
           Again(s) ==
               /\ state' = [state EXCEPT ![p] = s]
               /\ hpc' = [hpc EXCEPT ![h] = "push"]
               /\ UNCHANGED on
       IN \/ state[p] = "RUNNING" /\ Again("RUNNABLE")
          \/ state[p] \in {"SLEEPING", "RUNNABLE", "WAKEN_UP"} /\ Again(state[p])
          \/ state[p] = "EXITED" /\ Stop("EXITED")
    /\ UNCHANGED <<queue, qlock, at, ppc, sleepers, sleeper, complete>>

\* Fault: a process goes back to the front of the queue.
PushFirst(h) ==
    /\ hpc[h] = "push"
    /\ qlock = None
    /\ queue' = IF on[h] = Idle[h] THEN queue ELSE <<on[h]>> \o queue
    /\ on' = [on EXCEPT ![h] = None]
    /\ hpc' = [hpc EXCEPT ![h] = "top"]
    /\ UNCHANGED <<state, qlock, at, ppc, sleepers, sleeper, complete>>

\* shared_queue->push(process), unless it is last_choice
Push(h) ==
    /\ hpc[h] = "push"
    /\ qlock = None
    /\ queue' = IF on[h] = Idle[h] THEN queue ELSE Append(queue, on[h])
    /\ on' = [on EXCEPT ![h] = None]
    /\ hpc' = [hpc EXCEPT ![h] = "top"]
    /\ UNCHANGED <<state, qlock, at, ppc, sleepers, sleeper, complete>>

-----------------------------------------------------------------------------
(* What a running process does *)

Running(h, p) == hpc[h] = "run" /\ on[h] = p

\* The timer interrupt, or cpu::yield in task_scheduler::start.
SwitchOut(h, p) ==
    /\ Running(h, p) /\ ppc[p] /= "pushing"
    /\ hpc' = [hpc EXCEPT ![h] = "back"]
    /\ UNCHANGED <<state, queue, qlock, on, at, ppc, sleepers, sleeper, complete>>

\* cpu::yield in wait_done, after the unlock
Yield(h, p) ==
    /\ Running(h, p)
    /\ ppc[p] = "unlocked"
    /\ ppc' = [ppc EXCEPT ![p] = "wait"]
    /\ hpc' = [hpc EXCEPT ![h] = "back"]
    /\ UNCHANGED <<state, queue, qlock, on, at, sleepers, sleeper, complete>>

\* make_shared<kernel_process>, then kernel_process_queue.push, whose lock()
\* turns interrupts off before it spins
Make(h) ==
    /\ Running(h, Main)
    /\ ppc[Main] = "work"
    /\ ppc' = [ppc EXCEPT ![Main] = "pushing"]
    /\ UNCHANGED <<state, queue, qlock, on, hpc, at, sleepers, sleeper, complete>>

Create(h, p) ==
    /\ Running(h, Main)
    /\ ppc[Main] = "pushing"
    /\ state[p] = "INIT" /\ p \in Subs
    /\ qlock = None
    /\ state' = [state EXCEPT ![p] = "WAKEN_UP"]
    /\ queue' = Append(queue, p)
    /\ ppc' = [ppc EXCEPT ![Main] = IF \A q \in Subs \ {p} : state[q] /= "INIT" THEN "wait" ELSE "work"]
    /\ UNCHANGED <<qlock, on, hpc, at, sleepers, sleeper, complete>>

\* while (subtask_complete != subtask_total) cpu::sleep(&_wait_queue, lock),
\* up to the unlock in wait_done: the process enters the wait queue and
\* becomes SLEEPING.
Wait(h) ==
    /\ Running(h, Main)
    /\ ppc[Main] = "wait"
    /\ IF complete = Cardinality(Subs)
       THEN /\ ppc' = [ppc EXCEPT ![Main] = "end"]
            /\ UNCHANGED <<state, sleeper>>
       ELSE /\ ppc' = [ppc EXCEPT ![Main] = "unlocked"]
            /\ sleeper' = Main
            /\ state' = [state EXCEPT ![Main] = IF @ = "RUNNING" THEN "SLEEPING" ELSE @]
    /\ UNCHANGED <<queue, qlock, on, hpc, at, sleepers, complete>>

\* cpu::sleep(ticks): interrupts are off until the switch back.
SleepTimer(h, p) ==
    /\ Running(h, p)
    /\ p \in Subs /\ ppc[p] = "work"
    /\ sleepers' = [sleepers EXCEPT ![h] = Append(@, p)]
    /\ state' = [state EXCEPT ![p] = IF @ = "RUNNING" THEN "SLEEPING" ELSE @]
    /\ ppc' = [ppc EXCEPT ![p] = "slept"]
    /\ hpc' = [hpc EXCEPT ![h] = "back"]
    /\ UNCHANGED <<queue, qlock, on, at, sleeper, complete>>

\* subtask_done, under the test's lock
Done(h, p) ==
    /\ Running(h, p)
    /\ p \in Subs /\ ppc[p] = "slept"
    /\ complete' = complete + 1
    /\ ppc' = [ppc EXCEPT ![p] = "end"]
    /\ IF complete + 1 = Cardinality(Subs) /\ sleeper /= None
       THEN /\ state' = WakeUp(state, sleeper)
            /\ sleeper' = None
       ELSE UNCHANGED <<state, sleeper>>
    /\ UNCHANGED <<queue, qlock, on, hpc, at, sleepers>>

\* A kernel function returns: __kernel_function_caller writes the state without
\* the lock.
Exit(h, p) ==
    /\ Running(h, p)
    /\ ppc[p] = "end"
    /\ state' = [state EXCEPT ![p] = "EXITED"]
    /\ hpc' = [hpc EXCEPT ![h] = "back"]
    /\ UNCHANGED <<queue, qlock, on, at, ppc, sleepers, sleeper, complete>>

-----------------------------------------------------------------------------
Sched(h) ==
    \/ PopStart(h) \/ ScanTest(h) \/ ScanSet(h) \/ ScanReady(h)
    \/ RunEnter(h) \/ RunLeave(h) \/ Push(h)

ProcStep(p) ==
    \E h \in Harts :
        \/ Yield(h, p) \/ SleepTimer(h, p) \/ Done(h, p) \/ Exit(h, p)
        \/ p = Main /\ (Make(h) \/ Wait(h) \/ \E q \in Subs : Create(h, q))

Next ==
    \/ \E h \in Harts :
          Sched(h) \/ WakeSleeper(h) \/ \E p \in Procs : SwitchOut(h, p)
    \/ \E p \in Procs : ProcStep(p)

Spec == Init /\ [][Next]_vars

\* Every hart runs on and gets the queue's lock in the end; the timer ends every
\* time slice and time passes for the sleepers; a process that gets its time
\* slices again and again gets on.
FairSpec ==
    /\ Spec
    /\ \A h \in Harts : SF_vars(Sched(h)) /\ SF_vars(WakeSleeper(h))
    /\ \A h \in Harts : WF_vars(\E p \in Procs : SwitchOut(h, p))
    /\ \A p \in Subs \cup {Main} : SF_vars(ProcStep(p))

-----------------------------------------------------------------------------
(* Properties *)

\* A process is queued once, or chosen by one hart, never both: no two harts
\* ever run on one stack and context.  RUNNING is the state of a process that is
\* on a hart, between the two halves of run().
OnePlace ==
    /\ \A i, j \in DOMAIN queue : queue[i] = queue[j] => i = j
    /\ \A g, h \in Harts : on[g] = on[h] /\ g /= h => on[g] = None
    /\ \A h \in Harts, i \in DOMAIN queue : on[h] /= queue[i]
    /\ \A p \in Procs : state[p] = "RUNNING" =>
          \E h \in Harts : on[h] = p /\ hpc[h] \in {"run", "back"}

\* No hart panics in run(): what pop() hands out is runnable, and because its
\* task scheduler never sleeps no hart ever falls back on its idle process,
\* which is not.
NoPanic == \A h \in Harts : hpc[h] /= "panic"

\* A sleeping process is known to someone who will wake it: to the timer list of
\* one hart, or to the wait queue while something is still to be waited for.
NoLostWakeup ==
    \A p \in Procs : state[p] = "SLEEPING" =>
        \/ p = sleeper /\ complete < Cardinality(Subs)
        \/ \E h \in Harts : p \in Range(sleepers[h])

\* Every process that is woken or runnable runs, in spite of the task schedulers
\* that are always ready.
RunnableRuns ==
    \A p \in Subs \cup {Main} :
        state[p] \in {"WAKEN_UP", "RUNNABLE"} ~> state[p] = "RUNNING"

====
