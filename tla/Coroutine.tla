---- MODULE Coroutine ----
(***************************************************************************)
(* The coroutine library (coroutine.h, coroutine.cc, task_scheduler.h):    *)
(* frames that own, await and resume each other, failures that unwind to   *)
(* an error handler, and the executor frame that wraps a scheduled task.   *)
(*                                                                         *)
(* A frame is known by its promise.  The bodies of coroutines are any code *)
(* that uses the library as the kernel does: it awaits a task it created,  *)
(* never awaits a finished one, and drops tasks at the end of their scope. *)
(* Symmetric transfer leaves one frame running per hart.  All schedulers   *)
(* push to the one kernel_task_queue, so self_scheduler is left out, as is  *)
(* what only backtraces read (current_promise, await_address).             *)
(***************************************************************************)
EXTENDS Integers, Sequences, Functions

CONSTANTS Frames,   \* memory for frames, reused once destroyed
          Harts,    \* harts, each running a task_scheduler
          MaxOps,   \* bound on what the bodies do besides returning
          Deferred, \* may a body do something else between creating a task and awaiting it?
          Reserved  \* is schedule() called only while an executor frame can be allocated?

ASSUME FramesAssumption == Frames \subseteq Nat \ {0}
ASSUME MaxOpsAssumption == MaxOps \in Nat
ASSUME ClientsAssumption == Deferred \in BOOLEAN /\ Reserved \in BOOLEAN

VARIABLES status,            \* promise_base::_status, "free" for unused memory
          caller,            \* promise_base::caller
          owner,             \* the frame whose task object has _owner set
          has_error_handler, \* promise_base::has_error_handler
          no_yield,          \* promise_base::no_yield
          executor,          \* is the frame one of __task_executor?
          queue,             \* kernel_task_queue
          asleep,            \* frames suspended in a wait queue
          running,           \* the frame each hart executes
          panic,             \* has the kernel panicked?
          ops                \* counts towards MaxOps

frameVars == <<status, caller, owner, has_error_handler, no_yield, executor>>
placeVars == <<queue, asleep, running>>
vars == <<frameVars, placeVars, panic, ops>>

None == 0

Live == {f \in Frames : status[f] /= "free"}
Free == Frames \ Live

\* Frame memory is interchangeable: the lowest free one stands for any.
Fresh(f) == f \in Free /\ \A g \in Free : f <= g

Init ==
    /\ status = [f \in Frames |-> "free"]
    /\ caller = [f \in Frames |-> None]
    /\ owner = [f \in Frames |-> None]
    /\ has_error_handler = [f \in Frames |-> FALSE]
    /\ no_yield = [f \in Frames |-> FALSE]
    /\ executor = [f \in Frames |-> FALSE]
    /\ queue = <<>>
    /\ asleep = {}
    /\ running = [h \in Harts |-> None]
    /\ panic = FALSE
    /\ ops = 0

-----------------------------------------------------------------------------
(* Helpers *)

\* The frame and those whose task objects own it, directly or not.
OwnersOf[f \in Frames] == {f} \cup IF owner[f] = None THEN {} ELSE OwnersOf[owner[f]]

\* Fault: the frame is freed without running the destructors of its locals.
OwnedShallow(f) == {f}

\* handle.destroy(): the locals of a frame go with it, task objects included.
Owned(f) == {g \in Live : f \in OwnersOf[g]}

\* ~promise_base panics for a promise that never ran.
NeverRan(S) == \E f \in S : status[f] = "init"

\* ~task for the frames of S, the other statuses being st.
Destroy(S, st) ==
    LET Without(fn, none) == [f \in Frames |-> IF f \in S THEN none ELSE fn[f]]
    IN /\ status' = Without(st, "free")
       /\ caller' = Without(caller, None)
       /\ owner' = Without(owner, None)
       /\ has_error_handler' = Without(has_error_handler, FALSE)
       /\ no_yield' = Without(no_yield, FALSE)
       /\ executor' = Without(executor, FALSE)

\* Fault: failures stop at the caller, guarded or not.
FirstCaller(f) == IF caller[f] = None THEN None ELSE f

FailPoint[f \in Frames] ==
    IF caller[f] = None THEN None
    ELSE IF has_error_handler[f] THEN f
    ELSE FailPoint[caller[f]]

\* coroutine_handle_fail: the frame on the way to the top that is marked
\* failed and whose caller is resumed; None is "no error handler found".
HandleFail(f) == FailPoint[f]

Op == ops < MaxOps /\ ops' = ops + 1

\* The hart executes the body of f, which awaits a new task at once unless
\* bodies may defer that.
Body(h, f) ==
    /\ ~panic
    /\ running[h] = f
    /\ f /= None
    /\ ~executor[f]
    /\ Deferred \/ \A g \in Frames : owner[g] = f => status[g] /= "init"

\* final_suspend and co_yield resume the caller, in its await_resume.
ResumeCaller(h, f) == running' = [running EXCEPT ![h] = caller[f]]

-----------------------------------------------------------------------------
(* Scheduling *)

\* A task is created and handed to task_scheduler::schedule, which wraps it;
\* without memory for the executor it dereferences a null promise.
Spawn(ny) ==
    /\ ~panic
    /\ Op
    /\ \E p \in Frames :
        /\ Fresh(p)
        /\ Reserved => Free /= {p}
        /\ IF Free = {p}
           THEN /\ panic' = TRUE
                /\ UNCHANGED <<frameVars, queue>>
           ELSE \E e \in Free \ {p} :
                /\ \A g \in Free \ {p} : e <= g
                /\ status' = [status EXCEPT ![p] = "init", ![e] = "init"]
                /\ owner' = [owner EXCEPT ![p] = e]
                /\ no_yield' = [no_yield EXCEPT ![p] = ny]
                /\ executor' = [executor EXCEPT ![e] = TRUE]
                /\ queue' = Append(queue, e)
                /\ UNCHANGED <<caller, has_error_handler, panic>>
    /\ UNCHANGED <<asleep, running>>

\* task_scheduler::start: try_pop and task_base::resume.
Resume(h) ==
    /\ ~panic
    /\ running[h] = None
    /\ queue /= <<>>
    /\ running' = [running EXCEPT ![h] = Head(queue)]
    /\ queue' = Tail(queue)
    /\ status' = [status EXCEPT ![Head(queue)] = "running"]
    /\ UNCHANGED <<caller, owner, has_error_handler, no_yield, executor, asleep, panic, ops>>

\* Fault: the frame is queued and resumed at once as well.
YieldStays(h, f) ==
    /\ Body(h, f)
    /\ Op
    /\ ~no_yield[f]
    /\ queue /= <<>>
    /\ queue' = Append(queue, f)
    /\ UNCHANGED <<frameVars, asleep, running, panic>>

\* co_await this_scheduler when there is other work.  The caller of the frame
\* is set, so schedule() does not wrap it again.
Yield(h, f) ==
    /\ Body(h, f)
    /\ Op
    /\ ~no_yield[f]
    /\ queue /= <<>>
    /\ queue' = Append(queue, f)
    /\ running' = [running EXCEPT ![h] = None]
    /\ UNCHANGED <<frameVars, asleep, panic>>

\* wait_queue_done::await_suspend; with no_yield it resumes at once instead.
Sleep(h, f) ==
    /\ Body(h, f)
    /\ Op
    /\ ~no_yield[f]
    /\ asleep' = asleep \cup {f}
    /\ running' = [running EXCEPT ![h] = None]
    /\ UNCHANGED <<frameVars, queue, panic>>

\* task_base::wake_up.
WakeUp(f) ==
    /\ ~panic
    /\ f \in asleep
    /\ asleep' = asleep \ {f}
    /\ queue' = Append(queue, f)
    /\ UNCHANGED <<frameVars, running, panic, ops>>

-----------------------------------------------------------------------------
(* Calls *)

\* A body creates a task; guarded is its setting of has_error_handler.
Create(h, f, guarded) ==
    /\ Body(h, f)
    /\ Op
    /\ \E g \in Frames :
        /\ Fresh(g)
        /\ status' = [status EXCEPT ![g] = "init"]
        /\ owner' = [owner EXCEPT ![g] = f]
        /\ has_error_handler' = [has_error_handler EXCEPT ![g] = guarded]
    /\ UNCHANGED <<caller, no_yield, executor, placeVars, panic>>

\* task_awaiter::await_suspend of a frame that awaits g, which it owns.
Transfer(h, f, g, guarded) ==
    /\ has_error_handler' = [has_error_handler EXCEPT ![g] = guarded]
    /\ no_yield' = [no_yield EXCEPT ![g] = @ \/ no_yield[f]]
    /\ caller' = [caller EXCEPT ![g] = f]
    /\ status' = [status EXCEPT ![g] = "running"]
    /\ running' = [running EXCEPT ![h] = g]
    /\ UNCHANGED <<owner, executor, queue, asleep, panic>>

Await(h, f, g) ==
    /\ ~panic
    /\ running[h] = f
    /\ f /= None
    /\ ~executor[f]
    /\ owner[g] = f
    /\ status[g] = "init"
    /\ Transfer(h, f, g, has_error_handler[g])
    /\ UNCHANGED ops

\* A generator that has yielded a value is awaited for the next one.
AwaitNext(h, f, g) ==
    /\ Body(h, f)
    /\ owner[g] = f
    /\ status[g] = "suspend"
    /\ Transfer(h, f, g, has_error_handler[g])
    /\ UNCHANGED ops

\* co_yield: a task<void> cannot, so the caller is never an executor.
CoYield(h, f) ==
    /\ Body(h, f)
    /\ Op
    /\ ~executor[caller[f]]
    /\ status' = [status EXCEPT ![f] = "suspend"]
    /\ ResumeCaller(h, f)
    /\ UNCHANGED <<caller, owner, has_error_handler, no_yield, executor, queue, asleep, panic>>

\* co_return: the tasks among the locals are destroyed, the frame itself is
\* left to its owner.
Return(h, f) ==
    /\ Body(h, f)
    /\ Destroy(Owned(f) \ {f}, [status EXCEPT ![f] = "done"])
    /\ panic' = NeverRan(Owned(f) \ {f})
    /\ ResumeCaller(h, f)
    /\ UNCHANGED <<queue, asleep, ops>>

\* Where a failure of f continues.
Unwind(h, f) ==
    /\ running' = [running EXCEPT ![h] = IF HandleFail(f) = None THEN @ ELSE caller[HandleFail(f)]]
    /\ UNCHANGED <<queue, asleep, ops>>

Failed(f) == [g \in Frames |-> IF g \in {f, HandleFail(f)} THEN "fail" ELSE status[g]]

\* co_return task_fail.
Fail(h, f) ==
    /\ Body(h, f)
    /\ Destroy(Owned(f) \ {f}, Failed(f))
    /\ panic' = (NeverRan(Owned(f) \ {f}) \/ HandleFail(f) = None)
    /\ Unwind(h, f)

\* co_await of a task whose frame could not be allocated: the awaiting frame
\* fails where it stands, its locals live until it is destroyed.
AwaitNoMemory(h, f) ==
    /\ Body(h, f)
    /\ Free = {}
    /\ status' = Failed(f)
    /\ panic' = (HandleFail(f) = None)
    /\ Unwind(h, f)
    /\ UNCHANGED <<caller, owner, has_error_handler, no_yield, executor>>

\* ~task at the end of the scope of a task that was awaited.
Drop(h, f, g) ==
    /\ Body(h, f)
    /\ owner[g] = f
    /\ status[g] \in {"suspend", "done", "fail"}
    /\ Destroy(Owned(g), status)
    /\ panic' = NeverRan(Owned(g))
    /\ UNCHANGED <<placeVars, ops>>

-----------------------------------------------------------------------------
(* __task_executor *)

\* Fault: has_error_handler of the task is not set.
ExecutorAwaitUnguarded(h, e, p) ==
    /\ ~panic
    /\ running[h] = e
    /\ e /= None
    /\ executor[e]
    /\ owner[p] = e
    /\ status[p] = "init"
    /\ Transfer(h, e, p, FALSE)
    /\ UNCHANGED ops

ExecutorAwait(h, e, p) ==
    /\ ~panic
    /\ running[h] = e
    /\ e /= None
    /\ executor[e]
    /\ owner[p] = e
    /\ status[p] = "init"
    /\ Transfer(h, e, p, TRUE)
    /\ UNCHANGED ops

\* Fault: an executor, which nobody owns, does not destroy itself.
ExecutorLeaks(h, e) ==
    /\ ~panic
    /\ running[h] = e
    /\ e /= None
    /\ executor[e]
    /\ \A p \in Frames : owner[p] = e => status[p] /= "init"
    /\ Destroy(Owned(e) \ {e}, [status EXCEPT ![e] = "done"])
    /\ panic' = NeverRan(Owned(e))
    /\ running' = [running EXCEPT ![h] = None]
    /\ UNCHANGED <<queue, asleep, ops>>

\* co_return task_ok destroys the task; final_suspend without a caller
\* destroys the executor and returns to the scheduler.
ExecutorReturn(h, e) ==
    /\ ~panic
    /\ running[h] = e
    /\ e /= None
    /\ executor[e]
    /\ \A p \in Frames : owner[p] = e => status[p] /= "init"
    /\ Destroy(Owned(e), status)
    /\ panic' = NeverRan(Owned(e))
    /\ running' = [running EXCEPT ![h] = None]
    /\ UNCHANGED <<queue, asleep, ops>>

-----------------------------------------------------------------------------
BodyStep(h, f) ==
    \/ Yield(h, f)
    \/ Sleep(h, f)
    \/ \E guarded \in BOOLEAN : Create(h, f, guarded)
    \/ \E g \in Frames : Await(h, f, g) \/ AwaitNext(h, f, g) \/ Drop(h, f, g)
    \/ CoYield(h, f)
    \/ Return(h, f)
    \/ Fail(h, f)
    \/ AwaitNoMemory(h, f)

HartStep(h) ==
    \/ Resume(h)
    \/ \E f \in Frames :
        \/ BodyStep(h, f)
        \/ ExecutorReturn(h, f)
        \/ \E p \in Frames : ExecutorAwait(h, f, p)

\* What goes on without new work: the harts, and the events frames wait for.
Progress ==
    \/ \E h \in Harts : HartStep(h)
    \/ \E f \in Frames : WakeUp(f)

Next == Progress \/ \E ny \in BOOLEAN : Spawn(ny)

Spec == Init /\ [][Next]_vars

\* The kernel does not stop while it has something to do.  MaxOps bounds the
\* bodies, so no fairness between harts or frames is needed.
FairSpec == Spec /\ WF_vars(Progress)

-----------------------------------------------------------------------------
(* Properties *)

\* Frames that a hart, the task queue or a wait queue refers to.
Active == Range(queue) \cup asleep \cup (Range(running) \ {None})

\* The calls from a frame's executor down to it, by the caller links.
Calls[f \in Frames] ==
    (IF caller[f] = None THEN <<>> ELSE Calls[caller[f]]) \o <<<<f, has_error_handler[f]>>>>

\* The same frames, without their order.
CallersOf[f \in Frames] == {f} \cup IF caller[f] = None THEN {} ELSE CallersOf[caller[f]]

\* A suspended coroutine is resumed by one party only: no frame is in two of
\* the task queue, the wait queues and the harts, and each scheduled task has
\* exactly one frame there, the innermost of its calls.  What a no_yield task
\* calls, however deep, is in none of them but its hart.
OneActive ==
    /\ \A i, j \in DOMAIN queue : queue[i] = queue[j] => i = j
    /\ \A g, h \in Harts : running[g] = running[h] /\ running[g] /= None => g = h
    /\ Range(queue) \cap asleep = {}
    /\ Range(running) \cap (Range(queue) \cup asleep) = {}
    /\ \A e \in Frames : executor[e] => \E f \in Active : {g \in Active : e \in CallersOf[g]} = {f}
    /\ \A f \in Range(queue) \cup asleep : \A g \in CallersOf[f] : ~no_yield[g]

\* Task objects form trees: every frame belongs to the executor of a scheduled
\* task that is still active, so nothing leaks and nothing is owned by a
\* destroyed frame, also after a failure or without memory.
OwnedByTask ==
    \A f \in Live : \E e \in Live : executor[e] /\ e \in OwnersOf[f]

\* Neither "promise never ran" nor "no error handler found" is raised, and
\* schedule() does not dereference a missing executor.
NoPanic == ~panic

\* Every scheduled task ends and all its frames are destroyed, whatever calls,
\* failures, generators and exhausted memory its body meets.
AllReclaimed == <>[](Live = {})

\* The stack of each scheduled task.
TaskStack == [e \in Frames |->
    IF \E f \in Active : Calls[f][1][1] = e
    THEN Calls[CHOOSE f \in Active : Calls[f][1][1] = e]
    ELSE <<>>]

Stacks == INSTANCE CallStack WITH stack <- TaskStack, failed <- {f \in Frames : status[f] = "fail"}

\* Awaiting, returning, yielding values and failing behave as calls, returns
\* and exceptions on one stack per task: a failure continues at the caller of
\* the innermost frame with has_error_handler and nowhere else.
ImplementsCallStack == Stacks!Spec

====
