---- MODULE VirtioDisk ----
(***************************************************************************)
(* The virtio block driver (drivers/virtio/virtio_disk.cc): descriptor     *)
(* chains, the avail and used rings, the completion interrupt and the      *)
(* coroutines that sleep for descriptors or for a completion.              *)
(*                                                                         *)
(* The driver's lock is held without a suspension, so a critical section   *)
(* of a coroutine is one action; the interrupt handler is split where the  *)
(* device may write the used ring meanwhile.  The device is external.      *)
(***************************************************************************)
EXTENDS Naturals, FiniteSets, Sequences

CONSTANTS Tasks,       \* coroutines that issue commands
          Requests,    \* commands: VIRTIO_BLK_T_IN or _OUT and a block below capacity()
          NUM,         \* descriptors, and entries of each ring
          IdxMod,      \* range of the 16-bit ring indices
          MayReset,    \* may the device ask for a reset?
          None

ASSUME NUMAssumption == NUM \in Nat /\ NUM >= 3
ASSUME IdxModAssumption == IdxMod \in Nat /\ \E k \in 1..IdxMod : IdxMod = k * NUM
ASSUME NoneAssumption == None \notin Tasks

Desc == 0..(NUM - 1)

VARIABLES free,       \* free descriptors
          nxt, more,  \* desc[i].next, and whether VRING_DESC_F_NEXT is set
          ops,        \* ops[i], the command desc[i].addr of a first descriptor points to
          buffer,     \* desc[i].addr of a second descriptor: the task's buffer
          reply,      \* desc[i].addr of a third one: the info entry
          avail, avail_idx,  \* the ring the driver fills
          taken,      \* entries of avail the device has taken
          serving,    \* chains the device is working on
          used, used_end,    \* the ring the device fills and used->idx
          used_idx,   \* entries of used the driver has seen
          done, status, \* info[i].done; info[i].status is zero
          pending,    \* the device's interrupt is raised
          needs_reset,
          lock,       \* "free", "intr" in the handler, or "leaked"
          request_queue,     \* coroutines that wait for descriptors
          pc, req, head,     \* coroutines: state, command, first descriptor
          served      \* commands the device carried out on a task's buffer

deviceVars == <<taken, serving, used, used_end, status, pending, needs_reset, served>>
chainVars  == <<free, nxt, more, ops, buffer, reply>>
vars == <<chainVars, avail, avail_idx, deviceVars, used_idx, done, lock, request_queue, pc, req, head>>

\* The state open() leaves behind.  A task is idle; alloc: about to lock and
\* allocate; asleep: in request_queue; wait: in info[head].wait_queue; woken: taken
\* out of it; failed: co_return -1.
Init ==
    /\ free = Desc
    /\ nxt = [i \in Desc |-> 0] /\ more = [i \in Desc |-> FALSE]
    /\ ops = [i \in Desc |-> None]
    /\ buffer = [i \in Desc |-> None] /\ reply = [i \in Desc |-> None]
    /\ avail = [i \in Desc |-> 0] /\ avail_idx = 0 /\ taken = 0
    /\ serving = {}
    /\ used = [i \in Desc |-> 0] /\ used_end = 0 /\ used_idx = 0
    /\ done = [i \in Desc |-> FALSE] /\ status = [i \in Desc |-> TRUE]
    /\ pending = FALSE /\ needs_reset = FALSE
    /\ lock = "free"
    /\ request_queue = <<>>
    /\ pc = [t \in Tasks |-> "idle"]
    /\ req = [t \in Tasks |-> None]
    /\ head = [t \in Tasks |-> None]
    /\ served = [t \in Tasks |-> <<>>]

-----------------------------------------------------------------------------
(* Descriptors, ring indices and wake-ups *)

\* The uint16 ring indices run freely and wrap.
Succ(i) == (i + 1) % IdxMod

\* alloc_desc takes the lowest free descriptor.
Lowest(S) == CHOOSE i \in S : \A j \in S : i <= j

\* wake_up_one, n times: the states of the tasks and the rest of the queue.
Woken(n, p) ==
    LET front == {request_queue[i] : i \in {j \in DOMAIN request_queue : j <= n}}
    IN [t \in Tasks |-> IF t \in front THEN "alloc" ELSE p[t]]

Sleepers(n) ==
    IF n >= Len(request_queue) THEN <<>> ELSE SubSeq(request_queue, n + 1, Len(request_queue))

\* The descriptors free_chain walks over.
Chain(h) ==
    {h} \cup (IF more[h] THEN {nxt[h]} \cup (IF more[nxt[h]] THEN {nxt[nxt[h]]} ELSE {}) ELSE {})

-----------------------------------------------------------------------------
(* disk_command *)

Command(t, r) ==
    /\ pc[t] = "idle"
    /\ pc' = [pc EXCEPT ![t] = "alloc"]
    /\ req' = [req EXCEPT ![t] = r]
    /\ served' = [served EXCEPT ![t] = <<>>]
    /\ UNCHANGED <<chainVars, avail, avail_idx, taken, serving, used, used_end, status, pending,
                   needs_reset, used_idx, done, lock, request_queue, head>>

\* alloc_descs fails: what it took is given back, which wakes as many sleepers,
\* and the task sleeps behind them.
AllocFails(t) ==
    /\ pc[t] = "alloc"
    /\ lock = "free"
    /\ Cardinality(free) < 3
    /\ request_queue' = Append(Sleepers(Cardinality(free)), t)
    /\ pc' = [Woken(Cardinality(free), pc) EXCEPT ![t] = "asleep"]
    /\ UNCHANGED <<chainVars, avail, avail_idx, deviceVars, used_idx, done, lock, req, head>>

\* Fault: VRING_DESC_F_NEXT is missing in the descriptor of the data.
FillChainUnlinked(t, a, b, c) ==
    /\ nxt' = [nxt EXCEPT ![a] = b, ![b] = c, ![c] = 0]
    /\ more' = [more EXCEPT ![a] = TRUE, ![b] = FALSE, ![c] = FALSE]
    /\ ops' = [ops EXCEPT ![a] = req[t]]
    /\ buffer' = [buffer EXCEPT ![b] = t]
    /\ reply' = [reply EXCEPT ![c] = a]

\* The three descriptors: command header, the task's data, status byte.
FillChain(t, a, b, c) ==
    /\ nxt' = [nxt EXCEPT ![a] = b, ![b] = c, ![c] = 0]
    /\ more' = [more EXCEPT ![a] = TRUE, ![b] = TRUE, ![c] = FALSE]
    /\ ops' = [ops EXCEPT ![a] = req[t]]
    /\ buffer' = [buffer EXCEPT ![b] = t]
    /\ reply' = [reply EXCEPT ![c] = a]

\* Three descriptors are filled in, published and the task sleeps; if the
\* device needs a reset it returns with the lock held instead.
Submit(t) ==
    /\ pc[t] = "alloc"
    /\ lock = "free"
    /\ Cardinality(free) >= 3
    /\ LET a == Lowest(free)
           b == Lowest(free \ {a})
           c == Lowest(free \ {a, b})
       IN /\ free' = free \ {a, b, c}
          /\ FillChain(t, a, b, c)
          /\ status' = [status EXCEPT ![a] = FALSE]
          /\ done' = [done EXCEPT ![a] = FALSE]
          /\ avail' = [avail EXCEPT ![avail_idx % NUM] = a]
          /\ head' = [head EXCEPT ![t] = a]
    /\ avail_idx' = Succ(avail_idx)
    /\ pc' = [pc EXCEPT ![t] = IF needs_reset THEN "failed" ELSE "wait"]
    /\ lock' = IF needs_reset THEN "leaked" ELSE "free"
    /\ UNCHANGED <<taken, serving, used, used_end, pending, needs_reset, served, used_idx,
                   request_queue, req>>

\* Resumed with done set: free_chain, three wake_up_one, return 0.
Finish(t) ==
    /\ pc[t] = "woken"
    /\ lock = "free"
    /\ done[head[t]]
    /\ LET C == Chain(head[t])
       IN /\ free' = free \cup C
          /\ nxt' = [i \in Desc |-> IF i \in C THEN 0 ELSE nxt[i]]
          /\ more' = [i \in Desc |-> IF i \in C THEN FALSE ELSE more[i]]
          /\ buffer' = [i \in Desc |-> IF i \in C THEN None ELSE buffer[i]]
          /\ reply' = [i \in Desc |-> IF i \in C THEN None ELSE reply[i]]
          /\ request_queue' = Sleepers(Cardinality(C))
          /\ pc' = [Woken(Cardinality(C), pc) EXCEPT ![t] = "idle"]
    /\ req' = [req EXCEPT ![t] = None]
    /\ head' = [head EXCEPT ![t] = None]
    /\ UNCHANGED <<ops, avail, avail_idx, deviceVars, used_idx, done, lock>>

-----------------------------------------------------------------------------
(* virtio_disk_intr, run by the hart that claimed the interrupt *)

\* lock, then interrupt_ack
IntrEnter ==
    /\ pending
    /\ lock = "free"
    /\ lock' = "intr"
    /\ pending' = FALSE
    /\ UNCHANGED <<chainVars, avail, avail_idx, taken, serving, used, used_end, status, needs_reset,
                   served, used_idx, done, request_queue, pc, req, head>>

\* Fault: the entry after the next one is taken from the used ring.
IntrCompleteOffByOne ==
    /\ lock = "intr"
    /\ used_idx /= used_end
    /\ LET id == used[(used_idx + 1) % NUM]
       IN /\ done' = [done EXCEPT ![id] = TRUE]
          /\ pc' = [t \in Tasks |-> IF pc[t] = "wait" /\ head[t] = id THEN "woken" ELSE pc[t]]
    /\ used_idx' = Succ(used_idx)
    /\ UNCHANGED <<chainVars, avail, avail_idx, deviceVars, lock, request_queue, req, head>>

\* One entry of the used ring: set done and wake the task that sleeps there.
IntrComplete ==
    /\ lock = "intr"
    /\ used_idx /= used_end
    /\ LET id == used[used_idx % NUM]
       IN /\ status[id]
          /\ done' = [done EXCEPT ![id] = TRUE]
          /\ pc' = [t \in Tasks |-> IF pc[t] = "wait" /\ head[t] = id THEN "woken" ELSE pc[t]]
    /\ used_idx' = Succ(used_idx)
    /\ UNCHANGED <<chainVars, avail, avail_idx, deviceVars, lock, request_queue, req, head>>

\* Fault: the handler leaves without looking at used->idx again.
IntrLeaveEarly ==
    /\ lock = "intr"
    /\ lock' = "free"
    /\ UNCHANGED <<chainVars, avail, avail_idx, deviceVars, used_idx, done, request_queue, pc, req, head>>

IntrLeave ==
    /\ lock = "intr"
    /\ used_idx = used_end
    /\ lock' = "free"
    /\ UNCHANGED <<chainVars, avail, avail_idx, deviceVars, used_idx, done, request_queue, pc, req, head>>

-----------------------------------------------------------------------------
(* The device *)

DeviceTake ==
    /\ taken /= avail_idx
    /\ serving' = serving \cup {avail[taken % NUM]}
    /\ taken' = Succ(taken)
    /\ UNCHANGED <<chainVars, avail, avail_idx, used, used_end, status, pending, needs_reset, served,
                   used_idx, done, lock, request_queue, pc, req, head>>

\* Requests finish in any order: the command in the first descriptor is done on
\* the buffer in the second, then zero is written where the third points.
DeviceComplete(h) ==
    /\ h \in serving
    /\ serving' = serving \ {h}
    /\ served' = [served EXCEPT ![buffer[nxt[h]]] = Append(@, ops[h])]
    /\ status' = [status EXCEPT ![reply[nxt[nxt[h]]]] = TRUE]
    /\ used' = [used EXCEPT ![used_end % NUM] = h]
    /\ used_end' = Succ(used_end)
    /\ pending' = TRUE
    /\ UNCHANGED <<chainVars, avail, avail_idx, taken, needs_reset, used_idx, done, lock,
                   request_queue, pc, req, head>>

DeviceNeedsReset ==
    /\ MayReset /\ ~needs_reset
    /\ needs_reset' = TRUE
    /\ UNCHANGED <<chainVars, avail, avail_idx, taken, serving, used, used_end, status, pending, served,
                   used_idx, done, lock, request_queue, pc, req, head>>

-----------------------------------------------------------------------------
TaskStep(t) == AllocFails(t) \/ Submit(t) \/ Finish(t)
Intr == IntrEnter \/ IntrComplete \/ IntrLeave
Device == DeviceTake \/ \E h \in Desc : DeviceComplete(h)

Next ==
    \/ \E t \in Tasks : TaskStep(t) \/ \E r \in Requests : Command(t, r)
    \/ Intr
    \/ Device
    \/ DeviceNeedsReset

Spec == Init /\ [][Next]_vars

\* A coroutine or a handler that spins for the driver's lock while others use it
\* gets it in the end (strong fairness); resumed coroutines run, a raised interrupt is taken by some hart and its
\* handler runs on, and the device takes and finishes what it is given.
FairSpec ==
    /\ Spec
    /\ \A t \in Tasks : SF_vars(TaskStep(t))
    /\ SF_vars(IntrEnter)
    /\ WF_vars(IntrComplete) /\ WF_vars(IntrLeave)
    /\ WF_vars(DeviceTake)
    /\ \A h \in Desc : WF_vars(DeviceComplete(h))

-----------------------------------------------------------------------------
(* Properties *)

Submitted(t) == pc[t] \in {"wait", "woken", "failed"}

\* Every descriptor is free or in the chain of exactly one command, so no chain
\* is freed twice ("free_desc 2") and none is lost.
DescriptorsOwned ==
    /\ \A t \in Tasks : Submitted(t) => Cardinality(Chain(head[t])) = 3 /\ Chain(head[t]) \cap free = {}
    /\ \A t, u \in Tasks : Submitted(t) /\ Submitted(u) /\ t /= u => Chain(head[t]) \cap Chain(head[u]) = {}
    /\ Cardinality(free) + 3 * Cardinality({t \in Tasks : Submitted(t)}) = NUM

\* A command returns only after the device has carried out exactly that
\* command, once, on the buffer of the task that issued it.
ServedOnce ==
    \A t \in Tasks :
        /\ pc[t] = "woken" => done[head[t]] /\ served[t] = <<req[t]>>
        /\ Len(served[t]) <= 1

\* Unless the device asks for a reset, every command handed to it returns to its
\* caller, whatever the order of completions, interrupts and acknowledgements, and a
\* task that sleeps for descriptors is woken to try again (disk_command, interrupt
\* handler, free_desc).
CommandsReturn ==
    \A t \in Tasks :
        /\ pc[t] = "wait" ~> pc[t] = "idle" \/ needs_reset
        /\ pc[t] = "asleep" ~> pc[t] = "alloc" \/ needs_reset

====
