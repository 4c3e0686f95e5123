---- MODULE CallStack ----
(***************************************************************************)
(* What coroutines that await each other promise: each scheduled task is a *)
(* stack of calls, a failure unwinds it to the nearest guarded call.       *)
(***************************************************************************)
EXTENDS Sequences, Naturals

CONSTANT Frames

VARIABLES stack,    \* per task, named by its bottom frame, its <<frame, guarded>> calls
          failed    \* frames whose owner will find that they failed

OnStack(f) == \E e \in Frames : \E i \in DOMAIN stack[e] : stack[e][i][1] = f

Init == stack = [e \in Frames |-> <<>>] /\ failed = {}

\* What one step may make of a stack s, giving t.  Finished frames may be
\* destroyed at any time and are then forgotten.

Spawn(e, s, t) ==
    /\ s = <<>>
    /\ t = <<<<e, FALSE>>>>
    /\ failed' \subseteq failed

Call(s, t) ==
    /\ s /= <<>>
    /\ Len(t) = Len(s) + 1
    /\ SubSeq(t, 1, Len(s)) = s
    /\ ~OnStack(t[Len(t)][1])
    /\ failed' \subseteq failed

\* The top frame returns, or yields a value, to its caller.
Return(s, t) ==
    /\ s /= <<>>
    /\ t = SubSeq(s, 1, Len(s) - 1)
    /\ failed' \subseteq failed

\* A failure discards the frames above the caller of the innermost guarded one,
\* and that caller finds its call failed.
Throw(s, t) ==
    \E i \in DOMAIN s :
        /\ s[i][2]
        /\ \A j \in DOMAIN s : s[j][2] => j <= i
        /\ t = SubSeq(s, 1, i - 1)
        /\ s[i][1] \in failed'
        /\ failed' \subseteq failed \cup {s[j][1] : j \in i..Len(s)}

Move(e, s, t) == Spawn(e, s, t) \/ Call(s, t) \/ Return(s, t) \/ Throw(s, t)

Step ==
    \E e \in Frames :
        /\ Move(e, stack[e], stack'[e])
        /\ \A d \in Frames \ {e} : stack'[d] = stack[d]

Forget == stack' = stack /\ failed' \subseteq failed

Next == Step \/ Forget

Spec == Init /\ [][Next]_<<stack, failed>>

====
