---- MODULE MCProcSched ----
(* Two harts with their idle and task_scheduler processes, for TLC. *)
EXTENDS ProcSched, TLC

CONSTANTS h1, h2, i1, i2, s1, s2, a

MCHarts == {h1, h2}
MCIdle == (h1 :> i1) @@ (h2 :> i2)
MCScheduler == (h1 :> s1) @@ (h2 :> s2)
MCSub == {a}

====
