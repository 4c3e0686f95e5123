---- MODULE MCCoroutine ----
(* Instances of Coroutine for TLC. *)
EXTENDS Coroutine

MCFrames == 1..5
MCHarts == {1, 2}

====
