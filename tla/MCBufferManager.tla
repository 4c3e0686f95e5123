---- MODULE MCBufferManager ----
(* Instances of BufferManager for TLC. *)
EXTENDS BufferManager, TLC

CONSTANTS t1, t2, b1, b2, b3, d1, d2, n1, n2, n3, n4

MCOne == {t1}
MCTasks == {t1, t2}
MCBlocks == {b1, b2, b3}
MCTwoBlocks == {b1, b2}
MCDevices == {d1, d2}
MCNoDevices == {}
MCDeviceOf == [b \in MCBlocks |-> IF b = b2 THEN d2 ELSE d1]
MCNoBad == {}
MCBad == {b2}
MCThird == {b3}
MCNodes == {n1, n2, n3, n4}
MCCells == 1..6
MCSymmetry == Permutations(MCTasks) \cup Permutations(MCNodes)
====
