-------------------------------- MODULE MCIpc --------------------------------
(***************************************************************************)
(* Model values for TLC: one object, a semaphore, a mailbox or a message   *)
(* queue, used by up to three threads of two priorities.                   *)
(***************************************************************************)
EXTENDS Ipc, TLC

CONSTANTS idle, t1, t2, t3, s1, s2

TwoThreads   == {idle, t1, t2}
ThreeThreads == {idle, t1, t2, t3}
Structs      == {s1, s2}

Symmetry == Permutations(Threads \ {idle}) \cup Permutations(MsgStructs)

NotInLeave == PCs \ {"none", "leave"}
=============================================================================
