----------------------------- MODULE MCThreads -----------------------------
(***************************************************************************)
(* Model values for TLC: three user threads besides the idle thread, or    *)
(* two, and the sets of calls and interrupt points of each run.            *)
(***************************************************************************)
EXTENDS Threads, TLC

CONSTANTS idle, t1, t2, t3

TwoThreads   == {idle, t1, t2}
ThreeThreads == {idle, t1, t2, t3}

\* The user threads are interchangeable in Spec: none is named in it.
Symmetry == Permutations(Threads \ {idle})

\* The timer interrupt can come at any instruction outside the critical
\* sections, or everywhere but in the two windows that lose a thread.
Everywhere   == PCs \ {"none"}
NotInWindows == Everywhere \ {"leave", "create"}
Never        == {}

SoundCalls == {"yield", "delay", "delete", "suspend_self", "resume", "create"}
AllCalls      == Services
NoSuspendLeak == Services \ {"suspend_other", "delete_other"}
NoLeak        == Services \ {"delete_other"}
=============================================================================
