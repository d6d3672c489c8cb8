------------------------------- MODULE MCArm -------------------------------
(***************************************************************************)
(* Model values for TLC: three threads of one priority.                    *)
(***************************************************************************)
EXTENDS ArmPort, TLC

CONSTANTS n1, n2, n3, delayed, ready

ThreeNodes == {n1, n2, n3}
TwoLists   == {delayed, ready}

Symmetry == Permutations(ThreeNodes)
=============================================================================
