------------------------------- MODULE MCLists -------------------------------
(***************************************************************************)
(* Model values for TLC: three nodes, delayed_list and one ready list.     *)
(***************************************************************************)
EXTENDS LinkedLists, TLC

CONSTANTS n1, n2, n3, delayed, ready

ThreeNodes == {n1, n2, n3}
TwoLists   == {delayed, ready}

Symmetry == Permutations(ThreeNodes)
=============================================================================
