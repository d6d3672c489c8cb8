---------------------------- MODULE SequenceLists ----------------------------
(***************************************************************************)
(* What the kernel takes a list for: a sequence of nodes, no node on two   *)
(* lists.  Scheduler, Threads and Ipc use lists in this form.  The walk of *)
(* advance_time_tick over one list, which moves nodes to another while it  *)
(* goes, is part of the promise.                                           *)
(***************************************************************************)
EXTENDS Naturals, Sequences, SequencesExt

CONSTANTS Nodes, Lists,
          Walked, Target,   \* delayed_list and a ready list
          MaxCount          \* bound of the counters (delayed_time)

VARIABLES list, count, cursor

Holds(l, n) == \E i \in DOMAIN list[l] : list[l][i] = n
Free(n)     == \A l \in Lists : ~Holds(l, n)

Init == /\ list = [l \in Lists |-> <<>>]
        /\ count = [n \in Nodes |-> 0]
        /\ cursor = 0

\* A free node comes to stand at position i.
Insert(l, n, i) ==
  /\ cursor = 0 /\ Free(n)
  /\ list' = [list EXCEPT ![l] = InsertAt(@, i, n)]
  /\ \E c \in 1 .. MaxCount : count' = [count EXCEPT ![n] = c]
  /\ UNCHANGED cursor

Take(l, i) ==
  /\ cursor = 0
  /\ list' = [list EXCEPT ![l] = RemoveAt(@, i)]
  /\ UNCHANGED <<count, cursor>>

WalkBegin == cursor = 0 /\ cursor' = 1 /\ UNCHANGED <<list, count>>

WalkStep ==
  /\ cursor \in DOMAIN list[Walked]
  /\ LET n == list[Walked][cursor] IN
       /\ count' = [count EXCEPT ![n] = @ - 1]
       /\ IF count[n] = 1
          THEN /\ list' = [list EXCEPT ![Walked] = RemoveAt(@, cursor),
                                       ![Target] = Append(@, n)]
               /\ cursor' = cursor
          ELSE cursor' = cursor + 1 /\ UNCHANGED list

WalkEnd == cursor = Len(list[Walked]) + 1 /\ cursor' = 0 /\ UNCHANGED <<list, count>>

Next ==
  \/ \E l \in Lists : \/ \E i \in DOMAIN list[l] : Take(l, i)
                      \/ \E n \in Nodes, i \in 1 .. Len(list[l]) + 1 : Insert(l, n, i)
  \/ WalkBegin \/ WalkStep \/ WalkEnd

Spec == Init /\ [][Next]_<<list, count, cursor>>
=============================================================================
