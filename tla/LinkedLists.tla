----------------------------- MODULE LinkedLists -----------------------------
(***************************************************************************)
(* The doubly linked lists of src/kernel/list.c at the level of their      *)
(* pointers, with the one traversal that changes the list it walks over,   *)
(* advance_time_tick in src/kernel/kernel.c.                               *)
(*                                                                         *)
(* A cell is a list_node_t: the node embedded in a thread_struct or        *)
(* msg_struct, or the head or tail sentinel of a list.  `mem' holds the    *)
(* next and prev fields of every cell; the functions of list.c become      *)
(* operators from one mem to the next, with their assignments in order.    *)
(***************************************************************************)
EXTENDS Naturals, Sequences, FiniteSets, SequencesExt

CONSTANTS Nodes, Lists, Null, Walked, Target, MaxCount

ASSUME ListAssumption == /\ Walked \in Lists /\ Target \in Lists \ {Walked}
                         /\ IsFiniteSet(Nodes) /\ Null \notin Nodes
                         /\ MaxCount \in Nat \ {0}

VARIABLES
  mem,       \* the next and prev fields
  count,     \* delayed_time
  pnode,     \* the position of the walk, Null if there is none
  readyed    \* readyed_thread, the node the walk still has to move

vars == <<mem, count, pnode, readyed>>

HeadOf(l) == <<"head", l>>
TailOf(l) == <<"tail", l>>
Heads == {HeadOf(l) : l \in Lists}
Tails == {TailOf(l) : l \in Lists}
Cells == Nodes \cup Heads \cup Tails

\* No thread_struct or msg_struct overlaps a list_t, and none lies at NULL.
ASSUME CellAssumption == Null \notin Heads \cup Tails /\ Nodes \cap (Heads \cup Tails) = {}

SetNext(m, c, d) == [m EXCEPT !.next[c] = d]
SetPrev(m, c, d) == [m EXCEPT !.prev[c] = d]

(***************************************************************************)
(* list.c.                                                                 *)
(***************************************************************************)

IsHead(c)     == mem.prev[c] = Null /\ mem.next[c] # Null
IsInterior(c) == mem.prev[c] # Null /\ mem.next[c] # Null
IsTail(c)     == mem.prev[c] # Null /\ mem.next[c] = Null

InitList(m, l) ==
  LET a == SetPrev(m, HeadOf(l), Null)
      b == SetNext(a, HeadOf(l), TailOf(l))
      c == SetPrev(b, TailOf(l), HeadOf(l))
  IN SetNext(c, TailOf(l), Null)

BeginList(m, l) == m.next[HeadOf(l)]
BackList(m, l)  == m.prev[TailOf(l)]
IsEmpty(m, l)   == BeginList(m, l) = TailOf(l)

\* MUTANT: the third assignment is made after the fourth.
MutInsertAfterList(m, before, n) ==
  LET a == SetPrev(m, n, m.prev[before])
      b == SetNext(a, n, before)
      c == SetPrev(b, before, n)
  IN SetNext(c, c.prev[before], n)

\* insert_after_list links n in front of `before'.
InsertAfterList(m, before, n) ==
  LET a == SetPrev(m, n, m.prev[before])
      b == SetNext(a, n, before)
      c == SetNext(b, b.prev[before], n)
  IN SetPrev(c, before, n)

\* insert_before_list links n behind `after'.
InsertBeforeList(m, after, n) ==
  LET a == SetPrev(m, n, after)
      b == SetNext(a, n, a.next[after])
      c == SetPrev(b, b.next[after], n)
  IN SetNext(c, after, n)

InsertFrontList(m, l, n) == InsertAfterList(m, BeginList(m, l), n)
InsertBackList(m, l, n)  == InsertAfterList(m, TailOf(l), n)

\* delete_list leaves the fields of the node itself as they are.
DeleteList(m, n) ==
  LET a == SetNext(m, m.prev[n], m.next[n])
  IN SetPrev(a, a.next[n], a.prev[n])

(***************************************************************************)
(* The sequences the pointers stand for.                                   *)
(***************************************************************************)

\* The i-th cell behind the head, as long as there is one.
Steps == 0 .. Cardinality(Nodes) + 1
Follow(l) ==
  LET cell[i \in Steps] ==
        IF i = 0 THEN HeadOf(l)
        ELSE IF cell[i - 1] \in {Null, TailOf(l)} THEN cell[i - 1]
        ELSE mem.next[cell[i - 1]]
  IN cell

\* The nodes a walk along next finds on l.
Contents(l) == LET cell == Follow(l)
                   len  == Cardinality({i \in Steps \ {0} : cell[i] \in Nodes})
               IN [i \in 1 .. len |-> cell[i]]

\* A walk along prev finds the same, and each node once.
Intact(l) ==
  LET c == <<HeadOf(l)>> \o Contents(l) \o <<TailOf(l)>> IN
  /\ \A i \in 1 .. Len(c) - 1 : mem.next[c[i]] = c[i + 1] /\ mem.prev[c[i + 1]] = c[i]
  /\ IsInjective(Contents(l))

Linked(n) == \E l \in Lists : \E i \in DOMAIN Contents(l) : Contents(l)[i] = n

(***************************************************************************)
(* The kernel's use of the lists: it inserts nodes that are on no list and *)
(* deletes nodes that are on one.  During a walk, a critical section,      *)
(* nothing else touches the lists.                                         *)
(***************************************************************************)

Store(m) == mem' = m /\ UNCHANGED <<pnode, readyed>>

InsertNode ==
  /\ pnode = Null
  /\ \E n \in Nodes, l \in Lists :
       /\ ~Linked(n)
       /\ \/ Store(InsertBackList(mem, l, n))
          \/ Store(InsertFrontList(mem, l, n))
          \/ \E i \in DOMAIN Contents(l) :
               Store(InsertBeforeList(mem, Contents(l)[i], n))
       /\ \E c \in 1 .. MaxCount : count' = [count EXCEPT ![n] = c]

DeleteNode ==
  /\ pnode = Null
  /\ \/ \E n \in Nodes : Linked(n) /\ Store(DeleteList(mem, n))
     \/ \E l \in Lists : ~IsEmpty(mem, l) /\ Store(DeleteList(mem, BeginList(mem, l)))
     \/ \E l \in Lists : ~IsEmpty(mem, l) /\ Store(DeleteList(mem, BackList(mem, l)))
  /\ UNCHANGED count

\* sem_init, mbox_init, msgq_init of an object no thread waits on.
ResetList ==
  /\ pnode = Null
  /\ \E l \in Lists : IsEmpty(mem, l) /\ Store(InitList(mem, l))
  /\ UNCHANGED count

WalkBegin ==
  /\ pnode = Null
  /\ pnode' = BeginList(mem, Walked)
  /\ UNCHANGED <<mem, count, readyed>>

\* Move readyed_thread to the other list, if there is one.
MoveReadyed ==
  IF readyed = Null THEN mem
  ELSE InsertBackList(DeleteList(mem, readyed), Target, readyed)

\* MUTANT: a node whose count is over is moved at once.
MutWalkStep ==
  /\ pnode \in Nodes
  /\ count' = [count EXCEPT ![pnode] = @ - 1]
  /\ mem' = IF count[pnode] = 1
            THEN InsertBackList(DeleteList(mem, pnode), Target, pnode)
            ELSE mem
  /\ pnode' = mem'.next[pnode]
  /\ UNCHANGED readyed

\* One iteration: the node found due in the iteration before is moved only
\* now, when the walk has already stepped past it.
WalkStep ==
  /\ pnode \in Nodes
  /\ count' = [count EXCEPT ![pnode] = @ - 1]
  /\ mem' = MoveReadyed
  /\ readyed' = IF count[pnode] = 1 THEN pnode ELSE Null
  /\ pnode' = mem'.next[pnode]

\* MUTANT: a node found due in the last iteration is forgotten.
MutWalkEnd ==
  /\ pnode = TailOf(Walked)
  /\ mem' = mem
  /\ pnode' = Null /\ readyed' = Null
  /\ UNCHANGED count

WalkEnd ==
  /\ pnode = TailOf(Walked)
  /\ mem' = MoveReadyed
  /\ pnode' = Null /\ readyed' = Null
  /\ UNCHANGED count

\* init_list has run for each list, which sets the four fields of its two
\* sentinels; the fields of the nodes are zero.
Init ==
  /\ mem = [next |-> [c \in Cells |-> IF c \in Heads THEN TailOf(c[2]) ELSE Null],
            prev |-> [c \in Cells |-> IF c \in Tails THEN HeadOf(c[2]) ELSE Null]]
  /\ count = [n \in Nodes |-> 0]
  /\ pnode = Null /\ readyed = Null

Next == InsertNode \/ DeleteNode \/ ResetList \/ WalkBegin \/ WalkStep \/ WalkEnd

Spec == Init /\ [][Next]_vars

-----------------------------------------------------------------------------
\* Type correctness, and the walk stands on a cell of the list it walks over.
TypeOK ==
  /\ mem \in [next : [Cells -> Cells \cup {Null}], prev : [Cells -> Cells \cup {Null}]]
  /\ count \in [Nodes -> 0 .. MaxCount]
  /\ readyed \in Nodes \cup {Null}
  /\ pnode # Null => \/ pnode = TailOf(Walked)
                     \/ \E i \in DOMAIN Contents(Walked) : Contents(Walked)[i] = pnode

\* The pointers always form lists: both directions agree on one sequence of
\* distinct nodes between the sentinels, no node is on two lists, and is_head,
\* is_interio and is_tail tell the cells of a list apart.
ListsIntact ==
  /\ \A l \in Lists : Intact(l) /\ IsHead(HeadOf(l)) /\ IsTail(TailOf(l))
  /\ \A n \in Nodes : Linked(n) => IsInterior(n)
  /\ \A k, l \in Lists : k # l => ToSet(Contents(k)) \cap ToSet(Contents(l)) = {}

\* Where node n is on list l.
IndexOn(l, n) == CHOOSE i \in DOMAIN Contents(l) : Contents(l)[i] = n

\* The lists as the walk will leave them, with readyed_thread moved.
Moved == [l \in Lists |->
  CASE readyed = Null -> Contents(l)
    [] readyed # Null /\ l = Walked -> RemoveAt(Contents(l), IndexOn(Walked, readyed))
    [] readyed # Null /\ l = Target -> Append(Contents(l), readyed)
    [] OTHER -> Contents(l)]

Position == CASE pnode = Null -> 0
              [] pnode = TailOf(Walked) -> Len(Moved[Walked]) + 1
              [] OTHER -> CHOOSE i \in DOMAIN Moved[Walked] : Moved[Walked][i] = pnode

Seqs == INSTANCE SequenceLists WITH list <- Moved, cursor <- Position

\* list.c and the walk implement lists as sequences: every insertion and
\* deletion is one of a sequence, and the walk visits each node once, moves
\* those that are due and keeps the others in their order.
ListSpec == Seqs!Spec
=============================================================================
