-------------------------- MODULE LinkedListsProofs --------------------------
(***************************************************************************)
(* The pointers of list.c always form lists, and they implement lists as   *)
(* sequences, for every finite set of nodes, every set of lists and every  *)
(* bound of the counters.                                                  *)
(***************************************************************************)
EXTENDS LinkedLists, SequenceTheorems, FiniteSetTheorems, TLAPS

(***************************************************************************)
(* What the memory holds, said with sequences: s gives the nodes of each   *)
(* list.                                                                   *)
(***************************************************************************)

\* The i-th cell of list l, its sentinels included.
Cell(s, l, i) ==
  IF i = 0 THEN HeadOf(l) ELSE IF i = Len(s[l]) + 1 THEN TailOf(l) ELSE s[l][i]

Chained(m, s, l) ==
  /\ m.prev[HeadOf(l)] = Null /\ m.next[TailOf(l)] = Null
  /\ \A i \in 0 .. Len(s[l]) : /\ m.next[Cell(s, l, i)] = Cell(s, l, i + 1)
                               /\ m.prev[Cell(s, l, i + 1)] = Cell(s, l, i)

\* No node is twice on the lists.
Once(s) == \A k, l \in Lists : \A i \in DOMAIN s[k], j \in DOMAIN s[l] :
             s[k][i] = s[l][j] => k = l /\ i = j

Memories == [next : [Cells -> Cells \cup {Null}], prev : [Cells -> Cells \cup {Null}]]

Represents(m, s) == /\ m \in Memories /\ s \in [Lists -> Seq(Nodes)] /\ Once(s)
                    /\ \A l \in Lists : Chained(m, s, l)

\* A node more at position i of list l, and the i-th node less.
Inserted(s, l, i, n) == [s EXCEPT ![l] = InsertAt(s[l], i, n)]
Removed(s, l, i)     == [s EXCEPT ![l] = RemoveAt(s[l], i)]

On(s, n) == \E l \in Lists : \E i \in DOMAIN s[l] : s[l][i] = n

(***************************************************************************)
(* Cells and sequences.                                                    *)
(***************************************************************************)

\* The sentinels are distinct from each other, from the nodes and from NULL.
LEMMA Sentinels ==
  /\ \A k, l \in Lists : /\ HeadOf(k) = HeadOf(l) => k = l
                         /\ TailOf(k) = TailOf(l) => k = l
                         /\ HeadOf(k) # TailOf(l)
  /\ \A l \in Lists : /\ HeadOf(l) \in Cells /\ TailOf(l) \in Cells
                      /\ HeadOf(l) \notin Nodes /\ TailOf(l) \notin Nodes
                      /\ HeadOf(l) # Null /\ TailOf(l) # Null
  /\ Nodes \subseteq Cells /\ Null \notin Nodes /\ Null \notin Cells
BY ListAssumption, CellAssumption DEF HeadOf, TailOf, Heads, Tails, Cells

LEMMA Lengths ==
  ASSUME NEW s \in [Lists -> Seq(Nodes)], NEW l \in Lists
  PROVE  /\ s[l] \in Seq(Nodes) /\ Len(s[l]) \in Nat /\ DOMAIN s[l] = 1 .. Len(s[l])
         /\ \A i \in 1 .. Len(s[l]) : s[l][i] \in Nodes
BY LenProperties, ElementOfSeq

\* p is q with n put in at place i, and p is q without its i-th element.
IsInserted(p, q, i, n) ==
  /\ p \in Seq(Nodes) /\ Len(p) = Len(q) + 1
  /\ \A j \in 1 .. Len(q) + 1 :
       p[j] = IF j < i THEN q[j] ELSE IF j = i THEN n ELSE q[j - 1]

IsRemoved(p, q, i) ==
  /\ p \in Seq(Nodes) /\ Len(p) = Len(q) - 1
  /\ \A j \in 1 .. Len(q) - 1 : p[j] = IF j < i THEN q[j] ELSE q[j + 1]

LEMMA CountTo ==
  ASSUME NEW m \in Nat
  PROVE  Cardinality(1 .. m) = m
<1>1. Cardinality(1 .. m) = IF 1 > m THEN 0 ELSE m - 1 + 1
  BY FS_Interval
<1> QED BY <1>1

LEMMA InsertAtProperties ==
  ASSUME NEW q \in Seq(Nodes), NEW i \in 1 .. Len(q) + 1, NEW n \in Nodes
  PROVE  IsInserted(InsertAt(q, i, n), q, i, n)
<1> DEFINE a == SubSeq(q, 1, i - 1)
           b == SubSeq(q, i, Len(q))
<1>1. Len(q) \in Nat /\ DOMAIN q = 1 .. Len(q)
  BY LenProperties
<1>2. /\ a \in Seq(Nodes) /\ Len(a) = i - 1 /\ \A j \in 1 .. i - 1 : a[j] = q[j]
  BY <1>1, SubSeqProperties
<1>3. /\ b \in Seq(Nodes) /\ Len(b) = Len(q) + 1 - i
      /\ \A j \in 1 .. Len(q) + 1 - i : b[j] = q[i + j - 1]
  BY <1>1, SubSeqProperties
<1> HIDE DEF a, b
<1>4. <<n>> \in Seq(Nodes) /\ Len(<<n>>) = 1 /\ <<n>>[1] = n
  OBVIOUS
<1>5. /\ a \o <<n>> \in Seq(Nodes) /\ Len(a \o <<n>>) = i
      /\ \A j \in 1 .. i : (a \o <<n>>)[j] = IF j < i THEN q[j] ELSE n
  BY <1>1, <1>2, <1>4, ConcatProperties
<1>6. /\ (a \o <<n>>) \o b \in Seq(Nodes) /\ Len((a \o <<n>>) \o b) = Len(q) + 1
      /\ \A j \in 1 .. Len(q) + 1 :
           ((a \o <<n>>) \o b)[j] = IF j < i THEN q[j] ELSE IF j = i THEN n ELSE q[j - 1]
  <2> DEFINE c == a \o <<n>>
  <2>1. /\ c \in Seq(Nodes) /\ Len(c) = i
        /\ \A j \in 1 .. i : c[j] = IF j < i THEN q[j] ELSE n
    BY <1>5
  <2> HIDE DEF c
  <2>2. /\ c \o b \in Seq(Nodes) /\ Len(c \o b) = Len(c) + Len(b)
        /\ \A j \in 1 .. Len(c) + Len(b) :
             (c \o b)[j] = IF j <= Len(c) THEN c[j] ELSE b[j - Len(c)]
    BY <1>3, <2>1, ConcatProperties
  <2>3. ASSUME NEW j \in 1 .. Len(q) + 1
        PROVE  (c \o b)[j] = IF j < i THEN q[j] ELSE IF j = i THEN n ELSE q[j - 1]
    <3>1. j \in Int /\ i \in Int /\ j \in 1 .. Len(c) + Len(b)
      BY <1>1, <1>3, <2>1
    <3>2. ASSUME j <= i PROVE (c \o b)[j] = c[j] /\ j \in 1 .. i
      BY <1>1, <2>1, <2>2, <3>1, <3>2
    <3>3. ASSUME i < j PROVE (c \o b)[j] = q[j - 1]
      <4>1. j - i \in 1 .. Len(q) + 1 - i /\ i + (j - i) - 1 = j - 1
        BY <1>1, <3>1, <3>3
      <4>2. (c \o b)[j] = b[j - i]
        BY <2>1, <2>2, <3>1, <3>3
      <4>3. b[j - i] = q[i + (j - i) - 1]
        BY <1>3, <4>1
      <4> QED BY <4>1, <4>2, <4>3
    <3>4. j < i \/ j = i \/ i < j
      BY <3>1
    <3> QED BY <2>1, <3>1, <3>2, <3>3, <3>4
  <2>4. c \o b \in Seq(Nodes) /\ Len(c \o b) = Len(q) + 1
    BY <1>1, <1>3, <2>1, <2>2
  <2> QED BY <2>3, <2>4 DEF c
<1>7. InsertAt(q, i, n) = (a \o <<n>>) \o b
  BY DEF InsertAt, a, b
<1> QED BY <1>6, <1>7 DEF IsInserted

LEMMA RemoveAtProperties ==
  ASSUME NEW q \in Seq(Nodes), NEW i \in 1 .. Len(q)
  PROVE  IsRemoved(RemoveAt(q, i), q, i)
<1> DEFINE a == SubSeq(q, 1, i - 1)
           b == SubSeq(q, i + 1, Len(q))
<1>1. Len(q) \in Nat /\ DOMAIN q = 1 .. Len(q)
  BY LenProperties
<1>2. /\ a \in Seq(Nodes) /\ Len(a) = i - 1 /\ \A j \in 1 .. i - 1 : a[j] = q[j]
  BY <1>1, SubSeqProperties
<1>3. /\ b \in Seq(Nodes) /\ Len(b) = Len(q) - i
      /\ \A j \in 1 .. Len(q) - i : b[j] = q[i + j]
  <2>1. \A j \in i + 1 .. Len(q) : q[j] \in Nodes
    BY <1>1, ElementOfSeq
  <2>2. /\ b \in Seq(Nodes) /\ Len(b) = Len(q) - i
        /\ \A j \in 1 .. Len(q) - (i + 1) + 1 : b[j] = q[(i + 1) + j - 1]
    <3>1. i + 1 \in Int /\ Len(q) \in Int
      BY <1>1
    <3>2. /\ b \in Seq(Nodes)
          /\ Len(b) = IF i + 1 <= Len(q) THEN Len(q) - (i + 1) + 1 ELSE 0
          /\ \A j \in 1 .. Len(q) - (i + 1) + 1 : b[j] = q[(i + 1) + j - 1]
      BY <2>1, <3>1, SubSeqProperties
    <3> HIDE DEF b
    <3>3. Len(b) = Len(q) - i
      BY <1>1, <3>2
    <3> QED BY <3>2, <3>3
  <2> HIDE DEF b
  <2>3. ASSUME NEW j \in 1 .. Len(q) - i PROVE b[j] = q[i + j]
    <3>1. (i + 1) + j - 1 = i + j /\ Len(q) - (i + 1) + 1 = Len(q) - i
      BY <1>1
    <3> QED BY <2>2, <3>1
  <2> QED BY <2>2, <2>3
<1> HIDE DEF a, b
<1>4. /\ a \o b \in Seq(Nodes) /\ Len(a \o b) = Len(q) - 1
      /\ \A j \in 1 .. Len(q) - 1 : (a \o b)[j] = IF j < i THEN q[j] ELSE q[j + 1]
  <2>1. /\ a \o b \in Seq(Nodes) /\ Len(a \o b) = Len(a) + Len(b)
        /\ \A j \in 1 .. Len(a) + Len(b) :
             (a \o b)[j] = IF j <= Len(a) THEN a[j] ELSE b[j - Len(a)]
    BY <1>2, <1>3, ConcatProperties
  <2>2. ASSUME NEW j \in 1 .. Len(q) - 1
        PROVE  (a \o b)[j] = IF j < i THEN q[j] ELSE q[j + 1]
    <3>1. j \in Int /\ i \in Int /\ j \in 1 .. Len(a) + Len(b)
      BY <1>1, <1>2, <1>3
    <3>2. ASSUME j < i PROVE (a \o b)[j] = q[j]
      BY <1>1, <1>2, <2>1, <3>1, <3>2
    <3>3. ASSUME i <= j PROVE (a \o b)[j] = q[j + 1]
      <4>1. j - (i - 1) \in 1 .. Len(q) - i /\ i + (j - (i - 1)) = j + 1
        BY <1>1, <3>1, <3>3
      <4>2. (a \o b)[j] = b[j - (i - 1)]
        BY <1>2, <2>1, <3>1, <3>3
      <4>3. b[j - (i - 1)] = q[i + (j - (i - 1))]
        BY <1>3, <4>1
      <4> QED BY <4>1, <4>2, <4>3
    <3>4. CASE j < i
      BY <3>2, <3>4
    <3>5. CASE i <= j
      <4>1. ~ (j < i)
        BY <3>1, <3>5
      <4> QED BY <3>3, <3>5, <4>1
    <3> QED BY <3>1, <3>4, <3>5
  <2> QED BY <1>1, <1>2, <1>3, <2>1, <2>2
<1>5. RemoveAt(q, i) = a \o b
  BY DEF RemoveAt, a, b
<1> QED BY <1>4, <1>5 DEF IsRemoved

\* The cells of the lists are distinct.
LEMMA CellOnce ==
  ASSUME NEW s \in [Lists -> Seq(Nodes)], Once(s), NEW k \in Lists, NEW l \in Lists,
         NEW i \in 0 .. Len(s[k]) + 1, NEW j \in 0 .. Len(s[l]) + 1,
         Cell(s, k, i) = Cell(s, l, j)
  PROVE  k = l /\ i = j
<1>1. /\ Len(s[k]) \in Nat /\ Len(s[l]) \in Nat
      /\ \A x \in 1 .. Len(s[k]) : s[k][x] \in Nodes
      /\ \A x \in 1 .. Len(s[l]) : s[l][x] \in Nodes
      /\ DOMAIN s[k] = 1 .. Len(s[k]) /\ DOMAIN s[l] = 1 .. Len(s[l])
  BY Lengths
<1>2. CASE i = 0
  <2>1. Cell(s, k, i) = HeadOf(k)
    BY <1>2 DEF Cell
  <2>2. j = 0
    BY <1>1, <2>1, Sentinels DEF Cell
  <2> QED BY <1>2, <2>1, <2>2, Sentinels DEF Cell
<1>3. CASE i = Len(s[k]) + 1
  <2>1. Cell(s, k, i) = TailOf(k)
    BY <1>1, <1>3 DEF Cell
  <2>2. j = Len(s[l]) + 1
    BY <1>1, <2>1, Sentinels DEF Cell
  <2>3. Cell(s, l, j) = TailOf(l)
    BY <1>1, <2>2 DEF Cell
  <2> QED BY <1>3, <2>1, <2>2, <2>3, Sentinels
<1>4. CASE i \in 1 .. Len(s[k])
  <2>1. Cell(s, k, i) = s[k][i] /\ s[k][i] \in Nodes
    BY <1>1, <1>4 DEF Cell
  <2>2. j # 0 /\ j # Len(s[l]) + 1
    BY <1>1, <2>1, Sentinels DEF Cell
  <2>3. j \in 1 .. Len(s[l]) /\ Cell(s, l, j) = s[l][j]
    BY <1>1, <2>2 DEF Cell
  <2>4. s[k][i] = s[l][j] /\ i \in DOMAIN s[k] /\ j \in DOMAIN s[l]
    BY <1>1, <1>4, <2>1, <2>3
  <2> QED BY <2>4 DEF Once
<1> QED
  <2>1. i = 0 \/ i = Len(s[k]) + 1 \/ i \in 1 .. Len(s[k])
    BY <1>1
  <2> QED BY <1>2, <1>3, <1>4, <2>1

LEMMA CellTypes ==
  ASSUME NEW s \in [Lists -> Seq(Nodes)], NEW l \in Lists, NEW i \in 0 .. Len(s[l]) + 1
  PROVE  /\ Cell(s, l, i) \in Cells /\ Cell(s, l, i) # Null
         /\ Cell(s, l, i) \in Nodes => i \in 1 .. Len(s[l]) /\ Cell(s, l, i) = s[l][i]
<1>1. /\ Len(s[l]) \in Nat /\ DOMAIN s[l] = 1 .. Len(s[l])
      /\ \A x \in 1 .. Len(s[l]) : s[l][x] \in Nodes
  BY Lengths
<1>2. CASE i = 0
  BY <1>2, Sentinels DEF Cell
<1>3. CASE i = Len(s[l]) + 1
  BY <1>1, <1>3, Sentinels DEF Cell
<1>4. CASE i \in 1 .. Len(s[l])
  BY <1>1, <1>4, Sentinels DEF Cell
<1> QED BY <1>1, <1>2, <1>3, <1>4

(***************************************************************************)
(* Two ways to change the pointers.                                        *)
(***************************************************************************)

\* Where the cells of list l are after a node went in behind the i-th.
LEMMA CellsAfterInsert ==
  ASSUME NEW s \in [Lists -> Seq(Nodes)], NEW l \in Lists, NEW i \in 0 .. Len(s[l]),
         NEW n \in Nodes, NEW s2, s2 = Inserted(s, l, i + 1, n)
  PROVE  /\ s2 \in [Lists -> Seq(Nodes)] /\ Len(s2[l]) = Len(s[l]) + 1
         /\ \A k \in Lists \ {l} : s2[k] = s[k]
         /\ \A j \in 0 .. i : Cell(s2, l, j) = Cell(s, l, j)
         /\ Cell(s2, l, i + 1) = n
         /\ \A j \in i + 1 .. Len(s[l]) + 1 : Cell(s2, l, j + 1) = Cell(s, l, j)
<1>1. Len(s[l]) \in Nat /\ s[l] \in Seq(Nodes) /\ i + 1 \in 1 .. Len(s[l]) + 1
  BY Lengths
<1>2. /\ s2 = [s EXCEPT ![l] = InsertAt(s[l], i + 1, n)]
      /\ s2[l] = InsertAt(s[l], i + 1, n)
      /\ \A k \in Lists \ {l} : s2[k] = s[k]
  BY DEF Inserted
<1>3. /\ s2[l] \in Seq(Nodes) /\ Len(s2[l]) = Len(s[l]) + 1
      /\ \A j \in 1 .. Len(s[l]) + 1 :
           s2[l][j] = IF j < i + 1 THEN s[l][j] ELSE IF j = i + 1 THEN n ELSE s[l][j - 1]
  <2> DEFINE q == s[l]
             p == InsertAt(q, i + 1, n)
  <2>1. q \in Seq(Nodes) /\ i + 1 \in 1 .. Len(q) + 1
    BY <1>1
  <2> HIDE DEF q
  <2>2. /\ p \in Seq(Nodes) /\ Len(p) = Len(q) + 1
        /\ \A j \in 1 .. Len(q) + 1 :
             p[j] = IF j < i + 1 THEN q[j] ELSE IF j = i + 1 THEN n ELSE q[j - 1]
    <3>1. IsInserted(p, q, i + 1, n)
      BY <2>1, InsertAtProperties
    <3> HIDE DEF p
    <3> QED BY <3>1 DEF IsInserted
  <2>3. s2[l] = p
    BY <1>2 DEF q
  <2> HIDE DEF p
  <2> QED BY <2>2, <2>3 DEF q
<1>4. s2 \in [Lists -> Seq(Nodes)]
  BY <1>2, <1>3
<1>5. ASSUME NEW j \in 0 .. i PROVE Cell(s2, l, j) = Cell(s, l, j)
  BY <1>1, <1>3 DEF Cell
<1>6. Cell(s2, l, i + 1) = n
  <2>1. i + 1 \in 1 .. Len(s[l]) + 1 /\ ~ (i + 1 < i + 1)
    BY <1>1
  <2>2. s2[l][i + 1] = n
    BY <1>3, <2>1
  <2>3. i + 1 # 0 /\ i + 1 # Len(s2[l]) + 1
    BY <1>1, <1>3
  <2> QED BY <2>2, <2>3 DEF Cell
<1>7. ASSUME NEW j \in i + 1 .. Len(s[l]) + 1 PROVE Cell(s2, l, j + 1) = Cell(s, l, j)
  <2>1. CASE j = Len(s[l]) + 1
    BY <1>1, <1>3, <2>1 DEF Cell
  <2>2. CASE j \in i + 1 .. Len(s[l])
    <3>1. j + 1 \in 1 .. Len(s[l]) + 1 /\ ~ (j + 1 < i + 1) /\ j + 1 # i + 1 /\ (j + 1) - 1 = j
      BY <1>1, <2>2
    <3>2. s2[l][j + 1] = s[l][j]
      BY <1>3, <3>1
    <3> QED BY <1>1, <1>3, <2>2, <3>2 DEF Cell
  <2> QED BY <1>1, <2>1, <2>2
<1> QED BY <1>2, <1>3, <1>4, <1>5, <1>6, <1>7

\* Where they are after the i-th node left.
LEMMA CellsAfterRemove ==
  ASSUME NEW s \in [Lists -> Seq(Nodes)], NEW l \in Lists, NEW i \in 1 .. Len(s[l]),
         NEW s2, s2 = Removed(s, l, i)
  PROVE  /\ s2 \in [Lists -> Seq(Nodes)] /\ Len(s2[l]) = Len(s[l]) - 1
         /\ \A k \in Lists \ {l} : s2[k] = s[k]
         /\ \A j \in 0 .. i - 1 : Cell(s2, l, j) = Cell(s, l, j)
         /\ \A j \in i .. Len(s[l]) : Cell(s2, l, j) = Cell(s, l, j + 1)
<1>1. Len(s[l]) \in Nat /\ s[l] \in Seq(Nodes)
  BY Lengths
<1>2. /\ s2 = [s EXCEPT ![l] = RemoveAt(s[l], i)]
      /\ s2[l] = RemoveAt(s[l], i)
      /\ \A k \in Lists \ {l} : s2[k] = s[k]
  BY DEF Removed
<1>3. /\ s2[l] \in Seq(Nodes) /\ Len(s2[l]) = Len(s[l]) - 1
      /\ \A j \in 1 .. Len(s[l]) - 1 :
           s2[l][j] = IF j < i THEN s[l][j] ELSE s[l][j + 1]
  <2>1. IsRemoved(RemoveAt(s[l], i), s[l], i)
    BY <1>1, RemoveAtProperties
  <2>2. IsRemoved(s2[l], s[l], i)
    BY <1>2, <2>1
  <2> QED BY <2>2 DEF IsRemoved
<1>4. s2 \in [Lists -> Seq(Nodes)]
  BY <1>2, <1>3
<1>5. ASSUME NEW j \in 0 .. i - 1 PROVE Cell(s2, l, j) = Cell(s, l, j)
  BY <1>1, <1>3 DEF Cell
<1>6. ASSUME NEW j \in i .. Len(s[l]) PROVE Cell(s2, l, j) = Cell(s, l, j + 1)
  <2>1. CASE j = Len(s[l])
    BY <1>1, <1>3, <2>1 DEF Cell
  <2>2. CASE j \in i .. Len(s[l]) - 1
    <3>1. s2[l][j] = s[l][j + 1]
      BY <1>1, <1>3, <2>2
    <3> QED BY <1>1, <1>3, <2>2, <3>1 DEF Cell
  <2> QED BY <1>1, <2>1, <2>2
<1> QED BY <1>2, <1>3, <1>4, <1>5, <1>6

\* Each node of s2 is the node n or one of s.
NodesFrom(s2, s, n) ==
  \A k \in Lists : \A x \in DOMAIN s2[k] :
    s2[k][x] = n \/ \E y \in DOMAIN s[k] : s2[k][x] = s[k][y]

\* Each node of the lists is still there once, and so is the new one.
LEMMA OnceAfterInsert ==
  ASSUME NEW s \in [Lists -> Seq(Nodes)], Once(s), NEW l \in Lists, NEW i \in 1 .. Len(s[l]) + 1,
         NEW n \in Nodes, ~ On(s, n), NEW s2, s2 = Inserted(s, l, i, n)
  PROVE  Once(s2) /\ NodesFrom(s2, s, n)
<1> DEFINE Old(k, x) == IF k = l /\ i < x THEN x - 1 ELSE x
<1>1. /\ s[l] \in Seq(Nodes) /\ Len(s[l]) \in Nat
      /\ \A k \in Lists : DOMAIN s[k] = 1 .. Len(s[k]) /\ Len(s[k]) \in Nat
  BY Lengths
<1>2. /\ InsertAt(s[l], i, n) \in Seq(Nodes) /\ Len(InsertAt(s[l], i, n)) = Len(s[l]) + 1
      /\ \A x \in 1 .. Len(s[l]) + 1 :
           InsertAt(s[l], i, n)[x] = IF x < i THEN s[l][x] ELSE IF x = i THEN n ELSE s[l][x - 1]
  <2>1. IsInserted(InsertAt(s[l], i, n), s[l], i, n)
    BY <1>1, InsertAtProperties
  <2> QED BY <2>1 DEF IsInserted
<1> s2 = [s EXCEPT ![l] = InsertAt(s[l], i, n)]
  BY DEF Inserted
<1>3. ASSUME NEW k \in Lists, NEW x \in DOMAIN s2[k], k # l \/ x # i
      PROVE  Old(k, x) \in DOMAIN s[k] /\ s2[k][x] = s[k][Old(k, x)]
  <2>1. CASE k # l
    BY <2>1
  <2>2. CASE k = l
    <3>1. s2[k] = InsertAt(s[l], i, n)
      BY <2>2
    <3>2. x \in 1 .. Len(s[l]) + 1 /\ x # i /\ i \in Int
      BY <1>1, <1>2, <1>3, <2>2, <3>1, LenProperties
    <3>3. CASE x < i
      <4>1. Old(k, x) = x /\ x \in 1 .. Len(s[l])
        BY <1>1, <3>2, <3>3
      <4> QED BY <1>1, <1>2, <2>2, <3>1, <3>2, <3>3, <4>1
    <3>4. CASE i < x
      <4>1. Old(k, x) = x - 1 /\ x - 1 \in 1 .. Len(s[l]) /\ ~ (x < i) /\ x # i
        BY <1>1, <2>2, <3>2, <3>4
      <4> QED BY <1>1, <1>2, <2>2, <3>1, <3>2, <4>1
    <3> QED BY <3>2, <3>3, <3>4
  <2> QED BY <2>1, <2>2
<1>4. i \in DOMAIN s2[l] /\ s2[l][i] = n
  <2>1. s2[l] = InsertAt(s[l], i, n)
    OBVIOUS
  <2>2. DOMAIN s2[l] = 1 .. Len(s[l]) + 1
    BY <1>2, <2>1, LenProperties
  <2> QED BY <1>1, <1>2, <2>1, <2>2
<1>5. ASSUME NEW k \in Lists, NEW x \in DOMAIN s2[k], s2[k][x] = n PROVE k = l /\ x = i
  BY <1>3, <1>5 DEF On
<1>6. ASSUME NEW k \in Lists, NEW x \in DOMAIN s2[k] PROVE x \in Int
  <2>1. CASE k # l
    BY <1>1, <2>1
  <2>2. CASE k = l
    BY <1>1, <1>2, <2>2, LenProperties
  <2> QED BY <2>1, <2>2
<1>7. ASSUME NEW k \in Lists, NEW h \in Lists, NEW x \in DOMAIN s2[k], NEW y \in DOMAIN s2[h],
             s2[k][x] = s2[h][y]
      PROVE  k = h /\ x = y
  <2>1. CASE s2[k][x] = n
    BY <1>5, <1>7, <2>1
  <2>2. CASE s2[k][x] # n
    <3>1. (k # l \/ x # i) /\ (h # l \/ y # i)
      BY <1>4, <1>7, <2>2
    <3>2. k = h /\ Old(k, x) = Old(h, y)
      BY <1>3, <1>7, <3>1 DEF Once
    <3>3. x \in Int /\ y \in Int /\ i \in Int
      BY <1>6
    <3> QED BY <3>1, <3>2, <3>3
  <2> QED BY <2>1, <2>2
<1>8. ASSUME NEW k \in Lists, NEW x \in DOMAIN s2[k]
      PROVE  s2[k][x] = n \/ \E y \in DOMAIN s[k] : s2[k][x] = s[k][y]
  <2> HIDE DEF Old
  <2> QED BY <1>3, <1>4
<1>9. NodesFrom(s2, s, n)
  BY <1>8 DEF NodesFrom
<1>10. Once(s2)
  BY <1>7 DEF Once
<1> QED BY <1>9, <1>10

\* The nodes that stay are still there once, the one that left is on no list.
LEMMA OnceAfterRemove ==
  ASSUME NEW s \in [Lists -> Seq(Nodes)], Once(s), NEW l \in Lists, NEW i \in 1 .. Len(s[l]),
         NEW s2, s2 = Removed(s, l, i)
  PROVE  /\ Once(s2) /\ ~ On(s2, s[l][i])
         /\ \A k \in Lists : \A x \in DOMAIN s2[k] :
              \E y \in DOMAIN s[k] : s2[k][x] = s[k][y] /\ ~ (k = l /\ y = i)
<1> DEFINE Old(k, x) == IF k = l /\ i <= x THEN x + 1 ELSE x
<1>1. /\ s[l] \in Seq(Nodes) /\ Len(s[l]) \in Nat
      /\ \A k \in Lists : DOMAIN s[k] = 1 .. Len(s[k]) /\ Len(s[k]) \in Nat
  BY Lengths
<1>2. /\ RemoveAt(s[l], i) \in Seq(Nodes) /\ Len(RemoveAt(s[l], i)) = Len(s[l]) - 1
      /\ \A x \in 1 .. Len(s[l]) - 1 :
           RemoveAt(s[l], i)[x] = IF x < i THEN s[l][x] ELSE s[l][x + 1]
  <2>1. IsRemoved(RemoveAt(s[l], i), s[l], i)
    BY <1>1, RemoveAtProperties
  <2> QED BY <2>1 DEF IsRemoved
<1> s2 = [s EXCEPT ![l] = RemoveAt(s[l], i)]
  BY DEF Removed
<1>3. ASSUME NEW k \in Lists, NEW x \in DOMAIN s2[k]
      PROVE  /\ x \in Int /\ Old(k, x) \in DOMAIN s[k] /\ s2[k][x] = s[k][Old(k, x)]
             /\ ~ (k = l /\ Old(k, x) = i)
  <2>1. CASE k # l
    BY <1>1, <2>1
  <2>2. CASE k = l
    <3>1. s2[k] = RemoveAt(s[l], i)
      BY <2>2
    <3>2. x \in 1 .. Len(s[l]) - 1 /\ i \in Int
      BY <1>1, <1>2, <3>1, LenProperties
    <3>3. CASE x < i
      <4>1. Old(k, x) = x /\ x \in 1 .. Len(s[l]) /\ x # i
        BY <1>1, <3>2, <3>3
      <4> QED BY <1>1, <1>2, <2>2, <3>1, <3>2, <3>3, <4>1
    <3>4. CASE i <= x
      <4>1. Old(k, x) = x + 1 /\ x + 1 \in 1 .. Len(s[l]) /\ ~ (x < i) /\ x + 1 # i
        BY <1>1, <2>2, <3>2, <3>4
      <4> QED BY <1>1, <1>2, <2>2, <3>1, <3>2, <4>1
    <3> QED BY <3>2, <3>3, <3>4
  <2> QED BY <2>1, <2>2
<1>4. ASSUME NEW k \in Lists, NEW h \in Lists, NEW x \in DOMAIN s2[k], NEW y \in DOMAIN s2[h],
             s2[k][x] = s2[h][y]
      PROVE  k = h /\ x = y
  <2>1. k = h /\ Old(k, x) = Old(h, y)
    BY <1>3, <1>4 DEF Once
  <2>2. x \in Int /\ y \in Int /\ i \in Int
    BY <1>3
  <2> QED BY <2>1, <2>2
<1>5. i \in DOMAIN s[l]
  BY <1>1
<1>6. ASSUME NEW k \in Lists, NEW x \in DOMAIN s2[k], s2[k][x] = s[l][i] PROVE FALSE
  <2>1. Old(k, x) \in DOMAIN s[k] /\ s[k][Old(k, x)] = s[l][i] /\ ~ (k = l /\ Old(k, x) = i)
    BY <1>3, <1>6
  <2> HIDE DEF Old
  <2> QED BY <1>5, <2>1 DEF Once
<1>7. ASSUME NEW k \in Lists, NEW x \in DOMAIN s2[k]
      PROVE  \E y \in DOMAIN s[k] : s2[k][x] = s[k][y] /\ ~ (k = l /\ y = i)
  <2> HIDE DEF Old
  <2> QED BY <1>3
<1>8. Once(s2)
  BY <1>4 DEF Once
<1>9. ~ On(s2, s[l][i])
  BY <1>6 DEF On
<1> QED BY <1>7, <1>8, <1>9
\* n linked in between two cells, and two cells linked past what was between.
Link(m, a, n, b) ==
  [next |-> [c \in Cells |-> IF c = a THEN n ELSE IF c = n THEN b ELSE m.next[c]],
   prev |-> [c \in Cells |-> IF c = b THEN n ELSE IF c = n THEN a ELSE m.prev[c]]]

Unlink(m, a, b) == [next |-> [c \in Cells |-> IF c = a THEN b ELSE m.next[c]],
                    prev |-> [c \in Cells |-> IF c = b THEN a ELSE m.prev[c]]]

\* Linking a free node in behind the i-th cell of a list inserts it there.
LEMMA LinkRepresents ==
  ASSUME NEW m, NEW s, Represents(m, s), NEW l \in Lists, NEW i \in 0 .. Len(s[l]),
         NEW n \in Nodes, ~ On(s, n), NEW s2, s2 = Inserted(s, l, i + 1, n)
  PROVE  Represents(Link(m, Cell(s, l, i), n, Cell(s, l, i + 1)), s2)
<1> DEFINE a == Cell(s, l, i)
           b == Cell(s, l, i + 1)
           m2 == Link(m, a, n, b)
<1>1. /\ m \in Memories /\ s \in [Lists -> Seq(Nodes)] /\ Once(s)
      /\ \A k \in Lists : Chained(m, s, k)
  BY DEF Represents
<1>2. \A k \in Lists : Len(s[k]) \in Nat /\ DOMAIN s[k] = 1 .. Len(s[k])
  BY <1>1, Lengths
<1>3. i \in 0 .. Len(s[l]) + 1 /\ i + 1 \in 0 .. Len(s[l]) + 1 /\ i + 1 \in 1 .. Len(s[l]) + 1
  BY <1>2
<1>4. a \in Cells /\ b \in Cells /\ n \in Cells
  BY <1>1, <1>3, CellTypes, Sentinels
<1>5. m2 \in Memories
  BY <1>1, <1>4 DEF Link, Memories
<1>6. /\ s2 \in [Lists -> Seq(Nodes)] /\ Len(s2[l]) = Len(s[l]) + 1
      /\ \A k \in Lists \ {l} : s2[k] = s[k]
      /\ \A j \in 0 .. i : Cell(s2, l, j) = Cell(s, l, j)
      /\ Cell(s2, l, i + 1) = n
      /\ \A j \in i + 1 .. Len(s[l]) + 1 : Cell(s2, l, j + 1) = Cell(s, l, j)
  BY <1>1, CellsAfterInsert
<1>7. Once(s2)
  BY <1>1, <1>3, OnceAfterInsert
<1>8. ASSUME NEW k \in Lists, NEW x \in 0 .. Len(s[k]) + 1
      PROVE  /\ Cell(s, k, x) \in Cells /\ Cell(s, k, x) # n
             /\ Cell(s, k, x) = a => k = l /\ x = i
             /\ Cell(s, k, x) = b => k = l /\ x = i + 1
  <2>1. Cell(s, k, x) # n
    BY <1>1, <1>2, CellTypes DEF On
  <2> QED BY <1>1, <1>3, <2>1, CellOnce, CellTypes
<1>9. ASSUME NEW k \in Lists, NEW x \in 0 .. Len(s[k])
      PROVE  /\ ~ (k = l /\ x = i) => /\ m2.next[Cell(s, k, x)] = Cell(s, k, x + 1)
                                      /\ m2.prev[Cell(s, k, x + 1)] = Cell(s, k, x)
             /\ x \in Int
  <2>1. /\ x \in 0 .. Len(s[k]) + 1 /\ x + 1 \in 0 .. Len(s[k]) + 1
        /\ x \in Int /\ i \in Int
    BY <1>2
  <2>2. m.next[Cell(s, k, x)] = Cell(s, k, x + 1) /\ m.prev[Cell(s, k, x + 1)] = Cell(s, k, x)
    BY <1>1 DEF Chained
  <2>3. ASSUME ~ (k = l /\ x = i)
        PROVE  /\ m2.next[Cell(s, k, x)] = m.next[Cell(s, k, x)]
               /\ m2.prev[Cell(s, k, x + 1)] = m.prev[Cell(s, k, x + 1)]
    <3>1. Cell(s, k, x) \in Cells /\ Cell(s, k, x) # n /\ Cell(s, k, x) # a
      BY <1>8, <2>1, <2>3
    <3>2. Cell(s, k, x + 1) \in Cells /\ Cell(s, k, x + 1) # n /\ Cell(s, k, x + 1) # b
      BY <1>8, <2>1, <2>3
    <3> HIDE DEF a, b
    <3> QED BY <3>1, <3>2 DEF Link
  <2> QED BY <2>1, <2>2, <2>3
<1>10. a # n /\ b # n
  BY <1>3, <1>8
<1>11. m2.next[a] = n /\ m2.next[n] = b /\ m2.prev[b] = n /\ m2.prev[n] = a
  <2> HIDE DEF a, b
  <2> QED BY <1>4, <1>10 DEF Link
<1>12. ASSUME NEW k \in Lists
       PROVE  m2.prev[HeadOf(k)] = Null /\ m2.next[TailOf(k)] = Null
  <2>1. /\ 0 \in 0 .. Len(s[k]) + 1 /\ Len(s[k]) + 1 \in 0 .. Len(s[k]) + 1
        /\ 0 # i + 1 /\ Len(s[k]) + 1 # 0 /\ (k = l => Len(s[k]) + 1 # i)
    BY <1>2
  <2>2. HeadOf(k) = Cell(s, k, 0) /\ TailOf(k) = Cell(s, k, Len(s[k]) + 1)
    BY <2>1 DEF Cell
  <2>3. /\ HeadOf(k) # b /\ HeadOf(k) # n /\ HeadOf(k) \in Cells
        /\ TailOf(k) # a /\ TailOf(k) # n /\ TailOf(k) \in Cells
    BY <1>8, <2>1, <2>2
  <2>4. m.prev[HeadOf(k)] = Null /\ m.next[TailOf(k)] = Null
    BY <1>1 DEF Chained
  <2> HIDE DEF a, b
  <2> QED BY <2>3, <2>4 DEF Link
<1>13. ASSUME NEW k \in Lists, NEW x \in 0 .. Len(s2[k])
       PROVE  m2.next[Cell(s2, k, x)] = Cell(s2, k, x + 1) /\ m2.prev[Cell(s2, k, x + 1)] = Cell(s2, k, x)
  <2>1. CASE k # l
    <3>1. s2[k] = s[k]
      BY <1>6, <2>1
    <3>2. Cell(s2, k, x) = Cell(s, k, x) /\ Cell(s2, k, x + 1) = Cell(s, k, x + 1)
      BY <3>1 DEF Cell
    <3>3. m2.next[Cell(s, k, x)] = Cell(s, k, x + 1) /\ m2.prev[Cell(s, k, x + 1)] = Cell(s, k, x)
      BY <1>9, <2>1, <3>1
    <3> HIDE DEF m2
    <3> QED BY <3>2, <3>3
  <2>2. CASE k = l /\ x < i
    <3>1. x \in 0 .. i /\ x + 1 \in 0 .. i /\ x \in 0 .. Len(s[l]) /\ x # i
      BY <1>2, <2>2
    <3>2. Cell(s2, l, x) = Cell(s, l, x) /\ Cell(s2, l, x + 1) = Cell(s, l, x + 1)
      BY <1>6, <3>1
    <3> HIDE DEF m2
    <3> QED BY <1>9, <2>2, <3>1, <3>2
  <2>3. CASE k = l /\ x = i
    <3>1. i \in 0 .. i
      BY <1>2
    <3>2. Cell(s2, l, i) = a /\ Cell(s2, l, i + 1) = n
      BY <1>6, <3>1
    <3> HIDE DEF m2, a
    <3> QED BY <1>11, <2>3, <3>2
  <2>4. CASE k = l /\ x = i + 1
    <3>1. i + 1 \in i + 1 .. Len(s[l]) + 1
      BY <1>2
    <3>2. Cell(s2, l, i + 1) = n /\ Cell(s2, l, i + 1 + 1) = b
      BY <1>6, <3>1
    <3> HIDE DEF m2, b
    <3> QED BY <1>11, <2>4, <3>2
  <2>5. CASE k = l /\ i + 1 < x
    <3> DEFINE y == x - 1
    <3>1. /\ y \in i + 1 .. Len(s[l]) + 1 /\ y + 1 \in i + 1 .. Len(s[l]) + 1
          /\ y \in 0 .. Len(s[l]) /\ y # i /\ x = y + 1
      BY <1>2, <1>6, <2>5
    <3> HIDE DEF m2, y
    <3>2. Cell(s2, l, x) = Cell(s, l, y) /\ Cell(s2, l, x + 1) = Cell(s, l, y + 1)
      BY <1>6, <3>1
    <3> QED BY <1>9, <2>5, <3>1, <3>2
  <2>6. x \in Int /\ i \in Int
    BY <1>2, <1>6, <2>1, <2>2
  <2> QED BY <2>1, <2>2, <2>3, <2>4, <2>5, <2>6
<1> QED BY <1>5, <1>6, <1>7, <1>12, <1>13 DEF Represents, Chained

\* Unlinking the i-th node of a list takes it out.
LEMMA UnlinkRepresents ==
  ASSUME NEW m, NEW s, Represents(m, s), NEW l \in Lists, NEW i \in 1 .. Len(s[l]),
         NEW s2, s2 = Removed(s, l, i)
  PROVE  Represents(Unlink(m, Cell(s, l, i - 1), Cell(s, l, i + 1)), s2)
<1> DEFINE a == Cell(s, l, i - 1)
           b == Cell(s, l, i + 1)
           m2 == Unlink(m, a, b)
<1>1. /\ m \in Memories /\ s \in [Lists -> Seq(Nodes)] /\ Once(s)
      /\ \A k \in Lists : Chained(m, s, k)
  BY DEF Represents
<1>2. \A k \in Lists : Len(s[k]) \in Nat /\ DOMAIN s[k] = 1 .. Len(s[k])
  BY <1>1, Lengths
<1>3. i - 1 \in 0 .. Len(s[l]) + 1 /\ i + 1 \in 0 .. Len(s[l]) + 1
  BY <1>2
<1>4. a \in Cells /\ b \in Cells
  BY <1>1, <1>3, CellTypes
<1>5. m2 \in Memories
  BY <1>1, <1>4 DEF Unlink, Memories
<1>6. /\ s2 \in [Lists -> Seq(Nodes)] /\ Len(s2[l]) = Len(s[l]) - 1
      /\ \A k \in Lists \ {l} : s2[k] = s[k]
      /\ \A j \in 0 .. i - 1 : Cell(s2, l, j) = Cell(s, l, j)
      /\ \A j \in i .. Len(s[l]) : Cell(s2, l, j) = Cell(s, l, j + 1)
  BY <1>1, CellsAfterRemove
<1>7. Once(s2)
  BY <1>1, OnceAfterRemove
<1>8. ASSUME NEW k \in Lists, NEW x \in 0 .. Len(s[k]) + 1
      PROVE  /\ Cell(s, k, x) \in Cells
             /\ Cell(s, k, x) = a => k = l /\ x = i - 1
             /\ Cell(s, k, x) = b => k = l /\ x = i + 1
  BY <1>1, <1>3, CellOnce, CellTypes
<1>9. ASSUME NEW k \in Lists, NEW x \in 0 .. Len(s[k])
      PROVE  ~ (k = l /\ x \in {i - 1, i}) => /\ m2.next[Cell(s, k, x)] = Cell(s, k, x + 1)
                                              /\ m2.prev[Cell(s, k, x + 1)] = Cell(s, k, x)
  <2>1. /\ x \in 0 .. Len(s[k]) + 1 /\ x + 1 \in 0 .. Len(s[k]) + 1
        /\ (x # i => x + 1 # i + 1)
    BY <1>2
  <2>2. m.next[Cell(s, k, x)] = Cell(s, k, x + 1) /\ m.prev[Cell(s, k, x + 1)] = Cell(s, k, x)
    BY <1>1 DEF Chained
  <2>3. ASSUME ~ (k = l /\ x \in {i - 1, i})
        PROVE  /\ m2.next[Cell(s, k, x)] = m.next[Cell(s, k, x)]
               /\ m2.prev[Cell(s, k, x + 1)] = m.prev[Cell(s, k, x + 1)]
    <3>1. Cell(s, k, x) \in Cells /\ Cell(s, k, x) # a
      BY <1>8, <2>1, <2>3
    <3>2. Cell(s, k, x + 1) \in Cells /\ Cell(s, k, x + 1) # b
      BY <1>8, <2>1, <2>3
    <3> HIDE DEF a, b
    <3> QED BY <3>1, <3>2 DEF Unlink
  <2> QED BY <2>2, <2>3
<1>10. m2.next[a] = b /\ m2.prev[b] = a
  <2> HIDE DEF a, b
  <2> QED BY <1>4 DEF Unlink
<1>11. ASSUME NEW k \in Lists
       PROVE  m2.prev[HeadOf(k)] = Null /\ m2.next[TailOf(k)] = Null
  <2>1. /\ 0 \in 0 .. Len(s[k]) + 1 /\ Len(s[k]) + 1 \in 0 .. Len(s[k]) + 1
        /\ 0 # i + 1 /\ Len(s[k]) + 1 # 0 /\ (k = l => Len(s[k]) + 1 # i - 1)
    BY <1>2
  <2>2. HeadOf(k) = Cell(s, k, 0) /\ TailOf(k) = Cell(s, k, Len(s[k]) + 1)
    BY <2>1 DEF Cell
  <2>3. HeadOf(k) # b /\ HeadOf(k) \in Cells /\ TailOf(k) # a /\ TailOf(k) \in Cells
    BY <1>8, <2>1, <2>2
  <2>4. m.prev[HeadOf(k)] = Null /\ m.next[TailOf(k)] = Null
    BY <1>1 DEF Chained
  <2> HIDE DEF a, b
  <2> QED BY <2>3, <2>4 DEF Unlink
<1>12. ASSUME NEW k \in Lists, NEW x \in 0 .. Len(s2[k])
       PROVE  m2.next[Cell(s2, k, x)] = Cell(s2, k, x + 1) /\ m2.prev[Cell(s2, k, x + 1)] = Cell(s2, k, x)
  <2>1. CASE k # l
    <3>1. s2[k] = s[k]
      BY <1>6, <2>1
    <3>2. Cell(s2, k, x) = Cell(s, k, x) /\ Cell(s2, k, x + 1) = Cell(s, k, x + 1)
      BY <3>1 DEF Cell
    <3>3. m2.next[Cell(s, k, x)] = Cell(s, k, x + 1) /\ m2.prev[Cell(s, k, x + 1)] = Cell(s, k, x)
      BY <1>9, <2>1, <3>1
    <3> HIDE DEF m2
    <3> QED BY <3>2, <3>3
  <2>2. CASE k = l /\ x < i - 1
    <3>1. x \in 0 .. i - 1 /\ x + 1 \in 0 .. i - 1 /\ x \in 0 .. Len(s[l]) /\ x \notin {i - 1, i}
      BY <1>2, <2>2
    <3>2. Cell(s2, l, x) = Cell(s, l, x) /\ Cell(s2, l, x + 1) = Cell(s, l, x + 1)
      BY <1>6, <3>1
    <3> HIDE DEF m2
    <3> QED BY <1>9, <2>2, <3>1, <3>2
  <2>3. CASE k = l /\ x = i - 1
    <3>1. i - 1 \in 0 .. i - 1 /\ i \in i .. Len(s[l]) /\ (i - 1) + 1 = i
      BY <1>2
    <3>2. Cell(s2, l, i - 1) = a /\ Cell(s2, l, (i - 1) + 1) = b
      BY <1>6, <3>1
    <3> HIDE DEF m2, a, b
    <3> QED BY <1>10, <2>3, <3>2
  <2>4. CASE k = l /\ i - 1 < x
    <3> DEFINE y == x + 1
    <3>1. /\ x \in i .. Len(s[l]) /\ x + 1 \in i .. Len(s[l])
          /\ y \in 0 .. Len(s[l]) /\ y \notin {i - 1, i} /\ y = x + 1
      BY <1>2, <1>6, <2>4
    <3> HIDE DEF m2, y
    <3>2. Cell(s2, l, x) = Cell(s, l, y) /\ Cell(s2, l, x + 1) = Cell(s, l, y + 1)
      BY <1>6, <3>1
    <3> QED BY <1>9, <2>4, <3>1, <3>2
  <2> QED BY <1>2, <1>6, <2>1, <2>2, <2>3, <2>4
<1> QED BY <1>5, <1>6, <1>7, <1>11, <1>12 DEF Represents, Chained
(***************************************************************************)
(* The functions of list.c.                                                *)
(***************************************************************************)

LEMMA InsertAfterIsLink ==
  ASSUME NEW m \in Memories, NEW a \in Cells, NEW b \in Cells, NEW n \in Cells,
         n # a, n # b, m.prev[b] = a
  PROVE  InsertAfterList(m, b, n) = Link(m, a, n, b)
<1> DEFINE m1 == [next |-> m.next, prev |-> [m.prev EXCEPT ![n] = a]]
           m2 == [next |-> [m.next EXCEPT ![n] = b], prev |-> m1.prev]
           m3 == [next |-> [m2.next EXCEPT ![a] = n], prev |-> m1.prev]
           m4 == [next |-> m3.next, prev |-> [m1.prev EXCEPT ![b] = n]]
<1>1. /\ m = [next |-> m.next, prev |-> m.prev]
      /\ m.next \in [Cells -> Cells \cup {Null}] /\ m.prev \in [Cells -> Cells \cup {Null}]
  BY DEF Memories
<1>2. SetPrev(m, n, m.prev[b]) = m1
  BY <1>1 DEF SetPrev
<1>3. SetNext(m1, n, b) = m2
  BY DEF SetNext
<1>4. m2.prev[b] = a /\ SetNext(m2, a, n) = m3
  BY <1>1 DEF SetNext
<1>5. SetPrev(m3, b, n) = m4
  BY DEF SetPrev
<1>6. InsertAfterList(m, b, n) = m4
  <2> HIDE DEF m1, m2, m3, m4
  <2> QED BY <1>2, <1>3, <1>4, <1>5 DEF InsertAfterList
<1>7. m4.next = Link(m, a, n, b).next
  BY <1>1 DEF Link
<1>8. m4.prev = Link(m, a, n, b).prev
  BY <1>1 DEF Link
<1> QED BY <1>6, <1>7, <1>8 DEF Link

LEMMA InsertBeforeIsLink ==
  ASSUME NEW m \in Memories, NEW a \in Cells, NEW b \in Cells, NEW n \in Cells,
         n # a, n # b, m.next[a] = b
  PROVE  InsertBeforeList(m, a, n) = Link(m, a, n, b)
<1> DEFINE m1 == [next |-> m.next, prev |-> [m.prev EXCEPT ![n] = a]]
           m2 == [next |-> [m.next EXCEPT ![n] = b], prev |-> m1.prev]
           m3 == [next |-> m2.next, prev |-> [m1.prev EXCEPT ![b] = n]]
           m4 == [next |-> [m2.next EXCEPT ![a] = n], prev |-> m3.prev]
<1>1. /\ m = [next |-> m.next, prev |-> m.prev]
      /\ m.next \in [Cells -> Cells \cup {Null}] /\ m.prev \in [Cells -> Cells \cup {Null}]
  BY DEF Memories
<1>2. SetPrev(m, n, a) = m1
  BY <1>1 DEF SetPrev
<1>3. m1.next[a] = b /\ SetNext(m1, n, b) = m2
  BY DEF SetNext
<1>4. m2.next[a] = b /\ SetPrev(m2, b, n) = m3
  BY <1>1 DEF SetPrev
<1>5. SetNext(m3, a, n) = m4
  BY DEF SetNext
<1>6. InsertBeforeList(m, a, n) = m4
  <2> HIDE DEF m1, m2, m3, m4
  <2> QED BY <1>2, <1>3, <1>4, <1>5 DEF InsertBeforeList
<1>7. m4.next = Link(m, a, n, b).next
  BY <1>1 DEF Link
<1>8. m4.prev = Link(m, a, n, b).prev
  BY <1>1 DEF Link
<1> QED BY <1>6, <1>7, <1>8 DEF Link

LEMMA DeleteIsUnlink ==
  ASSUME NEW m \in Memories, NEW a \in Cells, NEW b \in Cells, NEW n \in Cells,
         n # a, m.prev[n] = a, m.next[n] = b
  PROVE  DeleteList(m, n) = Unlink(m, a, b)
<1> DEFINE m1 == [next |-> [m.next EXCEPT ![a] = b], prev |-> m.prev]
           m2 == [next |-> m1.next, prev |-> [m.prev EXCEPT ![b] = a]]
<1>1. /\ m = [next |-> m.next, prev |-> m.prev]
      /\ m.next \in [Cells -> Cells \cup {Null}] /\ m.prev \in [Cells -> Cells \cup {Null}]
  BY DEF Memories
<1>2. SetNext(m, a, b) = m1
  BY <1>1 DEF SetNext
<1>3. m1.next[n] = b /\ m1.prev[n] = a /\ SetPrev(m1, b, a) = m2
  BY <1>1 DEF SetPrev
<1>4. DeleteList(m, n) = m2
  <2> HIDE DEF m1, m2
  <2> QED BY <1>2, <1>3 DEF DeleteList
<1>5. m2.next = Unlink(m, a, b).next
  BY <1>1 DEF Unlink
<1>6. m2.prev = Unlink(m, a, b).prev
  BY <1>1 DEF Unlink
<1> QED BY <1>4, <1>5, <1>6 DEF Unlink

\* What the first and last fields say of a list.
LEMMA Ends ==
  ASSUME NEW m, NEW s, Represents(m, s), NEW l \in Lists
  PROVE  /\ BeginList(m, l) = Cell(s, l, 1) /\ BackList(m, l) = Cell(s, l, Len(s[l]))
         /\ IsEmpty(m, l) <=> Len(s[l]) = 0
<1>1. s \in [Lists -> Seq(Nodes)] /\ Chained(m, s, l) /\ Len(s[l]) \in Nat
  BY Lengths DEF Represents
<1>2. 0 \in 0 .. Len(s[l]) /\ Len(s[l]) \in 0 .. Len(s[l])
  BY <1>1
<1>3. HeadOf(l) = Cell(s, l, 0) /\ TailOf(l) = Cell(s, l, Len(s[l]) + 1)
  BY <1>1 DEF Cell
<1>4. m.next[Cell(s, l, 0)] = Cell(s, l, 0 + 1)
      /\ m.prev[Cell(s, l, Len(s[l]) + 1)] = Cell(s, l, Len(s[l]))
  BY <1>1, <1>2 DEF Chained
<1>5. BeginList(m, l) = Cell(s, l, 1) /\ BackList(m, l) = Cell(s, l, Len(s[l]))
  BY <1>3, <1>4 DEF BeginList, BackList
<1>6. Cell(s, l, 1) = TailOf(l) <=> Len(s[l]) = 0
  <2>1. CASE Len(s[l]) = 0
    BY <2>1 DEF Cell
  <2>2. CASE Len(s[l]) # 0
    <3>1. 1 \in 1 .. Len(s[l]) /\ 1 # Len(s[l]) + 1
      BY <1>1, <2>2
    <3>2. Cell(s, l, 1) = s[l][1] /\ s[l][1] \in Nodes
      BY <1>1, <3>1, Lengths DEF Cell
    <3> QED BY <2>2, <3>2, Sentinels
  <2> QED BY <2>1, <2>2
<1> QED BY <1>5, <1>6 DEF IsEmpty

\* insert_after_list and insert_before_list insert the free node they are given.
LEMMA Inserts ==
  ASSUME NEW m, NEW s, Represents(m, s), NEW l \in Lists, NEW i \in 0 .. Len(s[l]),
         NEW n \in Nodes, ~ On(s, n)
  PROVE  /\ Represents(InsertAfterList(m, Cell(s, l, i + 1), n), Inserted(s, l, i + 1, n))
         /\ Represents(InsertBeforeList(m, Cell(s, l, i), n), Inserted(s, l, i + 1, n))
<1> DEFINE a == Cell(s, l, i)
           b == Cell(s, l, i + 1)
<1>1. /\ m \in Memories /\ s \in [Lists -> Seq(Nodes)] /\ Once(s) /\ Chained(m, s, l)
      /\ Len(s[l]) \in Nat /\ DOMAIN s[l] = 1 .. Len(s[l])
  BY Lengths DEF Represents
<1>2. i \in 0 .. Len(s[l]) + 1 /\ i + 1 \in 0 .. Len(s[l]) + 1
  BY <1>1
<1>3. a \in Cells /\ b \in Cells /\ n \in Cells
  BY <1>1, <1>2, CellTypes, Sentinels
<1>4. a # n /\ b # n
  BY <1>1, <1>2, CellTypes DEF On
<1>5. m.next[a] = b /\ m.prev[b] = a
  BY <1>1 DEF Chained
<1>6. Represents(Link(m, a, n, b), Inserted(s, l, i + 1, n))
  BY LinkRepresents
<1> HIDE DEF a, b
<1>7. InsertAfterList(m, b, n) = Link(m, a, n, b) /\ InsertBeforeList(m, a, n) = Link(m, a, n, b)
  BY <1>1, <1>3, <1>4, <1>5, InsertAfterIsLink, InsertBeforeIsLink
<1> QED BY <1>6, <1>7 DEF a, b

\* delete_list takes out the node it is given.
LEMMA Deletes ==
  ASSUME NEW m, NEW s, Represents(m, s), NEW l \in Lists, NEW i \in 1 .. Len(s[l])
  PROVE  Represents(DeleteList(m, s[l][i]), Removed(s, l, i))
<1> DEFINE a == Cell(s, l, i - 1)
           n == s[l][i]
           b == Cell(s, l, i + 1)
<1>1. /\ m \in Memories /\ s \in [Lists -> Seq(Nodes)] /\ Once(s) /\ Chained(m, s, l)
      /\ Len(s[l]) \in Nat /\ n \in Nodes
  BY Lengths DEF Represents
<1>2. /\ i - 1 \in 0 .. Len(s[l]) /\ i - 1 \in 0 .. Len(s[l]) + 1 /\ i \in 0 .. Len(s[l])
      /\ i \in 0 .. Len(s[l]) + 1 /\ i + 1 \in 0 .. Len(s[l]) + 1 /\ (i - 1) + 1 = i
      /\ i # 0 /\ i # Len(s[l]) + 1 /\ i # i - 1
  BY <1>1
<1>3. Cell(s, l, i) = n
  BY <1>2 DEF Cell
<1>4. a \in Cells /\ b \in Cells /\ n \in Cells
  BY <1>1, <1>2, CellTypes, Sentinels
<1>5. a # n
  BY <1>1, <1>2, <1>3, CellOnce
<1>6. m.prev[n] = a /\ m.next[n] = b
  <2>1. m.prev[Cell(s, l, (i - 1) + 1)] = Cell(s, l, i - 1)
    BY <1>1, <1>2 DEF Chained
  <2>2. m.next[Cell(s, l, i)] = Cell(s, l, i + 1)
    BY <1>1, <1>2 DEF Chained
  <2> QED BY <1>2, <1>3, <2>1, <2>2
<1>7. Represents(Unlink(m, a, b), Removed(s, l, i))
  BY UnlinkRepresents
<1> HIDE DEF a, b, n
<1>8. DeleteList(m, n) = Unlink(m, a, b)
  BY <1>1, <1>4, <1>5, <1>6, DeleteIsUnlink
<1> QED BY <1>7, <1>8 DEF n

\* init_list of an empty list sets its fields to what they are.
LEMMA InitsEmpty ==
  ASSUME NEW m, NEW s, Represents(m, s), NEW l \in Lists, IsEmpty(m, l)
  PROVE  InitList(m, l) = m
<1> DEFINE h == HeadOf(l)
           t == TailOf(l)
<1>1. /\ m \in Memories /\ s \in [Lists -> Seq(Nodes)] /\ Chained(m, s, l)
      /\ Len(s[l]) = 0
  BY Ends DEF Represents
<1>2. Cell(s, l, 0) = h /\ Cell(s, l, 0 + 1) = t /\ 0 \in 0 .. Len(s[l])
  BY <1>1 DEF Cell
<1>3. m.prev[h] = Null /\ m.next[t] = Null /\ m.next[h] = t /\ m.prev[t] = h
  BY <1>1, <1>2 DEF Chained
<1>4. h \in Cells /\ t \in Cells
  BY Sentinels
<1>5. /\ m = [next |-> m.next, prev |-> m.prev]
      /\ m.next \in [Cells -> Cells \cup {Null}] /\ m.prev \in [Cells -> Cells \cup {Null}]
  BY <1>1 DEF Memories
<1> HIDE DEF h, t
<1>6. SetPrev(m, h, Null) = m /\ SetNext(m, h, t) = m /\ SetPrev(m, t, h) = m /\ SetNext(m, t, Null) = m
  BY <1>3, <1>4, <1>5 DEF SetPrev, SetNext
<1> QED BY <1>6 DEF InitList, h, t
(***************************************************************************)
(* Following the pointers from the head finds the sequence they stand for. *)
(* That what a walk finds is determined needs induction along the list:    *)
(* here it is the search for the least position of which it is not so.     *)
(***************************************************************************)

\* A nonempty set of naturals has a least element.
LEMMA LeastNat ==
  ASSUME NEW T \in SUBSET Nat, T # {}
  PROVE  \E n \in T : \A m \in T : n <= m
<1> DEFINE R == StrictSubsetOrdering(Nat)
           F == FiniteSubsetsOf(Nat)
           U == {0 .. n : n \in T}
<1>1. IsWellFoundedOn(R, F)
  BY FS_StrictSubsetOrderingWellFounded
<1>2. ASSUME NEW n \in T PROVE 0 .. n \in F
  <2>1. IsFiniteSet(0 .. n)
    BY FS_Interval
  <2> QED BY <2>1 DEF FiniteSubsetsOf
<1>3. \A m, n \in Nat : m < n => <<0 .. m, 0 .. n>> \in R
  BY DEF StrictSubsetOrdering
<1> HIDE DEF R, F
<1>4. U \subseteq F
  BY <1>2
<1>5. U # {}
  OBVIOUS
<1>6. PICK x \in U : \A y \in U : ~ (<<y, x>> \in R)
  <2> HIDE DEF U
  <2> QED BY <1>1, <1>4, <1>5, WFMin
<1>7. PICK n \in T : x = 0 .. n
  BY <1>6
<1>8. \A m \in T : ~ (m < n)
  BY <1>3, <1>6, <1>7
<1> QED BY <1>8

\* A list is no longer than there are nodes.
LEMMA ShortLists ==
  ASSUME NEW s \in [Lists -> Seq(Nodes)], Once(s), NEW l \in Lists
  PROVE  Cardinality(Nodes) \in Nat /\ Len(s[l]) \in 0 .. Cardinality(Nodes)
<1>1. /\ Len(s[l]) \in Nat /\ DOMAIN s[l] = 1 .. Len(s[l])
      /\ \A i \in 1 .. Len(s[l]) : s[l][i] \in Nodes
      /\ s[l] \in Seq(Nodes)
  BY Lengths
<1>2. s[l] \in [1 .. Len(s[l]) -> Nodes]
  BY <1>1, LenProperties
<1>3. s[l] \in Injection(1 .. Len(s[l]), Nodes)
  BY <1>1, <1>2 DEF Injection, IsInjective, Once
<1>4. Cardinality(1 .. Len(s[l])) <= Cardinality(Nodes) /\ Cardinality(Nodes) \in Nat
  BY <1>3, FS_Injection, FS_CardinalityType, ListAssumption
<1>5. Cardinality(1 .. Len(s[l])) = Len(s[l])
  BY <1>1, CountTo
<1> QED BY <1>1, <1>4, <1>5

LEMMA FollowIs ==
  ASSUME NEW s, Represents(mem, s), NEW l \in Lists
  PROVE  Follow(l) = [i \in Steps |-> IF i <= Len(s[l]) THEN Cell(s, l, i) ELSE TailOf(l)]
<1> DEFINE g == [i \in Steps |-> IF i <= Len(s[l]) THEN Cell(s, l, i) ELSE TailOf(l)]
           Walks(f) == f = [i \in Steps |->
                              IF i = 0 THEN HeadOf(l)
                              ELSE IF f[i - 1] \in {Null, TailOf(l)} THEN f[i - 1]
                              ELSE mem.next[f[i - 1]]]
<1>1. /\ s \in [Lists -> Seq(Nodes)] /\ Once(s) /\ Chained(mem, s, l)
      /\ Len(s[l]) \in Nat /\ \A i \in 1 .. Len(s[l]) : s[l][i] \in Nodes
      /\ Cardinality(Nodes) \in Nat
  BY Lengths, ShortLists DEF Represents
<1>2. \A i \in Steps : i \in Nat /\ (i # 0 => i - 1 \in Steps)
  BY <1>1 DEF Steps
<1>2a. Len(s[l]) \in Nat
  BY <1>1
<1>3. ASSUME NEW i \in Steps
      PROVE  g[i] = IF i = 0 THEN HeadOf(l)
                    ELSE IF g[i - 1] \in {Null, TailOf(l)} THEN g[i - 1]
                    ELSE mem.next[g[i - 1]]
  <2>1. CASE i = 0
    BY <1>1, <2>1 DEF Cell
  <2>2. CASE i # 0 /\ i <= Len(s[l]) + 1
    <3>1. i - 1 \in Steps /\ i - 1 \in 0 .. Len(s[l]) /\ i - 1 \in 0 .. Len(s[l]) + 1
          /\ i - 1 # Len(s[l]) + 1
      BY <1>1, <1>2, <2>2
    <3>2. g[i - 1] = Cell(s, l, i - 1)
      BY <3>1
    <3>3. Cell(s, l, i - 1) # Null /\ Cell(s, l, i - 1) # TailOf(l)
      <4>1. CASE i - 1 = 0
        BY <4>1, Sentinels DEF Cell
      <4>2. CASE i - 1 # 0
        <5>1. i - 1 \in 1 .. Len(s[l])
          BY <1>2, <1>2a, <3>1, <4>2
        <5> QED BY <1>1, <3>1, <4>2, <5>1, Sentinels DEF Cell
      <4> QED BY <4>1, <4>2
    <3>4. mem.next[Cell(s, l, i - 1)] = Cell(s, l, i)
      <4>1. mem.next[Cell(s, l, i - 1)] = Cell(s, l, (i - 1) + 1) /\ (i - 1) + 1 = i
        BY <1>1, <1>2, <3>1 DEF Chained
      <4> QED BY <4>1
    <3>5. g[i] = Cell(s, l, i)
      <4>1. CASE i <= Len(s[l])
        BY <4>1
      <4>2. CASE ~ (i <= Len(s[l]))
        <5>1. i = Len(s[l]) + 1
          BY <1>2, <1>2a, <2>2, <4>2
        <5> QED BY <1>1, <4>2, <5>1 DEF Cell
      <4> QED BY <4>1, <4>2
    <3> HIDE DEF g
    <3> QED BY <2>2, <3>2, <3>3, <3>4, <3>5
  <2>3. CASE i # 0 /\ ~ (i <= Len(s[l]) + 1)
    <3>1. i \in Nat /\ i - 1 \in Steps
      BY <1>2, <2>3
    <3>2. ~ (i <= Len(s[l])) /\ ~ (i - 1 <= Len(s[l]))
      <4> HIDE DEF g
      <4> QED BY <1>2a, <2>3, <3>1
    <3>3. g[i - 1] = TailOf(l) /\ g[i] = TailOf(l)
      BY <3>1, <3>2
    <3> HIDE DEF g
    <3> QED BY <2>3, <3>3
  <2> QED BY <2>1, <2>2, <2>3
<1>4. Walks(g)
  <2> DEFINE h == [i \in Steps |->
                    IF i = 0 THEN HeadOf(l)
                    ELSE IF g[i - 1] \in {Null, TailOf(l)} THEN g[i - 1]
                    ELSE mem.next[g[i - 1]]]
  <2>1. g = [i \in Steps |-> g[i]]
    OBVIOUS
  <2> HIDE DEF g
  <2>2. \A i \in Steps : g[i] = h[i]
    BY <1>3
  <2>3. g = h
    BY <2>1, <2>2
  <2> QED BY <2>3
<1> HIDE DEF g
<1>5. ASSUME NEW f, Walks(f) PROVE f = g
  <2> DEFINE T == {i \in Steps : f[i] # g[i]}
  <2>1. f = [i \in Steps |-> f[i]] /\ g = [i \in Steps |-> g[i]]
    BY <1>4, <1>5
  <2>2. CASE T = {}
    BY <2>1, <2>2
  <2>3. CASE T # {}
    <3>1. T \in SUBSET Nat
      BY <1>2
    <3> HIDE DEF T
    <3>2. PICK n \in T : \A m \in T : n <= m
      BY <2>3, <3>1, LeastNat
    <3>3. n \in Steps /\ f[n] # g[n]
      BY DEF T
    <3>4. n \in Nat /\ (n # 0 => n - 1 \in Steps)
      BY <1>2, <3>3
    <3>5. f[n] = IF n = 0 THEN HeadOf(l)
                 ELSE IF f[n - 1] \in {Null, TailOf(l)} THEN f[n - 1] ELSE mem.next[f[n - 1]]
      BY <1>5, <3>3
    <3>6. g[n] = IF n = 0 THEN HeadOf(l)
                 ELSE IF g[n - 1] \in {Null, TailOf(l)} THEN g[n - 1] ELSE mem.next[g[n - 1]]
      BY <1>3, <3>3
    <3>7. n # 0
      BY <3>3, <3>5, <3>6
    <3>8. ~ (n <= n - 1)
      BY <3>4
    <3>9. f[n - 1] = g[n - 1]
      BY <3>2, <3>4, <3>7, <3>8 DEF T
    <3> QED BY <3>3, <3>5, <3>6, <3>9
  <2> QED BY <2>2, <2>3
<1>6. Follow(l) = CHOOSE f : Walks(f)
  BY DEF Follow
<1> HIDE DEF Walks
<1>7. Walks(Follow(l))
  BY <1>4, <1>6
<1> QED BY <1>5, <1>7 DEF g

LEMMA ContentsAre ==
  ASSUME NEW s, Represents(mem, s)
  PROVE  \A l \in Lists : Contents(l) = s[l]
<1> TAKE l \in Lists
<1> DEFINE cell == Follow(l)
           I    == {i \in Steps \ {0} : cell[i] \in Nodes}
<1>1. /\ s \in [Lists -> Seq(Nodes)] /\ Once(s) /\ s[l] \in Seq(Nodes)
      /\ Len(s[l]) \in Nat /\ \A i \in 1 .. Len(s[l]) : s[l][i] \in Nodes
      /\ Cardinality(Nodes) \in Nat /\ Len(s[l]) \in 0 .. Cardinality(Nodes)
  BY Lengths, ShortLists DEF Represents
<1>2. cell = [i \in Steps |-> IF i <= Len(s[l]) THEN Cell(s, l, i) ELSE TailOf(l)]
  BY FollowIs
<1>3. ASSUME NEW i \in 1 .. Len(s[l]) PROVE i \in Steps \ {0} /\ cell[i] = s[l][i]
  <2>1. i \in Steps /\ i # 0 /\ i <= Len(s[l]) /\ i # Len(s[l]) + 1
    BY <1>1 DEF Steps
  <2> HIDE DEF cell
  <2> QED BY <1>2, <2>1 DEF Cell
<1>4. ASSUME NEW i \in Steps \ {0}, i \notin 1 .. Len(s[l]) PROVE cell[i] \notin Nodes
  <2>1. ~ (i <= Len(s[l]))
    BY <1>1, <1>4 DEF Steps
  <2> HIDE DEF cell
  <2> QED BY <1>2, <2>1, Sentinels
<1> HIDE DEF cell
<1>5. I = 1 .. Len(s[l])
  BY <1>1, <1>3, <1>4
<1>6. Cardinality(I) = Len(s[l])
  <2>1. Len(s[l]) \in Nat
    BY <1>1
  <2>2. Cardinality(1 .. Len(s[l])) = Len(s[l])
    BY <2>1, CountTo
  <2> HIDE DEF I
  <2> QED BY <1>5, <2>2
<1> HIDE DEF I
<1>7. Contents(l) = [i \in 1 .. Len(s[l]) |-> cell[i]]
  BY <1>6 DEF Contents, cell, I
<1>8. s[l] = [i \in 1 .. Len(s[l]) |-> s[l][i]]
  BY <1>1, LenProperties
<1> QED BY <1>3, <1>7, <1>8

(***************************************************************************)
(* Following the pointers is what the properties do: they hold of a memory *)
(* that represents sequences.                                              *)
(***************************************************************************)

LEMMA RepresentedIsIntact ==
  ASSUME NEW s, Represents(mem, s)
  PROVE  ListsIntact
<1>1. /\ mem \in Memories /\ s \in [Lists -> Seq(Nodes)] /\ Once(s)
      /\ \A l \in Lists : Chained(mem, s, l) /\ Contents(l) = s[l]
  BY ContentsAre DEF Represents
<1>2. \A l \in Lists : /\ s[l] \in Seq(Nodes) /\ Len(s[l]) \in Nat /\ DOMAIN s[l] = 1 .. Len(s[l])
                       /\ \A i \in 1 .. Len(s[l]) : s[l][i] \in Nodes
  BY <1>1, Lengths
<1>3. ASSUME NEW l \in Lists PROVE Intact(l)
  <2> DEFINE c == <<HeadOf(l)>> \o Contents(l) \o <<TailOf(l)>>
  <2>1. <<HeadOf(l)>> \in Seq(Cells) /\ s[l] \in Seq(Cells) /\ <<TailOf(l)>> \in Seq(Cells)
    BY <1>2, Sentinels
  <2>2. Len(s[l]) \in Nat
    BY <1>2
  <2>3. /\ <<HeadOf(l)>> \o s[l] \in Seq(Cells) /\ Len(<<HeadOf(l)>> \o s[l]) = Len(s[l]) + 1
        /\ \A i \in 1 .. Len(s[l]) + 1 :
             (<<HeadOf(l)>> \o s[l])[i] = IF i <= 1 THEN HeadOf(l) ELSE s[l][i - 1]
    <3> DEFINE q == s[l]
               h == <<HeadOf(l)>>
    <3>1. q \in Seq(Cells) /\ h \in Seq(Cells) /\ Len(h) = 1 /\ h[1] = HeadOf(l) /\ Len(q) \in Nat
      BY <2>1, <2>2
    <3> HIDE DEF q, h
    <3>2. /\ h \o q \in Seq(Cells) /\ Len(h \o q) = Len(q) + 1
          /\ \A i \in 1 .. Len(q) + 1 : (h \o q)[i] = IF i <= 1 THEN h[i] ELSE q[i - 1]
      BY <3>1, ConcatProperties
    <3>3. \A i \in 1 .. Len(q) + 1 : i <= 1 => h[i] = HeadOf(l)
      BY <3>1
    <3> QED BY <3>2, <3>3 DEF q, h
  <2>4. /\ Len(c) = Len(s[l]) + 2
        /\ \A i \in 1 .. Len(s[l]) + 2 :
             c[i] = IF i <= Len(s[l]) + 1 THEN (<<HeadOf(l)>> \o s[l])[i] ELSE TailOf(l)
    <3> DEFINE q == <<HeadOf(l)>> \o s[l]
               t == <<TailOf(l)>>
    <3>1. /\ q \in Seq(Cells) /\ t \in Seq(Cells) /\ Len(t) = 1 /\ t[1] = TailOf(l)
          /\ Len(q) = Len(s[l]) + 1 /\ c = q \o t
      BY <1>1, <2>1, <2>3
    <3> HIDE DEF q, t, c
    <3>2. /\ Len(q \o t) = Len(s[l]) + 2
          /\ \A i \in 1 .. Len(s[l]) + 2 :
               (q \o t)[i] = IF i <= Len(s[l]) + 1 THEN q[i] ELSE t[i - (Len(s[l]) + 1)]
      <4>1. /\ Len(q \o t) = Len(q) + Len(t)
            /\ \A i \in 1 .. Len(q) + Len(t) :
                 (q \o t)[i] = IF i <= Len(q) THEN q[i] ELSE t[i - Len(q)]
        BY <3>1, ConcatProperties
      <4>2. Len(q) + Len(t) = Len(s[l]) + 2
        BY <2>2, <3>1
      <4> QED BY <3>1, <4>1, <4>2
    <3>3. \A i \in 1 .. Len(s[l]) + 2 : ~ (i <= Len(s[l]) + 1) => i - (Len(s[l]) + 1) = 1
      BY <2>2
    <3>4. \A i \in 1 .. Len(s[l]) + 2 :
            (q \o t)[i] = IF i <= Len(s[l]) + 1 THEN q[i] ELSE TailOf(l)
      BY <3>1, <3>2, <3>3
    <3> QED BY <3>1, <3>2, <3>4 DEF q
  <2> HIDE DEF c
  <2>5. ASSUME NEW i \in 1 .. Len(s[l]) + 2 PROVE c[i] = Cell(s, l, i - 1)
    <3>1. CASE i = 1
      BY <2>2, <2>3, <2>4, <3>1 DEF Cell
    <3>2. CASE i \in 2 .. Len(s[l]) + 1
      <4>1. i <= Len(s[l]) + 1 /\ ~ (i <= 1) /\ i \in 1 .. Len(s[l]) + 1
            /\ i - 1 # 0 /\ i - 1 # Len(s[l]) + 1
        BY <2>2, <3>2
      <4> QED BY <2>3, <2>4, <4>1 DEF Cell
    <3>3. CASE i = Len(s[l]) + 2
      <4>1. i - 1 = Len(s[l]) + 1 /\ i - 1 # 0 /\ ~ (i <= Len(s[l]) + 1)
        BY <2>2, <3>3
      <4> QED BY <2>4, <4>1 DEF Cell
    <3> QED BY <2>2, <3>1, <3>2, <3>3
  <2>6. ASSUME NEW i \in 1 .. Len(c) - 1
        PROVE  mem.next[c[i]] = c[i + 1] /\ mem.prev[c[i + 1]] = c[i]
    <3>1. /\ i \in 1 .. Len(s[l]) + 2 /\ i + 1 \in 1 .. Len(s[l]) + 2
          /\ i - 1 \in 0 .. Len(s[l]) /\ (i + 1) - 1 = (i - 1) + 1
      BY <2>2, <2>4
    <3>2. c[i] = Cell(s, l, i - 1) /\ c[i + 1] = Cell(s, l, (i - 1) + 1)
      BY <2>5, <3>1
    <3> QED BY <1>1, <3>1, <3>2 DEF Chained
  <2>7. IsInjective(Contents(l))
    BY <1>1, <1>2 DEF IsInjective, Once
  <2> QED BY <2>6, <2>7 DEF Intact, c
<1>4. ASSUME NEW l \in Lists PROVE IsHead(HeadOf(l)) /\ IsTail(TailOf(l))
  <2>1. /\ 0 \in 0 .. Len(s[l]) /\ Len(s[l]) \in 0 .. Len(s[l])
        /\ 0 + 1 \in 0 .. Len(s[l]) + 1 /\ Len(s[l]) \in 0 .. Len(s[l]) + 1
        /\ Len(s[l]) + 1 # 0
    BY <1>2
  <2>2. HeadOf(l) = Cell(s, l, 0) /\ TailOf(l) = Cell(s, l, Len(s[l]) + 1)
    BY <2>1 DEF Cell
  <2>3. /\ mem.next[HeadOf(l)] = Cell(s, l, 0 + 1) /\ mem.prev[TailOf(l)] = Cell(s, l, Len(s[l]))
        /\ mem.prev[HeadOf(l)] = Null /\ mem.next[TailOf(l)] = Null
    BY <1>1, <2>1, <2>2 DEF Chained
  <2>4. Cell(s, l, 0 + 1) # Null /\ Cell(s, l, Len(s[l])) # Null
    BY <1>1, <2>1, CellTypes
  <2> QED BY <2>3, <2>4 DEF IsHead, IsTail
<1>5. ASSUME NEW n \in Nodes, Linked(n) PROVE IsInterior(n)
  <2>1. PICK l \in Lists : \E i \in DOMAIN s[l] : s[l][i] = n
    BY <1>1, <1>5 DEF Linked
  <2>2. PICK i \in 1 .. Len(s[l]) : s[l][i] = n
    BY <1>2, <2>1
  <2>3. /\ i - 1 \in 0 .. Len(s[l]) /\ i \in 0 .. Len(s[l]) /\ (i - 1) + 1 = i
        /\ i - 1 \in 0 .. Len(s[l]) + 1 /\ i + 1 \in 0 .. Len(s[l]) + 1
        /\ i # 0 /\ i # Len(s[l]) + 1
    BY <1>2, <2>2
  <2>4. Cell(s, l, i) = n
    BY <2>2, <2>3 DEF Cell
  <2>5. mem.next[Cell(s, l, i)] = Cell(s, l, i + 1)
        /\ mem.prev[Cell(s, l, (i - 1) + 1)] = Cell(s, l, i - 1)
    BY <1>1, <2>3 DEF Chained
  <2>6. Cell(s, l, i + 1) # Null /\ Cell(s, l, i - 1) # Null
    BY <1>1, <2>3, CellTypes
  <2> QED BY <2>3, <2>4, <2>5, <2>6 DEF IsInterior
<1>6. ASSUME NEW k \in Lists, NEW l \in Lists, k # l
      PROVE  ToSet(Contents(k)) \cap ToSet(Contents(l)) = {}
  BY <1>1, <1>6 DEF ToSet, Once
<1> QED BY <1>3, <1>4, <1>5, <1>6 DEF ListsIntact

LEMMA LinkedIsOn ==
  ASSUME NEW s, Represents(mem, s), NEW n
  PROVE  Linked(n) <=> On(s, n)
BY ContentsAre DEF Linked, On
(***************************************************************************)
(* The walk.  After(s, i) is s with the i-th node of the walked list moved *)
(* to the end of the target.                                               *)
(***************************************************************************)

After(s, i) == [s EXCEPT ![Walked] = RemoveAt(s[Walked], i),
                         ![Target] = Append(s[Target], s[Walked][i])]

LEMMA AppendIsInsertAt ==
  ASSUME NEW q \in Seq(Nodes), NEW n \in Nodes
  PROVE  Append(q, n) = InsertAt(q, Len(q) + 1, n)
<1> DEFINE p == InsertAt(q, Len(q) + 1, n)
<1>1. Len(q) \in Nat /\ Len(q) + 1 \in 1 .. Len(q) + 1
  BY LenProperties
<1>2. /\ p \in Seq(Nodes) /\ Len(p) = Len(q) + 1
      /\ \A j \in 1 .. Len(q) + 1 :
           p[j] = IF j < Len(q) + 1 THEN q[j] ELSE IF j = Len(q) + 1 THEN n ELSE q[j - 1]
  <2>1. IsInserted(p, q, Len(q) + 1, n)
    BY <1>1, InsertAtProperties
  <2> HIDE DEF p
  <2> QED BY <2>1 DEF IsInserted
<1>3. /\ Append(q, n) \in Seq(Nodes) /\ Len(Append(q, n)) = Len(q) + 1
      /\ \A j \in 1 .. Len(q) : Append(q, n)[j] = q[j]
      /\ Append(q, n)[Len(q) + 1] = n
  BY AppendProperties
<1> HIDE DEF p
<1>4. ASSUME NEW j \in 1 .. Len(q) + 1 PROVE p[j] = Append(q, n)[j]
  <2>1. CASE j = Len(q) + 1
    <3>1. ~ (j < Len(q) + 1)
      BY <1>1, <2>1
    <3> QED BY <1>2, <1>3, <2>1, <3>1
  <2>2. CASE j \in 1 .. Len(q)
    <3>1. j < Len(q) + 1
      BY <1>1, <2>2
    <3> QED BY <1>2, <1>3, <2>2, <3>1
  <2> QED BY <1>1, <2>1, <2>2
<1>5. p = [j \in 1 .. Len(q) + 1 |-> p[j]]
      /\ Append(q, n) = [j \in 1 .. Len(q) + 1 |-> Append(q, n)[j]]
  BY <1>2, <1>3, LenProperties
<1> QED BY <1>4, <1>5 DEF p

LEMMA AfterIs ==
  ASSUME NEW s \in [Lists -> Seq(Nodes)], NEW i \in 1 .. Len(s[Walked])
  PROVE  LET r == Removed(s, Walked, i) IN
         /\ r \in [Lists -> Seq(Nodes)] /\ Len(r[Target]) \in Nat
         /\ After(s, i) = Inserted(r, Target, Len(r[Target]) + 1, s[Walked][i])
         /\ After(s, i) \in [Lists -> Seq(Nodes)]
         /\ Len(After(s, i)[Walked]) = Len(s[Walked]) - 1
         /\ \A j \in 0 .. i - 1 : Cell(After(s, i), Walked, j) = Cell(s, Walked, j)
         /\ \A j \in i .. Len(s[Walked]) : Cell(After(s, i), Walked, j) = Cell(s, Walked, j + 1)
<1> DEFINE r == Removed(s, Walked, i)
           n == s[Walked][i]
<1>1. Walked \in Lists /\ Target \in Lists /\ Walked # Target
  BY ListAssumption
<1>2. /\ r \in [Lists -> Seq(Nodes)] /\ Len(r[Walked]) = Len(s[Walked]) - 1
      /\ r[Target] = s[Target]
      /\ \A j \in 0 .. i - 1 : Cell(r, Walked, j) = Cell(s, Walked, j)
      /\ \A j \in i .. Len(s[Walked]) : Cell(r, Walked, j) = Cell(s, Walked, j + 1)
  BY <1>1, CellsAfterRemove
<1>3. n \in Nodes /\ s[Target] \in Seq(Nodes) /\ Len(s[Target]) \in Nat
  BY <1>1, Lengths
<1>4. Append(s[Target], n) = InsertAt(s[Target], Len(s[Target]) + 1, n)
      /\ Append(s[Target], n) \in Seq(Nodes)
  BY <1>3, AppendIsInsertAt, AppendProperties
<1>5. r = [s EXCEPT ![Walked] = RemoveAt(s[Walked], i)]
  BY DEF Removed
<1> HIDE DEF n
<1>6. After(s, i) = [r EXCEPT ![Target] = Append(s[Target], n)]
  BY <1>1, <1>5 DEF After, n
<1> HIDE DEF r
<1>7. After(s, i) = Inserted(r, Target, Len(r[Target]) + 1, n)
  BY <1>2, <1>4, <1>6 DEF Inserted
<1>8. After(s, i) \in [Lists -> Seq(Nodes)] /\ After(s, i)[Walked] = r[Walked]
  BY <1>1, <1>2, <1>4, <1>6
<1>9. \A j : Cell(After(s, i), Walked, j) = Cell(r, Walked, j)
  BY <1>8 DEF Cell
<1>10. \A j \in 0 .. i - 1 : Cell(After(s, i), Walked, j) = Cell(s, Walked, j)
  BY <1>2, <1>9
<1>11. \A j \in i .. Len(s[Walked]) : Cell(After(s, i), Walked, j) = Cell(s, Walked, j + 1)
  BY <1>2, <1>9
<1> QED BY <1>2, <1>3, <1>7, <1>8, <1>10, <1>11 DEF r, n

\* Deleting a node of the walked list and inserting it at the back of the
\* target moves it.
LEMMA MoveRepresents ==
  ASSUME NEW m, NEW s, Represents(m, s), NEW i \in 1 .. Len(s[Walked])
  PROVE  Represents(InsertBackList(DeleteList(m, s[Walked][i]), Target, s[Walked][i]), After(s, i))
<1> DEFINE r  == Removed(s, Walked, i)
           n  == s[Walked][i]
           m1 == DeleteList(m, n)
<1>1. Walked \in Lists /\ Target \in Lists /\ s \in [Lists -> Seq(Nodes)] /\ Once(s)
  BY ListAssumption DEF Represents
<1>2. n \in Nodes
  BY <1>1, Lengths
<1>3. Represents(m1, r)
  BY <1>1, Deletes
<1>4. ~ On(r, n)
  BY <1>1, OnceAfterRemove
<1>5. Len(r[Target]) \in Nat /\ After(s, i) = Inserted(r, Target, Len(r[Target]) + 1, n)
  BY <1>1, AfterIs
<1> HIDE DEF r, n, m1
<1>6. Cell(r, Target, Len(r[Target]) + 1) = TailOf(Target) /\ Len(r[Target]) \in 0 .. Len(r[Target])
  BY <1>5 DEF Cell
<1>7. Represents(InsertAfterList(m1, Cell(r, Target, Len(r[Target]) + 1), n),
                 Inserted(r, Target, Len(r[Target]) + 1, n))
  BY <1>1, <1>2, <1>3, <1>4, <1>6, Inserts
<1>8. Represents(InsertBackList(m1, Target, n), After(s, i))
  BY <1>5, <1>6, <1>7 DEF InsertBackList
<1> QED BY <1>8 DEF m1, n

\* The position of a cell on the walked list is determined.
LEMMA PositionIs ==
  ASSUME NEW s \in [Lists -> Seq(Nodes)], Once(s), Moved = s,
         NEW p \in 1 .. Len(s[Walked]) + 1, pnode = Cell(s, Walked, p)
  PROVE  Position = p /\ pnode # Null
<1>1. /\ Walked \in Lists /\ Len(s[Walked]) \in Nat /\ DOMAIN s[Walked] = 1 .. Len(s[Walked])
      /\ \A i \in 1 .. Len(s[Walked]) : s[Walked][i] \in Nodes
  BY ListAssumption, Lengths
<1>2. CASE p = Len(s[Walked]) + 1
  <2>1. pnode = TailOf(Walked) /\ pnode # Null
    BY <1>1, <1>2, Sentinels DEF Cell
  <2> QED BY <1>2, <2>1 DEF Position
<1>3. CASE p \in 1 .. Len(s[Walked])
  <2>1. p # 0 /\ p # Len(s[Walked]) + 1
    BY <1>1, <1>3
  <2>2. pnode = s[Walked][p] /\ pnode \in Nodes
    BY <1>1, <1>3, <2>1 DEF Cell
  <2>3. pnode # Null /\ pnode # TailOf(Walked)
    BY <1>1, <2>2, Sentinels
  <2>4. Position = CHOOSE i \in DOMAIN s[Walked] : s[Walked][i] = pnode
    BY <2>3 DEF Position
  <2>5. \A i \in DOMAIN s[Walked] : s[Walked][i] = pnode => i = p
    BY <1>1, <1>3, <2>2 DEF Once
  <2>6. p \in DOMAIN s[Walked] /\ s[Walked][p] = pnode
    BY <1>1, <1>3, <2>2
  <2> QED BY <2>3, <2>4, <2>5, <2>6
<1> QED BY <1>1, <1>2, <1>3

\* The lists and the position the walk works on, nothing to be moved.
LEMMA NothingToMove ==
  ASSUME NEW s, Represents(mem, s), readyed = Null
  PROVE  Moved = s /\ MoveReadyed = mem
<1>1. s \in [Lists -> Seq(Nodes)] /\ \A l \in Lists : Contents(l) = s[l]
  BY ContentsAre DEF Represents
<1>2. Moved = [l \in Lists |-> s[l]]
  BY <1>1 DEF Moved
<1> QED BY <1>1, <1>2 DEF MoveReadyed

\* The same with the node in front of the position to be moved.
LEMMA ReadyedToMove ==
  ASSUME NEW s, Represents(mem, s), NEW i \in 1 .. Len(s[Walked]), readyed = s[Walked][i],
         pnode = Cell(s, Walked, i + 1)
  PROVE  /\ Moved = After(s, i) /\ Represents(MoveReadyed, After(s, i))
         /\ pnode = Cell(After(s, i), Walked, i)
         /\ i \in 1 .. Len(After(s, i)[Walked]) + 1
<1>1. /\ s \in [Lists -> Seq(Nodes)] /\ Once(s) /\ Walked \in Lists /\ Target \in Lists
      /\ Walked # Target /\ \A l \in Lists : Contents(l) = s[l]
  BY ContentsAre, ListAssumption DEF Represents
<1>2. Len(s[Walked]) \in Nat /\ DOMAIN s[Walked] = 1 .. Len(s[Walked]) /\ readyed \in Nodes
  BY <1>1, Lengths
<1>3. readyed # Null
  BY <1>2, Sentinels
<1>4. IndexOn(Walked, readyed) = i
  <2>1. IndexOn(Walked, readyed) = CHOOSE j \in DOMAIN s[Walked] : s[Walked][j] = readyed
    BY <1>1 DEF IndexOn
  <2>2. i \in DOMAIN s[Walked] /\ s[Walked][i] = readyed
    BY <1>2
  <2>3. \A j \in DOMAIN s[Walked] : s[Walked][j] = readyed => j = i
    BY <1>1, <2>2 DEF Once
  <2> QED BY <2>1, <2>2, <2>3
<1>5. Moved = After(s, i)
  <2> DEFINE a == RemoveAt(s[Walked], i)
             b == Append(s[Target], readyed)
  <2>1. After(s, i) = [l \in Lists |-> IF l = Target THEN b ELSE IF l = Walked THEN a ELSE s[l]]
    BY <1>1 DEF After
  <2>2. \A l \in Lists :
          (CASE readyed = Null -> Contents(l)
             [] readyed # Null /\ l = Walked -> RemoveAt(Contents(l), IndexOn(Walked, readyed))
             [] readyed # Null /\ l = Target -> Append(Contents(l), readyed)
             [] OTHER -> Contents(l))
          = IF l = Target THEN b ELSE IF l = Walked THEN a ELSE s[l]
    <3> TAKE l \in Lists
    <3>1. Contents(l) = s[l]
      BY <1>1
    <3>2. CASE l = Walked
      BY <1>1, <1>3, <1>4, <3>1, <3>2
    <3>3. CASE l = Target
      BY <1>1, <1>3, <3>1, <3>3
    <3>4. CASE l # Walked /\ l # Target
      BY <1>3, <3>1, <3>4
    <3> QED BY <3>2, <3>3, <3>4
  <2> QED BY <2>1, <2>2 DEF Moved
<1>6. Represents(MoveReadyed, After(s, i))
  <2>1. MoveReadyed = InsertBackList(DeleteList(mem, s[Walked][i]), Target, s[Walked][i])
    BY <1>3 DEF MoveReadyed
  <2> QED BY <2>1, MoveRepresents
<1>7. /\ Len(After(s, i)[Walked]) = Len(s[Walked]) - 1
      /\ \A j \in i .. Len(s[Walked]) : Cell(After(s, i), Walked, j) = Cell(s, Walked, j + 1)
  BY <1>1, AfterIs
<1>8. i \in i .. Len(s[Walked]) /\ i \in 1 .. Len(s[Walked]) - 1 + 1
  BY <1>2
<1> QED BY <1>5, <1>6, <1>7, <1>8
(***************************************************************************)
(* The inductive invariant: the memory represents sequences, the walk      *)
(* stands behind the node it still has to move, and no other node of the   *)
(* walked list has its count run out.                                      *)
(***************************************************************************)

WalkAt(s, c, p, r) ==
  /\ p = Null => r = Null
  /\ p # Null /\ r = Null =>
       \E i \in 1 .. Len(s[Walked]) + 1 : p = Cell(s, Walked, i)
  /\ p # Null /\ r # Null =>
       \E i \in 1 .. Len(s[Walked]) : r = s[Walked][i] /\ p = Cell(s, Walked, i + 1)
  /\ \A i \in DOMAIN s[Walked] : s[Walked][i] # r => c[s[Walked][i]] # 0

ListInv == /\ count \in [Nodes -> 0 .. MaxCount]
           /\ \E s : Represents(mem, s) /\ WalkAt(s, count, pnode, readyed)

\* What the abstract lists and the abstract position are, in any state.
Seen ==
  \A s : Represents(mem, s) =>
    /\ readyed = Null => Moved = s
    /\ pnode = Null => Position = 0
    /\ \A p \in 1 .. Len(s[Walked]) + 1 :
         readyed = Null /\ pnode = Cell(s, Walked, p) => Position = p
    /\ \A i \in 1 .. Len(s[Walked]) :
         readyed = s[Walked][i] /\ pnode = Cell(s, Walked, i + 1)
           => Moved = After(s, i) /\ Position = i

LEMMA SeenHolds == Seen
<1> SUFFICES ASSUME NEW s, Represents(mem, s)
             PROVE  /\ readyed = Null => Moved = s
                    /\ pnode = Null => Position = 0
                    /\ \A p \in 1 .. Len(s[Walked]) + 1 :
                         readyed = Null /\ pnode = Cell(s, Walked, p) => Position = p
                    /\ \A i \in 1 .. Len(s[Walked]) :
                         readyed = s[Walked][i] /\ pnode = Cell(s, Walked, i + 1)
                           => Moved = After(s, i) /\ Position = i
  BY DEF Seen
<1>1. s \in [Lists -> Seq(Nodes)] /\ Once(s)
  BY DEF Represents
<1>2. readyed = Null => Moved = s
  BY NothingToMove
<1>3. ASSUME pnode = Null PROVE Position = 0
  <2>1. pnode # TailOf(Walked)
    BY <1>3, ListAssumption, Sentinels
  <2> QED BY <1>3, <2>1 DEF Position
<1>4. ASSUME NEW p \in 1 .. Len(s[Walked]) + 1, readyed = Null, pnode = Cell(s, Walked, p)
      PROVE  Position = p
  <2>1. Moved = s
    BY <1>2, <1>4
  <2>2. pnode = Cell(s, Walked, p)
    BY <1>4
  <2> QED BY <1>1, <2>1, <2>2, PositionIs
<1>5. ASSUME NEW i \in 1 .. Len(s[Walked]), readyed = s[Walked][i], pnode = Cell(s, Walked, i + 1)
      PROVE  Moved = After(s, i) /\ Position = i
  <2> DEFINE a == After(s, i)
  <2>1. /\ Moved = a /\ Represents(MoveReadyed, a) /\ pnode = Cell(a, Walked, i)
        /\ i \in 1 .. Len(a[Walked]) + 1
    BY <1>5, ReadyedToMove
  <2> HIDE DEF a
  <2>2. a \in [Lists -> Seq(Nodes)] /\ Once(a)
    BY <2>1 DEF Represents
  <2>3. Position = i
    BY <2>1, <2>2, PositionIs
  <2> QED BY <2>1, <2>3 DEF a
<1> QED BY <1>2, <1>3, <1>4, <1>5

LEMMA SeenAlways == Seen /\ Seen'
BY SeenHolds, PTL

\* Where the walk stands on the lists it sees.
LEMMA Standing ==
  ASSUME NEW s, Represents(mem, s), WalkAt(s, count, pnode, readyed), pnode # Null
  PROVE  \E a : \E p \in 1 .. Len(a[Walked]) + 1 :
           /\ Represents(MoveReadyed, a) /\ Moved = a /\ Position = p
           /\ pnode = Cell(a, Walked, p)
           /\ \A i \in DOMAIN a[Walked] : count[a[Walked][i]] # 0
<1>1. s \in [Lists -> Seq(Nodes)] /\ Once(s) /\ Walked \in Lists /\ Len(s[Walked]) \in Nat
      /\ DOMAIN s[Walked] = 1 .. Len(s[Walked])
      /\ \A i \in 1 .. Len(s[Walked]) : s[Walked][i] \in Nodes
  BY ListAssumption, Lengths DEF Represents
<1>2. CASE readyed = Null
  <2>1. PICK p \in 1 .. Len(s[Walked]) + 1 : pnode = Cell(s, Walked, p)
    BY <1>2 DEF WalkAt
  <2>2. Moved = s /\ Position = p /\ MoveReadyed = mem
    BY <1>2, <2>1, NothingToMove, SeenHolds DEF Seen
  <2>3. \A i \in DOMAIN s[Walked] : count[s[Walked][i]] # 0
    BY <1>1, <1>2, Sentinels DEF WalkAt
  <2> QED BY <2>1, <2>2, <2>3
<1>3. CASE readyed # Null
  <2>1. PICK i \in 1 .. Len(s[Walked]) : readyed = s[Walked][i] /\ pnode = Cell(s, Walked, i + 1)
    BY <1>3 DEF WalkAt
  <2> DEFINE a == After(s, i)
  <2>2. /\ Moved = a /\ Represents(MoveReadyed, a) /\ pnode = Cell(a, Walked, i)
        /\ i \in 1 .. Len(a[Walked]) + 1
    BY <2>1, ReadyedToMove
  <2>3. Position = i
    BY <2>1, SeenHolds DEF Seen
  <2>4. ASSUME NEW x \in DOMAIN a[Walked] PROVE count[a[Walked][x]] # 0
    <3>1. a[Walked] = Removed(s, Walked, i)[Walked]
      BY <1>1, ListAssumption DEF After, Removed
    <3>2. PICK y \in DOMAIN s[Walked] :
            Removed(s, Walked, i)[Walked][x] = s[Walked][y] /\ y # i
      BY <1>1, <3>1, OnceAfterRemove
    <3>3. s[Walked][y] # readyed
      BY <1>1, <2>1, <3>2 DEF Once
    <3> QED BY <3>1, <3>2, <3>3 DEF WalkAt
  <2> QED BY <2>2, <2>3, <2>4
<1> QED BY <1>2, <1>3
(***************************************************************************)
(* Every step preserves the invariant, and is a step of SequenceLists.     *)
(***************************************************************************)

SpecVars == <<Moved, count, Position>>

LEMMA SameOperators ==
  \A q, i, n : Seqs!InsertAt(q, i, n) = InsertAt(q, i, n) /\ Seqs!RemoveAt(q, i) = RemoveAt(q, i)
BY DEF Seqs!InsertAt, InsertAt, Seqs!RemoveAt, RemoveAt

\* Outside a walk the abstract lists are the sequences.
LEMMA AtRest ==
  ASSUME NEW s, Represents(mem, s), WalkAt(s, count, pnode, readyed), pnode = Null,
         NEW s2, Represents(mem', s2), pnode' = Null, readyed' = Null
  PROVE  Moved = s /\ Position = 0 /\ Moved' = s2 /\ Position' = 0
<1>1. readyed = Null
  BY DEF WalkAt
<1>2. Moved = s /\ Position = 0
  BY <1>1, SeenAlways DEF Seen
<1>3. Moved' = s2 /\ Position' = 0
  BY SeenAlways DEF Seen
<1> QED BY <1>2, <1>3

LEMMA InsertNodeStep ==
  ASSUME NEW s, Represents(mem, s), WalkAt(s, count, pnode, readyed),
         count \in [Nodes -> 0 .. MaxCount], InsertNode
  PROVE  ListInv' /\ Seqs!Next
<1>1. /\ s \in [Lists -> Seq(Nodes)] /\ Once(s) /\ pnode = Null /\ readyed = Null
      /\ \A l \in Lists : Contents(l) = s[l]
      /\ MaxCount \in Nat /\ Walked \in Lists
  BY ContentsAre, ListAssumption DEF Represents, WalkAt, InsertNode
<1>2. PICK n \in Nodes, l \in Lists :
        /\ ~ Linked(n)
        /\ \/ Store(InsertBackList(mem, l, n))
           \/ Store(InsertFrontList(mem, l, n))
           \/ \E i \in DOMAIN Contents(l) :
                Store(InsertBeforeList(mem, Contents(l)[i], n))
        /\ \E c \in 1 .. MaxCount : count' = [count EXCEPT ![n] = c]
  BY DEF InsertNode
<1>3. PICK c \in 1 .. MaxCount : count' = [count EXCEPT ![n] = c]
  BY <1>2
<1>4. ~ On(s, n) /\ Len(s[l]) \in Nat /\ DOMAIN s[l] = 1 .. Len(s[l])
  BY <1>1, <1>2, LinkedIsOn, Lengths
<1>5. pnode' = Null /\ readyed' = Null
  BY <1>1, <1>2 DEF Store
<1>6. \E i \in 0 .. Len(s[l]) : Represents(mem', Inserted(s, l, i + 1, n))
  <2>1. CASE Store(InsertBackList(mem, l, n))
    <3>1. Len(s[l]) \in 0 .. Len(s[l]) /\ Cell(s, l, Len(s[l]) + 1) = TailOf(l)
      BY <1>4 DEF Cell
    <3>2. mem' = InsertAfterList(mem, Cell(s, l, Len(s[l]) + 1), n)
      BY <2>1, <3>1 DEF Store, InsertBackList
    <3> QED BY <1>4, <3>1, <3>2, Inserts
  <2>2. CASE Store(InsertFrontList(mem, l, n))
    <3>1. 0 \in 0 .. Len(s[l]) /\ 0 + 1 = 1
      BY <1>4
    <3>2. mem' = InsertAfterList(mem, Cell(s, l, 0 + 1), n)
      BY <2>2, <3>1, Ends DEF Store, InsertFrontList
    <3> QED BY <1>4, <3>1, <3>2, Inserts
  <2>3. CASE \E i \in DOMAIN Contents(l) : Store(InsertBeforeList(mem, Contents(l)[i], n))
    <3>1. PICK i \in 1 .. Len(s[l]) : Store(InsertBeforeList(mem, s[l][i], n))
      BY <1>1, <1>4, <2>3
    <3>2. i \in 0 .. Len(s[l]) /\ i # 0 /\ i # Len(s[l]) + 1
      BY <1>4
    <3>3. mem' = InsertBeforeList(mem, Cell(s, l, i), n)
      BY <3>1, <3>2 DEF Store, Cell
    <3> QED BY <1>4, <3>2, <3>3, Inserts
  <2> QED BY <1>2, <2>1, <2>2, <2>3
<1>7. PICK i \in 0 .. Len(s[l]) : Represents(mem', Inserted(s, l, i + 1, n))
  BY <1>6
<1> DEFINE s2 == Inserted(s, l, i + 1, n)
<1>8. i + 1 \in 1 .. Len(s[l]) + 1
  BY <1>4
<1>9. \A x \in DOMAIN s2[Walked] : s2[Walked][x] = n \/ \E y \in DOMAIN s[Walked] : s2[Walked][x] = s[Walked][y]
  <2> DEFINE j == i + 1
  <2>1. s2 = Inserted(s, l, j, n) /\ j \in 1 .. Len(s[l]) + 1 /\ ~ On(s, n) /\ Once(s)
        /\ s \in [Lists -> Seq(Nodes)]
    BY <1>1, <1>4, <1>8
  <2> HIDE DEF s2, j
  <2>2. NodesFrom(s2, s, n)
    BY <2>1, OnceAfterInsert
  <2>3. Walked \in Lists
    BY <1>1
  <2> QED BY <2>2, <2>3 DEF NodesFrom
<1> HIDE DEF s2
<1>10. s2 = [s EXCEPT ![l] = InsertAt(s[l], i + 1, n)]
  BY DEF s2, Inserted
<1>11. Represents(mem', s2)
  BY <1>7 DEF s2
<1>12. Moved = s /\ Position = 0 /\ Moved' = s2 /\ Position' = 0
  BY <1>1, <1>5, <1>11, AtRest
<1>13. count' \in [Nodes -> 0 .. MaxCount]
  BY <1>1, <1>3
<1>14. WalkAt(s2, count', pnode', readyed')
  <2>1. ASSUME NEW x \in DOMAIN s2[Walked] PROVE count'[s2[Walked][x]] # 0
    <3>1. CASE s2[Walked][x] = n
      BY <1>1, <1>3, <3>1
    <3>2. CASE \E y \in DOMAIN s[Walked] : s2[Walked][x] = s[Walked][y]
      <4>1. PICK y \in DOMAIN s[Walked] : s2[Walked][x] = s[Walked][y]
        BY <3>2
      <4>2. s[Walked][y] \in Nodes /\ s[Walked][y] # n
        BY <1>1, <1>4, Lengths DEF On
      <4>3. count[s[Walked][y]] # 0
        BY <1>1, <4>2, Sentinels DEF WalkAt
      <4> QED BY <1>1, <1>3, <4>1, <4>2, <4>3
    <3> QED BY <1>9, <3>1, <3>2
  <2> QED BY <1>5, <2>1 DEF WalkAt
<1>15. ListInv'
  BY <1>11, <1>13, <1>14 DEF ListInv
<1>16. Seqs!Insert(l, n, i + 1)
  <2>1. Seqs!Free(n)
    BY <1>4, <1>12 DEF Seqs!Free, Seqs!Holds, On
  <2>2. Moved' = [Moved EXCEPT ![l] = InsertAt(Moved[l], i + 1, n)]
    BY <1>10, <1>12
  <2>3. Moved' = [Moved EXCEPT ![l] = Seqs!InsertAt(Moved[l], i + 1, n)]
    BY <2>2, SameOperators
  <2> QED BY <1>3, <1>12, <2>1, <2>3 DEF Seqs!Insert
<1>17. i + 1 \in 1 .. Len(Moved[l]) + 1
  BY <1>8, <1>12
<1> QED BY <1>15, <1>16, <1>17 DEF Seqs!Next

LEMMA DeleteNodeStep ==
  ASSUME NEW s, Represents(mem, s), WalkAt(s, count, pnode, readyed),
         count \in [Nodes -> 0 .. MaxCount], DeleteNode
  PROVE  ListInv' /\ Seqs!Next
<1>1. /\ s \in [Lists -> Seq(Nodes)] /\ Once(s) /\ pnode = Null /\ readyed = Null
      /\ \A l \in Lists : Contents(l) = s[l]
      /\ MaxCount \in Nat /\ Walked \in Lists /\ count' = count
      /\ \A l \in Lists : Len(s[l]) \in Nat /\ DOMAIN s[l] = 1 .. Len(s[l])
  BY ContentsAre, ListAssumption, Lengths DEF Represents, WalkAt, DeleteNode
<1>2. pnode' = Null /\ readyed' = Null
  BY <1>1 DEF DeleteNode, Store
<1>3. \E l \in Lists : \E i \in 1 .. Len(s[l]) : mem' = DeleteList(mem, s[l][i])
  <2>1. CASE \E n \in Nodes : Linked(n) /\ Store(DeleteList(mem, n))
    <3>1. PICK n \in Nodes : Linked(n) /\ mem' = DeleteList(mem, n)
      BY <2>1 DEF Store
    <3>2. On(s, n)
      BY <3>1, LinkedIsOn
    <3> QED BY <1>1, <3>1, <3>2 DEF On
  <2>2. CASE \E l \in Lists : ~IsEmpty(mem, l) /\ Store(DeleteList(mem, BeginList(mem, l)))
    <3>1. PICK l \in Lists : ~IsEmpty(mem, l) /\ mem' = DeleteList(mem, BeginList(mem, l))
      BY <2>2 DEF Store
    <3>2. Len(s[l]) # 0 /\ BeginList(mem, l) = Cell(s, l, 1)
      BY <3>1, Ends
    <3>3. 1 \in 1 .. Len(s[l]) /\ 1 # Len(s[l]) + 1
      BY <1>1, <3>2
    <3>4. Cell(s, l, 1) = s[l][1]
      BY <3>3 DEF Cell
    <3> QED BY <3>1, <3>2, <3>3, <3>4
  <2>3. CASE \E l \in Lists : ~IsEmpty(mem, l) /\ Store(DeleteList(mem, BackList(mem, l)))
    <3>1. PICK l \in Lists : ~IsEmpty(mem, l) /\ mem' = DeleteList(mem, BackList(mem, l))
      BY <2>3 DEF Store
    <3>2. Len(s[l]) # 0 /\ BackList(mem, l) = Cell(s, l, Len(s[l]))
      BY <3>1, Ends
    <3>3. Len(s[l]) \in 1 .. Len(s[l]) /\ Len(s[l]) # Len(s[l]) + 1
      BY <1>1, <3>2
    <3>4. Cell(s, l, Len(s[l])) = s[l][Len(s[l])]
      BY <3>2, <3>3 DEF Cell
    <3> QED BY <3>1, <3>2, <3>3, <3>4
  <2> QED BY <2>1, <2>2, <2>3 DEF DeleteNode
<1>4. PICK l \in Lists : \E i \in 1 .. Len(s[l]) : mem' = DeleteList(mem, s[l][i])
  BY <1>3
<1>5. PICK i \in 1 .. Len(s[l]) : mem' = DeleteList(mem, s[l][i])
  BY <1>4
<1> DEFINE s2 == Removed(s, l, i)
<1>6. Represents(mem', s2)
  BY <1>5, Deletes
<1>7. \A x \in DOMAIN s2[Walked] : \E y \in DOMAIN s[Walked] : s2[Walked][x] = s[Walked][y]
  BY <1>1, OnceAfterRemove
<1>8. s2 = [s EXCEPT ![l] = RemoveAt(s[l], i)]
  BY DEF Removed
<1> HIDE DEF s2
<1>9. Moved = s /\ Position = 0 /\ Moved' = s2 /\ Position' = 0
  BY <1>1, <1>2, <1>6, AtRest
<1>10. WalkAt(s2, count', pnode', readyed')
  <2>1. ASSUME NEW x \in DOMAIN s2[Walked] PROVE count'[s2[Walked][x]] # 0
    <3>1. PICK y \in DOMAIN s[Walked] : s2[Walked][x] = s[Walked][y]
      BY <1>7
    <3>2. s[Walked][y] # Null
      BY <1>1, Lengths, Sentinels
    <3> QED BY <1>1, <3>1, <3>2 DEF WalkAt
  <2> QED BY <1>2, <2>1 DEF WalkAt
<1>11. ListInv'
  BY <1>1, <1>6, <1>10 DEF ListInv
<1>12. Seqs!Take(l, i)
  <2>1. Moved' = [Moved EXCEPT ![l] = Seqs!RemoveAt(Moved[l], i)]
    BY <1>8, <1>9, SameOperators
  <2> QED BY <1>1, <1>9, <2>1 DEF Seqs!Take
<1>13. i \in DOMAIN Moved[l]
  BY <1>1, <1>9
<1> QED BY <1>11, <1>12, <1>13 DEF Seqs!Next

LEMMA ResetListStep ==
  ASSUME NEW s, Represents(mem, s), WalkAt(s, count, pnode, readyed),
         count \in [Nodes -> 0 .. MaxCount], ResetList
  PROVE  ListInv' /\ UNCHANGED SpecVars
<1>1. pnode = Null /\ readyed = Null /\ pnode' = Null /\ readyed' = Null /\ count' = count
  BY DEF ResetList, Store, WalkAt
<1>2. mem' = mem
  BY InitsEmpty DEF ResetList, Store
<1>3. Represents(mem', s)
  BY <1>2
<1>4. Moved = s /\ Position = 0 /\ Moved' = s /\ Position' = 0
  BY <1>1, <1>3, AtRest
<1>5. WalkAt(s, count', pnode', readyed')
  BY <1>1
<1> QED BY <1>1, <1>3, <1>4, <1>5 DEF ListInv, SpecVars
LEMMA WalkBeginStep ==
  ASSUME NEW s, Represents(mem, s), WalkAt(s, count, pnode, readyed),
         count \in [Nodes -> 0 .. MaxCount], WalkBegin
  PROVE  ListInv' /\ Seqs!Next
<1>1. /\ s \in [Lists -> Seq(Nodes)] /\ Walked \in Lists /\ Len(s[Walked]) \in Nat
      /\ pnode = Null /\ readyed = Null /\ readyed' = Null /\ mem' = mem /\ count' = count
      /\ DOMAIN s[Walked] = 1 .. Len(s[Walked])
  BY ListAssumption, Lengths DEF Represents, WalkAt, WalkBegin
<1>2. pnode' = Cell(s, Walked, 1) /\ 1 \in 1 .. Len(s[Walked]) + 1
  BY <1>1, Ends DEF WalkBegin
<1>3. pnode' # Null
  <2>1. 1 \in 0 .. Len(s[Walked]) + 1
    BY <1>1
  <2> QED BY <1>1, <1>2, <2>1, CellTypes
<1>4. Represents(mem', s)
  BY <1>1
<1>5. Moved = s /\ Position = 0
  BY <1>1, SeenAlways DEF Seen
<1>6. Moved' = s /\ Position' = 1
  BY <1>1, <1>2, <1>4, SeenAlways DEF Seen
<1>7. WalkAt(s, count', pnode', readyed')
  BY <1>1, <1>2, <1>3 DEF WalkAt
<1>8. ListInv'
  BY <1>1, <1>4, <1>7 DEF ListInv
<1>9. Seqs!WalkBegin
  BY <1>1, <1>5, <1>6 DEF Seqs!WalkBegin
<1> QED BY <1>8, <1>9 DEF Seqs!Next

LEMMA WalkStepStep ==
  ASSUME NEW s, Represents(mem, s), WalkAt(s, count, pnode, readyed),
         count \in [Nodes -> 0 .. MaxCount], WalkStep
  PROVE  ListInv' /\ Seqs!Next
<1>1. pnode \in Nodes /\ pnode # Null /\ MaxCount \in Nat /\ Walked \in Lists /\ Target \in Lists
  BY ListAssumption, Sentinels DEF WalkStep
<1>2. PICK a : \E p \in 1 .. Len(a[Walked]) + 1 :
           /\ Represents(MoveReadyed, a) /\ Moved = a /\ Position = p
           /\ pnode = Cell(a, Walked, p)
           /\ \A i \in DOMAIN a[Walked] : count[a[Walked][i]] # 0
  BY <1>1, Standing
<1>3. PICK p \in 1 .. Len(a[Walked]) + 1 :
           /\ Represents(MoveReadyed, a) /\ Moved = a /\ Position = p
           /\ pnode = Cell(a, Walked, p)
           /\ \A i \in DOMAIN a[Walked] : count[a[Walked][i]] # 0
  BY <1>2
<1>4. mem' = MoveReadyed /\ Represents(mem', a)
  BY <1>3 DEF WalkStep
<1>5. /\ a \in [Lists -> Seq(Nodes)] /\ Once(a) /\ Chained(mem', a, Walked)
      /\ Len(a[Walked]) \in Nat /\ DOMAIN a[Walked] = 1 .. Len(a[Walked])
      /\ \A i \in 1 .. Len(a[Walked]) : a[Walked][i] \in Nodes
  BY <1>1, <1>4, Lengths DEF Represents
<1>6. p \in 0 .. Len(a[Walked]) + 1
  BY <1>5
<1>7. p \in 1 .. Len(a[Walked]) /\ pnode = a[Walked][p]
  BY <1>1, <1>3, <1>5, <1>6, CellTypes
<1>8. /\ p \in 0 .. Len(a[Walked]) /\ p + 1 \in 0 .. Len(a[Walked]) + 1
      /\ p + 1 \in 1 .. Len(a[Walked]) + 1 /\ p \in DOMAIN a[Walked]
  BY <1>5, <1>7
<1>9. pnode' = Cell(a, Walked, p + 1)
  <2>1. pnode' = mem'.next[pnode]
    BY DEF WalkStep
  <2>2. mem'.next[Cell(a, Walked, p)] = Cell(a, Walked, p + 1)
    BY <1>5, <1>8 DEF Chained
  <2> QED BY <1>3, <2>1, <2>2
<1>10. pnode' # Null
  BY <1>1, <1>5, <1>8, <1>9, CellTypes
<1>11. /\ count' = [count EXCEPT ![pnode] = count[pnode] - 1]
       /\ readyed' = IF count[pnode] = 1 THEN pnode ELSE Null
  BY DEF WalkStep
<1>12. count[pnode] \in 1 .. MaxCount
  <2>1. count[pnode] # 0 /\ count[pnode] \in 0 .. MaxCount
    BY <1>1, <1>3, <1>7, <1>8
  <2> QED BY <1>1, <2>1
<1>13. count' \in [Nodes -> 0 .. MaxCount]
  <2>1. count[pnode] - 1 \in 0 .. MaxCount
    BY <1>1, <1>12
  <2> QED BY <1>1, <1>11, <2>1
<1>14. ASSUME NEW i \in DOMAIN a[Walked], i # p
       PROVE  count'[a[Walked][i]] # 0
  <2>1. a[Walked][i] # pnode /\ a[Walked][i] \in Nodes
    BY <1>1, <1>5, <1>7, <1>8, <1>14 DEF Once
  <2> QED BY <1>3, <1>11, <2>1
<1>15. CASE count[pnode] = 1
  <2>1. readyed' = a[Walked][p] /\ readyed' # Null
    BY <1>1, <1>7, <1>11, <1>15
  <2>2. Moved' = After(a, p) /\ Position' = p
    BY <1>4, <1>7, <1>9, <2>1, SeenAlways DEF Seen
  <2>3. WalkAt(a, count', pnode', readyed')
    BY <1>7, <1>9, <1>10, <1>14, <2>1 DEF WalkAt
  <2>4. ListInv'
    BY <1>4, <1>13, <2>3 DEF ListInv
  <2>5. Moved' = [Moved EXCEPT ![Walked] = RemoveAt(Moved[Walked], p),
                               ![Target] = Append(Moved[Target], Moved[Walked][p])]
    BY <1>3, <2>2 DEF After
  <2>6. Moved' = [Moved EXCEPT ![Walked] = Seqs!RemoveAt(Moved[Walked], p),
                               ![Target] = Append(Moved[Target], Moved[Walked][p])]
    BY <2>5, SameOperators
  <2>7. /\ Moved[Walked][p] = pnode /\ p \in DOMAIN Moved[Walked] /\ Position = p
    BY <1>3, <1>7, <1>8
  <2>8. Seqs!WalkStep
    BY <1>11, <1>15, <2>2, <2>6, <2>7 DEF Seqs!WalkStep
  <2> QED BY <2>4, <2>8 DEF Seqs!Next
<1>16. CASE count[pnode] # 1
  <2>1. readyed' = Null
    BY <1>11, <1>16
  <2>2. Moved' = a /\ Position' = p + 1
    BY <1>4, <1>8, <1>9, <2>1, SeenAlways DEF Seen
  <2>3. count'[a[Walked][p]] # 0
    <3>1. count'[pnode] = count[pnode] - 1
      BY <1>1, <1>11
    <3> QED BY <1>1, <1>7, <1>12, <1>16, <3>1
  <2>4. WalkAt(a, count', pnode', readyed')
    BY <1>8, <1>9, <1>10, <1>14, <2>1, <2>3 DEF WalkAt
  <2>5. ListInv'
    BY <1>4, <1>13, <2>4 DEF ListInv
  <2>6. /\ Moved[Walked][p] = pnode /\ p \in DOMAIN Moved[Walked] /\ Position = p
    BY <1>3, <1>7, <1>8
  <2>7. Moved' = Moved
    BY <1>3, <2>2
  <2>8. Seqs!WalkStep
    BY <1>11, <1>16, <2>2, <2>6, <2>7 DEF Seqs!WalkStep
  <2> QED BY <2>5, <2>8 DEF Seqs!Next
<1> QED BY <1>15, <1>16

LEMMA WalkEndStep ==
  ASSUME NEW s, Represents(mem, s), WalkAt(s, count, pnode, readyed),
         count \in [Nodes -> 0 .. MaxCount], WalkEnd
  PROVE  ListInv' /\ Seqs!Next
<1>1. /\ Walked \in Lists /\ pnode = TailOf(Walked) /\ pnode # Null
      /\ pnode' = Null /\ readyed' = Null /\ count' = count
  BY ListAssumption, Sentinels DEF WalkEnd
<1>2. PICK a : \E p \in 1 .. Len(a[Walked]) + 1 :
           /\ Represents(MoveReadyed, a) /\ Moved = a /\ Position = p
           /\ pnode = Cell(a, Walked, p)
           /\ \A i \in DOMAIN a[Walked] : count[a[Walked][i]] # 0
  BY <1>1, Standing
<1>3. PICK p \in 1 .. Len(a[Walked]) + 1 :
           /\ Represents(MoveReadyed, a) /\ Moved = a /\ Position = p
           /\ pnode = Cell(a, Walked, p)
           /\ \A i \in DOMAIN a[Walked] : count[a[Walked][i]] # 0
  BY <1>2
<1>4. Represents(mem', a)
  BY <1>3 DEF WalkEnd
<1>5. /\ a \in [Lists -> Seq(Nodes)] /\ Once(a) /\ Len(a[Walked]) \in Nat
  BY <1>1, <1>4, Lengths DEF Represents
<1>6. p = Len(a[Walked]) + 1
  <2>1. /\ p \in 0 .. Len(a[Walked]) + 1 /\ Len(a[Walked]) + 1 \in 0 .. Len(a[Walked]) + 1
        /\ Len(a[Walked]) + 1 # 0
    BY <1>5
  <2>2. Cell(a, Walked, Len(a[Walked]) + 1) = TailOf(Walked)
    BY <2>1 DEF Cell
  <2> QED BY <1>1, <1>3, <1>5, <2>1, <2>2, CellOnce
<1>7. Moved' = a /\ Position' = 0
  BY <1>1, <1>4, SeenAlways DEF Seen
<1>8. WalkAt(a, count', pnode', readyed')
  BY <1>1, <1>3 DEF WalkAt
<1>9. ListInv'
  <2>1. count' \in [Nodes -> 0 .. MaxCount]
    BY <1>1
  <2> QED BY <1>4, <1>8, <2>1 DEF ListInv
<1>10. Seqs!WalkEnd
  BY <1>1, <1>3, <1>6, <1>7 DEF Seqs!WalkEnd
<1> QED BY <1>9, <1>10 DEF Seqs!Next

LEMMA StutterStep ==
  ASSUME NEW s, Represents(mem, s), WalkAt(s, count, pnode, readyed),
         count \in [Nodes -> 0 .. MaxCount], UNCHANGED vars
  PROVE  ListInv' /\ UNCHANGED SpecVars
<1>1. mem' = mem /\ count' = count /\ pnode' = pnode /\ readyed' = readyed
  BY DEF vars
<1>2. Represents(mem', s) /\ WalkAt(s, count', pnode', readyed')
  BY <1>1
<1>3. ListInv'
  BY <1>1, <1>2 DEF ListInv
<1>4. CASE pnode = Null
  <2>1. pnode' = Null /\ readyed = Null /\ readyed' = Null
    BY <1>1, <1>4 DEF WalkAt
  <2>2. Moved = s /\ Position = 0 /\ Moved' = s /\ Position' = 0
    BY <1>2, <1>4, <2>1, AtRest
  <2> QED BY <1>1, <1>3, <2>2 DEF SpecVars
<1>5. CASE pnode # Null /\ readyed = Null
  <2>1. PICK p \in 1 .. Len(s[Walked]) + 1 : pnode = Cell(s, Walked, p)
    BY <1>5 DEF WalkAt
  <2>2. Moved = s /\ Position = p
    BY <1>5, <2>1, SeenAlways DEF Seen
  <2>3. Moved' = s /\ Position' = p
    BY <1>1, <1>2, <1>5, <2>1, SeenAlways DEF Seen
  <2> QED BY <1>1, <1>3, <2>2, <2>3 DEF SpecVars
<1>6. CASE pnode # Null /\ readyed # Null
  <2>1. PICK i \in 1 .. Len(s[Walked]) : readyed = s[Walked][i] /\ pnode = Cell(s, Walked, i + 1)
    BY <1>6 DEF WalkAt
  <2>2. Moved = After(s, i) /\ Position = i
    BY <2>1, SeenAlways DEF Seen
  <2>3. Moved' = After(s, i) /\ Position' = i
    BY <1>1, <1>2, <2>1, SeenAlways DEF Seen
  <2> QED BY <1>1, <1>3, <2>2, <2>3 DEF SpecVars
<1> QED BY <1>3, <1>4, <1>5, <1>6

LEMMA ListNext ==
  ASSUME ListInv, [Next]_vars
  PROVE  ListInv' /\ [Seqs!Next]_SpecVars
<1>1. count \in [Nodes -> 0 .. MaxCount]
  BY DEF ListInv
<1>2. PICK s : Represents(mem, s) /\ WalkAt(s, count, pnode, readyed)
  BY DEF ListInv
<1>3. CASE InsertNode
  BY <1>1, <1>2, <1>3, InsertNodeStep
<1>4. CASE DeleteNode
  BY <1>1, <1>2, <1>4, DeleteNodeStep
<1>5. CASE ResetList
  BY <1>1, <1>2, <1>5, ResetListStep
<1>6. CASE WalkBegin
  BY <1>1, <1>2, <1>6, WalkBeginStep
<1>7. CASE WalkStep
  BY <1>1, <1>2, <1>7, WalkStepStep
<1>8. CASE WalkEnd
  BY <1>1, <1>2, <1>8, WalkEndStep
<1>9. CASE UNCHANGED vars
  BY <1>1, <1>2, <1>9, StutterStep
<1> QED BY <1>3, <1>4, <1>5, <1>6, <1>7, <1>8, <1>9 DEF Next

LEMMA ListInit ==
  ASSUME Init
  PROVE  ListInv /\ Seqs!Init
<1> DEFINE s == [l \in Lists |-> <<>>]
<1>1. s \in [Lists -> Seq(Nodes)] /\ \A l \in Lists : s[l] = <<>> /\ Len(s[l]) = 0
  OBVIOUS
<1>2. mem \in Memories
  BY Sentinels DEF Init, Memories, Heads, Tails, HeadOf, TailOf, Cells
<1>3. ASSUME NEW l \in Lists PROVE Chained(mem, s, l)
  <2>1. /\ HeadOf(l) \in Cells /\ TailOf(l) \in Cells
        /\ HeadOf(l) \in Heads /\ TailOf(l) \in Tails
        /\ HeadOf(l) \notin Tails /\ TailOf(l) \notin Heads
        /\ HeadOf(l)[2] = l /\ TailOf(l)[2] = l
    BY DEF Heads, Tails, HeadOf, TailOf, Cells
  <2>2. /\ mem.next[HeadOf(l)] = TailOf(l) /\ mem.prev[HeadOf(l)] = Null
        /\ mem.prev[TailOf(l)] = HeadOf(l) /\ mem.next[TailOf(l)] = Null
    BY <2>1 DEF Init
  <2>3. ASSUME NEW i \in 0 .. Len(s[l])
        PROVE  i = 0 /\ Cell(s, l, i) = HeadOf(l) /\ Cell(s, l, i + 1) = TailOf(l)
    <3>1. i = 0
      BY <1>1
    <3> HIDE DEF s
    <3> QED BY <1>1, <3>1 DEF Cell
  <2> QED BY <2>2, <2>3 DEF Chained
<1>4. Once(s)
  BY <1>1 DEF Once
<1>5. pnode = Null /\ readyed = Null /\ count = [n \in Nodes |-> 0] /\ MaxCount \in Nat
      /\ Walked \in Lists
  BY ListAssumption DEF Init
<1>6. count \in [Nodes -> 0 .. MaxCount]
  BY <1>5
<1>7. WalkAt(s, count, pnode, readyed)
  BY <1>1, <1>5 DEF WalkAt
<1>8. Represents(mem, s)
  BY <1>1, <1>2, <1>3, <1>4 DEF Represents
<1>9. Moved = s /\ Position = 0
  <2> HIDE DEF s
  <2> QED BY <1>5, <1>8, SeenAlways DEF Seen
<1>10. Seqs!Init
  BY <1>5, <1>9 DEF Seqs!Init
<1> QED BY <1>6, <1>7, <1>8, <1>10 DEF ListInv

LEMMA ListInvAlways == Spec => []ListInv
<1>1. Init => ListInv
  BY ListInit
<1>2. ListInv /\ [Next]_vars => ListInv'
  BY ListNext
<1> QED BY <1>1, <1>2, PTL DEF Spec

\* Type correctness: the fields always hold cells or NULL, and the walk of
\* advance_time_tick always stands on the tail or on a node that is on
\* delayed_list, never on the node it has just moved.
THEOREM TypeCorrect == Spec => []TypeOK
<1>1. ASSUME ListInv PROVE TypeOK
  <2>1. PICK s : Represents(mem, s) /\ WalkAt(s, count, pnode, readyed)
    BY <1>1 DEF ListInv
  <2>2. /\ s \in [Lists -> Seq(Nodes)] /\ Contents(Walked) = s[Walked] /\ Walked \in Lists
        /\ Len(s[Walked]) \in Nat /\ DOMAIN s[Walked] = 1 .. Len(s[Walked])
        /\ \A i \in 1 .. Len(s[Walked]) : s[Walked][i] \in Nodes
    BY <2>1, ContentsAre, ListAssumption, Lengths DEF Represents
  <2>3. mem \in Memories /\ count \in [Nodes -> 0 .. MaxCount]
    BY <1>1, <2>1 DEF ListInv, Represents
  <2>4. readyed \in Nodes \cup {Null}
    BY <2>1, <2>2 DEF WalkAt
  <2>5. ASSUME pnode # Null
        PROVE  \E p \in 1 .. Len(s[Walked]) + 1 : pnode = Cell(s, Walked, p)
    <3>1. CASE readyed = Null
      BY <2>1, <2>5, <3>1 DEF WalkAt
    <3>2. CASE readyed # Null
      <4>1. PICK i \in 1 .. Len(s[Walked]) : pnode = Cell(s, Walked, i + 1)
        BY <2>1, <2>5, <3>2 DEF WalkAt
      <4>2. i + 1 \in 1 .. Len(s[Walked]) + 1
        BY <2>2
      <4> QED BY <4>1, <4>2
    <3> QED BY <3>1, <3>2
  <2>6. ASSUME pnode # Null
        PROVE  \/ pnode = TailOf(Walked)
               \/ \E i \in DOMAIN Contents(Walked) : Contents(Walked)[i] = pnode
    <3>1. PICK p \in 1 .. Len(s[Walked]) + 1 : pnode = Cell(s, Walked, p)
      BY <2>5, <2>6
    <3>2. CASE p = Len(s[Walked]) + 1
      <4>1. p # 0
        BY <2>2, <3>2
      <4> QED BY <3>1, <3>2, <4>1 DEF Cell
    <3>3. CASE p \in 1 .. Len(s[Walked])
      <4>1. p # 0 /\ p # Len(s[Walked]) + 1
        BY <2>2, <3>3
      <4>2. pnode = s[Walked][p]
        BY <3>1, <4>1 DEF Cell
      <4> QED BY <2>2, <3>3, <4>2
    <3> QED BY <2>2, <3>2, <3>3
  <2> QED BY <2>3, <2>4, <2>6 DEF TypeOK, Memories
<1> QED BY <1>1, ListInvAlways, PTL

\* Through every insertion, deletion and walk the pointers form lists that
\* read the same in both directions and share no node.
THEOREM ListsAlwaysIntact == Spec => []ListsIntact
<1>1. ASSUME ListInv PROVE ListsIntact
  <2>1. PICK s : Represents(mem, s)
    BY <1>1 DEF ListInv
  <2> QED BY <2>1, RepresentedIsIntact
<1> QED BY <1>1, ListInvAlways, PTL

\* The functions of list.c implement lists as sequences, and the walk of
\* advance_time_tick, which moves a node only when it stands past it, does
\* what a walk over a sequence does that moves it at once.
THEOREM ImplementsSequences == Spec => ListSpec
<1>1. Init => Seqs!Init
  BY ListInit
<1>2. ListInv /\ [Next]_vars => [Seqs!Next]_<<Moved, count, Position>>
  BY ListNext DEF SpecVars
<1> QED BY <1>1, <1>2, ListInvAlways, PTL DEF Spec, ListSpec, Seqs!Spec
=============================================================================
