---------------------------- MODULE ThreadsProofs ----------------------------
(***************************************************************************)
(* Theorems about Threads, for every set of threads, every MAX_PRIO,       *)
(* MAX_THREAD and TIME_QUANTUM, and every set of services in use.  First,  *)
(* facts about the list operators of Scheduler: what each returns, list by *)
(* list.                                                                   *)
(***************************************************************************)
EXTENDS Threads, SequenceTheorems, TLAPS

\* The numbers of the lists are distinct: the ready lists are all below the
\* others.
LEMMA ListNumbers ==
  /\ Prios \subseteq ListIds
  /\ Delayed \in ListIds /\ Blocked \in ListIds /\ Terminated \in ListIds
  /\ Delayed \notin Prios /\ Blocked \notin Prios /\ Terminated \notin Prios
  /\ Delayed # Blocked /\ Delayed # Terminated /\ Blocked # Terminated
  /\ WaitIds \subseteq ListIds
  /\ \A l \in WaitIds : l \notin Prios /\ l # Delayed /\ l # Blocked
                          /\ l # Terminated
BY PrioAssumption, WaitAssumption
   DEF Prios, ListIds, WaitIds, Delayed, Blocked, Terminated

\* RemoveAt (used by delete_list) drops one element and keeps the others in
\* order.
LEMMA RemoveAtProperties ==
  ASSUME NEW S, NEW s \in Seq(S), NEW k \in 1 .. Len(s)
  PROVE  /\ RemoveAt(s, k) \in Seq(S)
         /\ Len(RemoveAt(s, k)) = Len(s) - 1
         /\ \A i \in 1 .. Len(s) - 1 :
              RemoveAt(s, k)[i] = IF i < k THEN s[i] ELSE s[i + 1]
<1> DEFINE a == SubSeq(s, 1, k - 1)
           b == SubSeq(s, k + 1, Len(s))
<1>1. Len(s) \in Nat /\ k \in Int /\ \A i \in 1 .. Len(s) : s[i] \in S
  BY LenProperties
<1>2. /\ a \in Seq(S)
      /\ Len(a) = k - 1
      /\ \A i \in 1 .. k - 1 : a[i] = s[i]
  <2>1. \A i \in 1 .. k - 1 : s[i] \in S
    BY <1>1
  <2>2. /\ a \in Seq(S)
        /\ Len(a) = IF 1 <= k - 1 THEN (k - 1) - 1 + 1 ELSE 0
        /\ \A i \in 1 .. (k - 1) - 1 + 1 : a[i] = s[1 + i - 1]
    BY <1>1, <2>1, SubSeqProperties
  <2> QED BY <1>1, <2>2
<1>3. /\ b \in Seq(S)
      /\ Len(b) = Len(s) - k
      /\ \A i \in 1 .. Len(s) - k : b[i] = s[k + i]
  <2>1. \A i \in k + 1 .. Len(s) : s[i] \in S
    BY <1>1
  <2>2. /\ b \in Seq(S)
        /\ Len(b) = IF k + 1 <= Len(s) THEN Len(s) - (k + 1) + 1 ELSE 0
        /\ \A i \in 1 .. Len(s) - (k + 1) + 1 : b[i] = s[(k + 1) + i - 1]
    BY <1>1, <2>1, SubSeqProperties
  <2> QED BY <1>1, <2>2
<1>4. /\ a \o b \in Seq(S)
      /\ Len(a \o b) = Len(a) + Len(b)
      /\ \A i \in 1 .. Len(a) + Len(b) :
           (a \o b)[i] = IF i <= Len(a) THEN a[i] ELSE b[i - Len(a)]
  BY <1>2, <1>3, ConcatProperties
<1>5. RemoveAt(s, k) = a \o b
  BY DEF RemoveAt
<1> HIDE DEF a, b
<1>6. Len(a) + Len(b) = Len(s) - 1
  BY <1>1, <1>2, <1>3
<1>7. ASSUME NEW i \in 1 .. Len(s) - 1
      PROVE  (a \o b)[i] = IF i < k THEN s[i] ELSE s[i + 1]
  <2>1. (a \o b)[i] = IF i <= k - 1 THEN a[i] ELSE b[i - (k - 1)]
    BY <1>2, <1>4, <1>6
  <2>2. CASE i < k
    BY <1>1, <1>2, <2>1, <2>2
  <2>3. CASE ~(i < k)
    <3>1. i - (k - 1) \in 1 .. Len(s) - k /\ k + (i - (k - 1)) = i + 1
      BY <1>1, <2>3
    <3>2. b[i - (k - 1)] = s[i + 1]
      BY <1>3, <3>1
    <3> QED BY <1>1, <2>1, <2>3, <3>2
  <2> QED BY <2>2, <2>3
<1> QED BY <1>4, <1>5, <1>6, <1>7

\* insert_back_list touches one list and puts the thread behind the others.
LEMMA InsertBackProperties ==
  ASSUME NEW L \in [ListIds -> Seq(Threads)], NEW l \in ListIds,
         NEW t \in Threads
  PROVE  /\ InsertBack(L, l, t) \in [ListIds -> Seq(Threads)]
         /\ \A m \in ListIds \ {l} : InsertBack(L, l, t)[m] = L[m]
         /\ Len(InsertBack(L, l, t)[l]) = Len(L[l]) + 1
         /\ \A i \in 1 .. Len(L[l]) : InsertBack(L, l, t)[l][i] = L[l][i]
         /\ InsertBack(L, l, t)[l][Len(L[l]) + 1] = t
<1>1. /\ Append(L[l], t) \in Seq(Threads)
      /\ Len(Append(L[l], t)) = Len(L[l]) + 1
      /\ \A i \in 1 .. Len(L[l]) : Append(L[l], t)[i] = L[l][i]
      /\ Append(L[l], t)[Len(L[l]) + 1] = t
  BY AppendProperties
<1>2. /\ InsertBack(L, l, t)[l] = Append(L[l], t)
      /\ \A m \in ListIds \ {l} : InsertBack(L, l, t)[m] = L[m]
      /\ InsertBack(L, l, t) \in [ListIds -> Seq(Threads)]
  BY <1>1 DEF InsertBack
<1> QED BY <1>1, <1>2

\* delete_front_list of a list that is not empty.
LEMMA DeleteFrontProperties ==
  ASSUME NEW L \in [ListIds -> Seq(Threads)], NEW l \in ListIds,
         L[l] # << >>
  PROVE  /\ DeleteFront(L, l) \in [ListIds -> Seq(Threads)]
         /\ \A m \in ListIds \ {l} : DeleteFront(L, l)[m] = L[m]
         /\ Len(DeleteFront(L, l)[l]) = Len(L[l]) - 1
         /\ \A i \in 1 .. Len(L[l]) - 1 : DeleteFront(L, l)[l][i] = L[l][i + 1]
         /\ Head(L[l]) \in Threads
         /\ Head(L[l]) = L[l][1]
         /\ Len(L[l]) >= 1
<1>1. /\ Head(L[l]) \in Threads
      /\ Tail(L[l]) \in Seq(Threads)
      /\ Len(Tail(L[l])) = Len(L[l]) - 1
      /\ \A i \in 1 .. Len(Tail(L[l])) : Tail(L[l])[i] = L[l][i + 1]
  BY HeadTailProperties
<1>2. /\ DeleteFront(L, l)[l] = Tail(L[l])
      /\ \A m \in ListIds \ {l} : DeleteFront(L, l)[m] = L[m]
      /\ DeleteFront(L, l) \in [ListIds -> Seq(Threads)]
  BY <1>1 DEF DeleteFront
<1>3. Head(L[l]) = L[l][1] /\ Len(L[l]) >= 1
  BY EmptySeq, LenProperties, L[l] \in Seq(Threads)
<1> QED BY <1>1, <1>2, <1>3

\* delete_list: the node's list loses the node, the others keep theirs.
LEMMA DeleteProperties ==
  ASSUME NEW L \in [ListIds -> Seq(Threads)], NEW t \in Threads
  PROVE  /\ Delete(L, t) \in [ListIds -> Seq(Threads)]
         /\ \A l \in ListIds :
              (\A i \in DOMAIN L[l] : L[l][i] # t) => Delete(L, t)[l] = L[l]
         /\ \A l \in ListIds : (\E i \in DOMAIN L[l] : L[l][i] = t) =>
              \E k \in 1 .. Len(L[l]) :
                L[l][k] = t /\ Delete(L, t)[l] = RemoveAt(L[l], k)
<1>1. ASSUME NEW l \in ListIds
      PROVE  /\ Delete(L, t)[l] \in Seq(Threads)
             /\ (\A i \in DOMAIN L[l] : L[l][i] # t) => Delete(L, t)[l] = L[l]
             /\ (\E i \in DOMAIN L[l] : L[l][i] = t) =>
                  \E k \in 1 .. Len(L[l]) :
                    L[l][k] = t /\ Delete(L, t)[l] = RemoveAt(L[l], k)
  <2>1. L[l] \in Seq(Threads) /\ DOMAIN L[l] = 1 .. Len(L[l])
    BY <1>1, LenProperties
  <2>2. CASE \E i \in DOMAIN L[l] : L[l][i] = t
    <3> DEFINE k == CHOOSE i \in DOMAIN L[l] : L[l][i] = t
    <3>1. k \in 1 .. Len(L[l]) /\ L[l][k] = t
      BY <2>1, <2>2
    <3>2. Delete(L, t)[l] = RemoveAt(L[l], k)
      BY <1>1, <2>2 DEF Delete
    <3> HIDE DEF k
    <3>3. RemoveAt(L[l], k) \in Seq(Threads)
      BY <2>1, <3>1, RemoveAtProperties
    <3> QED BY <2>2, <3>1, <3>2, <3>3
  <2>3. CASE ~ \E i \in DOMAIN L[l] : L[l][i] = t
    <3>1. Delete(L, t)[l] = L[l]
      BY <1>1, <2>3 DEF Delete
    <3> QED BY <2>1, <2>3, <3>1
  <2> QED BY <2>2, <2>3
<1>2. Delete(L, t) \in [ListIds -> Seq(Threads)]
  BY <1>1 DEF Delete
<1> QED BY <1>1, <1>2

\* K is L with t at the back of list l, and K is L without the node of t.
InsertedBack(K, L, l, t) ==
  /\ K \in [ListIds -> Seq(Threads)]
  /\ \A m \in ListIds \ {l} : K[m] = L[m]
  /\ Len(K[l]) = Len(L[l]) + 1
  /\ \A i \in 1 .. Len(L[l]) : K[l][i] = L[l][i]
  /\ K[l][Len(L[l]) + 1] = t

Deleted(K, L, t) ==
  /\ K \in [ListIds -> Seq(Threads)]
  /\ \A l \in ListIds :
       (\A i \in DOMAIN L[l] : L[l][i] # t) => K[l] = L[l]
  /\ \A l \in ListIds : (\E i \in DOMAIN L[l] : L[l][i] = t) =>
       \E k \in 1 .. Len(L[l]) : L[l][k] = t /\ K[l] = RemoveAt(L[l], k)

LEMMA InsertBackIs ==
  ASSUME NEW L \in [ListIds -> Seq(Threads)], NEW l \in ListIds, NEW t \in Threads
  PROVE  InsertedBack(InsertBack(L, l, t), L, l, t)
BY InsertBackProperties, ZenonT(40) DEF InsertedBack

LEMMA DeleteIs ==
  ASSUME NEW L \in [ListIds -> Seq(Threads)], NEW t \in Threads
  PROVE  Deleted(Delete(L, t), L, t)
BY DeleteProperties, ZenonT(40) DEF Deleted

(***************************************************************************)
(* The same operators, seen through where each thread is: On(L, t, l) says *)
(* that thread t is on list l of L, Once(L) that no node is linked twice.  *)
(***************************************************************************)

On(L, t, l) == \E i \in DOMAIN L[l] : L[l][i] = t

Once(L) ==
  \A l, m \in ListIds : \A i \in DOMAIN L[l], j \in DOMAIN L[m] :
    L[l][i] = L[m][j] => l = m /\ i = j

\* delete_list on a list that links the node, and on one that does not.
LEMMA DeleteOn ==
  ASSUME NEW L \in [ListIds -> Seq(Threads)], NEW t \in Threads, NEW l \in ListIds, On(L, t, l)
  PROVE  \E k \in 1 .. Len(L[l]) : L[l][k] = t /\ Delete(L, t)[l] = RemoveAt(L[l], k)
<1>1. Deleted(Delete(L, t), L, t)
  BY DeleteIs
<1> QED BY <1>1, Zenon DEF Deleted, On

LEMMA DeleteOff ==
  ASSUME NEW L \in [ListIds -> Seq(Threads)], NEW t \in Threads, NEW l \in ListIds, ~ On(L, t, l)
  PROVE  Delete(L, t)[l] = L[l]
<1>1. Deleted(Delete(L, t), L, t)
  BY DeleteIs
<1> QED BY <1>1, Zenon DEF Deleted, On

\* A thread that is on no list can be put at the back of any.
LEMMA InsertBackOnce ==
  ASSUME NEW L \in [ListIds -> Seq(Threads)], Once(L), NEW l \in ListIds,
         NEW t \in Threads, \A m \in ListIds : ~On(L, t, m)
  PROVE  /\ Once(InsertBack(L, l, t))
         /\ \A x \in Threads, m \in ListIds :
              On(InsertBack(L, l, t), x, m) <=> On(L, x, m) \/ (x = t /\ m = l)
<1> DEFINE K == InsertBack(L, l, t)
<1>1. /\ K \in [ListIds -> Seq(Threads)]
      /\ \A m \in ListIds \ {l} : K[m] = L[m]
      /\ Len(K[l]) = Len(L[l]) + 1
      /\ \A i \in 1 .. Len(L[l]) : K[l][i] = L[l][i]
      /\ K[l][Len(L[l]) + 1] = t
  <2>1. InsertedBack(K, L, l, t)
    BY InsertBackIs
  <2> HIDE DEF K
  <2> QED BY <2>1 DEF InsertedBack
<1> HIDE DEF K
<1>2. \A m \in ListIds : /\ DOMAIN L[m] = 1 .. Len(L[m]) /\ Len(L[m]) \in Nat
                         /\ DOMAIN K[m] = 1 .. Len(K[m]) /\ Len(K[m]) \in Nat
  BY <1>1, LenProperties
<1>3. ASSUME NEW m \in ListIds, NEW i \in DOMAIN K[m]
      PROVE  \/ i \in DOMAIN L[m] /\ K[m][i] = L[m][i]
             \/ m = l /\ i = Len(L[l]) + 1 /\ K[m][i] = t
  <2>1. CASE m # l
    BY <1>1, <2>1
  <2>2. CASE m = l
    <3>1. i \in 1 .. Len(L[l]) \/ i = Len(L[l]) + 1
      BY <1>1, <1>2, <2>2
    <3> QED BY <1>1, <1>2, <2>2, <3>1
  <2> QED BY <2>1, <2>2
<1>4. Once(K)
  <2> SUFFICES ASSUME NEW m \in ListIds, NEW n \in ListIds,
                      NEW i \in DOMAIN K[m], NEW j \in DOMAIN K[n],
                      K[m][i] = K[n][j]
               PROVE  m = n /\ i = j
    BY DEF Once
  <2>1. CASE i \in DOMAIN L[m] /\ K[m][i] = L[m][i]
    <3>1. L[m][i] # t
      BY <2>1 DEF On
    <3>2. j \in DOMAIN L[n] /\ K[n][j] = L[n][j]
      BY <1>3, <2>1, <3>1
    <3>3. L[m][i] = L[n][j]
      BY <2>1, <3>2
    <3> QED BY <2>1, <3>2, <3>3 DEF Once
  <2>2. CASE m = l /\ i = Len(L[l]) + 1 /\ K[m][i] = t
    <3>1. ~(j \in DOMAIN L[n] /\ K[n][j] = L[n][j])
      BY <2>2 DEF On
    <3> QED BY <1>3, <2>2, <3>1
  <2> QED BY <1>3, <2>1, <2>2
<1>5. ASSUME NEW x \in Threads, NEW m \in ListIds
      PROVE  On(K, x, m) <=> On(L, x, m) \/ (x = t /\ m = l)
  <2>1. ASSUME On(K, x, m) PROVE On(L, x, m) \/ (x = t /\ m = l)
    BY <1>3, <2>1 DEF On
  <2>2. ASSUME On(L, x, m) PROVE On(K, x, m)
    <3>1. PICK i \in DOMAIN L[m] : L[m][i] = x
      BY <2>2 DEF On
    <3>2. i \in DOMAIN K[m] /\ K[m][i] = x
      <4>1. CASE m = l
        BY <1>1, <1>2, <3>1, <4>1, SMTT(40)
      <4>2. CASE m # l
        BY <1>1, <1>2, <3>1, <4>2
      <4> QED BY <4>1, <4>2
    <3> QED BY <3>2 DEF On
  <2>3. ASSUME x = t, m = l PROVE On(K, x, m)
    <3>1. Len(L[l]) + 1 \in DOMAIN K[l]
      BY <1>1, <1>2
    <3> QED BY <1>1, <2>3, <3>1 DEF On
  <2> QED BY <2>1, <2>2, <2>3
<1> QED BY <1>4, <1>5 DEF K

\* K is L without the node at position k of list l.
Without(K, L, l, k) ==
  /\ \A m \in ListIds \ {l} : K[m] = L[m]
  /\ Len(K[l]) = Len(L[l]) - 1
  /\ \A i \in 1 .. Len(L[l]) - 1 :
       K[l][i] = IF i < k THEN L[l][i] ELSE L[l][i + 1]

\* Taking one node out of list l leaves every other node where it was.
LEMMA RemoveOnce ==
  ASSUME NEW L \in [ListIds -> Seq(Threads)], Once(L), NEW l \in ListIds,
         NEW k \in 1 .. Len(L[l]), NEW K \in [ListIds -> Seq(Threads)],
         Without(K, L, l, k)
  PROVE  /\ Once(K)
         /\ \A x \in Threads, m \in ListIds :
              On(K, x, m) <=> On(L, x, m) /\ x # L[l][k]
<1>1. \A m \in ListIds : /\ DOMAIN L[m] = 1 .. Len(L[m]) /\ Len(L[m]) \in Nat
                         /\ DOMAIN K[m] = 1 .. Len(K[m]) /\ Len(K[m]) \in Nat
  BY LenProperties
<1> USE DEF Without
<1> DEFINE pos(m, i) == IF m = l /\ i >= k THEN i + 1 ELSE i
<1>2. ASSUME NEW m \in ListIds, NEW i \in DOMAIN K[m]
      PROVE  /\ pos(m, i) \in DOMAIN L[m]
             /\ K[m][i] = L[m][pos(m, i)]
             /\ ~(m = l /\ pos(m, i) = k)
  <2>1. CASE m = l
    BY <1>1, <2>1
  <2>2. CASE m # l
    BY <1>1, <2>2
  <2> QED BY <2>1, <2>2
<1>3. ASSUME NEW m \in ListIds, NEW i \in DOMAIN K[m], NEW j \in DOMAIN K[m],
             pos(m, i) = pos(m, j)
      PROVE  i = j
  BY <1>1, <1>3
<1>4. k \in DOMAIN L[l]
  BY <1>1
<1>5. Once(K)
  <2> SUFFICES ASSUME NEW m \in ListIds, NEW n \in ListIds,
                      NEW i \in DOMAIN K[m], NEW j \in DOMAIN K[n],
                      K[m][i] = K[n][j]
               PROVE  m = n /\ i = j
    BY DEF Once
  <2> HIDE DEF pos
  <2>1. m = n /\ pos(m, i) = pos(n, j)
    BY <1>2 DEF Once
  <2> QED BY <1>3, <2>1
<1>6. ASSUME NEW x \in Threads, NEW m \in ListIds
      PROVE  On(K, x, m) <=> On(L, x, m) /\ x # L[l][k]
  <2>1. ASSUME On(K, x, m) PROVE On(L, x, m) /\ x # L[l][k]
    <3>1. PICK i \in DOMAIN K[m] : K[m][i] = x
      BY <2>1 DEF On
    <3>2. /\ pos(m, i) \in DOMAIN L[m] /\ x = L[m][pos(m, i)]
          /\ ~(m = l /\ pos(m, i) = k)
      BY <1>2, <3>1
    <3> HIDE DEF pos
    <3> QED BY <1>4, <3>2 DEF On, Once
  <2>2. ASSUME On(L, x, m), x # L[l][k] PROVE On(K, x, m)
    <3>1. PICK i \in DOMAIN L[m] : L[m][i] = x
      BY <2>2 DEF On
    <3>2. CASE m # l
      BY <3>1, <3>2 DEF On
    <3>3. CASE m = l /\ i < k
      <4>1. i \in 1 .. Len(L[l]) - 1 /\ DOMAIN K[l] = 1 .. Len(L[l]) - 1
        BY <1>1, <3>1, <3>3
      <4>2. K[l][i] = L[l][i]
        BY <3>3, <4>1
      <4> QED BY <3>1, <3>3, <4>1, <4>2 DEF On
    <3>4. CASE m = l /\ i > k
      <4>1. i - 1 \in 1 .. Len(L[l]) - 1 /\ ~(i - 1 < k) /\ (i - 1) + 1 = i
        BY <1>1, <3>1, <3>4
      <4>2. DOMAIN K[l] = 1 .. Len(L[l]) - 1
        BY <1>1
      <4>3. K[l][i - 1] = L[l][i]
        BY <4>1
      <4> QED BY <3>1, <3>4, <4>1, <4>2, <4>3 DEF On
    <3>5. i # k \/ m # l
      BY <2>2, <3>1
    <3> QED BY <1>1, <3>1, <3>2, <3>3, <3>4, <3>5
  <2> QED BY <2>1, <2>2
<1> QED BY <1>5, <1>6

\* delete_front_list unlinks the front node only.
LEMMA DeleteFrontOnce ==
  ASSUME NEW L \in [ListIds -> Seq(Threads)], Once(L), NEW l \in ListIds,
         L[l] # << >>
  PROVE  /\ Once(DeleteFront(L, l))
         /\ \A x \in Threads, m \in ListIds :
              On(DeleteFront(L, l), x, m) <=> On(L, x, m) /\ x # Head(L[l])
         /\ Head(L[l]) \in Threads
         /\ On(L, Head(L[l]), l)
<1> DEFINE K == DeleteFront(L, l)
<1>1. /\ K \in [ListIds -> Seq(Threads)]
      /\ \A m \in ListIds \ {l} : K[m] = L[m]
      /\ Len(K[l]) = Len(L[l]) - 1
      /\ \A i \in 1 .. Len(L[l]) - 1 : K[l][i] = L[l][i + 1]
      /\ Head(L[l]) \in Threads
      /\ Head(L[l]) = L[l][1]
      /\ Len(L[l]) >= 1
  BY DeleteFrontProperties
<1> HIDE DEF K
<1>2. DOMAIN L[l] = 1 .. Len(L[l]) /\ Len(L[l]) \in Nat
  BY LenProperties
<1>3. PICK k \in 1 .. Len(L[l]) : k = 1
  BY <1>1, <1>2
<1>4. /\ Once(K)
      /\ \A x \in Threads, m \in ListIds :
           On(K, x, m) <=> On(L, x, m) /\ x # L[l][k]
  <2>1. Without(K, L, l, k)
    BY <1>1, <1>2, <1>3 DEF Without
  <2> QED BY <1>1, <2>1, RemoveOnce, SMTT(40)
<1>5. On(L, Head(L[l]), l)
  BY <1>1, <1>2, <1>3 DEF On
<1> QED BY <1>1, <1>3, <1>4, <1>5 DEF K

\* delete_list of a node unlinks that node only.
LEMMA DeleteOnce ==
  ASSUME NEW L \in [ListIds -> Seq(Threads)], Once(L), NEW t \in Threads
  PROVE  /\ Once(Delete(L, t))
         /\ \A x \in Threads, m \in ListIds :
              On(Delete(L, t), x, m) <=> On(L, x, m) /\ x # t
<1> DEFINE K == Delete(L, t)
<1>1. /\ K \in [ListIds -> Seq(Threads)]
      /\ \A l \in ListIds : (\A i \in DOMAIN L[l] : L[l][i] # t) => K[l] = L[l]
      /\ \A l \in ListIds : (\E i \in DOMAIN L[l] : L[l][i] = t) =>
           \E k \in 1 .. Len(L[l]) : L[l][k] = t /\ K[l] = RemoveAt(L[l], k)
  <2>1. Deleted(K, L, t)
    BY DeleteIs
  <2> HIDE DEF K
  <2> QED BY <2>1, Zenon DEF Deleted
<1> HIDE DEF K
<1>2. CASE \E l \in ListIds : On(L, t, l)
  <2>1. PICK l \in ListIds : On(L, t, l)
    BY <1>2
  <2>2. PICK k \in 1 .. Len(L[l]) : L[l][k] = t /\ K[l] = RemoveAt(L[l], k)
    BY <1>1, <2>1 DEF On
  <2>3. L[l] \in Seq(Threads) /\ k \in DOMAIN L[l]
    BY LenProperties
  <2>4. \A m \in ListIds \ {l} : K[m] = L[m]
    BY <1>1, <2>2, <2>3 DEF Once
  <2>5. Without(K, L, l, k)
    BY <2>2, <2>3, <2>4, RemoveAtProperties, ZenonT(40) DEF Without
  <2>6. /\ Once(K)
        /\ \A x \in Threads, m \in ListIds :
             On(K, x, m) <=> On(L, x, m) /\ x # L[l][k]
    BY <1>1, <2>5, RemoveOnce
  <2> QED BY <2>2, <2>6 DEF K
<1>3. CASE \A l \in ListIds : ~On(L, t, l)
  <2>1. \A l \in ListIds : K[l] = L[l]
    BY <1>1, <1>3 DEF On
  <2>2. K = L
    BY <1>1, <2>1
  <2> QED BY <1>3, <2>2 DEF K
<1> QED BY <1>2, <1>3

\* A traversal that unlinks the node at position k of list l.
LEMMA RemoveAtOnce ==
  ASSUME NEW L \in [ListIds -> Seq(Threads)], Once(L), NEW l \in ListIds,
         NEW k \in 1 .. Len(L[l])
  PROVE  /\ Once([L EXCEPT ![l] = RemoveAt(@, k)])
         /\ \A x \in Threads, m \in ListIds :
              On([L EXCEPT ![l] = RemoveAt(@, k)], x, m)
                <=> On(L, x, m) /\ x # L[l][k]
<1> DEFINE K == [L EXCEPT ![l] = RemoveAt(@, k)]
<1>1. /\ RemoveAt(L[l], k) \in Seq(Threads)
      /\ Len(RemoveAt(L[l], k)) = Len(L[l]) - 1
      /\ \A i \in 1 .. Len(L[l]) - 1 :
           RemoveAt(L[l], k)[i] = IF i < k THEN L[l][i] ELSE L[l][i + 1]
  BY RemoveAtProperties
<1>2. /\ K \in [ListIds -> Seq(Threads)]
      /\ K[l] = RemoveAt(L[l], k)
      /\ \A m \in ListIds \ {l} : K[m] = L[m]
  BY <1>1
<1> HIDE DEF K
<1>3. Without(K, L, l, k)
  BY <1>1, <1>2 DEF Without
<1>4. /\ Once(K)
      /\ \A x \in Threads, m \in ListIds :
           On(K, x, m) <=> On(L, x, m) /\ x # L[l][k]
  BY <1>2, <1>3, RemoveOnce
<1> QED BY <1>4 DEF K

(***************************************************************************)
(* Type correctness.  TypeOK is not inductive alone: it needs what arg     *)
(* holds inside each service, and that start_curt finds a ready thread.    *)
(***************************************************************************)

ArgOK ==
  \A t \in Threads :
    /\ pc[t] = "create" => arg[t] \in Threads
    /\ pc[t] \in {"suspend", "resume"} => arg[t] \in 0 .. MaxThread

StartOK ==
  current_thread = NoThread =>
    cursor = 0 /\ \A p \in Prios : prio_exist_flag[p] => list[p] # << >>

TInv == TypeOK /\ ArgOK /\ StartOK

LEMMA TInvInit == InitCurt => TInv
<1> SUFFICES ASSUME InitCurt PROVE TInv
  OBVIOUS
<1> USE PrioAssumption, TableAssumption, CounterAssumption, ThreadAssumption,
        WaitAssumption, ListNumbers DEF InitCurt
<1>1. MaxPrio - 1 \in Prios /\ 0 \in Prios /\ 0 \in Tids
  BY DEF Prios, Tids
<1>2. <<Idle>> \in Seq(Threads) /\ << >> \in Seq(Threads) /\ <<Idle>> # << >>
  OBVIOUS
<1>3. list \in [ListIds -> Seq(Threads)]
  BY <1>2
<1>4. list[Delayed] = << >> /\ Len(list[Delayed]) = 0
  BY <1>1
<1>5. TypeOK
  <2>1. prio_exist_flag \in [Prios -> BOOLEAN]
    OBVIOUS
  <2>2. /\ thread_table \in [Tids -> Threads \cup {NoThread}]
        /\ state \in [Threads -> States]
        /\ tid \in [Threads -> Tids]
        /\ saved_ie \in [Threads -> BOOLEAN]
        /\ pc \in [Threads -> PCs]
        /\ arg \in [Threads -> Threads \cup (0 .. MaxThread) \cup {NoThread}]
    BY <1>1 DEF States, PCs
  <2>3. prio \in [Threads -> Prios]
    BY <1>1
  <2>4. /\ time_quantum \in [Threads -> 0 .. UMax]
        /\ delayed_time \in [Threads -> 0 .. UMax]
    OBVIOUS
  <2>5. cursor \in 0 .. Len(list[Delayed]) + 1
    BY <1>4
  <2>6. current_thread \in Threads \cup {NoThread} /\ total_thread_cnt \in Int
    OBVIOUS
  <2>7. ie \in BOOLEAN
    OBVIOUS
  <2>8. fault \in Faults
    BY DEF Faults
  <2> HIDE DEF InitCurt
  <2> QED BY <1>3, <2>1, <2>2, <2>3, <2>4, <2>5, <2>6, <2>7,
            <2>8 DEF TypeOK
<1>6. ArgOK
  BY DEF ArgOK
<1>7. StartOK
  BY <1>1, <1>2 DEF StartOK
<1> QED BY <1>5, <1>6, <1>7 DEF TInv

\* A thread goes to the back of a list other than delayed_list, or of any
\* list while the tick handler is not at work.
LEMMA InsertBackTyped ==
  ASSUME TypeOK, NEW l \in ListIds, NEW t \in Threads,
         l # Delayed \/ cursor = 0,
         list' = InsertBack(list, l, t), cursor' = cursor
  PROVE  /\ list' \in [ListIds -> Seq(Threads)]
         /\ cursor' \in 0 .. Len(list'[Delayed]) + 1
<1>1. list' \in [ListIds -> Seq(Threads)]
  BY InsertBackProperties DEF TypeOK
<1>2. Len(list[Delayed]) \in Nat /\ Len(list'[Delayed]) \in Nat
  BY <1>1, ListNumbers, LenProperties DEF TypeOK
<1>3. CASE l # Delayed
  <2>1. list'[Delayed] = list[Delayed]
    <3>1. list \in [ListIds -> Seq(Threads)] /\ Delayed \in ListIds \ {l}
      BY <1>3, ListNumbers DEF TypeOK
    <3> QED BY <3>1, InsertBackProperties
  <2> QED BY <1>1, <2>1 DEF TypeOK
<1>4. CASE cursor = 0
  BY <1>1, <1>2, <1>4
<1> QED BY <1>3, <1>4

LEMMA MainCreateTInv == ASSUME TInv, MainCreate PROVE TInv'
<1> USE DEF TInv
<1>1. PICK u \in Threads, i \in Tids, p \in UserPrios :
        /\ FillStruct(u, i, p) /\ EnterTable(u, i, p)
        /\ pc' = [pc EXCEPT ![u] = "user"]
        /\ UNCHANGED <<current_thread, ie, arg, cursor, fault>>
  BY DEF MainCreate
<1>2. p \in Prios /\ p \in ListIds /\ p # Delayed
  BY CallAssumption, ListNumbers
<1>3. /\ list' \in [ListIds -> Seq(Threads)]
      /\ cursor' \in 0 .. Len(list'[Delayed]) + 1
  BY <1>1, <1>2, InsertBackTyped DEF EnterTable
<1>4. TypeOK'
  BY <1>1, <1>2, <1>3, CounterAssumption, SMTT(40)
     DEF TypeOK, FillStruct, EnterTable, States, PCs
<1>5. ArgOK'
  BY <1>1 DEF ArgOK, TypeOK
<1>6. ASSUME NEW q \in Prios, prio_exist_flag'[q]
      PROVE  list'[q] # << >>
  <2>1. CASE q = p
    <3>1. list'[p] = Append(list[p], u)
      BY <1>1, <1>2 DEF EnterTable, InsertBack, TypeOK
    <3>2. list[p] \in Seq(Threads)
      BY <1>2 DEF TypeOK
    <3>3. Append(list[p], u) # << >>
      BY <3>2, AppendProperties
    <3> QED BY <2>1, <3>1, <3>3
  <2>2. CASE q # p
    <3>1. prio_exist_flag[q] /\ list'[q] = list[q]
      BY <1>1, <1>2, <1>6, <2>2, ListNumbers
         DEF EnterTable, InsertBack, TypeOK
    <3> QED BY <3>1 DEF StartOK, MainCreate
  <2> QED BY <2>1, <2>2
<1>7. StartOK'
  BY <1>1, <1>6 DEF StartOK, MainCreate
<1> QED BY <1>4, <1>5, <1>7

LEMMA StartCurtTInv == ASSUME TInv, StartCurt PROVE TInv'
<1> USE DEF TInv
<1>1. PICK top \in Prios :
        /\ IsTopPrio(top)
        /\ current_thread' = Head(list[top])
        /\ list' = DeleteFront(list, top)
        /\ prio_exist_flag' = FlagAfterPop(top)
        /\ state' = [state EXCEPT ![Head(list[top])] = "RUNNING"]
        /\ ie' = saved_ie[Head(list[top])]
        /\ UNCHANGED <<idVars, time_quantum, delayed_time, saved_ie, pc, arg,
                       cursor, fault>>
  BY DEF StartCurt
<1>2. top \in ListIds /\ top # Delayed /\ list[top] # << >>
  <2>1. top \in ListIds /\ top # Delayed
    BY ListNumbers
  <2>2. prio_exist_flag[top]
    BY <1>1, PrioAssumption DEF IsTopPrio, Prios
  <2>3. list[top] # << >>
    BY <2>2 DEF StartOK, StartCurt
  <2> QED BY <2>1, <2>3
<1>3. /\ list' \in [ListIds -> Seq(Threads)]
      /\ list'[Delayed] = list[Delayed]
      /\ Head(list[top]) \in Threads
  <2>1. list \in [ListIds -> Seq(Threads)] /\ Delayed \in ListIds \ {top}
    BY <1>2, ListNumbers DEF TypeOK
  <2> QED BY <1>1, <1>2, <2>1, DeleteFrontProperties
<1>4. prio_exist_flag' \in [Prios -> BOOLEAN]
  BY <1>1 DEF FlagAfterPop, TypeOK
<1>5. TypeOK'
  BY <1>1, <1>3, <1>4 DEF TypeOK, States, idVars
<1>6. ArgOK'
  BY <1>1 DEF ArgOK
<1>7. StartOK'
  BY <1>1, <1>3, ThreadAssumption DEF StartOK
<1> QED BY <1>5, <1>6, <1>7

\* The common part of the two cases of schedule() that switch threads.
LEMMA DispatchTyped ==
  ASSUME TInv, current_thread # NoThread, cursor \in Nat,
         NEW top \in 0 .. MaxPrio, ~NoneToPop(top), NEW e \in BOOLEAN,
         Dispatch(top, e)
  PROVE  /\ list' \in [ListIds -> Seq(Threads)]
         /\ list'[Delayed] = list[Delayed]
         /\ prio_exist_flag' \in [Prios -> BOOLEAN]
         /\ state' \in [Threads -> States]
         /\ Head(list[top]) \in Threads
         /\ current_thread' = Head(list[top])
<1> USE DEF TInv
<1> DEFINE popped == DeleteFront(list, top)
           back == InsertBack(popped, prio[current_thread], current_thread)
<1>1. top \in Prios /\ top \in ListIds /\ top # Delayed /\ list[top] # << >>
  BY PrioAssumption, ListNumbers DEF NoneToPop, Prios
<1>2. /\ popped \in [ListIds -> Seq(Threads)]
      /\ popped[Delayed] = list[Delayed]
      /\ Head(list[top]) \in Threads
  <2>1. list \in [ListIds -> Seq(Threads)] /\ Delayed \in ListIds \ {top}
    BY <1>1, ListNumbers DEF TypeOK
  <2> QED BY <1>1, <2>1, DeleteFrontProperties
<1>3. /\ current_thread \in Threads
      /\ prio[current_thread] \in Prios
      /\ prio[current_thread] \in ListIds
      /\ prio[current_thread] # Delayed
  BY ListNumbers DEF TypeOK
<1> HIDE DEF popped
<1>4. back \in [ListIds -> Seq(Threads)] /\ back[Delayed] = list[Delayed]
  <2>1. Delayed \in ListIds \ {prio[current_thread]}
    BY <1>3, ListNumbers
  <2> QED BY <1>2, <1>3, <2>1, InsertBackProperties
<1> HIDE DEF back
<1>5. list' = popped \/ list' = back
  BY DEF Dispatch, popped, back
<1>6. FlagAfterPop(top) \in [Prios -> BOOLEAN]
  BY DEF FlagAfterPop, TypeOK
<1>7. prio_exist_flag' \in [Prios -> BOOLEAN]
  BY <1>3, <1>6 DEF Dispatch
<1>8. state' \in [Threads -> States]
  BY <1>2, <1>3 DEF Dispatch, TypeOK, States
<1>9. current_thread' = Head(list[top])
  BY DEF Dispatch
<1> QED BY <1>2, <1>4, <1>5, <1>7, <1>8, <1>9

LEMMA CrashTInv == ASSUME TInv, NEW f \in Faults, Crash(f) PROVE TInv'
BY DEF TInv, TypeOK, ArgOK, StartOK, Crash, idVars

LEMMA ScheduleRequestTInv == ASSUME TInv, ScheduleRequest PROVE TInv'
<1> USE DEF TInv
<1>1. /\ current_thread \in Threads /\ current_thread # NoThread
      /\ cursor = 0 /\ cursor \in Nat
  BY DEF ScheduleRequest, TypeOK
<1>2. PICK top \in 0 .. MaxPrio :
       \/ /\ Keeps(top)
          /\ time_quantum' =
               [time_quantum EXCEPT ![current_thread] = TimeQuantum]
          /\ pc' = [pc EXCEPT ![current_thread] = "user"]
          /\ UNCHANGED <<list, prio_exist_flag, current_thread, state, ie,
                         saved_ie, idVars, delayed_time, arg, cursor, fault>>
       \/ Crash(PopFault(top))
       \/ /\ ~Keeps(top) /\ ~NoneToPop(top)
          /\ Dispatch(top, FALSE)
          /\ time_quantum' =
               [time_quantum EXCEPT ![Head(list[top])] = TimeQuantum]
          /\ pc' = [pc EXCEPT ![current_thread] = "user"]
          /\ saved_ie' = [saved_ie EXCEPT ![current_thread] = ie]
          /\ ie' = saved_ie'[Head(list[top])]
          /\ UNCHANGED <<idVars, delayed_time, arg, cursor, fault>>
  BY DEF ScheduleRequest
<1>3. CASE /\ Keeps(top)
           /\ time_quantum' =
                [time_quantum EXCEPT ![current_thread] = TimeQuantum]
           /\ pc' = [pc EXCEPT ![current_thread] = "user"]
           /\ UNCHANGED <<list, prio_exist_flag, current_thread, state, ie,
                          saved_ie, idVars, delayed_time, arg, cursor, fault>>
  BY <1>1, <1>3, CounterAssumption
     DEF TypeOK, ArgOK, StartOK, PCs, idVars
<1>4. CASE Crash(PopFault(top))
  BY <1>4, CrashTInv DEF PopFault, Faults
<1>5. CASE /\ ~Keeps(top) /\ ~NoneToPop(top)
           /\ Dispatch(top, FALSE)
           /\ time_quantum' =
                [time_quantum EXCEPT ![Head(list[top])] = TimeQuantum]
           /\ pc' = [pc EXCEPT ![current_thread] = "user"]
           /\ saved_ie' = [saved_ie EXCEPT ![current_thread] = ie]
           /\ ie' = saved_ie'[Head(list[top])]
           /\ UNCHANGED <<idVars, delayed_time, arg, cursor, fault>>
  <2>1. /\ list' \in [ListIds -> Seq(Threads)]
        /\ list'[Delayed] = list[Delayed]
        /\ prio_exist_flag' \in [Prios -> BOOLEAN]
        /\ state' \in [Threads -> States]
        /\ Head(list[top]) \in Threads
        /\ current_thread' = Head(list[top])
    BY <1>1, <1>5, DispatchTyped
  <2>2. TypeOK'
    <3>1. saved_ie' \in [Threads -> BOOLEAN]
      BY <1>1, <1>5 DEF TypeOK
    <3>2. ie' \in BOOLEAN
      BY <1>5, <2>1, <3>1
    <3>3. pc' \in [Threads -> PCs]
      BY <1>1, <1>5 DEF TypeOK, PCs
    <3>4. time_quantum' \in [Threads -> 0 .. UMax]
      BY <1>5, <2>1, CounterAssumption DEF TypeOK
    <3> QED BY <1>5, <2>1, <3>1, <3>2, <3>3, <3>4 DEF TypeOK, idVars
  <2>3. ArgOK'
    BY <1>1, <1>5 DEF ArgOK, TypeOK
  <2>4. StartOK'
    BY <2>1, ThreadAssumption DEF StartOK
  <2> QED BY <2>2, <2>3, <2>4
<1> QED BY <1>2, <1>3, <1>4, <1>5

LEMMA TickBeginTInv == ASSUME TInv, TickBegin PROVE TInv'
<1>1. Len(list[Delayed]) \in Nat
  BY ListNumbers, LenProperties DEF TInv, TypeOK
<1> QED BY <1>1 DEF TInv, TypeOK, ArgOK, StartOK, TickBegin, idVars

LEMMA TickStepTInv == ASSUME TInv, TickStep PROVE TInv'
<1> USE DEF TInv
<1> DEFINE t == list[Delayed][cursor]
           rest == [list EXCEPT ![Delayed] = RemoveAt(@, cursor)]
<1>1. /\ list[Delayed] \in Seq(Threads)
      /\ Len(list[Delayed]) \in Nat
      /\ cursor \in 1 .. Len(list[Delayed])
      /\ t \in Threads
  <2>1. list[Delayed] \in Seq(Threads)
    BY ListNumbers DEF TypeOK
  <2> QED BY <2>1, LenProperties DEF TickStep
<1>2. /\ delayed_time' = [delayed_time EXCEPT ![t] = Decrement(@)]
      /\ delayed_time' \in [Threads -> 0 .. UMax]
  <2>1. delayed_time' = [delayed_time EXCEPT ![t] = Decrement(@)]
    BY <1>1 DEF TickStep
  <2>2. delayed_time \in [Threads -> 0 .. UMax]
    BY DEF TypeOK
  <2>3. Decrement(delayed_time[t]) \in 0 .. UMax
    BY <1>1, <2>2, CounterAssumption DEF Decrement
  <2> QED BY <2>1, <2>2, <2>3
<1>3. UNCHANGED <<current_thread, idVars, ie, saved_ie, pc, arg, fault>>
  BY DEF TickStep
<1>4. current_thread # NoThread
  BY <1>1 DEF StartOK
<1>5. CASE /\ list' = InsertBack(rest, prio[t], t)
           /\ state' = [state EXCEPT ![t] = "READY"]
           /\ time_quantum' = [time_quantum EXCEPT ![t] = TimeQuantum]
           /\ prio_exist_flag' = [prio_exist_flag EXCEPT ![prio[t]] = TRUE]
           /\ cursor' = CursorAfterMove
  <2>1. /\ rest \in [ListIds -> Seq(Threads)]
        /\ Len(rest[Delayed]) = Len(list[Delayed]) - 1
    BY <1>1, RemoveAtProperties, ListNumbers DEF TypeOK
  <2>2. prio[t] \in Prios /\ prio[t] \in ListIds /\ Delayed \in ListIds \ {prio[t]}
    BY <1>1, ListNumbers, SMTT(40) DEF TypeOK
  <2> HIDE DEF t, rest
  <2>3. /\ list' \in [ListIds -> Seq(Threads)]
        /\ list'[Delayed] = rest[Delayed]
    <3>1. t \in Threads
      BY <1>1
    <3>2. /\ InsertBack(rest, prio[t], t) \in [ListIds -> Seq(Threads)]
          /\ InsertBack(rest, prio[t], t)[Delayed] = rest[Delayed]
      BY <2>1, <2>2, <3>1, InsertBackProperties, SMTT(40)
    <3> QED BY <1>5, <3>2
  <2>4. cursor' \in 0 .. Len(list'[Delayed]) + 1
    BY <1>1, <1>5, <2>1, <2>3 DEF CursorAfterMove
  <2>5. state' \in [Threads -> States]
    BY <1>5 DEF TypeOK, States
  <2>6. /\ time_quantum' \in [Threads -> 0 .. UMax]
        /\ prio_exist_flag' \in [Prios -> BOOLEAN]
    <3>1. time_quantum' \in [Threads -> 0 .. UMax]
      <4>1. time_quantum \in [Threads -> 0 .. UMax] /\ TimeQuantum \in 0 .. UMax
        BY CounterAssumption DEF TypeOK
      <4> QED BY <1>5, <4>1
    <3>2. prio_exist_flag' \in [Prios -> BOOLEAN]
      BY <1>5, <2>2 DEF TypeOK
    <3> QED BY <3>1, <3>2
  <2>7. TypeOK'
    BY <1>2, <1>3, <2>3, <2>4, <2>5, <2>6 DEF TypeOK, idVars
  <2> QED BY <1>3, <1>4, <2>7 DEF ArgOK, StartOK
<1>6. CASE /\ cursor' = cursor + 1
           /\ UNCHANGED <<list, state, time_quantum, prio_exist_flag>>
  <2> HIDE DEF t, rest
  <2>1. cursor' \in 0 .. Len(list'[Delayed]) + 1
    BY <1>1, <1>6
  <2>2. TypeOK'
    BY <1>2, <1>3, <1>6, <2>1 DEF TypeOK, idVars
  <2> QED BY <1>3, <1>4, <2>2 DEF ArgOK, StartOK
<1>7. IF delayed_time'[t] = 0
      THEN /\ list' = InsertBack(rest, prio[t], t)
           /\ state' = [state EXCEPT ![t] = "READY"]
           /\ time_quantum' = [time_quantum EXCEPT ![t] = TimeQuantum]
           /\ prio_exist_flag' = [prio_exist_flag EXCEPT ![prio[t]] = TRUE]
           /\ cursor' = CursorAfterMove
      ELSE /\ cursor' = cursor + 1
           /\ UNCHANGED <<list, state, time_quantum, prio_exist_flag>>
  BY DEF TickStep
<1> QED BY <1>5, <1>6, <1>7

LEMMA ScheduleExpireTInv ==
  ASSUME TInv, current_thread # NoThread, ScheduleExpire
  PROVE  TInv'
<1> USE DEF TInv
<1>1. current_thread \in Threads /\ cursor \in Nat
  BY DEF TypeOK
<1>2. PICK top \in 0 .. MaxPrio :
       \/ /\ OutranksReady(top)
          /\ time_quantum' =
               [time_quantum EXCEPT ![current_thread] = TimeQuantum]
          /\ cursor' = 0
          /\ UNCHANGED <<list, prio_exist_flag, current_thread, state, ie,
                         saved_ie, idVars, delayed_time, pc, arg, fault>>
       \/ Crash(PopFault(top))
       \/ /\ ~OutranksReady(top) /\ ~NoneToPop(top)
          /\ Dispatch(top, TRUE)
          /\ time_quantum' = [time_quantum EXCEPT
                                ![current_thread] = 0,
                                ![Head(list[top])] = TimeQuantum]
          /\ saved_ie' = [saved_ie EXCEPT ![current_thread] = ie]
          /\ ie' = saved_ie'[Head(list[top])]
          /\ cursor' = 0
          /\ UNCHANGED <<idVars, delayed_time, pc, arg, fault>>
  BY DEF ScheduleExpire
<1>3. list[Delayed] \in Seq(Threads) /\ Len(list[Delayed]) \in Nat
  BY ListNumbers, LenProperties DEF TypeOK
<1>4. CASE /\ OutranksReady(top)
           /\ time_quantum' =
                [time_quantum EXCEPT ![current_thread] = TimeQuantum]
           /\ cursor' = 0
           /\ UNCHANGED <<list, prio_exist_flag, current_thread, state, ie,
                          saved_ie, idVars, delayed_time, pc, arg, fault>>
  BY <1>3, <1>4, CounterAssumption, SMTT(40) DEF TypeOK, ArgOK, StartOK, idVars
<1>5. CASE Crash(PopFault(top))
  BY <1>5, CrashTInv DEF PopFault, Faults
<1>6. CASE /\ ~OutranksReady(top) /\ ~NoneToPop(top)
           /\ Dispatch(top, TRUE)
           /\ time_quantum' = [time_quantum EXCEPT
                                 ![current_thread] = 0,
                                 ![Head(list[top])] = TimeQuantum]
           /\ saved_ie' = [saved_ie EXCEPT ![current_thread] = ie]
           /\ ie' = saved_ie'[Head(list[top])]
           /\ cursor' = 0
           /\ UNCHANGED <<idVars, delayed_time, pc, arg, fault>>
  <2>1. /\ list' \in [ListIds -> Seq(Threads)]
        /\ list'[Delayed] = list[Delayed]
        /\ prio_exist_flag' \in [Prios -> BOOLEAN]
        /\ state' \in [Threads -> States]
        /\ Head(list[top]) \in Threads
        /\ current_thread' = Head(list[top])
    BY <1>1, <1>6, DispatchTyped
  <2>2. saved_ie' \in [Threads -> BOOLEAN]
    BY <1>1, <1>6 DEF TypeOK
  <2>3. ie' \in BOOLEAN
    BY <1>6, <2>1, <2>2
  <2>4. time_quantum' \in [Threads -> 0 .. UMax]
    <3>1. time_quantum \in [Threads -> 0 .. UMax] /\ TimeQuantum \in 0 .. UMax
          /\ 0 \in 0 .. UMax
      BY CounterAssumption DEF TypeOK
    <3> QED BY <1>1, <1>6, <2>1, <3>1
  <2>5. cursor' \in 0 .. Len(list'[Delayed]) + 1
    BY <1>3, <1>6, <2>1
  <2>6. TypeOK'
    BY <1>6, <2>1, <2>2, <2>3, <2>4, <2>5 DEF TypeOK, idVars
  <2>7. ArgOK'
    BY <1>6 DEF ArgOK
  <2>8. StartOK'
    BY <2>1, ThreadAssumption DEF StartOK
  <2> QED BY <2>6, <2>7, <2>8
<1> QED BY <1>2, <1>4, <1>5, <1>6

LEMMA TickEndTInv == ASSUME TInv, TickEnd PROVE TInv'
<1>1. list[Delayed] \in Seq(Threads) /\ Len(list[Delayed]) \in Nat
  BY ListNumbers, LenProperties DEF TInv, TypeOK
<1>2. current_thread # NoThread /\ current_thread \in Threads
  BY <1>1 DEF TInv, TypeOK, StartOK, TickEnd
<1>3. CASE ScheduleExpire
  BY <1>2, <1>3, ScheduleExpireTInv
<1>4. CASE /\ time_quantum' =
                [time_quantum EXCEPT ![current_thread] = Decrement(@)]
           /\ cursor' = 0
           /\ UNCHANGED <<list, prio_exist_flag, current_thread, state, ie,
                          saved_ie, idVars, delayed_time, pc, arg, fault>>
  <2>1. time_quantum' \in [Threads -> 0 .. UMax]
    BY <1>2, <1>4, CounterAssumption DEF TInv, TypeOK, Decrement
  <2> QED BY <1>1, <1>4, <2>1 DEF TInv, TypeOK, ArgOK, StartOK, idVars
<1> QED BY <1>3, <1>4 DEF TickEnd

LEMMA IdleLoopTInv == ASSUME TInv, IdleLoop PROVE TInv'
<1> USE DEF TInv
<1>1. /\ current_thread = Idle /\ Idle \in Threads /\ Idle # NoThread
      /\ cursor = 0
      /\ UNCHANGED <<prio_exist_flag, current_thread, state, prio,
                     time_quantum, delayed_time, tid, ie, saved_ie, arg,
                     cursor, fault>>
  BY ThreadAssumption DEF IdleLoop
<1>2. list[Delayed] \in Seq(Threads) /\ Len(list[Delayed]) \in Nat
  BY ListNumbers, LenProperties DEF TypeOK
<1>3. CASE list[Terminated] = << >>
  <2>1. /\ pc' = [pc EXCEPT ![Idle] = "sched"]
        /\ UNCHANGED <<list, thread_table, total_thread_cnt>>
    BY <1>3 DEF IdleLoop
  <2> QED BY <1>1, <1>2, <2>1 DEF TypeOK, ArgOK, StartOK, PCs
<1>4. CASE list[Terminated] # << >>
  <2> DEFINE t == Head(list[Terminated])
  <2>1. /\ list' = DeleteFront(list, Terminated)
        /\ thread_table' = [thread_table EXCEPT ![tid[t]] = NoThread]
        /\ total_thread_cnt' = total_thread_cnt - 1
        /\ pc' = [pc EXCEPT ![t] = "none", ![Idle] = "sched"]
    BY <1>4 DEF IdleLoop
  <2>2. /\ list' \in [ListIds -> Seq(Threads)]
        /\ list'[Delayed] = list[Delayed]
        /\ t \in Threads
    <3>1. /\ list \in [ListIds -> Seq(Threads)]
          /\ Terminated \in ListIds /\ Delayed \in ListIds \ {Terminated}
      BY ListNumbers DEF TypeOK
    <3> QED BY <1>4, <2>1, <3>1, DeleteFrontProperties
  <2> HIDE DEF t
  <2>3. /\ thread_table' \in [Tids -> Threads \cup {NoThread}]
        /\ total_thread_cnt' \in Int
        /\ pc' \in [Threads -> PCs]
    <3>1. thread_table' \in [Tids -> Threads \cup {NoThread}]
      BY <2>1 DEF TypeOK
    <3>2. total_thread_cnt' \in Int
      BY <2>1 DEF TypeOK
    <3>3. pc' \in [Threads -> PCs]
      BY <2>1, <2>2 DEF TypeOK, PCs
    <3> QED BY <3>1, <3>2, <3>3
  <2>4. TypeOK'
    BY <1>1, <1>2, <2>2, <2>3 DEF TypeOK
  <2>5. ArgOK'
    BY <1>1, <2>1, <2>2 DEF ArgOK, TypeOK
  <2>6. StartOK'
    BY <1>1 DEF StartOK
  <2> QED BY <2>4, <2>5, <2>6
<1> QED BY <1>3, <1>4

LEMMA CreateFillTInv == ASSUME TInv, CreateFill PROVE TInv'
<1> USE DEF TInv
<1>1. PICK u \in Threads, i \in Tids, p \in UserPrios :
        /\ FillStruct(u, i, p)
        /\ pc' = [pc EXCEPT ![Me] = "create"]
        /\ arg' = [arg EXCEPT ![Me] = u]
        /\ UNCHANGED <<list, prio_exist_flag, current_thread, thread_table,
                       total_thread_cnt, ie, cursor, fault>>
  BY DEF CreateFill
<1>2. p \in Prios
  BY CallAssumption
<1>3. Me \in Threads /\ Me # NoThread
  BY DEF CreateFill, InUser, TypeOK, Me
<1>4. /\ tid' \in [Threads -> Tids]
      /\ prio' \in [Threads -> Prios]
      /\ delayed_time' \in [Threads -> 0 .. UMax]
      /\ saved_ie' \in [Threads -> BOOLEAN]
  BY <1>1, <1>2, CounterAssumption DEF FillStruct, TypeOK
<1>5. /\ state' \in [Threads -> States]
      /\ pc' \in [Threads -> PCs]
      /\ arg' \in [Threads -> Threads \cup (0 .. MaxThread) \cup {NoThread}]
  BY <1>1 DEF FillStruct, TypeOK, States, PCs
<1>6. time_quantum' \in [Threads -> 0 .. UMax]
  <2>1. time_quantum \in [Threads -> 0 .. UMax] /\ TimeQuantum \in 0 .. UMax
    BY CounterAssumption DEF TypeOK
  <2> QED BY <1>1, <2>1 DEF FillStruct
<1>7. TypeOK'
  BY <1>1, <1>4, <1>5, <1>6 DEF TypeOK
<1>8. ArgOK'
  BY <1>1, <1>3 DEF ArgOK, TypeOK
<1>9. StartOK'
  BY <1>1, <1>3 DEF StartOK, Me
<1> QED BY <1>7, <1>8, <1>9

LEMMA CreateInsertTInv == ASSUME TInv, CreateInsert PROVE TInv'
<1> USE DEF TInv
<1> DEFINE u == arg[Me]
<1>1. /\ EnterTable(u, tid[u], prio[u])
      /\ pc' = [pc EXCEPT ![u] = "user",
                          ![Me] = IF prio[Me] > prio[u] THEN "sched"
                                                        ELSE "user"]
      /\ arg' = [arg EXCEPT ![Me] = NoThread]
      /\ UNCHANGED <<current_thread, state, prio, time_quantum, delayed_time,
                     tid, ie, saved_ie, cursor, fault>>
      /\ cursor = 0
  BY DEF CreateInsert, AtSection
<1>2. Me \in Threads /\ Me # NoThread /\ u \in Threads
  BY DEF CreateInsert, AtSection, TypeOK, ArgOK, Me
<1> HIDE DEF u
<1>3. tid[u] \in Tids /\ prio[u] \in Prios /\ prio[u] \in ListIds
  BY <1>2, ListNumbers DEF TypeOK
<1>4. /\ list' \in [ListIds -> Seq(Threads)]
      /\ cursor' \in 0 .. Len(list'[Delayed]) + 1
  BY <1>1, <1>2, <1>3, InsertBackTyped DEF EnterTable
<1>5. /\ thread_table' \in [Tids -> Threads \cup {NoThread}]
      /\ prio_exist_flag' \in [Prios -> BOOLEAN]
      /\ arg' \in [Threads -> Threads \cup (0 .. MaxThread) \cup {NoThread}]
  BY <1>1, <1>2, <1>3 DEF EnterTable, TypeOK
<1>6. total_thread_cnt' \in Int
  BY <1>1 DEF EnterTable, TypeOK
<1>7. pc' \in [Threads -> PCs]
  BY <1>1, <1>2 DEF TypeOK, PCs
<1>8. TypeOK'
  BY <1>1, <1>4, <1>5, <1>6, <1>7 DEF TypeOK
<1>9. ArgOK'
  BY <1>1, <1>2 DEF ArgOK, TypeOK
<1>10. StartOK'
  BY <1>1, <1>2 DEF StartOK, Me
<1> QED BY <1>8, <1>9, <1>10

LEMMA YieldTInv == ASSUME TInv, Yield PROVE TInv'
<1>1. Me \in Threads /\ Me # NoThread
  BY DEF TInv, Yield, InUser, TypeOK, Me
<1> QED BY <1>1 DEF TInv, TypeOK, ArgOK, StartOK, Yield, PCs, idVars, Me

\* A thread that puts itself on list l with state s.
LEMMA LeaveTyped ==
  ASSUME TInv, NEW l \in ListIds, NEW s \in States, Leave(l, s),
         current_thread # NoThread, cursor = 0,
         UNCHANGED <<prio_exist_flag, current_thread, idVars, time_quantum, ie,
                     saved_ie, arg, cursor, fault>>,
         delayed_time' \in [Threads -> 0 .. UMax]
  PROVE  TInv'
<1> USE DEF TInv
<1>1. Me \in Threads
  BY DEF TypeOK, Me
<1>2. /\ list' \in [ListIds -> Seq(Threads)]
      /\ cursor' \in 0 .. Len(list'[Delayed]) + 1
  BY <1>1, InsertBackTyped DEF Leave
<1>3. state' \in [Threads -> States] /\ pc' \in [Threads -> PCs]
  BY <1>1 DEF Leave, TypeOK, PCs
<1>4. TypeOK'
  BY <1>2, <1>3 DEF TypeOK, idVars
<1>5. ArgOK'
  BY <1>1 DEF ArgOK, TypeOK, Leave
<1>6. StartOK'
  BY DEF StartOK
<1> QED BY <1>4, <1>5, <1>6

LEMMA DelayTInv == ASSUME TInv, Delay PROVE TInv'
<1>1. PICK n \in 0 .. MaxDelay :
        delayed_time' = [delayed_time EXCEPT ![Me] = n]
  BY DEF Delay
<1>2. n \in 0 .. UMax
  BY CallAssumption, CounterAssumption
<1>3. delayed_time' \in [Threads -> 0 .. UMax]
  BY <1>1, <1>2 DEF TInv, TypeOK
<1>4. "DELAY" \in States
  BY DEF States
<1>5. Leave(Delayed, "DELAY") /\ current_thread # NoThread /\ cursor = 0
  BY DEF Delay, InUser, Me
<1>6. UNCHANGED <<prio_exist_flag, current_thread, idVars, time_quantum, ie,
                  saved_ie, arg, cursor, fault>>
  BY DEF Delay
<1> QED BY <1>3, <1>4, <1>5, <1>6, LeaveTyped, ListNumbers

LEMMA DeleteSelfTInv == ASSUME TInv, DeleteSelf PROVE TInv'
<1>1. delayed_time' \in [Threads -> 0 .. UMax]
  BY DEF DeleteSelf, TInv, TypeOK
<1>2. "TERMINATE" \in States
  BY DEF States
<1>3. Leave(Terminated, "TERMINATE") /\ current_thread # NoThread /\ cursor = 0
  BY DEF DeleteSelf, InUser, Me
<1>4. UNCHANGED <<prio_exist_flag, current_thread, idVars, time_quantum, ie,
                  saved_ie, arg, cursor, fault>>
  BY DEF DeleteSelf
<1> QED BY <1>1, <1>2, <1>3, <1>4, LeaveTyped, ListNumbers

LEMMA DeleteOtherTInv == ASSUME TInv, DeleteOther PROVE TInv'
BY DEF TInv, TypeOK, ArgOK, StartOK, DeleteOther, idVars

LEMMA CheckTidTInv ==
  ASSUME TInv, current_thread # NoThread, NEW i \in 0 .. MaxThread,
         NEW p \in {"suspend", "resume"}, CheckTid(i, p)
  PROVE  TInv'
<1> USE DEF TInv
<1>1. Me \in Threads
  BY DEF TypeOK, Me
<1>2. /\ pc' \in [Threads -> PCs]
      /\ arg' \in [Threads -> Threads \cup (0 .. MaxThread) \cup {NoThread}]
  BY <1>1 DEF CheckTid, TypeOK, PCs
<1>3. TypeOK'
  BY <1>2 DEF CheckTid, TypeOK, idVars
<1>4. ArgOK'
  BY <1>1 DEF CheckTid, ArgOK, TypeOK
<1>5. StartOK'
  BY DEF CheckTid, StartOK
<1> QED BY <1>3, <1>4, <1>5

LEMMA SuspendCheckTInv == ASSUME TInv, SuspendCheck PROVE TInv'
<1>1. current_thread # NoThread
  BY DEF SuspendCheck, InUser, Me
<1>2. PICK i \in 0 .. MaxThread : CheckTid(i, "suspend")
  <2>1. CASE CheckTid(tid[Me], "suspend")
    <3>1. tid[Me] \in 0 .. MaxThread
      BY <1>1, TableAssumption DEF TInv, TypeOK, Me, Tids
    <3> QED BY <2>1, <3>1
  <2>2. CASE \E i \in CallTids : CheckTid(i, "suspend")
    BY <2>2, CallAssumption
  <2> QED BY <2>1, <2>2 DEF SuspendCheck
<1> QED BY <1>1, <1>2, CheckTidTInv

LEMMA ResumeCheckTInv == ASSUME TInv, ResumeCheck PROVE TInv'
<1>1. current_thread # NoThread
  BY DEF ResumeCheck, InUser, Me
<1>2. PICK i \in 0 .. MaxThread : CheckTid(i, "resume")
  BY CallAssumption DEF ResumeCheck
<1> QED BY <1>1, <1>2, CheckTidTInv

\* The two services that move another thread: what their sections leave.
LEMMA SectionTyped ==
  ASSUME TInv, current_thread # NoThread, cursor = 0, cursor' = cursor,
         NEW L \in [ListIds -> Seq(Threads)], NEW l \in ListIds,
         NEW t \in Threads, NEW s \in States, NEW p \in {"user", "sched", "leave"},
         list' = InsertBack(L, l, t),
         state' = [state EXCEPT ![t] = s],
         pc' = [pc EXCEPT ![Me] = p],
         arg' = [arg EXCEPT ![Me] = NoThread],
         prio_exist_flag' \in [Prios -> BOOLEAN],
         UNCHANGED <<current_thread, idVars, time_quantum, delayed_time, ie,
                     saved_ie, fault>>
  PROVE  TInv'
<1> USE DEF TInv
<1>1. Me \in Threads
  BY DEF TypeOK, Me
<1>2. list' \in [ListIds -> Seq(Threads)]
  <2>1. InsertedBack(InsertBack(L, l, t), L, l, t)
    BY InsertBackIs
  <2>2. InsertBack(L, l, t) \in [ListIds -> Seq(Threads)]
    BY <2>1 DEF InsertedBack
  <2> QED BY <2>2
<1>3. Len(list'[Delayed]) \in Nat
  BY <1>2, ListNumbers, LenProperties
<1>4. state' \in [Threads -> States] /\ pc' \in [Threads -> PCs]
  BY <1>1 DEF TypeOK, PCs
<1>5. arg' \in [Threads -> Threads \cup (0 .. MaxThread) \cup {NoThread}]
  BY <1>1 DEF TypeOK
<1>6. TypeOK'
  BY <1>2, <1>3, <1>4, <1>5, SMTT(40) DEF TypeOK, idVars
<1>7. ArgOK'
  BY <1>1 DEF ArgOK, TypeOK
<1>8. StartOK'
  BY DEF StartOK
<1> QED BY <1>6, <1>7, <1>8

\* A service that finds nothing to do returns.
LEMMA ReturnTInv ==
  ASSUME TInv, current_thread # NoThread,
         pc' = [pc EXCEPT ![Me] = "user"],
         arg' = [arg EXCEPT ![Me] = NoThread],
         UNCHANGED <<list, prio_exist_flag, current_thread, idVars, state,
                     time_quantum, delayed_time, ie, saved_ie, cursor, fault>>
  PROVE  TInv'
<1> USE DEF TInv
<1>1. Me \in Threads
  BY DEF TypeOK, Me
<1>2. pc' \in [Threads -> PCs]
  BY <1>1 DEF TypeOK, PCs
<1>3. arg' \in [Threads -> Threads \cup (0 .. MaxThread) \cup {NoThread}]
  BY <1>1 DEF TypeOK
<1>4. TypeOK'
  BY <1>2, <1>3 DEF TypeOK, idVars
<1>5. ArgOK'
  BY <1>1 DEF ArgOK, TypeOK
<1>6. StartOK'
  BY DEF StartOK
<1> QED BY <1>4, <1>5, <1>6

\* The id a service works with names a thread, unless the service crashes.
LEMMA SectionThread ==
  ASSUME TInv, current_thread # NoThread,
         pc[Me] \in {"suspend", "resume"}, ~BadPointer(arg[Me])
  PROVE  arg[Me] \in Tids /\ thread_table[arg[Me]] \in Threads
BY DEF TInv, TypeOK, BadPointer

LEMMA SuspendSectionTInv == ASSUME TInv, SuspendSection PROVE TInv'
<1> DEFINE i == arg[Me]
           t == thread_table[i]
           L == IF tid[Me] = i THEN list ELSE Delete(list, t)
           p == IF t = Me THEN "leave" ELSE "sched"
<1>1. current_thread # NoThread /\ cursor = 0 /\ pc[Me] = "suspend"
  BY DEF SuspendSection, AtSection, Me
<1>2. CASE Crash(PointerFault(i))
  BY <1>2, CrashTInv DEF PointerFault, Faults
<1>3. CASE /\ ~BadPointer(i)
           /\ state' = [state EXCEPT ![t] = "BLOCK"]
           /\ list' = InsertBack(L, Blocked, t)
           /\ pc' = [pc EXCEPT ![Me] = p]
           /\ arg' = [arg EXCEPT ![Me] = NoThread]
           /\ UNCHANGED <<prio_exist_flag, current_thread, idVars,
                          time_quantum, delayed_time, ie, saved_ie, cursor,
                          fault>>
  <2>1. t \in Threads
    BY <1>1, <1>3, SectionThread
  <2>2. L \in [ListIds -> Seq(Threads)]
    BY <2>1, DeleteProperties DEF TInv, TypeOK
  <2>3. /\ prio_exist_flag' \in [Prios -> BOOLEAN]
        /\ UNCHANGED <<current_thread, idVars, time_quantum, delayed_time, ie,
                       saved_ie, fault>>
        /\ cursor' = cursor
    BY <1>3 DEF TInv, TypeOK
  <2>4. "BLOCK" \in States /\ p \in {"user", "sched", "leave"}
    BY DEF States
  <2> HIDE DEF t, i, L, p
  <2> QED BY <1>1, <1>3, <2>1, <2>2, <2>3, <2>4, SectionTyped, ListNumbers
<1>4. CASE /\ pc' = [pc EXCEPT ![Me] = "user"]
           /\ arg' = [arg EXCEPT ![Me] = NoThread]
           /\ UNCHANGED <<list, prio_exist_flag, current_thread, idVars, state,
                          time_quantum, delayed_time, ie, saved_ie, cursor,
                          fault>>
  BY <1>1, <1>4, ReturnTInv
<1> QED BY <1>2, <1>3, <1>4 DEF SuspendSection

LEMMA ResumeSectionTInv == ASSUME TInv, ResumeSection PROVE TInv'
<1> DEFINE i == arg[Me]
           t == thread_table[i]
           L == Delete(list, t)
<1>1. current_thread # NoThread /\ cursor = 0 /\ pc[Me] = "resume"
  BY DEF ResumeSection, AtSection, Me
<1>2. CASE Crash(PointerFault(i))
  BY <1>2, CrashTInv DEF PointerFault, Faults
<1>3. CASE /\ ~BadPointer(i)
           /\ state' = [state EXCEPT ![t] = "READY"]
           /\ list' = InsertBack(L, prio[t], t)
           /\ prio_exist_flag' = [prio_exist_flag EXCEPT ![prio[t]] = TRUE]
           /\ pc' = [pc EXCEPT ![Me] = "sched"]
           /\ arg' = [arg EXCEPT ![Me] = NoThread]
           /\ UNCHANGED <<current_thread, idVars, time_quantum, delayed_time,
                          ie, saved_ie, cursor, fault>>
  <2>1. t \in Threads
    BY <1>1, <1>3, SectionThread
  <2>2. L \in [ListIds -> Seq(Threads)]
    BY <2>1, DeleteProperties DEF TInv, TypeOK
  <2>3. prio[t] \in Prios /\ prio[t] \in ListIds
    BY <2>1, ListNumbers DEF TInv, TypeOK
  <2>4. prio_exist_flag' \in [Prios -> BOOLEAN]
    BY <1>3, <2>3 DEF TInv, TypeOK
  <2>5. /\ UNCHANGED <<current_thread, idVars, time_quantum, delayed_time, ie,
                       saved_ie, fault>>
        /\ cursor' = cursor
    BY <1>3
  <2>6. "READY" \in States
    BY DEF States
  <2> HIDE DEF t, i, L
  <2> QED BY <1>1, <1>3, <2>1, <2>2, <2>3, <2>4, <2>5, <2>6, SectionTyped
<1>4. CASE /\ pc' = [pc EXCEPT ![Me] = "user"]
           /\ arg' = [arg EXCEPT ![Me] = NoThread]
           /\ UNCHANGED <<list, prio_exist_flag, current_thread, idVars, state,
                          time_quantum, delayed_time, ie, saved_ie, cursor,
                          fault>>
  BY <1>1, <1>4, ReturnTInv
<1> QED BY <1>2, <1>3, <1>4 DEF ResumeSection

LEMMA TInvNext == TInv /\ [Next]_vars => TInv'
<1> SUFFICES ASSUME TInv, [Next]_vars PROVE TInv'
  OBVIOUS
<1>1. CASE UNCHANGED vars
  BY <1>1 DEF TInv, TypeOK, ArgOK, StartOK, vars
<1>2. CASE Next
  <2>1. CASE MainCreate
    BY <2>1, MainCreateTInv
  <2>2. CASE StartCurt
    BY <2>2, StartCurtTInv
  <2>3. CASE Tick
    BY <2>3, TickBeginTInv, TickStepTInv, TickEndTInv DEF Tick
  <2>4. CASE Call
    BY <2>4, YieldTInv, DelayTInv, DeleteSelfTInv, DeleteOtherTInv,
       CreateFillTInv, SuspendCheckTInv, ResumeCheckTInv DEF Call
  <2>5. CASE Section
    BY <2>5, CreateInsertTInv, SuspendSectionTInv, ResumeSectionTInv
       DEF Section
  <2>6. CASE ScheduleRequest
    BY <2>6, ScheduleRequestTInv
  <2>7. CASE IdleLoop
    BY <2>7, IdleLoopTInv
  <2>8. CASE Halted
    BY <1>1, <2>8 DEF Halted
  <2> QED BY <1>2, <2>1, <2>2, <2>3, <2>4, <2>5, <2>6, <2>7, <2>8 DEF Next
<1> QED BY <1>1, <1>2

LEMMA TInvAlways == Spec => []TInv
<1> QED BY TInvInit, TInvNext, PTL DEF Spec

\* The kernel's variables keep their types in every run: list indices,
\* priorities and thread ids stay in range, and the counters stay in a word.
THEOREM TypeCorrect == Spec => []TypeOK
<1>1. TInv => TypeOK
  BY DEF TInv
<1> QED BY <1>1, TInvAlways, PTL

(***************************************************************************)
(* prio_exist_flag covers the ready lists: by itself inductive, given the  *)
(* types.  Flagged states it of any lists and flags, so that an operation  *)
(* made of several list operators can be followed step by step.            *)
(***************************************************************************)

Flagged(L, f) == \A p \in Prios : L[p] # << >> => f[p]

LEMMA FlaggedInsert ==
  ASSUME NEW L \in [ListIds -> Seq(Threads)], NEW f \in [Prios -> BOOLEAN],
         Flagged(L, f), NEW p \in Prios, NEW t \in Threads
  PROVE  Flagged(InsertBack(L, p, t), [f EXCEPT ![p] = TRUE])
<1>1. p \in ListIds
  BY ListNumbers
<1>2. \A q \in Prios \ {p} : InsertBack(L, p, t)[q] = L[q]
  <2>1. \A q \in ListIds \ {p} : InsertBack(L, p, t)[q] = L[q]
    BY <1>1, InsertBackProperties
  <2> QED BY <2>1, ListNumbers
<1> QED BY <1>2 DEF Flagged

\* A list that is no ready list does not matter.
LEMMA FlaggedElsewhere ==
  ASSUME NEW L, NEW K, NEW f, Flagged(L, f), \A p \in Prios : K[p] = L[p]
  PROVE  Flagged(K, f)
BY DEF Flagged

LEMMA FlaggedDelete ==
  ASSUME NEW L \in [ListIds -> Seq(Threads)], NEW f, Flagged(L, f),
         NEW t \in Threads
  PROVE  Flagged(Delete(L, t), f)
<1> SUFFICES ASSUME NEW p \in Prios, Delete(L, t)[p] # << >> PROVE f[p]
  BY DEF Flagged
<1>1. p \in ListIds
  BY ListNumbers
<1>2. CASE \E i \in DOMAIN L[p] : L[p][i] = t
  <2>1. L[p] # << >>
    BY <1>2
  <2> QED BY <2>1 DEF Flagged
<1>3. CASE \A i \in DOMAIN L[p] : L[p][i] # t
  <2>1. Delete(L, t)[p] = L[p]
    <3>1. ~ On(L, t, p)
      BY <1>3 DEF On
    <3> QED BY <1>1, <3>1, DeleteOff
  <2> QED BY <2>1 DEF Flagged
<1> QED BY <1>2, <1>3

\* schedule() and start_curt clear the flag only of a list they empty.
LEMMA FlaggedPop ==
  ASSUME TypeOK, Flagged(list, prio_exist_flag), NEW top \in Prios,
         list[top] # << >>
  PROVE  /\ Flagged(DeleteFront(list, top), FlagAfterPop(top))
         /\ FlagAfterPop(top) \in [Prios -> BOOLEAN]
<1>1. /\ top \in ListIds /\ list \in [ListIds -> Seq(Threads)]
      /\ prio_exist_flag \in [Prios -> BOOLEAN]
  BY ListNumbers DEF TypeOK
<1>2. DeleteFront(list, top)[top] = Tail(list[top])
  BY <1>1 DEF DeleteFront
<1>3. \A q \in Prios \ {top} : DeleteFront(list, top)[q] = list[q]
  BY <1>1, ListNumbers DEF DeleteFront
<1>4. /\ \A q \in Prios \ {top} : FlagAfterPop(top)[q] = prio_exist_flag[q]
      /\ Tail(list[top]) # << >> => FlagAfterPop(top) = prio_exist_flag
      /\ FlagAfterPop(top) \in [Prios -> BOOLEAN]
  BY <1>1 DEF FlagAfterPop
<1> QED BY <1>2, <1>3, <1>4 DEF Flagged

LEMMA DispatchFlagged ==
  ASSUME TypeOK, Flagged(list, prio_exist_flag), current_thread # NoThread,
         NEW top \in 0 .. MaxPrio, ~NoneToPop(top), NEW e \in BOOLEAN,
         Dispatch(top, e)
  PROVE  Flagged(list, prio_exist_flag)'
<1> DEFINE popped == DeleteFront(list, top)
           c == current_thread
<1>1. /\ top \in Prios /\ top \in ListIds /\ list[top] # << >>
      /\ list \in [ListIds -> Seq(Threads)]
  BY PrioAssumption, ListNumbers DEF NoneToPop, Prios, TypeOK
<1>2. Flagged(popped, FlagAfterPop(top)) /\ FlagAfterPop(top) \in [Prios -> BOOLEAN]
  BY <1>1, FlaggedPop
<1>3. popped \in [ListIds -> Seq(Threads)]
  BY <1>1, DeleteFrontProperties
<1>4. c \in Threads /\ prio[c] \in Prios
  BY DEF TypeOK
<1> HIDE DEF popped, c
<1>5. Flagged(InsertBack(popped, prio[c], c), [FlagAfterPop(top) EXCEPT ![prio[c]] = TRUE])
  BY <1>2, <1>3, <1>4, FlaggedInsert
<1>6. \/ list' = popped /\ prio_exist_flag' = FlagAfterPop(top)
      \/ /\ list' = InsertBack(popped, prio[c], c)
         /\ prio_exist_flag' = [FlagAfterPop(top) EXCEPT ![prio[c]] = TRUE]
  BY DEF Dispatch, popped, c
<1>7. (Flagged(list, prio_exist_flag))' <=> Flagged(list', prio_exist_flag')
  BY DEF Flagged
<1> QED BY <1>2, <1>5, <1>6, <1>7

LEMMA ReadyFlaggedNext ==
  ASSUME TInv, Flagged(list, prio_exist_flag), [Next]_vars
  PROVE  Flagged(list', prio_exist_flag')
<1> DEFINE F == Flagged(list', prio_exist_flag')
<1>1. /\ TypeOK /\ list \in [ListIds -> Seq(Threads)]
      /\ prio_exist_flag \in [Prios -> BOOLEAN]
  BY DEF TInv, TypeOK
<1>2. CASE UNCHANGED <<list, prio_exist_flag>>
  BY <1>2
\* A list other than a ready list grows.
<1>3. ASSUME NEW l \in {Delayed, Blocked, Terminated}, NEW t \in Threads,
             list' = InsertBack(list, l, t), UNCHANGED prio_exist_flag
      PROVE  F
  <2>1. l \in ListIds /\ l \notin Prios
    BY ListNumbers
  <2>2. \A p \in Prios : list'[p] = list[p]
    <3>1. \A m \in ListIds \ {l} : InsertBack(list, l, t)[m] = list[m]
      BY <1>1, <2>1, InsertBackProperties, SMTT(40)
    <3> QED BY <1>3, <2>1, <3>1, ListNumbers
  <2> QED BY <1>3, <2>2, FlaggedElsewhere
\* The scheduler switches threads.
<1>4. ASSUME current_thread # NoThread, NEW top \in 0 .. MaxPrio,
             ~NoneToPop(top), NEW e \in BOOLEAN, Dispatch(top, e)
      PROVE  F
  <2>1. Flagged(list, prio_exist_flag)'
    BY <1>1, <1>4, DispatchFlagged
  <2> QED BY <2>1 DEF Flagged
<1> HIDE DEF F
<1>5. CASE MainCreate
  <2>1. PICK u \in Threads, i \in Tids, p \in UserPrios : EnterTable(u, i, p)
    BY <1>5 DEF MainCreate
  <2>2. p \in Prios
    BY CallAssumption
  <2> QED BY <1>1, <2>1, <2>2, FlaggedInsert DEF EnterTable, F
<1>6. CASE StartCurt
  <2>1. PICK top \in Prios : /\ IsTopPrio(top)
                             /\ list' = DeleteFront(list, top)
                             /\ prio_exist_flag' = FlagAfterPop(top)
    BY <1>6 DEF StartCurt
  <2>2. prio_exist_flag[top]
    BY <2>1, PrioAssumption DEF IsTopPrio, Prios
  <2>3. list[top] # << >>
    BY <1>6, <2>2 DEF TInv, StartOK, StartCurt
  <2> QED BY <1>1, <2>1, <2>3, FlaggedPop DEF F
<1>7. CASE TickStep
  <2> DEFINE t == list[Delayed][cursor]
             cut == [list EXCEPT ![Delayed] = RemoveAt(@, cursor)]
  <2>1. t \in Threads /\ cursor \in 1 .. Len(list[Delayed])
    <3>1. list[Delayed] \in Seq(Threads) /\ cursor \in DOMAIN list[Delayed]
      BY <1>1, <1>7, ListNumbers DEF TickStep
    <3> QED BY <3>1, LenProperties
  <2>2. RemoveAt(list[Delayed], cursor) \in Seq(Threads)
    BY <1>1, <2>1, RemoveAtProperties, ListNumbers
  <2>3. /\ cut \in [ListIds -> Seq(Threads)]
        /\ \A p \in Prios : cut[p] = list[p]
    BY <1>1, <2>2, ListNumbers
  <2>4. prio[t] \in Prios
    BY <1>1, <2>1 DEF TypeOK
  <2>5. \/ UNCHANGED <<list, prio_exist_flag>>
        \/ /\ list' = InsertBack(cut, prio[t], t)
           /\ prio_exist_flag' = [prio_exist_flag EXCEPT ![prio[t]] = TRUE]
    BY <1>7 DEF TickStep
  <2> HIDE DEF t, cut
  <2>6. Flagged(cut, prio_exist_flag)
    BY <2>3, FlaggedElsewhere
  <2>7. Flagged(InsertBack(cut, prio[t], t), [prio_exist_flag EXCEPT ![prio[t]] = TRUE])
    BY <1>1, <2>1, <2>3, <2>4, <2>6, FlaggedInsert
  <2> QED BY <1>2, <2>5, <2>7 DEF F
<1>8. CASE TickEnd
  <2>1. current_thread # NoThread
    <3>1. cursor # 0
      BY <1>1, <1>8, LenProperties, ListNumbers DEF TickEnd
    <3> QED BY <3>1 DEF TInv, StartOK
  <2>2. \/ UNCHANGED <<list, prio_exist_flag>>
        \/ \E top \in 0 .. MaxPrio : ~NoneToPop(top) /\ Dispatch(top, TRUE)
    BY <1>8 DEF TickEnd, ScheduleExpire, Crash
  <2>3. ASSUME NEW top \in 0 .. MaxPrio, ~NoneToPop(top), Dispatch(top, TRUE)
        PROVE  F
    BY <1>4, <2>1, <2>3
  <2> QED BY <1>2, <2>2, <2>3 DEF F
<1>9. CASE ScheduleRequest
  <2>1. current_thread # NoThread
    BY <1>9 DEF ScheduleRequest
  <2>2. \/ UNCHANGED <<list, prio_exist_flag>>
        \/ \E top \in 0 .. MaxPrio : ~NoneToPop(top) /\ Dispatch(top, FALSE)
    BY <1>9 DEF ScheduleRequest, Crash
  <2>3. ASSUME NEW top \in 0 .. MaxPrio, ~NoneToPop(top), Dispatch(top, FALSE)
        PROVE  F
    BY <1>4, <2>1, <2>3
  <2> QED BY <1>2, <2>2, <2>3 DEF F
<1>10. CASE IdleLoop
  <2>1. CASE list[Terminated] # << >>
    <3>1. \A p \in Prios : list'[p] = list[p]
      <4>1. list' = DeleteFront(list, Terminated)
        BY <1>10, <2>1 DEF IdleLoop
      <4>2. Terminated \in ListIds
        BY ListNumbers
      <4>3. \A m \in ListIds \ {Terminated} : DeleteFront(list, Terminated)[m] = list[m]
        BY <1>1, <2>1, <4>2, DeleteFrontProperties
      <4> QED BY <4>1, <4>3, ListNumbers
    <3>2. UNCHANGED prio_exist_flag
      BY <1>10 DEF IdleLoop
    <3> QED BY <3>1, <3>2, FlaggedElsewhere DEF F
  <2> QED BY <1>2, <1>10, <2>1 DEF IdleLoop
<1>11. CASE CreateInsert
  <2>1. /\ current_thread # NoThread /\ current_thread \in Threads
        /\ pc[current_thread] = "create"
    BY <1>1, <1>11 DEF CreateInsert, AtSection, Me, TypeOK
  <2> DEFINE u == arg[current_thread]
  <2>2. u \in Threads
    BY <2>1 DEF TInv, ArgOK
  <2>3. prio[u] \in Prios
    BY <1>1, <2>2 DEF TypeOK
  <2>4. EnterTable(u, tid[u], prio[u])
    BY <1>11 DEF CreateInsert, Me
  <2> HIDE DEF u
  <2> QED BY <1>1, <2>2, <2>3, <2>4, FlaggedInsert DEF EnterTable, F
<1>12. CASE Delay \/ DeleteSelf
  <2>1. /\ current_thread # NoThread /\ UNCHANGED prio_exist_flag
        /\ \/ list' = InsertBack(list, Delayed, current_thread)
           \/ list' = InsertBack(list, Terminated, current_thread)
    BY <1>12 DEF Delay, DeleteSelf, Leave, Me, InUser
  <2>2. current_thread \in Threads
    BY <1>1, <2>1 DEF TypeOK
  <2>3. CASE list' = InsertBack(list, Delayed, current_thread)
    BY <1>3, <2>1, <2>2, <2>3 DEF F
  <2>4. CASE list' = InsertBack(list, Terminated, current_thread)
    BY <1>3, <2>1, <2>2, <2>4 DEF F
  <2> QED BY <2>1, <2>3, <2>4
<1>13. CASE SuspendSection
  <2> DEFINE t == thread_table[arg[current_thread]]
  <2>1. current_thread # NoThread /\ pc[current_thread] = "suspend"
    BY <1>13 DEF SuspendSection, AtSection, Me
  <2>2. CASE UNCHANGED <<list, prio_exist_flag>>
    BY <1>2, <2>2
  <2>3. CASE /\ ~BadPointer(arg[current_thread]) /\ UNCHANGED prio_exist_flag
             /\ \/ list' = InsertBack(list, Blocked, t)
                \/ list' = InsertBack(Delete(list, t), Blocked, t)
    <3>1. t \in Threads
      BY <2>1, <2>3, SectionThread DEF Me
    <3>2. CASE list' = InsertBack(list, Blocked, t)
      <4> HIDE DEF t
      <4> QED BY <1>3, <2>3, <3>1, <3>2 DEF F
    <3>3. CASE list' = InsertBack(Delete(list, t), Blocked, t)
      <4> HIDE DEF t
      <4>1. Delete(list, t) \in [ListIds -> Seq(Threads)]
        BY <1>1, <3>1, DeleteProperties
      <4>2. Flagged(Delete(list, t), prio_exist_flag)
        BY <1>1, <3>1, FlaggedDelete
      <4>3. \A p \in Prios : list'[p] = Delete(list, t)[p]
        <5>1. Blocked \in ListIds
          BY ListNumbers
        <5>2. \A m \in ListIds \ {Blocked} :
                InsertBack(Delete(list, t), Blocked, t)[m] = Delete(list, t)[m]
          BY <3>1, <4>1, <5>1, InsertBackProperties
        <5> QED BY <3>3, <5>2, ListNumbers
      <4> QED BY <2>3, <4>2, <4>3, FlaggedElsewhere DEF F
    <3> QED BY <2>3, <3>2, <3>3
  <2> QED BY <1>13, <2>2, <2>3 DEF SuspendSection, Crash, Me
<1>14. CASE ResumeSection
  <2> DEFINE t == thread_table[arg[current_thread]]
  <2>1. current_thread # NoThread /\ pc[current_thread] = "resume"
    BY <1>14 DEF ResumeSection, AtSection, Me
  <2>2. CASE UNCHANGED <<list, prio_exist_flag>>
    BY <1>2, <2>2
  <2>3. CASE /\ ~BadPointer(arg[current_thread])
             /\ list' = InsertBack(Delete(list, t), prio[t], t)
             /\ prio_exist_flag' = [prio_exist_flag EXCEPT ![prio[t]] = TRUE]
    <3>1. t \in Threads
      BY <2>1, <2>3, SectionThread DEF Me
    <3>2. prio[t] \in Prios
      BY <1>1, <3>1 DEF TypeOK
    <3> HIDE DEF t
    <3>3. /\ Delete(list, t) \in [ListIds -> Seq(Threads)]
          /\ Flagged(Delete(list, t), prio_exist_flag)
      BY <1>1, <3>1, DeleteProperties, FlaggedDelete
    <3> QED BY <1>1, <2>3, <3>1, <3>2, <3>3, FlaggedInsert DEF F
  <2> QED BY <1>14, <2>2, <2>3 DEF ResumeSection, Crash, Me
<1>15. CASE \/ TickBegin \/ Yield \/ DeleteOther \/ CreateFill
            \/ SuspendCheck \/ ResumeCheck \/ Halted \/ UNCHANGED vars
  BY <1>2, <1>15 DEF TickBegin, Yield, DeleteOther, CreateFill, SuspendCheck,
                     ResumeCheck, CheckTid, Halted, vars
<1> QED BY <1>5, <1>6, <1>7, <1>8, <1>9, <1>10, <1>11, <1>12, <1>13, <1>14,
           <1>15 DEF Next, Tick, Call, Section, F

\* A non-empty ready list always has its prio_exist_flag set, whatever the
\* services in use and wherever the tick comes: get_top_prio overlooks no
\* ready thread.
THEOREM FlagsCorrect == Spec => []ReadyFlagged
<1>1. InitCurt => Flagged(list, prio_exist_flag)
  <2> SUFFICES ASSUME InitCurt, NEW p \in Prios, list[p] # << >>
               PROVE  prio_exist_flag[p]
    BY DEF Flagged
  <2>1. p \in ListIds
    BY ListNumbers
  <2> QED BY <2>1 DEF InitCurt
<1>2. TInv /\ Flagged(list, prio_exist_flag) /\ [Next]_vars
        => (Flagged(list, prio_exist_flag))'
  <2>1. (Flagged(list, prio_exist_flag))' <=> Flagged(list', prio_exist_flag')
    BY DEF Flagged
  <2> QED BY <2>1, ReadyFlaggedNext
<1>3. Flagged(list, prio_exist_flag) => ReadyFlagged
  BY DEF Flagged, ReadyFlagged
<1> QED BY <1>1, <1>2, <1>3, TInvAlways, PTL DEF Spec
=============================================================================
