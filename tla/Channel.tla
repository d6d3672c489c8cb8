------------------------------- MODULE Channel -------------------------------
(***************************************************************************)
(* What the mailboxes and message queues promise together: messages leave  *)
(* an object in the order they were accepted there, each one into the hand *)
(* of one receiver, and that receiver's call returns it.  A receiver finds *)
(* messages stored or waits for one to be put into its hand.               *)
(***************************************************************************)
EXTENDS Naturals, Sequences

CONSTANTS Objects, Receivers, Messages, None

VARIABLES
  stored,   \* of each object, the accepted messages no receiver has, oldest first
  hand,     \* the message a receiver's pending call will return
  got       \* who received a message

Init == /\ stored \in [Objects -> {<<>>} \cup {<<m>> : m \in Messages}]
        /\ \A o, p \in Objects : o # p /\ stored[o] # <<>> => stored[o] # stored[p]
        /\ hand = [r \in Receivers |-> None]
        /\ got = [m \in Messages |-> None]

Fresh(m) == /\ got[m] = None
            /\ \A r \in Receivers : hand[r] # m
            /\ \A o \in Objects : \A i \in DOMAIN stored[o] : stored[o][i] # m

Accept(m, o) == /\ Fresh(m)
                /\ stored' = [stored EXCEPT ![o] = Append(@, m)]
                /\ UNCHANGED <<hand, got>>

\* The message goes to a receiver that waits, past an empty store.
Hand(m, o, r) == /\ Fresh(m) /\ stored[o] = <<>> /\ hand[r] = None
                 /\ hand' = [hand EXCEPT ![r] = m]
                 /\ UNCHANGED <<stored, got>>

\* A receiver takes the oldest message, to return it later or at once.
Pick(o, r) == /\ stored[o] # <<>> /\ hand[r] = None
              /\ hand' = [hand EXCEPT ![r] = Head(stored[o])]
              /\ stored' = [stored EXCEPT ![o] = Tail(@)]
              /\ UNCHANGED got

Receive(o, r) == /\ stored[o] # <<>> /\ hand[r] = None
                 /\ got' = [got EXCEPT ![Head(stored[o])] = r]
                 /\ stored' = [stored EXCEPT ![o] = Tail(@)]
                 /\ UNCHANGED hand

Return(r) == /\ hand[r] # None
             /\ got' = [got EXCEPT ![hand[r]] = r]
             /\ hand' = [hand EXCEPT ![r] = None]
             /\ UNCHANGED stored

Next == \/ \E m \in Messages, o \in Objects :
             Accept(m, o) \/ \E r \in Receivers : Hand(m, o, r)
        \/ \E o \in Objects, r \in Receivers : Pick(o, r) \/ Receive(o, r)
        \/ \E r \in Receivers : Return(r)

Spec == Init /\ [][Next]_<<stored, hand, got>>
=============================================================================
