-------------------------- MODULE CountingSemaphore --------------------------
(***************************************************************************)
(* What a semaphore promises its threads: a count of tokens and the set of *)
(* threads that wait for one.  A post with a thread waiting gives the      *)
(* token to a waiter and leaves the count alone.  The count is an unsigned *)
(* number of limited width, and the post that overflows it empties it.     *)
(***************************************************************************)
EXTENDS Naturals

CONSTANTS Threads, Limit

VARIABLES value, waiting

Init == value \in 0 .. Limit /\ waiting = {}

Take == /\ value > 0
        /\ value' = value - 1
        /\ UNCHANGED waiting

Block(t) == /\ value = 0 /\ t \notin waiting
            /\ waiting' = waiting \cup {t}
            /\ UNCHANGED value

Release(t) == /\ value = 0 /\ t \in waiting
              /\ waiting' = waiting \ {t}
              /\ UNCHANGED value

Keep == /\ waiting = {}
        /\ value' = IF value = Limit THEN 0 ELSE value + 1
        /\ UNCHANGED waiting

Next == Take \/ Keep \/ \E t \in Threads : Block(t) \/ Release(t)

Spec == Init /\ [][Next]_<<value, waiting>>
=============================================================================
