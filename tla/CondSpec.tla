------------------------------ MODULE CondSpec ------------------------------
(***************************************************************************)
(* What bun_threading::Condition promises, without its epoch and its       *)
(* futex: a set of waiting threads and a number of wake-ups that have been *)
(* reserved for them.  A wake-up is reserved for the waiters as a group,   *)
(* whichever of them comes first takes it, it is never reserved twice for  *)
(* the same waiter, and it is always taken.                                *)
(***************************************************************************)
EXTENDS Naturals, FiniteSets

CONSTANT Threads

VARIABLES
    waiting,   \* the threads registered by wait() and not yet released
    reserved   \* wake-ups posted and not yet taken

Init == waiting = {} /\ reserved = 0

\* wait(): the caller joins the waiters while it still holds the mutex.
Join(t) ==
    /\ t \notin waiting
    /\ waiting' = waiting \cup {t}
    /\ UNCHANGED reserved

\* signal() posts one wake-up, broadcast() one for each waiter that has none.
Post(n) ==
    /\ n >= 1 /\ n <= Cardinality(waiting) - reserved
    /\ reserved' = reserved + n
    /\ UNCHANGED waiting

\* A waiter takes a wake-up and leaves.
Take(t) ==
    /\ t \in waiting /\ reserved > 0
    /\ waiting' = waiting \ {t}
    /\ reserved' = reserved - 1

\* timed_wait() gives up; it may do so only when no wake-up is posted.
GiveUp(t) ==
    /\ t \in waiting /\ reserved = 0
    /\ waiting' = waiting \ {t}
    /\ UNCHANGED reserved

Next ==
    \/ \E t \in Threads : Join(t) \/ Take(t) \/ GiveUp(t)
    \/ \E n \in 1..Cardinality(Threads) : Post(n)

SafeSpec == Init /\ [][Next]_<<waiting, reserved>>

\* Fairness: a posted wake-up does not stay on the shelf.
Spec == SafeSpec /\ WF_<<waiting, reserved>>(\E t \in Threads : Take(t))

=============================================================================
