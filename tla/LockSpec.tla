------------------------------ MODULE LockSpec ------------------------------
(***************************************************************************)
(* What bun_threading::Mutex promises its users: at any time the lock has  *)
(* at most one owner, it is handed to a thread only when it is free, and   *)
(* only its owner gives it back.  Condition, WaitGroup and the other       *)
(* primitives built on Mutex use this lock in their models.                *)
(***************************************************************************)
CONSTANTS
    Threads,   \* the threads that share the lock
    NoThread   \* the owner of a free lock

VARIABLE owner \* the thread that holds the lock, or NoThread

Init == owner = NoThread

Acquire(t) == owner = NoThread /\ owner' = t

Release(t) == owner = t /\ owner' = NoThread

Next == \E t \in Threads : Acquire(t) \/ Release(t)

Spec == Init /\ [][Next]_owner

=============================================================================
