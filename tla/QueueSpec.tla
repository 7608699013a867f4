----------------------------- MODULE QueueSpec -----------------------------
(***************************************************************************)
(* What node::Queue of the thread pool promises, and all that module       *)
(* ThreadPool knows of it: a set of nodes to which anybody adds, and from  *)
(* which one thread at a time takes.  A thread becomes the consumer only   *)
(* of a queue that is not empty; the order of the nodes is not promised.   *)
(***************************************************************************)
CONSTANTS
    Threads,   \* the threads that share the queue
    NoThread,  \* the consumer of a queue that has none
    Nodes      \* the nodes that can be in it

VARIABLES
    items,     \* the nodes in the queue
    consumer   \* the thread that takes them

Init == items = {} /\ consumer = NoThread

Push(S) ==
    /\ S # {} /\ S \cap items = {}
    /\ items' = items \cup S
    /\ UNCHANGED consumer

Acquire(t) ==
    /\ consumer = NoThread /\ items # {}
    /\ consumer' = t
    /\ UNCHANGED items

Pop(n) ==
    /\ consumer # NoThread /\ n \in items
    /\ items' = items \ {n}
    /\ UNCHANGED consumer

Release ==
    /\ consumer # NoThread
    /\ consumer' = NoThread
    /\ UNCHANGED items

Next ==
    \/ \E S \in SUBSET Nodes : Push(S)
    \/ \E t \in Threads : Acquire(t)
    \/ \E n \in Nodes : Pop(n)
    \/ Release

Spec == Init /\ [][Next]_<<items, consumer>>

=============================================================================
