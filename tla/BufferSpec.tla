----------------------------- MODULE BufferSpec -----------------------------
(***************************************************************************)
(* What node::Buffer of the thread pool promises, and all that module      *)
(* ThreadPool knows of it: a set of at most Capacity nodes.  Its worker    *)
(* adds to it and takes from it, and thieves take up to half of it.        *)
(***************************************************************************)
EXTENDS Integers, FiniteSets

CONSTANTS
    Nodes,     \* the nodes that can be in it
    Capacity   \* node::CAPACITY

VARIABLES
    items,     \* the nodes in the buffer
    given,     \* nodes returned by pop(), consume() and steal()
    spilled    \* nodes returned as Overflow by push()

Init == items = {} /\ given = {} /\ spilled = {}

\* The nodes nobody has put into the buffer yet.
Fresh == Nodes \ (items \cup given \cup spilled)

\* push(): all of a list that fits, or a part of it.
Put(S) ==
    /\ S \subseteq Fresh /\ S # {}
    /\ Cardinality(items \cup S) <= Capacity
    /\ items' = items \cup S
    /\ UNCHANGED <<given, spilled>>

\* push() on a full buffer: half of it leaves together with the list N.
Overflow(S, N) ==
    /\ Cardinality(items) = Capacity
    /\ S \subseteq items /\ Cardinality(S) = Capacity \div 2
    /\ N \subseteq Fresh /\ N # {}
    /\ items' = items \ S
    /\ spilled' = spilled \cup S \cup N
    /\ UNCHANGED given

\* pop() takes one node, and steal() up to half of what is there, rounded up.
Take(S) ==
    /\ S \subseteq items /\ S # {}
    /\ Cardinality(S) <= Cardinality(items) - Cardinality(items) \div 2
    /\ items' = items \ S
    /\ given' = given \cup S
    /\ UNCHANGED spilled

\* consume() and the thief's side of steal(): an empty buffer gets the nodes of
\* S, and one more node n is returned.
Fill(S, n) ==
    /\ items = {}
    /\ S \cup {n} \subseteq Fresh /\ n \notin S
    /\ Cardinality(S) <= Capacity
    /\ items' = S
    /\ given' = given \cup {n}
    /\ UNCHANGED spilled

Next ==
    \/ \E S \in SUBSET Nodes : Put(S) \/ Take(S)
    \/ \E S \in SUBSET items, N \in SUBSET Fresh : Overflow(S, N)
    \/ \E S \in SUBSET Fresh, n \in Nodes : Fill(S, n)

Spec == Init /\ [][Next]_<<items, given, spilled>>

=============================================================================
