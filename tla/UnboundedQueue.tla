--------------------------- MODULE UnboundedQueue ---------------------------
(***************************************************************************)
(* bun_threading::UnboundedQueue (src/src/threading/unbounded_queue.rs):   *)
(* the intrusive lock-free queue with many producers and one consumer      *)
(* through which other threads hand tasks to an event loop.  The module    *)
(* has the steps of its operations; BundleThread calls pop and EventLoop   *)
(* pop_batch, which is how the program uses them.                          *)
(*                                                                         *)
(* A node that the consumer was given may be pushed again at once, as the  *)
(* tasks embedded in longer-lived objects are, so a late write through a   *)
(* stale pointer would be seen.                                            *)
(***************************************************************************)
EXTENDS Integers, Sequences, SequencesExt

CONSTANTS
    Producers,  \* the threads that push
    Nodes,      \* the intrusive nodes
    Null,       \* the null pointer
    MaxPushed   \* bound: the nodes pushed in one behaviour

ASSUME NodesAssumption == Null \notin Nodes
ASSUME MaxPushedAssumption == MaxPushed \in Nat

VARIABLES
    back,     \* UnboundedQueue.back
    front,    \* UnboundedQueue.front
    next,     \* the intrusive link of every node
    ppc,      \* producer: "idle", or "link" after its swap of back
    pfirst,   \* producer: the node it pushes
    pold,     \* producer: the old back it got from the swap
    cpc,      \* consumer: where it is in pop or pop_batch
    cfirst,   \* consumer: `first`
    cnext,    \* consumer: `next_ptr` of pop, `last` of pop_batch
    taken,    \* consumer: the nodes pop_batch has walked over
    pushed,   \* history: every node pushed, in the order of the swaps
    popped    \* history: every node handed to the consumer

producer == <<ppc, pfirst, pold>>
consumer == <<cpc, cfirst, cnext, taken>>
vars == <<back, front, next, producer, consumer, pushed, popped>>

NodeOrNull == Nodes \cup {Null}

CPCs == {"idle",
         "pop_next",   \* pop: front loaded, about to load its next
         "pop_cas",    \* pop: about to move front on
         "pop_back",   \* pop: took the only node, about to clear back
         "pop_spin",   \* pop: a push came first, waits for its link
         "pop_front",  \* pop: about to store the new front
         "batch_back", \* pop_batch: took front, about to take back
         "batch_walk", \* pop_batch: walks from first to last
         "panic"}      \* a debug_assert failed

\* The nodes between the swap that pushed them and the consumer's return.
InQueue == {pushed[i] : i \in Len(popped) + 1 .. Len(pushed)}

Init ==
    /\ back = Null /\ front = Null
    /\ next = [n \in Nodes |-> Null]
    /\ ppc = [p \in Producers |-> "idle"]
    /\ pfirst = [p \in Producers |-> Null]
    /\ pold = [p \in Producers |-> Null]
    /\ cpc = "idle" /\ cfirst = Null /\ cnext = Null /\ taken = <<>>
    /\ pushed = <<>> /\ popped = <<>>

-----------------------------------------------------------------------------
(* push, which is push_batch of one node.                                  *)

\* Mutant: push does not clear the link of its node.
NotCleared(n) == next

\* The link of a node that its producer still owns.
Cleared(n) == [next EXCEPT ![n] = Null]

\* Nobody else can see the node before the swap of back.
PushSwap(p, n) ==
    /\ ppc[p] = "idle"
    /\ n \notin InQueue
    /\ Len(pushed) < MaxPushed
    /\ next' = Cleared(n)
    /\ back' = n
    /\ ppc' = [ppc EXCEPT ![p] = "link"]
    /\ pfirst' = [pfirst EXCEPT ![p] = n]
    /\ pold' = [pold EXCEPT ![p] = back]
    /\ pushed' = Append(pushed, n)
    /\ UNCHANGED <<front, consumer, popped>>

\* Hang the node behind the old back, or make it the front.
PushLink(p) ==
    /\ ppc[p] = "link"
    /\ \/ /\ pold[p] # Null
          /\ next' = [next EXCEPT ![pold[p]] = pfirst[p]]
          /\ UNCHANGED front
       \/ /\ pold[p] = Null
          /\ front' = pfirst[p]
          /\ UNCHANGED next
    /\ ppc' = [ppc EXCEPT ![p] = "idle"]
    /\ pfirst' = [pfirst EXCEPT ![p] = Null]
    /\ pold' = [pold EXCEPT ![p] = Null]
    /\ UNCHANGED <<back, consumer, pushed, popped>>

-----------------------------------------------------------------------------
(* pop                                                                     *)

Continue(l) == cpc' = l /\ UNCHANGED <<cfirst, cnext, taken, popped>>

\* Return the nodes of seq to the caller.
Return(seq) ==
    /\ popped' = popped \o seq
    /\ cpc' = "idle" /\ cfirst' = Null /\ cnext' = Null /\ taken' = <<>>

PopLoad ==
    /\ cpc = "idle"
    /\ front # Null      \* else pop returns null
    /\ cfirst' = front
    /\ cpc' = "pop_next"
    /\ UNCHANGED <<cnext, taken, popped, back, front, next, producer, pushed>>

PopNext ==
    /\ cpc = "pop_next"
    /\ cnext' = next[cfirst]
    /\ cpc' = "pop_cas"
    /\ UNCHANGED <<cfirst, taken, popped, back, front, next, producer, pushed>>

\* Mutant: pop returns its last node with back still pointing to it.
PopCasReturns ==
    /\ cpc = "pop_cas"
    /\ front = cfirst
    /\ front' = cnext
    /\ Return(<<cfirst>>)
    /\ UNCHANGED <<back, next, producer, pushed>>

\* compare_exchange_weak(first, next_ptr) succeeds: the node is the result
\* unless its next was null.
PopCas ==
    /\ cpc = "pop_cas"
    /\ front = cfirst
    /\ front' = cnext
    /\ IF cnext # Null THEN Return(<<cfirst>>) ELSE Continue("pop_back")
    /\ UNCHANGED <<back, next, producer, pushed>>

\* It fails for no reason: front is still what it was, for a push stores it
\* only when it is null, so the loop never meets the null that a second
\* consumer could store.
PopCasFails ==
    /\ cpc = "pop_cas"
    /\ front # Null
    /\ cfirst' = front
    /\ cpc' = "pop_next"
    /\ UNCHANGED <<cnext, taken, popped, front, back, next, producer, pushed>>

\* Mutant: back is swapped out, not compared, when pop takes the last node.
PopBackSwap ==
    /\ cpc = "pop_back"
    /\ back' = Null
    /\ IF back = cfirst THEN Return(<<cfirst>>)
       ELSE Continue(IF back = Null THEN "panic" ELSE "pop_spin")
    /\ UNCHANGED <<front, next, producer, pushed>>

\* The only node: clear back, unless a push has swapped it meanwhile.
PopBack ==
    /\ cpc = "pop_back"
    /\ \/ back = cfirst /\ back' = Null /\ Return(<<cfirst>>)
       \/ /\ back # cfirst
          /\ Continue(IF back = Null THEN "panic" ELSE "pop_spin")
          /\ UNCHANGED back
    /\ UNCHANGED <<front, next, producer, pushed>>

\* spin_loop until that push has stored the link.
PopSpin ==
    /\ cpc = "pop_spin"
    /\ next[cfirst] # Null
    /\ cnext' = next[cfirst]
    /\ cpc' = "pop_front"
    /\ UNCHANGED <<cfirst, taken, popped, back, front, next, producer, pushed>>

PopFront ==
    /\ cpc = "pop_front"
    /\ front' = cnext
    /\ Return(<<cfirst>>)
    /\ UNCHANGED <<back, next, producer, pushed>>

-----------------------------------------------------------------------------
(* pop_batch                                                               *)

BatchFront ==
    /\ cpc = "idle"
    /\ front # Null      \* else pop_batch returns an empty batch
    /\ cfirst' = front
    /\ front' = Null
    /\ cpc' = "batch_back"
    /\ UNCHANGED <<cnext, taken, popped, back, next, producer, pushed>>

BatchBack ==
    /\ cpc = "batch_back"
    /\ cnext' = back
    /\ back' = Null
    /\ taken' = <<cfirst>>
    /\ cpc' = IF back = Null THEN "panic" ELSE "batch_walk"
    /\ UNCHANGED <<cfirst, popped, front, next, producer, pushed>>

\* Walk to the last node; spin where a push has not stored its link yet.
BatchWalk ==
    /\ cpc = "batch_walk"
    /\ \/ Last(taken) = cnext /\ Return(taken)
       \/ /\ Last(taken) # cnext
          /\ next[Last(taken)] # Null
          /\ taken' = Append(taken, next[Last(taken)])
          /\ UNCHANGED <<cpc, cfirst, cnext, popped>>
    /\ UNCHANGED <<back, front, next, producer, pushed>>

-----------------------------------------------------------------------------

Pop == \/ PopLoad \/ PopNext \/ PopCas \/ PopCasFails
       \/ PopBack \/ PopSpin \/ PopFront
PopBatch == BatchFront \/ BatchBack \/ BatchWalk

\* The queue with any producers, and a consumer that mixes both calls.
Next == \/ \E p \in Producers : PushLink(p) \/ \E n \in Nodes : PushSwap(p, n)
        \/ Pop \/ PopBatch

Spec == Init /\ [][Next]_vars

-----------------------------------------------------------------------------
(* Properties.                                                             *)

\* The consumer gets every node exactly once, in the order in which the pushes
\* swapped back.
Fifo == IsPrefix(popped, pushed)

\* Neither assertion on back fails: while the consumer is taking a node out,
\* back is not null.
NoNullBack == cpc # "panic"

\* A producer never writes through a pointer to a node that has been handed
\* to the consumer: the node it still has to link to is in the queue.
NoStaleLink ==
    \A p \in Producers : pold[p] # Null => pold[p] \in InQueue

=============================================================================
