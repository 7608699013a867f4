------------------------------ MODULE RunQueue ------------------------------
(***************************************************************************)
(* node::Queue of the thread pool (src/src/threading/ThreadPool.rs): a     *)
(* lock-free stack that many threads push to, emptied by one consumer at a *)
(* time into a cache.  The word `stack` packs the top of the stack with    *)
(* the bits HAS_CACHE and IS_CONSUMING; `cache` is a plain cell that only  *)
(* the holder of IS_CONSUMING may touch.                                   *)
(*                                                                         *)
(* Nodes are intrusive, and may be pushed again as soon as pop() has       *)
(* returned them, so that a compare_exchange can meet a word that looks    *)
(* like the one that was loaded.                                           *)
(***************************************************************************)
EXTENDS Integers, Sequences, FiniteSets, Functions

CONSTANTS
    Threads,   \* the threads that share the queue
    NoThread,  \* nobody
    Nodes,     \* the intrusive nodes
    Null       \* the null pointer

ASSUME NodesAssumption ==
    Null \notin Nodes /\ NoThread \notin Threads /\ IsFiniteSet(Nodes)

VARIABLES
    stack,  \* the word: [ptr, has_cache, is_consuming]
    cache,  \* Queue.cache
    next,   \* the link of every node
    pc,     \* where each thread is
    list,   \* push(): the nodes of the list that is pushed
    seen,   \* push(), try_acquire_consumer(): the word last loaded
    local   \* Consumer.cache

vars == <<stack, cache, next, pc, list, seen, local>>

PCs == {"idle",
        "cas",      \* push(): list linked to what was seen, about to exchange
        "acquired", \* try_acquire_consumer(): about to read the cache
        "pop",      \* a consumer that has not popped yet
        "hold",     \* a consumer that has popped, or found nothing
        "swap",     \* Consumer::pop(): saw a pushed list, about to take it
        "release"}  \* release_consumer(): cache stored, about to clear the bits

Consuming == {"acquired", "pop", "hold", "swap", "release"}

NodeOrNull == Nodes \cup {Null}
EmptyWord == [ptr |-> Null, has_cache |-> FALSE, is_consuming |-> FALSE]

Goto(t, l) == pc' = [pc EXCEPT ![t] = l]

\* The nodes of the chain that starts at n.
Chain(n) ==
    LET reach[k \in 0..Cardinality(Nodes)] ==
          IF k = 0 THEN {n}
          ELSE reach[k - 1] \cup {next[m] : m \in reach[k - 1] \ {Null}}
    IN  reach[Cardinality(Nodes)] \ {Null}

\* What is in the queue: the pushed nodes, and those the cell, or the local
\* variable of the consumer that has read it, stands for.
Items ==
    Chain(stack.ptr)
    \cup (UNION {Chain(local[t]) :
                   t \in {u \in Threads : pc[u] \in Consuming \ {"acquired"}}})
    \cup (UNION {IF cache # Null THEN Chain(cache) ELSE Chain(seen[t].ptr) :
                   t \in {u \in Threads : pc[u] = "acquired"}})
    \cup (IF \E t \in Threads : pc[t] \in Consuming THEN {} ELSE Chain(cache))

Init ==
    /\ stack = EmptyWord
    /\ cache = Null
    /\ next = [n \in Nodes |-> Null]
    /\ pc = [t \in Threads |-> "idle"]
    /\ list = [t \in Threads |-> <<>>]
    /\ seen = [t \in Threads |-> EmptyWord]
    /\ local = [t \in Threads |-> Null]

-----------------------------------------------------------------------------
(* push()                                                                  *)

\* The nodes nobody has: not in the queue and in no list that is pushed.
Free == Nodes \ (Items \cup UNION {{list[t][i] : i \in DOMAIN list[t]} : t \in Threads})

\* The links of a list whose last node leads to rest.
Linked(seq, rest) ==
    [n \in Nodes |->
        IF \E i \in DOMAIN seq : seq[i] = n
        THEN LET i == CHOOSE i \in DOMAIN seq : seq[i] = n
             IN  IF i = Len(seq) THEN rest ELSE seq[i + 1]
        ELSE next[n]]

\* Load the word and attach the list to the top of the stack.
Push(t, seq) ==
    /\ pc[t] = "idle"
    /\ \A i \in DOMAIN seq : seq[i] \in Free
    /\ IsInjective(seq)
    /\ list' = [list EXCEPT ![t] = seq]
    /\ seen' = [seen EXCEPT ![t] = stack]
    /\ next' = Linked(seq, stack.ptr)
    /\ Goto(t, "cas")
    /\ UNCHANGED <<stack, cache, local>>

\* Mutant: the new word loses the consumer's bits.
PushCasClears(t) ==
    /\ pc[t] = "cas" /\ stack = seen[t]
    /\ stack' = [EmptyWord EXCEPT !.ptr = list[t][1]]
    /\ list' = [list EXCEPT ![t] = <<>>]
    /\ seen' = [seen EXCEPT ![t] = EmptyWord]
    /\ Goto(t, "idle")
    /\ UNCHANGED <<cache, next, local>>

\* The exchange succeeds if the word is what was loaded, and keeps its bits.
PushCas(t) ==
    /\ pc[t] = "cas" /\ stack = seen[t]
    /\ stack' = [stack EXCEPT !.ptr = list[t][1]]
    /\ list' = [list EXCEPT ![t] = <<>>]
    /\ seen' = [seen EXCEPT ![t] = EmptyWord]
    /\ Goto(t, "idle")
    /\ UNCHANGED <<cache, next, local>>

\* Mutant: the list stays attached to the old top.
PushRetryUnlinked(t) ==
    /\ pc[t] = "cas" /\ stack # seen[t]
    /\ seen' = [seen EXCEPT ![t] = stack]
    /\ UNCHANGED <<stack, cache, next, pc, list, local>>

\* It fails: attach the list to the new top.
PushRetry(t) ==
    /\ pc[t] = "cas" /\ stack # seen[t]
    /\ seen' = [seen EXCEPT ![t] = stack]
    /\ next' = Linked(list[t], stack.ptr)
    /\ UNCHANGED <<stack, cache, pc, list, local>>

-----------------------------------------------------------------------------
(* try_acquire_consumer()                                                  *)

\* Neither Contended nor Empty: take IS_CONSUMING, and the pushed nodes too
\* when nothing is cached.
TryAcquire(t) ==
    /\ pc[t] = "idle"
    /\ ~stack.is_consuming
    /\ stack.has_cache \/ stack.ptr # Null
    /\ stack' = [ptr |-> IF stack.has_cache THEN stack.ptr ELSE Null,
                 has_cache |-> TRUE, is_consuming |-> TRUE]
    /\ seen' = [seen EXCEPT ![t] = stack]
    /\ Goto(t, "acquired")
    /\ UNCHANGED <<cache, next, list, local>>

\* Read the cell, which is now exclusively ours.
ReadCache(t) ==
    /\ pc[t] = "acquired"
    /\ local' = [local EXCEPT ![t] = IF cache # Null THEN cache ELSE seen[t].ptr]
    /\ seen' = [seen EXCEPT ![t] = EmptyWord]
    /\ Goto(t, "pop")
    /\ UNCHANGED <<stack, cache, next, list>>

-----------------------------------------------------------------------------
(* Consumer::pop()                                                         *)

PopCached(t) ==
    /\ pc[t] \in {"pop", "hold"} /\ local[t] # Null
    /\ local' = [local EXCEPT ![t] = next[local[t]]]
    /\ Goto(t, "hold")
    /\ UNCHANGED <<stack, cache, next, list, seen>>

\* Nothing cached: see whether anything has been pushed.
PopLoad(t) ==
    /\ pc[t] \in {"pop", "hold"} /\ local[t] = Null
    /\ Goto(t, IF stack.ptr = Null THEN "hold" ELSE "swap")
    /\ UNCHANGED <<stack, cache, next, list, seen, local>>

\* Take all that has been pushed and return its first node.
PopSwap(t) ==
    /\ pc[t] = "swap"
    /\ stack' = [ptr |-> Null, has_cache |-> TRUE, is_consuming |-> TRUE]
    /\ local' = [local EXCEPT ![t] = next[stack.ptr]]
    /\ Goto(t, "hold")
    /\ UNCHANGED <<cache, next, list, seen>>

-----------------------------------------------------------------------------
(* release_consumer(), when the Consumer is dropped.                       *)

\* Mutant: the cache bit goes with the consumer.
ClearedAlways(t) == [stack EXCEPT !.is_consuming = FALSE, !.has_cache = FALSE]

\* IS_CONSUMING is subtracted, and HAS_CACHE too if nothing is left.
Cleared(t) == [stack EXCEPT !.is_consuming = FALSE,
                            !.has_cache = local[t] # Null]

ReleaseStore(t) ==
    /\ pc[t] = "hold"
    /\ cache' = local[t]
    /\ Goto(t, "release")
    /\ UNCHANGED <<stack, next, list, seen, local>>

ReleaseSub(t) ==
    /\ pc[t] = "release"
    /\ stack' = Cleared(t)
    /\ local' = [local EXCEPT ![t] = Null]
    /\ Goto(t, "idle")
    /\ UNCHANGED <<cache, next, list, seen>>

-----------------------------------------------------------------------------

\* The lists that are pushed: one node, or two.
Lists == {<<n>> : n \in Nodes} \cup {<<m, n>> : m \in Nodes, n \in Nodes}

Consume(t) ==
    \/ TryAcquire(t) \/ ReadCache(t)
    \/ PopCached(t) \/ PopLoad(t) \/ PopSwap(t)
    \/ ReleaseStore(t) \/ ReleaseSub(t)

Next == \E t \in Threads :
    \/ \E seq \in Lists : Push(t, seq)
    \/ PushCas(t) \/ PushRetry(t) \/ Consume(t)

Spec == Init /\ [][Next]_vars

-----------------------------------------------------------------------------
(* Properties.                                                             *)

Words == [ptr : NodeOrNull, has_cache : BOOLEAN, is_consuming : BOOLEAN]

\* Every variable has its type.
TypeOK ==
    /\ stack \in Words
    /\ cache \in NodeOrNull
    /\ next \in [Nodes -> NodeOrNull]
    /\ pc \in [Threads -> PCs]
    /\ list \in [Threads -> Lists \cup {<<>>}]
    /\ seen \in [Threads -> Words]
    /\ local \in [Threads -> NodeOrNull]

\* IS_CONSUMING is a lock: one thread at most is the consumer and may touch the
\* unsynchronized cache, whatever pushes come between, and while it is, both
\* bits are set, so that the subtraction in release_consumer() never borrows
\* from the pointer and no assertion of pop() fails.
ConsumerIsExclusive ==
    /\ \A t, u \in Threads :
         pc[t] \in Consuming /\ pc[u] \in Consuming => t = u
    /\ stack.is_consuming <=> \E t \in Threads : pc[t] \in Consuming
    /\ stack.is_consuming => stack.has_cache

\* try_acquire_consumer() reports Empty only of a queue with nothing in it, and
\* PopSwap finds the pushed nodes that PopLoad has seen.
EmptyIsEmpty ==
    /\ (~stack.has_cache /\ stack.ptr = Null) => Items = {}
    /\ \A t \in Threads : pc[t] = "swap" => stack.ptr # Null

QS == INSTANCE QueueSpec WITH
        items <- Items,
        consumer <- IF \E t \in Threads : pc[t] \in Consuming
                    THEN CHOOSE t \in Threads : pc[t] \in Consuming
                    ELSE NoThread

\* The queue is the set of nodes that ThreadPool takes it for: a push adds its
\* nodes, a pop takes one of them out, and no other step loses, duplicates or
\* brings back a node, through cached lists, stale words and recycled nodes.
ImplementsQueue == QS!Spec

=============================================================================
