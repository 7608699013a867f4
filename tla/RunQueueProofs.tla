--------------------------- MODULE RunQueueProofs ---------------------------
(***************************************************************************)
(* IS_CONSUMING of node::Queue is a lock, an empty word means an empty     *)
(* queue, and the queue is the set of nodes that QueueSpec says it is, for *)
(* any number of threads and nodes.                                        *)
(***************************************************************************)
EXTENDS RunQueue, FiniteSetTheorems, WellFoundedInduction, TLAPS

\* A push that is about to exchange has a list, and a consumer about to swap
\* has seen nodes that only it could take away.
PointersAreThere ==
    \A t \in Threads :
        /\ pc[t] = "cas" => list[t] \in Lists
        /\ pc[t] = "swap" => stack.ptr # Null

\* HAS_CACHE tells whether the cell has nodes, except while a consumer has them;
\* it has stored what it leaves before it clears the bits.
CacheIsMarked ==
    /\ ~stack.is_consuming => (stack.has_cache <=> cache # Null)
    /\ \A t \in Threads : pc[t] = "release" => cache = local[t]

IInv == TypeOK /\ ConsumerIsExclusive /\ PointersAreThere /\ CacheIsMarked

\* A list that is pushed is a sequence of one node or of two.
LEMMA ListIsSequence ==
    ASSUME NEW seq \in Lists
    PROVE  /\ seq \in Seq(Nodes) /\ Len(seq) \in 1..2
           /\ DOMAIN seq = 1..Len(seq) /\ \A i \in 1..Len(seq) : seq[i] \in Nodes
  <1>1. CASE \E n \in Nodes : seq = <<n>>
    BY <1>1
  <1>2. CASE \E m, n \in Nodes : seq = <<m, n>>
    BY <1>2
  <1> QED BY <1>1, <1>2 DEF Lists

\* Attaching a list keeps every link a node or null (push()).
LEMMA LinkedIsLink ==
    ASSUME next \in [Nodes -> NodeOrNull], NEW seq \in Lists,
           NEW rest \in NodeOrNull
    PROVE  Linked(seq, rest) \in [Nodes -> NodeOrNull]
  <1> SUFFICES ASSUME NEW n \in Nodes, \E i \in DOMAIN seq : seq[i] = n
               PROVE  LET i == CHOOSE i \in DOMAIN seq : seq[i] = n
                      IN  (IF i = Len(seq) THEN rest ELSE seq[i + 1]) \in NodeOrNull
    BY DEF Linked
  <1> DEFINE i == CHOOSE i \in DOMAIN seq : seq[i] = n
  <1>1. i \in DOMAIN seq
    OBVIOUS
  <1>2. i # Len(seq) => seq[i + 1] \in Nodes
    BY <1>1, ListIsSequence
  <1> QED BY <1>2 DEF NodeOrNull

\* A queue as Queue::default() makes it satisfies the invariant.
LEMMA InitEstablishes == Init => IInv
  BY NodesAssumption
     DEF Init, IInv, TypeOK, ConsumerIsExclusive, PointersAreThere, CacheIsMarked, EmptyWord,
         Words, NodeOrNull, PCs, Consuming

\* Every step of push(), try_acquire_consumer(), pop() and release_consumer()
\* preserves the invariant.
LEMMA StepPreserves == IInv /\ [Next]_vars => IInv'
  <1> SUFFICES ASSUME IInv, [Next]_vars PROVE IInv'
    OBVIOUS
  <1> USE DEF IInv, TypeOK, ConsumerIsExclusive, PointersAreThere, CacheIsMarked, Goto, PCs,
              Consuming, Words, EmptyWord
  <1>1. ASSUME NEW t \in Threads, NEW seq \in Lists, Push(t, seq) PROVE IInv'
    <2>1. next' \in [Nodes -> NodeOrNull]
      BY <1>1, LinkedIsLink DEF Push
    <2>2. stack' = stack
      BY <1>1 DEF Push
    <2> QED BY <1>1, <2>1, <2>2 DEF Push
  <1>2. ASSUME NEW t \in Threads, PushCas(t) PROVE IInv'
    <2>0. list[t] \in Lists
      BY <1>2 DEF PushCas
    <2>1. list[t][1] \in Nodes
      <3> HIDE DEF IInv
      <3> QED BY <2>0, ListIsSequence
    <2>2. stack' \in Words /\ stack'.is_consuming = stack.is_consuming
          /\ stack'.has_cache = stack.has_cache /\ stack'.ptr # Null
      BY <1>2, <2>1, NodesAssumption DEF PushCas, NodeOrNull
    <2> QED BY <1>2, <2>2 DEF PushCas, NodeOrNull
  <1>3. ASSUME NEW t \in Threads, PushRetry(t) PROVE IInv'
    <2>1. next' \in [Nodes -> NodeOrNull]
      BY <1>3, LinkedIsLink DEF PushRetry
    <2> QED BY <1>3, <2>1 DEF PushRetry
  <1>4. ASSUME NEW t \in Threads, TryAcquire(t) PROVE IInv'
    BY <1>4 DEF TryAcquire, NodeOrNull
  <1>5. ASSUME NEW t \in Threads, ReadCache(t) PROVE IInv'
    BY <1>5 DEF ReadCache, NodeOrNull
  <1>6. ASSUME NEW t \in Threads, PopCached(t) PROVE IInv'
    BY <1>6 DEF PopCached, NodeOrNull
  <1>7. ASSUME NEW t \in Threads, PopLoad(t) PROVE IInv'
    BY <1>7 DEF PopLoad
  <1>8. ASSUME NEW t \in Threads, PopSwap(t) PROVE IInv'
    BY <1>8 DEF PopSwap, NodeOrNull
  <1>9. ASSUME NEW t \in Threads, ReleaseStore(t) PROVE IInv'
    <2>1. stack'.is_consuming /\ \A u \in Threads : pc'[u] = "release" => u = t
      BY <1>9 DEF ReleaseStore
    <2> QED BY <1>9, <2>1 DEF ReleaseStore
  <1>10. ASSUME NEW t \in Threads, ReleaseSub(t) PROVE IInv'
    <2>1. /\ stack' \in Words /\ ~stack'.is_consuming /\ stack'.ptr = stack.ptr
          /\ stack'.has_cache <=> cache # Null
      BY <1>10 DEF ReleaseSub, Cleared, NodeOrNull
    <2>2. \A u \in Threads : pc'[u] \notin Consuming
      BY <1>10 DEF ReleaseSub
    <2> QED BY <1>10, <2>1, <2>2 DEF ReleaseSub, NodeOrNull
  <1>11. CASE UNCHANGED vars
    BY <1>11 DEF vars
  <1> QED
    BY <1>1, <1>2, <1>3, <1>4, <1>5, <1>6, <1>7, <1>8, <1>9, <1>10, <1>11
       DEF Next, Consume

\* The consumer of a run queue is alone with its cache, and its bits are set, for
\* every set of threads and nodes (ConsumerIsExclusive).
THEOREM RunQueueConsumerIsExclusive == Spec => []ConsumerIsExclusive
  <1>1. IInv => ConsumerIsExclusive
    BY DEF IInv
  <1> QED BY <1>1, InitEstablishes, StepPreserves, PTL DEF Spec

\* Every variable of the queue keeps its type, in particular no pointer that is
\* followed is null (TypeOK).
THEOREM RunQueueIsTyped == Spec => []TypeOK
  <1>1. IInv => TypeOK
    BY DEF IInv
  <1> QED BY <1>1, InitEstablishes, StepPreserves, PTL DEF Spec

\* A set of natural numbers has a least one, by which what holds of every member
\* of 0..k is shown without an induction rule.
LEMMA LeastNatural ==
    ASSUME NEW T, T \subseteq Nat, T # {}
    PROVE  \E k \in T : \A j \in T : ~(j < k)
  <1>1. PICK k \in T : \A j \in T : ~(<<j, k>> \in OpToRel(<, Nat))
    BY NatLessThanWellFounded, WFMin
  <1> QED BY <1>1 DEF OpToRel

\* The first node of a linked list, which is what a pointer to the list holds.
First(s) == IF s = <<>> THEN Null ELSE s[1]

\* The links nx lead along s, and from its last node to e.
Path(nx, s, e) ==
    \A i \in 1..Len(s) : nx[s[i]] = IF i = Len(s) THEN e ELSE s[i + 1]

Distinct(s) == \A i, j \in 1..Len(s) : s[i] = s[j] => i = j

NodesOf(s) == {s[i] : i \in 1..Len(s)}

\* A list with no node twice is no longer than there are nodes.
LEMMA DistinctIsShort ==
    ASSUME NEW s \in Seq(Nodes), Distinct(s)
    PROVE  Len(s) <= Cardinality(Nodes)
  <1> SUFFICES ASSUME ~(Len(s) <= Cardinality(Nodes)) PROVE FALSE
    OBVIOUS
  <1>1. Len(s) \in Nat /\ s \in [1..Len(s) -> Nodes]
    OBVIOUS
  <1>2. IsFiniteSet(1..Len(s)) /\ Cardinality(1..Len(s)) = Len(s)
    <2>1. 1 \in Int /\ Len(s) \in Int /\ Len(s) \in Nat
      BY <1>1
    <2>2. IsFiniteSet(1..Len(s))
          /\ Cardinality(1..Len(s)) = IF 1 > Len(s) THEN 0 ELSE Len(s) - 1 + 1
      BY <2>1, FS_Interval
    <2> QED BY <2>1, <2>2
  <1>3. IsFiniteSet(Nodes) /\ Cardinality(Nodes) \in Nat
    BY NodesAssumption, FS_CardinalityType
  <1>4. Cardinality(Nodes) < Cardinality(1..Len(s))
    BY <1>1, <1>2, <1>3
  <1>5. \E x, y \in 1..Len(s) : x # y /\ s[x] = s[y]
    BY <1>1, <1>2, <1>3, <1>4, FS_PigeonHole
  <1> QED BY <1>5 DEF Distinct

\* The chain behind a pointer to a list that ends in null is the nodes of the
\* list: what pop() meets when it follows the links.
LEMMA ChainOfPath ==
    ASSUME NEW s \in Seq(Nodes), Path(next, s, Null), Distinct(s)
    PROVE  Chain(First(s)) = NodesOf(s)
  <1> DEFINE C == Cardinality(Nodes)
             At(i) == IF i <= Len(s) THEN s[i] ELSE Null
             Step(f, k) == IF k = 0 THEN {First(s)}
                           ELSE f[k - 1] \cup {next[m] : m \in f[k - 1] \ {Null}}
             reach == CHOOSE f : f = [k \in 0..C |-> Step(f, k)]
             g == [k \in 0..C |-> {At(i) : i \in 1..(k + 1)}]
  <1>0. C \in Nat /\ Len(s) \in Nat /\ \A i \in 1..Len(s) : s[i] \in Nodes /\ s[i] # Null
    BY NodesAssumption, FS_CardinalityType
  <1>1. At(1) = First(s)
    BY <1>0 DEF First
  <1>2. \A i \in Nat \ {0} : At(i) # Null => i \in 1..Len(s) /\ next[At(i)] = At(i + 1)
    <2> SUFFICES ASSUME NEW i \in Nat \ {0}, At(i) # Null
                 PROVE  i \in 1..Len(s) /\ next[At(i)] = At(i + 1)
      OBVIOUS
    <2>1. i \in 1..Len(s)
      BY <1>0
    <2>2. next[s[i]] = IF i = Len(s) THEN Null ELSE s[i + 1]
      BY <2>1 DEF Path
    <2> QED BY <1>0, <2>1, <2>2
  <1>3. \A i \in Nat \ {0} : At(i) = Null => At(i + 1) = Null
    BY <1>0
  <1>4. \A i \in 1..Len(s) : At(i) = s[i]
    BY <1>0
  <1>5. \A i \in Nat \ {0} : At(i) # Null => i \in 1..Len(s)
    BY <1>2
  <1> HIDE DEF At
  <1>6. ASSUME NEW k \in 0..C PROVE g[k] = Step(g, k)
    <2>1. CASE k = 0
      <3>1. g[k] = {At(1)}
        BY <1>0, <2>1
      <3> QED BY <1>1, <2>1, <3>1
    <2>2. CASE k # 0
      <3>1. k - 1 \in 0..C /\ g[k - 1] = {At(i) : i \in 1..k} /\ g[k] = {At(i) : i \in 1..(k + 1)}
        BY <1>0, <2>2
      <3>2. ASSUME NEW x \in g[k] PROVE x \in Step(g, k)
        <4>1. PICK i \in 1..(k + 1) : x = At(i)
          BY <3>1
        <4>2. CASE i \in 1..k
          BY <2>2, <3>1, <4>1, <4>2
        <4>3. CASE i = k + 1
          <5>1. k \in Nat \ {0} /\ k \in 1..k
            BY <1>0, <2>2
          <5>2. At(k) \in g[k - 1]
            BY <3>1, <5>1
          <5>3. CASE At(k) = Null
            BY <1>3, <2>2, <4>1, <4>3, <5>1, <5>2, <5>3
          <5>4. CASE At(k) # Null
            BY <1>2, <2>2, <4>1, <4>3, <5>1, <5>2, <5>4
          <5> QED BY <5>3, <5>4
        <4>4. i \in 1..k \/ i = k + 1
          BY <1>0, <4>1
        <4> QED BY <4>2, <4>3, <4>4
      <3>3. ASSUME NEW x \in Step(g, k) PROVE x \in g[k]
        <4>1. CASE x \in g[k - 1]
          <5>1. 1..k \subseteq 1..(k + 1)
            BY <1>0
          <5> QED BY <3>1, <4>1, <5>1
        <4>2. CASE \E m \in g[k - 1] \ {Null} : x = next[m]
          <5>1. PICK i \in 1..k : At(i) # Null /\ x = next[At(i)]
            BY <3>1, <4>2
          <5>2. i \in Nat \ {0} /\ i + 1 \in 1..(k + 1)
            BY <1>0, <5>1
          <5>3. x = At(i + 1)
            BY <1>2, <5>1, <5>2
          <5> QED BY <3>1, <5>2, <5>3
        <4> QED BY <2>2, <3>3, <4>1, <4>2
      <3> QED BY <3>2, <3>3
    <2> QED BY <2>1, <2>2
  <1>7. \E f : f = [k \in 0..C |-> Step(f, k)]
    <2>1. g = [k \in 0..C |-> Step(g, k)]
      BY <1>6
    <2> QED BY <2>1
  <1>8. reach = [k \in 0..C |-> Step(reach, k)]
    BY <1>7
  <1> HIDE DEF reach
  <1> DEFINE Bad == {k \in 0..C : reach[k] # g[k]}
  <1>9. Bad = {}
    <2> SUFFICES ASSUME Bad # {} PROVE FALSE
      OBVIOUS
    <2> HIDE DEF g
    <2>1. Bad \subseteq Nat
      BY <1>0
    <2>2. PICK k \in Bad : \A j \in Bad : ~(j < k)
      BY <2>1, LeastNatural
    <2>3. k \in 0..C /\ reach[k] # g[k]
      OBVIOUS
    <2>4. reach[k] = Step(reach, k) /\ g[k] = Step(g, k)
      BY <1>6, <1>8, <2>3
    <2>5. k # 0
      BY <2>3, <2>4
    <2>6. k - 1 \in 0..C /\ k - 1 < k
      BY <1>0, <2>3, <2>5
    <2>7. reach[k - 1] = g[k - 1]
      BY <2>2, <2>6
    <2> QED BY <2>3, <2>4, <2>5, <2>7
  <1>10. C \in 0..C /\ reach[C] = {At(i) : i \in 1..(C + 1)}
    <2>1. C \in 0..C
      BY <1>0
    <2>2. g[C] = {At(i) : i \in 1..(C + 1)}
      BY <2>1
    <2>3. reach[C] = g[C]
      <3> HIDE DEF g
      <3> QED BY <1>9, <2>1
    <2> QED BY <2>1, <2>2, <2>3
  <1>11. Chain(First(s)) = reach[C] \ {Null}
    BY DEF Chain, reach
  <1>12. 1..Len(s) \subseteq 1..(C + 1)
    BY <1>0, DistinctIsShort
  <1>13. 1..(C + 1) \subseteq Nat \ {0}
    BY <1>0
  <1>14. {At(i) : i \in 1..(C + 1)} \ {Null} = {s[i] : i \in 1..Len(s)}
    BY <1>0, <1>4, <1>5, <1>12, <1>13
  <1> QED BY <1>10, <1>11, <1>14 DEF NodesOf

\* There are no nodes behind the null pointer.
LEMMA NullChain == Chain(Null) = {}
  <1> DEFINE e == <<>>
  <1>1. e \in Seq(Nodes) /\ 1..Len(e) = {} /\ First(e) = Null
    BY DEF First
  <1>2. Path(next, e, Null) /\ Distinct(e) /\ NodesOf(e) = {}
    BY <1>1 DEF Path, Distinct, NodesOf
  <1> HIDE DEF e
  <1>3. Chain(First(e)) = NodesOf(e)
    BY <1>1, <1>2, ChainOfPath
  <1> QED BY <1>1, <1>2, <1>3

\* try_acquire_consumer() reports Empty only of a queue that holds nothing, and
\* what Consumer::pop() has seen pushed is there when it swaps (EmptyIsEmpty).
THEOREM RunQueueEmptyIsEmpty == Spec => []EmptyIsEmpty
  <1>1. IInv => EmptyIsEmpty
    <2> SUFFICES ASSUME IInv PROVE EmptyIsEmpty
      OBVIOUS
    <2>1. \A t \in Threads : pc[t] = "swap" => stack.ptr # Null
      BY DEF IInv, PointersAreThere
    <2>2. ASSUME ~stack.has_cache, stack.ptr = Null PROVE Items = {}
      <3>1. ~stack.is_consuming /\ cache = Null
        BY <2>2 DEF IInv, ConsumerIsExclusive, CacheIsMarked
      <3>2. \A t \in Threads : pc[t] \notin Consuming
        BY <3>1 DEF IInv, ConsumerIsExclusive
      <3>3. /\ {u \in Threads : pc[u] \in Consuming \ {"acquired"}} = {}
            /\ {u \in Threads : pc[u] = "acquired"} = {}
        BY <3>2 DEF Consuming
      <3>4. Chain(stack.ptr) = {} /\ Chain(cache) = {}
        BY <2>2, <3>1, NullChain
      <3> QED BY <3>2, <3>3, <3>4 DEF Items
    <2> QED BY <2>1, <2>2 DEF EmptyIsEmpty
  <1> QED BY <1>1, InitEstablishes, StepPreserves, PTL DEF Spec

-----------------------------------------------------------------------------
(* The refinement of QueueSpec.                                            *)

\* What the consumer keeps of the queue begins with n: in its local variable, in
\* what it is about to read, or in the cell when there is no consumer.
KeptAt(n) ==
    /\ \A t \in Threads : pc[t] \in Consuming \ {"acquired"} => local[t] = n
    /\ \A t \in Threads :
         pc[t] = "acquired" => n = IF cache # Null THEN cache ELSE seen[t].ptr
    /\ (\A t \in Threads : pc[t] \notin Consuming) => n = cache

\* The pushed nodes are s and the kept ones c: two lists that end in null and
\* share no node with each other or with a list that is being pushed.
Chains(s, c) ==
    /\ stack.ptr = First(s) /\ KeptAt(First(c))
    /\ Path(next, s, Null) /\ Path(next, c, Null)
    /\ Distinct(s) /\ Distinct(c) /\ NodesOf(s) \cap NodesOf(c) = {}
    /\ \A t \in Threads : NodesOf(list[t]) \cap (NodesOf(s) \cup NodesOf(c)) = {}

\* A list that is being pushed is linked to the top that its thread has seen,
\* which need not be the top of the stack any more.
ListsAreLinked ==
    \A t \in Threads :
        /\ pc[t] # "cas" => list[t] = <<>>
        /\ Path(next, list[t], seen[t].ptr)
        /\ Distinct(list[t])
        /\ \A u \in Threads : u # t => NodesOf(list[t]) \cap NodesOf(list[u]) = {}

\* Consumer::pop() looks at the stack only when it keeps nothing.
SwapKeepsNone == \A t \in Threads : pc[t] = "swap" => local[t] = Null

PInv == /\ IInv /\ ListsAreLinked /\ SwapKeepsNone
        /\ \E s, c \in Seq(Nodes) : Chains(s, c)

ItemsAreChains ==
    \A s, c \in Seq(Nodes) : Chains(s, c) => Items = NodesOf(s) \cup NodesOf(c)

\* What is in the queue is what its two lists hold.
LEMMA ItemsFollow == IInv => ItemsAreChains
  <1> SUFFICES ASSUME IInv, NEW s \in Seq(Nodes), NEW c \in Seq(Nodes), Chains(s, c)
               PROVE  Items = NodesOf(s) \cup NodesOf(c)
    BY DEF ItemsAreChains
  <1>1. Chain(stack.ptr) = NodesOf(s) /\ Chain(First(c)) = NodesOf(c)
    BY ChainOfPath DEF Chains
  <1>2. KeptAt(First(c))
    BY DEF Chains
  <1>3. CASE \A t \in Threads : pc[t] \notin Consuming
    <2>1. First(c) = cache
      BY <1>2, <1>3 DEF KeptAt
    <2>2. /\ {u \in Threads : pc[u] \in Consuming \ {"acquired"}} = {}
          /\ {u \in Threads : pc[u] = "acquired"} = {}
      BY <1>3 DEF Consuming
    <2> QED BY <1>1, <1>3, <2>1, <2>2 DEF Items
  <1>4. CASE \E t \in Threads : pc[t] = "acquired"
    <2> PICK t \in Threads : pc[t] = "acquired"
      BY <1>4
    <2>1. /\ {u \in Threads : pc[u] \in Consuming \ {"acquired"}} = {}
          /\ {u \in Threads : pc[u] = "acquired"} = {t}
      BY DEF Consuming, IInv, ConsumerIsExclusive
    <2>2. First(c) = IF cache # Null THEN cache ELSE seen[t].ptr
      BY <1>2 DEF KeptAt
    <2>3. pc[t] \in Consuming
      BY DEF Consuming
    <2>4. (IF cache # Null THEN Chain(cache) ELSE Chain(seen[t].ptr)) = NodesOf(c)
      BY <1>1, <2>2
    <2>5. UNION {IF cache # Null THEN Chain(cache) ELSE Chain(seen[u].ptr) : u \in {t}} = NodesOf(c)
      BY <2>4
    <2>6. UNION {Chain(local[u]) : u \in {}} = {}
      OBVIOUS
    <2>7. \E u \in Threads : pc[u] \in Consuming
      BY <2>3
    <2>8. Items = NodesOf(s) \cup {} \cup NodesOf(c) \cup {}
      BY <1>1, <2>1, <2>5, <2>6, <2>7, Zenon DEF Items
    <2> QED BY <2>8
  <1>5. CASE \E t \in Threads : pc[t] \in Consuming \ {"acquired"}
    <2> PICK t \in Threads : pc[t] \in Consuming \ {"acquired"}
      BY <1>5
    <2>1. /\ {u \in Threads : pc[u] \in Consuming \ {"acquired"}} = {t}
          /\ {u \in Threads : pc[u] = "acquired"} = {}
      BY DEF Consuming, IInv, ConsumerIsExclusive
    <2>2. First(c) = local[t]
      BY <1>2 DEF KeptAt
    <2>3. Chain(local[t]) = NodesOf(c)
      BY <1>1, <2>2
    <2>4. UNION {Chain(local[u]) : u \in {t}} = NodesOf(c)
      BY <2>3
    <2>5. UNION {IF cache # Null THEN Chain(cache) ELSE Chain(seen[u].ptr) : u \in {}} = {}
      OBVIOUS
    <2>6. \E u \in Threads : pc[u] \in Consuming
      OBVIOUS
    <2>7. Items = NodesOf(s) \cup NodesOf(c) \cup {} \cup {}
      BY <1>1, <2>1, <2>4, <2>5, <2>6, Zenon DEF Items
    <2> QED BY <2>7
  <1> QED BY <1>3, <1>4, <1>5

\* A null pointer leads to the empty list only.
LEMMA FirstIsNull ==
    ASSUME NEW s \in Seq(Nodes)
    PROVE  /\ First(s) = Null <=> s = <<>>
           /\ s # <<>> => Len(s) \in Nat \ {0} /\ s[1] \in NodesOf(s) /\ First(s) = s[1]
  <1>1. s # <<>> => Len(s) \in Nat \ {0} /\ 1 \in 1..Len(s) /\ s[1] \in Nodes
    OBVIOUS
  <1> QED BY <1>1, NodesAssumption DEF First, NodesOf

\* Taking the first node of a list leaves the list of the others (Consumer::pop()).
LEMMA TailIsPath ==
    ASSUME NEW nx, NEW s \in Seq(Nodes), s # <<>>, Path(nx, s, Null), Distinct(s)
    PROVE  /\ Tail(s) \in Seq(Nodes) /\ Path(nx, Tail(s), Null) /\ Distinct(Tail(s))
           /\ First(Tail(s)) = nx[s[1]]
           /\ NodesOf(Tail(s)) = NodesOf(s) \ {s[1]}
  <1> DEFINE r == Tail(s)
  <1>1. /\ r \in Seq(Nodes) /\ Len(s) \in Nat \ {0} /\ Len(r) = Len(s) - 1
        /\ \A i \in 1..Len(r) : r[i] = s[i + 1]
    OBVIOUS
  <1> HIDE DEF r
  <1>2. Path(nx, r, Null)
    <2> SUFFICES ASSUME NEW i \in 1..Len(r)
                 PROVE  nx[r[i]] = IF i = Len(r) THEN Null ELSE r[i + 1]
      BY DEF Path
    <2>1. i + 1 \in 1..Len(s) /\ (i + 1 = Len(s) <=> i = Len(r))
      BY <1>1
    <2>2. nx[s[i + 1]] = IF i + 1 = Len(s) THEN Null ELSE s[i + 1 + 1]
      BY <2>1 DEF Path
    <2>3. i # Len(r) => i + 1 \in 1..Len(r)
      BY <1>1
    <2> QED BY <1>1, <2>1, <2>2, <2>3
  <1>3. Distinct(r)
    <2> SUFFICES ASSUME NEW i \in 1..Len(r), NEW j \in 1..Len(r), r[i] = r[j] PROVE i = j
      BY DEF Distinct
    <2>1. i + 1 \in 1..Len(s) /\ j + 1 \in 1..Len(s) /\ s[i + 1] = s[j + 1]
      BY <1>1
    <2>2. i + 1 = j + 1
      BY <2>1 DEF Distinct
    <2> QED BY <1>1, <2>2
  <1>4. First(r) = nx[s[1]]
    <2>1. nx[s[1]] = IF 1 = Len(s) THEN Null ELSE s[1 + 1]
      BY <1>1 DEF Path
    <2>2. r = <<>> <=> Len(s) = 1
      BY <1>1
    <2>3. Len(s) # 1 => r[1] = s[1 + 1]
      BY <1>1
    <2> QED BY <2>1, <2>2, <2>3 DEF First
  <1>5. NodesOf(r) = NodesOf(s) \ {s[1]}
    <2>1. ASSUME NEW x \in NodesOf(r) PROVE x \in NodesOf(s) \ {s[1]}
      <3>1. PICK i \in 1..Len(r) : x = r[i]
        BY <2>1 DEF NodesOf
      <3>2. i + 1 \in 1..Len(s) /\ 1 \in 1..Len(s) /\ x = s[i + 1] /\ i + 1 # 1
        BY <1>1, <3>1
      <3>3. x # s[1]
        BY <3>2 DEF Distinct
      <3> QED BY <3>2, <3>3 DEF NodesOf
    <2>2. ASSUME NEW x \in NodesOf(s) \ {s[1]} PROVE x \in NodesOf(r)
      <3>1. PICK i \in 1..Len(s) : x = s[i] /\ i # 1
        BY <2>2 DEF NodesOf
      <3>2. i - 1 \in 1..Len(r) /\ i - 1 + 1 = i
        BY <1>1, <3>1
      <3>3. x = r[i - 1]
        BY <1>1, <3>1, <3>2
      <3> QED BY <3>2, <3>3 DEF NodesOf
    <2> QED BY <2>1, <2>2
  <1> QED BY <1>1, <1>2, <1>3, <1>4, <1>5 DEF r

\* A list whose last node leads to the top of the stack makes one list with what
\* is there (push()).
LEMMA ConcatIsPath ==
    ASSUME NEW nx, NEW p \in Seq(Nodes), p # <<>>, NEW s \in Seq(Nodes),
           Path(nx, p, First(s)), Path(nx, s, Null), Distinct(p), Distinct(s),
           NodesOf(p) \cap NodesOf(s) = {}
    PROVE  /\ p \o s \in Seq(Nodes) /\ Path(nx, p \o s, Null) /\ Distinct(p \o s)
           /\ First(p \o s) = p[1]
           /\ NodesOf(p \o s) = NodesOf(p) \cup NodesOf(s)
  <1> DEFINE r == p \o s
  <1>1. /\ r \in Seq(Nodes) /\ Len(r) = Len(p) + Len(s)
        /\ Len(p) \in Nat \ {0} /\ Len(s) \in Nat
        /\ \A i \in 1..Len(p) : r[i] = p[i]
        /\ \A i \in 1..Len(s) : r[i + Len(p)] = s[i]
    OBVIOUS
  <1> HIDE DEF r
  <1>2. \A i \in 1..Len(r) : \/ i \in 1..Len(p) /\ r[i] = p[i] /\ p[i] \in NodesOf(p)
                             \/ /\ i - Len(p) \in 1..Len(s) /\ r[i] = s[i - Len(p)]
                                /\ s[i - Len(p)] \in NodesOf(s)
    <2> SUFFICES ASSUME NEW i \in 1..Len(r), i \notin 1..Len(p)
                 PROVE  i - Len(p) \in 1..Len(s) /\ r[i] = s[i - Len(p)]
      BY <1>1 DEF NodesOf
    <2>1. i - Len(p) \in 1..Len(s) /\ i - Len(p) + Len(p) = i
      BY <1>1
    <2>2. r[i - Len(p) + Len(p)] = s[i - Len(p)]
      BY <1>1, <2>1
    <2> QED BY <2>1, <2>2
  <1>3. Path(nx, r, Null)
    <2> SUFFICES ASSUME NEW i \in 1..Len(r)
                 PROVE  nx[r[i]] = IF i = Len(r) THEN Null ELSE r[i + 1]
      BY DEF Path
    <2>1. CASE i \in 1..Len(p) /\ i # Len(p)
      <3>1. i + 1 \in 1..Len(p) /\ i # Len(r)
        BY <1>1, <2>1
      <3>2. nx[p[i]] = p[i + 1]
        BY <2>1 DEF Path
      <3> QED BY <1>1, <2>1, <3>1, <3>2
    <2>2. CASE i = Len(p)
      <3>1. r[i] = p[i] /\ nx[p[i]] = First(s)
        BY <1>1, <2>2 DEF Path
      <3>2. CASE s = <<>>
        BY <1>1, <2>2, <3>1, <3>2 DEF First
      <3>3. CASE s # <<>>
        <4>1. Len(s) \in Nat \ {0} /\ 1 \in 1..Len(s)
          BY <3>3
        <4>2. r[1 + Len(p)] = s[1] /\ i # Len(r) /\ 1 + Len(p) = i + 1
          BY <1>1, <2>2, <4>1
        <4> QED BY <3>1, <3>3, <4>2 DEF First
      <3> QED BY <3>2, <3>3
    <2>3. CASE i - Len(p) \in 1..Len(s) /\ r[i] = s[i - Len(p)]
      <3> DEFINE k == i - Len(p)
      <3>1. k \in 1..Len(s) /\ i = k + Len(p) /\ (i = Len(r) <=> k = Len(s))
        BY <1>1, <2>3
      <3>2. nx[s[k]] = IF k = Len(s) THEN Null ELSE s[k + 1]
        BY <3>1 DEF Path
      <3>3. k # Len(s) => k + 1 \in 1..Len(s) /\ (k + 1) + Len(p) = i + 1
        <4>1. Len(p) \in Nat /\ Len(s) \in Nat /\ k \in 1..Len(s) /\ i = k + Len(p)
          BY <1>1, <3>1
        <4> HIDE DEF k
        <4> QED BY <4>1
      <3>4. k # Len(s) => r[i + 1] = s[k + 1]
        <4>1. \A j \in 1..Len(s) : r[j + Len(p)] = s[j]
          BY <1>1
        <4> HIDE DEF k
        <4> QED BY <3>3, <4>1
      <3> QED BY <2>3, <3>1, <3>2, <3>4
    <2> QED BY <1>2, <2>1, <2>2, <2>3
  <1>4. Distinct(r)
    <2> SUFFICES ASSUME NEW i \in 1..Len(r), NEW j \in 1..Len(r), r[i] = r[j] PROVE i = j
      BY DEF Distinct
    <2>1. CASE i \in 1..Len(p) /\ j \in 1..Len(p)
      BY <1>1, <2>1 DEF Distinct
    <2>2. CASE i - Len(p) \in 1..Len(s) /\ j - Len(p) \in 1..Len(s)
               /\ r[i] = s[i - Len(p)] /\ r[j] = s[j - Len(p)]
      <3>1. i - Len(p) = j - Len(p)
        BY <2>2 DEF Distinct
      <3> QED BY <1>1, <3>1
    <2>3. (r[i] \in NodesOf(p) /\ r[j] \in NodesOf(p)) \/ (r[i] \in NodesOf(s) /\ r[j] \in NodesOf(s))
      BY <1>2
    <2> QED BY <1>2, <2>1, <2>2, <2>3
  <1>5. First(r) = p[1]
    <2>1. 1 \in 1..Len(p) /\ r # <<>>
      BY <1>1
    <2> QED BY <1>1, <2>1 DEF First
  <1>6. NodesOf(r) = NodesOf(p) \cup NodesOf(s)
    <2>1. ASSUME NEW x \in NodesOf(r) PROVE x \in NodesOf(p) \cup NodesOf(s)
      BY <1>2, <2>1 DEF NodesOf
    <2>2. ASSUME NEW x \in NodesOf(p) PROVE x \in NodesOf(r)
      <3>1. PICK i \in 1..Len(p) : x = p[i]
        BY <2>2 DEF NodesOf
      <3>2. i \in 1..Len(r) /\ x = r[i]
        BY <1>1, <3>1
      <3> QED BY <3>2 DEF NodesOf
    <2>3. ASSUME NEW x \in NodesOf(s) PROVE x \in NodesOf(r)
      <3>1. PICK i \in 1..Len(s) : x = s[i]
        BY <2>3 DEF NodesOf
      <3>2. i + Len(p) \in 1..Len(r) /\ x = r[i + Len(p)]
        BY <1>1, <3>1
      <3> QED BY <3>2 DEF NodesOf
    <2> QED BY <2>1, <2>2, <2>3
  <1> QED BY <1>1, <1>3, <1>4, <1>5, <1>6 DEF r

\* Attaching a list to rest links it, and no other node (push()).
LEMMA LinkedIsPath ==
    ASSUME NEW seq \in Seq(Nodes), Distinct(seq), NEW rest
    PROVE  /\ Path(Linked(seq, rest), seq, rest)
           /\ \A n \in Nodes : n \notin NodesOf(seq) => Linked(seq, rest)[n] = next[n]
  <1>1. DOMAIN seq = 1..Len(seq) /\ \A i \in 1..Len(seq) : seq[i] \in Nodes
    OBVIOUS
  <1>2. ASSUME NEW i \in 1..Len(seq)
        PROVE  Linked(seq, rest)[seq[i]] = IF i = Len(seq) THEN rest ELSE seq[i + 1]
    <2> DEFINE j == CHOOSE j \in DOMAIN seq : seq[j] = seq[i]
    <2>1. j \in DOMAIN seq /\ seq[j] = seq[i]
      BY <1>1
    <2>2. j = i
      BY <1>1, <2>1 DEF Distinct
    <2>3. Linked(seq, rest)[seq[i]] = IF j = Len(seq) THEN rest ELSE seq[j + 1]
      BY <1>1 DEF Linked
    <2> HIDE DEF j
    <2> QED BY <2>2, <2>3
  <1>3. ASSUME NEW n \in Nodes, n \notin NodesOf(seq) PROVE Linked(seq, rest)[n] = next[n]
    BY <1>1, <1>3 DEF Linked, NodesOf
  <1> QED BY <1>2, <1>3 DEF Path

\* Links that change only outside of a list leave it linked.
LEMMA PathIsKept ==
    ASSUME NEW nx, NEW ny, NEW s, NEW e, Path(nx, s, e),
           \A n \in NodesOf(s) : ny[n] = nx[n]
    PROVE  Path(ny, s, e)
  BY DEF Path, NodesOf

\* After the step, the two lists of the queue have the nodes of S between them.
Becomes(S) == \E s, c \in Seq(Nodes) : Chains(s, c)' /\ NodesOf(s) \cup NodesOf(c) = S

\* A list is a sequence, whose elements are its nodes.
LEMMA ListsAreSequences ==
    ASSUME TypeOK
    PROVE  \A t \in Threads : /\ list[t] \in Seq(Nodes)
                              /\ NodesOf(list[t]) = {list[t][i] : i \in DOMAIN list[t]}
                              /\ list[t] # <<>> => list[t][1] \in NodesOf(list[t])
  <1> SUFFICES ASSUME NEW t \in Threads PROVE
                 /\ list[t] \in Seq(Nodes)
                 /\ NodesOf(list[t]) = {list[t][i] : i \in DOMAIN list[t]}
                 /\ list[t] # <<>> => list[t][1] \in NodesOf(list[t])
    OBVIOUS
  <1>1. list[t] \in Lists \/ list[t] = <<>>
    BY DEF TypeOK
  <1>2. list[t] \in Seq(Nodes)
    <2>1. <<>> \in Seq(Nodes)
      OBVIOUS
    <2>2. CASE list[t] \in Lists
      BY <2>2, ListIsSequence
    <2> QED BY <1>1, <2>1, <2>2
  <1>3. DOMAIN list[t] = 1..Len(list[t])
    BY <1>2
  <1>4. list[t] # <<>> => 1 \in 1..Len(list[t])
    BY <1>2
  <1> QED BY <1>2, <1>3, <1>4 DEF NodesOf

\* A node belongs to a list only if it is a node.
LEMMA NodesOfAreNodes ==
    ASSUME NEW s \in Seq(Nodes)
    PROVE  NodesOf(s) \subseteq Nodes
  <1>1. \A i \in 1..Len(s) : s[i] \in Nodes
    OBVIOUS
  <1> QED BY <1>1 DEF NodesOf

\* push() links a list that it alone has to the top it has just loaded, and that
\* disturbs neither the queue nor the other lists.
LEMMA RelinkKeeps ==
    ASSUME IInv, ListsAreLinked, NEW s \in Seq(Nodes), NEW c \in Seq(Nodes), Chains(s, c),
           NEW t \in Threads, pc[t] \in {"idle", "cas"},
           NEW seq \in Seq(Nodes), Distinct(seq),
           NodesOf(seq) \cap (NodesOf(s) \cup NodesOf(c)) = {},
           \A u \in Threads : u # t => NodesOf(seq) \cap NodesOf(list[u]) = {},
           next' = Linked(seq, stack.ptr), list' = [list EXCEPT ![t] = seq],
           seen' = [seen EXCEPT ![t] = stack], pc' = [pc EXCEPT ![t] = "cas"],
           UNCHANGED <<stack, cache, local>>
    PROVE  ListsAreLinked' /\ Chains(s, c)'
  <1> USE DEF IInv
  <1>0. TypeOK
    OBVIOUS
  <1>1. /\ Path(next', seq, stack.ptr)
        /\ \A n \in Nodes : n \notin NodesOf(seq) => next'[n] = next[n]
    BY LinkedIsPath
  <1>2. Path(next', s, Null) /\ Path(next', c, Null)
    <2>1. \A n \in NodesOf(s) \cup NodesOf(c) : next'[n] = next[n]
      BY <1>1, NodesOfAreNodes
    <2>2. Path(next, s, Null) /\ Path(next, c, Null)
      BY DEF Chains
    <2> QED BY <2>1, <2>2, PathIsKept
  <1>3. ASSUME NEW u \in Threads, u # t PROVE Path(next', list[u], seen[u].ptr)
    <2>1. \A n \in NodesOf(list[u]) : next'[n] = next[n]
      BY <1>0, <1>1, <1>3, NodesOfAreNodes, ListsAreSequences
    <2>2. Path(next, list[u], seen[u].ptr)
      BY DEF ListsAreLinked
    <2> QED BY <2>1, <2>2, PathIsKept
  <1>4. /\ list' \in [Threads -> Seq(Nodes)] /\ list'[t] = seq
        /\ \A u \in Threads : u # t => list'[u] = list[u]
    BY <1>0, ListsAreSequences DEF TypeOK
  <1>5. /\ pc'[t] = "cas" /\ seen'[t] = stack
        /\ \A u \in Threads : u # t => pc'[u] = pc[u] /\ seen'[u] = seen[u]
    BY <1>0 DEF TypeOK
  <1>6. ListsAreLinked'
    <2> SUFFICES ASSUME NEW u \in Threads
                 PROVE  /\ pc'[u] # "cas" => list'[u] = <<>>
                        /\ Path(next', list'[u], seen'[u].ptr)
                        /\ Distinct(list'[u])
                        /\ \A v \in Threads : v # u => NodesOf(list'[u]) \cap NodesOf(list'[v]) = {}
      BY DEF ListsAreLinked
    <2>1. CASE u = t
      BY <1>1, <1>4, <1>5, <2>1
    <2>2. CASE u # t
      BY <1>3, <1>4, <1>5, <2>2 DEF ListsAreLinked
    <2> QED BY <2>1, <2>2
  <1>7. KeptAt(First(c))'
    <2>1. \A u \in Threads : pc'[u] \in Consuming => u # t
      BY <1>5 DEF Consuming
    <2>2. \A u \in Threads : pc[u] \in Consuming => u # t
      BY DEF Consuming
    <2>3. "acquired" \in Consuming
      BY DEF Consuming
    <2> QED BY <1>5, <2>1, <2>2, <2>3 DEF Chains, KeptAt
  <1>8. \A u \in Threads : NodesOf(list'[u]) \cap (NodesOf(s) \cup NodesOf(c)) = {}
    BY <1>4 DEF Chains
  <1>9. stack'.ptr = First(s) /\ Distinct(s) /\ Distinct(c) /\ NodesOf(s) \cap NodesOf(c) = {}
    BY DEF Chains
  <1> QED BY <1>2, <1>6, <1>7, <1>8, <1>9 DEF Chains

\* push() up to its exchange leaves the queue as it is.
LEMMA PushMoves ==
    ASSUME IInv, ListsAreLinked, NEW s \in Seq(Nodes), NEW c \in Seq(Nodes), Chains(s, c),
           NEW t \in Threads, NEW seq \in Lists, Push(t, seq)
    PROVE  ListsAreLinked' /\ Becomes(NodesOf(s) \cup NodesOf(c))
  <1>0. TypeOK /\ ItemsAreChains
    BY ItemsFollow DEF IInv
  <1>1. seq \in Seq(Nodes) /\ DOMAIN seq = 1..Len(seq)
    BY ListIsSequence
  <1>2. Distinct(seq)
    BY <1>1 DEF Push, IsInjective, Distinct
  <1>3. ASSUME NEW n \in NodesOf(seq)
        PROVE  /\ n \notin NodesOf(s) \cup NodesOf(c)
               /\ \A u \in Threads : n \notin NodesOf(list[u])
    <2>1. n \in Free
      BY <1>1, <1>3 DEF Push, NodesOf
    <2>2. n \notin Items /\ \A u \in Threads : n \notin {list[u][i] : i \in DOMAIN list[u]}
      BY <2>1 DEF Free
    <2> QED BY <1>0, <2>2, ListsAreSequences DEF ItemsAreChains
  <1>4. /\ NodesOf(seq) \cap (NodesOf(s) \cup NodesOf(c)) = {}
        /\ \A u \in Threads : NodesOf(seq) \cap NodesOf(list[u]) = {}
    BY <1>3
  <1>5. ListsAreLinked' /\ Chains(s, c)'
    BY <1>1, <1>2, <1>4, RelinkKeeps DEF Push, Goto
  <1> QED BY <1>5 DEF Becomes

\* So does an exchange that fails, although the list is relinked.
LEMMA PushRetryMoves ==
    ASSUME IInv, ListsAreLinked, NEW s \in Seq(Nodes), NEW c \in Seq(Nodes), Chains(s, c),
           NEW t \in Threads, PushRetry(t)
    PROVE  ListsAreLinked' /\ Becomes(NodesOf(s) \cup NodesOf(c))
  <1>0. TypeOK
    BY DEF IInv
  <1>1. list[t] \in Seq(Nodes) /\ Distinct(list[t])
    BY <1>0, ListsAreSequences DEF ListsAreLinked
  <1>2. /\ NodesOf(list[t]) \cap (NodesOf(s) \cup NodesOf(c)) = {}
        /\ \A u \in Threads : u # t => NodesOf(list[t]) \cap NodesOf(list[u]) = {}
    BY DEF Chains, ListsAreLinked
  <1>3. list' = [list EXCEPT ![t] = list[t]] /\ pc' = [pc EXCEPT ![t] = "cas"]
    BY <1>0 DEF PushRetry, TypeOK
  <1>4. ListsAreLinked' /\ Chains(s, c)'
    BY <1>1, <1>2, <1>3, RelinkKeeps DEF PushRetry
  <1> QED BY <1>4 DEF Becomes

\* The exchange that succeeds adds the list, all of it and once.
LEMMA PushCasMoves ==
    ASSUME IInv, ListsAreLinked, NEW s \in Seq(Nodes), NEW c \in Seq(Nodes), Chains(s, c),
           NEW t \in Threads, PushCas(t)
    PROVE  /\ ListsAreLinked'
           /\ Becomes(NodesOf(list[t]) \cup NodesOf(s) \cup NodesOf(c))
           /\ NodesOf(list[t]) # {}
           /\ NodesOf(list[t]) \cap (NodesOf(s) \cup NodesOf(c)) = {}
  <1>0. TypeOK /\ list[t] \in Lists
    BY DEF IInv, PointersAreThere, PushCas
  <1>1. PICK p \in Seq(Nodes) : p = list[t]
    BY <1>0, ListsAreSequences
  <1>2. p # <<>> /\ p[1] \in NodesOf(p)
    <2>1. Len(p) \in 1..2
      BY <1>0, <1>1, ListIsSequence
    <2>2. p # <<>>
      <3>1. Len(<<>>) = 0 /\ 0 \notin 1..2
        OBVIOUS
      <3> QED BY <2>1, <3>1, Zenon
    <2> QED BY <1>0, <1>1, <2>2, ListsAreSequences
  <1>3. Path(next, p, First(s)) /\ Distinct(p)
    BY <1>1 DEF ListsAreLinked, PushCas, Chains
  <1>4. NodesOf(p) \cap NodesOf(s) = {} /\ NodesOf(p) \cap NodesOf(c) = {}
    BY <1>1 DEF Chains
  <1>5. Path(next, s, Null) /\ Distinct(s)
    BY DEF Chains
  <1>6. PICK r \in Seq(Nodes) : /\ Path(next, r, Null) /\ Distinct(r) /\ First(r) = p[1]
                                /\ NodesOf(r) = NodesOf(p) \cup NodesOf(s)
    <2>1. p # <<>>
      BY <1>2
    <2>2. Path(next, p, First(s)) /\ Path(next, s, Null) /\ Distinct(p) /\ Distinct(s)
      BY <1>3, <1>5
    <2>3. NodesOf(p) \cap NodesOf(s) = {}
      BY <1>4
    <2>4. /\ p \o s \in Seq(Nodes) /\ Path(next, p \o s, Null) /\ Distinct(p \o s)
          /\ First(p \o s) = p[1] /\ NodesOf(p \o s) = NodesOf(p) \cup NodesOf(s)
      BY <2>1, <2>2, <2>3, ConcatIsPath
    <2> QED BY <2>4, Zenon
  <1>7. /\ list'[t] = <<>> /\ seen'[t] = EmptyWord /\ pc'[t] = "idle" /\ next' = next
        /\ \A u \in Threads : u # t => list'[u] = list[u] /\ seen'[u] = seen[u] /\ pc'[u] = pc[u]
    BY <1>0 DEF PushCas, Goto, TypeOK
  <1>8. NodesOf(<<>>) = {} /\ Distinct(<<>>) /\ \A e : Path(next, <<>>, e)
    BY DEF NodesOf, Distinct, Path
  <1>9. ListsAreLinked'
    <2> SUFFICES ASSUME NEW u \in Threads
                 PROVE  /\ pc'[u] # "cas" => list'[u] = <<>>
                        /\ Path(next', list'[u], seen'[u].ptr)
                        /\ Distinct(list'[u])
                        /\ \A v \in Threads : v # u => NodesOf(list'[u]) \cap NodesOf(list'[v]) = {}
      BY DEF ListsAreLinked
    <2>1. CASE u = t
      BY <1>7, <1>8, <2>1
    <2>2. CASE u # t
      BY <1>7, <1>8, <2>2 DEF ListsAreLinked
    <2> QED BY <2>1, <2>2
  <1>10. KeptAt(First(c))'
    <2>1. pc[t] \notin Consuming /\ pc'[t] \notin Consuming /\ "acquired" \in Consuming
      BY <1>7 DEF Consuming, PushCas
    <2>2. cache' = cache /\ local' = local
      BY DEF PushCas
    <2> QED BY <1>7, <2>1, <2>2 DEF Chains, KeptAt
  <1>11. \A u \in Threads : NodesOf(list'[u]) \cap (NodesOf(r) \cup NodesOf(c)) = {}
    BY <1>1, <1>6, <1>7, <1>8 DEF Chains, ListsAreLinked
  <1>12. stack'.ptr = First(r)
    BY <1>0, <1>1, <1>6 DEF PushCas, TypeOK, Words
  <1>13. Chains(r, c)'
    BY <1>4, <1>6, <1>7, <1>10, <1>11, <1>12 DEF Chains
  <1>14. NodesOf(r) \cup NodesOf(c) = NodesOf(list[t]) \cup NodesOf(s) \cup NodesOf(c)
    BY <1>1, <1>6
  <1> QED BY <1>1, <1>2, <1>4, <1>9, <1>13, <1>14 DEF Becomes

\* A step that leaves the links alone, and the lists and what was seen of every
\* thread that is pushing, keeps the lists linked.
LEMMA ListsAreKept ==
    ASSUME IInv, ListsAreLinked, UNCHANGED <<next, list>>,
           \A u \in Threads : (pc'[u] # pc[u] \/ seen'[u] # seen[u]) => pc[u] # "cas"
    PROVE  ListsAreLinked'
  <1> SUFFICES ASSUME NEW u \in Threads
               PROVE  /\ pc'[u] # "cas" => list[u] = <<>>
                      /\ Path(next, list[u], seen'[u].ptr)
                      /\ Distinct(list[u])
                      /\ \A v \in Threads : v # u => NodesOf(list[u]) \cap NodesOf(list[v]) = {}
    BY DEF ListsAreLinked
  <1>1. CASE pc'[u] = pc[u] /\ seen'[u] = seen[u]
    BY <1>1 DEF ListsAreLinked
  <1>2. CASE pc[u] # "cas"
    <2>1. list[u] = <<>>
      BY <1>2 DEF ListsAreLinked
    <2>2. Path(next, <<>>, seen'[u].ptr)
      BY DEF Path
    <2> QED BY <2>1, <2>2 DEF ListsAreLinked
  <1> QED BY <1>1, <1>2

\* The lists of a queue that takes no part in a step of a pointer.
LEMMA ChainsAreKept ==
    ASSUME NEW s \in Seq(Nodes), NEW c \in Seq(Nodes), Chains(s, c),
           UNCHANGED <<next, list>>, stack'.ptr = stack.ptr, KeptAt(First(c))'
    PROVE  Becomes(NodesOf(s) \cup NodesOf(c))
  <1>1. Chains(s, c)'
    BY DEF Chains
  <1> QED BY <1>1 DEF Becomes

\* try_acquire_consumer() moves no node in or out of the queue, which has some.
LEMMA TryAcquireMoves ==
    ASSUME IInv, NEW s \in Seq(Nodes), NEW c \in Seq(Nodes), Chains(s, c),
           NEW t \in Threads, TryAcquire(t)
    PROVE  /\ Becomes(NodesOf(s) \cup NodesOf(c))
           /\ NodesOf(s) \cup NodesOf(c) # {}
  <1>0. TypeOK /\ \A u \in Threads : pc[u] \notin Consuming
    BY DEF IInv, ConsumerIsExclusive, TryAcquire
  <1>1. First(c) = cache /\ First(s) = stack.ptr
    BY <1>0 DEF Chains, KeptAt
  <1>2. /\ pc'[t] = "acquired" /\ seen'[t] = stack /\ cache' = cache
        /\ \A u \in Threads : u # t => pc'[u] \notin Consuming
    BY <1>0 DEF TryAcquire, Goto, TypeOK
  <1>3. \A n : (n = IF cache # Null THEN cache ELSE stack.ptr) => KeptAt(n)'
    BY <1>2 DEF KeptAt, Consuming
  <1>4. stack.has_cache <=> cache # Null
    BY DEF TryAcquire, IInv, CacheIsMarked
  <1>5. CASE stack.has_cache
    <2>1. KeptAt(First(c))' /\ stack'.ptr = stack.ptr
      BY <1>1, <1>3, <1>4, <1>5 DEF TryAcquire
    <2>2. c # <<>>
      BY <1>1, <1>4, <1>5, FirstIsNull
    <2> QED BY <2>1, <2>2, ChainsAreKept, FirstIsNull DEF TryAcquire
  <1>6. CASE ~stack.has_cache
    <2>1. KeptAt(First(s))' /\ stack'.ptr = Null /\ stack.ptr # Null
      BY <1>1, <1>3, <1>4, <1>6 DEF TryAcquire
    <2>2. c = <<>> /\ s # <<>>
      BY <1>1, <1>4, <1>6, <2>1, FirstIsNull
    <2>3. Chains(c, s)'
      BY <1>1, <1>4, <1>6, <2>1 DEF Chains, TryAcquire
    <2> QED BY <2>2, <2>3, FirstIsNull DEF Becomes
  <1> QED BY <1>5, <1>6

\* Nor do the steps by which a consumer reads the cell, looks at the stack, stores
\* what it leaves and clears its bits.
LEMMA ConsumerMoves ==
    ASSUME IInv, NEW s \in Seq(Nodes), NEW c \in Seq(Nodes), Chains(s, c),
           NEW t \in Threads,
           ReadCache(t) \/ PopLoad(t) \/ ReleaseStore(t) \/ ReleaseSub(t)
    PROVE  Becomes(NodesOf(s) \cup NodesOf(c))
  <1>0. TypeOK /\ KeptAt(First(c))
    BY DEF IInv, Chains
  <1>1. \A u \in Threads : u # t => pc[u] \notin Consuming
    BY DEF IInv, ConsumerIsExclusive, Consuming, ReadCache, PopLoad, ReleaseStore, ReleaseSub
  <1>2. \A u \in Threads : u # t => pc'[u] = pc[u]
    BY <1>0 DEF ReadCache, PopLoad, ReleaseStore, ReleaseSub, Goto, TypeOK
  <1>3. KeptAt(First(c))'
    <2> USE DEF KeptAt, Consuming, Goto, TypeOK
    <2>1. CASE ReadCache(t)
      BY <1>0, <1>1, <1>2, <2>1 DEF ReadCache
    <2>2. CASE PopLoad(t)
      BY <1>0, <1>1, <1>2, <2>2 DEF PopLoad
    <2>3. CASE ReleaseStore(t)
      BY <1>0, <1>1, <1>2, <2>3 DEF ReleaseStore
    <2>4. CASE ReleaseSub(t)
      <3>1. cache = local[t]
        BY <2>4 DEF ReleaseSub, IInv, CacheIsMarked
      <3> QED BY <1>0, <1>1, <1>2, <2>4, <3>1 DEF ReleaseSub
    <2> QED BY <2>1, <2>2, <2>3, <2>4
  <1>4. stack'.ptr = stack.ptr
    BY <1>0 DEF ReadCache, PopLoad, ReleaseStore, ReleaseSub, Cleared, TypeOK, Words
  <1>5. UNCHANGED <<next, list>>
    BY DEF ReadCache, PopLoad, ReleaseStore, ReleaseSub
  <1> QED BY <1>3, <1>4, <1>5, ChainsAreKept

\* Consumer::pop() takes the first of the nodes it keeps.
LEMMA PopCachedMoves ==
    ASSUME IInv, NEW s \in Seq(Nodes), NEW c \in Seq(Nodes), Chains(s, c),
           NEW t \in Threads, PopCached(t)
    PROVE  /\ local[t] \in NodesOf(c) /\ local[t] \notin NodesOf(s)
           /\ Becomes((NodesOf(s) \cup NodesOf(c)) \ {local[t]})
  <1>0. TypeOK /\ pc[t] \in Consuming \ {"acquired"}
    BY DEF IInv, PopCached, Consuming
  <1>1. First(c) = local[t]
    BY <1>0 DEF Chains, KeptAt
  <1>2. c # <<>> /\ c[1] = local[t] /\ c[1] \in NodesOf(c)
    BY <1>1, FirstIsNull DEF PopCached
  <1>3. c[1] \notin NodesOf(s)
    BY <1>2 DEF Chains
  <1>4. Path(next, c, Null) /\ Distinct(c)
    BY DEF Chains
  <1>5. PICK r \in Seq(Nodes) : /\ Path(next, r, Null) /\ Distinct(r)
                                /\ First(r) = next[c[1]]
                                /\ NodesOf(r) = NodesOf(c) \ {c[1]}
    BY <1>2, <1>4, TailIsPath
  <1>6. /\ pc'[t] = "hold" /\ local'[t] = First(r)
        /\ \A u \in Threads : u # t => pc'[u] \notin Consuming
    BY <1>0, <1>2, <1>5 DEF PopCached, Goto, TypeOK, IInv, ConsumerIsExclusive
  <1>7. KeptAt(First(r))'
    BY <1>6 DEF KeptAt, Consuming
  <1>8. Chains(s, r)'
    BY <1>5, <1>7 DEF Chains, PopCached
  <1>9. NodesOf(s) \cup NodesOf(r) = (NodesOf(s) \cup NodesOf(c)) \ {local[t]}
    BY <1>2, <1>3, <1>5
  <1> QED BY <1>2, <1>3, <1>8, <1>9 DEF Becomes

\* With nothing kept it takes the first of the pushed nodes and keeps the others.
LEMMA PopSwapMoves ==
    ASSUME IInv, SwapKeepsNone, NEW s \in Seq(Nodes), NEW c \in Seq(Nodes), Chains(s, c),
           NEW t \in Threads, PopSwap(t)
    PROVE  /\ stack.ptr \in NodesOf(s)
           /\ Becomes((NodesOf(s) \cup NodesOf(c)) \ {stack.ptr})
  <1>0. TypeOK /\ pc[t] \in Consuming \ {"acquired"} /\ local[t] = Null /\ stack.ptr # Null
    BY DEF IInv, PopSwap, Consuming, SwapKeepsNone, PointersAreThere
  <1>1. First(c) = Null /\ First(s) = stack.ptr
    BY <1>0 DEF Chains, KeptAt
  <1>2. c = <<>> /\ s # <<>> /\ s[1] = stack.ptr /\ s[1] \in NodesOf(s)
    BY <1>0, <1>1, FirstIsNull
  <1>3. Path(next, s, Null) /\ Distinct(s)
    BY DEF Chains
  <1>4. PICK r \in Seq(Nodes) : /\ Path(next, r, Null) /\ Distinct(r)
                                /\ First(r) = next[s[1]]
                                /\ NodesOf(r) = NodesOf(s) \ {s[1]}
    BY <1>2, <1>3, TailIsPath
  <1>5. /\ pc'[t] = "hold" /\ local'[t] = First(r) /\ stack'.ptr = Null
        /\ \A u \in Threads : u # t => pc'[u] \notin Consuming
    BY <1>0, <1>2, <1>4 DEF PopSwap, Goto, TypeOK, IInv, ConsumerIsExclusive
  <1>6. KeptAt(First(r))'
    BY <1>5 DEF KeptAt, Consuming
  <1>7. NodesOf(c) = {}
    BY <1>2 DEF NodesOf
  <1>8. Chains(c, r)'
    <2>1. UNCHANGED <<next, list>>
      BY DEF PopSwap
    <2> QED BY <1>1, <1>4, <1>5, <1>6, <1>7, <2>1 DEF Chains
  <1>9. NodesOf(c) \cup NodesOf(r) = (NodesOf(s) \cup NodesOf(c)) \ {stack.ptr}
    BY <1>2, <1>4, <1>7
  <1> QED BY <1>2, <1>8, <1>9 DEF Becomes

Consumer == IF \E t \in Threads : pc[t] \in Consuming
            THEN CHOOSE t \in Threads : pc[t] \in Consuming
            ELSE NoThread

ConsumerIsThere ==
    /\ \A t \in Threads : pc[t] \in Consuming => Consumer = t
    /\ (\A t \in Threads : pc[t] \notin Consuming) => Consumer = NoThread

\* The consumer that QueueSpec speaks of is the thread that has IS_CONSUMING.
LEMMA ConsumerFollows == IInv => ConsumerIsThere
  <1> SUFFICES ASSUME IInv PROVE ConsumerIsThere
    OBVIOUS
  <1>1. ASSUME NEW t \in Threads, pc[t] \in Consuming PROVE Consumer = t
    <2>1. \A u \in Threads : pc[u] \in Consuming => u = t
      BY <1>1 DEF IInv, ConsumerIsExclusive
    <2> QED BY <1>1, <2>1 DEF Consumer
  <1>2. ASSUME \A t \in Threads : pc[t] \notin Consuming PROVE Consumer = NoThread
    BY <1>2 DEF Consumer
  <1> QED BY <1>1, <1>2 DEF ConsumerIsThere

\* A new queue has two empty lists.
LEMMA InitChains == Init => PInv
  <1> SUFFICES ASSUME Init PROVE PInv
    OBVIOUS
  <1>0. IInv
    BY InitEstablishes
  <1> DEFINE e == <<>>
  <1>1. e \in Seq(Nodes) /\ First(e) = Null
    BY DEF First
  <1>2. NodesOf(e) = {} /\ Distinct(e) /\ \A x : Path(next, e, x)
    BY DEF NodesOf, Distinct, Path
  <1>3. \A t \in Threads : list[t] = e /\ pc[t] = "idle"
    BY DEF Init
  <1> HIDE DEF e
  <1>4. ListsAreLinked /\ SwapKeepsNone
    BY <1>2, <1>3 DEF ListsAreLinked, SwapKeepsNone, e
  <1>5. KeptAt(First(e)) /\ stack.ptr = First(e)
    BY <1>1, <1>3 DEF KeptAt, Consuming, Init, EmptyWord
  <1>6. Chains(e, e)
    BY <1>2, <1>3, <1>5 DEF Chains
  <1> QED BY <1>0, <1>1, <1>4, <1>6 DEF PInv

\* Every step keeps the lists of the queue apart and linked, and is one of
\* QueueSpec, or none.
LEMMA StepMoves ==
    ASSUME PInv, IInv', ItemsAreChains', ConsumerIsThere', [Next]_vars
    PROVE  PInv' /\ [QS!Next]_<<Items, Consumer>>
  <1>0. IInv /\ TypeOK /\ ListsAreLinked /\ SwapKeepsNone
    BY DEF PInv, IInv
  <1>1. PICK s \in Seq(Nodes), c \in Seq(Nodes) : Chains(s, c)
    BY DEF PInv
  <1>2. Items = NodesOf(s) \cup NodesOf(c) /\ ConsumerIsThere
    BY <1>0, <1>1, ItemsFollow, ConsumerFollows DEF ItemsAreChains
  <1>3. ASSUME NEW S, Becomes(S)
        PROVE  Items' = S /\ (\E x, y \in Seq(Nodes) : Chains(x, y))'
    <2>1. PICK x \in Seq(Nodes), y \in Seq(Nodes) :
                 Chains(x, y)' /\ NodesOf(x) \cup NodesOf(y) = S
      BY <1>3 DEF Becomes
    <2>2. Items' = S
      BY <2>1 DEF ItemsAreChains
    <2> QED BY <2>1, <2>2
  <1>4. ASSUME NEW S, Becomes(S), ListsAreLinked', SwapKeepsNone' PROVE PInv' /\ Items' = S
    BY <1>3, <1>4 DEF PInv
  <1>5. ASSUME \A u \in Threads : pc'[u] \in Consuming <=> pc[u] \in Consuming
        PROVE  Consumer' = Consumer
    BY <1>2, <1>5 DEF ConsumerIsThere
  <1>6. ASSUME NEW t \in Threads,
               (\E seq \in Lists : Push(t, seq)) \/ PushRetry(t) \/ ReadCache(t)
               \/ PopLoad(t) \/ ReleaseStore(t)
        PROVE  PInv' /\ UNCHANGED <<Items, Consumer>>
    <2>1. Becomes(NodesOf(s) \cup NodesOf(c)) /\ ListsAreLinked'
      <3>1. CASE (\E seq \in Lists : Push(t, seq)) \/ PushRetry(t)
        BY <1>0, <1>1, <3>1, PushMoves, PushRetryMoves
      <3>2. CASE ReadCache(t) \/ PopLoad(t) \/ ReleaseStore(t)
        <4>1. Becomes(NodesOf(s) \cup NodesOf(c))
          BY <1>0, <1>1, <3>2, ConsumerMoves
        <4>2. /\ UNCHANGED <<next, list>> /\ pc[t] # "cas"
              /\ \A u \in Threads : u # t => pc'[u] = pc[u] /\ seen'[u] = seen[u]
          BY <1>0, <3>2 DEF ReadCache, PopLoad, ReleaseStore, Goto, TypeOK
        <4> QED BY <1>0, <4>1, <4>2, ListsAreKept
      <3> QED BY <1>6, <3>1, <3>2
    <2>2. SwapKeepsNone'
      BY <1>0, <1>6 DEF SwapKeepsNone, Push, PushRetry, ReadCache, PopLoad, ReleaseStore, Goto, TypeOK
    <2>3. \A u \in Threads : pc'[u] \in Consuming <=> pc[u] \in Consuming
      BY <1>0, <1>6 DEF Consuming, Push, PushRetry, ReadCache, PopLoad, ReleaseStore, Goto, TypeOK
    <2> QED BY <1>2, <1>4, <1>5, <2>1, <2>2, <2>3
  <1>7. ASSUME NEW t \in Threads, PushCas(t) PROVE PInv' /\ QS!Next
    <2> DEFINE S == NodesOf(list[t])
    <2>1. /\ ListsAreLinked' /\ Becomes(S \cup NodesOf(s) \cup NodesOf(c))
          /\ S # {} /\ S \cap (NodesOf(s) \cup NodesOf(c)) = {}
      BY <1>0, <1>1, <1>7, PushCasMoves
    <2>2. SwapKeepsNone'
      BY <1>0, <1>7 DEF SwapKeepsNone, PushCas, Goto, TypeOK
    <2>3. \A u \in Threads : pc'[u] \in Consuming <=> pc[u] \in Consuming
      BY <1>0, <1>7 DEF Consuming, PushCas, Goto, TypeOK
    <2>4. S \in SUBSET Nodes
      BY <1>0, ListsAreSequences, NodesOfAreNodes
    <2> HIDE DEF S
    <2>5. PInv' /\ Items' = S \cup NodesOf(s) \cup NodesOf(c)
      BY <1>4, <2>1, <2>2
    <2>6. Items' = Items \cup S /\ S \cap Items = {} /\ Consumer' = Consumer
      BY <1>2, <1>5, <2>1, <2>3, <2>5
    <2>7. QS!Push(S)
      BY <2>1, <2>6 DEF QS!Push, Consumer
    <2> QED BY <2>4, <2>5, <2>7 DEF QS!Next
  <1>8. ASSUME NEW t \in Threads, TryAcquire(t) PROVE PInv' /\ QS!Next
    <2>1. Becomes(NodesOf(s) \cup NodesOf(c)) /\ NodesOf(s) \cup NodesOf(c) # {}
      BY <1>0, <1>1, <1>8, TryAcquireMoves
    <2>2. /\ UNCHANGED <<next, list>> /\ pc[t] # "cas" /\ pc'[t] = "acquired"
          /\ \A u \in Threads : u # t => pc'[u] = pc[u] /\ seen'[u] = seen[u]
      BY <1>0, <1>8 DEF TryAcquire, Goto, TypeOK
    <2>3. ListsAreLinked'
      BY <1>0, <2>2, ListsAreKept
    <2>4. SwapKeepsNone'
      BY <1>0, <1>8, <2>2 DEF SwapKeepsNone, TryAcquire
    <2>5. PInv' /\ Items' = Items /\ Items # {}
      BY <1>2, <1>4, <2>1, <2>3, <2>4
    <2>6. Consumer = NoThread /\ Consumer' = t
      <3>1. \A u \in Threads : pc[u] \notin Consuming
        BY <1>0, <1>8 DEF TryAcquire, IInv, ConsumerIsExclusive
      <3>2. pc'[t] \in Consuming
        BY <2>2 DEF Consuming
      <3> QED BY <1>2, <3>1, <3>2 DEF ConsumerIsThere
    <2>7. QS!Acquire(t)
      BY <2>5, <2>6 DEF QS!Acquire, Consumer
    <2> QED BY <2>5, <2>7 DEF QS!Next
  <1>9. ASSUME NEW t \in Threads, PopCached(t) \/ PopSwap(t) PROVE PInv' /\ QS!Next
    <2>1. PICK n \in Nodes : /\ n \in NodesOf(s) \cup NodesOf(c)
                             /\ Becomes((NodesOf(s) \cup NodesOf(c)) \ {n})
      <3>1. CASE PopCached(t)
        BY <1>0, <1>1, <3>1, PopCachedMoves, NodesOfAreNodes
      <3>2. CASE PopSwap(t)
        BY <1>0, <1>1, <3>2, PopSwapMoves, NodesOfAreNodes
      <3> QED BY <1>9, <3>1, <3>2
    <2>2. /\ UNCHANGED <<next, list, seen>> /\ pc[t] \in Consuming /\ pc[t] # "cas"
          /\ pc'[t] = "hold" /\ pc'[t] \in Consuming
          /\ \A u \in Threads : u # t => pc'[u] = pc[u]
      BY <1>0, <1>9 DEF PopCached, PopSwap, Goto, TypeOK, Consuming
    <2>3. ListsAreLinked'
      BY <1>0, <2>2, ListsAreKept
    <2>4. SwapKeepsNone'
      <3>1. \A u \in Threads : u # t => local'[u] = local[u]
        BY <1>0, <1>9 DEF PopCached, PopSwap, TypeOK
      <3> QED BY <1>0, <2>2, <3>1 DEF SwapKeepsNone
    <2>5. PInv' /\ Items' = Items \ {n} /\ n \in Items
      BY <1>2, <1>4, <2>1, <2>3, <2>4
    <2>6. Consumer # NoThread /\ Consumer' = Consumer
      BY <1>2, <2>2, NodesAssumption DEF ConsumerIsThere
    <2>7. QS!Pop(n)
      BY <2>5, <2>6, Zenon DEF QS!Pop, Consumer
    <2> QED BY <2>1, <2>5, <2>7 DEF QS!Next
  <1>10. ASSUME NEW t \in Threads, ReleaseSub(t) PROVE PInv' /\ QS!Next
    <2>1. Becomes(NodesOf(s) \cup NodesOf(c))
      BY <1>0, <1>1, <1>10, ConsumerMoves
    <2>2. /\ UNCHANGED <<next, list, seen>> /\ pc[t] \in Consuming /\ pc[t] # "cas"
          /\ pc'[t] = "idle" /\ pc'[t] \notin Consuming
          /\ \A u \in Threads : u # t => pc'[u] = pc[u]
      BY <1>0, <1>10 DEF ReleaseSub, Goto, TypeOK, Consuming
    <2>3. ListsAreLinked'
      BY <1>0, <2>2, ListsAreKept
    <2>4. SwapKeepsNone'
      BY <1>0, <1>10, <2>2 DEF SwapKeepsNone, ReleaseSub, TypeOK
    <2>5. PInv' /\ Items' = Items
      BY <1>2, <1>4, <2>1, <2>3, <2>4
    <2>6. Consumer = t /\ t # NoThread /\ Consumer' = NoThread
      <3>1. \A u \in Threads : pc'[u] \notin Consuming
        BY <1>0, <2>2 DEF IInv, ConsumerIsExclusive
      <3> QED BY <1>2, <2>2, <3>1, NodesAssumption DEF ConsumerIsThere
    <2>7. QS!Release
      BY <2>5, <2>6 DEF QS!Release, Consumer
    <2> QED BY <2>5, <2>7 DEF QS!Next
  <1>11. CASE UNCHANGED vars
    <2>1. Becomes(NodesOf(s) \cup NodesOf(c))
      <3>1. Chains(s, c)'
        BY <1>1, <1>11 DEF Chains, KeptAt, vars
      <3> QED BY <3>1 DEF Becomes
    <2>2. ListsAreLinked' /\ SwapKeepsNone'
      BY <1>0, <1>11 DEF ListsAreLinked, SwapKeepsNone, vars
    <2>3. Consumer' = Consumer
      BY <1>5, <1>11 DEF vars
    <2> QED BY <1>2, <1>4, <2>1, <2>2, <2>3
  <1> QED BY <1>6, <1>7, <1>8, <1>9, <1>10, <1>11 DEF Next, Consume

\* Every behaviour of the run queue is one of the set of nodes that the thread pool
\* takes it for: no step of push(), pop(), try_acquire_consumer() or
\* release_consumer() loses a node, duplicates one or brings one back
\* (ImplementsQueue).
THEOREM RunQueueImplementsQueue == Spec => ImplementsQueue
  <1>1. Init => QS!Init
    <2> SUFFICES ASSUME Init PROVE QS!Init
      OBVIOUS
    <2>1. IInv /\ \A t \in Threads : pc[t] \notin Consuming
      BY InitEstablishes DEF Init, Consuming
    <2>2. Items = {}
      <3>1. stack.ptr = Null /\ cache = Null
        BY DEF Init, EmptyWord
      <3>2. /\ {u \in Threads : pc[u] \in Consuming \ {"acquired"}} = {}
            /\ {u \in Threads : pc[u] = "acquired"} = {}
        BY <2>1 DEF Consuming
      <3> QED BY <2>1, <3>1, <3>2, NullChain DEF Items
    <2>3. Consumer = NoThread
      BY <2>1 DEF Consumer
    <2> QED BY <2>2, <2>3 DEF QS!Init, Consumer
  <1>2. PInv => IInv
    BY DEF PInv
  <1>3. PInv /\ IInv' /\ ItemsAreChains' /\ ConsumerIsThere' /\ [Next]_vars
        => PInv' /\ [QS!Next]_<<Items, Consumer>>
    BY StepMoves
  <1>4. Spec => QS!Init /\ [][QS!Next]_<<Items, Consumer>>
    BY <1>1, <1>2, <1>3, InitChains, StepPreserves, ItemsFollow, ConsumerFollows, PTL DEF Spec
  <1> QED BY <1>4, PTL DEF ImplementsQueue, QS!Spec, Consumer

=============================================================================
