----------------------------- MODULE RunBuffer -----------------------------
(***************************************************************************)
(* node::Buffer of the thread pool (src/src/threading/ThreadPool.rs): a    *)
(* ring of Capacity node pointers.  Its worker, the owner, moves `tail`    *)
(* when it pushes or consumes, and competes with thieves for `head`.       *)
(*                                                                         *)
(* The indices are unsigned numbers that wrap around at IndexSize (2^32 in *)
(* the code).  The ring starts empty at index Start, where a worker is     *)
(* after Start pushes and pops, so that a short behaviour crosses the      *)
(* wrap.  The k-th node that comes into the buffer is the number k.        *)
(***************************************************************************)
EXTENDS Integers, Sequences, FiniteSets, FiniteSetsExt

CONSTANTS
    Thieves,    \* the workers that steal from the buffer
    Capacity,   \* node::CAPACITY, 256 in the code
    IndexSize,  \* bound: the values of Index, 2^32 in the code
    Start,      \* the index at which the behaviour begins
    MaxList,    \* bound: the nodes of one push
    MaxNodes    \* bound: the nodes of one behaviour

ASSUME CapacityAssumption ==
    /\ Capacity \in Nat /\ Capacity >= 2
    /\ IndexSize \in Nat /\ IndexSize > Capacity /\ IndexSize % Capacity = 0
ASSUME StartAssumption == Start \in 0..IndexSize - 1
ASSUME MaxNodesAssumption == MaxNodes \in Nat /\ MaxList \in Nat

VARIABLES
    head, tail,  \* Buffer.head, Buffer.tail
    array,       \* Buffer.array
    opc,         \* where the owner is
    list,        \* push(), consume(): the nodes still to be stored
    ohead,       \* the owner's local `head`
    otail,       \* the owner's local `tail`
    tpc,         \* where each thief is
    thead,       \* steal(): buffer_head
    size,        \* steal(): steal_size
    copy,        \* steal(): the nodes copied so far
    made,        \* history: how many nodes have come
    given,       \* history: the nodes returned by pop(), consume(), steal()
    spilled      \* history: the nodes returned as Overflow

buffer == <<head, tail, array>>
owner == <<opc, list, ohead, otail>>
thieves == <<tpc, thead, size, copy>>
vars == <<buffer, owner, thieves, made, given, spilled>>

Nodes == 1..MaxNodes
NoNode == 0

OPCs == {"idle",
         "load",    \* push(): about to load the head
         "push",    \* push(): about to store nodes, or to overflow
         "publish", \* push(): nodes stored, about to store the tail
         "pop",     \* pop(): head loaded, about to move it on
         "empty",   \* pop() returned None, about to consume()
         "fill"}    \* consume(): nodes stored, about to store the tail
TPCs == {"idle", "tail", "copy", "cas"}

\* wrapping_add and wrapping_sub of Index.
Add(i, n) == (i + n) % IndexSize
Sub(i, j) == (i - j) % IndexSize

Slot(i) == i % Capacity

\* The array after the nodes of seq are stored from index i on.
Stored(i, seq) ==
    [s \in 0..Capacity - 1 |->
        IF \E k \in DOMAIN seq : Slot(Add(i, k - 1)) = s
        THEN seq[CHOOSE k \in DOMAIN seq : Slot(Add(i, k - 1)) = s]
        ELSE array[s]]

\* The nodes at n indices from i on.
NodesAt(i, n) == {array[Slot(Add(i, k))] : k \in 0..n - 1}

\* The exchange of head that takes n nodes out.  Bound: head does not go all the
\* way round, IndexSize nodes, while a thief is between its load of head and its
\* exchange; that exchange could not tell.
MoveHead(n) ==
    /\ \A t \in Thieves : tpc[t] # "idle" => Sub(head, thead[t]) + n < IndexSize
    /\ head' = Add(head, n)

Init ==
    /\ head = Start /\ tail = Start
    /\ array = [s \in 0..Capacity - 1 |-> NoNode]
    /\ opc = "idle" /\ list = <<>> /\ ohead = Start /\ otail = Start
    /\ tpc = [t \in Thieves |-> "idle"]
    /\ thead = [t \in Thieves |-> 0]
    /\ size = [t \in Thieves |-> 0]
    /\ copy = [t \in Thieves |-> <<>>]
    /\ made = 0 /\ given = {} /\ spilled = {}

-----------------------------------------------------------------------------
(* push(), by the owner.                                                   *)

\* A list of n new nodes.
Make(n) ==
    /\ made + n <= MaxNodes
    /\ made' = made + n
    /\ list' = [k \in 1..n |-> made + k]

Push(n) ==
    /\ opc = "idle"
    /\ Make(n)
    /\ opc' = "load"
    /\ UNCHANGED <<buffer, ohead, otail, thieves, given, spilled>>

PushLoad ==
    /\ opc = "load"
    /\ ohead' = head
    /\ opc' = "push"
    /\ UNCHANGED <<buffer, list, otail, thieves, made, given, spilled>>

\* Mutant: one node more than there is room for.
RoomPlusOne == Capacity + 1 - Sub(otail, ohead)

\* How many nodes push() can store, as far as the owner knows.
Room == Capacity - Sub(otail, ohead)

\* Store the nodes that fit; thieves may read the slots before tail moves.
PushStore ==
    /\ opc = "push" /\ Room > 0
    /\ LET n == Min({Room, Len(list)}) IN
         /\ array' = Stored(otail, SubSeq(list, 1, n))
         /\ otail' = Add(otail, n)
         /\ list' = SubSeq(list, n + 1, Len(list))
    /\ opc' = "publish"
    /\ UNCHANGED <<head, tail, ohead, thieves, made, given, spilled>>

PushPublish ==
    /\ opc = "publish"
    /\ tail' = otail
    /\ opc' = IF list = <<>> THEN "idle" ELSE "load"
    /\ UNCHANGED <<head, array, list, ohead, otail, thieves, made, given, spilled>>

\* Full: claim half of the ring and return it with the rest of the list.  Only
\* the owner stores into the ring, so that it may read the slots afterwards.
PushOverflow ==
    /\ opc = "push" /\ Room = 0
    /\ head = ohead
    /\ MoveHead(Capacity \div 2)
    /\ spilled' = spilled \cup NodesAt(head, Capacity \div 2)
                          \cup {list[k] : k \in DOMAIN list}
    /\ list' = <<>>
    /\ opc' = "idle"
    /\ UNCHANGED <<tail, array, ohead, otail, thieves, made, given>>

\* A thief has moved head: try again with its new value.
PushRetry ==
    /\ opc = "push" /\ Room = 0
    /\ head # ohead
    /\ ohead' = head
    /\ UNCHANGED <<buffer, opc, list, otail, thieves, made, given, spilled>>

-----------------------------------------------------------------------------
(* pop() and consume(), by the owner.                                      *)

Pop ==
    /\ opc = "idle"
    /\ ohead' = head
    /\ opc' = "pop"
    /\ UNCHANGED <<buffer, list, otail, thieves, made, given, spilled>>

\* Mutant: head is stored, not exchanged.
PopStore ==
    /\ opc = "pop" /\ otail # ohead
    /\ head' = Add(ohead, 1)
    /\ given' = given \cup {array[Slot(ohead)]}
    /\ opc' = "idle"
    /\ UNCHANGED <<tail, array, list, ohead, otail, thieves, made, spilled>>

PopCas ==
    /\ opc = "pop" /\ otail # ohead
    /\ head = ohead
    /\ MoveHead(1)
    /\ given' = given \cup {array[Slot(head)]}
    /\ opc' = "idle"
    /\ UNCHANGED <<tail, array, list, ohead, otail, thieves, made, spilled>>

PopRetry ==
    /\ opc = "pop" /\ otail # ohead
    /\ head # ohead
    /\ ohead' = head
    /\ UNCHANGED <<buffer, opc, list, otail, thieves, made, given, spilled>>

PopNone ==
    /\ opc = "pop" /\ otail = ohead
    /\ opc' = "empty"
    /\ UNCHANGED <<buffer, list, ohead, otail, thieves, made, given, spilled>>

\* No queue and no victim has anything for the worker.
FoundNothing ==
    /\ opc = "empty"
    /\ opc' = "idle"
    /\ UNCHANGED <<buffer, list, ohead, otail, thieves, made, given, spilled>>

\* A steal whose exchange fails leaves the copies it made in our array, from
\* tail on; NoNode stands for a node that is not ours.
StealInVain(n) ==
    /\ opc = "empty"
    /\ array' = Stored(otail, [k \in 1..n |-> NoNode])
    /\ UNCHANGED <<head, tail, owner, thieves, made, given, spilled>>

\* n nodes come from a queue, or from a victim: all are stored, but one that no
\* longer fits.
Consume(n) ==
    /\ opc = "empty"
    /\ n <= Capacity + 1
    /\ Make(n)
    /\ array' = Stored(otail, SubSeq(list', 1, Min({n, Capacity})))
    /\ opc' = "fill"
    /\ UNCHANGED <<head, tail, ohead, otail, thieves, given, spilled>>

\* The last of them is returned and the others are published.
ConsumePublish ==
    /\ opc = "fill"
    /\ otail' = Add(otail, Len(list) - 1)
    /\ tail' = otail'
    /\ given' = given \cup {list[Len(list)]}
    /\ list' = <<>>
    /\ opc' = "idle"
    /\ UNCHANGED <<head, array, ohead, thieves, made, spilled>>

-----------------------------------------------------------------------------
(* steal(), by a thief; what it does to its own buffer is Consume there.   *)

StealHead(t) ==
    /\ tpc[t] = "idle"
    /\ thead' = [thead EXCEPT ![t] = head]
    /\ tpc' = [tpc EXCEPT ![t] = "tail"]
    /\ UNCHANGED <<buffer, owner, size, copy, made, given, spilled>>

\* Half of it, rounded up.
Half(n) == n - n \div 2

\* The tail is loaded after the head: a size that is too large means that the
\* head is stale, and both are loaded again.  Nothing there: None.
StealTail(t) ==
    /\ tpc[t] = "tail"
    /\ LET n == Sub(tail, thead[t]) IN
         \/ /\ n > Capacity \/ n = 0
            /\ tpc' = [tpc EXCEPT ![t] = "idle"]
            /\ thead' = [thead EXCEPT ![t] = 0]
            /\ UNCHANGED size
         \/ /\ n \in 1..Capacity
            /\ size' = [size EXCEPT ![t] = Half(n)]
            /\ tpc' = [tpc EXCEPT ![t] = "copy"]
            /\ UNCHANGED thead
    /\ UNCHANGED <<buffer, owner, copy, made, given, spilled>>

\* The nodes are copied one by one, while the owner may overwrite their slots.
StealCopy(t) ==
    /\ tpc[t] = "copy"
    /\ copy' = [copy EXCEPT ![t] =
                  Append(@, array[Slot(Add(thead[t], Len(@)))])]
    /\ tpc' = [tpc EXCEPT ![t] = IF Len(copy'[t]) = size[t] THEN "cas" ELSE "copy"]
    /\ UNCHANGED <<buffer, owner, thead, size, made, given, spilled>>

\* The copies count only if head has not moved since it was loaded.
StealCas(t) ==
    /\ tpc[t] = "cas"
    /\ \/ /\ head = thead[t]
          /\ MoveHead(size[t])
          /\ given' = given \cup {copy[t][k] : k \in DOMAIN copy[t]}
       \/ /\ head # thead[t]
          /\ UNCHANGED <<head, given>>
    /\ tpc' = [tpc EXCEPT ![t] = "idle"]
    /\ thead' = [thead EXCEPT ![t] = 0]
    /\ size' = [size EXCEPT ![t] = 0]
    /\ copy' = [copy EXCEPT ![t] = <<>>]
    /\ UNCHANGED <<tail, array, owner, made, spilled>>

-----------------------------------------------------------------------------

OwnerStep ==
    \/ PushLoad \/ PushStore \/ PushPublish \/ PushOverflow \/ PushRetry
    \/ PopCas \/ PopRetry \/ PopNone \/ ConsumePublish

ThiefStep(t) == StealTail(t) \/ StealCopy(t) \/ StealCas(t)

Next ==
    \/ OwnerStep \/ Pop \/ FoundNothing
    \/ \E n \in 1..MaxList : Push(n)
    \/ \E n \in 1..Capacity + 1 : Consume(n)
    \/ \E n \in 1..Half(Capacity) : StealInVain(n)
    \/ \E t \in Thieves : StealHead(t) \/ ThiefStep(t)

Spec == Init /\ [][Next]_vars

-----------------------------------------------------------------------------
(* Properties.                                                             *)

Indices == 0..IndexSize - 1

\* Every variable has its type.
TypeOK ==
    /\ head \in Indices /\ tail \in Indices
    /\ array \in [0..Capacity - 1 -> Nodes \cup {NoNode}]
    /\ opc \in OPCs /\ list \in Seq(Nodes)
    /\ ohead \in Indices /\ otail \in Indices
    /\ tpc \in [Thieves -> TPCs]
    /\ thead \in [Thieves -> Indices]
    /\ size \in [Thieves -> 0..Half(Capacity)]
    /\ copy \in [Thieves -> Seq(Nodes \cup {NoNode})]
    /\ made \in 0..MaxNodes
    /\ given \subseteq Nodes \cup {NoNode} /\ spilled \subseteq Nodes \cup {NoNode}

\* The assertions on the size hold, whatever thieves do between a load and its
\* use and also where the indices wrap around: the ring never holds more than
\* Capacity, not even seen with an old head, and is empty in consume().
SizeIsBounded ==
    /\ Sub(tail, head) <= Capacity
    /\ opc \in {"push", "pop"} => Sub(otail, ohead) <= Capacity
    /\ opc \in {"empty", "fill"} => head = tail

\* The nodes that are published.
Items == NodesAt(head, Sub(tail, head))

BS == INSTANCE BufferSpec WITH items <- Items

\* The ring is the set of nodes that ThreadPool takes it for: push adds its
\* nodes or returns half of a full ring with them, pop and steal take out what
\* they return and never more than half, and no node is lost, returned twice
\* or returned from a slot that the owner has stored into again.
ImplementsBuffer == BS!Spec

=============================================================================
