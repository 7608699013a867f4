-------------------------- MODULE RunBufferProofs --------------------------
(***************************************************************************)
(* For any set of thieves, any capacity and any number of nodes, across    *)
(* every wrap of the indices: the assertions on the size of the ring hold, *)
(* and the ring is the set of nodes that BufferSpec describes.             *)
(*                                                                         *)
(* Indices are compared by their distances only.  As Capacity < IndexSize, *)
(* a distance of two indices of the owner is never cut short by the wrap.  *)
(***************************************************************************)
EXTENDS RunBuffer, FiniteSetTheorems, TLAPS

-----------------------------------------------------------------------------
(* The inductive invariant.                                                *)

\* The node at the k-th place from head on.
At(k) == array[Slot(Add(head, k))]

\* The same after a step, for a place that is counted before it.
NewAt(k) == array'[Slot(Add(head', k))]

\* How many nodes are published, and how many are stored.
Used == Sub(tail, head)
Filled == Sub(otail, head)

\* How many of the nodes made so far are no longer in the owner's list.
Placed == made - Len(list)

\* head, tail and the owner's copies of them are in order and not further apart
\* than the ring is long.
Ordered ==
    /\ Used <= Filled /\ Filled <= Capacity
    /\ IF opc = "publish" THEN Used < Filled ELSE otail = tail
    /\ opc \in {"push", "publish", "pop"} => Sub(head, ohead) + Filled <= Capacity
    /\ opc \in {"empty", "fill"} => head = tail

\* The owner's list holds the youngest nodes, in order; consume() has stored it.
Listed ==
    /\ Placed \in Nat
    /\ \A k \in DOMAIN list : list[k] = Placed + k
    /\ opc \in {"load", "push", "fill"} => list # <<>>
    /\ opc \in {"idle", "pop", "empty"} => list = <<>>
    /\ opc = "fill" =>
         /\ Len(list) <= Capacity + 1
         /\ \A k \in DOMAIN list : k <= Capacity => At(k - 1) = list[k]

\* The places from head on hold nodes that nobody has got yet, each once.
Ring ==
    /\ given \cup spilled \subseteq 1..Placed
    /\ \A k \in 0..Filled - 1 : At(k) \in (1..Placed) \ (given \cup spilled)
    /\ \A j, k \in 0..Filled - 1 : At(j) = At(k) => j = k

\* As long as head has not moved, the copies of a thief are what the ring holds,
\* and no more than half of it.
Valid(t) ==
    thead[t] = head =>
        /\ size[t] <= Half(Used)
        /\ \A k \in DOMAIN copy[t] : copy[t][k] = At(k - 1)

Stealing ==
    \A t \in Thieves :
        /\ tpc[t] \in {"idle", "tail"} => copy[t] = <<>>
        /\ tpc[t] = "copy" => Len(copy[t]) < size[t]
        /\ tpc[t] = "cas" => Len(copy[t]) = size[t] /\ size[t] > 0
        /\ tpc[t] \in {"copy", "cas"} => Valid(t)

IInv == TypeOK /\ Ordered /\ Listed /\ Ring /\ Stealing

-----------------------------------------------------------------------------
(* Arithmetic: indices modulo IndexSize, slots modulo Capacity.            *)

LEMMA Divide ==
    \A a \in Int : \E q \in Int :
        a = Capacity * q + (a % Capacity) /\ (a % Capacity) \in 0..Capacity - 1
<1> TAKE a \in Int
<1>1. a \div Capacity \in Int BY CapacityAssumption
<1> WITNESS a \div Capacity \in Int
<1> QED BY CapacityAssumption

\* A remainder is unique.
LEMMA Remainder ==
    ASSUME NEW q \in Int, NEW r \in Int, NEW p \in Int, NEW s \in Int,
           Capacity * q + r = Capacity * p + s,
           r \in 0..Capacity - 1, s \in 0..Capacity - 1
    PROVE  r = s
<1> USE CapacityAssumption
<1>1. Capacity * (q - p) = s - r OBVIOUS
<1>2. ~(q - p >= 1)
  <2> SUFFICES ASSUME q - p >= 1 PROVE FALSE OBVIOUS
  <2>1. Capacity * (q - p) >= Capacity OBVIOUS
  <2> QED BY <2>1, <1>1
<1>3. ~(p - q >= 1)
  <2> SUFFICES ASSUME p - q >= 1 PROVE FALSE OBVIOUS
  <2>1. Capacity * (p - q) >= Capacity OBVIOUS
  <2>2. Capacity * (p - q) = r - s OBVIOUS
  <2> QED BY <2>1, <2>2
<1>4. q = p BY <1>2, <1>3
<1> QED BY <1>4

\* Two numbers less than Capacity apart have different remainders.
LEMMA Apart ==
    ASSUME NEW a \in Int, NEW b \in Int, a \in b..b + Capacity - 1,
           (a % Capacity) = (b % Capacity)
    PROVE  a = b
<1>1. PICK q \in Int : a = Capacity * q + (a % Capacity) BY Divide
<1>2. PICK p \in Int : b = Capacity * p + (b % Capacity) BY Divide
<1>3. PICK d \in Int : /\ d = a - b /\ Capacity * q + 0 = Capacity * p + d
                       /\ d \in 0..Capacity - 1
  BY <1>1, <1>2, CapacityAssumption
<1>4. 0 \in Int /\ 0 \in 0..Capacity - 1 BY CapacityAssumption
<1>5. d = 0 BY <1>3, <1>4, Remainder, Zenon
<1> QED BY <1>3, <1>5

\* Capacity divides IndexSize: going round does not change the slot.
LEMMA Round ==
    ASSUME NEW a \in Int, NEW b \in Int, NEW k \in Int, b = a - IndexSize * k
    PROVE  (b % Capacity) = (a % Capacity)
<1>1. PICK m \in Int : IndexSize = Capacity * m
  <2>1. IndexSize \in Int /\ (IndexSize % Capacity) = 0 BY CapacityAssumption
  <2>2. PICK m \in Int : IndexSize = Capacity * m + (IndexSize % Capacity)
    BY <2>1, Divide
  <2>3. IndexSize = Capacity * m BY <2>1, <2>2, CapacityAssumption
  <2> QED BY <2>3
<1>2. PICK q \in Int : a = Capacity * q + (a % Capacity)
                       /\ (a % Capacity) \in 0..Capacity - 1
  BY Divide
<1>3. PICK p \in Int : b = Capacity * p + (b % Capacity)
                       /\ (b % Capacity) \in 0..Capacity - 1
  BY Divide
<1>4. PICK n \in Int : n = p + m * k OBVIOUS
<1>5. Capacity * n + (b % Capacity) = Capacity * q + (a % Capacity)
  <2> SUFFICES ASSUME NEW r \in Int, NEW s \in Int,
                      a = Capacity * q + r, b = Capacity * p + s
               PROVE  Capacity * n + s = Capacity * q + r
    BY <1>2, <1>3
  <2>1. Capacity * n = Capacity * p + Capacity * (m * k) BY <1>4, CapacityAssumption
  <2>2. Capacity * (m * k) = IndexSize * k BY <1>1, CapacityAssumption
  <2> QED BY <2>1, <2>2, CapacityAssumption
<1>6. (b % Capacity) \in Int /\ (a % Capacity) \in Int BY <1>2, <1>3
<1> QED BY <1>2, <1>3, <1>5, <1>6, Remainder, Zenon

LEMMA IndexIs == \A i : i \in Indices <=> i \in Nat /\ i < IndexSize
BY CapacityAssumption DEF Indices

\* Distances of indices.
LEMMA SubIs ==
    ASSUME NEW i \in Indices, NEW j \in Indices
    PROVE  Sub(i, j) = IF j <= i THEN i - j ELSE i - j + IndexSize
BY CapacityAssumption DEF Indices, Sub

LEMMA AddIs ==
    ASSUME NEW i \in Indices, NEW n \in Indices
    PROVE  Add(i, n) = IF i + n < IndexSize THEN i + n ELSE i + n - IndexSize
BY CapacityAssumption DEF Indices, Add

LEMMA SubRange ==
    ASSUME NEW i \in Indices, NEW j \in Indices
    PROVE  Sub(i, j) \in Indices /\ (Sub(i, j) = 0 <=> i = j)
BY SubIs, CapacityAssumption DEF Indices

LEMMA AddRange ==
    ASSUME NEW i \in Indices, NEW n \in Nat
    PROVE  Add(i, n) \in Indices
BY CapacityAssumption DEF Indices, Add

LEMMA SubOfAdd ==
    ASSUME NEW i \in Indices, NEW j \in Indices, NEW n \in Nat,
           Sub(i, j) + n < IndexSize
    PROVE  Sub(Add(i, n), j) = Sub(i, j) + n
<1>1. n \in Indices BY SubIs, CapacityAssumption DEF Indices
<1>2. PICK m \in Indices : m = Add(i, n) BY AddRange
<1>3. m = IF i + n < IndexSize THEN i + n ELSE i + n - IndexSize BY <1>1, <1>2, AddIs
<1>4. Sub(m, j) = IF j <= m THEN m - j ELSE m - j + IndexSize BY SubIs
<1>5. Sub(i, j) = IF j <= i THEN i - j ELSE i - j + IndexSize BY SubIs
<1>6. Sub(m, j) = Sub(i, j) + n
  BY <1>1, <1>3, <1>4, <1>5, CapacityAssumption DEF Indices
<1> QED BY <1>2, <1>6

LEMMA SubOfLess ==
    ASSUME NEW i \in Indices, NEW j \in Indices, NEW n \in Nat, n <= Sub(i, j)
    PROVE  Sub(i, Add(j, n)) = Sub(i, j) - n
<1>1. n \in Indices BY SubIs, CapacityAssumption DEF Indices
<1>2. Add(j, n) \in Indices BY AddRange
<1> QED BY <1>1, <1>2, SubIs, AddIs, CapacityAssumption DEF Indices

LEMMA SubChain ==
    ASSUME NEW i \in Indices, NEW j \in Indices, NEW k \in Indices,
           Sub(i, j) + Sub(j, k) < IndexSize
    PROVE  Sub(i, k) = Sub(i, j) + Sub(j, k)
BY SubIs, CapacityAssumption DEF Indices

LEMMA AddOfSub ==
    ASSUME NEW i \in Indices, NEW j \in Indices
    PROVE  Add(j, Sub(i, j)) = i
<1>1. PICK d \in Indices : d = Sub(i, j) BY SubRange
<1>2. d = IF j <= i THEN i - j ELSE i - j + IndexSize BY <1>1, SubIs
<1>3. Add(j, d) = IF j + d < IndexSize THEN j + d ELSE j + d - IndexSize BY AddIs
<1>4. Add(j, d) = i BY <1>2, <1>3, CapacityAssumption DEF Indices
<1> QED BY <1>1, <1>4

\* The slot of the a-th place from index i on.
LEMMA SlotIs ==
    ASSUME NEW i \in Indices, NEW a \in Nat
    PROVE  /\ Slot(Add(i, a)) = (i + a) % Capacity
           /\ Slot(Add(i, a)) \in 0..Capacity - 1
<1>1. PICK k \in Int : (i + a) % IndexSize = (i + a) - IndexSize * k
  <2>1. (i + a) \div IndexSize \in Int BY CapacityAssumption DEF Indices
  <2>2. (i + a) % IndexSize = (i + a) - IndexSize * ((i + a) \div IndexSize)
    BY CapacityAssumption DEF Indices
  <2> QED BY <2>1, <2>2
<1>2. (i + a) % IndexSize \in Int /\ i + a \in Int
  BY CapacityAssumption DEF Indices
<1>3. ((i + a) % IndexSize) % Capacity = (i + a) % Capacity
  BY <1>1, <1>2, Round
<1> QED BY <1>2, <1>3, CapacityAssumption DEF Slot, Add

\* Places are counted on from any index.
LEMMA SlotOfAdd ==
    ASSUME NEW i \in Indices, NEW a \in Indices, NEW b \in Nat
    PROVE  Slot(Add(Add(i, a), b)) = Slot(Add(i, a + b))
<1>1. PICK k \in Int : Add(i, a) = (i + a) - IndexSize * k
  <2>1. Add(i, a) = (i + a) - IndexSize * 0 \/ Add(i, a) = (i + a) - IndexSize * 1
    BY AddIs, CapacityAssumption DEF Indices
  <2> QED BY <2>1
<1>2. Add(i, a) \in Indices BY AddRange DEF Indices
<1>3. /\ Add(i, a) + b \in Int /\ i + (a + b) \in Int
      /\ Add(i, a) + b = (i + (a + b)) - IndexSize * k
  BY <1>1, <1>2, CapacityAssumption DEF Indices
<1>4. (Add(i, a) + b) % Capacity = (i + (a + b)) % Capacity BY <1>3, Round
<1>5. a + b \in Nat BY DEF Indices
<1> QED BY <1>2, <1>4, <1>5, SlotIs

\* Capacity places in a row have different slots.
LEMMA SlotsDiffer ==
    ASSUME NEW i \in Indices, NEW a \in Nat, NEW b \in Nat,
           Slot(Add(i, a)) = Slot(Add(i, b)), a - b < Capacity, b - a < Capacity
    PROVE  a = b
<1>1. (i + a) % Capacity = (i + b) % Capacity BY SlotIs
<1>2. i + a \in Int /\ i + b \in Int BY DEF Indices
<1>3. CASE b <= a
  <2>1. i + a \in (i + b)..(i + b) + Capacity - 1 BY <1>2, <1>3, CapacityAssumption DEF Indices
  <2>2. i + a = i + b BY <1>1, <1>2, <2>1, Apart
  <2> QED BY <2>2 DEF Indices
<1>4. CASE a <= b
  <2>1. i + b \in (i + a)..(i + a) + Capacity - 1 BY <1>2, <1>4, CapacityAssumption DEF Indices
  <2>2. i + a = i + b BY <1>1, <1>2, <2>1, Apart
  <2> QED BY <2>2 DEF Indices
<1> QED BY <1>3, <1>4

-----------------------------------------------------------------------------
(* What the steps do to the ring.                                          *)

LEMMA Ranges ==
    ASSUME TypeOK
    PROVE  /\ Used \in Nat /\ Filled \in Nat /\ Sub(head, ohead) \in Nat
           /\ Used < IndexSize /\ Filled < IndexSize
           /\ (Used = 0 <=> head = tail)
           /\ Len(list) \in Nat /\ DOMAIN list = 1..Len(list)
           /\ Placed \in Int
           /\ Add(head, Filled) = otail /\ Add(head, Used) = tail
<1>1. /\ head \in Indices /\ tail \in Indices /\ otail \in Indices /\ ohead \in Indices
      /\ list \in Seq(Nodes) /\ made \in Int
  BY MaxNodesAssumption DEF TypeOK
<1>2. /\ Used \in Indices /\ Filled \in Indices /\ Sub(head, ohead) \in Indices
      /\ (Used = 0 <=> tail = head)
  BY <1>1, SubRange DEF Used, Filled
<1>3. Add(head, Filled) = otail /\ Add(head, Used) = tail
  BY <1>1, AddOfSub DEF Used, Filled
<1>4. Len(list) \in Nat /\ DOMAIN list = 1..Len(list) /\ Placed \in Int
  BY <1>1 DEF Placed
<1> QED BY <1>2, <1>3, <1>4, CapacityAssumption DEF Indices

\* A list that is not longer than the ring is stored node by node, and the other
\* slots are left alone.
LEMMA StoredHolds ==
    ASSUME NEW i \in Indices, NEW n \in 0..Capacity, NEW seq, DOMAIN seq = 1..n
    PROVE  /\ \A k \in 1..n : Stored(i, seq)[Slot(Add(i, k - 1))] = seq[k]
           /\ \A s \in 0..Capacity - 1 :
                (\A k \in 1..n : Slot(Add(i, k - 1)) # s) => Stored(i, seq)[s] = array[s]
<1>1. ASSUME NEW k \in 1..n PROVE Stored(i, seq)[Slot(Add(i, k - 1))] = seq[k]
  <2>1. k - 1 \in Nat /\ Slot(Add(i, k - 1)) \in 0..Capacity - 1 BY SlotIs
  <2>2. \A j \in 1..n : Slot(Add(i, j - 1)) = Slot(Add(i, k - 1)) => j = k
    <3> SUFFICES ASSUME NEW j \in 1..n, Slot(Add(i, j - 1)) = Slot(Add(i, k - 1))
                 PROVE  j = k
      OBVIOUS
    <3>1. j - 1 \in Nat /\ (j - 1) - (k - 1) < Capacity /\ (k - 1) - (j - 1) < Capacity
      BY CapacityAssumption
    <3>2. j - 1 = k - 1 BY <2>1, <3>1, SlotsDiffer
    <3> QED BY <3>2
  <2> QED BY <2>1, <2>2 DEF Stored
<1>2. ASSUME NEW s \in 0..Capacity - 1, \A k \in 1..n : Slot(Add(i, k - 1)) # s
      PROVE  Stored(i, seq)[s] = array[s]
  BY <1>2 DEF Stored
<1> QED BY <1>1, <1>2

\* The same, seen from head: n nodes stored f places behind it, within the ring.
LEMMA StoredBehind ==
    ASSUME TypeOK, NEW f \in Nat, NEW n \in Nat, f + n <= Capacity, f < IndexSize,
           NEW seq, DOMAIN seq = 1..n, \A k \in 1..n : seq[k] \in Nodes \cup {NoNode},
           array' = Stored(Add(head, f), seq), head' = head
    PROVE  /\ array' \in [0..Capacity - 1 -> Nodes \cup {NoNode}]
           /\ \A k \in 0..f - 1 : At(k)' = At(k)
           /\ \A k \in 1..n : NewAt(f + k - 1) = seq[k]
<1> DEFINE i == Add(head, f)
<1>1. head \in Indices /\ i \in Indices /\ f \in Indices
  BY AddRange, IndexIs DEF TypeOK
<1>2. \A k \in 1..n : Slot(Add(i, k - 1)) = Slot(Add(head, f + k - 1))
  <2> TAKE k \in 1..n
  <2>1. k - 1 \in Nat /\ f + (k - 1) = f + k - 1 OBVIOUS
  <2> QED BY <1>1, <2>1, SlotOfAdd
<1>3. n \in 0..Capacity BY CapacityAssumption
<1>4. /\ \A k \in 1..n : array'[Slot(Add(i, k - 1))] = seq[k]
      /\ \A s \in 0..Capacity - 1 :
           (\A k \in 1..n : Slot(Add(i, k - 1)) # s) => array'[s] = array[s]
  <2> HIDE DEF i
  <2>1. array' = Stored(i, seq) BY DEF i
  <2> QED BY <1>1, <1>3, <2>1, StoredHolds
<1>5. array' \in [0..Capacity - 1 -> Nodes \cup {NoNode}]
  BY DEF TypeOK, Stored
<1>6. ASSUME NEW k \in 0..f - 1 PROVE At(k)' = At(k)
  <2>1. k \in Nat OBVIOUS
  <2>a. Slot(Add(head, k)) \in 0..Capacity - 1 BY <1>1, <2>1, SlotIs
  <2>2. \A j \in 1..n : Slot(Add(i, j - 1)) # Slot(Add(head, k))
    <3> SUFFICES ASSUME NEW j \in 1..n, Slot(Add(head, f + j - 1)) = Slot(Add(head, k))
                 PROVE  FALSE
      BY <1>2
    <3>1. /\ f + j - 1 \in Nat /\ f + j - 1 # k
          /\ (f + j - 1) - k < Capacity /\ k - (f + j - 1) < Capacity
      BY CapacityAssumption
    <3> QED BY <1>1, <2>1, <3>1, SlotsDiffer
  <2> QED BY <1>4, <2>a, <2>2 DEF At
<1>7. ASSUME NEW k \in 1..n PROVE NewAt(f + k - 1) = seq[k]
  BY <1>2, <1>4 DEF NewAt
<1> QED BY <1>5, <1>6, <1>7

\* head moves on by n of the published nodes: the distances shrink, the places
\* are counted from the new head, and no thief that is under way knows it.
LEMMA Moved ==
    ASSUME TypeOK, Ordered, NEW n \in 1..Used, MoveHead(n),
           tail' = tail /\ otail' = otail /\ array' = array
    PROVE  /\ head' \in Indices
           /\ Used' = Used - n /\ Filled' = Filled - n
           /\ \A k \in Nat : At(k)' = At(n + k)
           /\ \A t \in Thieves : tpc[t] # "idle" => thead[t] # head'
           /\ Sub(head, ohead) + n < IndexSize => Sub(head', ohead) = Sub(head, ohead) + n
<1>1. /\ n \in Nat /\ n \in Indices /\ n <= Used /\ n <= Filled
      /\ head \in Indices /\ tail \in Indices /\ otail \in Indices /\ ohead \in Indices
      /\ head' = Add(head, n)
  <2>1. Used \in Nat /\ Filled \in Nat /\ Used <= Filled /\ Filled < IndexSize
    BY Ranges DEF Ordered
  <2>2. n \in Nat /\ n <= Used /\ n <= Filled /\ n < IndexSize
    BY <2>1, CapacityAssumption
  <2>3. n \in Indices BY <2>2, IndexIs
  <2> QED BY <2>2, <2>3 DEF TypeOK, MoveHead
<1>2. head' \in Indices BY <1>1, AddRange
<1>3. Used' = Used - n BY <1>1, SubOfLess DEF Used
<1>4. Filled' = Filled - n BY <1>1, SubOfLess DEF Filled
<1>5. \A k \in Nat : At(k)' = At(n + k) BY <1>1, SlotOfAdd DEF At
<1>6. ASSUME NEW t \in Thieves, tpc[t] # "idle" PROVE thead[t] # head'
  <2>1. thead[t] \in Indices BY DEF TypeOK
  <2>2. Sub(head', thead[t]) = Sub(head, thead[t]) + n
    BY <1>1, <1>6, <2>1, SubOfAdd DEF MoveHead
  <2>3. Sub(head, thead[t]) \in Nat BY <1>1, <2>1, SubRange, IndexIs
  <2> QED BY <1>2, <2>1, <2>2, <2>3, SubRange
<1>7. Sub(head, ohead) + n < IndexSize => Sub(head', ohead) = Sub(head, ohead) + n
  BY <1>1, SubOfAdd
<1> QED BY <1>2, <1>3, <1>4, <1>5, <1>6, <1>7

-----------------------------------------------------------------------------
(* Every step preserves the invariant.                                     *)

LEMMA RingSame ==
    ASSUME Ring, UNCHANGED <<head, array, otail, list, made, given, spilled>>
    PROVE  Ring'
BY DEF Ring, At, Filled, Placed

LEMMA StealingSame ==
    ASSUME Stealing, UNCHANGED <<head, tail, array, thieves>>
    PROVE  Stealing'
BY DEF Stealing, Valid, At, Used, thieves

\* The owner loads head, or finds its buffer empty.
LEMMA OwnerLooks ==
    ASSUME IInv,
           PushLoad \/ PushRetry \/ Pop \/ PopRetry \/ PopNone \/ FoundNothing
    PROVE  IInv'
<1> USE DEF PushLoad, PushRetry, Pop, PopRetry, PopNone, FoundNothing
<1>1. UNCHANGED <<head, tail, array, otail, list, made, given, spilled, thieves>>
  BY DEF buffer
<1>2. TypeOK' BY <1>1 DEF IInv, TypeOK, OPCs, thieves
<1>3. Ordered'
  <2>1. Used' = Used /\ Filled' = Filled /\ Used \in Nat /\ Filled \in Nat
    BY <1>1, Ranges DEF IInv, Used, Filled
  <2>2. head \in Indices /\ ohead \in Indices /\ tail \in Indices BY DEF IInv, TypeOK
  <2>3. CASE PushLoad \/ PushRetry \/ Pop \/ PopRetry
    <3>1. ohead' = head /\ Sub(head, head) = 0 /\ Sub(head', ohead') = 0
      BY <1>1, <2>2, <2>3, SubRange
    <3> QED BY <1>1, <2>1, <2>3, <3>1 DEF IInv, Ordered
  <2>4. CASE PopNone
    <3>1. /\ otail = tail /\ otail = ohead /\ Sub(head, ohead) \in Nat
          /\ Sub(head, ohead) + Sub(ohead, head) <= Capacity
      BY <2>4, Ranges DEF IInv, Ordered, Filled
    <3>2. Sub(ohead, ohead) = Sub(ohead, head) + Sub(head, ohead)
      BY <2>1, <2>2, <3>1, SubChain, CapacityAssumption DEF Filled
    <3>3. Sub(head, ohead) = 0
      BY <2>1, <2>2, <3>1, <3>2, SubRange DEF Filled
    <3>4. head = tail BY <2>2, <3>1, <3>3, SubRange
    <3> QED BY <1>1, <2>1, <2>4, <3>1, <3>4 DEF IInv, Ordered
  <2>5. CASE FoundNothing
    BY <1>1, <2>1, <2>5 DEF IInv, Ordered
  <2> QED BY <2>3, <2>4, <2>5
<1>4. Listed' BY <1>1 DEF IInv, Listed, Placed
<1>5. Ring' BY <1>1, RingSame DEF IInv
<1>6. Stealing' BY <1>1, StealingSame DEF IInv
<1> QED BY <1>2, <1>3, <1>4, <1>5, <1>6 DEF IInv

LEMMA MakeList ==
    ASSUME TypeOK, NEW n \in Nat, n > 0, Make(n), list = <<>>
    PROVE  /\ made' \in 0..MaxNodes /\ list' \in Seq(Nodes) /\ Len(list') = n
           /\ DOMAIN list' = 1..n /\ list' # <<>>
           /\ Placed' = Placed /\ Placed = made /\ Placed \in Nat
           /\ \A k \in 1..n : list'[k] = Placed + k /\ list'[k] \in Nodes
<1>1. made \in Nat /\ made' \in Nat /\ made' = made + n /\ made' <= MaxNodes
  BY MaxNodesAssumption DEF TypeOK, Make
<1>2. \A k \in 1..n : made + k \in Nodes BY <1>1, MaxNodesAssumption DEF Nodes
<1>3. list' \in Seq(Nodes) /\ Len(list') = n /\ DOMAIN list' = 1..n
  BY <1>2 DEF Make
<1>4. Placed = made /\ Placed' = made BY <1>1, <1>3 DEF Placed
<1>5. \A k \in 1..n : list'[k] = made + k BY DEF Make
<1> QED BY <1>1, <1>2, <1>3, <1>4, <1>5, MaxNodesAssumption

LEMMA PushKeeps ==
    ASSUME IInv, NEW n \in 1..MaxList, Push(n)
    PROVE  IInv'
<1>1. /\ UNCHANGED <<head, tail, array, ohead, otail, given, spilled, thieves>>
      /\ opc = "idle" /\ opc' = "load" /\ Make(n)
  BY DEF Push, buffer
<1>2. list = <<>> /\ TypeOK BY <1>1 DEF IInv, Listed
<1>3. n \in Nat /\ n > 0 BY MaxNodesAssumption
<1>4. /\ made' \in 0..MaxNodes /\ list' \in Seq(Nodes) /\ DOMAIN list' = 1..n
      /\ list' # <<>> /\ Placed' = Placed /\ Placed \in Nat
      /\ \A k \in 1..n : list'[k] = Placed + k
  BY <1>1, <1>2, <1>3, MakeList
<1>5. TypeOK' BY <1>1, <1>4 DEF IInv, TypeOK, OPCs, thieves
<1>6. Ordered' BY <1>1 DEF IInv, Ordered, Used, Filled
<1>7. Listed' BY <1>1, <1>4 DEF Listed
<1>8. Ring' BY <1>1, <1>4 DEF IInv, Ring, At, Filled
<1>9. Stealing' BY <1>1, StealingSame DEF IInv
<1> QED BY <1>5, <1>6, <1>7, <1>8, <1>9 DEF IInv

LEMMA MinIs ==
    ASSUME NEW a \in Int, NEW b \in Int
    PROVE  Min({a, b}) = IF a <= b THEN a ELSE b
BY DEF Min

LEMMA HalfIs ==
    ASSUME NEW n \in Nat
    PROVE  /\ Half(n) \in Nat /\ Half(n) <= n /\ (n > 0 => Half(n) > 0)
           /\ \A m \in Nat : n <= m => Half(n) <= Half(m)
BY DEF Half

\* What is stored behind the published places does not concern the thieves.
LEMMA StealingKept ==
    ASSUME TypeOK, Stealing, UNCHANGED <<head, thieves>>, Used' \in Nat, Used <= Used',
           \A k \in 0..Used - 1 : At(k)' = At(k)
    PROVE  Stealing'
<1> SUFFICES ASSUME NEW t \in Thieves, tpc[t] \in {"copy", "cas"}, thead[t] = head
             PROVE  /\ size[t] <= Half(Used')
                    /\ \A k \in DOMAIN copy[t] : copy[t][k] = At(k - 1)'
  BY DEF Stealing, Valid, thieves
<1>1. size[t] <= Half(Used) /\ \A k \in DOMAIN copy[t] : copy[t][k] = At(k - 1)
  BY DEF Stealing, Valid
<1>2. /\ copy[t] \in Seq(Nodes \cup {NoNode}) /\ size[t] \in Nat
      /\ DOMAIN copy[t] = 1..Len(copy[t]) /\ Len(copy[t]) \in Nat
  <2>1. Half(Capacity) \in Nat BY HalfIs, CapacityAssumption
  <2>2. copy[t] \in Seq(Nodes \cup {NoNode}) /\ size[t] \in 0..Half(Capacity)
    BY DEF TypeOK
  <2> QED BY <2>1, <2>2
<1>3. Len(copy[t]) <= size[t] BY <1>2 DEF Stealing
<1>4. Used \in Nat BY Ranges
<1>5. /\ Half(Used) \in Nat /\ Half(Used') \in Nat
      /\ Half(Used) <= Used /\ Half(Used) <= Half(Used')
  BY <1>4, HalfIs
<1>6. \A k \in DOMAIN copy[t] : k - 1 \in 0..Used - 1
  BY <1>1, <1>2, <1>3, <1>4, <1>5
<1>7. \A k \in DOMAIN copy[t] : At(k - 1)' = At(k - 1)
  BY <1>6
<1> QED BY <1>1, <1>2, <1>5, <1>7

LEMMA FirstIs ==
    ASSUME NEW S, NEW s \in Seq(S), NEW n \in Nat, n <= Len(s)
    PROVE  /\ DOMAIN SubSeq(s, 1, n) = 1..n
           /\ \A k \in 1..n : SubSeq(s, 1, n)[k] = s[k]
OBVIOUS

LEMMA RestIs ==
    ASSUME NEW S, NEW s \in Seq(S), NEW n \in Nat, n <= Len(s)
    PROVE  /\ SubSeq(s, n + 1, Len(s)) \in Seq(S)
           /\ Len(SubSeq(s, n + 1, Len(s))) = Len(s) - n
           /\ \A k \in 1..Len(s) - n : SubSeq(s, n + 1, Len(s))[k] = s[n + k]
OBVIOUS

\* What PushStore does, for this invariant and for the refinement.
LEMMA PushStoreEffect ==
    ASSUME IInv, PushStore
    PROVE  \E n \in 1..Len(list) :
             /\ array' \in [0..Capacity - 1 -> Nodes \cup {NoNode}]
             /\ otail' \in Indices
             /\ Filled' = Filled + n /\ Used' = Used /\ Used = Filled
             /\ Sub(head, ohead) + Filled + n <= Capacity
             /\ \A k \in 0..Filled - 1 : At(k)' = At(k)
             /\ \A k \in 1..n : NewAt(Filled + k - 1) = Placed + k
             /\ list' \in Seq(Nodes) /\ Len(list') = Len(list) - n
             /\ Placed' = Placed + n
             /\ \A k \in DOMAIN list' : list'[k] = Placed' + k
<1> DEFINE n == Min({Room, Len(list)})
           seq == SubSeq(list, 1, n)
<1>1. /\ opc = "push" /\ Room > 0 /\ list # <<>> /\ otail = tail
      /\ array' = Stored(otail, seq) /\ otail' = Add(otail, n)
      /\ list' = SubSeq(list, n + 1, Len(list))
      /\ head' = head /\ tail' = tail /\ made' = made
  BY DEF PushStore, IInv, Listed, Ordered
<1>2. /\ TypeOK /\ Used \in Nat /\ Filled \in Nat /\ Sub(head, ohead) \in Nat
      /\ Len(list) \in Nat /\ Len(list) > 0 /\ DOMAIN list = 1..Len(list)
      /\ list \in Seq(Nodes)
      /\ Placed \in Nat /\ Add(head, Filled) = otail
      /\ head \in Indices /\ otail \in Indices /\ ohead \in Indices
      /\ made \in Nat
  <2>1. TypeOK /\ list \in Seq(Nodes) /\ made \in Nat
        /\ head \in Indices /\ otail \in Indices /\ ohead \in Indices
    BY DEF IInv, TypeOK
  <2>2. Len(list) > 0 BY <1>1, <2>1
  <2> QED BY <2>1, <2>2, Ranges DEF IInv, Listed
<1>3. Sub(head, ohead) + Filled <= Capacity BY <1>1 DEF IInv, Ordered
<1>4. Room = Capacity - (Filled + Sub(head, ohead))
  BY <1>2, <1>3, SubChain, CapacityAssumption DEF Room, Filled
<1>5. /\ n \in Nat /\ n > 0 /\ n <= Len(list)
      /\ Sub(head, ohead) + Filled + n <= Capacity
  BY <1>1, <1>2, <1>3, <1>4, MinIs, CapacityAssumption
<1> HIDE DEF n
<1>6. /\ DOMAIN seq = 1..n /\ \A k \in 1..n : seq[k] = list[k] /\ seq[k] \in Nodes
  BY <1>2, <1>5
<1>7. /\ list' \in Seq(Nodes) /\ Len(list') = Len(list) - n
      /\ DOMAIN list' = 1..Len(list) - n
      /\ \A k \in 1..Len(list) - n : list'[k] = list[n + k]
  <2>1. list' \in Seq(Nodes) /\ Len(list') = Len(list) - n
    BY <1>1, <1>2, <1>5, RestIs
  <2>2. \A k \in 1..Len(list) - n : list'[k] = list[n + k]
    BY <1>1, <1>2, <1>5, RestIs
  <2> QED BY <2>1, <2>2
<1>8. Placed' = Placed + n
  <2>1. made' = made BY <1>1
  <2>2. Len(list') = Len(list) - n BY <1>7
  <2> QED BY <1>2, <1>5, <2>1, <2>2 DEF Placed
<1>9. \A k \in DOMAIN list' : list'[k] = Placed' + k
  <2>1. \A k \in 1..Len(list) : list[k] = Placed + k BY <1>2 DEF IInv, Listed
  <2>2. \A k \in 1..Len(list) - n : n + k \in 1..Len(list) BY <1>2, <1>5
  <2>3. \A k \in 1..Len(list) - n : list'[k] = Placed + (n + k) BY <1>7, <2>1, <2>2
  <2> QED BY <1>2, <1>5, <1>7, <1>8, <2>3
<1>10. /\ otail' \in Indices /\ Filled' = Filled + n
       /\ Used' = Used /\ Used = Filled
  <2>1. Sub(otail, head) + n < IndexSize
    BY <1>2, <1>5, CapacityAssumption DEF Filled
  <2>2. Sub(Add(otail, n), head) = Sub(otail, head) + n
    BY <1>2, <1>5, <2>1, SubOfAdd
  <2> QED BY <1>1, <1>2, <1>5, <2>2, AddRange DEF Filled, Used
<1> HIDE DEF seq
<1>11. /\ array' \in [0..Capacity - 1 -> Nodes \cup {NoNode}]
       /\ \A k \in 0..Filled - 1 : At(k)' = At(k)
       /\ \A k \in 1..n : NewAt(Filled + k - 1) = seq[k]
  <2>1. Filled + n <= Capacity /\ Filled < IndexSize
    BY <1>2, <1>5, CapacityAssumption
  <2>2. array' = Stored(Add(head, Filled), seq) BY <1>1, <1>2
  <2> QED BY <1>1, <1>2, <1>5, <1>6, <2>1, <2>2, StoredBehind
<1>12. \A k \in 1..n : NewAt(Filled + k - 1) = Placed + k
  <2>1. \A k \in 1..Len(list) : list[k] = Placed + k BY <1>2 DEF IInv, Listed
  <2>2. \A k \in 1..n : k \in 1..Len(list) BY <1>2, <1>5
  <2> QED BY <1>6, <1>11, <2>1, <2>2
<1>13. n \in 1..Len(list) BY <1>2, <1>5
<1> QED BY <1>5, <1>7, <1>8, <1>9, <1>10, <1>11, <1>12, <1>13

LEMMA PushStoreKeeps ==
    ASSUME IInv, PushStore
    PROVE  IInv'
<1>1. PICK n \in 1..Len(list) :
             /\ array' \in [0..Capacity - 1 -> Nodes \cup {NoNode}]
             /\ otail' \in Indices
             /\ Filled' = Filled + n /\ Used' = Used /\ Used = Filled
             /\ Sub(head, ohead) + Filled + n <= Capacity
             /\ \A k \in 0..Filled - 1 : At(k)' = At(k)
             /\ \A k \in 1..n : NewAt(Filled + k - 1) = Placed + k
             /\ list' \in Seq(Nodes) /\ Len(list') = Len(list) - n
             /\ Placed' = Placed + n
             /\ \A k \in DOMAIN list' : list'[k] = Placed' + k
  BY PushStoreEffect
<1>2. /\ UNCHANGED <<head, tail, ohead, made, given, spilled, thieves>>
      /\ opc' = "publish"
  BY DEF PushStore
<1>3. /\ Used \in Nat /\ Filled \in Nat /\ Placed \in Nat /\ n \in Nat /\ n > 0
      /\ Sub(head, ohead) \in Nat
  BY Ranges DEF IInv, Listed
<1>4. TypeOK' BY <1>1, <1>2 DEF IInv, TypeOK, OPCs, thieves
<1>5. Ordered'
  BY <1>1, <1>2, <1>3, CapacityAssumption DEF Ordered
<1>6. Listed' BY <1>1, <1>2, <1>3 DEF Listed
<1>7. Ring'
  <2>1. \A k \in 0..Filled' - 1 : k \in 0..Filled - 1 \/ \E j \in 1..n : k = Filled + j - 1
    <3> TAKE k \in 0..Filled' - 1
    <3> SUFFICES ASSUME k >= Filled PROVE \E j \in 1..n : k = Filled + j - 1
      BY <1>3
    <3>1. k - Filled + 1 \in 1..n BY <1>1, <1>3
    <3> QED BY <1>3, <3>1
  <2>2. \A k \in 0..Filled - 1 : At(k) \in (1..Placed) \ (given \cup spilled)
    BY DEF IInv, Ring
  <2>3. given' \cup spilled' \subseteq 1..Placed BY <1>2 DEF IInv, Ring
  <2>4. \A k \in 0..Filled' - 1 : At(k)' \in (1..Placed') \ (given' \cup spilled')
    <3> TAKE k \in 0..Filled' - 1
    <3>1. CASE k \in 0..Filled - 1 BY <1>1, <1>2, <1>3, <2>2, <3>1
    <3>2. ASSUME NEW j \in 1..n, k = Filled + j - 1
          PROVE  At(k)' \in (1..Placed') \ (given' \cup spilled')
      <4>1. At(k)' = Placed + j BY <1>1, <3>2 DEF At, NewAt
      <4> QED BY <1>1, <1>3, <2>3, <4>1
    <3> QED BY <2>1, <3>1, <3>2
  <2>5. \A j, k \in 0..Filled' - 1 : At(j)' = At(k)' => j = k
    <3> TAKE j, k \in 0..Filled' - 1
    <3> HAVE At(j)' = At(k)'
    <3>1. \A i \in 0..Filled - 1 : NewAt(i) = At(i) /\ At(i) \in 1..Placed
      BY <1>1, <2>2 DEF At, NewAt
    <3>2. \A i \in 1..n : NewAt(Filled + i - 1) = Placed + i BY <1>1
    <3>3. NewAt(j) = NewAt(k) BY DEF At, NewAt
    <3>4. CASE j \in 0..Filled - 1 /\ k \in 0..Filled - 1
      BY <3>1, <3>3, <3>4 DEF IInv, Ring
    <3>5. CASE j \in 0..Filled - 1 /\ k \notin 0..Filled - 1
      <4>1. PICK m \in 1..n : k = Filled + m - 1 BY <2>1, <3>5
      <4>2. NewAt(k) = Placed + m BY <3>2, <4>1
      <4>3. NewAt(j) \in 1..Placed BY <3>1, <3>5
      <4> QED BY <1>3, <3>3, <4>2, <4>3
    <3>6. CASE j \notin 0..Filled - 1 /\ k \in 0..Filled - 1
      <4>1. PICK m \in 1..n : j = Filled + m - 1 BY <2>1, <3>6
      <4>2. NewAt(j) = Placed + m BY <3>2, <4>1
      <4>3. NewAt(k) \in 1..Placed BY <3>1, <3>6
      <4> QED BY <1>3, <3>3, <4>2, <4>3
    <3>7. CASE j \notin 0..Filled - 1 /\ k \notin 0..Filled - 1
      <4>1. PICK m \in 1..n : j = Filled + m - 1 BY <2>1, <3>7
      <4>2. PICK l \in 1..n : k = Filled + l - 1 BY <2>1, <3>7
      <4>3. NewAt(j) = Placed + m /\ NewAt(k) = Placed + l BY <3>2, <4>1, <4>2
      <4> QED BY <1>3, <3>3, <4>1, <4>2, <4>3
    <3> QED BY <3>4, <3>5, <3>6, <3>7
  <2> QED BY <1>1, <1>3, <2>3, <2>4, <2>5 DEF Ring
<1>8. Stealing'
  BY <1>1, <1>2, <1>3, StealingKept DEF IInv
<1> QED BY <1>4, <1>5, <1>6, <1>7, <1>8 DEF IInv

LEMMA PushPublishKeeps ==
    ASSUME IInv, PushPublish
    PROVE  IInv'
<1>1. /\ UNCHANGED <<head, array, list, ohead, otail, made, given, spilled, thieves>>
      /\ opc = "publish" /\ tail' = otail
      /\ opc' = IF list = <<>> THEN "idle" ELSE "load"
  BY DEF PushPublish
<1>2. Used' = Filled /\ Filled' = Filled /\ Used \in Nat /\ Filled \in Nat /\ Used < Filled
  BY <1>1, Ranges DEF IInv, Ordered, Used, Filled
<1>3. TypeOK' BY <1>1 DEF IInv, TypeOK, OPCs, thieves
<1>4. Ordered' BY <1>1, <1>2 DEF IInv, Ordered
<1>5. Listed' BY <1>1 DEF IInv, Listed, Placed
<1>6. Ring' BY <1>1, RingSame DEF IInv
<1>7. Stealing'
  <2>1. \A k \in 0..Used - 1 : At(k)' = At(k) BY <1>1 DEF At
  <2> QED BY <1>1, <1>2, <2>1, StealingKept DEF IInv
<1> QED BY <1>3, <1>4, <1>5, <1>6, <1>7 DEF IInv

\* When head moves on by n, the n nodes in front are nobody else's, and the
\* others stay where they are.
LEMMA Took ==
    ASSUME IInv, NEW n \in 1..Used, MoveHead(n), UNCHANGED <<tail, otail, array>>
    PROVE  /\ NodesAt(head, n) \subseteq (1..Placed) \ (given \cup spilled)
           /\ \A k \in 0..Filled' - 1 :
                At(k)' \in (1..Placed) \ (given \cup spilled \cup NodesAt(head, n))
           /\ \A j, k \in 0..Filled' - 1 : At(j)' = At(k)' => j = k
<1>1. /\ Filled' = Filled - n /\ Filled \in Nat /\ n \in Nat /\ n <= Filled
      /\ \A k \in Nat : At(k)' = At(n + k)
  <2>1. Used \in Nat /\ Filled \in Nat /\ Used <= Filled BY Ranges DEF IInv, Ordered
  <2> QED BY <2>1, Moved DEF IInv
<1>2. NodesAt(head, n) = {At(k) : k \in 0..n - 1} BY DEF NodesAt, At
<1>3. /\ \A k \in 0..Filled - 1 : At(k) \in (1..Placed) \ (given \cup spilled)
      /\ \A j, k \in 0..Filled - 1 : At(j) = At(k) => j = k
  BY DEF IInv, Ring
<1>4. \A k \in 0..n - 1 : k \in 0..Filled - 1 BY <1>1
<1>5. \A k \in 0..Filled' - 1 : /\ n + k \in 0..Filled - 1 /\ n + k \notin 0..n - 1
                                /\ At(k)' = At(n + k)
  BY <1>1
<1>6. \A k \in 0..Filled' - 1 : At(n + k) \notin NodesAt(head, n)
  <2> TAKE k \in 0..Filled' - 1
  <2> SUFFICES ASSUME NEW j \in 0..n - 1, At(n + k) = At(j) PROVE FALSE
    BY <1>2
  <2> QED BY <1>3, <1>4, <1>5
<1>7. \A j, k \in 0..Filled' - 1 : At(j)' = At(k)' => j = k
  <2> TAKE j, k \in 0..Filled' - 1
  <2> HAVE At(j)' = At(k)'
  <2>1. n + j = n + k BY <1>3, <1>5
  <2> QED BY <1>1, <2>1
<1> QED BY <1>2, <1>3, <1>4, <1>5, <1>6, <1>7

LEMMA OrderedMoved ==
    ASSUME IInv, NEW n \in 1..Used, MoveHead(n), UNCHANGED <<tail, otail, ohead, array>>,
           opc' = opc \/ (opc' = "idle" /\ opc # "publish")
    PROVE  Ordered' /\ opc \notin {"empty", "fill"}
<1>1. /\ Used \in Nat /\ Filled \in Nat /\ Sub(head, ohead) \in Nat
      /\ n \in Nat /\ n > 0 /\ n <= Used /\ Used <= Filled /\ Filled <= Capacity
      /\ (Used = 0 <=> head = tail)
  BY Ranges DEF IInv, Ordered
<1>2. /\ Used' = Used - n /\ Filled' = Filled - n
      /\ Sub(head, ohead) + n < IndexSize => Sub(head', ohead) = Sub(head, ohead) + n
  BY <1>1, Moved DEF IInv
<1>3. opc \notin {"empty", "fill"} BY <1>1 DEF IInv, Ordered
<1>4. opc \in {"push", "publish", "pop"} => Sub(head', ohead') + Filled' <= Capacity
  BY <1>1, <1>2, CapacityAssumption DEF IInv, Ordered
<1> QED BY <1>1, <1>2, <1>3, <1>4, CapacityAssumption DEF IInv, Ordered

LEMMA StealingMoved ==
    ASSUME IInv, NEW n \in 1..Used, MoveHead(n), UNCHANGED <<tail, otail, array>>,
           UNCHANGED thieves
    PROVE  Stealing'
<1>1. \A t \in Thieves : tpc[t] # "idle" => thead[t] # head' BY Moved DEF IInv
<1> QED BY <1>1 DEF IInv, Stealing, Valid, thieves

\* What a full buffer gives away.
LEMMA PushOverflowEffect ==
    ASSUME IInv, PushOverflow
    PROVE  /\ Capacity \div 2 \in 1..Used /\ MoveHead(Capacity \div 2)
           /\ Used = Capacity /\ list # <<>> /\ DOMAIN list = 1..Len(list)
           /\ spilled' = spilled \cup NodesAt(head, Capacity \div 2)
                                 \cup {list[k] : k \in DOMAIN list}
           /\ {list[k] : k \in DOMAIN list} \subseteq (1..made) \ (1..Placed)
           /\ {list[k] : k \in DOMAIN list} # {}
           /\ Placed' = made /\ Placed \in Nat /\ Placed <= made /\ made \in Nat
<1>1. /\ opc = "push" /\ Room = 0 /\ head = ohead /\ list' = <<>> /\ made' = made
      /\ MoveHead(Capacity \div 2) /\ list # <<>> /\ otail = tail
      /\ spilled' = spilled \cup NodesAt(head, Capacity \div 2)
                            \cup {list[k] : k \in DOMAIN list}
  BY DEF PushOverflow, IInv, Listed, Ordered
<1>2. /\ Placed \in Nat /\ \A k \in DOMAIN list : list[k] = Placed + k
      /\ list \in Seq(Nodes) /\ Len(list) \in Nat /\ DOMAIN list = 1..Len(list)
      /\ made \in Nat
  BY Ranges DEF IInv, Listed, TypeOK
<1>3. Used = Capacity
  <2>1. Used = Capacity - Room BY <1>1, Ranges, CapacityAssumption DEF IInv, Used, Room, Filled
  <2> QED BY <1>1, <2>1, CapacityAssumption
<1>4. Capacity \div 2 \in 1..Used BY <1>3, CapacityAssumption
<1>5. made = Placed + Len(list) BY <1>2 DEF Placed
<1>6. Placed' = made BY <1>1, <1>2 DEF Placed
<1>7. {list[k] : k \in DOMAIN list} \subseteq (1..made) \ (1..Placed)
  BY <1>2, <1>5
<1>8. 1 \in DOMAIN list BY <1>1, <1>2
<1>9. Placed <= made BY <1>2, <1>5
<1>10. {list[k] : k \in DOMAIN list} # {} BY <1>8
<1> QED BY <1>1, <1>2, <1>3, <1>4, <1>6, <1>7, <1>9, <1>10

LEMMA PushOverflowKeeps ==
    ASSUME IInv, PushOverflow
    PROVE  IInv'
<1> DEFINE n == Capacity \div 2
           L == {list[k] : k \in DOMAIN list}
<1>1. /\ n \in 1..Used /\ MoveHead(n)
      /\ spilled' = spilled \cup NodesAt(head, n) \cup L
      /\ L \subseteq (1..made) \ (1..Placed)
      /\ Placed' = made /\ Placed \in Nat /\ Placed <= made /\ made \in Nat
  BY PushOverflowEffect
<1>2. /\ UNCHANGED <<tail, otail, ohead, array, thieves, made, given>>
      /\ opc = "push" /\ opc' = "idle" /\ list' = <<>>
  BY DEF PushOverflow
<1> HIDE DEF n, L
<1>3. /\ NodesAt(head, n) \subseteq (1..Placed) \ (given \cup spilled)
      /\ \A k \in 0..Filled' - 1 :
           At(k)' \in (1..Placed) \ (given \cup spilled \cup NodesAt(head, n))
      /\ \A j, k \in 0..Filled' - 1 : At(j)' = At(k)' => j = k
      /\ head' \in Indices
  BY <1>1, <1>2, Took, Moved DEF IInv
<1>4. given \cup spilled \subseteq 1..Placed /\ 1..made \subseteq Nodes
      /\ 1..Placed \subseteq 1..made
  BY <1>1, MaxNodesAssumption DEF IInv, Ring, TypeOK, Nodes
<1>5. spilled' \subseteq 1..made BY <1>1, <1>3, <1>4
<1>6. TypeOK' BY <1>2, <1>3, <1>4, <1>5 DEF IInv, TypeOK, OPCs, thieves
<1>7. Ordered' BY <1>1, <1>2, OrderedMoved
<1>8. Listed' BY <1>1, <1>2 DEF Listed
<1>9. Ring'
  <2>1. given' \cup spilled' \subseteq 1..Placed' BY <1>1, <1>2, <1>4, <1>5
  <2>2. \A k \in 0..Filled' - 1 : At(k)' \in (1..Placed') \ (given' \cup spilled')
    BY <1>1, <1>2, <1>3, <1>4
  <2> QED BY <1>3, <2>1, <2>2 DEF Ring
<1>10. Stealing' BY <1>1, <1>2, StealingMoved
<1> QED BY <1>6, <1>7, <1>8, <1>9, <1>10 DEF IInv

\* What pop() takes.
LEMMA PopCasEffect ==
    ASSUME IInv, PopCas
    PROVE  /\ 1 \in 1..Used /\ MoveHead(1)
           /\ given' = given \cup NodesAt(head, 1)
           /\ UNCHANGED <<tail, otail, ohead, array, list, thieves, made, spilled>>
           /\ opc' = "idle" /\ opc = "pop"
<1>1. /\ opc = "pop" /\ otail # ohead /\ head = ohead /\ MoveHead(1) /\ otail = tail
      /\ UNCHANGED <<tail, otail, ohead, array, list, thieves, made, spilled>>
      /\ opc' = "idle" /\ given' = given \cup {array[Slot(head)]}
  BY DEF PopCas, IInv, Ordered
<1>2. Used \in Nat /\ Used # 0 BY <1>1, Ranges DEF IInv
<1>3. Add(head, 0) = head
  <2>1. head \in Nat /\ head < IndexSize BY IndexIs DEF IInv, TypeOK
  <2> QED BY <2>1, CapacityAssumption DEF Add
<1>4. NodesAt(head, 1) = {array[Slot(head)]}
  <2>1. 0..1 - 1 = {0} OBVIOUS
  <2>2. NodesAt(head, 1) = {array[Slot(Add(head, k))] : k \in {0}} BY <2>1 DEF NodesAt
  <2> QED BY <1>3, <2>2
<1> QED BY <1>1, <1>2, <1>4

\* A step that takes n nodes from head on and gives them away.
LEMMA GiveKeeps ==
    ASSUME IInv, NEW n \in 1..Used, MoveHead(n), given' = given \cup NodesAt(head, n),
           UNCHANGED <<tail, otail, ohead, array, list, made, spilled>>,
           opc' = opc \/ (opc' = "idle" /\ opc = "pop")
    PROVE  /\ head' \in Indices /\ given' \subseteq Nodes \cup {NoNode}
           /\ Ordered' /\ Listed' /\ Ring'
<1>1. /\ NodesAt(head, n) \subseteq (1..Placed) \ (given \cup spilled)
      /\ \A k \in 0..Filled' - 1 :
           At(k)' \in (1..Placed) \ (given \cup spilled \cup NodesAt(head, n))
      /\ \A j, k \in 0..Filled' - 1 : At(j)' = At(k)' => j = k
      /\ head' \in Indices
  BY Took, Moved DEF IInv
<1>2. given \cup spilled \subseteq 1..Placed /\ Placed' = Placed
  BY DEF IInv, Ring, Placed
<1>3. 1..Placed \subseteq Nodes
  <2>1. Placed \in Nat /\ Placed <= made /\ made \in Nat /\ made <= MaxNodes
    BY Ranges, MaxNodesAssumption DEF IInv, Listed, TypeOK, Placed
  <2> QED BY <2>1, MaxNodesAssumption DEF Nodes
<1>4. given' \cup spilled' \subseteq 1..Placed BY <1>1, <1>2
<1>5. Ordered' /\ opc \notin {"empty", "fill"} BY OrderedMoved
<1>6. Listed' BY <1>2, <1>5 DEF IInv, Listed
<1>7. Ring' BY <1>1, <1>2, <1>4 DEF Ring
<1> QED BY <1>1, <1>3, <1>4, <1>5, <1>6, <1>7

LEMMA PopCasKeeps ==
    ASSUME IInv, PopCas
    PROVE  IInv'
<1>1. /\ 1 \in 1..Used /\ MoveHead(1) /\ given' = given \cup NodesAt(head, 1)
      /\ UNCHANGED <<tail, otail, ohead, array, list, thieves, made, spilled>>
      /\ opc' = "idle" /\ opc = "pop"
  BY PopCasEffect
<1>2. /\ head' \in Indices /\ given' \subseteq Nodes \cup {NoNode}
      /\ Ordered' /\ Listed' /\ Ring'
  BY <1>1, GiveKeeps
<1>3. TypeOK' BY <1>1, <1>2 DEF IInv, TypeOK, OPCs, thieves
<1>4. Stealing' BY <1>1, StealingMoved
<1> QED BY <1>2, <1>3, <1>4 DEF IInv

\* The copies of a thief whose exchange succeeds.
LEMMA StealCasEffect ==
    ASSUME IInv, NEW t \in Thieves, StealCas(t), head = thead[t]
    PROVE  /\ size[t] \in 1..Used /\ size[t] <= Half(Used) /\ MoveHead(size[t])
           /\ given' = given \cup NodesAt(head, size[t])
<1>1. /\ tpc[t] = "cas" /\ MoveHead(size[t])
      /\ given' = given \cup {copy[t][k] : k \in DOMAIN copy[t]}
  BY DEF StealCas
<1>2. /\ Len(copy[t]) = size[t] /\ size[t] > 0 /\ size[t] <= Half(Used)
      /\ \A k \in DOMAIN copy[t] : copy[t][k] = At(k - 1)
  BY <1>1 DEF IInv, Stealing, Valid
<1>3. /\ copy[t] \in Seq(Nodes \cup {NoNode}) /\ size[t] \in Nat
      /\ DOMAIN copy[t] = 1..Len(copy[t])
  BY <1>2 DEF IInv, TypeOK
<1>4. Used \in Nat BY Ranges DEF IInv
<1>5. Half(Used) <= Used /\ Half(Used) \in Nat BY <1>4, HalfIs
<1>6. size[t] \in 1..Used BY <1>2, <1>3, <1>4, <1>5
<1>7. {copy[t][k] : k \in DOMAIN copy[t]} = NodesAt(head, size[t])
  <2>1. {copy[t][k] : k \in DOMAIN copy[t]} = {At(k - 1) : k \in 1..size[t]}
    BY <1>2, <1>3
  <2>2. \A k \in 1..size[t] : k - 1 \in 0..size[t] - 1 BY <1>3
  <2>3. \A k \in 0..size[t] - 1 : k + 1 \in 1..size[t] /\ (k + 1) - 1 = k BY <1>3
  <2>4. {At(k - 1) : k \in 1..size[t]} = {At(k) : k \in 0..size[t] - 1}
    BY <2>2, <2>3
  <2> QED BY <2>1, <2>4 DEF NodesAt, At
<1> QED BY <1>1, <1>2, <1>6, <1>7

LEMMA StealCasKeeps ==
    ASSUME IInv, NEW t \in Thieves, StealCas(t)
    PROVE  IInv'
<1>1. /\ UNCHANGED <<tail, otail, ohead, array, list, opc, made, spilled>>
      /\ tpc' = [tpc EXCEPT ![t] = "idle"] /\ thead' = [thead EXCEPT ![t] = 0]
      /\ size' = [size EXCEPT ![t] = 0] /\ copy' = [copy EXCEPT ![t] = <<>>]
  BY DEF StealCas, owner
<1>2. head' \in Indices /\ given' \subseteq Nodes \cup {NoNode} /\ Ordered' /\ Listed' /\ Ring'
  <2>1. CASE head = thead[t]
    <3>1. PICK n \in 1..Used : MoveHead(n) /\ given' = given \cup NodesAt(head, n)
      BY <2>1, StealCasEffect
    <3>2. /\ UNCHANGED <<tail, otail, ohead, array, list, made, spilled>>
          /\ opc' = opc \/ (opc' = "idle" /\ opc = "pop")
      BY <1>1
    <3> QED BY <3>1, <3>2, GiveKeeps, Zenon
  <2>2. CASE head # thead[t]
    <3>1. head' = head /\ given' = given BY <2>2 DEF StealCas
    <3> QED BY <1>1, <3>1, RingSame
            DEF IInv, TypeOK, Ordered, Listed, Used, Filled, Placed, At
  <2> QED BY <2>1, <2>2
<1>3. TypeOK'
  <2>1. 0 \in Indices /\ 0 \in 0..Half(Capacity)
    BY HalfIs, IndexIs, CapacityAssumption
  <2>2. /\ tpc' \in [Thieves -> TPCs] /\ thead' \in [Thieves -> Indices]
        /\ size' \in [Thieves -> 0..Half(Capacity)]
        /\ copy' \in [Thieves -> Seq(Nodes \cup {NoNode})]
    BY <1>1, <2>1 DEF IInv, TypeOK, TPCs
  <2> QED BY <1>1, <1>2, <2>2 DEF IInv, TypeOK
<1>4. Stealing'
  <2>1. \A u \in Thieves \ {t} :
          /\ tpc'[u] = tpc[u] /\ thead'[u] = thead[u] /\ size'[u] = size[u]
          /\ copy'[u] = copy[u]
    BY <1>1 DEF IInv, TypeOK
  <2>2. tpc'[t] = "idle" /\ copy'[t] = <<>> BY <1>1 DEF IInv, TypeOK
  <2>3. CASE head = thead[t]
    <3>1. \A u \in Thieves : tpc[u] # "idle" => thead[u] # head'
      BY <1>1, <2>3, StealCasEffect, Moved DEF IInv
    <3> QED BY <2>1, <2>2, <3>1 DEF IInv, Stealing, Valid
  <2>4. CASE head # thead[t]
    <3>1. head' = head BY <2>4 DEF StealCas
    <3> QED BY <1>1, <2>1, <2>2, <3>1 DEF IInv, Stealing, Valid, Used, At
  <2> QED BY <2>3, <2>4
<1> QED BY <1>2, <1>3, <1>4 DEF IInv

LEMMA StealInVainKeeps ==
    ASSUME IInv, NEW n \in 1..Half(Capacity), StealInVain(n)
    PROVE  IInv'
<1>1. /\ opc = "empty" /\ array' = Stored(otail, [k \in 1..n |-> NoNode])
      /\ UNCHANGED <<head, tail, opc, list, ohead, otail, thieves, made, given, spilled>>
      /\ head = tail /\ otail = tail
  BY DEF StealInVain, IInv, Ordered, owner
<1>2. /\ Used = 0 /\ Filled = 0 /\ Used' = 0 /\ Filled' = 0
      /\ Add(head, 0) = otail
  BY <1>1, Ranges DEF IInv, Used, Filled
<1>3. n \in Nat /\ n <= Capacity
  <2>1. Half(Capacity) \in Nat /\ Half(Capacity) <= Capacity BY HalfIs, CapacityAssumption
  <2> QED BY <2>1, CapacityAssumption
<1>4. array' \in [0..Capacity - 1 -> Nodes \cup {NoNode}]
  <2> DEFINE seq == [k \in 1..n |-> NoNode]
  <2>1. DOMAIN seq = 1..n /\ \A k \in 1..n : seq[k] \in Nodes \cup {NoNode} OBVIOUS
  <2> HIDE DEF seq
  <2>2. array' = Stored(Add(head, 0), seq) BY <1>1, <1>2 DEF seq
  <2>3. 0 \in Nat /\ 0 + n <= Capacity /\ 0 < IndexSize BY <1>3, CapacityAssumption
  <2> QED BY <1>1, <1>3, <2>1, <2>2, <2>3, StoredBehind DEF IInv
<1>5. TypeOK' BY <1>1, <1>4 DEF IInv, TypeOK, thieves
<1>6. Ordered' BY <1>1, <1>2 DEF IInv, Ordered
<1>7. Listed' BY <1>1 DEF IInv, Listed, Placed
<1>8. Ring' BY <1>1, <1>2 DEF IInv, Ring, Placed
<1>9. Stealing' BY <1>1, <1>2, StealingKept DEF IInv
<1> QED BY <1>5, <1>6, <1>7, <1>8, <1>9 DEF IInv

LEMMA ConsumeKeeps ==
    ASSUME IInv, NEW n \in 1..Capacity + 1, Consume(n)
    PROVE  IInv'
<1>1. /\ opc = "empty" /\ opc' = "fill" /\ Make(n) /\ head = tail /\ otail = tail
      /\ list = <<>>
      /\ array' = Stored(otail, SubSeq(list', 1, Min({n, Capacity})))
      /\ UNCHANGED <<head, tail, ohead, otail, thieves, given, spilled>>
  BY DEF Consume, IInv, Ordered, Listed
<1>2. /\ Used = 0 /\ Filled = 0 /\ Used' = 0 /\ Filled' = 0
      /\ Add(head, 0) = otail /\ TypeOK
  BY <1>1, Ranges DEF IInv, Used, Filled
<1>3. n \in Nat /\ n > 0 /\ n <= Capacity + 1 /\ Capacity \in Nat BY CapacityAssumption
<1>4. /\ made' \in 0..MaxNodes /\ list' \in Seq(Nodes) /\ DOMAIN list' = 1..n
      /\ Len(list') = n /\ list' # <<>> /\ Placed' = Placed /\ Placed \in Nat
      /\ \A k \in 1..n : list'[k] = Placed + k /\ list'[k] \in Nodes
  BY <1>1, <1>2, <1>3, MakeList
<1>5. PICK m \in Nat : /\ m = Min({n, Capacity}) /\ m <= n /\ m <= Capacity
                       /\ \A k \in 1..n : k <= Capacity => k <= m
  <2>1. Min({n, Capacity}) = IF n <= Capacity THEN n ELSE Capacity BY <1>3, MinIs
  <2> QED BY <1>3, <2>1
<1> DEFINE seq == SubSeq(list', 1, m)
<1>6. /\ DOMAIN seq = 1..m
      /\ \A k \in 1..m : seq[k] = list'[k] /\ seq[k] \in Nodes \cup {NoNode}
  <2>1. DOMAIN seq = 1..m /\ \A k \in 1..m : seq[k] = list'[k]
    BY <1>4, <1>5, FirstIs
  <2>2. \A k \in 1..m : k \in 1..n BY <1>3, <1>5
  <2> QED BY <1>4, <2>1, <2>2
<1>7. /\ array' \in [0..Capacity - 1 -> Nodes \cup {NoNode}]
      /\ \A k \in 1..m : NewAt(0 + k - 1) = seq[k]
  <2>1. array' = Stored(Add(head, 0), seq) BY <1>1, <1>2, <1>5
  <2> HIDE DEF seq
  <2>2. 0 \in Nat /\ 0 + m <= Capacity /\ 0 < IndexSize BY <1>5, CapacityAssumption
  <2>3. DOMAIN seq = 1..m /\ \A k \in 1..m : seq[k] \in Nodes \cup {NoNode} BY <1>6
  <2>4. head' = head /\ m \in Nat BY <1>1
  <2> QED BY <2>1, <2>2, <2>3, <2>4, StoredBehind DEF IInv
<1>8. TypeOK' BY <1>1, <1>4, <1>7 DEF IInv, TypeOK, thieves, OPCs
<1>9. Ordered' BY <1>1, <1>2, CapacityAssumption DEF Ordered
<1>10. Listed'
  <2>1. ASSUME NEW k \in 1..n, k <= Capacity PROVE At(k - 1)' = list'[k]
    <3>1. k \in 1..m /\ 0 + k - 1 = k - 1 BY <1>3, <1>5, <2>1
    <3>2. seq[k] = list'[k] BY <1>6, <3>1
    <3> HIDE DEF seq
    <3> QED BY <1>7, <3>1, <3>2 DEF At, NewAt
  <2> QED BY <1>1, <1>3, <1>4, <2>1 DEF Listed
<1>11. Ring' BY <1>1, <1>2, <1>4 DEF IInv, Ring
<1>12. Stealing' BY <1>1, <1>2, StealingKept DEF IInv
<1> QED BY <1>8, <1>9, <1>10, <1>11, <1>12 DEF IInv

\* What consume() publishes.
LEMMA ConsumePublishEffect ==
    ASSUME IInv, ConsumePublish
    PROVE  /\ Used = 0 /\ Filled = 0 /\ Len(list) \in 1..Capacity + 1
           /\ otail' \in Indices /\ tail' = otail'
           /\ Used' = Len(list) - 1 /\ Filled' = Len(list) - 1
           /\ \A k \in 0..Len(list) - 2 : At(k)' = Placed + k + 1
           /\ given' = given \cup {Placed + Len(list)}
           /\ Placed \in Nat /\ Placed' = Placed + Len(list) /\ Placed' = made
           /\ Placed' <= MaxNodes
           /\ UNCHANGED <<head, array, ohead, thieves, made, spilled>>
           /\ list' = <<>> /\ opc = "fill" /\ opc' = "idle"
<1>1. /\ opc = "fill" /\ opc' = "idle" /\ list' = <<>> /\ head = tail /\ otail = tail
      /\ otail' = Add(otail, Len(list) - 1) /\ tail' = otail'
      /\ given' = given \cup {list[Len(list)]} /\ list # <<>>
      /\ UNCHANGED <<head, array, ohead, thieves, made, spilled>>
      /\ Len(list) <= Capacity + 1
      /\ \A k \in DOMAIN list : k <= Capacity => At(k - 1) = list[k]
  BY DEF ConsumePublish, IInv, Ordered, Listed
<1>2. /\ list \in Seq(Nodes) /\ Len(list) \in Nat /\ DOMAIN list = 1..Len(list)
      /\ made \in Nat /\ made <= MaxNodes /\ Placed \in Nat
      /\ \A k \in DOMAIN list : list[k] = Placed + k
      /\ head \in Indices /\ tail \in Indices
  BY MaxNodesAssumption DEF IInv, TypeOK, Listed
<1>3. Len(list) \in 1..Capacity + 1 /\ Len(list) - 1 \in Nat /\ Len(list) - 1 < IndexSize
  <2>1. Len(list) # 0 BY <1>1, <1>2
  <2> QED BY <1>1, <1>2, <2>1, CapacityAssumption
<1>4. Used = 0 /\ Filled = 0 BY <1>1, Ranges DEF IInv, Used, Filled
<1>5. otail' \in Indices BY <1>1, <1>2, <1>3, AddRange
<1>6. Used' = Len(list) - 1 /\ Filled' = Len(list) - 1
  <2>1. Sub(tail, head) = 0 BY <1>4 DEF Used
  <2>2. Sub(Add(tail, Len(list) - 1), head) = Sub(tail, head) + (Len(list) - 1)
    BY <1>2, <1>3, <2>1, SubOfAdd
  <2> QED BY <1>1, <1>3, <2>1, <2>2 DEF Used, Filled
<1>7. ASSUME NEW k \in 0..Len(list) - 2 PROVE At(k)' = Placed + k + 1
  <2>1. k + 1 \in DOMAIN list /\ k + 1 <= Capacity /\ (k + 1) - 1 = k
    BY <1>2, <1>3, CapacityAssumption
  <2>2. At(k) = list[k + 1] BY <1>1, <2>1
  <2>3. At(k)' = At(k) BY <1>1 DEF At
  <2>4. list[k + 1] = Placed + (k + 1) BY <1>2, <2>1
  <2> QED BY <1>2, <2>2, <2>3, <2>4
<1>8. Placed' = Placed + Len(list) /\ Placed' = made
  BY <1>1, <1>2 DEF Placed
<1>9. list[Len(list)] = Placed + Len(list) BY <1>2, <1>3
<1> QED BY <1>1, <1>2, <1>3, <1>4, <1>5, <1>6, <1>7, <1>8, <1>9

LEMMA ConsumePublishKeeps ==
    ASSUME IInv, ConsumePublish
    PROVE  IInv'
<1>1. /\ Used = 0 /\ Filled = 0 /\ Len(list) \in 1..Capacity + 1
      /\ otail' \in Indices /\ tail' = otail'
      /\ Used' = Len(list) - 1 /\ Filled' = Len(list) - 1
      /\ \A k \in 0..Len(list) - 2 : At(k)' = Placed + k + 1
      /\ given' = given \cup {Placed + Len(list)}
      /\ Placed \in Nat /\ Placed' = Placed + Len(list) /\ Placed' = made
      /\ Placed' <= MaxNodes
      /\ UNCHANGED <<head, array, ohead, thieves, made, spilled>>
      /\ list' = <<>> /\ opc = "fill" /\ opc' = "idle"
  BY ConsumePublishEffect
<1>2. given \cup spilled \subseteq 1..Placed BY DEF IInv, Ring
<1>3. /\ Placed + Len(list) \in Nodes /\ Len(list) \in Nat /\ Len(list) > 0
      /\ 1..Placed \subseteq 1..Placed'
  BY <1>1, CapacityAssumption, MaxNodesAssumption DEF Nodes
<1>4. TypeOK' BY <1>1, <1>3 DEF IInv, TypeOK, thieves, OPCs
<1>5. Ordered' BY <1>1, <1>3, CapacityAssumption DEF Ordered
<1>6. Listed' BY <1>1, <1>3 DEF Listed
<1>7. Ring'
  <2>1. \A k \in 0..Filled' - 1 : k \in 0..Len(list) - 2 /\ k \in Nat BY <1>1, <1>3
  <2>2. given' \cup spilled' \subseteq 1..Placed'
    <3>1. Placed + Len(list) \in 1..Placed' BY <1>1, <1>3
    <3> QED BY <1>1, <1>2, <1>3, <3>1
  <2>3. \A k \in 0..Len(list) - 2 :
          /\ Placed + k + 1 \in 1..Placed'
          /\ Placed + k + 1 \notin 1..Placed /\ Placed + k + 1 # Placed + Len(list)
    BY <1>1, <1>3
  <2>4. \A k \in 0..Filled' - 1 : At(k)' \in (1..Placed') \ (given' \cup spilled')
    <3> TAKE k \in 0..Filled' - 1
    <3>1. k \in 0..Len(list) - 2 /\ At(k)' = Placed + k + 1 BY <1>1, <2>1
    <3>2. Placed + k + 1 \notin given' \cup spilled' BY <1>1, <1>2, <2>3, <3>1
    <3> QED BY <2>3, <3>1, <3>2
  <2>5. \A j, k \in 0..Filled' - 1 : At(j)' = At(k)' => j = k
    <3> TAKE j, k \in 0..Filled' - 1
    <3>1. At(j)' = Placed + j + 1 /\ At(k)' = Placed + k + 1 BY <1>1, <2>1
    <3> QED BY <1>1, <2>1, <3>1
  <2> QED BY <2>2, <2>4, <2>5 DEF Ring
<1>8. Stealing'
  <2>1. Used' \in Nat /\ Used <= Used' BY <1>1, <1>3
  <2> QED BY <1>1, <2>1, StealingKept DEF IInv
<1> QED BY <1>4, <1>5, <1>6, <1>7, <1>8 DEF IInv

\* A thief that looks does not disturb the owner.
LEMMA ThiefOnly ==
    ASSUME Ordered, Listed, Ring, UNCHANGED <<buffer, owner, made, given, spilled>>
    PROVE  Ordered' /\ Listed' /\ Ring'
BY DEF Ordered, Listed, Ring, Used, Filled, Placed, At, buffer, owner

LEMMA StealHeadKeeps ==
    ASSUME IInv, NEW t \in Thieves, StealHead(t)
    PROVE  IInv'
<1>1. /\ thead' = [thead EXCEPT ![t] = head] /\ tpc[t] = "idle"
      /\ tpc' = [tpc EXCEPT ![t] = "tail"]
      /\ UNCHANGED <<buffer, owner, size, copy, made, given, spilled>>
  BY DEF StealHead
<1>2. TypeOK' BY <1>1 DEF IInv, TypeOK, TPCs, buffer, owner
<1>3. Ordered' /\ Listed' /\ Ring' BY <1>1, ThiefOnly DEF IInv
<1>4. Stealing'
  <2>1. \A u \in Thieves \ {t} : tpc'[u] = tpc[u] /\ thead'[u] = thead[u]
    BY <1>1 DEF IInv, TypeOK
  <2>2. tpc'[t] = "tail" /\ copy[t] = <<>> BY <1>1 DEF IInv, TypeOK, Stealing
  <2> QED BY <1>1, <2>1, <2>2 DEF IInv, Stealing, Valid, Used, At, buffer
<1> QED BY <1>2, <1>3, <1>4 DEF IInv

LEMMA StealTailKeeps ==
    ASSUME IInv, NEW t \in Thieves, StealTail(t)
    PROVE  IInv'
<1> DEFINE n == Sub(tail, thead[t])
<1>1. /\ tpc[t] = "tail" /\ UNCHANGED <<buffer, owner, copy, made, given, spilled>>
      /\ \/ /\ tpc' = [tpc EXCEPT ![t] = "idle"] /\ thead' = [thead EXCEPT ![t] = 0]
            /\ size' = size
         \/ /\ n \in 1..Capacity /\ size' = [size EXCEPT ![t] = Half(n)]
            /\ tpc' = [tpc EXCEPT ![t] = "copy"] /\ thead' = thead
  BY DEF StealTail
<1>2. copy[t] = <<>> /\ copy' = copy BY <1>1 DEF IInv, Stealing
<1>3. n \in 1..Capacity => Half(n) \in 0..Half(Capacity) /\ Half(n) > 0
  BY HalfIs, CapacityAssumption
<1>4. thead[t] = head => n = Used BY DEF Used
<1> HIDE DEF n
<1>5. TypeOK'
  <2>1. 0 \in Indices BY IndexIs, CapacityAssumption
  <2>2. /\ tpc' \in [Thieves -> TPCs] /\ thead' \in [Thieves -> Indices]
        /\ size' \in [Thieves -> 0..Half(Capacity)]
    BY <1>1, <1>3, <2>1 DEF IInv, TypeOK, TPCs
  <2> QED BY <1>1, <2>2 DEF IInv, TypeOK, buffer, owner
<1>6. Ordered' /\ Listed' /\ Ring' BY <1>1, ThiefOnly DEF IInv
<1>7. Stealing'
  <2>1. \A u \in Thieves \ {t} :
          tpc'[u] = tpc[u] /\ thead'[u] = thead[u] /\ size'[u] = size[u]
    BY <1>1 DEF IInv, TypeOK
  <2>2. \/ tpc'[t] = "idle"
        \/ /\ tpc'[t] = "copy" /\ size'[t] = Half(n) /\ thead'[t] = thead[t]
           /\ n \in 1..Capacity
    BY <1>1 DEF IInv, TypeOK
  <2>3. head' = head /\ Used' = Used /\ \A k \in Nat : At(k)' = At(k)
    BY <1>1 DEF buffer, Used, At
  <2>4. ASSUME NEW u \in Thieves \ {t}
        PROVE  /\ tpc'[u] \in {"idle", "tail"} => copy'[u] = <<>>
               /\ tpc'[u] = "copy" => Len(copy'[u]) < size'[u]
               /\ tpc'[u] = "cas" => Len(copy'[u]) = size'[u] /\ size'[u] > 0
               /\ tpc'[u] \in {"copy", "cas"} => Valid(u)'
    BY <1>1, <1>2, <2>1 DEF IInv, Stealing, Valid, buffer, Used, At
  <2>5. /\ tpc'[t] \in {"idle", "tail"} => copy'[t] = <<>>
        /\ tpc'[t] = "copy" => Len(copy'[t]) < size'[t]
        /\ tpc'[t] = "cas" => Len(copy'[t]) = size'[t] /\ size'[t] > 0
    BY <1>2, <1>3, <2>2
  <2>6. tpc'[t] \in {"copy", "cas"} => Valid(t)'
    <3> HAVE tpc'[t] \in {"copy", "cas"}
    <3>1. size'[t] = Half(n) /\ thead'[t] = thead[t] /\ n \in 1..Capacity BY <2>2
    <3>2. thead'[t] = head' => size'[t] <= Half(Used')
      <4> HAVE thead'[t] = head'
      <4>1. Half(Used) \in Nat BY Ranges, HalfIs DEF IInv
      <4> QED BY <1>4, <2>3, <3>1, <4>1
    <3>3. DOMAIN copy'[t] = {} BY <1>2
    <3> QED BY <3>2, <3>3 DEF Valid
  <2> QED BY <2>4, <2>5, <2>6 DEF Stealing
<1> QED BY <1>5, <1>6, <1>7 DEF IInv

LEMMA StealCopyKeeps ==
    ASSUME IInv, NEW t \in Thieves, StealCopy(t)
    PROVE  IInv'
<1> DEFINE node == array[Slot(Add(thead[t], Len(copy[t])))]
<1>1. /\ tpc[t] = "copy"
      /\ copy' = [copy EXCEPT ![t] = Append(copy[t], node)]
      /\ tpc' = [tpc EXCEPT ![t] = IF Len(copy'[t]) = size[t] THEN "cas" ELSE "copy"]
      /\ UNCHANGED <<buffer, owner, thead, size, made, given, spilled>>
  BY DEF StealCopy
<1>2. /\ copy \in [Thieves -> Seq(Nodes \cup {NoNode})]
      /\ copy[t] \in Seq(Nodes \cup {NoNode}) /\ thead[t] \in Indices
      /\ Len(copy[t]) \in Nat /\ Len(copy[t]) < size[t] /\ size[t] \in 0..Half(Capacity)
  BY <1>1 DEF IInv, TypeOK, Stealing
<1>3. node \in Nodes \cup {NoNode}
  <2>1. Slot(Add(thead[t], Len(copy[t]))) \in 0..Capacity - 1 BY <1>2, SlotIs
  <2> QED BY <2>1 DEF IInv, TypeOK
<1>4. thead[t] = head => node = At(Len(copy[t])) BY DEF At
<1> HIDE DEF node
<1>5. /\ copy'[t] \in Seq(Nodes \cup {NoNode}) /\ Len(copy'[t]) = Len(copy[t]) + 1
      /\ DOMAIN copy'[t] = 1..Len(copy[t]) + 1 /\ DOMAIN copy[t] = 1..Len(copy[t])
      /\ copy'[t][Len(copy[t]) + 1] = node
      /\ \A k \in 1..Len(copy[t]) : copy'[t][k] = copy[t][k]
  BY <1>1, <1>2, <1>3
<1>6. size[t] \in Nat
  <2>1. Half(Capacity) \in Nat BY HalfIs, CapacityAssumption
  <2> QED BY <1>2, <2>1
<1>7. TypeOK'
  <2>1. tpc' \in [Thieves -> TPCs] BY <1>1 DEF IInv, TypeOK, TPCs
  <2>2. copy' \in [Thieves -> Seq(Nodes \cup {NoNode})] BY <1>1, <1>2, <1>5
  <2> QED BY <1>1, <2>1, <2>2 DEF IInv, TypeOK, buffer, owner
<1>8. Ordered' /\ Listed' /\ Ring' BY <1>1, ThiefOnly DEF IInv
<1>9. Stealing'
  <2>1. \A u \in Thieves \ {t} : tpc'[u] = tpc[u] /\ copy'[u] = copy[u]
    BY <1>1 DEF IInv, TypeOK
  <2>2. /\ tpc'[t] = IF Len(copy[t]) + 1 = size[t] THEN "cas" ELSE "copy"
    BY <1>1, <1>5 DEF IInv, TypeOK
  <2>3. ASSUME NEW u \in Thieves \ {t}
        PROVE  /\ tpc'[u] \in {"idle", "tail"} => copy'[u] = <<>>
               /\ tpc'[u] = "copy" => Len(copy'[u]) < size'[u]
               /\ tpc'[u] = "cas" => Len(copy'[u]) = size'[u] /\ size'[u] > 0
               /\ tpc'[u] \in {"copy", "cas"} => Valid(u)'
    BY <1>1, <2>1 DEF IInv, Stealing, Valid, buffer, Used, At
  <2>4. /\ tpc'[t] \in {"idle", "tail"} => copy'[t] = <<>>
        /\ tpc'[t] = "copy" => Len(copy'[t]) < size'[t]
        /\ tpc'[t] = "cas" => Len(copy'[t]) = size'[t] /\ size'[t] > 0
    BY <1>1, <1>2, <1>5, <1>6, <2>2
  <2>5. Valid(t)'
    <3>1. Valid(t) BY <1>1 DEF IInv, Stealing
    <3> SUFFICES ASSUME thead[t] = head
                 PROVE  /\ size[t] <= Half(Used)
                        /\ \A k \in DOMAIN copy'[t] : copy'[t][k] = At(k - 1)
      BY <1>1 DEF Valid, Used, At, buffer
    <3>2. size[t] <= Half(Used) /\ \A k \in 1..Len(copy[t]) : copy[t][k] = At(k - 1)
      BY <1>5, <3>1 DEF Valid
    <3>3. \A k \in DOMAIN copy'[t] : k \in 1..Len(copy[t])
                                       \/ (k = Len(copy[t]) + 1 /\ k - 1 = Len(copy[t]))
      BY <1>2, <1>5
    <3> QED BY <1>4, <1>5, <3>2, <3>3
  <2> QED BY <2>3, <2>4, <2>5 DEF Stealing
<1> QED BY <1>7, <1>8, <1>9 DEF IInv

LEMMA InitHolds == Init => IInv
<1> SUFFICES ASSUME Init PROVE IInv OBVIOUS
<1>1. Start \in Indices /\ 0 \in Indices /\ 0 \in 0..Half(Capacity)
  BY StartAssumption, CapacityAssumption, HalfIs, IndexIs DEF Indices
<1>2. TypeOK
  BY <1>1, MaxNodesAssumption DEF Init, TypeOK, OPCs, TPCs
<1>3. Used = 0 /\ Filled = 0 BY <1>1, SubRange DEF Init, Used, Filled
<1>4. Placed = 0
  <2>1. made = 0 BY DEF Init
  <2>2. Len(list) = 0 BY DEF Init
  <2> QED BY <2>1, <2>2 DEF Placed
<1>5. Ordered BY <1>3, CapacityAssumption DEF Init, Ordered
<1>6. Listed BY <1>4 DEF Init, Listed
<1>7. Ring BY <1>3, <1>4 DEF Init, Ring
<1>8. Stealing BY DEF Init, Stealing
<1> QED BY <1>2, <1>5, <1>6, <1>7, <1>8 DEF IInv

LEMMA StepKeeps == IInv /\ [Next]_vars => IInv'
<1> SUFFICES ASSUME IInv, [Next]_vars PROVE IInv' OBVIOUS
<1>1. CASE UNCHANGED vars
  <2>1. UNCHANGED <<buffer, owner, thieves, made, given, spilled>> BY <1>1 DEF vars
  <2>2. TypeOK' BY <2>1 DEF IInv, TypeOK, buffer, owner, thieves
  <2>3. Stealing' BY <2>1, StealingSame DEF IInv, buffer
  <2> QED BY <2>1, <2>2, <2>3, ThiefOnly DEF IInv
<1>2. CASE PushLoad \/ PushRetry \/ Pop \/ PopRetry \/ PopNone \/ FoundNothing
  BY <1>2, OwnerLooks
<1>3. CASE PushStore BY <1>3, PushStoreKeeps
<1>4. CASE PushPublish BY <1>4, PushPublishKeeps
<1>5. CASE PushOverflow BY <1>5, PushOverflowKeeps
<1>6. CASE PopCas BY <1>6, PopCasKeeps
<1>7. CASE ConsumePublish BY <1>7, ConsumePublishKeeps
<1>8. CASE \E n \in 1..MaxList : Push(n) BY <1>8, PushKeeps
<1>9. CASE \E n \in 1..Capacity + 1 : Consume(n) BY <1>9, ConsumeKeeps
<1>10. CASE \E n \in 1..Half(Capacity) : StealInVain(n) BY <1>10, StealInVainKeeps
<1>11. CASE \E t \in Thieves : StealHead(t) BY <1>11, StealHeadKeeps
<1>12. CASE \E t \in Thieves : StealTail(t) BY <1>12, StealTailKeeps
<1>13. CASE \E t \in Thieves : StealCopy(t) BY <1>13, StealCopyKeeps
<1>14. CASE \E t \in Thieves : StealCas(t) BY <1>14, StealCasKeeps
<1> QED BY <1>1, <1>2, <1>3, <1>4, <1>5, <1>6, <1>7, <1>8, <1>9, <1>10, <1>11, <1>12,
           <1>13, <1>14 DEF Next, OwnerStep, ThiefStep

\* The inductive invariant of the run buffer holds: node::Buffer under its owner
\* and any number of thieves.
THEOREM RunBufferInvariant == Spec => []IInv
BY InitHolds, StepKeeps, PTL DEF Spec

\* The assertions on the size in push, pop, consume and steal of node::Buffer hold,
\* for any capacity that divides the number of indices, however often they wrap.
THEOREM RunBufferSizeIsBounded == Spec => []SizeIsBounded
<1>1. IInv => SizeIsBounded
  <2> SUFFICES ASSUME IInv PROVE SizeIsBounded OBVIOUS
  <2>1. /\ Used \in Nat /\ Filled \in Nat /\ Sub(head, ohead) \in Nat
        /\ Used <= Filled /\ Filled <= Capacity
    BY Ranges DEF IInv, Ordered
  <2>2. head \in Indices /\ otail \in Indices /\ ohead \in Indices BY DEF IInv, TypeOK
  <2>3. ASSUME opc \in {"push", "pop"} PROVE Sub(otail, ohead) <= Capacity
    <3>1. Sub(head, ohead) + Filled <= Capacity BY <2>3 DEF IInv, Ordered
    <3>2. Sub(otail, ohead) = Sub(otail, head) + Sub(head, ohead)
      BY <2>1, <2>2, <3>1, SubChain, CapacityAssumption DEF Filled
    <3> QED BY <2>1, <3>1, <3>2 DEF Filled
  <2>4. Sub(tail, head) <= Capacity BY <2>1, CapacityAssumption DEF Used
  <2> QED BY <2>3, <2>4 DEF IInv, Ordered, SizeIsBounded
<1> QED BY <1>1, RunBufferInvariant, PTL

-----------------------------------------------------------------------------
(* The ring is a set of nodes.                                             *)

\* m different nodes in a row are a set of m nodes.
LEMMA Count ==
    ASSUME NEW m \in Nat, NEW T, NEW f \in [0..m - 1 -> T],
           \A x \in T : \E k \in 0..m - 1 : f[k] = x,
           \A j, k \in 0..m - 1 : f[j] = f[k] => j = k
    PROVE  IsFiniteSet(T) /\ Cardinality(T) = m
<1> DEFINE I == 0..m - 1
<1>1. IsFiniteSet(I) /\ Cardinality(I) = m
  <2>1. 0 \in Int /\ m - 1 \in Int OBVIOUS
  <2> QED BY <2>1, FS_Interval
<1>2. f \in Surjection(I, T) BY DEF Surjection
<1>3. f \in Injection(I, T) BY DEF Injection, IsInjective
<1> QED BY <1>1, <1>2, <1>3, FS_Surjection

\* BufferSpec counts as we do.
LEMMA Counts == \A S : BS!Cardinality(S) = Cardinality(S)
BY DEF BS!Cardinality, Cardinality

LEMMA CountAt ==
    ASSUME IInv, NEW m \in Nat, m <= Filled
    PROVE  /\ IsFiniteSet({At(k) : k \in 0..m - 1})
           /\ Cardinality({At(k) : k \in 0..m - 1}) = m
<1> DEFINE f == [k \in 0..m - 1 |-> At(k)]
           T == {At(k) : k \in 0..m - 1}
<1>1. \A k \in 0..m - 1 : k \in 0..Filled - 1 BY Ranges DEF IInv
<1>2. \A j, k \in 0..m - 1 : f[j] = f[k] => j = k BY <1>1 DEF IInv, Ring
<1>3. f \in [0..m - 1 -> T] OBVIOUS
<1>4. \A x \in T : \E k \in 0..m - 1 : f[k] = x OBVIOUS
<1> HIDE DEF f, T
<1>5. IsFiniteSet(T) /\ Cardinality(T) = m
  BY <1>2, <1>3, <1>4, Count
<1> QED BY <1>5 DEF T

LEMMA ItemsAre ==
    ASSUME IInv
    PROVE  /\ Items = {At(k) : k \in 0..Used - 1}
           /\ IsFiniteSet(Items) /\ Cardinality(Items) = Used
           /\ Items \subseteq (1..Placed) \ (given \cup spilled)
           /\ (1..Placed) \subseteq Nodes /\ given \cup spilled \subseteq 1..Placed
<1>1. Items = {At(k) : k \in 0..Used - 1} BY DEF Items, NodesAt, At, Used
<1>2. Used \in Nat /\ Filled \in Nat /\ Used <= Filled BY Ranges DEF IInv, Ordered
<1>3. IsFiniteSet(Items) /\ Cardinality(Items) = Used BY <1>1, <1>2, CountAt
<1>4. \A k \in 0..Used - 1 : k \in 0..Filled - 1 BY <1>2
<1>5. Items \subseteq (1..Placed) \ (given \cup spilled) BY <1>1, <1>4 DEF IInv, Ring
<1>6. (1..Placed) \subseteq Nodes
  <2>1. Placed \in Nat /\ Placed <= made /\ made \in Nat /\ made <= MaxNodes
    BY Ranges, MaxNodesAssumption DEF IInv, Listed, TypeOK, Placed
  <2> QED BY <2>1, MaxNodesAssumption DEF Nodes
<1>7. given \cup spilled \subseteq 1..Placed BY DEF IInv, Ring
<1> QED BY <1>1, <1>3, <1>5, <1>6, <1>7

\* A move of head by n takes n items out.
LEMMA TookItems ==
    ASSUME IInv, NEW n \in 1..Used, MoveHead(n), UNCHANGED <<tail, otail, array>>
    PROVE  /\ Items' = Items \ NodesAt(head, n)
           /\ NodesAt(head, n) \subseteq Items /\ NodesAt(head, n) # {}
           /\ IsFiniteSet(NodesAt(head, n)) /\ Cardinality(NodesAt(head, n)) = n
<1>1. /\ Used \in Nat /\ Filled \in Nat /\ Used <= Filled /\ n \in Nat /\ n <= Used
      /\ Used' = Used - n /\ \A k \in Nat : At(k)' = At(n + k)
  <2>1. Used \in Nat /\ Filled \in Nat /\ Used <= Filled BY Ranges DEF IInv, Ordered
  <2> QED BY <2>1, Moved DEF IInv
<1>2. NodesAt(head, n) = {At(k) : k \in 0..n - 1} BY DEF NodesAt, At
<1>3. Items = {At(k) : k \in 0..Used - 1} BY ItemsAre
<1>4. IsFiniteSet(NodesAt(head, n)) /\ Cardinality(NodesAt(head, n)) = n
  BY <1>1, <1>2, CountAt
<1>5. NodesAt(head, n) \subseteq Items
  <2>1. \A k \in 0..n - 1 : k \in 0..Used - 1 BY <1>1
  <2> QED BY <1>2, <1>3, <2>1
<1>6. At(0) \in NodesAt(head, n)
  <2>1. 0 \in 0..n - 1 BY <1>1
  <2> QED BY <1>2, <2>1
<1>7. Items' = {At(n + k) : k \in 0..Used - n - 1}
  <2>1. Items' = {At(k)' : k \in 0..Used' - 1} BY DEF Items, NodesAt, At, Used
  <2>2. \A k \in 0..Used - n - 1 : At(k)' = At(n + k) BY <1>1
  <2> QED BY <1>1, <2>1, <2>2
<1>8. \A j, k \in 0..Used - 1 : At(j) = At(k) => j = k
  <2>1. \A k \in 0..Used - 1 : k \in 0..Filled - 1 BY <1>1
  <2> QED BY <2>1 DEF IInv, Ring
<1>9. \A k \in 0..Used - n - 1 : n + k \in 0..Used - 1 /\ n + k \notin 0..n - 1
  BY <1>1
<1>10. \A k \in 0..Used - 1 : k \in 0..n - 1 \/ \E j \in 0..Used - n - 1 : k = n + j
  <2> TAKE k \in 0..Used - 1
  <2> SUFFICES ASSUME k >= n PROVE \E j \in 0..Used - n - 1 : k = n + j BY <1>1
  <2>1. k - n \in 0..Used - n - 1 /\ k = n + (k - n) BY <1>1
  <2> QED BY <2>1
<1>11. \A k \in 0..n - 1 : k \in 0..Used - 1 BY <1>1
<1>12. Items \ NodesAt(head, n) \subseteq Items'
  BY <1>2, <1>3, <1>7, <1>10
<1>13. Items' \subseteq Items BY <1>3, <1>7, <1>9
<1>14. ASSUME NEW k \in 0..Used - n - 1 PROVE At(n + k) \notin NodesAt(head, n)
  <2> SUFFICES ASSUME NEW j \in 0..n - 1, At(n + k) = At(j) PROVE FALSE BY <1>2
  <2> QED BY <1>8, <1>9, <1>11
<1> QED BY <1>4, <1>5, <1>6, <1>7, <1>12, <1>13, <1>14

-----------------------------------------------------------------------------
(* Every step is one of BufferSpec.                                        *)

\* pop() and steal() take what they return, and at most half of it.
LEMMA TakeIsTake ==
    ASSUME IInv, NEW n \in 1..Used, n <= Half(Used), MoveHead(n),
           UNCHANGED <<tail, otail, array, spilled>>, given' = given \cup NodesAt(head, n)
    PROVE  BS!Next
<1> DEFINE S == NodesAt(head, n)
<1>1. /\ Items' = Items \ S /\ S \subseteq Items /\ S # {}
      /\ IsFiniteSet(S) /\ Cardinality(S) = n
  BY TookItems
<1>2. Cardinality(Items) = Used /\ Items \subseteq Nodes BY ItemsAre
<1> HIDE DEF S
<1>3. Cardinality(S) <= Cardinality(Items) - Cardinality(Items) \div 2
  BY <1>1, <1>2 DEF Half
<1>4. BS!Take(S)
  BY <1>1, <1>3, Counts DEF BS!Take, S
<1>5. S \in SUBSET Nodes BY <1>1, <1>2
<1> QED BY <1>4, <1>5 DEF BS!Next

\* push() that makes its nodes visible puts them into the set.
LEMMA PublishIsPut ==
    ASSUME IInv, PushPublish
    PROVE  BS!Next
<1> DEFINE S == {At(k) : k \in Used..Filled - 1}
<1>1. /\ tail' = otail /\ UNCHANGED <<head, array, given, spilled>> /\ opc = "publish"
  BY DEF PushPublish
<1>2. /\ Used \in Nat /\ Filled \in Nat /\ Used < Filled /\ Filled <= Capacity
  BY <1>1, Ranges DEF IInv, Ordered
<1>3. Items' = {At(k) : k \in 0..Filled - 1}
  BY <1>1 DEF Items, NodesAt, At, Filled
<1>4. /\ Items = {At(k) : k \in 0..Used - 1}
      /\ 1..Placed \subseteq Nodes
  BY ItemsAre
<1>5. \A k \in 0..Filled - 1 : k \in 0..Used - 1 \/ k \in Used..Filled - 1 BY <1>2
<1>6. /\ \A k \in 0..Used - 1 : k \in 0..Filled - 1
      /\ \A k \in Used..Filled - 1 : k \in 0..Filled - 1 /\ k \notin 0..Used - 1
  BY <1>2
<1>7. Items' = Items \cup S BY <1>3, <1>4, <1>5, <1>6
<1>8. Cardinality(Items \cup S) <= Capacity
  <2>1. Cardinality({At(k) : k \in 0..Filled - 1}) = Filled BY <1>2, CountAt
  <2> QED BY <1>2, <1>3, <1>7, <2>1
<1>9. S \subseteq (1..Placed) \ (given \cup spilled) BY <1>6 DEF IInv, Ring
<1>10. \A x \in S : x \notin Items
  <2> SUFFICES ASSUME NEW j \in Used..Filled - 1, NEW k \in 0..Used - 1, At(j) = At(k)
               PROVE  FALSE
    BY <1>4
  <2> QED BY <1>6 DEF IInv, Ring
<1>11. At(Used) \in S
  <2>1. Used \in Used..Filled - 1 BY <1>2
  <2> QED BY <2>1
<1> HIDE DEF S
<1>12. S \subseteq BS!Fresh /\ S \in SUBSET Nodes
  BY <1>4, <1>9, <1>10 DEF BS!Fresh
<1>13. BS!Put(S) BY <1>1, <1>7, <1>8, <1>11, <1>12, Counts DEF BS!Put
<1> QED BY <1>12, <1>13 DEF BS!Next

\* push() on a full ring lets half of it go together with the list.
LEMMA OverflowIsOverflow ==
    ASSUME IInv, PushOverflow
    PROVE  BS!Next
<1> DEFINE n == Capacity \div 2
           S == NodesAt(head, n)
           N == {list[k] : k \in DOMAIN list}
<1>1. /\ n \in 1..Used /\ MoveHead(n) /\ Used = Capacity
      /\ spilled' = spilled \cup S \cup N
      /\ N \subseteq (1..made) \ (1..Placed) /\ N # {}
      /\ made \in Nat /\ made <= MaxNodes
  <2>1. made \in Nat /\ made <= MaxNodes BY MaxNodesAssumption DEF IInv, TypeOK
  <2> QED BY <2>1, PushOverflowEffect
<1>2. UNCHANGED <<tail, otail, array, given>> BY DEF PushOverflow
<1> HIDE DEF N
<1>3. Items' = Items \ S /\ S \subseteq Items /\ Cardinality(S) = n
  <2> HIDE DEF n
  <2> QED BY <1>1, <1>2, TookItems
<1>4. /\ Cardinality(Items) = Capacity
      /\ Items \subseteq (1..Placed) /\ given \cup spilled \subseteq 1..Placed
  BY <1>1, ItemsAre
<1>5. N \subseteq BS!Fresh
  <2>1. 1..made \subseteq Nodes BY <1>1, MaxNodesAssumption DEF Nodes
  <2> QED BY <1>1, <1>4, <2>1 DEF BS!Fresh
<1> HIDE DEF S
<1>6. BS!Overflow(S, N) BY <1>1, <1>2, <1>3, <1>4, <1>5, Counts DEF BS!Overflow, n
<1>7. S \in SUBSET Items /\ N \in SUBSET BS!Fresh BY <1>3, <1>5
<1> QED BY <1>6, <1>7 DEF BS!Next

\* consume() fills an empty ring and returns one node.
LEMMA ConsumeIsFill ==
    ASSUME IInv, ConsumePublish
    PROVE  BS!Next
<1> DEFINE m == Len(list) - 1
           f == [k \in 0..m - 1 |-> Placed + k + 1]
           S == {f[k] : k \in 0..m - 1}
           n == Placed + Len(list)
<1>1. /\ Used = 0 /\ Len(list) \in 1..Capacity + 1 /\ Used' = Len(list) - 1
      /\ \A k \in 0..Len(list) - 2 : At(k)' = Placed + k + 1
      /\ given' = given \cup {n} /\ spilled' = spilled
      /\ Placed \in Nat /\ Placed' = n /\ Placed' <= MaxNodes
  BY ConsumePublishEffect
<1>2. m \in Nat /\ m <= Capacity /\ Len(list) \in Nat /\ Len(list) - 2 = m - 1
  BY <1>1, CapacityAssumption
<1>3. IsFiniteSet(S) /\ Cardinality(S) = m
  <2>1. \A j, k \in 0..m - 1 : f[j] = f[k] => j = k BY <1>1, <1>2
  <2>2. f \in [0..m - 1 -> S] /\ \A x \in S : \E k \in 0..m - 1 : f[k] = x OBVIOUS
  <2> HIDE DEF f, m, S
  <2> QED BY <1>2, <2>1, <2>2, Count
<1>4. Items' = S
  <2>1. Items' = {At(k)' : k \in 0..Used' - 1} BY DEF Items, NodesAt, At, Used
  <2>2. \A k \in 0..m - 1 : At(k)' = f[k] BY <1>1, <1>2
  <2> HIDE DEF f
  <2> QED BY <1>1, <2>1, <2>2
<1>5. Items = {}
  <2>1. Items = {At(k) : k \in 0..Used - 1} BY ItemsAre
  <2>2. \A k \in 0..Used - 1 : FALSE BY <1>1
  <2> QED BY <2>1, <2>2
<1>6. given \cup spilled \subseteq 1..Placed BY ItemsAre
<1>7. n \in Nodes /\ n \notin 1..Placed BY <1>1, <1>2, MaxNodesAssumption DEF Nodes
<1>8. \A k \in 0..m - 1 : f[k] \in Nodes /\ f[k] \notin 1..Placed /\ f[k] # n
  BY <1>1, <1>2, MaxNodesAssumption DEF Nodes
<1>9. S \subseteq Nodes /\ S \cap 1..Placed = {} /\ n \notin S
  <2> HIDE DEF f, n
  <2> QED BY <1>8
<1> HIDE DEF S, n, m
<1>10. S \subseteq BS!Fresh /\ S \cup {n} \subseteq BS!Fresh
  BY <1>5, <1>6, <1>7, <1>9 DEF BS!Fresh
<1>11. BS!Fill(S, n)
  BY <1>1, <1>2, <1>3, <1>4, <1>5, <1>9, <1>10, Counts DEF BS!Fill
<1>12. S \in SUBSET BS!Fresh /\ n \in Nodes BY <1>7, <1>10
<1> QED BY <1>11, <1>12 DEF BS!Next

\* Stores behind the published places change nothing.
LEMMA ItemsStay ==
    ASSUME Used \in Nat, Used' = Used, \A k \in 0..Used - 1 : At(k)' = At(k)
    PROVE  Items' = Items
<1>1. Items = {At(k) : k \in 0..Used - 1} BY DEF Items, NodesAt, At, Used
<1>2. Items' = {At(k)' : k \in 0..Used' - 1} BY DEF Items, NodesAt, At, Used
<1> QED BY <1>1, <1>2

\* What is empty before and after a step holds the same.
LEMMA ItemsEmpty ==
    ASSUME IInv, head = tail, UNCHANGED <<head, tail>>
    PROVE  Items' = Items
<1>1. Used = 0 /\ Used' = 0 BY Ranges, SubIs DEF IInv, TypeOK, Used
<1>2. Used \in Nat /\ Used' = Used /\ \A k \in 0..Used - 1 : At(k)' = At(k) BY <1>1
<1> QED BY <1>2, ItemsStay

LEMMA BufferSame ==
    ASSUME UNCHANGED <<buffer, given, spilled>>
    PROVE  UNCHANGED <<Items, given, spilled>>
BY DEF buffer, Items, NodesAt

\* A step of node::Buffer is a step of BufferSpec, or none at all.
LEMMA StepIsStep ==
    IInv /\ [Next]_vars => [BS!Next]_<<Items, given, spilled>>
<1> SUFFICES ASSUME IInv, [Next]_vars
             PROVE  BS!Next \/ UNCHANGED <<Items, given, spilled>>
  OBVIOUS
<1>1. CASE UNCHANGED vars
  <2>1. UNCHANGED <<buffer, given, spilled>> BY <1>1 DEF vars
  <2> QED BY <2>1, BufferSame
<1>2. CASE \/ PushLoad \/ PushRetry \/ Pop \/ PopRetry \/ PopNone \/ FoundNothing
           \/ \E n \in 1..MaxList : Push(n)
           \/ \E t \in Thieves : StealHead(t) \/ StealTail(t) \/ StealCopy(t)
  <2>1. UNCHANGED <<buffer, given, spilled>>
    BY <1>2 DEF PushLoad, PushRetry, Pop, PopRetry, PopNone, FoundNothing, Push,
                StealHead, StealTail, StealCopy
  <2> QED BY <2>1, BufferSame
<1>3. CASE PushStore
  <2>1. UNCHANGED <<given, spilled>> BY <1>3 DEF PushStore
  <2>2. /\ Used' = Used /\ Used = Filled /\ \A k \in 0..Filled - 1 : At(k)' = At(k)
    BY <1>3, PushStoreEffect
  <2>3. Used \in Nat BY Ranges DEF IInv
  <2>4. Items' = Items BY <2>2, <2>3, ItemsStay
  <2> QED BY <2>1, <2>4
<1>4. CASE PushPublish BY <1>4, PublishIsPut
<1>5. CASE PushOverflow BY <1>5, OverflowIsOverflow
<1>6. CASE PopCas
  <2>1. /\ 1 \in 1..Used /\ MoveHead(1) /\ given' = given \cup NodesAt(head, 1)
        /\ UNCHANGED <<tail, otail, array, spilled>>
    BY <1>6, PopCasEffect
  <2>2. 1 <= Half(Used)
    <3>1. Used \in Nat /\ 1 <= Used BY <2>1, Ranges DEF IInv
    <3> QED BY <3>1 DEF Half
  <2> QED BY <2>1, <2>2, TakeIsTake
<1>7. CASE ConsumePublish BY <1>7, ConsumeIsFill
<1>8. CASE \/ \E n \in 1..Capacity + 1 : Consume(n)
           \/ \E n \in 1..Half(Capacity) : StealInVain(n)
  <2>1. opc = "empty" /\ UNCHANGED <<head, tail, given, spilled>>
    BY <1>8 DEF Consume, StealInVain
  <2>2. head = tail BY <2>1 DEF IInv, Ordered
  <2>3. Items' = Items BY <2>1, <2>2, ItemsEmpty
  <2> QED BY <2>1, <2>3
<1>9. ASSUME NEW t \in Thieves, StealCas(t)
      PROVE  BS!Next \/ UNCHANGED <<Items, given, spilled>>
  <2>1. UNCHANGED <<tail, array, otail, spilled>> BY <1>9 DEF StealCas, owner
  <2>2. CASE head = thead[t]
    <3>1. /\ size[t] \in 1..Used /\ size[t] <= Half(Used) /\ MoveHead(size[t])
          /\ given' = given \cup NodesAt(head, size[t])
      BY <1>9, <2>2, StealCasEffect
    <3>2. PICK n \in 1..Used : n = size[t] BY <3>1
    <3>3. n <= Half(Used) /\ MoveHead(n) /\ given' = given \cup NodesAt(head, n)
      BY <3>1, <3>2
    <3> QED BY <2>1, <3>3, TakeIsTake
  <2>3. CASE head # thead[t]
    <3>1. UNCHANGED <<buffer, given, spilled>> BY <1>9, <2>1, <2>3 DEF StealCas, buffer
    <3> QED BY <3>1, BufferSame
  <2> QED BY <2>2, <2>3
<1> QED BY <1>1, <1>2, <1>3, <1>4, <1>5, <1>6, <1>7, <1>8, <1>9
        DEF Next, OwnerStep, ThiefStep

\* The ring of node::Buffer is the set of nodes that the thread pool takes it for
\* (ImplementsBuffer): push(), pop(), consume() and steal() lose no node, return
\* none twice and none from a slot that the owner has stored into again, and a
\* thief never gets more than half.
THEOREM RunBufferImplementsBuffer == Spec => ImplementsBuffer
<1>1. Init => BS!Init
  <2> SUFFICES ASSUME Init PROVE BS!Init OBVIOUS
  <2>1. IInv BY InitHolds
  <2>2. Used = 0 /\ given = {} /\ spilled = {}
    BY <2>1, SubIs DEF Init, Used, IInv, TypeOK
  <2>3. Items = {}
    <3>1. Items = {At(k) : k \in 0..Used - 1} BY <2>1, ItemsAre
    <3>2. \A k \in 0..Used - 1 : FALSE BY <2>2
    <3> QED BY <3>1, <3>2
  <2> QED BY <2>2, <2>3 DEF BS!Init
<1>2. Spec => BS!Init /\ [][BS!Next]_<<Items, given, spilled>>
  BY <1>1, StepIsStep, RunBufferInvariant, PTL DEF Spec
<1> QED BY <1>2, PTL DEF ImplementsBuffer, BS!Spec

=============================================================================
