--------------------------- MODULE EventLoopProofs --------------------------
(***************************************************************************)
(* First the queue by itself, for any number of producers and nodes and a  *)
(* consumer that calls pop and pop_batch in any order: nodes come out once *)
(* and in the order of the pushes, the assertions on back hold, and no     *)
(* producer writes to a node that has left the queue.                      *)
(*                                                                         *)
(* Then the event loop, which keeps its promises to other threads, for any *)
(* number of jobs of each kind: their tasks run once and in order, the     *)
(* references are counted exactly, the loop does not sleep over a change,  *)
(* and the program does not end before a job that keeps it alive.          *)
(***************************************************************************)
EXTENDS EventLoop, FiniteSetTheorems, TLAPS

-----------------------------------------------------------------------------
(* The queue by itself: its inductive invariant.                           *)

Typed ==
    /\ back \in NodeOrNull /\ front \in NodeOrNull
    /\ next \in [Nodes -> NodeOrNull]
    /\ ppc \in [Producers -> {"idle", "link"}]
    /\ pfirst \in [Producers -> NodeOrNull] /\ pold \in [Producers -> NodeOrNull]
    /\ cpc \in CPCs /\ cfirst \in NodeOrNull /\ cnext \in NodeOrNull
    /\ taken \in Seq(Nodes) /\ pushed \in Seq(Nodes) /\ popped \in Seq(Nodes)

\* The places in `pushed` of the nodes in the queue.
Window == Len(popped) + 1 .. Len(pushed)

\* The nodes whose push has still to store its link.
Pending == {pfirst[p] : p \in {q \in Producers : ppc[q] = "link"}}

\* What has come out, and what is inside.
History ==
    /\ Len(popped) <= Len(pushed)
    /\ \A i \in 1..Len(popped) : popped[i] = pushed[i]
    /\ \A i, j \in Window : pushed[i] = pushed[j] => i = j

\* pop_batch has cut the nodes up to place s off; later pushes begin a chain of
\* their own.  Otherwise there is one chain, which begins after s = Len(popped).
Cut(s) ==
    /\ s \in Len(popped) .. Len(pushed)
    /\ cpc = "batch_walk" => s > Len(popped) /\ cnext = pushed[s]
    /\ cpc # "batch_walk" => s = Len(popped)

BackOK(s) == back = IF s = Len(pushed) THEN Null ELSE pushed[Len(pushed)]

\* Every node is linked to the next of its chain as soon as that push is over.
LinksOK(s) ==
    \A i \in Window :
        next[pushed[i]] = IF i = Len(pushed) \/ i = s \/ pushed[i + 1] \in Pending
                          THEN Null ELSE pushed[i + 1]

\* A producer has still to link its node behind the one before, or to store it
\* as the front when it begins a chain; never the node the consumer is at.
ProducerOK(s, p) ==
    /\ ppc[p] = "link" =>
         \E i \in Window :
             /\ pfirst[p] = pushed[i]
             /\ pold[p] = IF i = s + 1 THEN Null ELSE pushed[i - 1]
             /\ i > s \/ i > Len(popped) + 1
    /\ ppc[p] = "idle" => pfirst[p] = Null /\ pold[p] = Null

ProducersOK(s) ==
    /\ \A p \in Producers : ProducerOK(s, p)
    /\ \A p, q \in Producers :
         ppc[p] = "link" /\ ppc[q] = "link" /\ pfirst[p] = pfirst[q] => p = q

\* Where the consumer is, and what it has read.
FrontOK(s) ==
    /\ cpc \in {"idle", "pop_next", "pop_cas", "batch_walk"} =>
         front = IF s = Len(pushed) \/ pushed[s + 1] \in Pending THEN Null
                 ELSE pushed[s + 1]
    /\ cpc \in {"pop_back", "pop_spin", "pop_front", "batch_back"} => front = Null
    /\ cpc \notin {"idle", "batch_walk"} =>
         s < Len(pushed) /\ cfirst = pushed[s + 1] /\ cfirst \notin Pending
    /\ cpc = "pop_cas" => cnext = Null \/ cnext = next[cfirst]
    /\ cpc = "pop_spin" => s + 1 < Len(pushed)
    /\ cpc = "pop_front" => cnext # Null /\ cnext = next[cfirst]
    /\ cpc # "panic"

\* The walk over the nodes that were cut off.
WalkOK(s) ==
    cpc = "batch_walk" =>
        /\ Len(taken) >= 1 /\ Len(popped) + Len(taken) <= s
        /\ \A i \in 1..Len(taken) : /\ taken[i] = pushed[Len(popped) + i]
                                    /\ taken[i] \notin Pending

Chain(s) ==
    /\ Cut(s) /\ BackOK(s) /\ LinksOK(s) /\ ProducersOK(s) /\ FrontOK(s) /\ WalkOK(s)

IInv == Typed /\ History /\ \E s \in Nat : Chain(s)

-----------------------------------------------------------------------------
(* The pushes.                                                             *)

\* Lengths are numbers, and the places in the window hold nodes.
LEMMA WindowHolds ==
    ASSUME Typed
    PROVE  /\ Len(pushed) \in Nat /\ Len(popped) \in Nat /\ Len(taken) \in Nat
           /\ Window \subseteq Nat
           /\ \A i \in 1..Len(pushed) : pushed[i] \in Nodes /\ pushed[i] # Null
           /\ \A i \in Window : i \in 1..Len(pushed)
BY NodesAssumption DEF Typed, Window

\* A push that is under way has its node in the queue.
LEMMA PendingIsInside ==
    ASSUME NEW s \in Nat, ProducersOK(s), NEW n, n \in Pending
    PROVE  \E i \in Window : n = pushed[i]
BY DEF ProducersOK, ProducerOK, Pending

\* The swap of back puts a node at the end of the chain, not linked yet.
LEMMA PushSwapStep ==
    ASSUME IInv, NEW p \in Producers, NEW n \in Nodes, PushSwap(p, n)
    PROVE  IInv'
<1>0. Typed /\ History
  BY DEF IInv
<1>1. PICK s \in Nat : Chain(s)
  BY DEF IInv
<1>2. /\ Cut(s) /\ BackOK(s) /\ LinksOK(s) /\ ProducersOK(s) /\ FrontOK(s) /\ WalkOK(s)
  BY <1>1 DEF Chain
<1> DEFINE L == Len(pushed)
           H == Len(popped)
<1>3. /\ L \in Nat /\ H \in Nat /\ H <= L /\ s \in H..L
      /\ Window = H + 1 .. L
  BY <1>0, <1>2, WindowHolds DEF History, Cut, Window
<1>4. /\ Len(pushed') = L + 1 /\ pushed' \in Seq(Nodes) /\ pushed'[L + 1] = n
      /\ \A i \in 1..L : pushed'[i] = pushed[i]
      /\ UNCHANGED <<front, cpc, cfirst, cnext, taken, popped>>
  BY <1>0 DEF PushSwap, consumer, Typed
<1>5. Window' = H + 1 .. L + 1
  BY <1>4 DEF Window
<1>6. \A i \in Window : pushed[i] # n /\ pushed[i] \in Nodes /\ i \in 1..L
  BY <1>0, WindowHolds DEF PushSwap, InQueue, Window
<1>7. /\ next'[n] = Null /\ \A m \in Nodes \ {n} : next'[m] = next[m]
      /\ back' = n
      /\ ppc[p] = "idle" /\ ppc'[p] = "link" /\ pfirst'[p] = n /\ pold'[p] = back
      /\ \A q \in Producers \ {p} : /\ ppc'[q] = ppc[q] /\ pfirst'[q] = pfirst[q]
                                    /\ pold'[q] = pold[q]
  BY <1>0 DEF PushSwap, Cleared, Typed
<1>8. n \notin Pending
  BY <1>2, <1>6, PendingIsInside
<1>9. Pending' = Pending \cup {n}
  <2>1. \A q \in Producers : ppc'[q] = "link" => q = p \/ (ppc[q] = "link" /\ pfirst'[q] = pfirst[q])
    BY <1>7
  <2>2. \A q \in Producers : ppc[q] = "link" => ppc'[q] = "link" /\ pfirst'[q] = pfirst[q]
    BY <1>7
  <2>3. Pending' \subseteq Pending \cup {n}
    BY <1>7, <2>1 DEF Pending
  <2>4. n \in Pending' /\ Pending \subseteq Pending'
    BY <1>7, <2>2 DEF Pending
  <2> QED BY <2>3, <2>4
<1>10. Typed'
  BY <1>0, <1>4 DEF PushSwap, consumer, Typed, NodeOrNull, Cleared
<1>11. History'
  <2>1. ASSUME NEW i \in Window', NEW j \in Window', pushed'[i] = pushed'[j] PROVE i = j
    <3>1. CASE i \in Window /\ j \in Window
      BY <1>0, <1>4, <1>6, <2>1, <3>1 DEF History
    <3>2. CASE i = L + 1 /\ j \in Window
      BY <1>4, <1>6, <2>1, <3>2
    <3>3. CASE i \in Window /\ j = L + 1
      BY <1>4, <1>6, <2>1, <3>3
    <3>4. i \in Window \/ i = L + 1
      BY <1>3, <1>5
    <3>5. j \in Window \/ j = L + 1
      BY <1>3, <1>5
    <3> QED BY <3>1, <3>2, <3>3, <3>4, <3>5
  <2>2. Len(popped') <= Len(pushed') /\ \A i \in 1..Len(popped') : popped'[i] = pushed'[i]
    BY <1>0, <1>3, <1>4 DEF History
  <2> QED BY <2>1, <2>2 DEF History
<1>12. Cut(s)'
  <2>1. cpc = "batch_walk" => s > H /\ cnext = pushed[s] /\ s \in 1..L
    BY <1>2, <1>3 DEF Cut
  <2> QED BY <1>2, <1>3, <1>4, <2>1 DEF Cut
<1>13. BackOK(s)'
  BY <1>3, <1>4, <1>7 DEF BackOK
<1>14. LinksOK(s)'
  <2>1. ASSUME NEW i \in Window'
        PROVE  next'[pushed'[i]] = IF i = L + 1 \/ i = s \/ pushed'[i + 1] \in Pending' THEN Null
                                   ELSE pushed'[i + 1]
    <3>1. CASE i = L + 1
      BY <1>4, <1>7, <3>1
    <3>2. CASE i = L
      <4>1. i \in Window /\ pushed'[i] = pushed[i] /\ pushed'[i + 1] = n
        BY <1>3, <1>4, <1>5, <2>1, <3>2
      <4>2. next[pushed[i]] = Null
        BY <1>2, <3>2, <4>1 DEF LinksOK
      <4> QED BY <1>6, <1>7, <1>9, <4>1, <4>2
    <3>3. CASE i < L
      <4>1. i \in Window /\ i + 1 \in Window /\ i # L /\ i # L + 1
        BY <1>3, <1>5, <2>1, <3>3
      <4>2. pushed'[i] = pushed[i] /\ pushed'[i + 1] = pushed[i + 1]
        BY <1>4, <1>6, <4>1
      <4>3. next[pushed[i]] = IF i = s \/ pushed[i + 1] \in Pending THEN Null ELSE pushed[i + 1]
        BY <1>2, <4>1 DEF LinksOK
      <4>4. pushed'[i + 1] \in Pending' <=> pushed[i + 1] \in Pending
        BY <1>6, <1>9, <4>1, <4>2
      <4>5. next'[pushed'[i]] = next[pushed[i]]
        BY <1>6, <1>7, <4>1, <4>2
      <4> QED BY <4>1, <4>2, <4>3, <4>4, <4>5
    <3> QED BY <1>3, <1>5, <3>1, <3>2, <3>3
  <2> QED BY <1>4, <2>1 DEF LinksOK
<1>15. ProducersOK(s)'
  <2>1. ProducerOK(s, p)'
    <3>1. L + 1 \in Window' /\ L + 1 > s
      BY <1>3, <1>5
    <3>2. back = IF L + 1 = s + 1 THEN Null ELSE pushed'[L + 1 - 1]
      BY <1>2, <1>3, <1>4 DEF BackOK
    <3> QED BY <1>4, <1>7, <3>1, <3>2 DEF ProducerOK
  <2>2. ASSUME NEW q \in Producers, q # p, ppc[q] = "link"
        PROVE  \E i \in Window : /\ pfirst[q] = pushed[i] /\ pushed'[i] = pushed[i]
                                 /\ pold[q] = IF i = s + 1 THEN Null ELSE pushed'[i - 1]
                                 /\ i > s \/ i > H + 1
    <3>1. PICK i \in Window : /\ pfirst[q] = pushed[i]
                              /\ pold[q] = IF i = s + 1 THEN Null ELSE pushed[i - 1]
                              /\ i > s \/ i > H + 1
      BY <1>2, <2>2 DEF ProducersOK, ProducerOK
    <3>2. i # s + 1 => i - 1 \in 1..L
      BY <1>3, <3>1
    <3> QED BY <1>4, <1>6, <3>1, <3>2
  <2>3. ASSUME NEW q \in Producers, q # p PROVE ProducerOK(s, q)'
    <3>1. ppc'[q] = ppc[q] /\ pfirst'[q] = pfirst[q] /\ pold'[q] = pold[q]
      BY <1>7, <2>3
    <3>2. Window \subseteq Window'
      BY <1>3, <1>5
    <3>3. CASE ppc[q] = "link"
      BY <1>4, <2>2, <2>3, <3>1, <3>2, <3>3 DEF ProducerOK
    <3>4. CASE ppc[q] # "link"
      BY <1>2, <3>1, <3>4 DEF ProducersOK, ProducerOK
    <3> QED BY <3>3, <3>4
  <2>4. ASSUME NEW q \in Producers, q # p, ppc[q] = "link" PROVE pfirst[q] # n
    BY <1>6, <2>2, <2>4
  <2>5. ASSUME NEW q \in Producers, NEW r \in Producers, ppc'[q] = "link", ppc'[r] = "link",
               pfirst'[q] = pfirst'[r]
        PROVE  q = r
    <3>1. CASE q # p /\ r # p
      BY <1>2, <1>7, <2>5, <3>1 DEF ProducersOK
    <3>2. CASE q = p /\ r # p
      BY <1>7, <2>4, <2>5, <3>2
    <3>3. CASE q # p /\ r = p
      BY <1>7, <2>4, <2>5, <3>3
    <3> QED BY <3>1, <3>2, <3>3
  <2> QED BY <2>1, <2>3, <2>5 DEF ProducersOK
<1>16. s < L => s + 1 \in Window /\ pushed'[s + 1] = pushed[s + 1] /\ pushed[s + 1] # n
  <2>1. s < L => s + 1 \in Window
    BY <1>3
  <2> QED BY <1>4, <1>6, <2>1
<1>17. FrontOK(s)'
  <2>1. /\ s # L + 1 /\ s < L + 1
        /\ (s = L \/ pushed[s + 1] \in Pending) <=> pushed'[s + 1] \in Pending'
        /\ s # L => pushed'[s + 1] = pushed[s + 1]
    BY <1>3, <1>4, <1>9, <1>16
  <2>2. cpc \notin {"idle", "batch_walk"} =>
          /\ s < L /\ cfirst = pushed[s + 1] /\ cfirst \notin Pending
          /\ cfirst # n /\ cfirst \in Nodes
    BY <1>2, <1>6, <1>16 DEF FrontOK
  <2>3. cpc \notin {"idle", "batch_walk"} =>
          /\ s < L + 1 /\ cfirst = pushed'[s + 1] /\ cfirst \notin Pending'
          /\ next'[cfirst] = next[cfirst]
    BY <1>7, <1>9, <1>16, <2>1, <2>2
  <2>4. cpc = "pop_spin" => s + 1 < L + 1
    BY <2>2
  <2> QED BY <1>2, <1>4, <2>1, <2>3, <2>4 DEF FrontOK
<1>18. WalkOK(s)'
  <2> SUFFICES ASSUME cpc = "batch_walk"
               PROVE  /\ Len(taken) >= 1 /\ H + Len(taken) <= s
                      /\ \A i \in 1..Len(taken) : /\ taken[i] = pushed'[H + i]
                                                  /\ taken[i] \notin Pending'
    BY <1>4 DEF WalkOK
  <2>1. /\ Len(taken) >= 1 /\ H + Len(taken) <= s /\ Len(taken) \in Nat
        /\ \A i \in 1..Len(taken) : taken[i] = pushed[H + i] /\ taken[i] \notin Pending
    BY <1>0, <1>2, WindowHolds DEF WalkOK
  <2>2. \A i \in 1..Len(taken) : H + i \in Window
    BY <1>3, <2>1
  <2> QED BY <1>4, <1>6, <1>9, <2>1, <2>2
<1> QED BY <1>10, <1>11, <1>12, <1>13, <1>14, <1>15, <1>17, <1>18 DEF IInv, Chain

\* The link is stored in a node that is still there, or the node is the front.
LEMMA PushLinkStep ==
    ASSUME IInv, NEW p \in Producers, PushLink(p)
    PROVE  IInv'
<1>0. Typed /\ History
  BY DEF IInv
<1>1. PICK s \in Nat : Chain(s)
  BY DEF IInv
<1>2. /\ Cut(s) /\ BackOK(s) /\ LinksOK(s) /\ ProducersOK(s) /\ FrontOK(s) /\ WalkOK(s)
  BY <1>1 DEF Chain
<1> DEFINE L == Len(pushed)
           H == Len(popped)
<1>3. /\ L \in Nat /\ H \in Nat /\ H <= L /\ s \in H..L
      /\ Window = H + 1 .. L
  BY <1>0, <1>2, WindowHolds DEF History, Cut, Window
<1>4. UNCHANGED <<back, cpc, cfirst, cnext, taken, pushed, popped>>
  BY DEF PushLink, consumer
<1>5. /\ Window' = Window /\ ppc[p] = "link"
      /\ ppc'[p] = "idle" /\ pfirst'[p] = Null /\ pold'[p] = Null
      /\ \A q \in Producers \ {p} : /\ ppc'[q] = ppc[q] /\ pfirst'[q] = pfirst[q]
                                    /\ pold'[q] = pold[q]
  BY <1>0, <1>4 DEF PushLink, Typed, Window
<1>6. PICK i \in Window : /\ pfirst[p] = pushed[i]
                          /\ pold[p] = IF i = s + 1 THEN Null ELSE pushed[i - 1]
                          /\ i > s \/ i > H + 1
  BY <1>2, <1>5 DEF ProducersOK, ProducerOK
<1>7. pushed[i] \in Pending
  BY <1>5, <1>6 DEF Pending
<1>8. Pending' = Pending \ {pushed[i]}
  <2>1. \A q \in Producers : ppc'[q] = "link" => /\ ppc[q] = "link" /\ pfirst'[q] = pfirst[q]
                                                 /\ q # p
    BY <1>5
  <2>2. \A q \in Producers : ppc[q] = "link" => \/ q = p
                                                \/ ppc'[q] = "link" /\ pfirst'[q] = pfirst[q]
    BY <1>5
  <2>3. \A q \in Producers : ppc[q] = "link" /\ q # p => pfirst[q] # pushed[i]
    BY <1>2, <1>5, <1>6 DEF ProducersOK
  <2>4. Pending' \subseteq Pending \ {pushed[i]}
    BY <2>1, <2>3 DEF Pending
  <2>5. Pending \ {pushed[i]} \subseteq Pending'
    BY <1>6, <2>2 DEF Pending
  <2> QED BY <2>4, <2>5
<1>9. \A j, k \in Window : pushed[j] = pushed[k] => j = k
  BY <1>0 DEF History
<1>10. \A j \in Window : pushed[j] \in Nodes /\ pushed[j] # Null
  BY <1>0, WindowHolds
<1>11. Typed'
  BY <1>0, <1>4, <1>6, <1>10 DEF PushLink, Typed, NodeOrNull
<1>12. History' /\ Cut(s)' /\ BackOK(s)'
  BY <1>0, <1>2, <1>4, <1>5 DEF History, Cut, BackOK
<1>13. ProducersOK(s)'
  <2>1. ASSUME NEW q \in Producers PROVE ProducerOK(s, q)'
    <3>1. CASE q = p
      BY <1>5, <3>1 DEF ProducerOK
    <3>2. CASE q # p
      <4>1. ppc'[q] = ppc[q] /\ pfirst'[q] = pfirst[q] /\ pold'[q] = pold[q]
        BY <1>5, <3>2
      <4> QED BY <1>2, <1>4, <1>5, <4>1 DEF ProducersOK, ProducerOK
    <3> QED BY <3>1, <3>2
  <2>2. \A q, r \in Producers :
          ppc'[q] = "link" /\ ppc'[r] = "link" /\ pfirst'[q] = pfirst'[r] => q = r
    BY <1>2, <1>5 DEF ProducersOK
  <2> QED BY <2>1, <2>2 DEF ProducersOK
<1>14. WalkOK(s)'
  BY <1>2, <1>4, <1>8 DEF WalkOK
<1>15. LinksOK(s)' /\ FrontOK(s)'
  <2>1. CASE i = s + 1
    <3>1. front' = pushed[s + 1] /\ next' = next /\ s # L
      BY <1>3, <1>6, <2>1 DEF PushLink
    <3>2. cpc \in {"idle", "batch_walk"}
      BY <1>2, <1>7, <2>1 DEF FrontOK
    <3>3. FrontOK(s)'
      BY <1>4, <1>8, <2>1, <3>1, <3>2 DEF FrontOK
    <3>4. ASSUME NEW j \in Window
          PROVE  next[pushed[j]] = IF j = L \/ j = s \/ pushed[j + 1] \in Pending'
                                   THEN Null ELSE pushed[j + 1]
      <4>1. next[pushed[j]] = IF j = L \/ j = s \/ pushed[j + 1] \in Pending
                              THEN Null ELSE pushed[j + 1]
        BY <1>2 DEF LinksOK
      <4>2. CASE j = L \/ j = s
        BY <4>1, <4>2
      <4>3. CASE j # L /\ j # s
        <5>1. j + 1 \in Window /\ j + 1 # i
          BY <1>3, <2>1, <4>3
        <5>2. pushed[j + 1] # pushed[i]
          BY <1>9, <5>1
        <5> QED BY <1>8, <4>1, <4>3, <5>2
      <4> QED BY <4>2, <4>3
    <3> QED BY <1>4, <1>5, <3>1, <3>3, <3>4 DEF LinksOK
  <2>2. CASE i # s + 1
    <3>1. i - 1 \in Window /\ i - 1 # L /\ i - 1 # s /\ (i - 1) + 1 = i
      BY <1>3, <1>6, <2>2
    <3>2. /\ front' = front /\ next'[pushed[i - 1]] = pushed[i]
          /\ \A m \in Nodes : m # pushed[i - 1] => next'[m] = next[m]
      BY <1>0, <1>6, <1>10, <2>2, <3>1 DEF PushLink, Typed
    <3>3. next[pushed[i - 1]] = Null
      BY <1>2, <1>7, <3>1 DEF LinksOK
    <3>4. ASSUME NEW j \in Window
          PROVE  next'[pushed[j]] = IF j = L \/ j = s \/ pushed[j + 1] \in Pending'
                                    THEN Null ELSE pushed[j + 1]
      <4>1. next[pushed[j]] = IF j = L \/ j = s \/ pushed[j + 1] \in Pending
                              THEN Null ELSE pushed[j + 1]
        BY <1>2 DEF LinksOK
      <4>2. CASE j = i - 1
        BY <1>8, <3>1, <3>2, <4>2
      <4>3. CASE j # i - 1
        <5>1. next'[pushed[j]] = next[pushed[j]]
          BY <1>9, <1>10, <3>1, <3>2, <4>3
        <5>2. CASE j = L \/ j = s
          BY <4>1, <5>1, <5>2
        <5>3. CASE j # L /\ j # s
          <6>1. j + 1 \in Window /\ j + 1 # i
            BY <1>3, <4>3, <5>3
          <6>2. pushed[j + 1] # pushed[i]
            BY <1>9, <6>1
          <6> QED BY <1>8, <4>1, <5>1, <5>3, <6>2
        <5> QED BY <5>2, <5>3
      <4> QED BY <4>2, <4>3
    <3>5. LinksOK(s)'
      BY <1>4, <1>5, <3>4 DEF LinksOK
    <3>6. s # L => s + 1 \in Window /\ (pushed[s + 1] \in Pending' <=> pushed[s + 1] \in Pending)
      <4>1. s # L => s + 1 \in Window
        BY <1>3
      <4> QED BY <1>8, <1>9, <2>2, <4>1
    <3>7. cpc \notin {"idle", "batch_walk"} =>
            /\ s < L /\ cfirst = pushed[s + 1] /\ cfirst \notin Pending' /\ cfirst \in Nodes
      BY <1>2, <1>8, <1>10, <3>6 DEF FrontOK
    <3>8. cpc \notin {"idle", "batch_walk"} /\ next[cfirst] # Null => next'[cfirst] = next[cfirst]
      BY <3>2, <3>3, <3>7
    <3>9. FrontOK(s)'
      BY <1>2, <1>4, <3>2, <3>6, <3>7, <3>8 DEF FrontOK
    <3> QED BY <3>5, <3>9
  <2> QED BY <2>1, <2>2
<1> QED BY <1>11, <1>12, <1>13, <1>14, <1>15 DEF IInv, Chain

-----------------------------------------------------------------------------
(* The consumer.                                                           *)

\* What a step of pop or pop_batch keeps that returns nothing and leaves back
\* alone: only where the consumer is has to be shown again.
LEMMA ConsumerFrame ==
    ASSUME Typed, History, NEW s \in Nat, Chain(s), Typed', FrontOK(s)',
           cpc # "batch_walk", cpc' # "batch_walk",
           UNCHANGED <<back, next, producer, pushed, popped>>
    PROVE  IInv'
<1>1. Window' = Window /\ Pending' = Pending /\ UNCHANGED <<ppc, pfirst, pold>>
  BY DEF Window, Pending, producer
<1>2. History' /\ Cut(s)' /\ BackOK(s)' /\ WalkOK(s)'
  BY <1>1 DEF Chain, History, Cut, BackOK, WalkOK
<1>3. LinksOK(s)'
  BY <1>1 DEF Chain, LinksOK
<1>4. ProducersOK(s)'
  BY <1>1 DEF Chain, ProducersOK, ProducerOK
<1> QED BY <1>2, <1>3, <1>4 DEF IInv, Chain

\* What the invariant says of a consumer that is not walking over a batch.
LEMMA ConsumerIsAtHead ==
    ASSUME Typed, History, NEW s \in Nat, Chain(s), cpc # "batch_walk"
    PROVE  /\ Len(pushed) \in Nat /\ Len(popped) \in Nat
           /\ s = Len(popped) /\ s <= Len(pushed) /\ Window = s + 1 .. Len(pushed)
           /\ front # Null /\ cpc \in {"idle", "pop_next", "pop_cas"} =>
                s < Len(pushed) /\ front = pushed[s + 1] /\ front \notin Pending
           /\ s < Len(pushed) => /\ back = pushed[Len(pushed)] /\ back \in Nodes /\ back # Null
                                 /\ pushed[s + 1] \in Nodes /\ pushed[s + 1] # Null
<1>1. /\ Len(pushed) \in Nat /\ Len(popped) \in Nat
      /\ s = Len(popped) /\ s <= Len(pushed) /\ Window = s + 1 .. Len(pushed)
  BY WindowHolds DEF Chain, Cut, Window
<1>2. front # Null /\ cpc \in {"idle", "pop_next", "pop_cas"} =>
        s < Len(pushed) /\ front = pushed[s + 1] /\ front \notin Pending
  BY <1>1 DEF Chain, FrontOK
<1>3. s < Len(pushed) => Len(pushed) \in 1..Len(pushed) /\ s + 1 \in 1..Len(pushed)
  BY <1>1
<1>4. s < Len(pushed) => back = pushed[Len(pushed)]
  BY <1>1 DEF Chain, BackOK
<1>5. s < Len(pushed) => /\ pushed[Len(pushed)] \in Nodes /\ pushed[Len(pushed)] # Null
                         /\ pushed[s + 1] \in Nodes /\ pushed[s + 1] # Null
  BY <1>3, WindowHolds
<1> QED BY <1>1, <1>2, <1>4, <1>5

\* The steps of pop and pop_batch that only read, or that take front.
LEMMA PopLoadStep ==
    ASSUME IInv, PopLoad \/ PopNext \/ PopCasFails \/ PopSpin \/ BatchFront
    PROVE  IInv'
<1>0. Typed /\ History
  BY DEF IInv
<1>1. PICK s \in Nat : Chain(s)
  BY DEF IInv
<1>2. /\ cpc # "batch_walk" /\ cpc' # "batch_walk"
      /\ UNCHANGED <<back, next, producer, pushed, popped>>
  BY DEF PopLoad, PopNext, PopCasFails, PopSpin, BatchFront
<1>3. Pending' = Pending
  BY <1>2 DEF Pending, producer
<1>4. FrontOK(s)
  BY <1>1 DEF Chain
<1>5. cpc \notin {"idle", "batch_walk"} => cfirst \in Nodes
  BY <1>0, <1>1, <1>2, <1>4, ConsumerIsAtHead DEF FrontOK
<1>6. Typed'
  <2>1. cpc' \in CPCs /\ cnext' \in NodeOrNull /\ front' \in NodeOrNull /\ cfirst' \in NodeOrNull
    BY <1>0, <1>5 DEF PopLoad, PopNext, PopCasFails, PopSpin, BatchFront, Typed, CPCs, NodeOrNull
  <2>2. taken' = taken
    BY DEF PopLoad, PopNext, PopCasFails, PopSpin, BatchFront
  <2> QED BY <1>0, <1>2, <2>1, <2>2 DEF Typed, producer
<1>7. FrontOK(s)'
  <2>1. CASE PopLoad
    BY <1>0, <1>1, <1>2, <1>3, <1>4, <2>1, ConsumerIsAtHead DEF PopLoad, FrontOK
  <2>2. CASE PopNext
    BY <1>0, <1>1, <1>2, <1>3, <1>4, <2>2 DEF PopNext, FrontOK
  <2>3. CASE PopCasFails
    BY <1>0, <1>1, <1>2, <1>3, <1>4, <2>3, ConsumerIsAtHead DEF PopCasFails, FrontOK
  <2>4. CASE PopSpin
    BY <1>0, <1>1, <1>2, <1>3, <1>4, <2>4 DEF PopSpin, FrontOK
  <2>5. CASE BatchFront
    BY <1>0, <1>1, <1>2, <1>3, <1>4, <2>5, ConsumerIsAtHead DEF BatchFront, FrontOK
  <2> QED BY <2>1, <2>2, <2>3, <2>4, <2>5
<1> QED BY <1>0, <1>1, <1>2, <1>6, <1>7, ConsumerFrame

\* pop returns the node at the head of the chain: it was the last one, or the
\* next one, whose push is over, is the new front.
LEMMA OneNodeReturned ==
    ASSUME Typed, History, NEW s \in Nat, Chain(s),
           cpc \in {"pop_cas", "pop_back", "pop_front"},
           Return(<<cfirst>>), UNCHANGED <<next, producer, pushed>>,
           \/ s + 1 = Len(pushed) /\ back' = Null /\ front' = Null
           \/ /\ s + 1 < Len(pushed) /\ back' = back
              /\ front' = pushed[s + 2] /\ pushed[s + 2] \notin Pending
    PROVE  IInv'
<1> DEFINE L == Len(pushed)
<1>1. /\ Cut(s) /\ BackOK(s) /\ LinksOK(s) /\ ProducersOK(s) /\ FrontOK(s)
  BY DEF Chain
<1>2. /\ L \in Nat /\ s = Len(popped) /\ Window = s + 1 .. L /\ popped \in Seq(Nodes)
      /\ s < L /\ cfirst = pushed[s + 1] /\ cfirst \notin Pending /\ cfirst \in Nodes
      /\ back = pushed[L]
  BY <1>1, ConsumerIsAtHead DEF FrontOK, Typed
<1>3. /\ popped' \in Seq(Nodes) /\ Len(popped') = s + 1 /\ popped'[s + 1] = cfirst
      /\ \A i \in 1..s : popped'[i] = popped[i]
      /\ cpc' = "idle" /\ cfirst' = Null /\ cnext' = Null /\ taken' = <<>>
  BY <1>2 DEF Return
<1>4. /\ Window' = s + 2 .. L /\ Window' \subseteq Window /\ Pending' = Pending
      /\ UNCHANGED <<ppc, pfirst, pold>>
  BY <1>2, <1>3 DEF Window, Pending, producer
<1>5. Typed'
  <2>1. front' \in NodeOrNull /\ back' \in NodeOrNull
    <3>1. s + 1 < L => s + 2 \in 1..L
      BY <1>2
    <3> QED BY <3>1, WindowHolds DEF NodeOrNull, Typed
  <2> QED BY <1>3, <1>4, <2>1 DEF Typed, CPCs, NodeOrNull
<1>6. History'
  <2>1. \A i \in 1..s + 1 : popped'[i] = pushed[i]
    BY <1>2, <1>3 DEF History
  <2> QED BY <1>2, <1>3, <1>4, <2>1 DEF History
<1>7. Cut(s + 1)' /\ BackOK(s + 1)' /\ WalkOK(s + 1)'
  BY <1>2, <1>3 DEF Cut, BackOK, WalkOK
<1>8. LinksOK(s + 1)'
  <2>1. ASSUME NEW i \in Window'
        PROVE  next[pushed[i]] = IF i = L \/ i = s + 1 \/ pushed[i + 1] \in Pending
                                 THEN Null ELSE pushed[i + 1]
    <3>1. i \in Window /\ i # s /\ i # s + 1
      BY <1>2, <1>4
    <3> QED BY <1>1, <3>1 DEF LinksOK
  <2> QED BY <1>4, <2>1 DEF LinksOK
<1>9. ProducersOK(s + 1)'
  <2>1. ASSUME NEW q \in Producers, ppc[q] = "link"
        PROVE  \E i \in Window' : /\ pfirst[q] = pushed[i]
                                  /\ pold[q] = IF i = (s + 1) + 1 THEN Null ELSE pushed[i - 1]
                                  /\ i > s + 1
    <3>1. PICK i \in Window : /\ pfirst[q] = pushed[i]
                              /\ pold[q] = IF i = s + 1 THEN Null ELSE pushed[i - 1]
      BY <1>1, <2>1 DEF ProducersOK, ProducerOK
    <3>2. pushed[i] \in Pending
      BY <2>1, <3>1 DEF Pending
    <3>3. i # s + 1 /\ i # s + 2
      BY <1>2, <3>2
    <3>4. i \in Window' /\ i > s + 1 /\ i # (s + 1) + 1
      BY <1>2, <1>4, <3>3
    <3> QED BY <3>1, <3>3, <3>4
  <2>2. ASSUME NEW q \in Producers PROVE ProducerOK(s + 1, q)'
    <3>1. CASE ppc[q] = "link"
      BY <1>4, <2>1, <3>1 DEF ProducerOK
    <3>2. CASE ppc[q] # "link"
      BY <1>1, <1>4, <3>2 DEF ProducersOK, ProducerOK
    <3> QED BY <3>1, <3>2
  <2> QED BY <1>1, <1>4, <2>2 DEF ProducersOK
<1>10. FrontOK(s + 1)'
  BY <1>2, <1>3, <1>4 DEF FrontOK
<1>11. s + 1 \in Nat
  OBVIOUS
<1> QED BY <1>5, <1>6, <1>7, <1>8, <1>9, <1>10, <1>11 DEF IInv, Chain

\* A link that pop has read leads to a node whose push is over.
LEMMA LinkLeadsOn ==
    ASSUME Typed, History, NEW s \in Nat, Chain(s), cpc \in {"pop_cas", "pop_front"},
           cnext # Null
    PROVE  s + 1 < Len(pushed) /\ cnext = pushed[s + 2] /\ pushed[s + 2] \notin Pending
<1>1. LinksOK(s) /\ FrontOK(s)
  BY DEF Chain
<1>2. cnext = next[pushed[s + 1]] /\ s < Len(pushed)
  BY <1>1 DEF FrontOK
<1>3. /\ s + 1 \in Window /\ s + 1 # s /\ (s + 1) + 1 = s + 2 /\ Len(pushed) \in Nat
  BY <1>2, ConsumerIsAtHead
<1>4. next[pushed[s + 1]] =
        IF s + 1 = Len(pushed) \/ s + 1 = s \/ pushed[(s + 1) + 1] \in Pending
        THEN Null ELSE pushed[(s + 1) + 1]
  BY <1>1, <1>3 DEF LinksOK
<1> QED BY <1>2, <1>3, <1>4

\* The steps of pop that can return a node.
LEMMA PopTakeStep ==
    ASSUME IInv, PopCas \/ PopBack \/ PopFront
    PROVE  IInv'
<1>0. Typed /\ History
  BY DEF IInv
<1>1. PICK s \in Nat : Chain(s)
  BY DEF IInv
<1>2. /\ cpc \in {"pop_cas", "pop_back", "pop_front"} /\ cpc # "batch_walk"
      /\ UNCHANGED <<next, producer, pushed>>
  BY DEF PopCas, PopBack, PopFront
<1>3. /\ FrontOK(s) /\ Len(pushed) \in Nat /\ s < Len(pushed) /\ cfirst = pushed[s + 1]
      /\ back = pushed[Len(pushed)] /\ back # Null
  BY <1>0, <1>1, <1>2, ConsumerIsAtHead DEF Chain, FrontOK
<1>4. Pending' = Pending
  BY <1>2 DEF Pending, producer
<1>5. CASE PopCas /\ cnext # Null
  BY <1>0, <1>1, <1>2, <1>5, LinkLeadsOn, OneNodeReturned DEF PopCas
<1>6. CASE PopFront
  <2>1. cnext # Null /\ cpc = "pop_front" /\ back' = back
    BY <1>3, <1>6 DEF PopFront, FrontOK
  <2> QED BY <1>0, <1>1, <1>2, <1>6, <2>1, LinkLeadsOn, OneNodeReturned DEF PopFront
<1>7. CASE PopBack /\ back = cfirst
  <2>1. /\ s + 1 \in Window /\ Len(pushed) \in Window
    BY <1>0, <1>1, <1>2, <1>3, ConsumerIsAtHead
  <2>2. s + 1 = Len(pushed)
    BY <1>0, <1>3, <1>7, <2>1 DEF History
  <2>3. cpc = "pop_back" /\ back' = Null /\ Return(<<cfirst>>) /\ front' = front
    BY <1>7 DEF PopBack
  <2>4. front = Null
    BY <1>3, <2>3 DEF FrontOK
  <2> QED BY <1>0, <1>1, <1>2, <2>2, <2>3, <2>4, OneNodeReturned
<1>8. CASE PopCas /\ cnext = Null
  <2>1. /\ cpc = "pop_cas" /\ cpc' = "pop_back" /\ front' = Null
        /\ UNCHANGED <<back, popped, cfirst, cnext, taken>>
    BY <1>8 DEF PopCas, Continue
  <2>2. Typed'
    BY <1>0, <1>2, <2>1 DEF Typed, CPCs, NodeOrNull, producer
  <2>3. FrontOK(s)'
    BY <1>2, <1>3, <1>4, <2>1 DEF FrontOK
  <2> QED BY <1>0, <1>1, <1>2, <2>1, <2>2, <2>3, ConsumerFrame
<1>9. CASE PopBack /\ back # cfirst
  <2>1. /\ cpc = "pop_back" /\ cpc' = "pop_spin"
        /\ UNCHANGED <<back, front, popped, cfirst, cnext, taken>>
    BY <1>3, <1>9 DEF PopBack, Continue
  <2>2. Typed'
    BY <1>0, <1>2, <2>1 DEF Typed, CPCs, producer
  <2>3. s + 1 < Len(pushed)
    BY <1>3, <1>9
  <2>4. FrontOK(s)'
    BY <1>2, <1>3, <1>4, <2>1, <2>3 DEF FrontOK
  <2> QED BY <1>0, <1>1, <1>2, <2>1, <2>2, <2>4, ConsumerFrame
<1> QED BY <1>5, <1>6, <1>7, <1>8, <1>9

\* Taking back cuts the whole chain off: the next push begins a new one.
LEMMA BatchBackStep ==
    ASSUME IInv, BatchBack
    PROVE  IInv'
<1>0. Typed /\ History
  BY DEF IInv
<1>1. PICK s \in Nat : Chain(s)
  BY DEF IInv
<1> DEFINE L == Len(pushed)
<1>2. /\ Cut(s) /\ BackOK(s) /\ LinksOK(s) /\ ProducersOK(s) /\ FrontOK(s)
  BY <1>1 DEF Chain
<1>3. cpc = "batch_back" /\ UNCHANGED <<cfirst, popped, front, next, producer, pushed>>
  BY DEF BatchBack
<1>4. /\ L \in Nat /\ s = Len(popped) /\ Window = s + 1 .. L
      /\ s < L /\ cfirst = pushed[s + 1] /\ cfirst \notin Pending /\ cfirst \in Nodes
      /\ back = pushed[L] /\ back # Null /\ front = Null
  BY <1>0, <1>1, <1>2, <1>3, ConsumerIsAtHead DEF FrontOK
<1>5. /\ cpc' = "batch_walk" /\ cnext' = pushed[L] /\ back' = Null
      /\ taken' = <<cfirst>>
  BY <1>4 DEF BatchBack
<1>6. Window' = Window /\ Pending' = Pending /\ UNCHANGED <<ppc, pfirst, pold>>
  BY <1>3 DEF Window, Pending, producer
<1>7. Typed' /\ History'
  <2>1. cnext' \in NodeOrNull /\ back' \in NodeOrNull /\ taken' \in Seq(Nodes)
    BY <1>0, <1>4, <1>5 DEF Typed, NodeOrNull
  <2> QED BY <1>0, <1>3, <1>5, <1>6, <2>1 DEF Typed, History, CPCs
<1>8. Cut(L)' /\ BackOK(L)' /\ FrontOK(L)'
  BY <1>3, <1>4, <1>5 DEF Cut, BackOK, FrontOK
<1>9. LinksOK(L)'
  <2>1. ASSUME NEW i \in Window
        PROVE  next[pushed[i]] = IF i = L \/ pushed[i + 1] \in Pending
                                 THEN Null ELSE pushed[i + 1]
    <3>1. i # s
      BY <1>4
    <3> QED BY <1>2, <3>1 DEF LinksOK
  <2> QED BY <1>3, <1>6, <2>1 DEF LinksOK
<1>10. ProducersOK(L)'
  <2>1. ASSUME NEW q \in Producers, ppc[q] = "link"
        PROVE  \E i \in Window : /\ pfirst[q] = pushed[i]
                                 /\ pold[q] = IF i = L + 1 THEN Null ELSE pushed[i - 1]
                                 /\ i > s + 1
    <3>1. PICK i \in Window : /\ pfirst[q] = pushed[i]
                              /\ pold[q] = IF i = s + 1 THEN Null ELSE pushed[i - 1]
      BY <1>2, <2>1 DEF ProducersOK, ProducerOK
    <3>2. pushed[i] \in Pending
      BY <2>1, <3>1 DEF Pending
    <3>3. i # s + 1
      BY <1>4, <3>2
    <3>4. i > s + 1 /\ i # L + 1
      BY <1>4, <3>3
    <3> QED BY <3>1, <3>3, <3>4
  <2>2. ASSUME NEW q \in Producers PROVE ProducerOK(L, q)'
    <3>1. CASE ppc[q] = "link"
      BY <1>3, <1>4, <1>6, <2>1, <3>1 DEF ProducerOK
    <3>2. CASE ppc[q] # "link"
      BY <1>2, <1>6, <3>2 DEF ProducersOK, ProducerOK
    <3> QED BY <3>1, <3>2
  <2> QED BY <1>2, <1>6, <2>2 DEF ProducersOK
<1>11. WalkOK(L)'
  BY <1>3, <1>4, <1>5, <1>6 DEF WalkOK
<1> QED BY <1>4, <1>7, <1>8, <1>9, <1>10, <1>11 DEF IInv, Chain

\* The walk returns the nodes that were cut off, or goes on to the next of them.
LEMMA BatchWalkStep ==
    ASSUME IInv, BatchWalk
    PROVE  IInv'
<1>0. Typed /\ History
  BY DEF IInv
<1>1. PICK s \in Nat : Chain(s)
  BY DEF IInv
<1> DEFINE L == Len(pushed)
           H == Len(popped)
           k == Len(taken)
<1>2. /\ Cut(s) /\ BackOK(s) /\ LinksOK(s) /\ ProducersOK(s) /\ FrontOK(s) /\ WalkOK(s)
  BY <1>1 DEF Chain
<1>3. /\ cpc = "batch_walk"
      /\ UNCHANGED <<back, front, next, ppc, pfirst, pold, pushed>> /\ Pending' = Pending
  BY DEF BatchWalk, producer, Pending
<1>4. /\ L \in Nat /\ H \in Nat /\ k \in Nat /\ H < s /\ s <= L /\ cnext = pushed[s]
      /\ Window = H + 1 .. L /\ k >= 1 /\ H + k <= s
      /\ \A i \in 1..k : taken[i] = pushed[H + i] /\ taken[i] \notin Pending
  BY <1>0, <1>2, <1>3, WindowHolds DEF Cut, WalkOK, Window
<1>5. H + k \in Window /\ s \in Window /\ H + k # L + 1 /\ k \in 1..k
  BY <1>4
<1>6. Last(taken) = pushed[H + k]
  BY <1>4, <1>5 DEF Last
<1>7. CASE Last(taken) = cnext
  <2>1. H + k = s
    BY <1>0, <1>4, <1>5, <1>6, <1>7 DEF History
  <2>2. /\ popped' = popped \o taken /\ cpc' = "idle" /\ cfirst' = Null /\ cnext' = Null
        /\ taken' = <<>>
    BY <1>7 DEF BatchWalk, Return
  <2>3. /\ popped' \in Seq(Nodes) /\ Len(popped') = s
        /\ \A i \in 1..H : popped'[i] = popped[i]
        /\ \A i \in H + 1 .. s : popped'[i] = taken[i - H]
    BY <1>0, <1>4, <2>1, <2>2 DEF Typed
  <2>4. Window' = s + 1 .. L /\ Window' \subseteq Window
    BY <1>3, <1>4, <2>3 DEF Window
  <2>5. Typed'
    BY <1>0, <1>3, <2>2, <2>3 DEF Typed, CPCs, NodeOrNull
  <2>6. \A i \in H + 1 .. s : i - H \in 1..k /\ H + (i - H) = i
    BY <1>4, <2>1
  <2>7. \A i \in H + 1 .. s : popped'[i] = pushed[i] /\ pushed[i] \notin Pending
    BY <1>4, <2>3, <2>6
  <2>8. \A i \in 1..s : i \in 1..H \/ i \in H + 1 .. s
    BY <1>4
  <2>9. History'
    BY <1>0, <1>3, <1>4, <2>3, <2>4, <2>7, <2>8 DEF History
  <2>10. Cut(s)' /\ BackOK(s)' /\ FrontOK(s)' /\ WalkOK(s)'
    BY <1>2, <1>3, <1>4, <2>2, <2>3 DEF Cut, BackOK, FrontOK, WalkOK
  <2>11. LinksOK(s)'
    BY <1>2, <1>3, <2>4 DEF LinksOK
  <2>12. ASSUME NEW q \in Producers PROVE ProducerOK(s, q)'
    <3>1. CASE ppc[q] = "link"
      <4>1. PICK i \in Window : /\ pfirst[q] = pushed[i]
                                /\ pold[q] = IF i = s + 1 THEN Null ELSE pushed[i - 1]
        BY <1>2, <3>1 DEF ProducersOK, ProducerOK
      <4>2. pushed[i] \in Pending
        BY <3>1, <4>1 DEF Pending
      <4>3. i \in Window' /\ i > s
        BY <1>4, <2>4, <2>7, <4>2
      <4> QED BY <1>3, <3>1, <4>1, <4>3 DEF ProducerOK
    <3>2. CASE ppc[q] # "link"
      BY <1>2, <1>3, <3>2 DEF ProducersOK, ProducerOK
    <3> QED BY <3>1, <3>2
  <2>13. ProducersOK(s)'
    BY <1>2, <1>3, <2>12 DEF ProducersOK
  <2> QED BY <2>5, <2>9, <2>10, <2>11, <2>13 DEF IInv, Chain
<1>8. CASE Last(taken) # cnext
  <2>1. /\ next[pushed[H + k]] # Null /\ taken' = Append(taken, next[pushed[H + k]])
        /\ UNCHANGED <<cpc, cfirst, cnext, popped>>
    BY <1>6, <1>8 DEF BatchWalk
  <2>2. H + k < s /\ H + k # L
    BY <1>4, <1>6, <1>8
  <2>3. next[pushed[H + k]] = pushed[(H + k) + 1] /\ pushed[(H + k) + 1] \notin Pending
    BY <1>2, <1>5, <2>1, <2>2 DEF LinksOK
  <2>4. /\ (H + k) + 1 = H + (k + 1) /\ (H + k) + 1 \in 1..L
    BY <1>4, <2>2
  <2>5. pushed[H + (k + 1)] \in Nodes
    BY <1>0, <2>4, WindowHolds
  <2>6. /\ taken' \in Seq(Nodes) /\ Len(taken') = k + 1
        /\ taken'[k + 1] = pushed[H + (k + 1)]
        /\ \A i \in 1..k : taken'[i] = taken[i]
    BY <1>0, <2>1, <2>3, <2>4, <2>5 DEF Typed
  <2>7. Typed' /\ History' /\ Window' = Window
    BY <1>0, <1>3, <2>1, <2>6 DEF Typed, History, Window
  <2>8. Cut(s)' /\ BackOK(s)' /\ FrontOK(s)'
    BY <1>2, <1>3, <2>1 DEF Cut, BackOK, FrontOK
  <2>9. LinksOK(s)' /\ ProducersOK(s)'
    BY <1>2, <1>3, <2>1, <2>7 DEF LinksOK, ProducersOK, ProducerOK
  <2>10. WalkOK(s)'
    <3>1. \A i \in 1..k + 1 : i \in 1..k \/ i = k + 1
      BY <1>4
    <3>2. \A i \in 1..k + 1 : taken'[i] = pushed[H + i] /\ taken'[i] \notin Pending
      BY <1>4, <2>3, <2>4, <2>6, <3>1
    <3>3. k + 1 >= 1 /\ H + (k + 1) <= s
      BY <1>4, <2>2
    <3> QED BY <1>3, <2>1, <2>6, <3>2, <3>3 DEF WalkOK
  <2> QED BY <2>7, <2>8, <2>9, <2>10 DEF IInv, Chain
<1> QED BY <1>7, <1>8

\* An empty queue, as it is created.
LEMMA InitChain == Init => IInv
<1> SUFFICES ASSUME Init PROVE IInv
  OBVIOUS
<1>1. Typed
  BY DEF Init, Typed, NodeOrNull, CPCs
<1>2. Len(pushed) = 0 /\ Len(popped) = 0 /\ Window = {} /\ Pending = {}
  BY DEF Init, Window, Pending
<1>3. History /\ Cut(0) /\ BackOK(0) /\ LinksOK(0) /\ FrontOK(0) /\ WalkOK(0)
  BY <1>2 DEF Init, History, Cut, BackOK, LinksOK, FrontOK, WalkOK
<1>4. ProducersOK(0)
  BY DEF Init, ProducersOK, ProducerOK
<1> QED BY <1>1, <1>3, <1>4 DEF IInv, Chain

\* Every step of push, pop and pop_batch keeps the chain.
LEMMA StepKeepsChain == IInv /\ [Next]_vars => IInv'
<1> SUFFICES ASSUME IInv, [Next]_vars PROVE IInv'
  OBVIOUS
<1>1. ASSUME NEW p \in Producers, PushLink(p) PROVE IInv'
  BY <1>1, PushLinkStep
<1>2. ASSUME NEW p \in Producers, NEW n \in Nodes, PushSwap(p, n) PROVE IInv'
  BY <1>2, PushSwapStep
<1>3. CASE Pop
  BY <1>3, PopLoadStep, PopTakeStep DEF Pop
<1>4. CASE PopBatch
  BY <1>4, PopLoadStep, BatchBackStep, BatchWalkStep DEF PopBatch
<1>5. CASE UNCHANGED vars
  <2>1. /\ UNCHANGED <<back, front, next, ppc, pfirst, pold, pushed, popped>>
        /\ UNCHANGED <<cpc, cfirst, cnext, taken>>
        /\ Window' = Window /\ Pending' = Pending
    BY <1>5 DEF vars, producer, consumer, Window, Pending
  <2>2. PICK s \in Nat : Chain(s)
    BY DEF IInv
  <2>3. Cut(s)' /\ BackOK(s)' /\ FrontOK(s)' /\ WalkOK(s)'
    BY <2>1, <2>2 DEF Chain, Cut, BackOK, FrontOK, WalkOK
  <2>4. LinksOK(s)' /\ ProducersOK(s)'
    BY <2>1, <2>2 DEF Chain, LinksOK, ProducersOK, ProducerOK
  <2>5. Typed' /\ History'
    BY <2>1 DEF IInv, Typed, History
  <2> QED BY <2>3, <2>4, <2>5 DEF IInv, Chain
<1> QED BY <1>1, <1>2, <1>3, <1>4, <1>5 DEF Next

\* What has come out of the chain is the beginning of what went in.
LEMMA ChainIsFifo == IInv => Fifo
<1> SUFFICES ASSUME IInv PROVE Fifo
  OBVIOUS
<1>1. /\ pushed \in Seq(Nodes) /\ popped \in Seq(Nodes)
      /\ Len(popped) <= Len(pushed) /\ \A i \in 1..Len(popped) : popped[i] = pushed[i]
  BY DEF IInv, Typed, History
<1>2. popped = SubSeq(pushed, 1, Len(popped))
  BY <1>1
<1> QED BY <1>1, <1>2 DEF Fifo, IsPrefix

-----------------------------------------------------------------------------
(* The theorems about the queue.                                           *)

\* The nodes of the queue form, at every step of every push, pop and
\* pop_batch, the chain that IInv describes.
THEOREM UnboundedQueueInvariant == Spec => []IInv
BY InitChain, StepKeepsChain, PTL DEF Spec

\* The consumer of UnboundedQueue gets every node exactly once and in the order
\* in which the pushes swapped back, whether it calls pop or pop_batch and
\* however late a push stores its link.
THEOREM UnboundedQueueIsFifo == Spec => []Fifo
BY ChainIsFifo, UnboundedQueueInvariant, PTL

\* The debug_asserts of pop and pop_batch never fail: back is not null while
\* the consumer takes a node out.
THEOREM UnboundedQueueBackIsThere == Spec => []NoNullBack
<1>1. IInv => NoNullBack
  BY DEF IInv, Chain, FrontOK, NoNullBack
<1> QED BY <1>1, UnboundedQueueInvariant, PTL

\* The link that a push stores behind the old back goes into a node that is
\* still in the queue, so the node may be freed or pushed again as soon as
\* the consumer has it.
THEOREM UnboundedQueueLinksInside == Spec => []NoStaleLink
<1>1. IInv => NoStaleLink
  <2> SUFFICES ASSUME IInv, NEW p \in Producers, pold[p] # Null
               PROVE  pold[p] \in InQueue
    BY DEF NoStaleLink
  <2>1. PICK s \in Nat : Chain(s)
    BY DEF IInv
  <2>2. ppc[p] = "link"
    BY <2>1 DEF IInv, Typed, Chain, ProducersOK, ProducerOK
  <2>3. PICK i \in Window : /\ pold[p] = IF i = s + 1 THEN Null ELSE pushed[i - 1]
                            /\ i > s \/ i > Len(popped) + 1
    BY <2>1, <2>2 DEF Chain, ProducersOK, ProducerOK
  <2>4. Len(pushed) \in Nat /\ Len(popped) \in Nat /\ s >= Len(popped)
    BY <2>1, WindowHolds DEF IInv, Chain, Cut
  <2>5. i - 1 \in Len(popped) + 1 .. Len(pushed)
    BY <2>3, <2>4 DEF Window
  <2> QED BY <2>3, <2>5 DEF InQueue
<1> QED BY <1>1, UnboundedQueueInvariant, PTL

-----------------------------------------------------------------------------
(* The event loop: its inductive invariant, besides that of the queue.     *)

Jobs == {"new", "working", "wake", "unref", "unref_wake", "over"}

ELTyped ==
    /\ job \in [Producers -> Jobs]
    /\ active \in Nat /\ concurrent_ref \in Int
    /\ tasks \in Seq(Producers) /\ ran \in Seq(Producers)

\* A task is pushed once, by its own job, which then goes on to the wakeup.
Posted ==
    /\ \A p \in Producers : ppc[p] = "link" => job[p] = "working"
    /\ \A p \in Producers :
         (\E i \in 1..Len(pushed) : pushed[i] = p) <=>
         ppc[p] = "link" \/ job[p] \notin {"new", "working"}
    /\ \A i, j \in 1..Len(pushed) : pushed[i] = pushed[j] => i = j
    /\ \A p \in Producers : job[p] \in {"unref", "unref_wake"} => p \in Cpp

\* The loop takes whole batches, and only inside tick_concurrent.
Batches == cpc \in {"idle", "batch_back", "batch_walk"} /\ (cpc # "idle" => pc = "pop")

WorkHolders == {p \in Work : job[p] # "new" /\ ~HasRun(p)}
CppHolders == {p \in Cpp : job[p] \in {"working", "wake", "unref"}}

\* The references of ConcurrentCppTasks that update_counts has put into active:
\* what active has besides those of the WorkTasks, which are counted in it from
\* the start, so dropping one of these never saturates.
Spare == active - Cardinality(WorkHolders)

Counted == Spare \in Nat /\ Spare + concurrent_ref = Cardinality(CppHolders)

\* Since tick_concurrent last looked, whoever has changed the count or the
\* queue has written the edge or is about to.
Waking ==
    /\ pc \in {"pop", "tasks", "immediates", "poll"} /\ concurrent_ref # 0 =>
         edge \/ \E p \in Producers : job[p] = "unref_wake"
    /\ pc \in {"immediates", "poll"} /\ pushed # popped =>
         edge \/ \E p \in Producers : job[p] = "wake" \/ ppc[p] = "link"

\* The ConcurrentCppTasks that JavaScript has started.
Started == {p \in Cpp : job[p] # "new"}

\* When active has no reference of a ConcurrentCppTask, those that were started
\* before update_counts have posted their tasks, and pop_batch looks after that.
Settled ==
    /\ pc = "pop" /\ Spare = 0 =>
         \A p \in Started : job[p] \in {"unref_wake", "over"}
    /\ pc \in {"immediates", "poll", "timers", "alive"} /\ Spare = 0 =>
         \A p \in Started : p \in unseen \/ \E i \in 1..Len(popped) : popped[i] = p

ELInv ==
    /\ IInv
    /\ ELTyped /\ Posted /\ Batches /\ ran \o tasks = popped
    /\ Counted /\ Waking /\ Settled /\ NoJobCutOff

-----------------------------------------------------------------------------
(* References.                                                             *)

\* What the constants are.
LEMMA Kinds ==
    /\ Work \subseteq Producers /\ Cpp \subseteq Producers /\ Work \cap Cpp = {}
    /\ Nodes = Producers /\ IsFiniteSet(Producers)
BY EmbeddedAssumption, KindsAssumption, FiniteAssumption

\* Sets of jobs are finite, and disjoint ones can be added up.
LEMMA JobSets ==
    /\ \A S \in SUBSET Producers : IsFiniteSet(S) /\ Cardinality(S) \in Nat
    /\ \A S, T \in SUBSET Producers :
         S \cap T = {} => Cardinality(S \cup T) = Cardinality(S) + Cardinality(T)
    /\ \A S \in SUBSET Producers : Cardinality(S) = 0 => S = {}
    /\ \A S \in SUBSET Producers : \A p \in S : Cardinality(S \ {p}) = Cardinality(S) - 1
<1>1. ASSUME NEW S \in SUBSET Producers PROVE IsFiniteSet(S) /\ Cardinality(S) \in Nat
  BY Kinds, FS_Subset, FS_CardinalityType
<1>2. ASSUME NEW S \in SUBSET Producers, NEW T \in SUBSET Producers, S \cap T = {}
      PROVE  Cardinality(S \cup T) = Cardinality(S) + Cardinality(T)
  <2>1. Cardinality(S \cup T) = Cardinality(S) + Cardinality(T) - Cardinality(S \cap T)
    BY <1>1, FS_Union
  <2>2. Cardinality(S \cap T) = 0
    BY <1>2, FS_EmptySet, Zenon
  <2> QED BY <1>1, <2>1, <2>2
<1>3. ASSUME NEW S \in SUBSET Producers, Cardinality(S) = 0 PROVE S = {}
  BY <1>1, <1>3, FS_EmptySet
<1>4. ASSUME NEW S \in SUBSET Producers, NEW p \in S
      PROVE  Cardinality(S \ {p}) = Cardinality(S) - 1
  BY <1>1, FS_RemoveElement
<1> QED BY <1>1, <1>2, <1>3, <1>4

\* The two kinds of references are apart.
LEMMA HoldersAdd ==
    /\ WorkHolders \subseteq Producers /\ CppHolders \subseteq Producers
    /\ Holders = WorkHolders \cup CppHolders
    /\ Cardinality(Holders) = Cardinality(WorkHolders) + Cardinality(CppHolders)
    /\ Cardinality(WorkHolders) \in Nat /\ Cardinality(CppHolders) \in Nat
    /\ Cardinality(CppHolders) = 0 => CppHolders = {}
    /\ Cardinality(WorkHolders) = 0 => WorkHolders = {}
<1>1. /\ WorkHolders \subseteq Producers /\ CppHolders \subseteq Producers
      /\ Holders = WorkHolders \cup CppHolders /\ WorkHolders \cap CppHolders = {}
  BY Kinds DEF WorkHolders, CppHolders, Holders
<1> QED BY <1>1, JobSets

\* References change only with the jobs and with the tasks that have run.
LEMMA HoldersKept ==
    ASSUME UNCHANGED <<job, ran>>
    PROVE  UNCHANGED <<WorkHolders, CppHolders, Holders, Started>>
BY DEF WorkHolders, CppHolders, Holders, Started, HasRun

-----------------------------------------------------------------------------
(* Tasks.                                                                  *)

\* What has run has been popped, so it was pushed, and by a job that was started.
LEMMA RanWasPosted ==
    ASSUME ELInv
    PROVE  /\ \A p \in Producers : HasRun(p) => job[p] # "new"
           /\ tasks # <<>> => /\ Head(tasks) \in Producers /\ ~HasRun(Head(tasks))
                              /\ job[Head(tasks)] # "new"
           /\ tasks = <<>> => ran = popped
<1>1. /\ ran \in Seq(Producers) /\ tasks \in Seq(Producers) /\ popped = ran \o tasks
      /\ Len(popped) <= Len(pushed) /\ pushed \in Seq(Nodes)
      /\ \A i \in 1..Len(popped) : popped[i] = pushed[i]
      /\ \A i, j \in 1..Len(pushed) : pushed[i] = pushed[j] => i = j
  BY DEF ELInv, IInv, Typed, History, ELTyped, Posted
<1>2. /\ Len(popped) = Len(ran) + Len(tasks) /\ DOMAIN ran = 1..Len(ran)
      /\ \A i \in 1..Len(ran) : popped[i] = ran[i]
      /\ tasks # <<>> => Len(tasks) > 0 /\ popped[Len(ran) + 1] = Head(tasks)
      /\ Len(ran) \in Nat /\ Len(tasks) \in Nat /\ Len(pushed) \in Nat
  BY <1>1
<1>3. /\ \A i \in 1..Len(ran) : pushed[i] = ran[i] /\ i \in 1..Len(pushed)
      /\ tasks # <<>> => /\ pushed[Len(ran) + 1] = Head(tasks)
                         /\ Len(ran) + 1 \in 1..Len(pushed)
  BY <1>1, <1>2
<1>4. \A i \in 1..Len(pushed) : pushed[i] \in Producers /\ job[pushed[i]] # "new"
  <2>1. ASSUME NEW i \in 1..Len(pushed) PROVE pushed[i] \in Producers
    BY <1>1, Kinds
  <2> QED BY <2>1 DEF ELInv, Posted
<1>5. ASSUME NEW p \in Producers, HasRun(p) PROVE job[p] # "new"
  <2>1. PICK i \in 1..Len(ran) : ran[i] = p
    BY <1>2, <1>5 DEF HasRun
  <2> QED BY <1>3, <1>4, <2>1
<1>6. ASSUME tasks # <<>> PROVE ~HasRun(Head(tasks))
  <2> SUFFICES ASSUME NEW i \in 1..Len(ran), ran[i] = Head(tasks) PROVE FALSE
    BY <1>2 DEF HasRun
  <2>1. i = Len(ran) + 1
    BY <1>1, <1>3, <1>6
  <2> QED BY <1>2, <2>1
<1>7. tasks = <<>> => ran = popped
  BY <1>1
<1> QED BY <1>3, <1>4, <1>5, <1>6, <1>7

-----------------------------------------------------------------------------
(* Steps of the JavaScript thread.                                         *)

\* Every step of the loop and of its jobs is one of the queue or leaves it alone.
LEMMA QueueStep == ASSUME ELInv, ELNext PROVE [Next]_vars /\ IInv'
<1>1. [Next]_vars
  BY Kinds DEF ELNext, LoopThread, OtherThread, Script, Loaded, Turn, BeforeExit, Exit,
     UpdateCounts, PopNothing, PopTasks, RunTask, TasksDone, TickImmediates, Poll,
     DrainTimers, PollEvent, Enqueue, EnqueueLink, Wake, Unref, UnrefWake, quiet, Next
<1> QED BY <1>1, StepKeepsChain DEF ELInv

\* A batch is taken only at "pop".
LEMMA OutsidePop ==
    ASSUME ELInv, UNCHANGED vars, pc # "pop"
    PROVE  /\ UNCHANGED <<ppc, pfirst, pold, pushed, popped, cpc>> /\ Batches'
BY DEF ELInv, Batches, vars, producer, consumer

\* A step that changes neither queue, jobs nor counts, and goes where no more is
\* promised than where it came from.
LEMMA QuietKeeps ==
    ASSUME ELInv, IInv', UNCHANGED <<vars, job, counts, tasks, ran, unseen>>,
           pc \notin {"pop", "exit"}, pc' # "pop",
           pc' \in {"tasks", "immediates", "poll"} =>
               pc \in {"tasks", "immediates", "poll"} /\ edge' = edge,
           pc' \in {"immediates", "poll"} => pc \in {"immediates", "poll"},
           pc' \in {"immediates", "poll", "timers", "alive"} =>
               pc \in {"immediates", "poll", "timers", "alive"},
           NoJobCutOff'
    PROVE  ELInv'
<1>1. /\ UNCHANGED <<ppc, pfirst, pold, pushed, popped, cpc, active, concurrent_ref>>
      /\ Batches'
  BY OutsidePop DEF counts
<1>2. UNCHANGED <<WorkHolders, CppHolders, Started>>
  BY HoldersKept
<1>3. Spare' = Spare
  BY <1>1, <1>2 DEF Spare
<1>4. ELTyped' /\ Posted' /\ Counted' /\ ran' \o tasks' = popped'
  BY <1>1, <1>2, <1>3 DEF ELInv, ELTyped, Posted, Counted
<1>5. Waking'
  BY <1>1 DEF ELInv, Waking
<1>6. Settled'
  BY <1>1, <1>2, <1>3 DEF ELInv, Settled
<1> QED BY <1>1, <1>4, <1>5, <1>6 DEF ELInv

\* What JavaScript changes by starting the jobs in `new`, when no task has run
\* before it or the first of tasks has: the references remain counted, and
\* those of ConcurrentCppTasks are new to concurrent_ref.
LEMMA JavaScriptCounts ==
    ASSUME ELInv, UNCHANGED vars, NEW act, NEW imm, NEW looked \in BOOLEAN,
           JavaScript(act, imm, looked),
           \/ act = active /\ ran' = ran
           \/ /\ tasks # <<>> /\ ran' = Append(ran, Head(tasks))
              /\ act = IF Head(tasks) \in Work THEN SubActive(1) ELSE active
    PROVE  /\ job' \in [Producers -> Jobs] /\ active' \in Nat /\ concurrent_ref' \in Int
           /\ Spare' = Spare /\ Counted' /\ Posted'
           /\ concurrent_ref' # concurrent_ref => edge'
           /\ edge => edge'
           /\ \A p \in Producers : job[p] # "new" => job'[p] = job[p]
           /\ ~looked => Started' \subseteq Started \cup unseen'
           /\ unseen \subseteq unseen'
<1>1. PICK new \in SUBSET {p \in Producers : job[p] = "new"} :
        /\ job' = [p \in Producers |-> IF p \in new THEN "working" ELSE job[p]]
        /\ active' = act + Cardinality(new \cap Work)
        /\ concurrent_ref' = concurrent_ref + Cardinality(new \cap Cpp)
        /\ edge' = (edge \/ new \cap Cpp # {})
        /\ unseen' = IF looked THEN unseen ELSE unseen \cup (new \cap Cpp)
  BY DEF JavaScript
<1>2. /\ UNCHANGED <<ppc, pushed>>
      /\ active \in Nat /\ concurrent_ref \in Int /\ job \in [Producers -> Jobs]
      /\ ran \in Seq(Producers)
      /\ new \cap Work \in SUBSET Producers /\ new \cap Cpp \in SUBSET Producers
  BY DEF ELInv, ELTyped, vars, producer
<1>3. /\ Cardinality(new \cap Work) \in Nat /\ Cardinality(new \cap Cpp) \in Nat
      /\ new \cap Cpp = {} => Cardinality(new \cap Cpp) = 0
  <2>1. new \cap Cpp = {} => Cardinality(new \cap Cpp) = 0
    BY FS_EmptySet, Zenon
  <2> QED BY <1>2, <2>1, JobSets
<1>4. \A p \in Producers : /\ job[p] # "new" => job'[p] = job[p] /\ p \notin new
                           /\ p \in new => job[p] = "new" /\ job'[p] = "working"
                           /\ p \notin new => job'[p] = job[p]
  BY <1>1
<1>5. job' \in [Producers -> Jobs]
  BY <1>1, <1>2 DEF Jobs
<1>6. Posted'
  <2>1. \A p \in Producers : job[p] = "new" =>
          ppc[p] # "link" /\ ~\E i \in 1..Len(pushed) : pushed[i] = p
    BY DEF ELInv, Posted
  <2> QED BY <1>2, <1>4, <2>1 DEF ELInv, Posted
<1>7. /\ CppHolders' = CppHolders \cup (new \cap Cpp) /\ CppHolders \cap (new \cap Cpp) = {}
  BY <1>4, Kinds DEF CppHolders
<1>8. Cardinality(CppHolders') = Cardinality(CppHolders) + Cardinality(new \cap Cpp)
  BY <1>2, <1>7, HoldersAdd, JobSets
<1>9. \A p \in new : ~HasRun(p)
  BY <1>4, RanWasPosted
<1>10. Spare' = Spare /\ active' \in Nat
  <2>1. CASE act = active /\ ran' = ran
    <3>1. /\ WorkHolders' = WorkHolders \cup (new \cap Work)
          /\ WorkHolders \cap (new \cap Work) = {}
      BY <1>4, <1>9, <2>1, Kinds DEF WorkHolders, HasRun
    <3>2. Cardinality(WorkHolders') = Cardinality(WorkHolders) + Cardinality(new \cap Work)
      BY <1>2, <3>1, HoldersAdd, JobSets
    <3> QED BY <1>1, <1>2, <1>3, <2>1, <3>2, HoldersAdd DEF Spare
  <2>2. CASE /\ tasks # <<>> /\ ran' = Append(ran, Head(tasks))
             /\ act = IF Head(tasks) \in Work THEN SubActive(1) ELSE active
    <3> DEFINE h == Head(tasks)
    <3>1. h \in Producers /\ ~HasRun(h) /\ job[h] # "new"
      BY <2>2, RanWasPosted
    <3> HIDE DEF h
    <3>2. \A p : HasRun(p)' <=> HasRun(p) \/ p = h
      <4>1. /\ DOMAIN ran = 1..Len(ran) /\ DOMAIN ran' = 1..Len(ran) + 1 /\ Len(ran) \in Nat
            /\ ran'[Len(ran) + 1] = h /\ \A i \in 1..Len(ran) : ran'[i] = ran[i]
        BY <1>2, <2>2, <3>1 DEF h
      <4>2. \A i \in 1..Len(ran) + 1 : i \in 1..Len(ran) \/ i = Len(ran) + 1
        BY <4>1
      <4>3. 1..Len(ran) \subseteq 1..Len(ran) + 1 /\ Len(ran) + 1 \in 1..Len(ran) + 1
        BY <4>1
      <4> QED BY <4>1, <4>2, <4>3 DEF HasRun
    <3>3. /\ WorkHolders' = (WorkHolders \ {h}) \cup (new \cap Work)
          /\ (WorkHolders \ {h}) \cap (new \cap Work) = {}
          /\ h \in Work => h \in WorkHolders
          /\ h \notin Work => WorkHolders \ {h} = WorkHolders
      <4>1. h \notin new /\ \A p \in Work : p \in Producers
        BY <1>4, <3>1, Kinds
      <4>2. \A p \in Work : /\ job'[p] # "new" <=> job[p] # "new" \/ p \in new
                            /\ p \in new => job[p] = "new" /\ ~HasRun(p)
        BY <1>4, <1>9, Kinds
      <4> QED BY <3>1, <3>2, <4>1, <4>2 DEF WorkHolders
    <3>4. WorkHolders \ {h} \in SUBSET Producers
      BY HoldersAdd
    <3>5. Cardinality(WorkHolders') =
            Cardinality(WorkHolders \ {h}) + Cardinality(new \cap Work)
      BY <1>2, <3>3, <3>4, JobSets
    <3>6. CASE h \in Work
      <4>1. Cardinality(WorkHolders \ {h}) = Cardinality(WorkHolders) - 1
        BY <3>3, <3>6, HoldersAdd, JobSets
      <4>2. Cardinality(WorkHolders \ {h}) \in Nat
        BY <3>4, JobSets
      <4>3. active >= 1
        BY <1>2, <4>1, <4>2, HoldersAdd DEF ELInv, Counted, Spare
      <4>4. act = active - 1
        BY <1>2, <2>2, <3>6, <4>3 DEF SubActive, h
      <4>5. active' = active - 1 + Cardinality(new \cap Work)
        BY <1>1, <4>4
      <4>6. Cardinality(WorkHolders)' = Cardinality(WorkHolders) - 1 + Cardinality(new \cap Work)
        BY <3>5, <4>1
      <4>7. Cardinality(WorkHolders) \in Nat
        BY HoldersAdd
      <4> QED BY <1>2, <1>3, <4>3, <4>5, <4>6, <4>7 DEF Spare
    <3>7. CASE h \notin Work
      <4>1. act = active
        BY <2>2, <3>7 DEF h
      <4>2. Cardinality(WorkHolders \ {h}) = Cardinality(WorkHolders)
        BY <3>3, <3>7
      <4> QED BY <1>1, <1>2, <1>3, <3>5, <4>1, <4>2, HoldersAdd DEF Spare
    <3> QED BY <3>6, <3>7
  <2> QED BY <2>1, <2>2
<1>11. Counted'
  BY <1>1, <1>2, <1>3, <1>8, <1>10, HoldersAdd DEF ELInv, Counted
<1>12. (concurrent_ref' # concurrent_ref => edge') /\ (edge => edge')
  <2>1. concurrent_ref' # concurrent_ref => new \cap Cpp # {}
    BY <1>1, <1>2, <1>3
  <2>2. edge' = (edge \/ new \cap Cpp # {})
    BY <1>1
  <2>3. (new \cap Cpp # {} => edge') /\ (edge => edge')
    BY Zenon, <2>2
  <2> QED BY Zenon, <2>1, <2>3
<1>13. ~looked => Started' \subseteq Started \cup unseen'
  BY <1>1, <1>4, Kinds DEF Started
<1>14. /\ concurrent_ref' \in Int /\ unseen \subseteq unseen'
       /\ \A p \in Producers : job[p] # "new" => job'[p] = job[p]
  BY <1>1, <1>2, <1>3, <1>4
<1> QED BY <1>5, <1>6, <1>10, <1>11, <1>12, <1>13, <1>14

\* JavaScript runs, and the loop goes where no more is promised than where it
\* came from; what is started where something is promised of the jobs that were
\* started is recorded in unseen.
LEMMA JavaScriptKeeps ==
    ASSUME ELInv, IInv', UNCHANGED vars, NEW act, NEW imm, NEW looked \in BOOLEAN,
           JavaScript(act, imm, looked),
           \/ act = active /\ ran' = ran
           \/ /\ tasks # <<>> /\ ran' = Append(ran, Head(tasks))
              /\ act = IF Head(tasks) \in Work THEN SubActive(1) ELSE active,
           ran' \o tasks' = popped, tasks' \in Seq(Producers),
           pc \notin {"pop", "exit"}, pc' \notin {"pop", "exit"},
           pc' \in {"tasks", "immediates", "poll"} => pc \in {"tasks", "immediates", "poll"},
           pc' \in {"immediates", "poll"} => pc \in {"immediates", "poll"},
           pc' \in {"immediates", "poll", "timers", "alive"} =>
               pc \in {"immediates", "poll", "timers", "alive"} /\ ~looked
    PROVE  ELInv'
<1>1. UNCHANGED <<ppc, pfirst, pold, pushed, popped, cpc>> /\ Batches'
  BY OutsidePop
<1>2. /\ job' \in [Producers -> Jobs] /\ active' \in Nat /\ concurrent_ref' \in Int
      /\ Spare' = Spare /\ Counted' /\ Posted'
      /\ concurrent_ref' # concurrent_ref => edge'
      /\ edge => edge'
      /\ \A p \in Producers : job[p] # "new" => job'[p] = job[p]
      /\ ~looked => Started' \subseteq Started \cup unseen'
      /\ unseen \subseteq unseen'
  BY JavaScriptCounts
<1>3. ran' \in Seq(Producers)
  <2>1. ran \in Seq(Producers) /\ (tasks # <<>> => Head(tasks) \in Producers)
    BY RanWasPosted DEF ELInv, ELTyped
  <2>2. CASE ran' = ran
    BY <2>1, <2>2
  <2>3. CASE tasks # <<>> /\ ran' = Append(ran, Head(tasks))
    BY <2>1, <2>3
  <2> QED BY <2>2, <2>3
<1>4. ELTyped' /\ ran' \o tasks' = popped'
  BY <1>1, <1>2, <1>3 DEF ELTyped
<1>5. Waking'
  <2>1. \A p \in Producers : /\ job[p] = "unref_wake" => job'[p] = "unref_wake"
                             /\ job[p] = "wake" => job'[p] = "wake"
    BY <1>2
  <2>2. pc' \in {"tasks", "immediates", "poll"} /\ concurrent_ref' # 0 =>
          edge' \/ \E p \in Producers : job'[p] = "unref_wake"
    <3>1. CASE concurrent_ref' = concurrent_ref
      BY <1>2, <2>1, <3>1 DEF ELInv, Waking
    <3>2. CASE concurrent_ref' # concurrent_ref
      BY <1>2, <3>2
    <3> QED BY <3>1, <3>2
  <2>3. pc' \in {"immediates", "poll"} /\ pushed # popped =>
          edge' \/ \E p \in Producers : job'[p] = "wake" \/ ppc[p] = "link"
    BY <1>2, <2>1 DEF ELInv, Waking
  <2> QED BY <1>1, <2>2, <2>3 DEF Waking
<1>6. Settled'
  BY <1>1, <1>2 DEF ELInv, Settled
<1>7. NoJobCutOff'
  BY DEF NoJobCutOff
<1> QED BY <1>1, <1>2, <1>4, <1>5, <1>6, <1>7 DEF ELInv

\* Moving the first of t behind r does not change the two together.
LEMMA HeadMoves ==
    ASSUME NEW r \in Seq(Producers), NEW t \in Seq(Producers), t # <<>>
    PROVE  Tail(t) \in Seq(Producers) /\ Append(r, Head(t)) \o Tail(t) = r \o t
<1>1. /\ Len(r) \in Nat /\ Len(t) \in Nat /\ Len(t) >= 1 /\ Head(t) = t[1] /\ t[1] \in Producers
  OBVIOUS
<1>2. /\ Tail(t) \in Seq(Producers) /\ Len(Tail(t)) = Len(t) - 1
      /\ \A i \in 1..Len(t) - 1 : Tail(t)[i] = t[i + 1]
  BY <1>1
<1> DEFINE a == Append(r, Head(t))
<1>3. /\ a \in Seq(Producers) /\ Len(a) = Len(r) + 1 /\ a[Len(r) + 1] = t[1]
      /\ \A i \in 1..Len(r) : a[i] = r[i]
  BY <1>1
<1> HIDE DEF a
<1> DEFINE u == a \o Tail(t)
           v == r \o t
<1>4. /\ u \in Seq(Producers) /\ v \in Seq(Producers)
      /\ Len(u) = Len(r) + Len(t) /\ Len(v) = Len(r) + Len(t)
  BY <1>1, <1>2, <1>3
<1>5. ASSUME NEW i \in 1..Len(r) + Len(t) PROVE u[i] = v[i]
  <2>1. CASE i <= Len(r)
    BY <1>1, <1>2, <1>3, <2>1
  <2>2. CASE i = Len(r) + 1
    BY <1>1, <1>2, <1>3, <2>2
  <2>3. CASE i > Len(r) + 1
    <3>1. u[i] = Tail(t)[i - (Len(r) + 1)] /\ i - (Len(r) + 1) \in 1..Len(t) - 1
      BY <1>1, <1>2, <1>3, <2>3
    <3>2. v[i] = t[i - Len(r)] /\ i - (Len(r) + 1) + 1 = i - Len(r)
      BY <1>1, <2>3
    <3> QED BY <1>2, <3>1, <3>2
  <2>4. i <= Len(r) \/ i = Len(r) + 1 \/ i > Len(r) + 1
    BY <1>1
  <2> QED BY <2>1, <2>2, <2>3, <2>4
<1>6. u = v
  <2> HIDE DEF u, v
  <2> QED BY <1>4, <1>5
<1> QED BY <1>2, <1>6 DEF a

\* The steps that run JavaScript.
LEMMA JavaScriptSteps ==
    ASSUME ELInv, ELNext,
           \/ Script \/ BeforeExit \/ RunTask \/ DrainTimers
           \/ TickImmediates /\ immediates > 0
    PROVE  ELInv'
<1>0. IInv' /\ ran \o tasks = popped /\ tasks \in Seq(Producers) /\ ran \in Seq(Producers)
  BY QueueStep DEF ELInv, ELTyped
<1>1. CASE Script
  BY <1>0, <1>1, JavaScriptKeeps DEF Script
<1>2. CASE BeforeExit
  BY <1>0, <1>2, JavaScriptKeeps DEF BeforeExit
<1>3. CASE RunTask
  <2>1. /\ tasks # <<>> /\ tasks' = Tail(tasks) /\ ran' = Append(ran, Head(tasks))
        /\ UNCHANGED vars /\ pc = "tasks" /\ pc' = "tasks"
        /\ JavaScript(IF Head(tasks) \in Work THEN SubActive(1) ELSE active, immediates, TRUE)
    BY <1>3 DEF RunTask
  <2>2. tasks' \in Seq(Producers) /\ ran' \o tasks' = ran \o tasks
    BY <1>0, <2>1, HeadMoves
  <2> QED BY <1>0, <2>1, <2>2, JavaScriptKeeps
<1>4. CASE DrainTimers
  BY <1>0, <1>4, JavaScriptKeeps DEF DrainTimers
<1>5. CASE TickImmediates /\ immediates > 0
  BY <1>0, <1>5, JavaScriptKeeps DEF TickImmediates
<1> QED BY <1>1, <1>2, <1>3, <1>4, <1>5

\* The program ends with no reference held, every task run that was popped, and
\* the jobs that were started popped or recorded in unseen.
LEMMA ExitCutsNothingOff == ASSUME ELInv, Exit PROVE NoJobCutOff'
<1>1. /\ pc = "alive" /\ ~Alive
      /\ UNCHANGED <<vars, job, active, concurrent_ref, tasks, ran, unseen>>
  BY DEF Exit, quiet, counts
<1>2. /\ active = 0 /\ tasks = <<>> /\ ~(concurrent_ref > 0) /\ concurrent_ref \in Int
  BY <1>1 DEF ELInv, ELTyped, Alive
<1>3. /\ Cardinality(WorkHolders) = 0 /\ Cardinality(CppHolders) = 0 /\ Spare = 0
  BY <1>2, HoldersAdd DEF ELInv, Counted, Spare
<1>4. WorkHolders = {} /\ Holders = {}
  BY <1>3, HoldersAdd
<1>5. ran = popped /\ ran \in Seq(Producers)
  BY <1>2, RanWasPosted DEF ELInv, ELTyped
<1>6. \A p \in Work : job[p] # "new" => HasRun(p)
  BY <1>4 DEF WorkHolders
<1>7. \A p \in Cpp : job[p] # "new" => HasRun(p) \/ p \in unseen
  BY <1>1, <1>3, <1>5 DEF ELInv, Settled, Started, HasRun
<1>8. Holders' = Holders /\ \A p : HasRun(p)' <=> HasRun(p)
  BY <1>1, HoldersKept DEF HasRun
<1> QED BY <1>1, <1>4, <1>6, <1>7, <1>8 DEF NoJobCutOff

\* The steps that only move the loop on.
LEMMA QuietSteps ==
    ASSUME ELInv, ELNext,
           \/ Loaded \/ Turn \/ Exit \/ TasksDone \/ Poll \/ PollEvent
           \/ TickImmediates /\ ~(immediates > 0)
    PROVE  ELInv'
<1>0. IInv'
  BY QueueStep
<1>1. NoJobCutOff'
  <2>1. CASE Exit
    BY <2>1, ExitCutsNothingOff
  <2>2. CASE ~Exit
    BY <2>2 DEF Loaded, Turn, TasksDone, Poll, PollEvent, TickImmediates, NoJobCutOff
  <2> QED BY <2>1, <2>2
<1>2. UNCHANGED <<vars, job, counts, tasks, ran, unseen>>
  BY DEF Loaded, Turn, Exit, TasksDone, Poll, PollEvent, TickImmediates, quiet
<1>3. /\ pc \notin {"pop", "exit"} /\ pc' # "pop"
      /\ pc' \in {"tasks", "immediates", "poll"} =>
           pc \in {"tasks", "immediates", "poll"} /\ edge' = edge
      /\ pc' \in {"immediates", "poll"} => pc \in {"immediates", "poll"}
      /\ pc' \in {"immediates", "poll", "timers", "alive"} =>
           pc \in {"immediates", "poll", "timers", "alive"}
  BY DEF Loaded, Turn, Exit, TasksDone, Poll, PollEvent, TickImmediates
<1> QED BY <1>0, <1>1, <1>2, <1>3, QuietKeeps

-----------------------------------------------------------------------------
(* tick_concurrent.                                                        *)

\* update_counts leaves every reference in active: nothing saturates.
LEMMA UpdateCountsStep == ASSUME ELInv, ELNext, UpdateCounts PROVE ELInv'
<1>1. /\ pc = "concurrent" /\ pc' = "pop" /\ concurrent_ref' = 0
      /\ UNCHANGED <<vars, job, tasks, ran>>
      /\ active' = IF concurrent_ref > 0 THEN active + concurrent_ref
                   ELSE SubActive(-concurrent_ref)
  BY DEF UpdateCounts
<1>2. UNCHANGED <<ppc, pfirst, pold, pushed, popped, cpc>> /\ Batches'
  BY <1>1, OutsidePop
<1>3. UNCHANGED <<WorkHolders, CppHolders, Started>>
  BY <1>1, HoldersKept
<1>4. /\ active \in Nat /\ concurrent_ref \in Int
      /\ Cardinality(WorkHolders) \in Nat /\ Cardinality(CppHolders) \in Nat
      /\ active + concurrent_ref = Cardinality(WorkHolders) + Cardinality(CppHolders)
  BY HoldersAdd DEF ELInv, ELTyped, Counted, Spare
<1>5. active' = active + concurrent_ref /\ active' \in Nat
  BY <1>1, <1>4 DEF SubActive
<1>6. Spare' = Cardinality(CppHolders)
  BY <1>3, <1>4, <1>5 DEF Spare
<1>7. Counted' /\ ELTyped' /\ Posted' /\ ran' \o tasks' = popped'
  BY <1>1, <1>2, <1>3, <1>4, <1>5, <1>6 DEF ELInv, Counted, ELTyped, Posted
<1>8. Waking' /\ NoJobCutOff'
  BY <1>1 DEF Waking, NoJobCutOff
<1>9. Settled'
  <2> SUFFICES ASSUME Spare' = 0, NEW p \in Started PROVE job[p] \in {"unref_wake", "over"}
    BY <1>1, <1>3 DEF Settled
  <2>1. CppHolders = {}
    BY <1>6, HoldersAdd
  <2>2. p \in Cpp /\ job[p] \in Jobs /\ job[p] # "new"
    BY Kinds DEF Started, ELInv, ELTyped
  <2> QED BY <2>1, <2>2 DEF CppHolders, Jobs
<1>10. IInv'
  BY QueueStep
<1> QED BY <1>2, <1>7, <1>8, <1>9, <1>10 DEF ELInv

\* pop_batch finds no front: what is in the queue is behind a push that has
\* still to store its link, and of that every ConcurrentCppTask is noted.
LEMMA PopNothingStep == ASSUME ELInv, ELNext, PopNothing PROVE ELInv'
<1>1. /\ pc = "pop" /\ cpc = "idle" /\ front = Null /\ unseen' = InQueue \cap Cpp
      /\ UNCHANGED <<vars, job, active, concurrent_ref, tasks, ran, edge>>
      /\ pc' \in {"tasks", "concurrent", "immediates", "alive"}
  BY DEF PopNothing, ConcurrentReturns, TickReturns, counts
<1>2. UNCHANGED <<ppc, pfirst, pold, pushed, popped, cpc>>
  BY <1>1 DEF vars, producer, consumer
<1>3. UNCHANGED <<WorkHolders, CppHolders, Started>>
  BY <1>1, HoldersKept
<1>4. Spare' = Spare
  BY <1>1, <1>3 DEF Spare
<1>5. Batches' /\ Counted' /\ ELTyped' /\ Posted' /\ ran' \o tasks' = popped'
  BY <1>1, <1>2, <1>3, <1>4 DEF ELInv, Batches, Counted, ELTyped, Posted
<1>6. NoJobCutOff'
  BY <1>1 DEF NoJobCutOff
<1>7. /\ Len(pushed) \in Nat /\ Len(popped) \in Nat /\ Len(popped) <= Len(pushed)
      /\ pushed \in Seq(Nodes) /\ popped \in Seq(Nodes)
      /\ \A i \in 1..Len(popped) : popped[i] = pushed[i]
  BY DEF ELInv, IInv, Typed, History
<1>8. pushed # popped => \E p \in Producers : ppc[p] = "link"
  <2> SUFFICES ASSUME pushed # popped PROVE \E p \in Producers : ppc[p] = "link"
    OBVIOUS
  <2>1. Len(popped) # Len(pushed)
    BY <1>7
  <2>2. PICK s \in Nat : Chain(s)
    BY DEF ELInv, IInv
  <2>3. s = Len(popped) /\ s + 1 \in 1..Len(pushed) /\ s # Len(pushed)
    BY <1>1, <1>7, <2>1, <2>2 DEF Chain, Cut
  <2>4. pushed[s + 1] # Null
    BY <2>3, WindowHolds DEF ELInv, IInv
  <2>5. pushed[s + 1] \in Pending
    BY <1>1, <2>2, <2>3, <2>4 DEF Chain, FrontOK
  <2> QED BY <2>5 DEF Pending
<1>9. Waking'
  BY <1>1, <1>2, <1>8 DEF ELInv, Waking
<1>10. Settled'
  <2> SUFFICES ASSUME Spare = 0, NEW p \in Started
               PROVE  p \in InQueue \cap Cpp \/ \E i \in 1..Len(popped) : popped[i] = p
    BY <1>1, <1>2, <1>3, <1>4 DEF Settled
  <2>1. p \in Cpp /\ p \in Producers /\ job[p] \in {"unref_wake", "over"}
    BY <1>1, Kinds DEF Started, ELInv, Settled
  <2>2. PICK i \in 1..Len(pushed) : pushed[i] = p
    BY <2>1 DEF ELInv, Posted
  <2>3. i \in 1..Len(popped) \/ i \in Len(popped) + 1 .. Len(pushed)
    BY <1>7
  <2> QED BY <1>7, <2>1, <2>2, <2>3 DEF InQueue
<1>11. IInv'
  BY QueueStep
<1> QED BY <1>5, <1>6, <1>9, <1>10, <1>11 DEF ELInv

\* Concatenation is associative.
LEMMA ConcatMoves ==
    ASSUME NEW a \in Seq(Producers), NEW b \in Seq(Producers),
           NEW c \in Seq(Producers)
    PROVE  a \o (b \o c) = (a \o b) \o c
<1> DEFINE u == a \o (b \o c)
           v == (a \o b) \o c
<1>1. /\ Len(a) \in Nat /\ Len(b) \in Nat /\ Len(c) \in Nat
      /\ u \in Seq(Producers) /\ v \in Seq(Producers)
      /\ Len(u) = Len(a) + Len(b) + Len(c) /\ Len(v) = Len(a) + Len(b) + Len(c)
  OBVIOUS
<1>2. ASSUME NEW i \in 1..Len(a) + Len(b) + Len(c) PROVE u[i] = v[i]
  <2>1. CASE i <= Len(a)
    BY <1>1, <2>1
  <2>2. CASE i > Len(a) /\ i <= Len(a) + Len(b)
    BY <1>1, <2>2
  <2>3. CASE i > Len(a) + Len(b)
    <3>1. u[i] = c[i - Len(a) - Len(b)]
      BY <1>1, <2>3
    <3>2. v[i] = c[i - (Len(a) + Len(b))]
      BY <1>1, <2>3
    <3> QED BY <1>1, <3>1, <3>2
  <2> QED BY <1>1, <2>1, <2>2, <2>3
<1> HIDE DEF u, v
<1>3. u = v
  BY <1>1, <1>2
<1> QED BY <1>3 DEF u, v

\* A batch is moved behind the tasks that are there; after it tick goes on.
LEMMA PopTasksStep == ASSUME ELInv, ELNext, PopTasks PROVE ELInv'
<1>0. IInv'
  BY QueueStep
<1>1. /\ pc = "pop" /\ UNCHANGED <<job, active, concurrent_ref, ran, edge, unseen>>
      /\ UNCHANGED <<ppc, pfirst, pold, pushed>>
  BY DEF PopTasks, counts, PopBatch, BatchFront, BatchBack, BatchWalk, producer
<1>2. UNCHANGED <<WorkHolders, CppHolders, Started>>
  BY <1>1, HoldersKept
<1>3. Spare' = Spare
  BY <1>1, <1>2 DEF Spare
<1>4. Counted' /\ Posted'
  BY <1>1, <1>2, <1>3 DEF ELInv, Counted, Posted
<1>5. /\ ran \in Seq(Producers) /\ tasks \in Seq(Producers) /\ taken \in Seq(Producers)
      /\ ran \o tasks = popped /\ popped \in Seq(Producers)
  BY Kinds DEF ELInv, ELTyped, IInv, Typed
<1>6. CASE BatchFront \/ BatchBack \/ (BatchWalk /\ Last(taken) # cnext)
  <2>1. popped' = popped /\ cpc' \in {"batch_back", "batch_walk", "panic"}
    BY <1>6 DEF BatchFront, BatchBack, BatchWalk
  <2>2. UNCHANGED <<tasks, pc>>
    BY <2>1 DEF PopTasks
  <2>3. cpc' # "panic"
    BY <1>0 DEF IInv, Chain, FrontOK
  <2>4. Batches' /\ ELTyped' /\ ran' \o tasks' = popped' /\ NoJobCutOff'
    BY <1>1, <1>5, <2>1, <2>2, <2>3 DEF ELInv, Batches, ELTyped, NoJobCutOff
  <2>5. Waking'
    BY <1>1, <2>1, <2>2 DEF ELInv, Waking
  <2>6. Settled'
    BY <1>1, <1>2, <1>3, <2>1, <2>2 DEF ELInv, Settled
  <2> QED BY <1>0, <1>4, <2>4, <2>5, <2>6 DEF ELInv
<1>7. CASE BatchWalk /\ Last(taken) = cnext
  <2>1. /\ popped' = popped \o taken /\ cpc' = "idle" /\ cpc = "batch_walk"
    BY <1>7 DEF BatchWalk, Return
  <2>2. Len(taken) >= 1
    BY <2>1 DEF ELInv, IInv, Chain, WalkOK
  <2>3. popped' # popped /\ tasks \o taken # <<>> /\ tasks \o taken \in Seq(Producers)
    BY <1>5, <2>1, <2>2
  <2>4. /\ tasks' = tasks \o taken /\ ConcurrentReturns(tasks \o taken)
    BY <2>3 DEF PopTasks
  <2>5. pc' \in {"tasks", "concurrent"}
    BY <2>3, <2>4 DEF ConcurrentReturns
  <2>6. ran \o (tasks \o taken) = (ran \o tasks) \o taken
    BY <1>5, ConcatMoves
  <2>7. Batches' /\ ELTyped' /\ ran' \o tasks' = popped' /\ NoJobCutOff' /\ Settled'
    BY <1>1, <1>5, <2>1, <2>3, <2>4, <2>5, <2>6
       DEF ELInv, Batches, ELTyped, NoJobCutOff, Settled
  <2>8. Waking'
    BY <1>1, <2>5 DEF ELInv, Waking
  <2> QED BY <1>0, <1>4, <2>7, <2>8 DEF ELInv
<1> QED BY <1>6, <1>7 DEF PopTasks, PopBatch

-----------------------------------------------------------------------------
(* Steps of the other threads.                                             *)

\* What a step of another thread keeps that moves its job on.
LEMMA MoveKeeps ==
    ASSUME ELInv, pc # "exit", NEW p \in Producers, NEW to \in Jobs \ {"new"},
           job[p] # "new", job' = [job EXCEPT ![p] = to],
           UNCHANGED <<active, loopVars, popped, cpc>>
    PROVE  /\ job' \in [Producers -> Jobs] /\ job'[p] = to
           /\ \A q \in Producers : q # p => job'[q] = job[q]
           /\ UNCHANGED <<WorkHolders, Spare, Started>>
           /\ Batches' /\ NoJobCutOff' /\ ran' \o tasks' = popped'
           /\ UNCHANGED <<pc, ran, tasks, unseen>>
           /\ (pc = "pop" /\ Spare = 0 /\ p \in Cpp => to \in {"unref_wake", "over"}) => Settled'
<1>1. UNCHANGED <<pc, ran, tasks, unseen>>
  BY DEF loopVars, control
<1>2. /\ job' \in [Producers -> Jobs] /\ job'[p] = to
      /\ \A q \in Producers : q # p => job'[q] = job[q]
  BY DEF ELInv, ELTyped
<1>3. \A q \in Producers : job'[q] = "new" <=> job[q] = "new"
  BY <1>2
<1>4. UNCHANGED <<WorkHolders, Started>>
  BY <1>1, <1>3, Kinds DEF WorkHolders, Started, HasRun
<1>5. Spare' = Spare
  BY <1>4 DEF Spare
<1>6. Batches' /\ NoJobCutOff' /\ ran' \o tasks' = popped'
  BY <1>1 DEF ELInv, Batches, NoJobCutOff
<1>7. ASSUME pc = "pop" /\ Spare = 0 /\ p \in Cpp => to \in {"unref_wake", "over"}
      PROVE  Settled'
  <2>1. pc = "pop" /\ Spare = 0 => \A q \in Started : job'[q] \in {"unref_wake", "over"}
    BY <1>2, <1>7, Kinds DEF ELInv, Settled, Started
  <2> QED BY <1>1, <1>4, <1>5, <2>1 DEF ELInv, Settled
<1> QED BY <1>1, <1>2, <1>4, <1>5, <1>6, <1>7

\* The push of a task: the job has not pushed it before.
LEMMA EnqueueStep ==
    ASSUME ELInv, ELNext, pc # "exit", NEW p \in Producers, Enqueue(p)
    PROVE  ELInv'
<1>0. IInv'
  BY QueueStep
<1>1. /\ job[p] = "working" /\ ppc[p] = "idle" /\ pushed' = Append(pushed, p)
      /\ ppc' = [ppc EXCEPT ![p] = "link"]
      /\ UNCHANGED <<popped, cpc, job, active, concurrent_ref, edge, pc, ran, tasks, unseen>>
  BY DEF Enqueue, PushSwap, consumer, counts, loopVars, control
<1>2. UNCHANGED <<WorkHolders, CppHolders, Started>>
  BY <1>1, HoldersKept
<1>3. Spare' = Spare
  BY <1>1, <1>2 DEF Spare
<1>4. ELTyped' /\ Batches' /\ Counted' /\ ran' \o tasks' = popped' /\ NoJobCutOff'
  BY <1>1, <1>2, <1>3 DEF ELInv, ELTyped, Batches, Counted, NoJobCutOff
<1>5. /\ ppc \in [Producers -> {"idle", "link"}] /\ pushed \in Seq(Producers)
      /\ Len(pushed) \in Nat
  BY Kinds DEF ELInv, IInv, Typed
<1>6. /\ ppc'[p] = "link" /\ \A q \in Producers : q # p => ppc'[q] = ppc[q]
      /\ Len(pushed') = Len(pushed) + 1 /\ pushed'[Len(pushed) + 1] = p
      /\ \A i \in 1..Len(pushed) : pushed'[i] = pushed[i]
  BY <1>1, <1>5
<1>7. \A i \in 1..Len(pushed') : i \in 1..Len(pushed) \/ i = Len(pushed) + 1
  BY <1>5, <1>6
<1>8. 1..Len(pushed) \subseteq 1..Len(pushed') /\ Len(pushed) + 1 \in 1..Len(pushed')
  BY <1>5, <1>6
<1>9. \A i \in 1..Len(pushed) : pushed[i] # p
  BY <1>1 DEF ELInv, Posted
<1>10. Posted'
  <2>1. \A q \in Producers : (\E i \in 1..Len(pushed') : pushed'[i] = q) <=>
          (\E i \in 1..Len(pushed) : pushed[i] = q) \/ q = p
    BY <1>6, <1>7, <1>8
  <2>2. \A q \in Producers : (\E i \in 1..Len(pushed') : pushed'[i] = q) <=>
          ppc'[q] = "link" \/ job[q] \notin {"new", "working"}
    BY <1>1, <1>6, <2>1 DEF ELInv, Posted
  <2>3. \A i, j \in 1..Len(pushed') : pushed'[i] = pushed'[j] => i = j
    BY <1>6, <1>7, <1>9 DEF ELInv, Posted
  <2>4. \A q \in Producers : ppc'[q] = "link" => job[q] = "working"
    BY <1>1, <1>6 DEF ELInv, Posted
  <2> QED BY <1>1, <2>2, <2>3, <2>4 DEF ELInv, Posted
<1>11. Waking'
  BY <1>1, <1>6 DEF ELInv, Waking
<1>12. Settled'
  BY <1>1, <1>2, <1>3 DEF ELInv, Settled
<1> QED BY <1>0, <1>4, <1>10, <1>11, <1>12 DEF ELInv

\* The push is over; the wakeup is to come.
LEMMA EnqueueLinkStep ==
    ASSUME ELInv, ELNext, pc # "exit", NEW p \in Producers, EnqueueLink(p)
    PROVE  ELInv'
<1>0. IInv'
  BY QueueStep
<1>1. /\ job[p] = "working" /\ job' = [job EXCEPT ![p] = "wake"]
      /\ ppc[p] = "link" /\ ppc' = [ppc EXCEPT ![p] = "idle"]
      /\ UNCHANGED <<pushed, popped, cpc, active, concurrent_ref, edge, loopVars>>
  BY DEF EnqueueLink, PushLink, Move, consumer, counts
<1>2. "wake" \in Jobs \ {"new"}
  BY DEF Jobs
<1>3. pc = "pop" /\ Spare = 0 => p \notin Cpp
  BY <1>1 DEF ELInv, Settled, Started
<1>4. /\ job' \in [Producers -> Jobs] /\ job'[p] = "wake"
      /\ \A q \in Producers : q # p => job'[q] = job[q]
      /\ UNCHANGED <<WorkHolders, Spare, Started>>
      /\ Batches' /\ NoJobCutOff' /\ ran' \o tasks' = popped' /\ Settled'
      /\ UNCHANGED <<pc, ran, tasks, unseen>>
  BY <1>1, <1>2, <1>3, MoveKeeps
<1>5. CppHolders' = CppHolders
  BY <1>1, <1>4, Kinds DEF CppHolders
<1>6. Counted' /\ ELTyped'
  BY <1>1, <1>4, <1>5 DEF ELInv, Counted, ELTyped
<1>7. ppc'[p] = "idle" /\ \A q \in Producers : q # p => ppc'[q] = ppc[q]
  BY <1>1 DEF ELInv, IInv, Typed
<1>8. Posted'
  <2>1. \A q \in Producers : /\ ppc'[q] = "link" => job'[q] = "working"
                             /\ job'[q] \in {"unref", "unref_wake"} => q \in Cpp
    BY <1>4, <1>7 DEF ELInv, Posted
  <2>2. \A q \in Producers : ppc'[q] = "link" \/ job'[q] \notin {"new", "working"} <=>
                             ppc[q] = "link" \/ job[q] \notin {"new", "working"}
    BY <1>1, <1>4, <1>7
  <2>3. \A q \in Producers : (\E i \in 1..Len(pushed) : pushed[i] = q) <=>
                             ppc[q] = "link" \/ job[q] \notin {"new", "working"}
    BY DEF ELInv, Posted
  <2>4. \A i, j \in 1..Len(pushed) : pushed[i] = pushed[j] => i = j
    BY DEF ELInv, Posted
  <2>5. pushed' = pushed
    BY <1>1
  <2> QED BY <2>1, <2>2, <2>3, <2>4, <2>5 DEF Posted
<1>9. Waking'
  <2>1. \A q \in Producers : job[q] = "unref_wake" => job'[q] = "unref_wake"
    BY <1>1, <1>4
  <2> QED BY <1>1, <1>4, <2>1 DEF ELInv, Waking
<1> QED BY <1>0, <1>4, <1>6, <1>8, <1>9 DEF ELInv

\* The wakeup after the push, and the one after the reference was dropped.
LEMMA WakeStep ==
    ASSUME ELInv, ELNext, pc # "exit", NEW p \in Producers, Wake(p) \/ UnrefWake(p)
    PROVE  ELInv'
<1>0. IInv'
  BY QueueStep
<1> DEFINE to == IF job[p] = "wake" /\ p \in Cpp THEN "unref" ELSE "over"
<1>1. /\ job[p] \in {"wake", "unref_wake"} /\ job' = [job EXCEPT ![p] = to]
      /\ edge' /\ UNCHANGED <<vars, active, concurrent_ref, loopVars>>
  <2>1. CASE Wake(p)
    BY <2>1 DEF Wake, Move, counts
  <2>2. CASE UnrefWake(p)
    BY <2>2 DEF UnrefWake, Move, counts
  <2> QED BY <2>1, <2>2
<1>2. UNCHANGED <<ppc, pushed, popped, cpc>>
  BY <1>1 DEF vars, producer, consumer
<1>3. to \in Jobs \ {"new"}
  BY DEF Jobs
<1>4. pc = "pop" /\ Spare = 0 /\ p \in Cpp => to \in {"unref_wake", "over"}
  BY <1>1 DEF ELInv, Settled, Started
<1>5. job[p] = "unref_wake" => p \in Cpp
  BY DEF ELInv, Posted
<1>6. (to = "unref" => p \in Cpp) /\ to \in {"unref", "over"}
      /\ (p \in Cpp => (to = "unref" <=> job[p] = "wake"))
  BY <1>1
<1> HIDE DEF to
<1>7. /\ job' \in [Producers -> Jobs] /\ job'[p] = to
      /\ \A q \in Producers : q # p => job'[q] = job[q]
      /\ UNCHANGED <<WorkHolders, Spare, Started>>
      /\ Batches' /\ NoJobCutOff' /\ ran' \o tasks' = popped' /\ Settled'
      /\ UNCHANGED <<pc, ran, tasks, unseen>>
  BY <1>1, <1>2, <1>3, <1>4, MoveKeeps
<1>8. CppHolders' = CppHolders
  <2>1. \A q \in Cpp : job'[q] \in {"working", "wake", "unref"} <=>
                       job[q] \in {"working", "wake", "unref"}
    BY <1>1, <1>6, <1>7, Kinds
  <2> QED BY <2>1 DEF CppHolders
<1>9. Counted' /\ ELTyped'
  BY <1>1, <1>7, <1>8 DEF ELInv, Counted, ELTyped
<1>10. Posted'
  BY <1>1, <1>2, <1>6, <1>7 DEF ELInv, Posted
<1>11. Waking'
  BY <1>1 DEF Waking
<1> QED BY <1>0, <1>7, <1>9, <1>10, <1>11 DEF ELInv

\* A ConcurrentCppTask drops its reference: it will wake the loop.
LEMMA UnrefStep ==
    ASSUME ELInv, ELNext, pc # "exit", NEW p \in Producers, Unref(p)
    PROVE  ELInv'
<1>0. IInv'
  BY QueueStep
<1>1. /\ job[p] = "unref" /\ job' = [job EXCEPT ![p] = "unref_wake"]
      /\ concurrent_ref' = concurrent_ref - 1
      /\ UNCHANGED <<vars, active, edge, loopVars>>
  BY DEF Unref, Move
<1>2. UNCHANGED <<ppc, pushed, popped, cpc>>
  BY <1>1 DEF vars, producer, consumer
<1>3. "unref_wake" \in Jobs \ {"new"} /\ p \in Cpp
  BY <1>1 DEF Jobs, ELInv, Posted
<1>4. /\ job' \in [Producers -> Jobs] /\ job'[p] = "unref_wake"
      /\ \A q \in Producers : q # p => job'[q] = job[q]
      /\ UNCHANGED <<WorkHolders, Spare, Started>>
      /\ Batches' /\ NoJobCutOff' /\ ran' \o tasks' = popped' /\ Settled'
      /\ UNCHANGED <<pc, ran, tasks, unseen>>
  BY <1>1, <1>2, <1>3, MoveKeeps
<1>5. CppHolders' = CppHolders \ {p} /\ p \in CppHolders
  BY <1>1, <1>3, <1>4, Kinds DEF CppHolders
<1>6. Cardinality(CppHolders)' = Cardinality(CppHolders) - 1
  BY <1>5, HoldersAdd, JobSets
<1>7. Counted' /\ ELTyped'
  <2>1. concurrent_ref \in Int /\ Cardinality(CppHolders) \in Nat
    BY HoldersAdd DEF ELInv, ELTyped
  <2> QED BY <1>1, <1>4, <1>6, <2>1 DEF ELInv, Counted, ELTyped
<1>8. Posted'
  BY <1>1, <1>2, <1>3, <1>4 DEF ELInv, Posted
<1>9. Waking'
  <2>1. \A q \in Producers : job[q] = "wake" => job'[q] = "wake"
    BY <1>1, <1>4
  <2> QED BY <1>1, <1>2, <1>4, <2>1 DEF ELInv, Waking
<1> QED BY <1>0, <1>4, <1>7, <1>8, <1>9 DEF ELInv

-----------------------------------------------------------------------------
(* The theorems about the event loop.                                      *)

\* A loop that has not evaluated its entry point satisfies the invariant.
LEMMA ELInitial == ELInit => ELInv
<1> SUFFICES ASSUME ELInit PROVE ELInv
  OBVIOUS
<1>1. IInv
  BY InitChain DEF ELInit
<1>2. /\ \A p \in Producers : job[p] \in {"new", "working"} /\ (p \notin Stray => job[p] = "new")
      /\ job \in [Producers -> Jobs]
      /\ active = 0 /\ concurrent_ref = 0 /\ tasks = <<>> /\ ran = <<>>
      /\ pushed = <<>> /\ popped = <<>> /\ cpc = "idle" /\ pc = "script"
      /\ \A p \in Producers : ppc[p] = "idle"
  BY DEF ELInit, Init, Jobs
<1>3. ELTyped /\ Posted /\ Batches /\ Waking /\ Settled /\ NoJobCutOff /\ ran \o tasks = popped
  BY <1>2 DEF ELTyped, Posted, Batches, Waking, Settled, NoJobCutOff
<1>4. WorkHolders = {} /\ CppHolders = {}
  BY <1>2, KindsAssumption DEF WorkHolders, CppHolders
<1>5. Cardinality(WorkHolders) = 0 /\ Cardinality(CppHolders) = 0
  BY Zenon, <1>4, FS_EmptySet
<1>6. Counted
  BY <1>2, <1>5 DEF Counted, Spare
<1> QED BY <1>1, <1>3, <1>6 DEF ELInv

\* Every step of the loop and of the other threads preserves the invariant.
LEMMA ELStep == ELInv /\ [ELNext]_elvars => ELInv'
<1> SUFFICES ASSUME ELInv, [ELNext]_elvars PROVE ELInv'
  OBVIOUS
<1>1. CASE ELNext
  <2>0. pc # "exit"
    BY <1>1 DEF ELNext
  <2>1. CASE \/ Script \/ BeforeExit \/ RunTask \/ DrainTimers
             \/ TickImmediates /\ immediates > 0
    BY <1>1, <2>1, JavaScriptSteps
  <2>2. CASE \/ Loaded \/ Turn \/ Exit \/ TasksDone \/ Poll \/ PollEvent
             \/ TickImmediates /\ ~(immediates > 0)
    BY <1>1, <2>2, QuietSteps
  <2>3. CASE UpdateCounts \/ PopNothing \/ PopTasks
    BY <1>1, <2>3, UpdateCountsStep, PopNothingStep, PopTasksStep
  <2>4. ASSUME NEW p \in Producers, OtherThread(p) PROVE ELInv'
    BY <1>1, <2>0, <2>4, EnqueueStep, EnqueueLinkStep, WakeStep, UnrefStep DEF OtherThread
  <2> QED BY <1>1, <2>1, <2>2, <2>3, <2>4 DEF ELNext, LoopThread
<1>2. CASE UNCHANGED elvars
  <2>1. /\ UNCHANGED <<vars, job, active, concurrent_ref, tasks, ran, unseen, edge, pc>>
        /\ UNCHANGED <<ppc, pushed, popped, cpc>>
    BY <1>2 DEF elvars, counts, control, vars, producer, consumer
  <2>2. IInv'
    BY <2>1, StepKeepsChain DEF ELInv
  <2>3. UNCHANGED <<WorkHolders, CppHolders, Started, Holders>>
    BY <2>1, HoldersKept
  <2>4. Spare' = Spare
    BY <2>1, <2>3 DEF Spare
  <2>5. ELTyped' /\ Posted' /\ Batches' /\ ran' \o tasks' = popped' /\ Counted'
    BY <2>1, <2>3, <2>4 DEF ELInv, ELTyped, Posted, Batches, Counted
  <2>6. Waking' /\ Settled'
    BY <2>1, <2>3, <2>4 DEF ELInv, Waking, Settled
  <2>7. NoJobCutOff'
    BY <2>1, <2>3 DEF ELInv, NoJobCutOff, HasRun
  <2> QED BY <2>2, <2>5, <2>6, <2>7 DEF ELInv
<1> QED BY <1>1, <1>2

\* The queue, the jobs and the counts of an event loop satisfy ELInv at every
\* step of the loop and of the threads that post to it.
THEOREM EventLoopInvariant == ELSpec => []ELInv
BY ELInitial, ELStep, PTL DEF ELSpec

\* The event loop is one of the users of UnboundedQueue whose Spec the theorems
\* of UnboundedQueueProofs are about: its steps push, pop a batch, or leave the
\* queue alone.
THEOREM EventLoopUsesQueue == ELSpec => Spec
<1>1. ELInit => Init
  BY DEF ELInit
<1>2. ELInv /\ [ELNext]_elvars => [Next]_vars
  BY QueueStep DEF elvars
<1> QED BY <1>1, <1>2, EventLoopInvariant, PTL DEF ELSpec, Spec

\* active and concurrent_ref together are the number of references held, for
\* every set of jobs, so no saturating_sub of unref hides one (RefsAreExact).
THEOREM EventLoopRefsAreExact == ELSpec => []RefsAreExact
<1>1. ELInv => RefsAreExact
  BY HoldersAdd DEF ELInv, ELTyped, Counted, Spare, RefsAreExact
<1> QED BY <1>1, EventLoopInvariant, PTL

\* A program does not end before the task of a job that JavaScript has started
\* and that keeps the loop alive has run (NoJobCutOff).
THEOREM EventLoopCutsNoJobOff == ELSpec => []NoJobCutOff
<1>1. ELInv => NoJobCutOff
  BY DEF ELInv
<1> QED BY <1>1, EventLoopInvariant, PTL

\* A loop in epoll over a task or over a dropped reference has its wakeup before
\* it, written or about to be (NoSleepOnChange).
THEOREM EventLoopIsWoken == ELSpec => []NoSleepOnChange
<1>1. ELInv => NoSleepOnChange
  BY DEF ELInv, Waking, NoSleepOnChange
<1> QED BY <1>1, EventLoopInvariant, PTL

\* The tasks that other threads post are run once each and in the order of their
\* pushes, over any number of batches (RunInOrder).
THEOREM EventLoopRunsInOrder == ELSpec => []RunInOrder
<1>1. ELInv => RunInOrder
  BY ChainIsFifo DEF ELInv, RunInOrder, Fifo
<1> QED BY <1>1, EventLoopInvariant, PTL

=============================================================================
