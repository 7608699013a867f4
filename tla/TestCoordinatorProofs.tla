------------------------ MODULE TestCoordinatorProofs ------------------------
(***************************************************************************)
(* Theorems about TestCoordinator for any number of files and workers, any *)
(* --bail and any number of faults.                                        *)
(***************************************************************************)
EXTENDS TestCoordinator, FiniteSetTheorems, TLAPS

-----------------------------------------------------------------------------
(* The inductive invariant.                                                *)

ProcessType == [
    at : {"none", "boot", "idle", "run", "flush", "gone"},
    pending : Files \cup {None}, file : Files \cup {None},
    done : BOOLEAN, ran : SUBSET Files, out : Seq(UpFrames),
    status : {None, "exit", "panic"},
    signal : {None, "SIGTERM", "SIGKILL"}]

\* What the wires and the processes carry.
WiresTyped ==
    /\ proc \in [Workers -> ProcessType]
    /\ up \in [Workers -> Seq(UpFrames)]
    /\ down \in [Workers -> Seq(DownFrames)]
    /\ \A w \in Workers : proc[w].at = "run" => proc[w].file \in Files

\* What the coordinator keeps.
SlotsTyped ==
    /\ range \in [Workers -> [lo : 0..N, hi : 0..N]]
    /\ inflight \in [Workers -> Files \cup {None}]
    /\ alive \in [Workers -> BOOLEAN]
    /\ ipc_done \in [Workers -> BOOLEAN]
    /\ verdict \in [Files -> {None, "pass", "fail", "crash", "aborted"}]
    /\ spawned_count \in 0..K /\ live_workers \in Int
    /\ files_done \in Int /\ fail \in Int /\ bail \in Nat
    /\ bailed \in BOOLEAN
    /\ phase \in {"start", "drive", "done", "exit1", "exit130"}

\* A slot without a process, or with one that has not written yet, is clean.
FreshIsClean ==
    \A w \in Workers :
        proc[w].at \in {"none", "boot"} =>
            up[w] = <<>> /\ proc[w].out = <<>> /\ inflight[w] = None /\ ~ipc_done[w]

\* Ready is the first frame of a process, and until it is handled the worker
\* has no file: OnReady does not overwrite one.
ReadyIsFirst ==
    \A w \in Workers :
        /\ \A i \in DOMAIN up[w] :
             up[w][i].kind = "Ready" => i = 1 /\ inflight[w] = None
        /\ \A i \in DOMAIN proc[w].out : proc[w].out[i].kind # "Ready"

\* Slots are spawned in order.
SpawnedInOrder ==
    /\ \A w \in Workers : w >= spawned_count => proc[w].at = "none"
    /\ phase = "start" => spawned_count = 0

IInv ==
    /\ WiresTyped /\ SlotsTyped /\ FreshIsClean /\ ReadyIsFirst
    /\ SpawnedInOrder /\ OnePlacePerFile /\ LiveWorkersIsExact

-----------------------------------------------------------------------------
(* Lemmas.                                                                 *)

\* Files and workers are finite intervals and None is not a file.
LEMMA Constants ==
    /\ N \in Nat /\ K \in Nat /\ 2 <= K /\ K <= N
    /\ IsFiniteSet(Files) /\ Cardinality(Files) = N
    /\ IsFiniteSet(Workers) /\ Cardinality(Workers) = K
    /\ \A f \in Files : f \in Int /\ 0 <= f /\ f < N
    /\ \A w \in Workers : w \in Int /\ 0 <= w /\ w < K
    /\ None \notin Files
  <1>1. N \in Nat /\ K \in Nat /\ 2 <= K /\ K <= N
    BY SizeAssumption
  <1>2. IsFiniteSet(Files) /\ Cardinality(Files) = N
    BY <1>1, FS_Interval DEF Files
  <1>3. IsFiniteSet(Workers) /\ Cardinality(Workers) = K
    BY <1>1, FS_Interval DEF Workers
  <1> QED
    BY <1>1, <1>2, <1>3, NoneAssumption DEF Files, Workers

\* The frames that processes write, and what a FileDone frame says.
LEMMA Frames ==
    /\ [kind |-> "Ready"] \in UpFrames
    /\ [kind |-> "FileStart"] \in UpFrames
    /\ [kind |-> "Garbage"] \in UpFrames
    /\ \A f \in Files, b \in BOOLEAN :
         [kind |-> "FileDone", file |-> f, failed |-> b] \in UpFrames
    /\ \A S \in SUBSET Files : [kind |-> "Aggregates", files |-> S] \in UpFrames
    /\ \A m \in UpFrames :
         m.kind = "FileDone" => m.file \in Files /\ m.failed \in BOOLEAN
  BY DEF UpFrames

\* The frames that the coordinator writes.
LEMMA Commands ==
    /\ ShutdownFrame \in DownFrames
    /\ \A f \in Files : RunFrame(f) \in DownFrames
    /\ \A m \in DownFrames : m.kind = "Run" => m.file \in Files
  BY DEF DownFrames, ShutdownFrame, RunFrame

\* A fresh process, and the record of none.
LEMMA Processes ==
    /\ NoProcess \in ProcessType /\ NewProcess \in ProcessType
    /\ NoProcess.at = "none" /\ NewProcess.at = "boot"
    /\ NoProcess.out = <<>> /\ NewProcess.out = <<>>
  <1>1. <<>> \in Seq(UpFrames)
    OBVIOUS
  <1>2. NoProcess \in ProcessType
    BY <1>1 DEF NoProcess, ProcessType
  <1> QED
    BY <1>2 DEF NoProcess, NewProcess, ProcessType

-----------------------------------------------------------------------------
(* The initial ranges, [(w * N) \div K, ((w + 1) * N) \div K).              *)

\* Division by a positive number rounds down.
LEMMA Division ==
    ASSUME NEW a \in Nat, NEW b \in Nat, b > 0
    PROVE  /\ a \div b \in Nat
           /\ b * (a \div b) <= a /\ a < b * (a \div b) + b
  OBVIOUS

\* A common positive factor can be cancelled from an inequality.
LEMMA Cancel ==
    ASSUME NEW x \in Int, NEW y \in Int, NEW b \in Nat, b > 0, b * x < b * y
    PROVE  x < y
  <1>1. SUFFICES ASSUME y <= x PROVE FALSE
    OBVIOUS
  <1>2. b * (x - y) >= 0
    BY <1>1
  <1>3. b * (x - y) = b * x - b * y
    OBVIOUS
  <1> QED
    BY <1>2, <1>3

\* Where a quotient lies, from where the dividend does.
LEMMA Quotient ==
    ASSUME NEW a \in Nat, NEW b \in Nat, b > 0, NEW q \in Nat
    PROVE  /\ b * q <= a => q <= a \div b
           /\ a < b * (q + 1) => a \div b <= q
  <1> DEFINE d == a \div b
  <1>1. d \in Nat /\ b * d <= a /\ a < b * d + b
    BY Division
  <1> HIDE DEF d
  <1>2. b * d + b = b * (d + 1) /\ b * (d + 1) \in Int /\ b * q \in Int
    BY <1>1
  <1>3. ASSUME b * q <= a PROVE q <= d
    <2>1. b * q < b * (d + 1)
      BY <1>1, <1>2, <1>3
    <2> QED BY <1>1, <2>1, Cancel
  <1>4. ASSUME a < b * (q + 1) PROVE d <= q
    <2>1. b * d < b * (q + 1) /\ b * d \in Int
      BY <1>1, <1>4
    <2> QED BY <1>1, <2>1, Cancel
  <1> QED
    BY <1>3, <1>4 DEF d

\* The ranges of Init: within 0..N, disjoint, and every file is in one.
LEMMA Partition ==
    /\ \A w \in 0..K : (w * N) \div K \in 0..N
    /\ \A v, w \in 0..K : v <= w => (v * N) \div K <= (w * N) \div K
    /\ \A f \in Files : \E w \in Workers :
         (w * N) \div K <= f /\ f < ((w + 1) * N) \div K
  <1>0. N \in Nat /\ K \in Nat /\ K > 0 /\ N > 0
    BY SizeAssumption
  <1>1. ASSUME NEW w \in 0..K PROVE (w * N) \div K \in 0..N
    <2>1. w * N \in Nat /\ w * N <= K * N /\ K * N < K * (N + 1)
      <3>1. (K - w) * N >= 0 /\ (K - w) * N = K * N - w * N
        BY <1>0
      <3> QED BY <1>0, <3>1
    <2>2. w * N < K * (N + 1)
      BY <1>0, <2>1
    <2> QED BY <1>0, <2>1, <2>2, Quotient, Division
  <1>2. ASSUME NEW v \in 0..K, NEW w \in 0..K, v <= w
        PROVE  (v * N) \div K <= (w * N) \div K
    <2>1. v * N \in Nat /\ w * N \in Nat /\ v * N <= w * N
      <3>1. (w - v) * N >= 0 /\ (w - v) * N = w * N - v * N
        BY <1>0, <1>2
      <3> QED BY <1>0, <3>1
    <2>2. (v * N) \div K \in Nat /\ K * ((v * N) \div K) <= v * N
      BY <1>0, <2>1, Division
    <2> DEFINE q == (v * N) \div K
               a == w * N
    <2>3. q \in Nat /\ a \in Nat /\ K * q <= a
      BY <1>0, <2>1, <2>2
    <2> HIDE DEF q, a
    <2>4. q <= a \div K
      BY <1>0, <2>3, Quotient
    <2> QED BY <2>4 DEF q, a
  <1>3. ASSUME NEW f \in Files
        PROVE  \E w \in Workers : (w * N) \div K <= f /\ f < ((w + 1) * N) \div K
    <2>0. f \in Nat /\ f + 1 <= N
      BY <1>0 DEF Files
    <2> DEFINE top == (f + 1) * K - 1
               w == top \div N
    <2>1. top \in Nat /\ top < N * K
      <3>1. (N - (f + 1)) * K >= 0 /\ (N - (f + 1)) * K = N * K - (f + 1) * K
        BY <1>0, <2>0
      <3>2. (f + 1) * K = f * K + K /\ f * K >= 0
        BY <1>0, <2>0
      <3> QED BY <1>0, <2>0, <3>1, <3>2
    <2>2. w \in Nat /\ N * w <= top /\ top < N * w + N
      BY <1>0, <2>1, Division
    <2>3. top = (f + 1) * K - 1
      OBVIOUS
    <2> HIDE DEF top, w
    <2>4. w < K
      BY <1>0, <2>1, <2>2, Cancel
    <2>5. w \in Workers
      BY <1>0, <2>2, <2>4 DEF Workers
    <2>6. w * N = N * w /\ (w + 1) * N = N * w + N /\ (f + 1) * K = K * (f + 1)
      BY <1>0, <2>0, <2>2
    <2>7. w * N \in Nat /\ w * N < K * (f + 1)
      BY <1>0, <2>0, <2>2, <2>3, <2>6
    <2>8. (w + 1) * N \in Nat /\ K * (f + 1) <= (w + 1) * N
      BY <1>0, <2>0, <2>1, <2>2, <2>3, <2>6
    <2>9. (w * N) \div K <= f
      BY <1>0, <2>0, <2>7, Quotient
    <2>10. f + 1 <= ((w + 1) * N) \div K
      BY <1>0, <2>0, <2>8, Quotient
    <2>11. ((w + 1) * N) \div K \in Nat
      BY <1>0, <2>8, Division
    <2>12. f < ((w + 1) * N) \div K
      BY <2>0, <2>10, <2>11
    <2> QED BY <2>5, <2>9, <2>12
  <1> QED
    BY <1>1, <1>2, <1>3

-----------------------------------------------------------------------------
(* Where the files are.                                                    *)

\* The first four parts of OnePlacePerFile, of any ranges, files in flight
\* and verdicts: a handler changes them in several moves.
Holds(rg, w, f) == rg[w].lo <= f /\ f < rg[w].hi
Placed(rg, infl, vd) ==
    /\ rg \in [Workers -> [lo : 0..N, hi : 0..N]]
    /\ infl \in [Workers -> Files \cup {None}]
    /\ vd \in [Files -> {None, "pass", "fail", "crash", "aborted"}]
    /\ \A f \in Files : \A v, w \in Workers :
         v # w => ~(Holds(rg, v, f) /\ Holds(rg, w, f))
    /\ \A v, w \in Workers : v # w /\ infl[v] # None => infl[v] # infl[w]
    /\ \A v, w \in Workers : infl[v] # None => ~Holds(rg, w, infl[v])
    /\ \A f \in Files :
         vd[f] = None <=> \E w \in Workers : Holds(rg, w, f) \/ infl[w] = f

\* How many files are done.
DoneFiles(vd) == {f \in Files : vd[f] # None}

\* The two readings of OnePlacePerFile agree.
LEMMA PlacedIsOnePlace ==
    SlotsTyped => ( OnePlacePerFile <=>
        /\ Placed(range, inflight, verdict)
        /\ files_done = Cardinality(DoneFiles(verdict)) )
  BY DEF SlotsTyped, OnePlacePerFile, Placed, Holds, InRange, DoneFiles

\* Dispatch of the first file of a worker's own range.
LEMMA TakePlaced ==
    ASSUME NEW rg, NEW infl, NEW vd, Placed(rg, infl, vd),
           NEW w \in Workers, infl[w] = None, rg[w].lo < rg[w].hi
    PROVE  /\ rg[w].lo \in Files
           /\ Holds(rg, w, rg[w].lo)
           /\ Placed([rg EXCEPT ![w].lo = @ + 1], [infl EXCEPT ![w] = rg[w].lo], vd)
  <1> DEFINE f0 == rg[w].lo
             rg2 == [rg EXCEPT ![w].lo = @ + 1]
             infl2 == [infl EXCEPT ![w] = f0]
  <1>0. N \in Nat
    BY SizeAssumption
  <1>1. /\ rg \in [Workers -> [lo : 0..N, hi : 0..N]]
        /\ infl \in [Workers -> Files \cup {None}]
    BY DEF Placed
  <1>2. f0 \in Files /\ Holds(rg, w, f0) /\ f0 # None
    BY <1>0, <1>1, NoneAssumption DEF Holds, Files
  <1>3. /\ rg2 \in [Workers -> [lo : 0..N, hi : 0..N]]
        /\ infl2 \in [Workers -> Files \cup {None}]
    BY <1>0, <1>1, <1>2
  <1>4. \A f \in Files, v \in Workers :
           Holds(rg2, v, f) <=> Holds(rg, v, f) /\ ~(v = w /\ f = f0)
    BY <1>0, <1>1 DEF Holds, Files
  <1>5. \A v \in Workers : infl2[v] = IF v = w THEN f0 ELSE infl[v]
    BY <1>1
  <1>6. \A v \in Workers : infl[v] # f0
    BY <1>2 DEF Placed
  <1>7. rg2 \in [Workers -> [lo : 0..N, hi : 0..N]]
    BY <1>3
  <1> HIDE DEF f0, rg2, infl2
  <1>8. Placed(rg2, infl2, vd)
    <2>1. \A f \in Files : \A v, u \in Workers :
             v # u => ~(Holds(rg2, v, f) /\ Holds(rg2, u, f))
      BY <1>4 DEF Placed
    <2>2. \A v, u \in Workers : v # u /\ infl2[v] # None => infl2[v] # infl2[u]
      BY <1>2, <1>5, <1>6 DEF Placed
    <2>3. \A v, u \in Workers : infl2[v] # None => ~Holds(rg2, u, infl2[v])
      BY <1>1, <1>2, <1>4, <1>5 DEF Placed
    <2>4. ASSUME NEW f \in Files
          PROVE  vd[f] = None <=> \E v \in Workers : Holds(rg2, v, f) \/ infl2[v] = f
      <3>1. CASE f = f0
        BY <1>2, <1>5, <3>1 DEF Placed
      <3>2. CASE f # f0
        <4>1. \A v \in Workers : infl2[v] = f <=> infl[v] = f
          BY <1>5, <3>2, NoneAssumption
        <4> QED BY <1>4, <3>2, <4>1 DEF Placed
      <3> QED BY <3>1, <3>2
    <2> QED BY <1>3, <2>1, <2>2, <2>3, <2>4 DEF Placed
  <1> QED
    BY <1>2, <1>8 DEF f0, rg2, infl2

\* A file in flight gets its verdict.
LEMMA DonePlaced ==
    ASSUME NEW rg, NEW infl, NEW vd, Placed(rg, infl, vd),
           NEW w \in Workers, infl[w] # None,
           NEW infl2 \in [Workers -> Files \cup {None}], infl2[w] = None,
           \A v \in Workers : v # w => infl2[v] = infl[v],
           NEW vd2 \in [Files -> {None, "pass", "fail", "crash", "aborted"}],
           vd2[infl[w]] # None,
           \A f \in Files : f # infl[w] => vd2[f] = vd[f]
    PROVE  /\ infl[w] \in Files /\ vd[infl[w]] = None
           /\ Placed(rg, infl2, vd2)
           /\ DoneFiles(vd2) = DoneFiles(vd) \cup {infl[w]}
  <1> DEFINE f0 == infl[w]
  <1>1. infl \in [Workers -> Files \cup {None}]
    BY DEF Placed
  <1>2. f0 \in Files /\ vd[f0] = None /\ f0 # None
    BY <1>1, NoneAssumption DEF Placed
  <1>3. /\ \A v \in Workers : infl2[v] = IF v = w THEN None ELSE infl[v]
        /\ vd2[f0] # None
        /\ \A f \in Files : f # f0 => vd2[f] = vd[f]
    OBVIOUS
  <1>4. \A v \in Workers : v # w => infl[v] # f0
    BY <1>2 DEF Placed
  <1>5. \A v \in Workers : ~Holds(rg, v, f0)
    BY <1>2 DEF Placed
  <1> HIDE DEF f0
  <1>6. Placed(rg, infl2, vd2)
    <2>1. \A v, u \in Workers : v # u /\ infl2[v] # None => infl2[v] # infl2[u]
      BY <1>3 DEF Placed
    <2>2. \A v, u \in Workers : infl2[v] # None => ~Holds(rg, u, infl2[v])
      BY <1>3 DEF Placed
    <2>3. ASSUME NEW f \in Files
          PROVE  vd2[f] = None <=> \E v \in Workers : Holds(rg, v, f) \/ infl2[v] = f
      <3>1. CASE f = f0
        BY <1>2, <1>3, <1>4, <1>5, <3>1
      <3>2. CASE f # f0
        <4>1. f # None
          BY NoneAssumption
        <4>2. \A v \in Workers : infl2[v] = f <=> infl[v] = f
          BY <1>3, <3>2, <4>1 DEF f0
        <4> QED BY <1>3, <3>2, <4>2 DEF Placed
      <3> QED BY <3>1, <3>2
    <2> QED BY <1>3, <2>1, <2>2, <2>3 DEF Placed
  <1>7. DoneFiles(vd2) = DoneFiles(vd) \cup {f0}
    BY <1>2, <1>3 DEF DoneFiles
  <1> QED
    BY <1>2, <1>6, <1>7 DEF f0

\* Half of the largest range moves to a worker that has none.
LEMMA StealPlaced ==
    ASSUME NEW infl, NEW vd, Placed(range, infl, vd),
           NEW v \in Workers, NEW w \in Workers,
           IsEmpty(range[w]), Undispatched # {}, IsVictim(v)
    PROVE  /\ Placed(Stolen(v, w), infl, vd)
           /\ Stolen(v, w)[w].lo < Stolen(v, w)[w].hi
           /\ \A f \in Files :
                (\E u \in Workers : Holds(Stolen(v, w), u, f))
                    <=> \E u \in Workers : Holds(range, u, f)
  <1>0. N \in Nat
    BY SizeAssumption
  <1>1. range \in [Workers -> [lo : 0..N, hi : 0..N]]
    BY DEF Placed
  <1>2. PICK u \in Workers : FilesOf(range[u]) # {}
    BY DEF Undispatched
  <1>3. range[u].lo < range[u].hi
    BY <1>0, <1>1, <1>2 DEF FilesOf
  <1>4. range[v].lo < range[v].hi
    BY <1>0, <1>1, <1>3 DEF IsVictim, Length
  <1>5. v # w
    BY <1>0, <1>1, <1>4 DEF IsEmpty
  <1> DEFINE lo == range[v].lo
             hi == range[v].hi
             mid == lo + Length(range[v]) \div 2
             rg2 == Stolen(v, w)
  <1>6. lo \in 0..N /\ hi \in 0..N /\ mid \in 0..N /\ lo <= mid /\ mid < hi
    BY <1>0, <1>1, <1>4 DEF Length
  <1>7. /\ rg2 \in [Workers -> [lo : 0..N, hi : 0..N]]
        /\ rg2[v].lo = lo /\ rg2[v].hi = mid
        /\ rg2[w].lo = mid /\ rg2[w].hi = hi
        /\ \A x \in Workers : x # v /\ x # w => rg2[x] = range[x]
    <2>1. rg2 = [range EXCEPT ![v].hi = mid, ![w] = [lo |-> mid, hi |-> hi]]
      BY DEF Stolen
    <2> HIDE DEF mid, rg2
    <2>2. rg2[w] = [lo |-> mid, hi |-> hi]
      BY <1>1, <2>1
    <2>3. rg2[v] = [range[v] EXCEPT !.hi = mid]
      BY <1>1, <1>5, <2>1
    <2>4. rg2[v].lo = lo /\ rg2[v].hi = mid /\ rg2[v] \in [lo : 0..N, hi : 0..N]
      BY <1>1, <1>6, <2>3
    <2>5. \A x \in Workers : x # v /\ x # w => rg2[x] = range[x]
      BY <1>1, <2>1
    <2>6. DOMAIN rg2 = Workers /\ rg2 = [x \in Workers |-> rg2[x]]
      BY <1>1, <2>1
    <2>7. \A x \in Workers : rg2[x] \in [lo : 0..N, hi : 0..N]
      BY <1>1, <1>6, <2>2, <2>4, <2>5
    <2>8. rg2 \in [Workers -> [lo : 0..N, hi : 0..N]]
      BY <2>6, <2>7
    <2> QED BY <2>2, <2>4, <2>5, <2>8
  <1> HIDE DEF rg2, mid
  <1>8. ASSUME NEW f \in Files
        PROVE  /\ Holds(rg2, v, f) <=> Holds(range, v, f) /\ f < mid
               /\ Holds(rg2, w, f) <=> Holds(range, v, f) /\ mid <= f
               /\ ~Holds(range, w, f)
               /\ \A x \in Workers : x # v /\ x # w =>
                     (Holds(rg2, x, f) <=> Holds(range, x, f))
    BY <1>0, <1>1, <1>5, <1>6, <1>7 DEF Holds, IsEmpty, Files
  <1>9. \A f \in Files :
          (\E x \in Workers : Holds(rg2, x, f))
              <=> \E x \in Workers : Holds(range, x, f)
    <2> SUFFICES ASSUME NEW f \in Files
                 PROVE  (\E x \in Workers : Holds(rg2, x, f))
                            <=> \E x \in Workers : Holds(range, x, f)
      OBVIOUS
    <2>1. f < mid \/ mid <= f
      BY <1>0, <1>6 DEF Files
    <2> QED BY <1>8, <2>1
  <1>10. Placed(rg2, infl, vd)
    <2>1. ASSUME NEW f \in Files, NEW x \in Workers, NEW y \in Workers, x # y,
                 Holds(rg2, x, f), Holds(rg2, y, f)
          PROVE  FALSE
      <3>1. ~(f < mid /\ mid <= f)
        BY <1>0, <1>6 DEF Files
      <3> QED BY <1>5, <1>8, <2>1, <3>1 DEF Placed
    <2>2. \A x, y \in Workers : infl[x] # None => ~Holds(rg2, y, infl[x])
      BY <1>9 DEF Placed
    <2>3. \A f \in Files :
             vd[f] = None <=> \E x \in Workers : Holds(rg2, x, f) \/ infl[x] = f
      BY <1>9 DEF Placed
    <2> QED BY <1>7, <2>1, <2>2, <2>3 DEF Placed
  <1> QED
    BY <1>6, <1>7, <1>9, <1>10 DEF rg2

\* A frame to a worker keeps the types of the sockets.
LEMMA SendTyped ==
    ASSUME NEW dn \in [Workers -> Seq(DownFrames)], NEW w \in Workers,
           NEW m \in DownFrames
    PROVE  Send(dn, w, m) \in [Workers -> Seq(DownFrames)]
  BY DEF Send

\* Worker w may have been given a file out of somebody's range.
GivenTo(w, infl, infl2) ==
    \/ infl2 = infl
    \/ \E f \in Files, u \in Workers :
         /\ Holds(range, u, f)
         /\ infl2[w] = f
         /\ \A v \in Workers : v # w => infl2[v] = infl[v]

\* assign_work gives worker w a file of somebody's range, or none.
LEMMA AssignPlaced ==
    ASSUME NEW infl, NEW vd, Placed(range, infl, vd),
           NEW dn \in [Workers -> Seq(DownFrames)], NEW stop \in BOOLEAN,
           NEW w \in Workers, infl[w] = None,
           AssignWork(w, stop, infl, dn)
    PROVE  /\ Placed(range', inflight', vd)
           /\ down' \in [Workers -> Seq(DownFrames)]
           /\ GivenTo(w, infl, inflight')
  <1>0. N \in Nat /\ range \in [Workers -> [lo : 0..N, hi : 0..N]]
    BY SizeAssumption DEF Placed
  <1>1. CASE NoMoreWork(stop) /\ down' = Send(dn, w, ShutdownFrame)
             /\ inflight' = infl /\ UNCHANGED range
    BY <1>1, SendTyped, Commands DEF GivenTo
  <1>2. CASE ~NoMoreWork(stop) /\ ~IsEmpty(range[w])
             /\ Dispatch(w, range[w].lo, infl, dn)
             /\ range' = [range EXCEPT ![w].lo = @ + 1]
    <2>1. range[w].lo < range[w].hi
      BY <1>0, <1>2 DEF IsEmpty
    <2>2. /\ range[w].lo \in Files /\ Holds(range, w, range[w].lo)
          /\ Placed([range EXCEPT ![w].lo = @ + 1],
                    [infl EXCEPT ![w] = range[w].lo], vd)
      BY <2>1, TakePlaced
    <2>3. down' \in [Workers -> Seq(DownFrames)]
      BY <1>2, <2>2, SendTyped, Commands DEF Dispatch
    <2>4. inflight' = [infl EXCEPT ![w] = range[w].lo]
      BY <1>2 DEF Dispatch
    <2>5. GivenTo(w, infl, inflight')
      BY <2>2, <2>4 DEF GivenTo, Placed
    <2> QED BY <1>2, <2>2, <2>3, <2>4, <2>5
  <1>3. CASE ~NoMoreWork(stop) /\ IsEmpty(range[w])
             /\ \E v \in Workers :
                   LET stolen == Stolen(v, w) IN
                   /\ IsVictim(v)
                   /\ Dispatch(w, stolen[w].lo, infl, dn)
                   /\ range' = [stolen EXCEPT ![w].lo = @ + 1]
    <2>1. PICK v \in Workers :
             /\ IsVictim(v)
             /\ Dispatch(w, Stolen(v, w)[w].lo, infl, dn)
             /\ range' = [Stolen(v, w) EXCEPT ![w].lo = @ + 1]
      BY <1>3
    <2>2. Undispatched # {}
      BY <1>3 DEF NoMoreWork
    <2> DEFINE rg2 == Stolen(v, w)
    <2>3. /\ Placed(rg2, infl, vd)
          /\ rg2[w].lo < rg2[w].hi
          /\ \A f \in Files : (\E u \in Workers : Holds(rg2, u, f))
                                 <=> \E u \in Workers : Holds(range, u, f)
      BY <1>3, <2>1, <2>2, StealPlaced
    <2>4. /\ Dispatch(w, rg2[w].lo, infl, dn)
          /\ range' = [rg2 EXCEPT ![w].lo = @ + 1]
      BY <2>1
    <2> HIDE DEF rg2
    <2>5. /\ rg2[w].lo \in Files /\ Holds(rg2, w, rg2[w].lo)
          /\ Placed([rg2 EXCEPT ![w].lo = @ + 1],
                    [infl EXCEPT ![w] = rg2[w].lo], vd)
      BY <2>3, TakePlaced
    <2>6. down' \in [Workers -> Seq(DownFrames)]
      BY <2>4, <2>5, SendTyped, Commands DEF Dispatch
    <2>7. \E u \in Workers : Holds(range, u, rg2[w].lo)
      BY <2>3, <2>5
    <2>8. inflight' = [infl EXCEPT ![w] = rg2[w].lo]
      BY <2>4 DEF Dispatch
    <2>9. GivenTo(w, infl, inflight')
      BY <2>5, <2>7, <2>8 DEF GivenTo, Placed
    <2> QED BY <2>4, <2>5, <2>6, <2>8, <2>9
  <1> QED
    BY <1>1, <1>2, <1>3 DEF AssignWork

-----------------------------------------------------------------------------
(* The initial state.                                                      *)

\* The invariant holds initially.
LEMMA InitIInv == Init => IInv
  <1> SUFFICES ASSUME Init PROVE IInv
    OBVIOUS
  <1>0. N \in Nat /\ K \in Nat /\ None \notin Files
    BY Constants
  <1>1. WiresTyped
    <2>1. /\ proc \in [Workers -> ProcessType]
          /\ \A w \in Workers : proc[w] = NoProcess
      BY Processes DEF Init
    <2>2. \A w \in Workers : proc[w].at # "run"
      BY <2>1, Processes
    <2>3. up \in [Workers -> Seq(UpFrames)] /\ down \in [Workers -> Seq(DownFrames)]
      BY DEF Init
    <2> QED BY <2>1, <2>2, <2>3 DEF WiresTyped
  <1>2. \A w \in Workers :
          /\ range[w].lo = (w * N) \div K /\ range[w].hi = ((w + 1) * N) \div K
          /\ w \in 0..K /\ w + 1 \in 0..K
    BY <1>0 DEF Init, Workers
  <1>3. range \in [Workers -> [lo : 0..N, hi : 0..N]]
    <2>1. \A w \in Workers : /\ (w * N) \div K \in 0..N
                             /\ ((w + 1) * N) \div K \in 0..N
      BY <1>2, Partition
    <2> QED BY <2>1 DEF Init
  <1>4. SlotsTyped
    <2>1. /\ inflight \in [Workers -> Files \cup {None}]
          /\ alive \in [Workers -> BOOLEAN]
          /\ ipc_done \in [Workers -> BOOLEAN]
          /\ verdict \in [Files -> {None, "pass", "fail", "crash", "aborted"}]
      BY DEF Init
    <2>2. /\ spawned_count \in 0..K /\ live_workers \in Int
          /\ files_done \in Int /\ fail \in Int /\ bail \in Nat
      BY <1>0, BailAssumption DEF Init
    <2>3. bailed \in BOOLEAN /\ phase \in {"start", "drive", "done", "exit1", "exit130"}
      BY DEF Init
    <2> QED BY <1>3, <2>1, <2>2, <2>3 DEF SlotsTyped
  <1>5. Placed(range, inflight, verdict)
    <2>1. /\ inflight \in [Workers -> Files \cup {None}]
          /\ verdict \in [Files -> {None, "pass", "fail", "crash", "aborted"}]
          /\ \A w \in Workers : inflight[w] = None
          /\ \A f \in Files : verdict[f] = None
      BY DEF Init
    <2>2. ASSUME NEW f \in Files, NEW v \in Workers, NEW w \in Workers, v < w
          PROVE  ~(Holds(range, v, f) /\ Holds(range, w, f))
      <3>1. range[v].hi <= range[w].lo
        <4>1. v + 1 <= w
          BY <1>0, <2>2 DEF Workers
        <4> QED BY <1>2, <4>1, Partition
      <3>2. range[v].hi \in Int /\ range[w].lo \in Int /\ f \in Int
        BY <1>0, <1>3 DEF Files
      <3> QED BY <3>1, <3>2 DEF Holds
    <2>3. ASSUME NEW f \in Files, NEW v \in Workers, NEW w \in Workers, v # w
          PROVE  ~(Holds(range, v, f) /\ Holds(range, w, f))
      <3>1. v < w \/ w < v
        BY <1>0, <2>3 DEF Workers
      <3> QED BY <2>2, <3>1
    <2>4. \A f \in Files : \E w \in Workers : Holds(range, w, f)
      BY <1>2, Partition DEF Holds
    <2> QED BY <1>3, <2>1, <2>3, <2>4 DEF Placed
  <1>6. files_done = Cardinality(DoneFiles(verdict))
    <2>1. DoneFiles(verdict) = {}
      BY DEF Init, DoneFiles
    <2> QED BY <2>1, FS_EmptySet DEF Init
  <1>7. OnePlacePerFile
    BY <1>4, <1>5, <1>6, PlacedIsOnePlace
  <1>8. \A w \in Workers : proc[w].at = "none" /\ proc[w].out = <<>>
    BY Processes DEF Init
  <1>9. LiveWorkersIsExact
    <2>1. {w \in Workers : proc[w].at # "none"} = {}
      BY <1>8
    <2> QED BY <2>1, FS_EmptySet DEF Init, LiveWorkersIsExact
  <1>10. FreshIsClean /\ ReadyIsFirst /\ SpawnedInOrder
    BY <1>8 DEF Init, FreshIsClean, ReadyIsFirst, SpawnedInOrder
  <1> QED
    BY <1>1, <1>4, <1>7, <1>9, <1>10 DEF IInv

-----------------------------------------------------------------------------
(* The steps of the processes.                                             *)

\* What a process does to itself and to its sockets keeps the invariant, if
\* it is not the first frame.
LEMMA ProcessKeeps ==
    ASSUME IInv, NEW w \in Workers, NEW p \in ProcessType,
           UNCHANGED <<slots, totals, bail, phase, verdict>>,
           proc[w].at # "none", p.at \notin {"none", "boot"},
           p.at = "run" => p.file \in Files,
           \A i \in DOMAIN p.out : p.out[i].kind # "Ready",
           proc' = [proc EXCEPT ![w] = p],
           up' \in [Workers -> Seq(UpFrames)],
           down' \in [Workers -> Seq(DownFrames)],
           \A v \in Workers : v # w => up'[v] = up[v],
           \A i \in DOMAIN up'[w] :
               up'[w][i].kind = "Ready" => i = 1 /\ inflight[w] = None
    PROVE  IInv'
  <1>1. proc \in [Workers -> ProcessType]
    BY DEF IInv, WiresTyped
  <1>2. /\ proc' \in [Workers -> ProcessType]
        /\ proc'[w] = p
        /\ \A v \in Workers : v # w => proc'[v] = proc[v]
    BY <1>1
  <1>3. WiresTyped'
    BY <1>2 DEF IInv, WiresTyped
  <1>4. SlotsTyped' /\ OnePlacePerFile'
    BY DEF IInv, SlotsTyped, OnePlacePerFile, InRange, slots, totals
  <1>5. FreshIsClean'
    BY <1>2 DEF IInv, FreshIsClean, slots
  <1>6. ReadyIsFirst'
    BY <1>2 DEF IInv, ReadyIsFirst, slots
  <1>7. SpawnedInOrder'
    BY <1>2 DEF IInv, SpawnedInOrder, totals
  <1>8. LiveWorkersIsExact'
    <2>1. {v \in Workers : proc'[v].at # "none"} = {v \in Workers : proc[v].at # "none"}
      BY <1>2
    <2> QED BY <2>1 DEF IInv, LiveWorkersIsExact, totals
  <1> QED
    BY <1>3, <1>4, <1>5, <1>6, <1>7, <1>8 DEF IInv

\* The same when the process writes a frame that is not Ready.
LEMMA EmitKeeps ==
    ASSUME IInv, NEW w \in Workers, NEW p \in ProcessType,
           UNCHANGED <<slots, totals, bail, phase, verdict, down>>,
           proc[w].at # "none", p.at \notin {"none", "boot"},
           p.at = "run" => p.file \in Files,
           p.out = proc[w].out,
           NEW m \in UpFrames, m.kind # "Ready", Emit(w, p, m)
    PROVE  IInv'
  <1>1. /\ proc \in [Workers -> ProcessType]
        /\ up \in [Workers -> Seq(UpFrames)]
        /\ down \in [Workers -> Seq(DownFrames)]
    BY DEF IInv, WiresTyped
  <1>2. /\ \A i \in DOMAIN up[w] :
               up[w][i].kind = "Ready" => i = 1 /\ inflight[w] = None
        /\ \A i \in DOMAIN p.out : p.out[i].kind # "Ready"
    BY DEF IInv, ReadyIsFirst
  <1>3. p.out \in Seq(UpFrames) /\ up[w] \in Seq(UpFrames)
    BY <1>1 DEF ProcessType
  <1>4. CASE p.out = <<>> /\ Len(up[w]) < SocketSize
    <2>1. /\ up' = [up EXCEPT ![w] = IF ipc_done[w] THEN @ ELSE Append(@, m)]
          /\ proc' = [proc EXCEPT ![w] = p]
      BY <1>4 DEF Emit
    <2>2. up' \in [Workers -> Seq(UpFrames)]
      BY <1>1, <1>3, <2>1
    <2>3. \A v \in Workers : v # w => up'[v] = up[v]
      BY <1>1, <2>1
    <2>4. \A i \in DOMAIN up'[w] :
               up'[w][i].kind = "Ready" => i = 1 /\ inflight[w] = None
      <3>1. up'[w] = up[w] \/ up'[w] = Append(up[w], m)
        BY <1>1, <2>1
      <3> QED BY <1>2, <1>3, <3>1
    <2> QED BY <1>1, <1>2, <2>1, <2>2, <2>3, <2>4, ProcessKeeps
  <1>5. CASE ~(p.out = <<>> /\ Len(up[w]) < SocketSize)
    <2> DEFINE p2 == [p EXCEPT !.out = Append(@, m)]
    <2>1. proc' = [proc EXCEPT ![w] = p2] /\ up' = up
      BY <1>5 DEF Emit
    <2>0. Append(p.out, m) \in Seq(UpFrames)
      BY <1>3
    <2>2. p2 \in ProcessType /\ p2.out = Append(p.out, m)
          /\ p2.at = p.at /\ p2.file = p.file
      <3> DEFINE q == Append(p.out, m)
      <3>1. q \in Seq(UpFrames) /\ p2 = [p EXCEPT !.out = q]
        BY <2>0
      <3> HIDE DEF q, p2
      <3>2. p2 \in ProcessType /\ p2.out = q /\ p2.at = p.at /\ p2.file = p.file
        BY <3>1 DEF ProcessType
      <3> QED BY <3>2 DEF q
    <2>3. \A i \in DOMAIN p2.out : p2.out[i].kind # "Ready"
      BY <1>2, <1>3, <2>2
    <2> HIDE DEF p2
    <2> QED BY <1>1, <1>2, <2>1, <2>2, <2>3, ProcessKeeps
  <1> QED
    BY <1>4, <1>5

\* The socket's own frames stay as they are when a process only changes itself.
LEMMA SocketsKept ==
    ASSUME IInv, NEW w \in Workers
    PROVE  /\ proc[w] \in ProcessType
           /\ proc[w].out \in Seq(UpFrames) /\ up[w] \in Seq(UpFrames)
           /\ down[w] \in Seq(DownFrames)
           /\ proc \in [Workers -> ProcessType]
           /\ up \in [Workers -> Seq(UpFrames)]
           /\ down \in [Workers -> Seq(DownFrames)]
           /\ proc[w].at = "run" => proc[w].file \in Files
           /\ \A i \in DOMAIN up[w] :
                up[w][i].kind = "Ready" => i = 1 /\ inflight[w] = None
           /\ \A i \in DOMAIN proc[w].out : proc[w].out[i].kind # "Ready"
  BY DEF IInv, WiresTyped, ReadyIsFirst, ProcessType

\* The first frame of a process: its slot is clean, so Ready comes first.
LEMMA BootKeeps ==
    ASSUME IInv, NEW w \in Workers, Boot(w) PROVE IInv'
  <1> DEFINE p == [proc[w] EXCEPT !.at = "idle"]
             m == [kind |-> "Ready"]
  <1>1. /\ up[w] = <<>> /\ proc[w].out = <<>> /\ inflight[w] = None /\ ~ipc_done[w]
        /\ proc[w].at = "boot"
    BY DEF IInv, FreshIsClean, Boot
  <1>2. p \in ProcessType /\ p.at = "idle" /\ p.out = <<>>
    <2>1. proc[w] \in ProcessType /\ proc[w].out = <<>>
      BY <1>1, SocketsKept
    <2> QED BY <2>1 DEF ProcessType
  <1>3. Emit(w, p, m) /\ m \in UpFrames
    BY Frames DEF Boot
  <1> HIDE DEF p, m
  <1>4. Len(up[w]) < SocketSize
    BY <1>1, BoundAssumption
  <1>5. up' = [up EXCEPT ![w] = Append(@, m)] /\ proc' = [proc EXCEPT ![w] = p]
    BY <1>1, <1>2, <1>3, <1>4 DEF Emit
  <1>6. up' \in [Workers -> Seq(UpFrames)] /\ up'[w] = <<m>>
    BY <1>1, <1>3, <1>5, SocketsKept
  <1>7. \A v \in Workers : v # w => up'[v] = up[v]
    BY <1>5, SocketsKept
  <1>8. \A i \in DOMAIN up'[w] : i = 1
    BY <1>6
  <1>9. \A i \in DOMAIN p.out : p.out[i].kind # "Ready"
    BY <1>2
  <1>10. UNCHANGED <<slots, totals, bail, phase, verdict, down>>
    BY DEF Boot, history
  <1>11. down' \in [Workers -> Seq(DownFrames)]
    BY <1>10, SocketsKept
  <1> QED
    BY <1>1, <1>2, <1>5, <1>6, <1>7, <1>8, <1>9, <1>10, <1>11, ProcessKeeps

\* A command of the coordinator is read into the pending slot.
LEMMA ReceiveKeeps ==
    ASSUME IInv, NEW w \in Workers, Receive(w) PROVE IInv'
  <1> DEFINE p == IF Head(down[w]).kind = "Run"
                  THEN [proc[w] EXCEPT !.pending = Head(down[w]).file]
                  ELSE [proc[w] EXCEPT !.done = TRUE]
  <1>1. proc[w].at \in {"idle", "run"} /\ down[w] # <<>>
    BY DEF Receive
  <1>2. Head(down[w]) \in DownFrames /\ Tail(down[w]) \in Seq(DownFrames)
    BY <1>1, SocketsKept
  <1>3. Head(down[w]).kind = "Run" => Head(down[w]).file \in Files
    BY <1>2, Commands
  <1>4. p \in ProcessType /\ p.at = proc[w].at /\ p.out = proc[w].out
        /\ p.file = proc[w].file
    BY <1>3, SocketsKept DEF ProcessType
  <1>5. proc' = [proc EXCEPT ![w] = p]
    BY DEF Receive
  <1> HIDE DEF p
  <1>6. down' \in [Workers -> Seq(DownFrames)]
    BY <1>2, SocketsKept DEF Receive
  <1>7. UNCHANGED <<slots, totals, bail, phase, verdict, up>>
    BY DEF Receive, history
  <1>8. /\ up' \in [Workers -> Seq(UpFrames)]
        /\ \A v \in Workers : v # w => up'[v] = up[v]
        /\ \A i \in DOMAIN up'[w] :
             up'[w][i].kind = "Ready" => i = 1 /\ inflight[w] = None
        /\ \A i \in DOMAIN p.out : p.out[i].kind # "Ready"
        /\ p.at = "run" => p.file \in Files
    BY <1>4, <1>7, SocketsKept
  <1>9. UNCHANGED <<slots, totals, bail, phase, verdict>>
    BY <1>7
  <1> QED
    BY <1>1, <1>4, <1>5, <1>6, <1>8, <1>9, ProcessKeeps

\* A file starts: FileStart is written.
LEMMA StartFileKeeps ==
    ASSUME IInv, NEW w \in Workers, StartFile(w) PROVE IInv'
  <1> DEFINE f == proc[w].pending
             p == [proc[w] EXCEPT !.at = "run", !.pending = None, !.file = f]
  <1>1. proc[w].at = "idle" /\ f # None /\ f \in Files
    BY SocketsKept DEF StartFile, ProcessType
  <1>2. p \in ProcessType /\ p.at = "run" /\ p.out = proc[w].out /\ p.file \in Files
    BY <1>1, SocketsKept DEF ProcessType
  <1>3. Emit(w, p, [kind |-> "FileStart"])
    BY DEF StartFile
  <1>4. UNCHANGED <<slots, totals, bail, phase, verdict, down>>
    BY DEF StartFile
  <1> HIDE DEF p
  <1> QED
    BY <1>1, <1>2, <1>3, <1>4, Frames, EmitKeeps

\* A file ends: FileDone with that file is written.
LEMMA FinishFileKeeps ==
    ASSUME IInv, NEW w \in Workers, FinishFile(w) PROVE IInv'
  <1> DEFINE f == proc[w].file
             p == [proc[w] EXCEPT !.at = "idle", !.file = None,
                                  !.ran = @ \cup {f}]
  <1>1. proc[w].at = "run" /\ f \in Files
    BY SocketsKept DEF FinishFile
  <1>2. p \in ProcessType /\ p.at = "idle" /\ p.out = proc[w].out
    BY <1>1, SocketsKept DEF ProcessType
  <1>3. PICK b \in BOOLEAN :
           Emit(w, p, [kind |-> "FileDone", file |-> f, failed |-> b])
    BY DEF FinishFile
  <1>4. UNCHANGED <<slots, totals, bail, phase, verdict, down>>
    BY DEF FinishFile
  <1>5. /\ [kind |-> "FileDone", file |-> f, failed |-> b] \in UpFrames
        /\ [kind |-> "FileDone", file |-> f, failed |-> b].kind # "Ready"
    BY <1>1, Frames
  <1> HIDE DEF p
  <1> QED
    BY <1>1, <1>2, <1>3, <1>4, <1>5, EmitKeeps

\* A frame of the backlog, which never is Ready, goes into the socket.
LEMMA FlushOutKeeps ==
    ASSUME IInv, NEW w \in Workers, FlushOut(w) PROVE IInv'
  <1> DEFINE m == Head(proc[w].out)
             q == Tail(proc[w].out)
             p == [proc[w] EXCEPT !.out = q]
  <1>1. proc[w].at \in {"idle", "run", "flush"} /\ proc[w].out # <<>>
    BY DEF FlushOut
  <1>2. m \in UpFrames /\ m.kind # "Ready" /\ q \in Seq(UpFrames)
        /\ \A i \in DOMAIN q : q[i].kind # "Ready"
    BY <1>1, SocketsKept
  <1>3. up' = [up EXCEPT ![w] = IF ipc_done[w] THEN @ ELSE Append(@, m)]
        /\ proc' = [proc EXCEPT ![w] = p]
    BY DEF FlushOut
  <1>4. UNCHANGED <<slots, totals, bail, phase, verdict, down>>
    BY DEF FlushOut
  <1> HIDE DEF m, q
  <1>5. p \in ProcessType /\ p.at = proc[w].at /\ p.out = q /\ p.file = proc[w].file
    BY <1>2, SocketsKept DEF ProcessType
  <1> HIDE DEF p
  <1>6. up' \in [Workers -> Seq(UpFrames)]
        /\ \A v \in Workers : v # w => up'[v] = up[v]
    BY <1>2, <1>3, SocketsKept
  <1>7. up'[w] = up[w] \/ up'[w] = Append(up[w], m)
    BY <1>3, SocketsKept
  <1>8. \A i \in DOMAIN up'[w] :
           up'[w][i].kind = "Ready" => i = 1 /\ inflight[w] = None
    <2>1. /\ up[w] \in Seq(UpFrames)
          /\ \A i \in DOMAIN up[w] :
                up[w][i].kind = "Ready" => i = 1 /\ inflight[w] = None
      BY SocketsKept
    <2>2. m \in UpFrames /\ m.kind # "Ready"
      BY <1>2
    <2> QED BY <1>7, <2>1, <2>2
  <1>9. down' \in [Workers -> Seq(DownFrames)]
    BY <1>4, SocketsKept
  <1> QED
    BY <1>1, <1>2, <1>3, <1>4, <1>5, <1>6, <1>8, <1>9, SocketsKept, ProcessKeeps

\* The aggregates join the backlog.
LEMMA FlushAggregatesKeeps ==
    ASSUME IInv, NEW w \in Workers, FlushAggregates(w) PROVE IInv'
  <1> DEFINE m == [kind |-> "Aggregates", files |-> proc[w].ran]
             q == Append(proc[w].out, m)
             p == [proc[w] EXCEPT !.at = "flush", !.out = q]
  <1>1. proc[w].at = "idle" /\ proc' = [proc EXCEPT ![w] = p]
    <2>1. proc' = [proc EXCEPT ![w].at = "flush", ![w].out = q]
      BY DEF FlushAggregates
    <2>2. proc[w].at = "idle"
      BY DEF FlushAggregates
    <2> HIDE DEF q
    <2> QED BY <2>1, <2>2, SocketsKept
  <1>2. m \in UpFrames /\ m.kind # "Ready"
    <2>1. proc[w].ran \in SUBSET Files
      BY SocketsKept DEF ProcessType
    <2> QED BY <2>1, Frames
  <1> HIDE DEF m
  <1>3. q \in Seq(UpFrames) /\ \A i \in DOMAIN q : q[i].kind # "Ready"
    BY <1>2, SocketsKept
  <1> HIDE DEF q
  <1>4. p \in ProcessType /\ p.at = "flush" /\ p.out = q
    BY <1>3, SocketsKept DEF ProcessType
  <1>5. UNCHANGED <<slots, totals, bail, phase, verdict, up, down>>
    BY DEF FlushAggregates, wires, history
  <1> HIDE DEF p
  <1> QED
    BY <1>1, <1>3, <1>4, <1>5, SocketsKept, ProcessKeeps

\* The end of a process, whatever its cause.
LEMMA GoneKeeps ==
    ASSUME IInv, NEW w \in Workers, NEW status \in {"exit", "panic"},
           proc[w].at # "none", Gone(w, status)
    PROVE  IInv'
  <1> DEFINE p == [NoProcess EXCEPT !.at = "gone", !.status = status]
  <1>1. p \in ProcessType /\ p.at = "gone" /\ p.out = <<>>
    BY Processes DEF ProcessType
  <1>2. proc' = [proc EXCEPT ![w] = p] /\ down' = [down EXCEPT ![w] = <<>>]
        /\ UNCHANGED <<slots, totals, bail, phase, verdict, up>>
    BY DEF Gone
  <1> HIDE DEF p
  <1>3. down' \in [Workers -> Seq(DownFrames)]
    BY <1>2, SocketsKept
  <1>4. /\ up' \in [Workers -> Seq(UpFrames)]
        /\ \A v \in Workers : v # w => up'[v] = up[v]
        /\ \A i \in DOMAIN up'[w] :
             up'[w][i].kind = "Ready" => i = 1 /\ inflight[w] = None
        /\ \A i \in DOMAIN p.out : p.out[i].kind # "Ready"
    BY <1>1, <1>2, SocketsKept
  <1>5. UNCHANGED <<slots, totals, bail, phase, verdict>>
    BY <1>2
  <1> QED
    BY <1>1, <1>2, <1>3, <1>4, <1>5, ProcessKeeps

\* Bytes that are no frame go into the socket.
LEMMA WriteGarbageKeeps ==
    ASSUME IInv, NEW w \in Workers, WriteGarbage(w) PROVE IInv'
  <1> DEFINE m == [kind |-> "Garbage"]
  <1>1. proc[w].at = "run" /\ up' = [up EXCEPT ![w] = Append(@, m)]
        /\ UNCHANGED <<slots, totals, bail, phase, verdict, proc, down>>
    BY DEF WriteGarbage, history
  <1>2. m \in UpFrames /\ m.kind # "Ready"
    BY Frames
  <1> HIDE DEF m
  <1>3. up' \in [Workers -> Seq(UpFrames)] /\ up'[w] = Append(up[w], m)
        /\ \A v \in Workers : v # w => up'[v] = up[v]
    BY <1>1, <1>2, SocketsKept
  <1>4. \A i \in DOMAIN up'[w] :
           up'[w][i].kind = "Ready" => i = 1 /\ inflight[w] = None
    BY <1>2, <1>3, SocketsKept
  <1>5. proc' = [proc EXCEPT ![w] = proc[w]]
    BY <1>1, SocketsKept
  <1> QED
    BY <1>1, <1>3, <1>4, <1>5, SocketsKept, ProcessKeeps

-----------------------------------------------------------------------------
(* The frames the coordinator reads.                                       *)

\* The invariant speaks of the places of the files in Placed's terms.
LEMMA Places ==
    IInv => /\ Placed(range, inflight, verdict)
            /\ files_done = Cardinality(DoneFiles(verdict))
            /\ files_done \in Nat
            /\ IsFiniteSet(DoneFiles(verdict))
  <1> SUFFICES ASSUME IInv PROVE /\ Placed(range, inflight, verdict)
                                 /\ files_done = Cardinality(DoneFiles(verdict))
                                 /\ files_done \in Nat
                                 /\ IsFiniteSet(DoneFiles(verdict))
    OBVIOUS
  <1>1. /\ Placed(range, inflight, verdict)
        /\ files_done = Cardinality(DoneFiles(verdict))
    BY PlacedIsOnePlace DEF IInv
  <1>2. IsFiniteSet(DoneFiles(verdict))
    BY Constants, FS_Subset DEF DoneFiles
  <1> QED
    BY <1>1, <1>2, FS_CardinalityType

\* A frame of worker w is taken from its socket, and only the file in flight
\* with w changes hands.
LEMMA FrameKeeps ==
    ASSUME IInv, NEW w \in Workers, NEW kind, Frame(w, kind),
           UNCHANGED <<alive, ipc_done, spawned_count, live_workers, bail,
                       phase, proc>>,
           Placed(range', inflight', verdict'),
           files_done' = Cardinality(DoneFiles(verdict')),
           down' \in [Workers -> Seq(DownFrames)],
           fail' \in Int, bailed' \in BOOLEAN,
           \A v \in Workers : v # w => inflight'[v] = inflight[v]
    PROVE  IInv'
  <1>1. /\ ~ipc_done[w] /\ up[w] # <<>>
        /\ up' = [up EXCEPT ![w] = Tail(@)]
    BY DEF Frame
  <1>2. up' \in [Workers -> Seq(UpFrames)] /\ up'[w] = Tail(up[w])
        /\ \A v \in Workers : v # w => up'[v] = up[v]
    BY <1>1, SocketsKept
  <1>3. WiresTyped'
    BY <1>2 DEF IInv, WiresTyped
  <1>4. SlotsTyped'
    <2>1. IsFiniteSet(DoneFiles(verdict'))
      BY Constants, FS_Subset DEF DoneFiles
    <2>2. files_done' \in Int
      BY <2>1, FS_CardinalityType
    <2> QED BY <2>2 DEF IInv, SlotsTyped, Placed
  <1>5. OnePlacePerFile'
    BY <1>4 DEF SlotsTyped, OnePlacePerFile, Placed, Holds, InRange, DoneFiles
  <1>6. FreshIsClean'
    <2>1. proc[w].at \notin {"none", "boot"}
      BY <1>1 DEF IInv, FreshIsClean
    <2> QED BY <1>2, <2>1 DEF IInv, FreshIsClean
  <1>7. ReadyIsFirst'
    <2>1. \A i \in DOMAIN up'[w] : up'[w][i].kind # "Ready"
      <3>1. /\ up[w] \in Seq(UpFrames)
            /\ \A i \in DOMAIN up[w] : up[w][i].kind = "Ready" => i = 1
        BY SocketsKept
      <3> QED BY <1>1, <1>2, <3>1
    <2> QED BY <1>2, <2>1 DEF IInv, ReadyIsFirst
  <1>8. SpawnedInOrder' /\ LiveWorkersIsExact'
    BY DEF IInv, SpawnedInOrder, LiveWorkersIsExact
  <1> QED
    BY <1>3, <1>4, <1>5, <1>6, <1>7, <1>8 DEF IInv

\* The first frame of a process: its worker has no file to overwrite.
LEMMA OnReadyKeeps ==
    ASSUME IInv, NEW w \in Workers, OnReady(w) PROVE IInv'
  <1>1. inflight[w] = None
    <2>1. up[w] # <<>> /\ Head(up[w]).kind = "Ready"
      BY DEF OnReady, Frame
    <2>2. 1 \in DOMAIN up[w] /\ up[w][1].kind = "Ready"
      BY <2>1, SocketsKept
    <2> QED BY <2>2, SocketsKept
  <1>2. /\ AssignWork(w, bailed, inflight, down) /\ Frame(w, "Ready")
        /\ UNCHANGED <<alive, ipc_done, spawned_count, live_workers, bail,
                       phase, proc, files_done, fail, bailed, verdict>>
    BY DEF OnReady, totals, history
  <1>3. down \in [Workers -> Seq(DownFrames)] /\ bailed \in BOOLEAN /\ fail \in Int
    BY DEF IInv, WiresTyped, SlotsTyped
  <1>4. /\ Placed(range', inflight', verdict)
        /\ down' \in [Workers -> Seq(DownFrames)]
        /\ GivenTo(w, inflight, inflight')
    BY <1>1, <1>2, <1>3, Places, AssignPlaced
  <1>5. \A v \in Workers : v # w => inflight'[v] = inflight[v]
    BY <1>4 DEF GivenTo
  <1>6. files_done' = Cardinality(DoneFiles(verdict'))
    BY <1>2, Places
  <1> QED
    BY <1>2, <1>3, <1>4, <1>5, <1>6, FrameKeeps

\* Frames that only the output and the report depend on.
LEMMA OnOtherFrameKeeps ==
    ASSUME IInv, NEW w \in Workers, OnFileStart(w) \/ OnAggregates(w) PROVE IInv'
  <1>1. /\ Frame(w, "FileStart") \/ Frame(w, "Aggregates")
        /\ UNCHANGED <<slots, totals, bail, phase, proc, down, verdict>>
    BY DEF OnFileStart, OnAggregates, history
  <1>2. UNCHANGED <<range, inflight, alive, ipc_done, spawned_count,
                    live_workers, files_done, fail, bailed>>
    BY <1>1 DEF slots, totals
  <1>3. /\ Placed(range', inflight', verdict')
        /\ files_done' = Cardinality(DoneFiles(verdict'))
    BY <1>1, <1>2, Places
  <1>4. down' \in [Workers -> Seq(DownFrames)] /\ fail' \in Int /\ bailed' \in BOOLEAN
    BY <1>1, <1>2 DEF IInv, WiresTyped, SlotsTyped
  <1> QED
    BY <1>1, <1>2, <1>3, <1>4, FrameKeeps

\* bail_out writes to the idle workers.
LEMMA ShutdownTyped ==
    ASSUME IInv, NEW infl, NEW dead
    PROVE  ShutdownIdle(infl, dead) \in [Workers -> Seq(DownFrames)]
  <1>1. down \in [Workers -> Seq(DownFrames)]
    BY DEF IInv, WiresTyped
  <1>2. \A v \in Workers : Append(down[v], ShutdownFrame) \in Seq(DownFrames)
    BY <1>1, Commands
  <1> QED
    BY <1>1, <1>2 DEF ShutdownIdle

\* An awaited result: the file gets its verdict and the worker another file.
LEMMA OnFileDoneKeeps ==
    ASSUME IInv, NEW w \in Workers, OnFileDone(w) PROVE IInv'
  <1> DEFINE m == Head(up[w])
             fails == fail + (IF m.failed THEN 1 ELSE 0)
             stop == bailed \/ BailsAt(fails)
             infl == [inflight EXCEPT ![w] = None]
             dn == IF BailsAt(fails) THEN ShutdownIdle(infl, None) ELSE down
             vd == [verdict EXCEPT ![m.file] = IF m.failed THEN "fail" ELSE "pass"]
  <1>0. /\ down \in [Workers -> Seq(DownFrames)] /\ bailed \in BOOLEAN
        /\ fail \in Int /\ fails \in Int
        /\ inflight \in [Workers -> Files \cup {None}]
    BY DEF IInv, WiresTyped, SlotsTyped
  <1>1. /\ Frame(w, "FileDone")
        /\ UNCHANGED <<bail, phase, proc>>
    BY DEF OnFileDone
  <1>2. up[w] # <<>> /\ m.kind = "FileDone"
    BY <1>1 DEF Frame
  <1>3. m \in UpFrames /\ m.file \in Files /\ m.failed \in BOOLEAN
    <2>1. m \in UpFrames
      BY <1>2, SocketsKept
    <2> QED BY <1>2, <2>1, Frames
  <1>4. CASE inflight[w] # m.file
    <2>1. UNCHANGED <<range, inflight, alive, ipc_done, spawned_count,
                      live_workers, files_done, fail, bailed, down, verdict>>
      BY <1>4 DEF OnFileDone, slots, totals
    <2>2. /\ Placed(range', inflight', verdict')
          /\ files_done' = Cardinality(DoneFiles(verdict'))
      BY <2>1, Places
    <2> QED BY <1>0, <1>1, <2>1, <2>2, FrameKeeps
  <1>5. CASE inflight[w] = m.file
    <2>1. /\ verdict' = vd
          /\ files_done' = files_done + 1
          /\ fail' = fails /\ bailed' = stop
          /\ IF alive[w] THEN AssignWork(w, stop, infl, dn)
             ELSE inflight' = infl /\ down' = dn /\ UNCHANGED range
          /\ UNCHANGED <<alive, ipc_done, spawned_count, live_workers>>
      BY <1>5 DEF OnFileDone
    <2>2. inflight[w] # None
      BY <1>3, <1>5, NoneAssumption
    <2>3. /\ verdict[m.file] = None
          /\ Placed(range, infl, vd)
          /\ DoneFiles(vd) = DoneFiles(verdict) \cup {m.file}
      <3>1. /\ infl \in [Workers -> Files \cup {None}] /\ infl[w] = None
            /\ \A v \in Workers : v # w => infl[v] = inflight[v]
        BY <1>0
      <3>2. /\ vd \in [Files -> {None, "pass", "fail", "crash", "aborted"}]
            /\ vd[m.file] # None
            /\ \A f \in Files : f # m.file => vd[f] = verdict[f]
        BY <1>3, NoneAssumption DEF IInv, SlotsTyped
      <3> HIDE DEF infl, vd, m
      <3> QED BY <1>5, <2>2, <3>1, <3>2, Places, DonePlaced
    <2>4. dn \in [Workers -> Seq(DownFrames)] /\ infl[w] = None /\ stop \in BOOLEAN
          /\ \A v \in Workers : v # w => infl[v] = inflight[v]
      BY <1>0, ShutdownTyped
    <2>5. files_done' = Cardinality(DoneFiles(vd))
      <3>1. m.file \notin DoneFiles(verdict)
        BY <2>3 DEF DoneFiles
      <3> QED BY <2>1, <2>3, <3>1, Places, FS_AddElement
    <2> HIDE DEF infl, dn, stop, vd, fails
    <2>6. /\ Placed(range', inflight', vd)
          /\ down' \in [Workers -> Seq(DownFrames)]
          /\ GivenTo(w, infl, inflight')
      <3>1. CASE alive[w]
        BY <2>1, <2>3, <2>4, <3>1, AssignPlaced
      <3>2. CASE ~alive[w]
        BY <2>1, <2>3, <2>4, <3>2 DEF GivenTo
      <3> QED BY <3>1, <3>2
    <2>7. \A v \in Workers : v # w => inflight'[v] = inflight[v]
      BY <2>4, <2>6 DEF GivenTo
    <2> QED BY <1>0, <1>1, <2>1, <2>4, <2>5, <2>6, <2>7, FrameKeeps
  <1> QED
    BY <1>4, <1>5

-----------------------------------------------------------------------------
(* reap_worker.                                                            *)

\* The files of the ranges.
LEMMA UndispatchedFiles ==
    ASSUME NEW infl, NEW vd, Placed(range, infl, vd)
    PROVE  /\ Undispatched \subseteq Files
           /\ IsFiniteSet(Undispatched) /\ Cardinality(Undispatched) \in Nat
           /\ \A f \in Files :
                f \in Undispatched <=> \E w \in Workers : Holds(range, w, f)
  <1>0. N \in Nat /\ range \in [Workers -> [lo : 0..N, hi : 0..N]]
    BY SizeAssumption DEF Placed
  <1>1. \A w \in Workers : FilesOf(range[w]) \subseteq Files
    BY <1>0 DEF FilesOf, Files
  <1>2. \A w \in Workers : \A f \in Files :
           f \in FilesOf(range[w]) <=> Holds(range, w, f)
    BY <1>0 DEF FilesOf, Files, Holds
  <1>3. Undispatched \subseteq Files
    BY <1>1 DEF Undispatched
  <1>4. \A f \in Files : f \in Undispatched <=> \E w \in Workers : Holds(range, w, f)
    BY <1>2 DEF Undispatched
  <1>5. IsFiniteSet(Undispatched)
    BY <1>3, Constants, FS_Subset
  <1> QED
    BY <1>3, <1>4, <1>5, FS_CardinalityType

\* abort_queued_files: all ranges are emptied, their files are aborted.
LEMMA AbortPlaced ==
    ASSUME NEW infl, NEW vd, Placed(range, infl, vd),
           NEW rg2 \in [Workers -> [lo : 0..N, hi : 0..N]],
           \A w \in Workers : rg2[w].lo = rg2[w].hi,
           NEW vd2 \in [Files -> {None, "pass", "fail", "crash", "aborted"}],
           \A f \in Files : vd2[f] = IF f \in Undispatched THEN "aborted" ELSE vd[f]
    PROVE  /\ Placed(rg2, infl, vd2)
           /\ DoneFiles(vd2) = DoneFiles(vd) \cup Undispatched
           /\ DoneFiles(vd) \cap Undispatched = {}
  <1>1. /\ Undispatched \subseteq Files
        /\ \A f \in Files :
             f \in Undispatched <=> \E w \in Workers : Holds(range, w, f)
    BY UndispatchedFiles
  <1>2. N \in Nat /\ infl \in [Workers -> Files \cup {None}]
    BY SizeAssumption DEF Placed
  <1>3. \A f \in Files : \A w \in Workers : ~Holds(rg2, w, f)
    BY <1>2 DEF Holds, Files
  <1>4. ASSUME NEW f \in Files
        PROVE  vd2[f] = None <=> \E w \in Workers : Holds(rg2, w, f) \/ infl[w] = f
    <2>1. CASE f \in Undispatched
      <3>1. \A w \in Workers : infl[w] # f
        BY <1>1, <2>1, NoneAssumption DEF Placed
      <3> QED BY <1>3, <2>1, <3>1, NoneAssumption
    <2>2. CASE f \notin Undispatched
      BY <1>1, <1>3, <2>2 DEF Placed
    <2> QED BY <2>1, <2>2
  <1>5. Placed(rg2, infl, vd2)
    <2>1. \A v, w \in Workers : infl[v] # None => ~Holds(rg2, w, infl[v])
      BY <1>2, <1>3
    <2>2. \A f \in Files : \A v, w \in Workers :
             v # w => ~(Holds(rg2, v, f) /\ Holds(rg2, w, f))
      BY <1>3
    <2> QED BY <1>2, <1>4, <2>1, <2>2 DEF Placed
  <1>6. \A f \in Undispatched : vd[f] = None
    BY <1>1 DEF Placed
  <1>7. DoneFiles(vd2) = DoneFiles(vd) \cup Undispatched
    BY <1>1, <1>6, NoneAssumption DEF DoneFiles
  <1>8. DoneFiles(vd) \cap Undispatched = {}
    BY <1>6 DEF DoneFiles
  <1> QED
    BY <1>5, <1>7, <1>8

\* A file in flight, if there is one, is charged to the crash.
LEMMA CrashPlaced ==
    ASSUME IInv, NEW w \in Workers,
           NEW vd, vd = [f \in Files |-> IF f = inflight[w] THEN "crash" ELSE verdict[f]]
    PROVE  /\ Placed(range, InflightAfterReap(w), vd)
           /\ Cardinality(DoneFiles(vd)) =
                files_done + (IF inflight[w] # None THEN 1 ELSE 0)
           /\ IsFiniteSet(DoneFiles(vd))
  <1> DEFINE infl == InflightAfterReap(w)
  <1>1. inflight \in [Workers -> Files \cup {None}]
        /\ verdict \in [Files -> {None, "pass", "fail", "crash", "aborted"}]
    BY DEF IInv, SlotsTyped
  <1>2. /\ infl \in [Workers -> Files \cup {None}] /\ infl[w] = None
        /\ \A v \in Workers : v # w => infl[v] = inflight[v]
    BY <1>1 DEF InflightAfterReap
  <1>3. vd \in [Files -> {None, "pass", "fail", "crash", "aborted"}]
        /\ \A f \in Files : vd[f] = IF f = inflight[w] THEN "crash" ELSE verdict[f]
    BY <1>1
  <1>4. CASE inflight[w] = None
    <2>1. vd = verdict
      BY <1>1, <1>4, NoneAssumption
    <2>2. infl = inflight
      BY <1>1, <1>4 DEF InflightAfterReap
    <2> QED BY <1>4, <2>1, <2>2, Places
  <1>5. CASE inflight[w] # None
    <2> HIDE DEF infl
    <2>1. inflight[w] \in Files /\ vd[inflight[w]] # None
      BY <1>1, <1>3, <1>5, NoneAssumption
    <2>2. /\ verdict[inflight[w]] = None
          /\ Placed(range, infl, vd)
          /\ DoneFiles(vd) = DoneFiles(verdict) \cup {inflight[w]}
      BY <1>2, <1>3, <1>5, <2>1, Places, DonePlaced
    <2>3. inflight[w] \notin DoneFiles(verdict)
      BY <2>2 DEF DoneFiles
    <2>4. /\ IsFiniteSet(DoneFiles(vd))
          /\ Cardinality(DoneFiles(vd)) = files_done + 1
      BY <2>2, <2>3, Places, FS_AddElement
    <2> QED BY <1>5, <2>2, <2>4 DEF infl
  <1> QED
    BY <1>4, <1>5

\* The slot of w is torn down and perhaps gets a new process.
LEMMA ReapKeeps ==
    ASSUME IInv, NEW w \in Workers, NEW status, proc[w].at # "none",
           Reap(w, status)
    PROVE  IInv'
  <1> DEFINE crashed == inflight[w] # None
             fails == fail + (IF crashed THEN 1 ELSE 0)
             bails == crashed /\ BailsAt(fails)
             panics == crashed /\ status = "panic"
             stop == bailed \/ bails \/ panics
             aborted(r) == IF (panics /\ ~bailed /\ ~bails) \/ LastOneGone(stop, r)
                           THEN Undispatched ELSE {}
  <1>1. PICK respawned \in BOOLEAN :
          /\ verdict' = [f \in Files |->
                            CASE f = inflight[w] -> "crash"
                              [] f \in aborted(respawned) -> "aborted"
                              [] OTHER -> verdict[f]]
          /\ files_done' = files_done + Cardinality(aborted(respawned))
                                      + (IF crashed THEN 1 ELSE 0)
          /\ fail' = fails + Cardinality(aborted(respawned))
          /\ bailed' = stop
          /\ inflight' = InflightAfterReap(w)
          /\ range' = IF aborted(respawned) = {} THEN range
                      ELSE [v \in Workers |-> [range[v] EXCEPT !.lo = range[v].hi]]
          /\ live_workers' = LiveAfterReap(respawned)
          /\ alive' = [alive EXCEPT ![w] = respawned]
          /\ ipc_done' = [ipc_done EXCEPT ![w] = FALSE]
          /\ up' = [up EXCEPT ![w] = <<>>]
          /\ down' = [(IF bails THEN ShutdownIdle(inflight, w) ELSE down)
                         EXCEPT ![w] = <<>>]
          /\ proc' = [v \in Workers |->
                         IF v = w
                         THEN IF respawned THEN NewProcess ELSE NoProcess
                         ELSE IF /\ panics /\ alive[v] /\ v \in Running
                                 /\ proc[v].signal = None
                         THEN [proc[v] EXCEPT !.signal = "SIGTERM"] ELSE proc[v]]
          /\ UNCHANGED <<spawned_count, bail, phase>>
    BY DEF Reap
  <1> DEFINE gone == aborted(respawned)
             vd == [f \in Files |-> IF f = inflight[w] THEN "crash" ELSE verdict[f]]
  <1>2. /\ Placed(range, inflight', vd)
        /\ Cardinality(DoneFiles(vd)) = files_done + (IF crashed THEN 1 ELSE 0)
        /\ IsFiniteSet(DoneFiles(vd))
    BY <1>1, CrashPlaced
  <1>3. gone = {} \/ gone = Undispatched
    OBVIOUS
  <1>4. bailed \in BOOLEAN /\ stop \in BOOLEAN /\ fails \in Int
        /\ inflight \in [Workers -> Files \cup {None}]
        /\ verdict \in [Files -> {None, "pass", "fail", "crash", "aborted"}]
        /\ N \in Nat
    BY SizeAssumption DEF IInv, SlotsTyped
  <1>5. /\ verdict' = [f \in Files |->
                          CASE f = inflight[w] -> "crash"
                            [] f \in gone -> "aborted"
                            [] OTHER -> verdict[f]]
        /\ files_done' = files_done + Cardinality(gone) + (IF crashed THEN 1 ELSE 0)
        /\ fail' = fails + Cardinality(gone)
        /\ range' = IF gone = {} THEN range
                    ELSE [v \in Workers |-> [range[v] EXCEPT !.lo = range[v].hi]]
    BY <1>1
  <1> HIDE DEF gone, aborted, stop
  <1>6. \A f \in Undispatched : f # inflight[w]
    <2>1. /\ Undispatched \subseteq Files
          /\ \A f \in Files :
               f \in Undispatched <=> \E v \in Workers : Holds(range, v, f)
      BY Places, UndispatchedFiles
    <2>2. \A f \in Undispatched : f # None
      BY <2>1, NoneAssumption
    <2> QED BY <2>1, <2>2, Places DEF Placed
  <1>7. /\ verdict' \in [Files -> {None, "pass", "fail", "crash", "aborted"}]
        /\ \A f \in Files : verdict'[f] = IF f \in gone THEN "aborted" ELSE vd[f]
    BY <1>3, <1>4, <1>5, <1>6
  <1> HIDE DEF vd
  <1>8. /\ Placed(range', inflight', verdict')
        /\ files_done' = Cardinality(DoneFiles(verdict'))
        /\ Cardinality(gone) \in Nat
    <2>1. CASE gone = {}
      <3>1. verdict' = vd /\ range' = range /\ Cardinality(gone) = 0
        BY <1>4, <1>5, <1>7, <2>1, FS_EmptySet DEF vd
      <3>2. files_done \in Nat
        BY Places
      <3> QED BY <1>2, <1>5, <3>1, <3>2
    <2>2. CASE gone = Undispatched /\ gone # {}
      <3>1. range' \in [Workers -> [lo : 0..N, hi : 0..N]]
            /\ \A v \in Workers : range'[v].lo = range'[v].hi
        BY <1>2, <1>5, <2>2 DEF Placed
      <3>2. /\ Placed(range', inflight', verdict')
            /\ DoneFiles(verdict') = DoneFiles(vd) \cup Undispatched
            /\ DoneFiles(vd) \cap Undispatched = {}
        BY <1>2, <1>7, <2>2, <3>1, AbortPlaced
      <3>3. IsFiniteSet(Undispatched) /\ Cardinality(Undispatched) \in Nat
        BY <1>2, UndispatchedFiles
      <3>4. Cardinality(DoneFiles(verdict')) =
              Cardinality(DoneFiles(vd)) + Cardinality(Undispatched)
        <4>1. Cardinality(DoneFiles(vd) \cup Undispatched) =
                Cardinality(DoneFiles(vd)) + Cardinality(Undispatched)
                  - Cardinality(DoneFiles(vd) \cap Undispatched)
          BY <1>2, <3>3, FS_Union
        <4>2. Cardinality(DoneFiles(vd)) \in Nat
          BY <1>2, FS_CardinalityType
        <4> QED BY <3>2, <3>3, <4>1, <4>2, FS_EmptySet
      <3>5. files_done \in Nat
        BY Places
      <3> QED BY <1>2, <1>5, <2>2, <3>2, <3>3, <3>4, <3>5
    <2> QED BY <1>3, <2>1, <2>2
  <1>9. SlotsTyped'
    <2>1. live_workers' \in Int
      BY <1>1 DEF IInv, SlotsTyped, LiveAfterReap
    <2>2. files_done' \in Int /\ fail' \in Int
      BY <1>4, <1>5, <1>8, Places
    <2>3. alive' \in [Workers -> BOOLEAN] /\ ipc_done' \in [Workers -> BOOLEAN]
      BY <1>1 DEF IInv, SlotsTyped
    <2> QED BY <1>1, <1>4, <1>8, <2>1, <2>2, <2>3 DEF IInv, SlotsTyped, Placed
  <1>10. OnePlacePerFile'
    BY <1>8, <1>9 DEF SlotsTyped, OnePlacePerFile, Placed, Holds, InRange, DoneFiles
  <1>11. /\ proc' \in [Workers -> ProcessType]
         /\ proc'[w].at = IF respawned THEN "boot" ELSE "none"
         /\ proc'[w].out = <<>>
         /\ \A v \in Workers : v # w =>
              /\ proc'[v].at = proc[v].at /\ proc'[v].out = proc[v].out
              /\ proc'[v].file = proc[v].file
    <2>1. proc \in [Workers -> ProcessType]
      BY DEF IInv, WiresTyped
    <2>2. \A v \in Workers :
             /\ [proc[v] EXCEPT !.signal = "SIGTERM"] \in ProcessType
             /\ [proc[v] EXCEPT !.signal = "SIGTERM"].at = proc[v].at
             /\ [proc[v] EXCEPT !.signal = "SIGTERM"].out = proc[v].out
             /\ [proc[v] EXCEPT !.signal = "SIGTERM"].file = proc[v].file
      BY <2>1 DEF ProcessType
    <2>3. proc'[w] = IF respawned THEN NewProcess ELSE NoProcess
      BY <1>1
    <2>4. \A v \in Workers : v # w =>
             proc'[v] = proc[v] \/ proc'[v] = [proc[v] EXCEPT !.signal = "SIGTERM"]
      BY <1>1
    <2>5. proc' = [v \in Workers |-> proc'[v]]
      BY <1>1
    <2>6. \A v \in Workers : proc'[v] \in ProcessType
      BY <2>1, <2>2, <2>3, <2>4, Processes
    <2>7. proc' \in [Workers -> ProcessType]
      BY <2>5, <2>6
    <2> QED BY <2>2, <2>3, <2>4, <2>7, Processes
  <1>12. /\ up' \in [Workers -> Seq(UpFrames)] /\ up'[w] = <<>>
         /\ \A v \in Workers : v # w => up'[v] = up[v]
         /\ down' \in [Workers -> Seq(DownFrames)]
    <2>1. up \in [Workers -> Seq(UpFrames)] /\ down \in [Workers -> Seq(DownFrames)]
      BY DEF IInv, WiresTyped
    <2>2. (IF bails THEN ShutdownIdle(inflight, w) ELSE down)
            \in [Workers -> Seq(DownFrames)]
      BY <2>1, ShutdownTyped
    <2> QED BY <1>1, <2>1, <2>2
  <1>13. WiresTyped'
    BY <1>11, <1>12 DEF IInv, WiresTyped
  <1>14. inflight'[w] = None /\ ~ipc_done'[w]
         /\ \A v \in Workers : v # w =>
              inflight'[v] = inflight[v] /\ ipc_done'[v] = ipc_done[v]
    BY <1>1 DEF IInv, SlotsTyped, InflightAfterReap
  <1>15. FreshIsClean' /\ ReadyIsFirst'
    <2>1. FreshIsClean'
      BY <1>11, <1>12, <1>14 DEF IInv, FreshIsClean
    <2>2. ASSUME NEW v \in Workers
          PROVE  /\ \A i \in DOMAIN up'[v] :
                       up'[v][i].kind = "Ready" => i = 1 /\ inflight'[v] = None
                 /\ \A i \in DOMAIN proc'[v].out : proc'[v].out[i].kind # "Ready"
      <3>1. CASE v = w
        BY <1>11, <1>12, <3>1
      <3>2. CASE v # w
        <4>1. /\ up'[v] = up[v] /\ inflight'[v] = inflight[v]
              /\ proc'[v].out = proc[v].out
          BY <1>11, <1>12, <1>14, <3>2
        <4> QED BY <4>1, SocketsKept
      <3> QED BY <3>1, <3>2
    <2>3. ReadyIsFirst'
      BY <2>2 DEF ReadyIsFirst
    <2> QED BY <2>1, <2>3
  <1>16. SpawnedInOrder'
    BY <1>1, <1>11 DEF IInv, SpawnedInOrder
  <1>17. LiveWorkersIsExact'
    <2> DEFINE S == {v \in Workers : proc[v].at # "none"}
               T == {v \in Workers : proc'[v].at # "none"}
    <2>1. IsFiniteSet(S) /\ Cardinality(S) = live_workers /\ live_workers \in Int
      BY Constants, FS_Subset DEF IInv, LiveWorkersIsExact, SlotsTyped
    <2>2. w \in S
      OBVIOUS
    <2>3. T = IF respawned THEN S ELSE S \ {w}
      BY <1>11
    <2> HIDE DEF S, T
    <2>4. Cardinality(T) = live_workers - 1 + (IF respawned THEN 1 ELSE 0)
      <3>1. Cardinality(S \ {w}) = Cardinality(S) - 1
        BY <2>1, <2>2, FS_RemoveElement
      <3>2. CASE respawned
        BY <2>1, <2>3, <3>2
      <3>3. CASE ~respawned
        BY <2>1, <2>3, <3>1, <3>3
      <3> QED BY <3>2, <3>3
    <2> QED BY <1>1, <2>4 DEF LiveWorkersIsExact, LiveAfterReap, T
  <1> QED
    BY <1>9, <1>10, <1>13, <1>15, <1>16, <1>17 DEF IInv

\* The exit of a process is noted, or its slot reaped.
LEMMA OnProcessExitKeeps ==
    ASSUME IInv, NEW w \in Workers, OnProcessExit(w) PROVE IInv'
  <1>1. proc[w].at = "gone"
    BY DEF OnProcessExit
  <1>2. CASE Reap(w, proc[w].status)
    BY <1>1, <1>2, ReapKeeps
  <1>3. CASE /\ alive' = [alive EXCEPT ![w] = FALSE]
             /\ UNCHANGED <<range, inflight, ipc_done, totals, bail, phase,
                            proc, wires, history>>
    <2>1. SlotsTyped'
      BY <1>3 DEF IInv, SlotsTyped, totals, history
    <2> QED BY <1>3, <2>1
            DEF IInv, WiresTyped, FreshIsClean, ReadyIsFirst, SpawnedInOrder,
                OnePlacePerFile, InRange, LiveWorkersIsExact, totals, wires, history
  <1> QED
    BY <1>2, <1>3 DEF OnProcessExit

\* The channel of a process that is gone closes.
LEMMA OnChannelCloseKeeps ==
    ASSUME IInv, NEW w \in Workers, OnChannelClose(w) PROVE IInv'
  <1>1. proc[w].at = "gone"
    BY DEF OnChannelClose
  <1>2. CASE Reap(w, exit_status[w])
    BY <1>1, <1>2, ReapKeeps
  <1>3. CASE /\ ipc_done' = [ipc_done EXCEPT ![w] = TRUE]
             /\ UNCHANGED <<range, inflight, alive, totals, bail, phase, proc,
                            wires, history>>
    <2>1. SlotsTyped' /\ \A v \in Workers : v # w => ipc_done'[v] = ipc_done[v]
      BY <1>3 DEF IInv, SlotsTyped, totals, history
    <2>2. FreshIsClean'
      BY <1>1, <1>3, <2>1 DEF IInv, FreshIsClean, wires
    <2> QED BY <1>3, <2>1, <2>2
            DEF IInv, WiresTyped, ReadyIsFirst, SpawnedInOrder,
                OnePlacePerFile, InRange, LiveWorkersIsExact, totals, wires, history
  <1> QED
    BY <1>2, <1>3 DEF OnChannelClose

\* A corrupt frame: the channel is given up.
LEMMA OnGarbageKeeps ==
    ASSUME IInv, NEW w \in Workers, OnGarbage(w) PROVE IInv'
  <1>1. up[w] # <<>>
    BY DEF OnGarbage
  <1>2. proc[w].at \notin {"none", "boot"}
    BY <1>1 DEF IInv, FreshIsClean
  <1>3. CASE Reap(w, exit_status[w])
    BY <1>2, <1>3, ReapKeeps
  <1>4. CASE /\ ipc_done' = [ipc_done EXCEPT ![w] = TRUE]
             /\ up' = [up EXCEPT ![w] = <<>>]
             /\ proc' = IF w \in Running
                        THEN [proc EXCEPT ![w].signal = "SIGKILL"] ELSE proc
             /\ UNCHANGED <<range, inflight, alive, totals, bail, phase, down,
                            history>>
    <2>1. SlotsTyped' /\ \A v \in Workers : v # w => ipc_done'[v] = ipc_done[v]
      BY <1>4 DEF IInv, SlotsTyped, totals, history
    <2>2. /\ proc' \in [Workers -> ProcessType]
          /\ \A v \in Workers :
               /\ proc'[v].at = proc[v].at /\ proc'[v].out = proc[v].out
               /\ proc'[v].file = proc[v].file
      <3>1. proc \in [Workers -> ProcessType]
        BY DEF IInv, WiresTyped
      <3> DEFINE p == [proc[w] EXCEPT !.signal = "SIGKILL"]
      <3>2. p \in ProcessType /\ p.at = proc[w].at /\ p.out = proc[w].out
            /\ p.file = proc[w].file
        BY <3>1 DEF ProcessType
      <3>3. proc' = proc \/ proc' = [proc EXCEPT ![w] = p]
        BY <1>4
      <3> HIDE DEF p
      <3> QED BY <3>1, <3>2, <3>3
    <2>3. /\ up' \in [Workers -> Seq(UpFrames)] /\ up'[w] = <<>>
          /\ \A v \in Workers : v # w => up'[v] = up[v]
      BY <1>4 DEF IInv, WiresTyped
    <2>4. WiresTyped'
      BY <1>4, <2>2, <2>3 DEF IInv, WiresTyped
    <2>5. FreshIsClean'
      BY <1>2, <1>4, <2>1, <2>2, <2>3 DEF IInv, FreshIsClean
    <2>6. ReadyIsFirst'
      <3>1. ASSUME NEW v \in Workers
            PROVE  /\ \A i \in DOMAIN up'[v] :
                         up'[v][i].kind = "Ready" => i = 1 /\ inflight'[v] = None
                   /\ \A i \in DOMAIN proc'[v].out : proc'[v].out[i].kind # "Ready"
        <4>1. up'[v] = up[v] \/ up'[v] = <<>>
          BY <2>3
        <4>2. inflight' = inflight /\ proc'[v].out = proc[v].out
          BY <1>4, <2>2
        <4> QED BY <4>1, <4>2, SocketsKept
      <3> QED BY <3>1 DEF ReadyIsFirst
    <2>7. SpawnedInOrder'
      BY <1>4, <2>2 DEF IInv, SpawnedInOrder, totals
    <2>8. OnePlacePerFile'
      BY <1>4 DEF IInv, OnePlacePerFile, InRange, totals, history
    <2>9. LiveWorkersIsExact'
      BY <1>4, <2>2 DEF IInv, LiveWorkersIsExact, totals
    <2> QED BY <2>1, <2>4, <2>5, <2>6, <2>7, <2>8, <2>9 DEF IInv
  <1> QED
    BY <1>3, <1>4 DEF OnGarbage

-----------------------------------------------------------------------------
(* drive.                                                                  *)

\* New processes in the slots that never had one.
LEMMA SpawnKeeps ==
    ASSUME IInv, NEW n \in 0..K, spawned_count <= n, SpawnUpTo(n),
           phase' \in {"start", "drive", "done", "exit1", "exit130"},
           phase' # "start"
    PROVE  IInv'
  <1> DEFINE new == spawned_count .. n - 1
             S == {v \in Workers : proc[v].at # "none"}
             T == {v \in Workers : proc'[v].at # "none"}
  <1>0. /\ K \in Nat /\ n \in Nat /\ spawned_count \in Nat
        /\ proc \in [Workers -> ProcessType] /\ alive \in [Workers -> BOOLEAN]
    BY Constants DEF IInv, SlotsTyped, WiresTyped
  <1>1. /\ new \subseteq Workers /\ IsFiniteSet(new)
        /\ Cardinality(new) \in Nat
    <2>1. new \subseteq Workers
      BY <1>0 DEF Workers
    <2>2. n - 1 \in Int /\ spawned_count \in Int
      BY <1>0
    <2>3. IsFiniteSet(new)
      BY <2>2, FS_Interval
    <2> QED BY <2>1, <2>3, FS_CardinalityType
  <1>2. /\ spawned_count' = n
        /\ live_workers' = live_workers + Cardinality(new)
        /\ alive' = [w \in Workers |-> w \in new \/ alive[w]]
        /\ proc' = [w \in Workers |-> IF w \in new THEN NewProcess ELSE proc[w]]
        /\ UNCHANGED <<range, inflight, ipc_done, files_done, fail, bailed,
                       bail, wires, history>>
    BY DEF SpawnUpTo
  <1>3. \A w \in new : proc[w].at = "none"
    BY <1>0, <1>1 DEF IInv, SpawnedInOrder
  <1>4. \A w \in Workers : w >= n => w >= spawned_count /\ w \notin new
    BY <1>0 DEF Workers
  <1> HIDE DEF new
  <1>5. /\ proc' \in [Workers -> ProcessType]
        /\ \A w \in Workers : proc'[w] = IF w \in new THEN NewProcess ELSE proc[w]
    BY <1>0, <1>2, Processes
  <1>6. SlotsTyped'
    <2>1. live_workers' \in Int
      BY <1>1, <1>2 DEF IInv, SlotsTyped
    <2>2. alive' \in [Workers -> BOOLEAN]
      BY <1>0, <1>2
    <2> QED BY <1>2, <2>1, <2>2 DEF IInv, SlotsTyped, history
  <1>7. WiresTyped'
    BY <1>2, <1>5, Processes DEF IInv, WiresTyped, wires
  <1>8. FreshIsClean'
    BY <1>2, <1>3, <1>5, Processes DEF IInv, FreshIsClean, wires
  <1>9. ReadyIsFirst'
    <2>1. ASSUME NEW v \in Workers
          PROVE  /\ \A i \in DOMAIN up'[v] :
                       up'[v][i].kind = "Ready" => i = 1 /\ inflight'[v] = None
                 /\ \A i \in DOMAIN proc'[v].out : proc'[v].out[i].kind # "Ready"
      <3>1. up' = up /\ inflight' = inflight
        BY <1>2 DEF wires
      <3>2. proc'[v].out = proc[v].out \/ proc'[v].out = <<>>
        BY <1>5, Processes
      <3> QED BY <3>1, <3>2, SocketsKept
    <2> QED BY <2>1 DEF ReadyIsFirst
  <1>10. SpawnedInOrder'
    BY <1>2, <1>4, <1>5 DEF IInv, SpawnedInOrder
  <1>11. OnePlacePerFile'
    BY <1>2 DEF IInv, OnePlacePerFile, InRange, history
  <1>12. LiveWorkersIsExact'
    <2>1. IsFiniteSet(S) /\ Cardinality(S) = live_workers /\ live_workers \in Int
      BY Constants, FS_Subset DEF IInv, LiveWorkersIsExact, SlotsTyped
    <2>2. T = S \cup new /\ S \cap new = {}
      BY <1>1, <1>3, <1>5, Processes
    <2> HIDE DEF S, T
    <2>3. Cardinality(S \cup new) =
            Cardinality(S) + Cardinality(new) - Cardinality(S \cap new)
      BY <1>1, <2>1, FS_Union
    <2>4. Cardinality(T) = live_workers + Cardinality(new)
      <3>1. Cardinality(S \cap new) = 0
        BY <2>2, FS_EmptySet
      <3>2. Cardinality(T) = Cardinality(S \cup new)
        BY <2>2
      <3> QED BY <1>1, <2>1, <2>3, <3>1, <3>2
    <2> QED BY <1>2, <2>4 DEF LiveWorkersIsExact, T
  <1> QED
    BY <1>6, <1>7, <1>8, <1>9, <1>10, <1>11, <1>12 DEF IInv

\* The first worker is spawned, or none.
LEMMA StartKeeps == ASSUME IInv, Start PROVE IInv'
  <1>1. K \in Nat /\ 2 <= K /\ spawned_count = 0
    BY Constants DEF IInv, SpawnedInOrder, Start
  <1>2. \/ SpawnUpTo(1) /\ phase' = "drive"
        \/ SpawnUpTo(0) /\ phase' = "exit1"
    BY DEF Start
  <1> QED
    BY <1>1, <1>2, SpawnKeeps

\* More workers are spawned, never more than K.
LEMMA ScaleUpKeeps == ASSUME IInv, phase = "drive", ScaleUp PROVE IInv'
  <1> DEFINE want == IF K < N - files_done THEN K ELSE N - files_done
  <1>1. /\ K \in Nat /\ N \in Nat /\ files_done \in Int /\ spawned_count \in 0..K
    BY Constants DEF IInv, SlotsTyped
  <1>2. want \in Int /\ want <= K
    BY <1>1
  <1>3. PICK n \in spawned_count..want :
           SpawnUpTo(n) /\ phase' \in {"exit1", "drive"}
    BY DEF ScaleUp
  <1> HIDE DEF want
  <1>4. n \in 0..K /\ spawned_count <= n
    BY <1>1, <1>2, <1>3
  <1> QED
    BY <1>3, <1>4, SpawnKeeps

\* The run is over: only the phase changes.
LEMMA OverKeeps ==
    ASSUME IInv, Finish \/ AbortAll PROVE IInv'
  <1>1. /\ UNCHANGED <<slots, totals, bail, proc, wires, history>>
        /\ phase' \in {"done", "exit130"}
    BY DEF Finish, AbortAll
  <1> QED
    BY <1>1 DEF IInv, WiresTyped, SlotsTyped, FreshIsClean, ReadyIsFirst,
                SpawnedInOrder, OnePlacePerFile, InRange, LiveWorkersIsExact,
                slots, totals, wires, history

-----------------------------------------------------------------------------
(* The invariant.                                                          *)

\* Every step keeps the invariant.
LEMMA NextKeeps == IInv /\ [Next]_vars => IInv'
  <1> SUFFICES ASSUME IInv, [Next]_vars PROVE IInv'
    OBVIOUS
  <1>1. CASE UNCHANGED vars
    BY <1>1 DEF vars, IInv, WiresTyped, SlotsTyped, FreshIsClean, ReadyIsFirst,
                SpawnedInOrder, OnePlacePerFile, InRange, LiveWorkersIsExact,
                slots, totals, wires, history
  <1>2. CASE Start
    BY <1>2, StartKeeps
  <1>3. CASE phase = "drive" /\ (ScaleUp \/ Finish \/ AbortAll)
    BY <1>3, ScaleUpKeeps, OverKeeps
  <1>4. ASSUME NEW w \in Workers, ProcessStep(w) PROVE IInv'
    <2>1. CASE ExitClean(w)
      BY <2>1, GoneKeeps DEF ExitClean
    <2> QED
      BY <1>4, <2>1, BootKeeps, ReceiveKeeps, StartFileKeeps, FinishFileKeeps,
         FlushOutKeeps, FlushAggregatesKeeps DEF ProcessStep
  <1>5. ASSUME NEW w \in Workers, Callback(w) PROVE IInv'
    BY <1>5, OnReadyKeeps, OnOtherFrameKeeps, OnFileDoneKeeps, OnGarbageKeeps,
       OnProcessExitKeeps, OnChannelCloseKeeps DEF Callback
  <1>6. ASSUME NEW w \in Workers, Die(w) \/ Killed(w) PROVE IInv'
    <2>1. proc[w].at # "none"
      BY <1>6 DEF Die, Killed, Running
    <2> QED BY <1>6, <2>1, GoneKeeps DEF Die, Killed
  <1>7. ASSUME NEW w \in Workers, WriteGarbage(w) PROVE IInv'
    BY <1>7, WriteGarbageKeeps
  <1> QED
    BY <1>1, <1>2, <1>3, <1>4, <1>5, <1>6, <1>7 DEF Next

\* IInv is an invariant of the coordinator and its workers.
THEOREM TestCoordinatorInvariant == Spec => []IInv
  BY InitIInv, NextKeeps, PTL DEF Spec

\* No interleaving of frames, exits, steals, respawns and aborts loses a file
\* or has it in two places, and files_done, by which drive() ends, is exact.
THEOREM TestFilesHaveOnePlace == Spec => []OnePlacePerFile
  <1>1. IInv => OnePlacePerFile
    BY DEF IInv
  <1> QED
    BY <1>1, TestCoordinatorInvariant, PTL

\* live_workers, for which drive() waits, counts the processes there are.
THEOREM TestWorkersAreCounted == Spec => []LiveWorkersIsExact
  <1>1. IInv => LiveWorkersIsExact
    BY DEF IInv
  <1> QED
    BY <1>1, TestCoordinatorInvariant, PTL

-----------------------------------------------------------------------------
(* TestCoordinator implements TestRunSpec, for any number of files and     *)
(* workers, any --bail and any number of faults.                           *)

\* Outcome, of any verdicts and files in flight.
Out(vd, infl, f) ==
    CASE vd[f] # None -> vd[f]
      [] \E w \in Workers : infl[w] = f -> "running"
      [] OTHER -> "queued"

\* Outcome is Out of the current verdicts and files in flight.
LEMMA OutcomeIsOut ==
    \A f \in Files : /\ Outcome(f) = Out(verdict, inflight, f)
                     /\ Outcome(f)' = Out(verdict', inflight', f)
  BY DEF Outcome, Out

\* The outcomes, by cases.
LEMMA OutCases ==
    ASSUME NEW rg, NEW infl, NEW vd, Placed(rg, infl, vd), NEW f \in Files
    PROVE  /\ Out(vd, infl, f) \in
                {"queued", "running", "pass", "fail", "crash", "aborted"}
           /\ vd[f] # None => Out(vd, infl, f) = vd[f]
           /\ (\E w \in Workers : infl[w] = f) <=> Out(vd, infl, f) = "running"
           /\ (\E w \in Workers : Holds(rg, w, f)) <=> Out(vd, infl, f) = "queued"
           /\ Out(vd, infl, f) \in {"queued", "running"} <=> vd[f] = None
  <1>1. vd[f] \in {None, "pass", "fail", "crash", "aborted"}
        /\ (vd[f] = None <=> \E w \in Workers : Holds(rg, w, f) \/ infl[w] = f)
        /\ f # None
    BY NoneAssumption DEF Placed
  <1>2. \A v, w \in Workers : infl[v] = f => ~Holds(rg, w, f)
    BY <1>1 DEF Placed
  <1>3. CASE vd[f] # None
    BY <1>1, <1>3 DEF Out
  <1>4. CASE vd[f] = None /\ \E w \in Workers : infl[w] = f
    BY <1>1, <1>2, <1>4 DEF Out
  <1>5. CASE vd[f] = None /\ ~\E w \in Workers : infl[w] = f
    BY <1>1, <1>5 DEF Out
  <1> QED
    BY <1>3, <1>4, <1>5

\* No more files are in flight than there are workers.
LEMMA InFlightBound ==
    ASSUME NEW infl \in [Workers -> Files \cup {None}], NEW S,
           \A f \in S : \E w \in Workers : infl[w] = f
    PROVE  Cardinality(S) <= K
  <1> DEFINE T == {infl[w] : w \in Workers}
  <1>1. infl \in Surjection(Workers, T)
    BY DEF Surjection
  <1>2. IsFiniteSet(T) /\ Cardinality(T) <= K
    BY <1>1, Constants, FS_Surjection
  <1>3. S \in SUBSET T
    OBVIOUS
  <1> HIDE DEF T
  <1>4. IsFiniteSet(S) /\ Cardinality(S) <= Cardinality(T)
    BY <1>2, <1>3, FS_Subset
  <1> QED
    BY <1>2, <1>4, FS_CardinalityType, Constants

\* A step on which every file moves on as it may is a step of TestRunSpec.
LEMMA MoveIsStep ==
    ASSUME IInv, IInv', phase \in {"start", "drive"}, UNCHANGED phase,
           \A f \in Files : Outcome(f)' \in TestRun!Successors(Outcome(f)),
           bailed => bailed' /\ \A f \in Files :
                        Outcome(f)' = "queued" <=> Outcome(f) = "queued"
    PROVE  TestRun!Step
  <1>1. Placed(range', inflight', verdict') /\ bailed' \in BOOLEAN
    BY DEF IInv, SlotsTyped, OnePlacePerFile, Placed, Holds, InRange
  <1>2. \A f \in Files :
           /\ Outcome(f)' \in TestRun!Outcomes
           /\ Outcome(f)' = "running" <=> \E w \in Workers : inflight'[w] = f
    BY <1>1, OutCases, OutcomeIsOut DEF TestRun!Outcomes, TestRun!Verdicts
  <1>3. \A S \in SUBSET Files :
           (\A f \in S : Outcome(f)' = "running") => Cardinality(S) <= K
    BY <1>1, <1>2, InFlightBound DEF Placed
  <1>4. Cardinality({f \in Files : Outcome(f)' = "running"}) <= K
    BY <1>3
  <1>5. [f \in Files |-> Outcome(f)'] \in [Files -> TestRun!Outcomes]
    BY <1>2
  <1>6. TestRun!Cardinality({f \in Files : Outcome(f)' = "running"}) <= K
    BY <1>4 DEF TestRun!Cardinality, Cardinality
  <1> QED
    BY <1>1, <1>5, <1>6 DEF TestRun!Step, TestRun!In

\* What the handlers do to the files, in terms of Out.
LEMMA OutTaken ==
    ASSUME NEW rg, NEW infl, NEW vd, Placed(rg, infl, vd),
           NEW w \in Workers, infl[w] = None,
           NEW f0 \in Files, NEW u \in Workers, Holds(rg, u, f0),
           NEW infl2, infl2[w] = f0,
           \A v \in Workers : v # w => infl2[v] = infl[v]
    PROVE  /\ Out(vd, infl, f0) = "queued"
           /\ \A f \in Files : Out(vd, infl2, f) =
                 IF f = f0 THEN "running" ELSE Out(vd, infl, f)
  <1>1. \A v \in Workers : infl2[v] = IF v = w THEN f0 ELSE infl[v]
    OBVIOUS
  <1>2. vd[f0] = None /\ Out(vd, infl, f0) = "queued"
    BY OutCases DEF Placed
  <1>3. ASSUME NEW f \in Files
        PROVE  Out(vd, infl2, f) = IF f = f0 THEN "running" ELSE Out(vd, infl, f)
    <2>1. CASE f = f0
      BY <1>1, <1>2, <2>1 DEF Out
    <2>2. CASE f # f0
      <3>1. (\E v \in Workers : infl2[v] = f) <=> \E v \in Workers : infl[v] = f
        BY <1>1, <2>2, NoneAssumption
      <3> QED BY <2>2, <3>1 DEF Out
    <2> QED BY <2>1, <2>2
  <1> QED
    BY <1>2, <1>3

\* A file in flight gets its verdict, the other outcomes stay.
LEMMA OutDone ==
    ASSUME NEW rg, NEW infl, NEW vd, Placed(rg, infl, vd),
           NEW w \in Workers, infl[w] # None,
           NEW infl2, infl2[w] = None,
           \A v \in Workers : v # w => infl2[v] = infl[v],
           NEW vd2, vd2[infl[w]] # None,
           \A f \in Files : f # infl[w] => vd2[f] = vd[f]
    PROVE  /\ Out(vd, infl, infl[w]) = "running"
           /\ \A f \in Files : Out(vd2, infl2, f) =
                 IF f = infl[w] THEN vd2[f] ELSE Out(vd, infl, f)
  <1>1. infl[w] \in Files
    BY DEF Placed
  <1>2. Out(vd, infl, infl[w]) = "running"
    BY <1>1, OutCases
  <1>3. ASSUME NEW f \in Files
        PROVE  Out(vd2, infl2, f) = IF f = infl[w] THEN vd2[f] ELSE Out(vd, infl, f)
    <2>1. CASE f = infl[w]
      <3>1. vd2[f] # None
        BY <2>1
      <3>2. ~\E v \in Workers : infl2[v] = f
        BY <2>1 DEF Placed
      <3> QED BY <2>1, <3>1, <3>2 DEF Out
    <2>2. CASE f # infl[w]
      <3>1. (\E v \in Workers : infl2[v] = f) <=> \E v \in Workers : infl[v] = f
        BY <2>2, NoneAssumption
      <3> QED BY <2>2, <3>1 DEF Out
    <2> QED BY <2>1, <2>2
  <1> QED
    BY <1>2, <1>3

\* A handler that assigns work: what it took from a range starts to run.
LEMMA AssignMoves ==
    ASSUME NEW infl, NEW vd, Placed(range, infl, vd),
           NEW w \in Workers, infl[w] = None,
           GivenTo(w, infl, inflight')
    PROVE  \A f \in Files :
             \/ Out(vd, inflight', f) = Out(vd, infl, f)
             \/ /\ Out(vd, infl, f) = "queued"
                /\ Out(vd, inflight', f) = "running"
  <1>1. CASE inflight' = infl
    BY <1>1
  <1>2. ASSUME NEW f0 \in Files, NEW u \in Workers, Holds(range, u, f0),
               inflight'[w] = f0,
               \A v \in Workers : v # w => inflight'[v] = infl[v]
        PROVE  \A f \in Files :
                 \/ Out(vd, inflight', f) = Out(vd, infl, f)
                 \/ /\ Out(vd, infl, f) = "queued"
                    /\ Out(vd, inflight', f) = "running"
    <2>1. /\ Out(vd, infl, f0) = "queued"
          /\ \A f \in Files : Out(vd, inflight', f) =
                IF f = f0 THEN "running" ELSE Out(vd, infl, f)
      BY <1>2, OutTaken
    <2> QED BY <2>1
  <1> QED
    BY <1>1, <1>2 DEF GivenTo

\* How a file may go on.
LEMMA Moves ==
    /\ TestRun!Successors("queued") = {"queued", "running", "aborted"}
    /\ TestRun!Successors("running") = {"running", "pass", "fail", "crash"}
    /\ \A o : o \in TestRun!Successors(o)
  BY DEF TestRun!Successors

\* OnReady starts a file, unless the run has been stopped.
LEMMA OnReadyRefines ==
    ASSUME IInv, IInv', phase = "drive", NEW w \in Workers, OnReady(w)
    PROVE  TestRun!Step
  <1>1. inflight[w] = None
    <2>1. up[w] # <<>> /\ Head(up[w]).kind = "Ready"
      BY DEF OnReady, Frame
    <2>2. 1 \in DOMAIN up[w] /\ up[w][1].kind = "Ready"
      BY <2>1, SocketsKept
    <2> QED BY <2>2, SocketsKept
  <1>2. /\ AssignWork(w, bailed, inflight, down)
        /\ UNCHANGED <<bailed, verdict, phase>>
    BY DEF OnReady, totals, history
  <1>3. down \in [Workers -> Seq(DownFrames)] /\ bailed \in BOOLEAN
    BY DEF IInv, WiresTyped, SlotsTyped
  <1>4. GivenTo(w, inflight, inflight')
    <2>1. Placed(range, inflight, verdict) /\ AssignWork(w, bailed, inflight, down)
      BY <1>2, Places
    <2> QED BY <1>1, <1>3, <2>1, AssignPlaced
  <1>5. \A f \in Files :
          \/ Out(verdict, inflight', f) = Out(verdict, inflight, f)
          \/ /\ Out(verdict, inflight, f) = "queued"
             /\ Out(verdict, inflight', f) = "running"
    BY <1>1, <1>4, Places, AssignMoves
  <1>6. \A f \in Files :
          \/ Outcome(f)' = Outcome(f)
          \/ Outcome(f) = "queued" /\ Outcome(f)' = "running"
    BY <1>2, <1>5, OutcomeIsOut
  <1>7. \A f \in Files : Outcome(f)' \in TestRun!Successors(Outcome(f))
    BY <1>6, Moves
  <1>8. ASSUME bailed
        PROVE  \A f \in Files : Outcome(f)' = Outcome(f)
    <2>1. inflight' = inflight
      BY <1>2, <1>8 DEF AssignWork, NoMoreWork
    <2> QED BY <1>2, <2>1, OutcomeIsOut
  <1> QED
    BY <1>2, <1>7, <1>8, MoveIsStep

\* OnFileDone ends a file and may start another.
LEMMA OnFileDoneRefines ==
    ASSUME IInv, IInv', phase = "drive", NEW w \in Workers, OnFileDone(w)
    PROVE  TestRun!Step
  <1> DEFINE m == Head(up[w])
             fails == fail + (IF m.failed THEN 1 ELSE 0)
             stop == bailed \/ BailsAt(fails)
             infl == [inflight EXCEPT ![w] = None]
             dn == IF BailsAt(fails) THEN ShutdownIdle(infl, None) ELSE down
             vd == [verdict EXCEPT ![m.file] = IF m.failed THEN "fail" ELSE "pass"]
  <1>0. /\ down \in [Workers -> Seq(DownFrames)] /\ bailed \in BOOLEAN
        /\ inflight \in [Workers -> Files \cup {None}]
        /\ verdict \in [Files -> {None, "pass", "fail", "crash", "aborted"}]
        /\ UNCHANGED phase
    BY DEF IInv, WiresTyped, SlotsTyped, OnFileDone
  <1>1. up[w] # <<>> /\ m.kind = "FileDone"
    BY DEF OnFileDone, Frame
  <1>2. m.file \in Files
    <2>1. m \in UpFrames
      BY <1>1, SocketsKept
    <2> QED BY <1>1, <2>1, Frames
  <1>3. CASE inflight[w] # m.file
    <2>1. UNCHANGED <<inflight, verdict, bailed>>
      BY <1>3 DEF OnFileDone, slots, totals
    <2>2. \A f \in Files : Outcome(f)' = Outcome(f)
      BY <2>1, OutcomeIsOut
    <2> QED BY <1>0, <2>1, <2>2, Moves, MoveIsStep
  <1>4. CASE inflight[w] = m.file
    <2>1. /\ verdict' = vd /\ bailed' = stop
          /\ IF alive[w] THEN AssignWork(w, stop, infl, dn) ELSE inflight' = infl
      BY <1>4 DEF OnFileDone
    <2>2. inflight[w] # None
      BY <1>2, <1>4, NoneAssumption
    <2>3. /\ infl \in [Workers -> Files \cup {None}] /\ infl[w] = None
          /\ \A v \in Workers : v # w => infl[v] = inflight[v]
          /\ dn \in [Workers -> Seq(DownFrames)] /\ stop \in BOOLEAN
      BY <1>0, ShutdownTyped
    <2>4. /\ vd \in [Files -> {None, "pass", "fail", "crash", "aborted"}]
          /\ vd[m.file] \in {"pass", "fail"} /\ vd[m.file] # None
          /\ \A f \in Files : f # m.file => vd[f] = verdict[f]
      BY <1>0, <1>2, NoneAssumption
    <2> HIDE DEF infl, vd, m, stop, dn
    <2>5. Placed(range, infl, vd)
      <3>1. /\ vd[inflight[w]] # None
            /\ \A f \in Files : f # inflight[w] => vd[f] = verdict[f]
        BY <1>4, <2>4
      <3>2. /\ vd \in [Files -> {None, "pass", "fail", "crash", "aborted"}]
            /\ infl \in [Workers -> Files \cup {None}] /\ infl[w] = None
            /\ \A v \in Workers : v # w => infl[v] = inflight[v]
            /\ Placed(range, inflight, verdict)
        BY <2>3, <2>4, Places
      <3> QED BY <2>2, <3>1, <3>2, DonePlaced
    <2>6. /\ Out(verdict, inflight, m.file) = "running"
          /\ \A f \in Files : Out(vd, infl, f) =
                IF f = m.file THEN vd[f] ELSE Out(verdict, inflight, f)
      <3>1. /\ vd[inflight[w]] # None
            /\ \A f \in Files : f # inflight[w] => vd[f] = verdict[f]
        BY <1>4, <2>4
      <3>2. /\ infl[w] = None
            /\ \A v \in Workers : v # w => infl[v] = inflight[v]
            /\ Placed(range, inflight, verdict)
        BY <2>3, Places
      <3>3. /\ Out(verdict, inflight, inflight[w]) = "running"
            /\ \A f \in Files : Out(vd, infl, f) =
                  IF f = inflight[w] THEN vd[f] ELSE Out(verdict, inflight, f)
        BY <2>2, <3>1, <3>2, OutDone
      <3> QED BY <1>4, <3>3
    <2>7. \A f \in Files :
            \/ Out(vd, inflight', f) = Out(vd, infl, f)
            \/ /\ Out(vd, infl, f) = "queued"
               /\ Out(vd, inflight', f) = "running"
      <3>1. GivenTo(w, infl, inflight')
        <4>1. CASE alive[w]
          BY <2>1, <2>3, <2>5, <4>1, AssignPlaced
        <4>2. CASE ~alive[w]
          BY <2>1, <4>2 DEF GivenTo
        <4> QED BY <4>1, <4>2
      <3> QED BY <2>3, <2>5, <3>1, AssignMoves
    <2>8. ASSUME NEW f \in Files
          PROVE  \/ Outcome(f)' = Outcome(f)
                 \/ Outcome(f) = "running" /\ Outcome(f)' \in {"pass", "fail"}
                 \/ Outcome(f) = "queued" /\ Outcome(f)' = "running"
      <3>1. /\ Outcome(f) = Out(verdict, inflight, f)
            /\ Outcome(f)' = Out(vd, inflight', f)
        BY <2>1, OutcomeIsOut
      <3>2. CASE f = m.file
        BY <2>4, <2>6, <2>7, <3>1, <3>2
      <3>3. CASE f # m.file
        BY <2>6, <2>7, <3>1, <3>3
      <3> QED BY <3>2, <3>3
    <2>9. \A f \in Files : Outcome(f)' \in TestRun!Successors(Outcome(f))
      BY <2>8, Moves
    <2>10. ASSUME bailed
           PROVE  bailed' /\ \A f \in Files :
                     Outcome(f)' = "queued" <=> Outcome(f) = "queued"
      <3>1. stop
        BY <2>10 DEF stop
      <3>2. inflight' = infl
        BY <2>1, <3>1 DEF AssignWork, NoMoreWork
      <3>3. ASSUME NEW f \in Files
            PROVE  Outcome(f)' = "queued" <=> Outcome(f) = "queued"
        <4>1. /\ Outcome(f) = Out(verdict, inflight, f)
              /\ Outcome(f)' = Out(vd, infl, f)
          BY <2>1, <3>2, OutcomeIsOut
        <4>2. CASE f = m.file
          BY <2>4, <2>6, <4>1, <4>2
        <4>3. CASE f # m.file
          BY <2>6, <4>1, <4>3
        <4> QED BY <4>2, <4>3
      <3> QED BY <2>1, <3>1, <3>3
    <2> QED BY <1>0, <2>9, <2>10, MoveIsStep
  <1> QED
    BY <1>3, <1>4


\* A reaped worker's file ends in a crash, the queue may be given up, and
\* neither happens to a file that has its verdict.
LEMMA ReapRefines ==
    ASSUME IInv, IInv', phase = "drive", NEW w \in Workers, NEW status,
           Reap(w, status)
    PROVE  TestRun!Step
  <1> DEFINE crashed == inflight[w] # None
             fails == fail + (IF crashed THEN 1 ELSE 0)
             bails == crashed /\ BailsAt(fails)
             panics == crashed /\ status = "panic"
             stop == bailed \/ bails \/ panics
             aborted(r) == IF (panics /\ ~bailed /\ ~bails) \/ LastOneGone(stop, r)
                           THEN Undispatched ELSE {}
             infl == InflightAfterReap(w)
             vd == [f \in Files |-> IF f = inflight[w] THEN "crash" ELSE verdict[f]]
  <1>1. PICK respawned \in BOOLEAN :
          /\ verdict' = [f \in Files |->
                            CASE f = inflight[w] -> "crash"
                              [] f \in aborted(respawned) -> "aborted"
                              [] OTHER -> verdict[f]]
          /\ bailed' = stop /\ inflight' = infl /\ UNCHANGED phase
    BY DEF Reap
  <1> DEFINE gone == aborted(respawned)
  <1>2. gone = {} \/ (gone = Undispatched /\ ~bailed)
    BY DEF LastOneGone
  <1>3. verdict' = [f \in Files |->
                       CASE f = inflight[w] -> "crash"
                         [] f \in gone -> "aborted"
                         [] OTHER -> verdict[f]]
    BY <1>1
  <1>4. bailed => bailed'
    BY <1>1
  <1>5. /\ inflight \in [Workers -> Files \cup {None}]
        /\ verdict \in [Files -> {None, "pass", "fail", "crash", "aborted"}]
        /\ \A f \in Files : vd[f] = IF f = inflight[w] THEN "crash" ELSE verdict[f]
    BY DEF IInv, SlotsTyped
  <1>6. Placed(range, infl, vd)
    BY CrashPlaced
  <1>7. /\ infl[w] = None
        /\ \A v \in Workers : v # w => infl[v] = inflight[v]
    BY <1>5 DEF InflightAfterReap
  <1>8. /\ Undispatched \subseteq Files
        /\ \A f \in Files :
             f \in Undispatched <=> \E v \in Workers : Holds(range, v, f)
    BY Places, UndispatchedFiles
  <1> HIDE DEF gone, aborted, stop, infl, vd
  <1>9. \A f \in Undispatched : f # inflight[w]
    BY <1>8, Places, NoneAssumption DEF Placed
  <1>10. \A f \in Files : verdict'[f] = IF f \in gone THEN "aborted" ELSE vd[f]
    BY <1>2, <1>3, <1>5, <1>9
  <1>11. \A f \in Files :
            \/ Out(vd, infl, f) = Out(verdict, inflight, f)
            \/ Out(verdict, inflight, f) = "running" /\ Out(vd, infl, f) = "crash"
    <2>1. CASE crashed
      <3>1. /\ inflight[w] \in Files
            /\ vd[inflight[w]] = "crash" /\ vd[inflight[w]] # None
            /\ \A f \in Files : f # inflight[w] => vd[f] = verdict[f]
        BY <1>5, <2>1, NoneAssumption
      <3>2. /\ Out(verdict, inflight, inflight[w]) = "running"
            /\ \A f \in Files : Out(vd, infl, f) =
                  IF f = inflight[w] THEN vd[f] ELSE Out(verdict, inflight, f)
        BY <1>7, <2>1, <3>1, Places, OutDone
      <3> QED BY <3>1, <3>2
    <2>2. CASE ~crashed
      <3>1. \A f \in Files : vd[f] = verdict[f]
        BY <1>5, <2>2, NoneAssumption
      <3>2. \A v \in Workers : infl[v] = inflight[v]
        BY <1>7, <2>2
      <3> QED BY <3>1, <3>2 DEF Out
    <2> QED BY <2>1, <2>2
  <1>12. ASSUME NEW f \in Files
         PROVE  \/ Out(verdict', infl, f) = Out(vd, infl, f)
                \/ /\ ~bailed /\ Out(vd, infl, f) = "queued"
                   /\ Out(verdict', infl, f) = "aborted"
    <2>1. CASE f \in gone
      <3>1. ~bailed /\ \E v \in Workers : Holds(range, v, f)
        BY <1>2, <1>8, <2>1
      <3>2. Out(vd, infl, f) = "queued"
        BY <1>6, <3>1, OutCases
      <3>3. \A v \in Workers : infl[v] # f
        BY <1>6, <3>1, NoneAssumption DEF Placed
      <3>4. verdict'[f] = "aborted" /\ verdict'[f] # None
        BY <1>10, <2>1, NoneAssumption
      <3>5. Out(verdict', infl, f) = "aborted"
        BY <3>3, <3>4 DEF Out
      <3> QED BY <3>1, <3>2, <3>5
    <2>2. CASE f \notin gone
      BY <1>10, <2>2 DEF Out
    <2> QED BY <2>1, <2>2
  <1>13. ASSUME NEW f \in Files
         PROVE  \/ Outcome(f)' = Outcome(f)
                \/ Outcome(f) = "running" /\ Outcome(f)' = "crash"
                \/ ~bailed /\ Outcome(f) = "queued" /\ Outcome(f)' = "aborted"
    <2>1. /\ Outcome(f) = Out(verdict, inflight, f)
          /\ Outcome(f)' = Out(verdict', infl, f)
      BY <1>1, OutcomeIsOut
    <2> QED BY <1>11, <1>12, <2>1
  <1>14. \A f \in Files : Outcome(f)' \in TestRun!Successors(Outcome(f))
    BY <1>13, Moves
  <1>15. ASSUME bailed
         PROVE  \A f \in Files : Outcome(f)' = "queued" <=> Outcome(f) = "queued"
    BY <1>13, <1>15
  <1> QED
    BY <1>1, <1>4, <1>14, <1>15, MoveIsStep

\* The mapped variables stay as they are.
LEMMA QuietStutters ==
    ASSUME UNCHANGED <<verdict, inflight, bailed, phase>>
    PROVE  UNCHANGED TestRun!specVars
  <1>1. \A f \in Files : Outcome(f)' = Outcome(f)
    BY OutcomeIsOut
  <1>2. [f \in Files |-> Outcome(f)]' = [f \in Files |-> Outcome(f)]
    BY <1>1
  <1> QED
    BY <1>2 DEF TestRun!specVars

\* The coordinator is killed, or exits.
LEMMA KillRefines ==
    ASSUME UNCHANGED <<verdict, inflight, bailed>>,
           phase \in {"start", "drive"}, phase' \in {"exit1", "exit130"}
    PROVE  TestRun!Kill
  <1>1. \A f \in Files : Outcome(f)' = Outcome(f)
    BY OutcomeIsOut
  <1>2. [f \in Files |-> Outcome(f)]' = [f \in Files |-> Outcome(f)]
    BY <1>1
  <1> QED
    BY <1>2 DEF TestRun!Kill

\* The run ends only when no file runs, and none is queued unless stopped.
LEMMA FinishRefines ==
    ASSUME IInv, phase = "drive", Finish PROVE TestRun!Finish
  <1>1. UNCHANGED <<verdict, inflight, bailed>> /\ phase' = "done"
        /\ live_workers = 0 /\ (files_done >= N \/ bailed)
    BY DEF Finish, IsDone, slots, totals, history
  <1>2. \A f \in Files : Outcome(f)' = Outcome(f)
    BY <1>1, OutcomeIsOut
  <1>3. [f \in Files |-> Outcome(f)]' = [f \in Files |-> Outcome(f)]
    BY <1>2
  <1>4. \A w \in Workers : inflight[w] = None
    <2> DEFINE S == {w \in Workers : proc[w].at # "none"}
    <2>1. IsFiniteSet(S) /\ Cardinality(S) = 0
      BY <1>1, Constants, FS_Subset DEF IInv, LiveWorkersIsExact
    <2>2. S = {}
      BY <2>1, FS_EmptySet
    <2> QED BY <2>2 DEF IInv, FreshIsClean
  <1>5. \A f \in Files : Outcome(f) # "running"
    <2>1. \A f \in Files : ~\E w \in Workers : inflight[w] = f
      BY <1>4, NoneAssumption
    <2> QED BY <2>1, Places, OutCases, OutcomeIsOut
  <1>6. bailed \/ \A f \in Files : Outcome(f) # "queued"
    <2>1. SUFFICES ASSUME files_done >= N
                   PROVE  \A f \in Files : Outcome(f) # "queued"
      BY <1>1
    <2>2. DoneFiles(verdict) \in SUBSET Files
      BY DEF DoneFiles
    <2>3. /\ Cardinality(DoneFiles(verdict)) <= Cardinality(Files)
          /\ Cardinality(Files) = Cardinality(DoneFiles(verdict))
                => Files = DoneFiles(verdict)
      BY <2>2, Constants, FS_Subset
    <2>4. Files = DoneFiles(verdict)
      BY <2>1, <2>3, Places, Constants
    <2>5. \A f \in Files : verdict[f] # None
      BY <2>4 DEF DoneFiles
    <2> QED BY <2>5, Places, OutCases, OutcomeIsOut
  <1> QED
    BY <1>1, <1>3, <1>5, <1>6 DEF TestRun!Finish, TestRun!In

\* Every step of the coordinator and its workers is one of TestRunSpec.
LEMMA NextRefines == IInv /\ IInv' /\ [Next]_vars => [TestRun!Next]_TestRun!specVars
  <1> SUFFICES ASSUME IInv, IInv', [Next]_vars
               PROVE  [TestRun!Next]_TestRun!specVars
    OBVIOUS
  <1>1. CASE UNCHANGED vars
    BY <1>1, QuietStutters DEF vars, slots, totals, history
  <1>2. CASE Start
    <2>1. phase = "start" /\ UNCHANGED <<inflight, bailed, verdict>>
          /\ phase' \in {"drive", "exit1"}
      BY <1>2 DEF Start, SpawnUpTo, history
    <2>2. CASE phase' = "exit1"
      BY <2>1, <2>2, KillRefines DEF TestRun!Next
    <2>3. CASE phase' = "drive"
      <3>1. \A f \in Files : Outcome(f)' = Outcome(f)
        BY <2>1, OutcomeIsOut
      <3>2. [f \in Files |-> Outcome(f)]' = [f \in Files |-> Outcome(f)]
        BY <3>1
      <3> QED BY <2>1, <2>3, <3>2 DEF TestRun!specVars
    <2> QED BY <2>1, <2>2, <2>3
  <1>3. CASE phase = "drive" /\ ScaleUp
    <2>1. UNCHANGED <<inflight, bailed, verdict>> /\ phase' \in {"drive", "exit1"}
      BY <1>3 DEF ScaleUp, SpawnUpTo, history
    <2> QED BY <1>3, <2>1, KillRefines, QuietStutters DEF TestRun!Next
  <1>4. CASE phase = "drive" /\ Finish
    BY <1>4, FinishRefines DEF TestRun!Next
  <1>5. CASE phase = "drive" /\ AbortAll
    <2>1. UNCHANGED <<inflight, bailed, verdict>> /\ phase' = "exit130"
      BY <1>5 DEF AbortAll, slots, totals, history
    <2> QED BY <1>5, <2>1, KillRefines DEF TestRun!Next
  <1>6. ASSUME NEW w \in Workers, phase = "drive", ProcessStep(w)
        PROVE  [TestRun!Next]_TestRun!specVars
    <2>1. UNCHANGED <<inflight, bailed, verdict, phase>>
      BY <1>6 DEF ProcessStep, Boot, Receive, StartFile, FinishFile, FlushOut,
                  FlushAggregates, ExitClean, Gone, slots, totals, history
    <2> QED BY <2>1, QuietStutters
  <1>7. ASSUME NEW w \in Workers, phase = "drive",
               Die(w) \/ Killed(w) \/ WriteGarbage(w)
        PROVE  [TestRun!Next]_TestRun!specVars
    <2>1. UNCHANGED <<inflight, bailed, verdict, phase>>
      BY <1>7 DEF Die, Killed, WriteGarbage, Gone, slots, totals, history
    <2> QED BY <2>1, QuietStutters
  <1>8. ASSUME NEW w \in Workers, phase = "drive", OnFileStart(w) \/ OnAggregates(w)
        PROVE  [TestRun!Next]_TestRun!specVars
    <2>1. UNCHANGED <<inflight, bailed, verdict, phase>>
      BY <1>8 DEF OnFileStart, OnAggregates, slots, totals, history
    <2> QED BY <2>1, QuietStutters
  <1>9. ASSUME NEW w \in Workers, phase = "drive", OnReady(w) \/ OnFileDone(w)
        PROVE  [TestRun!Next]_TestRun!specVars
    BY <1>9, OnReadyRefines, OnFileDoneRefines DEF TestRun!Next
  <1>10. ASSUME NEW w \in Workers, phase = "drive",
                OnProcessExit(w) \/ OnChannelClose(w) \/ OnGarbage(w)
         PROVE  [TestRun!Next]_TestRun!specVars
    <2>1. ASSUME NEW status, Reap(w, status)
          PROVE  [TestRun!Next]_TestRun!specVars
      BY <1>10, <2>1, ReapRefines DEF TestRun!Next
    <2>2. CASE UNCHANGED <<inflight, bailed, verdict, phase>>
      BY <2>2, QuietStutters
    <2>3. CASE OnProcessExit(w)
      BY <2>1, <2>2, <2>3 DEF OnProcessExit, totals, history
    <2>4. CASE OnChannelClose(w)
      BY <2>1, <2>2, <2>4 DEF OnChannelClose, totals, history
    <2>5. CASE OnGarbage(w)
      BY <2>1, <2>2, <2>5 DEF OnGarbage, totals, history
    <2> QED BY <1>10, <2>3, <2>4, <2>5
  <1> QED
    BY <1>1, <1>2, <1>3, <1>4, <1>5, <1>6, <1>7, <1>8, <1>9, <1>10
    DEF Next, Callback

\* `bun test --parallel` keeps the promise of TestRunSpec for any number of
\* files and workers: no file is started twice or after the run was stopped,
\* verdicts are final, and the run ends only when nothing runs and nothing
\* is left to start.
THEOREM TestCoordinatorImplementsTestRun == Spec => ImplementsTestRun
  <1>1. Init => TestRun!Init
    <2> SUFFICES ASSUME Init PROVE TestRun!Init
      OBVIOUS
    <2>1. \A f \in Files : Outcome(f) = "queued"
      <3>1. \A f \in Files : verdict[f] = None /\ ~\E w \in Workers : inflight[w] = f
        BY NoneAssumption DEF Init
      <3> QED BY <3>1 DEF Outcome
    <2>2. phase = "start" /\ bailed = FALSE
      BY DEF Init
    <2> QED BY <2>1, <2>2 DEF TestRun!Init
  <1> QED
    BY <1>1, NextRefines, TestCoordinatorInvariant, PTL
    DEF Spec, ImplementsTestRun, TestRun!Spec

-----------------------------------------------------------------------------
(* The coordinator and its workers agree on who has which file.            *)

\* Is there a frame of that kind in the queue; and if so, is there one only,
\* about file f?
Carries(q, kind) == \E i \in DOMAIN q : q[i].kind = kind
Once(q, kind, f) ==
    \A i \in DOMAIN q : q[i].kind = kind =>
        q[i].file = f /\ \A j \in DOMAIN q : q[j].kind = kind => j = i

\* InflightAgrees without the count, of any file in flight, commands on the way,
\* process and results on the way: the file is in one of five places.
Agrees(f, d, p, u) ==
    /\ Once(d, "Run", f) /\ Once(p.out, "FileDone", f) /\ Once(u, "FileDone", f)
    /\ p.pending \in {None, f} /\ p.file \in {None, f}
    /\ Carries(d, "Run") => p.pending = None
    /\ Carries(d, "Run") \/ p.pending # None => p.file = None
    /\ Carries(d, "Run") \/ p.pending # None \/ p.file # None =>
         ~Carries(p.out, "FileDone")
    /\ (\/ Carries(d, "Run") \/ p.pending # None \/ p.file # None
        \/ Carries(p.out, "FileDone")) => ~Carries(u, "FileDone")

\* The file is somewhere.
HasFile(d, p, u) ==
    \/ Carries(d, "Run") \/ p.pending # None \/ p.file # None
    \/ Carries(p.out, "FileDone") \/ Carries(u, "FileDone")

\* It is somewhere unless the process or the channel is gone, or will be when
\* the coordinator comes to what is no frame.
OneFile(f, d, p, u, done) ==
    /\ Agrees(f, d, p, u)
    /\ ~done /\ p.at \notin {"none", "gone"} /\ ~Carries(u, "Garbage") /\ f # None
         => HasFile(d, p, u)
    /\ p.at # "run" => p.file = None

AInv == \A w \in Workers :
            OneFile(inflight[w], down[w], proc[w], up[w], ipc_done[w])

\* Frames that are written at the end of a queue, and read from its front.
LEMMA WrittenUp ==
    ASSUME NEW s \in Seq(UpFrames), NEW m \in UpFrames, NEW kind, NEW f
    PROVE  /\ Append(s, m) \in Seq(UpFrames)
           /\ Carries(Append(s, m), kind) <=> Carries(s, kind) \/ m.kind = kind
           /\ m.kind # kind /\ Once(s, kind, f) => Once(Append(s, m), kind, f)
           /\ ~Carries(s, kind) /\ m.file = f => Once(Append(s, m), kind, f)
  <1>1. /\ Append(s, m) \in Seq(UpFrames)
        /\ Len(Append(s, m)) = Len(s) + 1 /\ Len(s) \in Nat
        /\ DOMAIN s = 1..Len(s) /\ DOMAIN Append(s, m) = 1..Len(s) + 1
        /\ Append(s, m)[Len(s) + 1] = m
        /\ \A i \in 1..Len(s) : Append(s, m)[i] = s[i]
    OBVIOUS
  <1> DEFINE t == Append(s, m)
  <1> HIDE DEF t
  <1>2. /\ Len(s) \in Nat /\ DOMAIN s = 1..Len(s) /\ DOMAIN t = 1..Len(s) + 1
        /\ t[Len(s) + 1] = m /\ \A i \in 1..Len(s) : t[i] = s[i]
    BY <1>1 DEF t
  <1>3. Carries(t, kind) <=> Carries(s, kind) \/ m.kind = kind
    <2>1. \A i \in 1..Len(s) + 1 : i \in 1..Len(s) \/ i = Len(s) + 1
      BY <1>2
    <2>2. \A i \in 1..Len(s) : i \in 1..Len(s) + 1
      BY <1>2
    <2>3. Len(s) + 1 \in 1..Len(s) + 1
      BY <1>2
    <2> QED BY <1>2, <2>1, <2>2, <2>3 DEF Carries
  <1>4. m.kind # kind /\ Once(s, kind, f) => Once(t, kind, f)
    BY <1>2 DEF Once
  <1>5. ~Carries(s, kind) /\ m.file = f => Once(t, kind, f)
    BY <1>2 DEF Once, Carries
  <1> QED BY <1>1, <1>3, <1>4, <1>5 DEF t

\* A frame is read from the front of a queue to the coordinator.
LEMMA ReadUp ==
    ASSUME NEW s \in Seq(UpFrames), s # <<>>, NEW kind, NEW f
    PROVE  /\ Tail(s) \in Seq(UpFrames) /\ Head(s) \in UpFrames
           /\ Carries(s, kind) <=> Carries(Tail(s), kind) \/ Head(s).kind = kind
           /\ Once(s, kind, f) =>
                /\ Once(Tail(s), kind, f)
                /\ Head(s).kind = kind =>
                     Head(s).file = f /\ ~Carries(Tail(s), kind)
  <1> DEFINE t == Tail(s)
  <1>1. /\ t \in Seq(UpFrames) /\ Head(s) \in UpFrames
        /\ Len(s) \in Nat /\ Len(s) >= 1 /\ Len(t) = Len(s) - 1
        /\ DOMAIN s = 1..Len(s) /\ DOMAIN t = 1..Len(t)
        /\ Head(s) = s[1] /\ \A i \in 1..Len(t) : t[i] = s[i + 1]
    OBVIOUS
  <1> HIDE DEF t
  <1>2. /\ 1 \in DOMAIN s
        /\ \A i \in DOMAIN t : i + 1 \in DOMAIN s /\ t[i] = s[i + 1] /\ i + 1 # 1
        /\ \A i \in DOMAIN s : i # 1 => i - 1 \in DOMAIN t /\ t[i - 1] = s[i]
        /\ \A i, j \in DOMAIN t : i + 1 = j + 1 => i = j
    BY <1>1
  <1>3. Carries(s, kind) <=> Carries(t, kind) \/ Head(s).kind = kind
    <2>1. ASSUME Carries(s, kind), Head(s).kind # kind PROVE Carries(t, kind)
      <3>1. PICK i \in DOMAIN s : s[i].kind = kind
        BY <2>1 DEF Carries
      <3>2. i - 1 \in DOMAIN t /\ t[i - 1].kind = kind
        BY <1>1, <1>2, <2>1, <3>1
      <3> QED BY <3>2 DEF Carries
    <2>2. ASSUME Carries(t, kind) PROVE Carries(s, kind)
      <3>1. PICK i \in DOMAIN t : t[i].kind = kind
        BY <2>2 DEF Carries
      <3> QED BY <1>2, <3>1 DEF Carries
    <2>3. Head(s).kind = kind => Carries(s, kind)
      BY <1>1, <1>2 DEF Carries
    <2> QED BY <2>1, <2>2, <2>3
  <1>4. Once(s, kind, f) => Once(t, kind, f)
    BY <1>1, <1>2 DEF Once
  <1>5. Once(s, kind, f) /\ Head(s).kind = kind =>
            Head(s).file = f /\ ~Carries(t, kind)
    BY <1>1, <1>2 DEF Once, Carries
  <1> QED BY <1>1, <1>3, <1>4, <1>5 DEF t

\* A frame is written at the end of a queue to a process.
LEMMA WrittenDown ==
    ASSUME NEW s \in Seq(DownFrames), NEW m \in DownFrames, NEW kind, NEW f
    PROVE  /\ Append(s, m) \in Seq(DownFrames)
           /\ Carries(Append(s, m), kind) <=> Carries(s, kind) \/ m.kind = kind
           /\ m.kind # kind /\ Once(s, kind, f) => Once(Append(s, m), kind, f)
           /\ ~Carries(s, kind) /\ m.file = f => Once(Append(s, m), kind, f)
  <1>1. /\ Append(s, m) \in Seq(DownFrames)
        /\ Len(Append(s, m)) = Len(s) + 1 /\ Len(s) \in Nat
        /\ DOMAIN s = 1..Len(s) /\ DOMAIN Append(s, m) = 1..Len(s) + 1
        /\ Append(s, m)[Len(s) + 1] = m
        /\ \A i \in 1..Len(s) : Append(s, m)[i] = s[i]
    OBVIOUS
  <1> DEFINE t == Append(s, m)
  <1> HIDE DEF t
  <1>2. /\ Len(s) \in Nat /\ DOMAIN s = 1..Len(s) /\ DOMAIN t = 1..Len(s) + 1
        /\ t[Len(s) + 1] = m /\ \A i \in 1..Len(s) : t[i] = s[i]
    BY <1>1 DEF t
  <1>3. Carries(t, kind) <=> Carries(s, kind) \/ m.kind = kind
    <2>1. \A i \in 1..Len(s) + 1 : i \in 1..Len(s) \/ i = Len(s) + 1
      BY <1>2
    <2>2. \A i \in 1..Len(s) : i \in 1..Len(s) + 1
      BY <1>2
    <2>3. Len(s) + 1 \in 1..Len(s) + 1
      BY <1>2
    <2> QED BY <1>2, <2>1, <2>2, <2>3 DEF Carries
  <1>4. m.kind # kind /\ Once(s, kind, f) => Once(t, kind, f)
    BY <1>2 DEF Once
  <1>5. ~Carries(s, kind) /\ m.file = f => Once(t, kind, f)
    BY <1>2 DEF Once, Carries
  <1> QED BY <1>1, <1>3, <1>4, <1>5 DEF t

\* A frame is read from the front of a queue to a process.
LEMMA ReadDown ==
    ASSUME NEW s \in Seq(DownFrames), s # <<>>, NEW kind, NEW f
    PROVE  /\ Tail(s) \in Seq(DownFrames) /\ Head(s) \in DownFrames
           /\ Carries(s, kind) <=> Carries(Tail(s), kind) \/ Head(s).kind = kind
           /\ Once(s, kind, f) =>
                /\ Once(Tail(s), kind, f)
                /\ Head(s).kind = kind =>
                     Head(s).file = f /\ ~Carries(Tail(s), kind)
  <1> DEFINE t == Tail(s)
  <1>1. /\ t \in Seq(DownFrames) /\ Head(s) \in DownFrames
        /\ Len(s) \in Nat /\ Len(s) >= 1 /\ Len(t) = Len(s) - 1
        /\ DOMAIN s = 1..Len(s) /\ DOMAIN t = 1..Len(t)
        /\ Head(s) = s[1] /\ \A i \in 1..Len(t) : t[i] = s[i + 1]
    OBVIOUS
  <1> HIDE DEF t
  <1>2. /\ 1 \in DOMAIN s
        /\ \A i \in DOMAIN t : i + 1 \in DOMAIN s /\ t[i] = s[i + 1] /\ i + 1 # 1
        /\ \A i \in DOMAIN s : i # 1 => i - 1 \in DOMAIN t /\ t[i - 1] = s[i]
        /\ \A i, j \in DOMAIN t : i + 1 = j + 1 => i = j
    BY <1>1
  <1>3. Carries(s, kind) <=> Carries(t, kind) \/ Head(s).kind = kind
    <2>1. ASSUME Carries(s, kind), Head(s).kind # kind PROVE Carries(t, kind)
      <3>1. PICK i \in DOMAIN s : s[i].kind = kind
        BY <2>1 DEF Carries
      <3>2. i - 1 \in DOMAIN t /\ t[i - 1].kind = kind
        BY <1>1, <1>2, <2>1, <3>1
      <3> QED BY <3>2 DEF Carries
    <2>2. ASSUME Carries(t, kind) PROVE Carries(s, kind)
      <3>1. PICK i \in DOMAIN t : t[i].kind = kind
        BY <2>2 DEF Carries
      <3> QED BY <1>2, <3>1 DEF Carries
    <2>3. Head(s).kind = kind => Carries(s, kind)
      BY <1>1, <1>2 DEF Carries
    <2> QED BY <2>1, <2>2, <2>3
  <1>4. Once(s, kind, f) => Once(t, kind, f)
    BY <1>1, <1>2 DEF Once
  <1>5. Once(s, kind, f) /\ Head(s).kind = kind =>
            Head(s).file = f /\ ~Carries(t, kind)
    BY <1>1, <1>2 DEF Once, Carries
  <1> QED BY <1>1, <1>3, <1>4, <1>5 DEF t

\* An empty queue carries nothing, and what is not there is there only once.
LEMMA CarriesNothing ==
    /\ \A kind : ~Carries(<<>>, kind)
    /\ \A q, kind, f : ~Carries(q, kind) => Once(q, kind, f)
  BY DEF Carries, Once

-----------------------------------------------------------------------------
(* What each step does to the slots, processes and sockets.                *)

\* The same Run frames are on the way, if with more Shutdowns behind them.
SameRuns(d, e) ==
    /\ Carries(e, "Run") <=> Carries(d, "Run")
    /\ \A f : Once(d, "Run", f) => Once(e, "Run", f)

\* The slot of v, its process and its sockets are as before, but for Shutdowns
\* on the way to the process.
Unmoved(v) ==
    /\ inflight'[v] = inflight[v] /\ ipc_done'[v] = ipc_done[v] /\ up'[v] = up[v]
    /\ SameRuns(down[v], down'[v])
    /\ proc'[v].at = proc[v].at /\ proc'[v].ran = proc[v].ran
    /\ proc'[v].pending = proc[v].pending /\ proc'[v].file = proc[v].file
    /\ proc'[v].out = proc[v].out

OthersUnmoved(w) == \A v \in Workers : v # w => Unmoved(v)

\* Frame m of process w goes into the socket, into the backlog, or nowhere.
Written(w, m) ==
    \/ /\ proc[w].out = <<>> /\ Len(up[w]) < SocketSize /\ ~ipc_done[w]
       /\ up'[w] = Append(up[w], m) /\ proc'[w].out = proc[w].out
    \/ /\ ipc_done[w] /\ up'[w] = up[w] /\ proc'[w].out = proc[w].out
    \/ /\ ~(proc[w].out = <<>> /\ Len(up[w]) < SocketSize)
       /\ up'[w] = up[w] /\ proc'[w].out = Append(proc[w].out, m)

\* A process writes m.
LEMMA EmitEffect ==
    ASSUME IInv, NEW w \in Workers, NEW p \in ProcessType, p.out = proc[w].out,
           NEW m \in UpFrames, Emit(w, p, m),
           UNCHANGED <<slots, down>>
    PROVE  /\ OthersUnmoved(w) /\ Written(w, m)
           /\ proc'[w].at = p.at /\ proc'[w].ran = p.ran
           /\ proc'[w].pending = p.pending /\ proc'[w].file = p.file
  <1>1. /\ proc \in [Workers -> ProcessType] /\ up \in [Workers -> Seq(UpFrames)]
        /\ UNCHANGED <<inflight, ipc_done>>
    BY SocketsKept DEF slots
  <1>2. CASE p.out = <<>> /\ Len(up[w]) < SocketSize
    <2>1. /\ up' = [up EXCEPT ![w] = IF ipc_done[w] THEN @ ELSE Append(@, m)]
          /\ proc' = [proc EXCEPT ![w] = p]
      BY <1>2 DEF Emit
    <2>2. proc'[w] = p /\ \A v \in Workers : v # w => proc'[v] = proc[v]
      BY <1>1, <2>1
    <2>3. /\ up'[w] = IF ipc_done[w] THEN up[w] ELSE Append(up[w], m)
          /\ \A v \in Workers : v # w => up'[v] = up[v]
      BY <1>1, <2>1
    <2>4. OthersUnmoved(w)
      BY <1>1, <2>2, <2>3 DEF OthersUnmoved, Unmoved, SameRuns
    <2> QED BY <1>2, <2>2, <2>3, <2>4 DEF Written
  <1>3. CASE ~(p.out = <<>> /\ Len(up[w]) < SocketSize)
    <2> DEFINE q == Append(p.out, m)
               p2 == [p EXCEPT !.out = q]
    <2>1. proc' = [proc EXCEPT ![w] = p2] /\ up' = up
      BY <1>3 DEF Emit
    <2> HIDE DEF q
    <2>2. /\ p2.out = q /\ p2.at = p.at /\ p2.ran = p.ran /\ p2.pending = p.pending
          /\ p2.file = p.file
      BY DEF ProcessType
    <2> HIDE DEF p2
    <2>3. proc'[w] = p2 /\ \A v \in Workers : v # w => proc'[v] = proc[v]
      BY <1>1, <2>1
    <2>4. OthersUnmoved(w)
      BY <1>1, <2>1, <2>3 DEF OthersUnmoved, Unmoved, SameRuns
    <2> QED BY <1>3, <2>1, <2>2, <2>3, <2>4 DEF Written, q
  <1> QED BY <1>2, <1>3

\* A new process writes Ready into its clean socket.
LEMMA BootEffect ==
    ASSUME IInv, NEW w \in Workers, Boot(w)
    PROVE  /\ OthersUnmoved(w) /\ inflight[w] = None
           /\ UNCHANGED <<range, verdict, fate, delivered, owed, fragments, phase>>
           /\ UNCHANGED <<inflight, ipc_done, down>>
           /\ up[w] = <<>> /\ up'[w] = <<[kind |-> "Ready"]>>
           /\ proc[w].out = <<>> /\ proc'[w].out = <<>>
           /\ proc[w].at = "boot" /\ proc'[w].at = "idle"
           /\ proc'[w].ran = proc[w].ran
           /\ proc'[w].pending = proc[w].pending /\ proc'[w].file = proc[w].file
  <1> DEFINE p == [proc[w] EXCEPT !.at = "idle"]
             m == [kind |-> "Ready"]
  <1>1. /\ up[w] = <<>> /\ proc[w].out = <<>> /\ inflight[w] = None /\ ~ipc_done[w]
        /\ proc[w].at = "boot"
    BY DEF IInv, FreshIsClean, Boot
  <1>2. /\ p \in ProcessType /\ p.at = "idle" /\ p.out = proc[w].out
        /\ p.ran = proc[w].ran /\ p.pending = proc[w].pending
        /\ p.file = proc[w].file
    <2>1. proc[w] \in ProcessType
      BY SocketsKept
    <2> QED BY <2>1 DEF ProcessType
  <1>3. Emit(w, p, m) /\ m \in UpFrames
    BY Frames DEF Boot
  <1>4. UNCHANGED <<slots, down>> /\ UNCHANGED <<inflight, ipc_done, down, range>>
        /\ UNCHANGED <<verdict, fate, delivered, owed, fragments, phase>>
    BY DEF Boot, history, slots
  <1> HIDE DEF p, m
  <1>5. /\ OthersUnmoved(w) /\ Written(w, m)
        /\ proc'[w].at = p.at /\ proc'[w].ran = p.ran
        /\ proc'[w].pending = p.pending /\ proc'[w].file = p.file
    BY <1>2, <1>3, <1>4, EmitEffect
  <1>6. Len(up[w]) < SocketSize
    BY <1>1, BoundAssumption
  <1>7. up'[w] = <<m>> /\ proc'[w].out = <<>>
    BY <1>1, <1>3, <1>5, <1>6 DEF Written
  <1> QED BY <1>1, <1>2, <1>4, <1>5, <1>7 DEF m

\* A command is read.
LEMMA ReceiveEffect ==
    ASSUME IInv, NEW w \in Workers, Receive(w)
    PROVE  /\ OthersUnmoved(w)
           /\ UNCHANGED <<range, verdict, fate, delivered, owed, fragments, phase>>
           /\ UNCHANGED <<inflight, ipc_done, up>>
           /\ down[w] # <<>> /\ down'[w] = Tail(down[w])
           /\ proc[w].at \in {"idle", "run"} /\ proc'[w].at = proc[w].at
           /\ proc'[w].ran = proc[w].ran /\ proc'[w].out = proc[w].out
           /\ proc'[w].file = proc[w].file
           /\ proc'[w].pending = IF Head(down[w]).kind = "Run"
                                 THEN Head(down[w]).file ELSE proc[w].pending
  <1> DEFINE p == IF Head(down[w]).kind = "Run"
                  THEN [proc[w] EXCEPT !.pending = Head(down[w]).file]
                  ELSE [proc[w] EXCEPT !.done = TRUE]
  <1>1. /\ p.at = proc[w].at /\ p.out = proc[w].out /\ p.ran = proc[w].ran
        /\ p.file = proc[w].file
        /\ p.pending = IF Head(down[w]).kind = "Run"
                       THEN Head(down[w]).file ELSE proc[w].pending
    <2>1. proc[w] \in ProcessType
      BY SocketsKept
    <2> QED BY <2>1 DEF ProcessType
  <1>2. /\ proc' = [proc EXCEPT ![w] = p] /\ down' = [down EXCEPT ![w] = Tail(@)]
        /\ UNCHANGED <<inflight, ipc_done, up, range>>
        /\ UNCHANGED <<verdict, fate, delivered, owed, fragments, phase>>
        /\ down[w] # <<>> /\ proc[w].at \in {"idle", "run"}
    BY DEF Receive, history, slots
  <1> HIDE DEF p
  <1>3. /\ proc'[w] = p /\ down'[w] = Tail(down[w])
        /\ \A v \in Workers : v # w => proc'[v] = proc[v] /\ down'[v] = down[v]
    BY <1>2, SocketsKept
  <1>4. OthersUnmoved(w)
    BY <1>2, <1>3 DEF OthersUnmoved, Unmoved, SameRuns
  <1> QED BY <1>1, <1>2, <1>3, <1>4

\* The pending file starts.
LEMMA StartFileEffect ==
    ASSUME IInv, NEW w \in Workers, StartFile(w)
    PROVE  /\ OthersUnmoved(w)
           /\ UNCHANGED <<range, verdict, delivered, owed, fragments, phase>>
           /\ UNCHANGED <<inflight, ipc_done, down>>
           /\ Written(w, [kind |-> "FileStart"])
           /\ proc[w].at = "idle" /\ proc'[w].at = "run"
           /\ proc'[w].ran = proc[w].ran
           /\ proc[w].pending \in Files /\ proc'[w].pending = None
           /\ proc'[w].file = proc[w].pending
           /\ fate' = [fate EXCEPT ![proc[w].pending] =
                           IF @ = "unrun" THEN "started" ELSE "twice"]
  <1> DEFINE f == proc[w].pending
             p == [proc[w] EXCEPT !.at = "run", !.pending = None, !.file = f]
  <1>0. proc[w] \in ProcessType
    BY SocketsKept
  <1>1. proc[w].at = "idle" /\ f # None /\ f \in Files
    BY <1>0 DEF StartFile, ProcessType
  <1>2. /\ p \in ProcessType /\ p.at = "run" /\ p.out = proc[w].out
        /\ p.file = f /\ p.pending = None /\ p.ran = proc[w].ran
    BY <1>0, <1>1 DEF ProcessType
  <1>3. Emit(w, p, [kind |-> "FileStart"])
    BY DEF StartFile
  <1>4. UNCHANGED <<slots, down>> /\ UNCHANGED <<inflight, ipc_done, down, range>>
        /\ UNCHANGED <<verdict, delivered, owed, fragments, phase>>
        /\ fate' = [fate EXCEPT ![f] = IF @ = "unrun" THEN "started" ELSE "twice"]
    BY DEF StartFile, slots
  <1> HIDE DEF p
  <1>5. /\ OthersUnmoved(w) /\ Written(w, [kind |-> "FileStart"])
        /\ proc'[w].at = p.at /\ proc'[w].ran = p.ran
        /\ proc'[w].pending = p.pending /\ proc'[w].file = p.file
    BY <1>2, <1>3, <1>4, Frames, EmitEffect
  <1> QED BY <1>1, <1>2, <1>4, <1>5

\* The file that runs ends.
LEMMA FinishFileEffect ==
    ASSUME IInv, NEW w \in Workers, FinishFile(w)
    PROVE  /\ OthersUnmoved(w)
           /\ UNCHANGED <<range, verdict, owed, fragments, phase>>
           /\ UNCHANGED <<inflight, ipc_done, down>>
           /\ proc[w].at = "run" /\ proc'[w].at = "idle"
           /\ proc[w].file \in Files /\ proc'[w].file = None
           /\ proc'[w].pending = proc[w].pending
           /\ proc'[w].ran = proc[w].ran \cup {proc[w].file}
           /\ delivered' = IF Delivers(w, proc[w].out)
                           THEN delivered \cup {proc[w].file} ELSE delivered
           /\ \E failed \in BOOLEAN :
                /\ fate' = [fate EXCEPT ![proc[w].file] =
                               IF @ # "started" THEN "twice"
                               ELSE IF failed THEN "fail" ELSE "pass"]
                /\ Written(w, [kind |-> "FileDone", file |-> proc[w].file,
                               failed |-> failed])
  <1> DEFINE f == proc[w].file
             p == [proc[w] EXCEPT !.at = "idle", !.file = None,
                                  !.ran = @ \cup {f}]
  <1>0. proc[w] \in ProcessType
    BY SocketsKept
  <1>1. proc[w].at = "run" /\ f \in Files
    BY SocketsKept DEF FinishFile
  <1>2. /\ p \in ProcessType /\ p.at = "idle" /\ p.out = proc[w].out
        /\ p.file = None /\ p.pending = proc[w].pending
        /\ p.ran = proc[w].ran \cup {f}
    BY <1>0, <1>1 DEF ProcessType
  <1>3. PICK b \in BOOLEAN :
           /\ Emit(w, p, [kind |-> "FileDone", file |-> f, failed |-> b])
           /\ fate' = [fate EXCEPT ![f] = IF @ # "started" THEN "twice"
                                          ELSE IF b THEN "fail" ELSE "pass"]
    BY DEF FinishFile
  <1>4. UNCHANGED <<slots, down>> /\ UNCHANGED <<inflight, ipc_done, down, range>>
        /\ UNCHANGED <<verdict, owed, fragments, phase>>
        /\ delivered' = IF Delivers(w, proc[w].out) THEN delivered \cup {f}
                        ELSE delivered
    BY DEF FinishFile, slots
  <1>5. [kind |-> "FileDone", file |-> f, failed |-> b] \in UpFrames
    BY <1>1, Frames
  <1> HIDE DEF p
  <1>6. /\ OthersUnmoved(w)
        /\ Written(w, [kind |-> "FileDone", file |-> f, failed |-> b])
        /\ proc'[w].at = p.at /\ proc'[w].ran = p.ran
        /\ proc'[w].pending = p.pending /\ proc'[w].file = p.file
    BY <1>2, <1>3, <1>4, <1>5, EmitEffect
  <1> QED BY <1>1, <1>2, <1>3, <1>4, <1>6

\* The first frame of the backlog goes into the socket, or nowhere.
LEMMA FlushOutEffect ==
    ASSUME IInv, NEW w \in Workers, FlushOut(w)
    PROVE  /\ OthersUnmoved(w)
           /\ UNCHANGED <<range, verdict, fate, owed, fragments, phase>>
           /\ UNCHANGED <<inflight, ipc_done, down>>
           /\ proc[w].out # <<>> /\ proc'[w].out = Tail(proc[w].out)
           /\ up'[w] = IF ipc_done[w] THEN up[w]
                       ELSE Append(up[w], Head(proc[w].out))
           /\ proc[w].at \in {"idle", "run", "flush"}
           /\ proc'[w].at = proc[w].at /\ proc'[w].ran = proc[w].ran
           /\ proc'[w].pending = proc[w].pending /\ proc'[w].file = proc[w].file
           /\ delivered' = IF Head(proc[w].out).kind = "FileDone" /\ Intact(w)
                           THEN delivered \cup {Head(proc[w].out).file}
                           ELSE delivered
  <1> DEFINE m == Head(proc[w].out)
             q == Tail(proc[w].out)
             p == [proc[w] EXCEPT !.out = q]
  <1>1. /\ up' = [up EXCEPT ![w] = IF ipc_done[w] THEN @ ELSE Append(@, m)]
        /\ proc' = [proc EXCEPT ![w] = p]
        /\ proc[w].at \in {"idle", "run", "flush"} /\ proc[w].out # <<>>
        /\ delivered' = IF m.kind = "FileDone" /\ Intact(w)
                        THEN delivered \cup {m.file} ELSE delivered
        /\ UNCHANGED <<inflight, ipc_done, down, range>>
        /\ UNCHANGED <<verdict, fate, owed, fragments, phase>>
    BY DEF FlushOut, slots
  <1> HIDE DEF m, q
  <1>2. /\ p.at = proc[w].at /\ p.out = q /\ p.file = proc[w].file
        /\ p.pending = proc[w].pending /\ p.ran = proc[w].ran
    <2>1. proc[w] \in ProcessType
      BY SocketsKept
    <2> QED BY <2>1 DEF ProcessType
  <1> HIDE DEF p
  <1>3. /\ proc'[w] = p /\ up'[w] = IF ipc_done[w] THEN up[w] ELSE Append(up[w], m)
        /\ \A v \in Workers : v # w => proc'[v] = proc[v] /\ up'[v] = up[v]
    BY <1>1, SocketsKept
  <1>4. OthersUnmoved(w)
    BY <1>1, <1>3 DEF OthersUnmoved, Unmoved, SameRuns
  <1> QED BY <1>1, <1>2, <1>3, <1>4 DEF m, q

\* The aggregates join the backlog.
LEMMA FlushAggregatesEffect ==
    ASSUME IInv, NEW w \in Workers, FlushAggregates(w)
    PROVE  /\ OthersUnmoved(w)
           /\ UNCHANGED <<range, verdict, fate, delivered, owed, fragments, phase>>
           /\ UNCHANGED <<inflight, ipc_done, up, down>>
           /\ proc[w].at = "idle" /\ proc'[w].at = "flush"
           /\ proc[w].pending = None
           /\ proc'[w].pending = proc[w].pending /\ proc'[w].file = proc[w].file
           /\ proc[w].ran \subseteq Files /\ proc'[w].ran = proc[w].ran
           /\ proc'[w].out = Append(proc[w].out, [kind |-> "Aggregates",
                                                  files |-> proc[w].ran])
  <1> DEFINE m == [kind |-> "Aggregates", files |-> proc[w].ran]
             q == Append(proc[w].out, m)
             p == [proc[w] EXCEPT !.at = "flush", !.out = q]
  <1>0. proc[w] \in ProcessType /\ proc[w].ran \subseteq Files
    BY SocketsKept DEF ProcessType
  <1>1. /\ proc' = [proc EXCEPT ![w].at = "flush", ![w].out = q]
        /\ proc[w].at = "idle" /\ proc[w].pending = None
        /\ UNCHANGED <<inflight, ipc_done, up, down, range>>
        /\ UNCHANGED <<verdict, fate, delivered, owed, fragments, phase>>
    BY DEF FlushAggregates, wires, history, slots
  <1> HIDE DEF q
  <1>2. /\ p.at = "flush" /\ p.out = q /\ p.file = proc[w].file
        /\ p.pending = proc[w].pending /\ p.ran = proc[w].ran
    BY <1>0 DEF ProcessType
  <1>3. proc'[w] = p /\ \A v \in Workers : v # w => proc'[v] = proc[v]
    BY <1>1, SocketsKept
  <1> HIDE DEF p
  <1>4. OthersUnmoved(w)
    BY <1>1, <1>3 DEF OthersUnmoved, Unmoved, SameRuns
  <1> QED BY <1>0, <1>1, <1>2, <1>3, <1>4 DEF q

\* A process ends.
LEMMA GoneEffect ==
    ASSUME IInv, NEW w \in Workers, NEW status \in {"exit", "panic"},
           Gone(w, status)
    PROVE  /\ OthersUnmoved(w)
           /\ UNCHANGED <<range, verdict, fate, delivered, fragments, phase>>
           /\ UNCHANGED <<inflight, ipc_done, up>>
           /\ down'[w] = <<>> /\ proc'[w].at = "gone" /\ proc'[w].out = <<>>
           /\ proc'[w].pending = None /\ proc'[w].file = None
           /\ proc'[w].ran = {}
  <1> DEFINE p == [NoProcess EXCEPT !.at = "gone", !.status = status]
  <1>1. /\ p.at = "gone" /\ p.out = <<>> /\ p.pending = None /\ p.file = None
        /\ p.ran = {}
    BY DEF NoProcess
  <1>2. /\ proc' = [proc EXCEPT ![w] = p] /\ down' = [down EXCEPT ![w] = <<>>]
        /\ UNCHANGED <<inflight, ipc_done, up, range>>
        /\ UNCHANGED <<verdict, fate, delivered, fragments, phase>>
    BY DEF Gone, slots
  <1> HIDE DEF p
  <1>3. /\ proc'[w] = p /\ down'[w] = <<>>
        /\ \A v \in Workers : v # w => proc'[v] = proc[v] /\ down'[v] = down[v]
    BY <1>2, SocketsKept
  <1>4. OthersUnmoved(w)
    BY <1>2, <1>3 DEF OthersUnmoved, Unmoved, SameRuns
  <1> QED BY <1>1, <1>2, <1>3, <1>4

\* Something that is no frame goes into the socket.
LEMMA WriteGarbageEffect ==
    ASSUME IInv, NEW w \in Workers, WriteGarbage(w)
    PROVE  /\ OthersUnmoved(w)
           /\ UNCHANGED <<range, verdict, fate, delivered, owed, fragments, phase>>
           /\ UNCHANGED <<inflight, ipc_done, proc, down>>
           /\ proc[w].at = "run" /\ ~ipc_done[w]
           /\ up'[w] = Append(up[w], [kind |-> "Garbage"])
  <1> DEFINE m == [kind |-> "Garbage"]
  <1>1. /\ proc[w].at = "run" /\ up' = [up EXCEPT ![w] = Append(@, m)]
        /\ ~ipc_done[w]
        /\ UNCHANGED <<inflight, ipc_done, proc, down, range>>
        /\ UNCHANGED <<verdict, fate, delivered, owed, fragments, phase>>
    BY DEF WriteGarbage, Intact, history, slots
  <1> HIDE DEF m
  <1>2. up'[w] = Append(up[w], m) /\ \A v \in Workers : v # w => up'[v] = up[v]
    BY <1>1, SocketsKept
  <1>3. OthersUnmoved(w)
    BY <1>1, <1>2 DEF OthersUnmoved, Unmoved, SameRuns
  <1> QED BY <1>1, <1>2, <1>3 DEF m

\* Shutdowns leave the Run frames as they are.
LEMMA ShutdownRuns ==
    /\ \A d : SameRuns(d, d)
    /\ \A d \in Seq(DownFrames) : SameRuns(d, Append(d, ShutdownFrame))
    /\ \A c, d, e : SameRuns(c, d) /\ SameRuns(d, e) => SameRuns(c, e)
  <1>1. ASSUME NEW d \in Seq(DownFrames) PROVE SameRuns(d, Append(d, ShutdownFrame))
    <2>1. ShutdownFrame \in DownFrames /\ ShutdownFrame.kind # "Run"
      BY Commands DEF ShutdownFrame
    <2> HIDE DEF ShutdownFrame
    <2>2. Carries(Append(d, ShutdownFrame), "Run") <=> Carries(d, "Run")
      BY <2>1, WrittenDown
    <2>3. \A f : Once(d, "Run", f) => Once(Append(d, ShutdownFrame), "Run", f)
      BY <2>1, WrittenDown
    <2> QED BY <2>2, <2>3 DEF SameRuns
  <1>2. \A d : SameRuns(d, d)
    BY DEF SameRuns
  <1>3. \A c, d, e : SameRuns(c, d) /\ SameRuns(d, e) => SameRuns(c, e)
    BY DEF SameRuns
  <1> QED BY <1>1, <1>2, <1>3

\* bail_out sends nothing but Shutdowns.
LEMMA IdleRuns ==
    ASSUME IInv, NEW infl, NEW dead, NEW v \in Workers
    PROVE  SameRuns(down[v], ShutdownIdle(infl, dead)[v])
  <1>1. down[v] \in Seq(DownFrames)
    BY SocketsKept
  <1>2. \/ ShutdownIdle(infl, dead)[v] = down[v]
        \/ ShutdownIdle(infl, dead)[v] = Append(down[v], ShutdownFrame)
    BY DEF ShutdownIdle
  <1>3. SameRuns(down[v], down[v]) /\ SameRuns(down[v], Append(down[v], ShutdownFrame))
    BY <1>1, ShutdownRuns
  <1> QED BY <1>2, <1>3

\* A file of somebody's range is given to w, and the command for it written.
FileGiven(w, d) ==
    \E f \in Files, u \in Workers :
        /\ Holds(range, u, f) /\ inflight'[w] = f
        /\ down'[w] = IF CanHear(w) THEN Append(d, RunFrame(f)) ELSE d

\* assign_work gives w a file, or sends it a Shutdown.
LEMMA AssignEffect ==
    ASSUME NEW infl, NEW vd, Placed(range, infl, vd),
           NEW dn \in [Workers -> Seq(DownFrames)], NEW stop \in BOOLEAN,
           NEW w \in Workers, infl[w] = None,
           AssignWork(w, stop, infl, dn)
    PROVE  /\ \A v \in Workers : v # w =>
                inflight'[v] = infl[v] /\ down'[v] = dn[v]
           /\ \/ inflight'[w] = None /\ SameRuns(dn[w], down'[w])
              \/ FileGiven(w, dn[w])
  <1>0. N \in Nat /\ range \in [Workers -> [lo : 0..N, hi : 0..N]]
        /\ infl \in [Workers -> Files \cup {None}]
    BY SizeAssumption DEF Placed
  <1>1. CASE down' = Send(dn, w, ShutdownFrame) /\ inflight' = infl
    <2>1. down'[w] = dn[w] \/ down'[w] = Append(dn[w], ShutdownFrame)
      BY <1>1 DEF Send
    <2>2. \A v \in Workers : v # w => down'[v] = dn[v]
      BY <1>1 DEF Send
    <2>3. SameRuns(dn[w], dn[w]) /\ SameRuns(dn[w], Append(dn[w], ShutdownFrame))
      BY ShutdownRuns
    <2> QED BY <1>1, <2>1, <2>2, <2>3
  <1>2. ASSUME NEW f \in Files, NEW u \in Workers, Holds(range, u, f),
               Dispatch(w, f, infl, dn)
        PROVE  /\ \A v \in Workers : v # w =>
                    inflight'[v] = infl[v] /\ down'[v] = dn[v]
               /\ FileGiven(w, dn[w])
    <2>1. /\ inflight'[w] = f /\ \A v \in Workers : v # w => inflight'[v] = infl[v]
          /\ down' = Send(dn, w, RunFrame(f))
      BY <1>0, <1>2 DEF Dispatch
    <2>2. /\ down'[w] = IF CanHear(w) THEN Append(dn[w], RunFrame(f)) ELSE dn[w]
          /\ \A v \in Workers : v # w => down'[v] = dn[v]
      BY <2>1 DEF Send
    <2> QED BY <1>2, <2>1, <2>2 DEF FileGiven
  <1>3. CASE ~NoMoreWork(stop) /\ ~IsEmpty(range[w])
             /\ Dispatch(w, range[w].lo, infl, dn)
    <2>1. range[w].lo \in Files /\ Holds(range, w, range[w].lo)
      BY <1>0, <1>3 DEF IsEmpty, Holds, Files
    <2> QED BY <1>2, <1>3, <2>1
  <1>4. CASE ~NoMoreWork(stop) /\ IsEmpty(range[w])
             /\ \E v \in Workers :
                   IsVictim(v) /\ Dispatch(w, Stolen(v, w)[w].lo, infl, dn)
    <2>1. PICK v \in Workers :
             IsVictim(v) /\ Dispatch(w, Stolen(v, w)[w].lo, infl, dn)
      BY <1>4
    <2>2. Undispatched # {}
      BY <1>4 DEF NoMoreWork
    <2> DEFINE rg2 == Stolen(v, w)
    <2>3. /\ Placed(rg2, infl, vd)
          /\ rg2[w].lo < rg2[w].hi
          /\ \A f \in Files : (\E u \in Workers : Holds(rg2, u, f))
                                 <=> \E u \in Workers : Holds(range, u, f)
      BY <1>4, <2>1, <2>2, StealPlaced
    <2>4. Dispatch(w, rg2[w].lo, infl, dn)
      BY <2>1
    <2> HIDE DEF rg2
    <2>5. rg2[w].lo \in Files /\ Holds(rg2, w, rg2[w].lo)
      BY <2>3, TakePlaced
    <2>6. PICK u \in Workers : Holds(range, u, rg2[w].lo)
      BY <2>3, <2>5
    <2> QED BY <1>2, <2>4, <2>5, <2>6
  <1> QED
    BY <1>1, <1>3, <1>4 DEF AssignWork

\* The same, of the Run frames only.
Assigned(w) ==
    \/ inflight'[w] = None /\ SameRuns(down[w], down'[w])
    \/ \E f \in Files, u \in Workers :
         /\ Holds(range, u, f) /\ inflight'[w] = f
         /\ ~Carries(down[w], "Run") => Once(down'[w], "Run", f)
         /\ IF CanHear(w) THEN Carries(down'[w], "Run")
            ELSE SameRuns(down[w], down'[w])

\* What assign_work does is one of the two.
LEMMA GivenIsAssigned ==
    ASSUME NEW w \in Workers, NEW d \in Seq(DownFrames), SameRuns(down[w], d),
           \/ inflight'[w] = None /\ SameRuns(d, down'[w])
           \/ FileGiven(w, d)
    PROVE  Assigned(w)
  <1>1. CASE inflight'[w] = None /\ SameRuns(d, down'[w])
    <2>1. SameRuns(down[w], down'[w])
      BY <1>1, ShutdownRuns
    <2> QED BY <1>1, <2>1 DEF Assigned
  <1>2. CASE FileGiven(w, d)
    <2>1. PICK f \in Files, u \in Workers :
             /\ Holds(range, u, f) /\ inflight'[w] = f
             /\ down'[w] = IF CanHear(w) THEN Append(d, RunFrame(f)) ELSE d
      BY <1>2 DEF FileGiven
    <2>2. RunFrame(f) \in DownFrames /\ RunFrame(f).kind = "Run" /\ RunFrame(f).file = f
      BY Commands DEF RunFrame
    <2> DEFINE e == Append(d, RunFrame(f))
    <2>3. Carries(e, "Run") /\ (~Carries(d, "Run") => Once(e, "Run", f))
      BY <2>2, WrittenDown
    <2> HIDE DEF e
    <2>4. CASE CanHear(w)
      <3>1. down'[w] = e
        BY <2>1, <2>4 DEF e
      <3>2. Carries(down'[w], "Run") /\ (~Carries(down[w], "Run") => Once(down'[w], "Run", f))
        BY <2>3, <3>1 DEF SameRuns
      <3> QED BY <2>1, <2>4, <3>2 DEF Assigned
    <2>5. CASE ~CanHear(w)
      <3>1. SameRuns(down[w], down'[w])
        BY <2>1, <2>5
      <3>2. ~Carries(down[w], "Run") => Once(down'[w], "Run", f)
        BY <3>1, CarriesNothing DEF SameRuns
      <3> QED BY <2>1, <2>5, <3>1, <3>2 DEF Assigned
    <2> QED BY <2>4, <2>5
  <1> QED BY <1>1, <1>2

\* A frame is taken from the socket of w, whose process has written it.
LEMMA FrameEffect ==
    ASSUME IInv, NEW w \in Workers, NEW kind, Frame(w, kind)
    PROVE  /\ ~ipc_done[w] /\ up[w] # <<>> /\ Head(up[w]).kind = kind
           /\ Head(up[w]) \in UpFrames
           /\ up'[w] = Tail(up[w])
           /\ \A v \in Workers : v # w => up'[v] = up[v]
  BY SocketsKept DEF Frame

\* The files of the ranges have been in ranges before.
LEMMA RangesShrink ==
    ASSUME IInv, IInv', NEW w \in Workers,
           \A v \in Workers : v # w => inflight'[v] = inflight[v],
           \A f \in Files : verdict[f] # None => verdict'[f] # None,
           inflight[w] # None => verdict'[inflight[w]] # None
    PROVE  \A f \in Files, u \in Workers :
             Holds(range', u, f) => \E v \in Workers : Holds(range, v, f)
  <1> SUFFICES ASSUME NEW f \in Files, NEW u \in Workers, Holds(range', u, f)
               PROVE  \E v \in Workers : Holds(range, v, f)
    OBVIOUS
  <1>1. Placed(range, inflight, verdict)
    BY Places
  <1>2. OnePlacePerFile' /\ None \notin Files
    BY NoneAssumption DEF IInv
  <1>3. verdict'[f] = None /\ \A v \in Workers : inflight'[v] # f
    BY <1>2 DEF OnePlacePerFile, InRange, Holds
  <1>4. verdict[f] = None
    BY <1>3
  <1>5. \A v \in Workers : inflight[v] # f
    BY <1>2, <1>3
  <1> QED BY <1>1, <1>4, <1>5 DEF Placed

\* A worker that is ready is given a file or a Shutdown.
LEMMA OnReadyEffect ==
    ASSUME IInv, IInv', NEW w \in Workers, OnReady(w)
    PROVE  /\ OthersUnmoved(w) /\ inflight[w] = None
           /\ UNCHANGED <<verdict, fate, delivered, owed, fragments, phase>>
           /\ UNCHANGED <<ipc_done, proc>>
           /\ Frame(w, "Ready")
           /\ Assigned(w)
           /\ \A f \in Files, u \in Workers :
                Holds(range', u, f) => \E v \in Workers : Holds(range, v, f)
  <1>1. inflight[w] = None
    <2>1. up[w] # <<>> /\ Head(up[w]).kind = "Ready"
      BY DEF OnReady, Frame
    <2>2. 1 \in DOMAIN up[w] /\ up[w][1].kind = "Ready"
      BY <2>1, SocketsKept
    <2> QED BY <2>2, SocketsKept
  <1>2. /\ AssignWork(w, bailed, inflight, down) /\ Frame(w, "Ready")
        /\ UNCHANGED <<verdict, fate, delivered, owed, fragments, phase>>
        /\ UNCHANGED <<ipc_done, proc>>
    BY DEF OnReady, history
  <1>3. down \in [Workers -> Seq(DownFrames)] /\ bailed \in BOOLEAN
        /\ Placed(range, inflight, verdict)
    BY Places DEF IInv, WiresTyped, SlotsTyped
  <1>4. /\ \A v \in Workers : v # w =>
             inflight'[v] = inflight[v] /\ down'[v] = down[v]
        /\ \/ inflight'[w] = None /\ SameRuns(down[w], down'[w])
           \/ FileGiven(w, down[w])
    BY <1>1, <1>2, <1>3, AssignEffect
  <1>5. OthersUnmoved(w)
    BY <1>2, <1>4, FrameEffect DEF OthersUnmoved, Unmoved, SameRuns
  <1>6. \A f \in Files, u \in Workers :
           Holds(range', u, f) => \E v \in Workers : Holds(range, v, f)
    BY <1>1, <1>2, <1>4, RangesShrink
  <1>7. Assigned(w)
    BY <1>3, <1>4, ShutdownRuns, GivenIsAssigned
  <1> QED BY <1>1, <1>2, <1>5, <1>6, <1>7

\* An awaited result gives the file its verdict, and w another file perhaps.
LEMMA OnFileDoneEffect ==
    ASSUME IInv, IInv', NEW w \in Workers, OnFileDone(w),
           inflight[w] = Head(up[w]).file
    PROVE  /\ OthersUnmoved(w) /\ inflight[w] \in Files
           /\ UNCHANGED <<fate, delivered, owed, fragments, phase>>
           /\ UNCHANGED <<ipc_done, proc>>
           /\ Frame(w, "FileDone")
           /\ verdict[inflight[w]] = None
           /\ verdict' = [verdict EXCEPT ![inflight[w]] =
                             IF Head(up[w]).failed THEN "fail" ELSE "pass"]
           /\ Assigned(w)
           /\ \A f \in Files, u \in Workers :
                Holds(range', u, f) => \E v \in Workers : Holds(range, v, f)
  <1> DEFINE m == Head(up[w])
             fails == fail + (IF m.failed THEN 1 ELSE 0)
             stop == bailed \/ BailsAt(fails)
             infl == [inflight EXCEPT ![w] = None]
             dn == IF BailsAt(fails) THEN ShutdownIdle(infl, None) ELSE down
             vd == [verdict EXCEPT ![m.file] = IF m.failed THEN "fail" ELSE "pass"]
  <1>0. /\ down \in [Workers -> Seq(DownFrames)] /\ bailed \in BOOLEAN
        /\ inflight \in [Workers -> Files \cup {None}]
        /\ verdict \in [Files -> {None, "pass", "fail", "crash", "aborted"}]
    BY DEF IInv, WiresTyped, SlotsTyped
  <1>1. /\ Frame(w, "FileDone")
        /\ UNCHANGED <<fate, delivered, owed, fragments, phase, ipc_done, proc>>
        /\ verdict' = vd
        /\ IF alive[w] THEN AssignWork(w, stop, infl, dn)
           ELSE inflight' = infl /\ down' = dn
    BY DEF OnFileDone, slots, totals
  <1>2. m.file \in Files /\ inflight[w] \in Files /\ inflight[w] # None
    <2>1. m \in UpFrames /\ m.kind = "FileDone"
      BY <1>1, FrameEffect
    <2> QED BY <2>1, Frames, NoneAssumption
  <1>3. /\ infl \in [Workers -> Files \cup {None}] /\ infl[w] = None
        /\ \A v \in Workers : v # w => infl[v] = inflight[v]
        /\ dn \in [Workers -> Seq(DownFrames)] /\ stop \in BOOLEAN
        /\ \A v \in Workers : SameRuns(down[v], dn[v])
    BY <1>0, ShutdownTyped, IdleRuns, ShutdownRuns
  <1>4. /\ vd \in [Files -> {None, "pass", "fail", "crash", "aborted"}]
        /\ vd[m.file] # None
        /\ \A f \in Files : f # m.file => vd[f] = verdict[f]
    BY <1>0, <1>2, NoneAssumption
  <1>5. /\ verdict' = [verdict EXCEPT ![inflight[w]] =
                          IF Head(up[w]).failed THEN "fail" ELSE "pass"]
        /\ inflight[w] = m.file
    BY <1>1
  <1> HIDE DEF infl, vd, m, stop, dn
  <1>6. Placed(range, infl, vd) /\ verdict[inflight[w]] = None
    <2>1. /\ vd[inflight[w]] # None
          /\ \A f \in Files : f # inflight[w] => vd[f] = verdict[f]
      BY <1>4, <1>5
    <2>2. Placed(range, inflight, verdict)
      BY Places
    <2>3. /\ infl \in [Workers -> Files \cup {None}] /\ infl[w] = None
          /\ \A v \in Workers : v # w => infl[v] = inflight[v]
      BY <1>3
    <2>4. vd \in [Files -> {None, "pass", "fail", "crash", "aborted"}]
      BY <1>4
    <2> QED BY <1>2, <2>1, <2>2, <2>3, <2>4, DonePlaced
  <1>7. /\ \A v \in Workers : v # w => inflight'[v] = infl[v] /\ down'[v] = dn[v]
        /\ \/ inflight'[w] = None /\ SameRuns(dn[w], down'[w])
           \/ FileGiven(w, dn[w])
    <2>1. CASE alive[w]
      BY <1>1, <1>3, <1>6, <2>1, AssignEffect
    <2>2. CASE ~alive[w]
      BY <1>1, <1>3, <2>2, ShutdownRuns
    <2> QED BY <2>1, <2>2
  <1>8. \A v \in Workers : v # w =>
           inflight'[v] = inflight[v] /\ SameRuns(down[v], down'[v])
    BY <1>3, <1>7
  <1>9. OthersUnmoved(w)
    BY <1>1, <1>8, FrameEffect DEF OthersUnmoved, Unmoved
  <1>10. \A f \in Files, u \in Workers :
            Holds(range', u, f) => \E v \in Workers : Holds(range, v, f)
    BY <1>1, <1>2, <1>4, <1>5, <1>8, RangesShrink
  <1>11. Assigned(w)
    <2>1. dn[w] \in Seq(DownFrames) /\ SameRuns(down[w], dn[w])
      BY <1>3
    <2> QED BY <1>7, <2>1, GivenIsAssigned
  <1> QED BY <1>1, <1>2, <1>5, <1>6, <1>9, <1>10, <1>11

\* FileStart and Aggregates change nothing but the report.
LEMMA OnOtherFrameEffect ==
    ASSUME IInv, NEW w \in Workers, OnFileStart(w) \/ OnAggregates(w)
    PROVE  /\ OthersUnmoved(w)
           /\ UNCHANGED <<range, verdict, fate, delivered, owed, phase>>
           /\ UNCHANGED <<inflight, ipc_done, proc, down>>
           /\ \/ Frame(w, "FileStart") /\ UNCHANGED fragments
              \/ /\ Frame(w, "Aggregates")
                 /\ fragments' = fragments \cup Head(up[w]).files
  <1>1. /\ UNCHANGED <<range, verdict, fate, delivered, owed, phase>>
        /\ UNCHANGED <<inflight, ipc_done, proc, down>>
        /\ \/ Frame(w, "FileStart") /\ UNCHANGED fragments
           \/ /\ Frame(w, "Aggregates")
              /\ fragments' = fragments \cup Head(up[w]).files
    BY DEF OnFileStart, OnAggregates, slots, history
  <1>2. OthersUnmoved(w)
    BY <1>1, FrameEffect DEF OthersUnmoved, Unmoved, SameRuns
  <1> QED BY <1>1, <1>2

\* The slot of w is torn down: a file in flight is charged to the crash, the
\* files of the ranges may be given up, and w may have a new process.
Reaped(w) ==
    /\ OthersUnmoved(w)
    /\ UNCHANGED <<fate, delivered, owed, fragments, phase>>
    /\ inflight'[w] = None /\ ~ipc_done'[w] /\ up'[w] = <<>> /\ down'[w] = <<>>
    /\ proc'[w].at \in {"none", "boot"} /\ proc'[w].ran = {} /\ proc'[w].out = <<>>
    /\ proc'[w].pending = None /\ proc'[w].file = None
    /\ \A f \in Files :
         \/ verdict'[f] = verdict[f] /\ f # inflight[w]
         \/ verdict'[f] = "crash" /\ verdict[f] = None /\ f = inflight[w]
         \/ /\ verdict'[f] = "aborted" /\ verdict[f] = None
            /\ \E v \in Workers : Holds(range, v, f)
    /\ \A f \in Files, u \in Workers :
         Holds(range', u, f) => \E v \in Workers : Holds(range, v, f)

\* reap_worker does just that.
LEMMA ReapEffect ==
    ASSUME IInv, IInv', NEW w \in Workers, NEW status, Reap(w, status)
    PROVE  Reaped(w)
  <1> DEFINE crashed == inflight[w] # None
             fails == fail + (IF crashed THEN 1 ELSE 0)
             bails == crashed /\ BailsAt(fails)
             panics == crashed /\ status = "panic"
             stop == bailed \/ bails \/ panics
             aborted(r) == IF (panics /\ ~bailed /\ ~bails) \/ LastOneGone(stop, r)
                           THEN Undispatched ELSE {}
  <1>1. PICK respawned \in BOOLEAN :
          /\ verdict' = [f \in Files |->
                            CASE f = inflight[w] -> "crash"
                              [] f \in aborted(respawned) -> "aborted"
                              [] OTHER -> verdict[f]]
          /\ inflight' = InflightAfterReap(w)
          /\ ipc_done' = [ipc_done EXCEPT ![w] = FALSE]
          /\ up' = [up EXCEPT ![w] = <<>>]
          /\ down' = [(IF bails THEN ShutdownIdle(inflight, w) ELSE down)
                         EXCEPT ![w] = <<>>]
          /\ proc' = [v \in Workers |->
                         IF v = w
                         THEN IF respawned THEN NewProcess ELSE NoProcess
                         ELSE IF /\ panics /\ alive[v] /\ v \in Running
                                 /\ proc[v].signal = None
                         THEN [proc[v] EXCEPT !.signal = "SIGTERM"] ELSE proc[v]]
          /\ UNCHANGED <<fate, delivered, owed, fragments, phase>>
    BY DEF Reap
  <1> DEFINE gone == aborted(respawned)
  <1>2. gone \subseteq Undispatched
    OBVIOUS
  <1>3. verdict' = [f \in Files |->
                       CASE f = inflight[w] -> "crash"
                         [] f \in gone -> "aborted"
                         [] OTHER -> verdict[f]]
    BY <1>1
  <1> HIDE DEF gone, aborted, stop
  <1>4. Placed(range, inflight, verdict)
    BY Places
  <1>5. \A f \in Files :
          \/ verdict'[f] = verdict[f] /\ f # inflight[w]
          \/ verdict'[f] = "crash" /\ verdict[f] = None /\ f = inflight[w]
          \/ /\ verdict'[f] = "aborted" /\ verdict[f] = None
             /\ \E v \in Workers : Holds(range, v, f)
    <2>1. \A f \in Files : f \in Undispatched => \E v \in Workers : Holds(range, v, f)
      BY <1>4, UndispatchedFiles
    <2> QED BY <1>2, <1>3, <1>4, <2>1 DEF Placed
  <1>6. /\ inflight \in [Workers -> Files \cup {None}]
        /\ ipc_done \in [Workers -> BOOLEAN]
        /\ up \in [Workers -> Seq(UpFrames)] /\ down \in [Workers -> Seq(DownFrames)]
        /\ proc \in [Workers -> ProcessType]
    BY DEF IInv, SlotsTyped, WiresTyped
  <1>7. /\ inflight'[w] = None /\ ~ipc_done'[w] /\ up'[w] = <<>>
        /\ \A v \in Workers : v # w =>
             /\ inflight'[v] = inflight[v] /\ ipc_done'[v] = ipc_done[v]
             /\ up'[v] = up[v]
    BY <1>1, <1>6 DEF InflightAfterReap
  <1>8. down'[w] = <<>> /\ \A v \in Workers : v # w => SameRuns(down[v], down'[v])
    <2> DEFINE dn == IF bails THEN ShutdownIdle(inflight, w) ELSE down
    <2>1. dn \in [Workers -> Seq(DownFrames)]
          /\ \A v \in Workers : SameRuns(down[v], dn[v])
      BY <1>6, ShutdownTyped, IdleRuns, ShutdownRuns
    <2>2. down' = [dn EXCEPT ![w] = <<>>]
      BY <1>1
    <2> HIDE DEF dn
    <2> QED BY <2>1, <2>2
  <1>9. /\ proc'[w].at \in {"none", "boot"} /\ proc'[w].ran = {}
        /\ proc'[w].out = <<>> /\ proc'[w].pending = None /\ proc'[w].file = None
    <2>1. proc'[w] = NewProcess \/ proc'[w] = NoProcess
      BY <1>1
    <2> QED BY <2>1 DEF NewProcess, NoProcess
  <1>10. ASSUME NEW v \in Workers, v # w
         PROVE  /\ proc'[v].at = proc[v].at /\ proc'[v].ran = proc[v].ran
                /\ proc'[v].pending = proc[v].pending
                /\ proc'[v].file = proc[v].file /\ proc'[v].out = proc[v].out
    <2>1. proc'[v] = proc[v] \/ proc'[v] = [proc[v] EXCEPT !.signal = "SIGTERM"]
      BY <1>1, <1>10
    <2>2. proc[v] \in ProcessType
      BY <1>6
    <2> QED BY <2>1, <2>2 DEF ProcessType
  <1>11. OthersUnmoved(w)
    BY <1>7, <1>8, <1>10 DEF OthersUnmoved, Unmoved
  <1>12. \A f \in Files, u \in Workers :
            Holds(range', u, f) => \E v \in Workers : Holds(range, v, f)
    <2>1. inflight[w] # None => verdict'[inflight[w]] # None
      <3>1. inflight[w] # None => inflight[w] \in Files
        BY <1>6
      <3> QED BY <1>5, <3>1, NoneAssumption DEF Placed
    <2>2. \A f \in Files : verdict[f] # None => verdict'[f] # None
      BY <1>5
    <2> QED BY <1>7, <2>1, <2>2, RangesShrink
  <1> QED BY <1>1, <1>5, <1>7, <1>8, <1>9, <1>11, <1>12 DEF Reaped

\* The channel of w is done, because its process is gone and everything has been
\* read, or because what comes is corrupt.
Closed(w) ==
    /\ OthersUnmoved(w)
    /\ UNCHANGED <<range, verdict, fate, delivered, owed, fragments, phase>>
    /\ UNCHANGED <<inflight, down>> /\ ipc_done'[w] /\ up'[w] = <<>>
    /\ proc'[w].at = proc[w].at /\ proc'[w].ran = proc[w].ran
    /\ proc'[w].pending = proc[w].pending /\ proc'[w].file = proc[w].file
    /\ proc'[w].out = proc[w].out

\* There is nothing to come from w that would be read.
Mute(w) ==
    \/ ipc_done[w]
    \/ up[w] = <<>>
    \/ up[w] # <<>> /\ Head(up[w]).kind = "Garbage"

\* Nothing the theorems below speak of changes, but for the phase.
Quiet ==
    /\ \A v \in Workers : Unmoved(v)
    /\ UNCHANGED <<range, verdict, fate, delivered, owed, fragments>>

\* How the end of a process or a channel is handled.
LEMMA EndEffect ==
    ASSUME IInv, IInv', NEW w \in Workers,
           OnProcessExit(w) \/ OnChannelClose(w) \/ OnGarbage(w)
    PROVE  \/ Mute(w) /\ (Reaped(w) \/ Closed(w))
           \/ Quiet /\ UNCHANGED phase
  <1>0. /\ ipc_done \in [Workers -> BOOLEAN] /\ up \in [Workers -> Seq(UpFrames)]
        /\ proc \in [Workers -> ProcessType]
    BY DEF IInv, SlotsTyped, WiresTyped
  <1>1. CASE OnProcessExit(w)
    <2>1. CASE Reapable(proc[w].status, ipc_done[w]) /\ Reap(w, proc[w].status)
      BY <2>1, ReapEffect DEF Mute, Reapable
    <2>2. CASE UNCHANGED <<range, inflight, ipc_done, fragments, phase, proc,
                           wires, history>>
      <3>1. Quiet /\ UNCHANGED phase
        BY <2>2 DEF Quiet, Unmoved, SameRuns, wires, history
      <3> QED BY <3>1
    <2> QED BY <1>1, <2>1, <2>2 DEF OnProcessExit
  <1>2. CASE OnChannelClose(w)
    <2>0. Mute(w) /\ up[w] = <<>>
      BY <1>2 DEF OnChannelClose, Mute
    <2>1. CASE Reap(w, exit_status[w])
      BY <2>0, <2>1, ReapEffect
    <2>2. CASE /\ ipc_done' = [ipc_done EXCEPT ![w] = TRUE]
               /\ UNCHANGED <<range, inflight, fragments, phase, proc, wires,
                              history>>
      <3>1. ipc_done'[w] /\ \A v \in Workers : v # w => ipc_done'[v] = ipc_done[v]
        BY <1>0, <2>2
      <3>2. Closed(w)
        BY <2>0, <2>2, <3>1
           DEF Closed, OthersUnmoved, Unmoved, SameRuns, wires, history
      <3> QED BY <2>0, <3>2
    <2> QED BY <1>2, <2>1, <2>2 DEF OnChannelClose
  <1>3. CASE OnGarbage(w)
    <2>0. Mute(w)
      BY <1>3 DEF OnGarbage, Mute
    <2>1. CASE Reap(w, exit_status[w])
      BY <2>0, <2>1, ReapEffect
    <2>2. CASE /\ ipc_done' = [ipc_done EXCEPT ![w] = TRUE]
               /\ up' = [up EXCEPT ![w] = <<>>]
               /\ proc' = IF w \in Running
                          THEN [proc EXCEPT ![w].signal = "SIGKILL"] ELSE proc
               /\ UNCHANGED <<range, inflight, fragments, phase, down, history>>
      <3>1. /\ ipc_done'[w] /\ up'[w] = <<>>
            /\ \A v \in Workers : v # w =>
                 ipc_done'[v] = ipc_done[v] /\ up'[v] = up[v]
        BY <1>0, <2>2
      <3>2. ASSUME NEW v \in Workers
            PROVE  /\ proc'[v].at = proc[v].at /\ proc'[v].ran = proc[v].ran
                   /\ proc'[v].pending = proc[v].pending
                   /\ proc'[v].file = proc[v].file /\ proc'[v].out = proc[v].out
        <4> DEFINE p == [proc[w] EXCEPT !.signal = "SIGKILL"]
        <4>1. /\ p.at = proc[w].at /\ p.ran = proc[w].ran
              /\ p.pending = proc[w].pending /\ p.file = proc[w].file
              /\ p.out = proc[w].out
          <5>1. proc[w] \in ProcessType
            BY <1>0
          <5> QED BY <5>1 DEF ProcessType
        <4>2. proc' = proc \/ proc' = [proc EXCEPT ![w] = p]
          BY <2>2
        <4> HIDE DEF p
        <4>3. proc'[v] = proc[v] \/ (v = w /\ proc'[v] = p)
          BY <1>0, <4>2
        <4> QED BY <4>1, <4>3
      <3>3. Closed(w)
        BY <2>2, <3>1, <3>2
           DEF Closed, OthersUnmoved, Unmoved, SameRuns, history
      <3> QED BY <2>0, <3>3
    <2> QED BY <1>3, <2>1, <2>2 DEF OnGarbage
  <1> QED BY <1>1, <1>2, <1>3

\* Slot v gets its first process.
Spawned(v) ==
    /\ proc[v].at = "none" /\ proc'[v] = NewProcess
    /\ inflight'[v] = inflight[v] /\ ipc_done'[v] = ipc_done[v] /\ up'[v] = up[v]
    /\ down'[v] = down[v]

\* drive() starts processes, or ends.
LEMMA DriveEffect ==
    ASSUME IInv, Start \/ ScaleUp \/ Finish \/ AbortAll
    PROVE  /\ \A v \in Workers : Unmoved(v) \/ Spawned(v)
           /\ UNCHANGED <<range, verdict, fate, delivered, owed, fragments>>
           /\ phase' = "done" => Finish \/ phase = "done"
  <1>1. CASE Finish \/ AbortAll
    BY <1>1 DEF Finish, AbortAll, slots, wires, history, Unmoved, SameRuns
  <1>2. ASSUME NEW n, SpawnUpTo(n)
        PROVE  /\ \A v \in Workers : Unmoved(v) \/ Spawned(v)
               /\ UNCHANGED <<range, verdict, fate, delivered, owed, fragments>>
    <2>1. /\ proc' = [w \in Workers |-> IF w \in spawned_count .. n - 1
                                        THEN NewProcess ELSE proc[w]]
          /\ UNCHANGED <<inflight, ipc_done, up, down>>
          /\ UNCHANGED <<range, verdict, fate, delivered, owed, fragments>>
      BY <1>2 DEF SpawnUpTo, wires, history
    <2>2. ASSUME NEW v \in Workers, v \in spawned_count .. n - 1
          PROVE  proc[v].at = "none"
      <3>1. v >= spawned_count
        BY <2>2
      <3> QED BY <3>1 DEF IInv, SpawnedInOrder
    <2>3. ASSUME NEW v \in Workers PROVE Unmoved(v) \/ Spawned(v)
      <3>1. CASE v \in spawned_count .. n - 1
        BY <2>1, <2>2, <3>1 DEF Spawned
      <3>2. CASE v \notin spawned_count .. n - 1
        BY <2>1, <3>2 DEF Unmoved, SameRuns
      <3> QED BY <3>1, <3>2
    <2> QED BY <2>1, <2>3
  <1>3. CASE Start
    BY <1>2, <1>3 DEF Start
  <1>4. CASE ScaleUp
    <2>1. PICK n \in Int : SpawnUpTo(n) /\ phase' \in {"exit1", phase}
      BY <1>4 DEF ScaleUp
    <2> QED BY <1>2, <2>1
  <1> QED BY <1>1, <1>3, <1>4

-----------------------------------------------------------------------------
(* Who has which file.                                                     *)

\* Where nothing moves, the file stays.
LEMMA UnmovedOneFile ==
    ASSUME NEW v \in Workers, Unmoved(v),
           OneFile(inflight[v], down[v], proc[v], up[v], ipc_done[v])
    PROVE  OneFile(inflight'[v], down'[v], proc'[v], up'[v], ipc_done'[v])
  BY DEF Unmoved, SameRuns, OneFile, Agrees, HasFile

\* A step of w keeps AInv if it does so for w.
LEMMA OthersOneFile ==
    ASSUME AInv, NEW w \in Workers, OthersUnmoved(w),
           OneFile(inflight'[w], down'[w], proc'[w], up'[w], ipc_done'[w])
    PROVE  AInv'
  <1>1. \A v \in Workers : v # w =>
           OneFile(inflight'[v], down'[v], proc'[v], up'[v], ipc_done'[v])
    BY UnmovedOneFile DEF AInv, OthersUnmoved
  <1> QED BY <1>1 DEF AInv

\* What a process writes, if it is no result, moves no file.
LEMMA WrittenOneFile ==
    ASSUME IInv, NEW w \in Workers, NEW m \in UpFrames, Written(w, m),
           NEW kind, NEW f
    PROVE  /\ m.kind # kind =>
                /\ Carries(up'[w], kind) <=> Carries(up[w], kind)
                /\ Carries(proc'[w].out, kind) <=> Carries(proc[w].out, kind)
                /\ Once(up[w], kind, f) => Once(up'[w], kind, f)
                /\ Once(proc[w].out, kind, f) => Once(proc'[w].out, kind, f)
           /\ m.kind = kind /\ m.file = f /\ ~Carries(up[w], kind)
                /\ ~Carries(proc[w].out, kind) =>
                /\ Once(up'[w], kind, f) /\ Once(proc'[w].out, kind, f)
                /\ ~(Carries(up'[w], kind) /\ Carries(proc'[w].out, kind))
                /\ ipc_done[w] \/ Carries(up'[w], kind) \/ Carries(proc'[w].out, kind)
  <1> DEFINE u == up[w]
             o == proc[w].out
  <1>1. u \in Seq(UpFrames) /\ o \in Seq(UpFrames)
    BY SocketsKept
  <1>2. \/ up'[w] = Append(u, m) /\ proc'[w].out = o
        \/ ipc_done[w] /\ up'[w] = u /\ proc'[w].out = o
        \/ up'[w] = u /\ proc'[w].out = Append(o, m)
    BY DEF Written
  <1> HIDE DEF u, o
  <1>3. /\ Carries(Append(u, m), kind) <=> Carries(u, kind) \/ m.kind = kind
        /\ m.kind # kind /\ Once(u, kind, f) => Once(Append(u, m), kind, f)
        /\ ~Carries(u, kind) /\ m.file = f => Once(Append(u, m), kind, f)
    BY <1>1, WrittenUp
  <1>4. /\ Carries(Append(o, m), kind) <=> Carries(o, kind) \/ m.kind = kind
        /\ m.kind # kind /\ Once(o, kind, f) => Once(Append(o, m), kind, f)
        /\ ~Carries(o, kind) /\ m.file = f => Once(Append(o, m), kind, f)
    BY <1>1, WrittenUp
  <1> QED BY <1>2, <1>3, <1>4, CarriesNothing DEF u, o

\* A new process has no file.
LEMMA BootOneFile ==
    ASSUME IInv, AInv, NEW w \in Workers, Boot(w) PROVE AInv'
  <1> DEFINE m == [kind |-> "Ready"]
  <1>1. /\ OthersUnmoved(w) /\ inflight[w] = None
        /\ inflight' = inflight /\ ipc_done' = ipc_done /\ down' = down
        /\ up[w] = <<>> /\ up'[w] = <<m>> /\ proc'[w].out = proc[w].out
        /\ proc[w].at = "boot" /\ proc'[w].at = "idle"
        /\ proc'[w].pending = proc[w].pending /\ proc'[w].file = proc[w].file
    BY BootEffect
  <1>2. /\ ~Carries(<<m>>, "FileDone") /\ Once(<<m>>, "FileDone", inflight[w])
    BY DEF Carries, Once
  <1> HIDE DEF m
  <1>3. OneFile(inflight[w], down[w], proc[w], up[w], ipc_done[w])
    BY DEF AInv
  <1>4. OneFile(inflight'[w], down'[w], proc'[w], up'[w], ipc_done'[w])
    BY <1>1, <1>2, <1>3 DEF OneFile, Agrees, HasFile
  <1> QED BY <1>1, <1>4, OthersOneFile

\* A command turns into the pending file.
LEMMA ReceiveOneFile ==
    ASSUME IInv, AInv, NEW w \in Workers, Receive(w) PROVE AInv'
  <1> DEFINE d == down[w]
             f == inflight[w]
  <1>1. /\ OthersUnmoved(w)
        /\ inflight' = inflight /\ ipc_done' = ipc_done /\ up' = up
        /\ d # <<>> /\ down'[w] = Tail(d)
        /\ proc'[w].at = proc[w].at /\ proc'[w].out = proc[w].out
        /\ proc'[w].file = proc[w].file
        /\ proc'[w].pending = IF Head(d).kind = "Run"
                              THEN Head(d).file ELSE proc[w].pending
    BY ReceiveEffect
  <1>2. d \in Seq(DownFrames)
    BY SocketsKept
  <1>3. OneFile(f, d, proc[w], up[w], ipc_done[w])
    BY DEF AInv
  <1> HIDE DEF d, f
  <1>4. /\ Tail(d) \in Seq(DownFrames) /\ Head(d) \in DownFrames
        /\ Carries(d, "Run") <=> Carries(Tail(d), "Run") \/ Head(d).kind = "Run"
        /\ Once(d, "Run", f) =>
             /\ Once(Tail(d), "Run", f)
             /\ Head(d).kind = "Run" => Head(d).file = f /\ ~Carries(Tail(d), "Run")
    BY <1>1, <1>2, ReadDown
  <1>5. Head(d).kind = "Run" => Head(d).file # None
    BY <1>4, Commands, NoneAssumption
  <1>6. OneFile(f, Tail(d), proc'[w], up[w], ipc_done[w])
    BY <1>1, <1>3, <1>4, <1>5 DEF OneFile, Agrees, HasFile
  <1>7. OneFile(inflight'[w], down'[w], proc'[w], up'[w], ipc_done'[w])
    BY <1>1, <1>6 DEF f
  <1> QED BY <1>1, <1>7, OthersOneFile

\* The pending file turns into the one that runs.
LEMMA StartFileOneFile ==
    ASSUME IInv, AInv, NEW w \in Workers, StartFile(w) PROVE AInv'
  <1> DEFINE m == [kind |-> "FileStart"]
  <1>1. /\ OthersUnmoved(w) /\ Written(w, m)
        /\ inflight' = inflight /\ ipc_done' = ipc_done /\ down' = down
        /\ proc[w].at = "idle" /\ proc'[w].at = "run"
        /\ proc[w].pending \in Files /\ proc'[w].pending = None
        /\ proc'[w].file = proc[w].pending
    BY StartFileEffect
  <1>2. m \in UpFrames /\ m.kind # "FileDone" /\ m.kind # "Garbage"
    BY Frames
  <1> HIDE DEF m
  <1>3. /\ Carries(up'[w], "FileDone") <=> Carries(up[w], "FileDone")
        /\ Carries(proc'[w].out, "FileDone") <=> Carries(proc[w].out, "FileDone")
        /\ Once(up[w], "FileDone", inflight[w]) => Once(up'[w], "FileDone", inflight[w])
        /\ Once(proc[w].out, "FileDone", inflight[w]) =>
             Once(proc'[w].out, "FileDone", inflight[w])
    BY <1>1, <1>2, WrittenOneFile
  <1>4. Carries(up'[w], "Garbage") <=> Carries(up[w], "Garbage")
    BY <1>1, <1>2, WrittenOneFile
  <1>5. OneFile(inflight[w], down[w], proc[w], up[w], ipc_done[w])
    BY DEF AInv
  <1>6. OneFile(inflight'[w], down'[w], proc'[w], up'[w], ipc_done'[w])
    BY <1>1, <1>3, <1>4, <1>5, NoneAssumption DEF OneFile, Agrees, HasFile
  <1> QED BY <1>1, <1>6, OthersOneFile

\* The file that runs turns into a result.
LEMMA FinishFileOneFile ==
    ASSUME IInv, AInv, NEW w \in Workers, FinishFile(w) PROVE AInv'
  <1>1. /\ OthersUnmoved(w)
        /\ inflight' = inflight /\ ipc_done' = ipc_done /\ down' = down
        /\ proc[w].at = "run" /\ proc'[w].at = "idle"
        /\ proc[w].file \in Files /\ proc'[w].file = None
        /\ proc'[w].pending = proc[w].pending
    BY FinishFileEffect
  <1>2. PICK failed \in BOOLEAN :
           Written(w, [kind |-> "FileDone", file |-> proc[w].file,
                       failed |-> failed])
    BY FinishFileEffect
  <1> DEFINE m == [kind |-> "FileDone", file |-> proc[w].file, failed |-> failed]
  <1>3. m \in UpFrames /\ m.kind = "FileDone" /\ m.file = proc[w].file /\ Written(w, m)
    BY <1>1, <1>2, Frames
  <1> HIDE DEF m
  <1>4. OneFile(inflight[w], down[w], proc[w], up[w], ipc_done[w])
    BY DEF AInv
  <1>5. /\ proc[w].file # None /\ proc[w].file = inflight[w]
        /\ ~Carries(up[w], "FileDone") /\ ~Carries(proc[w].out, "FileDone")
        /\ ~Carries(down[w], "Run") /\ proc[w].pending = None
    BY <1>1, <1>4, NoneAssumption DEF OneFile, Agrees
  <1>6. /\ Once(up'[w], "FileDone", inflight[w])
        /\ Once(proc'[w].out, "FileDone", inflight[w])
        /\ ~(Carries(up'[w], "FileDone") /\ Carries(proc'[w].out, "FileDone"))
        /\ \/ ipc_done[w] \/ Carries(up'[w], "FileDone")
           \/ Carries(proc'[w].out, "FileDone")
    BY <1>3, <1>5, WrittenOneFile
  <1>7. OneFile(inflight'[w], down'[w], proc'[w], up'[w], ipc_done'[w])
    BY <1>1, <1>4, <1>5, <1>6 DEF OneFile, Agrees, HasFile
  <1> QED BY <1>1, <1>7, OthersOneFile

\* A result moves from the backlog to the socket.
LEMMA FlushOutOneFile ==
    ASSUME IInv, AInv, NEW w \in Workers, FlushOut(w) PROVE AInv'
  <1> DEFINE o == proc[w].out
             m == Head(o)
             u == up[w]
             f == inflight[w]
  <1>1. /\ OthersUnmoved(w)
        /\ inflight' = inflight /\ ipc_done' = ipc_done /\ down' = down
        /\ o # <<>> /\ proc'[w].out = Tail(o)
        /\ up'[w] = IF ipc_done[w] THEN u ELSE Append(u, m)
        /\ proc'[w].at = proc[w].at
        /\ proc'[w].pending = proc[w].pending /\ proc'[w].file = proc[w].file
    BY FlushOutEffect
  <1>2. o \in Seq(UpFrames) /\ u \in Seq(UpFrames)
    BY SocketsKept
  <1>3. OneFile(f, down[w], proc[w], u, ipc_done[w]) /\ proc[w].out = o
    BY DEF AInv
  <1> HIDE DEF o, u, f
  <1>4. /\ m \in UpFrames
        /\ Carries(o, "FileDone") <=> Carries(Tail(o), "FileDone") \/ m.kind = "FileDone"
        /\ Once(o, "FileDone", f) =>
             /\ Once(Tail(o), "FileDone", f)
             /\ m.kind = "FileDone" => m.file = f /\ ~Carries(Tail(o), "FileDone")
    BY <1>1, <1>2, ReadUp
  <1> HIDE DEF m
  <1>5. /\ Carries(Append(u, m), "FileDone") <=> Carries(u, "FileDone") \/ m.kind = "FileDone"
        /\ m.kind # "FileDone" /\ Once(u, "FileDone", f) =>
             Once(Append(u, m), "FileDone", f)
        /\ ~Carries(u, "FileDone") /\ m.file = f => Once(Append(u, m), "FileDone", f)
        /\ Carries(u, "Garbage") => Carries(Append(u, m), "Garbage")
    BY <1>2, <1>4, WrittenUp
  <1>6. CASE ipc_done[w]
    <2>1. OneFile(f, down[w], proc'[w], u, ipc_done[w])
      BY <1>1, <1>3, <1>4, <1>6 DEF OneFile, Agrees, HasFile
    <2>2. OneFile(inflight'[w], down'[w], proc'[w], up'[w], ipc_done'[w])
      BY <1>1, <1>6, <2>1 DEF f
    <2> QED BY <1>1, <2>2, OthersOneFile
  <1>7. CASE ~ipc_done[w]
    <2>1. OneFile(f, down[w], proc'[w], Append(u, m), ipc_done[w])
      BY <1>1, <1>3, <1>4, <1>5, <1>7 DEF OneFile, Agrees, HasFile
    <2>2. OneFile(inflight'[w], down'[w], proc'[w], up'[w], ipc_done'[w])
      BY <1>1, <1>7, <2>1 DEF f
    <2> QED BY <1>1, <2>2, OthersOneFile
  <1> QED BY <1>6, <1>7

\* Aggregates are no result.
LEMMA FlushAggregatesOneFile ==
    ASSUME IInv, AInv, NEW w \in Workers, FlushAggregates(w) PROVE AInv'
  <1> DEFINE m == [kind |-> "Aggregates", files |-> proc[w].ran]
             o == proc[w].out
  <1>1. /\ OthersUnmoved(w)
        /\ inflight' = inflight /\ ipc_done' = ipc_done /\ down' = down /\ up' = up
        /\ proc[w].at = "idle" /\ proc'[w].at = "flush"
        /\ proc'[w].pending = proc[w].pending /\ proc'[w].file = proc[w].file
        /\ proc[w].ran \subseteq Files /\ proc'[w].out = Append(o, m)
    BY FlushAggregatesEffect
  <1>2. m \in UpFrames /\ m.kind = "Aggregates" /\ o \in Seq(UpFrames)
    BY <1>1, Frames, SocketsKept
  <1>3. OneFile(inflight[w], down[w], proc[w], up[w], ipc_done[w]) /\ proc[w].out = o
    BY DEF AInv
  <1> HIDE DEF m, o
  <1>4. /\ Carries(Append(o, m), "FileDone") <=> Carries(o, "FileDone")
        /\ Once(o, "FileDone", inflight[w]) => Once(Append(o, m), "FileDone", inflight[w])
    BY <1>2, WrittenUp
  <1>5. OneFile(inflight'[w], down'[w], proc'[w], up'[w], ipc_done'[w])
    BY <1>1, <1>3, <1>4 DEF OneFile, Agrees, HasFile
  <1> QED BY <1>1, <1>5, OthersOneFile

\* A process that ends takes its file with it; its results stay.
LEMMA GoneOneFile ==
    ASSUME IInv, AInv, NEW w \in Workers, NEW status \in {"exit", "panic"},
           Gone(w, status)
    PROVE  AInv'
  <1>1. /\ OthersUnmoved(w)
        /\ inflight' = inflight /\ ipc_done' = ipc_done /\ up' = up
        /\ down'[w] = <<>> /\ proc'[w].at = "gone" /\ proc'[w].out = <<>>
        /\ proc'[w].pending = None /\ proc'[w].file = None
    BY GoneEffect
  <1>2. OneFile(inflight[w], down[w], proc[w], up[w], ipc_done[w])
    BY DEF AInv
  <1>3. OneFile(inflight'[w], down'[w], proc'[w], up'[w], ipc_done'[w])
    BY <1>1, <1>2, CarriesNothing DEF OneFile, Agrees
  <1> QED BY <1>1, <1>3, OthersOneFile

\* What is no frame is no result.
LEMMA WriteGarbageOneFile ==
    ASSUME IInv, AInv, NEW w \in Workers, WriteGarbage(w) PROVE AInv'
  <1> DEFINE m == [kind |-> "Garbage"]
             u == up[w]
  <1>1. /\ OthersUnmoved(w)
        /\ inflight' = inflight /\ ipc_done' = ipc_done /\ down' = down /\ proc' = proc
        /\ up'[w] = Append(u, m)
    BY WriteGarbageEffect
  <1>2. m \in UpFrames /\ m.kind = "Garbage" /\ u \in Seq(UpFrames)
    BY Frames, SocketsKept
  <1>3. OneFile(inflight[w], down[w], proc[w], u, ipc_done[w])
    BY DEF AInv
  <1> HIDE DEF m, u
  <1>4. /\ Carries(Append(u, m), "FileDone") <=> Carries(u, "FileDone")
        /\ Once(u, "FileDone", inflight[w]) => Once(Append(u, m), "FileDone", inflight[w])
    BY <1>2, WrittenUp
  <1>5. Carries(Append(u, m), "Garbage")
    BY <1>2, WrittenUp
  <1>6. OneFile(inflight'[w], down'[w], proc'[w], up'[w], ipc_done'[w])
    BY <1>1, <1>3, <1>4, <1>5 DEF OneFile, Agrees
  <1> QED BY <1>1, <1>6, OthersOneFile

\* A frame that is no result is read.
LEMMA ReadOneFile ==
    ASSUME IInv, AInv, NEW w \in Workers, NEW kind, Frame(w, kind),
           kind \notin {"FileDone", "Garbage"}
    PROVE  /\ OneFile(inflight[w], down[w], proc[w], up'[w], ipc_done[w])
           /\ Carries(up'[w], "FileDone") <=> Carries(up[w], "FileDone")
           /\ Carries(up'[w], "Garbage") <=> Carries(up[w], "Garbage")
  <1> DEFINE u == up[w]
  <1>1. u # <<>> /\ Head(u).kind = kind /\ up'[w] = Tail(u) /\ u \in Seq(UpFrames)
    BY FrameEffect, SocketsKept
  <1>2. OneFile(inflight[w], down[w], proc[w], u, ipc_done[w])
    BY DEF AInv
  <1> HIDE DEF u
  <1>3. /\ Carries(u, "FileDone") <=> Carries(Tail(u), "FileDone")
        /\ Once(u, "FileDone", inflight[w]) => Once(Tail(u), "FileDone", inflight[w])
    BY <1>1, ReadUp
  <1>4. Carries(u, "Garbage") <=> Carries(Tail(u), "Garbage")
    BY <1>1, ReadUp
  <1>5. OneFile(inflight[w], down[w], proc[w], Tail(u), ipc_done[w])
    BY <1>2, <1>3, <1>4 DEF OneFile, Agrees, HasFile
  <1> QED BY <1>1, <1>3, <1>4, <1>5 DEF u

\* FileStart and Aggregates move no file.
LEMMA OnOtherFrameOneFile ==
    ASSUME IInv, AInv, NEW w \in Workers, OnFileStart(w) \/ OnAggregates(w)
    PROVE  AInv'
  <1>1. /\ OthersUnmoved(w)
        /\ inflight' = inflight /\ ipc_done' = ipc_done /\ down' = down /\ proc' = proc
        /\ Frame(w, "FileStart") \/ Frame(w, "Aggregates")
    BY OnOtherFrameEffect
  <1>2. OneFile(inflight[w], down[w], proc[w], up'[w], ipc_done[w])
    BY <1>1, ReadOneFile
  <1>3. OneFile(inflight'[w], down'[w], proc'[w], up'[w], ipc_done'[w])
    BY <1>1, <1>2
  <1> QED BY <1>1, <1>3, OthersOneFile

\* A worker without a file is given one.
LEMMA AssignedOneFile ==
    ASSUME NEW w \in Workers, Assigned(w), NEW f, NEW u,
           Agrees(f, down[w], proc[w], u),
           ~Carries(down[w], "Run"), proc[w].pending = None, proc[w].file = None,
           ~Carries(proc[w].out, "FileDone"), ~Carries(u, "FileDone")
    PROVE  OneFile(inflight'[w], down'[w], proc[w], u, ipc_done[w])
  <1>1. CASE inflight'[w] = None /\ SameRuns(down[w], down'[w])
    BY <1>1, CarriesNothing DEF SameRuns, OneFile, Agrees
  <1>2. CASE /\ Once(down'[w], "Run", inflight'[w])
             /\ IF CanHear(w) THEN Carries(down'[w], "Run")
                ELSE SameRuns(down[w], down'[w])
    BY <1>2, CarriesNothing
       DEF SameRuns, OneFile, Agrees, HasFile, CanHear, Running
  <1> QED BY <1>1, <1>2 DEF Assigned

\* A worker in whose slot nothing is in flight has no file.
LEMMA NothingInFlight ==
    ASSUME IInv, AInv, NEW w \in Workers, inflight[w] = None
    PROVE  /\ ~Carries(down[w], "Run") /\ ~Carries(proc[w].out, "FileDone")
           /\ ~Carries(up[w], "FileDone")
           /\ proc[w].pending = None /\ proc[w].file = None
  <1>1. /\ Once(down[w], "Run", None) /\ Once(proc[w].out, "FileDone", None)
        /\ Once(up[w], "FileDone", None)
        /\ proc[w].pending = None /\ proc[w].file = None
    BY DEF AInv, OneFile, Agrees
  <1>2. /\ \A i \in DOMAIN down[w] : down[w][i] \in DownFrames
        /\ \A i \in DOMAIN proc[w].out : proc[w].out[i] \in UpFrames
        /\ \A i \in DOMAIN up[w] : up[w][i] \in UpFrames
    <2>1. /\ down[w] \in Seq(DownFrames) /\ proc[w].out \in Seq(UpFrames)
          /\ up[w] \in Seq(UpFrames)
      BY SocketsKept
    <2> QED BY <2>1
  <1>3. ~Carries(down[w], "Run")
    BY <1>1, <1>2, Commands, NoneAssumption DEF Once, Carries
  <1>4. ~Carries(proc[w].out, "FileDone") /\ ~Carries(up[w], "FileDone")
    BY <1>1, <1>2, Frames, NoneAssumption DEF Once, Carries
  <1> QED BY <1>1, <1>3, <1>4

\* A worker that is ready has no file yet, and may be given one.
LEMMA OnReadyOneFile ==
    ASSUME IInv, IInv', AInv, NEW w \in Workers, OnReady(w) PROVE AInv'
  <1>1. /\ OthersUnmoved(w) /\ inflight[w] = None
        /\ ipc_done' = ipc_done /\ proc' = proc
        /\ Frame(w, "Ready") /\ Assigned(w)
    BY OnReadyEffect
  <1>2. /\ OneFile(inflight[w], down[w], proc[w], up'[w], ipc_done[w])
        /\ Carries(up'[w], "FileDone") <=> Carries(up[w], "FileDone")
    BY <1>1, ReadOneFile
  <1>3. Agrees(inflight[w], down[w], proc[w], up'[w])
    BY <1>2 DEF OneFile
  <1>4. OneFile(inflight'[w], down'[w], proc[w], up'[w], ipc_done[w])
    BY <1>1, <1>2, <1>3, NothingInFlight, AssignedOneFile
  <1>5. OneFile(inflight'[w], down'[w], proc'[w], up'[w], ipc_done'[w])
    BY <1>1, <1>4
  <1> QED BY <1>1, <1>5, OthersOneFile

\* The result that is read is the one awaited: no other file is on the way.
LEMMA ResultIsAwaited ==
    ASSUME IInv, AInv, NEW w \in Workers, Frame(w, "FileDone")
    PROVE  /\ inflight[w] = Head(up[w]).file
           /\ Agrees(inflight[w], down[w], proc[w], up'[w])
           /\ ~Carries(down[w], "Run")
           /\ proc[w].pending = None /\ proc[w].file = None
           /\ ~Carries(proc[w].out, "FileDone") /\ ~Carries(up'[w], "FileDone")
  <1> DEFINE u == up[w]
  <1>1. u # <<>> /\ Head(u).kind = "FileDone" /\ up'[w] = Tail(u) /\ u \in Seq(UpFrames)
    BY FrameEffect, SocketsKept
  <1>2. Agrees(inflight[w], down[w], proc[w], u)
    BY DEF AInv, OneFile
  <1> HIDE DEF u
  <1>3. /\ Carries(u, "FileDone")
        /\ Once(u, "FileDone", inflight[w]) =>
             /\ Once(Tail(u), "FileDone", inflight[w])
             /\ Head(u).file = inflight[w] /\ ~Carries(Tail(u), "FileDone")
    BY <1>1, ReadUp
  <1>4. /\ inflight[w] = Head(u).file
        /\ Agrees(inflight[w], down[w], proc[w], Tail(u))
        /\ ~Carries(down[w], "Run")
        /\ proc[w].pending = None /\ proc[w].file = None
        /\ ~Carries(proc[w].out, "FileDone") /\ ~Carries(Tail(u), "FileDone")
    BY <1>2, <1>3 DEF Agrees
  <1> QED BY <1>1, <1>4 DEF u

\* With its result a file leaves the worker, which may be given another.
LEMMA OnFileDoneOneFile ==
    ASSUME IInv, IInv', AInv, NEW w \in Workers, OnFileDone(w) PROVE AInv'
  <1>0. Frame(w, "FileDone")
    BY DEF OnFileDone
  <1>1. /\ inflight[w] = Head(up[w]).file
        /\ Agrees(inflight[w], down[w], proc[w], up'[w])
        /\ ~Carries(down[w], "Run")
        /\ proc[w].pending = None /\ proc[w].file = None
        /\ ~Carries(proc[w].out, "FileDone") /\ ~Carries(up'[w], "FileDone")
    BY <1>0, ResultIsAwaited
  <1>2. /\ OthersUnmoved(w) /\ ipc_done' = ipc_done /\ proc' = proc /\ Assigned(w)
    BY <1>1, OnFileDoneEffect
  <1>3. OneFile(inflight'[w], down'[w], proc[w], up'[w], ipc_done[w])
    BY <1>1, <1>2, AssignedOneFile
  <1>4. OneFile(inflight'[w], down'[w], proc'[w], up'[w], ipc_done'[w])
    BY <1>2, <1>3
  <1> QED BY <1>2, <1>4, OthersOneFile

\* A slot that is torn down has no file; a channel that is done has no result.
LEMMA EndOneFile ==
    ASSUME IInv, IInv', AInv, NEW w \in Workers,
           OnProcessExit(w) \/ OnChannelClose(w) \/ OnGarbage(w)
    PROVE  AInv'
  <1>1. CASE Reaped(w)
    <2>1. OneFile(inflight'[w], down'[w], proc'[w], up'[w], ipc_done'[w])
      BY <1>1, CarriesNothing DEF Reaped, OneFile, Agrees
    <2>2. OthersUnmoved(w)
      BY <1>1 DEF Reaped
    <2> QED BY <2>1, <2>2, OthersOneFile
  <1>2. CASE Closed(w)
    <2>1. OneFile(inflight[w], down[w], proc[w], up[w], ipc_done[w])
      BY DEF AInv
    <2>2. OneFile(inflight'[w], down'[w], proc'[w], up'[w], ipc_done'[w])
      BY <1>2, <2>1, CarriesNothing DEF Closed, OneFile, Agrees
    <2>3. OthersUnmoved(w)
      BY <1>2 DEF Closed
    <2> QED BY <2>2, <2>3, OthersOneFile
  <1>3. CASE Quiet
    BY <1>3, UnmovedOneFile DEF Quiet, AInv
  <1> QED BY <1>1, <1>2, <1>3, EndEffect

\* Processes that start have no file.
LEMMA DriveOneFile ==
    ASSUME IInv, AInv, Start \/ ScaleUp \/ Finish \/ AbortAll PROVE AInv'
  <1>1. ASSUME NEW v \in Workers
        PROVE  OneFile(inflight'[v], down'[v], proc'[v], up'[v], ipc_done'[v])
    <2>0. OneFile(inflight[v], down[v], proc[v], up[v], ipc_done[v])
      BY DEF AInv
    <2>1. CASE Unmoved(v)
      BY <2>0, <2>1, UnmovedOneFile
    <2>2. CASE Spawned(v)
      <3>1. inflight[v] = None /\ proc[v].out = <<>>
        BY <2>2 DEF IInv, FreshIsClean, Spawned
      <3>2. NewProcess.out = <<>> /\ NewProcess.pending = None
            /\ NewProcess.file = None
        BY DEF NewProcess, NoProcess
      <3> QED BY <2>0, <2>2, <3>1, <3>2, CarriesNothing DEF Spawned, OneFile, Agrees
    <2> QED BY <2>1, <2>2, DriveEffect
  <1> QED BY <1>1 DEF AInv

\* In the beginning nobody has a file.
LEMMA InitOneFile == Init => AInv
  <1> SUFFICES ASSUME Init, NEW w \in Workers
               PROVE  OneFile(inflight[w], down[w], proc[w], up[w], ipc_done[w])
    BY DEF AInv
  <1>1. /\ inflight[w] = None /\ down[w] = <<>> /\ up[w] = <<>>
        /\ proc[w].pending = None /\ proc[w].file = None /\ proc[w].out = <<>>
    BY DEF Init, NoProcess
  <1> QED BY <1>1, CarriesNothing DEF OneFile, Agrees

\* Every step keeps the agreement.
LEMMA NextOneFile == IInv /\ IInv' /\ AInv /\ [Next]_vars => AInv'
  <1> SUFFICES ASSUME IInv, IInv', AInv, [Next]_vars PROVE AInv'
    OBVIOUS
  <1>1. CASE UNCHANGED vars
    BY <1>1 DEF vars, slots, wires, AInv
  <1>2. CASE Start \/ ScaleUp \/ Finish \/ AbortAll
    BY <1>2, DriveOneFile
  <1>3. ASSUME NEW w \in Workers, ProcessStep(w) PROVE AInv'
    <2>1. CASE ExitClean(w)
      BY <2>1, GoneOneFile DEF ExitClean
    <2> QED
      BY <1>3, <2>1, BootOneFile, ReceiveOneFile, StartFileOneFile,
         FinishFileOneFile, FlushOutOneFile, FlushAggregatesOneFile DEF ProcessStep
  <1>4. ASSUME NEW w \in Workers, Callback(w) PROVE AInv'
    BY <1>4, OnReadyOneFile, OnOtherFrameOneFile, OnFileDoneOneFile, EndOneFile
       DEF Callback
  <1>5. ASSUME NEW w \in Workers, Die(w) \/ Killed(w) PROVE AInv'
    BY <1>5, GoneOneFile DEF Die, Killed
  <1>6. ASSUME NEW w \in Workers, WriteGarbage(w) PROVE AInv'
    BY <1>6, WriteGarbageOneFile
  <1> QED BY <1>1, <1>2, <1>3, <1>4, <1>5, <1>6 DEF Next

\* AInv is an invariant.
THEOREM TestCoordinatorAgreement == Spec => [](IInv /\ AInv)
  <1>1. Init => IInv /\ AInv
    BY InitIInv, InitOneFile
  <1>2. (IInv /\ AInv) /\ [Next]_vars => (IInv /\ AInv)'
    BY NextKeeps, NextOneFile
  <1> QED BY <1>1, <1>2, PTL DEF Spec

\* The tokens of a queue and of a field.
InQueue(tag, q, kind) ==
    {<<tag, q[i].file, i>> : i \in {j \in DOMAIN q : q[j].kind = kind}}
InField(tag, x) == {<<tag, y, 0>> : y \in {x} \ {None}}

\* There is one at most, and it is of file f.
LEMMA QueueTokens ==
    ASSUME NEW q, NEW kind, NEW f, NEW tag, Once(q, kind, f)
    PROVE  /\ \A t \in InQueue(tag, q, kind) : t[2] = f
           /\ \A s, t \in InQueue(tag, q, kind) : s = t
           /\ (InQueue(tag, q, kind) # {}) <=> Carries(q, kind)
  <1> DEFINE S == InQueue(tag, q, kind)
  <1>1. ASSUME NEW t \in S
        PROVE  \E i \in DOMAIN q : q[i].kind = kind /\ t = <<tag, q[i].file, i>>
    BY DEF InQueue
  <1>2. \A t \in S : t[2] = f
    <2> SUFFICES ASSUME NEW t \in S PROVE t[2] = f
      OBVIOUS
    <2>1. PICK i \in DOMAIN q : q[i].kind = kind /\ t = <<tag, q[i].file, i>>
      BY <1>1
    <2> QED BY <2>1 DEF Once
  <1>3. \A s, t \in S : s = t
    <2> SUFFICES ASSUME NEW s \in S, NEW t \in S PROVE s = t
      OBVIOUS
    <2>1. PICK i \in DOMAIN q : q[i].kind = kind /\ s = <<tag, q[i].file, i>>
      BY <1>1
    <2>2. PICK j \in DOMAIN q : q[j].kind = kind /\ t = <<tag, q[j].file, j>>
      BY <1>1
    <2>3. i = j
      BY <2>1, <2>2 DEF Once
    <2> QED BY <2>1, <2>2, <2>3
  <1>4. ASSUME Carries(q, kind) PROVE S # {}
    <2>1. PICK i \in DOMAIN q : q[i].kind = kind
      BY <1>4 DEF Carries
    <2>2. <<tag, q[i].file, i>> \in S
      BY <2>1 DEF InQueue
    <2> QED BY <2>2
  <1>5. ASSUME S # {} PROVE Carries(q, kind)
    BY <1>1, <1>5 DEF Carries
  <1> QED BY <1>2, <1>3, <1>4, <1>5

\* A field holds one token or none.
LEMMA FieldTokens ==
    ASSUME NEW x, NEW f, NEW tag, x \in {None, f}
    PROVE  /\ \A t \in InField(tag, x) : t[2] = f
           /\ \A s, t \in InField(tag, x) : s = t
           /\ (InField(tag, x) # {}) <=> x # None
  <1> DEFINE S == InField(tag, x)
  <1>1. \A t \in S : x # None /\ t = <<tag, x, 0>>
    BY DEF InField
  <1>2. \A t \in S : t[2] = f
    <2> SUFFICES ASSUME NEW t \in S PROVE t[2] = f
      OBVIOUS
    <2>1. t = <<tag, x, 0>> /\ x = f
      BY <1>1
    <2> QED BY <2>1
  <1>3. ASSUME x # None PROVE <<tag, x, 0>> \in S
    BY <1>3 DEF InField
  <1> QED BY <1>1, <1>2, <1>3

\* A worker's file is where the coordinator thinks it is.
LEMMA AgreementIsInflight == IInv /\ AInv => InflightAgrees
  <1> SUFFICES ASSUME IInv, AInv, NEW w \in Workers
               PROVE  /\ \A t \in Tokens(w) : t[2] = inflight[w]
                      /\ Cardinality(Tokens(w)) <= 1
                      /\ CanHear(w) /\ Intact(w) /\ inflight[w] # None =>
                           Tokens(w) # {}
    BY DEF InflightAgrees
  <1> DEFINE f == inflight[w]
             d == down[w]
             p == proc[w]
             u == up[w]
             D == InQueue("down", d, "Run")
             P == InField("pending", p.pending)
             R == InField("file", p.file)
             O == InQueue("out", p.out, "FileDone")
             U == InQueue("up", u, "FileDone")
  <1>1. Tokens(w) = D \cup P \cup R \cup O \cup U
    BY DEF Tokens, InQueue, InField
  <1>2. OneFile(f, d, p, u, ipc_done[w])
    BY DEF AInv
  <1> HIDE DEF f, d, p, u
  <1>3. Agrees(f, d, p, u)
    BY <1>2 DEF OneFile
  <1>4. /\ \A t \in D : t[2] = f
        /\ \A s, t \in D : s = t
        /\ (D # {}) <=> Carries(d, "Run")
    <2>1. Once(d, "Run", f)
      BY <1>3 DEF Agrees
    <2> QED BY <2>1, QueueTokens
  <1>5. /\ \A t \in O : t[2] = f
        /\ \A s, t \in O : s = t
        /\ (O # {}) <=> Carries(p.out, "FileDone")
    <2>1. Once(p.out, "FileDone", f)
      BY <1>3 DEF Agrees
    <2> QED BY <2>1, QueueTokens
  <1>6. /\ \A t \in U : t[2] = f
        /\ \A s, t \in U : s = t
        /\ (U # {}) <=> Carries(u, "FileDone")
    <2>1. Once(u, "FileDone", f)
      BY <1>3 DEF Agrees
    <2> QED BY <2>1, QueueTokens
  <1>7. /\ \A t \in P : t[2] = f
        /\ \A s, t \in P : s = t
        /\ (P # {}) <=> p.pending # None
    <2>1. p.pending \in {None, f}
      BY <1>3 DEF Agrees
    <2> QED BY <2>1, FieldTokens
  <1>8. /\ \A t \in R : t[2] = f
        /\ \A s, t \in R : s = t
        /\ (R # {}) <=> p.file # None
    <2>1. p.file \in {None, f}
      BY <1>3 DEF Agrees
    <2> QED BY <2>1, FieldTokens
  <1> HIDE DEF D, P, R, O, U
  <1>9. \A s, t \in Tokens(w) : s = t
    BY <1>1, <1>3, <1>4, <1>5, <1>6, <1>7, <1>8 DEF Agrees
  <1>10. \A t \in Tokens(w) : t[2] = f
    BY <1>1, <1>4, <1>5, <1>6, <1>7, <1>8
  <1>11. Cardinality(Tokens(w)) <= 1
    <2>1. CASE Tokens(w) = {}
      BY <2>1, FS_EmptySet
    <2>2. CASE Tokens(w) # {}
      <3>1. PICK t \in Tokens(w) : TRUE
        BY <2>2
      <3>2. Tokens(w) = {t}
        BY <1>9, <3>1
      <3>3. Cardinality({t}) = 1
        BY FS_Singleton
      <3> QED BY <3>2, <3>3
    <2> QED BY <2>1, <2>2
  <1>12. CanHear(w) /\ Intact(w) /\ f # None => Tokens(w) # {}
    <2>1. CanHear(w) /\ Intact(w) =>
             ~ipc_done[w] /\ p.at \notin {"none", "gone"} /\ ~Carries(u, "Garbage")
      BY DEF CanHear, Running, Intact, Carries, p, u
    <2>2. HasFile(d, p, u) => Tokens(w) # {}
      BY <1>1, <1>4, <1>5, <1>6, <1>7, <1>8 DEF HasFile
    <2> QED BY <1>2, <2>1, <2>2 DEF OneFile
  <1> QED BY <1>10, <1>11, <1>12 DEF f

\* The coordinator and a worker agree on the file the worker has, so the single
\* pending slot of a process is never overwritten and on_file_done never meets
\* a result that is not awaited.
THEOREM TestWorkersHaveTheirFile == Spec => []InflightAgrees
  BY AgreementIsInflight, TestCoordinatorAgreement, PTL

-----------------------------------------------------------------------------
(* Results.                                                                *)

Fates == {"unrun", "started", "pass", "fail", "twice"}

\* What a FileDone frame says of its file, and that a queue says x.
Result(m) == IF m.failed THEN "fail" ELSE "pass"
Tells(q, x) == \A i \in DOMAIN q : q[i].kind = "FileDone" => x = Result(q[i])

\* A result is in the socket, and nothing in front of it at which the channel
\* would be given up.
Ahead(u) ==
    \E i \in DOMAIN u : /\ u[i].kind = "FileDone"
                        /\ \A j \in 1..i : u[j].kind # "Garbage"

\* How far a file has come, x, from where it is.
Stage(x, d, p, u) ==
    /\ Carries(d, "Run") \/ p.pending # None => x = "unrun"
    /\ p.file # None => x = "started"
    /\ Tells(p.out, x) /\ Tells(u, x)

\* A file that is reserved has not been touched.
ReservedIsUnrun ==
    \A f \in Files, w \in Workers :
        Holds(range, w, f) => fate[f] = "unrun" /\ f \notin delivered

StagesAgree ==
    \A w \in Workers :
        inflight[w] # None => Stage(fate[inflight[w]], down[w], proc[w], up[w])

\* A result that was delivered and is not counted yet is in the socket.
DeliveredIsAhead ==
    \A w \in Workers : /\ inflight[w] \in delivered => Ahead(up[w])
                       /\ ipc_done[w] => up[w] = <<>>

RInv ==
    /\ fate \in [Files -> Fates] /\ delivered \subseteq Files
    /\ ReservedIsUnrun /\ StagesAgree /\ DeliveredIsAhead /\ ResultsAreTrue

\* Frames that are written and read.
LEMMA WrittenResult ==
    ASSUME NEW s \in Seq(UpFrames), NEW m \in UpFrames, NEW x
    PROVE  /\ Tells(Append(s, m), x) <=>
                Tells(s, x) /\ (m.kind = "FileDone" => x = Result(m))
           /\ Ahead(s) => Ahead(Append(s, m))
           /\ ~Carries(s, "Garbage") /\ m.kind = "FileDone" => Ahead(Append(s, m))
  <1> DEFINE t == Append(s, m)
  <1>1. /\ Len(s) \in Nat /\ DOMAIN s = 1..Len(s) /\ DOMAIN t = 1..Len(s) + 1
        /\ t[Len(s) + 1] = m /\ \A i \in 1..Len(s) : t[i] = s[i]
    OBVIOUS
  <1> HIDE DEF t
  <1>2. Tells(t, x) <=> Tells(s, x) /\ (m.kind = "FileDone" => x = Result(m))
    <2>1. \A i \in DOMAIN t : i \in DOMAIN s \/ i = Len(s) + 1
      BY <1>1
    <2>2. DOMAIN s \subseteq DOMAIN t /\ Len(s) + 1 \in DOMAIN t
      BY <1>1
    <2> QED BY <1>1, <2>1, <2>2 DEF Tells
  <1>3. ASSUME Ahead(s) PROVE Ahead(t)
    <2>1. PICK i \in DOMAIN s : /\ s[i].kind = "FileDone"
                                /\ \A j \in 1..i : s[j].kind # "Garbage"
      BY <1>3 DEF Ahead
    <2>2. i \in DOMAIN t /\ t[i] = s[i] /\ \A j \in 1..i : t[j] = s[j]
      BY <1>1, <2>1
    <2> QED BY <2>1, <2>2 DEF Ahead
  <1>4. ASSUME ~Carries(s, "Garbage"), m.kind = "FileDone" PROVE Ahead(t)
    <2>1. Len(s) + 1 \in DOMAIN t /\ t[Len(s) + 1].kind = "FileDone"
      BY <1>1, <1>4
    <2>2. ASSUME NEW j \in 1..Len(s) + 1 PROVE t[j].kind # "Garbage"
      <3>1. CASE j \in 1..Len(s)
        BY <1>1, <1>4, <3>1 DEF Carries
      <3>2. CASE j = Len(s) + 1
        BY <1>1, <1>4, <3>2
      <3> QED BY <1>1, <3>1, <3>2
    <2> QED BY <2>1, <2>2 DEF Ahead
  <1> QED BY <1>2, <1>3, <1>4 DEF t

\* A frame is read, and what the rest says.
LEMMA ReadResult ==
    ASSUME NEW s \in Seq(UpFrames), s # <<>>, NEW x
    PROVE  /\ Tells(s, x) => /\ Tells(Tail(s), x)
                             /\ Head(s).kind = "FileDone" => x = Result(Head(s))
           /\ Ahead(s) => Head(s).kind # "Garbage"
           /\ Ahead(s) /\ Head(s).kind # "FileDone" => Ahead(Tail(s))
  <1> DEFINE t == Tail(s)
  <1>1. /\ Len(s) \in Nat /\ Len(s) >= 1 /\ Len(t) = Len(s) - 1
        /\ DOMAIN s = 1..Len(s) /\ DOMAIN t = 1..Len(t)
        /\ Head(s) = s[1] /\ \A i \in 1..Len(t) : t[i] = s[i + 1]
    OBVIOUS
  <1> HIDE DEF t
  <1>2. ASSUME Tells(s, x)
        PROVE  Tells(t, x) /\ (Head(s).kind = "FileDone" => x = Result(Head(s)))
    <2>1. \A i \in DOMAIN t : i + 1 \in DOMAIN s /\ t[i] = s[i + 1]
      BY <1>1
    <2>2. 1 \in DOMAIN s
      BY <1>1
    <2> QED BY <1>1, <1>2, <2>1, <2>2 DEF Tells
  <1>3. ASSUME Ahead(s)
        PROVE  /\ Head(s).kind # "Garbage"
               /\ Head(s).kind # "FileDone" => Ahead(t)
    <2>1. PICK i \in DOMAIN s : /\ s[i].kind = "FileDone"
                                /\ \A j \in 1..i : s[j].kind # "Garbage"
      BY <1>3 DEF Ahead
    <2>2. i \in Nat /\ 1 \in 1..i /\ Head(s).kind # "Garbage"
      BY <1>1, <2>1
    <2>3. ASSUME Head(s).kind # "FileDone" PROVE Ahead(t)
      <3>1. i # 1 /\ i - 1 \in DOMAIN t /\ t[i - 1] = s[i]
        BY <1>1, <2>1, <2>2, <2>3
      <3>2. ASSUME NEW j \in 1..i - 1 PROVE t[j].kind # "Garbage"
        <4>1. j + 1 \in 1..i /\ t[j] = s[j + 1]
          BY <1>1, <2>1, <2>2, <3>2
        <4> QED BY <2>1, <4>1
      <3> QED BY <2>1, <3>1, <3>2 DEF Ahead
    <2> QED BY <2>2, <2>3
  <1> QED BY <1>2, <1>3 DEF t

\* A queue without results says nothing.
LEMMA TellsNothing ==
    /\ \A q, x : ~Carries(q, "FileDone") => Tells(q, x)
    /\ \A u : Ahead(u) => Carries(u, "FileDone") /\ u # <<>>
  <1>1. ASSUME NEW u, Ahead(u) PROVE Carries(u, "FileDone")
    BY <1>1 DEF Ahead, Carries
  <1> QED BY <1>1, CarriesNothing DEF Tells, Carries

\* A step of w keeps RInv if what it does to w's file is right, and the other
\* files are left alone.
LEMMA OthersStage ==
    ASSUME IInv, IInv', RInv, NEW w \in Workers, OthersUnmoved(w),
           fate' \in [Files -> Fates], delivered' \subseteq Files,
           \A f \in Files : f # inflight[w] =>
               fate'[f] = fate[f] /\ (f \in delivered' => f \in delivered),
           \A f \in Files, u \in Workers :
               Holds(range', u, f) => \E v \in Workers : Holds(range, v, f),
           inflight'[w] # None =>
               Stage(fate'[inflight'[w]], down'[w], proc'[w], up'[w]),
           inflight'[w] \in delivered' => Ahead(up'[w]),
           ipc_done'[w] => up'[w] = <<>>,
           ResultsAreTrue'
    PROVE  RInv'
  <1>1. Placed(range, inflight, verdict) /\ inflight \in [Workers -> Files \cup {None}]
    BY Places DEF IInv, SlotsTyped
  <1>2. ReservedIsUnrun'
    <2>1. ASSUME NEW f \in Files, NEW u \in Workers, Holds(range', u, f)
          PROVE  fate'[f] = "unrun" /\ f \notin delivered'
      <3>1. PICK v \in Workers : Holds(range, v, f)
        BY <2>1
      <3>2. fate[f] = "unrun" /\ f \notin delivered
        BY <3>1 DEF RInv, ReservedIsUnrun
      <3>3. f # inflight[w]
        BY <1>1, <3>1, NoneAssumption DEF Placed
      <3> QED BY <3>2, <3>3
    <2> QED BY <2>1 DEF ReservedIsUnrun
  <1>3. ASSUME NEW v \in Workers, v # w
        PROVE  /\ inflight'[v] # None =>
                    Stage(fate'[inflight'[v]], down'[v], proc'[v], up'[v])
               /\ inflight'[v] \in delivered' => Ahead(up'[v])
               /\ ipc_done'[v] => up'[v] = <<>>
    <2>1. Unmoved(v)
      BY <1>3 DEF OthersUnmoved
    <2>2. inflight'[v] = inflight[v] /\ up'[v] = up[v] /\ ipc_done'[v] = ipc_done[v]
      BY <2>1 DEF Unmoved
    <2>3. CASE inflight[v] = None
      BY <2>2, <2>3, NoneAssumption DEF RInv, DeliveredIsAhead
    <2>4. CASE inflight[v] # None
      <3>1. inflight[v] \in Files /\ inflight[v] # inflight[w]
        BY <1>1, <1>3, <2>4 DEF Placed
      <3>2. /\ fate'[inflight[v]] = fate[inflight[v]]
            /\ inflight[v] \in delivered' => inflight[v] \in delivered
        BY <3>1
      <3>3. Stage(fate[inflight[v]], down[v], proc[v], up[v])
        BY <2>4 DEF RInv, StagesAgree
      <3>4. Stage(fate[inflight[v]], down'[v], proc'[v], up[v])
        BY <2>1, <3>3 DEF Unmoved, SameRuns, Stage
      <3>5. /\ inflight[v] \in delivered => Ahead(up[v])
            /\ ipc_done[v] => up[v] = <<>>
        BY DEF RInv, DeliveredIsAhead
      <3> QED BY <2>2, <3>2, <3>4, <3>5
    <2> QED BY <2>3, <2>4
  <1>4. StagesAgree'
    BY <1>3 DEF StagesAgree
  <1>5. DeliveredIsAhead'
    BY <1>3 DEF DeliveredIsAhead
  <1> QED BY <1>2, <1>4, <1>5 DEF RInv

\* The results stay true while a process works on its file.
LEMMA ProcessResults ==
    ASSUME IInv, RInv, NEW w \in Workers, inflight[w] # None,
           UNCHANGED verdict,
           \A f \in Files : f # inflight[w] =>
               fate'[f] = fate[f] /\ (f \in delivered' => f \in delivered),
           fate'[inflight[w]] # "twice"
    PROVE  ResultsAreTrue'
  <1>1. Placed(range, inflight, verdict) /\ inflight[w] \in Files
    BY Places DEF IInv, SlotsTyped
  <1>2. verdict[inflight[w]] = None
    BY <1>1 DEF Placed
  <1>3. ResultsAreTrue
    BY DEF RInv
  <1>4. ASSUME NEW f \in Files
        PROVE  /\ fate'[f] # "twice"
               /\ verdict'[f] \in {"pass", "fail"} => fate'[f] = verdict'[f]
               /\ verdict'[f] = "crash" => f \notin delivered'
               /\ verdict'[f] = "aborted" => fate'[f] = "unrun"
    <2>1. CASE f = inflight[w]
      BY <1>2, <2>1, NoneAssumption
    <2>2. CASE f # inflight[w]
      BY <1>3, <2>2 DEF ResultsAreTrue
    <2> QED BY <2>1, <2>2
  <1> QED BY <1>4 DEF ResultsAreTrue

\* Nothing has happened to a file.
LEMMA SameResults ==
    ASSUME RInv, UNCHANGED <<verdict, fate, delivered>> PROVE ResultsAreTrue'
  BY DEF RInv, ResultsAreTrue

\* A step of process w that touches no file, no range and no verdict.
LEMMA SameStage ==
    ASSUME IInv, IInv', RInv, NEW w \in Workers, OthersUnmoved(w),
           UNCHANGED <<range, verdict, fate, delivered, inflight, ipc_done>>,
           \A x : Stage(x, down[w], proc[w], up[w]) =>
                    Stage(x, down'[w], proc'[w], up'[w]),
           Ahead(up[w]) => Ahead(up'[w]),
           ipc_done[w] /\ up[w] = <<>> => up'[w] = <<>>
    PROVE  RInv'
  <1>1. /\ fate' \in [Files -> Fates] /\ delivered' \subseteq Files
        /\ \A f \in Files : f # inflight[w] =>
               fate'[f] = fate[f] /\ (f \in delivered' => f \in delivered)
        /\ \A f \in Files, u \in Workers :
               Holds(range', u, f) => \E v \in Workers : Holds(range, v, f)
    BY DEF RInv
  <1>2. /\ inflight'[w] # None =>
              Stage(fate'[inflight'[w]], down'[w], proc'[w], up'[w])
        /\ inflight'[w] \in delivered' => Ahead(up'[w])
        /\ ipc_done'[w] => up'[w] = <<>>
    BY DEF RInv, StagesAgree, DeliveredIsAhead
  <1>3. ResultsAreTrue'
    BY SameResults
  <1> QED BY <1>1, <1>2, <1>3, OthersStage

\* What a process writes says what it says.
LEMMA WrittenStage ==
    ASSUME IInv, NEW w \in Workers, NEW m \in UpFrames, Written(w, m), NEW x,
           m.kind = "FileDone" => x = Result(m)
    PROVE  /\ Tells(up[w], x) => Tells(up'[w], x)
           /\ Tells(proc[w].out, x) => Tells(proc'[w].out, x)
           /\ Ahead(up[w]) => Ahead(up'[w])
           /\ ipc_done[w] /\ up[w] = <<>> => up'[w] = <<>>
  <1> DEFINE u == up[w]
             o == proc[w].out
  <1>1. u \in Seq(UpFrames) /\ o \in Seq(UpFrames)
    BY SocketsKept
  <1>2. \/ ~ipc_done[w] /\ up'[w] = Append(u, m) /\ proc'[w].out = o
        \/ up'[w] = u /\ proc'[w].out = o
        \/ up'[w] = u /\ proc'[w].out = Append(o, m)
    BY DEF Written
  <1> HIDE DEF u, o
  <1>3. Tells(u, x) => Tells(Append(u, m), x)
    BY <1>1, WrittenResult
  <1>4. Ahead(u) => Ahead(Append(u, m))
    BY <1>1, WrittenResult
  <1>5. Tells(o, x) => Tells(Append(o, m), x)
    BY <1>1, WrittenResult
  <1> QED BY <1>2, <1>3, <1>4, <1>5 DEF u, o

\* Ready is no result.
LEMMA BootResults ==
    ASSUME IInv, IInv', RInv, NEW w \in Workers, Boot(w) PROVE RInv'
  <1> DEFINE m == [kind |-> "Ready"]
  <1>1. /\ OthersUnmoved(w)
        /\ UNCHANGED <<range, verdict, fate, delivered, inflight, ipc_done>>
        /\ down' = down /\ up[w] = <<>> /\ up'[w] = <<m>>
        /\ proc'[w].out = proc[w].out
        /\ proc'[w].pending = proc[w].pending /\ proc'[w].file = proc[w].file
    BY BootEffect
  <1>2. ~ipc_done[w]
    BY DEF IInv, FreshIsClean, Boot
  <1>3. ~Carries(<<m>>, "FileDone")
    BY DEF Carries
  <1> HIDE DEF m
  <1>4. \A x : Tells(<<m>>, x)
    BY <1>3, TellsNothing
  <1>5. \A x : Stage(x, down[w], proc[w], up[w]) => Stage(x, down'[w], proc'[w], up'[w])
    BY <1>1, <1>4 DEF Stage
  <1>6. ~Ahead(up[w])
    BY <1>1, TellsNothing
  <1> QED BY <1>1, <1>2, <1>5, <1>6, SameStage

\* The file of a command has not been run.
LEMMA ReceiveResults ==
    ASSUME IInv, IInv', AInv, RInv, NEW w \in Workers, Receive(w) PROVE RInv'
  <1> DEFINE d == down[w]
  <1>1. /\ OthersUnmoved(w)
        /\ UNCHANGED <<range, verdict, fate, delivered, inflight, ipc_done>>
        /\ up' = up /\ d # <<>> /\ down'[w] = Tail(d)
        /\ proc'[w].out = proc[w].out /\ proc'[w].file = proc[w].file
        /\ proc'[w].pending = IF Head(d).kind = "Run"
                              THEN Head(d).file ELSE proc[w].pending
    BY ReceiveEffect
  <1>2. d \in Seq(DownFrames)
    BY SocketsKept
  <1> HIDE DEF d
  <1>3. Carries(d, "Run") <=> Carries(Tail(d), "Run") \/ Head(d).kind = "Run"
    BY <1>1, <1>2, ReadDown
  <1>4. \A x : Stage(x, d, proc[w], up[w]) => Stage(x, Tail(d), proc'[w], up[w])
    BY <1>1, <1>3 DEF Stage
  <1>5. \A x : Stage(x, down[w], proc[w], up[w]) => Stage(x, down'[w], proc'[w], up'[w])
    BY <1>1, <1>4 DEF d
  <1> QED BY <1>1, <1>5, SameStage

\* Aggregates are no result.
LEMMA FlushAggregatesResults ==
    ASSUME IInv, IInv', RInv, NEW w \in Workers, FlushAggregates(w) PROVE RInv'
  <1> DEFINE m == [kind |-> "Aggregates", files |-> proc[w].ran]
             o == proc[w].out
  <1>1. /\ OthersUnmoved(w)
        /\ UNCHANGED <<range, verdict, fate, delivered, inflight, ipc_done>>
        /\ down' = down /\ up' = up
        /\ proc'[w].pending = proc[w].pending /\ proc'[w].file = proc[w].file
        /\ proc[w].ran \subseteq Files /\ proc'[w].out = Append(o, m)
    BY FlushAggregatesEffect
  <1>2. m \in UpFrames /\ m.kind = "Aggregates" /\ o \in Seq(UpFrames)
        /\ proc[w].out = o
    BY <1>1, Frames, SocketsKept
  <1> HIDE DEF m, o
  <1>3. \A x : Tells(o, x) => Tells(Append(o, m), x)
    BY <1>2, WrittenResult
  <1>4. \A x : Stage(x, down[w], proc[w], up[w]) => Stage(x, down'[w], proc'[w], up'[w])
    BY <1>1, <1>2, <1>3 DEF Stage
  <1> QED BY <1>1, <1>4, SameStage

\* A process that ends leaves its delivered results behind.
LEMMA GoneResults ==
    ASSUME IInv, IInv', RInv, NEW w \in Workers, NEW status \in {"exit", "panic"},
           Gone(w, status)
    PROVE  RInv'
  <1>1. /\ OthersUnmoved(w)
        /\ UNCHANGED <<range, verdict, fate, delivered, inflight, ipc_done>>
        /\ up' = up /\ down'[w] = <<>> /\ proc'[w].out = <<>>
        /\ proc'[w].pending = None /\ proc'[w].file = None
    BY GoneEffect
  <1>2. \A x : Stage(x, down[w], proc[w], up[w]) => Stage(x, down'[w], proc'[w], up'[w])
    BY <1>1, CarriesNothing, TellsNothing DEF Stage
  <1> QED BY <1>1, <1>2, SameStage

\* What is no frame comes behind the results delivered before.
LEMMA WriteGarbageResults ==
    ASSUME IInv, IInv', RInv, NEW w \in Workers, WriteGarbage(w) PROVE RInv'
  <1> DEFINE m == [kind |-> "Garbage"]
             u == up[w]
  <1>1. /\ OthersUnmoved(w)
        /\ UNCHANGED <<range, verdict, fate, delivered, inflight, ipc_done>>
        /\ down' = down /\ proc' = proc /\ up'[w] = Append(u, m) /\ ~ipc_done[w]
    BY WriteGarbageEffect
  <1>2. m \in UpFrames /\ m.kind = "Garbage" /\ u \in Seq(UpFrames) /\ up[w] = u
    BY Frames, SocketsKept
  <1> HIDE DEF m, u
  <1>3. \A x : Tells(u, x) => Tells(Append(u, m), x)
    BY <1>2, WrittenResult
  <1>4. Ahead(u) => Ahead(Append(u, m))
    BY <1>2, WrittenResult
  <1>5. \A x : Stage(x, down[w], proc[w], up[w]) => Stage(x, down'[w], proc'[w], up'[w])
    BY <1>1, <1>2, <1>3 DEF Stage
  <1> QED BY <1>1, <1>2, <1>4, <1>5, SameStage

\* The pending file has not been run, and starts.
LEMMA StartFileResults ==
    ASSUME IInv, IInv', AInv, RInv, NEW w \in Workers, StartFile(w) PROVE RInv'
  <1> DEFINE m == [kind |-> "FileStart"]
             f == inflight[w]
  <1>1. /\ OthersUnmoved(w) /\ Written(w, m)
        /\ UNCHANGED <<range, verdict, delivered, inflight, ipc_done, down>>
        /\ proc[w].pending \in Files /\ proc'[w].pending = None
        /\ proc'[w].file = proc[w].pending
        /\ fate' = [fate EXCEPT ![proc[w].pending] =
                        IF @ = "unrun" THEN "started" ELSE "twice"]
    BY StartFileEffect
  <1>2. m \in UpFrames /\ m.kind # "FileDone"
    BY Frames
  <1>3. Agrees(f, down[w], proc[w], up[w])
    BY DEF AInv, OneFile
  <1>4. /\ proc[w].pending = f /\ f \in Files /\ f # None
        /\ ~Carries(down[w], "Run") /\ ~Carries(proc[w].out, "FileDone")
        /\ ~Carries(up[w], "FileDone")
    BY <1>1, <1>3, NoneAssumption DEF Agrees
  <1>5. Stage(fate[f], down[w], proc[w], up[w]) /\ fate \in [Files -> Fates]
    BY <1>4 DEF RInv, StagesAgree
  <1>6. fate[f] = "unrun"
    BY <1>4, <1>5 DEF Stage
  <1>7. /\ fate' \in [Files -> Fates] /\ fate'[f] = "started"
        /\ \A g \in Files : g # f => fate'[g] = fate[g]
    BY <1>1, <1>4, <1>5, <1>6 DEF Fates
  <1> HIDE DEF m, f
  <1>8. /\ Tells(up'[w], "started") /\ Tells(proc'[w].out, "started")
        /\ Ahead(up[w]) => Ahead(up'[w])
        /\ ipc_done[w] /\ up[w] = <<>> => up'[w] = <<>>
    BY <1>1, <1>2, <1>4, TellsNothing, WrittenStage
  <1>9. Stage("started", down'[w], proc'[w], up'[w])
    BY <1>1, <1>4, <1>8 DEF Stage
  <1>10. ResultsAreTrue'
    BY <1>1, <1>4, <1>7, ProcessResults DEF f
  <1>11. /\ delivered' \subseteq Files /\ inflight'[w] = f
         /\ f \in delivered => Ahead(up[w])
         /\ ipc_done[w] => up[w] = <<>>
    BY <1>1 DEF RInv, DeliveredIsAhead, f
  <1>12. /\ \A g \in Files, u \in Workers :
              Holds(range', u, g) => \E v \in Workers : Holds(range, v, g)
         /\ \A g \in Files : g # inflight[w] =>
              fate'[g] = fate[g] /\ (g \in delivered' => g \in delivered)
         /\ inflight'[w] # None =>
              Stage(fate'[inflight'[w]], down'[w], proc'[w], up'[w])
         /\ inflight'[w] \in delivered' => Ahead(up'[w])
         /\ ipc_done'[w] => up'[w] = <<>>
    BY <1>1, <1>7, <1>8, <1>9, <1>11 DEF f
  <1> QED BY <1>1, <1>7, <1>10, <1>11, <1>12, OthersStage

\* A file that has been started ends, and the result is delivered or not.
LEMMA FinishFileResults ==
    ASSUME IInv, IInv', AInv, RInv, NEW w \in Workers, FinishFile(w) PROVE RInv'
  <1> DEFINE f == inflight[w]
  <1>1. /\ OthersUnmoved(w)
        /\ UNCHANGED <<range, verdict, inflight, ipc_done, down>>
        /\ proc[w].file \in Files /\ proc'[w].file = None
        /\ proc'[w].pending = proc[w].pending
        /\ delivered' = IF Delivers(w, proc[w].out)
                        THEN delivered \cup {proc[w].file} ELSE delivered
    BY FinishFileEffect
  <1>2. PICK b \in BOOLEAN :
           /\ fate' = [fate EXCEPT ![proc[w].file] =
                          IF @ # "started" THEN "twice"
                          ELSE IF b THEN "fail" ELSE "pass"]
           /\ Written(w, [kind |-> "FileDone", file |-> proc[w].file,
                          failed |-> b])
    BY FinishFileEffect
  <1> DEFINE m == [kind |-> "FileDone", file |-> proc[w].file, failed |-> b]
             x == Result(m)
  <1>3. /\ m \in UpFrames /\ m.kind = "FileDone" /\ Written(w, m)
        /\ x = IF b THEN "fail" ELSE "pass"
    BY <1>1, <1>2, Frames DEF Result
  <1>4. Agrees(f, down[w], proc[w], up[w])
    BY DEF AInv, OneFile
  <1>5. /\ proc[w].file = f /\ f \in Files /\ f # None
        /\ ~Carries(down[w], "Run") /\ proc[w].pending = None
        /\ ~Carries(proc[w].out, "FileDone") /\ ~Carries(up[w], "FileDone")
    BY <1>1, <1>4, NoneAssumption DEF Agrees
  <1>6. Stage(fate[f], down[w], proc[w], up[w]) /\ fate \in [Files -> Fates]
    BY <1>5 DEF RInv, StagesAgree
  <1>7. fate[f] = "started"
    BY <1>5, <1>6 DEF Stage
  <1>8. /\ fate' \in [Files -> Fates] /\ fate'[f] = x /\ x # "twice"
        /\ \A g \in Files : g # f => fate'[g] = fate[g]
    BY <1>2, <1>3, <1>5, <1>6, <1>7 DEF Fates
  <1>9. ~ipc_done[w] /\ Delivers(w, proc[w].out) => up'[w] = Append(up[w], m)
    BY <1>3 DEF Written, Delivers
  <1> HIDE DEF m, f
  <1>10. /\ Tells(up'[w], x) /\ Tells(proc'[w].out, x)
         /\ Ahead(up[w]) => Ahead(up'[w])
         /\ ipc_done[w] /\ up[w] = <<>> => up'[w] = <<>>
    BY <1>3, <1>5, TellsNothing, WrittenStage
  <1> HIDE DEF x
  <1>11. Stage(x, down'[w], proc'[w], up'[w])
    BY <1>1, <1>5, <1>10 DEF Stage
  <1>12. Delivers(w, proc[w].out) => Ahead(up'[w])
    <2>1. SUFFICES ASSUME Delivers(w, proc[w].out) PROVE Ahead(up'[w])
      OBVIOUS
    <2>2. ~ipc_done[w] /\ ~Carries(up[w], "Garbage")
      BY <2>1 DEF Delivers, Intact, Carries
    <2>3. up[w] \in Seq(UpFrames)
      BY SocketsKept
    <2>4. Ahead(Append(up[w], m))
      BY <1>3, <2>2, <2>3, WrittenResult
    <2> QED BY <1>9, <2>1, <2>2, <2>4
  <1>13. /\ delivered' \subseteq Files /\ inflight'[w] = f
         /\ f \in delivered => Ahead(up[w])
         /\ ipc_done[w] => up[w] = <<>>
    BY <1>1 DEF RInv, DeliveredIsAhead, f
  <1>14. /\ \A g \in Files, u \in Workers :
              Holds(range', u, g) => \E v \in Workers : Holds(range, v, g)
         /\ \A g \in Files : g # inflight[w] =>
              fate'[g] = fate[g] /\ (g \in delivered' => g \in delivered)
         /\ inflight'[w] # None =>
              Stage(fate'[inflight'[w]], down'[w], proc'[w], up'[w])
         /\ inflight'[w] \in delivered' => Ahead(up'[w])
         /\ ipc_done'[w] => up'[w] = <<>>
    BY <1>1, <1>5, <1>8, <1>10, <1>11, <1>12, <1>13 DEF f
  <1>15. ResultsAreTrue'
    BY <1>1, <1>5, <1>8, <1>14, ProcessResults DEF f
  <1> QED BY <1>1, <1>8, <1>13, <1>14, <1>15, OthersStage

\* A result of the backlog goes into the socket.
LEMMA FlushOutResults ==
    ASSUME IInv, IInv', AInv, RInv, NEW w \in Workers, FlushOut(w) PROVE RInv'
  <1> DEFINE o == proc[w].out
             m == Head(o)
             u == up[w]
             f == inflight[w]
  <1>1. /\ OthersUnmoved(w)
        /\ UNCHANGED <<range, verdict, fate, inflight, ipc_done, down>>
        /\ o # <<>> /\ proc'[w].out = Tail(o)
        /\ up'[w] = IF ipc_done[w] THEN u ELSE Append(u, m)
        /\ proc'[w].pending = proc[w].pending /\ proc'[w].file = proc[w].file
        /\ delivered' = IF m.kind = "FileDone" /\ Intact(w)
                        THEN delivered \cup {m.file} ELSE delivered
    BY FlushOutEffect
  <1>2. o \in Seq(UpFrames) /\ u \in Seq(UpFrames) /\ proc[w].out = o /\ up[w] = u
    BY SocketsKept
  <1>3. Once(o, "FileDone", f)
    BY DEF AInv, OneFile, Agrees
  <1>4. /\ f # None => Stage(fate[f], down[w], proc[w], u)
        /\ f \in delivered => Ahead(u)
        /\ ipc_done[w] => u = <<>>
        /\ fate \in [Files -> Fates] /\ delivered \subseteq Files
        /\ ResultsAreTrue
    BY DEF RInv, StagesAgree, DeliveredIsAhead
  <1>5. Intact(w) => ~ipc_done[w] /\ ~Carries(u, "Garbage")
    BY DEF Intact, Carries
  <1>6. f \in Files \cup {None}
    BY DEF IInv, SlotsTyped
  <1> HIDE DEF o, u, f
  <1>7. /\ m \in UpFrames
        /\ m.kind = "FileDone" => m.file = f /\ m.file \in Files
    <2>1. m \in UpFrames /\ (m.kind = "FileDone" => m.file = f)
      BY <1>1, <1>2, <1>3, ReadUp
    <2> QED BY <2>1, Frames
  <1>8. f # None => /\ Tells(Tail(o), fate[f])
                    /\ m.kind = "FileDone" => fate[f] = Result(m)
    BY <1>1, <1>2, <1>4, ReadResult DEF Stage
  <1> HIDE DEF m
  <1>9. /\ Ahead(u) => Ahead(Append(u, m))
        /\ ~Carries(u, "Garbage") /\ m.kind = "FileDone" => Ahead(Append(u, m))
    BY <1>2, <1>7, WrittenResult
  <1>10. f # None => Tells(Append(u, m), fate[f])
    BY <1>2, <1>4, <1>7, <1>8, WrittenResult DEF Stage
  <1>11. f # None => Stage(fate[f], down[w], proc'[w], up'[w])
    BY <1>1, <1>2, <1>4, <1>8, <1>10 DEF Stage
  <1>12. f \in delivered' => Ahead(up'[w])
    BY <1>1, <1>4, <1>5, <1>9, TellsNothing
  <1>13. /\ delivered' \subseteq Files /\ fate' \in [Files -> Fates]
         /\ \A g \in Files : g # f =>
              fate'[g] = fate[g] /\ (g \in delivered' => g \in delivered)
         /\ f = None => delivered' = delivered
    BY <1>1, <1>4, <1>7, NoneAssumption
  <1>14. ResultsAreTrue'
    <2>1. CASE f = None
      BY <1>1, <1>13, <2>1, SameResults
    <2>2. CASE f # None
      <3>1. fate'[f] # "twice"
        BY <1>1, <1>4, <1>6, <2>2 DEF ResultsAreTrue
      <3> QED BY <1>1, <1>13, <2>2, <3>1, ProcessResults DEF f
    <2> QED BY <2>1, <2>2
  <1>15. /\ \A g \in Files, v \in Workers :
              Holds(range', v, g) => \E t \in Workers : Holds(range, t, g)
         /\ inflight'[w] # None =>
              Stage(fate'[inflight'[w]], down'[w], proc'[w], up'[w])
         /\ inflight'[w] \in delivered' => Ahead(up'[w])
         /\ ipc_done'[w] => up'[w] = <<>>
    BY <1>1, <1>4, <1>11, <1>12 DEF f
  <1>16. \A g \in Files : g # inflight[w] =>
            fate'[g] = fate[g] /\ (g \in delivered' => g \in delivered)
    BY <1>13 DEF f
  <1> QED BY <1>1, <1>13, <1>14, <1>15, <1>16, OthersStage

\* In front of a delivered result there may be other frames.
LEMMA OnOtherFrameResults ==
    ASSUME IInv, IInv', RInv, NEW w \in Workers, OnFileStart(w) \/ OnAggregates(w)
    PROVE  RInv'
  <1> DEFINE u == up[w]
  <1>1. /\ OthersUnmoved(w)
        /\ UNCHANGED <<range, verdict, fate, delivered, inflight, ipc_done>>
        /\ proc' = proc /\ down' = down
        /\ Frame(w, "FileStart") \/ Frame(w, "Aggregates")
    BY OnOtherFrameEffect
  <1>2. /\ ~ipc_done[w] /\ u # <<>> /\ Head(u).kind # "FileDone" /\ up'[w] = Tail(u)
        /\ u \in Seq(UpFrames) /\ up[w] = u
    BY <1>1, FrameEffect, SocketsKept
  <1> HIDE DEF u
  <1>3. /\ Ahead(u) => Ahead(Tail(u))
        /\ \A x : Tells(u, x) => Tells(Tail(u), x)
    BY <1>2, ReadResult
  <1>4. \A x : Stage(x, down[w], proc[w], up[w]) => Stage(x, down'[w], proc'[w], up'[w])
    BY <1>1, <1>2, <1>3 DEF Stage
  <1> QED BY <1>1, <1>2, <1>3, <1>4, SameStage

\* A file that is given out has not been touched.
LEMMA AssignedResults ==
    ASSUME RInv, NEW w \in Workers, Assigned(w), NEW u,
           proc[w].file = None, ~Carries(proc[w].out, "FileDone"),
           ~Carries(u, "FileDone")
    PROVE  /\ inflight'[w] # None =>
                Stage(fate[inflight'[w]], down'[w], proc[w], u)
           /\ inflight'[w] \notin delivered
  <1>1. CASE inflight'[w] = None
    BY <1>1, NoneAssumption DEF RInv
  <1>2. ASSUME NEW f \in Files, NEW v \in Workers, Holds(range, v, f),
               inflight'[w] = f
        PROVE  /\ Stage(fate[f], down'[w], proc[w], u)
               /\ f \notin delivered
    <2>1. fate[f] = "unrun" /\ f \notin delivered
      BY <1>2 DEF RInv, ReservedIsUnrun
    <2> QED BY <2>1, TellsNothing DEF Stage
  <1> QED BY <1>1, <1>2 DEF Assigned

\* The first file that a worker is given has not been touched.
LEMMA OnReadyResults ==
    ASSUME IInv, IInv', AInv, RInv, NEW w \in Workers, OnReady(w) PROVE RInv'
  <1>1. /\ OthersUnmoved(w) /\ inflight[w] = None
        /\ UNCHANGED <<verdict, fate, delivered, ipc_done, proc>>
        /\ Frame(w, "Ready") /\ Assigned(w)
        /\ \A f \in Files, u \in Workers :
             Holds(range', u, f) => \E v \in Workers : Holds(range, v, f)
    BY OnReadyEffect
  <1>2. /\ proc[w].file = None /\ ~Carries(proc[w].out, "FileDone")
        /\ ~Carries(up[w], "FileDone")
    BY <1>1, NothingInFlight
  <1>3. ~Carries(up'[w], "FileDone") /\ ~ipc_done[w]
    BY <1>1, <1>2, ReadOneFile, FrameEffect
  <1>4. /\ inflight'[w] # None => Stage(fate[inflight'[w]], down'[w], proc[w], up'[w])
        /\ inflight'[w] \notin delivered
    BY <1>1, <1>2, <1>3, AssignedResults
  <1>5. ResultsAreTrue' /\ fate' \in [Files -> Fates] /\ delivered' \subseteq Files
    BY <1>1, SameResults DEF RInv
  <1> QED BY <1>1, <1>3, <1>4, <1>5, OthersStage

\* The verdict is what the process said, which is what it did.
LEMMA OnFileDoneResults ==
    ASSUME IInv, IInv', AInv, RInv, NEW w \in Workers, OnFileDone(w) PROVE RInv'
  <1> DEFINE f == inflight[w]
             m == Head(up[w])
  <1>0. Frame(w, "FileDone")
    BY DEF OnFileDone
  <1>1. /\ f = m.file /\ proc[w].file = None
        /\ ~Carries(proc[w].out, "FileDone") /\ ~Carries(up'[w], "FileDone")
    BY <1>0, ResultIsAwaited
  <1>2. /\ OthersUnmoved(w) /\ f \in Files
        /\ UNCHANGED <<fate, delivered, ipc_done, proc>>
        /\ verdict' = [verdict EXCEPT ![f] = IF m.failed THEN "fail" ELSE "pass"]
        /\ Assigned(w)
        /\ \A g \in Files, u \in Workers :
             Holds(range', u, g) => \E v \in Workers : Holds(range, v, g)
    BY <1>1, OnFileDoneEffect
  <1>3. /\ ~ipc_done[w] /\ up[w] # <<>> /\ m.kind = "FileDone"
        /\ up[w] \in Seq(UpFrames)
    BY <1>0, FrameEffect, SocketsKept
  <1>4. Tells(up[w], fate[f])
    BY <1>2, NoneAssumption DEF RInv, StagesAgree, Stage
  <1>5. fate[f] = Result(m)
    BY <1>3, <1>4, ReadResult
  <1>6. /\ inflight'[w] # None => Stage(fate[inflight'[w]], down'[w], proc[w], up'[w])
        /\ inflight'[w] \notin delivered
    BY <1>1, <1>2, AssignedResults
  <1>7. verdict \in [Files -> {None, "pass", "fail", "crash", "aborted"}]
    BY DEF IInv, SlotsTyped
  <1> HIDE DEF m
  <1>8. ResultsAreTrue'
    <2>1. ResultsAreTrue
      BY DEF RInv
    <2>2. verdict'[f] = fate[f] /\ fate[f] \in {"pass", "fail"}
      BY <1>2, <1>5, <1>7 DEF Result
    <2>3. \A g \in Files : g # f => verdict'[g] = verdict[g]
      BY <1>2, <1>7
    <2> HIDE DEF f
    <2> QED BY <1>2, <2>1, <2>2, <2>3 DEF ResultsAreTrue
  <1>9. fate' \in [Files -> Fates] /\ delivered' \subseteq Files
    BY <1>2 DEF RInv
  <1> QED BY <1>2, <1>3, <1>6, <1>8, <1>9, OthersStage

\* What is not read any more was not delivered.
LEMMA MuteIsUndelivered ==
    ASSUME IInv, RInv, NEW w \in Workers, Mute(w) PROVE inflight[w] \notin delivered
  <1>1. /\ inflight[w] \in delivered => Ahead(up[w])
        /\ ipc_done[w] => up[w] = <<>>
    BY DEF RInv, DeliveredIsAhead
  <1>2. up[w] # <<>> /\ Ahead(up[w]) => Head(up[w]).kind # "Garbage"
    BY SocketsKept, ReadResult
  <1> QED BY <1>1, <1>2, TellsNothing DEF Mute

\* No file moves, if new processes start perhaps.
LEMMA StillResults ==
    ASSUME RInv, UNCHANGED <<range, verdict, fate, delivered>>,
           \A v \in Workers : Unmoved(v) \/ Spawned(v)
    PROVE  RInv'
  <1>1. ReservedIsUnrun'
    BY DEF RInv, ReservedIsUnrun
  <1>2. ASSUME NEW v \in Workers
        PROVE  /\ inflight'[v] # None =>
                    Stage(fate'[inflight'[v]], down'[v], proc'[v], up'[v])
               /\ inflight'[v] \in delivered' => Ahead(up'[v])
               /\ ipc_done'[v] => up'[v] = <<>>
    <2>1. /\ inflight[v] # None => Stage(fate[inflight[v]], down[v], proc[v], up[v])
          /\ inflight[v] \in delivered => Ahead(up[v])
          /\ ipc_done[v] => up[v] = <<>>
      BY DEF RInv, StagesAgree, DeliveredIsAhead
    <2>2. inflight'[v] = inflight[v] /\ up'[v] = up[v] /\ ipc_done'[v] = ipc_done[v]
      BY DEF Unmoved, Spawned
    <2>3. CASE Unmoved(v)
      <3>1. \A x : Stage(x, down[v], proc[v], up[v]) =>
                     Stage(x, down'[v], proc'[v], up'[v])
        BY <2>2, <2>3 DEF Unmoved, SameRuns, Stage
      <3> QED BY <2>1, <2>2, <3>1
    <2>4. CASE Spawned(v)
      <3>1. NewProcess.out = <<>> /\ NewProcess.pending = None
            /\ NewProcess.file = None
        BY DEF NewProcess, NoProcess
      <3>2. proc'[v] = NewProcess /\ down'[v] = down[v]
        BY <2>4 DEF Spawned
      <3>3. \A x : Stage(x, down[v], proc[v], up[v]) =>
                     Stage(x, down'[v], proc'[v], up'[v])
        BY <2>2, <3>1, <3>2, CarriesNothing, TellsNothing DEF Stage
      <3> QED BY <2>1, <2>2, <3>3
    <2> QED BY <2>3, <2>4
  <1>3. StagesAgree' /\ DeliveredIsAhead'
    BY <1>2 DEF StagesAgree, DeliveredIsAhead
  <1>4. ResultsAreTrue'
    BY SameResults
  <1> QED BY <1>1, <1>3, <1>4 DEF RInv

\* A file is charged to a crash if its result was not delivered, and is given
\* up if it has not been touched.
LEMMA EndResults ==
    ASSUME IInv, IInv', RInv, NEW w \in Workers,
           OnProcessExit(w) \/ OnChannelClose(w) \/ OnGarbage(w)
    PROVE  RInv'
  <1>1. CASE Mute(w) /\ Reaped(w)
    <2>1. inflight[w] \notin delivered
      BY <1>1, MuteIsUndelivered
    <2>2. /\ OthersUnmoved(w) /\ UNCHANGED <<fate, delivered>>
          /\ inflight'[w] = None /\ ~ipc_done'[w]
          /\ \A f \in Files, u \in Workers :
               Holds(range', u, f) => \E v \in Workers : Holds(range, v, f)
      BY <1>1 DEF Reaped
    <2>3. ASSUME NEW f \in Files
          PROVE  /\ fate[f] # "twice"
                 /\ verdict'[f] \in {"pass", "fail"} => fate[f] = verdict'[f]
                 /\ verdict'[f] = "crash" => f \notin delivered
                 /\ verdict'[f] = "aborted" => fate[f] = "unrun"
      <3>1. /\ fate[f] # "twice"
            /\ verdict[f] \in {"pass", "fail"} => fate[f] = verdict[f]
            /\ verdict[f] = "crash" => f \notin delivered
            /\ verdict[f] = "aborted" => fate[f] = "unrun"
        BY DEF RInv, ResultsAreTrue
      <3>2. (\E v \in Workers : Holds(range, v, f)) => fate[f] = "unrun"
        BY DEF RInv, ReservedIsUnrun
      <3>3. \/ verdict'[f] = verdict[f]
            \/ verdict'[f] = "crash" /\ f = inflight[w]
            \/ verdict'[f] = "aborted" /\ \E v \in Workers : Holds(range, v, f)
        BY <1>1 DEF Reaped
      <3> QED BY <2>1, <3>1, <3>2, <3>3
    <2>4. ResultsAreTrue'
      BY <2>2, <2>3 DEF ResultsAreTrue
    <2>5. /\ fate' \in [Files -> Fates] /\ delivered' \subseteq Files
          /\ inflight'[w] \notin delivered'
      BY <2>2, NoneAssumption DEF RInv
    <2> QED BY <2>2, <2>4, <2>5, OthersStage
  <1>2. CASE Mute(w) /\ Closed(w)
    <2>1. inflight[w] \notin delivered
      BY <1>2, MuteIsUndelivered
    <2>2. /\ OthersUnmoved(w) /\ UNCHANGED <<range, verdict, fate, delivered>>
          /\ UNCHANGED <<inflight, down>> /\ up'[w] = <<>>
          /\ proc'[w].pending = proc[w].pending /\ proc'[w].file = proc[w].file
          /\ proc'[w].out = proc[w].out
      BY <1>2 DEF Closed
    <2>3. \A x : Stage(x, down[w], proc[w], up[w]) => Stage(x, down'[w], proc'[w], up'[w])
      BY <2>2, CarriesNothing, TellsNothing DEF Stage
    <2>4. inflight'[w] # None => Stage(fate'[inflight'[w]], down'[w], proc'[w], up'[w])
      BY <2>2, <2>3 DEF RInv, StagesAgree
    <2>5. ResultsAreTrue' /\ fate' \in [Files -> Fates] /\ delivered' \subseteq Files
      BY <2>2, SameResults DEF RInv
    <2> QED BY <2>1, <2>2, <2>4, <2>5, OthersStage
  <1>3. CASE Quiet
    BY <1>3, StillResults DEF Quiet
  <1> QED BY <1>1, <1>2, <1>3, EndEffect

\* In the beginning no file has been touched.
LEMMA InitResults == Init => RInv
  <1> SUFFICES ASSUME Init PROVE RInv
    OBVIOUS
  <1>1. /\ fate \in [Files -> Fates] /\ delivered \subseteq Files
        /\ ResultsAreTrue
    BY NoneAssumption DEF Init, Fates, ResultsAreTrue
  <1>2. ReservedIsUnrun
    BY DEF Init, ReservedIsUnrun
  <1>3. StagesAgree /\ DeliveredIsAhead
    BY DEF Init, StagesAgree, DeliveredIsAhead
  <1> QED BY <1>1, <1>2, <1>3 DEF RInv

\* Every step keeps the results.
LEMMA NextResults == IInv /\ IInv' /\ AInv /\ RInv /\ [Next]_vars => RInv'
  <1> SUFFICES ASSUME IInv, IInv', AInv, RInv, [Next]_vars PROVE RInv'
    OBVIOUS
  <1>1. CASE UNCHANGED vars
    <2>1. /\ UNCHANGED <<range, verdict, fate, delivered>>
          /\ UNCHANGED <<inflight, ipc_done, up, down, proc>>
      BY <1>1 DEF vars, slots, wires, history
    <2>2. \A v \in Workers : Unmoved(v)
      BY <2>1 DEF Unmoved, SameRuns
    <2> QED BY <2>1, <2>2, StillResults
  <1>2. CASE Start \/ ScaleUp \/ Finish \/ AbortAll
    BY <1>2, DriveEffect, StillResults
  <1>3. ASSUME NEW w \in Workers, ProcessStep(w) PROVE RInv'
    <2>1. CASE ExitClean(w)
      BY <2>1, GoneResults DEF ExitClean
    <2> QED
      BY <1>3, <2>1, BootResults, ReceiveResults, StartFileResults,
         FinishFileResults, FlushOutResults, FlushAggregatesResults DEF ProcessStep
  <1>4. ASSUME NEW w \in Workers, Callback(w) PROVE RInv'
    BY <1>4, OnReadyResults, OnOtherFrameResults, OnFileDoneResults, EndResults
       DEF Callback
  <1>5. ASSUME NEW w \in Workers, Die(w) \/ Killed(w) PROVE RInv'
    BY <1>5, GoneResults DEF Die, Killed
  <1>6. ASSUME NEW w \in Workers, WriteGarbage(w) PROVE RInv'
    BY <1>6, WriteGarbageResults
  <1> QED BY <1>1, <1>2, <1>3, <1>4, <1>5, <1>6 DEF Next

\* No file is run twice, a reported result is the one the file had, a file is
\* charged to a crash only if its result did not make it into the socket, and
\* one that was given up was never started: whatever dies, and whenever.
THEOREM TestResultsAreTrue == Spec => []ResultsAreTrue
  <1>1. Init => IInv /\ AInv /\ RInv
    BY InitIInv, InitOneFile, InitResults
  <1>2. (IInv /\ AInv /\ RInv) /\ [Next]_vars => (IInv /\ AInv /\ RInv)'
    BY NextKeeps, NextOneFile, NextResults
  <1>3. IInv /\ AInv /\ RInv => ResultsAreTrue
    BY DEF RInv
  <1> QED BY <1>1, <1>2, <1>3, PTL DEF Spec

-----------------------------------------------------------------------------
(* The report.                                                             *)

Reported == {f \in Files : verdict[f] \in {"pass", "fail"}}

\* Aggregates that cover file f are in the queue; and aggregates are the last
\* that a process writes.
Covers(q, f) == \E i \in DOMAIN q : q[i].kind = "Aggregates" /\ f \in q[i].files
Last(q) == \A i \in DOMAIN q : q[i].kind = "Aggregates" => i = Len(q)

Ordered(p, u) ==
    /\ Carries(u, "Aggregates") \/ Carries(p.out, "Aggregates") =>
         p.at \in {"flush", "gone"}
    /\ Carries(u, "Aggregates") => p.out = <<>>
    /\ Last(u) /\ Last(p.out)

\* The files that a process has run, or covers, have been reported by then: only
\* the result of g, in front of the aggregates, may still be on the way.
RanIsReported(g, p, u, rep) ==
    \A f \in Files : f \in p.ran \/ Covers(p.out, f) \/ Covers(u, f) =>
        \/ f \in rep
        \/ f = g /\ (Carries(p.out, "FileDone") \/ Carries(u, "FileDone"))

\* A process that flushes has written its aggregates.
FlushedIsThere(p, u, frags) ==
    p.at = "flush" =>
        \A f \in p.ran : f \in frags \/ Covers(u, f) \/ Covers(p.out, f)

Merges(g, p, u, done, rep, frags) ==
    /\ Ordered(p, u)
    /\ ~done => RanIsReported(g, p, u, rep) /\ FlushedIsThere(p, u, frags)

MergesEach ==
    \A w \in Workers :
        Merges(inflight[w], proc[w], up[w], ipc_done[w], Reported, fragments)

\* What is owed has arrived, or is in the socket of a process that is gone, and
\* will be read.
InSocket(p, u, done, f) ==
    p.at = "gone" /\ ~done /\ ~Carries(u, "Garbage") /\ Covers(u, f)
OwedIsThere ==
    \A f \in owed \ fragments :
        \E w \in Workers : InSocket(proc[w], up[w], ipc_done[w], f)

MInv == MergesEach /\ OwedIsThere /\ fragments \subseteq Reported

\* Frames that are written and read, and aggregates.
LEMMA WrittenCovers ==
    ASSUME NEW s \in Seq(UpFrames), NEW m \in UpFrames, NEW f
    PROVE  /\ Covers(Append(s, m), f) <=>
                Covers(s, f) \/ (m.kind = "Aggregates" /\ f \in m.files)
           /\ ~Carries(s, "Aggregates") => Last(Append(s, m))
  <1> DEFINE t == Append(s, m)
  <1>1. /\ Len(s) \in Nat /\ DOMAIN s = 1..Len(s) /\ DOMAIN t = 1..Len(s) + 1
        /\ Len(t) = Len(s) + 1
        /\ t[Len(s) + 1] = m /\ \A i \in 1..Len(s) : t[i] = s[i]
    OBVIOUS
  <1> HIDE DEF t
  <1>2. /\ \A i \in DOMAIN t : i \in DOMAIN s \/ i = Len(s) + 1
        /\ DOMAIN s \subseteq DOMAIN t /\ Len(s) + 1 \in DOMAIN t
        /\ \A i \in DOMAIN s : t[i] = s[i]
    BY <1>1
  <1>3. Covers(t, f) <=> Covers(s, f) \/ (m.kind = "Aggregates" /\ f \in m.files)
    BY <1>1, <1>2 DEF Covers
  <1>4. ~Carries(s, "Aggregates") => Last(t)
    BY <1>1, <1>2 DEF Carries, Last
  <1> QED BY <1>3, <1>4 DEF t

\* A frame is read, and what the rest covers.
LEMMA ReadCovers ==
    ASSUME NEW s \in Seq(UpFrames), s # <<>>, NEW f
    PROVE  /\ Covers(s, f) <=> \/ Covers(Tail(s), f)
                               \/ Head(s).kind = "Aggregates" /\ f \in Head(s).files
           /\ Last(s) => /\ Last(Tail(s))
                         /\ Head(s).kind = "Aggregates" => Tail(s) = <<>>
  <1> DEFINE t == Tail(s)
  <1>1. /\ t \in Seq(UpFrames)
        /\ Len(s) \in Nat /\ Len(s) >= 1 /\ Len(t) = Len(s) - 1
        /\ DOMAIN s = 1..Len(s) /\ DOMAIN t = 1..Len(t)
        /\ Head(s) = s[1] /\ \A i \in 1..Len(t) : t[i] = s[i + 1]
    OBVIOUS
  <1> HIDE DEF t
  <1>2. /\ 1 \in DOMAIN s
        /\ \A i \in DOMAIN t : i + 1 \in DOMAIN s /\ t[i] = s[i + 1]
        /\ \A i \in DOMAIN s : i # 1 => i - 1 \in DOMAIN t /\ t[i - 1] = s[i]
    BY <1>1
  <1>3. ASSUME Covers(s, f), ~(Head(s).kind = "Aggregates" /\ f \in Head(s).files)
        PROVE  Covers(t, f)
    <2>1. PICK i \in DOMAIN s : s[i].kind = "Aggregates" /\ f \in s[i].files
      BY <1>3 DEF Covers
    <2>2. i # 1
      BY <1>1, <1>3, <2>1
    <2> QED BY <1>2, <2>1, <2>2 DEF Covers
  <1>4. Covers(t, f) => Covers(s, f)
    BY <1>2 DEF Covers
  <1>5. Head(s).kind = "Aggregates" /\ f \in Head(s).files => Covers(s, f)
    BY <1>1, <1>2 DEF Covers
  <1>6. ASSUME Last(s)
        PROVE  Last(t) /\ (Head(s).kind = "Aggregates" => t = <<>>)
    <2>1. ASSUME NEW i \in DOMAIN t, t[i].kind = "Aggregates" PROVE i = Len(t)
      <3>1. i + 1 \in DOMAIN s /\ s[i + 1].kind = "Aggregates"
        BY <1>2, <2>1
      <3>2. i + 1 = Len(s)
        BY <1>6, <3>1 DEF Last
      <3> QED BY <1>1, <2>1, <3>2
    <2>2. Last(t)
      BY <2>1 DEF Last
    <2>3. ASSUME Head(s).kind = "Aggregates" PROVE t = <<>>
      <3>1. Len(s) = 1
        BY <1>1, <1>2, <1>6, <2>3 DEF Last
      <3>2. Len(t) = 0
        BY <1>1, <3>1
      <3> QED BY <1>1, <3>2
    <2> QED BY <2>2, <2>3
  <1> QED BY <1>3, <1>4, <1>5, <1>6 DEF t

\* A queue without aggregates covers nothing.
LEMMA CoversNothing ==
    /\ \A q, f : Covers(q, f) => Carries(q, "Aggregates")
    /\ \A q : ~Carries(q, "Aggregates") => Last(q)
  BY DEF Covers, Carries, Last

\* Reports and fragments are never taken back.
LEMMA MoreReported ==
    ASSUME NEW g, NEW p, NEW u, NEW done, NEW rep, NEW frags, NEW rep2, NEW frags2,
           rep \subseteq rep2, frags \subseteq frags2,
           Merges(g, p, u, done, rep, frags)
    PROVE  Merges(g, p, u, done, rep2, frags2)
  BY DEF Merges, RanIsReported, FlushedIsThere

\* A step of w keeps MInv if what it does to w, to the report and to what is owed
\* is right.
LEMMA OthersMerge ==
    ASSUME MInv, NEW w \in Workers, OthersUnmoved(w),
           Reported \subseteq Reported', fragments \subseteq fragments',
           fragments' \subseteq Reported',
           Merges(inflight'[w], proc'[w], up'[w], ipc_done'[w], Reported', fragments'),
           \A f \in owed' \ fragments' :
               \/ f \in owed /\ ~InSocket(proc[w], up[w], ipc_done[w], f)
               \/ InSocket(proc'[w], up'[w], ipc_done'[w], f)
    PROVE  MInv'
  <1>1. ASSUME NEW v \in Workers, v # w
        PROVE  /\ Merges(inflight'[v], proc'[v], up'[v], ipc_done'[v],
                         Reported', fragments')
               /\ \A f : InSocket(proc[v], up[v], ipc_done[v], f) =>
                           InSocket(proc'[v], up'[v], ipc_done'[v], f)
    <2>1. Unmoved(v)
      BY <1>1 DEF OthersUnmoved
    <2>2. Merges(inflight[v], proc[v], up[v], ipc_done[v], Reported, fragments)
      BY DEF MInv, MergesEach
    <2>3. Merges(inflight[v], proc[v], up[v], ipc_done[v], Reported', fragments')
      BY <2>2, MoreReported
    <2>4. Merges(inflight'[v], proc'[v], up'[v], ipc_done'[v], Reported', fragments')
      BY <2>1, <2>3 DEF Unmoved, Merges, Ordered, RanIsReported, FlushedIsThere
    <2> QED BY <2>1, <2>4 DEF Unmoved, InSocket
  <1>2. MergesEach'
    BY <1>1 DEF MergesEach
  <1>3. OwedIsThere'
    <2>1. ASSUME NEW f \in owed' \ fragments'
          PROVE  \E v \in Workers : InSocket(proc'[v], up'[v], ipc_done'[v], f)
      <3>1. CASE InSocket(proc'[w], up'[w], ipc_done'[w], f)
        BY <3>1
      <3>2. CASE f \in owed /\ ~InSocket(proc[w], up[w], ipc_done[w], f)
        <4>1. PICK v \in Workers : InSocket(proc[v], up[v], ipc_done[v], f)
          BY <2>1, <3>2 DEF MInv, OwedIsThere
        <4>2. v # w
          BY <3>2, <4>1
        <4> QED BY <1>1, <4>1, <4>2
      <3> QED BY <2>1, <3>1, <3>2
    <2> QED BY <2>1 DEF OwedIsThere
  <1> QED BY <1>2, <1>3 DEF MInv

\* The same for a step that reports nothing.
LEMMA SameMerge ==
    ASSUME MInv, NEW w \in Workers, OthersUnmoved(w),
           UNCHANGED <<verdict, owed, fragments>>,
           Merges(inflight'[w], proc'[w], up'[w], ipc_done'[w], Reported, fragments),
           \A f : InSocket(proc[w], up[w], ipc_done[w], f) =>
                    InSocket(proc'[w], up'[w], ipc_done'[w], f)
    PROVE  MInv'
  <1>1. Reported' = Reported
    BY DEF Reported
  <1>2. fragments \subseteq Reported
    BY DEF MInv
  <1> QED BY <1>1, <1>2, OthersMerge

\* What a process writes that is no aggregate.
LEMMA WrittenMerge ==
    ASSUME IInv, NEW w \in Workers, NEW m \in UpFrames, Written(w, m),
           m.kind # "Aggregates"
    PROVE  /\ Carries(up'[w], "Aggregates") <=> Carries(up[w], "Aggregates")
           /\ Carries(proc'[w].out, "Aggregates") <=> Carries(proc[w].out, "Aggregates")
           /\ Carries(up[w], "FileDone") => Carries(up'[w], "FileDone")
           /\ Carries(proc[w].out, "FileDone") => Carries(proc'[w].out, "FileDone")
  <1> DEFINE u == up[w]
             o == proc[w].out
  <1>1. u \in Seq(UpFrames) /\ o \in Seq(UpFrames)
    BY SocketsKept
  <1>2. \/ up'[w] = Append(u, m) /\ proc'[w].out = o
        \/ up'[w] = u /\ proc'[w].out = o
        \/ up'[w] = u /\ proc'[w].out = Append(o, m)
    BY DEF Written
  <1> HIDE DEF u, o
  <1>3. /\ Carries(Append(u, m), "Aggregates") <=> Carries(u, "Aggregates")
        /\ Carries(u, "FileDone") => Carries(Append(u, m), "FileDone")
    BY <1>1, WrittenUp
  <1>4. /\ Carries(Append(o, m), "Aggregates") <=> Carries(o, "Aggregates")
        /\ Carries(o, "FileDone") => Carries(Append(o, m), "FileDone")
    BY <1>1, WrittenUp
  <1> QED BY <1>2, <1>3, <1>4 DEF u, o

\* A process that has not flushed writes something.
LEMMA BusyMerge ==
    ASSUME IInv, MInv, NEW w \in Workers, OthersUnmoved(w),
           UNCHANGED <<verdict, owed, fragments, inflight, ipc_done>>,
           NEW m \in UpFrames, Written(w, m), m.kind # "Aggregates",
           proc[w].at \in {"idle", "run"}, proc'[w].at \in {"idle", "run"},
           \A f \in proc'[w].ran :
               \/ f \in proc[w].ran
               \/ /\ f = inflight[w]
                  /\ \/ ipc_done[w] \/ Carries(proc'[w].out, "FileDone")
                     \/ Carries(up'[w], "FileDone")
    PROVE  MInv'
  <1>1. Merges(inflight[w], proc[w], up[w], ipc_done[w], Reported, fragments)
    BY DEF MInv, MergesEach
  <1>2. ~Carries(up[w], "Aggregates") /\ ~Carries(proc[w].out, "Aggregates")
    BY <1>1 DEF Merges, Ordered
  <1>3. /\ ~Carries(up'[w], "Aggregates") /\ ~Carries(proc'[w].out, "Aggregates")
        /\ Carries(up[w], "FileDone") => Carries(up'[w], "FileDone")
        /\ Carries(proc[w].out, "FileDone") => Carries(proc'[w].out, "FileDone")
    BY <1>2, WrittenMerge
  <1>4. Ordered(proc'[w], up'[w])
    BY <1>3, CoversNothing DEF Ordered
  <1>5. ~ipc_done[w] => RanIsReported(inflight[w], proc'[w], up'[w], Reported)
    BY <1>1, <1>3, CoversNothing DEF Merges, RanIsReported
  <1>6. Merges(inflight'[w], proc'[w], up'[w], ipc_done'[w], Reported, fragments)
    BY <1>4, <1>5 DEF Merges, FlushedIsThere
  <1> QED BY <1>6, SameMerge DEF InSocket

\* A new process has run nothing.
LEMMA BootMerge == ASSUME IInv, MInv, NEW w \in Workers, Boot(w) PROVE MInv'
  <1> DEFINE m == [kind |-> "Ready"]
  <1>1. /\ OthersUnmoved(w) /\ UNCHANGED <<verdict, owed, fragments, inflight, ipc_done>>
        /\ up[w] = <<>> /\ up'[w] = <<m>>
        /\ proc[w].out = <<>> /\ proc'[w].out = <<>>
        /\ proc[w].at = "boot" /\ proc'[w].at = "idle" /\ proc'[w].ran = proc[w].ran
    BY BootEffect
  <1>2. ~Carries(<<m>>, "Aggregates")
    BY DEF Carries
  <1> HIDE DEF m
  <1>3. Merges(inflight[w], proc[w], up[w], ipc_done[w], Reported, fragments)
    BY DEF MInv, MergesEach
  <1>4. Merges(inflight'[w], proc'[w], up'[w], ipc_done'[w], Reported, fragments)
    BY <1>1, <1>2, <1>3, CarriesNothing, CoversNothing
       DEF Merges, Ordered, RanIsReported, FlushedIsThere
  <1> QED BY <1>1, <1>4, SameMerge DEF InSocket

\* A command changes nothing of what a process has run.
LEMMA ReceiveMerge == ASSUME IInv, MInv, NEW w \in Workers, Receive(w) PROVE MInv'
  <1>1. /\ OthersUnmoved(w) /\ UNCHANGED <<verdict, owed, fragments, inflight, ipc_done>>
        /\ up' = up /\ proc'[w].out = proc[w].out
        /\ proc'[w].at = proc[w].at /\ proc'[w].ran = proc[w].ran
    BY ReceiveEffect
  <1>2. Merges(inflight[w], proc[w], up[w], ipc_done[w], Reported, fragments)
    BY DEF MInv, MergesEach
  <1>3. Merges(inflight'[w], proc'[w], up'[w], ipc_done'[w], Reported, fragments)
    BY <1>1, <1>2 DEF Merges, Ordered, RanIsReported, FlushedIsThere
  <1> QED BY <1>1, <1>3, SameMerge DEF InSocket

\* A file that starts has not been run yet.
LEMMA StartFileMerge == ASSUME IInv, MInv, NEW w \in Workers, StartFile(w) PROVE MInv'
  <1> DEFINE m == [kind |-> "FileStart"]
  <1>1. /\ OthersUnmoved(w) /\ UNCHANGED <<verdict, owed, fragments, inflight, ipc_done>>
        /\ Written(w, m) /\ proc[w].at = "idle" /\ proc'[w].at = "run"
        /\ proc'[w].ran = proc[w].ran
    BY StartFileEffect
  <1>2. m \in UpFrames /\ m.kind # "Aggregates"
    BY Frames
  <1> QED BY <1>1, <1>2, BusyMerge

\* A file that has been run has its result on the way.
LEMMA FinishFileMerge ==
    ASSUME IInv, AInv, MInv, NEW w \in Workers, FinishFile(w) PROVE MInv'
  <1>1. /\ OthersUnmoved(w) /\ UNCHANGED <<verdict, owed, fragments, inflight, ipc_done>>
        /\ proc[w].at = "run" /\ proc'[w].at = "idle" /\ proc[w].file \in Files
        /\ proc'[w].ran = proc[w].ran \cup {proc[w].file}
    BY FinishFileEffect
  <1>2. PICK b \in BOOLEAN :
           Written(w, [kind |-> "FileDone", file |-> proc[w].file, failed |-> b])
    BY FinishFileEffect
  <1> DEFINE m == [kind |-> "FileDone", file |-> proc[w].file, failed |-> b]
  <1>3. m \in UpFrames /\ m.kind = "FileDone" /\ m.file = proc[w].file /\ Written(w, m)
    BY <1>1, <1>2, Frames
  <1> HIDE DEF m
  <1>4. Agrees(inflight[w], down[w], proc[w], up[w])
    BY DEF AInv, OneFile
  <1>5. /\ proc[w].file = inflight[w]
        /\ ~Carries(up[w], "FileDone") /\ ~Carries(proc[w].out, "FileDone")
    BY <1>1, <1>4, NoneAssumption DEF Agrees
  <1>6. \/ ipc_done[w] \/ Carries(up'[w], "FileDone")
        \/ Carries(proc'[w].out, "FileDone")
    BY <1>3, <1>5, WrittenOneFile
  <1> QED BY <1>1, <1>3, <1>5, <1>6, BusyMerge

\* A process writes past its frames only while it runs a file.
LEMMA WriteGarbageMerge ==
    ASSUME IInv, MInv, NEW w \in Workers, WriteGarbage(w) PROVE MInv'
  <1> DEFINE m == [kind |-> "Garbage"]
             u == up[w]
  <1>1. /\ OthersUnmoved(w) /\ UNCHANGED <<verdict, owed, fragments, inflight, ipc_done>>
        /\ proc' = proc /\ proc[w].at = "run" /\ up'[w] = Append(u, m)
    BY WriteGarbageEffect
  <1>2. m \in UpFrames /\ m.kind = "Garbage" /\ u \in Seq(UpFrames) /\ up[w] = u
    BY Frames, SocketsKept
  <1> HIDE DEF m, u
  <1>3. Merges(inflight[w], proc[w], u, ipc_done[w], Reported, fragments)
    BY <1>2 DEF MInv, MergesEach
  <1>4. ~Carries(u, "Aggregates") /\ ~Carries(proc[w].out, "Aggregates")
    BY <1>1, <1>3 DEF Merges, Ordered
  <1>5. /\ ~Carries(Append(u, m), "Aggregates")
        /\ Carries(u, "FileDone") => Carries(Append(u, m), "FileDone")
    BY <1>2, <1>4, WrittenUp
  <1>6. Merges(inflight[w], proc[w], Append(u, m), ipc_done[w], Reported, fragments)
    BY <1>1, <1>3, <1>4, <1>5, CoversNothing
       DEF Merges, Ordered, RanIsReported, FlushedIsThere
  <1>7. Merges(inflight'[w], proc'[w], up'[w], ipc_done'[w], Reported, fragments)
    BY <1>1, <1>6
  <1> QED BY <1>1, <1>7, SameMerge DEF InSocket

\* The first frame of the backlog moves to the socket, and what it says with it.
LEMMA FlushOutMerge ==
    ASSUME IInv, MInv, NEW w \in Workers, FlushOut(w) PROVE MInv'
  <1> DEFINE o == proc[w].out
             m == Head(o)
             u == up[w]
  <1>1. /\ OthersUnmoved(w) /\ UNCHANGED <<verdict, owed, fragments, inflight, ipc_done>>
        /\ o # <<>> /\ proc'[w].out = Tail(o)
        /\ up'[w] = IF ipc_done[w] THEN u ELSE Append(u, m)
        /\ proc[w].at \in {"idle", "run", "flush"}
        /\ proc'[w].at = proc[w].at /\ proc'[w].ran = proc[w].ran
    BY FlushOutEffect
  <1>2. o \in Seq(UpFrames) /\ u \in Seq(UpFrames) /\ proc[w].out = o /\ up[w] = u
    BY SocketsKept
  <1>3. Merges(inflight[w], proc[w], u, ipc_done[w], Reported, fragments)
    BY DEF MInv, MergesEach
  <1> HIDE DEF o, u
  <1>4. m \in UpFrames
    BY <1>1, <1>2, ReadUp
  <1>5. \A kind : Carries(o, kind) <=> Carries(Tail(o), kind) \/ m.kind = kind
    BY <1>1, <1>2, ReadUp
  <1>6. \A f : Covers(o, f) <=> \/ Covers(Tail(o), f)
                                \/ m.kind = "Aggregates" /\ f \in m.files
    BY <1>1, <1>2, ReadCovers
  <1>7. Last(o) => Last(Tail(o)) /\ (m.kind = "Aggregates" => Tail(o) = <<>>)
    BY <1>1, <1>2, ReadCovers
  <1> HIDE DEF m
  <1>8. \A kind : Carries(Append(u, m), kind) <=> Carries(u, kind) \/ m.kind = kind
    BY <1>2, <1>4, WrittenUp
  <1>9. \A f : Covers(Append(u, m), f) <=> \/ Covers(u, f)
                                           \/ m.kind = "Aggregates" /\ f \in m.files
    BY <1>2, <1>4, WrittenCovers
  <1>10. ~Carries(u, "Aggregates") => Last(Append(u, m))
    BY <1>2, <1>4, WrittenCovers
  <1>11. ~Carries(u, "Aggregates") /\ Last(o)
    BY <1>1, <1>2, <1>3 DEF Merges, Ordered
  <1>12. Ordered(proc[w], u)
    BY <1>3 DEF Merges
  <1>13. CASE ipc_done[w]
    <2>1. Ordered(proc'[w], u)
      BY <1>1, <1>2, <1>5, <1>7, <1>11, <1>12 DEF Ordered
    <2>2. Merges(inflight'[w], proc'[w], up'[w], ipc_done'[w], Reported, fragments)
      BY <1>1, <1>13, <2>1 DEF Merges
    <2> QED BY <1>1, <2>2, SameMerge DEF InSocket
  <1>14. CASE ~ipc_done[w]
    <2>1. Ordered(proc'[w], Append(u, m))
      BY <1>1, <1>2, <1>5, <1>7, <1>8, <1>10, <1>11, <1>12 DEF Ordered
    <2>2. RanIsReported(inflight[w], proc[w], u, Reported)
          /\ FlushedIsThere(proc[w], u, fragments)
      BY <1>3, <1>14 DEF Merges
    <2>3. RanIsReported(inflight[w], proc'[w], Append(u, m), Reported)
      BY <1>1, <1>2, <1>5, <1>6, <1>8, <1>9, <2>2 DEF RanIsReported
    <2>4. FlushedIsThere(proc'[w], Append(u, m), fragments)
      BY <1>1, <1>2, <1>6, <1>9, <2>2 DEF FlushedIsThere
    <2>5. Merges(inflight'[w], proc'[w], up'[w], ipc_done'[w], Reported, fragments)
      BY <1>1, <1>14, <2>1, <2>3, <2>4 DEF Merges
    <2> QED BY <1>1, <2>5, SameMerge DEF InSocket
  <1> QED BY <1>13, <1>14

\* The aggregates are written: they cover what the process has run.
LEMMA FlushAggregatesMerge ==
    ASSUME IInv, MInv, NEW w \in Workers, FlushAggregates(w) PROVE MInv'
  <1> DEFINE m == [kind |-> "Aggregates", files |-> proc[w].ran]
             o == proc[w].out
  <1>1. /\ OthersUnmoved(w) /\ UNCHANGED <<verdict, owed, fragments, inflight, ipc_done>>
        /\ up' = up /\ proc[w].at = "idle" /\ proc'[w].at = "flush"
        /\ proc[w].ran \subseteq Files /\ proc'[w].ran = proc[w].ran
        /\ proc'[w].out = Append(o, m)
    BY FlushAggregatesEffect
  <1>2. /\ m \in UpFrames /\ m.kind = "Aggregates" /\ m.files = proc[w].ran
        /\ o \in Seq(UpFrames) /\ proc[w].out = o
    BY <1>1, Frames, SocketsKept
  <1> HIDE DEF m, o
  <1>3. Merges(inflight[w], proc[w], up[w], ipc_done[w], Reported, fragments)
    BY DEF MInv, MergesEach
  <1>4. ~Carries(up[w], "Aggregates") /\ ~Carries(o, "Aggregates")
    BY <1>1, <1>2, <1>3 DEF Merges, Ordered
  <1>5. /\ \A f : Covers(Append(o, m), f) <=> Covers(o, f) \/ f \in proc[w].ran
        /\ Last(Append(o, m))
    BY <1>2, <1>4, WrittenCovers
  <1>6. Carries(Append(o, m), "FileDone") <=> Carries(o, "FileDone")
    BY <1>2, WrittenUp
  <1>7. Ordered(proc'[w], up[w])
    BY <1>1, <1>4, <1>5, CoversNothing DEF Ordered
  <1>8. ~ipc_done[w] => /\ RanIsReported(inflight[w], proc'[w], up[w], Reported)
                        /\ FlushedIsThere(proc'[w], up[w], fragments)
    BY <1>1, <1>2, <1>3, <1>5, <1>6 DEF Merges, RanIsReported, FlushedIsThere
  <1>9. Merges(inflight'[w], proc'[w], up'[w], ipc_done'[w], Reported, fragments)
    BY <1>1, <1>7, <1>8 DEF Merges
  <1> QED BY <1>1, <1>9, SameMerge DEF InSocket

\* A process ends: what it owes is in the socket.
LEMMA GoneMerge ==
    ASSUME IInv, MInv, NEW w \in Workers, NEW status \in {"exit", "panic"},
           Gone(w, status), proc[w].at \notin {"none", "gone"},
           \/ owed' = owed
           \/ /\ proc[w].at = "flush" /\ proc[w].out = <<>> /\ Intact(w)
              /\ owed' = owed \cup proc[w].ran
    PROVE  MInv'
  <1>1. /\ OthersUnmoved(w) /\ UNCHANGED <<verdict, fragments, inflight, ipc_done>>
        /\ up' = up /\ proc'[w].at = "gone" /\ proc'[w].out = <<>>
        /\ proc'[w].ran = {}
    BY GoneEffect
  <1>2. Merges(inflight[w], proc[w], up[w], ipc_done[w], Reported, fragments)
    BY DEF MInv, MergesEach
  <1>3. \A f : Covers(up[w], f) => ~Carries(proc[w].out, "FileDone")
    BY <1>2, CoversNothing, CarriesNothing DEF Merges, Ordered
  <1>4. Merges(inflight'[w], proc'[w], up'[w], ipc_done'[w], Reported, fragments)
    BY <1>1, <1>2, <1>3, CarriesNothing, CoversNothing
       DEF Merges, Ordered, RanIsReported, FlushedIsThere
  <1>5. ASSUME NEW f \in owed' \ fragments', f \notin owed
        PROVE  InSocket(proc'[w], up'[w], ipc_done'[w], f)
    <2>1. /\ proc[w].at = "flush" /\ proc[w].out = <<>> /\ Intact(w)
          /\ f \in proc[w].ran /\ f \notin fragments
      BY <1>1, <1>5
    <2>2. ~ipc_done[w] /\ ~Carries(up[w], "Garbage")
      BY <2>1 DEF Intact, Carries
    <2>3. Covers(up[w], f)
      BY <1>2, <2>1, <2>2, CarriesNothing, CoversNothing DEF Merges, FlushedIsThere
    <2> QED BY <1>1, <2>2, <2>3 DEF InSocket
  <1>6. Reported' = Reported /\ fragments \subseteq Reported
    BY <1>1 DEF Reported, MInv
  <1>7. \A f : ~InSocket(proc[w], up[w], ipc_done[w], f)
    BY DEF InSocket
  <1> QED BY <1>1, <1>4, <1>5, <1>6, <1>7, OthersMerge

\* What reading a frame leaves in the socket.
LEMMA ReadMerge ==
    ASSUME IInv, MInv, NEW w \in Workers, NEW kind, Frame(w, kind)
    PROVE  /\ kind # "Aggregates" => \A f : Covers(up'[w], f) <=> Covers(up[w], f)
           /\ kind = "Aggregates" =>
                /\ \A f : ~Covers(up'[w], f)
                /\ \A f : Covers(up[w], f) <=> f \in Head(up[w]).files
                /\ ~Carries(up[w], "FileDone") /\ proc[w].out = <<>>
                /\ Head(up[w]).files \subseteq Files
           /\ Ordered(proc[w], up'[w])
           /\ Carries(up'[w], "FileDone") => Carries(up[w], "FileDone")
           /\ kind # "FileDone" /\ Carries(up[w], "FileDone") =>
                Carries(up'[w], "FileDone")
           /\ Carries(up'[w], "Garbage") => Carries(up[w], "Garbage")
  <1> DEFINE u == up[w]
             m == Head(u)
             t == Tail(u)
  <1>1. /\ u # <<>> /\ m.kind = kind /\ up'[w] = t /\ u \in Seq(UpFrames)
        /\ up[w] = u
    BY FrameEffect, SocketsKept
  <1>2. Ordered(proc[w], u)
    BY DEF MInv, MergesEach, Merges
  <1> HIDE DEF u
  <1>3. /\ \A k : Carries(u, k) <=> Carries(t, k) \/ m.kind = k
        /\ m \in UpFrames
    BY <1>1, ReadUp
  <1>4. \A f : Covers(u, f) <=> Covers(t, f) \/ (m.kind = "Aggregates" /\ f \in m.files)
    BY <1>1, ReadCovers
  <1>5. Last(u) => Last(t) /\ (m.kind = "Aggregates" => t = <<>>)
    BY <1>1, ReadCovers
  <1>6. m.kind = "Aggregates" => m.files \subseteq Files
    BY <1>3 DEF UpFrames
  <1> HIDE DEF m, t
  <1>7. Ordered(proc[w], t)
    BY <1>2, <1>3, <1>5 DEF Ordered
  <1>8. ASSUME m.kind = "Aggregates"
        PROVE  /\ \A f : ~Covers(t, f)
               /\ ~Carries(u, "FileDone") /\ proc[w].out = <<>>
    <2>1. t = <<>> /\ proc[w].out = <<>>
      BY <1>2, <1>3, <1>5, <1>8 DEF Ordered
    <2> QED BY <1>3, <1>8, <2>1, CarriesNothing, CoversNothing
  <1>9. Head(up[w]) = m
    BY <1>1 DEF m
  <1> QED BY <1>1, <1>3, <1>4, <1>6, <1>7, <1>8, <1>9

\* FileStart says nothing.
LEMMA OnFileStartMerge ==
    ASSUME IInv, MInv, NEW w \in Workers, OnFileStart(w) PROVE MInv'
  <1>1. /\ OthersUnmoved(w) /\ UNCHANGED <<verdict, owed, inflight, ipc_done, proc>>
    BY OnOtherFrameEffect
  <1>2. Frame(w, "FileStart") /\ fragments' = fragments
    BY DEF OnFileStart
  <1>3. Merges(inflight[w], proc[w], up[w], ipc_done[w], Reported, fragments)
    BY DEF MInv, MergesEach
  <1>4. /\ \A f : Covers(up'[w], f) <=> Covers(up[w], f)
        /\ Ordered(proc[w], up'[w])
        /\ Carries(up'[w], "FileDone") <=> Carries(up[w], "FileDone")
        /\ Carries(up'[w], "Garbage") => Carries(up[w], "Garbage")
    BY <1>2, ReadMerge
  <1>5. Merges(inflight[w], proc[w], up'[w], ipc_done[w], Reported, fragments)
    BY <1>3, <1>4 DEF Merges, RanIsReported, FlushedIsThere
  <1>6. Merges(inflight'[w], proc'[w], up'[w], ipc_done'[w], Reported, fragments)
    BY <1>1, <1>5
  <1> QED BY <1>1, <1>2, <1>4, <1>6, SameMerge DEF InSocket

\* Aggregates join the report: the files they cover have their results.
LEMMA OnAggregatesMerge ==
    ASSUME IInv, MInv, NEW w \in Workers, OnAggregates(w) PROVE MInv'
  <1>1. /\ OthersUnmoved(w) /\ UNCHANGED <<verdict, owed, inflight, ipc_done, proc>>
    BY OnOtherFrameEffect
  <1>2. Frame(w, "Aggregates") /\ fragments' = fragments \cup Head(up[w]).files
    BY DEF OnAggregates
  <1>3. /\ \A f : ~Covers(up'[w], f)
        /\ \A f : Covers(up[w], f) <=> f \in Head(up[w]).files
        /\ ~Carries(up[w], "FileDone") /\ proc[w].out = <<>>
        /\ Head(up[w]).files \subseteq Files
        /\ Ordered(proc[w], up'[w])
        /\ ~ipc_done[w]
    BY <1>2, ReadMerge, FrameEffect
  <1>4. /\ Merges(inflight[w], proc[w], up[w], ipc_done[w], Reported, fragments)
        /\ fragments \subseteq Reported
    BY DEF MInv, MergesEach
  <1>5. RanIsReported(inflight[w], proc[w], up[w], Reported)
        /\ FlushedIsThere(proc[w], up[w], fragments)
    BY <1>3, <1>4 DEF Merges
  <1>6. /\ \A f \in Files : f \in proc[w].ran \/ Covers(up[w], f) => f \in Reported
        /\ Head(up[w]).files \subseteq Reported
    BY <1>3, <1>5, CarriesNothing DEF RanIsReported
  <1>7. Reported' = Reported
    BY <1>1 DEF Reported
  <1>8. RanIsReported(inflight[w], proc[w], up'[w], Reported)
    BY <1>3, <1>6, CarriesNothing, CoversNothing DEF RanIsReported
  <1>9. FlushedIsThere(proc[w], up'[w], fragments')
    BY <1>2, <1>3, <1>5 DEF FlushedIsThere
  <1>10. Merges(inflight'[w], proc'[w], up'[w], ipc_done'[w], Reported', fragments')
    BY <1>1, <1>3, <1>7, <1>8, <1>9 DEF Merges
  <1>11. \A f \in owed' \ fragments' :
            f \in owed /\ ~InSocket(proc[w], up[w], ipc_done[w], f)
    BY <1>1, <1>2, <1>3 DEF InSocket
  <1>12. fragments \subseteq fragments' /\ fragments' \subseteq Reported'
    BY <1>2, <1>4, <1>6, <1>7
  <1> QED BY <1>1, <1>7, <1>10, <1>11, <1>12, OthersMerge

\* A worker is given a file, having none: its results have been reported.
LEMMA AssignedMerge ==
    ASSUME NEW w \in Workers, NEW rep, NEW rep2, NEW u,
           ~ipc_done[w] => RanIsReported(inflight[w], proc[w], up[w], rep),
           rep \subseteq rep2, inflight[w] = None \/ inflight[w] \in rep2,
           None \notin Files,
           Ordered(proc[w], u), \A f : Covers(u, f) <=> Covers(up[w], f),
           ~ipc_done[w] => FlushedIsThere(proc[w], up[w], fragments)
    PROVE  \A g : Merges(g, proc[w], u, ipc_done[w], rep2, fragments)
  BY DEF Merges, RanIsReported, FlushedIsThere

\* A worker is given its first file.
LEMMA OnReadyMerge ==
    ASSUME IInv, IInv', MInv, NEW w \in Workers, OnReady(w) PROVE MInv'
  <1>1. /\ OthersUnmoved(w) /\ inflight[w] = None
        /\ UNCHANGED <<verdict, owed, fragments, ipc_done, proc>>
        /\ Frame(w, "Ready")
    BY OnReadyEffect
  <1>2. /\ \A f : Covers(up'[w], f) <=> Covers(up[w], f)
        /\ Ordered(proc[w], up'[w])
        /\ Carries(up'[w], "Garbage") => Carries(up[w], "Garbage")
    BY <1>1, ReadMerge
  <1>3. /\ ~ipc_done[w] => RanIsReported(inflight[w], proc[w], up[w], Reported)
        /\ ~ipc_done[w] => FlushedIsThere(proc[w], up[w], fragments)
    BY DEF MInv, MergesEach, Merges
  <1>4. \A g : Merges(g, proc[w], up'[w], ipc_done[w], Reported, fragments)
    BY <1>1, <1>2, <1>3, NoneAssumption, AssignedMerge
  <1>5. Merges(inflight'[w], proc'[w], up'[w], ipc_done'[w], Reported, fragments)
    BY <1>1, <1>4
  <1> QED BY <1>1, <1>2, <1>5, SameMerge DEF InSocket

\* The file in flight is reported.
LEMMA OnFileDoneMerge ==
    ASSUME IInv, IInv', AInv, MInv, NEW w \in Workers, OnFileDone(w) PROVE MInv'
  <1>0. Frame(w, "FileDone")
    BY DEF OnFileDone
  <1>1. inflight[w] = Head(up[w]).file
    BY <1>0, ResultIsAwaited
  <1>2. /\ OthersUnmoved(w) /\ inflight[w] \in Files
        /\ UNCHANGED <<owed, fragments, ipc_done, proc>>
        /\ verdict[inflight[w]] = None
        /\ verdict' = [verdict EXCEPT ![inflight[w]] =
                           IF Head(up[w]).failed THEN "fail" ELSE "pass"]
    BY <1>1, OnFileDoneEffect
  <1>3. /\ \A f : Covers(up'[w], f) <=> Covers(up[w], f)
        /\ Ordered(proc[w], up'[w])
        /\ Carries(up'[w], "Garbage") => Carries(up[w], "Garbage")
    BY <1>0, ReadMerge
  <1>4. /\ ~ipc_done[w] => RanIsReported(inflight[w], proc[w], up[w], Reported)
        /\ ~ipc_done[w] => FlushedIsThere(proc[w], up[w], fragments)
        /\ fragments \subseteq Reported
    BY DEF MInv, MergesEach, Merges
  <1>5. Reported \subseteq Reported' /\ inflight[w] \in Reported'
    <2>1. verdict \in [Files -> {None, "pass", "fail", "crash", "aborted"}]
      BY DEF IInv, SlotsTyped
    <2>2. /\ \A f \in Files : f # inflight[w] => verdict'[f] = verdict[f]
          /\ verdict'[inflight[w]] \in {"pass", "fail"}
      BY <1>2, <2>1
    <2> QED BY <1>2, <2>2 DEF Reported
  <1>6. \A g : Merges(g, proc[w], up'[w], ipc_done[w], Reported', fragments)
    BY <1>2, <1>3, <1>4, <1>5, NoneAssumption, AssignedMerge
  <1>7. Merges(inflight'[w], proc'[w], up'[w], ipc_done'[w], Reported', fragments')
    BY <1>2, <1>6
  <1>8. \A f \in owed' \ fragments' :
           \/ f \in owed /\ ~InSocket(proc[w], up[w], ipc_done[w], f)
           \/ InSocket(proc'[w], up'[w], ipc_done'[w], f)
    BY <1>2, <1>3 DEF InSocket
  <1> QED BY <1>2, <1>4, <1>5, <1>7, <1>8, OthersMerge

\* Nothing moves, if new processes start perhaps.
LEMMA StillMerges ==
    ASSUME IInv, MInv, UNCHANGED <<verdict, owed, fragments>>,
           \A v \in Workers : Unmoved(v) \/ Spawned(v)
    PROVE  MInv'
  <1>1. Reported' = Reported
    BY DEF Reported
  <1>2. ASSUME NEW v \in Workers
        PROVE  /\ Merges(inflight'[v], proc'[v], up'[v], ipc_done'[v],
                         Reported, fragments)
               /\ \A f : InSocket(proc[v], up[v], ipc_done[v], f) =>
                           InSocket(proc'[v], up'[v], ipc_done'[v], f)
    <2>1. Merges(inflight[v], proc[v], up[v], ipc_done[v], Reported, fragments)
      BY DEF MInv, MergesEach
    <2>2. CASE Unmoved(v)
      BY <2>1, <2>2
         DEF Unmoved, Merges, Ordered, RanIsReported, FlushedIsThere, InSocket
    <2>3. CASE Spawned(v)
      <3>1. NewProcess.out = <<>> /\ NewProcess.ran = {} /\ NewProcess.at = "boot"
        BY DEF NewProcess, NoProcess
      <3>2. /\ proc'[v] = NewProcess /\ up'[v] = <<>> /\ proc[v].at = "none"
        BY <2>3 DEF Spawned, IInv, FreshIsClean
      <3> QED BY <3>1, <3>2, CarriesNothing, CoversNothing
              DEF Merges, Ordered, RanIsReported, FlushedIsThere, InSocket
    <2> QED BY <2>2, <2>3
  <1>3. MergesEach'
    BY <1>1, <1>2 DEF MergesEach
  <1>4. OwedIsThere'
    BY <1>2 DEF MInv, OwedIsThere
  <1> QED BY <1>1, <1>3, <1>4 DEF MInv

\* What is torn down or closed owes nothing: everything has been read.
LEMMA EndMerge ==
    ASSUME IInv, IInv', RInv, MInv, NEW w \in Workers,
           OnProcessExit(w) \/ OnChannelClose(w) \/ OnGarbage(w)
    PROVE  MInv'
  <1>1. ASSUME Mute(w) PROVE \A f : ~InSocket(proc[w], up[w], ipc_done[w], f)
    <2>1. up[w] # <<>> => (Head(up[w]).kind = "Garbage" => Carries(up[w], "Garbage"))
      BY SocketsKept, ReadUp
    <2> QED BY <1>1, <2>1, CarriesNothing, CoversNothing DEF Mute, InSocket
  <1>2. fragments \subseteq Reported
    BY DEF MInv
  <1>3. CASE Mute(w) /\ Reaped(w)
    <2>1. /\ OthersUnmoved(w) /\ UNCHANGED <<owed, fragments>>
          /\ up'[w] = <<>> /\ proc'[w].at \in {"none", "boot"}
          /\ proc'[w].ran = {} /\ proc'[w].out = <<>>
      BY <1>3 DEF Reaped
    <2>2. Reported \subseteq Reported'
      <3>1. \A f \in Files : verdict[f] \in {"pass", "fail"} => verdict'[f] = verdict[f]
        BY <1>3, NoneAssumption DEF Reaped
      <3> QED BY <3>1 DEF Reported
    <2>3. Merges(inflight'[w], proc'[w], up'[w], ipc_done'[w], Reported', fragments')
      BY <2>1, CarriesNothing, CoversNothing
         DEF Merges, Ordered, RanIsReported, FlushedIsThere
    <2> QED BY <1>1, <1>2, <1>3, <2>1, <2>2, <2>3, OthersMerge
  <1>4. CASE Mute(w) /\ Closed(w)
    <2>1. /\ OthersUnmoved(w) /\ UNCHANGED <<verdict, owed, fragments, inflight>>
          /\ ipc_done'[w] /\ up'[w] = <<>>
          /\ proc'[w].at = proc[w].at /\ proc'[w].out = proc[w].out
      BY <1>4 DEF Closed
    <2>2. Ordered(proc[w], up[w])
      BY DEF MInv, MergesEach, Merges
    <2>3. Ordered(proc'[w], up'[w])
      BY <2>1, <2>2, CarriesNothing, CoversNothing DEF Ordered
    <2>4. Merges(inflight'[w], proc'[w], up'[w], ipc_done'[w], Reported, fragments)
      BY <2>1, <2>3 DEF Merges
    <2> QED BY <1>1, <1>4, <2>1, <2>4, SameMerge
  <1>5. CASE Quiet
    BY <1>5, StillMerges DEF Quiet
  <1> QED BY <1>3, <1>4, <1>5, EndEffect

\* In the beginning nothing is owed.
LEMMA InitMerge == Init => MInv
  <1> SUFFICES ASSUME Init PROVE MInv
    OBVIOUS
  <1>1. ASSUME NEW w \in Workers
        PROVE  Merges(inflight[w], proc[w], up[w], ipc_done[w], Reported, fragments)
    <2>1. up[w] = <<>> /\ proc[w].out = <<>> /\ proc[w].ran = {} /\ proc[w].at = "none"
      BY DEF Init, NoProcess
    <2> QED BY <2>1, CarriesNothing, CoversNothing
            DEF Merges, Ordered, RanIsReported, FlushedIsThere
  <1>2. owed = {} /\ fragments = {}
    BY DEF Init
  <1> QED BY <1>1, <1>2 DEF MInv, MergesEach, OwedIsThere

\* Every step keeps the report.
LEMMA NextMerge == IInv /\ IInv' /\ AInv /\ RInv /\ MInv /\ [Next]_vars => MInv'
  <1> SUFFICES ASSUME IInv, IInv', AInv, RInv, MInv, [Next]_vars PROVE MInv'
    OBVIOUS
  <1>1. CASE UNCHANGED vars
    <2>1. /\ UNCHANGED <<verdict, owed, fragments>>
          /\ UNCHANGED <<inflight, ipc_done, up, down, proc>>
      BY <1>1 DEF vars, slots, wires, history
    <2>2. \A v \in Workers : Unmoved(v)
      BY <2>1 DEF Unmoved, SameRuns
    <2> QED BY <2>1, <2>2, StillMerges
  <1>2. CASE Start \/ ScaleUp \/ Finish \/ AbortAll
    BY <1>2, DriveEffect, StillMerges
  <1>3. ASSUME NEW w \in Workers, ProcessStep(w) PROVE MInv'
    <2>1. CASE ExitClean(w)
      BY <2>1, GoneMerge DEF ExitClean, Drained
    <2> QED
      BY <1>3, <2>1, BootMerge, ReceiveMerge, StartFileMerge,
         FinishFileMerge, FlushOutMerge, FlushAggregatesMerge DEF ProcessStep
  <1>4. ASSUME NEW w \in Workers, Callback(w) PROVE MInv'
    BY <1>4, OnReadyMerge, OnFileStartMerge, OnAggregatesMerge, OnFileDoneMerge,
       EndMerge DEF Callback
  <1>5. ASSUME NEW w \in Workers, Die(w) \/ Killed(w) PROVE MInv'
    BY <1>5, GoneMerge DEF Die, Killed, Running
  <1>6. ASSUME NEW w \in Workers, WriteGarbage(w) PROVE MInv'
    BY <1>6, WriteGarbageMerge
  <1> QED BY <1>1, <1>2, <1>3, <1>4, <1>5, <1>6 DEF Next

\* When every process has been reaped, nothing is owed any more.
LEMMA NothingIsOwed ==
    ASSUME IInv, MInv, live_workers = 0 PROVE owed \subseteq fragments
  <1>1. Cardinality({w \in Workers : proc[w].at # "none"}) = 0
    BY DEF IInv, LiveWorkersIsExact
  <1>2. IsFiniteSet({w \in Workers : proc[w].at # "none"})
    BY Constants, FS_Subset
  <1>3. {w \in Workers : proc[w].at # "none"} = {}
    BY <1>1, <1>2, FS_EmptySet
  <1> QED BY <1>3 DEF MInv, OwedIsThere, InSocket

\* Only Finish ends the run, and then nothing is owed.
LEMMA NextOwes ==
    IInv /\ IInv' /\ MInv /\ (phase = "done" => owed \subseteq fragments)
      /\ [Next]_vars => (phase = "done" => owed \subseteq fragments)'
  <1> SUFFICES ASSUME IInv, IInv', MInv, phase = "done" => owed \subseteq fragments,
                      [Next]_vars, phase' = "done"
               PROVE  owed' \subseteq fragments'
    OBVIOUS
  <1>1. CASE UNCHANGED vars
    BY <1>1 DEF vars, history
  <1>2. CASE Start \/ ScaleUp \/ Finish \/ AbortAll
    <2>1. UNCHANGED <<owed, fragments>> /\ (Finish \/ phase = "done")
      BY <1>2, DriveEffect
    <2>2. CASE Finish
      BY <2>1, <2>2, NothingIsOwed DEF Finish, IsDone
    <2> QED BY <2>1, <2>2
  <1>3. ASSUME phase = "drive",
               NEW w \in Workers, \/ ProcessStep(w) \/ Callback(w)
                                  \/ Die(w) \/ Killed(w) \/ WriteGarbage(w)
        PROVE  FALSE
    <2>1. phase' = phase
      BY <1>3 DEF ProcessStep, Boot, Receive, StartFile, FinishFile, FlushOut,
                  FlushAggregates, ExitClean, Gone, Callback, OnReady, OnFileStart,
                  OnFileDone, OnAggregates, OnGarbage, OnProcessExit,
                  OnChannelClose, Reap, Die, Killed, WriteGarbage
    <2> QED BY <1>3, <2>1
  <1> QED BY <1>1, <1>2, <1>3 DEF Next

\* When the run is done, the fragments of all processes that exited by themselves
\* have arrived, and no file is in a fragment and among the crashed ones too.
THEOREM TestReportIsMerged == Spec => []ReportIsMerged
  <1> DEFINE Owes == phase = "done" => owed \subseteq fragments
             All == IInv /\ AInv /\ RInv /\ MInv /\ Owes
  <1>1. Init => All
    <2>1. Init => Owes
      BY DEF Init
    <2> QED BY <2>1, InitIInv, InitOneFile, InitResults, InitMerge
  <1>2. All /\ [Next]_vars => All'
    <2>1. IInv /\ [Next]_vars => IInv'
      BY NextKeeps
    <2>2. IInv /\ IInv' /\ MInv /\ Owes /\ [Next]_vars => Owes'
      BY NextOwes
    <2> HIDE DEF Owes
    <2> QED BY <2>1, <2>2, NextOneFile, NextResults, NextMerge
  <1>3. All => ReportIsMerged
    BY DEF MInv, Reported, ReportIsMerged
  <1> QED BY <1>1, <1>2, <1>3, PTL DEF Spec

=============================================================================
