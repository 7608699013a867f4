--------------------------- MODULE WaitGroupProofs ---------------------------
(***************************************************************************)
(* For any finite set of workers and any number of tasks: the count of the *)
(* group is exact, wait() is a barrier, and it never sleeps on a count of  *)
(* 0 without a wake-up that is posted or about to be.                      *)
(***************************************************************************)
EXTENDS WaitGroup, FiniteSetTheorems, TLAPS

-----------------------------------------------------------------------------
(* The inductive invariant.                                                *)

Typed ==
    /\ raw_count \in Int
    /\ owner \in Threads \cup {NoThread}
    /\ waiting \subseteq Threads /\ reserved \in Nat
    /\ todo \in Nat
    /\ batch \in [Threads -> 0..MaxTasks]
    /\ pc \in [Threads -> PCs]

\* Each side keeps to its own labels, and has a batch only to hand it out.
InPlace ==
    /\ pc[Main] \in {"out", "add", "w_lock", "w_load", "w_join", "w_sleep",
                     "w_relock", "w_unlock"}
    /\ \A w \in Workers : pc[w] \in {"out", "run", "add", "f_lock", "f_unlock",
                                     "f_signal"}
    /\ \A t \in Threads : pc[t] # "add" => batch[t] = 0

\* The mutex belongs to whoever is between its lock and its unlock.
OwnerIsInside ==
    \A t \in Threads :
        owner = t <=> pc[t] \in {"f_unlock", "w_load", "w_join", "w_unlock"}

\* A waiter that sleeps is registered.
SleeperIsWaiting == pc[Main] = "w_sleep" => Main \in waiting

\* A waiter that has read 0 leaves with 0: nobody is there to add.
ZeroStays == pc[Main] = "w_unlock" => raw_count = 0

\* While the waiter holds the mutex between its load of the count and its
\* sleep, the worker that has brought the count to 0 is still before its lock.
FinisherIsHeld ==
    pc[Main] = "w_join" /\ raw_count = 0 => \E w \in Workers : pc[w] = "f_lock"

IInv ==
    /\ Typed /\ InPlace /\ OwnerIsInside /\ SleeperIsWaiting
    /\ CountIsExact /\ ZeroStays /\ FinisherIsHeld /\ NoMissedSignal

-----------------------------------------------------------------------------
(* Lemmas.                                                                 *)

\* The sets that are counted are finite, in every state.
LEMMA FinitelyMany ==
    /\ IsFiniteSet(Threads)
    /\ IsFiniteSet(Running) /\ Cardinality(Running) \in Nat
    /\ IsFiniteSet(Handing) /\ Cardinality(Handing) \in Nat
<1>1. IsFiniteSet(Threads)
  BY WorkersAssumption, FS_AddElement DEF Threads
<1>2. IsFiniteSet(Running) /\ Cardinality(Running) \in Nat
  BY WorkersAssumption, FS_Subset, FS_CardinalityType DEF Running
<1>3. IsFiniteSet(Threads \X (1..MaxTasks))
  <2>1. IsFiniteSet(1..MaxTasks)
    BY FS_Interval, MaxTasksAssumption
  <2> QED BY <1>1, <2>1, FS_Product
<1>4. IsFiniteSet(Handing) /\ Cardinality(Handing) \in Nat
  BY <1>3, FS_Subset, FS_CardinalityType DEF Handing
<1> QED BY <1>1, <1>2, <1>4

\* A count above 0 is what a running or an adding thread stands for.
LEMMA Counted ==
    ASSUME Typed, CountIsExact
    PROVE  /\ raw_count \in Nat
           /\ raw_count = 0 => todo = 0 /\ Running = {} /\ Handing = {}
<1>1. todo \in Nat /\ Cardinality(Running) \in Nat /\ Cardinality(Handing) \in Nat
  BY FinitelyMany DEF Typed
<1>2. raw_count = todo + Cardinality(Running) + Cardinality(Handing)
  BY DEF CountIsExact
<1>3. raw_count \in Nat
  BY <1>1, <1>2
<1>4. ASSUME raw_count = 0 PROVE todo = 0 /\ Running = {} /\ Handing = {}
  <2>1. todo = 0 /\ Cardinality(Running) = 0 /\ Cardinality(Handing) = 0
    BY <1>1, <1>2, <1>4
  <2> QED BY <2>1, FinitelyMany, FS_EmptySet
<1> QED BY <1>3, <1>4

\* A thread's share of Handing is as large as its batch.
LEMMA BatchSize ==
    ASSUME NEW t \in Threads, NEW n \in 0..MaxTasks
    PROVE  /\ IsFiniteSet({t} \X (1..n))
           /\ Cardinality({t} \X (1..n)) = n
<1>1. IsFiniteSet({t}) /\ Cardinality({t}) = 1
  BY FS_Singleton
<1>2. IsFiniteSet(1..n) /\ Cardinality(1..n) = n
  BY FS_Interval, MaxTasksAssumption
<1>3. 1 * n = n
  BY MaxTasksAssumption
<1> QED BY <1>1, <1>2, <1>3, FS_Product

\* The count of a step that replaces the empty batch of t by n tasks.
LEMMA HandingGrows ==
    ASSUME Typed, NEW t \in Threads, NEW n \in 0..MaxTasks, batch[t] = 0,
           batch' = [batch EXCEPT ![t] = n]
    PROVE  Cardinality(Handing') = Cardinality(Handing) + n
<1> DEFINE T == {t} \X (1..n)
<1>1. Handing' = Handing \cup T
  BY MaxTasksAssumption DEF Handing, Typed
<1>2. Handing \cap T = {}
  BY MaxTasksAssumption DEF Handing, Typed
<1>3. Cardinality(Handing \cup T) = Cardinality(Handing) + Cardinality(T) - Cardinality({})
  BY <1>2, FinitelyMany, BatchSize, FS_Union
<1> QED BY <1>1, <1>3, BatchSize, FinitelyMany, FS_EmptySet

\* The same for a step that hands out what t has counted.
LEMMA HandingShrinks ==
    ASSUME Typed, NEW t \in Threads, batch' = [batch EXCEPT ![t] = 0]
    PROVE  Cardinality(Handing') = Cardinality(Handing) - batch[t]
<1> DEFINE T == {t} \X (1..batch[t])
<1>0. batch[t] \in 0..MaxTasks
  BY DEF Typed
<1>1. Handing' = Handing \ T
  BY MaxTasksAssumption DEF Handing, Typed
<1>2. Handing \cap T = T
  BY <1>0, MaxTasksAssumption DEF Handing, Typed
<1>3. Cardinality(Handing \ T) = Cardinality(Handing) - Cardinality(T)
  <2> HIDE DEF T
  <2>1. Cardinality(Handing \ T) = Cardinality(Handing) - Cardinality(Handing \cap T)
    BY FinitelyMany, FS_Difference
  <2> QED BY <1>2, <2>1
<1> QED BY <1>0, <1>1, <1>3, BatchSize

\* A thread whose step does not concern the tasks leaves the count alone.
LEMMA CountKept ==
    ASSUME Typed, CountIsExact, NEW t \in Threads, NEW l, Goto(t, l),
           t \in Workers => (pc[t] \in {"run", "add"} <=> l \in {"run", "add"}),
           UNCHANGED <<raw_count, todo, batch>>
    PROVE  CountIsExact'
<1>1. Running' = Running
  BY WorkersAssumption DEF Running, Goto, Typed, Threads
<1>2. Handing' = Handing
  BY DEF Handing
<1> QED BY <1>1, <1>2 DEF CountIsExact

-----------------------------------------------------------------------------
(* Every step keeps the invariant.                                         *)

LEMMA AddKeeps ==
    ASSUME IInv, NEW n \in 1..MaxTasks, NEW t \in Threads, Add(t, n)
    PROVE  IInv'
<1> USE DEF IInv
<1>0. n \in Nat /\ n \in 0..MaxTasks
  BY MaxTasksAssumption
<1>1. Typed'
  BY <1>0, MaxTasksAssumption DEF Add, Goto, Typed, PCs, cond
<1>2. InPlace'
  BY WorkersAssumption DEF Add, CanAdd, Goto, Typed, InPlace, Threads
<1>3. OwnerIsInside'
  BY DEF Add, CanAdd, Goto, Typed, OwnerIsInside
<1>4. Running' = Running
  BY WorkersAssumption DEF Add, CanAdd, Goto, Typed, Running, Threads
<1>5. CountIsExact'
  <2>1. batch[t] = 0
    BY DEF Add, CanAdd, InPlace
  <2>2. Cardinality(Handing') = Cardinality(Handing) + n
    BY <1>0, <2>1, HandingGrows DEF Add
  <2> QED BY <1>0, <1>4, <2>2, FinitelyMany DEF Add, CountIsExact, Typed
\* A worker that adds is running: the count was not 0, and is not now.
<1>6. raw_count' # 0
  BY <1>0, Counted DEF Add
<1>7. t # Main => raw_count # 0
  <2>1. t # Main => t \in Running
    BY DEF Add, CanAdd, Running, Threads
  <2> QED BY <2>1, Counted
<1>8. ZeroStays' /\ FinisherIsHeld' /\ NoMissedSignal'
  BY <1>6, <1>7 DEF Add, CanAdd, Goto, ZeroStays, FinisherIsHeld, NoMissedSignal, Typed
<1>9. SleeperIsWaiting'
  BY DEF Add, CanAdd, Goto, SleeperIsWaiting, Typed, Threads, cond
<1> QED BY <1>1, <1>2, <1>3, <1>5, <1>8, <1>9

LEMMA HandOutKeeps ==
    ASSUME IInv, NEW t \in Threads, HandOut(t)
    PROVE  IInv'
<1> USE DEF IInv
<1>0. batch[t] \in 0..MaxTasks
  BY DEF Typed
<1>1. Typed'
  BY <1>0, MaxTasksAssumption DEF HandOut, Goto, Typed, PCs, cond
<1>2. InPlace'
  BY WorkersAssumption DEF HandOut, Goto, Typed, InPlace, Threads
<1>3. OwnerIsInside'
  BY DEF HandOut, Goto, Typed, OwnerIsInside
<1>4. Running' = Running
  BY WorkersAssumption DEF HandOut, Goto, Typed, Running, Threads
<1>5. CountIsExact'
  <2>2. Cardinality(Handing') = Cardinality(Handing) - batch[t]
    BY HandingShrinks DEF HandOut
  <2> QED BY <1>0, <1>4, <2>2, FinitelyMany, MaxTasksAssumption
          DEF HandOut, CountIsExact, Typed
<1>8. ZeroStays' /\ FinisherIsHeld' /\ NoMissedSignal' /\ SleeperIsWaiting'
  BY WorkersAssumption
  DEF HandOut, Goto, ZeroStays, FinisherIsHeld, NoMissedSignal, SleeperIsWaiting,
      Typed, Threads, cond, InPlace
<1> QED BY <1>1, <1>2, <1>3, <1>5, <1>8

LEMMA TakeTaskKeeps ==
    ASSUME IInv, NEW w \in Workers, TakeTask(w)
    PROVE  IInv'
<1> USE DEF IInv
<1>0. w \in Threads /\ w # Main
  BY WorkersAssumption DEF Threads
<1>1. Typed'
  BY <1>0 DEF TakeTask, Goto, Typed, PCs, cond
<1>2. InPlace' /\ OwnerIsInside'
  BY <1>0 DEF TakeTask, Goto, Typed, InPlace, OwnerIsInside
<1>4. Running' = Running \cup {w} /\ w \notin Running
  BY <1>0 DEF TakeTask, Goto, Typed, Running, Threads
<1>5. CountIsExact'
  <2>1. Cardinality(Running') = Cardinality(Running) + 1
    BY <1>4, FinitelyMany, FS_AddElement
  <2>2. Handing' = Handing
    BY DEF TakeTask, Handing
  <2> QED BY <2>1, <2>2, FinitelyMany DEF TakeTask, CountIsExact, Typed
<1>8. ZeroStays' /\ FinisherIsHeld' /\ NoMissedSignal' /\ SleeperIsWaiting'
  BY <1>0
  DEF TakeTask, Goto, ZeroStays, FinisherIsHeld, NoMissedSignal, SleeperIsWaiting,
      Typed, cond
<1> QED BY <1>1, <1>2, <1>5, <1>8

LEMMA FinishKeeps ==
    ASSUME IInv, NEW w \in Workers, Finish(w)
    PROVE  IInv'
<1> USE DEF IInv
<1>0. w \in Threads /\ w # Main
  BY WorkersAssumption DEF Threads
<1>1. Typed'
  BY <1>0 DEF Finish, Goto, Typed, PCs, cond, tasks
<1>2. InPlace' /\ OwnerIsInside'
  BY <1>0 DEF Finish, Goto, Typed, InPlace, OwnerIsInside, tasks
<1>4. Running' = Running \ {w} /\ w \in Running
  BY <1>0 DEF Finish, Goto, Typed, Running, Threads
<1>5. CountIsExact'
  <2>1. Cardinality(Running') = Cardinality(Running) - 1
    BY <1>4, FinitelyMany, FS_RemoveElement
  <2>2. Handing' = Handing
    BY DEF Finish, Handing, tasks
  <2> QED BY <2>1, <2>2, FinitelyMany DEF Finish, CountIsExact, Typed, tasks
<1>6. raw_count # 0 /\ raw_count \in Nat
  BY <1>4, Counted
<1>7. raw_count' = 0 => pc'[w] = "f_lock"
  BY <1>0, <1>6 DEF Finish, Goto, Typed
<1>8. ZeroStays' /\ FinisherIsHeld' /\ NoMissedSignal' /\ SleeperIsWaiting'
  BY <1>0, <1>6, <1>7
  DEF Finish, Goto, ZeroStays, FinisherIsHeld, NoMissedSignal, SleeperIsWaiting,
      Typed, cond
<1> QED BY <1>1, <1>2, <1>5, <1>8

LEMMA FinishTailKeeps ==
    ASSUME IInv, NEW w \in Workers,
           FinishLock(w) \/ FinishUnlock(w) \/ FinishSignal(w)
    PROVE  IInv'
<1> USE DEF IInv
<1>0. w \in Threads /\ w # Main /\ w # NoThread
  BY WorkersAssumption DEF Threads
<1>1. CASE FinishLock(w)
  <2>1. Typed' /\ InPlace'
    BY <1>0, <1>1 DEF FinishLock, M!Acquire, Goto, Typed, InPlace, PCs, cond, tasks
  <2>2. OwnerIsInside'
    BY <1>0, <1>1, WorkersAssumption
    DEF FinishLock, M!Acquire, Goto, Typed, OwnerIsInside
  <2>3. CountIsExact'
    BY <1>0, <1>1, CountKept DEF FinishLock, tasks
  \* Main does not hold the mutex, so it is not in w_join.
  <2>4. pc[Main] # "w_join"
    BY <1>0, <1>1, WorkersAssumption DEF FinishLock, M!Acquire, OwnerIsInside, Threads
  <2>5. ZeroStays' /\ FinisherIsHeld' /\ NoMissedSignal' /\ SleeperIsWaiting'
    BY <1>0, <1>1, <2>4
    DEF FinishLock, Goto, ZeroStays, FinisherIsHeld, NoMissedSignal,
        SleeperIsWaiting, Typed, cond
  <2> QED BY <2>1, <2>2, <2>3, <2>5
<1>2. CASE FinishUnlock(w)
  <2>1. Typed' /\ InPlace'
    BY <1>0, <1>2 DEF FinishUnlock, M!Release, Goto, Typed, InPlace, PCs, cond, tasks
  <2>2. OwnerIsInside'
    BY <1>0, <1>2, WorkersAssumption
    DEF FinishUnlock, M!Release, Goto, Typed, OwnerIsInside
  <2>3. CountIsExact'
    BY <1>0, <1>2, CountKept DEF FinishUnlock, tasks
  <2>5. ZeroStays' /\ FinisherIsHeld' /\ NoMissedSignal' /\ SleeperIsWaiting'
    BY <1>0, <1>2
    DEF FinishUnlock, Goto, ZeroStays, FinisherIsHeld, NoMissedSignal,
        SleeperIsWaiting, Typed, cond
  <2> QED BY <2>1, <2>2, <2>3, <2>5
<1>3. CASE FinishSignal(w)
  <2>0. \A S : C!Cardinality(S) = Cardinality(S)
    BY DEF C!Cardinality, Cardinality
  <2>1. waiting' = waiting /\ reserved' \in Nat /\ reserved' >= reserved
    BY <1>3 DEF FinishSignal, C!Post, Typed, cond
  <2>2. Typed' /\ InPlace'
    BY <1>0, <1>3, <2>1 DEF FinishSignal, Goto, Typed, InPlace, PCs, tasks
  <2>3. OwnerIsInside'
    BY <1>0, <1>3 DEF FinishSignal, Goto, Typed, OwnerIsInside
  <2>4. CountIsExact'
    BY <1>0, <1>3, CountKept DEF FinishSignal, tasks
  \* A sleeper is registered: there is a wake-up for it, old or new.
  <2>5. pc[Main] = "w_sleep" => reserved' > 0
    <3> SUFFICES ASSUME pc[Main] = "w_sleep" PROVE reserved' > 0
      OBVIOUS
    <3>1. Main \in waiting /\ IsFiniteSet(waiting) /\ Cardinality(waiting) \in Nat
      BY FinitelyMany, FS_Subset, FS_CardinalityType DEF SleeperIsWaiting, Typed
    <3>2. Cardinality(waiting) > 0
      BY <3>1, FS_EmptySet
    <3>3. CASE C!Post(1)
      BY <3>3 DEF C!Post, Typed
    <3>4. CASE Cardinality(waiting) <= reserved /\ UNCHANGED cond
      BY <3>1, <3>2, <3>4 DEF Typed, cond
    <3> QED BY <1>3, <3>3, <3>4 DEF FinishSignal
  <2>6. ZeroStays' /\ FinisherIsHeld' /\ NoMissedSignal' /\ SleeperIsWaiting'
    BY <1>0, <1>3, <2>1, <2>5
    DEF FinishSignal, Goto, ZeroStays, FinisherIsHeld, NoMissedSignal,
        SleeperIsWaiting, Typed
  <2> QED BY <2>2, <2>3, <2>4, <2>6
<1> QED BY <1>1, <1>2, <1>3

LEMMA WaitKeeps ==
    ASSUME IInv, Wait(Main) \/ WaitStep
    PROVE  IInv'
<1> USE DEF IInv
<1>0. Main \in Threads /\ Main # NoThread /\ Main \notin Workers
  BY WorkersAssumption DEF Threads
<1>1. CountIsExact'
  BY <1>0, CountKept
  DEF Wait, WaitStep, WaitLock, WaitLoad, WaitJoin, WaitRelease, WaitWake,
      WaitReturn, tasks, Goto, Typed
<1>2. CASE Wait(Main)
  BY <1>0, <1>1, <1>2
  DEF Wait, Goto, Typed, InPlace, OwnerIsInside, SleeperIsWaiting, ZeroStays,
      FinisherIsHeld, NoMissedSignal, PCs, cond, tasks
<1>3. CASE WaitLock(Main)
  <2>1. OwnerIsInside'
    BY <1>0, <1>3, WorkersAssumption
    DEF WaitLock, M!Acquire, Goto, Typed, OwnerIsInside
  <2> QED
    BY <1>0, <1>1, <1>3, <2>1
    DEF WaitLock, M!Acquire, Goto, Typed, InPlace, SleeperIsWaiting, ZeroStays,
        FinisherIsHeld, NoMissedSignal, PCs, cond, tasks
<1>4. CASE WaitLoad(Main)
  <2>1. raw_count \in Nat
    BY Counted
  <2> QED
    BY <1>0, <1>1, <1>4, <2>1
    DEF WaitLoad, Goto, Typed, InPlace, OwnerIsInside, SleeperIsWaiting, ZeroStays,
        FinisherIsHeld, NoMissedSignal, PCs, cond, tasks
<1>5. CASE WaitJoin(Main)
  BY <1>0, <1>1, <1>5
  DEF WaitJoin, C!Join, Typed, InPlace, OwnerIsInside, SleeperIsWaiting, ZeroStays,
      FinisherIsHeld, NoMissedSignal, tasks
<1>6. CASE WaitRelease(Main)
  <2>1. OwnerIsInside'
    BY <1>0, <1>6, WorkersAssumption
    DEF WaitRelease, M!Release, Goto, Typed, OwnerIsInside
  <2> QED
    BY <1>0, <1>1, <1>6, <2>1
    DEF WaitRelease, M!Release, Goto, Typed, InPlace, SleeperIsWaiting, ZeroStays,
        FinisherIsHeld, NoMissedSignal, PCs, cond, tasks
<1>7. CASE WaitWake(Main)
  BY <1>0, <1>1, <1>7
  DEF WaitWake, C!Take, Goto, Typed, InPlace, OwnerIsInside, SleeperIsWaiting,
      ZeroStays, FinisherIsHeld, NoMissedSignal, PCs, tasks
<1>8. CASE WaitReturn(Main)
  <2>1. OwnerIsInside'
    BY <1>0, <1>8, WorkersAssumption
    DEF WaitReturn, M!Release, Goto, Typed, OwnerIsInside
  <2> QED
    BY <1>0, <1>1, <1>8, <2>1
    DEF WaitReturn, M!Release, Goto, Typed, InPlace, SleeperIsWaiting, ZeroStays,
        FinisherIsHeld, NoMissedSignal, PCs, cond, tasks
<1> QED BY <1>2, <1>3, <1>4, <1>5, <1>6, <1>7, <1>8 DEF WaitStep

LEMMA NextKeeps == IInv /\ [Next]_vars => IInv'
<1> SUFFICES ASSUME IInv, [Next]_vars PROVE IInv'
  OBVIOUS
<1>1. CASE UNCHANGED vars
  BY <1>1
  DEF IInv, vars, Typed, InPlace, OwnerIsInside, SleeperIsWaiting, CountIsExact,
      ZeroStays, FinisherIsHeld, NoMissedSignal, Running, Handing
<1>2. Main \in Threads
  BY DEF Threads
<1>3. ASSUME NEW w \in Workers, WorkerStep(w) PROVE IInv'
  <2>1. w \in Threads
    BY DEF Threads
  <2> QED BY <1>3, <2>1, TakeTaskKeeps, HandOutKeeps, FinishKeeps, FinishTailKeeps
          DEF WorkerStep
<1> QED BY <1>1, <1>2, <1>3, AddKeeps, HandOutKeeps, WaitKeeps DEF Next

LEMMA InitIInv == Init => IInv
<1> SUFFICES ASSUME Init PROVE IInv
  OBVIOUS
<1> USE DEF Init, M!Init, C!Init
<1>1. Running = {} /\ Handing = {}
  BY MaxTasksAssumption DEF Running, Handing, Threads
<1>2. CountIsExact
  BY <1>1, FS_EmptySet DEF CountIsExact
<1>3. Typed /\ InPlace /\ OwnerIsInside /\ SleeperIsWaiting
  BY WorkersAssumption, MaxTasksAssumption
  DEF Typed, InPlace, OwnerIsInside, SleeperIsWaiting, Threads, PCs
<1>4. ZeroStays /\ FinisherIsHeld /\ NoMissedSignal
  BY DEF ZeroStays, FinisherIsHeld, NoMissedSignal, Threads
<1> QED BY <1>2, <1>3, <1>4 DEF IInv

-----------------------------------------------------------------------------

\* The invariant holds in every reachable state of the group.
THEOREM WaitGroupInvariant == Spec => []IInv
BY InitIInv, NextKeeps, PTL DEF Spec

\* add() and finish() keep raw_count at the number of tasks that are handed
\* out or about to be, and not finished: fetch_sub never wraps.
THEOREM WaitGroupCountIsExact == Spec => []CountIsExact
<1>1. IInv => CountIsExact
  BY DEF IInv
<1> QED BY <1>1, WaitGroupInvariant, PTL

\* When wait() has read 0 and is about to return, no task is left.
THEOREM WaitGroupIsBarrier == Spec => []WaitIsBarrier
<1>1. IInv => WaitIsBarrier
  BY Counted DEF IInv, ZeroStays, WaitIsBarrier
<1> QED BY <1>1, WaitGroupInvariant, PTL

\* A waiter that is about to sleep, or sleeps, over a count of 0 has a wake-up
\* posted or a worker on its way through finish() to post one.
THEOREM WaitGroupMissesNoSignal == Spec => []NoMissedSignal
<1>1. IInv => NoMissedSignal
  BY DEF IInv
<1> QED BY <1>1, WaitGroupInvariant, PTL

=============================================================================
