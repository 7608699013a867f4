---------------------------- MODULE MutexProofs ----------------------------
(***************************************************************************)
(* For any set of threads: the inductive invariant of the mutex, the       *)
(* safety properties that follow from it, and the refinement of LockSpec.  *)
(***************************************************************************)
EXTENDS Mutex, TLAPS

\* The initial state, where every thread is outside the mutex, satisfies the
\* inductive invariant.
LEMMA InitEstablishesIInv == Init => IInv
BY ThreadsAssumption
DEF Init, IInv, TypeOK, MutualExclusion, WordTracksHolder, TagTracksHolder,
    NoFalseDeadlockReport, NoForgottenSleeper, Holding, PCs,
    UNLOCKED, LOCKED, CONTENDED

\* Every atomic step of lock, try_lock and unlock preserves the types.
LEMMA NextPreservesTypeOK == TypeOK /\ [Next]_vars => TypeOK'
<1> SUFFICES ASSUME TypeOK, [Next]_vars PROVE TypeOK'
  OBVIOUS
<1> USE DEF TypeOK, PCs, Goto, UNLOCKED, LOCKED, CONTENDED
<1>1. CASE UNCHANGED vars
  BY <1>1 DEF vars
<1>2. ASSUME NEW t \in Threads, Lock(t) PROVE TypeOK'
  BY <1>2 DEF Lock
<1>3. ASSUME NEW t \in Threads, LockFast(t) \/ TryLock(t) PROVE TypeOK'
  BY <1>3 DEF LockFast, TryLock, TryAcquire
<1>4. ASSUME NEW t \in Threads, SlowLoad(t) \/ FutexWait(t) \/ SpuriousWake(t)
      PROVE  TypeOK'
  BY <1>4 DEF SlowLoad, FutexWait, SpuriousWake
<1>5. ASSUME NEW t \in Threads, SlowSwap(t) \/ Tag(t) PROVE TypeOK'
  BY <1>5 DEF SlowSwap, Tag
<1>6. ASSUME NEW t \in Threads, Untag(t) \/ Release(t) PROVE TypeOK'
  BY <1>6 DEF Untag, Release
<1>7. ASSUME NEW t \in Threads, FutexWake(t) PROVE TypeOK'
  BY <1>7 DEF FutexWake
<1> QED
  BY <1>1, <1>2, <1>3, <1>4, <1>5, <1>6, <1>7 DEF Next, Internal

\* Mutual exclusion, the meaning of the lock word and of the debug tag, and
\* the promise to sleepers are preserved by every atomic step.
LEMMA NextPreservesIInv == IInv /\ [Next]_vars => IInv'
<1> SUFFICES ASSUME IInv, [Next]_vars PROVE IInv'
  OBVIOUS
<1>0. TypeOK'
  BY NextPreservesTypeOK DEF IInv
<1> USE <1>0 DEF IInv, TypeOK, MutualExclusion, WordTracksHolder,
                 TagTracksHolder, NoFalseDeadlockReport, NoForgottenSleeper,
                 Holding, Goto, UNLOCKED, LOCKED, CONTENDED
<1>1. CASE UNCHANGED vars
  BY <1>1 DEF vars
<1>2. ASSUME NEW t \in Threads, Lock(t) PROVE IInv'
  BY <1>2 DEF Lock
<1>3. ASSUME NEW t \in Threads, TryAcquire(t, "slow"), pc[t] = "lock"
      PROVE  IInv'
  BY <1>3, ThreadsAssumption DEF TryAcquire
<1>4. ASSUME NEW t \in Threads, TryAcquire(t, "out"), pc[t] = "out"
      PROVE  IInv'
  BY <1>4, ThreadsAssumption DEF TryAcquire
<1>5. ASSUME NEW t \in Threads, SlowLoad(t) PROVE IInv'
  BY <1>5 DEF SlowLoad
<1>6. ASSUME NEW t \in Threads, FutexWait(t) PROVE IInv'
  BY <1>6 DEF FutexWait
<1>7. ASSUME NEW t \in Threads, SpuriousWake(t) PROVE IInv'
  BY <1>7 DEF SpuriousWake
<1>8. ASSUME NEW t \in Threads, SlowSwap(t) PROVE IInv'
  BY <1>8 DEF SlowSwap
<1>9. ASSUME NEW t \in Threads, Tag(t) PROVE IInv'
  BY <1>9 DEF Tag
<1>10. ASSUME NEW t \in Threads, Untag(t) PROVE IInv'
  BY <1>10, ThreadsAssumption DEF Untag
<1>11. ASSUME NEW t \in Threads, Release(t) PROVE IInv'
  BY <1>11 DEF Release
<1>12. ASSUME NEW t \in Threads, FutexWake(t) PROVE IInv'
  BY <1>12 DEF FutexWake
<1> QED
  BY <1>1, <1>2, <1>3, <1>4, <1>5, <1>6, <1>7, <1>8, <1>9, <1>10, <1>11, <1>12
  DEF Next, Internal, LockFast, TryLock

\* The inductive invariant holds in every reachable state.
THEOREM MutexInvariant == Spec => []IInv
<1>1. Init => IInv
  BY InitEstablishesIInv
<1>2. IInv /\ [Next]_vars => IInv'
  BY NextPreservesIInv
<1> QED
  BY <1>1, <1>2, PTL DEF Spec

\* At most one thread holds the mutex (FutexImpl::lock, try_lock, unlock).
THEOREM MutexIsExclusive == Spec => []MutualExclusion
<1>1. IInv => MutualExclusion
  BY DEF IInv
<1> QED
  BY <1>1, MutexInvariant, PTL

\* A thread asleep in the futex always has somebody who will wake it.
THEOREM MutexForgetsNoSleeper == Spec => []NoForgottenSleeper
<1>1. IInv => NoForgottenSleeper
  BY DEF IInv
<1> QED
  BY <1>1, MutexInvariant, PTL

\* The debug checks of DebugImpl and FutexImpl never fire by mistake.
THEOREM MutexDebugIsSilent == Spec => []NoFalseDeadlockReport
<1>1. IInv => NoFalseDeadlockReport
  BY DEF IInv
<1> QED
  BY <1>1, MutexInvariant, PTL

-----------------------------------------------------------------------------

\* Under mutual exclusion the refinement mapping names the thread that holds.
LEMMA OwnerIsHolder ==
    ASSUME MutualExclusion, NEW t \in Threads
    PROVE  /\ Holding(t) => Owner = t
           /\ Owner = t => Holding(t)
           /\ (\A u \in Threads : ~Holding(u)) => Owner = NoThread
<1>1. Holding(t) => Owner = t
  BY DEF Owner, MutualExclusion
<1>2. Owner = t => Holding(t)
  <2>1. CASE \E u \in Threads : Holding(u)
    <3>1. Holding(Owner)
      BY <2>1 DEF Owner
    <3> QED BY <3>1
  <2>2. CASE \A u \in Threads : ~Holding(u)
    BY <2>2, ThreadsAssumption DEF Owner
  <2> QED BY <2>1, <2>2
<1>3. (\A u \in Threads : ~Holding(u)) => Owner = NoThread
  BY DEF Owner
<1> QED BY <1>1, <1>2, <1>3

\* Every behaviour of the futex mutex is one of the abstract lock.
THEOREM MutexImplementsLock == Spec => ImplementsLock
<1>1. Init => L!Init
  BY DEF Init, L!Init, Owner, Holding
<1>2. IInv /\ IInv' /\ [Next]_vars => [L!Next]_Owner
  <2> SUFFICES ASSUME IInv, IInv', [Next]_vars PROVE [L!Next]_Owner
    OBVIOUS
  <2>0. MutualExclusion /\ MutualExclusion'
    BY DEF IInv
  <2>1. ASSUME \A u \in Threads : Holding(u)' <=> Holding(u)
        PROVE  Owner' = Owner
    <3>1. CASE \E u \in Threads : Holding(u)
      <4> PICK u \in Threads : Holding(u)
        BY <3>1
      <4>1. Owner = u
        BY <2>0, OwnerIsHolder
      <4>2. Owner' = u
        BY <2>0, <2>1 DEF Owner, MutualExclusion
      <4> QED BY <4>1, <4>2
    <3>2. CASE \A u \in Threads : ~Holding(u)
      BY <2>1, <3>2 DEF Owner
    <3> QED BY <3>1, <3>2
  <2>2. ASSUME NEW t \in Threads, \A u \in Threads : ~Holding(u), Holding(t)'
        PROVE  L!Next
    <3>1. Owner = NoThread
      BY <2>2 DEF Owner
    <3>2. Owner' = t
      BY <2>0, <2>2 DEF Owner, MutualExclusion
    <3> QED BY <3>1, <3>2 DEF L!Next, L!Acquire
  <2>3. ASSUME NEW t \in Threads, Holding(t), \A u \in Threads : ~Holding(u)'
        PROVE  L!Next
    <3>1. Owner = t
      BY <2>0, <2>3, OwnerIsHolder
    <3>2. Owner' = NoThread
      BY <2>3 DEF Owner
    <3> QED BY <3>1, <3>2 DEF L!Next, L!Release
  <2> USE DEF IInv, TypeOK, WordTracksHolder, MutualExclusion, Holding, Goto,
              UNLOCKED, LOCKED, CONTENDED
  <2>4. CASE UNCHANGED vars
    BY <2>1, <2>4 DEF vars
  <2>5. ASSUME NEW t \in Threads, LockFast(t) \/ TryLock(t)
        PROVE  [L!Next]_Owner
    <3>1. CASE state = UNLOCKED /\ pc'[t] = "tag"
      BY <3>1, <2>2, <2>5
    <3>2. CASE UNCHANGED state /\ pc'[t] \in {"slow", "out"}
      BY <3>2, <2>1, <2>5 DEF LockFast, TryLock, TryAcquire
    <3> QED BY <2>5, <3>1, <3>2 DEF LockFast, TryLock, TryAcquire
  <2>6. ASSUME NEW t \in Threads, SlowSwap(t) PROVE [L!Next]_Owner
    <3>1. CASE state = UNLOCKED
      BY <3>1, <2>2, <2>6 DEF SlowSwap
    <3>2. CASE state # UNLOCKED
      BY <3>2, <2>1, <2>6 DEF SlowSwap
    <3> QED BY <3>1, <3>2
  <2>7. ASSUME NEW t \in Threads, Release(t) PROVE [L!Next]_Owner
    BY <2>3, <2>7 DEF Release
  <2>8. ASSUME NEW t \in Threads,
               Lock(t) \/ SlowLoad(t) \/ FutexWait(t) \/ SpuriousWake(t)
        PROVE  [L!Next]_Owner
    BY <2>1, <2>8 DEF Lock, SlowLoad, FutexWait, SpuriousWake
  <2>9. ASSUME NEW t \in Threads, Tag(t) \/ Untag(t)
        PROVE  [L!Next]_Owner
    BY <2>1, <2>9 DEF Tag, Untag, NoFalseDeadlockReport
  <2>10. ASSUME NEW t \in Threads, FutexWake(t) PROVE [L!Next]_Owner
    BY <2>1, <2>10 DEF FutexWake
  <2> QED
    BY <2>4, <2>5, <2>6, <2>7, <2>8, <2>9, <2>10 DEF Next, Internal
<1> QED
  BY <1>1, <1>2, MutexInvariant, PTL DEF Spec, ImplementsLock, L!Spec

=============================================================================
