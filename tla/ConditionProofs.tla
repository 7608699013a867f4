-------------------------- MODULE ConditionProofs --------------------------
(***************************************************************************)
(* For any finite set of threads and any number of wakes: the two halves   *)
(* of the condition's word stay balanced, no signal is lost, and every     *)
(* step of the condition is a step of CondSpec.                            *)
(***************************************************************************)
EXTENDS Condition, FiniteSetTheorems, TLAPS

IInv == TypeOK /\ WordIsBalanced

\* The set of registered threads is finite, in every state.
LEMMA RegisteredIsFinite ==
    IsFiniteSet(Registered) /\ Cardinality(Registered) \in Nat
BY ThreadsAssumption, FS_Subset, FS_CardinalityType DEF Registered

\* The same in the next state.
LEMMA RegisteredIsFiniteNext ==
    IsFiniteSet(Registered') /\ Cardinality(Registered') \in Nat
BY ThreadsAssumption, FS_Subset, FS_CardinalityType DEF Registered

\* A step that moves one thread from outside wait() to inside adds one.
LEMMA EnterCounts ==
    ASSUME TypeOK, NEW t \in Threads, NEW l \in Waiting, Goto(t, l),
           pc[t] \notin Waiting
    PROVE  /\ Registered' = Registered \cup {t}
           /\ t \notin Registered
           /\ Cardinality(Registered') = Cardinality(Registered) + 1
<1>1. Registered' = Registered \cup {t} /\ t \notin Registered
  BY DEF TypeOK, Registered, Goto
<1> QED
  BY <1>1, RegisteredIsFinite, FS_AddElement

\* A step that moves one thread out of wait() removes one.
LEMMA LeaveCounts ==
    ASSUME TypeOK, NEW t \in Threads, NEW l, Goto(t, l), l \notin Waiting,
           pc[t] \in Waiting
    PROVE  /\ Registered' = Registered \ {t}
           /\ t \in Registered
           /\ Cardinality(Registered') = Cardinality(Registered) - 1
<1>1. Registered' = Registered \ {t} /\ t \in Registered
  BY DEF TypeOK, Registered, Goto
<1> QED
  BY <1>1, RegisteredIsFinite, FS_RemoveElement

\* A step of one thread that stays inside, or outside, changes nothing.
LEMMA StayKeeps ==
    ASSUME TypeOK, NEW t \in Threads, NEW l, Goto(t, l),
           pc[t] \in Waiting <=> l \in Waiting
    PROVE  Registered' = Registered
BY DEF TypeOK, Registered, Goto

\* Futex::wake moves sleepers within wait().
LEMMA FutexWakeKeeps ==
    ASSUME TypeOK, NEW t \in Threads, FutexWake(t)
    PROVE  Registered' = Registered
BY DEF TypeOK, Registered, FutexWake, Waiting

\* Every step keeps the types, given that the word is balanced.
LEMMA NextPreservesTypeOK == IInv /\ [Next]_vars => TypeOK'
<1> SUFFICES ASSUME IInv, [Next]_vars PROVE TypeOK'
  OBVIOUS
<1> USE DEF IInv, TypeOK, PCs, Waiting, Goto
<1>1. CASE UNCHANGED vars
  BY <1>1 DEF vars
<1>2. ASSUME NEW t \in Threads, Lock(t) \/ Unlock(t) \/ Relock(t)
      PROVE  TypeOK'
  <2>1. CASE Lock(t)
    BY <2>1 DEF Lock
  <2>2. CASE Unlock(t)
    BY <2>2 DEF Unlock
  <2>3. CASE Relock(t)
    BY <2>3 DEF Relock
  <2> QED BY <1>2, <2>1, <2>2, <2>3
<1>3. ASSUME NEW t \in Threads, WaitLoad(t) \/ Register(t) \/ WaitUnlock(t)
      PROVE  TypeOK'
  BY <1>3 DEF WaitLoad, Register, WaitUnlock
<1>4. ASSUME NEW t \in Threads, FutexWait(t) \/ SpuriousWake(t) \/ Reload(t)
      PROVE  TypeOK'
  BY <1>4 DEF FutexWait, SpuriousWake, Reload
<1>5. ASSUME NEW t \in Threads, Check(t) \/ Expire(t) PROVE TypeOK'
  <2>1. waiters > 0
    <3>1. t \in Registered
      BY <1>5 DEF Check, Expire, Registered
    <3>2. Cardinality(Registered) # 0
      BY <3>1, RegisteredIsFinite, FS_EmptySet
    <3> QED BY <3>2, RegisteredIsFinite DEF WordIsBalanced
  <2> QED BY <1>5, <2>1 DEF Check, Expire, Consume
<1>6. ASSUME NEW t \in Threads, NEW n \in {"One", "All"}, Wake(t, n)
      PROVE  TypeOK'
  BY <1>6 DEF Wake, ToWake, WordIsBalanced
<1>7. ASSUME NEW t \in Threads, BumpEpoch(t) PROVE TypeOK'
  BY <1>7 DEF BumpEpoch
<1>8. ASSUME NEW t \in Threads, FutexWake(t) PROVE TypeOK'
  <2>1. pc' \in [Threads -> PCs]
    BY <1>8 DEF FutexWake
  <2> QED BY <1>8, <2>1 DEF FutexWake
<1> QED
  BY <1>1, <1>2, <1>3, <1>4, <1>5, <1>6, <1>7, <1>8 DEF Next, Internal

\* Every step keeps the word balanced.
LEMMA NextPreservesBalance == IInv /\ [Next]_vars => WordIsBalanced'
<1> SUFFICES ASSUME IInv, [Next]_vars PROVE WordIsBalanced'
  OBVIOUS
<1> USE DEF IInv, WordIsBalanced
\* Steps that touch neither half of the word nor the set of waiters.
<1>0. ASSUME Registered' = Registered, UNCHANGED <<waiters, signals>>
      PROVE  WordIsBalanced'
  BY <1>0
<1>1. CASE UNCHANGED vars
  BY <1>0, <1>1 DEF vars, Registered
<1>2. ASSUME NEW t \in Threads,
             \/ Lock(t) \/ Unlock(t) \/ Relock(t) \/ WaitLoad(t)
             \/ BumpEpoch(t)
      PROVE  WordIsBalanced'
  BY <1>0, <1>2, StayKeeps
  DEF Lock, Unlock, Relock, WaitLoad, BumpEpoch, Waiting
<1>3. ASSUME NEW t \in Threads,
             WaitUnlock(t) \/ FutexWait(t) \/ SpuriousWake(t) \/ Reload(t)
      PROVE  WordIsBalanced'
  BY <1>0, <1>3, StayKeeps
  DEF WaitUnlock, FutexWait, SpuriousWake, Reload, Waiting
<1>4. ASSUME NEW t \in Threads, Register(t) PROVE WordIsBalanced'
  <2>1. Cardinality(Registered') = Cardinality(Registered) + 1
    BY <1>4, EnterCounts DEF Register, Waiting
  <2> QED BY <1>4, <2>1, RegisteredIsFinite DEF Register, TypeOK
<1>5. ASSUME NEW t \in Threads, Consume(t), pc[t] \in Waiting
      PROVE  WordIsBalanced'
  <2>1. Cardinality(Registered') = Cardinality(Registered) - 1
    BY <1>5, LeaveCounts DEF Consume, Waiting
  <2> QED BY <1>5, <2>1, RegisteredIsFinite DEF Consume, TypeOK
<1>6. ASSUME NEW t \in Threads, Check(t) PROVE WordIsBalanced'
  <2>1. CASE Consume(t)
    BY <1>5, <1>6, <2>1 DEF Check, Waiting
  <2>2. CASE Goto(t, "wait") /\ UNCHANGED <<waiters, signals>>
    BY <1>0, <1>6, <2>2, StayKeeps DEF Check, Waiting
  <2> QED BY <1>6, <2>1, <2>2 DEF Check
<1>7. ASSUME NEW t \in Threads, Expire(t) PROVE WordIsBalanced'
  <2>1. CASE Consume(t)
    BY <1>5, <1>7, <2>1 DEF Expire, Waiting
  <2>2. CASE signals = 0 /\ waiters' = waiters - 1 /\ Goto(t, "relock")
             /\ UNCHANGED signals
    <3>1. Cardinality(Registered') = Cardinality(Registered) - 1
      BY <1>7, <2>2, LeaveCounts DEF Expire, Waiting
    <3> QED BY <2>2, <3>1, RegisteredIsFiniteNext DEF TypeOK
  <2> QED BY <1>7, <2>1, <2>2 DEF Expire
<1>8. ASSUME NEW t \in Threads, NEW n \in {"One", "All"}, Wake(t, n)
      PROVE  WordIsBalanced'
  <2>1. Registered' = Registered
    BY <1>8, StayKeeps DEF Wake, Waiting
  <2> QED BY <1>8, <2>1 DEF Wake, ToWake, TypeOK
<1>9. ASSUME NEW t \in Threads, FutexWake(t) PROVE WordIsBalanced'
  BY <1>0, <1>9, FutexWakeKeeps DEF FutexWake
<1> QED
  BY <1>1, <1>2, <1>3, <1>4, <1>6, <1>7, <1>8, <1>9 DEF Next, Internal

\* In every reachable state the counters of the condition's word are those of
\* the threads inside wait(), and no more signals than waiters are posted.
THEOREM ConditionIsBalanced == Spec => [](TypeOK /\ WordIsBalanced)
<1>1. Init => IInv
  <2> SUFFICES ASSUME Init PROVE IInv
    OBVIOUS
  <2>1. TypeOK
    BY DEF Init, TypeOK, PCs
  <2>2. Registered = {}
    BY DEF Init, Registered, Waiting
  <2> QED BY <2>1, <2>2, FS_EmptySet DEF Init, IInv, WordIsBalanced
<1>2. IInv /\ [Next]_vars => IInv'
  BY NextPreservesTypeOK, NextPreservesBalance DEF IInv
<1> QED
  BY <1>1, <1>2, PTL DEF Spec, IInv

-----------------------------------------------------------------------------
(* No signal is lost.                                                      *)

\* A waiting thread has loaded an epoch that is not ahead.
SeenIsPast == \A t \in Threads : seen[t] <= epoch

\* Only a call of wake() that is under way owes wake-ups, and not more than
\* there are threads.
OnlyWakersOwe ==
    \A t \in Threads :
        /\ to_wake[t] <= Cardinality(Threads)
        /\ pc[t] \notin {"bump", "wake"} => to_wake[t] = 0

\* The waiters that are awake, or parked on an epoch that is past.
Stirred == {t \in Threads : \/ pc[t] \in {"reload", "check", "expired"}
                            \/ pc[t] \in {"unlock", "wait", "parked"}
                                 /\ seen[t] # epoch}

\* What the calls owe that have not bumped the epoch.
OwedBeforeBump == {x \in Owed : pc[x[1]] = "bump"}

\* A signal is reserved for a waiter that is awake or sleeps on a past epoch,
\* or by a call that has yet to bump the epoch.  This is what is left to say
\* when Futex::wake finds fewer sleepers than it owes wake-ups.
NoUnseenSignal == signals <= Cardinality(Stirred) + Cardinality(OwedBeforeBump)

SInv == IInv /\ SeenIsPast /\ OnlyWakersOwe /\ NoUnseenSignal /\ NoLostSignal

\* The sets that are compared are finite.
LEMMA CountedSets ==
    /\ Cardinality(Threads) \in Nat
    /\ IsFiniteSet(Awake) /\ Cardinality(Awake) \in Nat
    /\ IsFiniteSet(Stirred) /\ Cardinality(Stirred) \in Nat
    /\ IsFiniteSet(Owed) /\ Cardinality(Owed) \in Nat
    /\ IsFiniteSet(OwedBeforeBump) /\ Cardinality(OwedBeforeBump) \in Nat
<1>1. Cardinality(Threads) \in Nat
  BY ThreadsAssumption, FS_CardinalityType
<1>2. IsFiniteSet(Awake) /\ Cardinality(Awake) \in Nat
  BY ThreadsAssumption, FS_Subset, FS_CardinalityType DEF Awake
<1>3. IsFiniteSet(Stirred) /\ Cardinality(Stirred) \in Nat
  BY ThreadsAssumption, FS_Subset, FS_CardinalityType DEF Stirred
<1>4. IsFiniteSet(Threads \X (1..Cardinality(Threads)))
  <2>1. IsFiniteSet(1..Cardinality(Threads))
    BY <1>1, FS_Interval
  <2> QED BY <2>1, ThreadsAssumption, FS_Product
<1>5. IsFiniteSet(Owed) /\ Cardinality(Owed) \in Nat
  BY <1>4, FS_Subset, FS_CardinalityType DEF Owed
<1>6. IsFiniteSet(OwedBeforeBump) /\ Cardinality(OwedBeforeBump) \in Nat
  BY <1>5, FS_Subset, FS_CardinalityType DEF OwedBeforeBump
<1> QED BY <1>1, <1>2, <1>3, <1>5, <1>6

\* The same in the next state.
LEMMA CountedSetsNext ==
    /\ IsFiniteSet(Awake') /\ Cardinality(Awake') \in Nat
    /\ IsFiniteSet(Stirred') /\ Cardinality(Stirred') \in Nat
    /\ IsFiniteSet(Owed') /\ Cardinality(Owed') \in Nat
    /\ IsFiniteSet(OwedBeforeBump') /\ Cardinality(OwedBeforeBump') \in Nat
<1>1. Cardinality(Threads) \in Nat
  BY ThreadsAssumption, FS_CardinalityType
<1>2. IsFiniteSet(Awake') /\ Cardinality(Awake') \in Nat
  BY ThreadsAssumption, FS_Subset, FS_CardinalityType DEF Awake
<1>3. IsFiniteSet(Stirred') /\ Cardinality(Stirred') \in Nat
  BY ThreadsAssumption, FS_Subset, FS_CardinalityType DEF Stirred
<1>4. IsFiniteSet(Threads \X (1..Cardinality(Threads)))
  <2>1. IsFiniteSet(1..Cardinality(Threads))
    BY <1>1, FS_Interval
  <2> QED BY <2>1, ThreadsAssumption, FS_Product
<1>5. IsFiniteSet(Owed') /\ Cardinality(Owed') \in Nat
  BY <1>4, FS_Subset, FS_CardinalityType DEF Owed
<1>6. IsFiniteSet(OwedBeforeBump') /\ Cardinality(OwedBeforeBump') \in Nat
  BY <1>5, FS_Subset, FS_CardinalityType DEF OwedBeforeBump
<1> QED BY <1>2, <1>3, <1>5, <1>6

\* A larger set counts at least as much.
LEMMA Monotone ==
    ASSUME NEW S, NEW T, IsFiniteSet(T), S \subseteq T
    PROVE  /\ Cardinality(S) <= Cardinality(T)
           /\ Cardinality(S) \in Nat /\ Cardinality(T) \in Nat
BY FS_Subset, FS_CardinalityType

\* The share of thread t in Owed is as large as to_wake[t].
LEMMA ShareSize ==
    ASSUME NEW t \in Threads, NEW n \in Nat
    PROVE  /\ IsFiniteSet({t} \X (1..n))
           /\ Cardinality({t} \X (1..n)) = n
<1>1. IsFiniteSet({t}) /\ Cardinality({t}) = 1
  BY FS_Singleton
<1>2. IsFiniteSet(1..n) /\ Cardinality(1..n) = n
  BY FS_Interval
<1> DEFINE A == {t}
           B == 1..n
<1> HIDE DEF A, B
<1>3. IsFiniteSet(A \X B) /\ Cardinality(A \X B) = Cardinality(A) * Cardinality(B)
  BY <1>1, <1>2, FS_Product DEF A, B
<1>4. 1 * n = n
  OBVIOUS
<1> QED BY <1>1, <1>2, <1>3, <1>4 DEF A, B

\* Steps that post no signal, wake nobody and do not send an awake waiter to
\* sleep.
LEMMA QuietKeeps ==
    ASSUME SInv, signals' = signals, to_wake' = to_wake,
           Awake \subseteq Awake', Stirred \subseteq Stirred',
           OwedBeforeBump' = OwedBeforeBump
    PROVE  NoUnseenSignal' /\ NoLostSignal'
<1>1. Cardinality(Awake) <= Cardinality(Awake')
  BY CountedSetsNext, Monotone
<1>2. Cardinality(Stirred) <= Cardinality(Stirred')
  BY CountedSetsNext, Monotone
<1>3. Owed' = Owed
  BY DEF Owed
<1> QED BY <1>1, <1>2, <1>3, CountedSets, CountedSetsNext
        DEF SInv, IInv, TypeOK, NoUnseenSignal, NoLostSignal

\* A waiter that consumes a signal was awake for it.
LEMMA ConsumeKeeps ==
    ASSUME SInv, NEW t \in Threads, pc[t] \in {"check", "expired"}, Consume(t),
           UNCHANGED <<epoch, seen, to_wake>>
    PROVE  NoUnseenSignal' /\ NoLostSignal'
<1>1. Awake' = Awake \ {t} /\ t \in Awake
  BY DEF Consume, Goto, Awake, SInv, IInv, TypeOK
<1>2. Stirred' = Stirred \ {t} /\ t \in Stirred
  BY DEF Consume, Goto, Stirred, SInv, IInv, TypeOK
<1>3. Owed' = Owed
  BY DEF Owed
<1>4. OwedBeforeBump' = OwedBeforeBump
  BY <1>3 DEF OwedBeforeBump, Consume, Goto, SInv, IInv, TypeOK, Owed
<1>5. Cardinality(Awake') = Cardinality(Awake) - 1
  BY <1>1, CountedSets, FS_RemoveElement
<1>6. Cardinality(Stirred') = Cardinality(Stirred) - 1
  BY <1>2, CountedSets, FS_RemoveElement
<1> QED BY <1>3, <1>4, <1>5, <1>6, CountedSets
        DEF Consume, SInv, IInv, TypeOK, NoUnseenSignal, NoLostSignal

\* wake() reserves as many signals as it owes wake-ups.
LEMMA WakeKeeps ==
    ASSUME SInv, NEW t \in Threads, NEW m \in {"One", "All"}, Wake(t, m)
    PROVE  OnlyWakersOwe' /\ NoUnseenSignal' /\ NoLostSignal'
<1> DEFINE n == ToWake(m, waiters - signals)
           S == {t} \X (1..n)
<1>1. n \in 0..Cardinality(Threads) /\ n \in Nat
  <2>1. Cardinality(Registered) <= Cardinality(Threads)
    BY ThreadsAssumption, FS_Subset DEF Registered
  <2>2. n \in Nat /\ n <= waiters
    BY DEF Wake, ToWake, SInv, IInv, TypeOK, WordIsBalanced
  <2> QED BY <2>1, <2>2, CountedSets DEF SInv, IInv, TypeOK, WordIsBalanced
<1>2. to_wake' = [to_wake EXCEPT ![t] = n] /\ signals' = signals + n
  BY DEF Wake
<1>3. to_wake[t] = 0
  BY DEF Wake, SInv, OnlyWakersOwe
<1>4. OnlyWakersOwe'
  BY <1>1, <1>2 DEF Wake, Goto, SInv, IInv, TypeOK, OnlyWakersOwe
<1> HIDE DEF n
<1>5. Owed' = Owed \cup S /\ Owed \cap S = {}
  <2>1. \A u \in Threads : to_wake'[u] = IF u = t THEN n ELSE to_wake[u]
    BY <1>2 DEF SInv, IInv, TypeOK
  <2>2. \A x \in Owed : x[1] # t
    BY <1>3, CountedSets DEF Owed
  <2>3. Owed \subseteq Owed'
    BY <2>1, <2>2 DEF Owed
  <2>4. S \subseteq Owed'
    BY <1>1, <2>1, CountedSets DEF Owed
  <2>5. Owed' \subseteq Owed \cup S
    <3>1. SUFFICES ASSUME NEW x \in Owed', x \notin Owed PROVE x \in S
      OBVIOUS
    <3>2. /\ x = <<x[1], x[2]>> /\ x[1] \in Threads
          /\ x[2] \in 1..Cardinality(Threads) /\ x[2] <= to_wake'[x[1]]
      BY <3>1 DEF Owed
    <3>3. x[1] = t
      BY <2>1, <3>1, <3>2 DEF Owed
    <3> QED BY <1>1, <2>1, <3>2, <3>3, CountedSets
  <2> QED BY <2>2, <2>3, <2>4, <2>5
<1>6. OwedBeforeBump' = OwedBeforeBump \cup S /\ OwedBeforeBump \cap S = {}
  <2>1. pc' = [pc EXCEPT ![t] = "bump"]
    BY DEF Wake, Goto
  <2>2. \A x \in Owed : x[1] \in Threads
    BY DEF Owed
  <2>3. \A x \in S : x[1] = t
    OBVIOUS
  <2>4. \A x \in Owed : x[1] # t
    BY <1>3, CountedSets DEF Owed
  <2> QED BY <1>5, <2>1, <2>2, <2>3, <2>4 DEF OwedBeforeBump, SInv, IInv, TypeOK
<1>7. IsFiniteSet(S) /\ Cardinality(S) = n
  BY <1>1, ShareSize
<1> HIDE DEF S
<1>8. Cardinality(Owed') = Cardinality(Owed) + n
  <2>1. Cardinality(Owed \cup S) = Cardinality(Owed) + Cardinality(S) - Cardinality({})
    BY <1>5, <1>7, CountedSets, FS_Union
  <2> QED BY <1>1, <1>5, <1>7, <2>1, CountedSets, FS_EmptySet
<1>9. Cardinality(OwedBeforeBump') = Cardinality(OwedBeforeBump) + n
  <2>1. Cardinality(OwedBeforeBump \cup S)
          = Cardinality(OwedBeforeBump) + Cardinality(S) - Cardinality({})
    BY <1>6, <1>7, CountedSets, FS_Union
  <2> QED BY <1>1, <1>6, <1>7, <2>1, CountedSets, FS_EmptySet
<1>10. Awake' = Awake /\ Stirred' = Stirred
  BY DEF Wake, Goto, Awake, Stirred, SInv, IInv, TypeOK
<1> QED BY <1>1, <1>2, <1>4, <1>8, <1>9, <1>10, CountedSets
        DEF SInv, IInv, TypeOK, NoUnseenSignal, NoLostSignal

\* The new epoch is one that no waiter has seen: all of them are stirred.
LEMMA BumpKeeps ==
    ASSUME SInv, WordIsBalanced', NEW t \in Threads, BumpEpoch(t)
    PROVE  NoUnseenSignal' /\ NoLostSignal'
<1>1. Registered' = Stirred'
  BY DEF BumpEpoch, Goto, Registered, Waiting, Stirred, SInv, IInv, TypeOK, SeenIsPast
<1>2. NoUnseenSignal'
  <2>1. signals' \in Nat /\ signals' <= Cardinality(Registered')
    BY DEF BumpEpoch, SInv, IInv, TypeOK, WordIsBalanced
  <2> QED BY <1>1, <2>1, CountedSetsNext DEF NoUnseenSignal
<1>3. Awake \subseteq Awake'
  BY DEF BumpEpoch, Goto, Awake, SInv, IInv, TypeOK, SeenIsPast
<1>4. Cardinality(Awake) <= Cardinality(Awake')
  BY <1>3, CountedSetsNext, Monotone
<1>5. Owed' = Owed
  BY DEF Owed, BumpEpoch
<1> QED BY <1>2, <1>4, <1>5, CountedSets, CountedSetsNext
        DEF BumpEpoch, SInv, IInv, TypeOK, NoLostSignal

\* Futex::wake delivers what it owes, or leaves nobody asleep.
LEMMA FutexWakeDelivers ==
    ASSUME SInv, NEW t \in Threads, FutexWake(t)
    PROVE  NoUnseenSignal' /\ NoLostSignal'
<1>0. PICK W \in SUBSET {u \in Threads : pc[u] = "parked"} :
         /\ \/ Cardinality(W) = to_wake[t]
            \/ /\ W = {u \in Threads : pc[u] = "parked"}
               /\ Cardinality(W) < to_wake[t]
         /\ pc' = [u \in Threads |->
                     IF u = t THEN IF owner = t THEN "locked" ELSE "out"
                     ELSE IF u \in W THEN "reload" ELSE pc[u]]
  BY DEF FutexWake
<1>1. pc[t] = "wake" /\ UNCHANGED <<signals, epoch, seen>>
      /\ to_wake' = [to_wake EXCEPT ![t] = 0]
  BY DEF FutexWake
<1>2. NoUnseenSignal'
  <2>1. Stirred \subseteq Stirred'
    BY <1>0, <1>1 DEF Stirred, SInv, IInv, TypeOK
  <2>2. OwedBeforeBump' = OwedBeforeBump
    <3>1. \A x \in Threads \X (1..Cardinality(Threads)) :
             x \in OwedBeforeBump' <=> x \in OwedBeforeBump
      BY <1>0, <1>1 DEF OwedBeforeBump, Owed, SInv, IInv, TypeOK
    <3> QED BY <3>1 DEF OwedBeforeBump, Owed
  <2>3. Cardinality(Stirred) <= Cardinality(Stirred')
    BY <2>1, CountedSetsNext, Monotone
  <2> QED BY <1>1, <2>2, <2>3, CountedSets, CountedSetsNext
          DEF SInv, IInv, TypeOK, NoUnseenSignal
<1>3. NoLostSignal'
  <2>1. CASE Cardinality(W) = to_wake[t]
    <3> DEFINE S == {t} \X (1..to_wake[t])
    <3>0. to_wake[t] \in 0..Cardinality(Threads) /\ to_wake[t] \in Nat
      BY CountedSets DEF SInv, IInv, TypeOK, OnlyWakersOwe
    <3>1. Awake' = Awake \cup W /\ Awake \cap W = {}
      BY <1>0, <1>1 DEF Awake, SInv, IInv, TypeOK
    <3>2. IsFiniteSet(W)
      BY ThreadsAssumption, FS_Subset
    <3>3. Cardinality(Awake') = Cardinality(Awake) + to_wake[t]
      <4>1. Cardinality(Awake \cup W) = Cardinality(Awake) + Cardinality(W) - Cardinality({})
        BY <3>1, <3>2, CountedSets, FS_Union
      <4> QED BY <2>1, <3>0, <3>1, <4>1, CountedSets, FS_EmptySet
    <3>4. Owed' = Owed \ S /\ Owed \cap S = S
      BY <1>1, <3>0, CountedSets DEF Owed, SInv, IInv, TypeOK
    <3>5. IsFiniteSet(S) /\ Cardinality(S) = to_wake[t]
      BY <3>0, ShareSize
    <3> HIDE DEF S
    <3>6. Cardinality(Owed') = Cardinality(Owed) - to_wake[t]
      <4>1. Cardinality(Owed \ S) = Cardinality(Owed) - Cardinality(Owed \cap S)
        BY CountedSets, FS_Difference
      <4> QED BY <3>4, <3>5, <4>1
    <3> QED BY <1>1, <3>0, <3>3, <3>6, CountedSets DEF SInv, IInv, TypeOK, NoLostSignal
  <2>2. CASE W = {u \in Threads : pc[u] = "parked"}
    <3>1. Awake' = Stirred'
      BY <1>0, <1>1, <2>2 DEF Awake, Stirred, SInv, IInv, TypeOK
    <3>2. Cardinality(OwedBeforeBump') <= Cardinality(Owed')
      BY CountedSetsNext, Monotone DEF OwedBeforeBump
    <3> QED BY <1>1, <1>2, <3>1, <3>2, CountedSetsNext
            DEF SInv, IInv, TypeOK, NoUnseenSignal, NoLostSignal
  <2> QED BY <1>0, <2>1, <2>2
<1> QED BY <1>2, <1>3

\* The other conjuncts, and the steps that are left.
LEMMA NextKeepsSignals == SInv /\ [Next]_vars => SInv'
<1> SUFFICES ASSUME SInv, [Next]_vars PROVE SInv'
  OBVIOUS
<1>1. IInv'
  BY NextPreservesTypeOK, NextPreservesBalance DEF SInv, IInv
<1> USE DEF SInv, IInv
<1>2. SeenIsPast'
  BY DEF Next, Internal, vars, Lock, Unlock, WaitLoad, Relock, SpuriousWake, Register,
         WaitUnlock, FutexWait, Reload, Check, Consume, Expire, BumpEpoch, FutexWake,
         Wake, SeenIsPast, TypeOK
<1>3. ASSUME NEW t \in Threads,
             \/ Lock(t) \/ Unlock(t) \/ WaitLoad(t) \/ Register(t) \/ Relock(t)
             \/ WaitUnlock(t) \/ FutexWait(t) \/ SpuriousWake(t) \/ Reload(t)
      PROVE  OnlyWakersOwe' /\ NoUnseenSignal' /\ NoLostSignal'
  <2>1. signals' = signals /\ to_wake' = to_wake
    BY <1>3 DEF Lock, Unlock, WaitLoad, Register, Relock, WaitUnlock, FutexWait,
                SpuriousWake, Reload
  <2>2. Awake \subseteq Awake' /\ Stirred \subseteq Stirred'
    <3>1. CASE Lock(t) \/ Unlock(t) \/ WaitLoad(t) \/ Register(t) \/ Relock(t)
      BY <3>1 DEF Lock, Unlock, WaitLoad, Register, Relock, Goto, Awake, Stirred, TypeOK
    <3>2. CASE WaitUnlock(t) \/ FutexWait(t) \/ SpuriousWake(t) \/ Reload(t)
      BY <3>2 DEF WaitUnlock, FutexWait, SpuriousWake, Reload, Goto, Awake, Stirred,
                  TypeOK
    <3> QED BY <1>3, <3>1, <3>2
  <2>3. \A u \in Threads : pc'[u] = "bump" <=> pc[u] = "bump"
    BY <1>3 DEF Lock, Unlock, WaitLoad, Register, Relock, WaitUnlock, FutexWait,
                SpuriousWake, Reload, Goto, TypeOK
  <2>4. OwedBeforeBump' = OwedBeforeBump
    BY <2>1, <2>3 DEF OwedBeforeBump, Owed
  <2>5. OnlyWakersOwe'
    BY <1>3, <2>1 DEF Lock, Unlock, WaitLoad, Register, Relock, WaitUnlock, FutexWait,
                      SpuriousWake, Reload, Goto, TypeOK, OnlyWakersOwe
  <2> QED BY <2>1, <2>2, <2>4, <2>5, QuietKeeps
<1>4. ASSUME NEW t \in Threads, Check(t) \/ Expire(t)
      PROVE  OnlyWakersOwe' /\ NoUnseenSignal' /\ NoLostSignal'
  <2>1. OnlyWakersOwe'
    BY <1>4 DEF Check, Expire, Consume, Goto, TypeOK, OnlyWakersOwe
  <2>2. CASE Consume(t)
    BY <1>4, <2>1, <2>2, ConsumeKeeps DEF Check, Expire
  <2>3. CASE signals = 0 /\ signals' = signals
    BY <2>1, <2>3, CountedSetsNext DEF NoUnseenSignal, NoLostSignal
  <2> QED BY <1>4, <2>2, <2>3 DEF Check, Expire
<1>5. ASSUME NEW t \in Threads, BumpEpoch(t) \/ FutexWake(t)
      PROVE  OnlyWakersOwe' /\ NoUnseenSignal' /\ NoLostSignal'
  <2>1. OnlyWakersOwe'
    BY <1>5, CountedSets DEF BumpEpoch, FutexWake, Goto, TypeOK, OnlyWakersOwe
  <2> QED BY <1>1, <1>5, <2>1, BumpKeeps, FutexWakeDelivers
<1>6. CASE UNCHANGED vars
  <2>1. OnlyWakersOwe' /\ NoUnseenSignal' /\ NoLostSignal'
    BY <1>6 DEF vars, OnlyWakersOwe, NoUnseenSignal, NoLostSignal, Stirred, Awake, Owed,
                OwedBeforeBump
  <2> QED BY <1>1, <1>2, <2>1
<1>7. OnlyWakersOwe' /\ NoUnseenSignal' /\ NoLostSignal'
  BY <1>3, <1>4, <1>5, <1>6, WakeKeeps DEF Next, Internal
<1> QED BY <1>1, <1>2, <1>7

\* For every signal in the condition's word there is a waiter awake to consume
\* it or a wake() that has yet to wake one, for any number of threads.
THEOREM ConditionLosesNoSignal == Spec => []NoLostSignal
<1>1. Init => SInv
  <2> SUFFICES ASSUME Init PROVE SInv
    OBVIOUS
  <2>1. IInv
    <3>1. TypeOK
      BY DEF Init, TypeOK, PCs
    <3>2. Registered = {}
      BY DEF Init, Registered, Waiting
    <3> QED BY <3>1, <3>2, FS_EmptySet DEF Init, IInv, WordIsBalanced
  <2>2. SeenIsPast /\ OnlyWakersOwe
    BY CountedSets DEF Init, SeenIsPast, OnlyWakersOwe
  <2>3. NoUnseenSignal /\ NoLostSignal
    BY CountedSets DEF Init, NoUnseenSignal, NoLostSignal
  <2> QED BY <2>1, <2>2, <2>3 DEF SInv
<1>2. SInv => NoLostSignal
  BY DEF SInv
<1> QED BY <1>1, <1>2, NextKeepsSignals, PTL DEF Spec

-----------------------------------------------------------------------------

\* Every step of the condition is a step of CondSpec or leaves it unchanged.
THEOREM ConditionImplementsCondSpec == Spec => ImplementsCondSafely
<1>1. Init => CS!Init
  BY DEF Init, CS!Init, Registered, Waiting
<1>2. IInv /\ [Next]_vars => [CS!Next]_<<Registered, signals>>
  <2> SUFFICES ASSUME IInv, [Next]_vars
               PROVE  [CS!Next]_<<Registered, signals>>
    OBVIOUS
  <2> USE DEF IInv
  <2>0. \A S : CS!Cardinality(S) = Cardinality(S)
    BY DEF CS!Cardinality, Cardinality
  <2>1. CASE UNCHANGED vars
    BY <2>1 DEF vars, Registered
  <2>2. ASSUME NEW t \in Threads,
               \/ Lock(t) \/ Unlock(t) \/ Relock(t) \/ WaitLoad(t)
               \/ BumpEpoch(t)
        PROVE  UNCHANGED <<Registered, signals>>
    BY <2>2, StayKeeps
    DEF Lock, Unlock, Relock, WaitLoad, BumpEpoch, Waiting
  <2>3. ASSUME NEW t \in Threads,
               WaitUnlock(t) \/ FutexWait(t) \/ SpuriousWake(t) \/ Reload(t)
        PROVE  UNCHANGED <<Registered, signals>>
    BY <2>3, StayKeeps
    DEF WaitUnlock, FutexWait, SpuriousWake, Reload, Waiting
  <2>4. ASSUME NEW t \in Threads, Register(t) PROVE CS!Join(t)
    BY <2>4, EnterCounts DEF Register, CS!Join, Waiting
  <2>5. ASSUME NEW t \in Threads, Consume(t), pc[t] \in Waiting
        PROVE  CS!Take(t)
    BY <2>5, LeaveCounts DEF Consume, CS!Take, Waiting
  <2>6. ASSUME NEW t \in Threads, Check(t)
        PROVE  CS!Take(t) \/ UNCHANGED <<Registered, signals>>
    <3>1. CASE Consume(t)
      BY <2>5, <2>6, <3>1 DEF Check, Waiting
    <3>2. CASE Goto(t, "wait") /\ UNCHANGED <<waiters, signals>>
      BY <2>6, <3>2, StayKeeps DEF Check, Waiting
    <3> QED BY <2>6, <3>1, <3>2 DEF Check
  <2>7. ASSUME NEW t \in Threads, Expire(t) PROVE CS!Take(t) \/ CS!GiveUp(t)
    <3>1. CASE Consume(t)
      BY <2>5, <2>7, <3>1 DEF Expire, Waiting
    <3>2. CASE signals = 0 /\ Goto(t, "relock") /\ UNCHANGED signals
      BY <2>7, <3>2, LeaveCounts DEF Expire, CS!GiveUp, Waiting
    <3> QED BY <2>7, <3>1, <3>2 DEF Expire
  <2>8. ASSUME NEW t \in Threads, NEW m \in {"One", "All"}, Wake(t, m)
        PROVE  CS!Next
    <3> DEFINE n == ToWake(m, waiters - signals)
    <3>1. Registered' = Registered
      BY <2>8, StayKeeps DEF Wake, Waiting
    <3>2. n >= 1 /\ n <= Cardinality(Registered) - signals /\ n \in Nat
      BY <2>8 DEF Wake, ToWake, TypeOK, WordIsBalanced
    <3>3. Cardinality(Registered) <= Cardinality(Threads)
      BY ThreadsAssumption, FS_Subset DEF Registered
    <3>4. Cardinality(Threads) \in Nat
      BY ThreadsAssumption, FS_CardinalityType
    <3>5. n \in 1..Cardinality(Threads)
      BY <3>2, <3>3, <3>4, RegisteredIsFinite DEF TypeOK
    <3>6. CS!Post(n)
      <4>1. signals' = signals + n
        BY <2>8 DEF Wake
      <4> QED BY <2>0, <3>1, <3>2, <4>1 DEF CS!Post
    <3> QED BY <2>0, <3>5, <3>6 DEF CS!Next
  <2>9. ASSUME NEW t \in Threads, FutexWake(t)
        PROVE  UNCHANGED <<Registered, signals>>
    BY <2>9, FutexWakeKeeps DEF FutexWake
  <2> QED
    BY <2>1, <2>2, <2>3, <2>4, <2>6, <2>7, <2>8, <2>9
    DEF Next, Internal, CS!Next
<1> QED
  BY <1>1, <1>2, ConditionIsBalanced, PTL
  DEF Spec, ImplementsCondSafely, CS!SafeSpec, IInv

=============================================================================
