----------------------------- MODULE Condition -----------------------------
(***************************************************************************)
(* The futex condition variable of bun_threading                           *)
(* (src/src/threading/Condition.rs, FutexImpl) used with one Mutex.        *)
(*                                                                         *)
(* The word `state` packs two 16-bit counters, modelled as the variables   *)
(* waiters and signals that one atomic operation changes together.  A      *)
(* compare_exchange loop is one step at the value it succeeds on.  The     *)
(* Mutex is the lock of LockSpec, which module Mutex implements.           *)
(***************************************************************************)
EXTENDS Integers, FiniteSets

CONSTANTS
    Threads,    \* the threads that share the condition and its mutex
    NoThread,   \* the owner of a free mutex
    MaxWakes    \* bound: how often the epoch is bumped (2^32 in the code)

ASSUME ThreadsAssumption == IsFiniteSet(Threads) /\ NoThread \notin Threads
ASSUME MaxWakesAssumption == MaxWakes \in Nat

VARIABLES
    owner,    \* the thread that holds the mutex
    waiters,  \* state & WAITER_MASK
    signals,  \* (state & SIGNAL_MASK) >> 16
    epoch,    \* FutexImpl.epoch
    pc,       \* where each thread is
    seen,     \* the epoch a waiting thread loaded last
    timed,    \* TRUE in timed_wait()
    to_wake   \* how many threads a waking thread reserved

vars == <<owner, waiters, signals, epoch, pc, seen, timed, to_wake>>

Waiting == {"unlock",  \* registered, about to unlock the mutex
            "wait",    \* about to call Deadline::wait(epoch)
            "parked",  \* asleep in the futex
            "expired", \* Deadline::wait returned Timeout
            "reload",  \* woken, about to load the epoch again
            "check"}   \* about to look for a signal to consume

PCs == Waiting \cup
       {"out",      \* in no call, does not hold the mutex
        "locked",   \* in no call, holds the mutex
        "register", \* wait(): epoch loaded, about to add itself as a waiter
        "relock",   \* wait() is over, about to take the mutex back
        "bump",     \* wake(): signals reserved, about to bump the epoch
        "wake"}     \* wake(): about to Futex::wake(to_wake)

\* The threads the waiters counter stands for.
Registered == {t \in Threads : pc[t] \in Waiting}

Goto(t, l) == pc' = [pc EXCEPT ![t] = l]

Init ==
    /\ owner = NoThread
    /\ waiters = 0 /\ signals = 0 /\ epoch = 0
    /\ pc = [t \in Threads |-> "out"]
    /\ seen = [t \in Threads |-> 0]
    /\ timed = [t \in Threads |-> FALSE]
    /\ to_wake = [t \in Threads |-> 0]

-----------------------------------------------------------------------------
(* The mutex, as the callers of wait() use it.                             *)

Lock(t) ==
    /\ pc[t] = "out"
    /\ owner = NoThread
    /\ owner' = t
    /\ Goto(t, "locked")
    /\ UNCHANGED <<waiters, signals, epoch, seen, timed, to_wake>>

Unlock(t) ==
    /\ pc[t] = "locked"
    /\ owner' = NoThread
    /\ Goto(t, "out")
    /\ UNCHANGED <<waiters, signals, epoch, seen, timed, to_wake>>

-----------------------------------------------------------------------------
(* wait() and timed_wait().                                                *)

\* The epoch is observed before the thread becomes visible as a waiter.
WaitLoad(t) ==
    /\ pc[t] = "locked"
    /\ seen' = [seen EXCEPT ![t] = epoch]
    /\ \E b \in BOOLEAN : timed' = [timed EXCEPT ![t] = b]
    /\ Goto(t, "register")
    /\ UNCHANGED <<owner, waiters, signals, epoch, to_wake>>

Register(t) ==
    /\ pc[t] = "register"
    /\ waiters' = waiters + 1
    /\ Goto(t, "unlock")
    /\ UNCHANGED <<owner, signals, epoch, seen, timed, to_wake>>

\* Mutant: the epoch is loaded only after the mutex has been released.
WaitUnlockThenLoad(t) ==
    /\ pc[t] = "unlock"
    /\ owner' = NoThread
    /\ seen' = [seen EXCEPT ![t] = epoch]
    /\ Goto(t, "wait")
    /\ UNCHANGED <<waiters, signals, epoch, timed, to_wake>>

WaitUnlock(t) ==
    /\ pc[t] = "unlock"
    /\ owner' = NoThread
    /\ Goto(t, "wait")
    /\ UNCHANGED <<waiters, signals, epoch, seen, timed, to_wake>>

\* The kernel compares the epoch and parks in one step; a deadline that has
\* already passed returns Timeout without parking.
FutexWait(t) ==
    /\ pc[t] = "wait"
    /\ \/ epoch # seen[t] /\ Goto(t, "reload")
       \/ epoch = seen[t] /\ Goto(t, "parked")
       \/ epoch = seen[t] /\ timed[t] /\ Goto(t, "expired")
    /\ UNCHANGED <<owner, waiters, signals, epoch, seen, timed, to_wake>>

\* EINTR, or the deadline of timed_wait().
SpuriousWake(t) ==
    /\ pc[t] = "parked"
    /\ \/ Goto(t, "reload")
       \/ timed[t] /\ Goto(t, "expired")
    /\ UNCHANGED <<owner, waiters, signals, epoch, seen, timed, to_wake>>

Reload(t) ==
    /\ pc[t] = "reload"
    /\ seen' = [seen EXCEPT ![t] = epoch]
    /\ Goto(t, "check")
    /\ UNCHANGED <<owner, waiters, signals, epoch, timed, to_wake>>

\* Take one signal and the waiter that it was reserved for out of the word.
Consume(t) ==
    /\ signals > 0
    /\ waiters' = waiters - 1
    /\ signals' = signals - 1
    /\ Goto(t, "relock")

\* Woken: consume a signal, or go back to sleep on the epoch just loaded.
Check(t) ==
    /\ pc[t] = "check"
    /\ \/ Consume(t)
       \/ signals = 0 /\ Goto(t, "wait") /\ UNCHANGED <<waiters, signals>>
    /\ UNCHANGED <<owner, epoch, seen, timed, to_wake>>

\* Mutant: a waiter that timed out leaves without looking for a signal.
ExpireBlindly(t) ==
    /\ pc[t] = "expired"
    /\ waiters' = waiters - 1
    /\ Goto(t, "relock")
    /\ UNCHANGED <<signals, owner, epoch, seen, timed, to_wake>>

\* Timed out: a signal that is already there is consumed and reported as a
\* wake-up, else the waiter is removed.
Expire(t) ==
    /\ pc[t] = "expired"
    /\ \/ Consume(t)
       \/ /\ signals = 0
          /\ waiters' = waiters - 1
          /\ Goto(t, "relock")
          /\ UNCHANGED signals
    /\ UNCHANGED <<owner, epoch, seen, timed, to_wake>>

\* The deferred mutex.lock() of every exit path; the locals of wait() die.
Relock(t) ==
    /\ pc[t] = "relock"
    /\ owner = NoThread
    /\ owner' = t
    /\ Goto(t, "locked")
    /\ seen' = [seen EXCEPT ![t] = 0]
    /\ timed' = [timed EXCEPT ![t] = FALSE]
    /\ UNCHANGED <<waiters, signals, epoch, to_wake>>

-----------------------------------------------------------------------------
(* signal() and broadcast(), with or without the mutex.                    *)

\* How many of the wakeable waiters a call reserves: Notify::One, Notify::All.
ToWake(notify, wakeable) == IF notify = "One" THEN 1 ELSE wakeable

\* Mutant: broadcast() reserves a signal for waiters that have one already.
WakeAgain(t, notify) ==
    /\ pc[t] \in {"out", "locked"}
    /\ waiters # 0
    /\ epoch < MaxWakes
    /\ LET n == ToWake(notify, waiters) IN
         /\ signals' = signals + n
         /\ to_wake' = [to_wake EXCEPT ![t] = n]
    /\ Goto(t, "bump")
    /\ UNCHANGED <<owner, waiters, epoch, seen, timed>>

Wake(t, notify) ==
    /\ pc[t] \in {"out", "locked"}
    /\ waiters - signals # 0    \* else wake() returns at once
    /\ epoch < MaxWakes
    /\ LET n == ToWake(notify, waiters - signals) IN
         /\ signals' = signals + n
         /\ to_wake' = [to_wake EXCEPT ![t] = n]
    /\ Goto(t, "bump")
    /\ UNCHANGED <<owner, waiters, epoch, seen, timed>>

BumpEpoch(t) ==
    /\ pc[t] = "bump"
    /\ epoch' = epoch + 1
    /\ Goto(t, "wake")
    /\ UNCHANGED <<owner, waiters, signals, seen, timed, to_wake>>

\* Futex::wake(epoch, to_wake): any to_wake of the parked threads, or all.
FutexWake(t) ==
    /\ pc[t] = "wake"
    /\ \E W \in SUBSET {u \in Threads : pc[u] = "parked"} :
         /\ \/ Cardinality(W) = to_wake[t]
            \/ /\ W = {u \in Threads : pc[u] = "parked"}
               /\ Cardinality(W) < to_wake[t]
         /\ pc' = [u \in Threads |->
                     IF u = t THEN IF owner = t THEN "locked" ELSE "out"
                     ELSE IF u \in W THEN "reload" ELSE pc[u]]
    /\ to_wake' = [to_wake EXCEPT ![t] = 0]
    /\ UNCHANGED <<owner, waiters, signals, epoch, seen, timed>>

-----------------------------------------------------------------------------

\* The steps of a thread inside wait(), timed_wait() or wake().
Internal(t) ==
    \/ Register(t) \/ WaitUnlock(t) \/ FutexWait(t) \/ Reload(t)
    \/ Check(t) \/ Expire(t) \/ BumpEpoch(t) \/ FutexWake(t)

Next == \E t \in Threads :
    \/ Lock(t) \/ Unlock(t) \/ WaitLoad(t) \/ Relock(t)
    \/ SpuriousWake(t) \/ Internal(t)
    \/ \E notify \in {"One", "All"} : Wake(t, notify)

Spec == Init /\ [][Next]_vars

\* A thread inside a call keeps running.  No sleeper wakes up by itself.
FairSpec == Spec /\ \A t \in Threads : WF_vars(Internal(t))

-----------------------------------------------------------------------------
(* Properties.                                                             *)

\* Every variable has its type.
TypeOK ==
    /\ owner \in Threads \cup {NoThread}
    /\ waiters \in Nat /\ signals \in Nat /\ epoch \in Nat
    /\ pc \in [Threads -> PCs]
    /\ seen \in [Threads -> Nat]
    /\ timed \in [Threads -> BOOLEAN]
    /\ to_wake \in [Threads -> Nat]

\* The low half of the word counts the registered threads and the high half
\* never exceeds it, through timeouts, late waiters and overlapping wakes: the
\* subtractions `waiters - signals` and `state - ONE_WAITER - ONE_SIGNAL`
\* never borrow.
WordIsBalanced ==
    /\ waiters = Cardinality(Registered)
    /\ signals <= waiters

\* The waiters that will look for a signal before they sleep again.
Awake == {t \in Threads : \/ pc[t] \in {"reload", "check", "expired"}
                          \/ pc[t] \in {"unlock", "wait"} /\ seen[t] # epoch}

\* The wake-ups that calls of wake() have reserved and not yet delivered, the
\* first, the second, ... of each.
Owed == {x \in Threads \X (1..Cardinality(Threads)) : x[2] <= to_wake[x[1]]}

\* No signal is lost: there is a waiter awake to consume every signal, or a
\* wake() that has yet to wake one, although the reservation, the epoch and
\* the futex are three separate steps.
NoLostSignal == signals <= Cardinality(Awake) + Cardinality(Owed)

-----------------------------------------------------------------------------
(* The condition implements its abstract specification.                    *)

CS == INSTANCE CondSpec WITH waiting <- Registered, reserved <- signals

\* Waiters come and go, and wake-ups are posted and taken, as CondSpec says;
\* in particular a posted wake-up is eventually taken.
ImplementsCond == CS!Spec

\* The same without the promise that a posted wake-up is taken.
ImplementsCondSafely == CS!SafeSpec

=============================================================================
