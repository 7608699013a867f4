------------------------------- MODULE Mutex -------------------------------
(***************************************************************************)
(* The futex mutex of bun_threading (src/src/threading/Mutex.rs), wrapped  *)
(* in the debug instrumentation that detects recursive locking.            *)
(*                                                                         *)
(* One action per atomic operation on the lock word `state`, on the debug  *)
(* word `locking_thread`, or on the kernel's futex queue.  A thread whose  *)
(* pc is "parked" sleeps inside the futex call.                            *)
(***************************************************************************)
EXTENDS Integers, FiniteSets

CONSTANTS
    Threads,    \* the threads that share the mutex
    NoThread,   \* locking_thread when nobody holds the mutex (0 in the code)
    WeakCas     \* TRUE: try_lock is a compare_exchange_weak (not x86)

ASSUME ThreadsAssumption == NoThread \notin Threads
ASSUME WeakCasAssumption == WeakCas \in BOOLEAN

\* FutexImpl's three states of the lock word.
UNLOCKED  == 0
LOCKED    == 1
CONTENDED == 3

VARIABLES
    state,           \* FutexImpl.state
    locking_thread,  \* DebugImpl.locking_thread
    pc               \* where each thread is in lock / try_lock / unlock

vars == <<state, locking_thread, pc>>

PCs == {"out",     \* outside every call, not holding the mutex
        "lock",    \* lock(): debug check passed, about to try_lock
        "slow",    \* lock_slow(): about to load the state
        "wait",    \* about to call Futex::wait_forever(CONTENDED)
        "parked",  \* asleep in the futex
        "swap",    \* about to swap in CONTENDED
        "tag",     \* acquired, about to store locking_thread
        "cs",      \* in the critical section
        "release", \* unlock(): tag cleared, about to swap in UNLOCKED
        "wake",    \* unlock(): saw CONTENDED, about to Futex::wake(1)
        "panic"}   \* "Deadlock detected", or a debug_assert of unlock

\* The threads between a successful acquire and the swap that releases.
Holding(t) == pc[t] \in {"tag", "cs", "release"}

Goto(t, l) == pc' = [pc EXCEPT ![t] = l]

Init ==
    /\ state = UNLOCKED
    /\ locking_thread = NoThread
    /\ pc = [t \in Threads |-> "out"]

-----------------------------------------------------------------------------
(* Acquiring.                                                              *)

\* DebugImpl::lock: panics when the tag already names the caller.
Lock(t) ==
    /\ pc[t] = "out"
    /\ Goto(t, IF locking_thread = t THEN "panic" ELSE "lock")
    /\ UNCHANGED <<state, locking_thread>>

\* FutexImpl::try_lock sets the LOCKED bit; it succeeds if the bit was clear.
TryAcquire(t, failed) ==
    /\ UNCHANGED locking_thread
    /\ \/ /\ state = UNLOCKED
          /\ state' = LOCKED
          /\ Goto(t, "tag")
       \/ /\ state # UNLOCKED \/ WeakCas
          /\ Goto(t, failed)
          /\ UNCHANGED state

\* The fast path of lock().
LockFast(t) == pc[t] = "lock" /\ TryAcquire(t, "slow")

\* try_lock(): no debug check, the caller goes on without the mutex.
TryLock(t) == pc[t] = "out" /\ TryAcquire(t, "out")

\* lock_slow(): the first load only avoids an unneeded swap.
SlowLoad(t) ==
    /\ pc[t] = "slow"
    /\ Goto(t, IF state = CONTENDED THEN "wait" ELSE "swap")
    /\ UNCHANGED <<state, locking_thread>>

\* The kernel compares and parks in one atomic step.
FutexWait(t) ==
    /\ pc[t] = "wait"
    /\ Goto(t, IF state = CONTENDED THEN "parked" ELSE "swap")
    /\ UNCHANGED <<state, locking_thread>>

\* A parked thread may return with EINTR.
SpuriousWake(t) ==
    /\ pc[t] = "parked"
    /\ Goto(t, "swap")
    /\ UNCHANGED <<state, locking_thread>>

\* Mutant: takes the mutex whenever nobody is known to wait for it.
SlowSwapIfUncontended(t) ==
    /\ pc[t] = "swap"
    /\ state' = CONTENDED
    /\ Goto(t, IF state # CONTENDED THEN "tag" ELSE "wait")
    /\ UNCHANGED locking_thread

\* Mutant: a woken sleeper acquires with LOCKED and forgets the other sleepers.
SlowSwapLocked(t) ==
    /\ pc[t] = "swap"
    /\ state' = IF state = UNLOCKED THEN LOCKED ELSE CONTENDED
    /\ Goto(t, IF state = UNLOCKED THEN "tag" ELSE "wait")
    /\ UNCHANGED locking_thread

\* The loop condition of lock_slow(): a sleeper acquires with CONTENDED.
SlowSwap(t) ==
    /\ pc[t] = "swap"
    /\ state' = CONTENDED
    /\ Goto(t, IF state = UNLOCKED THEN "tag" ELSE "wait")
    /\ UNCHANGED locking_thread

\* DebugImpl records the owner after the acquire, in a separate store.
Tag(t) ==
    /\ pc[t] = "tag"
    /\ locking_thread' = t
    /\ Goto(t, "cs")
    /\ UNCHANGED state

-----------------------------------------------------------------------------
(* Releasing.                                                              *)

\* Mutant: unlock() leaves the tag behind.
UntagForgotten(t) ==
    /\ pc[t] = "cs"
    /\ Goto(t, IF locking_thread = t THEN "release" ELSE "panic")
    /\ UNCHANGED <<state, locking_thread>>

\* DebugImpl::unlock asserts that the tag names the caller, then clears it.
Untag(t) ==
    /\ pc[t] = "cs"
    /\ UNCHANGED state
    /\ \/ /\ locking_thread = t
          /\ locking_thread' = NoThread
          /\ Goto(t, "release")
       \/ /\ locking_thread # t
          /\ Goto(t, "panic")
          /\ UNCHANGED locking_thread

\* Mutant: unlock() never wakes anybody.
ReleaseSilently(t) ==
    /\ pc[t] = "release"
    /\ state' = UNLOCKED
    /\ Goto(t, "out")
    /\ UNCHANGED locking_thread

\* FutexImpl::unlock: the swap releases, and tells whether to wake a sleeper;
\* the assertion that the word was not UNLOCKED comes after the swap.
Release(t) ==
    /\ pc[t] = "release"
    /\ state' = UNLOCKED
    /\ Goto(t, CASE state = CONTENDED -> "wake"
                 [] state = LOCKED -> "out"
                 [] OTHER -> "panic")
    /\ UNCHANGED locking_thread

\* Futex::wake(state, 1): one parked thread, if there is one.
FutexWake(t) ==
    /\ pc[t] = "wake"
    /\ \/ \E u \in Threads :
            /\ pc[u] = "parked"
            /\ pc' = [pc EXCEPT ![t] = "out", ![u] = "swap"]
       \/ /\ \A u \in Threads : pc[u] # "parked"
          /\ Goto(t, "out")
    /\ UNCHANGED <<state, locking_thread>>

-----------------------------------------------------------------------------

\* The steps a thread takes by itself once it is inside a call.
Internal(t) ==
    \/ LockFast(t) \/ SlowLoad(t) \/ FutexWait(t) \/ SlowSwap(t) \/ Tag(t)
    \/ Untag(t) \/ Release(t) \/ FutexWake(t)

Next == \E t \in Threads :
            Lock(t) \/ TryLock(t) \/ SpuriousWake(t) \/ Internal(t)

Spec == Init /\ [][Next]_vars

\* A thread inside a call keeps running, and critical sections are finite.
\* Nothing makes a thread call lock, or a sleeper wake up by itself.
FairSpec == Spec /\ \A t \in Threads : WF_vars(Internal(t))

-----------------------------------------------------------------------------
(* Properties.                                                             *)

\* Every variable has its type; every thread is at a known point of the code.
TypeOK ==
    /\ state \in {UNLOCKED, LOCKED, CONTENDED}
    /\ locking_thread \in Threads \cup {NoThread}
    /\ pc \in [Threads -> PCs]

\* At most one thread is between its acquire and its release, whichever of
\* try_lock, the fast path or the slow path let it in.
MutualExclusion ==
    \A t, u \in Threads : Holding(t) /\ Holding(u) => t = u

\* A thread parked in the futex is never forgotten: the word says CONTENDED,
\* so that the next unlock wakes a sleeper, or a wake is on its way, or a
\* woken thread is about to swap CONTENDED back in.
NoForgottenSleeper ==
    (\E t \in Threads : pc[t] = "parked") =>
        \/ state = CONTENDED
        \/ \E u \in Threads : pc[u] \in {"wake", "swap"}

\* The debug instrumentation raises no false alarm: with callers that do not
\* lock recursively, neither "Deadlock detected" nor the assertion in unlock
\* fires, although the tag is stored and read apart from the lock word.
NoFalseDeadlockReport == \A t \in Threads : pc[t] # "panic"

\* Deadlock freedom: while threads want the mutex, some thread gets it and
\* comes as far as its critical section.
Wanting(t) == pc[t] \in {"lock", "slow", "wait", "parked", "swap"}
Progress ==
    (\E t \in Threads : Wanting(t)) ~> (\E t \in Threads : pc[t] = "cs")

-----------------------------------------------------------------------------
(* The mutex implements the abstract lock.                                 *)

Owner == IF \E t \in Threads : Holding(t)
         THEN CHOOSE t \in Threads : Holding(t)
         ELSE NoThread

L == INSTANCE LockSpec WITH owner <- Owner

\* Whatever the threads do, the mutex behaves as a lock with one owner that is
\* given only when free and taken back only from its owner.
ImplementsLock == L!Spec

-----------------------------------------------------------------------------
(* The inductive invariant behind the safety properties.                   *)

\* A thread that holds the mutex has set the lock word, and the word is only
\* set while some thread holds the mutex.
WordTracksHolder == state # UNLOCKED <=> \E t \in Threads : Holding(t)

\* The debug tag names exactly the thread in the critical section.
TagTracksHolder == \A t \in Threads : pc[t] = "cs" <=> locking_thread = t

IInv ==
    /\ TypeOK
    /\ MutualExclusion
    /\ WordTracksHolder
    /\ TagTracksHolder
    /\ NoFalseDeadlockReport
    /\ NoForgottenSleeper

=============================================================================
