----------------------------- MODULE WaitGroup -----------------------------
(***************************************************************************)
(* bun_threading::WaitGroup (src/src/threading/WaitGroup.rs) in the way    *)
(* its users drive it: one thread hands out tasks in rounds, calls wait()  *)
(* after each round and goes on with the same group; the worker that runs  *)
(* a task calls finish(), and may hand out further tasks while it runs.    *)
(*                                                                         *)
(* The mutex is LockSpec and the condition variable CondSpec: the modules  *)
(* Mutex and Condition implement them.                                     *)
(***************************************************************************)
EXTENDS Integers, FiniteSets

CONSTANTS
    Main,      \* the thread that hands out the rounds and waits
    Workers,   \* the threads that run tasks
    NoThread,  \* the owner of a free mutex
    MaxTasks   \* bound: the tasks handed out in one behaviour

Threads == Workers \cup {Main}

ASSUME WorkersAssumption ==
    /\ IsFiniteSet(Workers) /\ Main \notin Workers /\ NoThread \notin Threads
ASSUME MaxTasksAssumption == MaxTasks \in Nat

VARIABLES
    raw_count,  \* WaitGroup.raw_count
    owner,      \* WaitGroup.mutex
    waiting,    \* WaitGroup.cond: its waiters ...
    reserved,   \* ... and the wake-ups posted for them
    todo,       \* tasks handed out that no worker has taken
    handed,     \* tasks handed out so far
    batch,      \* tasks a thread has counted and is about to hand out
    pc          \* where each thread is

vars == <<raw_count, owner, waiting, reserved, todo, handed, batch, pc>>

M == INSTANCE LockSpec
C == INSTANCE CondSpec

PCs == {"out",      \* outside the group; a worker: looking for a task
        "run",      \* a worker: inside a task
        "add",      \* counted a new task, about to hand it out
        "f_lock",   \* finish(): saw old_count <= 1, about to lock the mutex
        "f_unlock", \* finish(): about to unlock it
        "f_signal", \* finish(): about to signal
        "w_lock",   \* wait(): about to lock the mutex
        "w_load",   \* wait(): holds the mutex, about to read the count
        "w_join",   \* wait(): read a count above 0, about to cond.wait()
        "w_sleep",  \* wait(): registered in cond.wait(), mutex released
        "w_relock", \* wait(): woken, about to take the mutex back
        "w_unlock"} \* wait(): read 0, about to unlock and return

Goto(t, l) == pc' = [pc EXCEPT ![t] = l]

cond == <<waiting, reserved>>
tasks == <<todo, handed, batch>>

Init ==
    /\ raw_count = 0
    /\ M!Init /\ C!Init
    /\ todo = 0 /\ handed = 0 /\ batch = [t \in Threads |-> 0]
    /\ pc = [t \in Threads |-> "out"]

-----------------------------------------------------------------------------
(* add(): the count goes up before anybody can run, and finish, the task.  *)

CanAdd(t) == IF t = Main THEN pc[t] = "out" ELSE pc[t] = "run"

\* Mutant: a batch is counted as one task.
AddOne(t, n) ==
    /\ CanAdd(t)
    /\ handed + n <= MaxTasks
    /\ raw_count' = raw_count + 1
    /\ handed' = handed + n
    /\ batch' = [batch EXCEPT ![t] = n]
    /\ Goto(t, "add")
    /\ UNCHANGED <<owner, cond, todo>>

Add(t, n) ==
    /\ CanAdd(t)
    /\ handed + n <= MaxTasks
    /\ raw_count' = raw_count + n
    /\ handed' = handed + n
    /\ batch' = [batch EXCEPT ![t] = n]
    /\ Goto(t, "add")
    /\ UNCHANGED <<owner, cond, todo>>

HandOut(t) ==
    /\ pc[t] = "add"
    /\ todo' = todo + batch[t]
    /\ batch' = [batch EXCEPT ![t] = 0]
    /\ Goto(t, IF t = Main THEN "out" ELSE "run")
    /\ UNCHANGED <<raw_count, owner, cond, handed>>

TakeTask(w) ==
    /\ pc[w] = "out" /\ todo > 0
    /\ todo' = todo - 1
    /\ Goto(w, "run")
    /\ UNCHANGED <<raw_count, owner, cond, handed, batch>>

-----------------------------------------------------------------------------
(* finish()                                                                *)

\* Mutant: the last task signals without passing through the mutex.
FinishWithoutLock(w) ==
    /\ pc[w] = "run"
    /\ raw_count' = raw_count - 1
    /\ Goto(w, IF raw_count > 1 THEN "out" ELSE "f_signal")
    /\ UNCHANGED <<owner, cond, tasks>>

Finish(w) ==
    /\ pc[w] = "run"
    /\ raw_count' = raw_count - 1
    /\ Goto(w, IF raw_count > 1 THEN "out" ELSE "f_lock")
    /\ UNCHANGED <<owner, cond, tasks>>

\* The last task locks and unlocks the mutex so that a waiter that has read a
\* non-zero count reaches cond.wait() before the signal.
FinishLock(w) ==
    /\ pc[w] = "f_lock"
    /\ M!Acquire(w)
    /\ Goto(w, "f_unlock")
    /\ UNCHANGED <<raw_count, cond, tasks>>

FinishUnlock(w) ==
    /\ pc[w] = "f_unlock"
    /\ M!Release(w)
    /\ Goto(w, "f_signal")
    /\ UNCHANGED <<raw_count, cond, tasks>>

FinishSignal(w) ==
    /\ pc[w] = "f_signal"
    /\ \/ C!Post(1)
       \/ Cardinality(waiting) <= reserved /\ UNCHANGED cond
    /\ Goto(w, "out")
    /\ UNCHANGED <<raw_count, owner, tasks>>

-----------------------------------------------------------------------------
(* wait()                                                                  *)

Wait(t) ==
    /\ pc[t] = "out"
    /\ Goto(t, "w_lock")
    /\ UNCHANGED <<raw_count, owner, cond, tasks>>

WaitLock(t) ==
    /\ pc[t] \in {"w_lock", "w_relock"}
    /\ M!Acquire(t)
    /\ Goto(t, "w_load")
    /\ UNCHANGED <<raw_count, cond, tasks>>

\* Mutant: wait() returns when one task is left.
WaitLoadOffByOne(t) ==
    /\ pc[t] = "w_load"
    /\ Goto(t, IF raw_count > 1 THEN "w_join" ELSE "w_unlock")
    /\ UNCHANGED <<raw_count, owner, cond, tasks>>

WaitLoad(t) ==
    /\ pc[t] = "w_load"
    /\ Goto(t, IF raw_count > 0 THEN "w_join" ELSE "w_unlock")
    /\ UNCHANGED <<raw_count, owner, cond, tasks>>

\* cond.wait() registers the caller and then unlocks the mutex.
WaitJoin(t) ==
    /\ pc[t] = "w_join" /\ t \notin waiting
    /\ C!Join(t)
    /\ UNCHANGED <<raw_count, owner, tasks, pc>>

WaitRelease(t) ==
    /\ pc[t] = "w_join" /\ t \in waiting
    /\ M!Release(t)
    /\ Goto(t, "w_sleep")
    /\ UNCHANGED <<raw_count, cond, tasks>>

WaitWake(t) ==
    /\ pc[t] = "w_sleep"
    /\ C!Take(t)
    /\ Goto(t, "w_relock")
    /\ UNCHANGED <<raw_count, owner, tasks>>

WaitReturn(t) ==
    /\ pc[t] = "w_unlock"
    /\ M!Release(t)
    /\ Goto(t, "out")
    /\ UNCHANGED <<raw_count, cond, tasks>>

-----------------------------------------------------------------------------

WaitStep ==
    \/ WaitLock(Main) \/ WaitLoad(Main) \/ WaitJoin(Main) \/ WaitRelease(Main)
    \/ WaitWake(Main) \/ WaitReturn(Main)

WorkerStep(w) ==
    \/ TakeTask(w) \/ HandOut(w) \/ Finish(w)
    \/ FinishLock(w) \/ FinishUnlock(w) \/ FinishSignal(w)

Next ==
    \/ \E n \in 1..MaxTasks, t \in Threads : Add(t, n)
    \/ HandOut(Main) \/ Wait(Main) \/ WaitStep
    \/ \E w \in Workers : WorkerStep(w)

Spec == Init /\ [][Next]_vars

\* A thread that can step does, and a mutex that is free again and again is
\* not denied to the same thread for ever.  Main need not hand out anything.
FairSpec ==
    /\ Spec
    /\ WF_vars(WaitStep) /\ SF_vars(WaitLock(Main))
    /\ \A w \in Workers : WF_vars(WorkerStep(w)) /\ SF_vars(FinishLock(w))

-----------------------------------------------------------------------------
(* Properties.                                                             *)

\* Every variable has its type.
TypeOK ==
    /\ raw_count \in 0..MaxTasks
    /\ owner \in Threads \cup {NoThread}
    /\ waiting \subseteq Threads /\ reserved \in Nat
    /\ todo \in Nat /\ handed \in 0..MaxTasks
    /\ batch \in [Threads -> Nat]
    /\ pc \in [Threads -> PCs]

\* The workers inside a task, which may itself be handing out tasks.
Running == {w \in Workers : pc[w] \in {"run", "add"}}

\* The tasks that are counted and about to be handed out, one by one.
Handing == {x \in Threads \X (1..MaxTasks) : x[2] <= batch[x[1]]}

\* The group is never ahead of or behind the tasks it stands for: those no
\* worker has taken, those that run, and those already counted that are about
\* to be handed out.  In particular the fetch_sub of finish() never wraps.
CountIsExact ==
    raw_count = todo + Cardinality(Running) + Cardinality(Handing)

\* wait() is a barrier: once it has read 0, no task handed out before it is
\* left, although a worker may still be in the tail of finish().
WaitIsBarrier ==
    pc[Main] = "w_unlock" =>
        todo = 0 /\ Running = {}

\* A thread between reading a non-zero count and registering with the
\* condition cannot miss the last signal: while it sleeps on a count of 0, a
\* wake-up is posted or a worker is on its way to post one.
NoMissedSignal ==
    (pc[Main] \in {"w_join", "w_sleep"} /\ raw_count = 0) =>
        \/ reserved > 0
        \/ \E w \in Workers : pc[w] \in {"f_lock", "f_unlock", "f_signal"}

\* Every call of wait() returns, when the tasks do.
WaitReturns == pc[Main] = "w_lock" ~> pc[Main] = "out"

=============================================================================
