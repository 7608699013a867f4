----------------------------- MODULE ThreadPool -----------------------------
(***************************************************************************)
(* bun_threading::ThreadPool (src/src/threading/ThreadPool.rs): the work   *)
(* stealing pool under the bundler, the transpiler, `bun install` and      *)
(* node:fs.  One thread, Main, schedules tasks, waits for them, and drops  *)
(* the pool; a running task may schedule further tasks.                    *)
(*                                                                         *)
(* One action per atomic operation on the words threads race on: `sync`,   *)
(* the state of the idle event, its futex, and the queues.  A queue or a   *)
(* buffer is the set of tasks in it, as modules RunQueue and RunBuffer show *)
(* them to be: the order among them is not promised.                       *)
(* A compare_exchange loop is one step at the value it succeeds on.        *)
(***************************************************************************)
EXTENDS Integers, Sequences, FiniteSets, FiniteSetsExt

CONSTANTS
    Workers,     \* the threads the pool may spawn; max_threads of them
    Main,        \* the thread that owns the pool
    NoThread,    \* a null *mut Thread
    Tasks,       \* the tasks of one behaviour
    NoTask,      \* a null *mut Task
    Capacity,    \* bound: node::CAPACITY, 256 in the code
    SpawnFails   \* TRUE: the operating system may refuse to create a thread

ASSUME WorkersAssumption == IsFiniteSet(Workers) /\ Workers # {}
ASSUME MainAssumption == Main \notin Workers /\ NoThread \notin Workers
ASSUME TasksAssumption == IsFiniteSet(Tasks) /\ NoTask \notin Tasks
ASSUME CapacityAssumption == Capacity \in Nat /\ Capacity >= 2
ASSUME FlagsAssumption == SpawnFails \in BOOLEAN

max_threads == Cardinality(Workers)
Threads == Workers \cup {Main}

\* The run queues: one per worker, and the pool's, which is named after Main.
Queues == Threads

VARIABLES
    sync,       \* the Sync word: [idle, spawned, notified, state]
    event,      \* idle_event.state
    threads,    \* the stack of registered workers, newest first
    join_event, \* the pool's join_event holds a token
    run_queue,  \* run_queue[q]: the tasks in a node::Queue
    consuming,  \* consuming[q]: its IS_CONSUMING bit
    run_buffer, \* run_buffer[w]: the tasks in a worker's node::Buffer
    idle_queue, \* the workers with a task in their idle_queue
    count,      \* wait_group
    fresh,      \* tasks that nobody has scheduled yet
    ran,        \* tasks whose callback has returned
    pc,         \* where each thread is
    loc         \* the locals of each thread

queues == <<run_queue, consuming, run_buffer>>
vars == <<sync, event, threads, join_event, queues, idle_queue, count, fresh,
          ran, pc, loc>>

\* The locals a thread starts with, and has again when a call is over.
NoLocals == [is_waking |-> FALSE,  \* run(), wait(), notify(): the waking token
             is_idle |-> FALSE,    \* wait(): counted in sync.idle
             acquire |-> "EMPTY",  \* Event::wait(): acquire_with
             hold |-> {},          \* consume(): tasks taken from the queue
             from |-> Main,        \* consume(): the queue; steal(): the victim
             visits |-> 0,         \* pop(): num_threads
             target |-> NoThread,  \* Thread.target
             task |-> NoTask,      \* the task that pop() returned
             pushed |-> FALSE,     \* Stole.pushed
             ret |-> "main",       \* where notify() returns to
             joined |-> FALSE]     \* the worker's own join_event holds a token

Goto(x, l) == pc' = [pc EXCEPT ![x] = l]

Init ==
    /\ sync = [idle |-> 0, spawned |-> 0, notified |-> FALSE, state |-> "Pending"]
    /\ event = "EMPTY"
    /\ threads = <<>>
    /\ join_event = FALSE
    /\ run_queue = [q \in Queues |-> {}]
    /\ consuming = [q \in Queues |-> FALSE]
    /\ run_buffer = [w \in Workers |-> {}]
    /\ idle_queue = {}
    /\ count = 0
    /\ fresh = Tasks /\ ran = {}
    /\ pc = [x \in Threads |-> IF x = Main THEN "main" ELSE "unborn"]
    /\ loc = [x \in Threads |-> NoLocals]

-----------------------------------------------------------------------------
(* notify(): called after a push, and by a waking worker that found work.  *)

\* The fast path: the RMW of sync that only reads it.
NotifyFast(x) ==
    /\ pc[x] = "n_fast"
    /\ Goto(x, IF sync.notified THEN loc[x].ret ELSE "n_slow")
    /\ UNCHANGED <<sync, event, threads, join_event, queues, idle_queue, count,
                   fresh, ran, loc>>

\* Mutant: a second worker is signaled while the first is still waking up.
CanAlwaysWake(x) == sync.state # "Signaled"

\* Only one worker at a time may be on its way to become the waking thread.
CanWake(x) == loc[x].is_waking \/ sync.state = "Pending"

\* notify_slow(): wake an idle worker, or spawn one, or only leave a note.
NotifySlow(x) ==
    /\ pc[x] = "n_slow"
    /\ LET wake  == CanWake(x) /\ sync.idle > 0
           spawn == CanWake(x) /\ sync.idle = 0 /\ sync.spawned < max_threads
           noted == [sync EXCEPT !.notified = TRUE]
       IN \/ /\ sync.state = "Shutdown"
             /\ Goto(x, loc[x].ret)
             /\ UNCHANGED sync
          \/ /\ sync.state # "Shutdown" /\ wake
             /\ sync' = [noted EXCEPT !.state = "Signaled"]
             /\ Goto(x, "n_event")
          \/ /\ sync.state # "Shutdown" /\ spawn
             /\ sync' = [noted EXCEPT !.state = "Signaled", !.spawned = @ + 1]
             /\ Goto(x, "n_spawn")
          \/ /\ sync.state # "Shutdown" /\ ~wake /\ ~spawn
             /\ sync' = IF loc[x].is_waking
                        THEN [noted EXCEPT !.state = "Pending"]
                        ELSE noted
             /\ Goto(x, loc[x].ret)
    /\ loc' = [loc EXCEPT ![x].is_waking = FALSE]
    /\ UNCHANGED <<event, threads, join_event, queues, idle_queue, count, fresh,
                   ran>>

\* Mutant: the notification is stored and nobody is woken for it.
NotifyEventSilently(x) ==
    /\ pc[x] = "n_event"
    /\ event' = "NOTIFIED"
    /\ Goto(x, loc[x].ret)
    /\ UNCHANGED <<sync, threads, join_event, queues, idle_queue, count, fresh,
                   ran, loc>>

\* Event::notify(): swap in NOTIFIED, then wake one sleeper if some may sleep.
NotifyEvent(x) ==
    /\ pc[x] = "n_event"
    /\ event' = "NOTIFIED"
    /\ Goto(x, IF event = "WAITING" THEN "n_futex" ELSE loc[x].ret)
    /\ UNCHANGED <<sync, threads, join_event, queues, idle_queue, count, fresh,
                   ran, loc>>

\* What a worker does when it wakes up in Event::wait().
Awaken(W) == loc' = [x \in Threads |->
                       IF x \in W THEN [loc[x] EXCEPT !.acquire = "WAITING"]
                       ELSE loc[x]]

Parked == {w \in Workers : pc[w] = "parked"}

NotifyFutex(x) ==
    /\ pc[x] = "n_futex"
    /\ \/ \E w \in Parked :
            /\ pc' = [pc EXCEPT ![x] = loc[x].ret, ![w] = "event"]
            /\ Awaken({w})
       \/ Parked = {} /\ Goto(x, loc[x].ret) /\ UNCHANGED loc
    /\ UNCHANGED <<sync, event, threads, join_event, queues, idle_queue, count,
                   fresh, ran>>

\* std::thread::Builder::spawn, of notify_slow() and of warm().  Threads that
\* do not exist yet are alike, so that it does not matter which one is next.
Spawn(x) ==
    /\ pc[x] = "n_spawn"
    /\ LET w == CHOOSE w \in Workers : pc[w] = "unborn"
       IN  pc' = [pc EXCEPT ![x] = loc[x].ret, ![w] = "register"]
    /\ UNCHANGED <<sync, event, threads, join_event, queues, idle_queue, count,
                   fresh, ran, loc>>

\* unregister(null): the thread could not be created.
SpawnFailed(x) ==
    /\ SpawnFails
    /\ pc[x] = "n_spawn"
    /\ sync' = [sync EXCEPT !.spawned = @ - 1]
    /\ join_event' = (join_event \/ (sync.state = "Shutdown" /\ sync.spawned = 1))
    /\ Goto(x, loc[x].ret)
    /\ UNCHANGED <<event, threads, queues, idle_queue, count, fresh, ran, loc>>

Notify(x) ==
    \/ NotifyFast(x) \/ NotifySlow(x) \/ NotifyEvent(x) \/ NotifyFutex(x)
    \/ Spawn(x) \/ SpawnFailed(x)

-----------------------------------------------------------------------------
(* A worker: Thread::run(), ThreadPool::wait().                            *)

Register(w) ==
    /\ pc[w] = "register"
    /\ threads' = <<w>> \o threads
    /\ Goto(w, "wait")
    /\ UNCHANGED <<sync, event, join_event, queues, idle_queue, count, fresh,
                   ran, loc>>

\* Mutant: a worker that sees Shutdown leaves its idle tasks behind.
WaitShutdownAtOnce(w) ==
    /\ pc[w] = "wait" /\ sync.state = "Shutdown"
    /\ loc' = [loc EXCEPT ![w] = NoLocals]
    /\ Goto(w, "unregister")
    /\ UNCHANGED <<sync, event, threads, join_event, queues, idle_queue, count,
                   fresh, ran>>

\* wait() sees Shutdown: run() drains the idle queue and returns.
WaitShutdown(w) ==
    /\ pc[w] = "wait" /\ sync.state = "Shutdown"
    /\ idle_queue' = idle_queue \ {w}
    /\ loc' = [loc EXCEPT ![w] = NoLocals]
    /\ Goto(w, "unregister")
    /\ UNCHANGED <<sync, event, threads, join_event, queues, count, fresh, ran>>

\* Mutant: a worker is never counted out.
UncountForgotten(w) == sync.idle

\* A worker that wait() has counted as idle is counted out again.
UncountIdle(w) == IF loc[w].is_idle THEN sync.idle - 1 ELSE sync.idle

\* wait() consumes a notification; after a signal the worker has the token.
WaitNotified(w) ==
    /\ pc[w] = "wait" /\ sync.state # "Shutdown" /\ sync.notified
    /\ sync' = [sync EXCEPT !.notified = FALSE,
                            !.idle = UncountIdle(w),
                            !.state = IF @ = "Signaled" THEN "Waking" ELSE @]
    /\ loc' = [loc EXCEPT ![w].is_waking = @ \/ sync.state = "Signaled",
                          ![w].is_idle = FALSE]
    /\ Goto(w, "pop")
    /\ UNCHANGED <<event, threads, join_event, queues, idle_queue, count, fresh,
                   ran>>

\* Mutant: a waking worker goes idle and does not give up the token's state.
WaitIdleStillWaking(w) ==
    /\ pc[w] = "wait" /\ sync.state # "Shutdown"
    /\ ~sync.notified /\ ~loc[w].is_idle
    /\ sync' = [sync EXCEPT !.idle = @ + 1]
    /\ loc' = [loc EXCEPT ![w].is_waking = FALSE, ![w].is_idle = TRUE]
    /\ UNCHANGED <<event, threads, join_event, queues, idle_queue, count, fresh,
                   ran, pc>>

\* wait() becomes idle and gives up the waking token.
WaitIdle(w) ==
    /\ pc[w] = "wait" /\ sync.state # "Shutdown"
    /\ ~sync.notified /\ ~loc[w].is_idle
    /\ sync' = [sync EXCEPT !.idle = @ + 1,
                            !.state = IF loc[w].is_waking THEN "Pending" ELSE @]
    /\ loc' = [loc EXCEPT ![w].is_waking = FALSE, ![w].is_idle = TRUE]
    /\ UNCHANGED <<event, threads, join_event, queues, idle_queue, count, fresh,
                   ran, pc>>

\* Nothing to do: drain the idle queue and call idle_event.wait().
WaitEvent(w) ==
    /\ pc[w] = "wait" /\ sync.state # "Shutdown"
    /\ ~sync.notified /\ loc[w].is_idle
    /\ idle_queue' = idle_queue \ {w}
    /\ Goto(w, "event")
    /\ UNCHANGED <<sync, event, threads, join_event, queues, count, fresh, ran,
                   loc>>

\* Event::wait(): leave, consume the notification, or announce a sleeper.
EventWait(w) ==
    /\ pc[w] = "event"
    /\ \/ /\ event = "SHUTDOWN"
          /\ Goto(w, "wait")
          /\ loc' = [loc EXCEPT ![w].acquire = "EMPTY"]
          /\ UNCHANGED event
       \/ /\ event = "NOTIFIED"
          /\ event' = loc[w].acquire
          /\ loc' = [loc EXCEPT ![w].acquire = "EMPTY"]
          /\ Goto(w, "wait")
       \/ /\ event \in {"EMPTY", "WAITING"}
          /\ event' = "WAITING"
          /\ Goto(w, "futex")
          /\ UNCHANGED loc
    /\ UNCHANGED <<sync, threads, join_event, queues, idle_queue, count, fresh,
                   ran>>

\* The kernel compares and parks in one step.
EventFutex(w) ==
    /\ pc[w] = "futex"
    /\ \/ event = "WAITING" /\ Goto(w, "parked") /\ UNCHANGED loc
       \/ event # "WAITING" /\ Goto(w, "event") /\ Awaken({w})
    /\ UNCHANGED <<sync, event, threads, join_event, queues, idle_queue, count,
                   fresh, ran>>

\* EINTR, or the one timeout after which a worker gives memory back.
EventTimeout(w) ==
    /\ pc[w] = "parked"
    /\ Goto(w, "event") /\ Awaken({w})
    /\ UNCHANGED <<sync, event, threads, join_event, queues, idle_queue, count,
                   fresh, ran>>

-----------------------------------------------------------------------------
(* Thread::pop(): own buffer, own queue, global queue, then stealing.      *)

PopBuffer(w) ==
    /\ pc[w] = "pop"
    /\ \/ \E t \in run_buffer[w] :
            /\ run_buffer' = [run_buffer EXCEPT ![w] = @ \ {t}]
            /\ loc' = [loc EXCEPT ![w].task = t, ![w].pushed = FALSE]
            /\ Goto(w, "got")
       \/ run_buffer[w] = {} /\ Goto(w, "own") /\ UNCHANGED <<run_buffer, loc>>
    /\ UNCHANGED <<sync, event, threads, join_event, run_queue, consuming,
                   idle_queue, count, fresh, ran>>

\* Buffer::consume(): become the queue's consumer and pop up to Capacity + 1.
Grab(w, q) ==
    /\ ~consuming[q] /\ run_queue[q] # {}
    /\ \E S \in SUBSET run_queue[q] :
         /\ Cardinality(S) = Min({Cardinality(run_queue[q]), Capacity + 1})
         /\ run_queue' = [run_queue EXCEPT ![q] = @ \ S]
         /\ loc' = [loc EXCEPT ![w].hold = S, ![w].from = q]
    /\ consuming' = [consuming EXCEPT ![q] = TRUE]
    /\ Goto(w, "fill")
    /\ UNCHANGED run_buffer

\* try_acquire_consumer() fails: Empty or Contended.
CannotGrab(q) == consuming[q] \/ run_queue[q] = {}

\* One consume() in pop(), of queue q at l; the next place to look is next.
PopQueue(w, l, q, next) ==
    /\ pc[w] = l
    /\ \/ Grab(w, q)
       \/ CannotGrab(q) /\ Goto(w, next) /\ UNCHANGED <<queues, loc>>
    /\ UNCHANGED <<sync, event, threads, join_event, idle_queue, count, fresh,
                   ran>>

PopOwn(w) == PopQueue(w, "own", w, "global")
PopGlobal(w) == PopQueue(w, "global", Main, "count")

\* The end of consume(): publish the buffer, keep one task, let the queue go.
Fill(w) ==
    /\ pc[w] = "fill"
    /\ \E t \in loc[w].hold :
         /\ run_buffer' = [run_buffer EXCEPT ![w] = loc[w].hold \ {t}]
         /\ loc' = [loc EXCEPT ![w].task = t, ![w].hold = {},
                               ![w].from = Main, ![w].visits = 0,
                               ![w].pushed = loc[w].hold # {t}]
    /\ consuming' = [consuming EXCEPT ![loc[w].from] = FALSE]
    /\ Goto(w, "got")
    /\ UNCHANGED <<sync, event, threads, join_event, run_queue, idle_queue,
                   count, fresh, ran>>

PopCount(w) ==
    /\ pc[w] = "count"
    /\ loc' = [loc EXCEPT ![w].visits = sync.spawned]
    /\ Goto(w, "visit")
    /\ UNCHANGED <<sync, event, threads, join_event, queues, idle_queue, count,
                   fresh, ran>>

\* The thread a registered thread's `next` points to.
NextOf(t) ==
    LET i == CHOOSE i \in DOMAIN threads : threads[i] = t
    IN  IF i = Len(threads) THEN NoThread ELSE threads[i + 1]

\* One turn of the stealing loop: the victim's queue first, then its buffer.
Visit(w) ==
    /\ pc[w] = "visit" /\ loc[w].visits > 0
    /\ LET t == IF loc[w].target = NoThread THEN Head(threads) ELSE loc[w].target
           moved == [loc EXCEPT ![w].target = NextOf(t)]
       IN \/ /\ ~consuming[t] /\ run_queue[t] # {}
             /\ \E S \in SUBSET run_queue[t] :
                  /\ Cardinality(S) = Min({Cardinality(run_queue[t]), Capacity + 1})
                  /\ run_queue' = [run_queue EXCEPT ![t] = @ \ S]
                  /\ loc' = [moved EXCEPT ![w].hold = S, ![w].from = t]
             /\ consuming' = [consuming EXCEPT ![t] = TRUE]
             /\ Goto(w, "fill")
          \/ /\ CannotGrab(t) /\ t = w
             /\ loc' = [moved EXCEPT ![w].visits = @ - 1]
             /\ UNCHANGED <<run_queue, consuming, pc>>
          \/ /\ CannotGrab(t) /\ t # w
             /\ loc' = [moved EXCEPT ![w].from = t]
             /\ Goto(w, "steal")
             /\ UNCHANGED <<run_queue, consuming>>
    /\ UNCHANGED <<sync, event, threads, join_event, run_buffer, idle_queue,
                   count, fresh, ran>>

\* Mutant: the thief copies tasks and leaves them in the victim's buffer.
StealCopy(w) ==
    /\ pc[w] = "steal"
    /\ \E t \in run_buffer[loc[w].from] :
         loc' = [loc EXCEPT ![w].task = t, ![w].visits = 0, ![w].from = Main]
    /\ Goto(w, "got")
    /\ UNCHANGED <<sync, event, threads, join_event, queues, idle_queue, count,
                   fresh, ran>>

\* Buffer::steal(): half of the victim's buffer, rounded up, or less when the
\* buffer has grown since the thief loaded its tail (module RunBuffer).
Steal(w) ==
    /\ pc[w] = "steal"
    /\ LET v == loc[w].from
           n == Cardinality(run_buffer[v])
       IN \/ /\ n = 0
             /\ loc' = [loc EXCEPT ![w].visits = @ - 1, ![w].from = Main]
             /\ Goto(w, "visit")
             /\ UNCHANGED run_buffer
          \/ \E S \in SUBSET run_buffer[v] : \E t \in S :
             /\ Cardinality(S) <= n - n \div 2
             /\ run_buffer' = [run_buffer EXCEPT ![v] = @ \ S, ![w] = S \ {t}]
             /\ loc' = [loc EXCEPT ![w].task = t, ![w].pushed = S # {t},
                                   ![w].visits = 0, ![w].from = Main]
             /\ Goto(w, "got")
    /\ UNCHANGED <<sync, event, threads, join_event, run_queue, consuming,
                   idle_queue, count, fresh, ran>>

\* pop() found nothing: run() drains the idle queue and waits again.
PopNone(w) ==
    /\ pc[w] = "visit" /\ loc[w].visits = 0
    /\ idle_queue' = idle_queue \ {w}
    /\ Goto(w, "wait")
    /\ UNCHANGED <<sync, event, threads, join_event, queues, count, fresh, ran,
                   loc>>

\* pop() found a task: notify() first if there may be more for others.
Got(w) ==
    /\ pc[w] = "got"
    /\ loc' = [loc EXCEPT ![w].ret = "run", ![w].pushed = FALSE]
    /\ Goto(w, IF loc[w].is_waking THEN "n_slow"
               ELSE IF loc[w].pushed THEN "n_fast" ELSE "run")
    /\ UNCHANGED <<sync, event, threads, join_event, queues, idle_queue, count,
                   fresh, ran>>

-----------------------------------------------------------------------------
(* Scheduling.                                                             *)

\* schedule(): count the tasks, push them onto the pool's queue, notify.  Counting
\* and pushing are one step: nobody can see the count between them but a wait
\* for zero, and Main, who waits, is here, or the task that runs here is counted.
Schedule(x, batch) ==
    /\ pc[x] = IF x = Main THEN "main" ELSE "run"
    /\ batch # {} /\ batch \subseteq fresh
    /\ fresh' = fresh \ batch
    /\ count' = count + Cardinality(batch)
    /\ run_queue' = [run_queue EXCEPT ![Main] = @ \cup batch]
    /\ loc' = [loc EXCEPT ![x].ret = pc[x]]
    /\ Goto(x, "n_fast")
    /\ UNCHANGED <<sync, event, threads, join_event, consuming, run_buffer,
                   idle_queue, ran>>

\* schedule_inside_thread_pool() of one task: into the worker's buffer; half of
\* a full buffer overflows with it into the worker's queue.
ScheduleInside(w, t) ==
    /\ pc[w] = "run"
    /\ t \in fresh
    /\ fresh' = fresh \ {t}
    /\ count' = count + 1
    /\ \/ /\ Cardinality(run_buffer[w]) < Capacity
          /\ run_buffer' = [run_buffer EXCEPT ![w] = @ \cup {t}]
          /\ UNCHANGED run_queue
       \/ /\ Cardinality(run_buffer[w]) = Capacity
          /\ \E S \in SUBSET run_buffer[w] :
               /\ Cardinality(S) = Capacity \div 2
               /\ run_buffer' = [run_buffer EXCEPT ![w] = @ \ S]
               /\ run_queue' = [run_queue EXCEPT ![w] = @ \cup S \cup {t}]
    /\ loc' = [loc EXCEPT ![w].ret = "run"]
    /\ Goto(w, "n_fast")
    /\ UNCHANGED <<sync, event, threads, join_event, consuming, idle_queue, ran>>

\* The callback returns and wait_group.finish() is called.
Finish(w) ==
    /\ pc[w] = "run"
    /\ ran' = ran \cup {loc[w].task}
    /\ count' = count - 1
    /\ loc' = [loc EXCEPT ![w].task = NoTask, ![w].ret = "main"]
    /\ Goto(w, "pop")
    /\ UNCHANGED <<sync, event, threads, join_event, queues, idle_queue, fresh>>

\* warm(): spawn a worker ahead of time.
Warm ==
    /\ pc[Main] = "main"
    /\ sync.spawned < max_threads
    /\ sync' = [sync EXCEPT !.spawned = @ + 1]
    /\ loc' = [loc EXCEPT ![Main].ret = "main"]
    /\ Goto(Main, "n_spawn")
    /\ UNCHANGED <<event, threads, join_event, queues, idle_queue, count, fresh,
                   ran>>

-----------------------------------------------------------------------------
(* Dropping the pool: idle tasks, shutdown(), join().                      *)

\* The owner drops the pool only after wait_for_all().
MayDrop == pc[Main] = "main" /\ count = 0

\* push_idle_task() for some registered workers, before wake_for_idle_events().
PushIdle(W) ==
    /\ MayDrop
    /\ W # {}
    /\ idle_queue' = W
    /\ Goto(Main, "i_event")
    /\ UNCHANGED <<sync, event, threads, join_event, queues, count, fresh, ran,
                   loc>>

\* Event::wake(release_with, u32::MAX), whose futex wake is unconditional.
WakeAll(l, release_with, next) ==
    /\ pc[Main] = l
    /\ event' = release_with
    /\ Goto(Main, next)
    /\ UNCHANGED <<sync, threads, join_event, queues, idle_queue, count, fresh,
                   ran, loc>>

FutexAll(l, next) ==
    /\ pc[Main] = l
    /\ pc' = [x \in Threads |-> IF x = Main THEN next
                                ELSE IF x \in Parked THEN "event" ELSE pc[x]]
    /\ Awaken(Parked)
    /\ UNCHANGED <<sync, event, threads, join_event, queues, idle_queue, count,
                   fresh, ran>>

WakeForIdleEvents == WakeAll("i_event", "NOTIFIED", "i_futex")
WakeForIdleFutex == FutexAll("i_futex", "shutdown")

\* The drop begins: nobody else can reach the pool any more.
BeginDrop ==
    /\ MayDrop
    /\ Goto(Main, "shutdown")
    /\ UNCHANGED <<sync, event, threads, join_event, queues, idle_queue, count,
                   fresh, ran, loc>>

Shutdown ==
    /\ pc[Main] = "shutdown"
    /\ sync' = [sync EXCEPT !.notified = TRUE, !.state = "Shutdown", !.idle = 0]
    /\ Goto(Main, IF sync.idle > 0 THEN "s_event" ELSE "join")
    /\ UNCHANGED <<event, threads, join_event, queues, idle_queue, count, fresh,
                   ran, loc>>

ShutdownEvent == WakeAll("s_event", "SHUTDOWN", "s_futex")
ShutdownFutex == FutexAll("s_futex", "join")

\* Mutant: fetch_sub is taken to return the new count.
UnregisterOffByOne(w) ==
    /\ pc[w] = "unregister"
    /\ sync' = [sync EXCEPT !.spawned = @ - 1]
    /\ Goto(w, IF sync.state = "Shutdown" /\ sync.spawned = 0
               THEN "u_notify" ELSE "u_wait")
    /\ UNCHANGED <<event, threads, join_event, queues, idle_queue, count, fresh,
                   ran, loc>>

\* unregister(): leave the count of spawned workers ...
Unregister(w) ==
    /\ pc[w] = "unregister"
    /\ sync' = [sync EXCEPT !.spawned = @ - 1]
    /\ Goto(w, IF sync.state = "Shutdown" /\ sync.spawned = 1
               THEN "u_notify" ELSE "u_wait")
    /\ UNCHANGED <<event, threads, join_event, queues, idle_queue, count, fresh,
                   ran, loc>>

\* ... the last one notifies the joiner ...
UnregisterNotify(w) ==
    /\ pc[w] = "u_notify"
    /\ join_event' = TRUE
    /\ Goto(w, "u_wait")
    /\ UNCHANGED <<sync, event, threads, queues, idle_queue, count, fresh, ran,
                   loc>>

\* ... and each waits for its own join_event and passes it on along `next`.
UnregisterWait(w) ==
    /\ pc[w] = "u_wait" /\ loc[w].joined
    /\ loc' = [x \in Threads |-> IF x = NextOf(w)
                                 THEN [loc[x] EXCEPT !.joined = TRUE] ELSE loc[x]]
    /\ Goto(w, "dead")
    /\ UNCHANGED <<sync, event, threads, join_event, queues, idle_queue, count,
                   fresh, ran>>

\* Mutant: join() does not wait for workers that are still leaving.
JoinAtOnce ==
    /\ pc[Main] = "join"
    /\ Goto(Main, IF sync.state = "Shutdown" THEN "j_chain" ELSE "j_wait")
    /\ UNCHANGED <<sync, event, threads, join_event, queues, idle_queue, count,
                   fresh, ran, loc>>

\* join(): no need to wait when every worker has left already.
Join ==
    /\ pc[Main] = "join"
    /\ Goto(Main, IF sync.state = "Shutdown" /\ sync.spawned = 0
                  THEN "j_chain" ELSE "j_wait")
    /\ UNCHANGED <<sync, event, threads, join_event, queues, idle_queue, count,
                   fresh, ran, loc>>

JoinWait ==
    /\ pc[Main] = "j_wait" /\ join_event
    /\ join_event' = FALSE
    /\ Goto(Main, "j_chain")
    /\ UNCHANGED <<sync, event, threads, queues, idle_queue, count, fresh, ran,
                   loc>>

\* Start the chain of join events; the pool is freed when join() returns.  The
\* stack's head is swapped to null, which nobody is left to read; the links
\* from worker to worker stay, and threads stands for them from here on.
JoinChain ==
    /\ pc[Main] = "j_chain"
    /\ loc' = [x \in Threads |-> IF threads # <<>> /\ x = Head(threads)
                                 THEN [loc[x] EXCEPT !.joined = TRUE] ELSE loc[x]]
    /\ Goto(Main, "gone")
    /\ UNCHANGED <<sync, event, threads, join_event, queues, idle_queue, count,
                   fresh, ran>>

-----------------------------------------------------------------------------

WorkerStep(w) ==
    \/ Notify(w) \/ Register(w)
    \/ WaitShutdown(w) \/ WaitNotified(w) \/ WaitIdle(w) \/ WaitEvent(w)
    \/ EventWait(w) \/ EventFutex(w)
    \/ PopBuffer(w) \/ PopOwn(w) \/ PopGlobal(w) \/ Fill(w) \/ PopCount(w)
    \/ Visit(w) \/ Steal(w) \/ PopNone(w) \/ Got(w) \/ Finish(w)
    \/ Unregister(w) \/ UnregisterNotify(w) \/ UnregisterWait(w)

MainStep ==
    \/ Notify(Main) \/ WakeForIdleEvents \/ WakeForIdleFutex
    \/ Shutdown \/ ShutdownEvent \/ ShutdownFutex
    \/ Join \/ JoinWait \/ JoinChain

\* What the program may do, but need not.
Request ==
    \/ \E x \in Threads, batch \in SUBSET Tasks : Schedule(x, batch)
    \/ \E w \in Workers, t \in Tasks : ScheduleInside(w, t)
    \/ Warm \/ BeginDrop
    \/ \E W \in SUBSET {threads[i] : i \in DOMAIN threads} : PushIdle(W)

Next ==
    \/ MainStep \/ Request
    \/ \E w \in Workers : WorkerStep(w) \/ EventTimeout(w)

Spec == Init /\ [][Next]_vars

\* Every thread that can step does, tasks return, and the kernel creates the
\* threads it is asked for unless it refuses; nothing wakes a sleeper by itself.
FairSpec == Spec /\ WF_vars(MainStep) /\ \A w \in Workers : WF_vars(WorkerStep(w))

-----------------------------------------------------------------------------
(* Properties.                                                             *)

Locals == [is_waking : BOOLEAN, is_idle : BOOLEAN,
           acquire : {"EMPTY", "WAITING"}, hold : SUBSET Tasks,
           from : Queues, visits : 0..max_threads,
           target : Workers \cup {NoThread}, task : Tasks \cup {NoTask},
           pushed : BOOLEAN, ret : {"main", "run"}, joined : BOOLEAN]

Labels ==
    {"main", "i_event", "i_futex", "shutdown", "s_event", "s_futex", "join",
     "j_wait", "j_chain", "gone",
     "unborn", "register", "wait", "event", "futex", "parked",
     "pop", "own", "global", "fill", "count", "visit", "steal", "got", "run",
     "unregister", "u_notify", "u_wait", "dead",
     "n_fast", "n_slow", "n_event", "n_futex", "n_spawn"}

\* Every variable keeps its type; Event::SHUTDOWN is a value of idle_event only.
TypeOK ==
    /\ sync \in [idle : 0..max_threads, spawned : 0..max_threads,
                 notified : BOOLEAN,
                 state : {"Pending", "Signaled", "Waking", "Shutdown"}]
    /\ event \in {"EMPTY", "WAITING", "NOTIFIED", "SHUTDOWN"}
    /\ \A i \in DOMAIN threads : threads[i] \in Workers
    /\ join_event \in BOOLEAN
    /\ run_queue \in [Queues -> SUBSET Tasks]
    /\ consuming \in [Queues -> BOOLEAN]
    /\ run_buffer \in [Workers -> SUBSET Tasks]
    /\ idle_queue \subseteq Workers
    /\ count \in 0..Cardinality(Tasks)
    /\ fresh \subseteq Tasks /\ ran \subseteq Tasks
    /\ pc \in [Threads -> Labels]
    /\ loc \in [Threads -> Locals]

\* The places a task can be in, each with the number of times it is there.
Places(t) ==
    (IF t \in fresh THEN 1 ELSE 0) + (IF t \in ran THEN 1 ELSE 0)
    + Cardinality({q \in Queues : t \in run_queue[q]})
    + Cardinality({w \in Workers : t \in run_buffer[w]})
    + Cardinality({w \in Workers : t \in loc[w].hold})
    + Cardinality({w \in Workers : t = loc[w].task})

Outstanding == Tasks \ (fresh \cup ran)

\* No step of pop(), consume(), steal() or an overflowing push() loses a task or
\* gives it to two workers, no buffer holds more than its capacity, and
\* wait_group counts exactly the tasks that are scheduled and not finished.
TasksConserved ==
    /\ \A t \in Tasks : Places(t) = 1
    /\ \A w \in Workers : Cardinality(run_buffer[w]) <= Capacity
    /\ count = Cardinality(Outstanding)

Awake == {w \in Workers : loc[w].is_waking}

\* "There is a waking thread among us": at most one worker has the token, and
\* while the pool runs it has one exactly in state Waking, so that neither
\* debug_assert of wait() and notify_slow() can fail.
OneWakingThread ==
    /\ Cardinality(Awake) <= 1
    /\ sync.state # "Shutdown" => (Awake # {} <=> sync.state = "Waking")
    /\ sync.state = "Signaled" => sync.notified

\* `spawned` counts the workers that have not left yet and the spawns under way,
\* and `idle` the workers wait() has counted in, until shutdown() clears it.
CountsAreExact ==
    /\ sync.spawned = Cardinality({w \in Workers :
                          pc[w] \notin {"unborn", "u_notify", "u_wait", "dead"}})
                      + Cardinality({x \in Threads : pc[x] = "n_spawn"})
    /\ sync.state # "Shutdown" =>
         sync.idle = Cardinality({w \in Workers : loc[w].is_idle})

\* A notify() is under way, and will wake or spawn a worker.
Notifying == \E x \in Threads :
    pc[x] \in {"n_fast", "n_slow", "n_event", "n_futex", "n_spawn"}

\* Worker w is going to look for tasks (again) before it sleeps.
Alert(w) ==
    \/ pc[w] \in {"register", "wait"} /\ sync.notified
    \/ pc[w] \in {"event", "futex"} /\ sync.notified
         /\ event \in {"NOTIFIED", "SHUTDOWN"}
    \/ pc[w] \in {"pop", "own", "global", "fill", "count", "visit", "steal",
                  "got", "run"}

\* The pool runs, and nobody is going to look for tasks unless one more is
\* scheduled.  A pool whose only spawn has failed is left out: it has no worker.
Unattended ==
    /\ sync.state # "Shutdown"
    /\ SpawnFails => sync.spawned > 0
    /\ ~Notifying
    /\ \A w \in Workers : ~Alert(w)

\* No task is "stranded" (notify()): when every worker sleeps and no notification
\* is under way, the pool's queue and the buffers are empty.  So are the queues
\* that buffers overflow into, in a pool of one or two workers.  In a larger one
\* the walk of pop() can miss a worker: it visits as many threads as `spawned`
\* counted when it began, and warm() may put a new one on the stack meanwhile.
NoStrandedTask ==
    Unattended =>
        /\ run_queue[Main] = {} /\ \A w \in Workers : run_buffer[w] = {}
        /\ max_threads <= 2 => \A w \in Workers : run_queue[w] = {}

\* The joiner frees the pool only when every worker has left it: a worker that
\* is still there is past the decrement of `spawned` in unregister().
JoinIsSafe ==
    pc[Main] \in {"j_chain", "gone"} =>
        \A w \in Workers : pc[w] \in {"unborn", "u_notify", "u_wait", "dead"}

\* A worker that has been given an idle task (the bundler's deinit_task) runs it
\* before its thread ends, however shutdown() races wake_for_idle_events().
IdleTasksRun ==
    \A w \in idle_queue :
        pc[w] \notin {"unregister", "u_notify", "u_wait", "dead"}

\* wait_for_all() returns: the tasks that are scheduled, and those they schedule,
\* are run in the end.
EveryTaskRuns == Outstanding # {} ~> Outstanding = {}

\* Dropping the pool comes to an end: join() returns, and by then or later every
\* worker that was ever registered has passed the join event on and exited.
JoinReturns ==
    pc[Main] = "shutdown" ~>
        /\ pc[Main] = "gone"
        /\ \A w \in Workers : pc[w] \in {"unborn", "dead"}

\* The text on unregister(): the pool is live until the notify wakes the joiner.
PoolOutlivesNotify == pc[Main] = "gone" => \A w \in Workers : pc[w] # "u_notify"

=============================================================================
