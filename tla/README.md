# Verification of Bun's threads, event loop and test coordinator

A TLA+ development kept beside the Rust source of Bun.  It models the parts of
the program in which many threads or processes meet:

* the locks, queues and the thread pool of `bun_threading` (`src/src/threading`)
  and the bundler thread built on them;
* the JavaScript event loop as other threads see it (`src/src/jsc/event_loop.rs`);
* the coordinator of `bun test --parallel` and its worker processes
  (`src/src/runtime/cli/test/parallel`).

The models are checked with TLC on small instances.  For the locks, the run queue
and the test coordinator the central safety properties are proved with TLAPS for
any number of threads, files, workers and faults.

Contents: [the system](#the-system) · [modules](#modules-and-code) ·
[what is checked](#what-the-runs-check) · [bounds](#bounds) ·
[fairness](#fairness) · [what is proved](#what-is-proved) ·
[findings](#findings) · [not modelled](#what-is-not-modelled) · [plan](#plan)

## The system

Bun is a JavaScript runtime, bundler, package manager and test runner.  Its
JavaScript runs on one thread per virtual machine; around that thread work many
others: the work-stealing pool (parsing, file system, `bun install`), the
bundler thread, the HTTP client thread, the file watcher, workers.  They hand
each other work through intrusive lock-free queues and wakers, and wait for each
other with locks that the repository implements itself on top of futexes.

| component | state it keeps | operations | met by |
|---|---|---|---|
| Mutex (`threading/Mutex.rs`) | word `state` (UNLOCKED, LOCKED, CONTENDED); in debug builds `locking_thread` | `lock`, `try_lock`, `unlock` | everything below |
| Futex (`threading/Futex.rs`) | the kernel's queue of sleepers | `wait`, `wait_forever`, `wake`, `Deadline::wait` | Mutex, Condition, pool events |
| Condition (`threading/Condition.rs`) | word of two 16-bit counters (waiters, signals), `epoch` | `wait`, `timed_wait`, `signal`, `broadcast` | WaitGroup, Semaphore, Channel |
| WaitGroup (`threading/WaitGroup.rs`) | `raw_count`, a mutex, a condition | `add`, `finish`, `wait` | ThreadPool, `bun install` |
| UnboundedQueue (`threading/unbounded_queue.rs`) | `back`, `front`, a link in each node | `push`, `push_batch`, `pop`, `pop_batch` | event loops, bundler thread, HTTP thread |
| Bundler thread (`bundler/BundleThread.rs`) | a queue, a waker (eventfd) | `spawn`, `enqueue`, `thread_main` | `Bun.build` |
| ThreadPool (`threading/ThreadPool.rs`) | word `sync` (idle, spawned, notified, state), idle event, stack of workers, a queue and a ring buffer per worker, a global queue, idle queues, a wait group | `schedule`, `schedule_inside_thread_pool`, `warm`, `wait_for_all`, `wake_for_idle_events`, drop (`shutdown`, `join`) | bundler, transpiler, install, node:fs |
| Semaphore, RwLock, ResetEvent, Channel (`threading/`) | counters over a mutex and conditions; a futex word | the usual ones | pool of wakers, caches |
| Event loop (`jsc/event_loop.rs`, `jsc/VirtualMachine.rs`, `runtime/cli/run_command.rs`) | `active` and `concurrent_ref` (references), `tasks`, `concurrent_tasks`, immediate tasks, the wakeup eventfd | `enqueue_task_concurrent`, `ref_concurrently`, `unref_concurrently`, `wakeup`, `tick`, `auto_tick_active`, `is_event_loop_alive`, `on_before_exit` | every asynchronous API |
| Test coordinator (`runtime/cli/test/parallel/`) | per worker a range of files, the file in flight, `alive`, `exit_status`, `ipc_done`; `live_workers`, `files_done`, `bailed`; a socket per process | `on_frame` (Ready, FileStart, FileDone, ...), `on_worker_exit`, `reap_worker`, `assign_work` with stealing, `maybe_scale_up`, bail and abort | `bun test --parallel` |
| Timers, watcher, HTTP client, SQL and Valkey clients, the inside of a test file | heaps, watch lists, connection pools, request queues | callbacks from the loop | JavaScript |
| Parsers, printer, resolver, linker, shell, package resolution | syntax trees and graphs | sequential passes | |

How the modelled components interact:

* *Shared words.* A Mutex, a Condition, the pool's `sync` and its idle event are
  atomic words that any thread may change between two steps of any other.
* *Blocking.* Every blocking call ends in a futex (or, for the bundler thread,
  in a read of an eventfd).  The kernel's comparison and the parking are one
  step; everything before and after can be overtaken.
* *Ownership.* A queue owns a node from the push to the pop that returns it.  A
  worker's `Thread` lives on its own stack and is reached by thieves through the
  pool's stack of workers; the pool may be freed once `join()` returns.
* *References.* A job that shall keep the program running holds a reference to
  the event loop, counted on the JavaScript thread or, from other threads, in
  `concurrent_ref`, which the loop folds into its own count when it next looks.
* *Messages.* The coordinator and a worker process exchange frames over a socket
  of limited size; the exit of the process is reported on another path, before
  or after its last frames.

What is hard, and what makes each component correct:

* **Mutex.** Sleepers are recorded only as a third value of the lock word.
  A woken thread does not know whether others sleep.  Correct: one holder, no
  sleeper forgotten, somebody gets in, no false alarm of the debug wrapper.
* **Condition.** Reservation of a signal, change of the epoch and futex wake are
  three steps; a waiter may time out between any two of them.  Correct: the
  packed counters never borrow, no signal without a waiter that will look for it.
* **WaitGroup.** The last `finish()` signals outside of the mutex.  Correct: the
  count is exact, `wait()` is a barrier and returns.
* **UnboundedQueue.** Between a push's swap of `back` and its store of the link
  the queue is cut in two; `pop` and `pop_batch` run into the cut.  Correct:
  every node once and in order, no write through a node that was handed out,
  nothing stranded.
* **Bundler thread.** The thread decides to sleep on a `front` that is null
  though a later push is complete.  Correct: it never sleeps on work for good.
* **ThreadPool.** At most one worker at a time is being woken; a notification
  can be a mere flag; workers consume, overflow, steal and go to sleep in any
  order; the drop races all of that and the freeing of the pool.  Correct: no
  task lost, run twice or stranded; counters exact; the drop ends and nobody
  touches the pool after it.

* **Event loop.** Two counts and two queues are changed by other threads while the
  loop decides whether to sleep and whether to end; a push under way hides the
  tasks behind it.  Correct: references are exact, the loop does not sleep on a
  change, what was waited for is run before the program ends, tasks run in order.
* **Test coordinator.** A process can die at any point, before or after its
  result is in the socket; files are stolen, processes replaced, replacements
  fail to start, and `--bail` or a panic stops the run in the middle.  Correct:
  every file one verdict and a true one, nobody waits for what is gone, the
  merged report is complete, the run ends.

`PROJECT.json` lists the hazards line by line with the properties for each.

## Modules and code

| module | models | built on |
|---|---|---|
| `LockSpec` | what Mutex promises: one owner, given when free, returned by its owner | |
| `Mutex` | `FutexImpl` and `DebugImpl` of `Mutex.rs`, `Futex.rs` as they use it | refines `LockSpec` |
| `MutexProofs` | theorems about `Mutex` | `Mutex` |
| `CondSpec` | what Condition promises: a set of waiters and a number of posted wake-ups | |
| `Condition` | `FutexImpl` of `Condition.rs` | lock of `LockSpec`; refines `CondSpec` |
| `ConditionProofs` | theorems about `Condition` | `Condition` |
| `WaitGroup` | `WaitGroup.rs` in the hands of a scheduler, as ThreadPool drives it | `LockSpec`, `CondSpec` |
| `WaitGroupProofs` | theorems about `WaitGroup` | `WaitGroup` |
| `UnboundedQueue` | `unbounded_queue.rs`, many producers, one consumer; its steps are checked in the runs of its two users, and its own `Spec`, where the consumer mixes `pop` and `pop_batch`, is what is proved about | |
| `BundleThread` | `BundleThread.rs` and the eventfd waker of `io/lib.rs` | composes `UnboundedQueue` step by step (`pop`) |
| `EventLoop` | `event_loop.rs`, `VirtualMachine.rs`, `CppTask.rs`, `WorkTask.rs`, the main loop of `run_command.rs`, epoll as `epoll_kqueue.c` drives it | composes `UnboundedQueue` step by step (`pop_batch`) |
| `EventLoopProofs` | theorems about `UnboundedQueue` by itself, then about `EventLoop` | `EventLoop` |
| `QueueSpec` | what a run queue promises: a set of tasks and at most one consumer | |
| `RunQueue` | `node::Queue` of `ThreadPool.rs`, step by step | refines `QueueSpec` |
| `RunQueueProofs` | theorems about `RunQueue` | `RunQueue` |
| `BufferSpec` | what a run buffer promises: a bounded set of tasks | |
| `RunBuffer` | `node::Buffer` of `ThreadPool.rs`, step by step | refines `BufferSpec` |
| `MCRunBuffer` | the symmetry of the thieves, for its run | `RunBuffer` |
| `RunBufferProofs` | theorems about `RunBuffer` | `RunBuffer` |
| `ThreadPool` | the pool, its workers and its threads (`ThreadPool.rs`) | queues and buffers as in `QueueSpec` and `BufferSpec` |
| `ThreadPoolProofs` | theorems about `ThreadPool` | `ThreadPool` |
| `MCThreadPool` | the symmetry of the tasks, for one run | `ThreadPool` |
| `TestRunSpec` | what a test run promises: a file is queued, running, then has a final verdict; when a run may finish | |
| `TestCoordinator` | `Coordinator.rs`, `Worker.rs`, `FileRange.rs`, `Channel.rs`, the worker's side in `runner.rs` | refines `TestRunSpec` |
| `TestCoordinatorProofs` | theorems about `TestCoordinator` | `TestCoordinator` |

The composition is by layers.  `Mutex` is shown to implement `LockSpec`, and
`Condition` and `WaitGroup` use `LockSpec` in its place; `Condition` is shown to
implement `CondSpec`, and `WaitGroup` uses that.  The wait group inside
ThreadPool is a plain counter there, which is what `WaitGroup` shows it to be
(CountIsExact), and its queues and buffers are sets of tasks, which is what
`RunQueue` and `RunBuffer` show them to be (ImplementsQueue, ImplementsBuffer).
`BundleThread` and `EventLoop` extend `UnboundedQueue` with all of its steps,
because their correctness depends on the cut between the two steps of a push.

Variables keep the names of the fields they stand for and actions the names of
the functions; where a function is several steps, each step is an action
(`FinishLock`, `FinishUnlock`, `FinishSignal`).  `pc` says where a thread is in
the code: the comment on every label names the place.  `map` in `PROJECT.json`
gives the lines of every definition.

Decisions that hold for all modules:

* *Memory order.* One atomic operation is one step, and all threads see the
  steps in one order.  The code's Relaxed, Acquire and Release orders are not
  told apart; errors that only a weaker order allows are out of scope.
* *Compare-exchange loops* are one step at the value on which they succeed, as
  a failed turn has no effect but a new value.  Exceptions: the single attempt
  of `try_lock` (`WeakCas = TRUE` also lets it fail for no reason, as on ARM,
  which includes every behaviour of the `bts` used on x86), and the loop of
  `pop`, whose reload matters.
* *Sleeping.* `"parked"` is inside the futex call.  A parked thread may wake up
  without cause (EINTR) or at its deadline, but nothing depends on that.
* *Undefined use* (recursive lock, unlock by another thread, two consumers) is
  excluded by the code's contracts and by the models; the debug panics for it are
  modelled, and shown never to fire without it.

Per module:

* **Mutex.** `locking_thread` is written apart from the word: `Tag` after the
  acquire, `Untag` before the release.  `try_lock` skips the check for recursion,
  as the code does.
* **Condition.** `waiters` and `signals` are the halves of the word `state` and
  change together.  `seen` is the local `epoch`.  A `wake()` that finds no
  wakeable waiter returns without a state change and is not an action.
  Signals are reserved for the waiters as a group: a thread that enters `wait()`
  after a broadcast and wakes up without cause may take the one meant for a thread
  that was blocked before.  CondSpec therefore says how many waiters are released,
  not which; the users in this repository wait in a loop on a condition that stays
  true.
* **WaitGroup.** `Main` calls `add` before each hand-out and `wait` between
  rounds; a worker may `add` while it runs a task, before its own `finish`.
  These are the conditions under which ThreadPool uses the group.
* **UnboundedQueue.** Nodes are recycled as soon as they are returned (by
  `BundleThread`), so a late write through a stale pointer would damage a live
  queue.  `push_batch` with more than one node has no caller in the repository
  and is not driven.
* **EventLoop.** Linux (epoll, eventfd).  A producer is a job on another thread
  and its node the task embedded in it, of one of three kinds: `Work` (WorkTask,
  ConcurrentPromiseTask) keeps its reference until its task has run, `Cpp`
  (ConcurrentCppTask, used by `crypto.subtle`) drops it on the other thread after
  it has posted, `Stray` holds none.  `JavaScript(act, imm, looked)` is any piece
  of script: it starts jobs and calls `setImmediate`.  The eventfd is `edge`:
  written since epoll last reported it.  `num_polls` is taken to be `active`;
  `pending_wakeups` only spares system calls and is left out, as are uncaught
  errors, signals, the garbage collector's timer, `pending_unref_counter` (0
  without the APIs that use it) and the order of microtasks within a task.
* **TestCoordinator.** The coordinator's callbacks are actions, each as a whole,
  since its loop is one thread; a process is the few states of `WorkerLoop`
  (`proc`), and its socket the sequences `up` and `down`.  What a process has
  written and could not send yet is `out`, lost when it dies.  A test file has
  none or one failed test.  SIGTERM may be ignored, SIGKILL may not.  A `Ready` that
  is read after its process has died is answered as the code does, by handing out
  a file that the reaping then charges to the crash.  `MaxFaults` bounds
  deaths, failing spawns and corrupt frames together.  What is printed, and the
  contents of the merged coverage and JUnit files, are left out: a fragment is the
  set of files it speaks of.  `Worker::start` is split: `NewProcess` is what it
  spawns, and its change of `alive` and `live_workers`, or its failure, is in
  `SpawnUpTo` and `Reap`, which call it.
* **RunQueue.** The word `stack` is a record of its pointer and its two tag bits
  and changes as a whole.  The plain cell `cache` is read and written in steps of
  its own, apart from the exchange that gives the right to.  Nodes come back as
  soon as they are popped, so that an exchange can succeed on a word that has
  changed and changed back.
* **RunBuffer.** One owner and its thieves.  A thief loads head and tail in two
  steps and copies slot by slot while the owner may store into the same slots;
  `StealInVain` is what a failed steal of the owner leaves in its own ring.
  Nodes are numbers in the order of their arrival.  `MoveHead` is the exchange of
  head that push, pop and steal have in common, and carries the bound on its wrap.
* **ThreadPool.** A queue or a buffer is the set of its tasks, and `consume`
  and `steal` pick any subset of the right size: the code promises no order
  among workers.  `hold` is what a consumer took from a queue and has not
  published yet; between `Grab` and `Fill` other consumers of the queue are
  turned away.  One task or a batch enters by `Schedule`; a running task may
  also push into its own buffer, whose overflow is modelled.  `schedule` counts
  its tasks and then pushes them; the model does both in one step.  What lies between
  them is a count that is ahead of the queue.  Only `wait_for_all()` looks at the
  count, for a zero, and it cannot be zero there: the caller is `Main`, who is not
  waiting, or a worker whose own task is still counted.  That `add` comes before the
  hand-out is the subject of `WaitGroup` (CountIsExact and its mutant).  `PushIdle` stands
  for the bundler's per-worker `deinit_task`; the bundler queues it just before
  it wakes the workers and drops the pool.  `each` and `each_ptr` (`schedule`
  in a loop), the statistics, the 10-second memory trim and the generation
  number of `Batch` are left out.

## What the runs check

| run | instance | shows |
|---|---|---|
| `mutex` | 3 threads | `NoForgottenSleeper`: the word, a wake or a swap stands for every parked thread; `NoFalseDeadlockReport`; `Progress` (deadlock freedom; the mutex is not fair and the code does not say so); `ImplementsLock`, which is mutual exclusion |
| `condition` | 3 threads, 2 wake-ups | `WordIsBalanced`; `NoLostSignal`: for each signal a waiter is awake, or a waker has yet to wake one; `ImplementsCond`, with its liveness: a posted wake-up is taken |
| `wait_group` | 1 waiter, 3 workers, 4 tasks | `CountIsExact`, `WaitIsBarrier`, `NoMissedSignal`, `WaitReturns`; no deadlock |
| `bundle_thread` | 3 producers, 3 recycled nodes, 4 builds | `Fifo`, `NoNullBack` (the assertions of the queue), `NoStaleLink`, `EveryBuildIsTaken` |
| `event_loop` | a job of each kind, 1 immediate | `RefsAreExact`: the two counts together are the references held; `NoJobCutOff`; `NoSleepOnChange`; `RunInOrder`; `LoopEnds` |
| `run_queue` | 3 threads, 3 recycled nodes, lists of 1 or 2 | `ConsumerIsExclusive`, `EmptyIsEmpty` (a queue is reported empty only if it is), `ImplementsQueue` |
| `run_buffer` | 1 owner, 2 thieves, ring of 4, 6 nodes, across the wrap of the indices | `SizeIsBounded` (the assertions on the size), `ImplementsBuffer` |
| `thread_pool` | 2 workers, 4 tasks, buffers of 2; spawns may fail, drop after `wait_for_all()` | `TasksConserved`, `OneWakingThread`, `NoStrandedTask`, `CountsAreExact`, `JoinIsSafe`, `IdleTasksRun` |
| `thread_pool_live` | 2 workers, 2 tasks | `EveryTaskRuns`, `JoinReturns` |
| `test_coordinator` | 3 files, 2 workers, 2 faults, with and without `--bail` | `OnePlacePerFile`; `LiveWorkersIsExact`; `InflightAgrees`: coordinator and process agree on the file in hand; `ResultsAreTrue`: no file runs twice, a crash is charged only for a result that never reached the socket; `ReportIsMerged`; `Terminates`; `ImplementsTestRun` |
| `crypto_cut_off`, `join_race` | | the two disagreements under [findings](#findings) |

Each module states its type invariant (`TypeOK`); the runs do not repeat it, since
the properties above fail on a state of another shape, and the proofs use it where
they need it.  For every property
of a passing run there is a mutant of a modelled operation, in the module right
before the operation, on which TLC finds the property violated: a woken sleeper
that acquires with LOCKED, a `finish()` that does not pass through the mutex, a
`pop` that swaps `back` where it must compare, a slot that is reaped before its
socket is closed, and so on.

## Bounds

* Three threads are the least number with which one thread releases while a
  second is woken and a third still sleeps (Mutex), or a waker, a sleeper and a
  late waiter meet (Condition).  For Mutex and the safety of Condition the proofs
  remove the bound.
* `MaxWakes = 2` lets a second wake overlap the first, which is what makes
  reservations interfere.  The epoch of the code has 32 bits; that it wraps
  around exactly while a waiter is between its load and its futex call is not
  covered.
* `MaxTasks = 4` (WaitGroup): two rounds, with a task that adds tasks in each.
* `MaxPushed = 4` on three nodes (BundleThread): a node can be in the queue a
  second time while a producer of the first round is still between its two steps.
* EventLoop: one job of each kind is enough for every pair of kinds to meet in the
  queue and in the counts.  `MaxImmediates = 1` lets a job be started by an immediate,
  outside of the entry point.
* TestCoordinator: `N = 3`, `K = 2`: a worker can hold a file, have another in its
  range and lose it to a steal.  `SocketSize = 1`: any second frame meets a full
  socket, the backlog of the code.  `MaxFaults = 2`: a process and its replacement
  die, or a death and a failing respawn.  `Bails = {0, 1}`.  The proofs
  remove these bounds for the properties they cover.
* RunQueue: with three nodes a list of two can lie under another push while a
  third thread consumes, and each node can come back.  With more threads there
  is nothing new for `ConsumerIsExclusive`: it is proved.
* RunBuffer: `Capacity = 4` is the least ring of which a thief takes two nodes and
  of which the overflow is two.  `IndexSize = 8` and `Start = 6` let head and tail
  wrap around within the six nodes of a behaviour.  `MoveHead` has the one bound that
  the proofs keep: head does not advance by `IndexSize`, 2^32 nodes in the code, while
  a thief is between its load of head and its exchange.  The exchange compares
  nothing but head, so it would succeed on a head that has come all the way round;
  without the bound TLC finds `SizeIsBounded` violated on a ring of 2 with 4 indices.
  That `MaxNodes < IndexSize` in this run means that the bound never cuts anything
  off there; the proofs let the indices wrap any number of times.
* ThreadPool: `Capacity = 2` where the code has 256; four tasks suffice to fill a
  buffer, overflow half of it and consume a queue beyond one buffer
  (`Capacity + 1`).  Two workers are both sides of every race between
  two workers and, with `Main`, three threads.  The owner drops the pool when the
  wait group is at 0, as its users do.  With `SpawnFails` the pool can be left
  without a worker, and `NoStrandedTask` says nothing of such a pool.  Its claim
  about the workers' own queues is made for pools of at most two workers, since it
  is false of larger ones (see the limits below); `EveryTaskRuns`, too, is shown
  of the two workers of its run and of no more.
  The counters of `sync` are 14 bits wide in the code and limited to
  `max_threads`.

## Fairness

Weak fairness on the steps of a thread that is inside a call: the operating
system runs every thread that can run.  Not assumed: that anybody calls anything
(`Lock`, `Schedule`, `Enqueue`, ...), that a sleeper wakes up by itself
(`SpuriousWake`, `EventTimeout`, `WakerInterrupted` carry no fairness), or that
a spawn succeeds.  Critical sections and task callbacks return; the code relies
on that.

Event loop (`ELFairSpec`): the JavaScript thread and the threads of the jobs run.
No timer or socket need ever end a sleep (`PollEvent` has no fairness), so a wake-up
that is missing is found.

Test coordinator (`FairSpec`): processes run, a test file ends (the runner's own
timeouts see to that), the loop handles every event, SIGKILL works.  Not assumed:
that SIGTERM is obeyed, that more workers are started (`ScaleUp`), that the user
interrupts the run.  `Terminates` holds for finitely many faults only: the code
replaces a worker that dies before it is given a file without limit
(`Coordinator.rs:508`).

Strong fairness in two places.  A thread waiting for a LockSpec mutex that is
free again and again gets it in the end (`WaitGroup`): `Mutex` guarantees
deadlock freedom, not more, so this is an assumption on the scheduler; it is
harmless here since every other thread takes the mutex of a group at most once
per task.  And a `compare_exchange_weak` does not fail for no reason for ever
(`BundleThread`).

Deadlock checking is on for Mutex and WaitGroup.  It is off where all threads may
rightly stop: everybody waiting on a condition without a signaller, an empty
queue, a dropped pool, an ended program, a finished test run.

## What is proved

`MutexProofs`, for every set of threads, from `NoThread \notin Threads` and
`WeakCas \in BOOLEAN`:

* `MutexInvariant`: `IInv` is inductive.  `MutualExclusion` alone is not: a step
  from a state with the word UNLOCKED and a holder breaks it.  `WordTracksHolder`
  (the word is set exactly while somebody holds the mutex) closes that gap;
  `TagTracksHolder` does the same for the debug tag; `NoForgottenSleeper` is
  preserved on its own, because each step that removes its witness (the wake, the
  swap) leaves another one.
* `MutexIsExclusive`, `MutexForgetsNoSleeper`, `MutexDebugIsSilent` follow from it.
* `MutexImplementsLock`: every step of `Mutex` maps to a step of `LockSpec` or
  leaves the owner alone, the owner being the thread between acquire and release.

`ConditionProofs`, for every finite set of threads and any number of wake-ups:

* `ConditionIsBalanced`: the type invariant and `WordIsBalanced`, which are
  inductive together.  The proof is about the cardinality of the registered
  threads, which each step changes by at most one.
* `ConditionLosesNoSignal`: `NoLostSignal` compares the posted wake-ups with the
  threads that are to take one, so it is about the cardinality of three sets.  A
  step that bumps the epoch stirs every sleeper at once, while `futex::wake` lets
  one of them go: `NoUnseenSignal` (each posted signal has a thread that is stirred,
  or a waker that has yet to bump) carries the count over that step, with
  `SeenIsPast` (nobody has read an epoch that is not there yet) and `OnlyWakersOwe`.
* `ConditionImplementsCondSpec`: refinement of the safety part of `CondSpec`
  (`ImplementsCondSafely`).

`WaitGroupProofs`, for every finite set of workers and any number of tasks:

* `WaitGroupInvariant`: `IInv` is inductive.  Besides the types it says where each
  thread may be (`InPlace`), that the owner of the lock is inside (`OwnerIsInside`),
  that while the waiter holds the mutex between its load of the count and its sleep
  the `finish()` that brought the count to zero is still before its lock
  (`FinisherIsHeld`), and that the count is still zero when
  `wait()` leaves (`ZeroStays`): nobody can add once the scheduler waits.
* `WaitGroupCountIsExact`, `WaitGroupIsBarrier`, `WaitGroupMissesNoSignal` follow.

`RunBufferProofs`, for every set of thieves, every capacity of at least 2 that divides
the number of indices (256 and 2^32 in the code), every start index and any number of
nodes:

* `RunBufferInvariant`: `IInv` speaks of distances from head on only, never of
  positions, so a wrap is nothing special.  `Ordered`: tail, the owner's own tail and
  the head the owner loaded are in this order and at most `Capacity` apart, hence
  `wrapping_sub` of any two of them is their true distance.  `Listed`: the owner's
  list is the youngest nodes in order, and what `consume` stores is there.  `Ring`:
  the places from head to the owner's tail hold nodes that nobody has got, each once.
  `Stealing`: while head is what a thief has loaded, its copies are what the ring
  holds and its size is at most half of what is published.  The last holds although
  the owner goes on storing, because it stores only behind its tail, and although
  head may wrap, because `MoveHead` never brings it back to a value a thief holds.
  The arithmetic below it (`Apart`, `Round`, `SubChain`, `SlotsDiffer`) is where it is
  needed that the capacity divides the number of indices: otherwise a slot would jump
  at the wrap.
* `RunBufferSizeIsBounded`: the assertions of the code on the size.
* `RunBufferImplementsBuffer`: the refinement of `BufferSpec`.  `TookItems` says once
  for pop, steal and overflow that moving head by n takes out the n nodes at its
  places and no other; `PublishIsPut` and `ConsumeIsFill` that a store of tail adds
  what was stored before.

`EventLoopProofs`, first part, for every set of producers and of nodes.  The `Spec` of
`UnboundedQueue` lets the consumer mix `pop` and `pop_batch` as it likes, so it has the steps of both users:

* `UnboundedQueueInvariant`: `IInv` is the types, the history (`popped` is a prefix
  of `pushed`; the nodes between are distinct) and `\E s \in Nat : Chain(s)`.  A
  `Chain(s)` says what the links are: each node that is pushed and not popped points
  to the next one, except where a producer is between its swap of `back` and its
  store of `next`, and at `s`, the place up to which `pop_batch` has cut the nodes off
  (later pushes begin a chain of their own; otherwise `s` is the number of nodes
  popped).  `s` is existential because no variable of the code holds it.
* `UnboundedQueueIsFifo`, `UnboundedQueueBackIsThere`, `UnboundedQueueLinksInside`.

`EventLoopProofs`, second part, for every finite set of jobs of either kind and any
number of immediates:

* `EventLoopUsesQueue`: every step of the event loop is a step of the queue or leaves
  it alone, so the theorems of the first part hold of it.
* `EventLoopInvariant`: `ELInv` adds to the queue's invariant that each job posts
  once and in which state (`Posted`), that what has run and what is in `tasks` is
  what has been popped, and three facts about the loop.  `Counted`: `Spare`, which is
  `active` less the WorkTasks, plus `concurrent_ref` is the number of
  ConcurrentCppTasks that hold a reference, hence the saturating subtraction in
  `update_counts` never saturates.  `Waking`: whoever changed the count or the queue
  since `tick_concurrent` looked has written the eventfd or is about to.  `Settled`:
  when `Spare` is zero, every ConcurrentCppTask that was started has posted, and
  `pop_batch`, which comes later, has taken it or saw it as `unseen`.
* `EventLoopRefsAreExact`, `EventLoopIsWoken`, `EventLoopRunsInOrder` and
  `EventLoopCutsNoJobOff`, which is the positive half of finding 1.

`RunQueueProofs`, for every set of threads and every finite set of nodes:

* `RunQueueConsumerIsExclusive`, `RunQueueIsTyped`: `IInv` joins the type
  invariant, `ConsumerIsExclusive` and `PointersAreThere` (a push about to exchange
  has a list; a consumer about to swap finds a pushed node, because nobody else
  can take it).  The last one is needed for the swap: it follows the pointer it
  gets, and the links stay nodes only if that pointer is one.
* `RunQueueEmptyIsEmpty`: takes `CacheIsMarked` (a cached list comes with its bit in
  the word) and `NullChain`, that a chain which starts with null reaches nothing.
  `ChainOfPath` says it of every list: the nodes reached from a pointer are those of
  the list behind it.  That is an induction over the length of the walk, done with
  the least counterexample (`WFMin` of the library); the walk is long enough because
  a list without repetition is no longer than there are nodes (`DistinctIsShort`).
* `RunQueueImplementsQueue`: `PInv` adds to `IInv` that the queue consists of two
  lists (`Chains`), the pushed nodes behind `stack` and the kept ones behind the
  cell, or behind what the consumer has read of it, which both end in null and
  share no node; that a list under way is linked to the top its thread has seen
  (`ListsAreLinked`), so that when the exchange finds that top again, though other
  nodes came and went between, list and stack are one list; and that a consumer
  about to swap keeps nothing (`SwapKeepsNone`).  A lemma per action says what
  becomes of the two lists: `ConcatIsPath` for the exchange, `TailIsPath` for a pop.

`ThreadPoolProofs`, for every finite set of workers and of tasks, any capacity of at
least two and with or without failures of `thread::spawn`:

* `ThreadPoolInvariant`: `IInv` is inductive.  It joins what each thread may hold at
  each label (`Typed`, `InPlace`), the list of workers (`Listed`), how far a drop has
  come (`Phase`), that each task is in one place (`OnePlace`), that no buffer is
  over its capacity (`InBounds`), and the counts: `CountIsExact`, `OneWakingThread`,
  `CountsAreExact`, `spawned <= max_threads`, `IdleTasksRun`.  The parts need each
  other.  That a spawn finds a thread that was never started, for instance, follows
  from the counts only if none has left, and none has: a busy worker has an
  outstanding task, and no drop begins while there is one.
* `ThreadPoolCountsAreExact`, `ThreadPoolHasOneWakingThread`, `ThreadPoolIdleTasksRun`,
  `ThreadPoolJoinIsSafe`, `ThreadPoolConservesTasks` follow.
* `ThreadPoolStrandsNoTask`: `NoStrandedTask` speaks of the moment when all sleep;
  `SInv` says, for every moment before it, who is going to look.  A queue that is
  being consumed has a worker in `consume()` (`Consumed`).  A worker that sleeps is
  known to the event's word, to a futex wake under way or to a worker that is about
  to announce it (`SleepersAreKnown`); a notification has somebody who is up, or is
  being woken, to see it (`NoteIsSeen`).  While the pool's queue holds a task, `sync`
  is notified, its pusher is still in `notify()`, or a worker has yet to look there
  (`SharedIsSeen`).  The same of a worker's own queue in a pool of two is
  `OverflowIsSeen`, where the last case reads: its owner has yet to look at it, or
  the other worker has, or is on a walk that still covers it, which is an argument about a list of two threads
  (`NextIsOther`): whichever target a walk starts from, two visits reach both.
  `SInv` is inductive given `IInv`.

`TestCoordinatorProofs`, for any number of files `N` and workers `K` with
`N >= K >= 2`, every set of `--bail` values, any socket size and any number of
faults:

* `TestCoordinatorInvariant`: `IInv` is inductive.  `OnePlacePerFile` alone is not:
  `assign_work` stores into `inflight` without looking, so a `Ready` frame read for a
  worker that already has a file would drop that file.  That this cannot happen
  takes `ReadyIsFirst` (`Ready` is the first frame of a process, and until it is
  handled the slot has nothing in flight) and `FreshIsClean` (the slot of a process
  that has not written yet is clean, however its predecessor died).
  `SpawnedInOrder` (slots are spawned from 0 up, and those beyond have no process)
  is what the count of `LiveWorkersIsExact` needs when several are started at once.
  `WiresTyped` and `SlotsTyped` say what the frames and slots hold.  The proof has a
  lemma per action.  A handler moves files in several assignments, so those lemmas
  reason about `Placed`, which is `OnePlacePerFile` of any ranges, slots and
  verdicts; that the initial ranges are disjoint and leave no file out is a lemma
  about division (`Partition`).
* `TestFilesHaveOnePlace`, `TestWorkersAreCounted` follow from it.
* `TestWorkersHaveTheirFile`: `InflightAgrees` counts tokens; `AInv` says the same
  without a count (`Agrees`): a command on the way, the pending slot, the file that
  runs, the backlog and the socket hold the file in flight at most once between
  them, in that order of exclusion, and one of them does unless the process or the
  channel is gone (`HasFile`).  `AInv` is inductive given `IInv`, and the lemmas
  `...Effect` say once, for this and the next two theorems, what each action does to
  a slot, its process and its sockets.
* `TestResultsAreTrue`: `RInv` follows a file through these places (`Stage`): not run
  before it starts, started while it runs, and then what its `FileDone` frame says.
  `DeliveredIsAhead` carries the crash case: a result that was delivered is in the
  socket with no garbage in front, so a slot that is torn down, or a channel that is
  given up, has none; that a slot is torn down only when its channel is done is
  what `try_reap` waits for.
* `TestReportIsMerged`: `MInv` says that aggregates are the last frame of a process
  (`Ordered`), so the results of the files they cover have been read when they
  are (`RanIsReported`); that a process which flushes has them in its backlog, in the
  socket or in the report (`FlushedIsThere`); and that what a clean exit owes is in
  the socket of a slot that is not reaped (`OwedIsThere`), of which there is none
  when `live_workers` is zero.
* `TestCoordinatorImplementsTestRun`: every step maps to
  a step of `TestRunSpec` or leaves the outcomes alone.  `OnePlacePerFile` is what
  makes `Outcome` change only for the files that an action touches, and
  `LiveWorkersIsExact` what makes `IsDone` imply that nothing is running.

Only model-checked:

* all liveness (fairness and ENABLED are beyond the prover), hence `ImplementsCond`
  with its fairness, and `EveryBuildIsTaken` of BundleThread;
* that BundleThread drives the queue as the `Spec` of `UnboundedQueue` says: its
  `Fifo`, `NoNullBack` and `NoStaleLink` are theorems about that `Spec`, and for the
  event loop `EventLoopUsesQueue` makes the step, but for BundleThread the run does.

Every other invariant and refinement that a run checks is a theorem.

## Findings

1. `crypto_cut_off`.  `is_event_loop_alive()` does not look at `concurrent_tasks`.  A
   ConcurrentCppTask that an immediate, a timer, a socket callback or a `beforeExit`
   listener has started can post its result and drop its reference before the loop
   looks again: then nothing counts any more and the program ends without the
   result.  The entry point is safe, because `run_command` calls
   `tick_concurrent_with_count()` after it.  `NoJobCutOff` is what does hold.
2. `join_race`.  `join()` reads `spawned = 0` and returns before the last worker
   has called `join_event.notify()`, which touches the pool.  The comments in
   `unregister()` rely on the notify to wake the joiner.  It matters for pools
   that are freed, such as the one the bundler owns
   (`src/src/bundler/ThreadPool.rs`), not for the process-wide one.

A comment that the code has outgrown, and no disagreement about behaviour:
`Coordinator.rs:384-387` says that a `FileDone` frame can be read after
`onWorkerExit()` has charged its file to a crash, and is then ignored.  `try_reap`
(`Coordinator.rs:459-466`) charges nothing before the channel is done, that is after
the last frame has been read, as the comments at 414-417, 453-455 and 470-471 say.
`InflightAgrees` and `ResultsAreTrue` rest on the newer comments and the code.  The
guard that the old comment explains is kept in the model (`OnFileDone`).

Limits of the code met while modelling, for which there is no run; the hazard list
has the lines:

* If the first worker of a pool cannot be created, `sync` keeps `notified` with
  nobody to consume it and later calls of `notify()` return on the fast path.
* `Event::wake` stores NOTIFIED over SHUTDOWN if a worker was between its change of
  `sync` and its notify.  It needs a drop with tasks outstanding, which the users of
  the pool avoid.
* The walk of `pop()` visits as many threads as `spawned` counted when it began.
  `warm()`, which the bundler calls when it starts its pool, counts a thread and lets
  it register without a notification, so a walk that is under way can come past the
  same thread twice and miss another.  With four workers and six tasks on buffers of
  two, all workers can come to sleep with an overflow left in the queue of one of
  them, until somebody schedules again.  The attempt to prove `NoStrandedTask` for
  every pool led to it, and a search of the model for that schedule confirmed it.
* `WaitGroup::wait()` can return while the last `finish()` is still in its tail and
  touches the mutex and the condition (`WaitGroup.rs:63`); a group on the waiter's
  stack would be gone.  `bun install` keeps its group alive for this reason.
* A worker process that dies before it is given a file is replaced without limit.
* A ConcurrentCppTask can also be lost behind the unfinished push of a thread that
  holds no reference (`unseen` in `NoJobCutOff`).

## What is not modelled

* The futex back ends of macOS, Windows and others, `os_unfair_lock`, SRWLOCK,
  the kqueue and libuv wakers: the systems' own primitives.
* Relaxed memory in the run queue and the run buffer: their models show that the
  order of the steps is right, not that the barriers enforce it.
* Guarded and WorkPool: wrappers without a protocol of their own.
* Parsers, printers, the linker, CSS, Markdown, the resolver, package resolution,
  JavaScriptCore bindings, allocators, strings, system calls: sequential
  transformations of unbounded data, or pure input and output.
* In the event loop: hot reloading, workers' own loops and MiniEventLoop; in the test
  coordinator: everything that happens inside of a test file.
* The remaining components of `PROJECT.json`, with the reason for each.

## Plan

In this order; each step is a module, its runs, its mutants and, where it says
so, theorems.

1. `Channel`, `Semaphore`, `RwLock`, `ResetEvent` over `LockSpec` and `CondSpec`.
   Questions the code raises: `write_items` writes the whole slice on each turn of
   its loop; a reader that dequeues and then gives up; WaitGroup with two waiters
   and one signal.
2. The timer heap with refresh and cancellation from callbacks, beside EventLoop;
   uncaught errors and `active_tasks` in EventLoop.
3. Protocol clients, one at a time: the Valkey client's pipelining and
   reconnection, HTTP/2 stream states, the file watcher.
