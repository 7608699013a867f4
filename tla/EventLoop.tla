----------------------------- MODULE EventLoop ------------------------------
(***************************************************************************)
(* The JavaScript event loop (src/src/jsc/event_loop.rs) as other threads  *)
(* see it: they hand it tasks through concurrent_tasks, an UnboundedQueue, *)
(* and keep it alive with references, some of them counted on the          *)
(* JavaScript thread (active) and some from anywhere (concurrent_ref); it  *)
(* runs the tasks, sleeps in epoll when there are none, and the program    *)
(* ends when nothing keeps the loop alive.                                 *)
(*                                                                         *)
(* A producer of the queue is a job on another thread, and its node the    *)
(* ConcurrentTask embedded in it:                                          *)
(*   "work"   WorkTask, ConcurrentPromiseTask: JavaScript starts it with a *)
(*            reference that is dropped when its task has run;             *)
(*   "cpp"    ConcurrentCppTask (WebCrypto): started with a concurrent     *)
(*            reference that the other thread drops after it has posted;   *)
(*   "stray"  a thread that posts a task and holds no reference.           *)
(***************************************************************************)
EXTENDS UnboundedQueue, FiniteSets

CONSTANTS
    Work, Cpp, Stray,   \* the jobs of each kind
    MaxImmediates       \* bound: how often setImmediate is called

ASSUME EmbeddedAssumption == Nodes = Producers
ASSUME KindsAssumption ==
    /\ Producers = Work \cup Cpp \cup Stray
    /\ Work \cap Cpp = {} /\ Work \cap Stray = {} /\ Cpp \cap Stray = {}
ASSUME FiniteAssumption == IsFiniteSet(Producers)
ASSUME ImmediatesAssumption == MaxImmediates \in Nat

VARIABLES
    job,            \* job -> how far its thread is
    active,         \* Loop.active
    concurrent_ref, \* EventLoop.concurrent_ref
    tasks,          \* EventLoop.tasks
    immediates,     \* how many tasks are in EventLoop.immediate_tasks
    edge,           \* the wakeup eventfd was written since epoll reported it
    pc,             \* where the JavaScript thread is
    site,           \* the call of tick_concurrent it returns to
    counter,        \* tick_with_count has run a task
    phase,          \* "load" the entry point, "main" loop, on_before_exit ("exit")
    dispatch,       \* the local of that name of on_before_exit
    ran,            \* history: the jobs whose task has run, in order
    unseen,         \* history: "cpp" jobs the last tick_concurrent did not see
    calls           \* how often setImmediate has been called

counts == <<active, concurrent_ref>>
control == <<pc, site, counter, phase, dispatch>>
elvars == <<vars, job, counts, tasks, immediates, edge, control, ran, unseen, calls>>

ELInit ==
    /\ Init
    /\ job = [p \in Producers |-> IF p \in Stray THEN "working" ELSE "new"]
    /\ active = 0 /\ concurrent_ref = 0
    /\ tasks = <<>> /\ immediates = 0 /\ edge = FALSE
    /\ pc = "script" /\ site = "tasks" /\ counter = FALSE
    /\ phase = "load" /\ dispatch = FALSE
    /\ ran = <<>> /\ unseen = {} /\ calls = 0

-----------------------------------------------------------------------------
(* The other threads.                                                      *)

Move(p, from, to) == job[p] = from /\ job' = [job EXCEPT ![p] = to]

loopVars == <<tasks, immediates, control, ran, unseen, calls>>

\* enqueue_task_concurrent: the push,
Enqueue(p) ==
    /\ job[p] = "working"
    /\ PushSwap(p, p)
    /\ UNCHANGED <<job, counts, edge, loopVars>>

\* which ends with the store of its link,
EnqueueLink(p) ==
    /\ PushLink(p)
    /\ Move(p, "working", "wake")
    /\ UNCHANGED <<counts, edge, loopVars>>

\* Mutant: the thread that posts a task does not wake the loop.
WakeForgotten(p) ==
    /\ Move(p, "wake", IF p \in Cpp THEN "unref" ELSE "over")
    /\ UNCHANGED <<vars, counts, edge, loopVars>>

\* and the wakeup.
Wake(p) ==
    /\ Move(p, "wake", IF p \in Cpp THEN "unref" ELSE "over")
    /\ edge' = TRUE
    /\ UNCHANGED <<vars, counts, loopVars>>

\* unref_concurrently: the decrement,
Unref(p) ==
    /\ Move(p, "unref", "unref_wake")
    /\ concurrent_ref' = concurrent_ref - 1
    /\ UNCHANGED <<vars, active, edge, loopVars>>

\* Mutant: nobody wakes the loop when the reference is dropped.
UnrefWakeForgotten(p) ==
    /\ Move(p, "unref_wake", "over")
    /\ UNCHANGED <<vars, counts, edge, loopVars>>

\* and the wakeup, without which the loop might sleep on a count that is stale.
UnrefWake(p) ==
    /\ Move(p, "unref_wake", "over")
    /\ edge' = TRUE
    /\ UNCHANGED <<vars, counts, loopVars>>

\* The thread of a job posts a task; that of a ConcurrentCppTask drops its
\* reference afterwards.
OtherThread(p) ==
    Enqueue(p) \/ EnqueueLink(p) \/ Wake(p) \/ Unref(p) \/ UnrefWake(p)

-----------------------------------------------------------------------------
(* The JavaScript thread.                                                  *)

\* active.saturating_sub
SubActive(n) == IF n > active THEN 0 ELSE active - n

\* Some JavaScript runs: it starts jobs and calls setImmediate.  act and imm
\* are the values of active and immediates that the caller has arrived at;
\* unless it is `looked` after, tick_concurrent is not called before the next
\* is_event_loop_alive.
JavaScript(act, imm, looked) ==
    \E new \in SUBSET {p \in Producers : job[p] = "new"}, more \in {0, 1} :
       /\ job' = [p \in Producers |-> IF p \in new THEN "working" ELSE job[p]]
       /\ active' = act + Cardinality(new \cap Work)
       /\ concurrent_ref' = concurrent_ref + Cardinality(new \cap Cpp)
       /\ edge' = (edge \/ new \cap Cpp # {})
       /\ immediates' = imm + more
       /\ unseen' = IF looked THEN unseen ELSE unseen \cup (new \cap Cpp)
       /\ calls' = calls + more /\ calls' <= MaxImmediates

\* is_event_loop_alive
Alive == active > 0 \/ tasks # <<>> \/ concurrent_ref > 0 \/ immediates > 0

quiet == <<vars, job, counts, tasks, immediates, edge, ran, unseen, calls>>

\* The entry point is evaluated.
Script ==
    /\ pc = "script" /\ pc' = "loaded"
    /\ JavaScript(active, immediates, TRUE)
    /\ UNCHANGED <<vars, tasks, site, counter, phase, dispatch, ran>>

\* if is_event_loop_alive() || tick_concurrent_with_count() > 0 { tick() }
Loaded ==
    /\ pc = "loaded" /\ pc' = "concurrent"
    /\ site' = IF Alive THEN "tasks" ELSE "count"
    /\ UNCHANGED <<quiet, counter, phase, dispatch>>

\* while is_event_loop_alive() { tick(); auto_tick_active() }, in the main
\* program and again in on_before_exit, which notes that the loop has turned.
Turn ==
    /\ pc = "alive" /\ Alive
    /\ pc' = "concurrent" /\ site' = "tasks"
    /\ dispatch' = (phase = "exit")
    /\ UNCHANGED <<quiet, counter, phase>>

\* dispatch_on_before_exit, first and whenever the loop has turned again.
BeforeExit ==
    /\ pc = "alive" /\ ~Alive
    /\ phase = "main" \/ dispatch
    /\ JavaScript(active, immediates, FALSE)
    /\ phase' = "exit" /\ dispatch' = FALSE
    /\ UNCHANGED <<vars, tasks, pc, site, counter, ran>>

Exit ==
    /\ pc = "alive" /\ ~Alive
    /\ phase = "exit" /\ ~dispatch
    /\ pc' = "exit"
    /\ UNCHANGED <<quiet, site, counter, phase, dispatch>>

-----------------------------------------------------------------------------
(* tick_concurrent_with_count                                              *)

\* Mutant: the negative change of the count is dropped.
UpdateCountsUp ==
    /\ pc = "concurrent" /\ pc' = "pop"
    /\ active' = IF concurrent_ref > 0 THEN active + concurrent_ref ELSE active
    /\ concurrent_ref' = 0
    /\ unseen' = {}
    /\ UNCHANGED <<vars, job, tasks, immediates, edge, site, counter,
                   phase, dispatch, ran, calls>>

\* update_counts swaps concurrent_ref for 0 and applies it to active.
UpdateCounts ==
    /\ pc = "concurrent" /\ pc' = "pop"
    /\ active' = IF concurrent_ref > 0 THEN active + concurrent_ref
                 ELSE SubActive(-concurrent_ref)
    /\ concurrent_ref' = 0
    /\ unseen' = {}
    /\ UNCHANGED <<vars, job, tasks, immediates, edge, site, counter,
                   phase, dispatch, ran, calls>>

\* The tick after the entry point is followed by the main loop, the others by
\* auto_tick_active.
TickReturns ==
    /\ pc' = IF phase = "load" THEN "alive" ELSE "immediates"
    /\ phase' = IF phase = "load" THEN "main" ELSE phase
    /\ UNCHANGED site

\* tick_concurrent returns to its caller and has left ts in tasks.
ConcurrentReturns(ts) ==
    \/ /\ site = "tasks" \/ (site = "last" /\ ts # <<>>)
       /\ pc' = "tasks"
       /\ UNCHANGED <<site, phase>>
    \/ /\ site = "count" /\ ts # <<>>
       /\ pc' = "concurrent" /\ site' = "tasks"
       /\ UNCHANGED phase
    \/ /\ site \in {"last", "count"} /\ ts = <<>>
       /\ TickReturns

\* pop_batch finds no front,
PopNothing ==
    /\ pc = "pop" /\ cpc = "idle" /\ front = Null
    /\ ConcurrentReturns(tasks)
    /\ unseen' = InQueue \cap Cpp   \* behind a hole
    /\ UNCHANGED <<vars, job, counts, tasks, immediates, edge, ran, calls,
                   counter, dispatch>>

\* Mutant: the loop over the batch ends one task early.
PopTasksButLast ==
    /\ pc = "pop"
    /\ PopBatch
    /\ IF popped' = popped THEN UNCHANGED <<tasks, pc, site, phase>>
       ELSE tasks' = tasks \o Front(taken) /\ ConcurrentReturns(tasks')
    /\ UNCHANGED <<job, counts, immediates, edge, counter, dispatch, ran, unseen,
                   calls>>

\* or takes the batch, whose tasks are put behind the others.
PopTasks ==
    /\ pc = "pop"
    /\ PopBatch
    /\ IF popped' = popped THEN UNCHANGED <<tasks, pc, site, phase>>
       ELSE tasks' = tasks \o taken /\ ConcurrentReturns(tasks \o taken)
    /\ UNCHANGED <<job, counts, immediates, edge, counter, dispatch, ran, unseen,
                   calls>>

-----------------------------------------------------------------------------
(* tick: tasks are run until neither tasks nor concurrent_tasks has any.   *)

\* run_from_js drops the reference of the job.
RunTask ==
    LET p == Head(tasks) IN
    /\ pc = "tasks" /\ tasks # <<>>
    /\ JavaScript(IF p \in Work THEN SubActive(1) ELSE active, immediates, TRUE)
    /\ tasks' = Tail(tasks)
    /\ ran' = Append(ran, p)
    /\ counter' = TRUE
    /\ UNCHANGED <<vars, pc, site, phase, dispatch>>

\* Mutant: tick gives up once it has run its tasks.
TasksDoneAtOnce ==
    /\ pc = "tasks" /\ tasks = <<>>
    /\ TickReturns
    /\ counter' = FALSE
    /\ UNCHANGED <<quiet, dispatch>>

\* tick_with_count has run out of tasks; after it has run none, tick calls
\* tick_concurrent for the last time unless that brings some.
TasksDone ==
    /\ pc = "tasks" /\ tasks = <<>>
    /\ pc' = "concurrent"
    /\ site' = IF counter THEN "tasks" ELSE "last"
    /\ counter' = FALSE
    /\ UNCHANGED <<quiet, phase, dispatch>>

-----------------------------------------------------------------------------
(* auto_tick_active                                                        *)

\* tick_immediate_tasks runs those that were there; theirs run next time.
TickImmediates ==
    /\ pc = "immediates" /\ pc' = "poll"
    /\ IF immediates > 0 THEN JavaScript(active, 0, FALSE)
       ELSE UNCHANGED <<job, counts, edge, immediates, unseen, calls>>
    /\ UNCHANGED <<vars, tasks, site, counter, phase, dispatch, ran>>

\* us_loop_run_bun_tick returns at once for a loop without references; with
\* some it waits for the edge, unless immediates make the timeout 0.
Poll ==
    /\ pc = "poll" /\ pc' = "timers"
    /\ \/ active = 0 /\ UNCHANGED edge
       \/ active > 0 /\ (edge \/ immediates > 0) /\ edge' = FALSE
    /\ UNCHANGED <<vars, job, counts, tasks, immediates, site, counter,
                   phase, dispatch, ran, unseen, calls>>

\* The wait ends because a timer is due or a socket is ready.
PollEvent ==
    /\ pc = "poll" /\ pc' = "timers"
    /\ active > 0 /\ ~edge /\ immediates = 0
    /\ UNCHANGED <<quiet, site, counter, phase, dispatch>>

\* drain_timers, and the callbacks of the sockets: they may run any JavaScript.
DrainTimers ==
    /\ pc = "timers" /\ pc' = "alive"
    /\ JavaScript(active, immediates, FALSE)
    /\ UNCHANGED <<vars, tasks, site, counter, phase, dispatch, ran>>

-----------------------------------------------------------------------------

LoopThread ==
    \/ Script \/ Loaded \/ Turn \/ BeforeExit \/ Exit
    \/ UpdateCounts \/ PopNothing \/ PopTasks
    \/ RunTask \/ TasksDone \/ TickImmediates \/ Poll \/ DrainTimers

ELNext ==
    /\ pc # "exit"
    /\ LoopThread \/ PollEvent \/ \E p \in Producers : OtherThread(p)

ELSpec == ELInit /\ [][ELNext]_elvars

\* All threads get to run and finish what they are at; no timer or socket need
\* ever come to the help of a loop that sleeps.
ELFairSpec ==
    /\ ELSpec
    /\ WF_elvars(pc # "exit" /\ LoopThread)
    /\ \A p \in Producers : WF_elvars(pc # "exit" /\ OtherThread(p))

-----------------------------------------------------------------------------
(* Properties.                                                             *)

\* The task of p has run.
HasRun(p) == \E i \in DOMAIN ran : ran[i] = p

\* The jobs that hold a reference.
Holders ==
    {p \in Work : job[p] # "new" /\ ~HasRun(p)}
    \cup {p \in Cpp : job[p] \in {"working", "wake", "unref"}}

\* active and concurrent_ref together count the references that are held,
\* however updates of the two cross: no saturating_sub ever hides a lost one.
RefsAreExact == active + concurrent_ref = Cardinality(Holders)

\* The program does not end before the task of a job that JavaScript started
\* has run: a "work" job holds its reference until then, and the reference of a
\* "cpp" job is dropped only when the task is in the queue, which the loop
\* empties after it has read the count.  Left out are the "cpp" jobs that the
\* code can lose once they have dropped it: those started since the last tick
\* (see CppKeepsLoopAlive) and those that pop_batch did not see because a push
\* before theirs, by a thread without a reference, had not stored its link.
NoJobCutOff ==
    pc = "exit" =>
        \A p \in Work \cup Cpp : job[p] # "new" => HasRun(p) \/ p \in unseen \ Holders

\* A job that JavaScript starts keeps the loop alive until its task has run.
\* The code does not do this for ConcurrentCppTask: is_event_loop_alive looks
\* at concurrent_ref and at tasks, not at concurrent_tasks, so a job that is
\* started by an immediate, a timer, a socket or a beforeExit listener and has
\* already posted its task and dropped its reference is forgotten.
CppKeepsLoopAlive ==
    pc = "exit" => \A p \in Cpp : job[p] # "new" => HasRun(p)

\* The loop does not stay asleep over a task, or over a reference that was
\* dropped: whoever has changed the queue or the count still has to wake it,
\* or its edge has not been reported.
NoSleepOnChange ==
    /\ pc = "poll" /\ active > 0 /\ immediates = 0
    /\ pushed # popped \/ concurrent_ref # 0
    => \/ edge
       \/ \E p \in Producers : job[p] \in {"wake", "unref_wake"} \/ ppc[p] = "link"

\* Every task that has left the queue is run once, in the order of the pushes,
\* whether it came with one batch or with several.
RunInOrder == ran \o tasks = popped /\ IsPrefix(popped, pushed)

\* The program ends: no job waits for ever to have its task run, and the loop
\* does not wait for a job that is over.
LoopEnds == <>(pc = "exit")

=============================================================================
