---------------------------- MODULE BundleThread ----------------------------
(***************************************************************************)
(* The bundler thread (src/src/bundler/BundleThread.rs): any thread calls  *)
(* enqueue, which pushes a build onto an UnboundedQueue and wakes the      *)
(* thread; the thread pops until the queue looks empty and then sleeps on  *)
(* its waker (an eventfd, src/src/io/lib.rs).                              *)
(***************************************************************************)
EXTENDS UnboundedQueue

VARIABLES
    started,  \* thread_main has created the waker and set ready_event
    efd,      \* the eventfd's counter is not 0
    waking,   \* the producers between queue.push and waker.wake
    asleep    \* the bundler thread is in waker.wait

bvars == <<vars, started, efd, waking, asleep>>

BInit ==
    /\ Init
    /\ started = FALSE /\ efd = FALSE /\ waking = {} /\ asleep = FALSE

\* thread_main: the waker exists before spawn() lets anybody enqueue.
Start ==
    /\ ~started
    /\ started' = TRUE
    /\ UNCHANGED <<vars, efd, waking, asleep>>

-----------------------------------------------------------------------------
(* enqueue                                                                 *)

Enqueue(p) ==
    /\ started
    /\ p \notin waking
    /\ \E n \in Nodes : PushSwap(p, n)
    /\ UNCHANGED <<started, efd, waking, asleep>>

\* Mutant: the caller forgets to wake the thread.
EnqueueLinkSilently(p) ==
    /\ PushLink(p)
    /\ UNCHANGED <<started, efd, waking, asleep>>

EnqueueLink(p) ==
    /\ PushLink(p)
    /\ waking' = waking \cup {p}
    /\ UNCHANGED <<started, efd, asleep>>

WakerWake(p) ==
    /\ p \in waking
    /\ waking' = waking \ {p}
    /\ efd' = TRUE
    /\ UNCHANGED <<vars, started, asleep>>

-----------------------------------------------------------------------------
(* thread_main                                                             *)

\* One step of queue.pop(), or of the build it returned.
Drain ==
    /\ started /\ ~asleep
    /\ Pop
    /\ UNCHANGED <<started, efd, waking, asleep>>

\* pop() returned null.
Sleep ==
    /\ started /\ ~asleep
    /\ cpc = "idle" /\ front = Null
    /\ asleep' = TRUE
    /\ UNCHANGED <<vars, started, efd, waking>>

\* The read of the eventfd returns and clears its counter.
WakerWait ==
    /\ asleep /\ efd
    /\ asleep' = FALSE
    /\ efd' = FALSE
    /\ UNCHANGED <<vars, started, waking>>

\* It returns with EINTR; thread_main ignores the result.
WakerInterrupted ==
    /\ asleep
    /\ asleep' = FALSE
    /\ UNCHANGED <<vars, started, efd, waking>>

-----------------------------------------------------------------------------

ThreadMain == Start \/ Drain \/ Sleep \/ WakerWait

BNext ==
    \/ ThreadMain \/ WakerInterrupted
    \/ \E p \in Producers : Enqueue(p) \/ EnqueueLink(p) \/ WakerWake(p)

BSpec == BInit /\ [][BNext]_bvars

\* The bundler thread and a producer inside enqueue keep running; nobody need
\* enqueue anything, and nothing interrupts the wait.
BFairSpec ==
    /\ BSpec
    /\ WF_bvars(ThreadMain) /\ SF_bvars(Drain /\ PopCas)
    /\ \A p \in Producers : WF_bvars(EnqueueLink(p) \/ WakerWake(p))

-----------------------------------------------------------------------------
(* Properties.                                                             *)

\* Every build that is enqueued is taken by the bundler thread: it never stays
\* asleep on work, although pop() may find no front while the queue holds
\* linked nodes; the wake of the push that has still to store it is to come.
EveryBuildIsTaken == (pushed # popped) ~> (pushed = popped)

=============================================================================
