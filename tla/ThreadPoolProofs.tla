-------------------------- MODULE ThreadPoolProofs --------------------------
(***************************************************************************)
(* For any finite set of workers, any finite set of tasks and any capacity *)
(* of the buffers, whether or not threads can be spawned: no task is lost  *)
(* or run twice, the counts in `sync` are exact, one worker at most is the *)
(* waking thread, idle tasks run, join() waits for every worker, and no    *)
(* task is left behind with everybody asleep.                              *)
(***************************************************************************)
EXTENDS ThreadPool, FiniteSetTheorems, TLAPS

-----------------------------------------------------------------------------
(* The inductive invariant.                                                *)

States == {"Pending", "Signaled", "Waking", "Shutdown"}

Fields == {"is_waking", "is_idle", "acquire", "hold", "from", "visits", "target",
           "task", "pushed", "ret", "joined"}

\* The locals of x, field by field.
LocalsOK(x) ==
    /\ DOMAIN loc[x] = Fields
    /\ loc[x].is_waking \in BOOLEAN /\ loc[x].is_idle \in BOOLEAN
    /\ loc[x].acquire \in {"EMPTY", "WAITING"}
    /\ loc[x].hold \subseteq Tasks
    /\ loc[x].from \in Threads
    /\ loc[x].visits \in Int
    /\ loc[x].target \in Workers \cup {NoThread}
    /\ loc[x].task \in Tasks \cup {NoTask}
    /\ loc[x].pushed \in BOOLEAN
    /\ loc[x].ret \in {"main", "run"}
    /\ loc[x].joined \in BOOLEAN

LocTyped == DOMAIN loc = Threads /\ \A x \in Threads : LocalsOK(x)

PcTyped == pc \in [Threads -> Labels]

SyncTyped ==
    /\ DOMAIN sync = {"idle", "spawned", "notified", "state"}
    /\ sync.idle \in Int /\ sync.spawned \in Int
    /\ sync.notified \in BOOLEAN /\ sync.state \in States

TasksTyped ==
    /\ run_queue \in [Threads -> SUBSET Tasks]
    /\ consuming \in [Threads -> BOOLEAN]
    /\ run_buffer \in [Workers -> SUBSET Tasks]
    /\ count \in Int
    /\ fresh \subseteq Tasks /\ ran \subseteq Tasks

\* TypeOK without the bounds of the counters, which CountsAreExact gives.
Typed ==
    /\ SyncTyped /\ TasksTyped /\ PcTyped /\ LocTyped
    /\ event \in {"EMPTY", "WAITING", "NOTIFIED", "SHUTDOWN"}
    /\ threads \in Seq(Workers)
    /\ join_event \in BOOLEAN
    /\ idle_queue \subseteq Workers

NotifyLabels == {"n_fast", "n_slow", "n_event", "n_futex", "n_spawn"}
Dropping == {"i_event", "i_futex", "shutdown", "s_event", "s_futex", "join",
             "j_wait", "j_chain", "gone"}
AfterShutdown == {"s_event", "s_futex", "join", "j_wait", "j_chain", "gone"}
MainLabels == {"main"} \cup Dropping \cup NotifyLabels
Leaving == {"unregister", "u_notify", "u_wait", "dead"}
Asleep == {"event", "futex", "parked"}
Seeking == {"pop", "own", "global", "fill", "count", "visit", "steal"}
Busy == {"got", "run"} \cup NotifyLabels
WorkerLabels == {"unborn", "register", "wait"} \cup Leaving \cup Asleep
                \cup Seeking \cup Busy

\* A worker that walks the stack of workers finds it non-empty, and its next
\* victim on it.
Listed ==
    /\ \A w \in Workers : pc[w] \in WorkerLabels \ {"unborn", "register"}
                            => threads # <<>>
    /\ \A w \in Workers : loc[w].target # NoThread
                            => \E i \in DOMAIN threads : threads[i] = loc[w].target

\* What the place the owner is at says about its locals.
MainOK ==
    /\ pc[Main] \in MainLabels
    /\ pc[Main] \in NotifyLabels => loc[Main].ret = "main"
    /\ ~loc[Main].is_waking

\* What the place a worker is at says about its locals and its buffer.
WorkerOK(w) ==
    /\ pc[w] \in WorkerLabels
    /\ pc[w] \in NotifyLabels => loc[w].ret = "run"
    /\ loc[w].task # NoTask <=> pc[w] \in Busy
    /\ loc[w].hold # {} => pc[w] = "fill"
    /\ pc[w] = "steal" => loc[w].from \in Workers \ {w}
    /\ run_buffer[w] # {} => pc[w] \in {"pop"} \cup Busy
    /\ loc[w].is_idle => pc[w] \in {"wait"} \cup Asleep
    /\ pc[w] \in Asleep => loc[w].is_idle
    /\ loc[w].is_waking => /\ pc[w] \in {"wait", "got", "n_slow"} \cup Seeking
                           /\ ~loc[w].is_idle

InPlace == MainOK /\ \A w \in Workers : WorkerOK(w)

\* How far the drop of the pool has come.
Phase ==
    /\ sync.state = "Shutdown" <=> pc[Main] \in AfterShutdown
    /\ pc[Main] \in Dropping => count = 0
    /\ \A w \in Workers : pc[w] \in Leaving => sync.state = "Shutdown"
    /\ (\/ join_event
        \/ pc[Main] \in {"j_chain", "gone"}
        \/ \E w \in Workers : pc[w] = "u_notify")
         => sync.state = "Shutdown" /\ sync.spawned = 0

\* Task t is at a place of kind k, which belongs to thread x.
At(t, k, x) ==
    \/ k = "fresh" /\ x = Main /\ t \in fresh
    \/ k = "ran" /\ x = Main /\ t \in ran
    \/ k = "queue" /\ x \in Threads /\ t \in run_queue[x]
    \/ k = "buffer" /\ x \in Workers /\ t \in run_buffer[x]
    \/ k = "hold" /\ x \in Workers /\ t \in loc[x].hold
    \/ k = "task" /\ x \in Workers /\ t = loc[x].task

Kinds == {"fresh", "ran", "queue", "buffer", "hold", "task"}

\* Every task is at one place.
OnePlace ==
    \A t \in Tasks : \E k \in Kinds, x \in Threads :
        /\ At(t, k, x)
        /\ \A l \in Kinds, y \in Threads : At(t, l, y) => l = k /\ y = x

\* Buffers keep within their capacity, and so does what is going to fill one.
InBounds ==
    \A w \in Workers : /\ Cardinality(run_buffer[w]) <= Capacity
                       /\ Cardinality(loc[w].hold) <= Capacity + 1

CountIsExact == count = Cardinality(Outstanding)

Present == {w \in Workers : pc[w] \notin {"unborn", "u_notify", "u_wait", "dead"}}
Spawning == {x \in Threads : pc[x] = "n_spawn"}
Idle == {w \in Workers : loc[w].is_idle}

IInv ==
    /\ Typed /\ Listed /\ InPlace /\ Phase
    /\ OnePlace /\ InBounds /\ CountIsExact
    /\ OneWakingThread /\ CountsAreExact
    /\ sync.spawned <= max_threads
    /\ IdleTasksRun

-----------------------------------------------------------------------------
(* What each action does to the locals.                                    *)

LEMMA ThreadsAre == Main \in Threads /\ Workers \subseteq Threads
BY DEF Threads

\* No local changes, in any thread, but those named in S.
Keeps(S) ==
    /\ DOMAIN loc' = Threads
    /\ \A x \in Threads : /\ DOMAIN loc'[x] = Fields
                          /\ \A f \in Fields \ S : loc'[x][f] = loc[x][f]

\* The same, and thread y is the only one whose locals change at all.
KeepsBut(y, S) ==
    /\ Keeps(S)
    /\ \A x \in Threads \ {y} : loc'[x] = loc[x]

\* If the locals of y that a step changes have their type, all of them do.
LEMMA KeptLocals ==
    ASSUME Typed, NEW y \in Threads, NEW S, KeepsBut(y, S),
           "is_waking" \in S => loc'[y].is_waking \in BOOLEAN,
           "is_idle" \in S => loc'[y].is_idle \in BOOLEAN,
           "acquire" \in S => loc'[y].acquire \in {"EMPTY", "WAITING"},
           "hold" \in S => loc'[y].hold \subseteq Tasks,
           "from" \in S => loc'[y].from \in Threads,
           "visits" \in S => loc'[y].visits \in Int,
           "target" \in S => loc'[y].target \in Workers \cup {NoThread},
           "task" \in S => loc'[y].task \in Tasks \cup {NoTask},
           "pushed" \in S => loc'[y].pushed \in BOOLEAN,
           "ret" \in S => loc'[y].ret \in {"main", "run"},
           "joined" \in S => loc'[y].joined \in BOOLEAN
    PROVE  LocTyped'
<1>1. LocalsOK(y)'
  BY DEF Typed, LocTyped, LocalsOK, Keeps, KeepsBut, Fields
<1>2. \A x \in Threads \ {y} : LocalsOK(x)'
  BY DEF Typed, LocTyped, LocalsOK, KeepsBut
<1> QED BY <1>1, <1>2 DEF LocTyped, KeepsBut, Keeps

LEMMA NotifySlowLocals ==
    ASSUME Typed, NEW x \in Threads, NotifySlow(x)
    PROVE  KeepsBut(x, {"is_waking"}) /\ loc'[x].is_waking = FALSE /\ LocTyped'
<1>1. KeepsBut(x, {"is_waking"}) /\ loc'[x].is_waking = FALSE
  BY DEF NotifySlow, Typed, LocTyped, LocalsOK, Keeps, KeepsBut, Fields
<1> QED BY <1>1, ThreadsAre, KeptLocals DEF Typed, LocTyped, LocalsOK

LEMMA WaitShutdownLocals ==
    ASSUME Typed, NEW w \in Workers, WaitShutdown(w)
    PROVE  KeepsBut(w, Fields) /\ loc'[w] = NoLocals /\ LocTyped'
<1>1. KeepsBut(w, Fields) /\ loc'[w] = NoLocals
  BY ThreadsAre DEF WaitShutdown, Typed, LocTyped, LocalsOK, Keeps, KeepsBut, Fields, NoLocals
<1>2. LocalsOK(w)'
  BY <1>1, ThreadsAre DEF NoLocals, LocalsOK, Fields
<1> QED BY <1>1, <1>2, ThreadsAre, KeptLocals DEF LocalsOK

LEMMA WaitNotifiedLocals ==
    ASSUME Typed, NEW w \in Workers, WaitNotified(w)
    PROVE  /\ KeepsBut(w, {"is_waking", "is_idle"})
           /\ loc'[w].is_waking = (loc[w].is_waking \/ sync.state = "Signaled")
           /\ loc'[w].is_idle = FALSE
           /\ LocTyped'
<1>1. /\ KeepsBut(w, {"is_waking", "is_idle"})
      /\ loc'[w].is_waking = (loc[w].is_waking \/ sync.state = "Signaled")
      /\ loc'[w].is_idle = FALSE
  BY ThreadsAre DEF WaitNotified, Typed, LocTyped, LocalsOK, Keeps, KeepsBut, Fields
<1> QED BY <1>1, ThreadsAre, KeptLocals DEF Typed, LocTyped, LocalsOK

LEMMA WaitIdleLocals ==
    ASSUME Typed, NEW w \in Workers, WaitIdle(w)
    PROVE  /\ KeepsBut(w, {"is_waking", "is_idle"})
           /\ loc'[w].is_waking = FALSE /\ loc'[w].is_idle = TRUE
           /\ LocTyped'
<1>1. /\ KeepsBut(w, {"is_waking", "is_idle"})
      /\ loc'[w].is_waking = FALSE /\ loc'[w].is_idle = TRUE
  BY ThreadsAre DEF WaitIdle, Typed, LocTyped, LocalsOK, Keeps, KeepsBut, Fields
<1> QED BY <1>1, ThreadsAre, KeptLocals DEF Typed, LocTyped, LocalsOK

LEMMA EventWaitLocals ==
    ASSUME Typed, NEW w \in Workers, EventWait(w)
    PROVE  /\ KeepsBut(w, {"acquire"})
           /\ loc'[w].acquire \in {"EMPTY", "WAITING"}
           /\ LocTyped'
<1>1. /\ KeepsBut(w, {"acquire"})
      /\ loc'[w].acquire \in {"EMPTY", "WAITING"}
  BY ThreadsAre DEF EventWait, Typed, LocTyped, LocalsOK, Keeps, KeepsBut, Fields
<1> QED BY <1>1, ThreadsAre, KeptLocals DEF Typed, LocTyped, LocalsOK

LEMMA AwakenLocals ==
    ASSUME Typed, NEW W, Awaken(W)
    PROVE  /\ Keeps({"acquire"})
           /\ \A x \in Threads : loc'[x].acquire = IF x \in W THEN "WAITING"
                                                   ELSE loc[x].acquire
           /\ LocTyped'
<1>1. /\ Keeps({"acquire"})
      /\ \A x \in Threads : loc'[x].acquire = IF x \in W THEN "WAITING"
                                              ELSE loc[x].acquire
  BY DEF Awaken, Typed, LocTyped, LocalsOK, Keeps, Fields
<1>2. \A x \in Threads : LocalsOK(x)'
  BY <1>1 DEF Typed, LocTyped, LocalsOK, Keeps, Fields
<1> QED BY <1>1, <1>2 DEF LocTyped, Keeps

LEMMA PopBufferLocals ==
    ASSUME Typed, NEW w \in Workers, NEW t \in Tasks, loc' = [loc EXCEPT ![w].task = t, ![w].pushed = FALSE]
    PROVE  /\ KeepsBut(w, {"task", "pushed"})
           /\ loc'[w].task = t /\ loc'[w].pushed = FALSE
           /\ LocTyped'
<1>1. /\ KeepsBut(w, {"task", "pushed"})
      /\ loc'[w].task = t /\ loc'[w].pushed = FALSE
  BY ThreadsAre DEF Typed, LocTyped, LocalsOK, Keeps, KeepsBut, Fields
<1> QED BY <1>1, ThreadsAre, KeptLocals DEF Typed, LocTyped, LocalsOK

LEMMA GrabLocals ==
    ASSUME Typed, NEW w \in Workers, NEW S \in SUBSET Tasks, NEW q \in Threads,
           loc' = [loc EXCEPT ![w].hold = S, ![w].from = q]
    PROVE  /\ KeepsBut(w, {"hold", "from"})
           /\ loc'[w].hold = S /\ loc'[w].from = q
           /\ LocTyped'
<1>1. /\ KeepsBut(w, {"hold", "from"})
      /\ loc'[w].hold = S /\ loc'[w].from = q
  BY ThreadsAre DEF Typed, LocTyped, LocalsOK, Keeps, KeepsBut, Fields
<1> QED BY <1>1, ThreadsAre, KeptLocals DEF Typed, LocTyped, LocalsOK

LEMMA FillLocals ==
    ASSUME Typed, NEW w \in Workers, NEW t \in Tasks, NEW b \in BOOLEAN,
           loc' = [loc EXCEPT ![w].task = t, ![w].hold = {}, ![w].from = Main,
                              ![w].visits = 0, ![w].pushed = b]
    PROVE  /\ KeepsBut(w, {"task", "hold", "from", "visits", "pushed"})
           /\ loc'[w].task = t /\ loc'[w].hold = {} /\ loc'[w].from = Main
           /\ loc'[w].visits = 0 /\ loc'[w].pushed = b
           /\ LocTyped'
<1>1. /\ KeepsBut(w, {"task", "hold", "from", "visits", "pushed"})
      /\ loc'[w].task = t /\ loc'[w].hold = {} /\ loc'[w].from = Main
      /\ loc'[w].visits = 0 /\ loc'[w].pushed = b
  BY ThreadsAre DEF Typed, LocTyped, LocalsOK, Keeps, KeepsBut, Fields
<1> QED BY <1>1, ThreadsAre, KeptLocals DEF Typed, LocTyped, LocalsOK

LEMMA PopCountLocals ==
    ASSUME Typed, NEW w \in Workers, PopCount(w)
    PROVE  KeepsBut(w, {"visits"}) /\ loc'[w].visits = sync.spawned /\ LocTyped'
<1>1. KeepsBut(w, {"visits"}) /\ loc'[w].visits = sync.spawned
  BY ThreadsAre DEF PopCount, Typed, LocTyped, LocalsOK, Keeps, KeepsBut, Fields
<1> QED BY <1>1, ThreadsAre, KeptLocals DEF Typed, LocTyped, LocalsOK, SyncTyped

LEMMA VisitGrabLocals ==
    ASSUME Typed, NEW w \in Workers, NEW n \in Workers \cup {NoThread},
           NEW S \in SUBSET Tasks, NEW t \in Threads,
           loc' = [[loc EXCEPT ![w].target = n] EXCEPT ![w].hold = S, ![w].from = t]
    PROVE  /\ KeepsBut(w, {"target", "hold", "from"})
           /\ loc'[w].target = n /\ loc'[w].hold = S /\ loc'[w].from = t
           /\ LocTyped'
<1>1. /\ KeepsBut(w, {"target", "hold", "from"})
      /\ loc'[w].target = n /\ loc'[w].hold = S /\ loc'[w].from = t
  BY ThreadsAre DEF Typed, LocTyped, LocalsOK, Keeps, KeepsBut, Fields
<1> QED BY <1>1, ThreadsAre, KeptLocals DEF Typed, LocTyped, LocalsOK

LEMMA VisitSelfLocals ==
    ASSUME Typed, NEW w \in Workers, NEW n \in Workers \cup {NoThread},
           loc' = [[loc EXCEPT ![w].target = n] EXCEPT ![w].visits = @ - 1]
    PROVE  /\ KeepsBut(w, {"target", "visits"})
           /\ loc'[w].target = n /\ loc'[w].visits = loc[w].visits - 1
           /\ LocTyped'
<1>1. /\ KeepsBut(w, {"target", "visits"})
      /\ loc'[w].target = n /\ loc'[w].visits = loc[w].visits - 1
  BY ThreadsAre DEF Typed, LocTyped, LocalsOK, Keeps, KeepsBut, Fields
<1> QED BY <1>1, ThreadsAre, KeptLocals DEF Typed, LocTyped, LocalsOK

LEMMA VisitOtherLocals ==
    ASSUME Typed, NEW w \in Workers, NEW n \in Workers \cup {NoThread}, NEW t \in Threads,
           loc' = [[loc EXCEPT ![w].target = n] EXCEPT ![w].from = t]
    PROVE  /\ KeepsBut(w, {"target", "from"})
           /\ loc'[w].target = n /\ loc'[w].from = t
           /\ LocTyped'
<1>1. /\ KeepsBut(w, {"target", "from"})
      /\ loc'[w].target = n /\ loc'[w].from = t
  BY ThreadsAre DEF Typed, LocTyped, LocalsOK, Keeps, KeepsBut, Fields
<1> QED BY <1>1, ThreadsAre, KeptLocals DEF Typed, LocTyped, LocalsOK

LEMMA StealNoneLocals ==
    ASSUME Typed, NEW w \in Workers,
           loc' = [loc EXCEPT ![w].visits = @ - 1, ![w].from = Main]
    PROVE  /\ KeepsBut(w, {"visits", "from"})
           /\ loc'[w].visits = loc[w].visits - 1 /\ loc'[w].from = Main
           /\ LocTyped'
<1>1. /\ KeepsBut(w, {"visits", "from"})
      /\ loc'[w].visits = loc[w].visits - 1 /\ loc'[w].from = Main
  BY ThreadsAre DEF Typed, LocTyped, LocalsOK, Keeps, KeepsBut, Fields
<1> QED BY <1>1, ThreadsAre, KeptLocals DEF Typed, LocTyped, LocalsOK

LEMMA StealLocals ==
    ASSUME Typed, NEW w \in Workers, NEW t \in Tasks, NEW b \in BOOLEAN,
           loc' = [loc EXCEPT ![w].task = t, ![w].pushed = b,
                              ![w].visits = 0, ![w].from = Main]
    PROVE  /\ KeepsBut(w, {"task", "pushed", "visits", "from"})
           /\ loc'[w].task = t /\ loc'[w].pushed = b
           /\ loc'[w].visits = 0 /\ loc'[w].from = Main
           /\ LocTyped'
<1>1. /\ KeepsBut(w, {"task", "pushed", "visits", "from"})
      /\ loc'[w].task = t /\ loc'[w].pushed = b
      /\ loc'[w].visits = 0 /\ loc'[w].from = Main
  BY ThreadsAre DEF Typed, LocTyped, LocalsOK, Keeps, KeepsBut, Fields
<1> QED BY <1>1, ThreadsAre, KeptLocals DEF Typed, LocTyped, LocalsOK

LEMMA GotLocals ==
    ASSUME Typed, NEW w \in Workers, Got(w)
    PROVE  /\ KeepsBut(w, {"ret", "pushed"})
           /\ loc'[w].ret = "run" /\ loc'[w].pushed = FALSE
           /\ LocTyped'
<1>1. /\ KeepsBut(w, {"ret", "pushed"})
      /\ loc'[w].ret = "run" /\ loc'[w].pushed = FALSE
  BY ThreadsAre DEF Got, Typed, LocTyped, LocalsOK, Keeps, KeepsBut, Fields
<1> QED BY <1>1, ThreadsAre, KeptLocals DEF Typed, LocTyped, LocalsOK

LEMMA RetLocals ==
    ASSUME Typed, NEW x \in Threads, NEW l \in {"main", "run"}, loc' = [loc EXCEPT ![x].ret = l]
    PROVE  KeepsBut(x, {"ret"}) /\ loc'[x].ret = l /\ LocTyped'
<1>1. KeepsBut(x, {"ret"}) /\ loc'[x].ret = l
  BY DEF Typed, LocTyped, LocalsOK, Keeps, KeepsBut, Fields
<1> QED BY <1>1, ThreadsAre, KeptLocals DEF Typed, LocTyped, LocalsOK

LEMMA FinishLocals ==
    ASSUME Typed, NEW w \in Workers, Finish(w)
    PROVE  /\ KeepsBut(w, {"task", "ret"})
           /\ loc'[w].task = NoTask /\ loc'[w].ret = "main"
           /\ LocTyped'
<1>1. /\ KeepsBut(w, {"task", "ret"})
      /\ loc'[w].task = NoTask /\ loc'[w].ret = "main"
  BY ThreadsAre DEF Finish, Typed, LocTyped, LocalsOK, Keeps, KeepsBut, Fields
<1> QED BY <1>1, ThreadsAre, KeptLocals DEF Typed, LocTyped, LocalsOK

LEMMA UnregisterWaitLocals ==
    ASSUME Typed, NEW w \in Workers, UnregisterWait(w)
    PROVE  Keeps({"joined"}) /\ \A x \in Threads : loc'[x].joined \in BOOLEAN /\ LocTyped'
<1>1. Keeps({"joined"}) /\ \A x \in Threads : loc'[x].joined \in BOOLEAN
  BY DEF UnregisterWait, Typed, LocTyped, LocalsOK, Keeps, Fields
<1>2. \A x \in Threads : LocalsOK(x)'
  BY <1>1 DEF Typed, LocTyped, LocalsOK, Keeps, Fields
<1> QED BY <1>1, <1>2 DEF LocTyped, Keeps

LEMMA JoinChainLocals ==
    ASSUME Typed, JoinChain
    PROVE  Keeps({"joined"}) /\ \A x \in Threads : loc'[x].joined \in BOOLEAN /\ LocTyped'
<1>1. Keeps({"joined"}) /\ \A x \in Threads : loc'[x].joined \in BOOLEAN
  BY DEF JoinChain, Typed, LocTyped, LocalsOK, Keeps, Fields
<1>2. \A x \in Threads : LocalsOK(x)'
  BY <1>1 DEF Typed, LocTyped, LocalsOK, Keeps, Fields
<1> QED BY <1>1, <1>2 DEF LocTyped, Keeps

\* A step that changes no locals.
LEMMA NoLocalsChange ==
    ASSUME Typed, UNCHANGED loc
    PROVE  /\ \A S : Keeps(S)
           /\ \A y, S : KeepsBut(y, S)
           /\ LocTyped'
BY DEF Typed, LocTyped, LocalsOK, Keeps, KeepsBut

-----------------------------------------------------------------------------
(* Types.                                                                  *)

\* The four outcomes of notify_slow(), field by field.
LEMMA NotifySlowSync ==
    ASSUME Typed, NEW x \in Threads, NotifySlow(x)
    PROVE  /\ SyncTyped' /\ sync'.idle = sync.idle
           /\ \/ /\ sync.state = "Shutdown" /\ sync' = sync
                 /\ Goto(x, loc[x].ret)
              \/ /\ sync.state # "Shutdown" /\ CanWake(x) /\ sync.idle > 0
                 /\ sync'.notified = TRUE /\ sync'.state = "Signaled"
                 /\ sync'.spawned = sync.spawned /\ Goto(x, "n_event")
              \/ /\ sync.state # "Shutdown" /\ CanWake(x)
                 /\ sync.idle = 0 /\ sync.spawned < max_threads
                 /\ sync'.notified = TRUE /\ sync'.state = "Signaled"
                 /\ sync'.spawned = sync.spawned + 1 /\ Goto(x, "n_spawn")
              \/ /\ sync.state # "Shutdown"
                 /\ ~(CanWake(x) /\ (sync.idle > 0 \/ (sync.idle = 0 /\ sync.spawned < max_threads)))
                 /\ sync'.notified = TRUE
                 /\ sync'.state = IF loc[x].is_waking THEN "Pending" ELSE sync.state
                 /\ sync'.spawned = sync.spawned /\ Goto(x, loc[x].ret)
<1> DEFINE noted == [sync EXCEPT !.notified = TRUE]
<1>1. /\ DOMAIN noted = DOMAIN sync /\ noted.notified = TRUE
      /\ noted.idle = sync.idle /\ noted.spawned = sync.spawned
      /\ noted.state = sync.state
  BY DEF Typed, SyncTyped
<1> HIDE DEF noted
<1>2. CASE sync.state = "Shutdown"
  BY <1>2 DEF NotifySlow, Typed, SyncTyped
<1>3. CASE sync.state # "Shutdown" /\ CanWake(x) /\ sync.idle > 0
  <2>1. sync' = [noted EXCEPT !.state = "Signaled"] /\ Goto(x, "n_event")
    BY <1>3 DEF NotifySlow, noted, Typed, SyncTyped
  <2> QED BY <1>1, <1>3, <2>1 DEF Typed, SyncTyped, States
<1>4. CASE /\ sync.state # "Shutdown" /\ CanWake(x)
           /\ sync.idle = 0 /\ sync.spawned < max_threads
  <2>1. /\ sync' = [noted EXCEPT !.state = "Signaled", !.spawned = @ + 1]
        /\ Goto(x, "n_spawn")
    BY <1>4 DEF NotifySlow, noted
  <2>2. /\ DOMAIN sync' = DOMAIN sync /\ sync'.state = "Signaled"
        /\ sync'.notified = TRUE /\ sync'.notified \in BOOLEAN
    BY <1>1, <2>1 DEF Typed, SyncTyped
  <2>3. sync'.idle = sync.idle /\ sync'.spawned = sync.spawned + 1
    BY <1>1, <2>1 DEF Typed, SyncTyped
  <2>4. SyncTyped'
    BY <2>2, <2>3 DEF Typed, SyncTyped, States
  <2> QED BY <1>4, <2>1, <2>2, <2>3, <2>4
<1>5. CASE /\ sync.state # "Shutdown"
           /\ ~(CanWake(x) /\ (sync.idle > 0 \/ (sync.idle = 0 /\ sync.spawned < max_threads)))
  <2>1. /\ sync' = IF loc[x].is_waking THEN [noted EXCEPT !.state = "Pending"]
                   ELSE noted
        /\ Goto(x, loc[x].ret)
    <3>1. /\ ~(CanWake(x) /\ sync.idle > 0)
          /\ ~(CanWake(x) /\ sync.idle = 0 /\ sync.spawned < max_threads)
      BY <1>5
    <3> QED BY <1>5, <3>1, Zenon DEF NotifySlow, noted
  <2> QED BY <1>1, <1>5, <2>1 DEF Typed, SyncTyped, States
<1> QED BY <1>2, <1>3, <1>4, <1>5

LEMMA NotifyTyped == ASSUME Typed, NEW x \in Threads, Notify(x) PROVE Typed'
<1>0. /\ loc[x].ret \in Labels
      /\ {"n_slow", "n_event", "n_spawn", "n_futex", "event", "register"} \subseteq Labels
  BY DEF Typed, LocTyped, LocalsOK, Labels
<1>1. CASE NotifyFast(x)
  BY <1>0, <1>1, NoLocalsChange DEF NotifyFast, Goto, Typed, SyncTyped, TasksTyped, PcTyped, queues
<1>2. CASE NotifySlow(x)
  <2>1. LocTyped' BY <1>2, NotifySlowLocals
  <2>2. SyncTyped' BY <1>2, NotifySlowSync
  <2>3. PcTyped' BY <1>0, <1>2 DEF NotifySlow, Goto, Typed, PcTyped
  <2> QED BY <1>2, <2>1, <2>2, <2>3 DEF NotifySlow, Typed, TasksTyped, queues
<1>3. CASE NotifyEvent(x)
  BY <1>0, <1>3, NoLocalsChange DEF NotifyEvent, Goto, Typed, SyncTyped, TasksTyped, PcTyped, queues
<1>4. CASE NotifyFutex(x)
  <2>1. LocTyped' BY <1>4, AwakenLocals, NoLocalsChange DEF NotifyFutex
  <2>2. PcTyped' BY <1>0, <1>4, ThreadsAre DEF NotifyFutex, Goto, Parked, Typed, PcTyped
  <2> QED BY <1>4, <2>1, <2>2 DEF NotifyFutex, Typed, SyncTyped, TasksTyped, queues
<1>5. CASE Spawn(x)
  <2>1. PcTyped' BY <1>0, <1>5 DEF Spawn, Typed, PcTyped
  <2> QED BY <1>5, <2>1, NoLocalsChange DEF Spawn, Typed, SyncTyped, TasksTyped, queues
<1>6. CASE SpawnFailed(x)
  BY <1>0, <1>6, NoLocalsChange DEF SpawnFailed, Goto, Typed, SyncTyped, TasksTyped, PcTyped, queues
<1> QED BY <1>1, <1>2, <1>3, <1>4, <1>5, <1>6 DEF Notify

LEMMA MainTyped ==
    ASSUME Typed, \/ MainStep /\ ~Notify(Main)
                  \/ Warm \/ BeginDrop
                  \/ \E W \in SUBSET {threads[i] : i \in DOMAIN threads} : PushIdle(W)
    PROVE  Typed'
<1> USE ThreadsAre
<1>0. {"n_spawn", "i_event", "i_futex", "shutdown", "s_event", "s_futex", "join",
       "j_wait", "j_chain", "gone", "event"} \subseteq Labels
  BY DEF Labels
<1>1. CASE Warm
  <2>1. LocTyped' BY <1>1, RetLocals DEF Warm
  <2>2. PcTyped' BY <1>0, <1>1 DEF Warm, Goto, Typed, PcTyped
  <2> QED BY <1>1, <2>1, <2>2 DEF Warm, Typed, SyncTyped, TasksTyped, queues
<1>2. CASE BeginDrop
  BY <1>0, <1>2, NoLocalsChange DEF BeginDrop, Goto, Typed, SyncTyped, TasksTyped, PcTyped, queues
<1>3. ASSUME NEW W \in SUBSET {threads[i] : i \in DOMAIN threads}, PushIdle(W)
      PROVE  Typed'
  BY <1>0, <1>3, NoLocalsChange DEF PushIdle, Goto, Typed, SyncTyped, TasksTyped, PcTyped, queues
<1>4. CASE WakeForIdleEvents \/ ShutdownEvent
  BY <1>0, <1>4, NoLocalsChange
  DEF WakeForIdleEvents, ShutdownEvent, WakeAll, Goto, Typed, SyncTyped, TasksTyped, PcTyped, queues
<1>5. CASE WakeForIdleFutex \/ ShutdownFutex
  <2>1. LocTyped'
    BY <1>5, AwakenLocals DEF WakeForIdleFutex, ShutdownFutex, FutexAll
  <2>2. PcTyped'
    BY <1>0, <1>5 DEF WakeForIdleFutex, ShutdownFutex, FutexAll, Parked, Typed, PcTyped
  <2> QED BY <1>5, <2>1, <2>2
          DEF WakeForIdleFutex, ShutdownFutex, FutexAll, Typed, SyncTyped, TasksTyped, queues
<1>6. CASE Shutdown
  <2>1. SyncTyped' BY <1>6 DEF Shutdown, Typed, SyncTyped, States
  <2> QED BY <1>0, <1>6, <2>1, NoLocalsChange DEF Shutdown, Goto, Typed, TasksTyped, PcTyped, queues
<1>7. CASE Join \/ JoinWait
  BY <1>0, <1>7, NoLocalsChange DEF Join, JoinWait, Goto, Typed, SyncTyped, TasksTyped, PcTyped, queues
<1>8. CASE JoinChain
  <2>1. LocTyped' BY <1>8, JoinChainLocals
  <2> QED BY <1>0, <1>8, <2>1 DEF JoinChain, Goto, Typed, SyncTyped, TasksTyped, PcTyped, queues
<1> QED BY <1>1, <1>2, <1>3, <1>4, <1>5, <1>6, <1>7, <1>8 DEF MainStep

\* The next victim of a walk is a worker on the stack.
LEMMA NextOfListed ==
    ASSUME Typed, NEW v, \E i \in DOMAIN threads : threads[i] = v
    PROVE  /\ NextOf(v) \in Workers \cup {NoThread}
           /\ NextOf(v) # NoThread => \E i \in DOMAIN threads : threads[i] = NextOf(v)
<1> DEFINE i == CHOOSE j \in DOMAIN threads : threads[j] = v
<1>1. i \in DOMAIN threads
  OBVIOUS
<1>2. NextOf(v) = IF i = Len(threads) THEN NoThread ELSE threads[i + 1]
  BY DEF NextOf
<1> HIDE DEF i
<1>3. i # Len(threads) => i + 1 \in DOMAIN threads
  BY <1>1 DEF Typed
<1> QED BY <1>1, <1>2, <1>3 DEF Typed

Victim(w) == IF loc[w].target = NoThread THEN Head(threads) ELSE loc[w].target

\* One turn of the stealing loop, with its victim.
LEMMA VisitCases ==
    ASSUME Typed, Listed, NEW w \in Workers, Visit(w)
    PROVE  /\ Victim(w) \in Workers
           /\ loc'[w].target # NoThread =>
                \E i \in DOMAIN threads : threads[i] = loc'[w].target
           /\ LocTyped'
           /\ \/ \E S \in SUBSET run_queue[Victim(w)] :
                   /\ ~consuming[Victim(w)] /\ run_queue[Victim(w)] # {}
                   /\ Cardinality(S) = Min({Cardinality(run_queue[Victim(w)]), Capacity + 1})
                   /\ run_queue' = [run_queue EXCEPT ![Victim(w)] = @ \ S]
                   /\ consuming' = [consuming EXCEPT ![Victim(w)] = TRUE]
                   /\ KeepsBut(w, {"target", "hold", "from"})
                   /\ loc'[w].hold = S /\ loc'[w].from = Victim(w)
                   /\ Goto(w, "fill")
              \/ /\ CannotGrab(Victim(w))
                 /\ KeepsBut(w, {"target", "visits"})
                 /\ UNCHANGED <<run_queue, consuming, pc>>
              \/ /\ CannotGrab(Victim(w)) /\ Victim(w) # w
                 /\ KeepsBut(w, {"target", "from"})
                 /\ loc'[w].from = Victim(w)
                 /\ Goto(w, "steal")
                 /\ UNCHANGED <<run_queue, consuming>>
<1> USE ThreadsAre
<1>1. pc[w] = "visit"
  BY Zenon DEF Visit
<1>2. \E i \in DOMAIN threads : threads[i] = Victim(w)
  <2>1. CASE loc[w].target = NoThread
    <3>1. threads # <<>>
      BY <1>1 DEF Listed, WorkerLabels, Seeking
    <3>2. 1 \in DOMAIN threads /\ Head(threads) = threads[1]
      BY <3>1 DEF Typed
    <3> QED BY <2>1, <3>2 DEF Victim
  <2> QED BY <2>1 DEF Victim, Listed
<1>3. Victim(w) \in Workers
  BY <1>2 DEF Typed
<1> DEFINE n == NextOf(Victim(w))
           moved == [loc EXCEPT ![w].target = n]
<1>4. n \in Workers \cup {NoThread} /\ (n # NoThread => \E i \in DOMAIN threads : threads[i] = n)
  BY <1>2, NextOfListed
<1> HIDE DEF n
<1>5. \/ \E S \in SUBSET run_queue[Victim(w)] :
           /\ ~consuming[Victim(w)] /\ run_queue[Victim(w)] # {}
           /\ Cardinality(S) = Min({Cardinality(run_queue[Victim(w)]), Capacity + 1})
           /\ run_queue' = [run_queue EXCEPT ![Victim(w)] = @ \ S]
           /\ consuming' = [consuming EXCEPT ![Victim(w)] = TRUE]
           /\ loc' = [moved EXCEPT ![w].hold = S, ![w].from = Victim(w)]
           /\ Goto(w, "fill")
      \/ /\ CannotGrab(Victim(w))
         /\ loc' = [moved EXCEPT ![w].visits = @ - 1]
         /\ UNCHANGED <<run_queue, consuming, pc>>
      \/ /\ CannotGrab(Victim(w)) /\ Victim(w) # w
         /\ loc' = [moved EXCEPT ![w].from = Victim(w)]
         /\ Goto(w, "steal")
         /\ UNCHANGED <<run_queue, consuming>>
  BY Zenon DEF Visit, Victim, n
<1>6. ASSUME NEW S \in SUBSET run_queue[Victim(w)],
             loc' = [moved EXCEPT ![w].hold = S, ![w].from = Victim(w)]
      PROVE  /\ KeepsBut(w, {"target", "hold", "from"}) /\ LocTyped'
             /\ loc'[w].target = n /\ loc'[w].hold = S /\ loc'[w].from = Victim(w)
  <2>1. S \in SUBSET Tasks
    BY <1>3, <1>6 DEF Typed, TasksTyped
  <2> QED BY Zenon, <1>3, <1>4, <1>6, <2>1, VisitGrabLocals
<1>7. ASSUME loc' = [moved EXCEPT ![w].visits = @ - 1]
      PROVE  KeepsBut(w, {"target", "visits"}) /\ LocTyped' /\ loc'[w].target = n
  BY <1>4, <1>7, VisitSelfLocals
<1>8. ASSUME loc' = [moved EXCEPT ![w].from = Victim(w)]
      PROVE  /\ KeepsBut(w, {"target", "from"}) /\ LocTyped'
             /\ loc'[w].target = n /\ loc'[w].from = Victim(w)
  BY <1>3, <1>4, <1>8, VisitOtherLocals
<1> HIDE DEF moved
<1> QED BY <1>3, <1>4, <1>5, <1>6, <1>7, <1>8

LEMMA PopTyped ==
    ASSUME Typed, Listed, InPlace, NEW w \in Workers,
           \/ PopBuffer(w) \/ PopOwn(w) \/ PopGlobal(w) \/ Fill(w) \/ PopCount(w)
           \/ Visit(w) \/ Steal(w) \/ PopNone(w) \/ Got(w)
    PROVE  Typed'
<1> USE ThreadsAre
<1>0. {"got", "own", "global", "count", "fill", "visit", "steal", "wait", "n_slow",
       "n_fast", "run"} \subseteq Labels
  BY DEF Labels
<1>1. CASE PopBuffer(w)
  <2>1. LocTyped' /\ run_buffer' \in [Workers -> SUBSET Tasks]
    <3>1. CASE run_buffer[w] = {} /\ UNCHANGED <<run_buffer, loc>>
      BY <3>1, NoLocalsChange DEF Typed, TasksTyped
    <3>2. ASSUME NEW t \in run_buffer[w],
                 run_buffer' = [run_buffer EXCEPT ![w] = @ \ {t}],
                 loc' = [loc EXCEPT ![w].task = t, ![w].pushed = FALSE]
          PROVE  LocTyped' /\ run_buffer' \in [Workers -> SUBSET Tasks]
      BY <3>2, PopBufferLocals DEF Typed, TasksTyped
    <3> QED BY <1>1, <3>1, <3>2 DEF PopBuffer
  <2>2. PcTyped' BY <1>0, <1>1 DEF PopBuffer, Goto, Typed, PcTyped
  <2> QED BY <1>1, <2>1, <2>2 DEF PopBuffer, Typed, SyncTyped, TasksTyped
<1>2. ASSUME NEW l, NEW q \in Threads, NEW next \in Labels, PopQueue(w, l, q, next)
      PROVE  Typed'
  <2>1. CASE UNCHANGED <<queues, loc>> /\ Goto(w, next)
    BY <1>2, <2>1, NoLocalsChange
    DEF PopQueue, queues, Goto, Typed, SyncTyped, TasksTyped, PcTyped
  <2>2. CASE Grab(w, q)
    <3>1. PICK S \in SUBSET run_queue[q] :
             /\ run_queue' = [run_queue EXCEPT ![q] = @ \ S]
             /\ loc' = [loc EXCEPT ![w].hold = S, ![w].from = q]
      BY <2>2 DEF Grab
    <3>2. LocTyped' BY <3>1, GrabLocals DEF Typed, TasksTyped
    <3>3. run_queue' \in [Threads -> SUBSET Tasks] BY <3>1 DEF Typed, TasksTyped
    <3>4. PcTyped' BY <1>0, <2>2 DEF Grab, Goto, Typed, PcTyped
    <3> QED BY <1>2, <2>2, <3>2, <3>3, <3>4 DEF PopQueue, Grab, Typed, SyncTyped, TasksTyped
  <2> QED BY <1>2, <2>1, <2>2 DEF PopQueue
<1>3. CASE PopOwn(w) \/ PopGlobal(w)
  BY <1>0, <1>2, <1>3 DEF PopOwn, PopGlobal
<1>4. CASE Fill(w)
  <2>1. PICK t \in loc[w].hold :
           /\ run_buffer' = [run_buffer EXCEPT ![w] = loc[w].hold \ {t}]
           /\ loc' = [loc EXCEPT ![w].task = t, ![w].hold = {},
                                 ![w].from = Main, ![w].visits = 0,
                                 ![w].pushed = loc[w].hold # {t}]
    BY Zenon, <1>4 DEF Fill
  <2>2. loc[w].hold \subseteq Tasks /\ loc[w].from \in Threads
    BY DEF Typed, LocTyped, LocalsOK
  <2>3. LocTyped' BY Zenon, <2>1, <2>2, FillLocals
  <2>4. run_buffer' \in [Workers -> SUBSET Tasks] BY <2>1, <2>2 DEF Typed, TasksTyped
  <2>5. PcTyped' BY Zenon, <1>0, <1>4 DEF Fill, Goto, Typed, PcTyped
  <2> QED BY Zenon, <1>4, <2>3, <2>4, <2>5 DEF Fill, Typed, SyncTyped, TasksTyped
<1>5. CASE PopCount(w)
  <2>1. LocTyped' BY <1>5, PopCountLocals
  <2> QED BY <1>0, <1>5, <2>1 DEF PopCount, Goto, Typed, SyncTyped, TasksTyped, PcTyped, queues
<1>6. CASE Visit(w)
  <2>1. LocTyped' BY <1>6, VisitCases
  <2>2. run_queue' \in [Threads -> SUBSET Tasks] /\ consuming' \in [Threads -> BOOLEAN]
    <3>1. Victim(w) \in Threads
      BY <1>6, VisitCases
    <3>2. CASE UNCHANGED <<run_queue, consuming>>
      BY <3>2 DEF Typed, TasksTyped
    <3>3. ASSUME NEW S, run_queue' = [run_queue EXCEPT ![Victim(w)] = @ \ S],
                 consuming' = [consuming EXCEPT ![Victim(w)] = TRUE]
          PROVE  /\ run_queue' \in [Threads -> SUBSET Tasks]
                 /\ consuming' \in [Threads -> BOOLEAN]
      BY <3>1, <3>3 DEF Typed, TasksTyped
    <3> QED BY <1>6, <3>2, <3>3, VisitCases
  <2>3. PcTyped' BY Zenon, <1>0, <1>6, VisitCases DEF Goto, Typed, PcTyped
  <2> QED BY Zenon, <1>6, <2>1, <2>2, <2>3 DEF Visit, Typed, SyncTyped, TasksTyped
<1>7. CASE Steal(w)
  <2>1. CASE /\ loc' = [loc EXCEPT ![w].visits = @ - 1, ![w].from = Main]
             /\ UNCHANGED run_buffer /\ Goto(w, "visit")
    <3>1. LocTyped' BY <2>1, StealNoneLocals
    <3> QED BY Zenon, <1>0, <1>7, <2>1, <3>1 DEF Steal, Goto, Typed, SyncTyped, TasksTyped, PcTyped
  <2>2. ASSUME NEW S \in SUBSET run_buffer[loc[w].from], NEW t \in S,
               run_buffer' = [run_buffer EXCEPT ![loc[w].from] = @ \ S, ![w] = S \ {t}],
               loc' = [loc EXCEPT ![w].task = t, ![w].pushed = S # {t},
                                  ![w].visits = 0, ![w].from = Main],
               Goto(w, "got")
        PROVE  Typed'
    <3>1. loc[w].from \in Workers
      BY Zenon, <1>7 DEF Steal, InPlace, WorkerOK
    <3>2. S \subseteq Tasks
      BY <3>1 DEF Typed, TasksTyped
    <3>3. LocTyped' BY Zenon, <2>2, <3>2, StealLocals
    <3>4. run_buffer' \in [Workers -> SUBSET Tasks]
      BY Zenon, <2>2, <3>1, <3>2 DEF Typed, TasksTyped
    <3> QED BY Zenon, <1>0, <1>7, <2>2, <3>3, <3>4
            DEF Steal, Goto, Typed, SyncTyped, TasksTyped, PcTyped
  <2> QED BY Zenon, <1>7, <2>1, <2>2 DEF Steal
<1>8. CASE PopNone(w)
  BY <1>0, <1>8, NoLocalsChange DEF PopNone, Goto, Typed, SyncTyped, TasksTyped, PcTyped, queues
<1>9. CASE Got(w)
  <2>1. LocTyped' BY <1>9, GotLocals
  <2> QED BY <1>0, <1>9, <2>1 DEF Got, Goto, Typed, SyncTyped, TasksTyped, PcTyped, queues
<1> QED BY <1>1, <1>3, <1>4, <1>5, <1>6, <1>7, <1>8, <1>9

LEMMA WorkerTyped ==
    ASSUME Typed, InPlace, NEW w \in Workers,
           \/ Register(w) \/ WaitShutdown(w) \/ WaitNotified(w) \/ WaitIdle(w)
           \/ WaitEvent(w) \/ EventWait(w) \/ EventFutex(w) \/ EventTimeout(w)
           \/ Finish(w) \/ Unregister(w) \/ UnregisterNotify(w) \/ UnregisterWait(w)
    PROVE  Typed'
<1> USE ThreadsAre
<1>0. {"wait", "unregister", "pop", "event", "futex", "parked", "u_notify", "u_wait",
       "dead"} \subseteq Labels
  BY DEF Labels
<1>1. CASE Register(w) \/ WaitEvent(w)
  <2>1. threads' \in Seq(Workers) BY <1>1 DEF Register, WaitEvent, Typed
  <2>2. PcTyped' BY <1>0, <1>1 DEF Register, WaitEvent, Goto, Typed, PcTyped
  <2> QED BY <1>1, <2>1, <2>2, NoLocalsChange
          DEF Register, WaitEvent, Typed, SyncTyped, TasksTyped, queues
<1>2. CASE WaitShutdown(w)
  <2>1. LocTyped' BY <1>2, WaitShutdownLocals
  <2> QED BY <1>0, <1>2, <2>1 DEF WaitShutdown, Goto, Typed, SyncTyped, TasksTyped, PcTyped, queues
<1>3. CASE WaitNotified(w)
  <2>1. LocTyped' BY <1>3, WaitNotifiedLocals
  <2>2. SyncTyped' BY <1>3 DEF WaitNotified, UncountIdle, Typed, SyncTyped, States
  <2> QED BY <1>0, <1>3, <2>1, <2>2 DEF WaitNotified, Goto, Typed, TasksTyped, PcTyped, queues
<1>4. CASE WaitIdle(w)
  <2>1. LocTyped' BY <1>4, WaitIdleLocals
  <2>2. SyncTyped' BY <1>4 DEF WaitIdle, Typed, SyncTyped, States
  <2> QED BY <1>4, <2>1, <2>2 DEF WaitIdle, Typed, TasksTyped, PcTyped, queues
<1>5. CASE EventWait(w)
  <2>1. LocTyped' BY <1>5, EventWaitLocals
  <2>2. event' \in {"EMPTY", "WAITING", "NOTIFIED", "SHUTDOWN"}
    BY <1>5 DEF EventWait, Typed, LocTyped, LocalsOK
  <2>3. PcTyped' BY <1>0, <1>5 DEF EventWait, Goto, Typed, PcTyped
  <2> QED BY <1>5, <2>1, <2>2, <2>3 DEF EventWait, Typed, SyncTyped, TasksTyped, queues
<1>6. CASE EventFutex(w) \/ EventTimeout(w)
  <2>1. LocTyped' BY <1>6, AwakenLocals, NoLocalsChange DEF EventFutex, EventTimeout
  <2>2. PcTyped' BY <1>0, <1>6 DEF EventFutex, EventTimeout, Goto, Typed, PcTyped
  <2> QED BY <1>6, <2>1, <2>2 DEF EventFutex, EventTimeout, Typed, SyncTyped, TasksTyped, queues
<1>7. CASE Finish(w)
  <2>1. LocTyped' BY <1>7, FinishLocals
  <2>2. loc[w].task \in Tasks
    BY <1>7 DEF Finish, InPlace, WorkerOK, Busy, Typed, LocTyped, LocalsOK
  <2>3. PcTyped' BY <1>0, <1>7 DEF Finish, Goto, Typed, PcTyped
  <2> QED BY <1>7, <2>1, <2>2, <2>3 DEF Finish, Typed, SyncTyped, TasksTyped, queues
<1>8. CASE Unregister(w) \/ UnregisterNotify(w)
  <2>1. SyncTyped' BY <1>8 DEF Unregister, UnregisterNotify, Typed, SyncTyped, States
  <2>2. PcTyped' BY <1>0, <1>8 DEF Unregister, UnregisterNotify, Goto, Typed, PcTyped
  <2> QED BY <1>8, <2>1, <2>2, NoLocalsChange
          DEF Unregister, UnregisterNotify, Typed, TasksTyped, queues
<1>9. CASE UnregisterWait(w)
  <2>1. LocTyped' BY <1>9, UnregisterWaitLocals
  <2> QED BY <1>0, <1>9, <2>1 DEF UnregisterWait, Goto, Typed, SyncTyped, TasksTyped, PcTyped, queues
<1> QED BY <1>1, <1>2, <1>3, <1>4, <1>5, <1>6, <1>7, <1>8, <1>9

LEMMA ScheduleTyped ==
    ASSUME Typed, InPlace,
           \/ \E x \in Threads, batch \in SUBSET Tasks : Schedule(x, batch)
           \/ \E w \in Workers, t \in Tasks : ScheduleInside(w, t)
    PROVE  Typed'
<1> USE ThreadsAre
<1>0. "n_fast" \in Labels
  BY DEF Labels
<1>1. ASSUME NEW x \in Threads, NEW batch \in SUBSET Tasks, Schedule(x, batch) PROVE Typed'
  <2>1. LocTyped' BY <1>1, RetLocals DEF Schedule
  <2>2. Cardinality(batch) \in Int BY TasksAssumption, FS_Subset, FS_CardinalityType
  <2>3. PcTyped' BY <1>0, <1>1 DEF Schedule, Goto, Typed, PcTyped
  <2>4. TasksTyped' BY <1>1, <2>2 DEF Schedule, Typed, TasksTyped
  <2> QED BY <1>1, <2>1, <2>3, <2>4 DEF Schedule, Typed, SyncTyped
<1>2. ASSUME NEW w \in Workers, NEW t \in Tasks, ScheduleInside(w, t) PROVE Typed'
  <2>1. LocTyped' BY <1>2, RetLocals DEF ScheduleInside
  <2>2. PcTyped' BY <1>0, <1>2 DEF ScheduleInside, Goto, Typed, PcTyped
  <2>3. TasksTyped' BY <1>2 DEF ScheduleInside, Typed, TasksTyped
  <2> QED BY <1>2, <2>1, <2>2, <2>3 DEF ScheduleInside, Typed, SyncTyped
<1> QED BY <1>1, <1>2

LEMMA TypedStep == ASSUME Typed, Listed, InPlace, Next PROVE Typed'
BY NotifyTyped, MainTyped, PopTyped, WorkerTyped, ScheduleTyped, ThreadsAre
DEF Next, MainStep, WorkerStep, Request

-----------------------------------------------------------------------------
(* A busy worker has an outstanding task, and a spawn has a thread to spawn. *)

\* A task is at no two places.
LEMMA OnlyPlace ==
    ASSUME OnePlace, NEW t \in Tasks, NEW k \in Kinds, NEW x \in Threads, At(t, k, x),
           NEW l \in Kinds, NEW y \in Threads, At(t, l, y)
    PROVE  k = l /\ x = y
BY DEF OnePlace

LEMMA OutstandingIsFinite ==
    /\ IsFiniteSet(Outstanding) /\ Cardinality(Outstanding) \in Nat
    /\ \A t \in Outstanding : Cardinality(Outstanding) # 0
<1>1. IsFiniteSet(Outstanding)
  BY TasksAssumption, FS_Subset DEF Outstanding
<1> QED BY <1>1, FS_CardinalityType, FS_EmptySet

LEMMA BusyIsOutstanding ==
    ASSUME IInv, NEW w \in Workers, pc[w] \in Busy
    PROVE  /\ loc[w].task \in Outstanding
           /\ count > 0 /\ pc[Main] \notin Dropping /\ sync.state # "Shutdown"
<1>1. loc[w].task \in Tasks
  BY ThreadsAre DEF IInv, InPlace, WorkerOK, Typed, LocTyped, LocalsOK
<1>2. At(loc[w].task, "task", w)
  BY DEF At
<1>3. ~At(loc[w].task, "fresh", Main) /\ ~At(loc[w].task, "ran", Main)
  BY <1>1, <1>2, OnlyPlace, ThreadsAre DEF IInv, Kinds
<1>4. loc[w].task \in Outstanding
  BY <1>1, <1>3 DEF At, Outstanding
<1>5. count > 0
  BY <1>4, OutstandingIsFinite DEF IInv, CountIsExact
<1> QED BY <1>4, <1>5 DEF IInv, Phase, Dropping, AfterShutdown

\* Nobody calls notify() on a pool that is shut down.
LEMMA NotifierIsEarly ==
    ASSUME IInv, NEW x \in Threads, pc[x] \in NotifyLabels
    PROVE  /\ sync.state # "Shutdown" /\ pc[Main] \notin Dropping
           /\ \A w \in Workers : pc[w] \notin Leaving
<1>1. CASE x = Main
  BY <1>1 DEF IInv, Phase, AfterShutdown, NotifyLabels, Dropping
<1>2. CASE x \in Workers
  BY <1>2, BusyIsOutstanding DEF Busy, IInv, Phase
<1> QED BY <1>1, <1>2 DEF Threads

LEMMA PresentIsFinite ==
    /\ IsFiniteSet(Workers) /\ max_threads \in Nat
    /\ IsFiniteSet(Present) /\ Cardinality(Present) \in Nat
    /\ Cardinality(Present) <= max_threads
    /\ IsFiniteSet(Spawning) /\ Cardinality(Spawning) \in Nat
    /\ IsFiniteSet(Idle) /\ Cardinality(Idle) \in Nat
<1>1. IsFiniteSet(Threads)
  BY WorkersAssumption, FS_AddElement DEF Threads
<1> QED BY <1>1, WorkersAssumption, FS_Subset, FS_CardinalityType
        DEF Present, Spawning, Idle, max_threads

LEMMA UnbornExists ==
    ASSUME IInv, NEW x \in Threads, pc[x] = "n_spawn"
    PROVE  \E w \in Workers : pc[w] = "unborn"
<1>1. SUFFICES ASSUME \A w \in Workers : pc[w] # "unborn"
               PROVE  FALSE
  OBVIOUS
<1>2. Present = Workers
  BY <1>1, NotifierIsEarly DEF Present, NotifyLabels, Leaving
<1>3. Cardinality(Spawning) # 0
  BY PresentIsFinite, FS_EmptySet DEF Spawning
<1> QED BY <1>2, <1>3, PresentIsFinite
        DEF IInv, CountsAreExact, Present, Spawning, max_threads

\* The thread that Spawn creates is one that was not there.
LEMMA SpawnCreates ==
    ASSUME IInv, NEW x \in Threads, Spawn(x)
    PROVE  \E n \in Workers : /\ pc[n] = "unborn" /\ n # x
                              /\ pc' = [pc EXCEPT ![x] = loc[x].ret, ![n] = "register"]
<1>1. pc[x] = "n_spawn"
  BY DEF Spawn
<1>2. PICK n \in Workers : n = CHOOSE w \in Workers : pc[w] = "unborn"
  BY <1>1, UnbornExists
<1>3. pc[n] = "unborn" /\ n # x
  BY <1>1, <1>2, UnbornExists
<1> QED BY <1>2, <1>3 DEF Spawn

-----------------------------------------------------------------------------
(* Where the threads are.                                                  *)

\* A worker that a step leaves alone, but for what is taken from its buffer.
LEMMA LeftAlone ==
    ASSUME NEW w \in Workers, WorkerOK(w),
           pc'[w] = pc[w], loc'[w] = loc[w], run_buffer'[w] \subseteq run_buffer[w]
    PROVE  WorkerOK(w)'
BY DEF WorkerOK

\* A worker step that leaves everybody else alone.
LEMMA OneMoves ==
    ASSUME Typed, InPlace, NEW w \in Workers, NEW S, KeepsBut(w, S), NEW l,
           pc' = [pc EXCEPT ![w] = l] \/ UNCHANGED pc,
           \A v \in Workers \ {w} : run_buffer'[v] \subseteq run_buffer[v],
           WorkerOK(w)'
    PROVE  InPlace'
<1>1. MainOK'
  BY MainAssumption, ThreadsAre DEF InPlace, MainOK, KeepsBut, Typed, PcTyped
<1>2. ASSUME NEW v \in Workers \ {w} PROVE WorkerOK(v)'
  BY <1>2, LeftAlone, ThreadsAre DEF InPlace, KeepsBut, Typed, PcTyped
<1> QED BY <1>1, <1>2 DEF InPlace

\* A step of the owner that leaves the workers alone.
LEMMA MainMoves ==
    ASSUME Typed, InPlace, NEW S, KeepsBut(Main, S), NEW l,
           pc' = [pc EXCEPT ![Main] = l], UNCHANGED run_buffer, MainOK'
    PROVE  InPlace'
<1>1. ASSUME NEW v \in Workers PROVE WorkerOK(v)'
  BY LeftAlone, MainAssumption, ThreadsAre DEF InPlace, KeepsBut, Typed, PcTyped
<1> QED BY <1>1 DEF InPlace

\* Workers that a futex wake lets go.
LEMMA Woken ==
    ASSUME Typed, NEW w \in Workers, WorkerOK(w), pc[w] = "parked", pc'[w] = "event",
           Keeps({"acquire"}), UNCHANGED run_buffer
    PROVE  WorkerOK(w)'
BY ThreadsAre DEF WorkerOK, Keeps, Fields, Typed, LocTyped, Asleep, WorkerLabels, NotifyLabels, Busy, Seeking

LEMMA NotifyInPlace ==
    ASSUME IInv, NEW x \in Threads, Notify(x)
    PROVE  InPlace'
<1> USE ThreadsAre DEF NotifyLabels, Leaving, Asleep, Seeking, Busy, WorkerLabels
<1>0. Typed /\ InPlace /\ PcTyped
  BY DEF IInv, Typed
<1>1. x = Main \/ x \in Workers
  BY DEF Threads
\* A step that sends x to l and changes at most is_waking, to FALSE.
<1>2. ASSUME NEW l, Goto(x, l), UNCHANGED run_buffer,
             pc[x] \in NotifyLabels, l \in NotifyLabels \cup {loc[x].ret},
             KeepsBut(x, {"is_waking"}), ~loc'[x].is_waking
      PROVE  InPlace'
  <2>1. loc'[x].ret = loc[x].ret
    BY <1>2 DEF KeepsBut, Keeps, Fields
  <2>2. CASE x = Main
    <3>1. MainOK'
      BY <1>0, <1>2, <2>1, <2>2 DEF Goto, InPlace, MainOK, PcTyped, MainLabels
    <3> QED BY <1>0, <1>2, <2>2, <3>1, MainMoves DEF Goto
  <2>3. CASE x \in Workers
    <3>1. WorkerOK(x)
      BY <1>0, <2>3 DEF InPlace
    <3>2. WorkerOK(x)'
      BY <1>0, <1>2, <2>1, <2>3, <3>1 DEF Goto, PcTyped, WorkerOK, KeepsBut, Keeps, Fields
    <3> QED BY <1>0, <1>2, <2>3, <3>2, OneMoves DEF Goto
  <2> QED BY <1>1, <2>2, <2>3
<1>3. CASE NotifySlow(x)
  <2>1. KeepsBut(x, {"is_waking"}) /\ ~loc'[x].is_waking
    BY <1>0, <1>3, NotifySlowLocals
  <2>2. /\ \E l \in NotifyLabels \cup {loc[x].ret} : Goto(x, l)
        /\ UNCHANGED run_buffer /\ pc[x] \in NotifyLabels
    BY <1>3 DEF NotifySlow, queues
  <2> QED BY <1>2, <2>1, <2>2
<1>4. CASE NotifyFast(x) \/ NotifyEvent(x) \/ SpawnFailed(x)
  <2>1. /\ \E l \in NotifyLabels \cup {loc[x].ret} : Goto(x, l)
        /\ UNCHANGED <<loc, run_buffer>> /\ pc[x] \in NotifyLabels \ {"n_slow"}
    BY <1>4 DEF NotifyFast, NotifyEvent, SpawnFailed, queues
  <2>2. ~loc[x].is_waking
    BY <1>0, <1>1, <2>1 DEF InPlace, MainOK, WorkerOK
  <2>3. KeepsBut(x, {"is_waking"})
    BY <1>0, <2>1, NoLocalsChange
  <2> QED BY <1>2, <2>1, <2>2, <2>3
<1>5. CASE NotifyFutex(x)
  <2>1. pc[x] = "n_futex" /\ UNCHANGED run_buffer
    BY <1>5 DEF NotifyFutex, queues
  <2>2. ~loc[x].is_waking
    BY <1>0, <1>1, <2>1 DEF InPlace, MainOK, WorkerOK
  <2>3. CASE Goto(x, loc[x].ret) /\ UNCHANGED loc
    BY <1>0, <1>2, <2>1, <2>2, <2>3, NoLocalsChange
  <2>4. ASSUME NEW w \in Parked, Awaken({w}),
               pc' = [pc EXCEPT ![x] = loc[x].ret, ![w] = "event"]
        PROVE  InPlace'
    <3>1. /\ w \in Workers /\ pc[w] = "parked" /\ w # x
          /\ pc'[x] = loc[x].ret /\ pc'[w] = "event"
          /\ \A v \in Threads \ {x, w} : pc'[v] = pc[v]
      BY <1>0, <2>1, <2>4 DEF Parked, PcTyped
    <3>2. Keeps({"acquire"})
      BY <1>0, <2>4, AwakenLocals
    <3>3. WorkerOK(w)'
      BY <1>0, <2>1, <3>1, <3>2, Woken DEF InPlace
    <3>4. x \in Workers => WorkerOK(x)'
      BY <1>0, <2>1, <2>2, <3>1, <3>2 DEF InPlace, WorkerOK, Keeps, Fields
    <3>5. MainOK'
      BY <1>0, <2>1, <3>1, <3>2, MainAssumption
      DEF InPlace, MainOK, Keeps, Fields, MainLabels
    <3>6. ASSUME NEW v \in Workers \ {x, w} PROVE WorkerOK(v)'
      BY <1>0, <2>1, <3>1, <3>2, <3>6 DEF InPlace, WorkerOK, Keeps, Fields
    <3> QED BY <3>3, <3>4, <3>5, <3>6 DEF InPlace
  <2> QED BY <1>5, <2>3, <2>4 DEF NotifyFutex
<1>6. CASE Spawn(x)
  <2>1. pc[x] = "n_spawn" /\ UNCHANGED <<run_buffer, loc>>
    BY <1>6 DEF Spawn, queues
  <2>2. PICK n \in Workers : /\ pc[n] = "unborn" /\ n # x
                             /\ pc' = [pc EXCEPT ![x] = loc[x].ret, ![n] = "register"]
    BY <1>6, SpawnCreates
  <2>3. /\ pc'[x] = loc[x].ret /\ pc'[n] = "register"
        /\ \A v \in Threads \ {x, n} : pc'[v] = pc[v]
    BY <1>0, <2>1, <2>2 DEF PcTyped
  <2>4. ~loc[x].is_waking
    BY <1>0, <1>1, <2>1 DEF InPlace, MainOK, WorkerOK
  <2>5. WorkerOK(n)'
    BY <1>0, <2>1, <2>2, <2>3 DEF InPlace, WorkerOK
  <2>6. x \in Workers => WorkerOK(x)'
    BY <1>0, <2>1, <2>3, <2>4 DEF InPlace, WorkerOK
  <2>7. MainOK'
    BY <1>0, <2>1, <2>2, <2>3, MainAssumption DEF InPlace, MainOK, MainLabels
  <2>8. ASSUME NEW v \in Workers \ {x, n} PROVE WorkerOK(v)'
    BY <1>0, <2>1, <2>3, <2>8, LeftAlone DEF InPlace
  <2> QED BY <2>5, <2>6, <2>7, <2>8 DEF InPlace
<1> QED BY <1>3, <1>4, <1>5, <1>6 DEF Notify

LEMMA MainInPlace ==
    ASSUME IInv, \/ MainStep /\ ~Notify(Main)
                 \/ Warm \/ BeginDrop
                 \/ \E W \in SUBSET {threads[i] : i \in DOMAIN threads} : PushIdle(W)
    PROVE  InPlace'
<1> USE ThreadsAre
<1>0. Typed /\ InPlace /\ PcTyped /\ LocTyped
  BY DEF IInv, Typed
<1>1. ASSUME NEW l \in {"main", "n_spawn"} \cup Dropping, Goto(Main, l), UNCHANGED run_buffer,
             UNCHANGED loc \/ (KeepsBut(Main, {"ret"}) /\ loc'[Main].ret = "main"),
             l = "n_spawn" => loc'[Main].ret = "main"
      PROVE  InPlace'
  <2>1. KeepsBut(Main, {"ret"})
    BY <1>0, <1>1, NoLocalsChange
  <2>2. MainOK'
    BY <1>0, <1>1, <2>1
    DEF Goto, InPlace, MainOK, PcTyped, MainLabels, KeepsBut, Keeps, Fields, NotifyLabels, Dropping
  <2> QED BY <1>0, <1>1, <2>1, <2>2, MainMoves DEF Goto
<1>2. CASE Warm
  <2>1. KeepsBut(Main, {"ret"}) /\ loc'[Main].ret = "main"
    BY <1>0, <1>2, RetLocals DEF Warm
  <2> QED BY <1>1, <1>2, <2>1 DEF Warm, queues
<1>3. CASE \/ BeginDrop \/ WakeForIdleEvents \/ ShutdownEvent \/ Shutdown \/ Join \/ JoinWait
           \/ \E W \in SUBSET {threads[i] : i \in DOMAIN threads} : PushIdle(W)
  <2>1. /\ \E l \in Dropping : Goto(Main, l)
        /\ UNCHANGED <<run_buffer, loc>>
    BY <1>3 DEF BeginDrop, WakeForIdleEvents, ShutdownEvent, WakeAll, Shutdown, Join,
                JoinWait, PushIdle, Dropping, queues
  <2> QED BY <1>1, <2>1 DEF Dropping
<1>4. CASE JoinChain
  <2>1. Keeps({"joined"})
    BY <1>0, <1>4, JoinChainLocals
  <2>2. UNCHANGED run_buffer /\ pc'[Main] = "gone" /\ \A w \in Workers : pc'[w] = pc[w]
    BY <1>0, <1>4, MainAssumption DEF JoinChain, queues, Goto, PcTyped
  <2>3. MainOK'
    BY <1>0, <2>1, <2>2
    DEF InPlace, MainOK, Keeps, Fields, MainLabels, Dropping, NotifyLabels
  <2>4. ASSUME NEW w \in Workers PROVE WorkerOK(w)'
    BY <1>0, <2>1, <2>2 DEF InPlace, WorkerOK, Keeps, Fields
  <2> QED BY <2>3, <2>4 DEF InPlace
<1>5. CASE WakeForIdleFutex \/ ShutdownFutex
  <2>1. Keeps({"acquire"}) /\ UNCHANGED run_buffer
    BY <1>0, <1>5, AwakenLocals DEF WakeForIdleFutex, ShutdownFutex, FutexAll, queues
  <2>2. /\ pc'[Main] \in Dropping
        /\ \A w \in Workers : \/ pc'[w] = pc[w]
                              \/ pc[w] = "parked" /\ pc'[w] = "event"
    BY <1>0, <1>5, MainAssumption
    DEF WakeForIdleFutex, ShutdownFutex, FutexAll, Parked, Dropping
  <2>3. MainOK'
    BY <1>0, <2>1, <2>2
    DEF InPlace, MainOK, Keeps, Fields, MainLabels, Dropping, NotifyLabels
  <2>4. ASSUME NEW w \in Workers PROVE WorkerOK(w)'
    <3>1. CASE pc'[w] = pc[w]
      BY <1>0, <2>1, <3>1 DEF InPlace, WorkerOK, Keeps, Fields
    <3>2. CASE pc[w] = "parked" /\ pc'[w] = "event"
      BY <1>0, <2>1, <3>2, Woken DEF InPlace
    <3> QED BY <2>2, <3>1, <3>2
  <2> QED BY <2>3, <2>4 DEF InPlace
<1> QED BY <1>2, <1>3, <1>4, <1>5 DEF MainStep

\* The outcomes of pop()'s steps, with the locals they leave.
LEMMA PopBufferCases ==
    ASSUME IInv, NEW w \in Workers, PopBuffer(w)
    PROVE  /\ pc[w] = "pop"
           /\ \/ \E t \in run_buffer[w] :
                   /\ t \in Tasks
                   /\ run_buffer' = [run_buffer EXCEPT ![w] = @ \ {t}]
                   /\ KeepsBut(w, {"task", "pushed"}) /\ loc'[w].task = t
                   /\ Goto(w, "got")
              \/ /\ run_buffer[w] = {}
                 /\ Goto(w, "own") /\ UNCHANGED <<run_buffer, loc>>
<1>1. ASSUME NEW t \in run_buffer[w],
             loc' = [loc EXCEPT ![w].task = t, ![w].pushed = FALSE]
      PROVE  /\ t \in Tasks
             /\ KeepsBut(w, {"task", "pushed"}) /\ loc'[w].task = t
  <2>1. t \in Tasks BY <1>1 DEF IInv, Typed, TasksTyped
  <2> QED BY <1>1, <2>1, PopBufferLocals DEF IInv
<1> QED BY <1>1 DEF PopBuffer

LEMMA PopQueueCases ==
    ASSUME IInv, NEW w \in Workers, NEW l, NEW q \in Threads, NEW next,
           PopQueue(w, l, q, next)
    PROVE  /\ pc[w] = l
           /\ \/ \E S \in SUBSET run_queue[q] :
                   /\ ~consuming[q] /\ run_queue[q] # {}
                   /\ Cardinality(S) = Min({Cardinality(run_queue[q]), Capacity + 1})
                   /\ run_queue' = [run_queue EXCEPT ![q] = @ \ S]
                   /\ consuming' = [consuming EXCEPT ![q] = TRUE]
                   /\ KeepsBut(w, {"hold", "from"}) /\ loc'[w].hold = S /\ loc'[w].from = q
                   /\ Goto(w, "fill") /\ UNCHANGED run_buffer
              \/ CannotGrab(q) /\ Goto(w, next) /\ UNCHANGED <<queues, loc>>
<1>1. ASSUME NEW S \in SUBSET run_queue[q],
             loc' = [loc EXCEPT ![w].hold = S, ![w].from = q]
      PROVE  KeepsBut(w, {"hold", "from"}) /\ loc'[w].hold = S /\ loc'[w].from = q
  <2>1. S \in SUBSET Tasks BY DEF IInv, Typed, TasksTyped
  <2> QED BY <1>1, <2>1, GrabLocals DEF IInv
<1> QED BY <1>1 DEF PopQueue, Grab

LEMMA FillCases ==
    ASSUME IInv, NEW w \in Workers, Fill(w)
    PROVE  /\ pc[w] = "fill" /\ Goto(w, "got") /\ UNCHANGED <<run_queue, fresh, ran, count>>
           /\ \E t \in loc[w].hold :
                /\ t \in Tasks
                /\ run_buffer' = [run_buffer EXCEPT ![w] = loc[w].hold \ {t}]
                /\ KeepsBut(w, {"task", "hold", "from", "visits", "pushed"})
                /\ loc'[w].task = t /\ loc'[w].hold = {}
                /\ loc'[w].pushed = (loc[w].hold # {t})
<1>1. loc[w].hold \subseteq Tasks
  BY ThreadsAre DEF IInv, Typed, LocTyped, LocalsOK
<1>2. ASSUME NEW t \in loc[w].hold,
             loc' = [loc EXCEPT ![w].task = t, ![w].hold = {}, ![w].from = Main,
                                ![w].visits = 0, ![w].pushed = loc[w].hold # {t}]
      PROVE  /\ KeepsBut(w, {"task", "hold", "from", "visits", "pushed"})
             /\ loc'[w].task = t /\ loc'[w].hold = {}
             /\ loc'[w].pushed = (loc[w].hold # {t})
  BY Zenon, <1>1, <1>2, FillLocals DEF IInv
<1> QED BY Zenon, <1>1, <1>2 DEF Fill

LEMMA StealCases ==
    ASSUME IInv, NEW w \in Workers, Steal(w)
    PROVE  /\ pc[w] = "steal" /\ loc[w].from \in Workers \ {w} /\ run_buffer[w] = {}
           /\ UNCHANGED <<run_queue, fresh, ran, count>>
           /\ \/ /\ KeepsBut(w, {"visits", "from"})
                 /\ Goto(w, "visit") /\ UNCHANGED run_buffer
              \/ \E S \in SUBSET run_buffer[loc[w].from] : \E t \in S :
                   /\ S \subseteq Tasks
                   /\ run_buffer' = [run_buffer EXCEPT ![loc[w].from] = @ \ S, ![w] = S \ {t}]
                   /\ KeepsBut(w, {"task", "pushed", "visits", "from"})
                   /\ loc'[w].task = t /\ Goto(w, "got")
<1>1. /\ pc[w] = "steal" /\ loc[w].from \in Workers \ {w} /\ run_buffer[w] = {}
      /\ UNCHANGED <<run_queue, fresh, ran, count>>
  BY Zenon DEF Steal, IInv, InPlace, WorkerOK, Busy, NotifyLabels
<1>2. ASSUME loc' = [loc EXCEPT ![w].visits = @ - 1, ![w].from = Main]
      PROVE  KeepsBut(w, {"visits", "from"})
  BY <1>2, StealNoneLocals DEF IInv
<1>3. ASSUME NEW S \in SUBSET run_buffer[loc[w].from], NEW t \in S,
             loc' = [loc EXCEPT ![w].task = t, ![w].pushed = S # {t},
                                ![w].visits = 0, ![w].from = Main]
      PROVE  /\ S \subseteq Tasks /\ loc'[w].task = t
             /\ KeepsBut(w, {"task", "pushed", "visits", "from"})
  <2>1. S \subseteq Tasks BY <1>1 DEF IInv, Typed, TasksTyped
  <2> QED BY Zenon, <1>3, <2>1, StealLocals DEF IInv
<1>4. \/ /\ loc' = [loc EXCEPT ![w].visits = @ - 1, ![w].from = Main]
         /\ Goto(w, "visit") /\ UNCHANGED run_buffer
      \/ \E S \in SUBSET run_buffer[loc[w].from] : \E t \in S :
           /\ run_buffer' = [run_buffer EXCEPT ![loc[w].from] = @ \ S, ![w] = S \ {t}]
           /\ loc' = [loc EXCEPT ![w].task = t, ![w].pushed = S # {t},
                                 ![w].visits = 0, ![w].from = Main]
           /\ Goto(w, "got")
  BY Zenon DEF Steal
<1> QED BY Zenon, <1>1, <1>2, <1>3, <1>4

LEMMA WorkerInPlace ==
    ASSUME IInv, NEW w \in Workers,
           \/ Register(w) \/ WaitShutdown(w) \/ WaitNotified(w) \/ WaitIdle(w)
           \/ WaitEvent(w) \/ EventWait(w) \/ EventFutex(w) \/ EventTimeout(w)
           \/ PopBuffer(w) \/ PopOwn(w) \/ PopGlobal(w) \/ Fill(w) \/ PopCount(w)
           \/ Visit(w) \/ Steal(w) \/ PopNone(w) \/ Got(w)
           \/ Finish(w) \/ Unregister(w) \/ UnregisterNotify(w) \/ UnregisterWait(w)
           \/ \E t \in Tasks : ScheduleInside(w, t)
           \/ \E batch \in SUBSET Tasks : Schedule(w, batch)
    PROVE  InPlace'
<1> USE ThreadsAre DEF NotifyLabels, Leaving, Asleep, Seeking, Busy, WorkerLabels
<1>0. Typed /\ InPlace /\ PcTyped /\ LocTyped /\ TasksTyped /\ WorkerOK(w) /\ LocalsOK(w)
  BY DEF IInv, Typed, InPlace, LocTyped
\* It is enough to look at w, if nothing is added to another buffer.
<1>a. ASSUME NEW S, KeepsBut(w, S), NEW l, Goto(w, l), UNCHANGED run_buffer, WorkerOK(w)'
      PROVE  InPlace'
  BY <1>0, <1>a, OneMoves DEF Goto
<1>1. CASE Register(w) \/ WaitEvent(w) \/ PopNone(w) \/ Unregister(w) \/ UnregisterNotify(w)
  <2>1. UNCHANGED <<loc, run_buffer>> /\ \E l \in WorkerLabels : Goto(w, l)
    BY <1>1 DEF Register, WaitEvent, PopNone, Unregister, UnregisterNotify, queues
  <2>2. WorkerOK(w)'
    BY <1>0, <1>1, <2>1 DEF Register, WaitEvent, PopNone, Unregister, UnregisterNotify,
       Goto, PcTyped, WorkerOK
  <2> QED BY <1>0, <1>a, <2>1, <2>2, NoLocalsChange
<1>2. CASE WaitShutdown(w)
  <2>1. KeepsBut(w, Fields) /\ loc'[w] = NoLocals
    BY <1>0, <1>2, WaitShutdownLocals
  <2>2. pc[w] = "wait" /\ Goto(w, "unregister") /\ UNCHANGED run_buffer
    BY <1>2 DEF WaitShutdown, queues
  <2>3. WorkerOK(w)'
    BY <1>0, <2>1, <2>2 DEF Goto, PcTyped, WorkerOK, NoLocals
  <2> QED BY <1>a, <2>1, <2>2, <2>3
<1>3. CASE WaitNotified(w)
  <2>1. KeepsBut(w, {"is_waking", "is_idle"}) /\ ~loc'[w].is_idle
    BY <1>0, <1>3, WaitNotifiedLocals
  <2>2. pc[w] = "wait" /\ Goto(w, "pop") /\ UNCHANGED run_buffer
    BY <1>3 DEF WaitNotified, queues
  <2>3. WorkerOK(w)'
    BY <1>0, <2>1, <2>2 DEF Goto, PcTyped, WorkerOK, KeepsBut, Keeps, Fields
  <2> QED BY <1>a, <2>1, <2>2, <2>3
<1>4. CASE WaitIdle(w)
  <2>1. KeepsBut(w, {"is_waking", "is_idle"}) /\ ~loc'[w].is_waking
    BY <1>0, <1>4, WaitIdleLocals
  <2>2. pc[w] = "wait" /\ UNCHANGED <<pc, run_buffer>>
    BY <1>4 DEF WaitIdle, queues
  <2>3. WorkerOK(w)'
    BY <1>0, <2>1, <2>2 DEF WorkerOK, KeepsBut, Keeps, Fields
  <2> QED BY <1>0, <2>1, <2>2, <2>3, OneMoves
<1>5. CASE EventWait(w)
  <2>1. KeepsBut(w, {"acquire"})
    BY <1>0, <1>5, EventWaitLocals
  <2>2. pc[w] = "event" /\ UNCHANGED run_buffer /\ \E l \in {"wait", "futex"} : Goto(w, l)
    BY <1>5 DEF EventWait, queues
  <2>3. WorkerOK(w)'
    BY <1>0, <2>1, <2>2 DEF Goto, PcTyped, WorkerOK, KeepsBut, Keeps, Fields
  <2> QED BY <1>a, <2>1, <2>2, <2>3
<1>6. CASE EventFutex(w) \/ EventTimeout(w)
  <2>1. KeepsBut(w, {"acquire"})
    <3>1. CASE Awaken({w})
      BY <1>0, <3>1, AwakenLocals DEF KeepsBut, Awaken
    <3> QED BY <1>0, <1>6, <3>1, NoLocalsChange DEF EventFutex, EventTimeout
  <2>2. /\ pc[w] \in {"futex", "parked"} /\ UNCHANGED run_buffer
        /\ \E l \in {"parked", "event"} : Goto(w, l)
    BY <1>6 DEF EventFutex, EventTimeout, queues
  <2>3. WorkerOK(w)'
    BY <1>0, <2>1, <2>2 DEF Goto, PcTyped, WorkerOK, KeepsBut, Keeps, Fields
  <2> QED BY <1>a, <2>1, <2>2, <2>3
<1>7. CASE PopBuffer(w)
  <2>1. ASSUME run_buffer[w] = {}, Goto(w, "own"), UNCHANGED <<run_buffer, loc>>, pc[w] = "pop"
        PROVE  InPlace'
    <3>1. WorkerOK(w)' BY <1>0, <2>1 DEF Goto, PcTyped, WorkerOK
    <3> QED BY <1>0, <1>a, <2>1, <3>1, NoLocalsChange
  <2>2. ASSUME NEW t \in Tasks, run_buffer' = [run_buffer EXCEPT ![w] = @ \ {t}],
               KeepsBut(w, {"task", "pushed"}), loc'[w].task = t, Goto(w, "got"), pc[w] = "pop"
        PROVE  InPlace'
    <3>1. WorkerOK(w)'
      BY <1>0, <2>2, TasksAssumption DEF Goto, PcTyped, WorkerOK, KeepsBut, Keeps, Fields
    <3>2. \A v \in Workers \ {w} : run_buffer'[v] \subseteq run_buffer[v]
      BY <1>0, <2>2 DEF TasksTyped
    <3> QED BY <1>0, <2>2, <3>1, <3>2, OneMoves DEF Goto
  <2> QED BY <1>7, <2>1, <2>2, PopBufferCases
<1>8. ASSUME NEW l \in {"own", "global"}, NEW q \in Threads, NEW next \in {"global", "count"},
             PopQueue(w, l, q, next)
      PROVE  InPlace'
  <2>1. CASE Goto(w, next) /\ UNCHANGED <<queues, loc>>
    <3>1. pc[w] = l BY <1>8 DEF PopQueue
    <3>2. WorkerOK(w)' BY <1>0, <2>1, <3>1 DEF Goto, PcTyped, WorkerOK, queues
    <3> QED BY <1>0, <1>a, <2>1, <3>2, NoLocalsChange DEF queues
  <2>2. ASSUME KeepsBut(w, {"hold", "from"}), Goto(w, "fill"), UNCHANGED run_buffer, pc[w] = l
        PROVE  InPlace'
    <3>1. WorkerOK(w)'
      BY <1>0, <2>2 DEF Goto, PcTyped, WorkerOK, KeepsBut, Keeps, Fields
    <3> QED BY <1>a, <2>2, <3>1
  <2> QED BY <1>8, <2>1, <2>2, PopQueueCases
<1>9. CASE PopOwn(w) \/ PopGlobal(w)
  BY <1>8, <1>9 DEF PopOwn, PopGlobal
<1>10. CASE Fill(w)
  <2>1. PICK t \in Tasks :
          /\ run_buffer' = [run_buffer EXCEPT ![w] = loc[w].hold \ {t}]
          /\ KeepsBut(w, {"task", "hold", "from", "visits", "pushed"})
          /\ loc'[w].task = t /\ loc'[w].hold = {} /\ Goto(w, "got") /\ pc[w] = "fill"
    BY <1>10, FillCases
  <2>2. WorkerOK(w)'
    BY <1>0, <2>1, TasksAssumption DEF Goto, PcTyped, WorkerOK, KeepsBut, Keeps, Fields
  <2>3. \A v \in Workers \ {w} : run_buffer'[v] \subseteq run_buffer[v]
    BY <1>0, <2>1 DEF TasksTyped
  <2> QED BY <1>0, <2>1, <2>2, <2>3, OneMoves DEF Goto
<1>11. CASE PopCount(w)
  <2>1. KeepsBut(w, {"visits"}) BY <1>0, <1>11, PopCountLocals
  <2>2. pc[w] = "count" /\ Goto(w, "visit") /\ UNCHANGED run_buffer
    BY <1>11 DEF PopCount, queues
  <2>3. WorkerOK(w)'
    BY <1>0, <2>1, <2>2 DEF Goto, PcTyped, WorkerOK, KeepsBut, Keeps, Fields
  <2> QED BY <1>a, <2>1, <2>2, <2>3
<1>12. CASE Visit(w)
  <2>1. pc[w] = "visit" /\ UNCHANGED run_buffer
    BY Zenon, <1>12 DEF Visit
  <2>2. PICK v \in Workers :
          \/ KeepsBut(w, {"target", "hold", "from"}) /\ Goto(w, "fill")
          \/ KeepsBut(w, {"target", "visits"}) /\ UNCHANGED pc
          \/ /\ v # w /\ KeepsBut(w, {"target", "from"})
             /\ loc'[w].from = v /\ Goto(w, "steal")
    BY <1>0, <1>12, VisitCases DEF IInv
  <2>3. CASE KeepsBut(w, {"target", "hold", "from"}) /\ Goto(w, "fill")
    <3>1. WorkerOK(w)'
      BY <1>0, <2>1, <2>3 DEF Goto, PcTyped, WorkerOK, KeepsBut, Keeps, Fields
    <3> QED BY <1>a, <2>1, <2>3, <3>1
  <2>4. CASE KeepsBut(w, {"target", "visits"}) /\ UNCHANGED pc
    <3>1. WorkerOK(w)'
      BY <1>0, <2>1, <2>4 DEF WorkerOK, KeepsBut, Keeps, Fields
    <3> QED BY <1>0, <2>1, <2>4, <3>1, OneMoves
  <2>5. CASE /\ v # w /\ KeepsBut(w, {"target", "from"})
             /\ loc'[w].from = v /\ Goto(w, "steal")
    <3>1. WorkerOK(w)'
      BY <1>0, <2>1, <2>5 DEF Goto, PcTyped, WorkerOK, KeepsBut, Keeps, Fields
    <3> QED BY <1>a, <2>1, <2>5, <3>1
  <2> QED BY <2>2, <2>3, <2>4, <2>5
<1>13. CASE Steal(w)
  <2>1. pc[w] = "steal" /\ loc[w].from \in Workers \ {w}
    BY <1>13, StealCases
  <2>2. CASE KeepsBut(w, {"visits", "from"}) /\ Goto(w, "visit") /\ UNCHANGED run_buffer
    <3>1. WorkerOK(w)'
      BY <1>0, <2>1, <2>2 DEF Goto, PcTyped, WorkerOK, KeepsBut, Keeps, Fields
    <3> QED BY <1>a, <2>2, <3>1
  <2>3. ASSUME NEW S, NEW t \in Tasks,
               run_buffer' = [run_buffer EXCEPT ![loc[w].from] = @ \ S, ![w] = S \ {t}],
               KeepsBut(w, {"task", "pushed", "visits", "from"}),
               loc'[w].task = t, Goto(w, "got")
        PROVE  InPlace'
    <3>1. WorkerOK(w)'
      BY <1>0, <2>1, <2>3, TasksAssumption
      DEF Goto, PcTyped, WorkerOK, KeepsBut, Keeps, Fields
    <3>2. \A v \in Workers \ {w} : run_buffer'[v] \subseteq run_buffer[v]
      BY <1>0, <2>1, <2>3 DEF TasksTyped
    <3> QED BY <1>0, <2>3, <3>1, <3>2, OneMoves DEF Goto
  <2> QED BY <1>13, <2>2, <2>3, StealCases
<1>14. CASE Got(w)
  <2>1. KeepsBut(w, {"ret", "pushed"}) /\ loc'[w].ret = "run"
    BY <1>0, <1>14, GotLocals
  <2>2. /\ pc[w] = "got" /\ UNCHANGED run_buffer
        /\ Goto(w, IF loc[w].is_waking THEN "n_slow"
                   ELSE IF loc[w].pushed THEN "n_fast" ELSE "run")
    BY <1>14 DEF Got, queues
  <2>3. WorkerOK(w)'
    BY <1>0, <2>1, <2>2 DEF Goto, PcTyped, WorkerOK, KeepsBut, Keeps, Fields
  <2> QED BY <1>a, <2>1, <2>2, <2>3
<1>15. CASE Finish(w)
  <2>1. KeepsBut(w, {"task", "ret"}) /\ loc'[w].task = NoTask
    BY <1>0, <1>15, FinishLocals
  <2>2. pc[w] = "run" /\ Goto(w, "pop") /\ UNCHANGED run_buffer
    BY <1>15 DEF Finish, queues
  <2>3. WorkerOK(w)'
    BY <1>0, <2>1, <2>2 DEF Goto, PcTyped, WorkerOK, KeepsBut, Keeps, Fields
  <2> QED BY <1>a, <2>1, <2>2, <2>3
<1>16. CASE UnregisterWait(w)
  <2>1. Keeps({"joined"})
    BY <1>0, <1>16, UnregisterWaitLocals
  <2>2. /\ UNCHANGED run_buffer /\ pc[w] = "u_wait" /\ pc'[w] = "dead"
        /\ \A x \in Threads \ {w} : pc'[x] = pc[x]
    BY <1>0, <1>16 DEF UnregisterWait, queues, Goto, PcTyped
  <2>3. MainOK'
    BY <1>0, <2>1, <2>2, MainAssumption
    DEF InPlace, MainOK, Keeps, Fields, MainLabels, Dropping
  <2>4. ASSUME NEW v \in Workers PROVE WorkerOK(v)'
    BY <1>0, <2>1, <2>2 DEF InPlace, WorkerOK, Keeps, Fields
  <2> QED BY <2>3, <2>4 DEF InPlace
<1>17. ASSUME pc[w] = "run", Goto(w, "n_fast"), KeepsBut(w, {"ret"}), loc'[w].ret = "run",
              \A v \in Workers \ {w} : run_buffer'[v] \subseteq run_buffer[v]
       PROVE  InPlace'
  <2>1. WorkerOK(w)'
    BY <1>0, <1>17 DEF Goto, PcTyped, WorkerOK, KeepsBut, Keeps, Fields
  <2> QED BY <1>0, <1>17, <2>1, OneMoves DEF Goto
<1>18. ASSUME NEW t \in Tasks, ScheduleInside(w, t) PROVE InPlace'
  <2>1. KeepsBut(w, {"ret"}) /\ loc'[w].ret = "run"
    BY <1>0, <1>18, RetLocals DEF ScheduleInside
  <2>2. pc[w] = "run" /\ Goto(w, "n_fast")
        /\ \A v \in Workers \ {w} : run_buffer'[v] \subseteq run_buffer[v]
    BY <1>0, <1>18 DEF ScheduleInside, TasksTyped
  <2> QED BY <1>17, <2>1, <2>2
<1>19. ASSUME NEW batch \in SUBSET Tasks, Schedule(w, batch) PROVE InPlace'
  <2>1. pc[w] = "run" /\ Goto(w, "n_fast") /\ UNCHANGED run_buffer
    BY <1>19, MainAssumption DEF Schedule
  <2>2. KeepsBut(w, {"ret"}) /\ loc'[w].ret = "run"
    BY <1>0, <1>19, <2>1, RetLocals DEF Schedule
  <2> QED BY <1>17, <2>1, <2>2
<1> QED BY <1>1, <1>2, <1>3, <1>4, <1>5, <1>6, <1>7, <1>9, <1>10, <1>11, <1>12, <1>13,
           <1>14, <1>15, <1>16, <1>18, <1>19

LEMMA ScheduleMainInPlace ==
    ASSUME IInv, NEW batch \in SUBSET Tasks, Schedule(Main, batch)
    PROVE  InPlace'
<1>1. pc[Main] = "main" /\ Goto(Main, "n_fast") /\ UNCHANGED run_buffer
  BY DEF Schedule
<1>2. KeepsBut(Main, {"ret"}) /\ loc'[Main].ret = "main"
  BY <1>1, ThreadsAre, RetLocals DEF Schedule, IInv
<1>3. MainOK'
  BY <1>1, <1>2, ThreadsAre DEF Goto, IInv, Typed, PcTyped, InPlace, MainOK, MainLabels,
     NotifyLabels, KeepsBut, Keeps, Fields
<1> QED BY <1>1, <1>2, <1>3, MainMoves DEF Goto, IInv

LEMMA InPlaceStep == ASSUME IInv, Next PROVE InPlace'
<1>1. ASSUME NEW x \in Threads, NEW batch \in SUBSET Tasks, Schedule(x, batch)
      PROVE  InPlace'
  BY <1>1, WorkerInPlace, ScheduleMainInPlace DEF Threads
<1> QED BY <1>1, NotifyInPlace, MainInPlace, WorkerInPlace, ThreadsAre
        DEF Next, MainStep, WorkerStep, Request

-----------------------------------------------------------------------------
(* The stack of workers.                                                   *)

\* Steps that leave the stack and the targets alone.
LEMMA ListedFrame ==
    ASSUME Listed, UNCHANGED threads,
           \A w \in Workers :
             /\ pc'[w] \notin {"unborn", "register"} => pc[w] \notin {"unborn", "register"}
             /\ loc'[w].target \in {loc[w].target, NoThread},
           \A w \in Workers : pc[w] \in WorkerLabels
    PROVE  Listed'
BY DEF Listed, WorkerLabels

LEMMA ListedStep == ASSUME IInv, Next, Typed', InPlace' PROVE Listed'
<1> USE ThreadsAre DEF Fields
<1>0. Typed /\ Listed /\ PcTyped /\ InPlace /\ \A w \in Workers : pc[w] \in WorkerLabels
  BY DEF IInv, Typed, InPlace, WorkerOK
<1>1. ASSUME NEW w \in Workers, Register(w) PROVE Listed'
  <2>1. /\ threads' = <<w>> \o threads /\ UNCHANGED loc
    BY <1>1 DEF Register
  <2>2. threads \in Seq(Workers) /\ Len(threads) \in Nat
    BY <1>0 DEF Typed
  <2>3. \A i \in DOMAIN threads : i + 1 \in DOMAIN threads' /\ threads'[i + 1] = threads[i]
    BY <2>1, <2>2
  <2>4. threads' # <<>>
    BY <2>1, <2>2
  <2> QED BY <1>0, <2>1, <2>3, <2>4 DEF Listed
<1>2. ASSUME NEW w \in Workers, Visit(w) PROVE Listed'
  <2>1. /\ UNCHANGED threads /\ pc[w] = "visit"
        /\ \A x \in Threads \ {w} : pc'[x] = pc[x]
    <3>1. \/ Goto(w, "fill") \/ UNCHANGED pc \/ Goto(w, "steal")
      BY <1>0, <1>2, VisitCases
    <3> QED BY Zenon, <1>0, <1>2, <3>1 DEF Visit, Goto, PcTyped
  <2>2. /\ \A x \in Threads \ {w} : loc'[x] = loc[x]
        /\ loc'[w].target # NoThread => \E i \in DOMAIN threads : threads[i] = loc'[w].target
    BY <1>0, <1>2, VisitCases DEF KeepsBut
  <2>3. threads # <<>>
    BY <1>0, <2>1 DEF Listed, WorkerLabels, Seeking
  <2> QED BY <1>0, <2>1, <2>2, <2>3 DEF Listed
<1>3. ASSUME NEW x \in Threads, Notify(x) PROVE Listed'
  <2>1. pc[x] \in NotifyLabels /\ UNCHANGED threads
    BY <1>3 DEF Notify, NotifyFast, NotifySlow, NotifyEvent, NotifyFutex, Spawn, SpawnFailed,
       NotifyLabels
  <2>2. \A w \in Workers : loc'[w].target = loc[w].target
    <3>1. Keeps({"is_waking"}) \/ Keeps({"acquire"})
      <4>1. CASE NotifySlow(x) BY <1>0, <4>1, NotifySlowLocals DEF KeepsBut
      <4>2. CASE UNCHANGED loc BY <1>0, <4>2, NoLocalsChange
      <4>3. CASE NotifyFutex(x) BY <1>0, <4>2, <4>3, AwakenLocals DEF NotifyFutex
      <4> QED BY <1>3, <4>1, <4>2, <4>3
              DEF Notify, NotifyFast, NotifyEvent, Spawn, SpawnFailed
    <3> QED BY <3>1 DEF Keeps
  <2>3. \A w \in Workers : pc'[w] \notin {"unborn", "register"}
                             => pc[w] \notin {"unborn", "register"}
    <3>1. CASE Spawn(x)
      BY <1>0, <2>1, <3>1, SpawnCreates DEF PcTyped, NotifyLabels
    <3>2. CASE ~Spawn(x)
      BY <1>0, <1>3, <2>1, <3>2
      DEF Notify, NotifyFast, NotifySlow, NotifyEvent, NotifyFutex, SpawnFailed, Parked,
          Goto, PcTyped, NotifyLabels
    <3> QED BY <3>1, <3>2
  <2> QED BY <1>0, <2>1, <2>2, <2>3, ListedFrame
\* Steps of one worker that is registered, and keeps its target.
<1>4. ASSUME NEW w \in Workers, NEW S, Keeps(S), "target" \notin S,
             NEW l, Goto(w, l) \/ UNCHANGED pc,
             pc[w] \notin {"unborn", "register"}, UNCHANGED threads
      PROVE  Listed'
  <2>1. \A x \in Workers : loc'[x].target = loc[x].target
    BY <1>4 DEF Keeps
  <2>2. \A x \in Workers : pc'[x] \notin {"unborn", "register"}
                             => pc[x] \notin {"unborn", "register"}
    BY <1>0, <1>4 DEF Goto, PcTyped
  <2> QED BY <1>0, <1>4, <2>1, <2>2, ListedFrame
<1>5. ASSUME NEW w \in Workers,
             \/ WaitEvent(w) \/ PopNone(w) \/ Unregister(w) \/ UnregisterNotify(w)
      PROVE  Listed'
  <2>1. /\ UNCHANGED <<loc, threads>> /\ pc[w] \notin {"unborn", "register"}
        /\ \E l : Goto(w, l)
    BY <1>5 DEF WaitEvent, PopNone, Unregister, UnregisterNotify
  <2>2. Keeps({}) BY <1>0, <2>1, NoLocalsChange
  <2> QED BY <1>4, <2>1, <2>2
<1>6. ASSUME NEW w \in Workers, WaitNotified(w) \/ WaitIdle(w) PROVE Listed'
  <2>1. Keeps({"is_waking", "is_idle"})
    BY <1>0, <1>6, WaitNotifiedLocals, WaitIdleLocals DEF KeepsBut
  <2> QED BY <1>4, <1>6, <2>1 DEF WaitNotified, WaitIdle
<1>7. ASSUME NEW w \in Workers, EventWait(w) \/ EventFutex(w) \/ EventTimeout(w)
      PROVE  Listed'
  <2>1. Keeps({"acquire"})
    BY <1>0, <1>7, EventWaitLocals, AwakenLocals, NoLocalsChange
    DEF KeepsBut, EventFutex, EventTimeout
  <2>2. (\E l : Goto(w, l)) /\ pc[w] \notin {"unborn", "register"} /\ UNCHANGED threads
    BY <1>7 DEF EventWait, EventFutex, EventTimeout
  <2> QED BY <1>4, <2>1, <2>2
<1>8. ASSUME NEW w \in Workers, PopBuffer(w) PROVE Listed'
  <2>1. (\E l : Goto(w, l)) /\ pc[w] \notin {"unborn", "register"} /\ UNCHANGED threads
    BY <1>8 DEF PopBuffer
  <2>2. Keeps({"task", "pushed"})
    BY <1>0, <1>8, PopBufferCases, NoLocalsChange DEF KeepsBut
  <2> QED BY <1>4, <2>1, <2>2
<1>9. ASSUME NEW w \in Workers, PopOwn(w) \/ PopGlobal(w) PROVE Listed'
  <2>1. (\E l : Goto(w, l)) /\ pc[w] \notin {"unborn", "register"} /\ UNCHANGED threads
    BY <1>9 DEF PopOwn, PopGlobal, PopQueue, Grab
  <2>2. Keeps({"hold", "from"})
    BY <1>0, <1>9, PopQueueCases, NoLocalsChange DEF PopOwn, PopGlobal, KeepsBut
  <2> QED BY <1>4, <2>1, <2>2
<1>10. ASSUME NEW w \in Workers, Fill(w) PROVE Listed'
  <2>1. UNCHANGED threads BY <1>10 DEF Fill
  <2>2. /\ pc[w] = "fill" /\ Goto(w, "got")
        /\ Keeps({"task", "hold", "from", "visits", "pushed"})
    BY <1>10, FillCases DEF KeepsBut
  <2> QED BY <1>4, <2>1, <2>2
<1>11. ASSUME NEW w \in Workers, PopCount(w) \/ Got(w) \/ Finish(w) PROVE Listed'
  <2>1. (\E l : Goto(w, l)) /\ pc[w] \notin {"unborn", "register"} /\ UNCHANGED threads
    BY <1>11 DEF PopCount, Got, Finish
  <2>2. Keeps({"visits"}) \/ Keeps({"ret", "pushed"}) \/ Keeps({"task", "ret"})
    BY <1>0, <1>11, PopCountLocals, GotLocals, FinishLocals DEF KeepsBut
  <2> QED BY <1>4, <2>1, <2>2
<1>12. ASSUME NEW w \in Workers, Steal(w) PROVE Listed'
  <2>1. UNCHANGED threads BY Zenon, <1>12 DEF Steal
  <2>2. /\ pc[w] = "steal" /\ (Goto(w, "visit") \/ Goto(w, "got"))
        /\ (Keeps({"visits", "from"}) \/ Keeps({"task", "pushed", "visits", "from"}))
    BY <1>12, StealCases DEF KeepsBut
  <2> QED BY <1>4, <2>1, <2>2
<1>13. ASSUME NEW w \in Workers, UnregisterWait(w) PROVE Listed'
  <2>1. Keeps({"joined"}) BY <1>0, <1>13, UnregisterWaitLocals
  <2> QED BY <1>4, <1>13, <2>1 DEF UnregisterWait
<1>14. ASSUME NEW w \in Workers, WaitShutdown(w) PROVE Listed'
  <2>1. \A x \in Workers : loc'[x].target \in {loc[x].target, NoThread}
    BY <1>0, <1>14, WaitShutdownLocals DEF KeepsBut, NoLocals
  <2>2. /\ UNCHANGED threads
        /\ \A x \in Workers : pc'[x] \notin {"unborn", "register"}
                                => pc[x] \notin {"unborn", "register"}
    BY <1>0, <1>14 DEF WaitShutdown, Goto, PcTyped
  <2> QED BY <1>0, <2>1, <2>2, ListedFrame
<1>15. ASSUME NEW w \in Workers, NEW t \in Tasks, ScheduleInside(w, t) PROVE Listed'
  <2>1. Keeps({"ret"}) BY <1>0, <1>15, RetLocals DEF ScheduleInside, KeepsBut
  <2> QED BY <1>4, <1>15, <2>1 DEF ScheduleInside
<1>16. ASSUME NEW w \in Workers, NEW batch \in SUBSET Tasks, Schedule(w, batch) PROVE Listed'
  <2>1. pc[w] = "run" /\ Goto(w, "n_fast") /\ UNCHANGED threads
    BY <1>16, MainAssumption DEF Schedule
  <2>2. Keeps({"ret"}) BY <1>0, <1>16, <2>1, RetLocals DEF Schedule, KeepsBut
  <2> QED BY <1>4, <2>1, <2>2
\* Steps of the owner.
<1>17. ASSUME NEW S, Keeps(S), "target" \notin S, UNCHANGED threads,
              \A w \in Workers : pc'[w] = pc[w] \/ pc[w] = "parked"
       PROVE  Listed'
  <2>1. \A x \in Workers : loc'[x].target = loc[x].target
    BY <1>17 DEF Keeps
  <2> QED BY <1>0, <1>17, <2>1, ListedFrame
<1>18. CASE \/ BeginDrop \/ WakeForIdleEvents \/ ShutdownEvent \/ Shutdown \/ Join \/ JoinWait
            \/ \E W \in SUBSET {threads[i] : i \in DOMAIN threads} : PushIdle(W)
  <2>1. UNCHANGED <<loc, threads>> /\ \E l : Goto(Main, l)
    BY <1>18 DEF BeginDrop, WakeForIdleEvents, ShutdownEvent, WakeAll, Shutdown, Join,
       JoinWait, PushIdle
  <2>2. \A w \in Workers : pc'[w] = pc[w]
    BY <1>0, <2>1, MainAssumption DEF Goto, PcTyped
  <2>3. Keeps({}) BY <1>0, <2>1, NoLocalsChange
  <2> QED BY <1>17, <2>1, <2>2, <2>3
<1>19. CASE WakeForIdleFutex \/ ShutdownFutex
  <2>1. /\ UNCHANGED threads
        /\ \A w \in Workers : pc'[w] = pc[w] \/ pc[w] = "parked"
    BY <1>19, MainAssumption DEF WakeForIdleFutex, ShutdownFutex, FutexAll, Parked
  <2>2. Keeps({"acquire"})
    BY <1>0, <1>19, AwakenLocals DEF WakeForIdleFutex, ShutdownFutex, FutexAll
  <2> QED BY <1>17, <2>1, <2>2
<1>20. CASE Warm \/ JoinChain \/ \E batch \in SUBSET Tasks : Schedule(Main, batch)
  <2>1. UNCHANGED threads /\ \E l : Goto(Main, l)
    BY <1>20 DEF Warm, JoinChain, Schedule
  <2>2. \A w \in Workers : pc'[w] = pc[w]
    BY <1>0, <2>1, MainAssumption DEF Goto, PcTyped
  <2>3. Keeps({"ret"}) \/ Keeps({"joined"})
    BY <1>0, <1>20, RetLocals, JoinChainLocals DEF Warm, Schedule, KeepsBut
  <2> QED BY <1>17, <2>1, <2>2, <2>3
<1>21. ASSUME NEW x \in Threads, NEW batch \in SUBSET Tasks, Schedule(x, batch) PROVE Listed'
  BY <1>16, <1>20, <1>21 DEF Threads
<1> QED BY <1>1, <1>2, <1>3, <1>5, <1>6, <1>7, <1>8, <1>9, <1>10, <1>11, <1>12, <1>13,
           <1>14, <1>15, <1>18, <1>19, <1>20, <1>21
        DEF Next, MainStep, WorkerStep, Request

-----------------------------------------------------------------------------
(* The drop of the pool.                                                   *)

\* Steps of a pool that nobody has begun to drop.
LEMMA PhaseEarly ==
    ASSUME sync'.state # "Shutdown", pc'[Main] \notin Dropping, ~join_event',
           \A w \in Workers : pc'[w] \notin Leaving
    PROVE  Phase'
BY DEF Phase, Dropping, AfterShutdown, Leaving

\* Steps that the drop does not see.
LEMMA PhaseFrame ==
    ASSUME Phase, sync'.state = "Shutdown" <=> sync.state = "Shutdown",
           sync.state = "Shutdown" => sync'.spawned = sync.spawned,
           pc'[Main] = pc[Main], UNCHANGED <<count, join_event>>,
           \A w \in Workers : pc'[w] \in Leaving => \/ pc'[w] = pc[w]
                                                    \/ /\ pc'[w] # "u_notify"
                                                       /\ sync.state = "Shutdown"
    PROVE  Phase'
BY DEF Phase, Leaving

\* A pool in which a thread is busy or notifying has not begun to be dropped.
LEMMA EarlyPool ==
    ASSUME IInv, NEW x \in Threads,
           pc[x] \in NotifyLabels \/ (x \in Workers /\ pc[x] \in Busy)
    PROVE  /\ sync.state # "Shutdown" /\ pc[Main] \notin Dropping /\ ~join_event
           /\ \A w \in Workers : pc[w] \notin Leaving
<1>1. sync.state # "Shutdown" /\ pc[Main] \notin Dropping
  BY NotifierIsEarly, BusyIsOutstanding
<1> QED BY <1>1 DEF IInv, Phase

LEMMA NotifyPhase ==
    ASSUME IInv, NEW x \in Threads, Notify(x)
    PROVE  Phase'
<1> USE ThreadsAre
<1>0. Typed /\ PcTyped /\ InPlace
  BY DEF IInv, Typed
<1>1. pc[x] \in NotifyLabels
  BY DEF Notify, NotifyFast, NotifySlow, NotifyEvent, NotifyFutex, Spawn, SpawnFailed,
         NotifyLabels
<1>2. /\ sync.state # "Shutdown" /\ pc[Main] \notin Dropping /\ ~join_event
      /\ \A w \in Workers : pc[w] \notin Leaving
  BY <1>1, EarlyPool
<1>3. /\ x = Main => loc[x].ret = "main"
      /\ x \in Workers => loc[x].ret = "run"
      /\ x = Main \/ x \in Workers
  BY <1>0, <1>1 DEF InPlace, MainOK, WorkerOK, Threads
<1>4. sync'.state # "Shutdown" /\ ~join_event'
  <2>1. CASE NotifySlow(x)
    BY <1>0, <1>2, <2>1, NotifySlowSync DEF NotifySlow
  <2>2. CASE SpawnFailed(x)
    BY <1>0, <1>2, <2>2 DEF SpawnFailed, Typed, SyncTyped
  <2> QED BY <1>2, <2>1, <2>2 DEF Notify, NotifyFast, NotifyEvent, NotifyFutex, Spawn
<1>5. pc'[Main] \notin Dropping /\ \A w \in Workers : pc'[w] \notin Leaving
  <2>1. CASE Spawn(x)
    BY <1>0, <1>2, <1>3, <2>1, SpawnCreates, MainAssumption DEF PcTyped, Dropping, Leaving
  <2>2. ASSUME NEW l \in NotifyLabels \cup {loc[x].ret}, Goto(x, l)
        PROVE  pc'[Main] \notin Dropping /\ \A w \in Workers : pc'[w] \notin Leaving
    BY <1>0, <1>2, <1>3, <2>2, MainAssumption DEF Goto, PcTyped, Dropping, Leaving, NotifyLabels
  <2>3. ASSUME NEW w \in Parked, pc' = [pc EXCEPT ![x] = loc[x].ret, ![w] = "event"]
        PROVE  pc'[Main] \notin Dropping /\ \A v \in Workers : pc'[v] \notin Leaving
    BY <1>0, <1>2, <1>3, <2>3, MainAssumption DEF Parked, PcTyped, Dropping, Leaving
  <2> QED BY <2>1, <2>2, <2>3
          DEF Notify, NotifyFast, NotifySlow, NotifyEvent, NotifyFutex, SpawnFailed, NotifyLabels
<1> QED BY <1>4, <1>5, PhaseEarly

LEMMA WorkerPhase ==
    ASSUME IInv, NEW w \in Workers,
           \/ Register(w) \/ WaitShutdown(w) \/ WaitNotified(w) \/ WaitIdle(w)
           \/ WaitEvent(w) \/ EventWait(w) \/ EventFutex(w) \/ EventTimeout(w)
           \/ PopBuffer(w) \/ PopOwn(w) \/ PopGlobal(w) \/ Fill(w) \/ PopCount(w)
           \/ Visit(w) \/ Steal(w) \/ PopNone(w) \/ Got(w)
           \/ Finish(w) \/ Unregister(w) \/ UnregisterNotify(w) \/ UnregisterWait(w)
           \/ \E t \in Tasks : ScheduleInside(w, t)
           \/ \E batch \in SUBSET Tasks : Schedule(w, batch)
    PROVE  Phase'
<1> USE ThreadsAre, MainAssumption
<1>0. Typed /\ PcTyped /\ SyncTyped /\ InPlace /\ Phase /\ WorkerOK(w)
  BY DEF IInv, Typed, InPlace
<1>1. ASSUME pc[w] \in Busy, NEW l, Goto(w, l), l \notin Leaving, UNCHANGED <<sync, join_event>>
      PROVE  Phase'
  <2>1. /\ sync.state # "Shutdown" /\ pc[Main] \notin Dropping /\ ~join_event
        /\ \A v \in Workers : pc[v] \notin Leaving
    BY <1>1, EarlyPool
  <2> QED BY <1>0, <1>1, <2>1, PhaseEarly DEF Goto, PcTyped
<1>2. CASE \/ Got(w) \/ Finish(w) \/ \E t \in Tasks : ScheduleInside(w, t)
           \/ \E batch \in SUBSET Tasks : Schedule(w, batch)
  BY <1>1, <1>2 DEF Got, Finish, ScheduleInside, Schedule, Busy, Leaving, NotifyLabels
<1>3. ASSUME NEW l, Goto(w, l) \/ UNCHANGED pc, l \notin Leaving,
             UNCHANGED <<count, join_event>>,
             sync'.state = "Shutdown" <=> sync.state = "Shutdown",
             sync'.spawned = sync.spawned
      PROVE  Phase'
  BY <1>0, <1>3, PhaseFrame DEF Goto, PcTyped
<1>4. CASE WaitNotified(w) \/ WaitIdle(w)
  <2>1. /\ sync'.state = "Shutdown" <=> sync.state = "Shutdown"
        /\ sync'.spawned = sync.spawned
    BY Zenon, <1>0, <1>4 DEF WaitNotified, WaitIdle, SyncTyped
  <2> QED BY <1>3, <1>4, <2>1 DEF WaitNotified, WaitIdle, Leaving
<1>5. CASE \/ Register(w) \/ WaitEvent(w) \/ EventWait(w) \/ EventFutex(w) \/ EventTimeout(w)
           \/ PopBuffer(w) \/ PopOwn(w) \/ PopGlobal(w) \/ Fill(w) \/ PopCount(w)
           \/ Steal(w) \/ PopNone(w)
  BY Zenon, <1>3, <1>5
  DEF Register, WaitEvent, EventWait, EventFutex, EventTimeout, PopBuffer, PopOwn, PopGlobal,
      PopQueue, Grab, Fill, PopCount, Steal, PopNone, Leaving
<1>6. CASE Visit(w)
  <2>1. \/ Goto(w, "fill") \/ UNCHANGED pc \/ Goto(w, "steal")
    BY <1>6, VisitCases DEF IInv
  <2> QED BY Zenon, <1>3, <1>6, <2>1 DEF Visit, Leaving
<1>7. CASE WaitShutdown(w)
  <2>1. sync.state = "Shutdown" /\ UNCHANGED <<sync, count, join_event>> /\ Goto(w, "unregister")
    BY <1>7 DEF WaitShutdown
  <2> QED BY <1>0, <2>1, PhaseFrame DEF Goto, PcTyped, Leaving
<1>8. CASE UnregisterWait(w)
  <2>1. UNCHANGED <<sync, count, join_event>> /\ Goto(w, "dead") /\ pc[w] = "u_wait"
    BY <1>8 DEF UnregisterWait
  <2>2. sync.state = "Shutdown"
    BY <1>0, <2>1 DEF Phase, Leaving
  <2> QED BY <1>0, <2>1, <2>2, PhaseFrame DEF Goto, PcTyped, Leaving
<1>9. CASE UnregisterNotify(w)
  <2>1. /\ UNCHANGED <<sync, count>> /\ join_event' /\ Goto(w, "u_wait")
        /\ pc[w] = "u_notify"
    BY <1>9 DEF UnregisterNotify
  <2> QED BY <1>0, <2>1 DEF Goto, PcTyped, Phase, Leaving
<1>10. CASE Unregister(w)
  <2>1. /\ UNCHANGED <<count, join_event>> /\ pc[w] = "unregister"
        /\ Goto(w, IF sync.state = "Shutdown" /\ sync.spawned = 1
                   THEN "u_notify" ELSE "u_wait")
        /\ sync'.spawned = sync.spawned - 1 /\ sync'.state = sync.state
    BY <1>0, <1>10 DEF Unregister, SyncTyped
  <2>2. sync.state = "Shutdown"
    BY <1>0, <2>1 DEF Phase, Leaving
  <2>3. sync.spawned # 0
    <3>1. w \in Present BY <2>1 DEF Present
    <3>2. Cardinality(Present) # 0 BY <3>1, PresentIsFinite, FS_EmptySet
    <3> QED BY <3>2, PresentIsFinite DEF IInv, CountsAreExact, Present, Spawning
  <2> QED BY <1>0, <2>1, <2>2, <2>3 DEF Goto, PcTyped, Phase, Leaving, SyncTyped
<1> QED BY <1>2, <1>4, <1>5, <1>6, <1>7, <1>8, <1>9, <1>10

LEMMA MainPhase ==
    ASSUME IInv, \/ MainStep /\ ~Notify(Main)
                 \/ Warm \/ BeginDrop
                 \/ \E W \in SUBSET {threads[i] : i \in DOMAIN threads} : PushIdle(W)
                 \/ \E batch \in SUBSET Tasks : Schedule(Main, batch)
    PROVE  Phase'
<1> USE ThreadsAre, MainAssumption DEF Dropping, AfterShutdown, Leaving
<1>0. Typed /\ PcTyped /\ SyncTyped /\ Phase
  BY DEF IInv, Typed
<1>1. CASE Warm \/ \E batch \in SUBSET Tasks : Schedule(Main, batch)
  <2>1. sync'.state = sync.state
    BY <1>0, <1>1 DEF Warm, Schedule, SyncTyped
  <2> QED BY <1>0, <1>1, <2>1 DEF Warm, Schedule, Goto, PcTyped, Phase
<1>2. CASE BeginDrop \/ \E W \in SUBSET {threads[i] : i \in DOMAIN threads} : PushIdle(W)
  BY <1>0, <1>2 DEF BeginDrop, PushIdle, MayDrop, Goto, PcTyped, Phase
<1>3. CASE WakeForIdleEvents \/ ShutdownEvent
  BY <1>0, <1>3 DEF WakeForIdleEvents, ShutdownEvent, WakeAll, Goto, PcTyped, Phase
<1>4. CASE WakeForIdleFutex \/ ShutdownFutex
  BY <1>0, <1>4 DEF WakeForIdleFutex, ShutdownFutex, FutexAll, Parked, PcTyped, Phase
<1>5. CASE Shutdown
  <2>1. sync'.state = "Shutdown" /\ sync.state # "Shutdown" /\ count = 0
    BY <1>0, <1>5 DEF Shutdown, Phase, SyncTyped
  <2> QED BY <1>0, <1>5, <2>1 DEF Shutdown, Goto, PcTyped, Phase
<1>6. CASE Join \/ JoinWait \/ JoinChain
  BY <1>0, <1>6 DEF Join, JoinWait, JoinChain, Goto, PcTyped, Phase
<1> QED BY <1>1, <1>2, <1>3, <1>4, <1>5, <1>6 DEF MainStep

LEMMA PhaseStep == ASSUME IInv, Next PROVE Phase'
<1>1. ASSUME NEW x \in Threads, NEW batch \in SUBSET Tasks, Schedule(x, batch)
      PROVE  Phase'
  BY <1>1, WorkerPhase, MainPhase DEF Threads
<1> QED BY <1>1, NotifyPhase, MainPhase, WorkerPhase, ThreadsAre
        DEF Next, MainStep, WorkerStep, Request

-----------------------------------------------------------------------------
(* Tasks move from one place to the next.                                  *)

\* Task t stays where it is.
Stays(t) == \A k \in Kinds, x \in Threads : At(t, k, x)' <=> At(t, k, x)

\* Task t goes from place k of thread x to place l of thread y.
Moves(t, k, x, l, y) ==
    /\ At(t, k, x) /\ At(t, l, y)'
    /\ \A m \in Kinds, z \in Threads :
         At(t, m, z)' => \/ m = l /\ z = y
                         \/ At(t, m, z) /\ ~(m = k /\ z = x)

LEMMA OnePlaceMoves ==
    ASSUME OnePlace,
           \A t \in Tasks : \/ Stays(t)
                            \/ \E k, l \in Kinds, x, y \in Threads : Moves(t, k, x, l, y)
    PROVE  OnePlace'
<1>1. SUFFICES ASSUME NEW t \in Tasks
               PROVE  \E k \in Kinds, x \in Threads :
                        /\ At(t, k, x)'
                        /\ \A m \in Kinds, z \in Threads : At(t, m, z)' => m = k /\ z = x
  BY DEF OnePlace
<1>2. PICK k \in Kinds, x \in Threads :
        /\ At(t, k, x)
        /\ \A m \in Kinds, z \in Threads : At(t, m, z) => m = k /\ z = x
  BY DEF OnePlace
<1>3. CASE Stays(t)
  BY <1>2, <1>3 DEF Stays
<1>4. ASSUME NEW k1 \in Kinds, NEW l \in Kinds, NEW x1 \in Threads, NEW y \in Threads,
             Moves(t, k1, x1, l, y)
      PROVE  \E k2 \in Kinds, x2 \in Threads :
                        /\ At(t, k2, x2)'
                        /\ \A m \in Kinds, z \in Threads : At(t, m, z)' => m = k2 /\ z = x2
  <2>1. k1 = k /\ x1 = x
    BY <1>2, <1>4 DEF Moves
  <2>2. At(t, l, y)'
    BY <1>4 DEF Moves
  <2>3. ASSUME NEW m \in Kinds, NEW z \in Threads, At(t, m, z)' PROVE m = l /\ z = y
    BY <1>2, <1>4, <2>1, <2>3 DEF Moves
  <2> QED BY <2>2, <2>3
<1> QED BY <1>3, <1>4

\* What TasksConserved says, as it is proved.
Conserved == OnePlace /\ InBounds /\ CountIsExact

\* The steps that move no task.
LEMMA TasksFrame ==
    ASSUME Conserved, UNCHANGED <<run_queue, run_buffer, fresh, ran, count>>,
           \A w \in Workers : loc'[w].hold = loc[w].hold /\ loc'[w].task = loc[w].task
    PROVE  Conserved'
<1>1. \A t \in Tasks : Stays(t)
  BY DEF Stays, At
<1> QED BY <1>1, OnePlaceMoves DEF Conserved, InBounds, CountIsExact, Outstanding

LEMMA TasksFrameKeeps ==
    ASSUME Conserved, UNCHANGED <<run_queue, run_buffer, fresh, ran, count>>,
           NEW S, Keeps(S), "hold" \notin S, "task" \notin S
    PROVE  Conserved'
BY TasksFrame, ThreadsAre DEF Keeps, Fields

\* The steps that change none of the locals.
LEMMA TasksFrameLocals ==
    ASSUME Conserved, UNCHANGED <<run_queue, run_buffer, fresh, ran, count, loc>>
    PROVE  Conserved'
BY TasksFrame

LEMMA NotifyTasks ==
    ASSUME IInv, NEW x \in Threads, Notify(x)
    PROVE  Conserved'
<1>0. Conserved /\ Typed
  BY DEF IInv, Conserved
<1>1. UNCHANGED <<run_queue, run_buffer, fresh, ran, count>>
  BY DEF Notify, NotifyFast, NotifySlow, NotifyEvent, NotifyFutex, Spawn, SpawnFailed, queues
<1>2. CASE UNCHANGED loc
  BY <1>0, <1>1, <1>2, TasksFrameLocals
<1>3. CASE NotifySlow(x)
  BY <1>0, <1>1, <1>3, NotifySlowLocals, TasksFrameKeeps DEF KeepsBut
<1>4. ASSUME NEW W, Awaken(W) PROVE Conserved'
  BY <1>0, <1>1, <1>4, AwakenLocals, TasksFrameKeeps
<1> QED BY <1>2, <1>3, <1>4
        DEF Notify, NotifyFast, NotifyEvent, NotifyFutex, Spawn, SpawnFailed

LEMMA MainTasks ==
    ASSUME IInv, \/ MainStep /\ ~Notify(Main)
                 \/ Warm \/ BeginDrop
                 \/ \E W \in SUBSET {threads[i] : i \in DOMAIN threads} : PushIdle(W)
    PROVE  Conserved'
<1>0. Conserved /\ Typed
  BY DEF IInv, Conserved
<1>1. UNCHANGED <<run_queue, run_buffer, fresh, ran, count>>
  BY DEF MainStep, WakeForIdleEvents, ShutdownEvent, WakeAll, WakeForIdleFutex,
         ShutdownFutex, FutexAll, Shutdown, Join, JoinWait, JoinChain, Warm, BeginDrop,
         PushIdle, queues
<1>2. CASE UNCHANGED loc
  BY <1>0, <1>1, <1>2, TasksFrameLocals
<1>3. CASE Warm
  BY <1>0, <1>1, <1>3, RetLocals, ThreadsAre, TasksFrameKeeps DEF Warm, KeepsBut
<1>4. ASSUME NEW W, Awaken(W) PROVE Conserved'
  BY <1>0, <1>1, <1>4, AwakenLocals, TasksFrameKeeps
<1>5. CASE JoinChain
  BY <1>0, <1>1, <1>5, JoinChainLocals, TasksFrameKeeps
<1> QED BY <1>2, <1>3, <1>4, <1>5
        DEF MainStep, WakeForIdleEvents, ShutdownEvent, WakeAll, WakeForIdleFutex,
            ShutdownFutex, FutexAll, Shutdown, Join, JoinWait, BeginDrop, PushIdle

\* The steps of a worker that moves no task.
LEMMA WorkerTasksStay ==
    ASSUME IInv, NEW w \in Workers,
           \/ Register(w) \/ WaitShutdown(w) \/ WaitNotified(w) \/ WaitIdle(w)
           \/ WaitEvent(w) \/ EventWait(w) \/ EventFutex(w) \/ EventTimeout(w)
           \/ PopCount(w) \/ PopNone(w) \/ Got(w)
           \/ Unregister(w) \/ UnregisterNotify(w) \/ UnregisterWait(w)
    PROVE  Conserved'
<1> USE ThreadsAre
<1>0. Conserved /\ Typed
  BY DEF IInv, Conserved
<1>1. UNCHANGED <<run_queue, run_buffer, fresh, ran, count>>
  BY DEF Register, WaitShutdown, WaitNotified, WaitIdle, WaitEvent, EventWait, EventFutex,
         EventTimeout, PopCount, PopNone, Got, Unregister, UnregisterNotify, UnregisterWait,
         queues
<1>2. CASE UNCHANGED loc
  BY <1>0, <1>1, <1>2, TasksFrameLocals
<1>3. CASE Awaken({w})
  BY <1>0, <1>1, <1>3, AwakenLocals, TasksFrameKeeps
<1>4. CASE WaitShutdown(w)
  <2>1. pc[w] = "wait" /\ loc'[w] = NoLocals /\ \A v \in Workers \ {w} : loc'[v] = loc[v]
    BY <1>0, <1>4, WaitShutdownLocals DEF WaitShutdown, KeepsBut
  <2>2. loc[w].hold = {} /\ loc[w].task = NoTask
    BY <2>1 DEF IInv, InPlace, WorkerOK, Busy, NotifyLabels
  <2> QED BY <1>0, <1>1, <2>1, <2>2, TasksFrame DEF NoLocals
<1>5. CASE WaitNotified(w)
  BY <1>0, <1>1, <1>5, WaitNotifiedLocals, TasksFrameKeeps DEF KeepsBut
<1>6. CASE WaitIdle(w)
  BY <1>0, <1>1, <1>6, WaitIdleLocals, TasksFrameKeeps DEF KeepsBut
<1>7. CASE EventWait(w)
  BY <1>0, <1>1, <1>7, EventWaitLocals, TasksFrameKeeps DEF KeepsBut
<1>8. CASE PopCount(w)
  BY <1>0, <1>1, <1>8, PopCountLocals, TasksFrameKeeps DEF KeepsBut
<1>9. CASE Got(w)
  BY <1>0, <1>1, <1>9, GotLocals, TasksFrameKeeps DEF KeepsBut
<1>10. CASE UnregisterWait(w)
  BY <1>0, <1>1, <1>10, UnregisterWaitLocals, TasksFrameKeeps
<1> QED BY <1>2, <1>3, <1>4, <1>5, <1>6, <1>7, <1>8, <1>9, <1>10
        DEF Register, WaitEvent, EventFutex, EventTimeout, PopNone, Unregister, UnregisterNotify

\* Sets of tasks are finite, and smaller when tasks are taken away.
LEMMA TaskSets ==
    ASSUME NEW S \in SUBSET Tasks
    PROVE  /\ IsFiniteSet(S) /\ Cardinality(S) \in Nat
           /\ \A R \in SUBSET S : Cardinality(R) <= Cardinality(S)
           /\ \A t \in S : Cardinality(S \ {t}) = Cardinality(S) - 1
           /\ \A t \in Tasks \ S : Cardinality(S \cup {t}) = Cardinality(S) + 1
<1>1. IsFiniteSet(S)
  BY TasksAssumption, FS_Subset
<1> QED BY <1>1, FS_Subset, FS_CardinalityType, FS_RemoveElement, FS_AddElement

LEMMA MinOfTwo ==
    ASSUME NEW a \in Int, NEW b \in Int
    PROVE  Min({a, b}) <= b
<1>1. \E x \in {a, b} : \A y \in {a, b} : x =< y
  OBVIOUS
<1> QED BY <1>1 DEF Min

\* consume() takes tasks from a queue: they are held, and at most Capacity + 1.
LEMMA GrabTasks ==
    ASSUME IInv, NEW w \in Workers, NEW q \in Threads, NEW S \in SUBSET run_queue[q],
           Cardinality(S) = Min({Cardinality(run_queue[q]), Capacity + 1}),
           run_queue' = [run_queue EXCEPT ![q] = @ \ S],
           NEW F, KeepsBut(w, F), "task" \notin F, loc'[w].hold = S, loc[w].hold = {},
           UNCHANGED <<run_buffer, fresh, ran, count>>
    PROVE  Conserved'
<1> USE ThreadsAre
<1>0. Conserved /\ Typed /\ TasksTyped
  BY DEF IInv, Conserved, Typed
<1>1. /\ run_queue'[q] = run_queue[q] \ S
      /\ \A x \in Threads \ {q} : run_queue'[x] = run_queue[x]
      /\ \A v \in Workers \ {w} : loc'[v].hold = loc[v].hold
      /\ \A v \in Workers : loc'[v].task = loc[v].task
  BY <1>0 DEF TasksTyped, KeepsBut, Keeps, Fields
<1>2. \A t \in S : Moves(t, "queue", q, "hold", w)
  BY <1>1 DEF Moves, At, Kinds
<1>3. \A t \in Tasks \ S : Stays(t)
  BY <1>1 DEF Stays, At, Kinds
<1>4. OnePlace'
  BY <1>0, <1>2, <1>3, OnePlaceMoves DEF Conserved, Kinds
<1>5. Cardinality(loc'[w].hold) <= Capacity + 1
  <2>1. run_queue[q] \in SUBSET Tasks
    BY <1>0 DEF TasksTyped
  <2>2. Cardinality(run_queue[q]) \in Int
    BY <2>1, TaskSets
  <2> QED BY <2>2, MinOfTwo, CapacityAssumption
<1>6. InBounds'
  BY <1>0, <1>1, <1>5 DEF Conserved, InBounds
<1> QED BY <1>0, <1>4, <1>6 DEF Conserved, CountIsExact, Outstanding

\* The steps of pop() that move tasks.
LEMMA PopTasks ==
    ASSUME IInv, NEW w \in Workers,
           \/ PopBuffer(w) \/ PopOwn(w) \/ PopGlobal(w) \/ Fill(w) \/ Visit(w) \/ Steal(w)
    PROVE  Conserved'
<1> USE ThreadsAre
<1>0. Conserved /\ Typed /\ TasksTyped /\ WorkerOK(w) /\ Listed
  BY DEF IInv, Conserved, Typed, InPlace
<1>a. UNCHANGED <<fresh, ran, count>>
  BY Zenon DEF PopBuffer, PopOwn, PopGlobal, PopQueue, Fill, Visit, Steal
<1>1. CASE PopBuffer(w)
  <2>0. UNCHANGED run_queue /\ pc[w] = "pop"
    BY <1>1 DEF PopBuffer
  <2>1. CASE UNCHANGED <<run_buffer, loc>>
    BY <1>0, <1>a, <2>0, <2>1, TasksFrameLocals
  <2>2. ASSUME NEW t \in run_buffer[w], t \in Tasks,
               run_buffer' = [run_buffer EXCEPT ![w] = @ \ {t}],
               KeepsBut(w, {"task", "pushed"}), loc'[w].task = t
        PROVE  Conserved'
    <3>0. loc[w].task = NoTask
      BY <1>0, <2>0 DEF WorkerOK, Busy, NotifyLabels
    <3>1. /\ run_buffer'[w] = run_buffer[w] \ {t}
          /\ \A v \in Workers \ {w} : run_buffer'[v] = run_buffer[v]
          /\ \A v \in Workers : loc'[v].hold = loc[v].hold
          /\ \A v \in Workers \ {w} : loc'[v].task = loc[v].task
      BY <1>0, <2>2 DEF TasksTyped, KeepsBut, Keeps, Fields
    <3>2. Moves(t, "buffer", w, "task", w)
      BY <1>a, <2>0, <2>2, <3>1 DEF Moves, At, Kinds
    <3>3. \A s \in Tasks \ {t} : Stays(s)
      BY <1>a, <2>0, <2>2, <3>0, <3>1, TasksAssumption DEF Stays, At, Kinds
    <3>4. OnePlace'
      BY <1>0, <3>2, <3>3, OnePlaceMoves DEF Conserved, Kinds
    <3>5. Cardinality(run_buffer'[w]) <= Cardinality(run_buffer[w])
      BY <1>0, <3>1, TaskSets DEF TasksTyped
    <3>6. Cardinality(run_buffer'[w]) \in Nat /\ Cardinality(run_buffer[w]) \in Nat
      BY <1>0, <2>2, <3>1, TaskSets DEF TasksTyped
    <3>7. InBounds'
      <4>1. ASSUME NEW u \in Workers
            PROVE  Cardinality(run_buffer'[u]) <= Capacity /\ Cardinality(loc'[u].hold) <= Capacity + 1
        <5>0. Cardinality(loc'[u].hold) <= Capacity + 1 /\ Cardinality(run_buffer[w]) <= Capacity
          BY <1>0, <3>1 DEF Conserved, InBounds
        <5>1. CASE u = w
          BY <3>5, <3>6, <5>0, <5>1, CapacityAssumption
        <5>2. CASE u # w
          BY <1>0, <3>1, <5>2 DEF Conserved, InBounds
        <5> QED BY <5>1, <5>2
      <4> QED BY <4>1 DEF InBounds
    <3> QED BY <1>0, <1>a, <3>4, <3>7 DEF Conserved, CountIsExact, Outstanding
  <2> QED BY <1>1, <2>1, <2>2, PopBufferCases
<1>2. ASSUME NEW l \in {"own", "global"}, NEW q \in Threads, NEW next, PopQueue(w, l, q, next)
      PROVE  Conserved'
  <2>1. CASE UNCHANGED <<queues, loc>>
    BY <1>0, <1>a, <2>1, TasksFrameLocals DEF queues
  <2>2. loc[w].hold = {}
    BY <1>0, <1>2 DEF WorkerOK, PopQueue
  <2>3. CASE \E S \in SUBSET run_queue[q] :
               /\ Cardinality(S) = Min({Cardinality(run_queue[q]), Capacity + 1})
               /\ run_queue' = [run_queue EXCEPT ![q] = @ \ S]
               /\ KeepsBut(w, {"hold", "from"}) /\ loc'[w].hold = S
               /\ UNCHANGED run_buffer
    BY <1>a, <2>2, <2>3, GrabTasks
  <2> QED BY <1>2, <2>1, <2>3, PopQueueCases
<1>3. CASE PopOwn(w) \/ PopGlobal(w)
  BY <1>2, <1>3 DEF PopOwn, PopGlobal
<1>4. CASE Fill(w)
  <2>0. UNCHANGED run_queue /\ pc[w] = "fill"
    BY Zenon, <1>4 DEF Fill
  <2>1. PICK t \in loc[w].hold :
          /\ t \in Tasks /\ run_buffer' = [run_buffer EXCEPT ![w] = loc[w].hold \ {t}]
          /\ KeepsBut(w, {"task", "hold", "from", "visits", "pushed"})
          /\ loc'[w].task = t /\ loc'[w].hold = {}
    BY <1>4, FillCases
  <2>2. loc[w].task = NoTask /\ run_buffer[w] = {} /\ loc[w].hold \in SUBSET Tasks
    BY <1>0, <2>0 DEF WorkerOK, Busy, NotifyLabels, Typed, LocTyped, LocalsOK
  <2>3. /\ run_buffer'[w] = loc[w].hold \ {t}
        /\ \A v \in Workers \ {w} : /\ run_buffer'[v] = run_buffer[v]
                                    /\ loc'[v].hold = loc[v].hold
                                    /\ loc'[v].task = loc[v].task
    BY <1>0, <2>1 DEF TasksTyped, KeepsBut
  <2>4. Moves(t, "hold", w, "task", w)
    BY <1>a, <2>0, <2>1, <2>2, <2>3 DEF Moves, At, Kinds
  <2>5. \A s \in loc[w].hold \ {t} : Moves(s, "hold", w, "buffer", w)
    BY <1>a, <2>0, <2>1, <2>2, <2>3 DEF Moves, At, Kinds
  <2>6. \A s \in Tasks \ loc[w].hold : Stays(s)
    BY <1>a, <2>0, <2>1, <2>2, <2>3, TasksAssumption DEF Stays, At, Kinds
  <2>7. OnePlace'
    BY <1>0, <2>4, <2>5, <2>6, OnePlaceMoves DEF Conserved, Kinds
  <2>8. Cardinality(run_buffer'[w]) = Cardinality(loc[w].hold) - 1
    BY <2>2, <2>3, TaskSets
  <2>9. Cardinality(loc[w].hold) \in Nat /\ Cardinality(loc'[w].hold) = 0
    BY <2>1, <2>2, TaskSets, FS_EmptySet
  <2>10. InBounds'
    <3>1. ASSUME NEW u \in Workers
          PROVE  Cardinality(run_buffer'[u]) <= Capacity /\ Cardinality(loc'[u].hold) <= Capacity + 1
      <4>1. CASE u = w
        BY <1>0, <2>8, <2>9, <4>1, CapacityAssumption DEF Conserved, InBounds
      <4>2. CASE u # w
        BY <1>0, <2>3, <4>2 DEF Conserved, InBounds
      <4> QED BY <4>1, <4>2
    <3> QED BY <3>1 DEF InBounds
  <2> QED BY <1>0, <1>a, <2>7, <2>10 DEF Conserved, CountIsExact, Outstanding
<1>5. CASE Visit(w)
  <2>0. UNCHANGED run_buffer /\ pc[w] = "visit"
    BY Zenon, <1>5 DEF Visit
  <2>1. loc[w].hold = {} /\ Victim(w) \in Threads
    BY <1>0, <1>5, <2>0, VisitCases DEF WorkerOK
  <2>2. CASE \E S \in SUBSET run_queue[Victim(w)] :
               /\ Cardinality(S) = Min({Cardinality(run_queue[Victim(w)]), Capacity + 1})
               /\ run_queue' = [run_queue EXCEPT ![Victim(w)] = @ \ S]
               /\ KeepsBut(w, {"target", "hold", "from"}) /\ loc'[w].hold = S
    BY <1>a, <2>0, <2>1, <2>2, GrabTasks
  <2>3. CASE UNCHANGED run_queue /\ (\/ KeepsBut(w, {"target", "visits"})
                                     \/ KeepsBut(w, {"target", "from"}))
    BY <1>0, <1>a, <2>0, <2>3, TasksFrameKeeps DEF KeepsBut
  <2> QED BY <1>0, <1>5, <2>2, <2>3, VisitCases
<1>6. CASE Steal(w)
  <2>0. /\ UNCHANGED run_queue /\ pc[w] = "steal" /\ run_buffer[w] = {}
        /\ loc[w].from \in Workers \ {w}
    BY <1>6, StealCases
  <2>1. CASE KeepsBut(w, {"visits", "from"}) /\ UNCHANGED run_buffer
    BY <1>0, <1>a, <2>0, <2>1, TasksFrameKeeps DEF KeepsBut
  <2>2. ASSUME NEW v \in Workers \ {w}, NEW S \in SUBSET run_buffer[v], NEW t \in S,
               S \subseteq Tasks,
               run_buffer' = [run_buffer EXCEPT ![v] = @ \ S, ![w] = S \ {t}],
               KeepsBut(w, {"task", "pushed", "visits", "from"}), loc'[w].task = t
        PROVE  Conserved'
    <3>0. loc[w].task = NoTask
      BY <1>0, <2>0 DEF WorkerOK, Busy, NotifyLabels
    <3>1. /\ run_buffer'[w] = S \ {t} /\ run_buffer'[v] = run_buffer[v] \ S
          /\ \A u \in Workers \ {v, w} : run_buffer'[u] = run_buffer[u]
          /\ \A u \in Workers : loc'[u].hold = loc[u].hold
          /\ \A u \in Workers \ {w} : loc'[u].task = loc[u].task
      BY <1>0, <2>2 DEF TasksTyped, KeepsBut, Keeps, Fields
    <3>2. Moves(t, "buffer", v, "task", w)
      BY <1>a, <2>0, <2>2, <3>1 DEF Moves, At, Kinds
    <3>3. ASSUME NEW s \in S \ {t} PROVE Moves(s, "buffer", v, "buffer", w)
      <4>1. s \in run_buffer[v] /\ s \in run_buffer'[w] /\ s \notin run_buffer'[v]
        BY <2>2, <3>1, <3>3
      <4>2. \A u \in Workers : s = loc'[u].task => s = loc[u].task
        BY <2>2, <3>1, <3>3
      <4>3. \A u \in Workers \ {w} : s \in run_buffer'[u] => s \in run_buffer[u]
        BY <3>1, <4>1
      <4> QED BY <1>a, <2>0, <3>1, <4>1, <4>2, <4>3 DEF Moves, At, Kinds
    <3>4. ASSUME NEW s \in Tasks \ S PROVE Stays(s)
      <4>1. \A u \in Workers : s \in run_buffer'[u] <=> s \in run_buffer[u]
        BY <2>0, <3>1
      <4>2. \A u \in Workers : s = loc'[u].task <=> s = loc[u].task
        BY <2>2, <3>0, <3>1, <3>4, TasksAssumption
      <4> QED BY <1>a, <2>0, <3>1, <4>1, <4>2 DEF Stays, At, Kinds
    <3>5. OnePlace'
      BY <1>0, <2>2, <3>2, <3>3, <3>4, OnePlaceMoves DEF Conserved, Kinds
    <3>6. run_buffer[v] \in SUBSET Tasks
      BY <1>0 DEF TasksTyped
    <3>7. /\ Cardinality(run_buffer'[v]) <= Cardinality(run_buffer[v])
          /\ Cardinality(run_buffer'[w]) <= Cardinality(run_buffer[v])
      BY <3>1, <3>6, TaskSets
    <3>8. /\ Cardinality(run_buffer'[v]) \in Nat /\ Cardinality(run_buffer[v]) \in Nat
          /\ Cardinality(run_buffer'[w]) \in Nat
      BY <2>2, <3>1, <3>6, TaskSets
    <3>9. InBounds'
      <4>1. ASSUME NEW u \in Workers
            PROVE  Cardinality(run_buffer'[u]) <= Capacity /\ Cardinality(loc'[u].hold) <= Capacity + 1
        <5>0. Cardinality(loc'[u].hold) <= Capacity + 1 /\ Cardinality(run_buffer[v]) <= Capacity
          BY <1>0, <3>1 DEF Conserved, InBounds
        <5>1. CASE u = w
          BY <3>7, <3>8, <5>0, <5>1, CapacityAssumption
        <5>2. CASE u = v
          BY <3>7, <3>8, <5>0, <5>2, CapacityAssumption
        <5>3. CASE u # w /\ u # v
          BY <1>0, <3>1, <5>0, <5>3 DEF Conserved, InBounds
        <5> QED BY <5>1, <5>2, <5>3
      <4> QED BY <4>1 DEF InBounds
    <3> QED BY <1>0, <1>a, <3>5, <3>9 DEF Conserved, CountIsExact, Outstanding
  <2>3. CASE \E S \in SUBSET run_buffer[loc[w].from] : \E t \in S :
                   /\ S \subseteq Tasks
                   /\ run_buffer' = [run_buffer EXCEPT ![loc[w].from] = @ \ S, ![w] = S \ {t}]
                   /\ KeepsBut(w, {"task", "pushed", "visits", "from"})
                   /\ loc'[w].task = t
    BY <2>0, <2>2, <2>3
  <2> QED BY <1>6, <2>1, <2>3, StealCases
<1> QED BY <1>1, <1>3, <1>4, <1>5, <1>6

\* A fresh task is not outstanding, and a task that runs is.
LEMMA FreshIsNew ==
    ASSUME OnePlace, NEW t \in Tasks, t \in fresh
    PROVE  t \notin Outstanding /\ t \notin ran
BY OnlyPlace, ThreadsAre DEF Outstanding, At, Kinds

\* Tasks are scheduled: they leave `fresh` and are counted.
LEMMA CountScheduled ==
    ASSUME OnePlace, CountIsExact, Typed, NEW S \in SUBSET Tasks, S \subseteq fresh,
           fresh' = fresh \ S, count' = count + Cardinality(S), UNCHANGED ran
    PROVE  CountIsExact'
<1>1. Outstanding' = Outstanding \cup S /\ Outstanding \cap S = {}
  BY FreshIsNew DEF Outstanding
<1>2. IsFiniteSet(S) /\ IsFiniteSet(Outstanding)
  BY TaskSets, OutstandingIsFinite
<1>3. Cardinality(Outstanding \cup S) =
        Cardinality(Outstanding) + Cardinality(S) - Cardinality(Outstanding \cap S)
  BY <1>2, FS_Union
<1>4. Cardinality(Outstanding \cap S) = 0
  BY <1>1, FS_EmptySet
<1>5. Cardinality(Outstanding) \in Nat /\ Cardinality(S) \in Nat
  BY <1>2, FS_CardinalityType
<1> QED BY <1>1, <1>3, <1>4, <1>5 DEF CountIsExact

LEMMA ScheduleTasks ==
    ASSUME IInv, NEW x \in Threads, NEW batch \in SUBSET Tasks, Schedule(x, batch)
    PROVE  Conserved'
<1> USE ThreadsAre
<1>0. Conserved /\ Typed /\ TasksTyped
  BY DEF IInv, Conserved, Typed
<1>1. /\ batch \subseteq fresh /\ fresh' = fresh \ batch
      /\ count' = count + Cardinality(batch)
      /\ run_queue' = [run_queue EXCEPT ![Main] = @ \cup batch]
      /\ UNCHANGED <<run_buffer, ran>> /\ pc[x] \in {"main", "run"}
  BY DEF Schedule
<1>2. KeepsBut(x, {"ret"})
  BY <1>0, <1>1, RetLocals DEF Schedule
<1>3. /\ run_queue'[Main] = run_queue[Main] \cup batch
      /\ \A y \in Threads \ {Main} : run_queue'[y] = run_queue[y]
      /\ \A w \in Workers : loc'[w].hold = loc[w].hold /\ loc'[w].task = loc[w].task
  BY <1>0, <1>1, <1>2 DEF TasksTyped, KeepsBut, Keeps, Fields
<1>4. \A t \in batch : Moves(t, "fresh", Main, "queue", Main)
  BY <1>1, <1>3 DEF Moves, At, Kinds
<1>5. \A t \in Tasks \ batch : Stays(t)
  BY <1>1, <1>3 DEF Stays, At, Kinds
<1>6. OnePlace'
  BY <1>0, <1>4, <1>5, OnePlaceMoves DEF Conserved, Kinds
<1>7. InBounds'
  BY <1>0, <1>1, <1>3 DEF Conserved, InBounds
<1> QED BY <1>0, <1>1, <1>6, <1>7, CountScheduled DEF Conserved

LEMMA ScheduleInsideTasks ==
    ASSUME IInv, NEW w \in Workers, NEW t \in Tasks, ScheduleInside(w, t)
    PROVE  Conserved'
<1> USE ThreadsAre
<1>0. Conserved /\ Typed /\ TasksTyped
  BY DEF IInv, Conserved, Typed
<1>1. t \in fresh /\ fresh' = fresh \ {t} /\ count' = count + 1 /\ UNCHANGED ran
  BY DEF ScheduleInside
<1>2. KeepsBut(w, {"ret"})
  BY <1>0, <1>1, RetLocals DEF ScheduleInside
<1>3. \A v \in Workers : loc'[v].hold = loc[v].hold /\ loc'[v].task = loc[v].task
  BY <1>2 DEF KeepsBut, Keeps, Fields
<1>4. CountIsExact'
  <2>1. Cardinality({t}) = 1
    BY FS_Singleton
  <2> QED BY <1>0, <1>1, <2>1, CountScheduled DEF Conserved
<1>5. run_buffer[w] \in SUBSET Tasks /\ t \notin run_buffer[w]
  <2>1. ~At(t, "buffer", w)
    BY <1>0, <1>1, OnlyPlace DEF Conserved, At, Kinds
  <2> QED BY <1>0, <2>1 DEF At, TasksTyped
<1>6. ASSUME Cardinality(run_buffer'[w]) <= Capacity,
             \A v \in Workers \ {w} : run_buffer'[v] = run_buffer[v]
      PROVE  InBounds'
  BY <1>0, <1>3, <1>6 DEF Conserved, InBounds
<1>7. CASE /\ Cardinality(run_buffer[w]) < Capacity
           /\ run_buffer' = [run_buffer EXCEPT ![w] = @ \cup {t}]
           /\ UNCHANGED run_queue
  <2>1. /\ run_buffer'[w] = run_buffer[w] \cup {t}
        /\ \A v \in Workers \ {w} : run_buffer'[v] = run_buffer[v]
    BY <1>0, <1>7 DEF TasksTyped
  <2>2. Moves(t, "fresh", Main, "buffer", w)
    BY <1>1, <1>3, <1>7, <2>1 DEF Moves, At, Kinds
  <2>3. \A s \in Tasks \ {t} : Stays(s)
    BY <1>1, <1>3, <1>7, <2>1 DEF Stays, At, Kinds
  <2>4. OnePlace'
    BY <1>0, <2>2, <2>3, OnePlaceMoves DEF Conserved, Kinds
  <2>5. Cardinality(run_buffer'[w]) = Cardinality(run_buffer[w]) + 1 /\ Cardinality(run_buffer[w]) \in Nat
    BY <1>5, <2>1, TaskSets
  <2>6. Cardinality(run_buffer'[w]) <= Capacity
    BY <1>7, <2>5, CapacityAssumption
  <2> QED BY <1>4, <1>6, <2>1, <2>4, <2>6 DEF Conserved
<1>8. ASSUME NEW S \in SUBSET run_buffer[w],
             run_buffer' = [run_buffer EXCEPT ![w] = @ \ S],
             run_queue' = [run_queue EXCEPT ![w] = @ \cup S \cup {t}]
      PROVE  Conserved'
  <2>1. /\ run_buffer'[w] = run_buffer[w] \ S
        /\ \A v \in Workers \ {w} : run_buffer'[v] = run_buffer[v]
        /\ run_queue'[w] = run_queue[w] \cup S \cup {t}
        /\ \A x \in Threads \ {w} : run_queue'[x] = run_queue[x]
    BY <1>0, <1>8 DEF TasksTyped
  <2>2. Moves(t, "fresh", Main, "queue", w)
    BY <1>1, <1>3, <1>5, <2>1 DEF Moves, At, Kinds
  <2>3. ASSUME NEW s \in S PROVE Moves(s, "buffer", w, "queue", w)
    <3>1. s \in run_buffer[w] /\ s # t
      BY <1>5
    <3> QED BY <1>1, <1>3, <2>1, <3>1 DEF Moves, At, Kinds
  <2>4. \A s \in Tasks \ (S \cup {t}) : Stays(s)
    BY <1>1, <1>3, <2>1 DEF Stays, At, Kinds
  <2>5. OnePlace'
    BY <1>0, <1>5, <2>2, <2>3, <2>4, OnePlaceMoves DEF Conserved, Kinds
  <2>6. /\ Cardinality(run_buffer'[w]) <= Cardinality(run_buffer[w])
        /\ Cardinality(run_buffer[w]) \in Nat /\ Cardinality(run_buffer'[w]) \in Nat
    BY <1>5, <2>1, TaskSets
  <2>7. Cardinality(run_buffer[w]) <= Capacity
    BY <1>0 DEF Conserved, InBounds
  <2>8. Cardinality(run_buffer'[w]) <= Capacity
    BY <2>6, <2>7, CapacityAssumption
  <2> QED BY <1>4, <1>6, <2>1, <2>5, <2>8 DEF Conserved
<1> QED BY <1>7, <1>8 DEF ScheduleInside

LEMMA FinishTasks ==
    ASSUME IInv, NEW w \in Workers, Finish(w)
    PROVE  Conserved'
<1> USE ThreadsAre
<1>0. Conserved /\ Typed /\ TasksTyped
  BY DEF IInv, Conserved, Typed
<1>1. PICK t \in Tasks : t = loc[w].task
  BY BusyIsOutstanding DEF Finish, Busy, Outstanding
<1>2. t \in Outstanding
  BY <1>1, BusyIsOutstanding DEF Finish, Busy
<1>3. ran' = ran \cup {t} /\ count' = count - 1 /\ UNCHANGED <<run_queue, run_buffer, fresh>>
  BY <1>1 DEF Finish, queues
<1>4. KeepsBut(w, {"task", "ret"}) /\ loc'[w].task = NoTask
  BY <1>0, FinishLocals
<1>5. /\ \A v \in Workers : loc'[v].hold = loc[v].hold
      /\ \A v \in Workers \ {w} : loc'[v].task = loc[v].task
  BY <1>4 DEF KeepsBut, Keeps, Fields
<1>6. Moves(t, "task", w, "ran", Main)
  BY <1>1, <1>3, <1>4, <1>5, TasksAssumption DEF Moves, At, Kinds
<1>7. \A s \in Tasks \ {t} : Stays(s)
  BY <1>1, <1>3, <1>4, <1>5, TasksAssumption DEF Stays, At, Kinds
<1>8. OnePlace'
  BY <1>0, <1>6, <1>7, OnePlaceMoves DEF Conserved, Kinds
<1>9. InBounds'
  BY <1>0, <1>3, <1>5 DEF Conserved, InBounds
<1>10. CountIsExact'
  <2>1. Outstanding' = Outstanding \ {t}
    BY <1>3 DEF Outstanding
  <2>2. Cardinality(Outstanding \ {t}) = Cardinality(Outstanding) - 1
    BY <1>2, TaskSets DEF Outstanding
  <2> QED BY <1>0, <1>3, <2>1, <2>2 DEF Conserved, CountIsExact
<1> QED BY <1>8, <1>9, <1>10 DEF Conserved

LEMMA ConservedStep == ASSUME IInv, Next PROVE Conserved'
<1>1. ASSUME NEW w \in Workers, WorkerStep(w) \/ EventTimeout(w) PROVE Conserved'
  BY <1>1, ThreadsAre, NotifyTasks, WorkerTasksStay, PopTasks, FinishTasks DEF WorkerStep
<1>2. CASE MainStep
  BY <1>2, ThreadsAre, NotifyTasks, MainTasks DEF MainStep
<1>3. CASE Request
  BY <1>3, MainTasks, ScheduleTasks, ScheduleInsideTasks DEF Request
<1> QED BY <1>1, <1>2, <1>3 DEF Next

-----------------------------------------------------------------------------
(* The waking thread.                                                      *)

\* "At most one" without cardinalities.
LEMMA AwakeIsOne == Cardinality(Awake) <= 1 <=> \A u, v \in Awake : u = v
<1>1. IsFiniteSet(Awake)
  BY WorkersAssumption, FS_Subset DEF Awake
<1>2. ASSUME Cardinality(Awake) <= 1, NEW u \in Awake, NEW v \in Awake PROVE u = v
  <2>1. Cardinality(Awake \ {u}) = Cardinality(Awake) - 1 /\ IsFiniteSet(Awake \ {u})
    BY <1>1, FS_RemoveElement
  <2>2. Cardinality(Awake \ {u}) \in Nat /\ Cardinality(Awake) \in Nat
    BY <1>1, <2>1, FS_CardinalityType
  <2>3. Cardinality(Awake \ {u}) = 0
    BY <1>2, <2>1, <2>2
  <2> QED BY <2>1, <2>3, FS_EmptySet
<1>3. ASSUME \A u, v \in Awake : u = v PROVE Cardinality(Awake) <= 1
  <2>1. CASE Awake = {}
    BY <2>1, FS_EmptySet
  <2>2. ASSUME NEW u \in Awake PROVE Cardinality(Awake) <= 1
    <3>1. Awake = {u} BY <1>3, <2>2
    <3> QED BY <3>1, FS_Singleton
  <2> QED BY <2>1, <2>2
<1> QED BY <1>2, <1>3

\* OneWakingThread, as it is proved.
WakingOK ==
    /\ \A u, v \in Workers : loc[u].is_waking /\ loc[v].is_waking => u = v
    /\ sync.state # "Shutdown" =>
         ((\E w \in Workers : loc[w].is_waking) <=> sync.state = "Waking")
    /\ sync.state = "Signaled" => sync.notified

LEMMA WakingIs == OneWakingThread <=> WakingOK
BY AwakeIsOne DEF OneWakingThread, WakingOK, Awake

LEMMA WakingIsNext == OneWakingThread' <=> WakingOK'
BY WakingIs, PTL

LEMMA WakingFrame ==
    ASSUME WakingOK, sync'.state = sync.state, sync'.notified = sync.notified,
           NEW S, Keeps(S), "is_waking" \notin S
    PROVE  WakingOK'
<1>1. \A w \in Workers : loc'[w].is_waking = loc[w].is_waking
  BY ThreadsAre DEF Keeps, Fields
<1> QED BY <1>1 DEF WakingOK

LEMMA NotifyWaking ==
    ASSUME IInv, NEW x \in Threads, Notify(x)
    PROVE  WakingOK'
<1>0. Typed /\ SyncTyped /\ WakingOK /\ InPlace
  BY WakingIs DEF IInv, Typed
<1>1. CASE NotifySlow(x)
  <2>1. sync.state # "Shutdown"
    BY <1>1, NotifierIsEarly DEF NotifySlow, NotifyLabels
  <2>2. KeepsBut(x, {"is_waking"}) /\ loc'[x].is_waking = FALSE
    BY <1>0, <1>1, NotifySlowLocals
  <2>3. \A w \in Workers \ {x} : loc'[w].is_waking = loc[w].is_waking
    BY <2>2, ThreadsAre DEF KeepsBut
  <2>4. x = Main \/ x \in Workers
    BY DEF Threads
  <2>5. \/ /\ CanWake(x) /\ sync'.state = "Signaled" /\ sync'.notified
        \/ /\ sync'.notified
           /\ sync'.state = IF loc[x].is_waking THEN "Pending" ELSE sync.state
    BY <1>0, <1>1, <2>1 DEF NotifySlow, SyncTyped, CanWake
  <2>6. CASE loc[x].is_waking
    <3>1. x \in Workers /\ sync.state = "Waking"
      BY <1>0, <2>1, <2>4, <2>6 DEF WakingOK, InPlace, MainOK
    <3>2. \A w \in Workers : ~loc'[w].is_waking
      BY <1>0, <2>2, <2>3, <2>6, <3>1 DEF WakingOK
    <3> QED BY <2>5, <2>6, <3>2 DEF WakingOK
  <2>7. CASE ~loc[x].is_waking
    <3>1. \A w \in Workers : loc'[w].is_waking <=> loc[w].is_waking
      BY <2>2, <2>3, <2>7
    <3> QED BY <1>0, <2>1, <2>5, <2>7, <3>1 DEF WakingOK, CanWake
  <2> QED BY <2>6, <2>7
<1>2. CASE SpawnFailed(x)
  BY <1>0, <1>2, WakingFrame, NoLocalsChange DEF SpawnFailed, SyncTyped
<1>3. CASE UNCHANGED <<sync, loc>>
  BY <1>3, <1>0 DEF WakingOK
<1>4. ASSUME NEW W, Awaken(W), UNCHANGED sync PROVE WakingOK'
  BY <1>0, <1>4, AwakenLocals, WakingFrame
<1> QED BY <1>1, <1>2, <1>3, <1>4
        DEF Notify, NotifyFast, NotifyEvent, NotifyFutex, Spawn

LEMMA WorkerWaking ==
    ASSUME IInv, NEW w \in Workers,
           \/ Register(w) \/ WaitShutdown(w) \/ WaitNotified(w) \/ WaitIdle(w)
           \/ WaitEvent(w) \/ EventWait(w) \/ EventFutex(w) \/ EventTimeout(w)
           \/ PopBuffer(w) \/ PopOwn(w) \/ PopGlobal(w) \/ Fill(w) \/ PopCount(w)
           \/ Visit(w) \/ Steal(w) \/ PopNone(w) \/ Got(w)
           \/ Finish(w) \/ Unregister(w) \/ UnregisterNotify(w) \/ UnregisterWait(w)
           \/ \E t \in Tasks : ScheduleInside(w, t)
           \/ \E batch \in SUBSET Tasks : Schedule(w, batch)
    PROVE  WakingOK'
<1> USE ThreadsAre
<1>0. Typed /\ SyncTyped /\ WakingOK /\ Listed
  BY WakingIs DEF IInv, Typed
<1>1. ASSUME UNCHANGED sync, NEW S, KeepsBut(w, S), "is_waking" \notin S PROVE WakingOK'
  BY <1>0, <1>1, WakingFrame DEF KeepsBut
<1>2. CASE UNCHANGED <<sync, loc>>
  BY <1>2, <1>0 DEF WakingOK
<1>3. CASE WaitShutdown(w)
  <2>1. loc'[w].is_waking = FALSE /\ \A v \in Workers \ {w} : loc'[v].is_waking = loc[v].is_waking
    BY <1>0, <1>3, WaitShutdownLocals DEF KeepsBut, NoLocals
  <2> QED BY <1>0, <1>3, <2>1 DEF WaitShutdown, WakingOK
<1>4. CASE WaitNotified(w)
  <2>1. /\ loc'[w].is_waking = (loc[w].is_waking \/ sync.state = "Signaled")
        /\ \A v \in Workers \ {w} : loc'[v].is_waking = loc[v].is_waking
    BY <1>0, <1>4, WaitNotifiedLocals DEF KeepsBut
  <2>2. sync.state # "Shutdown" /\ sync'.state = IF sync.state = "Signaled" THEN "Waking" ELSE sync.state
    BY <1>0, <1>4 DEF WaitNotified, SyncTyped
  <2>3. CASE sync.state = "Signaled"
    <3>1. \A v \in Workers : ~loc[v].is_waking
      BY <1>0, <2>2, <2>3 DEF WakingOK
    <3>2. loc'[w].is_waking /\ \A v \in Workers \ {w} : ~loc'[v].is_waking
      BY <2>1, <2>3, <3>1
    <3> QED BY <2>2, <2>3, <3>2 DEF WakingOK
  <2>4. CASE sync.state # "Signaled"
    <3>1. \A v \in Workers : loc'[v].is_waking <=> loc[v].is_waking
      BY <2>1, <2>4
    <3> QED BY <1>0, <2>2, <2>4, <3>1 DEF WakingOK
  <2> QED BY <2>3, <2>4
<1>5. CASE WaitIdle(w)
  <2>1. /\ loc'[w].is_waking = FALSE
        /\ \A v \in Workers \ {w} : loc'[v].is_waking = loc[v].is_waking
    BY <1>0, <1>5, WaitIdleLocals DEF KeepsBut
  <2>2. /\ sync.state # "Shutdown" /\ ~sync.notified /\ sync'.notified = sync.notified
        /\ sync'.state = IF loc[w].is_waking THEN "Pending" ELSE sync.state
    BY <1>0, <1>5 DEF WaitIdle, SyncTyped
  <2> QED BY <1>0, <2>1, <2>2 DEF WakingOK
<1>6. CASE Awaken({w}) /\ UNCHANGED sync
  BY <1>0, <1>6, AwakenLocals, WakingFrame
<1>7. CASE EventWait(w)
  BY <1>0, <1>1, <1>7, EventWaitLocals DEF EventWait
<1>8. CASE PopBuffer(w)
  BY <1>0, <1>1, <1>2, <1>8, PopBufferCases DEF PopBuffer
<1>9. ASSUME NEW l, NEW q \in Threads, NEW next, PopQueue(w, l, q, next) PROVE WakingOK'
  BY Zenon, <1>0, <1>1, <1>2, <1>9, PopQueueCases DEF PopQueue
<1>10. CASE Fill(w)
  BY Zenon, <1>0, <1>1, <1>10, FillCases DEF Fill
<1>11. CASE PopCount(w)
  BY <1>0, <1>1, <1>11, PopCountLocals DEF PopCount
<1>12. CASE Visit(w)
  BY Zenon, <1>0, <1>1, <1>12, VisitCases DEF Visit
<1>13. CASE Steal(w)
  BY Zenon, <1>0, <1>1, <1>13, StealCases DEF Steal
<1>14. CASE Got(w)
  BY <1>0, <1>1, <1>14, GotLocals DEF Got
<1>15. CASE Finish(w)
  BY <1>0, <1>1, <1>15, FinishLocals DEF Finish
<1>16. CASE Unregister(w)
  BY <1>0, <1>16, WakingFrame, NoLocalsChange DEF Unregister, SyncTyped
<1>17. CASE UnregisterWait(w)
  BY <1>0, <1>17, UnregisterWaitLocals, WakingFrame DEF UnregisterWait
<1>18. ASSUME NEW t \in Tasks, ScheduleInside(w, t) PROVE WakingOK'
  BY <1>0, <1>1, <1>18, RetLocals DEF ScheduleInside
<1>19. ASSUME NEW batch \in SUBSET Tasks, Schedule(w, batch) PROVE WakingOK'
  BY <1>0, <1>1, <1>19, RetLocals DEF Schedule
<1>20. CASE PopOwn(w) \/ PopGlobal(w)
  BY <1>9, <1>20 DEF PopOwn, PopGlobal
<1>21. CASE Register(w) \/ WaitEvent(w) \/ PopNone(w) \/ UnregisterNotify(w)
  BY <1>2, <1>21 DEF Register, WaitEvent, PopNone, UnregisterNotify
<1>22. CASE EventFutex(w) \/ EventTimeout(w)
  BY <1>2, <1>6, <1>22 DEF EventFutex, EventTimeout
<1> QED BY <1>3, <1>4, <1>5, <1>7, <1>8, <1>10, <1>11, <1>12, <1>13, <1>14, <1>15, <1>16,
           <1>17, <1>18, <1>19, <1>20, <1>21, <1>22

LEMMA MainWaking ==
    ASSUME IInv, \/ MainStep /\ ~Notify(Main)
                 \/ Warm \/ BeginDrop
                 \/ \E W \in SUBSET {threads[i] : i \in DOMAIN threads} : PushIdle(W)
                 \/ \E batch \in SUBSET Tasks : Schedule(Main, batch)
    PROVE  WakingOK'
<1> USE ThreadsAre
<1>0. Typed /\ SyncTyped /\ WakingOK
  BY WakingIs DEF IInv, Typed
<1>1. CASE UNCHANGED <<sync, loc>>
  BY <1>1, <1>0 DEF WakingOK
<1>2. CASE Warm
  <2>1. sync'.state = sync.state /\ sync'.notified = sync.notified
    BY <1>0, <1>2 DEF Warm, SyncTyped
  <2> QED BY <1>0, <1>2, <2>1, RetLocals, WakingFrame DEF Warm, KeepsBut
<1>3. ASSUME NEW batch \in SUBSET Tasks, Schedule(Main, batch) PROVE WakingOK'
  BY <1>0, <1>3, RetLocals, WakingFrame DEF Schedule, KeepsBut
<1>4. ASSUME NEW W, Awaken(W), UNCHANGED sync PROVE WakingOK'
  BY <1>0, <1>4, AwakenLocals, WakingFrame
<1>5. CASE JoinChain
  BY <1>0, <1>5, JoinChainLocals, WakingFrame DEF JoinChain
<1>6. CASE Shutdown
  BY <1>0, <1>6 DEF Shutdown, SyncTyped, WakingOK
<1> QED BY <1>1, <1>2, <1>3, <1>4, <1>5, <1>6
        DEF MainStep, WakeForIdleEvents, ShutdownEvent, WakeAll, WakeForIdleFutex,
            ShutdownFutex, FutexAll, Join, JoinWait, BeginDrop, PushIdle

LEMMA WakingStep == ASSUME IInv, Next PROVE OneWakingThread'
<1>1. ASSUME NEW x \in Threads, NEW batch \in SUBSET Tasks, Schedule(x, batch)
      PROVE  WakingOK'
  BY <1>1, WorkerWaking, MainWaking DEF Threads
<1>2. WakingOK'
  BY <1>1, NotifyWaking, MainWaking, WorkerWaking, ThreadsAre
  DEF Next, MainStep, WorkerStep, Request
<1> QED BY <1>2, WakingIsNext

-----------------------------------------------------------------------------
(* The counts in `sync`.                                                   *)

Absent == {"unborn", "u_notify", "u_wait", "dead"}

SpawnedOK ==
    /\ sync.spawned = Cardinality(Present) + Cardinality(Spawning)
    /\ sync.spawned <= max_threads

IdleOK == sync.state # "Shutdown" => sync.idle = Cardinality(Idle)

LEMMA CountsAre == CountsAreExact /\ sync.spawned <= max_threads <=> SpawnedOK /\ IdleOK
BY DEF CountsAreExact, SpawnedOK, IdleOK, Present, Spawning, Idle

LEMMA CountsAreNext ==
    (CountsAreExact /\ sync.spawned <= max_threads)' <=> (SpawnedOK /\ IdleOK)'
BY CountsAre, PTL

\* Steps that spawn nobody and in which nobody leaves.
LEMMA SpawnedFrame ==
    ASSUME SpawnedOK, sync'.spawned = sync.spawned,
           \A w \in Workers : pc'[w] \in Absent <=> pc[w] \in Absent,
           \A x \in Threads : pc'[x] = "n_spawn" <=> pc[x] = "n_spawn"
    PROVE  SpawnedOK'
<1>1. Present' = Present /\ Spawning' = Spawning
  BY DEF Present, Spawning, Absent
<1> QED BY <1>1 DEF SpawnedOK

\* A spawn begins: notify_slow(), warm().
LEMMA SpawnBegins ==
    ASSUME SpawnedOK, Typed, NEW x \in Threads, Goto(x, "n_spawn"), pc[x] # "n_spawn",
           x \in Workers => pc[x] \notin Absent,
           sync'.spawned = sync.spawned + 1, sync.spawned < max_threads
    PROVE  SpawnedOK'
<1>1. pc' = [pc EXCEPT ![x] = "n_spawn"] /\ pc \in [Threads -> Labels]
  BY DEF Goto, Typed, PcTyped
<1>2. Present' = Present
  BY <1>1, ThreadsAre DEF Present, Absent
<1>3. Spawning' = Spawning \cup {x} /\ x \notin Spawning
  BY <1>1 DEF Spawning
<1>4. Cardinality(Spawning \cup {x}) = Cardinality(Spawning) + 1
  BY <1>3, PresentIsFinite, FS_AddElement
<1>5. Cardinality(Present) \in Nat /\ Cardinality(Spawning) \in Nat /\ max_threads \in Nat
  BY PresentIsFinite
<1> QED BY <1>2, <1>3, <1>4, <1>5 DEF SpawnedOK

LEMMA NotifyCounts ==
    ASSUME IInv, NEW x \in Threads, Notify(x)
    PROVE  SpawnedOK' /\ IdleOK'
<1> USE ThreadsAre
<1>0. Typed /\ SyncTyped /\ SpawnedOK /\ IdleOK /\ InPlace /\ PcTyped
  BY CountsAre DEF IInv, Typed
<1>1. /\ pc[x] \in NotifyLabels /\ loc[x].ret \in {"main", "run"}
      /\ sync.state # "Shutdown" /\ (x \in Workers => pc[x] \notin Absent)
  BY <1>0, NotifierIsEarly
  DEF Notify, NotifyFast, NotifySlow, NotifyEvent, NotifyFutex, Spawn, SpawnFailed,
      NotifyLabels, Typed, LocTyped, LocalsOK, Absent
<1>2. IdleOK'
  <2>1. Keeps({"is_waking", "acquire"})
    <3>1. CASE NotifySlow(x)
      BY <1>0, <3>1, NotifySlowLocals DEF KeepsBut, Keeps
    <3>2. ASSUME NEW W, Awaken(W) PROVE Keeps({"is_waking", "acquire"})
      BY <1>0, <3>2, AwakenLocals DEF Keeps
    <3>3. CASE UNCHANGED loc
      BY <1>0, <3>3, NoLocalsChange
    <3> QED BY <3>1, <3>2, <3>3
            DEF Notify, NotifyFast, NotifyEvent, NotifyFutex, Spawn, SpawnFailed
  <2>2. Idle' = Idle
    BY <2>1 DEF Idle, Keeps, Fields
  <2>3. sync'.idle = sync.idle
    BY <1>0, NotifySlowSync
    DEF Notify, NotifyFast, NotifyEvent, NotifyFutex, Spawn, SpawnFailed, SyncTyped
  <2> QED BY <1>0, <1>1, <2>2, <2>3 DEF IdleOK
<1>a. SUFFICES SpawnedOK'
  BY <1>2
\* The calls that leave for l, without a spawn.
<1>3. ASSUME NEW l \in {"main", "run", "n_slow", "n_event", "n_futex"}, Goto(x, l),
             pc[x] # "n_spawn", sync'.spawned = sync.spawned
      PROVE  SpawnedOK'
  <2>1. pc' = [pc EXCEPT ![x] = l] /\ pc \in [Threads -> Labels]
    BY <1>0, <1>3 DEF Goto, PcTyped
  <2>2. \A w \in Workers : pc'[w] \in Absent <=> pc[w] \in Absent
    BY <1>1, <1>3, <2>1 DEF Absent
  <2>3. \A y \in Threads : pc'[y] = "n_spawn" <=> pc[y] = "n_spawn"
    BY <1>3, <2>1
  <2> QED BY <1>0, <1>3, <2>2, <2>3, SpawnedFrame
<1>4. CASE NotifyFast(x)
  BY <1>1, <1>3, <1>4 DEF NotifyFast
<1>5. CASE NotifySlow(x)
  <2>0. pc[x] = "n_slow"
    BY <1>5 DEF NotifySlow
  <2>1. CASE Goto(x, "n_spawn") /\ sync'.spawned = sync.spawned + 1 /\ sync.spawned < max_threads
    BY <1>0, <1>1, <2>0, <2>1, SpawnBegins
  <2>2. CASE sync'.spawned = sync.spawned /\ (Goto(x, loc[x].ret) \/ Goto(x, "n_event"))
    BY <1>1, <1>3, <2>0, <2>2
  <2> QED BY <1>0, <1>5, <2>1, <2>2, NotifySlowSync
<1>6. CASE NotifyEvent(x)
  BY <1>1, <1>3, <1>6 DEF NotifyEvent
<1>7. CASE NotifyFutex(x)
  <2>1. ASSUME NEW w \in Parked, pc' = [pc EXCEPT ![x] = loc[x].ret, ![w] = "event"],
               pc[x] = "n_futex", UNCHANGED sync
        PROVE  SpawnedOK'
    <3>1. w \in Workers /\ pc[w] = "parked" /\ w # x
      BY <2>1 DEF Parked
    <3>2. \A v \in Workers : pc'[v] \in Absent <=> pc[v] \in Absent
      BY <1>0, <1>1, <2>1, <3>1 DEF Absent, PcTyped
    <3>3. \A y \in Threads : pc'[y] = "n_spawn" <=> pc[y] = "n_spawn"
      BY <1>0, <1>1, <2>1, <3>1 DEF PcTyped
    <3> QED BY <1>0, <2>1, <3>2, <3>3, SpawnedFrame
  <2> QED BY <1>1, <1>3, <1>7, <2>1 DEF NotifyFutex
<1>8. CASE Spawn(x)
  <2>1. PICK n \in Workers : /\ pc[n] = "unborn" /\ n # x
                             /\ pc' = [pc EXCEPT ![x] = loc[x].ret, ![n] = "register"]
    BY <1>8, SpawnCreates
  <2>2. pc[x] = "n_spawn" /\ UNCHANGED sync
    BY <1>8 DEF Spawn
  <2>3. Present' = Present \cup {n} /\ n \notin Present
    BY <1>0, <1>1, <2>1 DEF Present, PcTyped, Absent
  <2>4. Spawning' = Spawning \ {x} /\ x \in Spawning
    BY <1>0, <1>1, <2>1, <2>2 DEF Spawning, PcTyped
  <2>5. /\ Cardinality(Present \cup {n}) = Cardinality(Present) + 1
        /\ Cardinality(Spawning \ {x}) = Cardinality(Spawning) - 1
    BY <2>3, <2>4, PresentIsFinite, FS_AddElement, FS_RemoveElement
  <2>6. Cardinality(Present) \in Nat /\ Cardinality(Spawning) \in Nat
    BY PresentIsFinite
  <2> QED BY <1>0, <2>2, <2>3, <2>4, <2>5, <2>6 DEF SpawnedOK
<1>9. CASE SpawnFailed(x)
  <2>1. pc[x] = "n_spawn" /\ pc' = [pc EXCEPT ![x] = loc[x].ret] /\ sync'.spawned = sync.spawned - 1
    BY <1>0, <1>9 DEF SpawnFailed, Goto, SyncTyped
  <2>2. Present' = Present
    BY <1>0, <1>1, <2>1 DEF Present, PcTyped, Absent
  <2>3. Spawning' = Spawning \ {x} /\ x \in Spawning
    BY <1>0, <1>1, <2>1 DEF Spawning, PcTyped
  <2>4. Cardinality(Spawning \ {x}) = Cardinality(Spawning) - 1
    BY <2>3, PresentIsFinite, FS_RemoveElement
  <2>5. Cardinality(Present) \in Nat /\ Cardinality(Spawning) \in Nat /\ max_threads \in Nat
    BY PresentIsFinite
  <2> QED BY <1>0, <2>1, <2>2, <2>3, <2>4, <2>5 DEF SpawnedOK
<1> QED BY <1>2, <1>4, <1>5, <1>6, <1>7, <1>8, <1>9 DEF Notify

LEMMA IdleFrame ==
    ASSUME IdleOK, sync'.state = "Shutdown" <=> sync.state = "Shutdown", sync'.idle = sync.idle,
           NEW S, Keeps(S), "is_idle" \notin S
    PROVE  IdleOK'
<1>1. Idle' = Idle
  BY ThreadsAre DEF Idle, Keeps, Fields
<1> QED BY <1>1 DEF IdleOK

LEMMA WorkerIdle ==
    ASSUME IInv, NEW w \in Workers,
           \/ Register(w) \/ WaitShutdown(w) \/ WaitNotified(w) \/ WaitIdle(w)
           \/ WaitEvent(w) \/ EventWait(w) \/ EventFutex(w) \/ EventTimeout(w)
           \/ PopBuffer(w) \/ PopOwn(w) \/ PopGlobal(w) \/ Fill(w) \/ PopCount(w)
           \/ Visit(w) \/ Steal(w) \/ PopNone(w) \/ Got(w)
           \/ Finish(w) \/ Unregister(w) \/ UnregisterNotify(w) \/ UnregisterWait(w)
           \/ \E t \in Tasks : ScheduleInside(w, t)
           \/ \E batch \in SUBSET Tasks : Schedule(w, batch)
    PROVE  IdleOK'
<1> USE ThreadsAre
<1>0. Typed /\ SyncTyped /\ IdleOK /\ Listed /\ LocTyped
  BY CountsAre DEF IInv, Typed
<1>1. ASSUME UNCHANGED sync, NEW S, KeepsBut(w, S), "is_idle" \notin S PROVE IdleOK'
  BY <1>0, <1>1, IdleFrame DEF KeepsBut
<1>2. CASE UNCHANGED <<sync, loc>>
  <2>1. KeepsBut(w, {})
    BY <1>0, <1>2, NoLocalsChange
  <2> QED BY <1>1, <1>2, <2>1
<1>3. CASE WaitShutdown(w)
  BY <1>3 DEF WaitShutdown, IdleOK
<1>4. CASE WaitNotified(w)
  <2>1. KeepsBut(w, {"is_waking", "is_idle"}) /\ loc'[w].is_idle = FALSE
    BY <1>0, <1>4, WaitNotifiedLocals
  <2>2. /\ sync.state # "Shutdown"
        /\ sync'.idle = IF loc[w].is_idle THEN sync.idle - 1 ELSE sync.idle
    BY <1>0, <1>4 DEF WaitNotified, SyncTyped, UncountIdle
  <2>3. Idle' = Idle \ {w} /\ (w \in Idle <=> loc[w].is_idle)
    BY <2>1 DEF Idle, KeepsBut
  <2>4. w \in Idle => Cardinality(Idle \ {w}) = Cardinality(Idle) - 1
    BY PresentIsFinite, FS_RemoveElement
  <2>5. w \notin Idle => Idle \ {w} = Idle
    OBVIOUS
  <2> QED BY <1>0, <2>2, <2>3, <2>4, <2>5 DEF IdleOK
<1>5. CASE WaitIdle(w)
  <2>1. KeepsBut(w, {"is_waking", "is_idle"}) /\ loc'[w].is_idle = TRUE
    BY <1>0, <1>5, WaitIdleLocals
  <2>2. sync.state # "Shutdown" /\ ~loc[w].is_idle /\ sync'.idle = sync.idle + 1
    BY <1>0, <1>5 DEF WaitIdle, SyncTyped
  <2>3. Idle' = Idle \cup {w} /\ w \notin Idle
    BY <2>1, <2>2 DEF Idle, KeepsBut
  <2>4. Cardinality(Idle \cup {w}) = Cardinality(Idle) + 1
    BY <2>3, PresentIsFinite, FS_AddElement
  <2> QED BY <1>0, <2>2, <2>3, <2>4 DEF IdleOK
<1>6. CASE Awaken({w}) /\ UNCHANGED sync
  BY <1>0, <1>6, AwakenLocals, IdleFrame
<1>7. CASE EventWait(w)
  BY <1>0, <1>1, <1>7, EventWaitLocals DEF EventWait
<1>8. CASE PopBuffer(w)
  BY <1>0, <1>1, <1>2, <1>8, PopBufferCases DEF PopBuffer
<1>9. ASSUME NEW l, NEW q \in Threads, NEW next, PopQueue(w, l, q, next) PROVE IdleOK'
  BY Zenon, <1>0, <1>1, <1>2, <1>9, PopQueueCases DEF PopQueue
<1>10. CASE Fill(w)
  BY Zenon, <1>0, <1>1, <1>10, FillCases DEF Fill
<1>11. CASE PopCount(w)
  BY Zenon, <1>0, <1>1, <1>11, PopCountLocals DEF PopCount
<1>12. CASE Visit(w)
  BY Zenon, <1>0, <1>1, <1>12, VisitCases DEF Visit
<1>13. CASE Steal(w)
  BY Zenon, <1>0, <1>1, <1>13, StealCases DEF Steal
<1>14. CASE Got(w)
  BY <1>0, <1>1, <1>14, GotLocals DEF Got
<1>15. CASE Finish(w)
  BY <1>0, <1>1, <1>15, FinishLocals DEF Finish
<1>16. CASE Unregister(w)
  BY <1>0, <1>16, IdleFrame, NoLocalsChange DEF Unregister, SyncTyped
<1>17. CASE UnregisterWait(w)
  BY <1>0, <1>17, UnregisterWaitLocals, IdleFrame DEF UnregisterWait
<1>18. ASSUME NEW t \in Tasks, ScheduleInside(w, t) PROVE IdleOK'
  BY <1>0, <1>1, <1>18, RetLocals DEF ScheduleInside
<1>19. ASSUME NEW batch \in SUBSET Tasks, Schedule(w, batch) PROVE IdleOK'
  BY <1>0, <1>1, <1>19, RetLocals DEF Schedule
<1>20. CASE PopOwn(w) \/ PopGlobal(w)
  BY <1>9, <1>20 DEF PopOwn, PopGlobal
<1>21. CASE Register(w) \/ WaitEvent(w) \/ PopNone(w) \/ UnregisterNotify(w)
  BY <1>2, <1>21 DEF Register, WaitEvent, PopNone, UnregisterNotify
<1>22. CASE EventFutex(w) \/ EventTimeout(w)
  BY <1>2, <1>6, <1>22 DEF EventFutex, EventTimeout
<1> QED BY <1>3, <1>4, <1>5, <1>7, <1>8, <1>10, <1>11, <1>12, <1>13, <1>14, <1>15, <1>16,
           <1>17, <1>18, <1>19, <1>20, <1>21, <1>22

LEMMA WorkerSpawned ==
    ASSUME IInv, NEW w \in Workers,
           \/ Register(w) \/ WaitShutdown(w) \/ WaitNotified(w) \/ WaitIdle(w)
           \/ WaitEvent(w) \/ EventWait(w) \/ EventFutex(w) \/ EventTimeout(w)
           \/ PopBuffer(w) \/ PopOwn(w) \/ PopGlobal(w) \/ Fill(w) \/ PopCount(w)
           \/ Visit(w) \/ Steal(w) \/ PopNone(w) \/ Got(w)
           \/ Finish(w) \/ Unregister(w) \/ UnregisterNotify(w) \/ UnregisterWait(w)
           \/ \E t \in Tasks : ScheduleInside(w, t)
           \/ \E batch \in SUBSET Tasks : Schedule(w, batch)
    PROVE  SpawnedOK'
<1> USE ThreadsAre
<1>0. Typed /\ PcTyped /\ SyncTyped /\ SpawnedOK
  BY CountsAre DEF IInv, Typed
<1>1. ASSUME NEW l, Goto(w, l), sync'.spawned = sync.spawned, l \in Absent <=> pc[w] \in Absent,
             l # "n_spawn", pc[w] # "n_spawn"
      PROVE  SpawnedOK'
  <2>1. pc' = [pc EXCEPT ![w] = l] /\ pc \in [Threads -> Labels]
    BY <1>0, <1>1 DEF Goto, PcTyped
  <2>2. \A v \in Workers : pc'[v] \in Absent <=> pc[v] \in Absent
    BY <1>1, <2>1
  <2>3. \A y \in Threads : pc'[y] = "n_spawn" <=> pc[y] = "n_spawn"
    BY <1>1, <2>1
  <2> QED BY <1>0, <1>1, <2>2, <2>3, SpawnedFrame
<1>2. CASE WaitNotified(w)
  <2>1. sync'.spawned = sync.spawned
    BY <1>0, <1>2 DEF WaitNotified, SyncTyped
  <2> QED BY <1>1, <1>2, <2>1 DEF WaitNotified, Absent
<1>3. CASE WaitIdle(w)
  <2>1. sync'.spawned = sync.spawned
    BY <1>0, <1>3 DEF WaitIdle, SyncTyped
  <2> QED BY <1>0, <1>3, <2>1, SpawnedFrame DEF WaitIdle
<1>4. CASE \/ Register(w) \/ WaitShutdown(w) \/ WaitEvent(w) \/ EventWait(w) \/ EventFutex(w)
           \/ EventTimeout(w) \/ PopCount(w) \/ PopNone(w) \/ UnregisterNotify(w)
           \/ UnregisterWait(w)
  BY <1>1, <1>4 DEF Register, WaitShutdown, WaitEvent, EventWait, EventFutex, EventTimeout,
     PopCount, PopNone, UnregisterNotify, UnregisterWait, Absent
<1>5. CASE \/ PopBuffer(w) \/ PopOwn(w) \/ PopGlobal(w) \/ Fill(w) \/ Steal(w)
  BY Zenon, <1>1, <1>5 DEF PopBuffer, PopOwn, PopGlobal, PopQueue, Grab, Fill, Steal, Absent
<1>6. CASE \/ Got(w) \/ Finish(w) \/ \E t \in Tasks : ScheduleInside(w, t)
  BY <1>1, <1>6 DEF Got, Finish, ScheduleInside, Absent
<1>7. ASSUME NEW batch \in SUBSET Tasks, Schedule(w, batch) PROVE SpawnedOK'
  BY <1>1, <1>7, MainAssumption DEF Schedule, Absent
<1>8. CASE Visit(w)
  <2>1. pc[w] = "visit" /\ UNCHANGED sync
    BY Zenon, <1>8 DEF Visit
  <2>2. \/ Goto(w, "fill") \/ UNCHANGED pc \/ Goto(w, "steal")
    BY <1>8, VisitCases DEF IInv
  <2>3. CASE UNCHANGED pc
    BY <1>0, <2>1, <2>3, SpawnedFrame
  <2> QED BY <1>1, <2>1, <2>2, <2>3 DEF Absent
<1>9. CASE Unregister(w)
  <2>1. PICK l \in {"u_notify", "u_wait"} :
          /\ pc[w] = "unregister" /\ pc' = [pc EXCEPT ![w] = l]
          /\ sync'.spawned = sync.spawned - 1
    BY <1>0, <1>9 DEF Unregister, Goto, SyncTyped
  <2>2. Present' = Present \ {w} /\ w \in Present
    BY <1>0, <2>1 DEF Present, PcTyped, Absent
  <2>3. Spawning' = Spawning
    BY <1>0, <2>1 DEF Spawning, PcTyped
  <2>4. Cardinality(Present \ {w}) = Cardinality(Present) - 1
    BY <2>2, PresentIsFinite, FS_RemoveElement
  <2>5. Cardinality(Present) \in Nat /\ Cardinality(Spawning) \in Nat /\ max_threads \in Nat
    BY PresentIsFinite
  <2> QED BY <1>0, <2>1, <2>2, <2>3, <2>4, <2>5 DEF SpawnedOK
<1> QED BY <1>2, <1>3, <1>4, <1>5, <1>6, <1>7, <1>8, <1>9

LEMMA MainCounts ==
    ASSUME IInv, \/ MainStep /\ ~Notify(Main)
                 \/ Warm \/ BeginDrop
                 \/ \E W \in SUBSET {threads[i] : i \in DOMAIN threads} : PushIdle(W)
                 \/ \E batch \in SUBSET Tasks : Schedule(Main, batch)
    PROVE  SpawnedOK' /\ IdleOK'
<1> USE ThreadsAre, MainAssumption
<1>0. Typed /\ PcTyped /\ SyncTyped /\ SpawnedOK /\ IdleOK /\ Phase
  BY CountsAre DEF IInv, Typed
<1>1. ASSUME NEW l, Goto(Main, l), sync'.spawned = sync.spawned, l # "n_spawn",
             pc[Main] # "n_spawn"
      PROVE  SpawnedOK'
  <2>1. pc' = [pc EXCEPT ![Main] = l] /\ pc \in [Threads -> Labels]
    BY <1>0, <1>1 DEF Goto, PcTyped
  <2>2. \A v \in Workers : pc'[v] \in Absent <=> pc[v] \in Absent
    BY <2>1
  <2>3. \A y \in Threads : pc'[y] = "n_spawn" <=> pc[y] = "n_spawn"
    BY <1>1, <2>1
  <2> QED BY <1>0, <1>1, <2>2, <2>3, SpawnedFrame
<1>2. ASSUME UNCHANGED <<sync, loc>>, NEW l, Goto(Main, l), l # "n_spawn", pc[Main] # "n_spawn"
      PROVE  SpawnedOK' /\ IdleOK'
  <2>0. Keeps({})
    BY <1>0, <1>2, NoLocalsChange
  <2>1. IdleOK'
    BY <1>0, <1>2, <2>0, IdleFrame
  <2>2. SpawnedOK'
    BY <1>1, <1>2
  <2> QED BY <2>1, <2>2
<1>3. CASE Warm
  <2>1. /\ sync'.spawned = sync.spawned + 1 /\ sync.spawned < max_threads
        /\ sync'.idle = sync.idle /\ sync'.state = sync.state
        /\ pc[Main] = "main" /\ Goto(Main, "n_spawn")
    BY <1>0, <1>3 DEF Warm, SyncTyped
  <2>2. SpawnedOK'
    BY <1>0, <2>1, SpawnBegins
  <2>3. IdleOK'
    BY <1>0, <1>3, <2>1, RetLocals, IdleFrame DEF Warm, KeepsBut
  <2> QED BY <2>2, <2>3
<1>4. ASSUME NEW batch \in SUBSET Tasks, Schedule(Main, batch) PROVE SpawnedOK' /\ IdleOK'
  <2>1. SpawnedOK'
    BY <1>1, <1>4 DEF Schedule
  <2>2. IdleOK'
    BY <1>0, <1>4, RetLocals, IdleFrame DEF Schedule, KeepsBut
  <2> QED BY <2>1, <2>2
<1>5. ASSUME NEW l, NEW next, FutexAll(l, next), l # "n_spawn", next # "n_spawn"
      PROVE  SpawnedOK' /\ IdleOK'
  <2>1. IdleOK'
    BY <1>0, <1>5, AwakenLocals, IdleFrame DEF FutexAll
  <2>2. \A v \in Workers : pc'[v] \in Absent <=> pc[v] \in Absent
    BY <1>0, <1>5 DEF FutexAll, Parked, Absent
  <2>3. \A y \in Threads : pc'[y] = "n_spawn" <=> pc[y] = "n_spawn"
    BY <1>0, <1>5 DEF FutexAll, Parked
  <2> QED BY <1>0, <1>5, <2>1, <2>2, <2>3, SpawnedFrame DEF FutexAll
<1>6. CASE JoinChain
  <2>1. SpawnedOK'
    BY <1>1, <1>6 DEF JoinChain
  <2>2. IdleOK'
    BY <1>0, <1>6, JoinChainLocals, IdleFrame DEF JoinChain
  <2> QED BY <2>1, <2>2
<1>7. CASE Shutdown
  <2>1. sync'.state = "Shutdown" /\ sync'.spawned = sync.spawned
    BY <1>0, <1>7 DEF Shutdown, SyncTyped
  <2>2. SpawnedOK'
    BY <1>1, <1>7, <2>1 DEF Shutdown
  <2> QED BY <2>1, <2>2 DEF IdleOK
<1>8. CASE WakeForIdleFutex \/ ShutdownFutex
  BY <1>5, <1>8 DEF WakeForIdleFutex, ShutdownFutex
<1> QED BY <1>2, <1>3, <1>4, <1>6, <1>7, <1>8
        DEF MainStep, WakeForIdleEvents, ShutdownEvent, WakeAll, Join, JoinWait, BeginDrop,
            PushIdle, MayDrop

LEMMA CountsStep == ASSUME IInv, Next PROVE (CountsAreExact /\ sync.spawned <= max_threads)'
<1>1. ASSUME NEW x \in Threads, NEW batch \in SUBSET Tasks, Schedule(x, batch)
      PROVE  SpawnedOK' /\ IdleOK'
  BY <1>1, WorkerSpawned, WorkerIdle, MainCounts DEF Threads
<1>2. SpawnedOK' /\ IdleOK'
  BY <1>1, NotifyCounts, MainCounts, WorkerSpawned, WorkerIdle, ThreadsAre
  DEF Next, MainStep, WorkerStep, Request
<1> QED BY <1>2, CountsAreNext

-----------------------------------------------------------------------------
(* Idle tasks.                                                             *)

LEMMA IdleTasksFrame ==
    ASSUME IdleTasksRun, idle_queue' \subseteq idle_queue,
           \A w \in Workers : pc'[w] \in Leaving => pc[w] \in Leaving \/ w \notin idle_queue',
           idle_queue \subseteq Workers
    PROVE  IdleTasksRun'
BY DEF IdleTasksRun, Leaving

LEMMA IdleTasksStep == ASSUME IInv, Next PROVE IdleTasksRun'
<1> USE ThreadsAre, MainAssumption
<1>0. Typed /\ PcTyped /\ IdleTasksRun /\ idle_queue \subseteq Workers /\ Phase /\ InPlace /\ Listed
  BY DEF IInv, Typed
<1>1. ASSUME NEW x \in Threads, NEW l, Goto(x, l), l \notin Leaving, idle_queue' \subseteq idle_queue
      PROVE  IdleTasksRun'
  BY <1>0, <1>1, IdleTasksFrame DEF Goto, PcTyped
<1>2. ASSUME UNCHANGED <<pc, idle_queue>> PROVE IdleTasksRun'
  BY <1>0, <1>2, IdleTasksFrame
<1>3. ASSUME NEW x \in Threads, Notify(x) PROVE IdleTasksRun'
  <2>0. UNCHANGED idle_queue /\ loc[x].ret \notin Leaving /\ loc[x].ret \in {"main", "run"}
    BY <1>0, <1>3 DEF Notify, NotifyFast, NotifySlow, NotifyEvent, NotifyFutex, Spawn,
       SpawnFailed, Typed, LocTyped, LocalsOK, Leaving
  <2>1. CASE Spawn(x)
    <3>1. PICK n \in Workers : pc' = [pc EXCEPT ![x] = loc[x].ret, ![n] = "register"]
      BY <2>1, SpawnCreates
    <3>2. \A w \in Workers : pc'[w] \in Leaving => pc[w] \in Leaving
      BY <1>0, <2>0, <3>1 DEF PcTyped, Leaving
    <3> QED BY <1>0, <2>0, <3>2, IdleTasksFrame
  <2>2. ASSUME NEW w \in Parked, pc' = [pc EXCEPT ![x] = loc[x].ret, ![w] = "event"]
        PROVE  IdleTasksRun'
    <3>1. \A v \in Workers : pc'[v] \in Leaving => pc[v] \in Leaving
      BY <1>0, <2>0, <2>2 DEF PcTyped, Leaving, Parked
    <3> QED BY <1>0, <2>0, <3>1, IdleTasksFrame
  <2>3. CASE NotifySlow(x)
    BY <1>1, <2>0, <2>3 DEF NotifySlow, Leaving
  <2> QED BY <1>1, <1>3, <2>0, <2>1, <2>2, <2>3
          DEF Notify, NotifyFast, NotifyEvent, NotifyFutex, SpawnFailed, Leaving
<1>4. ASSUME NEW w \in Workers, WorkerStep(w) \/ EventTimeout(w), ~Notify(w)
      PROVE  IdleTasksRun'
  <2>1. CASE Register(w) \/ WaitNotified(w) \/ WaitIdle(w) \/ WaitEvent(w)
    BY <1>1, <1>2, <2>1 DEF Register, WaitNotified, WaitIdle, WaitEvent, Leaving
  <2>2. CASE EventWait(w) \/ EventFutex(w) \/ EventTimeout(w)
    BY <1>1, <2>2 DEF EventWait, EventFutex, EventTimeout, Leaving
  <2>3. CASE PopBuffer(w) \/ PopOwn(w) \/ PopGlobal(w) \/ Fill(w) \/ PopCount(w)
    BY Zenon, <1>1, <2>3 DEF PopBuffer, PopOwn, PopGlobal, PopQueue, Grab, Fill, PopCount, Leaving
  <2>4. CASE Steal(w) \/ PopNone(w) \/ Got(w) \/ Finish(w)
    BY Zenon, <1>1, <2>4 DEF Steal, PopNone, Got, Finish, Leaving
  <2>5. CASE Visit(w)
    <3>1. UNCHANGED idle_queue /\ (\/ Goto(w, "fill") \/ UNCHANGED pc \/ Goto(w, "steal"))
      BY Zenon, <1>0, <2>5, VisitCases DEF Visit
    <3> QED BY <1>1, <1>2, <3>1 DEF Leaving
  <2>6. CASE WaitShutdown(w)
    <3>1. idle_queue' = idle_queue \ {w} /\ pc' = [pc EXCEPT ![w] = "unregister"]
      BY <2>6 DEF WaitShutdown, Goto
    <3>2. \A v \in Workers : pc'[v] \in Leaving => pc[v] \in Leaving \/ v \notin idle_queue'
      BY <1>0, <3>1 DEF PcTyped
    <3> QED BY <1>0, <3>1, <3>2, IdleTasksFrame
  <2>7. CASE Unregister(w) \/ UnregisterNotify(w) \/ UnregisterWait(w)
    <3>1. PICK l : pc' = [pc EXCEPT ![w] = l]
      BY <2>7 DEF Unregister, UnregisterNotify, UnregisterWait, Goto
    <3>2. pc[w] \in Leaving /\ UNCHANGED idle_queue
      BY <2>7 DEF Unregister, UnregisterNotify, UnregisterWait, Leaving
    <3>3. \A v \in Workers : pc'[v] \in Leaving => pc[v] \in Leaving
      BY <1>0, <3>1, <3>2 DEF PcTyped
    <3> QED BY <1>0, <3>2, <3>3, IdleTasksFrame
  <2> QED BY <1>4, <2>1, <2>2, <2>3, <2>4, <2>5, <2>6, <2>7 DEF WorkerStep
<1>5. CASE MainStep /\ ~Notify(Main)
  <2>1. ASSUME NEW l, NEW next, FutexAll(l, next) PROVE IdleTasksRun'
    <3>1. \A v \in Workers : pc'[v] \in Leaving => pc[v] \in Leaving
      BY <1>0, <2>1 DEF FutexAll, Parked, Leaving
    <3> QED BY <1>0, <2>1, <3>1, IdleTasksFrame DEF FutexAll
  <2>2. CASE WakeForIdleFutex \/ ShutdownFutex
    BY <2>1, <2>2 DEF WakeForIdleFutex, ShutdownFutex
  <2>3. CASE WakeForIdleEvents \/ ShutdownEvent \/ Shutdown
    BY <1>1, <2>3 DEF WakeForIdleEvents, ShutdownEvent, WakeAll, Shutdown, Leaving
  <2>4. CASE Join \/ JoinWait \/ JoinChain
    BY <1>1, <2>4 DEF Join, JoinWait, JoinChain, Leaving
  <2> QED BY <1>5, <2>2, <2>3, <2>4 DEF MainStep
<1>6. CASE Request
  <2>1. ASSUME NEW W \in SUBSET {threads[i] : i \in DOMAIN threads}, PushIdle(W)
        PROVE  IdleTasksRun'
    <3>1. pc[Main] = "main" /\ pc' = [pc EXCEPT ![Main] = "i_event"]
      BY <2>1 DEF PushIdle, MayDrop, Goto
    <3>2. sync.state # "Shutdown"
      BY <1>0, <3>1 DEF Phase, AfterShutdown
    <3>3. \A w \in Workers : pc'[w] \notin Leaving
      BY <1>0, <3>1, <3>2 DEF Phase, PcTyped
    <3>4. idle_queue' \subseteq Workers
      BY <1>0, <2>1 DEF PushIdle, Typed
    <3> QED BY <3>3, <3>4 DEF IdleTasksRun, Leaving
  <2>2. ASSUME NEW x \in Threads, NEW batch \in SUBSET Tasks, Schedule(x, batch)
        PROVE  IdleTasksRun'
    BY <1>1, <2>2 DEF Schedule, Leaving
  <2>3. ASSUME NEW w \in Workers, NEW t \in Tasks, ScheduleInside(w, t)
        PROVE  IdleTasksRun'
    BY <1>1, <2>3 DEF ScheduleInside, Leaving
  <2>4. CASE Warm \/ BeginDrop
    BY <1>1, <2>4 DEF Warm, BeginDrop, Leaving
  <2> QED BY <1>6, <2>1, <2>2, <2>3, <2>4 DEF Request
<1> QED BY <1>3, <1>4, <1>5, <1>6 DEF Next, MainStep, WorkerStep

-----------------------------------------------------------------------------
(* The theorems.                                                           *)

LEMMA InitIInv == ASSUME Init PROVE IInv
<1> USE ThreadsAre, MainAssumption DEF Init
<1>1. Typed
  <2>1. LocTyped
    <3>1. DOMAIN loc = Threads /\ \A x \in Threads : loc[x] = NoLocals
      OBVIOUS
    <3>2. /\ DOMAIN NoLocals = Fields
          /\ NoLocals.is_waking \in BOOLEAN /\ NoLocals.is_idle \in BOOLEAN
          /\ NoLocals.acquire = "EMPTY" /\ NoLocals.hold = {} /\ NoLocals.from = Main
          /\ NoLocals.visits = 0 /\ NoLocals.target = NoThread /\ NoLocals.task = NoTask
          /\ NoLocals.pushed \in BOOLEAN /\ NoLocals.ret = "main" /\ NoLocals.joined \in BOOLEAN
      BY DEF NoLocals, Fields
    <3> HIDE DEF Init
    <3>3. ASSUME NEW x \in Threads PROVE LocalsOK(x)
      BY <3>1, <3>2 DEF LocalsOK
    <3> QED BY <3>1, <3>3 DEF LocTyped
  <2>2. PcTyped
    BY DEF PcTyped, Labels
  <2>3. SyncTyped
    BY DEF SyncTyped, States
  <2>4. TasksTyped
    BY DEF TasksTyped, Queues
  <2>5. threads \in Seq(Workers)
    OBVIOUS
  <2> QED BY <2>1, <2>2, <2>3, <2>4, <2>5 DEF Typed
<1>2. /\ pc[Main] = "main" /\ ~loc[Main].is_waking
      /\ \A w \in Workers : /\ pc[w] = "unborn" /\ loc[w].target = NoThread
                            /\ loc[w].task = NoTask /\ loc[w].hold = {}
                            /\ ~loc[w].is_idle /\ ~loc[w].is_waking
                            /\ run_buffer[w] = {}
  BY DEF NoLocals
<1>3. Listed
  BY <1>2 DEF Listed
<1>4. InPlace
  BY <1>2 DEF InPlace, MainOK, WorkerOK, MainLabels, NotifyLabels, WorkerLabels, Asleep, Seeking, Busy
<1>5. Phase
  BY <1>2 DEF Phase, AfterShutdown, Dropping, Leaving
<1>6. OnePlace
  <2>1. SUFFICES ASSUME NEW t \in Tasks
                 PROVE  \E k \in Kinds, x \in Threads :
                          /\ At(t, k, x)
                          /\ \A l \in Kinds, y \in Threads : At(t, l, y) => l = k /\ y = x
    BY DEF OnePlace
  <2>2. At(t, "fresh", Main)
    BY DEF At
  <2>3. ASSUME NEW l \in Kinds, NEW y \in Threads, At(t, l, y) PROVE l = "fresh" /\ y = Main
    BY <1>2, <2>3, TasksAssumption DEF At, Queues, Threads
  <2> QED BY <2>2, <2>3 DEF Kinds
<1>7. InBounds
  <2>1. Cardinality({}) = 0
    BY FS_EmptySet
  <2> HIDE DEF Init
  <2>2. \A w \in Workers : Cardinality(run_buffer[w]) = 0 /\ Cardinality(loc[w].hold) = 0
    BY <1>2, <2>1, Zenon
  <2> QED BY <2>2, CapacityAssumption DEF InBounds
<1>8. CountIsExact
  <2>1. Outstanding = {}
    BY DEF Outstanding
  <2> QED BY <2>1, FS_EmptySet DEF CountIsExact
<1>9. OneWakingThread
  BY <1>2, WakingIs DEF WakingOK
<1>10. CountsAreExact /\ sync.spawned <= max_threads
  <2>1. Present = {} /\ Idle = {}
    BY <1>2 DEF Present, Idle
  <2>2. Spawning = {}
    BY DEF Spawning
  <2>3. Cardinality(Present) = 0 /\ Cardinality(Idle) = 0 /\ Cardinality(Spawning) = 0
    BY <2>1, <2>2, FS_EmptySet
  <2>4. SpawnedOK /\ IdleOK
    BY <2>3, PresentIsFinite DEF SpawnedOK, IdleOK
  <2> QED BY <2>4, CountsAre
<1>11. IdleTasksRun
  BY DEF IdleTasksRun
<1> QED BY <1>1, <1>3, <1>4, <1>5, <1>6, <1>7, <1>8, <1>9, <1>10, <1>11 DEF IInv

LEMMA StutterIInv == ASSUME IInv, UNCHANGED vars PROVE IInv'
<1> SUFFICES ASSUME UNCHANGED <<sync, event, threads, join_event, run_queue, consuming,
                                run_buffer, idle_queue, count, fresh, ran, pc, loc>>
             PROVE  IInv'
  BY DEF vars, queues
<1>1. (Typed /\ Listed /\ InPlace /\ Phase)'
  BY DEF IInv, Typed, SyncTyped, TasksTyped, PcTyped, LocTyped, LocalsOK, Listed, InPlace,
         MainOK, WorkerOK, Phase
<1>2. (OnePlace /\ InBounds /\ CountIsExact)'
  BY TasksFrameLocals DEF IInv, Conserved
<1>3. (OneWakingThread /\ IdleTasksRun)'
  BY DEF IInv, OneWakingThread, Awake, IdleTasksRun
<1>4. (CountsAreExact /\ sync.spawned <= max_threads)'
  BY DEF IInv, CountsAreExact
<1> QED BY <1>1, <1>2, <1>3, <1>4 DEF IInv

LEMMA NextIInv == ASSUME IInv, Next PROVE IInv'
<1>1. Typed' BY TypedStep DEF IInv
<1> QED BY <1>1, ListedStep, InPlaceStep, PhaseStep, ConservedStep, WakingStep, CountsStep,
           IdleTasksStep
        DEF IInv, Conserved

\* The invariant: what is known of each thread from where it is, how far the drop
\* of the pool has come, the one place of every task, and the counts in `sync`.
THEOREM ThreadPoolInvariant == Spec => []IInv
<1>1. Init => IInv
  BY InitIInv
<1>2. IInv /\ [Next]_vars => IInv'
  BY NextIInv, StutterIInv
<1> QED BY <1>1, <1>2, PTL DEF Spec

\* `spawned` and `idle` are exact after every race of notify(), warm(), wait() and
\* unregister(), whatever threads the operating system refuses to create.
THEOREM ThreadPoolCountsAreExact == Spec => []CountsAreExact
<1>1. IInv => CountsAreExact
  BY DEF IInv
<1> QED BY <1>1, ThreadPoolInvariant, PTL

\* No two workers are waking threads, and the token is neither lost nor invented
\* by notify_slow() and wait(), so that their debug_asserts hold.
THEOREM ThreadPoolHasOneWakingThread == Spec => []OneWakingThread
<1>1. IInv => OneWakingThread
  BY DEF IInv
<1> QED BY <1>1, ThreadPoolInvariant, PTL

\* No worker exits with a task left in its idle_queue.
THEOREM ThreadPoolIdleTasksRun == Spec => []IdleTasksRun
<1>1. IInv => IdleTasksRun
  BY DEF IInv
<1> QED BY <1>1, ThreadPoolInvariant, PTL

\* join() gets past its wait only when every worker has left the count in
\* unregister(), and no thread is being created any more.
THEOREM ThreadPoolJoinIsSafe == Spec => []JoinIsSafe
<1>1. IInv => JoinIsSafe
  <2>1. SUFFICES ASSUME IInv, pc[Main] \in {"j_chain", "gone"}, NEW w \in Workers
                 PROVE  pc[w] \in {"unborn", "u_notify", "u_wait", "dead"}
    BY DEF JoinIsSafe
  <2>2. sync.spawned = 0
    BY <2>1 DEF IInv, Phase
  <2>3. SpawnedOK
    BY <2>1, CountsAre DEF IInv
  <2>4. Cardinality(Present) = 0
    BY <2>2, <2>3, PresentIsFinite DEF SpawnedOK
  <2>5. Present = {}
    BY <2>4, PresentIsFinite, FS_EmptySet
  <2> QED BY <2>5 DEF Present
<1> QED BY <1>1, ThreadPoolInvariant, PTL

\* OnePlace, counted.
LEMMA OnePlaceIsOne == ASSUME OnePlace, NEW t \in Tasks PROVE Places(t) = 1
<1> USE ThreadsAre
<1>1. PICK k \in Kinds, x \in Threads :
        /\ At(t, k, x)
        /\ \A l \in Kinds, y \in Threads : At(t, l, y) => l = k /\ y = x
  BY DEF OnePlace
<1> DEFINE Q == {q \in Queues : t \in run_queue[q]}
           B == {w \in Workers : t \in run_buffer[w]}
           H == {w \in Workers : t \in loc[w].hold}
           T == {w \in Workers : t = loc[w].task}
<1>2. /\ \A q \in Q : At(t, "queue", q) /\ q \in Threads
      /\ \A w \in B : At(t, "buffer", w) /\ w \in Threads
      /\ \A w \in H : At(t, "hold", w) /\ w \in Threads
      /\ \A w \in T : At(t, "task", w) /\ w \in Threads
      /\ t \in fresh => At(t, "fresh", Main)
      /\ t \in ran => At(t, "ran", Main)
  BY DEF At, Queues
<1>3. /\ k = "fresh" \/ t \notin fresh
      /\ k = "ran" \/ t \notin ran
      /\ k = "queue" \/ Q = {}
      /\ k = "buffer" \/ B = {}
      /\ k = "hold" \/ H = {}
      /\ k = "task" \/ T = {}
  BY <1>1, <1>2 DEF Kinds
<1>4. /\ k = "fresh" => t \in fresh
      /\ k = "ran" => t \in ran
      /\ k = "queue" => Q = {x}
      /\ k = "buffer" => B = {x}
      /\ k = "hold" => H = {x}
      /\ k = "task" => T = {x}
  BY <1>1, <1>2 DEF At, Kinds, Queues
<1>5. Cardinality({}) = 0 /\ Cardinality({x}) = 1
  BY FS_EmptySet, FS_Singleton
<1>6. Places(t) = (IF t \in fresh THEN 1 ELSE 0) + (IF t \in ran THEN 1 ELSE 0)
                  + Cardinality(Q) + Cardinality(B) + Cardinality(H) + Cardinality(T)
  BY DEF Places
<1> HIDE DEF Q, B, H, T
<1> QED BY <1>1, <1>3, <1>4, <1>5, <1>6 DEF Kinds

\* No task is lost, and none is in two places, through every race of pop(),
\* consume(), steal() and an overflowing push(); buffers keep their capacity; and
\* wait_group counts the tasks that are not finished.
THEOREM ThreadPoolConservesTasks == Spec => []TasksConserved
<1>1. IInv => TasksConserved
  BY OnePlaceIsOne DEF IInv, TasksConserved, InBounds, CountIsExact
<1> QED BY <1>1, ThreadPoolInvariant, PTL

-----------------------------------------------------------------------------
(* No task is stranded.                                                    *)

\* The pool is not being dropped.
Running == pc[Main] \in {"main"} \cup NotifyLabels

\* The places of a worker that will look at sync.notified or at the queues before
\* it sleeps, of one that will look at the pool's queue, and of one that will look
\* at its own queue and at everybody's after it.
Up == {"register", "wait"} \cup Seeking \cup Busy
Ahead == {"pop", "own", "global", "fill"} \cup Busy
Afresh == {"pop", "own", "fill"} \cup Busy

\* A queue that is being consumed is one some worker is going to let go.
Consumed ==
    \A q \in Threads : consuming[q] =>
        \E w \in Workers : pc[w] = "fill" /\ loc[w].from = q

\* The stack holds every worker that has registered once, and only they have queues.
Born ==
    /\ \A w \in Workers : (\E i \in DOMAIN threads : threads[i] = w)
                            <=> pc[w] \notin {"unborn", "register"}
    /\ \A i, j \in DOMAIN threads : threads[i] = threads[j] => i = j
    /\ \A w \in Workers : run_queue[w] # {} => pc[w] \notin {"unborn", "register"}

\* idle_event is not shut down while the pool runs.
Open == Running => event # "SHUTDOWN"

\* While a worker is parked, the event's word says so, or a futex wake is under
\* way, or a worker is about to say so (again).
SleepersAreKnown ==
    Running /\ (\E w \in Workers : pc[w] = "parked") =>
        \/ event = "WAITING"
        \/ \E x \in Threads : pc[x] = "n_futex"
        \/ \E w \in Workers : \/ pc[w] = "futex"
                              \/ pc[w] = "event" /\ loc[w].acquire = "WAITING"

\* A notification is seen: somebody is up, or is being woken, or there is nobody.
NoteIsSeen ==
    Running /\ sync.notified =>
        \/ \E w \in Workers : pc[w] \in Up
        \/ pc[Main] = "n_event" /\ \E w \in Workers : pc[w] \in Asleep
        \/ event = "NOTIFIED" /\ \E w \in Workers : pc[w] \in {"event", "futex"}
        \/ /\ event = "NOTIFIED" /\ pc[Main] = "n_futex"
           /\ \E w \in Workers : pc[w] = "parked"
        \/ (\A w \in Workers : pc[w] = "unborn") /\ (SpawnFails \/ pc[Main] = "n_spawn")

\* The pool's queue is seen by whoever takes the notification, or by a worker that
\* has yet to look at it.
SharedIsSeen ==
    Running /\ run_queue[Main] # {} =>
        \/ sync.notified
        \/ pc[Main] \in {"n_fast", "n_slow"}
        \/ \E w \in Workers : pc[w] \in Ahead

\* The walk of u has enough visits left to come to v, in a pool of two.
Covers(u, v) ==
    /\ pc[u] = "visit" /\ loc[u].visits > 0
    /\ loc[u].visits >= 2 \/ Victim(u) = v

\* Worker u is going to look at the queue of v.
Looks(u, v) ==
    \/ pc[u] \in Afresh
    \/ u # v /\ (pc[u] \in {"global", "count"} \/ Covers(u, v))

OverflowIsSeen ==
    Running /\ max_threads <= 2 =>
        \A v \in Workers : run_queue[v] # {} =>
            \/ sync.notified
            \/ pc[Main] \in {"n_fast", "n_slow"}
            \/ \E u \in Workers : Looks(u, v)

Seen == Open /\ SleepersAreKnown /\ NoteIsSeen /\ SharedIsSeen /\ OverflowIsSeen

SInv == Consumed /\ Born /\ Seen

\* A step moves one thread only, and changes nobody else's locals.
Alone(y) == \A x \in Threads \ {y} : pc'[x] = pc[x] /\ loc'[x] = loc[x]

LEMMA GoesAlone ==
    ASSUME Typed, NEW y \in Threads, NEW l, Goto(y, l) \/ UNCHANGED pc,
           NEW S, KeepsBut(y, S)
    PROVE  Alone(y)
BY DEF Alone, Goto, Typed, PcTyped, KeepsBut

LEMMA AwakensAlone ==
    ASSUME Typed, NEW y \in Threads, NEW l, Goto(y, l), Awaken({y})
    PROVE  Alone(y)
<1>1. \A x \in Threads \ {y} : pc'[x] = pc[x]
  BY DEF Goto, Typed, PcTyped
<1>2. \A x \in Threads \ {y} : loc'[x] = loc[x]
  BY DEF Awaken
<1> QED BY <1>1, <1>2 DEF Alone

\* The steps of one worker, by where they lead it, while the pool runs.
LEMMA WorkerAlone ==
    ASSUME IInv, NEW w \in Workers,
           \/ Register(w) \/ WaitNotified(w) \/ WaitIdle(w)
           \/ WaitEvent(w) \/ EventWait(w) \/ EventFutex(w) \/ EventTimeout(w)
           \/ PopBuffer(w) \/ PopOwn(w) \/ PopGlobal(w) \/ Fill(w) \/ PopCount(w)
           \/ Visit(w) \/ Steal(w) \/ PopNone(w) \/ Got(w) \/ Finish(w)
           \/ WaitShutdown(w) \/ Unregister(w) \/ UnregisterNotify(w)
           \/ \E t \in Tasks : ScheduleInside(w, t)
           \/ \E batch \in SUBSET Tasks : Schedule(w, batch)
    PROVE  Alone(w)
<1> USE ThreadsAre
<1>0. Typed /\ Listed BY DEF IInv
<1>1. CASE Register(w) \/ WaitEvent(w) \/ PopNone(w) \/ Unregister(w) \/ UnregisterNotify(w)
  <2>1. UNCHANGED loc /\ \E l : Goto(w, l)
    BY Zenon, <1>1 DEF Register, WaitEvent, PopNone, Unregister, UnregisterNotify
  <2> QED BY <1>0, <2>1, NoLocalsChange, GoesAlone
<1>2. CASE WaitNotified(w)
  BY <1>0, <1>2, WaitNotifiedLocals, GoesAlone DEF WaitNotified
<1>3. CASE WaitIdle(w)
  BY <1>0, <1>3, WaitIdleLocals, GoesAlone DEF WaitIdle
<1>4. CASE EventWait(w)
  <2>1. \E l : Goto(w, l) BY Zenon, <1>4 DEF EventWait
  <2> QED BY <1>0, <1>4, <2>1, EventWaitLocals, GoesAlone
<1>5. CASE EventFutex(w) \/ EventTimeout(w)
  <2>1. \E l : Goto(w, l) /\ (UNCHANGED loc \/ Awaken({w}))
    BY Zenon, <1>5 DEF EventFutex, EventTimeout
  <2> QED BY <1>0, <2>1, AwakensAlone, NoLocalsChange, GoesAlone
<1>6. CASE PopBuffer(w)
  BY <1>0, <1>6, PopBufferCases, NoLocalsChange, GoesAlone
<1>7. ASSUME NEW l, NEW q \in Threads, NEW next, PopQueue(w, l, q, next) PROVE Alone(w)
  BY Zenon, <1>0, <1>7, PopQueueCases, NoLocalsChange, GoesAlone
<1>8. CASE PopOwn(w) \/ PopGlobal(w)
  BY <1>7, <1>8 DEF PopOwn, PopGlobal
<1>9. CASE Fill(w)
  BY Zenon, <1>0, <1>9, FillCases, GoesAlone
<1>10. CASE PopCount(w)
  BY <1>0, <1>10, PopCountLocals, GoesAlone DEF PopCount
<1>11. CASE Visit(w)
  BY Zenon, <1>0, <1>11, VisitCases, GoesAlone
<1>12. CASE Steal(w)
  BY Zenon, <1>0, <1>12, StealCases, GoesAlone
<1>13. CASE Got(w)
  BY <1>0, <1>13, GotLocals, GoesAlone DEF Got
<1>14. CASE Finish(w)
  BY <1>0, <1>14, FinishLocals, GoesAlone DEF Finish
<1>15. CASE WaitShutdown(w)
  BY <1>0, <1>15, WaitShutdownLocals, GoesAlone DEF WaitShutdown
<1>16. ASSUME NEW t \in Tasks, ScheduleInside(w, t) PROVE Alone(w)
  BY <1>0, <1>16, RetLocals, GoesAlone DEF ScheduleInside
<1>17. ASSUME NEW batch \in SUBSET Tasks, Schedule(w, batch) PROVE Alone(w)
  <2>1. pc[w] = "run" BY <1>17, MainAssumption DEF Schedule
  <2> QED BY <1>0, <1>17, <2>1, RetLocals, GoesAlone DEF Schedule
<1> QED BY <1>1, <1>2, <1>3, <1>4, <1>5, <1>6, <1>8, <1>9, <1>10, <1>11, <1>12,
           <1>13, <1>14, <1>15, <1>16, <1>17

\* No walk and no consume() goes on in this step.
Quiet == \A y \in Threads : /\ loc'[y].from = loc[y].from
                            /\ loc'[y].visits = loc[y].visits
                            /\ loc'[y].target = loc[y].target

LEMMA QuietKeeps ==
    ASSUME NEW S, Keeps(S), "from" \notin S, "visits" \notin S, "target" \notin S
    PROVE  Quiet
BY DEF Quiet, Keeps, Fields

\* What notify() does to others: it wakes one that is parked, or creates one.
LEMMA NotifyShape ==
    ASSUME IInv, NEW x \in Threads, Notify(x)
    PROVE  /\ pc[x] \in NotifyLabels /\ pc'[x] \in NotifyLabels \cup {loc[x].ret}
           /\ UNCHANGED <<threads, run_queue, consuming, run_buffer>>
           /\ Quiet
           /\ x # Main => pc'[Main] = pc[Main] /\ loc[x].ret = "run"
           /\ x = Main => loc[x].ret = "main"
           /\ \A w \in Workers \ {x} : \/ pc'[w] = pc[w]
                                       \/ pc[w] = "parked" /\ pc'[w] = "event"
                                       \/ pc[w] = "unborn" /\ pc'[w] = "register"
<1> USE ThreadsAre, MainAssumption
<1>0. Typed /\ PcTyped /\ InPlace BY DEF IInv, Typed
<1>1. pc[x] \in NotifyLabels /\ UNCHANGED <<threads, run_queue, consuming, run_buffer>>
  BY DEF Notify, NotifyFast, NotifySlow, NotifyEvent, NotifyFutex, Spawn, SpawnFailed,
     NotifyLabels, queues
<1>2. Quiet
  <2>1. CASE NotifySlow(x) BY <1>0, <2>1, NotifySlowLocals, QuietKeeps DEF KeepsBut
  <2>2. CASE UNCHANGED loc BY <2>2 DEF Quiet
  <2>3. ASSUME NEW W, Awaken(W) PROVE Quiet BY <1>0, <2>3, AwakenLocals, QuietKeeps
  <2> QED BY <2>1, <2>2, <2>3 DEF Notify, NotifyFast, NotifyEvent, NotifyFutex, Spawn, SpawnFailed
<1>3. (x # Main => loc[x].ret = "run") /\ (x = Main => loc[x].ret = "main")
  BY <1>0, <1>1 DEF InPlace, MainOK, WorkerOK, Threads
<1>4. ASSUME NEW l, Goto(x, l), l \in NotifyLabels \cup {loc[x].ret}
      PROVE  /\ pc'[x] \in NotifyLabels \cup {loc[x].ret}
             /\ x # Main => pc'[Main] = pc[Main]
             /\ \A w \in Workers \ {x} : pc'[w] = pc[w]
  BY <1>0, <1>4 DEF Goto, PcTyped
<1>5. ASSUME NEW n \in Workers, NEW l, pc' = [pc EXCEPT ![x] = loc[x].ret, ![n] = l],
             n # x, \/ pc[n] = "parked" /\ l = "event"
                    \/ pc[n] = "unborn" /\ l = "register"
      PROVE  /\ pc'[x] = loc[x].ret
             /\ x # Main => pc'[Main] = pc[Main]
             /\ \A w \in Workers \ {x} : \/ pc'[w] = pc[w]
                                         \/ pc[w] = "parked" /\ pc'[w] = "event"
                                         \/ pc[w] = "unborn" /\ pc'[w] = "register"
  BY <1>0, <1>5 DEF PcTyped
<1>6. CASE Spawn(x)
  <2>1. PICK n \in Workers : /\ pc[n] = "unborn" /\ n # x
                             /\ pc' = [pc EXCEPT ![x] = loc[x].ret, ![n] = "register"]
    BY <1>6, SpawnCreates
  <2> QED BY <1>1, <1>2, <1>3, <1>5, <2>1
<1>7. CASE NotifyFutex(x)
  <2>1. CASE Goto(x, loc[x].ret) BY <1>1, <1>2, <1>3, <1>4, <2>1
  <2>2. ASSUME NEW n \in Parked, pc' = [pc EXCEPT ![x] = loc[x].ret, ![n] = "event"]
        PROVE  /\ pc'[x] = loc[x].ret
               /\ x # Main => pc'[Main] = pc[Main]
               /\ \A w \in Workers \ {x} : \/ pc'[w] = pc[w]
                                           \/ pc[w] = "parked" /\ pc'[w] = "event"
                                           \/ pc[w] = "unborn" /\ pc'[w] = "register"
    <3>1. n \in Workers /\ pc[n] = "parked" /\ n # x
      BY <1>1, <2>2 DEF Parked, NotifyLabels
    <3> QED BY <1>5, <2>2, <3>1
  <2> QED BY <1>1, <1>2, <1>3, <1>7, <2>1, <2>2 DEF NotifyFutex
<1>8. CASE NotifyFast(x) \/ NotifySlow(x) \/ NotifyEvent(x) \/ SpawnFailed(x)
  <2>1. \E l \in NotifyLabels \cup {loc[x].ret} : Goto(x, l)
    BY Zenon, <1>8 DEF NotifyFast, NotifySlow, NotifyEvent, SpawnFailed, NotifyLabels
  <2> QED BY <1>1, <1>2, <1>3, <1>4, <2>1
<1> QED BY <1>6, <1>7, <1>8 DEF Notify

\* What the owner does to the workers, but for notify(): it wakes those parked.
LEMMA MainShape ==
    ASSUME IInv, \/ MainStep /\ ~Notify(Main)
                 \/ Warm \/ BeginDrop
                 \/ \E W \in SUBSET {threads[i] : i \in DOMAIN threads} : PushIdle(W)
                 \/ \E batch \in SUBSET Tasks : Schedule(Main, batch)
    PROVE  /\ UNCHANGED <<threads, consuming>> /\ Quiet
           /\ \A w \in Workers : /\ run_queue'[w] = run_queue[w]
                                 /\ \/ pc'[w] = pc[w]
                                    \/ pc[w] = "parked" /\ pc'[w] = "event"
<1> USE ThreadsAre, MainAssumption
<1>0. Typed /\ PcTyped /\ TasksTyped BY DEF IInv, Typed
<1>1. ASSUME NEW l, Goto(Main, l) PROVE \A w \in Workers : pc'[w] = pc[w]
  BY <1>0, <1>1 DEF Goto, PcTyped
<1>2. CASE Warm \/ \E batch \in SUBSET Tasks : Schedule(Main, batch)
  <2>1. KeepsBut(Main, {"ret"})
    BY <1>0, <1>2, RetLocals DEF Warm, Schedule
  <2>2. Quiet BY <2>1, QuietKeeps DEF KeepsBut
  <2>3. \A w \in Workers : run_queue'[w] = run_queue[w]
    BY <1>0, <1>2 DEF Warm, Schedule, queues, TasksTyped
  <2> QED BY <1>1, <1>2, <2>2, <2>3 DEF Warm, Schedule, queues
<1>3. CASE \/ BeginDrop \/ WakeForIdleEvents \/ ShutdownEvent \/ Shutdown \/ Join \/ JoinWait
           \/ \E W \in SUBSET {threads[i] : i \in DOMAIN threads} : PushIdle(W)
  BY <1>1, <1>3 DEF BeginDrop, WakeForIdleEvents, ShutdownEvent, WakeAll, Shutdown, Join,
     JoinWait, PushIdle, Quiet, queues
<1>4. CASE WakeForIdleFutex \/ ShutdownFutex
  <2>1. Quiet BY <1>0, <1>4, AwakenLocals, QuietKeeps
    DEF WakeForIdleFutex, ShutdownFutex, FutexAll
  <2> QED BY <1>4, <2>1 DEF WakeForIdleFutex, ShutdownFutex, FutexAll, Parked, queues
<1>5. CASE JoinChain
  <2>1. Quiet BY <1>0, <1>5, JoinChainLocals, QuietKeeps
  <2> QED BY <1>1, <1>5, <2>1 DEF JoinChain, queues
<1> QED BY <1>2, <1>3, <1>4, <1>5 DEF MainStep

\* Steps that leave every worker in consume() where it is.
LEMMA ConsumedFrame ==
    ASSUME Consumed, UNCHANGED consuming,
           \A u \in Workers : pc[u] = "fill" => pc'[u] = "fill" /\ loc'[u].from = loc[u].from
    PROVE  Consumed'
BY DEF Consumed

LEMMA ConsumedAlone ==
    ASSUME Consumed, NEW w \in Workers, Alone(w), pc[w] # "fill", UNCHANGED consuming
    PROVE  Consumed'
<1>1. \A u \in Workers : pc[u] = "fill" => pc'[u] = "fill" /\ loc'[u].from = loc[u].from
  BY ThreadsAre DEF Alone
<1> QED BY <1>1, ConsumedFrame

LEMMA ConsumedGrabs ==
    ASSUME Typed, Consumed, NEW w \in Workers, Alone(w), pc[w] # "fill", NEW q \in Threads,
           pc'[w] = "fill", loc'[w].from = q, consuming' = [consuming EXCEPT ![q] = TRUE]
    PROVE  Consumed'
<1>1. ASSUME NEW r \in Threads, consuming'[r], r # q
      PROVE  \E u \in Workers : pc'[u] = "fill" /\ loc'[u].from = r
  <2>1. consuming[r] BY <1>1 DEF Typed, TasksTyped
  <2>2. PICK u \in Workers : pc[u] = "fill" /\ loc[u].from = r BY <2>1 DEF Consumed
  <2> QED BY <2>2, ThreadsAre DEF Alone
<1> QED BY <1>1 DEF Consumed

LEMMA ConsumedStep == ASSUME IInv, Consumed, Next PROVE Consumed'
<1> USE ThreadsAre, MainAssumption
<1>0. Typed /\ PcTyped /\ TasksTyped /\ Listed BY DEF IInv, Typed
<1>1. ASSUME NEW x \in Threads, Notify(x) PROVE Consumed'
  <2>1. \A u \in Workers : pc[u] = "fill" => pc'[u] = "fill" /\ loc'[u].from = loc[u].from
    BY <1>1, NotifyShape DEF NotifyLabels, Quiet
  <2> QED BY <1>1, <2>1, NotifyShape, ConsumedFrame
<1>2. CASE \/ MainStep /\ ~Notify(Main)
           \/ Warm \/ BeginDrop
           \/ \E W \in SUBSET {threads[i] : i \in DOMAIN threads} : PushIdle(W)
           \/ \E batch \in SUBSET Tasks : Schedule(Main, batch)
  <2>1. \A u \in Workers : pc[u] = "fill" => pc'[u] = "fill" /\ loc'[u].from = loc[u].from
    BY <1>2, MainShape DEF Quiet
  <2> QED BY <1>2, <2>1, MainShape, ConsumedFrame
<1>3. ASSUME NEW w \in Workers,
             \/ Register(w) \/ WaitShutdown(w) \/ WaitNotified(w) \/ WaitIdle(w)
             \/ WaitEvent(w) \/ EventWait(w) \/ EventFutex(w) \/ EventTimeout(w)
             \/ PopBuffer(w) \/ PopCount(w) \/ Steal(w) \/ PopNone(w) \/ Got(w)
             \/ Finish(w) \/ Unregister(w) \/ UnregisterNotify(w)
             \/ \E t \in Tasks : ScheduleInside(w, t)
             \/ \E batch \in SUBSET Tasks : Schedule(w, batch)
      PROVE  Consumed'
  <2>1. Alone(w) BY <1>3, WorkerAlone
  <2>2. pc[w] # "fill" /\ UNCHANGED consuming
    BY Zenon, <1>3 DEF Register, WaitShutdown, WaitNotified, WaitIdle, WaitEvent, EventWait,
       EventFutex, EventTimeout, PopBuffer, PopCount, Steal, PopNone, Got, Finish,
       Unregister, UnregisterNotify, ScheduleInside, Schedule, queues
  <2> QED BY <2>1, <2>2, ConsumedAlone
<1>4. ASSUME NEW w \in Workers, NEW l, NEW q \in Threads, NEW next,
             PopQueue(w, l, q, next), l # "fill", Alone(w)
      PROVE  Consumed'
  <2>1. pc[w] = l BY <1>4, PopQueueCases
  <2>2. CASE CannotGrab(q) /\ Goto(w, next) /\ UNCHANGED <<queues, loc>>
    BY <1>4, <2>1, <2>2, ConsumedAlone DEF queues
  <2>3. CASE /\ consuming' = [consuming EXCEPT ![q] = TRUE]
             /\ loc'[w].from = q /\ Goto(w, "fill")
    BY <1>0, <1>4, <2>1, <2>3, ConsumedGrabs DEF Goto, PcTyped
  <2> QED BY Zenon, <1>4, <2>2, <2>3, PopQueueCases
<1>5. ASSUME NEW w \in Workers, PopOwn(w) \/ PopGlobal(w) PROVE Consumed'
  BY <1>4, <1>5, WorkerAlone DEF PopOwn, PopGlobal
<1>6. ASSUME NEW w \in Workers, Visit(w) PROVE Consumed'
  <2>1. Alone(w) /\ pc[w] = "visit" BY Zenon, <1>6, WorkerAlone DEF Visit
  <2>2. CASE UNCHANGED consuming BY <2>1, <2>2, ConsumedAlone
  <2>3. CASE /\ consuming' = [consuming EXCEPT ![Victim(w)] = TRUE]
             /\ loc'[w].from = Victim(w) /\ Goto(w, "fill") /\ Victim(w) \in Workers
    BY <1>0, <2>1, <2>3, ConsumedGrabs DEF Goto, PcTyped
  <2> QED BY Zenon, <1>0, <1>6, <2>2, <2>3, VisitCases
<1>7. ASSUME NEW w \in Workers, Fill(w) PROVE Consumed'
  <2>1. Alone(w) BY <1>7, WorkerAlone
  <2>2. consuming' = [consuming EXCEPT ![loc[w].from] = FALSE]
    BY Zenon, <1>7 DEF Fill
  <2>3. ASSUME NEW q \in Threads, consuming'[q]
        PROVE  \E u \in Workers : pc'[u] = "fill" /\ loc'[u].from = q
    <3>1. consuming[q] /\ q # loc[w].from BY <1>0, <2>2, <2>3 DEF TasksTyped
    <3>2. PICK u \in Workers : pc[u] = "fill" /\ loc[u].from = q BY <3>1 DEF Consumed
    <3> QED BY <2>1, <3>1, <3>2 DEF Alone
  <2> QED BY <2>3 DEF Consumed
<1>8. ASSUME NEW w \in Workers, UnregisterWait(w) PROVE Consumed'
  <2>1. Quiet BY <1>0, <1>8, UnregisterWaitLocals, QuietKeeps
  <2>2. UNCHANGED consuming /\ pc[w] = "u_wait" /\ Goto(w, "dead")
    BY <1>8 DEF UnregisterWait, queues
  <2>3. \A u \in Workers : pc[u] = "fill" => pc'[u] = "fill" /\ loc'[u].from = loc[u].from
    BY <1>0, <2>1, <2>2 DEF Quiet, Goto, PcTyped
  <2> QED BY <2>2, <2>3, ConsumedFrame
<1>9. ASSUME NEW x \in Threads, NEW batch \in SUBSET Tasks, Schedule(x, batch) PROVE Consumed'
  BY <1>2, <1>3, <1>9 DEF Threads
<1> QED BY <1>1, <1>2, <1>3, <1>5, <1>6, <1>7, <1>8, <1>9
        DEF Next, MainStep, WorkerStep, Request

\* Steps in which nobody registers.
LEMMA BornFrame ==
    ASSUME Born, UNCHANGED threads,
           \A u \in Workers : pc'[u] \in {"unborn", "register"} <=> pc[u] \in {"unborn", "register"},
           \A u \in Workers : run_queue'[u] # {} => run_queue[u] # {} \/ pc[u] \notin {"unborn", "register"}
    PROVE  Born'
BY DEF Born

LEMMA BornAlone ==
    ASSUME Born, NEW w \in Workers, Alone(w), UNCHANGED threads,
           pc[w] \notin {"unborn", "register"}, pc'[w] \notin {"unborn", "register"},
           \A u \in Workers \ {w} : run_queue'[u] \subseteq run_queue[u]
    PROVE  Born'
<1>1. \A u \in Workers : pc'[u] \in {"unborn", "register"} <=> pc[u] \in {"unborn", "register"}
  BY ThreadsAre DEF Alone
<1> QED BY <1>1, BornFrame

LEMMA BornStep == ASSUME IInv, Born, Next PROVE Born'
<1> USE ThreadsAre, MainAssumption
<1>0. Typed /\ PcTyped /\ TasksTyped /\ Listed BY DEF IInv, Typed
<1>1. ASSUME NEW x \in Threads, Notify(x) PROVE Born'
  <2>1. \A u \in Workers : pc'[u] \in {"unborn", "register"} <=> pc[u] \in {"unborn", "register"}
    <3>1. x \in Workers => pc'[x] \notin {"unborn", "register"} /\ pc[x] \notin {"unborn", "register"}
      BY <1>1, NotifyShape DEF NotifyLabels
    <3> QED BY <1>1, <3>1, NotifyShape
  <2> QED BY <1>1, <2>1, NotifyShape, BornFrame
<1>2. CASE \/ MainStep /\ ~Notify(Main)
           \/ Warm \/ BeginDrop
           \/ \E W \in SUBSET {threads[i] : i \in DOMAIN threads} : PushIdle(W)
           \/ \E batch \in SUBSET Tasks : Schedule(Main, batch)
  <2>1. \A u \in Workers : pc'[u] \in {"unborn", "register"} <=> pc[u] \in {"unborn", "register"}
    BY <1>2, MainShape
  <2> QED BY <1>2, <2>1, MainShape, BornFrame
<1>3. ASSUME NEW w \in Workers,
             \/ WaitShutdown(w) \/ WaitNotified(w) \/ WaitIdle(w)
             \/ WaitEvent(w) \/ EventWait(w) \/ EventFutex(w) \/ EventTimeout(w)
             \/ PopBuffer(w) \/ Fill(w) \/ PopCount(w) \/ Steal(w) \/ PopNone(w)
             \/ Unregister(w) \/ UnregisterNotify(w) \/ Got(w) \/ Finish(w)
      PROVE  Born'
  <2>1. Alone(w) BY <1>3, WorkerAlone
  <2>2. /\ pc[w] \notin {"unborn", "register"} /\ UNCHANGED <<threads, run_queue>>
        /\ pc' = pc \/ \E l : l \notin {"unborn", "register"} /\ Goto(w, l)
    BY Zenon, <1>3 DEF WaitShutdown, WaitNotified, WaitIdle, WaitEvent, EventWait,
       EventFutex, EventTimeout, PopBuffer, Fill, PopCount, Steal, PopNone, Got, Finish,
       Unregister, UnregisterNotify, queues
  <2>3. pc'[w] \notin {"unborn", "register"} BY <1>0, <2>2 DEF Goto, PcTyped
  <2> QED BY <2>1, <2>2, <2>3, BornAlone
<1>4. ASSUME NEW w \in Workers, Alone(w), UNCHANGED threads, NEW q \in Threads,
             NEW S, run_queue' = [run_queue EXCEPT ![q] = @ \ S],
             Goto(w, "fill"), pc[w] \notin {"unborn", "register"}
      PROVE  Born'
  <2>1. \A u \in Workers \ {w} : run_queue'[u] \subseteq run_queue[u]
    BY <1>0, <1>4 DEF TasksTyped
  <2>2. pc'[w] \notin {"unborn", "register"} BY <1>0, <1>4 DEF Goto, PcTyped
  <2> QED BY <1>4, <2>1, <2>2, BornAlone
<1>5. ASSUME NEW w \in Workers, NEW l, NEW q \in Threads, NEW next,
             PopQueue(w, l, q, next), l \notin {"unborn", "register"},
             next \notin {"unborn", "register"}, Alone(w)
      PROVE  Born'
  <2>1. pc[w] = l /\ UNCHANGED threads BY Zenon, <1>5 DEF PopQueue
  <2>2. CASE Goto(w, next) /\ UNCHANGED <<queues, loc>>
    BY <1>0, <1>5, <2>1, <2>2, BornAlone DEF queues, Goto, PcTyped
  <2>3. CASE \E S : run_queue' = [run_queue EXCEPT ![q] = @ \ S] /\ Goto(w, "fill")
    BY <1>4, <1>5, <2>1, <2>3
  <2>4. \/ \E S : run_queue' = [run_queue EXCEPT ![q] = @ \ S] /\ Goto(w, "fill")
        \/ Goto(w, next) /\ UNCHANGED <<queues, loc>>
    BY Zenon, <1>5 DEF PopQueue, Grab
  <2> QED BY <2>2, <2>3, <2>4
<1>6. ASSUME NEW w \in Workers, PopOwn(w) \/ PopGlobal(w) PROVE Born'
  BY <1>5, <1>6, WorkerAlone DEF PopOwn, PopGlobal
<1>7. ASSUME NEW w \in Workers, Visit(w) PROVE Born'
  <2>1. Alone(w) /\ pc[w] = "visit" /\ UNCHANGED threads BY Zenon, <1>7, WorkerAlone DEF Visit
  <2>2. CASE UNCHANGED <<run_queue, pc>> BY <2>1, <2>2, BornAlone
  <2>3. CASE UNCHANGED run_queue /\ Goto(w, "steal")
    BY <1>0, <2>1, <2>3, BornAlone DEF Goto, PcTyped
  <2>4. CASE /\ Victim(w) \in Workers
             /\ \E S : run_queue' = [run_queue EXCEPT ![Victim(w)] = @ \ S] /\ Goto(w, "fill")
    <3>1. PICK q \in Workers : q = Victim(w) BY <2>4
    <3> QED BY <1>4, <2>1, <2>4, <3>1
  <2> QED BY Zenon, <1>0, <1>7, <2>2, <2>3, <2>4, VisitCases
<1>8. ASSUME NEW w \in Workers, UnregisterWait(w) PROVE Born'
  <2>1. UNCHANGED <<threads, run_queue>> /\ pc[w] = "u_wait" /\ Goto(w, "dead")
    BY <1>8 DEF UnregisterWait, queues
  <2>2. \A u \in Workers : pc'[u] \in {"unborn", "register"} <=> pc[u] \in {"unborn", "register"}
    BY <1>0, <2>1 DEF Goto, PcTyped
  <2> QED BY <2>1, <2>2, BornFrame
<1>9. ASSUME NEW w \in Workers, \/ \E t \in Tasks : ScheduleInside(w, t)
                                \/ \E batch \in SUBSET Tasks : Schedule(w, batch)
      PROVE  Born'
  <2>1. Alone(w) BY <1>9, WorkerAlone
  <2>2. pc[w] = "run" /\ Goto(w, "n_fast") /\ UNCHANGED threads
    BY <1>9 DEF ScheduleInside, Schedule
  <2>3. \A u \in Workers \ {w} : run_queue'[u] = run_queue[u]
    <3>1. CASE \E batch \in SUBSET Tasks : Schedule(w, batch)
      BY <1>0, <3>1 DEF Schedule, TasksTyped
    <3>2. CASE \E t \in Tasks : ScheduleInside(w, t)
      <4>1. UNCHANGED run_queue \/ \E T : run_queue' = [run_queue EXCEPT ![w] = T]
        BY Zenon, <3>2 DEF ScheduleInside
      <4> QED BY <1>0, <4>1 DEF TasksTyped
    <3> QED BY <1>9, <3>1, <3>2
  <2> QED BY <1>0, <2>1, <2>2, <2>3, BornAlone DEF Goto, PcTyped
<1>10. ASSUME NEW w \in Workers, Register(w) PROVE Born'
  <2>1. /\ threads' = <<w>> \o threads /\ pc[w] = "register" /\ UNCHANGED run_queue
        /\ Goto(w, "wait")
    BY <1>10 DEF Register, queues
  <2>2. /\ threads \in Seq(Workers) /\ DOMAIN threads = 1..Len(threads) /\ Len(threads) \in Nat
    BY <1>0 DEF Typed
  <2>3. /\ DOMAIN threads' = 1..(Len(threads) + 1) /\ threads'[1] = w
        /\ \A i \in DOMAIN threads : threads'[i + 1] = threads[i]
    BY <2>1, <2>2
  <2>4. \A i \in DOMAIN threads : threads[i] # w
    BY <2>1 DEF Born
  <2>5. \A i \in DOMAIN threads' : i = 1 \/ (i - 1 \in DOMAIN threads /\ threads'[i] = threads[i - 1])
    BY <2>2, <2>3
  <2>6. \A i \in DOMAIN threads : i + 1 \in DOMAIN threads' /\ 1 \in DOMAIN threads'
    BY <2>2, <2>3
  <2>7. 1 \in DOMAIN threads' BY <2>2, <2>3
  <2>8. pc'[w] = "wait" /\ \A u \in Workers \ {w} : pc'[u] = pc[u]
    BY <1>0, <2>1 DEF Goto, PcTyped
  <2>9. \A u \in Workers : (\E i \in DOMAIN threads' : threads'[i] = u)
                             <=> pc'[u] \notin {"unborn", "register"}
    <3>1. ASSUME NEW u \in Workers \ {w}
          PROVE  (\E i \in DOMAIN threads' : threads'[i] = u) <=> \E i \in DOMAIN threads : threads[i] = u
      BY <2>3, <2>5, <2>6
    <3> QED BY <2>3, <2>7, <2>8, <3>1 DEF Born
  <2>10. \A i, j \in DOMAIN threads' : threads'[i] = threads'[j] => i = j
    <3>1. SUFFICES ASSUME NEW i \in DOMAIN threads', NEW j \in DOMAIN threads',
                          threads'[i] = threads'[j]
                   PROVE  i = j
      OBVIOUS
    <3>2. i \in Int /\ j \in Int BY <2>2, <2>3
    <3>3. CASE i = 1 \/ j = 1 BY <2>3, <2>4, <2>5, <3>1, <3>3
    <3>4. CASE i # 1 /\ j # 1
      <4>1. i - 1 = j - 1 BY <2>5, <3>1, <3>4 DEF Born
      <4> QED BY <3>2, <4>1
    <3> QED BY <3>3, <3>4
  <2> QED BY <2>1, <2>8, <2>9, <2>10 DEF Born
<1>11. ASSUME NEW x \in Threads, NEW batch \in SUBSET Tasks, Schedule(x, batch) PROVE Born'
  BY <1>2, <1>9, <1>11 DEF Threads
<1> QED BY <1>1, <1>2, <1>3, <1>6, <1>7, <1>8, <1>9, <1>10, <1>11
        DEF Next, MainStep, WorkerStep, Request

-----------------------------------------------------------------------------

\* A worker that stays up keeps the notification seen, whoever takes it.
LEMMA UpKeeps ==
    ASSUME Open, SleepersAreKnown, NEW w \in Workers, Alone(w), UNCHANGED event,
           pc[w] \in Up \ {"n_futex"}, pc'[w] \in Up
    PROVE  (Open /\ SleepersAreKnown /\ NoteIsSeen)'
<1> USE ThreadsAre, MainAssumption
<1>1. pc'[Main] = pc[Main] /\ \A u \in Workers \ {w} : pc'[u] = pc[u] /\ loc'[u] = loc[u]
  BY DEF Alone
<1>2. Open' BY <1>1 DEF Open, Running
<1>3. NoteIsSeen' BY DEF NoteIsSeen
<1>4. SleepersAreKnown'
  <2>1. SUFFICES ASSUME Running, NEW p \in Workers, pc'[p] = "parked", event # "WAITING"
                 PROVE  \/ \E x \in Threads : pc'[x] = "n_futex"
                        \/ \E u \in Workers : \/ pc'[u] = "futex"
                                              \/ pc'[u] = "event" /\ loc'[u].acquire = "WAITING"
    BY <1>1 DEF SleepersAreKnown, Running
  <2>2. pc[p] = "parked" BY <1>1, <2>1 DEF Up, Seeking, Busy, NotifyLabels
  <2>3. \/ \E x \in Threads : pc[x] = "n_futex"
        \/ \E u \in Workers : \/ pc[u] = "futex"
                              \/ pc[u] = "event" /\ loc[u].acquire = "WAITING"
    BY <2>1, <2>2 DEF SleepersAreKnown
  <2>4. pc[w] \notin {"futex", "event"} BY DEF Up, Seeking, Busy, NotifyLabels
  <2> QED BY <1>1, <2>3, <2>4 DEF Alone
<1> QED BY <1>2, <1>3, <1>4

\* A worker that has its own queue before it will come to all of them.
LEMMA AfreshSees ==
    ASSUME NEW w \in Workers, pc'[w] \in Afresh
    PROVE  (SharedIsSeen /\ OverflowIsSeen)'
<1>1. SharedIsSeen' BY DEF SharedIsSeen, Afresh, Ahead
<1>2. OverflowIsSeen' BY DEF OverflowIsSeen, Looks
<1> QED BY <1>1, <1>2

LEMMA SharedFrame ==
    ASSUME SharedIsSeen, Running' => Running, run_queue'[Main] \subseteq run_queue[Main],
           sync.notified => sync'.notified,
           pc[Main] \in {"n_fast", "n_slow"} => \/ sync'.notified
                                                \/ pc'[Main] \in {"n_fast", "n_slow"},
           \A u \in Workers : pc[u] \in Ahead => \E v \in Workers : pc'[v] \in Ahead
    PROVE  SharedIsSeen'
BY DEF SharedIsSeen

LEMMA OverflowFrame ==
    ASSUME OverflowIsSeen, Running' => Running,
           \A v \in Workers : run_queue'[v] \subseteq run_queue[v],
           sync.notified => sync'.notified,
           pc[Main] \in {"n_fast", "n_slow"} => \/ sync'.notified
                                                \/ pc'[Main] \in {"n_fast", "n_slow"},
           \A u, v \in Workers : run_queue'[v] # {} /\ max_threads <= 2 /\ Looks(u, v)
                                   => \E x \in Workers : Looks(x, v)'
    PROVE  OverflowIsSeen'
<1>1. SUFFICES ASSUME Running', max_threads <= 2, NEW v \in Workers, run_queue'[v] # {}
               PROVE  \/ sync'.notified
                      \/ pc'[Main] \in {"n_fast", "n_slow"}
                      \/ \E u \in Workers : Looks(u, v)'
  BY DEF OverflowIsSeen
<1>2. run_queue[v] # {} BY <1>1
<1>3. \/ sync.notified
      \/ pc[Main] \in {"n_fast", "n_slow"}
      \/ \E u \in Workers : Looks(u, v)
  BY <1>1, <1>2 DEF OverflowIsSeen
<1> QED BY Zenon, <1>1, <1>3

LEMMA LooksFrame ==
    ASSUME NEW u \in Workers, NEW v \in Workers, Looks(u, v), UNCHANGED threads,
           pc'[u] = pc[u], loc'[u].visits = loc[u].visits, loc'[u].target = loc[u].target
    PROVE  Looks(u, v)'
BY DEF Looks, Covers, Victim

\* A step of a worker that is not going to look at any queue before it waits,
\* or whose going nobody has to rely on.
LEMMA OverflowAlone ==
    ASSUME OverflowIsSeen, NEW w \in Workers, Alone(w), UNCHANGED threads,
           \A v \in Workers : run_queue'[v] \subseteq run_queue[v],
           sync.notified => sync'.notified,
           \A v \in Workers : run_queue'[v] # {} /\ max_threads <= 2 /\ Looks(w, v)
                                   => \E x \in Workers : Looks(x, v)'
    PROVE  OverflowIsSeen'
<1>1. pc'[Main] = pc[Main] BY ThreadsAre, MainAssumption DEF Alone
<1>2. ASSUME NEW u \in Workers \ {w}, NEW v \in Workers, Looks(u, v) PROVE Looks(u, v)'
  <2>1. pc'[u] = pc[u] /\ loc'[u] = loc[u] BY ThreadsAre DEF Alone
  <2> QED BY <1>2, <2>1, LooksFrame
<1> QED BY <1>1, <1>2, OverflowFrame DEF Running

LEMMA SharedAlone ==
    ASSUME SharedIsSeen, NEW w \in Workers, Alone(w), pc[w] \notin Ahead,
           run_queue'[Main] \subseteq run_queue[Main], sync.notified => sync'.notified
    PROVE  SharedIsSeen'
<1>1. pc'[Main] = pc[Main] BY ThreadsAre, MainAssumption DEF Alone
<1>2. \A u \in Workers : pc[u] \in Ahead => pc'[u] \in Ahead BY ThreadsAre DEF Alone
<1> QED BY <1>1, <1>2, SharedFrame DEF Running

LEMMA LaterSees ==
    ASSUME SharedIsSeen, OverflowIsSeen, NEW w \in Workers, Alone(w),
           UNCHANGED <<threads, run_queue>>, sync.notified => sync'.notified,
           pc[w] \notin Ahead \cup {"count"}, pc[w] = "visit" => loc[w].visits = 0
    PROVE  (SharedIsSeen /\ OverflowIsSeen)'
<1>1. \A v \in Workers : ~Looks(w, v) BY DEF Looks, Covers, Afresh, Ahead
<1> QED BY <1>1, SharedAlone, OverflowAlone

\* In a pool of two, the stack has the two workers.
LEMMA TwoWorkers ==
    ASSUME max_threads <= 2, NEW u \in Workers, NEW v \in Workers, u # v
    PROVE  Workers = {u, v} /\ max_threads = 2
<1>1. IsFiniteSet({u, v}) /\ Cardinality({u, v}) = 2
  <2>1. IsFiniteSet({u}) /\ Cardinality({u}) = 1 BY FS_Singleton
  <2>2. Cardinality({u} \cup {v}) = Cardinality({u}) + 1 /\ IsFiniteSet({u} \cup {v})
    BY <2>1, FS_AddElement
  <2>3. {u} \cup {v} = {u, v} OBVIOUS
  <2> QED BY <2>1, <2>2, <2>3
<1>2. IsFiniteSet(Workers) /\ Cardinality(Workers) \in Nat /\ Cardinality(Workers) <= 2
  BY PresentIsFinite DEF max_threads
<1>3. Cardinality({u, v}) <= Cardinality(Workers)
  BY <1>2, FS_Subset
<1>4. Cardinality(Workers) = 2 BY <1>1, <1>2, <1>3
<1>5. {u, v} = Workers
  BY <1>1, <1>2, <1>4, FS_Subset
<1> QED BY <1>4, <1>5 DEF max_threads

\* The walk that has just visited w itself comes to v next.
LEMMA NextIsOther ==
    ASSUME Typed, Born, max_threads <= 2, NEW w \in Workers, NEW v \in Workers, w # v,
           pc[w] \notin {"unborn", "register"}, pc[v] \notin {"unborn", "register"}
    PROVE  /\ NextOf(w) \in {v, NoThread}
           /\ NextOf(w) = NoThread => Head(threads) = v
<1>1. Workers = {w, v} BY TwoWorkers
<1>2. /\ threads \in Seq(Workers) /\ DOMAIN threads = 1..Len(threads) /\ Len(threads) \in Nat
  BY DEF Typed
<1>3. PICK i \in DOMAIN threads : threads[i] = w BY DEF Born
<1>4. PICK j \in DOMAIN threads : threads[j] = v BY DEF Born
<1>5. \A k \in DOMAIN threads : k = i \/ k = j
  <2>1. \A k \in DOMAIN threads : threads[k] = w \/ threads[k] = v BY <1>1, <1>2
  <2> QED BY <1>3, <1>4, <2>1 DEF Born
<1>6. i \in Nat /\ j \in Nat /\ i >= 1 /\ j >= 1 /\ i <= Len(threads) /\ j <= Len(threads) /\ i # j
  BY <1>2, <1>3, <1>4
<1>7. Len(threads) = 2
  <2>1. Len(threads) >= 2 BY <1>2, <1>6
  <2>2. 1 \in DOMAIN threads /\ 2 \in DOMAIN threads BY <1>2, <2>1
  <2>3. CASE Len(threads) >= 3
    <3>1. 3 \in DOMAIN threads BY <1>2, <2>3
    <3> QED BY <1>5, <2>2, <3>1
  <2> QED BY <1>2, <2>1, <2>3
<1> DEFINE c == CHOOSE k \in DOMAIN threads : threads[k] = w
<1>8. NextOf(w) = IF c = Len(threads) THEN NoThread ELSE threads[c + 1]
  BY DEF NextOf
<1>9. c = i
  BY <1>3 DEF Born
<1> HIDE DEF c
<1>10. Head(threads) = threads[1] BY <1>2, <1>7
<1>11. CASE i = 1
  <2>1. j = 2 BY <1>6, <1>7, <1>11
  <2>2. NextOf(w) = v BY <1>4, <1>7, <1>8, <1>9, <1>11, <2>1
  <2> QED BY <2>2, MainAssumption
<1>12. CASE i = 2
  <2>1. j = 1 BY <1>6, <1>7, <1>12
  <2> QED BY <1>4, <1>7, <1>8, <1>9, <1>10, <1>12, <2>1
<1> QED BY <1>6, <1>7, <1>11, <1>12

LEMMA NotRunning == ASSUME ~Running' PROVE Seen'
BY DEF Seen, Open, SleepersAreKnown, NoteIsSeen, SharedIsSeen, OverflowIsSeen

\* While the pool runs, nobody leaves it.
LEMMA RunningIsEarly ==
    ASSUME IInv, Running
    PROVE  sync.state # "Shutdown" /\ \A w \in Workers : pc[w] \notin Leaving
BY DEF IInv, Phase, Running, AfterShutdown, NotifyLabels

\* A queue that pop() could not take is empty, or another worker has it.
LEMMA CannotGrabIsSeen ==
    ASSUME Consumed, NEW w \in Workers, Alone(w), pc[w] # "fill", NEW q \in Threads,
           CannotGrab(q), run_queue[q] # {}
    PROVE  \E x \in Workers \ {w} : pc'[x] = "fill"
BY ThreadsAre DEF CannotGrab, Consumed, Alone

\* A walk that visits its own worker goes on with the next.
LEMMA VisitSelf ==
    ASSUME Typed, Listed, NEW w \in Workers, Visit(w), Victim(w) = w, CannotGrab(w)
    PROVE  /\ UNCHANGED pc /\ loc'[w].visits = loc[w].visits - 1
           /\ loc'[w].target = NextOf(w)
<1> DEFINE n == NextOf(w)
           moved == [loc EXCEPT ![w].target = n]
<1>1. UNCHANGED pc /\ loc' = [moved EXCEPT ![w].visits = @ - 1]
  BY Zenon DEF Visit, Victim, CannotGrab, n
<1>2. n \in Workers \cup {NoThread}
  <2>1. \E i \in DOMAIN threads : threads[i] = w
    <3>1. CASE loc[w].target = NoThread
      <4>1. threads # <<>> BY Zenon DEF Visit, Listed, WorkerLabels, Seeking
      <4>2. 1 \in DOMAIN threads /\ Head(threads) = threads[1] BY <4>1 DEF Typed
      <4> QED BY <3>1, <4>2 DEF Victim
    <3> QED BY <3>1 DEF Victim, Listed
  <2> QED BY <2>1, NextOfListed
<1> HIDE DEF n
<1>3. loc'[w].target = n /\ loc'[w].visits = loc[w].visits - 1
  BY <1>1, <1>2, VisitSelfLocals
<1> QED BY <1>1, <1>3 DEF n

LEMMA WalkSees ==
    ASSUME IInv, SInv, NEW w \in Workers, Visit(w)
    PROVE  (SharedIsSeen /\ OverflowIsSeen)'
<1> USE ThreadsAre, MainAssumption
<1>0. Typed /\ PcTyped /\ Listed /\ TasksTyped /\ LocTyped /\ SharedIsSeen /\ OverflowIsSeen /\ Consumed /\ Born
  BY DEF IInv, Typed, SInv, Seen
<1>1. Alone(w) /\ pc[w] = "visit" /\ UNCHANGED <<threads, sync>> /\ loc[w].visits \in Int
  BY Zenon, <1>0, WorkerAlone DEF Visit, LocTyped, LocalsOK
<1>2. CASE Goto(w, "fill")
  BY <1>0, <1>2, AfreshSees DEF Goto, PcTyped, Afresh
<1>3. CASE CannotGrab(Victim(w)) /\ UNCHANGED run_queue
  <2>1. Victim(w) \in Workers BY <1>0, VisitCases
  <2>2. SharedIsSeen' BY <1>0, <1>1, <1>3, SharedAlone DEF Ahead, Busy, NotifyLabels
  <2>3. ASSUME NEW v \in Workers, run_queue'[v] # {}, max_threads <= 2, Looks(w, v)
        PROVE  \E x \in Workers : Looks(x, v)'
    <3>1. w # v /\ Covers(w, v) BY <1>1, <2>3 DEF Looks, Afresh, Busy, NotifyLabels
    <3>2. CASE Victim(w) = v
      <4>1. PICK x \in Workers \ {w} : pc'[x] = "fill"
        BY <1>0, <1>1, <1>3, <2>3, <3>2, CannotGrabIsSeen
      <4> QED BY <4>1 DEF Looks, Afresh
    <3>3. CASE Victim(w) # v
      <4>1. Victim(w) = w BY <2>1, <2>3, <3>1, <3>3, TwoWorkers
      <4>2. /\ UNCHANGED pc /\ loc'[w].visits = loc[w].visits - 1
            /\ loc'[w].target = NextOf(w)
        BY <1>0, <1>3, <4>1, VisitSelf
      <4>3. pc[v] \notin {"unborn", "register"} BY <1>0, <1>3, <2>3 DEF Born
      <4>4. /\ NextOf(w) \in {v, NoThread}
            /\ NextOf(w) = NoThread => Head(threads) = v
        BY <1>0, <1>1, <2>3, <3>1, <4>3, NextIsOther
      <4>5. Victim(w)' = v BY <1>1, <4>2, <4>4 DEF Victim
      <4>6. loc'[w].visits > 0 BY <1>1, <3>1, <3>3, <4>2 DEF Covers
      <4>7. Covers(w, v)' BY <1>1, <4>2, <4>5, <4>6 DEF Covers
      <4> QED BY <3>1, <4>7 DEF Looks
    <3> QED BY <3>2, <3>3
  <2> QED BY <1>0, <1>1, <1>3, <2>2, <2>3, OverflowAlone
<1> QED BY Zenon, <1>0, <1>2, <1>3, VisitCases

LEMMA CountSees ==
    ASSUME IInv, SInv, NEW w \in Workers, PopCount(w), Running
    PROVE  (SharedIsSeen /\ OverflowIsSeen)'
<1> USE ThreadsAre, MainAssumption
<1>0. Typed /\ PcTyped /\ SyncTyped /\ SharedIsSeen /\ OverflowIsSeen /\ Born /\ SpawnedOK
  BY CountsAre DEF IInv, Typed, SInv, Seen
<1>1. /\ Alone(w) /\ pc[w] = "count" /\ pc'[w] = "visit"
      /\ UNCHANGED <<threads, sync, run_queue>> /\ loc'[w].visits = sync.spawned
  BY <1>0, WorkerAlone, PopCountLocals DEF PopCount, Goto, PcTyped, queues
<1>2. SharedIsSeen' BY <1>0, <1>1, SharedAlone DEF Ahead, Busy, NotifyLabels
<1>3. ASSUME NEW v \in Workers, run_queue'[v] # {}, max_threads <= 2, Looks(w, v)
      PROVE  \E x \in Workers : Looks(x, v)'
  <2>1. w # v BY <1>1, <1>3 DEF Looks, Afresh, Busy, NotifyLabels
  <2>2. pc[v] # "unborn" BY <1>0, <1>1, <1>3 DEF Born
  <2>3. Workers = {w, v} /\ max_threads = 2 BY <1>3, <2>1, TwoWorkers
  <2>4. Present = Workers BY <1>1, <2>2, <2>3, RunningIsEarly DEF Present, Leaving
  <2>5. sync.spawned >= 2 BY <1>0, <2>3, <2>4, PresentIsFinite DEF SpawnedOK, max_threads, SyncTyped
  <2>6. Covers(w, v)' BY <1>0, <1>1, <2>5 DEF Covers, SyncTyped
  <2> QED BY <2>1, <2>6 DEF Looks
<1> QED BY <1>0, <1>1, <1>2, <1>3, OverflowAlone

\* The steps of a worker on the idle event, while the pool runs.
LEMMA SleepSees ==
    ASSUME IInv, SInv, NEW w \in Workers, Running,
           WaitEvent(w) \/ EventWait(w) \/ EventFutex(w) \/ EventTimeout(w)
    PROVE  Seen'
<1> USE ThreadsAre, MainAssumption
<1>0. Typed /\ PcTyped /\ SyncTyped /\ Open /\ SleepersAreKnown /\ NoteIsSeen /\ SharedIsSeen /\ OverflowIsSeen
  BY DEF IInv, Typed, SInv, Seen
<1>1. Alone(w) /\ pc'[Main] = pc[Main] BY WorkerAlone DEF Alone
<1>2. UNCHANGED <<sync, threads, run_queue>> /\ pc[w] \in {"wait"} \cup Asleep
  BY Zenon DEF WaitEvent, EventWait, EventFutex, EventTimeout, queues, Asleep
<1>3. (SharedIsSeen /\ OverflowIsSeen)'
  BY <1>0, <1>1, <1>2, LaterSees DEF Ahead, Asleep, Busy, NotifyLabels
<1>4. \A u \in Workers \ {w} : pc'[u] = pc[u] /\ loc'[u] = loc[u]
  BY <1>1 DEF Alone
<1>5. \A x \in Threads : pc[x] = "n_futex" => pc'[x] = "n_futex"
  BY <1>1, <1>2 DEF Alone, Asleep
<1>6. \A u \in Workers : pc[u] \in Up /\ u # w => pc'[u] \in Up
  BY <1>4
<1>7. CASE WaitEvent(w)
  <2>1. ~sync.notified /\ pc[w] = "wait" /\ pc'[w] = "event" /\ UNCHANGED event
    BY <1>0, <1>7 DEF WaitEvent, Goto, PcTyped
  <2>2. NoteIsSeen' BY <1>2, <2>1 DEF NoteIsSeen
  <2>3. SleepersAreKnown'
    BY <1>0, <1>4, <1>5, <2>1 DEF SleepersAreKnown
  <2> QED BY <1>0, <1>3, <2>1, <2>2, <2>3 DEF Seen, Open
<1>8. CASE EventTimeout(w) \/ (EventFutex(w) /\ event # "WAITING")
  <2>1. /\ pc[w] \in {"parked", "futex"} /\ pc'[w] = "event" /\ UNCHANGED event
        /\ loc'[w].acquire = "WAITING"
    BY <1>0, <1>8, AwakenLocals DEF EventTimeout, EventFutex, Goto, PcTyped
  <2>2. SleepersAreKnown' BY <2>1 DEF SleepersAreKnown
  <2>3. NoteIsSeen'
    <3>1. \A u \in Workers : pc[u] \in Asleep => pc'[u] \in Asleep
      BY <1>4, <2>1 DEF Asleep
    <3>2. \A u \in Workers : pc[u] \in {"event", "futex"} => pc'[u] \in {"event", "futex"}
      BY <1>4, <2>1
    <3>3. pc[w] \notin Up BY <2>1 DEF Up, Seeking, Busy, NotifyLabels
    <3> QED BY <1>0, <1>1, <1>2, <1>6, <2>1, <3>1, <3>2, <3>3 DEF NoteIsSeen
  <2> QED BY <1>0, <1>3, <2>1, <2>2, <2>3 DEF Seen, Open
<1>9. CASE EventFutex(w) /\ event = "WAITING"
  <2>1. pc[w] = "futex" /\ pc'[w] = "parked" /\ UNCHANGED event
    BY <1>0, <1>9 DEF EventFutex, Goto, PcTyped
  <2>2. SleepersAreKnown' BY <1>9, <2>1 DEF SleepersAreKnown
  <2>3. NoteIsSeen'
    <3>1. \A u \in Workers : pc[u] \in Asleep => pc'[u] \in Asleep
      BY <1>4, <2>1 DEF Asleep
    <3>2. pc[w] \notin Up BY <2>1 DEF Up, Seeking, Busy, NotifyLabels
    <3> QED BY <1>0, <1>1, <1>2, <1>6, <1>9, <2>1, <3>1, <3>2 DEF NoteIsSeen
  <2> QED BY <1>0, <1>3, <2>1, <2>2, <2>3 DEF Seen, Open
<1>10. CASE EventWait(w)
  <2>0. pc[w] = "event" /\ event # "SHUTDOWN" BY <1>0, <1>10 DEF EventWait, Open
  <2>1. CASE event = "NOTIFIED"
    <3>1. event' = loc[w].acquire /\ pc'[w] = "wait" /\ loc[w].acquire \in {"EMPTY", "WAITING"}
      BY <1>0, <1>10, <2>1 DEF EventWait, Goto, PcTyped, Typed, LocTyped, LocalsOK
    <3>2. NoteIsSeen' BY <3>1 DEF NoteIsSeen, Up
    <3>3. SleepersAreKnown'
      BY <1>0, <1>4, <1>5, <2>0, <2>1, <3>1 DEF SleepersAreKnown
    <3> QED BY <1>0, <1>3, <3>1, <3>2, <3>3 DEF Seen, Open
  <2>2. CASE event \in {"EMPTY", "WAITING"}
    <3>1. event' = "WAITING" /\ pc'[w] = "futex"
      BY <1>0, <1>10, <2>2 DEF EventWait, Goto, PcTyped
    <3>2. SleepersAreKnown' BY <3>1 DEF SleepersAreKnown
    <3>3. NoteIsSeen'
      <4>1. \A u \in Workers : pc[u] \in Asleep => pc'[u] \in Asleep
        BY <1>4, <3>1 DEF Asleep
      <4>2. pc[w] \notin Up BY <2>0 DEF Up, Seeking, Busy, NotifyLabels
      <4> QED BY <1>0, <1>1, <1>2, <1>6, <2>0, <2>2, <4>1, <4>2 DEF NoteIsSeen
    <3> QED BY <1>0, <1>3, <3>1, <3>2, <3>3 DEF Seen, Open
  <2> QED BY <1>0, <2>0, <2>1, <2>2 DEF Typed
<1> QED BY <1>7, <1>8, <1>9, <1>10

\* The other steps of a worker.
LEMMA WorkerSees ==
    ASSUME IInv, SInv, NEW w \in Workers, Running,
           \/ Register(w) \/ WaitNotified(w) \/ WaitIdle(w)
           \/ PopBuffer(w) \/ PopOwn(w) \/ PopGlobal(w) \/ Fill(w) \/ PopCount(w)
           \/ Visit(w) \/ Steal(w) \/ PopNone(w) \/ Got(w) \/ Finish(w)
           \/ \E t \in Tasks : ScheduleInside(w, t)
           \/ \E batch \in SUBSET Tasks : Schedule(w, batch)
    PROVE  Seen'
<1> USE ThreadsAre, MainAssumption
<1>0. /\ Typed /\ PcTyped /\ SyncTyped /\ TasksTyped /\ Listed /\ Consumed /\ Born
      /\ Open /\ SleepersAreKnown /\ NoteIsSeen /\ SharedIsSeen /\ OverflowIsSeen
  BY DEF IInv, Typed, SInv, Seen
<1>1. Alone(w) /\ pc'[Main] = pc[Main] BY WorkerAlone DEF Alone
<1>2. UNCHANGED event
  BY Zenon DEF Register, WaitNotified, WaitIdle, PopBuffer, PopOwn, PopGlobal, PopQueue, Fill,
     PopCount, Visit, Steal, PopNone, Got, Finish, ScheduleInside, Schedule
\* Steps that lead a worker back to its own buffer and queue.
<1>3. ASSUME pc[w] \in Up \ {"n_futex"}, NEW l \in Afresh, Goto(w, l) PROVE Seen'
  <2>1. pc'[w] \in Afresh /\ pc'[w] \in Up
    BY <1>0, <1>3 DEF Goto, PcTyped, Afresh, Up, Seeking
  <2> QED BY <1>0, <1>1, <1>2, <1>3, <2>1, UpKeeps, AfreshSees DEF Seen
\* Steps that do not.
<1>4. ASSUME pc[w] \in Up \ {"n_futex"}, NEW l \in Up, Goto(w, l) \/ (UNCHANGED pc),
             (SharedIsSeen /\ OverflowIsSeen)'
      PROVE  Seen'
  <2>1. pc'[w] \in Up BY <1>0, <1>4 DEF Goto, PcTyped
  <2> QED BY <1>0, <1>1, <1>2, <1>4, <2>1, UpKeeps DEF Seen
<1> HIDE DEF Seen
<1>5. CASE WaitNotified(w)
  BY <1>3, <1>5 DEF WaitNotified, Up, Afresh
<1>6. CASE PopBuffer(w)
  BY Zenon, <1>3, <1>6, PopBufferCases DEF Up, Seeking, Afresh, Busy
<1>7. CASE Fill(w)
  BY Zenon, <1>3, <1>7 DEF Fill, Up, Seeking, Afresh, Busy
<1>8. CASE Got(w)
  BY <1>3, <1>8 DEF Got, Up, Afresh, Busy, NotifyLabels
<1>9. CASE Finish(w)
  BY <1>3, <1>9 DEF Finish, Up, Afresh, Busy
<1>10. CASE \/ \E t \in Tasks : ScheduleInside(w, t)
            \/ \E batch \in SUBSET Tasks : Schedule(w, batch)
  BY <1>3, <1>10 DEF ScheduleInside, Schedule, Up, Afresh, Busy, NotifyLabels
<1>11. CASE WaitIdle(w)
  <2>1. /\ pc[w] = "wait" /\ UNCHANGED <<pc, threads, run_queue>>
        /\ sync'.notified = sync.notified
    BY <1>0, <1>11 DEF WaitIdle, SyncTyped, queues
  <2>2. (SharedIsSeen /\ OverflowIsSeen)'
    BY <1>0, <1>1, <2>1, LaterSees DEF Ahead, Busy, NotifyLabels
  <2> QED BY <1>4, <2>1, <2>2 DEF Up
<1>12. CASE PopNone(w)
  <2>1. /\ pc[w] = "visit" /\ loc[w].visits = 0 /\ Goto(w, "wait")
        /\ UNCHANGED <<sync, threads, run_queue>>
    BY <1>12 DEF PopNone, queues
  <2>2. (SharedIsSeen /\ OverflowIsSeen)'
    BY <1>0, <1>1, <2>1, LaterSees DEF Ahead, Busy, NotifyLabels
  <2> QED BY <1>4, <2>1, <2>2 DEF Up, Seeking
<1>13. CASE Steal(w)
  <2>1. UNCHANGED <<sync, threads, run_queue>> /\ pc[w] = "steal"
    BY Zenon, <1>13 DEF Steal
  <2>2. CASE Goto(w, "got")
    BY <1>3, <2>1, <2>2 DEF Up, Seeking, Afresh, Busy
  <2>3. CASE Goto(w, "visit")
    <3>1. (SharedIsSeen /\ OverflowIsSeen)'
      BY <1>0, <1>1, <2>1, LaterSees DEF Ahead, Busy, NotifyLabels
    <3> QED BY <1>4, <2>1, <2>3, <3>1 DEF Up, Seeking
  <2> QED BY Zenon, <1>13, <2>2, <2>3, StealCases
<1>14. CASE PopCount(w)
  <2>1. pc[w] = "count" /\ Goto(w, "visit") BY <1>14 DEF PopCount
  <2>2. (SharedIsSeen /\ OverflowIsSeen)' BY <1>14, CountSees
  <2> QED BY <1>4, <2>1, <2>2 DEF Up, Seeking
<1>15. CASE Visit(w)
  <2>1. pc[w] = "visit" BY Zenon, <1>15 DEF Visit
  <2>2. (SharedIsSeen /\ OverflowIsSeen)' BY <1>15, WalkSees
  <2>3. (UNCHANGED pc) \/ \E l \in {"fill", "steal"} : Goto(w, l)
    BY Zenon, <1>0, <1>15, VisitCases
  <2> QED BY <1>4, <2>1, <2>2, <2>3 DEF Up, Seeking
<1>16. CASE PopOwn(w)
  <2>1. pc[w] = "own" /\ UNCHANGED <<sync, threads>> BY Zenon, <1>16 DEF PopOwn, PopQueue
  <2>2. CASE Goto(w, "fill")
    BY <1>3, <2>1, <2>2 DEF Up, Seeking, Afresh
  <2>3. CASE CannotGrab(w) /\ Goto(w, "global") /\ UNCHANGED run_queue
    <3>1. pc'[w] = "global" BY <1>0, <2>3 DEF Goto, PcTyped
    <3>2. SharedIsSeen' BY <3>1 DEF SharedIsSeen, Ahead
    <3>3. ASSUME NEW v \in Workers, run_queue'[v] # {} PROVE \E x \in Workers : Looks(x, v)'
      <4>1. CASE v # w BY <3>1, <4>1 DEF Looks
      <4>2. CASE v = w
        <5>1. PICK x \in Workers \ {w} : pc'[x] = "fill"
          BY <1>0, <1>1, <2>1, <2>3, <3>3, <4>2, CannotGrabIsSeen
        <5> QED BY <5>1 DEF Looks, Afresh
      <4> QED BY <4>1, <4>2
    <3>4. OverflowIsSeen' BY <1>0, <1>1, <2>1, <2>3, <3>3, OverflowAlone
    <3> QED BY <1>4, <2>1, <2>3, <3>2, <3>4 DEF Up, Seeking
  <2>4. Goto(w, "fill") \/ (CannotGrab(w) /\ Goto(w, "global") /\ UNCHANGED run_queue)
    BY Zenon, <1>16 DEF PopOwn, PopQueue, Grab, queues
  <2> QED BY <2>2, <2>3, <2>4
<1>17. CASE PopGlobal(w)
  <2>1. pc[w] = "global" /\ UNCHANGED <<sync, threads>> BY Zenon, <1>17 DEF PopGlobal, PopQueue
  <2>2. CASE Goto(w, "fill")
    BY <1>3, <2>1, <2>2 DEF Up, Seeking, Afresh
  <2>3. CASE CannotGrab(Main) /\ Goto(w, "count") /\ UNCHANGED run_queue
    <3>1. pc'[w] = "count" BY <1>0, <2>3 DEF Goto, PcTyped
    <3>2. SharedIsSeen'
      <4>1. CASE run_queue[Main] # {}
        <5>1. PICK x \in Workers \ {w} : pc'[x] = "fill"
          BY <1>0, <1>1, <2>1, <2>3, <4>1, CannotGrabIsSeen
        <5> QED BY <5>1 DEF SharedIsSeen, Ahead
      <4> QED BY <2>3, <4>1 DEF SharedIsSeen
    <3>3. ASSUME NEW v \in Workers, Looks(w, v) PROVE \E x \in Workers : Looks(x, v)'
      <4>1. v # w BY <2>1, <3>3 DEF Looks, Afresh, Busy, NotifyLabels
      <4> QED BY <3>1, <4>1 DEF Looks
    <3>4. OverflowIsSeen' BY <1>0, <1>1, <2>1, <2>3, <3>3, OverflowAlone
    <3> QED BY <1>4, <2>1, <2>3, <3>2, <3>4 DEF Up, Seeking
  <2>4. Goto(w, "fill") \/ (CannotGrab(Main) /\ Goto(w, "count") /\ UNCHANGED run_queue)
    BY Zenon, <1>17 DEF PopGlobal, PopQueue, Grab, queues
  <2> QED BY <2>2, <2>3, <2>4
<1>18. CASE Register(w)
  <2>1. pc[w] = "register" /\ Goto(w, "wait") /\ UNCHANGED <<sync, run_queue, loc>>
    BY <1>18 DEF Register, queues
  <2>2. SharedIsSeen' BY <1>0, <1>1, <2>1, SharedAlone DEF Ahead, Busy, NotifyLabels
  <2>3. ASSUME NEW u \in Workers, NEW v \in Workers, run_queue'[v] # {}, max_threads <= 2,
               Looks(u, v)
        PROVE  \E x \in Workers : Looks(x, v)'
    <3>1. v # w BY <1>0, <2>1, <2>3 DEF Born
    <3>2. u # w BY <2>1, <2>3 DEF Looks, Covers, Afresh, Busy, NotifyLabels
    <3>3. u = v BY <2>3, <3>1, <3>2, TwoWorkers
    <3>4. pc[u] \in Afresh /\ pc'[u] = pc[u] BY <1>1, <2>3, <3>2, <3>3 DEF Looks, Alone
    <3> QED BY <3>4 DEF Looks
  <2>4. OverflowIsSeen' BY <1>0, <1>1, <2>1, <2>3, OverflowFrame DEF Running
  <2> QED BY <1>4, <2>1, <2>2, <2>4 DEF Up
<1> QED BY <1>5, <1>6, <1>7, <1>8, <1>9, <1>10, <1>11, <1>12, <1>13, <1>14, <1>15, <1>16,
           <1>17, <1>18

\* notify(), called by a worker, which stays busy.
LEMMA NotifyWorkerSees ==
    ASSUME IInv, SInv, NEW w \in Workers, Running, Notify(w)
    PROVE  Seen'
<1> USE ThreadsAre, MainAssumption
<1>0. /\ Typed /\ PcTyped /\ Open /\ SleepersAreKnown
  BY DEF IInv, Typed, SInv, Seen
<1>1. /\ pc[w] \in NotifyLabels /\ pc'[w] \in Busy /\ pc'[Main] = pc[Main]
      /\ \A u \in Workers \ {w} : \/ pc'[u] = pc[u]
                                  \/ pc[u] = "parked" /\ pc'[u] = "event"
                                  \/ pc[u] = "unborn" /\ pc'[u] = "register"
  BY NotifyShape DEF Busy
<1>2. (SharedIsSeen /\ OverflowIsSeen)'
  BY <1>1, AfreshSees DEF Afresh
<1>3. NoteIsSeen' BY <1>1 DEF NoteIsSeen, Up
<1>4. CASE NotifyFast(w) \/ NotifySlow(w) \/ SpawnFailed(w)
  <2>1. Alone(w) /\ UNCHANGED event /\ pc[w] # "n_futex"
    <3>1. CASE NotifyFast(w) \/ SpawnFailed(w)
      BY <1>0, <3>1, NoLocalsChange, GoesAlone DEF NotifyFast, SpawnFailed
    <3>2. CASE NotifySlow(w)
      <4>1. \E l : Goto(w, l) BY Zenon, <3>2 DEF NotifySlow
      <4> QED BY <1>0, <3>2, <4>1, NotifySlowLocals, GoesAlone DEF NotifySlow
    <3> QED BY <1>4, <3>1, <3>2
  <2> QED BY <1>0, <1>1, <1>2, <2>1, UpKeeps DEF Seen, Up, Busy
<1>5. CASE NotifyEvent(w)
  <2>1. /\ event' = "NOTIFIED" /\ UNCHANGED loc
        /\ pc[w] = "n_event" /\ pc' = [pc EXCEPT ![w] = IF event = "WAITING" THEN "n_futex" ELSE loc[w].ret]
    BY <1>5 DEF NotifyEvent, Goto
  <2>2. \A x \in Threads \ {w} : pc'[x] = pc[x] BY <1>0, <2>1 DEF PcTyped
  <2>3. event = "WAITING" => pc'[w] = "n_futex" BY <1>0, <2>1 DEF PcTyped
  <2>4. pc'[w] # "parked" BY <1>1 DEF Busy, NotifyLabels
  <2>5. SleepersAreKnown' BY <1>0, <2>1, <2>2, <2>3, <2>4 DEF SleepersAreKnown, Running
  <2> QED BY <1>2, <1>3, <2>1, <2>5 DEF Seen, Open
<1>6. CASE NotifyFutex(w)
  <2>1. UNCHANGED event /\ pc[w] = "n_futex" BY <1>6 DEF NotifyFutex
  <2>2. SleepersAreKnown'
    <3>1. CASE Parked = {} /\ Goto(w, loc[w].ret)
      <4>1. \A u \in Workers : pc'[u] # "parked"
        BY <1>1, <3>1 DEF Parked, Busy, NotifyLabels
      <4> QED BY <4>1 DEF SleepersAreKnown
    <3>2. ASSUME NEW p \in Parked, pc' = [pc EXCEPT ![w] = loc[w].ret, ![p] = "event"], Awaken({p})
          PROVE  SleepersAreKnown'
      <4>1. p \in Workers /\ pc'[p] = "event" BY <1>0, <3>2 DEF Parked, PcTyped
      <4>2. loc'[p].acquire = "WAITING" BY <1>0, <3>2, <4>1, AwakenLocals
      <4> QED BY <4>1, <4>2 DEF SleepersAreKnown
    <3> QED BY <1>6, <3>1, <3>2 DEF NotifyFutex
  <2> QED BY <1>0, <1>1, <1>2, <1>3, <2>1, <2>2 DEF Seen, Open, Running
<1>7. CASE Spawn(w)
  <2>1. UNCHANGED <<event, loc>> /\ pc[w] = "n_spawn" BY <1>7 DEF Spawn
  <2>2. PICK n \in Workers : /\ pc[n] = "unborn" /\ n # w
                             /\ pc' = [pc EXCEPT ![w] = loc[w].ret, ![n] = "register"]
    BY <1>7, SpawnCreates
  <2>3. \A x \in Threads \ {w, n} : pc'[x] = pc[x] BY <1>0, <2>2 DEF PcTyped
  <2>4. pc'[n] = "register" /\ pc'[w] # "parked" BY <1>0, <1>1, <2>2 DEF PcTyped, Busy, NotifyLabels
  <2>5. SleepersAreKnown' BY <1>0, <2>1, <2>2, <2>3, <2>4 DEF SleepersAreKnown, Running
  <2> QED BY <1>0, <1>1, <1>2, <1>3, <2>1, <2>5 DEF Seen, Open, Running
<1> QED BY <1>4, <1>5, <1>6, <1>7 DEF Notify

\* Steps of the owner that leave the queues alone, but for what it pushes.
LEMMA MainLooks ==
    ASSUME SharedIsSeen, OverflowIsSeen, Running' => Running, Quiet, UNCHANGED <<threads, run_queue>>,
           sync.notified => sync'.notified,
           pc[Main] \in {"n_fast", "n_slow"} => \/ sync'.notified
                                                \/ pc'[Main] \in {"n_fast", "n_slow"},
           \A w \in Workers : \/ pc'[w] = pc[w]
                              \/ pc[w] = "parked" /\ pc'[w] = "event"
                              \/ pc[w] = "unborn" /\ pc'[w] = "register"
    PROVE  (SharedIsSeen /\ OverflowIsSeen)'
<1> USE ThreadsAre
<1>1. \A u \in Workers : pc[u] \in Ahead => pc'[u] \in Ahead
  BY DEF Ahead, Busy, NotifyLabels
<1>2. ASSUME NEW u \in Workers, NEW v \in Workers, Looks(u, v) PROVE Looks(u, v)'
  <2>1. pc'[u] = pc[u]
    BY <1>2 DEF Looks, Covers, Afresh, Busy, NotifyLabels
  <2> QED BY <1>2, <2>1, LooksFrame DEF Quiet
<1> QED BY <1>1, <1>2, SharedFrame, OverflowFrame

\* While nobody is idle and some worker is there, one is up.
LEMMA NoneIdleIsUp ==
    ASSUME IInv, Running, sync.idle = 0, NEW w \in Workers, pc[w] # "unborn"
    PROVE  pc[w] \in Up
<1>1. pc[w] \in WorkerLabels \ Leaving BY RunningIsEarly DEF IInv, InPlace, WorkerOK
<1>2. Idle = {}
  BY RunningIsEarly, CountsAre, PresentIsFinite, FS_EmptySet DEF IInv, IdleOK
<1>3. pc[w] \notin Asleep BY <1>2 DEF Idle, IInv, InPlace, WorkerOK
<1> QED BY <1>1, <1>3 DEF WorkerLabels, Up

\* notify_slow() of the owner: whatever it does, the notification is seen.
LEMMA NotifySlowMainSees ==
    ASSUME IInv, SInv, Running, NotifySlow(Main)
    PROVE  NoteIsSeen'
<1> USE ThreadsAre, MainAssumption
<1>0. Typed /\ PcTyped /\ SyncTyped /\ InPlace /\ NoteIsSeen /\ SpawnedOK /\ IdleOK /\ WakingOK
  BY CountsAre, WakingIs DEF IInv, Typed, SInv, Seen
<1>1. pc[Main] = "n_slow" /\ UNCHANGED event BY DEF NotifySlow
<1>2. sync.state # "Shutdown" /\ \A u \in Workers : pc[u] \notin Leaving BY RunningIsEarly
<1>3. \A u \in Workers : pc'[u] = pc[u] BY NotifyShape, <1>1, <1>0 DEF NotifySlow, Goto, PcTyped
<1>4. ~loc[Main].is_waking BY <1>0 DEF InPlace, MainOK
<1>5. CASE sync.idle > 0 /\ Goto(Main, "n_event")
  <2>1. Idle # {}
    <3>1. Cardinality(Idle) # 0 BY <1>0, <1>2, <1>5 DEF IdleOK, SyncTyped
    <3> QED BY <3>1, FS_EmptySet
  <2>2. PICK u \in Workers : loc[u].is_idle BY <2>1 DEF Idle
  <2>3. pc[u] \in {"wait"} \cup Asleep BY <1>0, <2>2 DEF InPlace, WorkerOK
  <2>4. pc'[Main] = "n_event" BY <1>0, <1>5 DEF Goto, PcTyped
  <2> QED BY <1>3, <2>3, <2>4 DEF NoteIsSeen, Up
<1>6. CASE sync.idle = 0 /\ Goto(Main, "n_spawn")
  <2>1. pc'[Main] = "n_spawn" BY <1>0, <1>6 DEF Goto, PcTyped
  <2>2. \A u \in Workers : pc[u] # "unborn" => pc[u] \in Up BY <1>6, NoneIdleIsUp
  <2> QED BY <1>3, <2>1, <2>2 DEF NoteIsSeen
<1>7. CASE ~CanWake(Main) /\ Goto(Main, loc[Main].ret)
  <2>1. sync.state \in {"Signaled", "Waking"}
    BY <1>0, <1>2, <1>4, <1>7 DEF CanWake, SyncTyped, States
  <2>2. CASE sync.state = "Waking"
    <3>1. PICK u \in Workers : loc[u].is_waking BY <1>0, <1>2, <2>2 DEF WakingOK
    <3>2. pc[u] \in Up BY <1>0, <3>1 DEF InPlace, WorkerOK, Up, Busy, NotifyLabels
    <3> QED BY <1>3, <3>2 DEF NoteIsSeen
  <2>3. CASE sync.state = "Signaled"
    <3>1. sync.notified BY <1>0, <2>3 DEF WakingOK
    <3> QED BY <1>0, <1>1, <1>3, <3>1 DEF NoteIsSeen
  <2> QED BY <2>1, <2>2, <2>3
<1>8. CASE /\ CanWake(Main)
           /\ ~(sync.idle > 0 \/ (sync.idle = 0 /\ sync.spawned < max_threads))
  <2>1. sync.idle = 0 /\ sync.spawned = max_threads
    BY <1>0, <1>2, <1>8, PresentIsFinite DEF IdleOK, SpawnedOK, SyncTyped
  <2>2. max_threads # 0 BY WorkersAssumption, FS_EmptySet DEF max_threads
  <2>3. Present # {} \/ Spawning # {}
    <3>1. Cardinality(Present) # 0 \/ Cardinality(Spawning) # 0
      BY <1>0, <2>1, <2>2, PresentIsFinite DEF SpawnedOK
    <3> QED BY <3>1, FS_EmptySet
  <2>4. \E u \in Workers : pc[u] # "unborn"
    BY <1>1, <2>3 DEF Present, Spawning, Threads
  <2>5. \E u \in Workers : pc[u] \in Up BY <2>1, <2>4, NoneIdleIsUp
  <2> QED BY <1>3, <2>5 DEF NoteIsSeen
<1> QED BY <1>0, <1>2, <1>5, <1>6, <1>7, <1>8, NotifySlowSync

\* notify(), and a spawn of warm(), by the owner.
LEMMA NotifyMainSees ==
    ASSUME IInv, SInv, Running, Notify(Main)
    PROVE  Seen'
<1> USE ThreadsAre, MainAssumption
<1>0. /\ Typed /\ PcTyped /\ SyncTyped
      /\ Open /\ SleepersAreKnown /\ NoteIsSeen /\ SharedIsSeen /\ OverflowIsSeen
  BY DEF IInv, Typed, SInv, Seen
<1>1. /\ UNCHANGED <<threads, run_queue>> /\ Quiet /\ loc[Main].ret = "main"
      /\ \A w \in Workers : \/ pc'[w] = pc[w]
                            \/ pc[w] = "parked" /\ pc'[w] = "event"
                            \/ pc[w] = "unborn" /\ pc'[w] = "register"
  BY NotifyShape
<1>2. CASE NotifySlow(Main)
  <2>1. /\ pc[Main] = "n_slow" /\ UNCHANGED event
        /\ \A w \in Workers : pc'[w] = pc[w] /\ loc'[w] = loc[w]
    <3>1. \E l : Goto(Main, l) BY Zenon, <1>2 DEF NotifySlow
    <3>2. KeepsBut(Main, {"is_waking"}) BY <1>0, <1>2, NotifySlowLocals
    <3> QED BY <1>0, <1>2, <3>1, <3>2 DEF NotifySlow, Goto, PcTyped, KeepsBut
  <2>2. sync'.notified
    BY <1>0, <1>2, RunningIsEarly, NotifySlowSync
  <2>3. SharedIsSeen' /\ OverflowIsSeen' BY <2>2 DEF SharedIsSeen, OverflowIsSeen
  <2>4. SleepersAreKnown'
    <3>1. \A x \in Threads : pc[x] = "n_futex" => pc'[x] = "n_futex"
      BY <2>1 DEF Threads
    <3> QED BY <1>0, <2>1, <3>1 DEF SleepersAreKnown
  <2>5. Open' BY <1>0, <2>1 DEF Open
  <2> QED BY <1>2, <2>3, <2>4, <2>5, NotifySlowMainSees DEF Seen
<1>3. CASE NotifyFast(Main) \/ SpawnFailed(Main)
  <2>1. /\ UNCHANGED <<event, loc>> /\ sync'.notified = sync.notified
        /\ pc[Main] \in {"n_fast", "n_spawn"} /\ \A w \in Workers : pc'[w] = pc[w]
        /\ pc[Main] = "n_fast" => sync.notified \/ pc'[Main] = "n_slow"
        /\ pc[Main] = "n_spawn" => SpawnFails
    BY <1>0, <1>3 DEF NotifyFast, SpawnFailed, Goto, PcTyped, SyncTyped
  <2>2. (SharedIsSeen /\ OverflowIsSeen)'
    BY <1>0, <1>1, <2>1, MainLooks
  <2>3. SleepersAreKnown'
    <3>1. \A x \in Threads : pc[x] = "n_futex" => pc'[x] = "n_futex"
      BY <2>1 DEF Threads
    <3> QED BY <1>0, <2>1, <3>1 DEF SleepersAreKnown
  <2>4. NoteIsSeen' BY <1>0, <2>1 DEF NoteIsSeen
  <2>5. Open' BY <1>0, <2>1 DEF Open
  <2> QED BY <2>2, <2>3, <2>4, <2>5 DEF Seen
<1>4. CASE NotifyEvent(Main)
  <2>1. /\ event' = "NOTIFIED" /\ UNCHANGED <<loc, sync>>
        /\ pc[Main] = "n_event" /\ \A w \in Workers : pc'[w] = pc[w]
        /\ event = "WAITING" => pc'[Main] = "n_futex"
    BY <1>0, <1>4 DEF NotifyEvent, Goto, PcTyped
  <2>2. (SharedIsSeen /\ OverflowIsSeen)'
    BY <1>0, <1>1, <2>1, MainLooks
  <2>3. \A x \in Threads : pc[x] = "n_futex" => x \in Workers /\ pc'[x] = "n_futex"
    BY <2>1 DEF Threads
  <2>4. SleepersAreKnown'
    BY <1>0, <2>1, <2>3 DEF SleepersAreKnown
  <2>5. NoteIsSeen'
    <3>1. ASSUME NEW u \in Workers, pc[u] \in Asleep
          PROVE  \/ \E w \in Workers : pc[w] \in Up
                 \/ \E w \in Workers : pc[w] \in {"event", "futex"}
                 \/ pc'[Main] = "n_futex" /\ pc[u] = "parked"
      <4>1. CASE pc[u] # "parked" BY <3>1, <4>1 DEF Asleep
      <4>2. CASE pc[u] = "parked" /\ event # "WAITING"
        BY <1>0, <2>3, <4>2 DEF SleepersAreKnown, Up, Busy, NotifyLabels
      <4> QED BY <2>1, <4>1, <4>2
    <3> QED BY <1>0, <2>1, <3>1 DEF NoteIsSeen
  <2>6. Open' BY <2>1 DEF Open
  <2> QED BY <2>2, <2>4, <2>5, <2>6 DEF Seen
<1>5. CASE NotifyFutex(Main)
  <2>1. /\ UNCHANGED <<event, sync>> /\ pc[Main] = "n_futex"
    BY <1>5 DEF NotifyFutex
  <2>2. (SharedIsSeen /\ OverflowIsSeen)'
    BY <1>0, <1>1, <2>1, MainLooks
  <2>3. Open' BY <1>0, <2>1 DEF Open
  <2>4. CASE Parked = {} /\ Goto(Main, loc[Main].ret) /\ UNCHANGED loc
    <3>1. \A w \in Workers : pc'[w] = pc[w] /\ pc[w] # "parked"
      BY <1>0, <2>4 DEF Parked, Goto, PcTyped
    <3>2. SleepersAreKnown' BY <3>1 DEF SleepersAreKnown
    <3>3. NoteIsSeen' BY <1>0, <2>1, <3>1 DEF NoteIsSeen
    <3> QED BY <2>2, <2>3, <3>2, <3>3 DEF Seen
  <2>5. ASSUME NEW p \in Parked, pc' = [pc EXCEPT ![Main] = loc[Main].ret, ![p] = "event"], Awaken({p})
        PROVE  Seen'
    <3>1. p \in Workers /\ pc[p] = "parked" /\ pc'[p] = "event" BY <1>0, <2>5 DEF Parked, PcTyped
    <3>2. loc'[p].acquire = "WAITING" BY <1>0, <2>5, <3>1, AwakenLocals
    <3>3. SleepersAreKnown' BY <3>1, <3>2 DEF SleepersAreKnown
    <3>4. \A w \in Workers \ {p} : pc'[w] = pc[w] BY <1>0, <2>5 DEF PcTyped
    <3>5. pc[p] \notin Up BY <3>1 DEF Up, Seeking, Busy, NotifyLabels
    <3>6. NoteIsSeen'
      BY <1>0, <2>1, <3>1, <3>4, <3>5 DEF NoteIsSeen
    <3> QED BY <2>2, <2>3, <3>3, <3>6 DEF Seen
  <2> QED BY <1>5, <2>4, <2>5 DEF NotifyFutex
<1>6. CASE Spawn(Main)
  <2>1. UNCHANGED <<event, loc, sync>> /\ pc[Main] = "n_spawn" BY <1>6 DEF Spawn
  <2>2. PICK n \in Workers : /\ pc[n] = "unborn"
                             /\ pc' = [pc EXCEPT ![Main] = loc[Main].ret, ![n] = "register"]
    BY <1>6, SpawnCreates
  <2>3. (SharedIsSeen /\ OverflowIsSeen)'
    BY <1>0, <1>1, <2>1, MainLooks
  <2>4. pc'[n] = "register" /\ \A w \in Workers \ {n} : pc'[w] = pc[w]
    BY <1>0, <2>2 DEF PcTyped
  <2>5. \A x \in Threads : pc[x] = "n_futex" => pc'[x] = "n_futex"
    BY <2>1, <2>2, <2>4 DEF Threads
  <2>6. SleepersAreKnown' BY <1>0, <2>1, <2>2, <2>4, <2>5 DEF SleepersAreKnown
  <2>7. NoteIsSeen' BY <2>4 DEF NoteIsSeen, Up
  <2>8. Open' BY <1>0, <2>1 DEF Open
  <2> QED BY <2>3, <2>6, <2>7, <2>8 DEF Seen
<1> QED BY <1>2, <1>3, <1>4, <1>5, <1>6 DEF Notify

\* The other steps of the owner: only schedule() and warm() keep the pool running.
LEMMA MainSees ==
    ASSUME IInv, SInv, \/ MainStep /\ ~Notify(Main)
                       \/ Warm \/ BeginDrop
                       \/ \E W \in SUBSET {threads[i] : i \in DOMAIN threads} : PushIdle(W)
                       \/ \E batch \in SUBSET Tasks : Schedule(Main, batch)
    PROVE  Seen'
<1> USE ThreadsAre, MainAssumption
<1>0. /\ Typed /\ PcTyped /\ SyncTyped
      /\ Open /\ SleepersAreKnown /\ NoteIsSeen /\ SharedIsSeen /\ OverflowIsSeen
  BY DEF IInv, Typed, SInv, Seen
<1>1. CASE \/ MainStep /\ ~Notify(Main)
           \/ BeginDrop
           \/ \E W \in SUBSET {threads[i] : i \in DOMAIN threads} : PushIdle(W)
  <2>1. pc'[Main] \in Dropping
    <3>1. ASSUME NEW l \in Dropping, Goto(Main, l) PROVE pc'[Main] \in Dropping
      BY <1>0, <3>1 DEF Goto, PcTyped
    <3>2. CASE WakeForIdleFutex \/ ShutdownFutex
      BY <3>2 DEF WakeForIdleFutex, ShutdownFutex, FutexAll, Dropping
    <3>3. CASE ~(WakeForIdleFutex \/ ShutdownFutex)
      <4>1. \E l \in Dropping : Goto(Main, l)
        BY Zenon, <1>1, <3>3 DEF MainStep, BeginDrop, PushIdle, WakeForIdleEvents, ShutdownEvent,
           WakeAll, Shutdown, Join, JoinWait, JoinChain, Dropping
      <4> QED BY <3>1, <4>1
    <3> QED BY <3>2, <3>3
  <2>2. ~Running' BY <2>1 DEF Running, Dropping, NotifyLabels
  <2> QED BY <2>2, NotRunning
<1>2. CASE Warm \/ \E batch \in SUBSET Tasks : Schedule(Main, batch)
  <2>1. /\ pc[Main] = "main" /\ UNCHANGED event /\ sync'.notified = sync.notified
        /\ pc'[Main] \in {"n_spawn", "n_fast"} /\ \A w \in Workers : pc'[w] = pc[w]
    BY <1>0, <1>2 DEF Warm, Schedule, Goto, PcTyped, SyncTyped
  <2>2. Running BY <2>1 DEF Running
  <2>3. \A w \in Workers : loc'[w] = loc[w]
    BY <1>0, <1>2, RetLocals DEF Warm, Schedule, KeepsBut
  <2>4. SleepersAreKnown'
    <3>1. \A x \in Threads : pc[x] = "n_futex" => pc'[x] = "n_futex"
      BY <2>1 DEF Threads
    <3> QED BY <1>0, <2>1, <2>2, <2>3, <3>1 DEF SleepersAreKnown
  <2>5. NoteIsSeen' BY <1>0, <2>1, <2>2 DEF NoteIsSeen
  <2>6. Open' BY <1>0, <2>1, <2>2 DEF Open
  <2>7. (SharedIsSeen /\ OverflowIsSeen)'
    <3>1. CASE \E batch \in SUBSET Tasks : Schedule(Main, batch)
      <4>1. pc'[Main] = "n_fast" BY <1>0, <3>1 DEF Schedule, Goto, PcTyped
      <4> QED BY <4>1 DEF SharedIsSeen, OverflowIsSeen
    <3>2. CASE Warm
      <4>1. UNCHANGED <<threads, run_queue>> BY <3>2 DEF Warm, queues
      <4>2. Quiet BY <1>2, MainShape
      <4> QED BY <1>0, <2>1, <2>2, <4>1, <4>2, MainLooks
    <3> QED BY <1>2, <3>1, <3>2
  <2> QED BY <2>4, <2>5, <2>6, <2>7 DEF Seen
<1> QED BY <1>1, <1>2

LEMMA SInvStep == ASSUME IInv, SInv, Next PROVE SInv'
<1> USE ThreadsAre, MainAssumption
<1>0. Typed /\ PcTyped BY DEF IInv, Typed
<1>1. (Consumed /\ Born)' BY ConsumedStep, BornStep DEF SInv
<1>2. ASSUME NEW w \in Workers, WorkerStep(w) \/ EventTimeout(w)
                                \/ (\E t \in Tasks : ScheduleInside(w, t))
                                \/ (\E batch \in SUBSET Tasks : Schedule(w, batch))
      PROVE  Seen'
  <2>1. CASE Running
    <3>1. CASE WaitShutdown(w) \/ Unregister(w) \/ UnregisterNotify(w) \/ UnregisterWait(w)
      BY <2>1, <3>1, RunningIsEarly
      DEF WaitShutdown, Unregister, UnregisterNotify, UnregisterWait, Leaving
    <3> QED BY <1>2, <2>1, <3>1, NotifyWorkerSees, SleepSees, WorkerSees DEF WorkerStep
  <2>2. CASE ~Running
    <3>1. pc'[Main] = pc[Main]
      <4>1. CASE Notify(w) BY <4>1, NotifyShape
      <4>2. CASE UnregisterWait(w) BY <1>0, <4>2 DEF UnregisterWait, Goto, PcTyped
      <4> QED BY <1>2, <4>1, <4>2, WorkerAlone DEF WorkerStep, Alone
    <3> QED BY <2>2, <3>1, NotRunning DEF Running
  <2> QED BY <2>1, <2>2
<1>3. CASE Notify(Main)
  <2>1. Running BY <1>3, NotifyShape DEF Running
  <2> QED BY <1>1, <1>3, <2>1, NotifyMainSees DEF SInv
<1>4. ASSUME NEW x \in Threads, NEW batch \in SUBSET Tasks, Schedule(x, batch) PROVE Seen'
  BY <1>2, <1>4, MainSees DEF Threads
<1>5. Seen'
  BY <1>2, <1>3, <1>4, NotifyMainSees, MainSees, NotifyShape DEF Next, MainStep, Request, Running
<1> QED BY <1>1, <1>5 DEF SInv

LEMMA InitSInv == ASSUME Init PROVE SInv
<1> USE ThreadsAre, MainAssumption DEF Init
<1>1. Consumed BY DEF Consumed, Queues
<1>2. Born BY DEF Born, Queues
<1>3. Seen
  BY DEF Seen, Open, SleepersAreKnown, NoteIsSeen, SharedIsSeen, OverflowIsSeen, Queues
<1> QED BY <1>1, <1>2, <1>3 DEF SInv

LEMMA StutterSInv == ASSUME SInv, UNCHANGED vars PROVE SInv'
<1> SUFFICES ASSUME UNCHANGED <<sync, event, threads, run_queue, consuming, pc, loc>>
             PROVE  SInv'
  BY DEF vars, queues
<1>1. Consumed' BY ConsumedFrame DEF SInv
<1>2. Born' BY BornFrame DEF SInv
<1>3. (Open /\ SleepersAreKnown /\ NoteIsSeen /\ SharedIsSeen)'
  BY DEF SInv, Seen, Open, SleepersAreKnown, NoteIsSeen, SharedIsSeen, Running
<1>4. OverflowIsSeen'
  BY LooksFrame, OverflowFrame DEF SInv, Seen, Running
<1> QED BY <1>1, <1>2, <1>3, <1>4 DEF SInv, Seen

\* While the owner is dropping the pool, no task is anywhere.
LEMMA DroppedIsEmpty ==
    ASSUME IInv, ~Running
    PROVE  /\ \A q \in Threads : run_queue[q] = {}
           /\ \A w \in Workers : run_buffer[w] = {}
<1>1. pc[Main] \in Dropping BY DEF IInv, InPlace, MainOK, MainLabels, Running
<1>2. Outstanding = {}
  BY <1>1, OutstandingIsFinite DEF IInv, Phase, CountIsExact
<1>3. ASSUME NEW t \in Tasks, NEW k \in {"queue", "buffer"}, NEW x \in Threads, At(t, k, x)
      PROVE  FALSE
  <2>1. ~At(t, "fresh", Main) /\ ~At(t, "ran", Main)
    BY <1>3, OnlyPlace, ThreadsAre DEF IInv, Kinds
  <2> QED BY <1>2, <2>1 DEF At, Outstanding
<1>4. ASSUME NEW q \in Threads, NEW t \in run_queue[q] PROVE FALSE
  <2>1. t \in Tasks /\ At(t, "queue", q) BY <1>4 DEF IInv, Typed, TasksTyped, At
  <2> QED BY <1>3, <2>1
<1>5. ASSUME NEW w \in Workers, NEW t \in run_buffer[w] PROVE FALSE
  <2>1. t \in Tasks /\ At(t, "buffer", w) BY <1>5 DEF IInv, Typed, TasksTyped, At
  <2> QED BY <1>3, <2>1, ThreadsAre
<1> QED BY <1>4, <1>5

\* When every worker sleeps and nobody notifies, no task waits in the pool's queue
\* or in a buffer, whatever the number of workers, and in a pool of two none waits
\* in a worker's queue either.
THEOREM ThreadPoolStrandsNoTask == Spec => []NoStrandedTask
<1>1. IInv /\ SInv => NoStrandedTask
  <2>1. SUFFICES ASSUME IInv, SInv, Unattended
                 PROVE  /\ run_queue[Main] = {} /\ \A w \in Workers : run_buffer[w] = {}
                        /\ max_threads <= 2 => \A w \in Workers : run_queue[w] = {}
    BY DEF NoStrandedTask
  <2>2. CASE ~Running BY <2>1, <2>2, DroppedIsEmpty, ThreadsAre
  <2>3. CASE Running
    <3>1. \A x \in Threads : pc[x] \notin NotifyLabels
      BY <2>1 DEF Unattended, Notifying, NotifyLabels
    <3>2. \A w \in Workers : pc[w] \notin Seeking \cup Busy
      BY <2>1, <3>1, ThreadsAre DEF Unattended, Alert, Seeking, Busy
    <3>3. ~sync.notified
      <4>1. SUFFICES ASSUME sync.notified PROVE FALSE
        OBVIOUS
      <4>2. \A w \in Workers : pc[w] \notin Up
        BY <2>1, <3>2, <4>1 DEF Unattended, Alert, Up
      <4>3. event = "NOTIFIED" => \A w \in Workers : pc[w] \notin {"event", "futex"}
        BY <2>1, <4>1 DEF Unattended, Alert
      <4>4. (\A w \in Workers : pc[w] = "unborn") /\ SpawnFails
        BY <2>1, <2>3, <3>1, <4>1, <4>2, <4>3, ThreadsAre DEF SInv, Seen, NoteIsSeen, NotifyLabels
      <4>5. Present = {} /\ Spawning = {}
        BY <3>1, <4>4 DEF Present, Spawning, NotifyLabels
      <4>6. sync.spawned = 0
        BY <2>1, <4>5, CountsAre, FS_EmptySet DEF IInv, SpawnedOK
      <4> QED BY <2>1, <4>4, <4>6 DEF Unattended
    <3>4. run_queue[Main] = {}
      BY <2>1, <2>3, <3>1, <3>2, <3>3, ThreadsAre
      DEF SInv, Seen, SharedIsSeen, NotifyLabels, Ahead, Seeking
    <3>5. \A w \in Workers : run_buffer[w] = {}
      BY <2>1, <3>2 DEF IInv, InPlace, WorkerOK, Seeking
    <3>6. \A u, v \in Workers : ~Looks(u, v)
      BY <3>2 DEF Looks, Covers, Afresh, Seeking
    <3>7. max_threads <= 2 => \A w \in Workers : run_queue[w] = {}
      BY <2>1, <2>3, <3>1, <3>3, <3>6, ThreadsAre DEF SInv, Seen, OverflowIsSeen, NotifyLabels
    <3> QED BY <3>4, <3>5, <3>7
  <2> QED BY <2>2, <2>3
<1>2. Init => SInv
  BY InitSInv
<1>3. IInv /\ SInv /\ [Next]_vars => SInv'
  BY SInvStep, StutterSInv
<1> QED BY <1>1, <1>2, <1>3, ThreadPoolInvariant, PTL DEF Spec

=============================================================================
