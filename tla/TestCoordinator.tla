-------------------------- MODULE TestCoordinator ---------------------------
(***************************************************************************)
(* The process pool of `bun test --parallel`                               *)
(* (src/src/runtime/cli/test/parallel): a coordinator that hands test      *)
(* files to worker processes over sockets, steals work from one worker's   *)
(* share for another, starts a new process for one that died, stops after  *)
(* --bail failures or when a worker panics, and ends when every process    *)
(* has been reaped.                                                        *)
(*                                                                         *)
(* Each callback of the coordinator's event loop is one action; the        *)
(* processes take their own steps in between and may die at any of them.   *)
(***************************************************************************)
EXTENDS Integers, Sequences, FiniteSets

CONSTANTS
    N,           \* the number of test files
    K,           \* the number of workers, --parallel
    Bails,       \* the values of --bail; 0 is without
    SocketSize,  \* bound: the frames that fit into a socket
    MaxFaults,   \* bound: dying processes, failing spawns, writes to fd 3
    None         \* no file, no status, no signal

\* With one worker the files run in the coordinator itself.
ASSUME SizeAssumption == K \in Nat /\ N \in Nat /\ 2 <= K /\ K <= N
ASSUME BailAssumption == Bails \subseteq Nat
ASSUME BoundAssumption == SocketSize \in Nat \ {0} /\ MaxFaults \in Nat

Files == 0..N - 1
Workers == 0..K - 1

ASSUME NoneAssumption ==
    /\ None \notin Files
    /\ None \notin {"pass", "fail", "crash", "aborted", "exit", "panic"}

VARIABLES
    \* Worker, as the coordinator sees it
    range,          \* the files reserved for it, a FileRange
    inflight,       \* the file it was given
    alive,          \* its exit has not been reported
    exit_status,    \* the reported exit, until the slot is reaped
    ipc_done,       \* Channel.done of its channel
    \* Coordinator
    bail,           \* --bail
    spawned_count, live_workers, files_done,
    fail,           \* summary().fail
    bailed,
    fragments,      \* the files covered by the aggregates received
    phase,          \* "start", "drive", "done"; "exit1", "exit130"
    \* processes and sockets
    proc,           \* the process in each slot
    up, down,       \* frames in the socket, from and to the process
    \* history
    verdict,        \* file -> what the run reports of it
    fate,           \* file -> what a process really did with it
    delivered,      \* files whose result is in a socket or was read
    owed,           \* files covered by the processes that exited cleanly
    faults          \* how many faults there have been

slots == <<range, inflight, alive, exit_status, ipc_done>>
totals == <<spawned_count, live_workers, files_done, fail, bailed>>
wires == <<up, down>>
history == <<verdict, fate, delivered, owed>>
vars == <<slots, totals, bail, fragments, phase, proc, wires, history, faults>>

-----------------------------------------------------------------------------
(* FileRange.                                                              *)

FilesOf(r) == r.lo .. r.hi - 1
IsEmpty(r) == r.lo >= r.hi

\* has_undispatched_files
Undispatched == UNION {FilesOf(range[w]) : w \in Workers}

Length(r) == r.hi - r.lo

\* find_steal_victim: the largest range, the first of several.
IsVictim(v) ==
    \A w \in Workers :
        \/ Length(range[w]) < Length(range[v])
        \/ Length(range[w]) = Length(range[v]) /\ v <= w

\* Mutant: the owner keeps what was stolen.
StolenTwice(v, w) ==
    LET mid == range[v].lo + Length(range[v]) \div 2
    IN  [range EXCEPT ![w] = [lo |-> mid, hi |-> range[v].hi]]

\* steal_back_half: v keeps [lo, mid), w gets [mid, hi).
Stolen(v, w) ==
    LET mid == range[v].lo + Length(range[v]) \div 2
    IN  [range EXCEPT ![v].hi = mid,
                      ![w] = [lo |-> mid, hi |-> range[v].hi]]

-----------------------------------------------------------------------------
(* Processes and frames.                                                   *)

NoProcess == [at |-> "none", pending |-> None, file |-> None, done |-> FALSE,
              ran |-> {}, out |-> <<>>, status |-> None, signal |-> None]
\* What Worker::start() spawns; alive and live_workers are set where it is called.
NewProcess == [NoProcess EXCEPT !.at = "boot"]

Running == {w \in Workers : proc[w].at \notin {"none", "gone"}}

\* A write to a channel that is done is dropped, and one to a socket whose
\* other end is gone reaches nobody.
CanHear(w) == ~ipc_done[w] /\ w \in Running

Send(dn, w, frame) ==
    IF CanHear(w) THEN [dn EXCEPT ![w] = Append(@, frame)] ELSE dn

RunFrame(f) == [kind |-> "Run", file |-> f]
ShutdownFrame == [kind |-> "Shutdown", file |-> None]

Init ==
    /\ range = [w \in Workers |-> [lo |-> (w * N) \div K,
                                   hi |-> ((w + 1) * N) \div K]]
    /\ inflight = [w \in Workers |-> None]
    /\ alive = [w \in Workers |-> FALSE]
    /\ exit_status = [w \in Workers |-> None]
    /\ ipc_done = [w \in Workers |-> FALSE]
    /\ bail \in Bails
    /\ spawned_count = 0 /\ live_workers = 0 /\ files_done = 0 /\ fail = 0
    /\ bailed = FALSE
    /\ fragments = {}
    /\ phase = "start"
    /\ proc = [w \in Workers |-> NoProcess]
    /\ up = [w \in Workers |-> <<>>]
    /\ down = [w \in Workers |-> <<>>]
    /\ verdict = [f \in Files |-> None]
    /\ fate = [f \in Files |-> "unrun"]
    /\ delivered = {} /\ owed = {}
    /\ faults = 0

Fault == faults < MaxFaults /\ faults' = faults + 1

-----------------------------------------------------------------------------
(* The processes.                                                          *)

\* A frame of process w joins the backlog unless the socket has room, and
\* the coordinator throws away what comes after it gave up on the channel.
Emit(w, p, frame) ==
    IF p.out = <<>> /\ Len(up[w]) < SocketSize
    THEN /\ up' = [up EXCEPT ![w] = IF ipc_done[w] THEN @ ELSE Append(@, frame)]
         /\ proc' = [proc EXCEPT ![w] = p]
    ELSE /\ proc' = [proc EXCEPT ![w] = [p EXCEPT !.out = Append(@, frame)]]
         /\ UNCHANGED up

\* Nobody has written past the frames into the socket.
Intact(w) == ~ipc_done[w] /\ \A i \in DOMAIN up[w] : up[w][i].kind # "Garbage"

\* Does a frame that w writes now go into the socket, to be read in the end?
Delivers(w, out) == out = <<>> /\ Len(up[w]) < SocketSize /\ Intact(w)

\* WorkerLoop::begin: the channel is up.
Boot(w) ==
    /\ proc[w].at = "boot"
    /\ Emit(w, [proc[w] EXCEPT !.at = "idle"], [kind |-> "Ready"])
    /\ UNCHANGED <<slots, totals, bail, fragments, phase, down, history, faults>>

\* WorkerCommands::on_channel_frame; the loop also turns while a file runs.
Receive(w) ==
    /\ proc[w].at \in {"idle", "run"}
    /\ down[w] # <<>>
    /\ proc' = [proc EXCEPT
         ![w] = IF Head(down[w]).kind = "Run"
                THEN [@ EXCEPT !.pending = Head(down[w]).file]
                ELSE [@ EXCEPT !.done = TRUE]]
    /\ down' = [down EXCEPT ![w] = Tail(@)]
    /\ UNCHANGED <<slots, totals, bail, fragments, phase, up, history, faults>>

\* FileStart and, while the file runs, TestDone: only the output follows them.
StartFile(w) ==
    LET f == proc[w].pending IN
    /\ proc[w].at = "idle" /\ f # None
    /\ fate' = [fate EXCEPT ![f] = IF @ = "unrun" THEN "started" ELSE "twice"]
    /\ Emit(w, [proc[w] EXCEPT !.at = "run", !.pending = None, !.file = f],
            [kind |-> "FileStart"])
    /\ UNCHANGED <<slots, totals, bail, fragments, phase, down, verdict,
                   delivered, owed, faults>>

FinishFile(w) ==
    LET f == proc[w].file IN
    /\ proc[w].at = "run"
    /\ \E failed \in BOOLEAN :
         /\ fate' = [fate EXCEPT ![f] = IF @ # "started" THEN "twice"
                                        ELSE IF failed THEN "fail" ELSE "pass"]
         /\ Emit(w, [proc[w] EXCEPT !.at = "idle", !.file = None,
                                     !.ran = @ \cup {f}],
                 [kind |-> "FileDone", file |-> f, failed |-> failed])
    /\ delivered' = IF Delivers(w, proc[w].out) THEN delivered \cup {f}
                    ELSE delivered
    /\ UNCHANGED <<slots, totals, bail, fragments, phase, down, verdict, owed,
                   faults>>

\* The socket is writable again.
FlushOut(w) ==
    LET frame == Head(proc[w].out) IN
    /\ proc[w].at \in {"idle", "run", "flush"}
    /\ proc[w].out # <<>> /\ Len(up[w]) < SocketSize
    /\ up' = [up EXCEPT ![w] = IF ipc_done[w] THEN @ ELSE Append(@, frame)]
    /\ proc' = [proc EXCEPT ![w].out = Tail(@)]
    /\ delivered' = IF frame.kind = "FileDone" /\ Intact(w)
                    THEN delivered \cup {frame.file} ELSE delivered
    /\ UNCHANGED <<slots, totals, bail, fragments, phase, down, verdict, fate,
                   owed, faults>>

\* worker_flush_aggregates: RepeatBufs, JunitFile, CoverageFile, which may be
\* more than a socket takes: what is written at once is the first FlushOut.
FlushAggregates(w) ==
    /\ proc[w].at = "idle" /\ proc[w].done /\ proc[w].pending = None
    /\ proc' = [proc EXCEPT
         ![w].at = "flush",
         ![w].out = Append(@, [kind |-> "Aggregates", files |-> proc[w].ran])]
    /\ UNCHANGED <<slots, totals, bail, fragments, phase, wires, history, faults>>

\* Mutant: the process does not wait for its backlog to drain.
DrainedEarly(w) == TRUE

Drained(w) == proc[w].out = <<>>

\* The process ends; its backlog is lost, the socket's content is not.
Gone(w, status) ==
    /\ proc' = [proc EXCEPT ![w] = [NoProcess EXCEPT !.at = "gone",
                                                     !.status = status]]
    /\ down' = [down EXCEPT ![w] = <<>>]
    /\ UNCHANGED <<slots, totals, bail, fragments, phase, up, verdict, fate,
                   delivered>>

ExitClean(w) ==
    /\ proc[w].at = "flush" /\ Drained(w)
    /\ Gone(w, "exit")
    /\ owed' = IF Intact(w) THEN owed \cup proc[w].ran ELSE owed
    /\ UNCHANGED faults

\* process.exit() in a test, the OOM killer; or a fatal signal.
Die(w) ==
    /\ w \in Running
    /\ Fault
    /\ \E status \in {"exit", "panic"} : Gone(w, status)
    /\ UNCHANGED owed

\* The signal the coordinator has sent takes effect.
Killed(w) ==
    /\ w \in Running /\ proc[w].signal # None
    /\ Gone(w, "exit")
    /\ UNCHANGED <<owed, faults>>

\* A test writes to file descriptor 3.
WriteGarbage(w) ==
    /\ proc[w].at = "run" /\ Intact(w) /\ Len(up[w]) < SocketSize
    /\ Fault
    /\ up' = [up EXCEPT ![w] = Append(@, [kind |-> "Garbage"])]
    /\ UNCHANGED <<slots, totals, bail, fragments, phase, proc, down, history>>

-----------------------------------------------------------------------------
(* Giving out work.                                                        *)

\* Worker::dispatch
Dispatch(w, f, infl, dn) ==
    /\ inflight' = [infl EXCEPT ![w] = f]
    /\ down' = Send(dn, w, RunFrame(f))

\* Mutant: a worker is given the next file although the run was stopped.
StoppedTooLate(stop) == Undispatched = {}

\* There is nothing to give out.
NoMoreWork(stop) == stop \/ Undispatched = {}

\* assign_work: the next file of w's own range, or of the half range it
\* steals, or a Shutdown.  stop, infl and dn are the values of bailed,
\* inflight and down that the handler has arrived at.
AssignWork(w, stop, infl, dn) ==
    \/ /\ NoMoreWork(stop)
       /\ down' = Send(dn, w, ShutdownFrame)
       /\ inflight' = infl
       /\ UNCHANGED range
    \/ /\ ~NoMoreWork(stop) /\ ~IsEmpty(range[w])
       /\ Dispatch(w, range[w].lo, infl, dn)
       /\ range' = [range EXCEPT ![w].lo = @ + 1]
    \/ /\ ~NoMoreWork(stop) /\ IsEmpty(range[w])
       /\ \E v \in Workers :
             LET stolen == Stolen(v, w) IN
             /\ IsVictim(v)
             /\ Dispatch(w, stolen[w].lo, infl, dn)
             /\ range' = [stolen EXCEPT ![w].lo = @ + 1]

\* bail_out: `down` with a Shutdown for each idle worker.
ShutdownIdle(infl, dead) ==
    [v \in Workers |->
        IF /\ v < spawned_count /\ v # dead
           /\ alive[v] /\ infl[v] = None /\ CanHear(v)
        THEN Append(down[v], ShutdownFrame) ELSE down[v]]

\* Do `fails` failures make the run bail out now?
BailsAt(fails) == bail > 0 /\ fails >= bail /\ ~bailed

-----------------------------------------------------------------------------
(* Frames: Channel::ingest and on_frame.  They are handled in order, and   *)
(* whether or not the exit of the process has been reported.               *)

Frame(w, kind) ==
    /\ ~ipc_done[w] /\ up[w] # <<>> /\ Head(up[w]).kind = kind
    /\ up' = [up EXCEPT ![w] = Tail(@)]

OnReady(w) ==
    /\ Frame(w, "Ready")
    /\ AssignWork(w, bailed, inflight, down)
    /\ UNCHANGED <<alive, exit_status, ipc_done, totals, bail, fragments, phase,
                   proc, history, faults>>

OnFileStart(w) ==
    /\ Frame(w, "FileStart")
    /\ UNCHANGED <<slots, totals, bail, fragments, phase, proc, down, history,
                   faults>>

\* A result that is not the one awaited is ignored; otherwise the file is
\* done, the run may bail out, and a worker that lives gets more work.
OnFileDone(w) ==
    LET frame == Head(up[w])
        fails == fail + (IF frame.failed THEN 1 ELSE 0)
        infl == [inflight EXCEPT ![w] = None]
        dn == IF BailsAt(fails) THEN ShutdownIdle(infl, None) ELSE down
    IN
    /\ Frame(w, "FileDone")
    /\ IF inflight[w] # frame.file
       THEN UNCHANGED <<slots, totals, down, verdict>>
       ELSE /\ verdict' = [verdict EXCEPT ![frame.file] =
                               IF frame.failed THEN "fail" ELSE "pass"]
            /\ files_done' = files_done + 1
            /\ fail' = fails
            /\ bailed' = (bailed \/ BailsAt(fails))
            /\ IF alive[w]
               THEN AssignWork(w, bailed \/ BailsAt(fails), infl, dn)
               ELSE inflight' = infl /\ down' = dn /\ UNCHANGED range
            /\ UNCHANGED <<alive, exit_status, ipc_done, spawned_count,
                           live_workers>>
    /\ UNCHANGED <<bail, fragments, phase, proc, fate, delivered, owed, faults>>

OnAggregates(w) ==
    /\ Frame(w, "Aggregates")
    /\ fragments' = fragments \cup Head(up[w]).files
    /\ UNCHANGED <<slots, totals, bail, phase, proc, down, history, faults>>

-----------------------------------------------------------------------------
(* reap_worker.                                                            *)

\* Mutant: the count of live workers is left to the exit notification.
LiveAfterReapStale(respawned) == live_workers

LiveAfterReap(respawned) == live_workers - 1 + (IF respawned THEN 1 ELSE 0)

\* Mutant: the files of the last worker are not given up.
LastOneGoneUnseen(stop, respawned) == FALSE

\* Is this the end of the last worker, with nobody to replace it?
LastOneGone(stop, respawned) ==
    ~stop /\ ~respawned /\ LiveAfterReap(respawned) = 0

\* Mutant: the file of the dead worker is still in flight.
InflightKept(w) == inflight

InflightAfterReap(w) == [inflight EXCEPT ![w] = None]

\* The slot of w is torn down.  A file in flight is charged to the crash,
\* which may be the failure to bail out at (account_crash) and stops the run
\* if the process panicked (abort_on_worker_panic, which terminates the other
\* processes and gives the queue up).  If files are left and the run goes on,
\* a new process takes the slot; if it cannot be started and nobody is left,
\* the queue is given up as well (abort_queued_files).
Reap(w, status) ==
    LET crashed == inflight[w] # None
        fails == fail + (IF crashed THEN 1 ELSE 0)
        bails == crashed /\ BailsAt(fails)
        panics == crashed /\ status = "panic"
        stop == bailed \/ bails \/ panics
    IN
    \E respawned \in BOOLEAN :
       LET aborted == IF \/ panics /\ ~bailed /\ ~bails
                         \/ LastOneGone(stop, respawned)
                      THEN Undispatched ELSE {}
           wants == ~stop /\ Undispatched # {}
       IN
       /\ respawned => wants
       /\ IF wants /\ ~respawned THEN Fault ELSE UNCHANGED faults
       /\ verdict' = [f \in Files |->
                         CASE f = inflight[w] -> "crash"
                           [] f \in aborted -> "aborted"
                           [] OTHER -> verdict[f]]
       /\ files_done' = files_done + Cardinality(aborted)
                                   + (IF crashed THEN 1 ELSE 0)
       /\ fail' = fails + Cardinality(aborted)
       /\ bailed' = stop
       /\ inflight' = InflightAfterReap(w)
       /\ range' = IF aborted = {} THEN range
                   ELSE [v \in Workers |-> [range[v] EXCEPT !.lo = range[v].hi]]
       /\ live_workers' = LiveAfterReap(respawned)
       /\ alive' = [alive EXCEPT ![w] = respawned]
       /\ exit_status' = [exit_status EXCEPT ![w] = None]
       /\ ipc_done' = [ipc_done EXCEPT ![w] = FALSE]
       /\ up' = [up EXCEPT ![w] = <<>>]
       /\ down' = [(IF bails THEN ShutdownIdle(inflight, w) ELSE down)
                      EXCEPT ![w] = <<>>]
       /\ proc' = [v \in Workers |->
                      IF v = w
                      THEN IF respawned THEN NewProcess ELSE NoProcess
                      ELSE IF /\ panics /\ alive[v] /\ v \in Running
                              /\ proc[v].signal = None
                      THEN [proc[v] EXCEPT !.signal = "SIGTERM"] ELSE proc[v]]
       /\ UNCHANGED <<spawned_count, bail, fragments, phase, fate, delivered,
                      owed>>

\* Mutant: the slot is reaped as soon as the exit is reported.
ReapsAtExit(status, done) == status # None

\* try_reap
Reapable(status, done) == status # None /\ done

\* on_process_exit, on_worker_exit
OnProcessExit(w) ==
    /\ alive[w] /\ proc[w].at = "gone"
    /\ IF Reapable(proc[w].status, ipc_done[w])
       THEN Reap(w, proc[w].status)
       ELSE /\ alive' = [alive EXCEPT ![w] = FALSE]
            /\ exit_status' = [exit_status EXCEPT ![w] = proc[w].status]
            /\ UNCHANGED <<range, inflight, ipc_done, totals, bail, fragments,
                           phase, proc, wires, history, faults>>

\* raw_on_close: the process is gone and all of its frames have been read.
OnChannelClose(w) ==
    /\ ~ipc_done[w] /\ proc[w].at = "gone" /\ up[w] = <<>>
    /\ IF Reapable(exit_status[w], TRUE)
       THEN Reap(w, exit_status[w])
       ELSE /\ ipc_done' = [ipc_done EXCEPT ![w] = TRUE]
            /\ UNCHANGED <<range, inflight, alive, exit_status, totals, bail,
                           fragments, phase, proc, wires, history, faults>>

\* A corrupt frame: the channel is given up and its process killed.
OnGarbage(w) ==
    /\ ~ipc_done[w] /\ up[w] # <<>> /\ Head(up[w]).kind = "Garbage"
    /\ IF Reapable(exit_status[w], TRUE)
       THEN Reap(w, exit_status[w])
       ELSE /\ ipc_done' = [ipc_done EXCEPT ![w] = TRUE]
            /\ up' = [up EXCEPT ![w] = <<>>]
            /\ proc' = IF w \in Running
                       THEN [proc EXCEPT ![w].signal = "SIGKILL"] ELSE proc
            /\ UNCHANGED <<range, inflight, alive, exit_status, totals, bail,
                           fragments, phase, down, history, faults>>

-----------------------------------------------------------------------------
(* drive.                                                                  *)

\* spawn_worker for the slots below n that are not spawned yet.
SpawnUpTo(n) ==
    LET new == spawned_count .. n - 1 IN
    /\ spawned_count' = n
    /\ live_workers' = live_workers + Cardinality(new)
    /\ alive' = [w \in Workers |-> w \in new \/ alive[w]]
    /\ proc' = [w \in Workers |-> IF w \in new THEN NewProcess ELSE proc[w]]
    /\ UNCHANGED <<range, inflight, exit_status, ipc_done, files_done, fail,
                   bailed, bail, fragments, wires, history>>

\* The first worker; if it cannot be started the coordinator exits.
Start ==
    /\ phase = "start"
    /\ \/ SpawnUpTo(1) /\ phase' = "drive" /\ UNCHANGED faults
       \/ SpawnUpTo(0) /\ phase' = "exit1" /\ Fault

\* maybe_scale_up: every living worker has been busy for some time.
ScaleUp ==
    LET want == IF K < N - files_done THEN K ELSE N - files_done IN
    /\ spawned_count < want /\ ~bailed /\ Undispatched # {}
    /\ \A w \in Workers : w < spawned_count /\ alive[w] => inflight[w] # None
    /\ \E n \in spawned_count..want :
         /\ SpawnUpTo(n)
         /\ IF n < want THEN Fault ELSE UNCHANGED faults
         /\ phase' = IF n < want /\ live_workers' = 0 THEN "exit1" ELSE phase

IsDone == (files_done >= N \/ bailed) /\ live_workers = 0

Finish ==
    /\ IsDone
    /\ phase' = "done"
    /\ UNCHANGED <<slots, totals, bail, fragments, proc, wires, history, faults>>

\* SIGINT or SIGTERM: the workers are terminated and the coordinator exits.
AbortAll ==
    /\ phase' = "exit130"
    /\ UNCHANGED <<slots, totals, bail, fragments, proc, wires, history, faults>>

-----------------------------------------------------------------------------

ProcessStep(w) ==
    \/ Boot(w) \/ Receive(w) \/ StartFile(w) \/ FinishFile(w) \/ FlushOut(w)
    \/ FlushAggregates(w) \/ ExitClean(w)

Callback(w) ==
    \/ OnReady(w) \/ OnFileStart(w) \/ OnFileDone(w) \/ OnAggregates(w)
    \/ OnGarbage(w) \/ OnProcessExit(w) \/ OnChannelClose(w)

Next ==
    \/ Start
    \/ /\ phase = "drive"
       /\ \/ ScaleUp \/ Finish \/ AbortAll
          \/ \E w \in Workers : \/ ProcessStep(w) \/ Callback(w)
                                \/ Die(w) \/ Killed(w) \/ WriteGarbage(w)

Spec == Init /\ [][Next]_vars

Driving(A) == phase = "drive" /\ A

\* Every process gets to run, and a test file ends (the runner's timeouts see
\* to that); the loop handles every event; SIGKILL is not ignored.
FairSpec ==
    /\ Spec
    /\ WF_vars(Start) /\ WF_vars(Driving(Finish))
    /\ \A w \in Workers :
         /\ WF_vars(Driving(ProcessStep(w)))
         /\ WF_vars(Driving(Callback(w)))
         /\ WF_vars(Driving(proc[w].signal = "SIGKILL" /\ Killed(w)))

-----------------------------------------------------------------------------
(* Properties.                                                             *)

UpFrames ==
    [kind : {"Ready", "FileStart", "Garbage"}]
        \cup [kind : {"FileDone"}, file : Files, failed : BOOLEAN]
        \cup [kind : {"Aggregates"}, files : SUBSET Files]
DownFrames == {RunFrame(f) : f \in Files} \cup {ShutdownFrame}

TypeOK ==
    /\ range \in [Workers -> [lo : 0..N, hi : 0..N]]
    /\ inflight \in [Workers -> Files \cup {None}]
    /\ alive \in [Workers -> BOOLEAN]
    /\ exit_status \in [Workers -> {None, "exit", "panic"}]
    /\ ipc_done \in [Workers -> BOOLEAN]
    /\ bail \in Bails /\ bailed \in BOOLEAN
    /\ spawned_count \in 0..K /\ live_workers \in 0..K
    /\ files_done \in 0..N /\ fail \in 0..N
    /\ fragments \subseteq Files /\ owed \subseteq Files
    /\ delivered \subseteq Files
    /\ phase \in {"start", "drive", "done", "exit1", "exit130"}
    /\ proc \in [Workers -> [
         at : {"none", "boot", "idle", "run", "flush", "gone"},
         pending : Files \cup {None}, file : Files \cup {None},
         done : BOOLEAN, ran : SUBSET Files, out : Seq(UpFrames),
         status : {None, "exit", "panic"},
         signal : {None, "SIGTERM", "SIGKILL"}]]
    /\ up \in [Workers -> Seq(UpFrames)]
    /\ down \in [Workers -> Seq(DownFrames)]
    /\ verdict \in [Files -> {None, "pass", "fail", "crash", "aborted"}]
    /\ fate \in [Files -> {"unrun", "started", "pass", "fail", "twice"}]
    /\ faults \in 0..MaxFaults

\* Every file is in exactly one place: in the range of one worker, in flight
\* with one worker, or done with a verdict; and files_done, by which drive()
\* decides whether to go on, is the number of those.
InRange(w, f) == range[w].lo <= f /\ f < range[w].hi
OnePlacePerFile ==
    /\ \A f \in Files : \A v, w \in Workers :
         v # w => ~(InRange(v, f) /\ InRange(w, f))
    /\ \A v, w \in Workers : v # w /\ inflight[v] # None
                                => inflight[v] # inflight[w]
    /\ \A v, w \in Workers : inflight[v] # None => ~InRange(w, inflight[v])
    /\ \A f \in Files :
         verdict[f] = None <=> \E w \in Workers : InRange(w, f) \/ inflight[w] = f
    /\ files_done = Cardinality({f \in Files : verdict[f] # None})

\* live_workers counts the processes that exist, unreaped ones included, so
\* drive() neither leaves a process behind nor waits for one that is gone.
LiveWorkersIsExact ==
    live_workers = Cardinality({w \in Workers : proc[w].at # "none"})

\* The files that process w has been given and has not reported: commands on
\* the way, the pending slot, the file it runs, results on the way.
Tokens(w) ==
    LET InFrames(q, kind) == {i \in DOMAIN q : q[i].kind = kind}
    IN  {<<"down", down[w][i].file, i>> : i \in InFrames(down[w], "Run")}
        \cup {<<"pending", f, 0>> : f \in {proc[w].pending} \ {None}}
        \cup {<<"file", f, 0>> : f \in {proc[w].file} \ {None}}
        \cup {<<"out", proc[w].out[i].file, i>> :
                 i \in InFrames(proc[w].out, "FileDone")}
        \cup {<<"up", up[w][i].file, i>> : i \in InFrames(up[w], "FileDone")}

\* The coordinator and a worker agree on the file the worker has: a worker in
\* whose slot nothing is in flight has no file, and one with a file in flight
\* has that one, once.  So the single pending slot is never overwritten, and
\* no FileDone is ever met that is not awaited.
InflightAgrees ==
    \A w \in Workers :
        /\ \A t \in Tokens(w) : t[2] = inflight[w]
        /\ Cardinality(Tokens(w)) <= 1
        /\ CanHear(w) /\ Intact(w) /\ inflight[w] # None => Tokens(w) # {}

\* No file is run twice, a reported result is the one the file had, and a
\* file is charged to a crash only if its result did not make it into the
\* socket: what a process wrote before it died counts.
ResultsAreTrue ==
    \A f \in Files :
        /\ fate[f] # "twice"
        /\ verdict[f] \in {"pass", "fail"} => fate[f] = verdict[f]
        /\ verdict[f] = "crash" => f \notin delivered
        /\ verdict[f] = "aborted" => fate[f] = "unrun"

\* The merged report: when the run is done, the fragments of all processes
\* that exited by themselves have arrived, and no file is in a fragment and
\* among the crashed files as well, for which the report has suites of its own.
ReportIsMerged ==
    /\ phase = "done" => owed \subseteq fragments
    /\ \A f \in fragments : verdict[f] \notin {"crash", "aborted"}

\* The run ends, whatever dies: nobody waits for a process that is gone, a
\* file nobody will run, or a worker that waits for the coordinator.
Terminates == <>(phase \notin {"start", "drive"})

\* The pool keeps the promise of TestRunSpec.
Outcome(f) ==
    CASE verdict[f] # None -> verdict[f]
      [] \E w \in Workers : inflight[w] = f -> "running"
      [] OTHER -> "queued"

TestRun == INSTANCE TestRunSpec WITH
    Parallel <- K,
    outcome <- [f \in Files |-> Outcome(f)],
    stopped <- bailed,
    over <- CASE phase \in {"start", "drive"} -> "no"
              [] phase = "done" -> "finished"
              [] OTHER -> "killed"

ImplementsTestRun == TestRun!Spec

=============================================================================
