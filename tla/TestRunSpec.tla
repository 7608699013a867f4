---------------------------- MODULE TestRunSpec -----------------------------
(***************************************************************************)
(* What `bun test --parallel` promises about its files, whichever process  *)
(* runs them: a file is started at most once, it gets one verdict and      *)
(* keeps it, no file is started once the run has been stopped, and the run *)
(* ends only when nothing is running and nothing is left to start.         *)
(***************************************************************************)
EXTENDS Naturals, FiniteSets

CONSTANTS
    Files,     \* the test files of the run
    Parallel   \* how many of them may run at a time

VARIABLES
    outcome,   \* file -> where it is on its way to a verdict
    stopped,   \* --bail, or a worker that panicked
    over       \* "no", "finished", or "killed" with the coordinator

specVars == <<outcome, stopped, over>>

Verdicts == {"pass", "fail", "crash", "aborted"}
Outcomes == {"queued", "running"} \cup Verdicts

\* How a file may go on from each outcome; verdicts are final.
Successors(o) ==
    CASE o = "queued" -> {"queued", "running", "aborted"}
      [] o = "running" -> {"running", "pass", "fail", "crash"}
      [] OTHER -> {o}

In(o) == {f \in Files : outcome[f] = o}

Init ==
    /\ outcome = [f \in Files |-> "queued"]
    /\ stopped = FALSE
    /\ over = "no"

\* One event: a file or several move on, and the run may be stopped by it.
Step ==
    /\ over = "no" /\ UNCHANGED over
    /\ outcome' \in [Files -> Outcomes]
    /\ \A f \in Files : outcome'[f] \in Successors(outcome[f])
    /\ Cardinality(In("running")') <= Parallel
    /\ stopped' \in BOOLEAN
    /\ stopped => stopped' /\ In("queued")' = In("queued")

Finish ==
    /\ over = "no"
    /\ In("running") = {}
    /\ stopped \/ In("queued") = {}
    /\ over' = "finished"
    /\ UNCHANGED <<outcome, stopped>>

\* SIGINT, or the first worker cannot be started.
Kill == over = "no" /\ over' = "killed" /\ UNCHANGED <<outcome, stopped>>

Next == Step \/ Finish \/ Kill

Spec == Init /\ [][Next]_specVars

=============================================================================
