-------------------------- MODULE SupervisedPhase --------------------------
(***************************************************************************)
(* One confined phase of a verification: the verifier starts a babysitter  *)
(* (scripts/supervise_cgroup.py), the babysitter owns a cgroup, forks a    *)
(* launcher into it, enforces the deadline, kills what is left and writes  *)
(* a status file; the verifier (verify_submission.py) reads the status,    *)
(* removes the cgroup and classifies the phase.                            *)
(*                                                                         *)
(* Five actors interleave: the verifier, the babysitter's main loop, its   *)
(* two watcher threads, the forked launcher and the tree of processes the  *)
(* launcher starts; the kernel kills, and the clock ticks.  The verifier   *)
(* may crash, and the babysitter may be lost or told to stop by a third    *)
(* party, when Disturbances says so.                                       *)
(***************************************************************************)
EXTENDS Integers, FiniteSets

CONSTANTS
  Timeout,        \* seconds the caller asks for (`timeout` of sandboxed_run)
  Grace,          \* SUPERVISOR_DEFAULT_GRACE_SECONDS
  Margin,         \* SUPERVISOR_PARENT_MARGIN_SECONDS
  Budgets,        \* possible seconds left of the verifier-wide budget
  Lag,            \* bound: seconds the verifier, or the launch chain, takes to start
  MaxTime,        \* bound on the clock
  Disturbances    \* which of "crash", "lost" and "stop" may happen

ASSUME TimesAssumption ==
  /\ Timeout \in Nat /\ Grace \in Nat /\ Margin \in Nat
  /\ Lag \in Nat /\ MaxTime \in Nat /\ Budgets \subseteq Nat

ASSUME DisturbancesAssumption == Disturbances \subseteq {"crash", "lost", "stop"}

Never == -1       \* a clock reading that was not taken

-----------------------------------------------------------------------------
VARIABLES
  now,            \* time.monotonic(), in whole seconds
  \* the verifier
  vpc,            \* where sandboxed_run and _cgroup_supervised_run stand
  budgetEnd,      \* _EXECUTION_DEADLINE
  deadline,       \* --deadline of the babysitter
  expiry,         \* when the verifier's own run() gives up
  rc,             \* exit status of the babysitter, as run() returns it
  verdict,        \* what _cgroup_supervised_run is about to return or raise
  \* the babysitter
  bpc,            \* where its main() stands
  startedAt,      \* `started`
  termAt,         \* `term_sent_at`
  seen,           \* its local evidence
  status,         \* the status file
  \* the workload and its cgroup
  child,          \* the forked launcher, from fork to exit
  ack,            \* what the acknowledgement pipe carried
  tree,           \* TRUE while the launcher's descendants live
  doomed,         \* processes with SIGKILL pending
  dirs,           \* which of the two cgroup directories exist
  sandbox,        \* bwrap has reported its child
  oomKilled,      \* memory.events counts an OOM kill
  cause           \* history: what ended the launcher

vvars == <<vpc, budgetEnd, deadline, expiry, rc, verdict>>
bvars == <<bpc, startedAt, termAt, seen, status>>
wvars == <<child, ack, tree, doomed, dirs, sandbox, oomKilled, cause>>
vars  == <<now, vvars, bvars, wvars>>

Exits == {"none", "zero", "nonzero", "signal"}

StatusRecord ==
  [state : {"none", "started", "failed", "finished"}, exit : Exits, fired : BOOLEAN,
   ack : {"", "fail", "placed", "placed fail"}, sandbox : BOOLEAN,
   oom : BOOLEAN, left : BOOLEAN]

StatusIn(s) == [state |-> s, exit |-> "none", fired |-> FALSE, ack |-> "",
                sandbox |-> FALSE, oom |-> FALSE, left |-> FALSE]

Evidence == [exit : Exits, fired : BOOLEAN, stop : BOOLEAN, killed : BOOLEAN,
             sandbox : BOOLEAN]

NoEvidence == [exit |-> "none", fired |-> FALSE, stop |-> FALSE, killed |-> FALSE,
               sandbox |-> FALSE]

VerifierPCs == {"entered", "prepared", "waiting", "joining", "returned", "expired",
                "cleanup", "cleanupWait", "done", "dead"}
BabysitterPCs == {"none", "boot", "made", "limits", "ack", "loop", "check", "final",
                  "report", "exiting", "gone"}
ChildStates == {"none", "forked", "joined", "armed", "acked", "exec",
                "failed", "zero", "nonzero", "signal"}
Verdicts == {"none", "success", "failed", "oom", "timeout", "unavailable"}

TypeOK ==
  /\ now \in Nat
  /\ vpc \in VerifierPCs
  /\ budgetEnd \in Nat /\ deadline \in Nat /\ expiry \in Nat
  /\ rc \in Exits
  /\ verdict \in Verdicts
  /\ bpc \in BabysitterPCs
  /\ startedAt \in Nat \cup {Never} /\ termAt \in Nat \cup {Never}
  /\ seen \in Evidence
  /\ status \in StatusRecord
  /\ child \in ChildStates
  /\ ack \in {"", "fail", "placed", "placed fail"}
  /\ tree \in BOOLEAN
  /\ doomed \subseteq {"child", "tree"}
  /\ dirs \subseteq {"cgroup", "leaf"}
  /\ sandbox \in BOOLEAN /\ oomKilled \in BOOLEAN
  /\ cause \in {"none", "own", "term", "kill", "oom"}

Init ==
  /\ now = 0
  /\ vpc = "entered"
  /\ budgetEnd \in Budgets
  /\ deadline = 0 /\ expiry = 0
  /\ rc = "none"
  /\ verdict = "none"
  /\ bpc = "none"
  /\ startedAt = Never /\ termAt = Never
  /\ seen = NoEvidence
  /\ status = StatusIn("none")
  /\ child = "none" /\ ack = "" /\ tree = FALSE /\ doomed = {} /\ dirs = {}
  /\ sandbox = FALSE /\ oomKilled = FALSE /\ cause = "none"

-----------------------------------------------------------------------------
(* Helper state formulae.  Where an operator is preceded by a variant of    *)
(* itself, the variant is a plausible slip that PROJECT.json's "mutants"   *)
(* put in its place to see a property fail; nothing else uses it.          *)

Min2(a, b) == IF a <= b THEN a ELSE b

VerifierAlive   == vpc # "dead"
BabysitterAlive == bpc \notin {"none", "gone"}

\* The watcher threads and the signal handlers exist from the loop on.
Watching == bpc \in {"loop", "check", "final", "report"}

Unstarted   == {"forked", "joined", "armed", "acked"}
ChildAlive  == child \in Unstarted \cup {"exec"}
ChildInLeaf == ChildAlive /\ child # "forked"
ChildRuns   == ChildAlive /\ "child" \notin doomed

\* cgroup.events `populated`: a zombie does not count.
Populated == ChildInLeaf \/ tree

MembersOfTopOnly == {}
MembersLauncherOnly == IF ChildInLeaf THEN {"child"} ELSE {}

\* The members of the cgroup a write to cgroup.kill reaches, in the leaf.
Members == (IF ChildInLeaf THEN {"child"} ELSE {}) \cup (IF tree THEN {"tree"} ELSE {})

ExitOfUndecoded(c) == c

\* How the launcher's exit reads to waitpid.
ExitOf(c) == CASE c = "zero"                   -> "zero"
               [] c \in {"nonzero", "failed"}  -> "nonzero"
               [] c = "signal"                 -> "signal"
               [] OTHER                        -> "none"

\* cgroup.kill: every member dies, whatever it did to signal handling.
Kill ==
  /\ doomed' = doomed \cup Members
  /\ cause' = IF ChildInLeaf /\ cause = "none" THEN "kill" ELSE cause

-----------------------------------------------------------------------------
(* The verifier                                                            *)

\* _deadline_timeout: cap a request by the shared budget; below one second
\* there is no phase at all.
Remaining == budgetEnd - now

\* sandboxed_run fixes the deadline it will hand to the babysitter ...
Enter ==
  /\ vpc = "entered"
  /\ IF Remaining < 1
       THEN /\ vpc' = "done" /\ verdict' = "timeout"
            /\ UNCHANGED deadline
       ELSE /\ vpc' = "prepared" /\ deadline' = Min2(Timeout, Remaining)
            /\ UNCHANGED verdict
  /\ UNCHANGED <<now, budgetEnd, expiry, rc, bvars, wvars>>

PatienceWithoutGrace == deadline + Margin

\* The babysitter owns the deadline and the grace: the verifier waits longer.
Patience == deadline + Grace + Margin

\* ... and run() fixes the verifier's own, from what is left of the budget by
\* then, and starts the launch chain.
Launch ==
  /\ vpc = "prepared"
  /\ IF Remaining < 1
       THEN /\ vpc' = "done" /\ verdict' = "timeout"
            /\ UNCHANGED <<expiry, bpc>>
       ELSE /\ vpc' = "waiting" /\ bpc' = "boot"
            /\ expiry' = now + Min2(Patience, Remaining)
            /\ UNCHANGED verdict
  /\ UNCHANGED <<now, budgetEnd, deadline, rc, startedAt, termAt, seen, status, wvars>>

\* proc.wait() returns.
Reap ==
  /\ vpc = "waiting" /\ bpc = "gone"
  /\ vpc' = "joining"
  /\ UNCHANGED <<now, budgetEnd, deadline, expiry, rc, verdict, bvars, wvars>>

\* The output readers end once no process of the phase holds the pipes.  There
\* is no timeout on this wait.
Drain ==
  /\ vpc = "joining"
  /\ ~ChildAlive /\ ~tree
  /\ vpc' = "returned"
  /\ UNCHANGED <<now, budgetEnd, deadline, expiry, rc, verdict, bvars, wvars>>

NoLeash == {}

\* The states in which PDEATHSIG reaches the launcher.
Leash == {"armed", "acked", "exec"}

\* The death of the babysitter, whoever caused it, reaches the launcher through
\* PDEATHSIG if it has armed it by then, and never if it arms it afterwards.
BabysitterDies ==
  LET hit == child \in Leash IN
  /\ bpc' = "gone"
  /\ doomed' = IF hit THEN doomed \cup {"child"} ELSE doomed
  /\ cause' = IF hit /\ cause = "none" THEN "kill" ELSE cause

\* run() gives up: proc.kill(), proc.wait().
PatienceExpires ==
  /\ vpc = "waiting" /\ now >= expiry
  /\ vpc' = "expired"
  /\ BabysitterDies
  /\ UNCHANGED <<now, budgetEnd, deadline, expiry, rc, verdict, startedAt, termAt, seen,
                 status, child, ack, tree, dirs, sandbox, oomKilled>>

ClassifiedByExitFirst(s, oom, code) ==
  IF s.state # "finished" \/ s.ack # "placed" \/ ~s.sandbox \/ s.left THEN "unavailable"
  ELSE IF code = "zero" THEN "success"
  ELSE IF oom THEN "oom"
  ELSE IF s.fired THEN "timeout"
  ELSE "failed"

ClassifiedBlindToDeadline(s, oom, code) ==
  IF s.state # "finished" \/ s.ack # "placed" \/ ~s.sandbox \/ s.left THEN "unavailable"
  ELSE IF oom THEN "oom"
  ELSE IF code = "zero" THEN "success"
  ELSE "failed"

ClassifiedBlindToLaunch(s, oom, code) ==
  IF s.state # "finished" \/ s.left THEN "unavailable"
  ELSE IF oom THEN "oom"
  ELSE IF s.fired THEN "timeout"
  ELSE IF code = "zero" THEN "success"
  ELSE "failed"

\* supervisor_outcome and _classify_confined_result: what a status says.
Classified(s, oom, code) ==
  IF s.state # "finished" \/ s.ack # "placed" \/ ~s.sandbox \/ s.left THEN "unavailable"
  ELSE IF oom THEN "oom"
  ELSE IF s.fired THEN "timeout"
  ELSE IF code = "zero" THEN "success"
  ELSE "failed"

\* The status names a cgroup unless it is missing or reports a failed setup;
\* the counters are read again from memory.events while the cgroup exists.
ReadStatus ==
  LET known == status.state \in {"started", "finished"}
      oom   == status.oom \/ (known /\ "cgroup" \in dirs /\ oomKilled)
  IN
  /\ vpc \in {"returned", "expired"}
  /\ verdict' = IF vpc = "expired" THEN "timeout"
                ELSE Classified(status, oom, rc)
  /\ vpc' = IF known THEN "cleanup" ELSE "done"
  /\ UNCHANGED <<now, budgetEnd, deadline, expiry, rc, bvars, wvars>>

\* _cleanup_phase_cgroup writes cgroup.kill ...
CleanupKill ==
  /\ vpc = "cleanup"
  /\ vpc' = "cleanupWait"
  /\ Kill
  /\ UNCHANGED <<now, budgetEnd, deadline, expiry, rc, verdict, bvars,
                 child, ack, tree, dirs, sandbox, oomKilled>>

\* ... waits until nothing is left, or for ten seconds, and removes what the
\* kernel lets it remove.
CleanupRemove ==
  /\ vpc = "cleanupWait"
  /\ vpc' = "done"
  /\ dirs' = IF Populated THEN dirs ELSE {}
  /\ UNCHANGED <<now, budgetEnd, deadline, expiry, rc, verdict, bvars,
                 child, ack, tree, doomed, sandbox, oomKilled, cause>>

VerifierCrash ==
  /\ "crash" \in Disturbances
  /\ vpc \notin {"done", "dead"}
  /\ vpc' = "dead"
  /\ UNCHANGED <<now, budgetEnd, deadline, expiry, rc, verdict, bvars, wvars>>

-----------------------------------------------------------------------------
(* The babysitter                                                          *)

\* open_liveness proves that the verifier is there before anything is created;
\* then the babysitter leaves its parent cgroup and makes the phase's own.
OpenLiveness ==
  /\ bpc = "boot"
  /\ IF VerifierAlive
       THEN /\ bpc' = "made" /\ startedAt' = now /\ dirs' = {"cgroup"}
            /\ UNCHANGED <<rc, status>>
       ELSE /\ bpc' = "gone" /\ status' = StatusIn("failed") /\ rc' = "nonzero"
            /\ UNCHANGED <<startedAt, dirs>>
  /\ UNCHANGED <<now, vpc, budgetEnd, deadline, expiry, verdict, termAt, seen,
                 child, ack, tree, doomed, sandbox, oomKilled, cause>>

\* A SupervisorError is reported in the status file, any other exception is not.
SetupFails ==
  /\ bpc \in {"boot", "made", "limits"}
  /\ bpc' = "gone" /\ rc' = "nonzero"
  /\ status' \in {status, StatusIn("failed")}
  /\ UNCHANGED <<now, vpc, budgetEnd, deadline, expiry, verdict, startedAt, termAt, seen,
                 wvars>>

\* So that a verifier that has to abandon the phase can find the cgroup.
WriteStarted ==
  /\ bpc = "made"
  /\ bpc' = "limits" /\ status' = StatusIn("started")
  /\ UNCHANGED <<now, vvars, startedAt, termAt, seen, wvars>>

\* Apply the limits, make the leaf, fork.
Fork ==
  /\ bpc = "limits"
  /\ bpc' = "ack"
  /\ dirs' = dirs \cup {"leaf"} /\ child' = "forked"
  /\ UNCHANGED <<now, vvars, startedAt, termAt, seen, status,
                 ack, tree, doomed, sandbox, oomKilled, cause>>

\* The pipe closes when the launcher execs or dies.
ReadAck ==
  /\ bpc = "ack" /\ child \notin Unstarted
  /\ bpc' = "loop"
  /\ UNCHANGED <<now, vvars, startedAt, termAt, seen, status, wvars>>

\* waitpid(WNOHANG) opens every turn of the loop.
Reaped == IF seen.exit = "none" THEN ExitOf(child) ELSE seen.exit

DeadlineDue == ~seen.fired /\ now - startedAt >= deadline
GraceDue    == seen.fired /\ now - termAt >= Grace

\* Stopped, or out of grace: SIGKILL for the whole cgroup.
PollKill ==
  /\ bpc = "loop" /\ (seen.stop \/ GraceDue)
  /\ bpc' = "check"
  /\ seen' = [seen EXCEPT !.exit = Reaped, !.killed = TRUE]
  /\ Kill
  /\ UNCHANGED <<now, vvars, startedAt, termAt, status,
                 child, ack, tree, dirs, sandbox, oomKilled>>

\* At the deadline everything but the launcher gets SIGTERM, to obey or ignore.
PollDeadline ==
  /\ bpc = "loop" /\ ~seen.stop /\ DeadlineDue
  /\ bpc' = "check"
  /\ seen' = [seen EXCEPT !.exit = Reaped, !.fired = TRUE]
  /\ termAt' = now
  /\ UNCHANGED <<now, vvars, startedAt, status, wvars>>

PollIdle ==
  /\ bpc = "loop" /\ ~seen.stop /\ ~DeadlineDue /\ ~GraceDue
  /\ bpc' = "check"
  /\ seen' = [seen EXCEPT !.exit = Reaped]
  /\ UNCHANGED <<now, vvars, startedAt, termAt, status, wvars>>

\* The loop ends once the launcher is reaped, unless the rest of the tree is
\* still inside its grace.
Check ==
  LET gracePending == seen.fired /\ ~seen.killed /\ Populated IN
  /\ bpc = "check"
  /\ bpc' = IF seen.exit # "none" /\ ~gracePending THEN "final" ELSE "loop"
  /\ UNCHANGED <<now, vvars, startedAt, termAt, seen, status, wvars>>

\* Nothing the workload left behind survives the phase.
FinalKill ==
  /\ bpc = "final"
  /\ bpc' = "report"
  /\ Kill
  /\ UNCHANGED <<now, vvars, startedAt, termAt, seen, status,
                 child, ack, tree, dirs, sandbox, oomKilled>>

\* After the kill, and a wait of at most thirty seconds, the evidence is read
\* and the status replaced.
WriteFinished ==
  /\ bpc = "report"
  /\ bpc' = "exiting"
  /\ status' = [state |-> "finished", exit |-> seen.exit, fired |-> seen.fired, ack |-> ack,
                sandbox |-> seen.sandbox, oom |-> oomKilled, left |-> Populated]
  /\ UNCHANGED <<now, vvars, startedAt, termAt, seen, wvars>>

Exit ==
  /\ bpc = "exiting"
  /\ BabysitterDies
  /\ rc' = IF seen.exit = "zero" THEN "zero" ELSE "nonzero"
  /\ UNCHANGED <<now, vpc, budgetEnd, deadline, expiry, verdict, startedAt, termAt, seen,
                 status, child, ack, tree, dirs, sandbox, oomKilled>>

\* Someone else kills the babysitter (the host's OOM killer, say).
BabysitterLost ==
  /\ "lost" \in Disturbances /\ BabysitterAlive
  /\ BabysitterDies
  /\ rc' = "signal"
  /\ UNCHANGED <<now, vpc, budgetEnd, deadline, expiry, verdict, startedAt, termAt, seen,
                 status, child, ack, tree, dirs, sandbox, oomKilled>>

\* Someone else sends it SIGTERM or SIGINT; or the FIFO reports that its last
\* writer, the verifier, is gone.
StopRequested ==
  /\ Watching /\ ~seen.stop
  /\ "stop" \in Disturbances \/ ~VerifierAlive
  /\ seen' = [seen EXCEPT !.stop = TRUE]
  /\ UNCHANGED <<now, vvars, bpc, startedAt, termAt, status, wvars>>

\* The thread that reads bwrap's report.
WatchSandbox ==
  /\ Watching /\ sandbox /\ ~seen.sandbox
  /\ seen' = [seen EXCEPT !.sandbox = TRUE]
  /\ UNCHANGED <<now, vvars, bpc, startedAt, termAt, status, wvars>>

-----------------------------------------------------------------------------
(* The forked launcher, its tree, the kernel and the clock                 *)

\* A step of the launcher before it has become the observer.
ChildFails(word) ==
  /\ child' = "failed" /\ ack' = word
  /\ cause' = IF cause = "none" THEN "own" ELSE cause

\* Join the leaf, which may be gone again.
ChildJoin ==
  /\ child = "forked"
  /\ IF "leaf" \in dirs THEN child' = "joined" /\ UNCHANGED <<ack, cause>>
                        ELSE ChildFails("fail")
  /\ UNCHANGED <<now, vvars, bvars, tree, doomed, dirs, sandbox, oomKilled>>

\* rlimits, chdir, PR_SET_NO_NEW_PRIVS and PR_SET_PDEATHSIG.
ChildArm ==
  /\ child = "joined" /\ ChildRuns
  /\ \/ child' = "armed" /\ UNCHANGED <<ack, cause>>
     \/ ChildFails("fail")
  /\ UNCHANGED <<now, vvars, bvars, tree, doomed, dirs, sandbox, oomKilled>>

PipeAssumedOpen == TRUE

\* The babysitter holds the only read end of the acknowledgement pipe.
PipeHasReader == BabysitterAlive

\* Without a reader the write raises: no babysitter, no exec.
ChildAck ==
  /\ child = "armed" /\ ChildRuns
  /\ IF PipeHasReader THEN child' = "acked" /\ ack' = "placed" /\ UNCHANGED cause
                      ELSE ChildFails("fail")
  /\ UNCHANGED <<now, vvars, bvars, tree, doomed, dirs, sandbox, oomKilled>>

ChildExec ==
  /\ child = "acked" /\ ChildRuns
  /\ \/ child' = "exec" /\ UNCHANGED <<ack, cause>>
     \/ ChildFails("placed fail")
  /\ UNCHANGED <<now, vvars, bvars, tree, doomed, dirs, sandbox, oomKilled>>

\* bwrap reports its child and starts the candidate's command.
SandboxStarts ==
  /\ child = "exec" /\ ChildRuns /\ ~sandbox
  /\ sandbox' = TRUE /\ tree' = TRUE
  /\ UNCHANGED <<now, vvars, bvars, child, ack, doomed, dirs, oomKilled, cause>>

\* The launcher ends with the status of the command, or of a failed bwrap; what
\* the command left behind may outlive it.
LauncherExits ==
  /\ child = "exec" /\ ChildRuns
  /\ child' \in IF sandbox THEN {"zero", "nonzero"} ELSE {"nonzero"}
  /\ cause' = IF seen.fired THEN "term" ELSE "own"
  /\ UNCHANGED <<now, vvars, bvars, ack, tree, doomed, dirs, sandbox, oomKilled>>

TreeExits ==
  /\ tree /\ "tree" \notin doomed
  /\ tree' = FALSE
  /\ UNCHANGED <<now, vvars, bvars, child, ack, doomed, dirs, sandbox, oomKilled, cause>>

\* memory.oom.group: the OOM killer takes the whole cgroup.
OomKill ==
  /\ tree /\ ~oomKilled /\ Members \cap doomed = {}
  /\ oomKilled' = TRUE
  /\ doomed' = doomed \cup Members
  /\ cause' = IF ChildInLeaf /\ cause = "none" THEN "oom" ELSE cause
  /\ UNCHANGED <<now, vvars, bvars, child, ack, tree, dirs, sandbox>>

ChildKilled ==
  /\ ChildAlive /\ "child" \in doomed
  /\ child' = "signal"
  /\ doomed' = doomed \ {"child"}
  /\ UNCHANGED <<now, vvars, bvars, ack, tree, dirs, sandbox, oomKilled, cause>>

TreeKilled ==
  /\ tree /\ "tree" \in doomed
  /\ tree' = FALSE
  /\ doomed' = doomed \ {"tree"}
  /\ UNCHANGED <<now, vvars, bvars, child, ack, dirs, sandbox, oomKilled, cause>>

\* bwrap runs with --die-with-parent and its own PID namespace.
TreeLosesLauncher ==
  /\ tree /\ ~ChildAlive /\ "tree" \notin doomed
  /\ doomed' = doomed \cup {"tree"}
  /\ UNCHANGED <<now, vvars, bvars, child, ack, tree, dirs, sandbox, oomKilled, cause>>

WorkloadGone == ~ChildAlive /\ ~tree

Settled == vpc \in {"done", "dead"} /\ ~BabysitterAlive /\ WorkloadGone

\* One second passes.  Lag bounds how long the launch may take.
Tick ==
  /\ now < MaxTime /\ ~Settled
  /\ vpc \in {"entered", "prepared"} => now < Lag
  /\ bpc = "boot" => now < 2 * Lag
  /\ now' = now + 1
  /\ UNCHANGED <<vvars, bvars, wvars>>

Terminated == Settled /\ UNCHANGED vars

-----------------------------------------------------------------------------
VerifierStep ==
  \/ Enter \/ Launch \/ Reap \/ Drain \/ PatienceExpires
  \/ ReadStatus \/ CleanupKill \/ CleanupRemove

BabysitterStep ==
  \/ OpenLiveness \/ SetupFails \/ WriteStarted \/ Fork \/ ReadAck
  \/ PollKill \/ PollDeadline \/ PollIdle \/ Check
  \/ FinalKill \/ WriteFinished \/ Exit

LaunchStep == ChildJoin \/ ChildArm \/ ChildAck \/ ChildExec

KernelStep == ChildKilled \/ TreeKilled \/ TreeLosesLauncher

CandidateStep == SandboxStarts \/ LauncherExits \/ TreeExits \/ OomKill

Disturbance == VerifierCrash \/ BabysitterLost

Next ==
  \/ VerifierStep \/ BabysitterStep \/ StopRequested \/ WatchSandbox
  \/ LaunchStep \/ KernelStep \/ CandidateStep \/ Disturbance
  \/ Tick \/ Terminated

Spec == Init /\ [][Next]_vars

\* The processes are scheduled and time passes; the candidate's own processes
\* owe nothing.
FairSpec ==
  /\ Spec
  /\ WF_vars(VerifierStep) /\ WF_vars(BabysitterStep) /\ WF_vars(LaunchStep)
  /\ WF_vars(ChildKilled) /\ WF_vars(TreeKilled) /\ WF_vars(TreeLosesLauncher)
  /\ WF_vars(StopRequested /\ ~VerifierAlive)
  /\ WF_vars(Tick)

-----------------------------------------------------------------------------
(* Properties                                                              *)

\* A phase passes only if the command really ran in the sandbox to its own
\* exit 0 before the deadline, met no OOM kill and left no process behind:
\* supervisor_outcome infers none of this from the exit status alone.
SuccessIsEarned ==
  vpc = "done" /\ verdict = "success" =>
    /\ child = "zero" /\ cause = "own" /\ sandbox
    /\ ~oomKilled /\ ~seen.fired /\ ~tree

\* A phase is held against the candidate only if its command ran, and ended by
\* itself without an OOM kill or an expired deadline.  The two exceptions are
\* the code's: a babysitter told to stop, or killed after its last write.
BlameIsEarned ==
  vpc = "done" /\ verdict = "failed" =>
    /\ sandbox /\ ~oomKilled /\ ~seen.fired
    /\ (child = "nonzero" /\ cause = "own") \/ seen.stop \/ rc = "signal"

\* When the verifier has its verdict no process of the phase can go on: all are
\* dead or have SIGKILL pending, whatever was lost or killed on the way.
NothingSurvives ==
  vpc = "done" =>
    /\ child = "exec" => "child" \in doomed
    /\ tree => "tree" \in doomed

\* The launcher never runs without a babysitter: PDEATHSIG kills it once it is
\* armed, and before that a dead babysitter's pipe stops it from executing.
LauncherLeashed ==
  bpc = "gone" /\ child = "exec" => "child" \in doomed

\* The verifier kills the babysitter only after the deadline and the grace.
FullGrace ==
  [][PatienceExpires => \/ bpc = "gone"
                        \/ startedAt # Never /\ now - startedAt >= deadline + Grace]_vars

\* A launch that the evidence blames on the sandbox is one whose sandbox never
\* reported its child.
SandboxFailureIsReal ==
  status.state = "finished" /\ status.ack = "placed" /\ ~status.sandbox => ~sandbox

\* Every phase ends in a verdict, unless the verifier dies: the readers that
\* run() joins without a timeout do not wait for ever.
PhaseSettles == <>(vpc \in {"done", "dead"})

\* A verifier that dies leaves no workload running.
OrphansDie == vpc = "dead" ~> WorkloadGone

-----------------------------------------------------------------------------
(* The phase implements its contract                                       *)

Ending ==
  CASE child = "none" \/ ChildAlive                      -> "pending"
    [] child = "zero" /\ cause = "own"                   -> "ok"
    [] child = "nonzero" /\ cause = "own" /\ sandbox     -> "bad"
    [] OTHER                                             -> "cut"

Contract == INSTANCE PhaseContract WITH
  ending  <- Ending,
  meddled <- seen.stop \/ rc = "signal",
  stage   <- CASE vpc = "done" -> "settled" [] vpc = "dead" -> "abandoned" [] OTHER -> "open",
  verdict <- IF vpc = "done" THEN verdict ELSE "none"

\* Each step of the detailed phase is a step of the contract or leaves it alone:
\* the verdict is settled once and permitted by how the command really ended.
KeepsContract == Contract!Spec
=============================================================================
