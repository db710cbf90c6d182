------------------------- MODULE ExecutionPipeline -------------------------
(***************************************************************************)
(* verify_submission.py execute: the stages that judge a prepared          *)
(* submission, and the writes by which the mechanical report follows them. *)
(* The verifier edits the report in memory (mem) and replaces the file     *)
(* (report) at each stage; it can die between any two steps, and a file of *)
(* the trusted tools can change or turn unreadable while it runs.          *)
(*                                                                         *)
(* A variant before an operator is a slip that PROJECT.json's "mutants"    *)
(* put in its place; nothing else uses it.                                 *)
(***************************************************************************)
EXTENDS Integers, Sequences, MechanicalReport, KernelVerdicts

CONSTANT Trouble    \* what may go wrong, of {"crash", "disk", "changed", "unreadable"}

ASSUME TroubleAssumption ==
    Trouble \subseteq {"crash", "disk", "changed", "unreadable"}

\* report["stage"], in order.  The first two are set without a write.
Stages == << "setup", "source-requirements", "candidate-setup", "setup",
             "confinement-initial", "source-requirements",
             "comparator-preflight", "module-resolution",
             "dependency-provenance", "trusted-cache", "trusted-roots",
             "canonical-challenge", "challenge-provenance",
             "confinement-final", "candidate-configuration",
             "challenge-export", "solution-build", "solution-export",
             "comparator", "con-ron", "complete" >>

Unwritten == 1 .. 2                 \* stages entered without guarded_write
ToolsFrom == 5                      \* the stages whose writes check the snapshot
ConRon == 20
Complete == 21

\* Failures in these stages are Palomar's whatever the error says.
PALOMAR_OWNED_STAGES ==
    {"setup", "confinement-initial", "confinement-final", "trusted-cache",
     "trusted-roots", "comparator-preflight", "challenge-export",
     "resource-exhausted"}

\* Stages that run nothing under the supervisor once the snapshot exists.
Unconfined == {"dependency-provenance", "challenge-provenance"}

VARIABLES
    report,     \* the report file
    mem,        \* the verifier's copy
    at,         \* index of the stage in mem
    pc,         \* where execute stands
    tools,      \* the tool files as the snapshot check would find them
    judge,      \* the tools that judge, once they passed the preflight
    open,       \* what the submission may be, for all that the stages that judge
                \* have found: the choice among Proofs, made no sooner than it shows
    merit       \* history: whether the proof is sound, once it passed or a stage
                \* that judges rejected it

bench == <<judge, open, merit>>
pipeline == <<report, mem, at, pc, tools, bench>>

PCs == {"idle", "phase", "progress", "verdict", "accepted", "dated",
        "exhausted", "explained", "failing", "returned", "crashed"}

TypeOK ==
    /\ report \in Reports
    /\ mem \in Reports
    /\ at \in 0 .. Complete
    /\ pc \in PCs
    /\ tools \in {"intact", "changed", "unreadable"}
    /\ judge \in Judges
    /\ open \subseteq Proofs
    /\ merit \in {"unknown", "sound", "flawed"}

-----------------------------------------------------------------------------
Stage == Stages[at]
Busy == pc \notin {"idle", "returned", "crashed"}

\* tools is assigned late in the second "setup" stage.
Snapshotted == at >= ToolsFrom

SnapshotHolds == Snapshotted => tools = "intact"

\* verify_tool_snapshot around the stage's sandboxed_run.
PhaseSeesTools == Stage \notin Unconfined => SnapshotHolds

\* An error raised by a check of a stage, as its class would describe it; a tool
\* missing when execute sets itself up is an error of the default owner's.
RaisedAt(i) ==
    {[cause |-> "rejection", owner |-> "submitter"],
     [cause |-> "refusal",   owner |-> "palomar"],
     [cause |-> "telemetry", owner |-> "provider"]}
    \cup IF i = 2 THEN {[cause |-> "setup", owner |-> "submitter"]} ELSE {}

ToolError == [cause |-> "tool", owner |-> "submitter"]

InternalError == [cause |-> "internal", owner |-> "palomar"]

\* report_diagnostic without an explicit owner.
Attributed(owner, stage) ==
    IF owner = "submitter" /\ stage \in PALOMAR_OWNED_STAGES
    THEN "palomar" ELSE owner

CaughtByErrorOwner(r, e) ==
    Recorded(r, IF e.owner = "submitter" THEN "fail" ELSE "error",
             e.cause, Attributed(e.owner, Stage))

\* The handler of every exception but exhaustion, up to its guarded_write.
Caught(r, e) ==
    Recorded(r, IF Attributed(e.owner, Stage) = "submitter"
                THEN "fail" ELSE "error",
             e.cause, Attributed(e.owner, Stage))

\* Before the preflight, nothing is known of the tools.
Untried == [statements |-> FALSE, axioms |-> FALSE, lean |-> FALSE,
            spoken |-> FALSE, conRon |-> "blind"]

Preflight == 7

Merit(p) == IF p \in SoundProofs THEN "sound" ELSE "flawed"

\* What the stage can say of a submission.
Rulings(p) == {Verdict(Stage, judge, p, luck) : luck \in Lucks}

\* stop(): a verdict keeps its error's status; only a missing declaration names
\* its owner, so that challenge-export does not take it over.
Stopped(r, code) ==
    IF code \in SubmitterVerdicts
    THEN Recorded(r, "fail", IF code = "export_failed" THEN code ELSE "rejection",
                  IF code = "declaration_missing" THEN "submitter"
                  ELSE Attributed("submitter", Stage))
    ELSE Recorded(r, "error", "refusal", "palomar")

GuardedBlindly(r) == r

\* guarded_write's check: a snapshot that fails turns any status into an error
\* of Palomar's.
Guarded(r) ==
    IF SnapshotHolds THEN r
    ELSE Recorded(r, "error", "tool", "palomar")

\* Where guarded_write is called from inside the try, and from its handlers.
TryWrites == {"progress", "verdict", "accepted", "dated"}
HandlerWrites == {"exhausted", "explained", "failing"}

AfterWriteOnce(call) ==
    CASE call = "progress"  -> "phase"
      [] call = "accepted"  -> "dated"
      [] OTHER              -> "returned"

AfterWriteDatesAgain(call) ==
    CASE call = "progress"  -> "phase"
      [] call = "accepted"  -> "dated"
      [] call = "dated"     -> "accepted"
      [] call = "exhausted" -> "explained"
      [] OTHER              -> "returned"

\* What follows each call: another stage, the second write of a pass or of an
\* exhaustion, or the return.
AfterWrite(call) ==
    CASE call = "progress"  -> "phase"
      [] call = "accepted"  -> "dated"
      [] call = "exhausted" -> "explained"
      [] OTHER              -> "returned"

-----------------------------------------------------------------------------
\* Until the first write the report still says pending; in memory it is an
\* error with nothing to say.
Begin ==
    /\ pc = "idle"
    /\ IF report.status # "pending"
       THEN pc' = "returned" /\ UNCHANGED <<mem, at>>
       ELSE /\ mem' = [report EXCEPT !.status = "error"]
            /\ at' = 1
            /\ pc' = "phase"
    /\ UNCHANGED <<report, tools, bench>>

StagePasses ==
    /\ pc = "phase" /\ at < ConRon
    /\ PhaseSeesTools
    /\ IF at = Preflight THEN judge' \in {j \in Judges : PreflightAccepts(j)}
       ELSE UNCHANGED judge
    /\ open' = IF Stage \in JudgedStages THEN {p \in open : "none" \in Rulings(p)} ELSE open
    /\ at' = at + 1
    /\ pc' = IF at' \in Unwritten THEN "phase" ELSE "progress"
    /\ UNCHANGED <<report, mem, tools, merit>>

\* con-ron accepts, or declines what the mandatory kernels already accepted.
\* Out of time it declines too, then without a second look at the tools.
ConRonReplayed ==
    /\ pc = "phase" /\ at = ConRon
    /\ \E p \in open : "none" \in Rulings(p) /\ merit' = Merit(p)
    /\ at' = Complete
    /\ mem' = [mem EXCEPT !.status = "pass"]
    /\ pc' = "accepted"
    /\ UNCHANGED <<report, tools, judge, open>>

\* A stage that judges finds against the submission, or against Palomar, and
\* returns; so does the audit of the Challenge's imports.
StageStops ==
    /\ pc = "phase"
    /\ PhaseSeesTools
    /\ \/ Stage \in JudgedStages /\ \E p \in open : \E code \in Rulings(p) \ {"none"} :
            /\ mem' = Stopped(mem, code)
            /\ merit' = IF code \in SubmitterVerdicts THEN Merit(p) ELSE merit
       \/ /\ Stage = "challenge-provenance"
          /\ mem' = Recorded(mem, "fail", "rejection", Attributed("submitter", Stage))
          /\ UNCHANGED merit
    /\ pc' = "verdict"
    /\ UNCHANGED <<report, at, tools, judge, open>>

\* A check of the stage raises.
StageRaises ==
    /\ pc = "phase"
    /\ \E e \in RaisedAt(at) \cup {InternalError} : mem' = Caught(mem, e)
    /\ pc' = "failing"
    /\ UNCHANGED <<report, at, tools, bench>>

\* The snapshot check around a confined phase raises, with the submitter as the
\* error's default owner.
StageMissesTool ==
    /\ pc = "phase"
    /\ ~ PhaseSeesTools
    /\ mem' = Caught(mem, ToolError)
    /\ pc' = "failing"
    /\ UNCHANGED <<report, at, tools, bench>>

\* A time or resource limit ends a stage; con-ron would have declined.
StageExhausts ==
    /\ pc = "phase" /\ at >= 2 /\ at < ConRon
    /\ mem' = [mem EXCEPT !.status = "error"]
    /\ pc' = "exhausted"
    /\ UNCHANGED <<report, at, tools, bench>>

\* guarded_write, and what the verifier does to its copy before the next call:
\* an exhausted report is written first without, then with, its explanation.
Writes ==
    /\ pc \in TryWrites \cup HandlerWrites
    /\ report' = Guarded(mem)
    /\ mem' = IF pc = "exhausted"
              THEN Recorded(report', "error", "exhaustion", "provider")
              ELSE report'
    /\ pc' = AfterWrite(pc)
    /\ UNCHANGED <<at, tools, bench>>

\* The file cannot be replaced: an exception like any other inside the try, the
\* end of the process inside a handler.
WriteFails ==
    /\ "disk" \in Trouble
    /\ \/ /\ pc \in TryWrites
          /\ mem' = Caught(Guarded(mem), InternalError)
          /\ pc' = "failing"
       \/ /\ pc \in HandlerWrites
          /\ mem' = Guarded(mem)
          /\ pc' = "crashed"
    /\ UNCHANGED <<report, at, tools, bench>>

\* The process is killed, or dies where no handler reaches.
Dies ==
    /\ "crash" \in Trouble
    /\ Busy
    /\ pc' = "crashed"
    /\ UNCHANGED <<report, mem, at, tools, bench>>

\* Something on the host rewrites a tool, or a read of one fails for a while.
ToolChanges ==
    /\ Busy /\ Snapshotted
    /\ \/ tools # "changed" /\ "changed" \in Trouble /\ tools' = "changed"
       \/ tools = "intact" /\ "unreadable" \in Trouble /\ tools' = "unreadable"
       \/ tools = "unreadable" /\ tools' = "intact"
    /\ UNCHANGED <<report, mem, at, pc, bench>>

\* One step of the verifier while execute runs, and of what surrounds it.
Verifier ==
    \/ Begin \/ StagePasses \/ ConRonReplayed
    \/ StageStops \/ StageRaises \/ StageMissesTool \/ StageExhausts
    \/ Writes \/ WriteFails

Host == Dies \/ ToolChanges

-----------------------------------------------------------------------------
(* Properties                                                              *)

\* A report on disk fails a submission only if a check outside the stages that
\* are Palomar's rejected it: running out of time, a kill, an I/O error or a
\* changed tool never becomes a rejection.  (A tool that is missing when execute
\* sets itself up, or was unreadable for a moment, does: the error's default owner
\* is the submitter.)
BlameIsRejection ==
    report.status = "fail" =>
        /\ \A d \in report.diagnostics : d.cause # "exhaustion"
        /\ \E d \in report.diagnostics :
             \/ /\ d.owner = "submitter"
                /\ d.cause \in PreparationFindings
                               \cup {"rejection", "export_failed", "setup", "input"}
             \/ d.cause = "tool" /\ "unreadable" \in Trouble

\* The verifier writes a pass only past the last stage and with every trusted
\* tool still what it was when it was snapshotted.
PassNeedsIntactTools ==
    [][Busy /\ report' # report /\ report'.status = "pass"
         => at = Complete /\ tools = "intact"]_pipeline

\* README.md says that Lean and NanoDa must both accept, and comparator_verdict
\* that only a run that has judged the submission and found against it is a
\* rejection: a submission that every mandatory kernel accepts is not rejected
\* because one crashed, a sandbox failed or a checker was cut short (an exporter
\* that dies on the Solution is held against it, and says so).
SoundIsNotRejected ==
    merit = "sound" /\ report.status = "fail" =>
        \E d \in report.diagnostics : d.cause = "export_failed"

\* execute never returns normally leaving a report without a verdict: only a
\* death leaves one for the finalizer to complete.
ReturnLeavesVerdict ==
    pc = "returned" => Terminal(report)

\* The test test_an_explicit_palomar_owner_rewrites_submitter_actionability says
\* of "trusted tool changed" that Palomar owns it.  guarded_write asks for that
\* owner, but report_diagnostic drops its diagnostic when the exception handler
\* has recorded the same message first, with the submitter as its owner.
ToolTroubleIsPalomars ==
    \A d \in report.diagnostics : d.cause = "tool" => d.owner = "palomar"
=============================================================================
