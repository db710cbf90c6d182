------------------------- MODULE SubmissionWorkflow -------------------------
(***************************************************************************)
(* .github/workflows/submission.yml, job "verify": the steps that prepare, *)
(* execute, finalize, deliver and gate one mechanical report, on a runner  *)
(* that can be cancelled at any time or lost.  The execute step is         *)
(* ExecutionPipeline and what prepare reports is Preparation; the rest of  *)
(* the verifier commands are actions here.                                 *)
(*                                                                         *)
(* A variant before an operator is a slip that PROJECT.json's "mutants"    *)
(* put in its place; nothing else uses it.                                 *)
(***************************************************************************)
EXTENDS ExecutionPipeline, Preparation

CONSTANTS
    Modes,      \* dispatched modes, of {"full", "preflight", "correction"}
    Validity,   \* whether request_identity accepts the inputs: of BOOLEAN
    Subjects    \* the submissions that may be dispatched in each mode

ASSUME ModesAssumption == Modes \subseteq {"full", "preflight", "correction"}
ASSUME ValidityAssumption == Validity \subseteq BOOLEAN
ASSUME SubjectsAssumption == \A m \in Modes : \A s \in Subjects[m] : s \in Submissions

\* The steps in order; "pinned" stands for the two steps without an id.
Steps == << "pinned", "checkout", "python", "ruby", "dependencies", "prepare",
            "disk", "capacity", "elan", "toolchain", "bwrap", "execute",
            "finalize", "upload1", "wait2", "upload2", "wait3", "upload3",
            "gate" >>

StepNames == {Steps[i] : i \in 1 .. Len(Steps)}

\* What finalize and gate look at.
SETUP_STEPS == {"checkout", "python", "ruby", "dependencies", "prepare", "disk",
                "capacity", "elan", "toolchain", "bwrap", "execute", "finalize"}

\* Run only by a full verification whose preparation said ready.
FullSteps == {"disk", "capacity", "elan", "toolchain", "bwrap", "execute"}

Uploads == {"upload1", "upload2", "upload3"}

\* if: always(), with or without a further condition.
AlwaysSteps == {"finalize", "wait2", "wait3", "gate"} \cup Uploads

\* Steps that touch neither the report nor the artifact.
PlainSteps == {"pinned", "python", "ruby", "dependencies", "disk", "elan",
               "toolchain", "bwrap", "wait2", "wait3", "checkout"}

Outcomes == {"none", "running", "success", "failure", "cancelled", "skipped"}

VARIABLES
    mode, valid,    \* the dispatched inputs
    cur,            \* index of the current step
    outcome,        \* outcome of every step
    ready,          \* the output of prepare
    prepared,       \* prepare has written its report
    found,          \* history: what prepare came to, see Found
    judged,         \* history: execute returned from its last stage
    cancelled,      \* the job was cancelled, or timed out
    stored,         \* the uploaded artifact
    conclusion      \* of the job

\* What the properties and the announcement ask of the issues prepare came to:
\* whether there were any, an outage among them, more than the report holds; the
\* metadata fields at fault; and whether a handler reported them.
Findings == [clean : BOOLEAN, outage : BOOLEAN, overflow : BOOLEAN,
             wrong : SUBSET Fields, handled : BOOLEAN]

NothingFound == [clean |-> TRUE, outage |-> FALSE, overflow |-> FALSE,
                 wrong |-> {}, handled |-> FALSE]

Found(s, m) ==
    LET issues == Issues(s, m)
    IN  [clean    |-> issues = <<>>,
         outage   |-> OwnersOf(issues) \ {"submitter"} # {},
         overflow |-> Overflows(s, m),
         wrong    |-> IF s.file = "mapping" /\ CheckedInOrder(s, m) = <<>>
                      THEN WrongFields(s.document, m = "correction") ELSE {},
         handled  |-> ReportedByHandler(s, m)]

inputs == <<mode, valid>>
results == <<ready, prepared, found, judged, stored>>
job == <<inputs, cur, outcome, results, cancelled, conclusion>>
vars == <<pipeline, job>>

Typed ==
    /\ TypeOK
    /\ mode \in Modes /\ valid \in Validity
    /\ cur \in 1 .. Len(Steps) + 1
    /\ outcome \in [StepNames -> Outcomes]
    /\ ready \in {"", "true", "false"}
    /\ prepared \in BOOLEAN /\ judged \in BOOLEAN /\ cancelled \in BOOLEAN
    /\ found \in Findings
    /\ stored \in Reports
    /\ conclusion \in {"running", "green", "red", "lost"}

Init ==
    /\ mode \in Modes /\ valid \in Validity
    /\ cur = 1
    /\ outcome = [s \in StepNames |-> "none"]
    /\ ready = "" /\ prepared = FALSE /\ found = NothingFound /\ judged = FALSE /\ cancelled = FALSE
    /\ stored = NoReport /\ conclusion = "running"
    /\ report = NoReport /\ mem = NoReport
    /\ at = 0 /\ pc = "idle" /\ tools = "intact" 
    /\ judge = Untried /\ open = Proofs /\ merit = "unknown"

-----------------------------------------------------------------------------
Step == Steps[cur]
Open == conclusion = "running" /\ cur <= Len(Steps)
Running(s) == Open /\ Step = s /\ outcome[s] = "running"

Bad == {"failure", "cancelled"}
StepFailed == \E s \in SETUP_STEPS : outcome[s] \in Bad
Uploaded == \E u \in Uploads : outcome[u] = "success"

\* success(): nothing before failed, and the job goes on.  A failed upload does
\* not count, but every step after one is an always() step.
AllWell == ~ cancelled /\ \A s \in StepNames : outcome[s] \notin Bad

UploadsAgainIfAllWell(s) ==
    /\ s \notin AlwaysSteps => AllWell
    /\ s \in FullSteps => mode = "full" /\ ready = "true"
    /\ s \in {"wait2", "upload2"} => outcome["upload1"] = "failure" /\ ~ StepFailed
    /\ s \in {"wait3", "upload3"} =>
           outcome["upload1"] = "failure" /\ outcome["upload2"] = "failure"

\* The if: of a step.
Wanted(s) ==
    /\ s \notin AlwaysSteps => AllWell
    /\ s \in FullSteps => mode = "full" /\ ready = "true"
    /\ s \in {"wait2", "upload2"} => outcome["upload1"] = "failure"
    /\ s \in {"wait3", "upload3"} =>
           outcome["upload1"] = "failure" /\ outcome["upload2"] = "failure"

\* The current step ends with the outcome o.
Ends(o) ==
    /\ outcome' = [outcome EXCEPT ![Step] = o]
    /\ cur' = cur + 1
    /\ UNCHANGED <<inputs, cancelled, conclusion>>

Start ==
    /\ Open /\ outcome[Step] = "none" /\ Wanted(Step)
    /\ outcome' = [outcome EXCEPT ![Step] = "running"]
    /\ UNCHANGED <<pipeline, inputs, cur, results, cancelled, conclusion>>

Skip ==
    /\ Open /\ outcome[Step] = "none" /\ ~ Wanted(Step)
    /\ Ends("skipped")
    /\ UNCHANGED <<pipeline, results>>

\* A step whose work this model does not look into succeeds.
PlainStep ==
    /\ \E s \in PlainSteps : Running(s)
    /\ Ends("success")
    /\ UNCHANGED <<pipeline, results>>

\* Any step but execute and the two that only sleep fails, leaving behind what it
\* had already done.  An upload that fails may have stored the report all the same.
StepFails ==
    /\ Open /\ outcome[Step] = "running" /\ Step \notin {"execute", "wait2", "wait3"}
    /\ Ends("failure")
    /\ IF Step \in Uploads /\ report # NoReport
       THEN stored' \in {stored, report}
       ELSE UNCHANGED stored
    /\ UNCHANGED <<pipeline, ready, prepared, found, judged>>

\* The job is cancelled, or reaches timeout-minutes.
Cancel ==
    /\ Open /\ ~ cancelled
    /\ cancelled' = TRUE
    /\ UNCHANGED <<pipeline, inputs, cur, outcome, results, conclusion>>

\* The verifier's memory is gone, and nothing looks at its tools any more.
ProcessGone == /\ mem' = NoReport /\ at' = 0 /\ tools' = "intact"
               /\ judge' = Untried /\ open' = Proofs

\* The runner stops the step in progress; always() steps may be spared.
Interrupt ==
    /\ Open /\ cancelled /\ outcome[Step] = "running"
    /\ Ends("cancelled")
    /\ pc' = IF Step = "execute" /\ Busy THEN "crashed" ELSE pc
    /\ ProcessGone
    /\ UNCHANGED <<report, merit, results>>

\* The runner is gone, and every later step with it.
LoseRunner ==
    /\ Open
    /\ conclusion' = "lost"
    /\ UNCHANGED <<pipeline, inputs, cur, outcome, results, cancelled>>

-----------------------------------------------------------------------------
(* prepare                                                                 *)

\* prepare reads the request, then the source.  Its report replaces the file,
\* or the last handler reports that something went wrong on the way.
Prepare ==
    /\ Running("prepare") /\ ~ prepared
    /\ prepared' = TRUE
    /\ IF ~ valid THEN report' = InvalidInput /\ UNCHANGED found
       ELSE \E s \in Subjects[mode] :
              /\ found' = Found(s, mode)
              /\ \/ report' = PreparedReport(s, mode)
                 \/ report' = Recorded(PreparedReport(s, mode), "error", "internal", "palomar")
    /\ UNCHANGED <<mem, at, pc, tools, bench, inputs, cur, outcome, ready, judged, stored,
                   cancelled, conclusion>>

AnnouncedStatus(r) == r.status

\* The output that lets a full verification go on.
Announced(r) == IF r.status = "pending" THEN "true" ELSE "false"

\* workflow_output, after the report is on disk; the process can still fail.
AnnounceReady ==
    /\ Running("prepare") /\ prepared
    /\ ready' = Announced(report)
    /\ Ends("success") \/ Ends("failure")
    /\ UNCHANGED <<pipeline, prepared, found, judged, stored>>

\* Writing the output raises inside the try: the last handler replaces the
\* report and tries once more.  What a handler reported stays.
AnnounceFails ==
    /\ Running("prepare") /\ prepared
    /\ valid /\ ~ found.handled
    /\ report' = Recorded(report, "error", "internal", "palomar")
    /\ \/ ready' = "false" /\ Ends("success")
       \/ UNCHANGED ready /\ Ends("failure")
    /\ UNCHANGED <<mem, at, pc, tools, bench, prepared, found, judged, stored>>

-----------------------------------------------------------------------------
(* check-capacity, execute                                                 *)

CheckCapacity ==
    /\ Running("capacity")
    /\ \/ report.status = "pending" /\ Ends("success") /\ UNCHANGED report
       \/ /\ report.status = "pending"
          /\ report' = Recorded(report, "error", "host", "provider")
          /\ Ends("failure")
    /\ UNCHANGED <<mem, at, pc, tools, bench, results>>

ExecuteRuns ==
    /\ Running("execute")
    /\ Verifier
    /\ UNCHANGED job

\* The verifier is killed, or its tools change under it.
HostActs ==
    /\ Running("execute")
    /\ Host
    /\ UNCHANGED job

ExecuteEnds ==
    /\ Running("execute")
    /\ \/ pc = "returned" /\ Ends("success")
       \/ pc = "crashed" /\ Ends("failure")
    /\ judged' = (pc = "returned" /\ at = Complete)
    /\ ProcessGone
    /\ UNCHANGED <<report, pc, merit, ready, prepared, found, stored>>

-----------------------------------------------------------------------------
(* finalize, upload, gate: the scripts come from the checkout              *)

CheckedOut == outcome["checkout"] = "success"

\* The finalized report replaces the file, then the job summary is written.
Finalize ==
    /\ Running("finalize") /\ CheckedOut
    /\ report' = Finalized(report, valid, mode, ready, StepFailed)
    /\ Ends("success") \/ Ends("failure")
    /\ UNCHANGED <<mem, at, pc, tools, bench, results>>

Upload ==
    /\ \E u \in Uploads : Running(u)
    /\ report # NoReport
    /\ stored' = report
    /\ Ends("success")
    /\ UNCHANGED <<pipeline, ready, prepared, found, judged>>

Gate ==
    /\ Running("gate") /\ CheckedOut
    /\ GateOpens(report, mode, ready, Uploaded, StepFailed)
    /\ Ends("success")
    /\ UNCHANGED <<pipeline, results>>

\* The job is green if nothing failed but an upload (continue-on-error).
Conclude ==
    /\ conclusion = "running" /\ cur > Len(Steps)
    /\ conclusion' = IF ~ cancelled /\ \A s \in StepNames \ Uploads : outcome[s] \notin Bad
                     THEN "green" ELSE "red"
    /\ UNCHANGED <<pipeline, inputs, cur, outcome, results, cancelled>>

\* The runner works through the steps.
Progress ==
    \/ Start \/ Skip \/ PlainStep \/ StepFails
    \/ Prepare \/ AnnounceReady \/ AnnounceFails \/ CheckCapacity
    \/ ExecuteRuns \/ ExecuteEnds
    \/ Finalize \/ Upload \/ Gate \/ Conclude

Concluded == conclusion # "running" /\ UNCHANGED vars

Next == Progress \/ HostActs \/ Cancel \/ Interrupt \/ LoseRunner \/ Concluded

Spec == Init /\ [][Next]_vars

\* The runner keeps working: a step ends, or timeout-minutes ends it.
FairSpec == Spec /\ WF_vars(Progress)

-----------------------------------------------------------------------------
(* Properties                                                              *)

\* A green job has delivered the very report it was gated on, and that report
\* was earned: preparation found nothing, not even what a full report had no
\* room for, and every stage of execute passed, on a proof of the statement from
\* permitted axioms that Lean's kernel and NanoDa really accept, or a correction was validated,
\* or a preflight was prepared.
GreenMeansVerified ==
    conclusion = "green" =>
        /\ valid /\ prepared /\ found.clean
        /\ stored = report
        /\ CASE mode = "full"       -> report.status = "pass" /\ judged
                                    /\ merit = "sound"
             [] mode = "correction" -> report.status = "pass"
             [] mode = "preflight"  -> report.status = "pending" /\ ready = "true"

\* README.md says that an unavailable registry is a retryable failure of
\* Palomar's: a check that could not be made never leaves a rejection, whatever
\* else is wrong with the submission.
OutageNeverRejects == found.outage => report.status # "fail"

\* The same, as long as the report has room for every issue.
RecordedOutageNeverRejects == ~ found.overflow => OutageNeverRejects

\* README.md says that every required metadata field that is missing or invalid
\* is reported separately: one section does not hide another, no later step
\* loses one, and a field in order is not named.
FieldsAreNamed ==
    LET named == {d.field : d \in {e \in report.diagnostics : e.cause = "metadata"}}
    IN  /\ named \subseteq found.wrong
        /\ ~ found.overflow => found.wrong \cap RequiredFields \subseteq named

\* Whatever interrupts the run, a report delivered after finalization is a
\* verdict with a reason, or a prepared preflight of a run that went well.
DeliveredIsConclusive ==
    outcome["finalize"] = "success" /\ stored # NoReport =>
        \/ stored.status = "pass" /\ valid
        \/ stored.status \in {"fail", "error"} /\ stored.errors /\ stored.diagnostics # {}
        \/ /\ mode = "preflight" /\ stored.status = "pending"
           /\ ready = "true" /\ ~ StepFailed

\* Once the verifier is done with a valid submission, no later step rewrites a
\* verdict: a step that fails after it shows in the gate, not in the report.
VerdictSurvives ==
    [][valid /\ Terminal(report) /\ report' # report => cur <= Len(Steps)
       /\ Step \in {"prepare", "execute"}]_vars

\* A job that finalized its report and ran to its end has delivered it, unless
\* three uploads failed or one was interrupted; and what is stored is the
\* report the job ended with.
ReportIsDelivered ==
    conclusion \in {"green", "red"} /\ outcome["finalize"] = "success" =>
        \/ stored = report
        \/ stored = NoReport /\ \A u \in Uploads : outcome[u] = "failure"
        \/ stored = NoReport /\ \E u \in Uploads : outcome[u] = "cancelled"

\* No combination of failures, cancellation and retries keeps a job running.
JobConcludes == <>(conclusion # "running")
=============================================================================
