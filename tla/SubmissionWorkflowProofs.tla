---------------------- MODULE SubmissionWorkflowProofs ----------------------
(***************************************************************************)
(* What SubmissionWorkflow promises for every set of dispatched modes and  *)
(* submissions, every cap of the report and everything that may go wrong.  *)
(*                                                                         *)
(* The invariant has four parts: where the job stands (Ordered), what it   *)
(* knows of the submission (Known) and of the run of execute (Executed),   *)
(* what it has stored (Sent) and what the gate saw (Gated).                *)
(***************************************************************************)
EXTENDS SubmissionWorkflow, ExecutionPipelineProofs, PreparationProofs

-----------------------------------------------------------------------------
(* The steps                                                               *)

LEMMA StepCount == Len(Steps) = 19
  BY DEF Steps

LEMMA StepsAre ==
  ASSUME cur \in 1 .. 19
  PROVE  /\ Step = "prepare"  <=> cur = 6
         /\ Step = "capacity" <=> cur = 8
         /\ Step = "execute"  <=> cur = 12
         /\ Step = "finalize" <=> cur = 13
         /\ Step = "upload1"  <=> cur = 14
         /\ Step = "upload2"  <=> cur = 16
         /\ Step = "upload3"  <=> cur = 18
         /\ Step = "gate"     <=> cur = 19
         /\ Step \in Uploads  <=> cur \in {14, 16, 18}
         /\ Step \in PlainSteps => cur \notin {6, 8, 12, 13, 14, 16, 18, 19}
         /\ Step \in StepNames
  <1> USE DEF Step, Steps
  <1>1. /\ Step = "prepare"  <=> cur = 6
        /\ Step = "capacity" <=> cur = 8
        /\ Step = "execute"  <=> cur = 12
        /\ Step = "finalize" <=> cur = 13
        /\ Step = "upload1"  <=> cur = 14
        /\ Step = "upload2"  <=> cur = 16
        /\ Step = "upload3"  <=> cur = 18
        /\ Step = "gate"     <=> cur = 19
    OBVIOUS
  <1>2. Step \in StepNames
    BY StepCount DEF StepNames
  <1> HIDE DEF Step, Steps
  <1>3. Step \in Uploads  <=> cur \in {14, 16, 18}
    BY <1>1 DEF Uploads
  <1>4. Step \in PlainSteps => cur \notin {6, 8, 12, 13, 14, 16, 18, 19}
    BY <1>1 DEF PlainSteps
  <1> QED
    BY <1>1, <1>2, <1>3, <1>4

LEMMA StepsNamed ==
  {"prepare", "capacity", "execute", "finalize", "upload1", "upload2", "upload3", "gate"}
    \subseteq StepNames
  <1>1. /\ Steps[6] = "prepare" /\ Steps[8] = "capacity" /\ Steps[12] = "execute"
        /\ Steps[13] = "finalize" /\ Steps[14] = "upload1" /\ Steps[16] = "upload2"
        /\ Steps[18] = "upload3" /\ Steps[19] = "gate"
    BY DEF Steps
  <1> QED
    BY <1>1, StepCount DEF StepNames

-----------------------------------------------------------------------------
(* Where the job stands                                                    *)

Past == {"success", "failure", "cancelled", "skipped"}

\* The steps behind have an outcome, those ahead have none.
Place(s, k) ==
    /\ cur < k => outcome[s] = "none"
    /\ cur = k => outcome[s] \in {"none", "running"}
    /\ cur > k => outcome[s] \in Past

Ordered ==
    /\ cur \in 1 .. 20 /\ outcome \in [StepNames -> Outcomes]
    /\ Place("prepare", 6) /\ Place("capacity", 8) /\ Place("execute", 12)
    /\ Place("finalize", 13) /\ Place("upload1", 14) /\ Place("upload2", 16)
    /\ Place("upload3", 18) /\ Place("gate", 19)

\* What becomes of the steps that matter when the one at hand gets the outcome o.
Assigned(o) ==
    /\ outcome' = [outcome EXCEPT ![Step] = o]
    /\ outcome'["prepare"]  = IF cur = 6  THEN o ELSE outcome["prepare"]
    /\ outcome'["capacity"] = IF cur = 8  THEN o ELSE outcome["capacity"]
    /\ outcome'["execute"]  = IF cur = 12 THEN o ELSE outcome["execute"]
    /\ outcome'["finalize"] = IF cur = 13 THEN o ELSE outcome["finalize"]
    /\ outcome'["upload1"]  = IF cur = 14 THEN o ELSE outcome["upload1"]
    /\ outcome'["upload2"]  = IF cur = 16 THEN o ELSE outcome["upload2"]
    /\ outcome'["upload3"]  = IF cur = 18 THEN o ELSE outcome["upload3"]
    /\ outcome'["gate"]     = IF cur = 19 THEN o ELSE outcome["gate"]

LEMMA OpenIs ==
  ASSUME Ordered, Open
  PROVE  cur \in 1 .. 19
  BY StepCount DEF Ordered, Open

LEMMA AssignedIs ==
  ASSUME Ordered, cur \in 1 .. 19, NEW o, outcome' = [outcome EXCEPT ![Step] = o]
  PROVE  Assigned(o)
  <1>1. \A s \in StepNames : outcome'[s] = IF s = Step THEN o ELSE outcome[s]
    BY DEF Ordered
  <1> QED
    BY <1>1, StepsAre, StepsNamed DEF Assigned

LEMMA EndsKeepsOrder ==
  ASSUME Ordered, Open, NEW o \in Past, Ends(o)
  PROVE  Ordered' /\ Assigned(o) /\ cur' = cur + 1 /\ cur \in 1 .. 19
  <1>1. cur \in 1 .. 19 /\ cur' = cur + 1
    BY OpenIs DEF Ends
  <1>2. Assigned(o)
    BY <1>1, AssignedIs DEF Ends
  <1>3. outcome' \in [StepNames -> Outcomes]
    BY <1>1, StepsAre DEF Ends, Ordered, Past, Outcomes
  <1>4. /\ Place("prepare", 6)' /\ Place("capacity", 8)' /\ Place("execute", 12)'
        /\ Place("finalize", 13)' /\ Place("upload1", 14)' /\ Place("upload2", 16)'
        /\ Place("upload3", 18)' /\ Place("gate", 19)'
    BY <1>1, <1>2 DEF Ordered, Place, Assigned
  <1> QED
    BY <1>1, <1>2, <1>3, <1>4 DEF Ordered

LEMMA StartKeepsOrder ==
  ASSUME Ordered, Start
  PROVE  Ordered' /\ Assigned("running") /\ cur' = cur /\ cur \in 1 .. 19
  <1>1. cur \in 1 .. 19 /\ cur' = cur
    BY OpenIs DEF Start
  <1>2. Assigned("running")
    BY <1>1, AssignedIs DEF Start
  <1>3. outcome' \in [StepNames -> Outcomes]
    BY <1>1, StepsAre DEF Start, Ordered, Outcomes
  <1>4. /\ Place("prepare", 6)' /\ Place("capacity", 8)' /\ Place("execute", 12)'
        /\ Place("finalize", 13)' /\ Place("upload1", 14)' /\ Place("upload2", 16)'
        /\ Place("upload3", 18)' /\ Place("gate", 19)'
    BY <1>1, <1>2 DEF Ordered, Place, Assigned
  <1> QED
    BY <1>1, <1>2, <1>3, <1>4 DEF Ordered

\* A step ends, starts, or the job stays where it is.
LEMMA MovesAre ==
  ASSUME Ordered, [Next]_vars
  PROVE  \/ \E o \in Past : Open /\ Ends(o)
         \/ Start
         \/ UNCHANGED <<cur, outcome>>
  BY DEF Next, Progress, Skip, PlainStep, StepFails, Prepare, AnnounceReady, AnnounceFails,
         CheckCapacity, ExecuteRuns, ExecuteEnds, Finalize, Upload, Gate, Conclude, HostActs,
         Cancel, Interrupt, LoseRunner, Concluded, Running, Past, vars, job

LEMMA NextKeepsOrder ==
  ASSUME Ordered, [Next]_vars
  PROVE  Ordered'
  <1>1. CASE UNCHANGED <<cur, outcome>>
    BY <1>1 DEF Ordered, Place
  <1> QED
    BY <1>1, MovesAre, EndsKeepsOrder, StartKeepsOrder

-----------------------------------------------------------------------------
(* What the job knows of the submission                                    *)

\* Preparation ran on valid inputs and found nothing.
Clean == valid /\ prepared /\ found.clean

Known ==
    /\ IsReport(report)
    /\ cur <= 6 => ready # "true"
    /\ ready = "true" => Clean
    /\ report.status \in {"pending", "pass"} => Clean
    /\ report.status = "pending" => report.diagnostics = {}
    /\ mode = "preflight" => report.status # "pass"

LEMMA NoReportIs == IsReport(NoReport) /\ NoReport.status = "none"
  <1>1. PICK no : no = FALSE
    OBVIOUS
  <1>2. NoReport = [status |-> "none", errors |-> no, diagnostics |-> {}]
    BY <1>1, Zenon DEF NoReport
  <1>3. IsReport(NoReport)
    BY <1>2, Zenon DEF IsReport
  <1> QED
    BY <1>2, <1>3

LEMMA PendingIs ==
  ASSUME NEW s
  PROVE  /\ IsReport([Pending EXCEPT !.status = s]) /\ [Pending EXCEPT !.status = s].status = s
         /\ [Pending EXCEPT !.status = s].diagnostics = {}
  <1>1. PICK no : no = FALSE
    OBVIOUS
  <1>2. PICK base : base = [status |-> "pending", errors |-> no, diagnostics |-> {}]
    OBVIOUS
  <1>3. Pending = base
    BY <1>1, <1>2, Zenon DEF Pending
  <1>4. IsReport(base) /\ base.diagnostics = {}
    BY <1>2 DEF IsReport
  <1> QED
    BY <1>3, <1>4, CopyEdited

LEMMA InvalidInputIs == IsReport(InvalidInput) /\ InvalidInput.status = "fail" /\ InvalidInput.errors
  <1>1. PICK base : base = NoReport
    OBVIOUS
  <1>2. /\ IsReport(Recorded(base, "fail", "input", "submitter"))
        /\ Recorded(base, "fail", "input", "submitter").status = "fail"
        /\ Recorded(base, "fail", "input", "submitter").errors
        /\ base.diagnostics \subseteq Recorded(base, "fail", "input", "submitter").diagnostics
        /\ Recorded(base, "fail", "input", "submitter").diagnostics
             \subseteq base.diagnostics
                       \cup {[cause |-> "input", field |-> "", owner |-> "submitter"]}
    BY RecordedIs, Zenon
  <1> QED
    BY <1>1, <1>2 DEF InvalidInput

LEMMA IncompleteIs == IsReport(Incomplete) /\ Incomplete.status = "error" /\ Incomplete.errors
  <1>1. PICK base : base = NoReport
    OBVIOUS
  <1> QED
    BY <1>1, ErrorIsRecorded DEF Incomplete

\* Preparation leaves no verdict but a pass, and that for a correction alone,
\* unless there are issues.
LEMMA PreparedIs ==
  ASSUME NEW s, NEW m
  PROVE  /\ IsReport(PreparedReport(s, m))
         /\ PreparedReport(s, m).status \in {"pending", "pass"} => Found(s, m).clean
         /\ PreparedReport(s, m).status = "pending" => PreparedReport(s, m).diagnostics = {}
         /\ PreparedReport(s, m).status = "pass" => m = "correction"
  <1>1. CASE Issues(s, m) # <<>>
    <2>1. PreparedReport(s, m) = Reported(Issues(s, m))
      BY <1>1 DEF PreparedReport
    <2>2. PICK yes, r :
            Reported(Issues(s, m))
              = [status |-> StatusByOwners(r), errors |-> yes, diagnostics |-> r.diagnostics]
      BY Zenon DEF Reported
    <2>3. PreparedReport(s, m)
            = [status |-> StatusByOwners(r), errors |-> yes, diagnostics |-> r.diagnostics]
      BY <2>1, <2>2, Zenon
    <2>4. IsReport(PreparedReport(s, m))
      BY <2>3, Zenon DEF IsReport
    <2>5. PreparedReport(s, m).status \in {"error", "fail"}
      <3>1. StatusByOwners(r) \in {"error", "fail"}
        BY DEF StatusByOwners
      <3> HIDE DEF StatusByOwners
      <3> QED
        BY <2>3, <3>1
    <2> QED
      BY <2>4, <2>5
  <1>2. CASE Issues(s, m) = <<>>
    <2>1. PICK status : status = IF m = "correction" THEN "pass" ELSE "pending"
      OBVIOUS
    <2>2. PreparedReport(s, m) = [Pending EXCEPT !.status = status]
      BY <1>2, <2>1, Zenon DEF PreparedReport
    <2>3. Found(s, m).clean
      BY <1>2 DEF Found
    <2> QED
      BY <2>1, <2>2, <2>3, PendingIs
  <1> QED
    BY <1>1, <1>2

\* What the finalizer does to a report.
LEMMA FinalizedIs ==
  ASSUME NEW r, NEW v \in BOOLEAN, NEW m, NEW y, NEW failed
  PROVE  /\ v => Finalized(r, v, m, y, failed) \in {r, Incomplete}
         /\ ~ v => Finalized(r, v, m, y, failed) = InvalidInput
         /\ v /\ Terminal(r) => Finalized(r, v, m, y, failed) = r
         /\ m = "full" => Terminal(Finalized(r, v, m, y, failed))
  <1>1. Terminal(InvalidInput) /\ Terminal(Incomplete)
    BY InvalidInputIs, IncompleteIs DEF Terminal
  <1> QED
    BY <1>1 DEF Finalized, PreparedPreflight

-----------------------------------------------------------------------------
(* What the job knows of the run of execute                                *)

Executed ==
    /\ outcome["execute"] # "running" =>
         mem = NoReport /\ at = 0 /\ judge = Untried /\ open = Proofs /\ ~ Busy
    /\ outcome["execute"] = "running" => ExecuteInv /\ mode = "full" /\ ready = "true"
    /\ outcome["execute"] = "none" => pc = "idle"
    /\ pc = "idle" => merit = "unknown"
    /\ pc # "idle" => mode = "full" /\ valid
    /\ outcome["execute"] = "none" /\ cur <= 12 /\ ready = "true" =>
         report.status = "pending" \/ outcome["capacity"] = "failure"
    /\ outcome["execute"] = "none" /\ mode = "full" => report.status # "pass"
    /\ outcome["execute"] \in Past /\ mode = "full" /\ report.status = "pass" =>
         merit = "sound" /\ (judged \/ outcome["execute"] \in Bad)
    /\ pc = "returned" => Terminal(report)

Inputs == mode \in {"full", "preflight", "correction"} /\ valid \in BOOLEAN

LEMMA InputsKept ==
  ASSUME Inputs, [Next]_vars
  PROVE  Inputs' /\ mode' = mode /\ valid' = valid
  BY DEF Inputs, inputs, Next, Progress, Start, Skip, PlainStep, StepFails, Prepare, AnnounceReady,
         AnnounceFails, CheckCapacity, ExecuteRuns, ExecuteEnds, Finalize, Upload, Gate, Conclude,
         HostActs, Cancel, Interrupt, LoseRunner, Concluded, Ends, vars, job

\* The steps that leave the report and what is known of it alone.
Quiet == UNCHANGED <<report, ready, prepared, found>>

LEMMA QuietSteps ==
  ASSUME [Next]_vars
  PROVE  \/ Quiet \/ Prepare \/ AnnounceReady \/ AnnounceFails \/ CheckCapacity
         \/ ExecuteRuns \/ HostActs \/ Finalize
  BY DEF Quiet, results, pipeline, Next, Progress, Start, Skip, PlainStep, StepFails, ExecuteEnds,
         Upload, Gate, Conclude, Cancel, Interrupt, LoseRunner, Concluded, vars, job

LEMMA CurGrows ==
  ASSUME Ordered, [Next]_vars
  PROVE  cur' >= cur
  <1>1. CASE UNCHANGED <<cur, outcome>>
    BY <1>1 DEF Ordered
  <1> QED
    BY <1>1, MovesAre, EndsKeepsOrder, StartKeepsOrder

LEMMA CleanKept ==
  ASSUME UNCHANGED <<valid, prepared, found>>
  PROVE  Clean' <=> Clean
  <1>1. valid' = valid /\ prepared' = prepared /\ found' = found
    BY Zenon
  <1>2. valid' <=> valid
    BY <1>1
  <1>3. prepared' <=> prepared
    BY <1>1
  <1>4. found'.clean <=> found.clean
    BY <1>1
  <1> QED
    BY <1>2, <1>3, <1>4, Zenon DEF Clean

LEMMA NextKeepsKnown ==
  ASSUME Inputs, Ordered, Known, Executed, [Next]_vars
  PROVE  Known'
  <1>0. mode' = mode /\ cur' >= cur /\ cur \in 1 .. 20 /\ cur' \in 1 .. 20
    BY InputsKept, CurGrows, NextKeepsOrder DEF Ordered
  <1>v. valid' = valid
    BY InputsKept, Zenon
  <1>c. ASSUME UNCHANGED <<prepared, found>> PROVE Clean' <=> Clean
    <2>1. prepared' = prepared /\ found' = found
      BY <1>c, Zenon
    <2> QED
      BY <1>v, <2>1, CleanKept, Zenon
  <1>1. CASE Quiet
    <2>1. report' = report /\ ready' = ready
      BY <1>1 DEF Quiet
    <2>2. Clean' <=> Clean
      BY <1>1, <1>c DEF Quiet
    <2> QED
      BY <1>0, <2>1, <2>2 DEF Known
  <1>2. CASE Prepare
    <2>1. cur = 6 /\ cur' = cur /\ ready' = ready /\ ready # "true"
      <3>1. Running("prepare") /\ cur' = cur /\ ready' = ready
        BY <1>2, Zenon DEF Prepare
      <3>2. cur = 6
        BY <3>1, OpenIs, StepsAre DEF Running
      <3> QED
        BY <3>1, <3>2 DEF Known
    <2>2. prepared'
      BY <1>2, Zenon DEF Prepare
    <2>3. ASSUME IsReport(report'), report'.status \in {"fail", "error"} PROVE Known'
      BY <1>0, <2>1, <2>3 DEF Known
    <2>4. CASE ~ valid
      <3>1. report' = InvalidInput
        BY <1>2, <2>4, Zenon DEF Prepare
      <3> QED
        BY <2>3, <3>1, InvalidInputIs
    <2>5. CASE valid
      <3>1. PICK s : /\ found' = Found(s, mode)
                     /\ \/ report' = PreparedReport(s, mode)
                        \/ report' = Recorded(PreparedReport(s, mode), "error", "internal", "palomar")
        BY <1>2, <2>5, Zenon DEF Prepare
      <3>2. CASE report' = PreparedReport(s, mode)
        <4>1. /\ IsReport(report')
              /\ report'.status \in {"pending", "pass"} => found'.clean
              /\ report'.status = "pending" => report'.diagnostics = {}
              /\ report'.status = "pass" => mode = "correction"
          BY <3>1, <3>2, PreparedIs, Zenon
        <4>2. report'.status \in {"pending", "pass"} => Clean'
          BY <1>v, <2>2, <2>5, <4>1, Zenon DEF Clean
        <4> QED
          BY <1>0, <2>1, <4>1, <4>2 DEF Known
      <3>3. CASE report' = Recorded(PreparedReport(s, mode), "error", "internal", "palomar")
        <4>1. IsReport(report') /\ report'.status = "error"
          BY <3>3, ErrorIsRecorded
        <4> QED
          BY <2>3, <4>1
      <3> QED
        BY <3>1, <3>2, <3>3, Zenon
    <2> QED
      BY <2>4, <2>5, Zenon
  <1>3. CASE AnnounceReady
    <2>1. /\ cur = 6 /\ cur' = 7 /\ UNCHANGED <<report, prepared, found>>
          /\ ready' = Announced(report)
      <3>1. /\ Running("prepare") /\ cur' = cur + 1 /\ ready' = Announced(report)
            /\ UNCHANGED <<report, prepared, found>>
        BY <1>3 DEF AnnounceReady, Ends, pipeline
      <3>2. cur = 6
        BY <3>1, OpenIs, StepsAre DEF Running
      <3> QED
        BY <3>1, <3>2
    <2>2. Clean' <=> Clean
      BY <1>c, <2>1
    <2> QED
      BY <1>0, <2>1, <2>2 DEF Known, Announced
  <1>4. CASE AnnounceFails
    <2>1. /\ cur = 6 /\ cur' = 7 /\ ready' \in {"false", ready} /\ ready # "true"
          /\ report' = Recorded(report, "error", "internal", "palomar")
      <3>1. /\ Running("prepare") /\ cur' = cur + 1 /\ ready' \in {"false", ready}
            /\ report' = Recorded(report, "error", "internal", "palomar")
        BY <1>4, Zenon DEF AnnounceFails, Ends
      <3>2. cur = 6
        BY <3>1, OpenIs, StepsAre DEF Running
      <3> QED
        BY <3>1, <3>2 DEF Known
    <2>2. IsReport(report') /\ report'.status = "error"
      BY <2>1, ErrorIsRecorded
    <2> QED
      BY <1>0, <2>1, <2>2 DEF Known
  <1>5. CASE CheckCapacity
    <2>1. /\ UNCHANGED <<ready, prepared, found>>
          /\ report' = report \/ report' = Recorded(report, "error", "host", "provider")
      BY <1>5 DEF CheckCapacity, results
    <2>2. report' # report => IsReport(report') /\ report'.status = "error"
      BY <2>1, ErrorIsRecorded
    <2>3. (Clean' <=> Clean) /\ ready' = ready
      BY <1>c, <2>1
    <2> QED
      BY <1>0, <2>2, <2>3 DEF Known
  <1>6. CASE ExecuteRuns \/ HostActs
    <2>1. /\ outcome["execute"] = "running" /\ (Verifier \/ Host)
          /\ UNCHANGED <<cur, ready, prepared, found>>
      BY <1>6 DEF ExecuteRuns, HostActs, Running, job, results
    <2>2. ExecuteInv /\ mode = "full" /\ ready = "true"
      BY <2>1 DEF Executed
    <2>3. IsReport(report') /\ (report'.status = "pending" => report'.diagnostics = {})
      BY <2>1, <2>2, ExecuteKeeps DEF ExecuteInv, Shapes, Sound
    <2>4. (Clean' <=> Clean) /\ ready' = ready
      BY <1>c, <2>1
    <2> QED
      BY <1>0, <2>2, <2>3, <2>4 DEF Known
  <1>7. CASE Finalize
    <2>1. /\ UNCHANGED <<ready, prepared, found>>
          /\ report' = Finalized(report, valid, mode, ready, StepFailed)
      BY <1>7 DEF Finalize, results
    <2>2. report' \in {report, Incomplete, InvalidInput}
      BY <2>1 DEF Finalized
    <2>3. (Clean' <=> Clean) /\ ready' = ready
      BY <1>c, <2>1
    <2> QED
      BY <1>0, <2>2, <2>3, IncompleteIs, InvalidInputIs DEF Known
  <1> QED
    BY <1>1, <1>2, <1>3, <1>4, <1>5, <1>6, <1>7, QuietSteps

\* The steps that leave the report, the verifier and what came of them alone.
Aside == UNCHANGED <<report, mem, at, pc, judge, open, merit, judged, ready>>

LEMMA AsideSteps ==
  ASSUME Ordered, [Next]_vars
  PROVE  \/ /\ Aside
            /\ \/ Start
               \/ Open /\ outcome[Step] = "none" /\ Ends("skipped")
               \/ \E o \in Past : Open /\ Ends(o) /\ cur # 12
               \/ UNCHANGED <<cur, outcome>>
         \/ Prepare \/ AnnounceReady \/ AnnounceFails \/ CheckCapacity
         \/ ExecuteRuns \/ HostActs \/ ExecuteEnds \/ Interrupt \/ Finalize
  <1>1. CASE Start \/ Skip \/ Cancel \/ LoseRunner \/ Conclude \/ UNCHANGED vars
    BY <1>1 DEF Start, Skip, Cancel, LoseRunner, Conclude, vars, job, results, pipeline, bench, Aside
  <1>2. CASE PlainStep \/ StepFails \/ Upload \/ Gate
    <2>1. Aside /\ Open /\ \E o \in Past : Ends(o)
      BY <1>2 DEF PlainStep, StepFails, Upload, Gate, Running, Past, results, pipeline, bench, Aside
    <2>2. cur # 12
      <3>1. \/ Step \in PlainSteps \/ Step \in Uploads \/ Step = "gate"
            \/ Step \notin {"execute", "wait2", "wait3"}
        BY <1>2 DEF PlainStep, StepFails, Upload, Gate, Running
      <3> QED
        BY <2>1, <3>1, OpenIs, StepsAre
    <2> QED
      BY <2>1, <2>2
  <1> QED
    BY <1>1, <1>2 DEF Next, Progress, Concluded

LEMMA AsideKeepsExecuted ==
  ASSUME Inputs, Ordered, Known, Executed, mode' = mode, valid' = valid, Aside,
         \/ Start
         \/ Open /\ outcome[Step] = "none" /\ Ends("skipped")
         \/ \E o \in Past : Open /\ Ends(o) /\ cur # 12
         \/ UNCHANGED <<cur, outcome>>
  PROVE  Executed'
  <1>1. ExecuteInv' <=> ExecuteInv
    BY DEF Aside, ExecuteInv, Shapes, HandedOver, Undecided, Narrowed, Concluding, Sound
  <1>2. CASE UNCHANGED <<cur, outcome>>
    BY <1>1, <1>2 DEF Executed, Aside, Busy
  <1>3. CASE /\ outcome'["execute"] = outcome["execute"] /\ cur \in 1 .. 19
             /\ cur' \in {cur, cur + 1}
             /\ cur = 8 \/ outcome'["capacity"] = outcome["capacity"]
             /\ cur = 8 => outcome["capacity"] # "failure"
    <2>1. cur' <= 12 => cur <= 12
      BY <1>3
    <2>2. /\ outcome["execute"] = "none" /\ cur <= 12 /\ ready = "true" =>
               report.status = "pending" \/ outcome'["capacity"] = "failure"
      BY <1>3 DEF Executed
    <2> QED
      BY <1>1, <1>3, <2>1, <2>2 DEF Executed, Aside, Busy
  <1>4. CASE \E o \in Past : Open /\ Ends(o) /\ cur # 12
    <2>1. PICK o \in Past : Open /\ Ends(o) /\ cur # 12
      BY <1>4
    <2>2. Assigned(o) /\ cur' = cur + 1 /\ cur \in 1 .. 19
      BY <2>1, EndsKeepsOrder
    <2>3. cur = 8 => outcome["capacity"] # "failure"
      BY DEF Ordered, Place
    <2> QED
      BY <1>3, <2>1, <2>2, <2>3 DEF Assigned
  <1>5. CASE Open /\ outcome[Step] = "none" /\ Ends("skipped")
    <2>1. Assigned("skipped") /\ cur' = cur + 1 /\ cur \in 1 .. 19
      BY <1>5, EndsKeepsOrder DEF Past
    <2>2. CASE cur # 12
      BY <1>4, <1>5, <2>2 DEF Past
    <2>3. CASE cur = 12
      <3>1. outcome'["execute"] = "skipped" /\ outcome["execute"] = "none" /\ cur' = 13
        BY <1>5, <2>1, <2>3, StepsAre DEF Assigned
      <3> QED
        BY <3>1 DEF Executed, Aside, Busy, Past
    <2> QED
      BY <2>2, <2>3
  <1>6. CASE Start
    <2>1. Assigned("running") /\ cur' = cur /\ cur \in 1 .. 19
      BY <1>6, StartKeepsOrder
    <2>2. CASE cur # 12
      <3>1. cur = 8 => outcome["capacity"] # "failure"
        BY DEF Ordered, Place
      <3> QED
        BY <1>3, <2>1, <2>2, <3>1 DEF Assigned
    <2>3. CASE cur = 12
      <3>1. outcome["execute"] = "none" /\ Wanted("execute")
        BY <1>6, <2>1, <2>3, StepsAre DEF Start
      <3>2. AllWell /\ mode = "full" /\ ready = "true"
        BY <3>1 DEF Wanted, AlwaysSteps, FullSteps, Uploads
      <3>3. outcome["capacity"] # "failure"
        BY <3>2, StepsNamed DEF AllWell, Bad
      <3>4. report.status = "pending" /\ report.diagnostics = {} /\ IsReport(report)
        BY <2>3, <3>1, <3>2, <3>3 DEF Executed, Known
      <3>5. /\ mem = NoReport /\ at = 0 /\ judge = Untried /\ open = Proofs
            /\ pc = "idle" /\ merit = "unknown"
        BY <3>1 DEF Executed
      <3>6. ExecuteInv
        <4>1. Untried \in Judges
          BY DEF Untried, Judges
        <4> QED
          BY <3>4, <3>5, <4>1, NoReportIs, HandOver
      <3>7. outcome'["execute"] = "running"
        BY <2>1, <2>3 DEF Assigned
      <3> QED
        BY <1>1, <3>2, <3>5, <3>6, <3>7 DEF Aside, Executed, Past
    <2> QED
      BY <2>2, <2>3
  <1> QED
    BY <1>2, <1>4, <1>5, <1>6

\* Before execute, a step may write a report without touching the verifier.
LEMMA EarlyKeepsExecuted ==
  ASSUME Ordered, Executed, cur \in {6, 8}, mode' = mode,
         UNCHANGED <<mem, at, pc, judge, open, merit>>,
         outcome'["execute"] = outcome["execute"],
         ready' = "true" => report'.status = "pending" \/ outcome'["capacity"] = "failure",
         mode = "full" => report'.status # "pass"
  PROVE  Executed'
  <1>1. outcome["execute"] = "none"
    BY DEF Ordered, Place
  <1>2. pc = "idle"
    BY <1>1 DEF Executed
  <1> QED
    BY <1>1, <1>2 DEF Executed, Busy, Past

LEMMA PrepareKeepsExecuted ==
  ASSUME Ordered, Known, Executed, mode' = mode, Prepare
  PROVE  Executed'
  <1>1. cur = 6 /\ ready' = ready /\ UNCHANGED <<mem, at, pc, judge, open, merit, outcome>>
    BY OpenIs, StepsAre DEF Prepare, Running, bench
  <1>2. ready # "true"
    BY <1>1 DEF Known
  <1>3. report'.status = "pass" => mode = "correction"
    <2>1. CASE report' = InvalidInput
      BY <2>1, InvalidInputIs
    <2>2. CASE \E s : \/ report' = PreparedReport(s, mode)
                    \/ report' = Recorded(PreparedReport(s, mode), "error", "internal", "palomar")
      BY <2>2, PreparedIs, ErrorIsRecorded
    <2> QED
      BY <2>1, <2>2, Zenon DEF Prepare
  <1> QED
    BY <1>1, <1>2, <1>3, EarlyKeepsExecuted

LEMMA AnnounceKeepsExecuted ==
  ASSUME Ordered, Known, Executed, mode' = mode, AnnounceReady \/ AnnounceFails
  PROVE  Executed'
  <1>1. /\ cur = 6 /\ outcome'["execute"] = outcome["execute"]
        /\ UNCHANGED <<mem, at, pc, judge, open, merit>>
    <2>1. /\ Running("prepare") /\ (Ends("success") \/ Ends("failure"))
          /\ UNCHANGED <<mem, at, pc, judge, open, merit>>
      BY DEF AnnounceReady, AnnounceFails, pipeline, bench
    <2>2. cur = 6
      BY <2>1, OpenIs, StepsAre DEF Running
    <2>3. Assigned("success") \/ Assigned("failure")
      BY <2>1, EndsKeepsOrder DEF Running, Past
    <2> QED
      BY <2>1, <2>2, <2>3 DEF Assigned
  <1>2. CASE AnnounceReady
    <2>1. report' = report /\ ready' = Announced(report)
      BY <1>2 DEF AnnounceReady, pipeline
    <2>2. mode = "full" => report.status # "pass"
      BY <1>1 DEF Executed, Ordered, Place
    <2>3. ready' = "true" => report'.status = "pending"
      BY <2>1 DEF Announced
    <2> QED
      BY <1>1, <2>1, <2>2, <2>3, EarlyKeepsExecuted
  <1>3. CASE AnnounceFails
    <2>1. ready' # "true"
      <3>1. ready' \in {"false", ready}
        BY <1>3, Zenon DEF AnnounceFails
      <3> QED
        BY <1>1, <3>1 DEF Known
    <2>2. report'.status = "error"
      BY <1>3, ErrorIsRecorded DEF AnnounceFails
    <2> QED
      BY <1>1, <2>1, <2>2, EarlyKeepsExecuted
  <1> QED
    BY <1>2, <1>3

LEMMA CapacityKeepsExecuted ==
  ASSUME Ordered, Known, Executed, mode' = mode, CheckCapacity
  PROVE  Executed'
  <1>1. PICK o \in {"success", "failure"} :
          /\ Ends(o) /\ Running("capacity")
          /\ UNCHANGED <<mem, at, pc, judge, open, merit>>
          /\ report.status = "pending"
          /\ \/ report' = report
             \/ o = "failure" /\ report' = Recorded(report, "error", "host", "provider")
    BY DEF CheckCapacity, bench
  <1>2. cur = 8
    BY <1>1, OpenIs, StepsAre DEF Running
  <1>3. outcome'["execute"] = outcome["execute"] /\ outcome'["capacity"] = o
    <2>1. Assigned(o)
      BY <1>1, EndsKeepsOrder DEF Running, Past
    <2> QED
      BY <1>2, <2>1 DEF Assigned
  <1>4. report' = report \/ (o = "failure" /\ report'.status = "error")
    BY <1>1, ErrorIsRecorded
  <1> QED
    BY <1>1, <1>2, <1>3, <1>4, EarlyKeepsExecuted

LEMMA RunKeepsExecuted ==
  ASSUME Ordered, Known, Executed, mode' = mode, valid' = valid, ExecuteRuns \/ HostActs
  PROVE  Executed'
  <1>1. /\ outcome["execute"] = "running" /\ (Verifier \/ Host)
        /\ outcome' = outcome /\ ready' = ready
    BY DEF ExecuteRuns, HostActs, Running, job, results
  <1>2. ExecuteInv /\ mode = "full" /\ ready = "true"
    BY <1>1 DEF Executed
  <1>3. ExecuteInv'
    BY <1>1, <1>2, ExecuteKeeps
  <1>4. valid
    BY <1>2, Zenon DEF Known, Clean
  <1>5. (pc' = "idle" => merit' = "unknown") /\ (pc' = "returned" => Terminal(report'))
    BY <1>3 DEF ExecuteInv, HandedOver, Concluding
  <1> QED
    BY <1>1, <1>2, <1>3, <1>4, <1>5 DEF Executed, Past

\* The run of execute is over: the runner's step ends, or is interrupted.
LEMMA RunEndsKeepsExecuted ==
  ASSUME Ordered, Executed, mode' = mode, valid' = valid, ProcessGone,
         outcome["execute"] = "running", report' = report, merit' = merit, ready' = ready,
         pc' \in {"idle", "returned", "crashed"},
         pc' = "idle" => pc = "idle", pc' = "returned" => pc = "returned",
         pc' # "idle" => pc # "idle",
         \/ outcome'["execute"] \in Bad
         \/ outcome'["execute"] = "success" /\ pc' = "returned" /\ (at = Complete => judged')
  PROVE  Executed'
  <1>1. ExecuteInv /\ mode = "full"
    BY DEF Executed
  <1>2. report.status = "pass" => at = Complete /\ merit = "sound"
    BY <1>1 DEF ExecuteInv, Sound
  <1>3. mem' = NoReport /\ at' = 0 /\ judge' = Untried /\ open' = Proofs
    BY DEF ProcessGone
  <1> QED
    BY <1>1, <1>2, <1>3 DEF Executed, Busy, Bad

LEMMA ExecuteEndsKeepsExecuted ==
  ASSUME Ordered, Executed, mode' = mode, valid' = valid, ExecuteEnds
  PROVE  Executed'
  <1>1. PICK o \in {"success", "failure"} :
          /\ Ends(o) /\ Running("execute") /\ ProcessGone
          /\ \/ o = "success" /\ pc = "returned"
             \/ o = "failure" /\ pc = "crashed"
          /\ UNCHANGED <<report, pc, merit, ready>>
    BY DEF ExecuteEnds
  <1>2. cur = 12 /\ Assigned(o)
    BY <1>1, OpenIs, StepsAre, EndsKeepsOrder DEF Running, Past
  <1>3. outcome["execute"] = "running" /\ outcome'["execute"] = o
    BY <1>1, <1>2 DEF Running, Assigned
  <1>4. pc = "returned" /\ at = Complete => judged'
    BY DEF ExecuteEnds
  <1> QED
    BY <1>1, <1>3, <1>4, RunEndsKeepsExecuted DEF Bad

LEMMA InterruptKeepsExecuted ==
  ASSUME Ordered, Known, Executed, mode' = mode, valid' = valid, Interrupt
  PROVE  Executed'
  <1>1. /\ Open /\ Ends("cancelled") /\ ProcessGone /\ outcome[Step] = "running"
        /\ pc' = IF Step = "execute" /\ Busy THEN "crashed" ELSE pc
        /\ UNCHANGED <<report, merit, ready, judged>>
    BY DEF Interrupt, results
  <1>2. Assigned("cancelled") /\ cur' = cur + 1 /\ cur \in 1 .. 19
    BY <1>1, EndsKeepsOrder DEF Past
  <1>3. CASE cur = 12
    <2>1. Step = "execute" /\ outcome["execute"] = "running" /\ outcome'["execute"] = "cancelled"
      BY <1>1, <1>2, <1>3, StepsAre DEF Assigned
    <2>2. pc' \in {"idle", "returned", "crashed"}
      BY <1>1, <2>1 DEF Busy
    <2>3. pc' = "crashed" \/ pc' = pc
      BY <1>1
    <2>4. pc' = "crashed" => pc # "idle"
      BY <1>1 DEF Busy
    <2> QED
      BY <1>1, <2>1, <2>2, <2>3, <2>4, RunEndsKeepsExecuted DEF Bad
  <1>4. CASE cur # 12
    <2>1. outcome["execute"] # "running" /\ Step # "execute"
      BY <1>2, <1>4, StepsAre DEF Ordered, Place, Past
    <2>2. UNCHANGED <<mem, at, judge, open, pc>>
      BY <1>1, <2>1 DEF ProcessGone, Executed
    <2>3. Aside
      BY <1>1, <2>2 DEF Aside
    <2>4. outcome'["execute"] = outcome["execute"]
      BY <1>2, <1>4 DEF Assigned
    <2>5. outcome["capacity"] = "failure" => outcome'["capacity"] = "failure"
      BY <1>2 DEF Assigned, Ordered, Place
    <2>6. cur' <= 12 => cur <= 12
      BY <1>2
    <2> QED
      BY <1>1, <2>1, <2>3, <2>4, <2>5, <2>6 DEF Executed, Aside, Busy
  <1> QED
    BY <1>3, <1>4

LEMMA FinalizeKeepsExecuted ==
  ASSUME Inputs, Ordered, Known, Executed, mode' = mode, valid' = valid, Finalize
  PROVE  Executed'
  <1>1. PICK o \in {"success", "failure"} :
          /\ Ends(o) /\ Running("finalize")
          /\ UNCHANGED <<mem, at, pc, judge, open, merit, judged, ready>>
          /\ report' = Finalized(report, valid, mode, ready, StepFailed)
    BY DEF Finalize, bench, results
  <1>2. cur = 13 /\ cur' = 14 /\ outcome'["execute"] = outcome["execute"]
    <2>1. cur = 13
      BY <1>1, OpenIs, StepsAre DEF Running
    <2>2. Assigned(o) /\ cur' = cur + 1
      BY <1>1, EndsKeepsOrder DEF Running, Past
    <2> QED
      BY <2>1, <2>2 DEF Assigned
  <1>3. report' \in {report, Incomplete, InvalidInput}
    BY <1>1 DEF Finalized
  <1>4. report'.status = "pass" => report' = report
    BY <1>3, IncompleteIs, InvalidInputIs
  <1>5. mode = "full" => Terminal(report')
    BY <1>1, FinalizedIs DEF Inputs
  <1>6. outcome["execute"] # "running"
    BY <1>2 DEF Ordered, Place, Past
  <1> QED
    BY <1>1, <1>2, <1>4, <1>5, <1>6 DEF Executed, Busy, Past

LEMMA NextKeepsExecuted ==
  ASSUME Inputs, Ordered, Known, Executed, [Next]_vars
  PROVE  Executed'
  <1>1. mode' = mode /\ valid' = valid
    BY InputsKept
  <1> QED
    BY <1>1, AsideSteps, AsideKeepsExecuted, PrepareKeepsExecuted, AnnounceKeepsExecuted,
       CapacityKeepsExecuted, RunKeepsExecuted, ExecuteEndsKeepsExecuted,
       InterruptKeepsExecuted, FinalizeKeepsExecuted

-----------------------------------------------------------------------------
(* What is stored, and what the gate saw                                   *)

Sent ==
    /\ cur <= 13 => stored = NoReport
    /\ stored \in {NoReport, report}
    /\ "success" \in {outcome["upload1"], outcome["upload2"], outcome["upload3"]}
         => stored = report
    /\ "skipped" \notin {outcome["finalize"], outcome["upload1"], outcome["gate"]}
    /\ outcome["upload1"] = "failure" => outcome["upload2"] # "skipped"
    /\ outcome["upload1"] = "failure" /\ outcome["upload2"] = "failure"
         => outcome["upload3"] # "skipped"

LEMMA UploadedIs ==
  Uploaded <=> "success" \in {outcome["upload1"], outcome["upload2"], outcome["upload3"]}
  BY DEF Uploaded, Uploads

\* From the first upload on, nothing writes the report.
LEMMA ReportSettles ==
  ASSUME Ordered, [Next]_vars, cur > 13
  PROVE  report' = report
  <1>1. CASE Prepare \/ AnnounceReady \/ AnnounceFails \/ CheckCapacity \/ Finalize
    <2>1. Open /\ Step \in {"prepare", "capacity", "finalize"}
      BY <1>1 DEF Prepare, AnnounceReady, AnnounceFails, CheckCapacity, Finalize, Running
    <2> QED
      BY <2>1, OpenIs, StepsAre
  <1>2. CASE ExecuteRuns \/ HostActs
    <2>1. Open /\ Step = "execute"
      BY <1>2 DEF ExecuteRuns, HostActs, Running
    <2> QED
      BY <2>1, OpenIs, StepsAre
  <1> QED
    BY <1>1, <1>2, QuietSteps DEF Quiet

\* What is stored changes with the steps that upload, and to the report.
LEMMA StoredChanges ==
  ASSUME Ordered, [Next]_vars
  PROVE  \/ stored' = stored
         \/ cur \in {14, 16, 18} /\ stored' = report
  <1>1. CASE StepFails
    <2>1. stored' = stored \/ (Step \in Uploads /\ stored' = report /\ Open)
      BY <1>1 DEF StepFails
    <2> QED
      BY <2>1, OpenIs, StepsAre
  <1>2. CASE Upload
    <2>1. \E u \in Uploads : Running(u) /\ stored' = report
      BY <1>2 DEF Upload
    <2>2. Step \in Uploads /\ Open
      BY <2>1 DEF Running
    <2> QED
      BY <2>1, <2>2, OpenIs, StepsAre
  <1> QED
    BY <1>1, <1>2 DEF Next, Progress, Start, Skip, PlainStep, Prepare, AnnounceReady,
         AnnounceFails, CheckCapacity, ExecuteRuns, ExecuteEnds, Finalize, Gate, Conclude,
         HostActs, Cancel, Interrupt, LoseRunner, Concluded, results, job, vars

\* An upload succeeds only by storing the report; a step is skipped only if unwanted.
LEMMA OutcomesAre ==
  ASSUME Ordered, [Next]_vars, NEW o \in Past, Open, Ends(o)
  PROVE  /\ o = "success" /\ cur \in {14, 16, 18} => stored' = report
         /\ o = "skipped" => ~ Wanted(Step)
         /\ o = "success" /\ cur = 19 => Gate
         /\ o = "success" /\ cur = 13 => Finalize
  <1>1. cur \in 1 .. 19 /\ cur' = cur + 1 /\ outcome'[Step] = o
    BY EndsKeepsOrder, StepsAre DEF Ends, Ordered
  <1>2. \/ Skip /\ o = "skipped"
        \/ PlainStep
        \/ StepFails /\ o = "failure"
        \/ AnnounceReady \/ AnnounceFails \/ CheckCapacity \/ ExecuteEnds \/ Finalize
        \/ Upload /\ o = "success"
        \/ Gate /\ o = "success"
        \/ Interrupt /\ o = "cancelled"
    <2>1. ASSUME NEW q, Ends(q) PROVE q = o
      BY <1>1, <2>1, StepsAre DEF Ends, Ordered
    <2>2. /\ cur' # cur
          /\ ~ Start /\ ~ Prepare /\ ~ ExecuteRuns /\ ~ HostActs /\ ~ Conclude
          /\ ~ Cancel /\ ~ LoseRunner /\ ~ UNCHANGED vars
      <3>1. cur' # cur
        BY <1>1
      <3> QED
        BY <3>1 DEF Start, Prepare, ExecuteRuns, HostActs, Conclude, Cancel, LoseRunner, job, vars
    <2>3. /\ Skip => o = "skipped"
          /\ StepFails => o = "failure"
          /\ Interrupt => o = "cancelled"
          /\ Upload \/ Gate => o = "success"
      BY <2>1 DEF Skip, StepFails, Interrupt, Upload, Gate
    <2> QED
      BY <2>2, <2>3 DEF Next, Progress, Concluded
  <1>3. PlainStep => o = "success" /\ cur \notin {13, 14, 16, 18, 19}
    <2>1. PlainStep => Step \in PlainSteps /\ Ends("success")
      BY DEF PlainStep, Running
    <2> QED
      BY <1>1, <2>1, StepsAre DEF Ends, Ordered
  <1>4. /\ AnnounceReady \/ AnnounceFails \/ CheckCapacity \/ ExecuteEnds \/ Finalize
             => o \in {"success", "failure"} /\ cur \in {6, 8, 12, 13}
        /\ AnnounceReady \/ AnnounceFails \/ CheckCapacity \/ ExecuteEnds => cur # 13
    <2>1. /\ AnnounceReady \/ AnnounceFails \/ CheckCapacity \/ ExecuteEnds \/ Finalize
               => /\ Step \in {"prepare", "capacity", "execute", "finalize"}
                  /\ Ends("success") \/ Ends("failure")
          /\ AnnounceReady \/ AnnounceFails \/ CheckCapacity \/ ExecuteEnds
               => Step # "finalize"
      BY DEF AnnounceReady, AnnounceFails, CheckCapacity, ExecuteEnds, Finalize, Running
    <2> QED
      BY <1>1, <2>1, StepsAre DEF Ends, Ordered
  <1>5. Gate => cur = 19
    BY <1>1, StepsAre DEF Gate, Running
  <1>6. Upload => stored' = report /\ cur \in {14, 16, 18}
    <2>1. Upload => stored' = report /\ Step \in Uploads
      BY DEF Upload, Running
    <2> QED
      BY <1>1, <2>1, StepsAre
  <1> QED
    BY <1>2, <1>3, <1>4, <1>5, <1>6 DEF Skip

LEMMA WantedIs ==
  /\ Wanted("finalize") /\ Wanted("upload1") /\ Wanted("gate")
  /\ Wanted("upload2") <=> outcome["upload1"] = "failure"
  /\ Wanted("upload3") <=> outcome["upload1"] = "failure" /\ outcome["upload2"] = "failure"
  BY DEF Wanted, AlwaysSteps, FullSteps, Uploads

LEMMA NextKeepsSent ==
  ASSUME Ordered, Sent, [Next]_vars
  PROVE  Sent'
  <1>1. /\ cur > 13 => report' = report
        /\ \/ stored' = stored
           \/ cur \in {14, 16, 18} /\ stored' = report
    BY ReportSettles, StoredChanges
  <1>2. cur <= 13 => /\ stored = NoReport /\ stored' = NoReport
                     /\ outcome["upload1"] = "none" /\ outcome["upload2"] = "none"
                     /\ outcome["upload3"] = "none" /\ outcome["gate"] = "none"
    BY <1>1 DEF Sent, Ordered, Place
  <1>3. stored' \in {NoReport, report'} /\ (stored = report /\ cur > 13 => stored' = report')
    BY <1>1, <1>2 DEF Sent, Ordered
  <1>4. CASE /\ cur' >= cur /\ cur' \in 1 .. 20
             /\ outcome'["upload1"] \in {outcome["upload1"], "running"}
             /\ outcome'["upload2"] \in {outcome["upload2"], "running"}
             /\ outcome'["upload3"] \in {outcome["upload3"], "running"}
             /\ outcome'["finalize"] \in {outcome["finalize"], "running"}
             /\ outcome'["gate"] \in {outcome["gate"], "running"}
    BY <1>2, <1>3, <1>4 DEF Sent, Ordered
  <1>5. CASE UNCHANGED <<cur, outcome>>
    BY <1>4, <1>5 DEF Ordered
  <1>6. CASE Start
    BY <1>4, <1>6, StartKeepsOrder DEF Assigned
  <1>7. ASSUME NEW o \in Past, Open, Ends(o) PROVE Sent'
    <2>1. Assigned(o) /\ cur' = cur + 1 /\ cur \in 1 .. 19
      BY <1>7, EndsKeepsOrder
    <2>2. /\ o = "success" /\ cur \in {14, 16, 18} => stored' = report
          /\ o = "skipped" => ~ Wanted(Step)
      BY <1>7, OutcomesAre
    <2>3. CASE cur < 13
      BY <1>2, <1>3, <2>1, <2>3 DEF Sent, Assigned
    <2>u. ASSUME cur > 13, /\ outcome'["finalize"] = outcome["finalize"]
                           /\ "skipped" \notin {outcome'["upload1"], outcome'["gate"]}
          PROVE  /\ "skipped" \notin {outcome'["finalize"], outcome'["upload1"], outcome'["gate"]}
                 /\ ~ (cur' <= 13)
      BY <2>1, <2>u DEF Sent
    <2>s. ASSUME cur > 13
          PROVE  "success" \in {outcome'["upload1"], outcome'["upload2"], outcome'["upload3"]}
                   => stored' = report'
      <3>1. CASE o = "success" /\ cur \in {14, 16, 18}
        BY <1>1, <2>2, <2>s, <3>1
      <3>2. CASE ~ (o = "success" /\ cur \in {14, 16, 18})
        <4>1. "success" \in {outcome["upload1"], outcome["upload2"], outcome["upload3"]}
               \/ "success" \notin {outcome'["upload1"], outcome'["upload2"], outcome'["upload3"]}
          BY <2>1, <3>2 DEF Assigned
        <4> QED
          BY <1>3, <2>s, <4>1 DEF Sent
      <3> QED
        BY <3>1, <3>2
    <2>4. CASE cur = 13
      <3>1. o # "skipped"
        BY <2>2, <2>4, StepsAre, WantedIs
      <3> QED
        BY <1>2, <1>3, <2>1, <2>4, <3>1 DEF Sent, Assigned
    <2>5. CASE cur \in {14, 19}
      <3>1. Step = "upload1" \/ Step = "gate"
        BY <2>5, StepsAre
      <3>2. o # "skipped"
        BY <2>2, <3>1, WantedIs
      <3>3. cur = 14 => outcome["upload2"] = "none"
        BY DEF Ordered, Place
      <3>4. cur = 14 => outcome["upload3"] = "none"
        BY DEF Ordered, Place
      <3> QED
        BY <1>3, <2>1, <2>5, <2>u, <2>s, <3>2, <3>3, <3>4 DEF Sent, Assigned
    <2>6. CASE cur = 16
      <3>1. o = "skipped" => outcome["upload1"] # "failure"
        BY <2>2, <2>6, StepsAre, WantedIs
      <3>2. outcome["upload3"] = "none"
        BY <2>6 DEF Ordered, Place
      <3> QED
        BY <1>3, <2>1, <2>6, <2>u, <2>s, <3>1, <3>2 DEF Sent, Assigned
    <2>8. CASE cur = 18
      <3>1. o = "skipped" =>
              ~ (outcome["upload1"] = "failure" /\ outcome["upload2"] = "failure")
        BY <2>2, <2>8, StepsAre, WantedIs
      <3> QED
        BY <1>3, <2>1, <2>8, <2>u, <2>s, <3>1 DEF Sent, Assigned
    <2>7. CASE cur \in {15, 17}
      BY <1>1, <1>3, <2>1, <2>7 DEF Sent, Assigned
    <2> QED
      BY <2>1, <2>3, <2>4, <2>5, <2>6, <2>7, <2>8
  <1> QED
    BY <1>5, <1>6, <1>7, MovesAre

Gated ==
    /\ outcome["gate"] = "success" => GateOpens(report, mode, ready, Uploaded, StepFailed)
    /\ conclusion \in {"green", "red"} => cur = 20
    /\ conclusion = "green" => outcome["finalize"] \notin Bad /\ outcome["gate"] \notin Bad

LEMMA SetupNamed == SETUP_STEPS \subseteq StepNames
  <1>1. /\ Steps[2] = "checkout" /\ Steps[3] = "python" /\ Steps[4] = "ruby"
        /\ Steps[5] = "dependencies" /\ Steps[6] = "prepare" /\ Steps[7] = "disk"
        /\ Steps[8] = "capacity" /\ Steps[9] = "elan" /\ Steps[10] = "toolchain"
        /\ Steps[11] = "bwrap" /\ Steps[12] = "execute" /\ Steps[13] = "finalize"
    BY DEF Steps
  <1> QED
    BY <1>1, StepCount DEF SETUP_STEPS, StepNames

LEMMA NextKeepsGated ==
  ASSUME Inputs, Ordered, Gated, [Next]_vars
  PROVE  Gated'
  <1>0. mode' = mode /\ Ordered' /\ cur' >= cur
    BY InputsKept, NextKeepsOrder, CurGrows
  <1>1. ASSUME outcome'["gate"] = "success"
        PROVE  GateOpens(report', mode', ready', Uploaded', StepFailed')
    <2>1. cur' = 20 /\ cur \in {19, 20}
      <3>1. cur' = 20
        BY <1>0, <1>1 DEF Ordered, Place
      <3>2. cur' \in {cur, cur + 1}
        BY MovesAre, EndsKeepsOrder, StartKeepsOrder
      <3> QED
        BY <3>1, <3>2 DEF Ordered
    <2>2. report' = report /\ ready' = ready
      <3>1. ~ AnnounceReady /\ ~ AnnounceFails
        BY <2>1, OpenIs, StepsAre DEF AnnounceReady, AnnounceFails, Running
      <3>2. ready' = ready
        BY <3>1 DEF Next, Progress, Start, Skip, PlainStep, StepFails, Prepare, CheckCapacity,
             ExecuteRuns, ExecuteEnds, Finalize, Upload, Gate, Conclude, HostActs, Cancel,
             Interrupt, LoseRunner, Concluded, results, job, vars
      <3> QED
        BY <2>1, <3>2, ReportSettles
    <2>3. CASE cur = 20
      <3>1. ~ Open
        BY <2>3, StepCount DEF Open
      <3>2. outcome' = outcome
        BY <3>1, MovesAre DEF Start
      <3>3. (Uploaded' <=> Uploaded) /\ (StepFailed' <=> StepFailed)
        BY <3>2 DEF Uploaded, StepFailed
      <3> QED
        BY <1>0, <1>1, <2>2, <3>2, <3>3 DEF Gated, GateOpens, PreparedPreflight
    <2>4. CASE cur = 19
      <3>1. PICK o \in Past : Open /\ Ends(o)
        BY <2>1, <2>4, MovesAre DEF Start
      <3>2. o = "success" /\ Step = "gate" /\ Assigned(o)
        BY <1>1, <2>4, <3>1, EndsKeepsOrder, StepsAre DEF Assigned
      <3>3. Gate
        BY <2>4, <3>1, <3>2, OutcomesAre
      <3>4. GateOpens(report, mode, ready, Uploaded, StepFailed)
        BY <3>3 DEF Gate
      <3>5. \A s \in SETUP_STEPS \cup Uploads : outcome'[s] = outcome[s]
        <4>1. SETUP_STEPS \cup Uploads \subseteq StepNames
          BY SetupNamed, StepsNamed DEF Uploads
        <4>2. "gate" \notin SETUP_STEPS \cup Uploads
          BY DEF SETUP_STEPS, Uploads
        <4> QED
          BY <3>2, <4>1, <4>2 DEF Assigned, Ordered
      <3>6. (Uploaded' <=> Uploaded) /\ (StepFailed' <=> StepFailed)
        BY <3>5 DEF Uploaded, StepFailed
      <3> QED
        BY <1>0, <2>2, <3>4, <3>6 DEF GateOpens, PreparedPreflight
    <2> QED
      BY <2>1, <2>3, <2>4
  <1>2. \/ conclusion' = conclusion
        \/ conclusion' = "lost"
        \/ /\ cur = 20 /\ UNCHANGED <<cur, outcome>>
           /\ conclusion' = "green" =>
                \A s \in StepNames \ Uploads : outcome[s] \notin Bad
    <2>1. CASE Conclude
      BY <2>1, StepCount DEF Conclude, Ordered
    <2>2. CASE LoseRunner
      BY <2>2 DEF LoseRunner
    <2> QED
      BY <2>1, <2>2 DEF Next, Progress, Start, Skip, PlainStep, StepFails, Prepare, AnnounceReady,
         AnnounceFails, CheckCapacity, ExecuteRuns, ExecuteEnds, Finalize, Upload, Gate,
         HostActs, Cancel, Interrupt, Concluded, Ends, job, vars
  <1>3. cur = 20 => cur' = 20 /\ outcome' = outcome
    <2>1. cur = 20 => ~ Open
      BY StepCount DEF Open
    <2> QED
      BY <2>1, MovesAre DEF Start
  <1>4. {"finalize", "gate"} \subseteq StepNames \ Uploads
    BY StepsNamed DEF Uploads
  <1> QED
    BY <1>1, <1>2, <1>3, <1>4 DEF Gated

-----------------------------------------------------------------------------
(* The invariant                                                           *)

JobInv ==
    /\ Inputs /\ Ordered /\ Known /\ Executed /\ Sent /\ Gated

LEMMA InitJobInv ==
  ASSUME Init
  PROVE  JobInv
  <1>1. Inputs
    BY ModesAssumption, ValidityAssumption DEF Init, Inputs
  <1>2. /\ cur = 1 /\ report = NoReport /\ mem = NoReport /\ stored = NoReport
        /\ pc = "idle" /\ at = 0 /\ judge = Untried /\ open = Proofs /\ merit = "unknown"
        /\ conclusion = "running" /\ outcome = [s \in StepNames |-> "none"]
    BY Zenon DEF Init
  <1>3. ready # "true"
    <2>1. PICK empty : empty = ""
      OBVIOUS
    <2>2. ready = empty /\ empty # "true"
      BY <2>1, Zenon DEF Init
    <2> QED
      BY <2>2
  <1>4. /\ outcome["prepare"] = "none" /\ outcome["capacity"] = "none"
        /\ outcome["execute"] = "none" /\ outcome["finalize"] = "none"
        /\ outcome["upload1"] = "none" /\ outcome["upload2"] = "none"
        /\ outcome["upload3"] = "none" /\ outcome["gate"] = "none"
    BY <1>2, StepsNamed
  <1>5. Ordered
    BY <1>2, <1>4 DEF Ordered, Place, Outcomes
  <1>6. Known
    BY <1>2, <1>3, NoReportIs DEF Known
  <1>7. Executed
    BY <1>2, <1>3, <1>4, NoReportIs DEF Executed, Busy, Past
  <1>8. Sent /\ Gated
    BY <1>2, <1>4 DEF Sent, Gated
  <1> QED
    BY <1>1, <1>5, <1>6, <1>7, <1>8 DEF JobInv

THEOREM JobInvariant == Spec => []JobInv
  <1>1. Init => JobInv
    BY InitJobInv
  <1>2. JobInv /\ [Next]_vars => JobInv'
    BY InputsKept, NextKeepsOrder, NextKeepsKnown, NextKeepsExecuted, NextKeepsSent,
       NextKeepsGated DEF JobInv
  <1> QED
    BY <1>1, <1>2, PTL DEF Spec

\* A green job has delivered the report it was gated on, and that was earned.
THEOREM GreenIsEarned == Spec => []GreenMeansVerified
  <1>1. ASSUME JobInv, conclusion = "green"
        PROVE  /\ Clean /\ stored = report
               /\ mode = "full" => report.status = "pass" /\ judged /\ merit = "sound"
               /\ mode = "correction" => report.status = "pass"
               /\ mode = "preflight" => report.status = "pending" /\ ready = "true"
    <2>1. /\ cur = 20 /\ outcome["gate"] \in Past /\ outcome["gate"] # "skipped"
          /\ outcome["gate"] \notin Bad /\ outcome["execute"] \in Past
      BY <1>1 DEF JobInv, Gated, Sent, Ordered, Place
    <2>2. GateOpens(report, mode, ready, Uploaded, StepFailed)
      BY <1>1, <2>1 DEF JobInv, Gated, Past, Bad
    <2>3. /\ Uploaded /\ ~ StepFailed
          /\ \/ report.status = "pass"
             \/ mode = "preflight" /\ report.status = "pending" /\ ready = "true"
      BY <2>2 DEF GateOpens, PreparedPreflight
    <2>4. stored = report
      BY <1>1, <2>3, UploadedIs DEF JobInv, Sent
    <2>5. outcome["execute"] \notin Bad
      BY <2>3 DEF StepFailed, SETUP_STEPS
    <2>6. Clean
      BY <1>1, <2>3 DEF JobInv, Known
    <2>7. mode = "full" => report.status = "pass" /\ judged /\ merit = "sound"
      BY <1>1, <2>1, <2>3, <2>5 DEF JobInv, Executed
    <2>8. mode = "preflight" => report.status # "pass"
      BY <1>1 DEF JobInv, Known
    <2> QED
      BY <2>3, <2>4, <2>6, <2>7, <2>8
  <1>2. JobInv => GreenMeansVerified
    <2>1. JobInv => mode \in {"full", "preflight", "correction"}
      BY DEF JobInv, Inputs
    <2> QED
      BY <1>1, <2>1 DEF GreenMeansVerified, Clean
  <1> QED
    BY <1>2, JobInvariant, PTL

\* execute returns only with a verdict on disk.
THEOREM ReturnsAreVerdicts == Spec => []ReturnLeavesVerdict
  <1>1. JobInv => ReturnLeavesVerdict
    BY DEF JobInv, Executed, ReturnLeavesVerdict
  <1> QED
    BY <1>1, JobInvariant, PTL

\* A job that ran to its end has delivered its finalized report, unless no upload
\* went through.
THEOREM ReportsAreDelivered == Spec => []ReportIsDelivered
  <1>1. ASSUME JobInv, conclusion \in {"green", "red"}, stored # report
        PROVE  /\ stored = NoReport
               /\ \/ \A u \in Uploads : outcome[u] = "failure"
                  \/ \E u \in Uploads : outcome[u] = "cancelled"
    <2>1. cur = 20 /\ stored = NoReport
      BY <1>1 DEF JobInv, Gated, Sent
    <2>2. /\ outcome["upload1"] \in Past /\ outcome["upload2"] \in Past
          /\ outcome["upload3"] \in Past
      BY <1>1, <2>1 DEF JobInv, Ordered, Place
    <2>3. "success" \notin {outcome["upload1"], outcome["upload2"], outcome["upload3"]}
      BY <1>1 DEF JobInv, Sent
    <2>4. outcome["upload1"] \in {"failure", "cancelled"}
      BY <1>1, <2>2, <2>3 DEF JobInv, Sent, Past
    <2>5. outcome["upload1"] = "failure" => outcome["upload2"] \in {"failure", "cancelled"}
      BY <1>1, <2>2, <2>3 DEF JobInv, Sent, Past
    <2>6. outcome["upload1"] = "failure" /\ outcome["upload2"] = "failure"
            => outcome["upload3"] \in {"failure", "cancelled"}
      BY <1>1, <2>2, <2>3 DEF JobInv, Sent, Past
    <2> QED
      BY <2>1, <2>4, <2>5, <2>6 DEF Uploads
  <1>2. JobInv => ReportIsDelivered
    BY <1>1, Zenon DEF ReportIsDelivered
  <1> QED
    BY <1>2, JobInvariant, PTL

-----------------------------------------------------------------------------
(* What a step never does                                                  *)

\* The steps that write the report.
LEMMA ReportWriters ==
  ASSUME JobInv, [Next]_vars, report' # report
  PROVE  \/ Prepare \/ AnnounceFails \/ CheckCapacity \/ Finalize
         \/ (ExecuteRuns \/ HostActs) /\ outcome["execute"] = "running"
  <1>1. ~ Quiet /\ ~ AnnounceReady
    BY DEF Quiet, AnnounceReady, pipeline
  <1>2. ExecuteRuns \/ HostActs => outcome["execute"] = "running"
    BY DEF ExecuteRuns, HostActs, Running
  <1> QED
    BY <1>1, <1>2, QuietSteps

\* The verifier writes a pass only past its last stage, with every trusted tool
\* still what it was when it was snapshotted.
THEOREM PassesNeedIntactTools == Spec => PassNeedsIntactTools
  <1>1. ASSUME JobInv, [Next]_vars, Busy, report' # report, report'.status = "pass"
        PROVE  at = Complete /\ tools = "intact"
    <2>1. outcome["execute"] = "running"
      BY <1>1 DEF JobInv, Executed
    <2>2. cur = 12
      BY <2>1, <1>1 DEF JobInv, Ordered, Place, Past
    <2>3. ~ (Prepare \/ AnnounceFails \/ CheckCapacity \/ Finalize)
      BY <2>2, StepsAre DEF Prepare, AnnounceFails, CheckCapacity, Finalize, Running
    <2>4. Verifier \/ Host
      BY <1>1, <2>3, ReportWriters DEF ExecuteRuns, HostActs
    <2> QED
      BY <1>1, <2>1, <2>4, PassesAreIntact DEF JobInv, Executed
  <1>2. JobInv /\ [Next]_vars =>
          [Busy /\ report' # report /\ report'.status = "pass"
             => at = Complete /\ tools = "intact"]_pipeline
    BY <1>1
  <1> QED
    BY <1>2, JobInvariant, PTL DEF Spec, PassNeedsIntactTools

\* Once the verifier is done with a valid submission, no later step rewrites its
\* verdict.
THEOREM VerdictsSurvive == Spec => VerdictSurvives
  <1>1. ASSUME JobInv, [Next]_vars, valid, Terminal(report), report' # report
        PROVE  cur <= Len(Steps) /\ Step \in {"prepare", "execute"}
    <2>1. ~ CheckCapacity
      BY <1>1 DEF CheckCapacity, Terminal
    <2>2. ~ Finalize
      BY <1>1 DEF Finalize, Finalized
    <2>3. Running("prepare") \/ Running("execute")
      BY <1>1, <2>1, <2>2, ReportWriters DEF Prepare, AnnounceFails, ExecuteRuns, HostActs
    <2> QED
      BY <2>3 DEF Running, Open
  <1>2. JobInv /\ [Next]_vars =>
          [valid /\ Terminal(report) /\ report' # report
             => cur <= Len(Steps) /\ Step \in {"prepare", "execute"}]_vars
    BY <1>1
  <1> QED
    BY <1>2, JobInvariant, PTL DEF Spec, VerdictSurvives

-----------------------------------------------------------------------------
(* A sound proof is not rejected                                           *)

LEMMA NextSpares ==
  ASSUME MAX_DIAGNOSTICS > 1, JobInv, Spared, [Next]_vars
  PROVE  Spared'
  <1>1. CASE outcome["execute"] = "none"
    <2>1. pc = "idle" /\ merit = "unknown"
      BY <1>1 DEF JobInv, Executed
    <2>2. merit' = merit \/ ((ExecuteRuns \/ HostActs) /\ outcome["execute"] = "running")
      BY DEF Next, Progress, Start, Skip, PlainStep, StepFails, Prepare, AnnounceReady,
         AnnounceFails, CheckCapacity, ExecuteRuns, ExecuteEnds, Finalize, Upload, Gate, Conclude,
         HostActs, Cancel, Interrupt, LoseRunner, Concluded, Running, pipeline, bench, vars
    <2> QED
      BY <1>1, <2>1, <2>2 DEF Spared
  <1>2. CASE outcome["execute"] = "running" /\ (ExecuteRuns \/ HostActs)
    BY <1>2, ExecuteSpares DEF JobInv, Executed, ExecuteRuns, HostActs
  <1>3. CASE outcome["execute"] # "none" /\ ~ (ExecuteRuns \/ HostActs)
    <2>1. outcome["execute"] # "none" => cur >= 12
      BY DEF JobInv, Ordered, Place
    <2>2. merit' = merit /\ mem' \in {mem, NoReport}
      <3>1. CASE Prepare \/ AnnounceReady \/ AnnounceFails \/ CheckCapacity
        BY <3>1 DEF Prepare, AnnounceReady, AnnounceFails, CheckCapacity, pipeline, bench
      <3>2. CASE ~ (Prepare \/ AnnounceReady \/ AnnounceFails \/ CheckCapacity)
        BY <1>3, <3>2 DEF Next, Progress, Start, Skip, PlainStep, StepFails, ExecuteEnds,
           Finalize, Upload, Gate, Conclude, Cancel, Interrupt, LoseRunner, Concluded,
           ProcessGone, pipeline, bench, vars
      <3> QED
        BY <3>1, <3>2
    <2>3. merit = "sound" /\ report'.status = "fail" => report' = report
      <3>1. ASSUME merit = "sound", report' # report PROVE report'.status # "fail"
        <4>1. valid
          BY <3>1 DEF JobInv, Executed
        <4>2. ~ (Prepare \/ AnnounceFails \/ CheckCapacity)
          BY <1>3, <2>1, OpenIs, StepsAre
             DEF Prepare, AnnounceFails, CheckCapacity, Running, JobInv
        <4>3. report' = Finalized(report, valid, mode, ready, StepFailed)
          BY <1>3, <3>1, <4>2, ReportWriters DEF Finalize
        <4>4. report' \in {report, Incomplete}
          BY <4>1, <4>3, FinalizedIs DEF JobInv, Inputs
        <4> QED
          BY <3>1, <4>4, IncompleteIs
      <3> QED
        BY <3>1
    <2>4. NoReport.status # "fail"
      BY NoReportIs
    <2> QED
      BY <2>2, <2>3, <2>4 DEF Spared
  <1>4. ExecuteRuns \/ HostActs => outcome["execute"] = "running"
    BY DEF ExecuteRuns, HostActs, Running
  <1> QED
    BY <1>1, <1>2, <1>3, <1>4

\* With room for more than one diagnostic, a submission that every mandatory kernel
\* accepts is rejected only for what its exporter did.
THEOREM SoundIsSpared ==
  ASSUME MAX_DIAGNOSTICS > 1
  PROVE  Spec => []SoundIsNotRejected
  <1>1. Init => Spared
    <2>1. Init => report = NoReport /\ mem = NoReport
      BY Zenon DEF Init
    <2> QED
      BY <2>1, NoReportIs DEF Spared
  <1>2. JobInv /\ Spared /\ [Next]_vars => Spared'
    BY NextSpares
  <1>3. Spared => SoundIsNotRejected
    BY DEF Spared, SoundIsNotRejected, Exported
  <1> QED
    BY <1>1, <1>2, <1>3, JobInvariant, PTL DEF Spec

-----------------------------------------------------------------------------
(* What preparation leaves in the report                                   *)

LEMMA RunReportsAre ==
  ASSUME NEW r \in RunReports
  PROVE  r \in Reports /\ NamedIn(r.diagnostics) = {}
  BY DEF RunReports, ReportsOf, RunDiagnostics, Reports, NamedIn

LEMMA FewReports ==
  /\ NoReport \in RunReports /\ InvalidInput \in RunReports /\ Incomplete \in RunReports
  <1>1. PICK no \in BOOLEAN : no = FALSE
    OBVIOUS
  <1>2. NoReport = [status |-> "none", errors |-> no, diagnostics |-> {}]
    BY <1>1, Zenon DEF NoReport
  <1>3. NoReport \in RunReports
    BY <1>2 DEF RunReports, ReportsOf, Statuses
  <1>4. PICK base \in RunReports : base = NoReport
    BY <1>3
  <1>5. /\ Recorded(base, "fail", "input", "submitter") \in RunReports
        /\ Recorded(base, "error", "incomplete", "palomar") \in RunReports
    BY ErrorsAre, RecordedRuns
  <1> QED
    BY <1>3, <1>4, <1>5 DEF InvalidInput, Incomplete

\* The report of a submission without issues has nothing to say.
LEMMA CleanReport ==
  ASSUME NEW s, NEW m, Issues(s, m) = <<>>
  PROVE  /\ PreparedReport(s, m) \in RunReports /\ PreparedReport(s, m).status # "fail"
         /\ ~ PreparedReport(s, m).errors
  <1>1. PICK no \in BOOLEAN : no = FALSE
    OBVIOUS
  <1>2. PICK base : base = [status |-> "pending", errors |-> no, diagnostics |-> {}]
    OBVIOUS
  <1>3. Pending = base
    BY <1>1, <1>2, Zenon DEF Pending
  <1>4. PICK status \in {"pass", "pending"} :
          status = IF m = "correction" THEN "pass" ELSE "pending"
    OBVIOUS
  <1>5. PreparedReport(s, m) = [base EXCEPT !.status = status]
    BY <1>3, <1>4, Zenon DEF PreparedReport
  <1>6. base \in RunReports /\ base.errors = no
    BY <1>2 DEF RunReports, ReportsOf, Statuses
  <1>7. status \in Statuses
    BY DEF Statuses
  <1>8. [base EXCEPT !.status = status] \in RunReports
    BY <1>6, <1>7, CopyRuns
  <1>9. /\ [base EXCEPT !.status = status].status = status
        /\ [base EXCEPT !.status = status].errors = base.errors
    BY <1>6 DEF RunReports, ReportsOf
  <1> QED
    BY <1>1, <1>5, <1>6, <1>8, <1>9

\* Preparation gives its reasons, and fails a submission for findings of its own.
LEMMA PreparedTells ==
  ASSUME NEW s \in Submissions, NEW m
  PROVE  Explained(PreparedReport(s, m)) /\ Blames(PreparedReport(s, m))
  <1>1. CASE Issues(s, m) = <<>>
    BY <1>1, CleanReport DEF Explained, Blames
  <1>2. CASE Issues(s, m) # <<>>
    <2>1. Faulted(s, m)
      BY <1>2, PreparationIsFair
    <2>2. PICK r : r = PreparedReport(s, m)
      OBVIOUS
    <2>3. /\ r.diagnostics # {}
          /\ r.status = "fail" => \A d \in r.diagnostics :
               d.owner = "submitter" /\ d.cause \in PreparationFindings \cup {"input"}
      BY <2>1, <2>2 DEF Faulted
    <2>4. "exhaustion" \notin PreparationFindings \cup {"input"}
      BY DEF PreparationFindings
    <2> HIDE DEF PreparationFindings
    <2>5. Explained(r)
      BY <2>3 DEF Explained
    <2>6. Blames(r)
      BY <2>3, <2>4 DEF Blames, Blaming
    <2> QED
      BY <2>2, <2>5, <2>6
  <1> QED
    BY <1>1, <1>2

-----------------------------------------------------------------------------
(* A delivered report is conclusive                                        *)

Final ==
    outcome["finalize"] = "success" =>
        \/ Terminal(report)
        \/ /\ mode = "preflight" /\ report.status = "pending"
           /\ ready = "true" /\ ~ StepFailed

Told == Explained(report) /\ Explained(mem) /\ Final

LEMMA NextKeepsFinal ==
  ASSUME JobInv, Final, [Next]_vars
  PROVE  Final'
  <1>0. mode' = mode /\ Ordered /\ Ordered'
    BY InputsKept, NextKeepsOrder DEF JobInv
  <1>1. ASSUME outcome'["finalize"] = "success", cur > 13 PROVE Final'
    <2>1. outcome["finalize"] = "success"
      <3>1. ASSUME NEW o, Assigned(o) PROVE outcome'["finalize"] = outcome["finalize"]
        BY <1>0, <1>1, <3>1 DEF Assigned, Ordered
      <3>2. \/ outcome' = outcome
            \/ \E o : Assigned(o)
        BY <1>0, MovesAre, EndsKeepsOrder, StartKeepsOrder
      <3> QED
        BY <1>1, <3>1, <3>2
    <2>2. report' = report
      BY <1>0, <1>1, ReportSettles
    <2>3. ready' = ready
      <3>1. ~ AnnounceReady /\ ~ AnnounceFails
        BY <1>0, <1>1, OpenIs, StepsAre DEF AnnounceReady, AnnounceFails, Running
      <3> QED
        BY <3>1 DEF Next, Progress, Start, Skip, PlainStep, StepFails, Prepare, CheckCapacity,
             ExecuteRuns, ExecuteEnds, Finalize, Upload, Gate, Conclude, HostActs, Cancel,
             Interrupt, LoseRunner, Concluded, results, job, vars
    <2>4. StepFailed' <=> StepFailed
      <3>1. \A s \in SETUP_STEPS : outcome'[s] = outcome[s]
        <4>1. CASE outcome' = outcome
          BY <4>1
        <4>2. CASE \E o : Open /\ outcome' = [outcome EXCEPT ![Step] = o]
          <5>1. cur \in {14, 15, 16, 17, 18, 19}
            BY <1>0, <1>1, <4>2, OpenIs
          <5>2. Step \notin SETUP_STEPS
            BY <5>1 DEF Step, Steps, SETUP_STEPS
          <5> QED
            BY <1>0, <4>2, <5>2, SetupNamed DEF Ordered
        <4> QED
          BY <1>0, <4>1, <4>2, MovesAre DEF Start, Ends
      <3> QED
        BY <3>1 DEF StepFailed
    <2> QED
      BY <1>0, <2>1, <2>2, <2>3, <2>4 DEF Final
  <1>2. ASSUME outcome'["finalize"] = "success", cur <= 13 PROVE Final'
    <2>1. outcome["finalize"] # "success"
      BY <1>0, <1>2 DEF Ordered, Place
    <2>2. PICK o \in Past : Open /\ Ends(o)
      BY <1>0, <1>2, <2>1, MovesAre, StartKeepsOrder DEF Assigned
    <2>3. o = "success" /\ cur = 13 /\ Assigned(o)
      BY <1>0, <1>2, <2>1, <2>2, EndsKeepsOrder DEF Assigned
    <2>4. Finalize
      BY <1>0, <2>2, <2>3, OutcomesAre
    <2>5. report' = Finalized(report, valid, mode, ready, StepFailed) /\ ready' = ready
      BY <2>4 DEF Finalize, results
    <2>6. \/ Terminal(report')
          \/ report' = report /\ PreparedPreflight(report, mode, ready, StepFailed)
      <3>1. Terminal(InvalidInput) /\ Terminal(Incomplete)
        BY InvalidInputIs, IncompleteIs DEF Terminal
      <3> QED
        BY <2>5, <3>1 DEF Finalized
    <2>7. StepFailed' <=> StepFailed
      <3>1. outcome["finalize"] \notin Bad /\ outcome'["finalize"] \notin Bad
        BY <1>0, <1>2, <2>3 DEF Ordered, Place, Bad
      <3>2. \A s \in SETUP_STEPS : s # "finalize" => outcome'[s] = outcome[s]
        BY <1>0, <2>3, SetupNamed, StepsAre DEF Assigned, Ordered
      <3> QED
        BY <3>1, <3>2 DEF StepFailed
    <2> QED
      BY <1>0, <2>5, <2>6, <2>7 DEF Final, PreparedPreflight
  <1> QED
    BY <1>0, <1>1, <1>2 DEF Final, Ordered

LEMMA NextExplains ==
  ASSUME mode \in Modes, JobInv, Told, [Next]_vars
  PROVE  Explained(report)' /\ Explained(mem)'
  <1>1. Explained(InvalidInput) /\ Explained(Incomplete) /\ Explained(NoReport)
    <2>1. PICK base : base = NoReport
      OBVIOUS
    <2>2. /\ Recorded(base, "fail", "input", "submitter").diagnostics # {}
          /\ Recorded(base, "error", "incomplete", "palomar").diagnostics # {}
      BY RecordedExplains
    <2>3. ~ NoReport.errors
      BY DEF NoReport
    <2> QED
      BY <2>1, <2>2, <2>3 DEF InvalidInput, Incomplete, Explained
  <1>2. CASE (ExecuteRuns \/ HostActs) /\ outcome["execute"] = "running"
    BY <1>2, ExecuteExplains DEF JobInv, Executed, Told, ExecuteRuns, HostActs
  <1>3. CASE ~ (ExecuteRuns \/ HostActs)
    <2>1. mem' \in {mem, NoReport}
      <3>1. CASE Prepare \/ AnnounceReady \/ AnnounceFails \/ CheckCapacity
        BY <3>1 DEF Prepare, AnnounceReady, AnnounceFails, CheckCapacity, pipeline
      <3>2. CASE ~ (Prepare \/ AnnounceReady \/ AnnounceFails \/ CheckCapacity)
        BY <1>3, <3>2 DEF Next, Progress, Start, Skip, PlainStep, StepFails, ExecuteEnds,
           Finalize, Upload, Gate, Conclude, Cancel, Interrupt, LoseRunner, Concluded,
           ProcessGone, pipeline, vars
      <3> QED
        BY <3>1, <3>2
    <2>2. Explained(report)'
      <3>1. CASE report' = report
        BY <3>1 DEF Told
      <3>2. CASE \E r, s, c, o : report' = Recorded(r, s, c, o)
        BY <3>2, RecordedExplains DEF Explained
      <3>3. CASE Finalize
        BY <1>1, <3>1, <3>3 DEF Finalize, Finalized
      <3>4. CASE AnnounceFails \/ CheckCapacity
        <4>1. report' = report \/ \E r, s, c, o : report' = Recorded(r, s, c, o)
          BY <3>4, Zenon DEF AnnounceFails, CheckCapacity
        <4> QED
          BY <3>1, <3>2, <4>1
      <3>5. CASE Prepare
        <4>1. \/ report' = InvalidInput
              \/ \E s \in Subjects[mode] : report' = PreparedReport(s, mode)
              \/ \E r, s, c, o : report' = Recorded(r, s, c, o)
          BY <3>5, Zenon DEF Prepare
        <4>2. \A s \in Subjects[mode] : Explained(PreparedReport(s, mode))
          BY SubjectsAssumption, PreparedTells
        <4> QED
          BY <1>1, <3>2, <4>1, <4>2
      <3> QED
        BY <1>3, <3>1, <3>3, <3>4, <3>5, ReportWriters
    <2> QED
      BY <1>1, <2>1, <2>2 DEF Told
  <1>4. ExecuteRuns \/ HostActs => outcome["execute"] = "running"
    BY DEF ExecuteRuns, HostActs, Running
  <1> QED
    BY <1>2, <1>3, <1>4

\* Whatever interrupts the run leaves a verdict with a reason in a report that is
\* delivered after finalization, or a prepared preflight of a run that went well.
THEOREM DeliveriesAreConclusive == Spec => []DeliveredIsConclusive
  <1>1. Init => Told /\ mode \in Modes
    <2>1. Init => /\ report = NoReport /\ mem = NoReport /\ mode \in Modes
                  /\ outcome = [s \in StepNames |-> "none"]
      BY Zenon DEF Init
    <2>2. ~ NoReport.errors
      BY DEF NoReport
    <2> QED
      BY <2>1, <2>2, StepsNamed DEF Told, Explained, Final
  <1>2. JobInv /\ Told /\ mode \in Modes /\ [Next]_vars => (Told /\ mode \in Modes)'
    BY NextExplains, NextKeepsFinal, InputsKept DEF JobInv, Told
  <1>3. ASSUME JobInv, Told, outcome["finalize"] = "success", stored # NoReport
        PROVE  \/ stored.status = "pass" /\ valid
               \/ stored.status \in {"fail", "error"} /\ stored.errors /\ stored.diagnostics # {}
               \/ /\ mode = "preflight" /\ stored.status = "pending"
                  /\ ready = "true" /\ ~ StepFailed
    <2>1. stored = report
      BY <1>3 DEF JobInv, Sent
    <2>2. report.status = "pass" => valid
      BY <1>3, Zenon DEF JobInv, Known, Clean
    <2> QED
      BY <1>3, <2>1, <2>2 DEF Told, Final, Terminal, Explained
  <1>4. JobInv /\ Told => DeliveredIsConclusive
    BY <1>3 DEF DeliveredIsConclusive
  <1> QED
    BY <1>1, <1>2, <1>4, JobInvariant, PTL DEF Spec

-----------------------------------------------------------------------------
(* Who is blamed                                                           *)

LEMMA InvalidInputBlames ==
  ASSUME MAX_DIAGNOSTICS > 1
  PROVE  Blames(InvalidInput)
  <1>1. PICK base : base = NoReport
    OBVIOUS
  <1>2. base.diagnostics \subseteq {ToolNote}
    BY <1>1 DEF NoReport
  <1>3. PICK why, who : why = "input" /\ who = "submitter"
    OBVIOUS
  <1>4. /\ \A d \in Recorded(base, "fail", why, who).diagnostics : d.cause # "exhaustion"
        /\ why # "tool" => \E d \in Recorded(base, "fail", why, who).diagnostics :
                              d.cause = why /\ d.owner = who
        /\ \E d \in Recorded(base, "fail", why, who).diagnostics : d.cause = why
    BY <1>2, <1>3, FirstErrorIs
  <1>5. InvalidInput = Recorded(base, "fail", why, who)
    BY <1>1, <1>3 DEF InvalidInput
  <1> QED
    BY <1>3, <1>4, <1>5 DEF Blames, Blaming

\* Preparation's findings apart, no step but execute writes a failure.
LEMMA NextBlames ==
  ASSUME MAX_DIAGNOSTICS > 1,
         mode \in Modes, JobInv, BlameInv, [Next]_vars
  PROVE  BlameInv'
  <1>1. CASE (ExecuteRuns \/ HostActs) /\ outcome["execute"] = "running"
    BY <1>1, ExecuteBlames DEF JobInv, Executed, ExecuteRuns, HostActs
  <1>2. CASE ~ (ExecuteRuns \/ HostActs)
    <2>1. \/ mem' = NoReport /\ tools' = "intact"
          \/ UNCHANGED <<mem, at, tools>>
      <3>1. CASE Prepare \/ AnnounceReady \/ AnnounceFails \/ CheckCapacity
        BY <3>1 DEF Prepare, AnnounceReady, AnnounceFails, CheckCapacity, pipeline
      <3>2. CASE ~ (Prepare \/ AnnounceReady \/ AnnounceFails \/ CheckCapacity)
        BY <1>2, <3>2 DEF Next, Progress, Start, Skip, PlainStep, StepFails, ExecuteEnds,
           Finalize, Upload, Gate, Conclude, Cancel, Interrupt, LoseRunner, Concluded,
           ProcessGone, pipeline, vars
      <3> QED
        BY <3>1, <3>2
    <2>2. Blames(report)'
      <3>1. CASE report' = report
        BY <3>1 DEF BlameInv, Blames
      <3>2. CASE report'.status # "fail"
        BY <3>2 DEF Blames
      <3>3. CASE Finalize
        <4>1. report' \in {InvalidInput, report, Incomplete}
          BY <3>3 DEF Finalize, Finalized
        <4> QED
          BY <3>1, <3>2, <4>1, InvalidInputBlames, IncompleteIs DEF Blames
      <3>4. CASE AnnounceFails \/ CheckCapacity
        <4>1. \/ report' = report
              \/ report' = Recorded(report, "error", "internal", "palomar")
              \/ report' = Recorded(report, "error", "host", "provider")
          BY <3>4 DEF AnnounceFails, CheckCapacity
        <4> QED
          BY <3>1, <3>2, <4>1, ErrorIsRecorded
      <3>5. CASE Prepare
        <4>1. \/ report' = InvalidInput
              \/ \E s \in Subjects[mode] :
                   \/ report' = PreparedReport(s, mode)
                   \/ report' = Recorded(PreparedReport(s, mode), "error", "internal", "palomar")
          BY <3>5, Zenon DEF Prepare
        <4>2. \A s \in Subjects[mode] : Blames(PreparedReport(s, mode))
          BY SubjectsAssumption, PreparedTells
        <4> QED
          BY <3>2, <4>1, <4>2, InvalidInputBlames, ErrorIsRecorded DEF Blames
      <3> QED
        BY <1>2, <3>1, <3>3, <3>4, <3>5, ReportWriters
    <2>3. ~ (NoReport.status = "fail")
      BY DEF NoReport
    <2> QED
      BY <2>1, <2>2, <2>3 DEF BlameInv, Blames, Snapshotted
  <1>3. ExecuteRuns \/ HostActs => outcome["execute"] = "running"
    BY DEF ExecuteRuns, HostActs, Running
  <1> QED
    BY <1>1, <1>2, <1>3

\* With room for more than one diagnostic, a report that fails a submission names
\* the submitter for something a check rejected, whatever ran out, was killed or
\* changed on the way.
THEOREM FailuresAreBlamed ==
  ASSUME MAX_DIAGNOSTICS > 1
  PROVE  Spec => []BlameIsRejection
  <1>1. Init => BlameInv /\ mode \in Modes
    <2>1. Init => report = NoReport /\ mem = NoReport /\ tools = "intact" /\ mode \in Modes
      BY Zenon DEF Init
    <2>2. ~ (NoReport.status = "fail")
      BY DEF NoReport
    <2> QED
      BY <2>1, <2>2 DEF BlameInv, Blames
  <1>2. JobInv /\ BlameInv /\ mode \in Modes /\ [Next]_vars => (BlameInv /\ mode \in Modes)'
    BY NextBlames, InputsKept DEF JobInv
  <1>3. BlameInv => BlameIsRejection
    BY DEF BlameInv, Blames, Blaming, BlameIsRejection
  <1> QED
    BY <1>1, <1>2, <1>3, JobInvariant, PTL DEF Spec

-----------------------------------------------------------------------------
(* The types                                                               *)

LEMMA NothingFoundIs ==
  /\ NothingFound \in Findings
  /\ NothingFound.clean /\ ~ NothingFound.outage /\ ~ NothingFound.overflow
  /\ NothingFound.wrong = {}
  <1>1. PICK yes \in BOOLEAN, no \in BOOLEAN : yes = TRUE /\ no = FALSE
    OBVIOUS
  <1>2. NothingFound = [clean |-> yes, outage |-> no, overflow |-> no,
                        wrong |-> {}, handled |-> no]
    BY <1>1, Zenon DEF NothingFound
  <1>3. NothingFound \in Findings
    BY <1>2 DEF Findings
  <1>4. /\ NothingFound.clean = yes /\ NothingFound.outage = no
        /\ NothingFound.overflow = no /\ NothingFound.wrong = {}
    BY <1>2
  <1> QED
    BY <1>1, <1>3, <1>4

LEMMA FindingIs ==
  ASSUME NEW clean \in BOOLEAN, NEW outage \in BOOLEAN, NEW overflow \in BOOLEAN,
         NEW wrong \in SUBSET Fields, NEW handled \in BOOLEAN, NEW f,
         f = [clean |-> clean, outage |-> outage, overflow |-> overflow,
              wrong |-> wrong, handled |-> handled]
  PROVE  /\ f \in Findings /\ f.clean = clean /\ f.outage = outage
         /\ f.overflow = overflow /\ f.wrong = wrong
  BY DEF Findings

LEMMA FoundIs ==
  ASSUME NEW s \in Submissions, NEW m
  PROVE  /\ Found(s, m) \in Findings
         /\ Found(s, m).clean <=> Issues(s, m) = <<>>
         /\ Found(s, m).outage <=> OwnersOf(Issues(s, m)) \ {"submitter"} # {}
         /\ Found(s, m).overflow <=> Overflows(s, m)
         /\ Found(s, m).wrong = WrongIn(s, m)
  <1> DEFINE clean == Issues(s, m) = <<>>
             outage == OwnersOf(Issues(s, m)) \ {"submitter"} # {}
             overflow == Overflows(s, m)
             handled == ReportedByHandler(s, m)
             wrong == WrongIn(s, m)
  <1>1. Found(s, m) = [clean |-> clean, outage |-> outage, overflow |-> overflow,
                       wrong |-> wrong, handled |-> handled]
    BY Zenon DEF Found, WrongIn
  <1>2. /\ clean \in BOOLEAN /\ outage \in BOOLEAN
        /\ overflow \in BOOLEAN /\ handled \in BOOLEAN
    BY DEF Overflows, ReportedByHandler
  <1>3. wrong \in SUBSET Fields
    BY IssuesNameFields
  <1> HIDE DEF clean, outage, overflow, handled, wrong
  <1>4. /\ Found(s, m) \in Findings
        /\ Found(s, m).clean = clean /\ Found(s, m).outage = outage
        /\ Found(s, m).overflow = overflow /\ Found(s, m).wrong = wrong
    BY <1>1, <1>2, <1>3, FindingIs
  <1> QED
    BY <1>4 DEF clean, outage, overflow, wrong

\* Preparation's report is one, with or without issues.
LEMMA PreparedType ==
  ASSUME NEW s \in Submissions, NEW m
  PROVE  PreparedReport(s, m) \in Reports
  BY CleanReport, RunReportsAre, PreparationIsFair

\* What is added to a report by an error names no field.
LEMMA RecordedNames ==
  ASSUME NEW r \in Reports, NEW s \in Statuses, NEW c \in Causes \ {"metadata"},
         NEW o \in Owners
  PROVE  /\ Recorded(r, s, c, o) \in Reports
         /\ NamedIn(Recorded(r, s, c, o).diagnostics) = NamedIn(r.diagnostics)
  <1>1. Unplaced(c, o) \in RunDiagnostics
    BY RunIssue, Zenon
  <1>2. Unplaced(c, o) \in Diagnostics /\ Unplaced(c, o).cause # "metadata"
    BY <1>1 DEF RunDiagnostics
  <1>3. r.diagnostics \subseteq Diagnostics
    BY DEF Reports
  <1>4. Recorded(r, s, c, o) \in ReportsOf(Diagnostics)
    BY <1>2, <1>3, RecordedType, Zenon
  <1>5. /\ r.diagnostics \subseteq Recorded(r, s, c, o).diagnostics
        /\ Recorded(r, s, c, o).diagnostics \subseteq r.diagnostics \cup {Unplaced(c, o)}
    BY RecordedIs, Zenon DEF Unplaced
  <1>6. NamedIn(Recorded(r, s, c, o).diagnostics) = NamedIn(r.diagnostics)
    <2>1. {e \in Recorded(r, s, c, o).diagnostics : e.cause = "metadata"}
            = {e \in r.diagnostics : e.cause = "metadata"}
      BY <1>2, <1>5
    <2> QED
      BY <2>1, Zenon DEF NamedIn
  <1> QED
    BY <1>4, <1>6 DEF ReportsOf, Reports

\* What the verifier holds, and the report while it runs, says nothing of the
\* metadata.
Kinds ==
    /\ mode \in Modes /\ valid \in Validity
    /\ report \in Reports /\ mem \in RunReports /\ stored \in Reports
    /\ outcome["execute"] = "running" => report \in RunReports
    /\ merit \in {"unknown", "sound", "flawed"}
    /\ tools \in {"intact", "changed", "unreadable"}
    /\ pc \in PCs

\* The history and the outputs of the job.
Outputs ==
    /\ ready \in {"", "true", "false"}
    /\ prepared \in BOOLEAN /\ judged \in BOOLEAN /\ cancelled \in BOOLEAN
    /\ found \in Findings
    /\ conclusion \in {"running", "green", "red", "lost"}

\* Outside execute, the verifier's state only ever goes away.
LEMMA AroundExecute ==
  ASSUME [Next]_vars, ~ (ExecuteRuns \/ HostActs)
  PROVE  /\ mem' \in {mem, NoReport} /\ tools' \in {tools, "intact"} /\ merit' = merit
         /\ pc' \in {pc, "crashed"}
  <1>1. CASE Prepare \/ AnnounceReady \/ AnnounceFails \/ CheckCapacity
    BY <1>1 DEF Prepare, AnnounceReady, AnnounceFails, CheckCapacity, pipeline, bench
  <1>2. CASE ExecuteEnds \/ Interrupt
    BY <1>2 DEF ExecuteEnds, Interrupt, ProcessGone, pipeline, bench
  <1>3. CASE ~ (Prepare \/ AnnounceReady \/ AnnounceFails \/ CheckCapacity \/ ExecuteEnds
                \/ Interrupt)
    BY <1>3 DEF Next, Progress, Start, Skip, PlainStep, StepFails, Finalize, Upload, Gate,
       Conclude, Cancel, LoseRunner, Concluded, pipeline, bench, vars
  <1> QED
    BY <1>1, <1>2, <1>3

\* The report that a step of the job leaves is one.
LEMMA NextTypesReport ==
  ASSUME JobInv, Kinds, [Next]_vars, ~ (ExecuteRuns \/ HostActs)
  PROVE  report' \in Reports
  <1>0. /\ report \in Reports /\ InvalidInput \in Reports /\ Incomplete \in Reports
        /\ \A s \in Subjects[mode] : s \in Submissions
    BY FewReports, RunReportsAre, SubjectsAssumption DEF Kinds
  <1>1. CASE Prepare
    <2>1. \/ report' = InvalidInput
          \/ \E s \in Subjects[mode] :
               \/ report' = PreparedReport(s, mode)
               \/ report' = Recorded(PreparedReport(s, mode), "error", "internal", "palomar")
      BY <1>1, Zenon DEF Prepare
    <2>2. ASSUME NEW s \in Subjects[mode]
          PROVE  /\ PreparedReport(s, mode) \in Reports
                 /\ Recorded(PreparedReport(s, mode), "error", "internal", "palomar") \in Reports
      <3>1. PICK r \in Reports : r = PreparedReport(s, mode)
        BY <1>0, PreparedType
      <3>2. Recorded(r, "error", "internal", "palomar") \in Reports
        BY ErrorsAre, RecordedNames
      <3> QED
        BY <3>1, <3>2
    <2> QED
      BY <1>0, <2>1, <2>2
  <1>2. CASE AnnounceFails \/ CheckCapacity
    <2>1. \/ report' = report
          \/ report' = Recorded(report, "error", "internal", "palomar")
          \/ report' = Recorded(report, "error", "host", "provider")
      BY <1>2 DEF AnnounceFails, CheckCapacity
    <2>2. /\ Recorded(report, "error", "internal", "palomar") \in Reports
          /\ Recorded(report, "error", "host", "provider") \in Reports
      BY <1>0, ErrorsAre, RecordedNames
    <2> QED
      BY <1>0, <2>1, <2>2
  <1>3. CASE Finalize
    <2>1. report' \in {InvalidInput, report, Incomplete}
      BY <1>3 DEF Finalize, Finalized
    <2> QED
      BY <1>0, <2>1
  <1>4. CASE report' = report
    BY <1>0, <1>4
  <1> QED
    BY <1>1, <1>2, <1>3, <1>4, ReportWriters

LEMMA NextKeepsKinds ==
  ASSUME JobInv, Kinds, [Next]_vars
  PROVE  Kinds'
  <1>0. mode' = mode /\ valid' = valid /\ Executed' /\ Ordered /\ Ordered'
    BY InputsKept, NextKeepsOrder, NextKeepsExecuted DEF JobInv
  <1>1. stored' \in {stored, report}
    BY StoredChanges DEF JobInv
  <1>2. CASE ExecuteRuns \/ HostActs
    <2>1. outcome["execute"] = "running" /\ ExecuteInv /\ (Verifier \/ Host)
      BY <1>2 DEF ExecuteRuns, HostActs, Running, JobInv, Executed
    <2>2. RunTypes'
      BY <2>1, ExecuteTypes DEF Kinds, RunTypes
    <2>3. ExecuteInv'
      BY <2>1, ExecuteKeeps
    <2>4. report' \in Reports /\ pc' \in PCs
      BY <2>2, <2>3, RunReportsAre DEF RunTypes, ExecuteInv, Shapes
    <2> QED
      BY <1>0, <1>1, <2>2, <2>4 DEF Kinds, RunTypes
  <1>3. CASE ~ (ExecuteRuns \/ HostActs)
    <2>1. /\ mem' \in {mem, NoReport} /\ tools' \in {tools, "intact"} /\ merit' = merit
          /\ pc' \in {pc, "crashed"}
      BY <1>3, AroundExecute
    <2>2. report' \in Reports
      BY <1>3, NextTypesReport
    <2>3. ASSUME outcome'["execute"] = "running" PROVE report' \in RunReports
      <3>1. CASE outcome["execute"] = "running"
        <4>1. cur = 12
          BY <1>0, <3>1 DEF Ordered, Place, Past
        <4>2. ~ (Prepare \/ AnnounceFails \/ CheckCapacity \/ Finalize)
          BY <4>1, StepsAre DEF Prepare, AnnounceFails, CheckCapacity, Finalize, Running
        <4>3. report' = report
          BY <1>3, <4>2, ReportWriters
        <4> QED
          BY <3>1, <4>3 DEF Kinds
      <3>2. CASE outcome["execute"] # "running"
        <4>1. outcome["execute"] = "none"
          <5>1. cur' = 12 /\ cur' >= cur
            BY <1>0, <2>3, CurGrows DEF Ordered, Place, Past
          <5> QED
            BY <1>0, <3>2, <5>1 DEF Ordered, Place
        <4>2. pc = "idle"
          BY <4>1 DEF JobInv, Executed
        <4>3. ExecuteInv'
          BY <1>0, <2>3 DEF Executed
        <4>4. pc' \notin {"crashed"}
          <5>1. CASE Interrupt
            <6>1. outcome'["execute"] # "running"
              <7>1. Assigned("cancelled")
                BY <1>0, <5>1, EndsKeepsOrder DEF Interrupt, Past
              <7> QED
                BY <3>2, <7>1 DEF Assigned
            <6> QED
              BY <2>3, <6>1
          <5>2. CASE ~ Interrupt
            <6>1. pc' = pc
              <7>1. CASE Prepare \/ AnnounceReady \/ AnnounceFails \/ CheckCapacity
                BY <7>1 DEF Prepare, AnnounceReady, AnnounceFails, CheckCapacity, pipeline
              <7>2. CASE ~ (Prepare \/ AnnounceReady \/ AnnounceFails \/ CheckCapacity)
                BY <1>3, <5>2, <7>2 DEF Next, Progress, Start, Skip, PlainStep, StepFails,
                   ExecuteEnds, Finalize, Upload, Gate, Conclude, Cancel, LoseRunner,
                   Concluded, pipeline, vars
              <7> QED
                BY <7>1, <7>2
            <6> QED
              BY <4>2, <6>1
          <5> QED
            BY <5>1, <5>2
        <4>5. report'.diagnostics = {}
          BY <2>1, <4>2, <4>3, <4>4 DEF ExecuteInv, HandedOver
        <4> QED
          BY <2>2, <4>5 DEF Reports, RunReports, ReportsOf
      <3> QED
        BY <3>1, <3>2
    <2> QED
      BY <1>0, <1>1, <2>1, <2>2, <2>3, FewReports DEF Kinds, PCs
  <1> QED
    BY <1>2, <1>3

\* found changes with Prepare alone.
LEMMA FoundChanges ==
  ASSUME [Next]_vars
  PROVE  \/ UNCHANGED <<prepared, found>>
         \/ Prepare
  BY DEF Next, Progress, Start, Skip, PlainStep, StepFails, AnnounceReady, AnnounceFails,
         CheckCapacity, ExecuteRuns, ExecuteEnds, Finalize, Upload, Gate, Conclude, HostActs,
         Cancel, Interrupt, LoseRunner, Concluded, results, job, vars

LEMMA PrepareFinds ==
  ASSUME Prepare, Kinds
  PROVE  /\ prepared' = TRUE
         /\ \/ ~ valid /\ report' = InvalidInput /\ found' = found
            \/ /\ valid
               /\ \E s \in Submissions :
                    /\ found' = Found(s, mode)
                    /\ \/ report' = PreparedReport(s, mode)
                       \/ report' = Recorded(PreparedReport(s, mode), "error", "internal", "palomar")
  <1>1. mode \in Modes
    BY DEF Kinds
  <1>2. \A s \in Subjects[mode] : s \in Submissions
    BY <1>1, SubjectsAssumption
  <1>3. CASE ~ valid
    BY <1>3, Zenon DEF Prepare
  <1>4. CASE valid
    <2>1. PICK s \in Subjects[mode] :
            /\ found' = Found(s, mode)
            /\ \/ report' = PreparedReport(s, mode)
               \/ report' = Recorded(PreparedReport(s, mode), "error", "internal", "palomar")
      BY <1>4, Zenon DEF Prepare
    <2>2. s \in Submissions
      BY <1>2
    <2>3. prepared' = TRUE
      BY Zenon DEF Prepare
    <2> QED
      BY <1>4, <2>1, <2>2, <2>3, Zenon
  <1> QED
    BY <1>3, <1>4

LEMMA NextKeepsOutputs ==
  ASSUME Kinds, Outputs, [Next]_vars
  PROVE  Outputs'
  <1>1. found' \in Findings /\ prepared' \in BOOLEAN
    <2>1. CASE Prepare
      BY <2>1, PrepareFinds, FoundIs DEF Outputs
    <2> QED
      BY <2>1, FoundChanges DEF Outputs
  <1>2. ready' \in {ready, "true", "false"}
    <2>1. CASE AnnounceReady
      BY <2>1 DEF AnnounceReady, Announced
    <2>2. CASE AnnounceFails
      BY <2>2, Zenon DEF AnnounceFails
    <2>3. CASE ~ AnnounceReady /\ ~ AnnounceFails
      BY <2>3 DEF Next, Progress, Start, Skip, PlainStep, StepFails, Prepare, CheckCapacity,
         ExecuteRuns, ExecuteEnds, Finalize, Upload, Gate, Conclude, HostActs, Cancel,
         Interrupt, LoseRunner, Concluded, results, job, vars
    <2> QED
      BY <2>1, <2>2, <2>3
  <1>3. judged' \in BOOLEAN
    <2>1. CASE ExecuteEnds
      BY <2>1 DEF ExecuteEnds
    <2>2. CASE ~ ExecuteEnds
      BY <2>2 DEF Outputs, Next, Progress, Start, Skip, PlainStep, StepFails, Prepare,
         AnnounceReady, AnnounceFails, CheckCapacity, ExecuteRuns, Finalize, Upload, Gate,
         Conclude, HostActs, Cancel, Interrupt, LoseRunner, Concluded, results, job, vars
    <2> QED
      BY <2>1, <2>2
  <1>4. cancelled' \in BOOLEAN /\ conclusion' \in {conclusion, "green", "red", "lost"}
    BY DEF Outputs, Next, Progress, Start, Skip, PlainStep, StepFails, Prepare,
       AnnounceReady, AnnounceFails, CheckCapacity, ExecuteRuns, ExecuteEnds, Finalize, Upload,
       Gate, Conclude, HostActs, Cancel, Interrupt, LoseRunner, Concluded, Ends, job, vars
  <1>5. ready' \in {"", "true", "false"}
    <2>1. PICK none : none = ""
      OBVIOUS
    <2>2. ready \in {none, "true", "false"}
      BY <2>1, Zenon DEF Outputs
    <2>3. ready' \in {none, "true", "false"}
      BY <1>2, <2>2
    <2> QED
      BY <2>1, <2>3, Zenon
  <1>6. conclusion' \in {"running", "green", "red", "lost"}
    <2>1. conclusion \in {"running", "green", "red", "lost"}
      BY Zenon DEF Outputs
    <2> QED
      BY <1>4, <2>1
  <1> QED
    BY <1>1, <1>3, <1>4, <1>5, <1>6, Zenon DEF Outputs

LEMMA InitTypes ==
  ASSUME Init
  PROVE  Kinds /\ Outputs
  <1>1. /\ mode \in Modes /\ valid \in Validity
        /\ report = NoReport /\ mem = NoReport /\ stored = NoReport
        /\ merit = "unknown" /\ tools = "intact" /\ pc = "idle"
    BY Zenon DEF Init
  <1>2. Kinds
    BY <1>1, FewReports, RunReportsAre DEF Kinds, PCs
  <1>3. /\ ready = "" /\ prepared = FALSE /\ judged = FALSE /\ cancelled = FALSE
        /\ found = NothingFound /\ conclusion = "running"
    BY Zenon DEF Init
  <1>4. Outputs
    BY <1>3, NothingFoundIs, Zenon DEF Outputs
  <1> QED
    BY <1>2, <1>4

LEMMA TypesInvariant == Spec => [](JobInv /\ Kinds /\ Outputs)
  <1>1. Init => Kinds /\ Outputs
    BY InitTypes
  <1>2. JobInv /\ Kinds /\ Outputs /\ [Next]_vars => (Kinds /\ Outputs)'
    BY NextKeepsKinds, NextKeepsOutputs
  <1> QED
    BY <1>1, <1>2, JobInvariant, PTL DEF Spec

\* Every variable of the job and of the verifier in it keeps its type.
THEOREM JobTypes == Spec => []Typed
  <1>1. ASSUME JobInv, Kinds, Outputs PROVE Typed
    <2>1. /\ at \in 0 .. Complete /\ judge \in Judges /\ open \subseteq Proofs
      <3>1. CASE outcome["execute"] = "running"
        BY <1>1, <3>1 DEF JobInv, Executed, ExecuteInv, Shapes
      <3>2. CASE outcome["execute"] # "running"
        <4>1. at = 0 /\ judge = Untried /\ open = Proofs
          BY <1>1, <3>2 DEF JobInv, Executed
        <4>2. Untried \in Judges
          BY DEF Untried, Judges
        <4> QED
          BY <4>1, <4>2 DEF Complete
      <3> QED
        BY <3>1, <3>2
    <2>2. TypeOK
      BY <1>1, <2>1, RunReportsAre DEF TypeOK, Kinds
    <2>3. cur \in 1 .. Len(Steps) + 1 /\ outcome \in [StepNames -> Outcomes]
      BY <1>1, StepCount DEF JobInv, Ordered
    <2> QED
      BY <1>1, <2>2, <2>3, Zenon DEF Typed, Kinds, Outputs
  <1>2. JobInv /\ Kinds /\ Outputs => Typed
    BY <1>1
  <1> QED
    BY <1>2, TypesInvariant, PTL

-----------------------------------------------------------------------------
(* What becomes of preparation's findings                                  *)

\* What the report on disk says of the issues that prepare came to.
Recalled ==
    /\ NamedIn(report.diagnostics) \subseteq found.wrong
    /\ ~ found.overflow =>
         /\ found.wrong \cap RequiredFields \subseteq NamedIn(report.diagnostics)
         /\ found.outage => report.status # "fail"

\* Nothing is found before prepare and of invalid inputs; and once something is,
\* there is a verdict.
Remembered ==
    /\ ~ prepared \/ ~ valid => found = NothingFound
    /\ found.clean => ~ found.outage /\ found.wrong \cap RequiredFields = {}
    /\ ~ found.clean => Terminal(report)
    /\ Recalled

\* When nothing was found, any report will do that names no field.
LEMMA CleanRecalls ==
  ASSUME found'.clean, ~ found'.outage, found'.wrong \cap RequiredFields = {},
         NamedIn(report'.diagnostics) = {}
  PROVE  Recalled'
  BY DEF Recalled

LEMMA PrepareRemembers ==
  ASSUME Kinds, Remembered, Prepare, valid' = valid
  PROVE  Remembered'
  <1>1. CASE ~ valid
    <2>1. found' = NothingFound /\ report' = InvalidInput
      BY <1>1, PrepareFinds DEF Remembered
    <2>2. NamedIn(report'.diagnostics) = {}
      BY <2>1, FewReports, RunReportsAre
    <2>3. found'.clean /\ ~ found'.outage /\ found'.wrong = {}
      BY <2>1, NothingFoundIs
    <2> QED
      BY <1>1, <2>1, <2>2, <2>3, CleanRecalls DEF Remembered
  <1>2. CASE valid
    <2>1. PICK s \in Submissions :
            /\ found' = Found(s, mode)
            /\ \/ report' = PreparedReport(s, mode)
               \/ report' = Recorded(PreparedReport(s, mode), "error", "internal", "palomar")
      BY <1>2, PrepareFinds
    <2>2. prepared'
      BY PrepareFinds
    <2> DEFINE r == PreparedReport(s, mode)
    <2>3. /\ found'.clean <=> Issues(s, mode) = <<>>
          /\ found'.outage <=> OwnersOf(Issues(s, mode)) \ {"submitter"} # {}
          /\ found'.overflow <=> Overflows(s, mode)
          /\ found'.wrong = WrongIn(s, mode)
      BY <2>1, FoundIs
    <2>4. r \in Reports
      BY PreparedType
    <2> HIDE DEF r
    <2>5. \/ report' = r
          \/ /\ NamedIn(report'.diagnostics) = NamedIn(r.diagnostics)
             /\ report'.status = "error" /\ report'.errors
      <3>1. /\ NamedIn(Recorded(r, "error", "internal", "palomar").diagnostics)
                 = NamedIn(r.diagnostics)
            /\ Recorded(r, "error", "internal", "palomar").status = "error"
            /\ Recorded(r, "error", "internal", "palomar").errors
        BY <2>4, RecordedNames, ErrorIsRecorded, ErrorsAre
      <3> QED
        BY <2>1, <3>1 DEF r
    <2>6. CASE Issues(s, mode) = <<>>
      <3>1. r \in RunReports
        BY <2>6, CleanReport DEF r
      <3>2. NamedIn(report'.diagnostics) = {}
        BY <2>5, <3>1, RunReportsAre
      <3>3. OwnersOf(Issues(s, mode)) = {}
        BY <2>6 DEF OwnersOf
      <3>4. WrongIn(s, mode) \cap RequiredFields = {}
        BY <2>6, IssuesNameFields, NoneIsPlain DEF Plain
      <3> QED
        BY <1>2, <2>2, <2>3, <2>6, <3>2, <3>3, <3>4, CleanRecalls DEF Remembered
    <2>7. CASE Issues(s, mode) # <<>>
      <3>1. Faulted(s, mode)
        BY <2>7, PreparationIsFair
      <3>2. /\ r.status \in {"fail", "error"} /\ r.errors
            /\ ~ Overflows(s, mode) /\ OwnersOf(Issues(s, mode)) \ {"submitter"} # {} =>
                 r.status # "fail"
            /\ NamedIn(r.diagnostics) \subseteq WrongIn(s, mode)
            /\ ~ Overflows(s, mode) =>
                 WrongIn(s, mode) \cap RequiredFields \subseteq NamedIn(r.diagnostics)
        BY <3>1, Zenon DEF Faulted, r
      <3>3. Terminal(report')
        BY <2>5, <3>2 DEF Terminal
      <3>4. Recalled'
        BY <2>3, <2>5, <3>2 DEF Recalled
      <3> QED
        BY <1>2, <2>2, <2>3, <2>7, <3>3, <3>4 DEF Remembered
    <2> QED
      BY <2>6, <2>7
  <1> QED
    BY <1>1, <1>2

\* An error recorded on top of the findings keeps all that was recorded of them.
LEMMA ErrorRemembers ==
  ASSUME Kinds, Remembered, UNCHANGED <<valid, prepared, found>>,
         NEW c \in Causes \ {"metadata"}, NEW o \in Owners,
         report' = Recorded(report, "error", c, o)
  PROVE  Remembered'
  <1>1. NamedIn(report'.diagnostics) = NamedIn(report.diagnostics)
    BY RecordedNames, ErrorsAre DEF Kinds
  <1>2. report'.status = "error" /\ report'.errors
    BY ErrorIsRecorded
  <1>3. Terminal(report')
    BY <1>2 DEF Terminal
  <1>4. Recalled'
    BY <1>1, <1>2 DEF Remembered, Recalled
  <1> QED
    BY <1>3, <1>4 DEF Remembered

LEMMA NextRemembers ==
  ASSUME JobInv, Kinds, Kinds', Remembered, [Next]_vars
  PROVE  Remembered'
  <1>0. valid' = valid
    BY InputsKept DEF JobInv
  <1>1. CASE Prepare
    BY <1>0, <1>1, PrepareRemembers
  <1>2. CASE ~ Prepare
    <2>1. UNCHANGED <<prepared, found>>
      BY <1>2, FoundChanges
    <2>2. CASE report' = report
      BY <1>0, <2>1, <2>2 DEF Remembered, Recalled
    <2>3. CASE AnnounceFails \/ CheckCapacity
      <3>1. \/ report' = report
            \/ report' = Recorded(report, "error", "internal", "palomar")
            \/ report' = Recorded(report, "error", "host", "provider")
        BY <2>3 DEF AnnounceFails, CheckCapacity
      <3> QED
        BY <1>0, <2>1, <2>2, <3>1, ErrorRemembers, ErrorsAre
    <2>4. CASE Finalize
      <3>1. report' = Finalized(report, valid, mode, ready, StepFailed)
        BY <2>4 DEF Finalize
      <3>2. CASE ~ valid
        <4>1. report' = InvalidInput /\ found' = NothingFound
          BY <2>1, <3>1, <3>2, FinalizedIs DEF Remembered, JobInv, Inputs
        <4>2. NamedIn(report'.diagnostics) = {}
          BY <4>1, FewReports, RunReportsAre
        <4>3. found'.clean /\ ~ found'.outage /\ found'.wrong = {}
          BY <4>1, NothingFoundIs
        <4> QED
          BY <1>0, <3>2, <4>1, <4>2, <4>3, CleanRecalls DEF Remembered
      <3>3. CASE valid /\ report' # report
        <4>1. report' = Incomplete /\ ~ Terminal(report)
          <5>1. PICK failed : failed = StepFailed
            OBVIOUS
          <5>2. report' = Finalized(report, valid, mode, ready, failed)
            BY <3>1, <5>1
          <5>3. valid \in BOOLEAN
            BY DEF JobInv, Inputs
          <5>4. /\ valid => Finalized(report, valid, mode, ready, failed) \in {report, Incomplete}
                /\ valid /\ Terminal(report) =>
                     Finalized(report, valid, mode, ready, failed) = report
            BY <5>3, FinalizedIs
          <5> QED
            BY <3>3, <5>2, <5>4
        <4>2. found.clean
          BY <4>1 DEF Remembered
        <4>3. NamedIn(report'.diagnostics) = {}
          BY <4>1, FewReports, RunReportsAre
        <4>4. /\ found'.clean /\ ~ found'.outage /\ found'.wrong \cap RequiredFields = {}
          BY <2>1, <4>2 DEF Remembered
        <4> QED
          BY <1>0, <2>1, <4>3, <4>4, CleanRecalls DEF Remembered
      <3> QED
        BY <2>2, <3>2, <3>3
    <2>5. CASE (ExecuteRuns \/ HostActs) /\ outcome["execute"] = "running"
      <3>1. outcome' = outcome
        BY <2>5 DEF ExecuteRuns, HostActs, job
      <3>2. NamedIn(report'.diagnostics) = {}
        BY <2>5, <3>1, RunReportsAre DEF Kinds
      <3>3. found.clean
        BY <2>5 DEF JobInv, Executed, Known, Clean
      <3>4. /\ found'.clean /\ ~ found'.outage /\ found'.wrong \cap RequiredFields = {}
        BY <2>1, <3>3 DEF Remembered
      <3> QED
        BY <1>0, <2>1, <3>2, <3>4, CleanRecalls DEF Remembered
    <2> QED
      BY <1>2, <2>2, <2>3, <2>4, <2>5, ReportWriters
  <1> QED
    BY <1>1, <1>2

LEMMA FindingsInvariant == Spec => []Remembered
  <1>1. Init => Remembered
    <2>1. Init => found = NothingFound /\ report = NoReport
      BY Zenon DEF Init
    <2>2. NamedIn(NoReport.diagnostics) = {}
      BY FewReports, RunReportsAre
    <2> QED
      BY <2>1, <2>2, NothingFoundIs DEF Remembered, Recalled
  <1>2. JobInv /\ Kinds /\ Remembered /\ [Next]_vars => Remembered'
    BY NextKeepsKinds, NextRemembers
  <1> QED
    BY <1>1, <1>2, TypesInvariant, PTL DEF Spec

\* A check that could not be made never leaves a rejection, whatever else is wrong
\* with the submission and whatever happens to the run, as long as the report has
\* room for every issue.
THEOREM OutagesNeverReject == Spec => []RecordedOutageNeverRejects
  <1>1. Remembered => RecordedOutageNeverRejects
    BY DEF Remembered, Recalled, RecordedOutageNeverRejects, OutageNeverRejects
  <1> QED
    BY <1>1, FindingsInvariant, PTL

\* The report names every required metadata field that is missing or invalid, if it
\* has room for every issue, and never one in order; no later step loses one.
THEOREM FieldsStayNamed == Spec => []FieldsAreNamed
  <1>1. Remembered => FieldsAreNamed
    BY DEF Remembered, Recalled, FieldsAreNamed, NamedIn
  <1> QED
    BY <1>1, FindingsInvariant, PTL
=============================================================================
