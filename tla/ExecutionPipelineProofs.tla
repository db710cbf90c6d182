---------------------- MODULE ExecutionPipelineProofs ----------------------
(***************************************************************************)
(* What holds of ExecutionPipeline in every step of the verifier and of    *)
(* its host, for every cap of the report and every trouble: what an        *)
(* accepted preflight says of the tools, what a verdict says of a proof,   *)
(* and what the report on disk says of both.  SubmissionWorkflowProofs     *)
(* runs it inside the job.                                                 *)
(***************************************************************************)
EXTENDS ExecutionPipeline, FiniteSetTheorems, TLAPS

-----------------------------------------------------------------------------
(* The tools and what they find                                            *)

\* The control with the wrong statement comes out only if statements are compared,
\* the one with a forbidden axiom only if axioms are checked.
LEMMA PreflightedToolsCompare ==
  ASSUME NEW j \in Judges, PreflightAccepts(j)
  PROVE  j.statements /\ j.axioms
  <1>1. ASSUME ~ j.statements PROVE FALSE
    <2>1. PICK luck \in Lucks : "comparison" \in ComparatorRun(j, "mismatch", luck).says
      BY DEF PreflightAccepts, FoundAgainst
    <2>2. "comparison" \notin Finds(j, "mismatch", luck)
      BY <1>1 DEF Finds
    <2> QED
      BY <2>1, <2>2 DEF ComparatorRun
  <1>2. ASSUME ~ j.axioms PROVE FALSE
    <2>1. PICK luck \in Lucks : "axiom" \in ComparatorRun(j, "axiom", luck).says
      BY DEF PreflightAccepts, FoundAgainst
    <2>2. "axiom" \notin Finds(j, "axiom", luck)
      BY <1>2 DEF Finds
    <2> QED
      BY <2>1, <2>2 DEF ComparatorRun
  <1> QED
    BY <1>1, <1>2

\* Whatever happens to its run, a comparator with a check of its own for it never
\* lets an unsound proof pass.
LEMMA ComparatorStopsUnsound ==
  ASSUME NEW j \in Judges, j.statements, j.axioms, NEW luck \in Lucks,
         NEW p \in {"mismatch", "axiom", "ill-typed", "disputed"}
  PROVE  ComparatorVerdict(ComparatorRun(j, p, luck)) # "none"
  <1>1. Finds(j, p, luck) # {}
    <2>1. CASE p = "mismatch"
      BY <2>1 DEF Finds
    <2>2. CASE p = "axiom"
      BY <2>2 DEF Finds
    <2>3. CASE p \in {"ill-typed", "disputed"}
      <3>1. "nanoda" \in Finds(j, p, luck)
        BY <2>3 DEF Finds
      <3> QED
        BY <3>1
    <2> QED
      BY <2>1, <2>2, <2>3
  <1>2. ComparatorRun(j, p, luck).exit # 0
    BY <1>1 DEF ComparatorRun
  <1> QED
    BY <1>2 DEF ComparatorVerdict

\* Of a sound proof, the only verdict against the submission is that the exporter
\* did not get through it.
LEMMA SoundProofsAreNotFoundAgainst ==
  ASSUME NEW j \in Judges, NEW luck \in Lucks, NEW p \in SoundProofs,
         NEW stage \in JudgedStages, Verdict(stage, j, p, luck) \in SubmitterVerdicts
  PROVE  Verdict(stage, j, p, luck) = "export_failed"
  <1>1. p \in {"valid", "unsupported", "refuted"}
    BY DEF SoundProofs
  <1>2. CASE stage = "challenge-export"
    BY <1>1, <1>2 DEF Verdict, ChallengeExport, SubmitterVerdicts
  <1>3. CASE stage = "solution-build"
    BY <1>1, <1>3 DEF Verdict, SolutionBuild, SubmitterVerdicts
  <1>4. CASE stage = "solution-export"
    BY <1>1, <1>4 DEF Verdict, SolutionExport, SubmitterVerdicts
  <1>5. CASE stage = "comparator"
    <2>1. Finds(j, p, luck) \cap {"axiom", "comparison", "lean"} = {}
      BY <1>1 DEF Finds
    <2>2. ComparatorRun(j, p, luck).says \cap {"axiom", "comparison", "lean"} = {}
      BY <2>1 DEF ComparatorRun
    <2>3. ComparatorVerdict(ComparatorRun(j, p, luck)) \notin {"illegal_axiom", "rejected"}
      BY <2>2 DEF ComparatorVerdict
    <2> QED
      BY <1>5, <2>3 DEF Verdict, SubmitterVerdicts, ComparatorVerdict
  <1>6. CASE stage = "con-ron"
    BY <1>6 DEF Verdict, Replay, SubmitterVerdicts
  <1> QED
    BY <1>2, <1>3, <1>4, <1>5, <1>6 DEF JudgedStages

-----------------------------------------------------------------------------
(* Reports                                                                 *)

IsReport(r) == \E s, e, d : r = [status |-> s, errors |-> e, diagnostics |-> d]

\* A diagnostic more, or no more than there were.
LEMMA DiagnosedIs ==
  ASSUME NEW s, NEW e, NEW d, NEW issue, NEW base,
         base = [status |-> s, errors |-> e, diagnostics |-> d]
  PROVE  \E more : /\ Diagnosed(base, issue) = [status |-> s, errors |-> e, diagnostics |-> more]
                   /\ d \subseteq more /\ more \subseteq d \cup {issue}
  <1>1. CASE Diagnosed(base, issue) = base
    BY <1>1
  <1>2. CASE Diagnosed(base, issue) = [base EXCEPT !.diagnostics = @ \cup {issue}]
    <2>1. [base EXCEPT !.diagnostics = @ \cup {issue}]
            = [status |-> s, errors |-> e, diagnostics |-> d \cup {issue}]
      OBVIOUS
    <2> QED
      BY <1>2, <2>1
  <1> QED
    BY <1>1, <1>2 DEF Diagnosed

\* Recording an error sets the status and loses nothing; what it adds has its cause.
LEMMA RecordedIs ==
  ASSUME NEW r, NEW s, NEW c, NEW o
  PROVE  /\ IsReport(Recorded(r, s, c, o))
         /\ Recorded(r, s, c, o).status = s
         /\ Recorded(r, s, c, o).errors
         /\ r.diagnostics \subseteq Recorded(r, s, c, o).diagnostics
         /\ Recorded(r, s, c, o).diagnostics
              \subseteq r.diagnostics \cup {[cause |-> c, field |-> "", owner |-> o]}
  <1>0. PICK yes, issue : yes = TRUE /\ issue = [cause |-> c, field |-> "", owner |-> o]
    OBVIOUS
  <1>1. PICK base : base = [status |-> s, errors |-> yes, diagnostics |-> r.diagnostics]
    OBVIOUS
  <1>2. Recorded(r, s, c, o) = Diagnosed(base, issue)
    BY <1>0, <1>1, Zenon DEF Recorded
  <1>3. PICK more :
          /\ Recorded(r, s, c, o) = [status |-> s, errors |-> yes, diagnostics |-> more]
          /\ r.diagnostics \subseteq more /\ more \subseteq r.diagnostics \cup {issue}
    BY <1>1, <1>2, DiagnosedIs
  <1>4. IsReport(Recorded(r, s, c, o))
    BY <1>3, Zenon DEF IsReport
  <1>5. /\ Recorded(r, s, c, o).status = s /\ Recorded(r, s, c, o).errors = yes
        /\ Recorded(r, s, c, o).diagnostics = more
    BY <1>3
  <1> QED
    BY <1>0, <1>3, <1>4, <1>5, Zenon

LEMMA ErrorIsRecorded ==
  ASSUME NEW r, NEW cause, NEW owner
  PROVE  /\ IsReport(Recorded(r, "error", cause, owner))
         /\ Recorded(r, "error", cause, owner).status = "error"
         /\ Recorded(r, "error", cause, owner).errors
  <1>1. /\ IsReport(Recorded(r, "error", cause, owner))
        /\ Recorded(r, "error", cause, owner).status = "error"
        /\ Recorded(r, "error", cause, owner).errors
        /\ r.diagnostics \subseteq Recorded(r, "error", cause, owner).diagnostics
        /\ Recorded(r, "error", cause, owner).diagnostics
             \subseteq r.diagnostics \cup {[cause |-> cause, field |-> "", owner |-> owner]}
    BY RecordedIs, Zenon
  <1> QED
    BY <1>1

\* Below the cap, an error leaves a diagnostic of its cause.
LEMMA RecordedSays ==
  ASSUME NEW r, NEW s, NEW c, NEW o,
         ~ (Cardinality(r.diagnostics) >= MAX_DIAGNOSTICS)
  PROVE  \E d \in Recorded(r, s, c, o).diagnostics : d.cause = c
  <1> DEFINE issue == [cause |-> c, field |-> "", owner |-> o]
  <1>0. PICK yes : yes = TRUE
    OBVIOUS
  <1>1. PICK base : base = [status |-> s, errors |-> yes, diagnostics |-> r.diagnostics]
    OBVIOUS
  <1>2. Recorded(r, s, c, o) = Diagnosed(base, issue)
    BY <1>0, <1>1, Zenon DEF Recorded
  <1>3. base.diagnostics = r.diagnostics
    BY <1>1
  <1>4. CASE \E d \in r.diagnostics : d.cause = c /\ d.field = ""
    <2>1. Diagnosed(base, issue) = base
      BY <1>3, <1>4 DEF Diagnosed
    <2> QED
      BY <1>2, <1>3, <1>4, <2>1
  <1>5. CASE ~ \E d \in r.diagnostics : d.cause = c /\ d.field = ""
    <2>1. Diagnosed(base, issue) = [base EXCEPT !.diagnostics = @ \cup {issue}]
      BY <1>3, <1>5 DEF Diagnosed
    <2>2. issue \in [base EXCEPT !.diagnostics = @ \cup {issue}].diagnostics
      BY <1>1
    <2>3. issue \in Recorded(r, s, c, o).diagnostics
      BY <1>2, <2>1, <2>2
    <2>4. issue.cause = c
      OBVIOUS
    <2> HIDE DEF issue
    <2> QED
      BY <2>3, <2>4
  <1> QED
    BY <1>4, <1>5

\* guarded_write's report is the verifier's, or an error that says so.
LEMMA GuardedIs ==
  ASSUME NEW r, IsReport(r)
  PROVE  /\ IsReport(Guarded(r))
         /\ Guarded(r) = r \/ (Guarded(r).status = "error" /\ Guarded(r).errors)
         /\ Guarded(r).status = "pass" => SnapshotHolds
         /\ Guarded(r).diagnostics
              \subseteq r.diagnostics
                        \cup {[cause |-> "tool", field |-> "", owner |-> "palomar"]}
         /\ r.diagnostics \subseteq Guarded(r).diagnostics
  <1>1. CASE SnapshotHolds
    <2>1. Guarded(r) = r
      BY <1>1 DEF Guarded
    <2> QED
      BY <1>1, <2>1, Zenon
  <1>2. CASE ~ SnapshotHolds
    <2>1. Guarded(r) = Recorded(r, "error", "tool", "palomar")
      BY <1>2 DEF Guarded
    <2>2. /\ IsReport(Guarded(r)) /\ Guarded(r).status = "error" /\ Guarded(r).errors
          /\ r.diagnostics \subseteq Guarded(r).diagnostics
          /\ Guarded(r).diagnostics
               \subseteq r.diagnostics
                         \cup {[cause |-> "tool", field |-> "", owner |-> "palomar"]}
      <3>1. /\ IsReport(Recorded(r, "error", "tool", "palomar"))
            /\ Recorded(r, "error", "tool", "palomar").status = "error"
            /\ Recorded(r, "error", "tool", "palomar").errors
            /\ r.diagnostics \subseteq Recorded(r, "error", "tool", "palomar").diagnostics
            /\ Recorded(r, "error", "tool", "palomar").diagnostics
                 \subseteq r.diagnostics
                           \cup {[cause |-> "tool", field |-> "", owner |-> "palomar"]}
        BY RecordedIs
      <3> QED
        BY <2>1, <3>1
    <2> QED
      BY <2>2
  <1> QED
    BY <1>1, <1>2

\* An exception's report fails or errs, and says so; an internal one errs.
LEMMA CaughtIs ==
  ASSUME NEW r, IsReport(r), NEW e
  PROVE  /\ IsReport(Caught(r, e)) /\ Caught(r, e).errors
         /\ Caught(r, e).status \in {"fail", "error"}
         /\ e.owner = "palomar" => Caught(r, e).status = "error"
         /\ r.diagnostics \subseteq Caught(r, e).diagnostics
  <1>1. PICK says, why, who :
          /\ says = (IF Attributed(e.owner, Stage) = "submitter" THEN "fail" ELSE "error")
          /\ why = e.cause /\ who = Attributed(e.owner, Stage)
    OBVIOUS
  <1>2. Caught(r, e) = Recorded(r, says, why, who)
    BY <1>1, Zenon DEF Caught
  <1>3. says \in {"fail", "error"}
    BY <1>1
  <1>4. e.owner = "palomar" => says = "error"
    BY <1>1 DEF Attributed
  <1>5. /\ IsReport(Recorded(r, says, why, who))
        /\ Recorded(r, says, why, who).status = says
        /\ Recorded(r, says, why, who).errors
        /\ r.diagnostics \subseteq Recorded(r, says, why, who).diagnostics
        /\ Recorded(r, says, why, who).diagnostics
             \subseteq r.diagnostics \cup {[cause |-> why, field |-> "", owner |-> who]}
    BY RecordedIs, Zenon
  <1> QED
    BY <1>2, <1>3, <1>4, <1>5, Zenon

\* stop() fails for a verdict against the submission, and errs for any other.
LEMMA StoppedIs ==
  ASSUME NEW r, IsReport(r), NEW code
  PROVE  /\ IsReport(Stopped(r, code)) /\ Stopped(r, code).errors
         /\ Stopped(r, code).status \in {"fail", "error"}
         /\ code \notin SubmitterVerdicts => Stopped(r, code).status = "error"
  <1>1. CASE code \notin SubmitterVerdicts
    <2>1. Stopped(r, code) = Recorded(r, "error", "refusal", "palomar")
      BY <1>1 DEF Stopped
    <2>2. /\ IsReport(Recorded(r, "error", "refusal", "palomar"))
          /\ Recorded(r, "error", "refusal", "palomar").status = "error"
          /\ Recorded(r, "error", "refusal", "palomar").errors
          /\ r.diagnostics \subseteq Recorded(r, "error", "refusal", "palomar").diagnostics
          /\ Recorded(r, "error", "refusal", "palomar").diagnostics
               \subseteq r.diagnostics
                         \cup {[cause |-> "refusal", field |-> "", owner |-> "palomar"]}
      BY RecordedIs, Zenon
    <2> QED
      BY <1>1, <2>1, <2>2, Zenon
  <1>2. CASE code \in SubmitterVerdicts
    <2>1. PICK why, who :
            /\ why = (IF code = "export_failed" THEN code ELSE "rejection")
            /\ who = (IF code = "declaration_missing" THEN "submitter"
                      ELSE Attributed("submitter", Stage))
      OBVIOUS
    <2>2. Stopped(r, code) = Recorded(r, "fail", why, who)
      BY <1>2, <2>1, Zenon DEF Stopped
    <2>3. /\ IsReport(Recorded(r, "fail", why, who))
          /\ Recorded(r, "fail", why, who).status = "fail"
          /\ Recorded(r, "fail", why, who).errors
          /\ r.diagnostics \subseteq Recorded(r, "fail", why, who).diagnostics
          /\ Recorded(r, "fail", why, who).diagnostics
               \subseteq r.diagnostics \cup {[cause |-> why, field |-> "", owner |-> who]}
      BY RecordedIs, Zenon
    <2> QED
      BY <1>2, <2>2, <2>3
  <1> QED
    BY <1>1, <1>2

-----------------------------------------------------------------------------
(* The invariant of execute, from its first step on                        *)

Exported(r) == \E d \in r.diagnostics : d.cause = "export_failed"

ToolNote == [cause |-> "tool", field |-> "", owner |-> "palomar"]

Shapes ==
    /\ IsReport(report) /\ IsReport(mem)
    /\ at \in 0 .. Complete /\ judge \in Judges /\ open \subseteq Proofs
    /\ pc \in PCs

\* What the job hands to execute.
HandedOver ==
    pc = "idle" =>
        /\ report.status = "pending" /\ report.diagnostics = {}
        /\ merit = "unknown" /\ at = 0

\* Until a stage rules, the verifier has nothing to say but that a tool changed.
Undecided ==
    pc \in {"phase", "progress"} =>
        /\ at \in 1 .. ConRon /\ merit = "unknown"
        /\ mem.status = "error" /\ mem.diagnostics \subseteq {ToolNote}
        /\ report.status \in {"pending", "error"}

\* What the stages behind have ruled out.
Narrowed ==
    /\ at > Preflight => PreflightAccepts(judge)
    /\ at > 16 => "undeclared" \notin open
    /\ at > 17 => "unbuildable" \notin open
    /\ at > 18 => "unproved" \notin open
    /\ at > 19 => open \cap {"mismatch", "axiom", "ill-typed", "disputed"} = {}

\* The verifier's copy is a verdict before it is written for good.
Concluding ==
    /\ pc # "idle" => at > 0 /\ mem.status \in {"pass", "fail", "error"}
    /\ pc \in {"verdict", "failing", "explained", "accepted", "dated"} => Terminal(mem)
    /\ pc = "exhausted" => mem.status = "error"
    /\ pc = "returned" => Terminal(report)

\* A pass is of a sound proof, a failure of one an exporter's.
Sound ==
    /\ report.status = "pass" \/ mem.status = "pass" => at = Complete
    /\ at = Complete => merit = "sound"
    /\ report.status = "pending" => report.diagnostics = {}

Spared ==
    /\ merit = "sound" /\ report.status = "fail" => Exported(report)
    /\ merit = "sound" /\ mem.status = "fail" => Exported(mem)

ExecuteInv ==
    /\ Shapes /\ HandedOver /\ Undecided /\ Narrowed /\ Concluding /\ Sound

\* A copy under guarded_write, by its parts.
LEMMA CopyEdited ==
  ASSUME NEW r, IsReport(r), NEW s
  PROVE  /\ IsReport([r EXCEPT !.status = s]) /\ [r EXCEPT !.status = s].status = s
         /\ [r EXCEPT !.status = s].diagnostics = r.diagnostics
  <1>1. PICK t, e, d : r = [status |-> t, errors |-> e, diagnostics |-> d]
    BY DEF IsReport
  <1>2. [r EXCEPT !.status = s] = [status |-> s, errors |-> e, diagnostics |-> d]
    BY <1>1
  <1>3. r.diagnostics = d
    BY <1>1
  <1>4. IsReport([r EXCEPT !.status = s])
    BY <1>2, Zenon DEF IsReport
  <1> QED
    BY <1>2, <1>3, <1>4

LEMMA StagesAre ==
  ASSUME at \in 1 .. Complete
  PROVE  /\ Stage = "challenge-export" <=> at = 16
         /\ Stage = "solution-build" <=> at = 17
         /\ Stage = "solution-export" <=> at = 18
         /\ Stage = "comparator" <=> at = 19
         /\ Stage = "con-ron" <=> at = ConRon
         /\ Stage \in JudgedStages <=> at \in 16 .. ConRon
  <1> USE DEF Stage, Stages, ConRon, Complete
  <1>1. /\ Stage = "challenge-export" <=> at = 16
        /\ Stage = "solution-build" <=> at = 17
        /\ Stage = "solution-export" <=> at = 18
        /\ Stage = "comparator" <=> at = 19
        /\ Stage = "con-ron" <=> at = ConRon
    OBVIOUS
  <1> QED
    BY <1>1 DEF JudgedStages

LEMMA BeginKeeps ==
  ASSUME ExecuteInv, Begin
  PROVE  ExecuteInv'
  <1> USE DEF Begin, pipeline, bench
  <1>1. /\ pc = "idle" /\ report.status = "pending"
        /\ mem' = [report EXCEPT !.status = "error"] /\ at' = 1 /\ pc' = "phase"
        /\ UNCHANGED <<report, judge, open, merit>>
    BY DEF ExecuteInv, HandedOver
  <1>2. IsReport(mem') /\ mem'.status = "error" /\ mem'.diagnostics = {}
    BY <1>1, CopyEdited DEF ExecuteInv, Shapes, HandedOver
  <1>3. Shapes'
    BY <1>1, <1>2 DEF ExecuteInv, Shapes, Complete, PCs
  <1>4. HandedOver' /\ Undecided'
    BY <1>1, <1>2 DEF ExecuteInv, HandedOver, Undecided, ConRon
  <1>5. Narrowed'
    BY <1>1 DEF Narrowed, Preflight
  <1>6. Concluding' /\ Sound'
    BY <1>1, <1>2 DEF ExecuteInv, HandedOver, Concluding, Sound, Complete
  <1> QED
    BY <1>3, <1>4, <1>5, <1>6 DEF ExecuteInv

LEMMA StagePassesKeeps ==
  ASSUME ExecuteInv, StagePasses
  PROVE  ExecuteInv'
  <1>1. /\ pc = "phase" /\ at \in 1 .. ConRon - 1 /\ at' = at + 1
        /\ pc' \in {"phase", "progress"}
        /\ UNCHANGED <<report, mem, merit>>
    BY DEF ExecuteInv, Undecided, StagePasses, ConRon
  <1>2. at' \in 2 .. ConRon /\ at \in 1 .. Complete
    BY <1>1 DEF ConRon, Complete
  <1>3. /\ judge' \in Judges
        /\ IF at = Preflight THEN PreflightAccepts(judge') ELSE judge' = judge
    BY DEF ExecuteInv, Shapes, StagePasses
  <1>4. open' \subseteq open
    BY DEF StagePasses
  <1>5. Shapes'
    BY <1>1, <1>2, <1>3, <1>4 DEF ExecuteInv, Shapes, Complete, ConRon, PCs
  <1>6. HandedOver' /\ Undecided'
    BY <1>1, <1>2 DEF ExecuteInv, HandedOver, Undecided
  <1>7. Narrowed'
    <2>1. at' > Preflight => PreflightAccepts(judge')
      BY <1>1, <1>3 DEF ExecuteInv, Narrowed, Preflight, ConRon
    <2>2. ASSUME Stage \in JudgedStages PROVE open' = {p \in open : "none" \in Rulings(p)}
      BY <2>2 DEF StagePasses
    <2>3. CASE at = 16
      <3>1. Stage = "challenge-export" /\ Stage \in JudgedStages
        BY <1>2, <2>3, StagesAre DEF ConRon
      <3>2. "none" \notin Rulings("undeclared")
        BY <3>1 DEF Rulings, Verdict, ChallengeExport
      <3>3. "undeclared" \notin open'
        BY <3>1, <3>2, <2>2
      <3> QED
        BY <1>1, <2>1, <2>3, <3>3 DEF Narrowed
    <2>4. CASE at = 17
      <3>1. Stage = "solution-build" /\ Stage \in JudgedStages
        BY <1>2, <2>4, StagesAre DEF ConRon
      <3>2. "none" \notin Rulings("unbuildable")
        BY <3>1 DEF Rulings, Verdict, SolutionBuild
      <3>3. "unbuildable" \notin open'
        BY <3>1, <3>2, <2>2
      <3> QED
        BY <1>1, <1>4, <2>1, <2>4, <3>3 DEF Narrowed, ExecuteInv
    <2>5. CASE at = 18
      <3>1. Stage = "solution-export" /\ Stage \in JudgedStages
        BY <1>2, <2>5, StagesAre DEF ConRon
      <3>2. "none" \notin Rulings("unproved")
        BY <3>1 DEF Rulings, Verdict, SolutionExport
      <3>3. "unproved" \notin open'
        BY <3>1, <3>2, <2>2
      <3> QED
        BY <1>1, <1>4, <2>1, <2>5, <3>3 DEF Narrowed, ExecuteInv
    <2>6. CASE at = 19
      <3>1. Stage = "comparator" /\ Stage \in JudgedStages
        BY <1>2, <2>6, StagesAre DEF ConRon
      <3>2. judge.statements /\ judge.axioms
        BY <2>6, PreflightedToolsCompare DEF ExecuteInv, Shapes, Narrowed, Preflight
      <3>3. ASSUME NEW p \in {"mismatch", "axiom", "ill-typed", "disputed"}
            PROVE  "none" \notin Rulings(p)
        <4>1. ASSUME NEW luck \in Lucks PROVE Verdict(Stage, judge, p, luck) # "none"
          <5>1. ComparatorVerdict(ComparatorRun(judge, p, luck)) # "none"
            BY <3>2, ComparatorStopsUnsound DEF ExecuteInv, Shapes
          <5>2. Verdict(Stage, judge, p, luck)
                  = ComparatorVerdict(ComparatorRun(judge, p, luck))
            BY <3>1 DEF Verdict
          <5> QED
            BY <5>1, <5>2
        <4> QED
          BY <4>1 DEF Rulings
      <3>4. open' \cap {"mismatch", "axiom", "ill-typed", "disputed"} = {}
        BY <3>1, <3>3, <2>2
      <3> QED
        BY <1>1, <1>4, <2>1, <2>6, <3>4 DEF Narrowed, ExecuteInv
    <2>7. CASE at \notin 16 .. 19
      <3>1. at < 16
        BY <1>1, <2>7 DEF ConRon
      <3> QED
        BY <1>1, <2>1, <3>1 DEF Narrowed
    <2> QED
      BY <1>1, <2>3, <2>4, <2>5, <2>6, <2>7 DEF ConRon
  <1>8. Concluding' /\ Sound'
    BY <1>1, <1>2 DEF ExecuteInv, Concluding, Sound, Undecided, ConRon, Complete
  <1> QED
    BY <1>5, <1>6, <1>7, <1>8 DEF ExecuteInv

\* What is left for con-ron is a sound proof, so a pass is one.
LEMMA ConRonKeeps ==
  ASSUME ExecuteInv, ConRonReplayed
  PROVE  ExecuteInv'
  <1>1. /\ pc = "phase" /\ at = ConRon /\ at' = Complete /\ pc' = "accepted"
        /\ mem' = [mem EXCEPT !.status = "pass"]
        /\ UNCHANGED <<report, judge, open>>
    BY DEF ConRonReplayed
  <1>2. PICK p \in open : merit' = Merit(p)
    BY DEF ConRonReplayed
  <1>3. p \in SoundProofs
    BY <1>1 DEF ExecuteInv, Shapes, Narrowed, ConRon, Proofs, SoundProofs
  <1>4. merit' = "sound"
    BY <1>2, <1>3 DEF Merit
  <1>5. IsReport(mem') /\ mem'.status = "pass"
    BY <1>1, CopyEdited DEF ExecuteInv, Shapes
  <1>6. Shapes'
    BY <1>1, <1>5 DEF ExecuteInv, Shapes, Complete, PCs
  <1>7. HandedOver' /\ Undecided' /\ Narrowed'
    BY <1>1 DEF ExecuteInv, HandedOver, Undecided, Narrowed, ConRon, Complete, Preflight
  <1>8. Concluding' /\ Sound'
    BY <1>1, <1>4, <1>5 DEF ExecuteInv, Concluding, Sound, Terminal, Complete
  <1> QED
    BY <1>6, <1>7, <1>8 DEF ExecuteInv

\* A stage that ends the run with a verdict or an exception.
LEMMA StageEndsKeeps ==
  ASSUME ExecuteInv, pc = "phase", UNCHANGED <<report, at, judge, open>>,
         IsReport(mem'), mem'.status \in {"fail", "error"},
         \/ pc' \in {"verdict", "failing"} /\ mem'.errors
         \/ pc' = "exhausted" /\ mem'.status = "error"
  PROVE  ExecuteInv'
  <1>1. Shapes' /\ HandedOver' /\ Undecided' /\ Narrowed'
    BY DEF ExecuteInv, Shapes, HandedOver, Undecided, Narrowed, PCs
  <1>2. Concluding' /\ Sound'
    BY DEF ExecuteInv, Undecided, Concluding, Sound, Terminal, ConRon, Complete
  <1> QED
    BY <1>1, <1>2 DEF ExecuteInv

LEMMA StageStopsKeeps ==
  ASSUME ExecuteInv, StageStops
  PROVE  ExecuteInv'
  <1>1. pc = "phase" /\ pc' = "verdict" /\ UNCHANGED <<report, at, judge, open>>
    BY DEF StageStops
  <1>2. IsReport(mem') /\ mem'.status \in {"fail", "error"} /\ mem'.errors
    <2>1. CASE \E code : mem' = Stopped(mem, code)
      BY <2>1, StoppedIs DEF ExecuteInv, Shapes
    <2>2. CASE mem' = Recorded(mem, "fail", "rejection", Attributed("submitter", Stage))
      <3>1. PICK who : who = Attributed("submitter", Stage)
        OBVIOUS
      <3>2. /\ IsReport(Recorded(mem, "fail", "rejection", who))
            /\ Recorded(mem, "fail", "rejection", who).status = "fail"
            /\ Recorded(mem, "fail", "rejection", who).errors
            /\ mem.diagnostics \subseteq Recorded(mem, "fail", "rejection", who).diagnostics
            /\ Recorded(mem, "fail", "rejection", who).diagnostics
                 \subseteq mem.diagnostics
                           \cup {[cause |-> "rejection", field |-> "", owner |-> who]}
        BY RecordedIs, Zenon
      <3> QED
        BY <2>2, <3>1, <3>2
    <2> QED
      BY <2>1, <2>2, Zenon DEF StageStops
  <1> QED
    BY <1>1, <1>2, StageEndsKeeps

LEMMA StageRaisesKeeps ==
  ASSUME ExecuteInv, StageRaises \/ StageMissesTool
  PROVE  ExecuteInv'
  <1>1. pc = "phase" /\ pc' = "failing" /\ UNCHANGED <<report, at, judge, open>>
    BY DEF StageRaises, StageMissesTool, bench
  <1>2. \E e : mem' = Caught(mem, e)
    BY Zenon DEF StageRaises, StageMissesTool
  <1>3. IsReport(mem') /\ mem'.status \in {"fail", "error"} /\ mem'.errors
    BY <1>2, CaughtIs DEF ExecuteInv, Shapes
  <1> QED
    BY <1>1, <1>3, StageEndsKeeps

LEMMA StageExhaustsKeeps ==
  ASSUME ExecuteInv, StageExhausts
  PROVE  ExecuteInv'
  <1>1. /\ pc = "phase" /\ pc' = "exhausted" /\ UNCHANGED <<report, at, judge, open>>
        /\ mem' = [mem EXCEPT !.status = "error"]
    BY DEF StageExhausts, bench
  <1>2. IsReport(mem') /\ mem'.status = "error"
    BY <1>1, CopyEdited DEF ExecuteInv, Shapes
  <1> QED
    BY <1>1, <1>2, StageEndsKeeps

\* What guarded_write leaves on disk: the verifier's copy, or an error that says so.
LEMMA GuardedKeeps ==
  ASSUME ExecuteInv, pc \in TryWrites \cup HandlerWrites
  PROVE  /\ IsReport(Guarded(mem)) /\ Guarded(mem).status \in {"pass", "fail", "error"}
         /\ Guarded(mem).status = "pass" => at = Complete /\ tools = "intact"
         /\ Guarded(mem).status # "error" => Guarded(mem) = mem
         /\ pc = "progress" => /\ Guarded(mem).status = "error"
                               /\ Guarded(mem).diagnostics \subseteq {ToolNote}
         /\ pc \in {"verdict", "failing", "explained", "accepted", "dated"}
              => Terminal(Guarded(mem))
  <1>1. IsReport(mem)
    BY DEF ExecuteInv, Shapes
  <1>2. /\ IsReport(Guarded(mem))
        /\ Guarded(mem) = mem \/ (Guarded(mem).status = "error" /\ Guarded(mem).errors)
        /\ Guarded(mem).status = "pass" => SnapshotHolds
        /\ Guarded(mem).diagnostics
             \subseteq mem.diagnostics
                       \cup {[cause |-> "tool", field |-> "", owner |-> "palomar"]}
        /\ mem.diagnostics \subseteq Guarded(mem).diagnostics
    BY <1>1, GuardedIs, Zenon
  <1>3. pc # "idle"
    BY DEF TryWrites, HandlerWrites
  <1>4. Guarded(mem).status \in {"pass", "fail", "error"}
    BY <1>2, <1>3 DEF ExecuteInv, Concluding
  <1>5. ASSUME Guarded(mem).status = "pass" PROVE at = Complete /\ tools = "intact"
    <2>1. Guarded(mem) = mem
      BY <1>2, <1>5
    <2>2. at = Complete
      BY <2>1, <1>5 DEF ExecuteInv, Sound
    <2>3. Snapshotted
      BY <2>2 DEF Snapshotted, Complete, ToolsFrom
    <2> QED
      BY <1>2, <1>5, <2>2, <2>3 DEF SnapshotHolds
  <1>6. ASSUME pc = "progress"
        PROVE  Guarded(mem).status = "error" /\ Guarded(mem).diagnostics \subseteq {ToolNote}
    <2>1. mem.status = "error" /\ mem.diagnostics \subseteq {ToolNote}
      BY <1>6 DEF ExecuteInv, Undecided
    <2>2. Guarded(mem).status = "error"
      BY <1>2, <2>1
    <2>3. Guarded(mem).diagnostics \subseteq mem.diagnostics \cup {ToolNote}
      BY <1>2, Zenon DEF ToolNote
    <2> QED
      BY <2>1, <2>2, <2>3, Zenon
  <1>7. ASSUME pc \in {"verdict", "failing", "explained", "accepted", "dated"}
        PROVE  Terminal(Guarded(mem))
    <2>1. Terminal(mem)
      BY <1>7 DEF ExecuteInv, Concluding
    <2>2. CASE Guarded(mem) = mem
      BY <2>1, <2>2, Zenon
    <2>3. CASE Guarded(mem).status = "error" /\ Guarded(mem).errors
      BY <2>3 DEF Terminal
    <2> QED
      BY <1>2, <2>2, <2>3
  <1> QED
    BY <1>2, <1>4, <1>5, <1>6, <1>7, Zenon

LEMMA WritesKeeps ==
  ASSUME ExecuteInv, Writes
  PROVE  ExecuteInv'
  <1>1. /\ pc \in TryWrites \cup HandlerWrites /\ report' = Guarded(mem)
        /\ UNCHANGED <<at, judge, open, merit>>
    BY DEF Writes, bench
  <1>2. /\ IsReport(report') /\ report'.status \in {"pass", "fail", "error"}
        /\ report'.status = "pass" => at = Complete
        /\ pc = "progress" => report'.status = "error" /\ report'.diagnostics \subseteq {ToolNote}
        /\ pc \in {"verdict", "failing", "explained", "accepted", "dated"} => Terminal(report')
    BY <1>1, GuardedKeeps
  <1>3. \/ pc # "exhausted" /\ mem' = report'
        \/ /\ pc = "exhausted" /\ IsReport(mem') /\ mem'.status = "error" /\ mem'.errors
    <2>1. CASE pc # "exhausted"
      BY <2>1 DEF Writes
    <2>2. CASE pc = "exhausted"
      <3>1. mem' = Recorded(report', "error", "exhaustion", "provider")
        BY <2>2 DEF Writes
      <3>2. PICK base : base = report'
        OBVIOUS
      <3>3. /\ IsReport(Recorded(base, "error", "exhaustion", "provider"))
            /\ Recorded(base, "error", "exhaustion", "provider").status = "error"
            /\ Recorded(base, "error", "exhaustion", "provider").errors
            /\ base.diagnostics
                 \subseteq Recorded(base, "error", "exhaustion", "provider").diagnostics
            /\ Recorded(base, "error", "exhaustion", "provider").diagnostics
                 \subseteq base.diagnostics
                           \cup {[cause |-> "exhaustion", field |-> "", owner |-> "provider"]}
        BY RecordedIs, Zenon
      <3> QED
        BY <2>2, <3>1, <3>2, <3>3
    <2> QED
      BY <2>1, <2>2
  <1>4. /\ IsReport(mem') /\ mem'.status \in {"pass", "fail", "error"}
        /\ mem'.status = "pass" => at = Complete
    BY <1>2, <1>3
  <1>5. pc' = AfterWrite(pc)
    BY DEF Writes
  <1>6. /\ pc' \in {"phase", "dated", "explained", "returned"}
        /\ pc' = "phase" <=> pc = "progress"
        /\ pc' = "dated" <=> pc = "accepted"
        /\ pc' = "explained" <=> pc = "exhausted"
    BY <1>1, <1>5 DEF AfterWrite, TryWrites, HandlerWrites
  <1>7. Shapes'
    BY <1>1, <1>2, <1>4, <1>6 DEF ExecuteInv, Shapes, PCs
  <1>8. HandedOver' /\ Narrowed'
    BY <1>1, <1>6 DEF ExecuteInv, HandedOver, Narrowed
  <1>9. Undecided'
    BY <1>1, <1>2, <1>3, <1>6 DEF ExecuteInv, Undecided
  <1>10. Concluding'
    <2>1. pc' # "idle" /\ pc' # "exhausted" /\ at' > 0
      BY <1>1, <1>6 DEF ExecuteInv, Concluding, TryWrites, HandlerWrites
    <2>2. pc' = "dated" => Terminal(mem')
      BY <1>2, <1>3, <1>6
    <2>3. pc' = "explained" => Terminal(mem')
      BY <1>3, <1>6 DEF Terminal
    <2>4. pc' = "returned" => Terminal(report')
      BY <1>1, <1>2, <1>6 DEF TryWrites, HandlerWrites
    <2>5. pc' \notin {"verdict", "failing", "accepted"}
      BY <1>6
    <2> QED
      BY <1>4, <2>1, <2>2, <2>3, <2>4, <2>5 DEF Concluding
  <1>11. Sound'
    BY <1>1, <1>2, <1>4 DEF ExecuteInv, Sound
  <1> QED
    BY <1>7, <1>8, <1>9, <1>10, <1>11 DEF ExecuteInv

LEMMA WriteFailsKeeps ==
  ASSUME ExecuteInv, WriteFails
  PROVE  ExecuteInv'
  <1>1. /\ pc \in TryWrites \cup HandlerWrites
        /\ UNCHANGED <<report, at, judge, open, merit>>
    BY DEF WriteFails, bench
  <1>2. /\ IsReport(Guarded(mem)) /\ Guarded(mem).status \in {"pass", "fail", "error"}
        /\ Guarded(mem).status = "pass" => at = Complete
    BY <1>1, GuardedKeeps
  <1>3. /\ IsReport(Caught(Guarded(mem), InternalError))
        /\ Caught(Guarded(mem), InternalError).errors
        /\ Caught(Guarded(mem), InternalError).status = "error"
    <2>1. PICK base, e : base = Guarded(mem) /\ e = InternalError
      OBVIOUS
    <2>2. IsReport(base) /\ e.owner = "palomar"
      BY <1>2, <2>1 DEF InternalError
    <2>3. IsReport(Caught(base, e)) /\ Caught(base, e).errors /\ Caught(base, e).status = "error"
      BY <2>2, CaughtIs
    <2> QED
      BY <2>1, <2>3
  <1>4. /\ pc' \in {"failing", "crashed"} /\ IsReport(mem')
        /\ mem'.status \in {"pass", "fail", "error"}
        /\ mem'.status = "pass" => at = Complete
        /\ pc' = "failing" => mem'.status = "error" /\ mem'.errors
    BY <1>2, <1>3 DEF WriteFails
  <1>5. Shapes' /\ HandedOver' /\ Undecided' /\ Narrowed'
    BY <1>1, <1>4 DEF ExecuteInv, Shapes, HandedOver, Undecided, Narrowed, PCs
  <1>6. Concluding'
    BY <1>1, <1>4 DEF ExecuteInv, Concluding, Terminal, TryWrites, HandlerWrites
  <1>7. Sound'
    BY <1>1, <1>4 DEF ExecuteInv, Sound
  <1> QED
    BY <1>5, <1>6, <1>7 DEF ExecuteInv

LEMMA HostKeeps ==
  ASSUME ExecuteInv, Host
  PROVE  ExecuteInv'
  <1>1. /\ UNCHANGED <<report, mem, at, judge, open, merit>>
        /\ pc' = pc \/ (pc' = "crashed" /\ pc # "idle")
    BY DEF Host, Dies, ToolChanges, bench, Busy
  <1>2. Shapes' /\ HandedOver' /\ Undecided' /\ Narrowed'
    BY <1>1 DEF ExecuteInv, Shapes, HandedOver, Undecided, Narrowed, PCs
  <1>3. Concluding' /\ Sound'
    BY <1>1 DEF ExecuteInv, Concluding, Sound
  <1> QED
    BY <1>2, <1>3 DEF ExecuteInv

\* No step of the verifier or of its host leaves the invariant.
LEMMA ExecuteKeeps ==
  ASSUME ExecuteInv, Verifier \/ Host
  PROVE  ExecuteInv'
  BY BeginKeeps, StagePassesKeeps, ConRonKeeps, StageStopsKeeps, StageRaisesKeeps,
     StageExhaustsKeeps, WritesKeeps, WriteFailsKeeps, HostKeeps DEF Verifier

\* Only guarded_write touches the file, and writes a pass only past the last stage
\* and over intact tools.
LEMMA PassesAreIntact ==
  ASSUME ExecuteInv, Verifier \/ Host, report' # report, report'.status = "pass"
  PROVE  at = Complete /\ tools = "intact"
  <1>1. Writes
    BY DEF Verifier, Host, Begin, StagePasses, ConRonReplayed, StageStops, StageRaises,
           StageMissesTool, StageExhausts, WriteFails, Dies, ToolChanges
  <1>2. pc \in TryWrites \cup HandlerWrites /\ report' = Guarded(mem)
    BY <1>1 DEF Writes
  <1> QED
    BY <1>2, GuardedKeeps

\* What the first step of execute finds.
LEMMA HandOver ==
  ASSUME IsReport(report), IsReport(mem), judge \in Judges, open \subseteq Proofs,
         pc = "idle", report.status = "pending", report.diagnostics = {},
         merit = "unknown", at = 0, mem.status # "pass"
  PROVE  ExecuteInv
  BY DEF ExecuteInv, Shapes, HandedOver, Undecided, Narrowed, Concluding, Sound, PCs,
         Complete, Preflight

-----------------------------------------------------------------------------
(* A sound proof is not rejected                                           *)

\* The stage that rejects has room to say why.
LEMMA RoomToSay ==
  ASSUME MAX_DIAGNOSTICS > 1, NEW set, set \subseteq {ToolNote}
  PROVE  ~ (Cardinality(set) >= MAX_DIAGNOSTICS)
  <1>1. set = {} \/ set = {ToolNote}
    OBVIOUS
  <1>2. Cardinality(set) \in {0, 1}
    BY <1>1, FS_EmptySet, FS_Singleton
  <1>3. MAX_DIAGNOSTICS \in Nat
    BY CapAssumption
  <1> QED
    BY <1>2, <1>3

LEMMA StageStopsSpares ==
  ASSUME MAX_DIAGNOSTICS > 1, ExecuteInv, StageStops
  PROVE  Spared'
  <1>1. pc = "phase" /\ report' = report /\ report.status # "fail" /\ merit = "unknown"
    BY DEF StageStops, ExecuteInv, Undecided
  <1>2. ASSUME merit' = "sound" PROVE Exported(mem')
    <2>1. PICK p \in open : \E code \in Rulings(p) \ {"none"} :
            /\ Stage \in JudgedStages
            /\ mem' = Stopped(mem, code)
            /\ merit' = IF code \in SubmitterVerdicts THEN Merit(p) ELSE merit
      BY <1>1, <1>2 DEF StageStops
    <2>2. PICK code \in Rulings(p) \ {"none"} :
            /\ Stage \in JudgedStages
            /\ mem' = Stopped(mem, code)
            /\ merit' = IF code \in SubmitterVerdicts THEN Merit(p) ELSE merit
      BY <2>1
    <2>3. code \in SubmitterVerdicts /\ p \in SoundProofs
      BY <1>1, <1>2, <2>2 DEF Merit
    <2>4. PICK luck \in Lucks : code = Verdict(Stage, judge, p, luck)
      BY <2>2 DEF Rulings
    <2>5. code = "export_failed"
      BY <2>2, <2>3, <2>4, SoundProofsAreNotFoundAgainst DEF ExecuteInv, Shapes
    <2>6. PICK who : who = Attributed("submitter", Stage)
      OBVIOUS
    <2>7. mem' = Recorded(mem, "fail", "export_failed", who)
      BY <2>2, <2>3, <2>5, <2>6 DEF Stopped
    <2>8. ~ (Cardinality(mem.diagnostics) >= MAX_DIAGNOSTICS)
      BY <1>1, RoomToSay DEF ExecuteInv, Undecided
    <2>9. \E d \in Recorded(mem, "fail", "export_failed", who).diagnostics :
             d.cause = "export_failed"
      BY <2>8, RecordedSays
    <2> QED
      BY <2>7, <2>9 DEF Exported
  <1> QED
    BY <1>1, <1>2 DEF Spared

LEMMA ExecuteSpares ==
  ASSUME MAX_DIAGNOSTICS > 1, ExecuteInv, Spared, Verifier \/ Host
  PROVE  Spared'
  <1>1. ASSUME merit' = "unknown" PROVE Spared'
    BY <1>1 DEF Spared
  <1>2. CASE Begin
    BY <1>1, <1>2 DEF Begin, bench, ExecuteInv, HandedOver
  <1>3. CASE StagePasses \/ StageRaises \/ StageMissesTool \/ StageExhausts
    BY <1>1, <1>3 DEF StagePasses, StageRaises, StageMissesTool, StageExhausts, bench,
                      ExecuteInv, Undecided
  <1>4. CASE ConRonReplayed
    <2>1. mem'.status = "pass" /\ report' = report /\ report.status # "fail"
      BY <1>4, CopyEdited DEF ConRonReplayed, ExecuteInv, Shapes, Undecided
    <2> QED
      BY <2>1 DEF Spared
  <1>5. CASE StageStops
    BY <1>5, StageStopsSpares
  <1>6. CASE Writes
    <2>1. /\ pc \in TryWrites \cup HandlerWrites /\ report' = Guarded(mem) /\ merit' = merit
      BY <1>6 DEF Writes, bench
    <2>2. report'.status = "fail" => report' = mem
      BY <2>1, GuardedKeeps
    <2>3. mem' = report' \/ mem'.status = "error"
      <3>1. CASE pc = "exhausted"
        <4>1. PICK base : base = report'
          OBVIOUS
        <4>2. /\ IsReport(Recorded(base, "error", "exhaustion", "provider"))
              /\ Recorded(base, "error", "exhaustion", "provider").status = "error"
              /\ Recorded(base, "error", "exhaustion", "provider").errors
              /\ base.diagnostics
                   \subseteq Recorded(base, "error", "exhaustion", "provider").diagnostics
              /\ Recorded(base, "error", "exhaustion", "provider").diagnostics
                   \subseteq base.diagnostics
                             \cup {[cause |-> "exhaustion", field |-> "", owner |-> "provider"]}
          BY RecordedIs, Zenon
        <4> QED
          BY <1>6, <3>1, <4>1, <4>2 DEF Writes
      <3> QED
        BY <1>6, <3>1 DEF Writes
    <2> QED
      BY <2>1, <2>2, <2>3 DEF Spared
  <1>7. CASE WriteFails
    <2>1. /\ pc \in TryWrites \cup HandlerWrites /\ report' = report /\ merit' = merit
      BY <1>7 DEF WriteFails, bench
    <2>2. IsReport(Guarded(mem)) /\ (Guarded(mem).status = "fail" => Guarded(mem) = mem)
      BY <2>1, GuardedKeeps
    <2>3. PICK base, e : base = Guarded(mem) /\ e = InternalError
      OBVIOUS
    <2>4. Caught(base, e).status = "error"
      <3>1. IsReport(base) /\ e.owner = "palomar"
        BY <2>2, <2>3 DEF InternalError
      <3> QED
        BY <3>1, CaughtIs
    <2>5. mem'.status = "error" \/ mem' = Guarded(mem)
      BY <1>7, <2>3, <2>4 DEF WriteFails
    <2> QED
      BY <2>1, <2>2, <2>5 DEF Spared
  <1>8. CASE Host
    BY <1>8 DEF Host, Dies, ToolChanges, bench, Spared
  <1> QED
    BY <1>2, <1>3, <1>4, <1>5, <1>6, <1>7, <1>8 DEF Verifier

-----------------------------------------------------------------------------
(* An error has a reason                                                   *)

Explained(r) == r.errors => r.diagnostics # {}

\* An error is recorded with a diagnostic, or into a report that is full of them.
LEMMA RecordedExplains ==
  ASSUME NEW r, NEW s, NEW c, NEW o
  PROVE  Recorded(r, s, c, o).diagnostics # {}
  <1>1. CASE Cardinality(r.diagnostics) >= MAX_DIAGNOSTICS
    <2>1. MAX_DIAGNOSTICS \in Nat \ {0}
      BY CapAssumption
    <2>2. Cardinality({}) = 0
      BY FS_EmptySet
    <2>3. r.diagnostics # {}
      BY <1>1, <2>1, <2>2
    <2>4. /\ IsReport(Recorded(r, s, c, o))
          /\ Recorded(r, s, c, o).status = s
          /\ Recorded(r, s, c, o).errors
          /\ r.diagnostics \subseteq Recorded(r, s, c, o).diagnostics
          /\ Recorded(r, s, c, o).diagnostics
               \subseteq r.diagnostics \cup {[cause |-> c, field |-> "", owner |-> o]}
      BY RecordedIs, Zenon
    <2> QED
      BY <2>3, <2>4, Zenon
  <1>2. CASE ~ (Cardinality(r.diagnostics) >= MAX_DIAGNOSTICS)
    <2>1. \E d \in Recorded(r, s, c, o).diagnostics : d.cause = c
      BY <1>2, RecordedSays
    <2> QED
      BY <2>1, Zenon
  <1> QED
    BY <1>1, <1>2

LEMMA CopyExplains ==
  ASSUME NEW r, IsReport(r), Explained(r), NEW s
  PROVE  Explained([r EXCEPT !.status = s])
  <1>1. PICK t, e, d : r = [status |-> t, errors |-> e, diagnostics |-> d]
    BY DEF IsReport
  <1>2. [r EXCEPT !.status = s] = [status |-> s, errors |-> e, diagnostics |-> d]
    BY <1>1
  <1>3. r.errors = e /\ r.diagnostics = d
    BY <1>1
  <1>4. [r EXCEPT !.status = s].errors = e /\ [r EXCEPT !.status = s].diagnostics = d
    BY <1>2
  <1> QED
    BY <1>3, <1>4 DEF Explained

LEMMA CaughtExplains ==
  ASSUME NEW r, NEW e
  PROVE  Explained(Caught(r, e))
  <1>1. PICK says, why, who : Caught(r, e) = Recorded(r, says, why, who)
    BY Zenon DEF Caught
  <1> QED
    BY <1>1, RecordedExplains DEF Explained

LEMMA StoppedExplains ==
  ASSUME NEW r, NEW code
  PROVE  Explained(Stopped(r, code))
  <1>1. PICK says, why, who : Stopped(r, code) = Recorded(r, says, why, who)
    BY Zenon DEF Stopped
  <1> QED
    BY <1>1, RecordedExplains DEF Explained

LEMMA GuardedExplains ==
  ASSUME NEW r, Explained(r)
  PROVE  Explained(Guarded(r))
  <1>1. CASE SnapshotHolds
    BY <1>1 DEF Guarded
  <1>2. CASE ~ SnapshotHolds
    <2>1. Guarded(r) = Recorded(r, "error", "tool", "palomar")
      BY <1>2 DEF Guarded
    <2>2. Recorded(r, "error", "tool", "palomar").diagnostics # {}
      BY RecordedExplains
    <2> QED
      BY <2>1, <2>2 DEF Explained
  <1> QED
    BY <1>1, <1>2

LEMMA ExecuteExplains ==
  ASSUME ExecuteInv, Explained(report), Explained(mem), Verifier \/ Host
  PROVE  Explained(report)' /\ Explained(mem)'
  <1>1. CASE Begin
    <2>1. report' = report /\ mem' \in {mem, [report EXCEPT !.status = "error"]}
      BY <1>1 DEF Begin
    <2> QED
      BY <2>1, CopyExplains DEF ExecuteInv, Shapes
  <1>2. CASE StagePasses \/ Host
    BY <1>2 DEF StagePasses, Host, Dies, ToolChanges
  <1>3. CASE ConRonReplayed \/ StageExhausts
    <2>1. report' = report /\ \E s : mem' = [mem EXCEPT !.status = s]
      BY <1>3 DEF ConRonReplayed, StageExhausts
    <2> QED
      BY <2>1, CopyExplains DEF ExecuteInv, Shapes
  <1>4. CASE StageStops
    <2>1. report' = report
      BY <1>4 DEF StageStops
    <2>2. \/ \E code : mem' = Stopped(mem, code)
          \/ \E who : mem' = Recorded(mem, "fail", "rejection", who)
      BY <1>4, Zenon DEF StageStops
    <2>3. CASE \E who : mem' = Recorded(mem, "fail", "rejection", who)
      BY <2>1, <2>3, RecordedExplains DEF Explained
    <2> QED
      BY <2>1, <2>2, <2>3, StoppedExplains
  <1>5. CASE StageRaises \/ StageMissesTool
    <2>1. report' = report
      BY <1>5 DEF StageRaises, StageMissesTool
    <2>2. \E e : mem' = Caught(mem, e)
      BY <1>5, Zenon DEF StageRaises, StageMissesTool
    <2> QED
      BY <2>1, <2>2, CaughtExplains
  <1>6. CASE Writes
    <2>1. /\ report' = Guarded(mem)
          /\ \/ mem' = report'
             \/ mem' = Recorded(report', "error", "exhaustion", "provider")
      BY <1>6 DEF Writes
    <2>2. Explained(report)'
      BY <2>1, GuardedExplains
    <2>3. CASE mem' = report'
      BY <2>2, <2>3, Zenon
    <2>4. CASE mem' = Recorded(report', "error", "exhaustion", "provider")
      BY <2>2, <2>4, RecordedExplains DEF Explained
    <2> QED
      BY <2>1, <2>2, <2>3, <2>4
  <1>7. CASE WriteFails
    <2>1. /\ report' = report
          /\ mem' \in {Guarded(mem), Caught(Guarded(mem), InternalError)}
      BY <1>7 DEF WriteFails
    <2> QED
      BY <2>1, GuardedExplains, CaughtExplains
  <1> QED
    BY <1>1, <1>2, <1>3, <1>4, <1>5, <1>6, <1>7 DEF Verifier

-----------------------------------------------------------------------------
(* Whom a failure blames                                                   *)

Blaming(d) ==
    \/ /\ d.owner = "submitter"
       /\ d.cause \in PreparationFindings
                      \cup {"rejection", "export_failed", "setup", "input"}
    \/ d.cause = "tool" /\ "unreadable" \in Trouble

Blames(r) ==
    r.status = "fail" =>
        /\ \A d \in r.diagnostics : d.cause # "exhaustion"
        /\ \E d \in r.diagnostics : Blaming(d)

\* A failure that blames nobody yet is never written: a tool that changed stays so.
BlameInv ==
    /\ tools \in {"intact", "changed", "unreadable"}
    /\ tools = "unreadable" => "unreadable" \in Trouble
    /\ Blames(report)
    /\ Blames(mem) \/ (tools = "changed" /\ Snapshotted)

\* Below the cap, a new cause is recorded as it is.
LEMMA RecordedAdds ==
  ASSUME NEW r, NEW s, NEW c, NEW o,
         ~ (Cardinality(r.diagnostics) >= MAX_DIAGNOSTICS),
         \A d \in r.diagnostics : d.cause # c
  PROVE  \E d \in Recorded(r, s, c, o).diagnostics : d.cause = c /\ d.owner = o
  <1>0. PICK yes, none : yes = TRUE /\ none = ""
    OBVIOUS
  <1>1. PICK base : base = [status |-> s, errors |-> yes, diagnostics |-> r.diagnostics]
    OBVIOUS
  <1>2. PICK issue : issue = [cause |-> c, field |-> none, owner |-> o]
    OBVIOUS
  <1>3. Recorded(r, s, c, o) = Diagnosed(base, issue)
    BY <1>0, <1>1, <1>2, Zenon DEF Recorded
  <1>4. base.diagnostics = r.diagnostics /\ issue.cause = c /\ issue.owner = o
    BY <1>1, <1>2
  <1>5. Diagnosed(base, issue) = [base EXCEPT !.diagnostics = @ \cup {issue}]
    BY <1>4 DEF Diagnosed
  <1>6. issue \in [base EXCEPT !.diagnostics = @ \cup {issue}].diagnostics
    BY <1>1
  <1>7. issue \in Recorded(r, s, c, o).diagnostics
    BY <1>3, <1>5, <1>6
  <1> QED
    BY <1>4, <1>7

\* Before a stage rules, what an error adds is all there is but the tools' note.
LEMMA FirstErrorIs ==
  ASSUME MAX_DIAGNOSTICS > 1, NEW r, r.diagnostics \subseteq {ToolNote}, NEW s, NEW c, NEW o,
         c # "exhaustion"
  PROVE  /\ \A d \in Recorded(r, s, c, o).diagnostics : d.cause # "exhaustion"
         /\ c # "tool" => \E d \in Recorded(r, s, c, o).diagnostics : d.cause = c /\ d.owner = o
         /\ \E d \in Recorded(r, s, c, o).diagnostics : d.cause = c
  <1>1. ~ (Cardinality(r.diagnostics) >= MAX_DIAGNOSTICS)
    BY RoomToSay
  <1>2. ToolNote.cause = "tool"
    <2>1. PICK none : none = ""
      OBVIOUS
    <2>2. ToolNote = [cause |-> "tool", field |-> none, owner |-> "palomar"]
      BY <2>1, Zenon DEF ToolNote
    <2> QED
      BY <2>2
  <1>3. c # "tool" => \A d \in r.diagnostics : d.cause # c
    BY <1>2
  <1>4. c # "tool" => \E d \in Recorded(r, s, c, o).diagnostics : d.cause = c /\ d.owner = o
    BY <1>1, <1>3, RecordedAdds
  <1>5. \E d \in Recorded(r, s, c, o).diagnostics : d.cause = c
    BY <1>1, RecordedSays
  <1>6. \A d \in Recorded(r, s, c, o).diagnostics : d.cause # "exhaustion"
    <2>1. PICK none : none = ""
      OBVIOUS
    <2>2. PICK issue : issue = [cause |-> c, field |-> none, owner |-> o]
      OBVIOUS
    <2>3. /\ IsReport(Recorded(r, s, c, o))
          /\ Recorded(r, s, c, o).status = s
          /\ Recorded(r, s, c, o).errors
          /\ r.diagnostics \subseteq Recorded(r, s, c, o).diagnostics
          /\ Recorded(r, s, c, o).diagnostics
               \subseteq r.diagnostics \cup {[cause |-> c, field |-> "", owner |-> o]}
      BY RecordedIs, Zenon
    <2>4. Recorded(r, s, c, o).diagnostics \subseteq r.diagnostics \cup {issue}
      BY <2>1, <2>2, <2>3, Zenon
    <2>5. issue.cause = c
      BY <2>2
    <2> QED
      BY <1>2, <2>4, <2>5
  <1> QED
    BY <1>4, <1>5, <1>6

LEMMA StageStopsBlames ==
  ASSUME MAX_DIAGNOSTICS > 1, ExecuteInv, StageStops
  PROVE  Blames(mem)'
  <1>1. pc = "phase" /\ at \in 1 .. Complete /\ mem.diagnostics \subseteq {ToolNote}
    BY DEF StageStops, ExecuteInv, Undecided, ConRon, Complete
  <1>2. ASSUME NEW why \in {"rejection", "export_failed"}, NEW who, who = "submitter",
               mem' = Recorded(mem, "fail", why, who)
        PROVE  Blames(mem)'
    <2>1. /\ \A d \in Recorded(mem, "fail", why, who).diagnostics : d.cause # "exhaustion"
          /\ why # "tool" => \E d \in Recorded(mem, "fail", why, who).diagnostics :
                                d.cause = why /\ d.owner = who
          /\ \E d \in Recorded(mem, "fail", why, who).diagnostics : d.cause = why
      BY <1>1, FirstErrorIs
    <2> QED
      BY <1>2, <2>1 DEF Blames, Blaming
  <1>3. CASE /\ Stage = "challenge-provenance"
             /\ mem' = Recorded(mem, "fail", "rejection", Attributed("submitter", Stage))
    <2>1. Attributed("submitter", Stage) = "submitter"
      BY <1>3 DEF Attributed, PALOMAR_OWNED_STAGES
    <2> QED
      BY <1>2, <1>3, <2>1
  <1>4. CASE Stage \in JudgedStages /\ \E p \in open : \E code \in Rulings(p) \ {"none"} :
                                           mem' = Stopped(mem, code)
    <2>1. PICK p \in open : \E code \in Rulings(p) \ {"none"} : mem' = Stopped(mem, code)
      BY <1>4
    <2>2. PICK code \in Rulings(p) \ {"none"} : mem' = Stopped(mem, code)
      BY <2>1
    <2>3. CASE code \notin SubmitterVerdicts
      BY <2>2, <2>3, StoppedIs DEF Blames, ExecuteInv, Shapes
    <2>4. CASE code \in SubmitterVerdicts
      <3>1. PICK luck \in Lucks : code = Verdict(Stage, judge, p, luck)
        BY <2>2 DEF Rulings
      <3>2. Stage = "challenge-export" => code = "declaration_missing"
        BY <2>4, <3>1 DEF Verdict, ChallengeExport, SubmitterVerdicts
      <3>3. Stage # "challenge-export" => Attributed("submitter", Stage) = "submitter"
        BY <1>4 DEF Attributed, PALOMAR_OWNED_STAGES, JudgedStages
      <3>4. PICK why, who :
              /\ why = (IF code = "export_failed" THEN code ELSE "rejection")
              /\ who = (IF code = "declaration_missing" THEN "submitter"
                        ELSE Attributed("submitter", Stage))
        OBVIOUS
      <3>5. mem' = Recorded(mem, "fail", why, who)
        BY <2>2, <2>4, <3>4, Zenon DEF Stopped
      <3>6. why \in {"rejection", "export_failed"} /\ who = "submitter"
        BY <3>2, <3>3, <3>4
      <3> QED
        BY <1>2, <3>5, <3>6
    <2> QED
      BY <2>3, <2>4
  <1>5. \/ /\ Stage = "challenge-provenance"
           /\ mem' = Recorded(mem, "fail", "rejection", Attributed("submitter", Stage))
        \/ Stage \in JudgedStages /\ \E p \in open : \E code \in Rulings(p) \ {"none"} :
                                           mem' = Stopped(mem, code)
    BY Zenon DEF StageStops
  <1> QED
    BY <1>3, <1>4, <1>5

LEMMA StageRaisesBlames ==
  ASSUME MAX_DIAGNOSTICS > 1, ExecuteInv, StageRaises
  PROVE  Blames(mem)'
  <1>1. mem.diagnostics \subseteq {ToolNote}
    BY DEF StageRaises, ExecuteInv, Undecided
  <1>2. PICK e \in RaisedAt(at) \cup {InternalError} : mem' = Caught(mem, e)
    BY DEF StageRaises
  <1>3. /\ e.owner \in {"submitter", "palomar", "provider"}
        /\ e.owner = "submitter" => e.cause \in {"rejection", "setup"}
    BY DEF RaisedAt, InternalError
  <1>4. PICK says, why, who :
          /\ says = (IF Attributed(e.owner, Stage) = "submitter" THEN "fail" ELSE "error")
          /\ why = e.cause /\ who = Attributed(e.owner, Stage)
    OBVIOUS
  <1>5. mem' = Recorded(mem, says, why, who)
    BY <1>2, <1>4, Zenon DEF Caught
  <1>6. CASE who # "submitter"
    <2>1. mem'.status = "error"
      <3>1. says = "error"
        BY <1>4, <1>6
      <3>2. mem' = Recorded(mem, "error", why, who)
        BY <1>5, <3>1
      <3>3. /\ IsReport(Recorded(mem, "error", why, who))
            /\ Recorded(mem, "error", why, who).status = "error"
            /\ Recorded(mem, "error", why, who).errors
            /\ mem.diagnostics \subseteq Recorded(mem, "error", why, who).diagnostics
            /\ Recorded(mem, "error", why, who).diagnostics
                 \subseteq mem.diagnostics \cup {[cause |-> why, field |-> "", owner |-> who]}
        BY RecordedIs, Zenon
      <3> QED
        BY <3>2, <3>3
    <2> QED
      BY <2>1 DEF Blames
  <1>7. CASE who = "submitter"
    <2>1. why \in {"rejection", "setup"}
      BY <1>3, <1>4, <1>7 DEF Attributed
    <2>2. /\ \A d \in Recorded(mem, says, why, who).diagnostics : d.cause # "exhaustion"
          /\ why # "tool" => \E d \in Recorded(mem, says, why, who).diagnostics :
                                d.cause = why /\ d.owner = who
          /\ \E d \in Recorded(mem, says, why, who).diagnostics : d.cause = why
      BY <1>1, <2>1, FirstErrorIs
    <2> QED
      BY <1>5, <1>7, <2>1, <2>2 DEF Blames, Blaming
  <1> QED
    BY <1>6, <1>7

\* The error of a tool that changed is the submitter's only until it is written;
\* that of one that could not be read stays so.
LEMMA StageMissesToolBlames ==
  ASSUME MAX_DIAGNOSTICS > 1, ExecuteInv, BlameInv, StageMissesTool
  PROVE  Blames(mem)' \/ (tools = "changed" /\ Snapshotted)
  <1>1. mem.diagnostics \subseteq {ToolNote}
    BY DEF StageMissesTool, ExecuteInv, Undecided
  <1>2. Snapshotted /\ (tools = "changed" \/ "unreadable" \in Trouble)
    BY DEF StageMissesTool, PhaseSeesTools, SnapshotHolds, BlameInv
  <1>3. PICK says, why, who : mem' = Recorded(mem, says, why, who) /\ why = "tool"
    <2>1. ToolError.cause = "tool"
      BY DEF ToolError
    <2>2. \E says, who : mem' = Recorded(mem, says, ToolError.cause, who)
      BY Zenon DEF StageMissesTool, Caught
    <2> QED
      BY <2>1, <2>2, Zenon
  <1>4. /\ \A d \in Recorded(mem, says, why, who).diagnostics : d.cause # "exhaustion"
        /\ why # "tool" => \E d \in Recorded(mem, says, why, who).diagnostics :
                              d.cause = why /\ d.owner = who
        /\ \E d \in Recorded(mem, says, why, who).diagnostics : d.cause = why
    BY <1>1, <1>3, FirstErrorIs
  <1> QED
    BY <1>2, <1>3, <1>4 DEF Blames, Blaming

LEMMA ExecuteBlames ==
  ASSUME MAX_DIAGNOSTICS > 1, ExecuteInv, BlameInv, Verifier \/ Host
  PROVE  BlameInv'
  <1>1. CASE tools' = tools /\ report' = report /\ Snapshotted' = Snapshotted
             /\ (Blames(mem)' \/ (tools = "changed" /\ Snapshotted))
    BY <1>1 DEF BlameInv, Blames
  <1>2. CASE tools' = tools /\ report' = report /\ mem'.status # "fail"
    BY <1>2 DEF BlameInv, Blames
  <1>3. CASE Begin
    <2>1. /\ mem' = [report EXCEPT !.status = "error"]
          /\ UNCHANGED <<report, tools>> /\ pc = "idle" /\ pc' = "phase"
      BY <1>3 DEF Begin, ExecuteInv, HandedOver
    <2>2. mem'.status = "error"
      BY <2>1, CopyEdited DEF ExecuteInv, Shapes
    <2> QED
      BY <1>2, <2>1, <2>2 DEF Snapshotted
  <1>4. CASE StagePasses
    BY <1>2, <1>4 DEF StagePasses, ExecuteInv, Undecided
  <1>5. CASE ConRonReplayed \/ StageExhausts
    <2>1. mem'.status # "fail"
      BY <1>5, CopyEdited DEF ConRonReplayed, StageExhausts, ExecuteInv, Shapes
    <2> QED
      BY <1>2, <1>5, <2>1 DEF ConRonReplayed, StageExhausts
  <1>6. CASE StageStops \/ StageRaises \/ StageMissesTool
    <2>1. Blames(mem)' \/ (tools = "changed" /\ Snapshotted)
      BY <1>6, StageStopsBlames, StageRaisesBlames, StageMissesToolBlames
    <2> QED
      BY <1>1, <1>6, <2>1 DEF StageStops, StageRaises, StageMissesTool, Snapshotted
  <1>7. CASE Writes
    <2>1. /\ pc \in TryWrites \cup HandlerWrites /\ report' = Guarded(mem)
          /\ UNCHANGED <<at, tools>>
          /\ mem' = report' \/ mem' = Recorded(report', "error", "exhaustion", "provider")
      BY <1>7 DEF Writes
    <2>2. ASSUME report'.status = "fail" PROVE report' = mem /\ Blames(mem)
      <3>1. report' = mem
        BY <2>1, <2>2, GuardedKeeps
      <3>2. SnapshotHolds
        <4>1. ASSUME ~ SnapshotHolds PROVE FALSE
          <5>1. Guarded(mem) = Recorded(mem, "error", "tool", "palomar")
            BY <4>1 DEF Guarded
          <5>2. /\ IsReport(Recorded(mem, "error", "tool", "palomar"))
                /\ Recorded(mem, "error", "tool", "palomar").status = "error"
                /\ Recorded(mem, "error", "tool", "palomar").errors
            BY ErrorIsRecorded
          <5> QED
            BY <2>1, <2>2, <5>1, <5>2
        <4> QED
          BY <4>1
      <3> QED
        BY <3>1, <3>2 DEF BlameInv, SnapshotHolds
    <2>3. Blames(report)'
      BY <2>2 DEF Blames
    <2>4. mem' = report' \/ mem'.status = "error"
      BY <2>1, ErrorIsRecorded
    <2> QED
      BY <2>1, <2>3, <2>4 DEF BlameInv, Blames
  <1>8. CASE WriteFails
    <2>1. /\ pc \in TryWrites \cup HandlerWrites
          /\ UNCHANGED <<report, at, tools>>
          /\ mem' \in {Guarded(mem), Caught(Guarded(mem), InternalError)}
      BY <1>8 DEF WriteFails
    <2>2. IsReport(Guarded(mem)) /\ (Guarded(mem).status # "error" => Guarded(mem) = mem)
      BY <2>1, GuardedKeeps
    <2>3. Caught(Guarded(mem), InternalError).status = "error"
      <3>1. PICK base, e : base = Guarded(mem) /\ e = InternalError
        OBVIOUS
      <3>2. IsReport(base) /\ e.owner = "palomar"
        BY <2>2, <3>1 DEF InternalError
      <3>3. Caught(base, e).status = "error"
        BY <3>2, CaughtIs
      <3> QED
        BY <3>1, <3>3
    <2>4. mem'.status # "fail" \/ mem' = mem
      BY <2>1, <2>2, <2>3
    <2> QED
      BY <2>1, <2>4 DEF BlameInv, Blames, Snapshotted
  <1>9. CASE Dies
    BY <1>9 DEF Dies, BlameInv, Blames, Snapshotted
  <1>10. CASE ToolChanges
    BY <1>10 DEF ToolChanges, BlameInv, Blames, Snapshotted
  <1> QED
    BY <1>3, <1>4, <1>5, <1>6, <1>7, <1>8, <1>9, <1>10 DEF Verifier, Host

-----------------------------------------------------------------------------
(* What the verifier may write                                             *)

\* Nothing in execute says anything of the metadata.
RunDiagnostics == {d \in Diagnostics : d.cause # "metadata"}

ReportsOf(D) == [status : Statuses, errors : BOOLEAN, diagnostics : SUBSET D]

RunReports == ReportsOf(RunDiagnostics)

\* The diagnostic that is recorded with an error.
Unplaced(c, o) == [cause |-> c, field |-> "", owner |-> o]

LEMMA RecordedType ==
  ASSUME NEW D, NEW r, r.diagnostics \subseteq D, NEW s \in Statuses, NEW c, NEW o,
         Unplaced(c, o) \in D
  PROVE  Recorded(r, s, c, o) \in ReportsOf(D)
  <1>0. PICK yes : yes = TRUE
    OBVIOUS
  <1>1. PICK issue : issue = [cause |-> c, field |-> "", owner |-> o]
    OBVIOUS
  <1>2. PICK base : base = [status |-> s, errors |-> yes, diagnostics |-> r.diagnostics]
    OBVIOUS
  <1>3. Recorded(r, s, c, o) = Diagnosed(base, issue)
    BY <1>0, <1>1, <1>2, Zenon DEF Recorded
  <1>4. PICK more :
          /\ Recorded(r, s, c, o) = [status |-> s, errors |-> yes, diagnostics |-> more]
          /\ r.diagnostics \subseteq more /\ more \subseteq r.diagnostics \cup {issue}
    BY <1>2, <1>3, DiagnosedIs
  <1>5. more \in SUBSET D
    <2>1. issue \in D
      BY <1>1, Zenon DEF Unplaced
    <2> QED
      BY <1>4, <2>1
  <1>6. yes \in BOOLEAN
    BY <1>0
  <1> HIDE DEF Statuses
  <1>7. [status |-> s, errors |-> yes, diagnostics |-> more] \in ReportsOf(D)
    BY <1>5, <1>6 DEF ReportsOf
  <1> QED
    BY <1>4, <1>7

LEMMA RunIssue ==
  ASSUME NEW c \in Causes \ {"metadata"}, NEW o \in Owners
  PROVE  Unplaced(c, o) \in RunDiagnostics
  <1>1. PICK none \in DiagnosedFields : none = ""
    <2>1. "" \in DiagnosedFields
      BY Zenon DEF DiagnosedFields
    <2> QED
      BY <2>1, Zenon
  <1> HIDE DEF Causes, Owners, DiagnosedFields
  <1>2. PICK issue \in RunDiagnostics : issue = [cause |-> c, field |-> none, owner |-> o]
    BY DEF Diagnostics, RunDiagnostics
  <1> QED
    BY <1>1, <1>2, Zenon DEF Unplaced

LEMMA RecordedRuns ==
  ASSUME NEW r \in RunReports, NEW s \in Statuses, NEW c \in Causes \ {"metadata"},
         NEW o \in Owners
  PROVE  Recorded(r, s, c, o) \in RunReports
  <1>1. r.diagnostics \subseteq RunDiagnostics
    BY DEF RunReports, ReportsOf
  <1>2. Unplaced(c, o) \in RunDiagnostics
    BY RunIssue, Zenon
  <1> QED
    BY <1>1, <1>2, RecordedType, Zenon DEF RunReports

LEMMA CopyRuns ==
  ASSUME NEW r \in RunReports, NEW s \in Statuses
  PROVE  [r EXCEPT !.status = s] \in RunReports
  BY DEF RunReports, ReportsOf

\* What errors are recorded with.
LEMMA ErrorsAre ==
  /\ {"rejection", "refusal", "telemetry", "setup", "internal", "tool", "exhaustion",
      "export_failed", "host", "input", "incomplete"} \subseteq Causes \ {"metadata"}
  /\ {"submitter", "palomar", "provider"} = Owners
  /\ {"fail", "error", "pass"} \subseteq Statuses
  BY DEF Causes, Owners, Statuses

LEMMA CaughtRuns ==
  ASSUME NEW r \in RunReports, NEW e,
         e.cause \in Causes \ {"metadata"}, e.owner \in Owners
  PROVE  Caught(r, e) \in RunReports
  <1>1. PICK says, why, who :
          /\ says = (IF Attributed(e.owner, Stage) = "submitter" THEN "fail" ELSE "error")
          /\ why = e.cause /\ who = Attributed(e.owner, Stage)
    OBVIOUS
  <1>2. Caught(r, e) = Recorded(r, says, why, who)
    BY <1>1, Zenon DEF Caught
  <1>3. says \in Statuses /\ why \in Causes \ {"metadata"} /\ who \in Owners
    BY <1>1, ErrorsAre DEF Attributed
  <1> QED
    BY <1>2, <1>3, RecordedRuns, Zenon

LEMMA StoppedRuns ==
  ASSUME NEW r \in RunReports, NEW code
  PROVE  Stopped(r, code) \in RunReports
  <1>1. CASE code \notin SubmitterVerdicts
    <2>1. Recorded(r, "error", "refusal", "palomar") \in RunReports
      BY ErrorsAre, RecordedRuns
    <2> QED
      BY <1>1, <2>1 DEF Stopped
  <1>2. CASE code \in SubmitterVerdicts
    <2>1. PICK why, who :
            /\ why = (IF code = "export_failed" THEN code ELSE "rejection")
            /\ who = (IF code = "declaration_missing" THEN "submitter"
                      ELSE Attributed("submitter", Stage))
      OBVIOUS
    <2>2. Stopped(r, code) = Recorded(r, "fail", why, who)
      BY <1>2, <2>1, Zenon DEF Stopped
    <2>3. why \in Causes \ {"metadata"} /\ who \in Owners
      BY <2>1, ErrorsAre DEF Attributed
    <2>4. Recorded(r, "fail", why, who) \in RunReports
      BY <2>3, ErrorsAre, RecordedRuns
    <2> QED
      BY <2>2, <2>4
  <1> QED
    BY <1>1, <1>2

LEMMA GuardedRuns ==
  ASSUME NEW r \in RunReports
  PROVE  Guarded(r) \in RunReports
  <1>1. Recorded(r, "error", "tool", "palomar") \in RunReports
    BY ErrorsAre, RecordedRuns
  <1> QED
    BY <1>1 DEF Guarded

RunTypes ==
    /\ report \in RunReports /\ mem \in RunReports
    /\ merit \in {"unknown", "sound", "flawed"}
    /\ tools \in {"intact", "changed", "unreadable"}

\* Every step of execute leaves reports that say nothing of the metadata.
LEMMA ExecuteTypes ==
  ASSUME ExecuteInv, RunTypes, Verifier \/ Host
  PROVE  RunTypes'
  <1>0. /\ report \in RunReports /\ mem \in RunReports
        /\ merit \in {"unknown", "sound", "flawed"}
        /\ tools \in {"intact", "changed", "unreadable"}
    BY DEF RunTypes
  <1>1. ASSUME report' = report, mem' \in RunReports, tools' = tools,
               merit' \in {"unknown", "sound", "flawed"}
        PROVE  RunTypes'
    BY <1>0, <1>1 DEF RunTypes
  <1>2. CASE Begin
    <2>1. /\ mem' = [report EXCEPT !.status = "error"]
          /\ UNCHANGED <<report, tools, merit>>
      BY <1>2 DEF Begin, bench, ExecuteInv, HandedOver
    <2>2. mem' \in RunReports
      BY <1>0, <2>1, ErrorsAre, CopyRuns
    <2> QED
      BY <1>0, <1>1, <2>1, <2>2
  <1>3. CASE StagePasses
    BY <1>0, <1>1, <1>3 DEF StagePasses
  <1>4. CASE ConRonReplayed
    <2>1. /\ mem' = [mem EXCEPT !.status = "pass"] /\ UNCHANGED <<report, tools>>
          /\ merit' \in {"unknown", "sound", "flawed"}
      BY <1>4 DEF ConRonReplayed, Merit
    <2>2. mem' \in RunReports
      BY <1>0, <2>1, ErrorsAre, CopyRuns
    <2> QED
      BY <1>1, <2>1, <2>2
  <1>5. CASE StageStops
    <2>1. UNCHANGED <<report, tools>> /\ merit' \in {"unknown", "sound", "flawed"}
      BY <1>0, <1>5 DEF StageStops, Merit
    <2>2. Recorded(mem, "fail", "rejection", Attributed("submitter", Stage)) \in RunReports
      <3>1. Attributed("submitter", Stage) \in Owners
        BY ErrorsAre DEF Attributed
      <3> QED
        BY <1>0, <3>1, ErrorsAre, RecordedRuns
    <2>3. mem' \in RunReports
      BY <1>0, <1>5, <2>2, StoppedRuns, Zenon DEF StageStops
    <2> QED
      BY <1>1, <2>1, <2>3
  <1>6. CASE StageRaises \/ StageMissesTool
    <2>1. UNCHANGED <<report, tools, merit>>
      BY <1>6 DEF StageRaises, StageMissesTool, bench
    <2>2. PICK e \in RaisedAt(at) \cup {InternalError, ToolError} : mem' = Caught(mem, e)
      BY <1>6 DEF StageRaises, StageMissesTool
    <2>3. e.cause \in Causes \ {"metadata"} /\ e.owner \in Owners
      BY ErrorsAre DEF RaisedAt, InternalError, ToolError
    <2>4. mem' \in RunReports
      BY <1>0, <2>2, <2>3, CaughtRuns
    <2> QED
      BY <1>0, <1>1, <2>1, <2>4
  <1>7. CASE StageExhausts
    <2>1. mem' = [mem EXCEPT !.status = "error"] /\ UNCHANGED <<report, tools, merit>>
      BY <1>7 DEF StageExhausts, bench
    <2>2. mem' \in RunReports
      BY <1>0, <2>1, ErrorsAre, CopyRuns
    <2> QED
      BY <1>0, <1>1, <2>1, <2>2
  <1>8. CASE Writes
    <2>1. /\ report' = Guarded(mem) /\ UNCHANGED <<tools, merit>>
          /\ mem' = report' \/ mem' = Recorded(report', "error", "exhaustion", "provider")
      BY <1>8 DEF Writes, bench
    <2>2. report' \in RunReports
      BY <1>0, <2>1, GuardedRuns
    <2>3. Recorded(report', "error", "exhaustion", "provider") \in RunReports
      BY <2>2, ErrorsAre, RecordedRuns
    <2> QED
      BY <1>0, <2>1, <2>2, <2>3 DEF RunTypes
  <1>9. CASE WriteFails
    <2>1. /\ UNCHANGED <<report, tools, merit>>
          /\ mem' \in {Guarded(mem), Caught(Guarded(mem), InternalError)}
      BY <1>9 DEF WriteFails, bench
    <2>2. PICK e : e = InternalError
      OBVIOUS
    <2>3. e.cause \in Causes \ {"metadata"} /\ e.owner \in Owners
      BY <2>2, ErrorsAre DEF InternalError
    <2>4. Guarded(mem) \in RunReports
      BY <1>0, GuardedRuns
    <2>5. Caught(Guarded(mem), e) \in RunReports
      BY <2>3, <2>4, CaughtRuns
    <2> QED
      BY <1>0, <1>1, <2>1, <2>2, <2>4, <2>5
  <1>10. CASE Dies
    BY <1>0, <1>10 DEF Dies, RunTypes, bench
  <1>11. CASE ToolChanges
    BY <1>0, <1>11 DEF ToolChanges, RunTypes, bench
  <1> QED
    BY <1>2, <1>3, <1>4, <1>5, <1>6, <1>7, <1>8, <1>9, <1>10, <1>11 DEF Verifier, Host
=============================================================================
