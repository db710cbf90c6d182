--------------------------- MODULE KernelVerdicts ---------------------------
(***************************************************************************)
(* verify_submission.py: what the exporter, lake comparator and con-ron    *)
(* leave behind, and the verdict that is read from it.  A process leaves   *)
(* an exit status and words; each may come from a finding, or from a tool  *)
(* that could not start, crashed, or does not work as its reader believes. *)
(* comparator_preflight tries the tools on four controls before any        *)
(* submission is judged by them.                                           *)
(*                                                                         *)
(* A variant before an operator is a slip that PROJECT.json's "mutants"    *)
(* put in its place; nothing else uses it.                                 *)
(***************************************************************************)
\* What a submission may turn out to be.  disputed: NanoDa refuses what Lean's
\* kernel accepts; refuted: con-ron refuses what both accept; unsupported: con-ron
\* does not know a construct of it.
Proofs == {"valid", "undeclared", "unbuildable", "unproved", "mismatch", "axiom",
           "ill-typed", "disputed", "refuted", "unsupported"}

\* Proofs of the statement, from permitted axioms, that the kernels every
\* verification must pass accept.
SoundProofs == {"valid", "unsupported", "refuted"}

\* What works of the tools that judge: whether statements are compared, axioms
\* checked and ill-typed proofs refused by Lean's kernel, whether verdicts are in
\* the words their readers know, and what con-ron makes of a proof.
Judges == [statements : BOOLEAN, axioms : BOOLEAN, lean : BOOLEAN,
           spoken : BOOLEAN, conRon : {"sound", "blind", "declines"}]

\* How a run of a tool may go apart from what it judges.  sandbox: a nested
\* sandbox fails, and its kernel with it; kernel: NanoDa crashes.
Lucks == {"fine", "cannot-start", "sandbox", "kernel", "dies", "fuel", "capacity",
          "echo"}

-----------------------------------------------------------------------------
(* lake comparator                                                         *)

\* Statements, then axioms, then the kernels, Lean's own last.
Finds(judge, proof, luck) ==
    CASE proof = "mismatch" /\ judge.statements -> {"comparison"}
      [] proof = "axiom" /\ judge.axioms        -> {"axiom"}
      [] OTHER ->
           {k \in {"nanoda", "lean"} :
              \/ proof = "ill-typed" /\ (k = "lean" => judge.lean)
              \/ k = "nanoda" /\ (proof = "disputed" \/ luck \in {"sandbox", "kernel"})}
           \cup IF luck = "sandbox" THEN {"infrastructure"} ELSE {}

\* An exit status and the lines a reader looks for.
ComparatorRun(judge, proof, luck) ==
    LET finds == Finds(judge, proof, luck)
    IN  CASE luck = "cannot-start" -> [exit |-> 2, says |-> {}]
          [] luck = "dies"         -> [exit |-> 137, says |-> {}]
          [] OTHER -> [exit |-> IF finds = {} THEN 0 ELSE 1,
                       says |-> IF ~ judge.spoken THEN {}
                                ELSE IF finds = {} THEN {"okay"} ELSE finds]

ComparatorVerdictOfAnyKernel(run) ==
    CASE run.exit = 0 -> "none"
      [] run.exit = 1 /\ "axiom" \in run.says -> "illegal_axiom"
      [] run.exit = 1 /\ "axiom" \notin run.says /\ run.says # {} -> "rejected"
      [] OTHER -> "unclassified"

\* comparator_verdict.  An external kernel's "rejected" may be its crash, so
\* Lean's kernel is the arbiter.
ComparatorVerdict(run) ==
    IF run.exit = 0 THEN "none"
    ELSE IF run.exit = 1 /\ "axiom" \in run.says THEN "illegal_axiom"
    ELSE IF run.exit = 2 THEN "cannot_run"
    ELSE IF "infrastructure" \in run.says THEN "sandbox_failed"
    ELSE IF run.exit = 1 /\ run.says \cap {"comparison", "lean"} # {} THEN "rejected"
    ELSE IF "nanoda" \in run.says THEN "kernel_disagreement"
    ELSE "unclassified"

-----------------------------------------------------------------------------
(* con-ron                                                                 *)

\* Its exit status and the kind of its verdict line; several: a declaration's
\* name has put another line that looks like one into the output.
ConRonRun(judge, proof, luck) ==
    LET honest ==
          CASE judge.conRon = "declines" \/ proof = "unsupported" ->
                   [exit |-> 2, line |-> "unsupported"]
            [] judge.conRon = "sound" /\ proof \in {"ill-typed", "refuted"} ->
                   [exit |-> 1, line |-> "rejected"]
            [] OTHER -> [exit |-> 0, line |-> "accepted"]
    IN  CASE luck = "dies"         -> [exit |-> 137, line |-> "none"]
          [] luck = "cannot-start" -> [exit |-> 2, line |-> "error"]
          [] luck = "fuel"         -> [exit |-> 3, line |-> "fuel"]
          [] luck = "echo"         -> [honest EXCEPT !.line = "several"]
          [] OTHER                 -> honest

\* con_ron_outcome.  An exit status of 1 is a rejection whatever else it printed,
\* and no other status is an acceptance without exactly one line that says so.
ConRonOutcome(run) ==
    CASE run.exit = 1                                -> "rejected"
      [] run.exit = 0 /\ run.line = "accepted"       -> "accepted"
      [] run.exit = 2 /\ run.line = "unsupported"    -> "declined"
      [] run.exit = 3 /\ run.line = "fuel"           -> "declined"
      [] OTHER                                       -> "error"

\* replay_con_ron: without time or memory to run it, it declines.
ConRonReplay(judge, proof, luck) ==
    IF luck = "capacity" THEN "declined"
    ELSE ConRonOutcome(ConRonRun(judge, proof, luck))

-----------------------------------------------------------------------------
(* comparator_preflight                                                    *)

\* A control comes out as it must in one of the ways its run may go.
Matching(judge) ==
    \E luck \in Lucks :
       LET run == ComparatorRun(judge, "valid", luck)
       IN  ComparatorVerdict(run) = "none" /\ "okay" \in run.says

FoundAgainst(judge, control, code, words) ==
    \E luck \in Lucks :
       LET run == ComparatorRun(judge, control, luck)
       IN  ComparatorVerdict(run) = code /\ words \in run.says

Replayed(judge, control, outcome) ==
    \E luck \in Lucks : ConRonReplay(judge, control, luck) = outcome

PreflightWithoutAxioms(judge) ==
    /\ Matching(judge)
    /\ FoundAgainst(judge, "mismatch", "rejected", "comparison")
    /\ FoundAgainst(judge, "ill-typed", "rejected", "lean")
    /\ Replayed(judge, "valid", "accepted")
    /\ Replayed(judge, "ill-typed", "rejected")

PreflightAccepts(judge) ==
    /\ Matching(judge)
    /\ FoundAgainst(judge, "mismatch", "rejected", "comparison")
    /\ FoundAgainst(judge, "ill-typed", "rejected", "lean")
    /\ FoundAgainst(judge, "axiom", "illegal_axiom", "axiom")
    /\ Replayed(judge, "valid", "accepted")
    /\ Replayed(judge, "ill-typed", "rejected")

-----------------------------------------------------------------------------
(* The stages that judge                                                   *)

\* export_failure of the Challenge: only a configured name that is missing is
\* the submitter's.
ChallengeExport(proof, luck) ==
    CASE proof = "undeclared"                    -> "declaration_missing"
      [] proof # "undeclared" /\ luck = "dies"   -> "challenge_export_failed"
      [] OTHER                                   -> "none"

SolutionBuild(proof) == IF proof = "unbuildable" THEN "build_failed" ELSE "none"

\* export_failure of the Solution: the exporter runs on what the submission
\* built, and its failure is taken to be the submission's.
SolutionExport(proof, luck) ==
    CASE proof = "unproved"                  -> "declaration_missing"
      [] proof # "unproved" /\ luck = "dies" -> "export_failed"
      [] OTHER                               -> "none"

\* Only an outcome of con-ron that is neither acceptance nor a limit stops.
Replay(judge, proof, luck) ==
    IF ConRonReplay(judge, proof, luck) \in {"accepted", "declined"}
    THEN "none" ELSE "kernel_disagreement"

JudgedStages == {"challenge-export", "solution-build", "solution-export",
                 "comparator", "con-ron"}

\* The code of a stage's verdict against the submission or the run, or "none".
Verdict(stage, judge, proof, luck) ==
    CASE stage = "challenge-export" -> ChallengeExport(proof, luck)
      [] stage = "solution-build"   -> SolutionBuild(proof)
      [] stage = "solution-export"  -> SolutionExport(proof, luck)
      [] stage = "comparator"       -> ComparatorVerdict(ComparatorRun(judge, proof, luck))
      [] stage = "con-ron"          -> Replay(judge, proof, luck)

\* The verdicts that are the submitter's.
SubmitterVerdicts == {"declaration_missing", "build_failed", "export_failed",
                      "illegal_axiom", "rejected"}
=============================================================================
