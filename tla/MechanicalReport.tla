-------------------------- MODULE MechanicalReport --------------------------
(***************************************************************************)
(* The mechanical report: what verify_submission.py writes, what           *)
(* workflow_report.py rewrites and gates on, and what a submitter is told. *)
(* Only the parts a verdict depends on are kept: the status, whether the   *)
(* error list is non-empty, and the diagnostics.  A diagnostic keeps its   *)
(* owner and, as its cause and field, the <<code, summary, field>> key by  *)
(* which report_diagnostic tells two of them apart.                        *)
(*                                                                         *)
(* Nothing but the workflow's own steps writes the file, so a report that  *)
(* is unreadable or bound to another submission does not arise and the     *)
(* finalizer's defence against one is not represented.                     *)
(*                                                                         *)
(* A variant before an operator is a slip that PROJECT.json's "mutants"    *)
(* put in its place; nothing else uses it.                                 *)
(***************************************************************************)

EXTENDS Integers, FiniteSets, Sequences, FormalizationMetadata

CONSTANT MAX_DIAGNOSTICS    \* 50 in the code

ASSUME CapAssumption == MAX_DIAGNOSTICS \in Nat \ {0}

Owners == {"submitter", "palomar", "provider"}

\* What preparation finds against a submission.
PreparationFindings == {"checkout", "project", "long", "headless", "symlink",
                        "undecodable", "yaml", "metadata", "substantive", "orcid",
                        "licence", "toolchain", "comparator", "baseline"}

\* rejection: a later check found against the submission; export_failed: the
\* exporter did not get through what the submission built; setup: a tool of the
\* verifier's is missing; refusal: an error Palomar raised against itself;
\* registry, detector, release, lookup: a check
\* that could not be made; telemetry: the supervisor left no usable evidence;
\* tool: a verifier tool changed; internal: any other exception; exhaustion: a
\* resource or time limit; host: the runner is below its profile; input: the
\* workflow inputs are invalid; incomplete: the run stopped before a verdict.
Causes == PreparationFindings \cup
          {"rejection", "export_failed", "setup", "refusal", "registry", "detector", "release", "lookup",
           "telemetry", "tool", "internal", "exhaustion", "host", "input",
           "incomplete"}

\* In the order inspect_lean_sources lists them.
SourceFiles == <<"A.lean", "B.lean", "lakefile.lean">>

\* What a diagnostic is about: a metadata field, a source file, or neither.
DiagnosedFields == Fields \cup {SourceFiles[1], SourceFiles[2], SourceFiles[3]} \cup {""}

Diagnostics == [cause : Causes, field : DiagnosedFields, owner : Owners]

Statuses == {"none", "pending", "pass", "fail", "error"}

Reports == [status : Statuses, errors : BOOLEAN,
            diagnostics : SUBSET Diagnostics]

\* No file at the report's path.
NoReport == [status |-> "none", errors |-> FALSE, diagnostics |-> {}]

Pending == [status |-> "pending", errors |-> FALSE, diagnostics |-> {}]

\* report_diagnostic: a diagnostic with the key of an earlier one is dropped,
\* whoever the earlier one names as the owner, and so is one too many.
Diagnosed(r, issue) ==
    IF \/ Cardinality(r.diagnostics) >= MAX_DIAGNOSTICS
       \/ \E d \in r.diagnostics : d.cause = issue.cause /\ d.field = issue.field
    THEN r
    ELSE [r EXCEPT !.diagnostics = @ \cup {issue}]

\* A status, an error line and its diagnostic, recorded together.
Recorded(r, status, cause, owner) ==
    Diagnosed([status |-> status, errors |-> TRUE, diagnostics |-> r.diagnostics],
              [cause |-> cause, field |-> "", owner |-> owner])

-----------------------------------------------------------------------------
(* workflow_report.py                                                      *)

TerminalWhenStatusSays(r) == r.status \in {"pass", "fail", "error"}

\* A report that states a verdict: the early writes of a run in progress say
\* "error" and carry no error.
Terminal(r) ==
    /\ r.status \in {"pass", "fail", "error"}
    /\ r.status = "pass" \/ r.errors

\* A preflight stops, by design, at a prepared report.
PreparedPreflight(r, mode, ready, stepFailed) ==
    /\ mode = "preflight"
    /\ r.status = "pending"
    /\ ready = "true"
    /\ ~ stepFailed

InvalidInput == Recorded(NoReport, "fail", "input", "submitter")

Incomplete == Recorded(NoReport, "error", "incomplete", "palomar")

FinalizedByStepOutcome(r, inputsValid, mode, ready, stepFailed) ==
    CASE ~ inputsValid -> InvalidInput
      [] inputsValid /\ ~ stepFailed
           /\ (Terminal(r) \/ PreparedPreflight(r, mode, ready, stepFailed)) -> r
      [] OTHER -> Incomplete

\* finalize: trusted inputs first, then a verdict as the verifier left it, then
\* the statement that there is none.
Finalized(r, inputsValid, mode, ready, stepFailed) ==
    CASE ~ inputsValid -> InvalidInput
      [] inputsValid
           /\ (Terminal(r) \/ PreparedPreflight(r, mode, ready, stepFailed)) -> r
      [] OTHER -> Incomplete

GateIgnoresDelivery(r, mode, ready, uploaded, stepFailed) ==
    /\ ~ stepFailed
    /\ r.status = "pass" \/ PreparedPreflight(r, mode, ready, stepFailed)

\* gate: the report was delivered, no step failed, and it says so.
GateOpens(r, mode, ready, uploaded, stepFailed) ==
    /\ uploaded
    /\ ~ stepFailed
    /\ r.status = "pass" \/ PreparedPreflight(r, mode, ready, stepFailed)
=============================================================================
