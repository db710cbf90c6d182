---------------------------- MODULE Preparation ----------------------------
(***************************************************************************)
(* verify_submission.py prepare: what the report says of a submission that *)
(* was requested, fetched and inspected without being built.  The request  *)
(* and the checkout are checked in order and the first error ends it; then *)
(* six groups are checked independently, each adding its issues, and the   *)
(* owners of the recorded diagnostics decide between rejection and error.  *)
(*                                                                         *)
(* An issue is a diagnostic that is still to be recorded.  Cause and field *)
(* stand for the code, the summary and the field that tell two apart.      *)
(*                                                                         *)
(* A variant before an operator is a slip that PROJECT.json's "mutants"    *)
(* put in its place; nothing else uses it.                                 *)
(***************************************************************************)
EXTENDS Selection, MechanicalReport

Issue(cause, field, owner) == [cause |-> cause, field |-> field, owner |-> owner]
Rejects(cause) == <<Issue(cause, "", "submitter")>>
InternalIssue == <<Issue("internal", "", "palomar")>>

-----------------------------------------------------------------------------
(* The request                                                             *)

Requests == [options : {"valid", "invalid"},
             relationship : {"maintainer", "palomar-maintainer", "missing"},
             correction : {"none", "valid", "malformed"},
             target : {"registered", "another"}]

\* registry_correction, and what prepare requires of it: correction data, the
\* mode and Palomar's own authorization appear together and name one record.
RequestRefused(request, mode) ==
    \/ request.options = "invalid"
    \/ request.relationship = "missing"
    \/ request.correction = "malformed"
    \/ (request.correction = "valid") # (request.relationship = "palomar-maintainer")
    \/ request.correction = "valid" /\ (mode # "correction" \/ request.target = "another")
    \/ request.correction = "none" /\ mode = "correction"

-----------------------------------------------------------------------------
(* Checkouts and Lean sources                                              *)

\* fetched, or the first thing found wrong; stalled: a git command timed out,
\* which is no verification error.
Checkouts == {"fetched", "unavailable", "submodule", "lfs", "too-large", "stalled"}

\* clone_commit, validate_preservable_git_checkout, tree_size.
CheckoutIssue(checkout) ==
    CASE checkout = "fetched" -> <<>>
      [] checkout = "stalled" -> InternalIssue
      [] OTHER                -> Rejects("checkout")

FileKinds == {"fine", "long", "headless", "long-headless", "symlink", "undecodable"}

\* source_issues and inspect_lean_sources; a lakefile needs no module header.
FileIssues(file, kind) ==
    LET found(cause) == <<Issue(cause, file, "submitter")>>
        headless == IF file = "lakefile.lean" THEN <<>> ELSE found("headless")
    IN  CASE kind = "fine"          -> <<>>
          [] kind = "headless"      -> headless
          [] kind = "long-headless" -> found("long") \o headless
          [] OTHER                  -> found(kind)

\* kinds: what each of SourceFiles is.
SourceIssues(kinds) ==
    FileIssues(SourceFiles[1], kinds[1]) \o FileIssues(SourceFiles[2], kinds[2])
    \o FileIssues(SourceFiles[3], kinds[3])

-----------------------------------------------------------------------------
(* formalization.yaml                                                      *)

\* In the order load_formalization_metadata checks them.
FieldOrder == <<"project.name", "project.description", "project.authors",
                "project.license", "project.responsible_maintainers",
                "classification.arxiv", "classification.msc2020", "sources",
                "repository", "related_formalizations", "automation.methods",
                "review.status">>

MetadataIssues(doc, legacy) ==
    LET fields == Selected(FieldOrder, ReportedFields(doc, legacy))
    IN  [i \in DOMAIN fields |-> Issue("metadata", fields[i], "submitter")]

\* The file loads; a file that is no YAML mapping has no fields to check.
Loaded(s, legacy) ==
    s.file = "mapping" /\ MetadataIssues(s.document, legacy) = <<>>

\* The substantive development behind a thin wrapper is fetched and inspected.
SubstantiveIssues(s, legacy) ==
    IF EffectiveRole(s.document.repository) # "thin-wrapper" THEN <<>>
    ELSE CASE s.substantive = "flawed" -> IF legacy THEN <<>> ELSE Rejects("substantive")
           [] OTHER                    -> CheckoutIssue(s.substantive)

FormalizationIssues(s, legacy) ==
    CASE s.file = "malformed"                   -> Rejects("yaml")
      [] s.file = "unforeseen"                  -> InternalIssue
      [] s.file = "mapping" /\ Loaded(s, legacy) -> SubstantiveIssues(s, legacy)
      [] OTHER                                  -> MetadataIssues(s.document, legacy)

-----------------------------------------------------------------------------
(* ORCID Registry, licence, toolchain, Comparator configuration            *)

\* The Registry's answer for an iD: found; no such record, deactivated, or one
\* that names another iD; anything else, down to an unreadable body.
Answers == {"found", "gone", "deactivated", "superseded", "unreachable",
            "http-error", "oversized", "unreadable"}

AnswerIssueByStatus(answer) ==
    CASE answer = "found" -> <<>>
      [] OTHER            -> Rejects("orcid")

AnswerIssue(answer) ==
    CASE answer = "found"                                  -> <<>>
      [] answer \in {"gone", "deactivated", "superseded"} -> Rejects("orcid")
      [] OTHER -> <<Issue("registry", "", "palomar")>>

\* validate_records: the iDs in order, up to the first that does not hold.
OrcidIssues(answers) ==
    LET refused == {i \in DOMAIN answers : answers[i] # "found"}
    IN  IF refused = {} THEN <<>>
        ELSE AnswerIssue(answers[CHOOSE i \in refused : \A j \in refused : i <= j])

\* The licence file and what the detector makes of it; a licence that differs
\* from the declared one is only noticed if the metadata loaded.
Licences == {"declared", "differs", "missing", "ambiguous", "detector-failed"}

LicenceIssues(licence, loaded) ==
    CASE licence = "declared"        -> <<>>
      [] licence = "differs"         -> IF loaded THEN Rejects("licence") ELSE <<>>
      [] licence = "detector-failed" -> <<Issue("detector", "", "palomar")>>
      [] OTHER                       -> Rejects("licence")

\* supported_toolchain and resolve_release_commit.
Toolchains == {"released", "missing", "unsupported", "unreleased", "policy-invalid",
               "lookup-failed", "stalled"}

ToolchainIssues(toolchain) ==
    CASE toolchain = "released"                        -> <<>>
      [] toolchain \in {"missing", "unsupported"}      -> Rejects("toolchain")
      [] toolchain \in {"unreleased", "policy-invalid"} ->
             <<Issue("release", "", "palomar")>>
      [] toolchain = "lookup-failed"                   ->
             <<Issue("lookup", "", "provider")>>
      [] toolchain = "stalled"                         -> InternalIssue

\* load_comparator_config, its path, and the manifest beside a lakefile.lean.
Configurations == {"valid", "path", "shape", "names", "axioms", "manifest"}

ConfigurationIssues(configuration) ==
    IF configuration = "valid" THEN <<>> ELSE Rejects("comparator")

-----------------------------------------------------------------------------
Submissions ==
    [request : Requests, checkout : Checkouts, project : {"fine", "flawed", "unforeseen"},
     sources : [1 .. Len(SourceFiles) -> FileKinds],
     file : {"mapping", "malformed", "unforeseen"}, document : Documents,
     substantive : Checkouts \cup {"flawed"}, answers : Seq(Answers),
     licence : Licences, toolchain : Toolchains, configuration : Configurations,
     baseline : {"matches", "differs", "unreadable"}]

\* The independent groups in order.  A correction's source was accepted under
\* older rules: its sources are not inspected again.
GroupIssues(s, mode) ==
    LET legacy == mode = "correction"
    IN  (IF legacy THEN <<>> ELSE SourceIssues(s.sources))
        \o FormalizationIssues(s, legacy)
        \o (IF Loaded(s, legacy) THEN OrcidIssues(s.answers) ELSE <<>>)
        \o LicenceIssues(s.licence, Loaded(s, legacy))
        \o ToolchainIssues(s.toolchain)
        \o ConfigurationIssues(s.configuration)

\* What ends preparation before the groups, in order; the project is its
\* directory, its Lakefile and the place of its metadata.  An unparsable
\* lakefile.toml is one that no check foresaw.
CheckedInOrder(s, mode) ==
    CASE RequestRefused(s.request, mode) -> <<Issue("input", "", "submitter")>>
      [] ~ RequestRefused(s.request, mode) /\ s.checkout # "fetched" ->
             CheckoutIssue(s.checkout)
      [] ~ RequestRefused(s.request, mode) /\ s.checkout = "fetched"
           /\ s.project = "flawed"       -> Rejects("project")
      [] ~ RequestRefused(s.request, mode) /\ s.checkout = "fetched"
           /\ s.project = "unforeseen"   -> InternalIssue
      [] OTHER                           -> <<>>

\* correction_source_evidence: the source is still what was registered.
EvidenceIssues(s, mode) ==
    IF mode = "correction" /\ s.baseline # "matches" THEN Rejects("baseline") ELSE <<>>

\* Every issue that preparation comes to.
Issues(s, mode) ==
    IF CheckedInOrder(s, mode) # <<>> THEN CheckedInOrder(s, mode)
    ELSE IF GroupIssues(s, mode) # <<>> THEN GroupIssues(s, mode)
    ELSE EvidenceIssues(s, mode)

\* What is raised past the groups is reported by a handler.
ReportedByHandler(s, mode) ==
    \/ CheckedInOrder(s, mode) # <<>>
    \/ GroupIssues(s, mode) = <<>> /\ EvidenceIssues(s, mode) # <<>>

OwnersOf(issues) == {issues[i].owner : i \in DOMAIN issues}

StatusByFirst(r) ==
    IF "submitter" \in {d.owner : d \in r.diagnostics} THEN "fail" ELSE "error"

\* The owners that are left in the report decide.
StatusByOwners(r) ==
    IF {d.owner : d \in r.diagnostics} \ {"submitter"} # {} THEN "error" ELSE "fail"

\* The report of a submission with issues: all are recorded, up to the cap.
Reported(issues) ==
    LET after[i \in 0 .. Len(issues)] ==
          IF i = 0 THEN NoReport ELSE Diagnosed(after[i - 1], issues[i])
        r == after[Len(issues)]
    IN  [status |-> StatusByOwners(r), errors |-> TRUE, diagnostics |-> r.diagnostics]

PreparedReport(s, mode) ==
    IF Issues(s, mode) # <<>> THEN Reported(Issues(s, mode))
    ELSE [Pending EXCEPT !.status = IF mode = "correction" THEN "pass" ELSE "pending"]

\* More issues than the report can hold.
Overflows(s, mode) == Len(Issues(s, mode)) > MAX_DIAGNOSTICS
=============================================================================
