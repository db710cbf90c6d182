# A formal model of PalomarSubmission

PalomarSubmission verifies Lean projects that strangers submit. One workflow
run prepares a source tree, runs the submitter's code in confinement, compares
its theorems with a trusted challenge, and delivers a *mechanical report* whose
status decides the submission; a second job renders what was accepted. These
TLA+ modules model the parts whose correctness depends on the order of events
and on who wrote what: who kills whom, which evidence is believed, which write
survives, which packages a statement rests on, and who is told that a failure
is theirs.

All paths below are relative to the repository. `verify_submission.py` stands
for `scripts/verify_submission.py`, and so on.

## 1. Inventory

| Component | State it keeps | Operations | Modelled by |
|---|---|---|---|
| Verification job (`.github/workflows/submission.yml`, `workflow_report.py`) | step outcomes, `ready` output, report file, artifact, job conclusion | 19 steps with conditions, cancellation, finalize, three uploads, gate | `SubmissionWorkflow` |
| Preparation (`prepare`, `submission_contract.py`, `source_requirements.py`, `orcid_validation.py`) | report, checkout, list of issues | request checks, clone, independent checks, status from the owners, announcement | `Preparation`, `FormalizationMetadata` |
| Mechanical report (`report_diagnostic`, `finalize`, `gate`) | status, errors, diagnostics and their owners | record, de-duplicate, cap, finalize, gate | `MechanicalReport` |
| Execution pipeline (`execute`) | report in memory and on disk, stage, tool snapshot | 21 stages, `guarded_write`, `stop`, two exception handlers | `ExecutionPipeline` |
| Export, comparator, kernels (`comparator_verdict`, `comparator_preflight`, `kernel_outcomes.py`) | none | read an exit and verdict lines, conclude | `KernelVerdicts` |
| Package provenance (`package_allowlist`, `ensure_lake_manifest`, `audit_challenge_sources`) | the allowlist | manifests, official revisions, closures, owners, audit | `PackageProvenance` |
| Trusted Mathlib cache, trusted roots, challenge compilation | `.lake` of every package, staged copies, protected directory | reset, fetch, validate, promote, replay, build, compile, export | `TrustedDependencies` |
| Trusted downloads, checker updates (`trusted_download.py`, `checker_updates.py`) | attempts, budget, destination | retry with a delay, authenticate, extract | `TrustedDownload` |
| Challenge renderer (`render-challenge.yml`, `render_challenge.py`, `render_report.py`) | two reports, workspace, cache tool, site, result | 13 stages, failure handling, upload | `ChallengeRender`, `RendererManifest` |
| Phase supervision (`sandboxed_run`, `run`, `supervisor_outcome`, `supervise_cgroup.py`) | two time limits, status file, cgroup, launcher, watcher threads | launch, place, watch, SIGTERM, kill, report, classify, clean up | `SupervisedPhase`, `PhaseContract` |
| Cgroup delegation (`cgroup_delegate.py`) | subtree directory, its lock, run directories | bootstrap, sweep, create and enter a run, teardown | `CgroupDelegate` |
| Capacity check, execution profiles | report | accept or reject the host | its effect, in `SubmissionWorkflow` |
| Resource observer (`measure_resources.py`) | telemetry | forward a signal, pass on an exit status | its exit, in `SupervisedPhase` |
| Sandbox policy, seccomp, confinement probe | none | build argument lists and filters | no: static data judged by the kernel |
| CI, compatibility and smoke jobs | none of the service's | test the repository | no |

How they interact. The job starts the verifier's commands one after the other;
they share one report file, which `prepare` creates, `check-capacity` and
`execute` rewrite, `finalize` completes, the uploads deliver and `gate` reads.
`execute` first brings the trusted packages to a known state and compiles the
statement against them, with the candidate's code running before and after
that, and then lets exporter, comparator and kernels judge. It runs every
confined command through `sandboxed_run`. That starts a chain: delegation
helper (or a systemd scope), babysitter, observer, bubblewrap, candidate.
Verifier and babysitter share a FIFO by which the babysitter learns that the
verifier died, a status file by which the verifier learns how the phase ended,
and a cgroup both may kill. Helpers of several verifiers share the cgroup
subtree and its lock. The render job re-uses the provenance rules and the
downloads, on a workspace of its own.

What is hard: five actors and the kernel interleave in one phase; three clocks
(deadline plus grace, the verifier's patience, the shared budget) race; any
party can be killed between two steps; the report on disk is always a prefix of
the story; the lock of the helpers is on a directory and their work is on its
path; a failed step, a cancelled job and a late verdict meet in the finalizer;
one report collects the issues of a dozen checks and has room for fifty;
directories change hands between trusted and untrusted writers several times;
several roots vouch for one package; a download shares a budget with its own
retries. What makes each component correct:

* supervision: a verdict is earned by how the command really ended, and nothing
  of the phase goes on afterwards;
* delegation: no run that is being made is swept, no abandoned run stays, no
  helper blocks;
* preparation and report: every issue reaches its owner, an outage is never a
  rejection, a delivered report is conclusive;
* pipeline, verdicts and job: a pass was earned with intact tools by a sound
  proof, a rejection was found by a check, the job is green only for a
  delivered and earned report, and it ends;
* provenance and trusted state: a statement rests on official, pinned, validated
  state that the candidate never wrote, and the trust it is given is the trust
  it has;
* renderer: what is shown is whole and is what was verified, and outside code is
  authentic where it is taken.

`PROJECT.json` lists the hazards at the lines where they bite, with the
properties that cover them.

## 2. Modules

The composition, from the bottom:

    MechanicalReport, KernelVerdicts -> ExecutionPipeline -> ExecutionPipelineProofs
    MechanicalReport, FormalizationMetadata, Selection -> Preparation
    Selection -> RecursionTheorems; with Preparation -> PreparationProofs
    ExecutionPipeline, Preparation -> SubmissionWorkflow -> MCSubmissionWorkflow
    ExecutionPipelineProofs, PreparationProofs -> SubmissionWorkflowProofs
    Selection -> PackageProvenance -> TrustedDependencies -> MCTrustedDependencies, ...Proofs
    PackageProvenance -> RendererManifest; with TrustedDownload -> ChallengeRender
                                      -> MCChallengeRender, ChallengeRenderProofs
    PhaseContract <- SupervisedPhase -> MCSupervisedPhase, SupervisedPhaseProofs
    CgroupDelegate -> CgroupDelegateProofs

**`SupervisedPhase`** - one call of `sandboxed_run`. `vpc` walks through
`sandboxed_run`, `run`, `_cgroup_supervised_run`, `supervisor_outcome` and
`_cleanup_phase_cgroup`; `bpc` through the `main` of the babysitter, where
`seen` is the evidence it has collected and `status` the file it writes;
`child` is the forked launcher on its way through joining the leaf, arming
PDEATHSIG (`armed`), acknowledging and executing; `tree` stands for all its
descendants together; `doomed` holds what has SIGKILL pending. The two watcher
threads are the actions `WatchSandbox` and `StopRequested`, which can come
between any two steps of the main loop. `memory.events` and `populated` are
read where the code reads them, so they can be stale later. `cause` is a history
variable: what really ended the launcher, which the code cannot see. Setup
errors may or may not reach the status file, since only a `SupervisorError` is
reported. The ten- and thirty-second waits for an empty cgroup are actions that
may also happen while it is still populated.

**`PhaseContract`** - the abstract specification: a command ends in one of four
ways, a phase settles once, and a verdict held against the candidate needs an
ending of the candidate's own. `SupervisedPhase` implements it under the
mapping at its end (`KeepsContract`).

**`CgroupDelegate`** - any number of delegates and teardowns. `subtree` is the
directory the path names at the moment, `fd` the one a helper has opened, and
`lock` belongs to directories, so that a path can be recreated under a waiting
helper. `holds` is how deep the directories left in a run are.

**`MechanicalReport`** - the report as a value, and the pure functions on it:
recording with `report_diagnostic`'s de-duplication and its cap
(`MAX_DIAGNOSTICS`), `Finalized`, `GateOpens`. A diagnostic keeps its owner, one
cause and the field or file it is about, which together stand for the key (code,
summary, field) by which two of them are told apart.

**`FormalizationMetadata`** - `load_formalization_metadata` on a document given
by the way each section is wrong: which sections are read together, which
refusal ends a section, and which fields are named. What prepare then has to
report is compared with `WrongFields`, a definition of its own that looks at
each section alone.

**`Preparation`** - a submission is what each check will find; `Issues` is the
list `prepare` comes to, in its order: the request, the checkout, then the
groups that are checked independently (sources, metadata, ORCID, licence,
toolchain, configuration), the substantive repository, a correction's baseline.
`Reported` records them one by one, under the cap, and computes the status from
the owners of those that were recorded. `ReportedByHandler` tells the exceptions
that end preparation from those a check turns into an issue.

**`KernelVerdicts`** - what the judging stages conclude. A proof is one of ten
kinds (`Proofs`): sound in one of three ways that independent kernels treat
differently, or wrong in one of the ways the stages can tell. A `judge` says
what works of the tools that judge. `Verdict` computes the code a stage stops
with, from what the tools find and from `Lucks`: crashes, infrastructure errors
and an independent kernel that fails for its own reasons.

**`ExecutionPipeline`** - `execute` from the report it reads to the return. A
stage passes, stops with a verdict (`stop()`), raises, exhausts a limit or
finds a tool changed; each call of `guarded_write` is a step of its own, with
what the code does to the report in memory just before the next call. The tools
can change, or become unreadable for a while, between any two steps. What is
open about the submitter's proof narrows as stages pass (`open`), so that a
pass of the last one is a pass of whatever is still possible; `merit` is the
history of it.

**`SubmissionWorkflow`** - the job, with the pipeline as its `execute` step and
`Preparation` in its `prepare`. A step starts if its condition holds, then
succeeds, fails or is interrupted; `always()` steps run in a cancelled job too.
The scripts come from the checkout, so `finalize` and `gate` can only fail if
that step did not succeed. A failing upload may have stored the report all the
same. The report is written by the job's own steps only, so the finalizer's
defence against a malformed or foreign report has nothing to defend against
here.

**`Selection`** - one operator: what a filter keeps of a sequence, in its order.
The roots of one level of trust and the refused metadata fields are made with
it. It is a recursive function, where the library's `SelectSeq` is a `RECURSIVE`
operator, so that proofs can unfold it.

**`PackageProvenance`** - pure definitions: well-formed manifests, the manifest
generated for a project that has none, the allowlist of roots (official
revisions, pins, closures, which root owns a shared package), shadowing,
toolchain and artifact checks, and the audit with its trust level. Repositories,
revisions and what official history says of them are constants.

**`TrustedDependencies`** - the packages' build directories (`lake`, by who
wrote it last) through `execute`: a candidate's Lakefile runs first with
everything writable; Mathlib's closure is reset, copied, fetched by a client
with the network, compared, validated, promoted package by package, replayed;
the other roots are built in the order of their trust; the statement is
compiled into the protected directory and audited; the candidate builds, and
the two exports look modules up along `LeanPath`. A candidate that writes
writes everywhere it can: less would show the properties less. What the cache
client prints (`said`) is chosen freely beside what it fetched: of its lines
`mathlib_cache_availability` knows three, in this order: the warning, the counts
of downloaded files, of which only zero is special, and "No files to download";
a client may print any of them, or none. `get_mathlib_cache` forms its
answer before it validates, promotes and replays, and the report has it
(`cache`) only when all of that has succeeded.

**`TrustedDownload`**, **`RendererManifest`**, **`ChallengeRender`** - the
download with its three attempts in one budget, whose clients are the install
step and `materialize_checker`; the renderer's merge of Verso's packages with
the submission's, and what is left when they conflict; and the render job, step
by step, with both reports, the cache tool that Lake code could overwrite, the
packages whose Lake code has run with the network (`networked`: the release of
ProofWidgets is staged by such a build), the site and the parts of the result.
What the staged build leaves is validated as in `TrustedDependencies` and is not
modelled a second time.

**`MC...`** - instances for TLC. **`...Proofs`** - theorems (section 5).

An operator with a name like `ClassifiedByExitFirst` or `EveryPackage` that
stands before another one is a deliberate slip: each property of each passing
run fails when the slip named under "mutants" in `PROJECT.json` replaces the
right definition.

## 3. Runs

| Run | What it asks | Bounds |
|---|---|---|
| `phase_safety` | verdicts are earned, nothing survives, the launcher is leashed, the contract is kept | deadline 1, grace 1, margin 2, budgets 1, 2 and 9, launch lag 1, clock to 5, all disturbances |
| `phase_liveness` | every phase settles, orphans die, the verifier waits out deadline and grace | ample budget, verifier crashes and lost babysitters |
| `phase_scarce_budget` | violated: with a budget of 1 the verifier gives up early | no disturbance |
| `phase_sandbox_report` | violated: the report of bubblewrap loses the race against the status | no disturbance |
| `delegate_concurrency` | sweeps and runs under one lock | 3 delegates, 1 teardown, 2 subtree directories, leftovers one level deep |
| `delegate_abandoned_leaf` | violated: two levels of leftovers are never removed | 2 delegates |
| `delegate_teardown_race` | violated: two locks after a teardown | 2 delegates, 1 teardown |
| `workflow_job` | what is green, delivered, named, kept and concluded | all modes, valid and invalid inputs, every trouble, 38 submissions, room for 4 diagnostics |
| `preparation_cap` | violated: fifty source defects turn an outage into a rejection | preflight, room for 4 diagnostics |
| `workflow_tool_blame` | violated: a changed tool is the submitter's | full mode, one kind of trouble |
| `trusted_dependencies` | what a statement rests on, is compiled from and is exported over | 3 roots, 6 packages in every combination of 5, 3, 3, 3, 2 and 2 ways to pin them, every import of one package, every outcome of the client |
| `render_job` | what is rendered, with which tools, who is blamed, the download's time | 2 roots, 3 Verso tags, 4 kinds of release, budgets 0, 16 and 60 and hints 0, 3 and 40 units of five seconds |

Why the bounds suffice. In a phase only the order of the timers matters: with
one-second limits every order occurs, and a budget below, at and above the
deadline gives the three cases of `min(request, remaining)`. The lag lets the
launch eat into the budget. Three delegates are one that abandons a run, one
that sweeps and one that creates; two subtree directories are one removal.
The job has one report and a fixed number of steps: nothing is bounded there.
Room for four diagnostics instead of fifty lets a source of three files fill
the report, with one of the four left or none, which is what a cap can do to
the issues behind it. The submissions vary every check alone and, in pairs and
triples, the checks that share a report field, an exception handler or the last
place; the pipeline runs for three of them, since it depends only on whether
prepare was pending. Two roots that pin Mathlib and share a package it does not
know are the least in which the order of roots matters; Mathlib stands last in
that allowlist, so that its trust and not its place has to decide. A download
budget of 0 (a negative remainder counts as 0), one that a hint or a full
transfer overspends, and an ample one are the cases of its arithmetic.

Deadlock is checked except in `trusted_dependencies` and `render_job`, whose
verification or job really stops.

Fairness. `SupervisedPhase` assumes that processes are scheduled, that the
kernel delivers pending kills, that the watcher notices a closed FIFO, and that
time passes; it assumes nothing of the candidate's processes, of third parties,
or of a crash. `CgroupDelegate` assumes that helpers are scheduled, not that a
phase ends. `SubmissionWorkflow` assumes that the runner keeps working through
its steps (`timeout-minutes` and the platform see to that), not which outcome a
step has. The other two specifications are checked for safety only.

Exceptions that properties name, because the code makes them:

* `BlameIsEarned` allows blame after a third party stopped the babysitter or
  killed it after its last write: `liveness_lost` is recorded, never consulted.
* `BlameIsRejection` allows a rejection for a verifier tool that is missing when
  `execute` sets itself up (`setup`: the stage is not one of Palomar's and the
  error's default owner is the submitter), and for one that could not be read
  for a moment and could be read again when the report was written. What these
  two properties except, they cannot find.
* `AvailabilityIsHonest` has two parts. That an available cache is claimed only
  of a closure that was validated, promoted and replayed holds whatever the
  client prints. That every package of it was fetched needs a client that owns up
  to what it lacks (`OwnsUp`): one that warns, counts no file, or says nothing. A
  client that lacks packages, counts some files and does not warn is believed.
* `SweepIsComplete`, in the passing run, speaks of leftovers one level deep; the
  leaf of an abandoned run is the subject of `delegate_abandoned_leaf`.
* `RenderToolsAreAuthentic` speaks of downloads when they are installed, of Lake
  code that runs with the network, and of leantar when unpacking starts. Lake
  code that replaces leantar while archives are being unpacked, and the Lean and
  Verso that render, are outside it; which Verso that is, is in
  `RenderedAsVerified`.
* `RecordedOutageNeverRejects` and `FieldsAreNamed` speak of reports that had
  room for every issue; `OutageNeverRejects` does not, and is violated.
* `PassIsWhole` speaks of a pass without errors: if the second of its two
  writes fails, the renderer's report says `pass` beside an error, and the
  handler's write of that can also fail. The job is not green then.

## 4. What the violations show

* The verifier's patience is capped by the shared budget
  (`verify_submission.py:533`), so near its end the babysitter gets neither its
  deadline nor its grace, against the comment at 3314. The phase is still
  reported as a timeout, never as a rejection: `phase_safety` has that budget.
* The status is written without joining the thread that reads bubblewrap's
  report (`supervise_cgroup.py:366`, 477). A command that ends at once may be
  reported as a sandbox that never started: a provider error instead of a
  result.
* `sweep_stale` removes one directory level (`cgroup_delegate.py:167`), but a
  babysitter that outlives its verifier leaves `run/phase/leaf`. Such runs stay.
* `teardown` removes the subtree outside its lock (`cgroup_delegate.py:182`).
  Until that has happened the lock does what its comment promises
  (`YoungRunsAreSafeOnOneSubtree`, checked and proved); afterwards two helpers
  may hold two locks (`YoungRunsAreSafe`, violated). `--teardown` is an
  operator's option; no other code of the repository starts it.
* A tool change noticed around a phase is recorded twice with one key: first by
  the handler with the submitter as owner, then by `guarded_write` for Palomar,
  which `report_diagnostic` drops. The status is right (`error`), the
  diagnostic's owner and advice are not.
* `inspect_lean_sources` lists its issues first and without a bound; a report
  that is full drops what comes after, and the status is computed from what it
  holds. An unreachable ORCID Registry behind fifty defects in Lean files
  becomes part of a rejection (`verify_submission.py:411`, 1611), against
  README.md:290.

Read off the code while modelling, and modelled as it is, without a run:
`nested_package_links` (`verify_submission.py:2455`) compares a pinned
repository without its aliases, so a manifest that names an allowed alias passes
the allowlist and then ends in a Palomar error; a network failure of the clone,
or of a correction's baseline, is recorded with the submitter as owner; a
malformed `lakefile.toml` ends in the internal handler; and `execute`'s own refusal of the
contract cannot happen in the job, where `prepare` has made
the same check.

## 5. Proofs

Eight modules hold theorems. They prove the following for every value of the
constants, from the assumptions named in the modules and, where it says so, a
hypothesis of the theorem. Each theorem about a specification follows from an
inductive invariant, which TLC checked first.

The assumptions, and what in the repository justifies them:

* `RootsAssumption` - a root's trust is high or qualified and no repository or
  alias belongs to two roots: `allowed_roots` refuses any other configuration.
* `MathlibAssumption` - the first root in the order of trust is Mathlib:
  `allowed-challenge-repositories.json` has no other root in high trust. It is
  needed. Another high-trust root before Mathlib would own what the two share,
  and `build_allowlisted_roots`, which comes to that root after the cache was
  replayed, would reset those packages and build them again: neither
  `TrustedStateIsFrozen` nor the claim that the cache was used would hold.
* `PlacesAssumption` - no package has one of the two names by which the model
  calls places outside of packages.
* `SubjectsAssumption`, `ModesAssumption`, `CapAssumption` and the like - the
  constants are of their kinds. `RequestsAssumption` is explained below.

**`SupervisedPhaseProofs`** - `TypeCorrect`, `LauncherIsLeashed`,
`NothingSurvivesPhase`, `SuccessesAreEarned`, `BlamesAreEarned`,
`PhaseKeepsContract` and `GraceIsGiven`, for every timeout, grace, margin, lag, clock bound, budget
set and set of disturbances. None but the first is inductive. For the second and
third the invariant `SupervisionInv` adds what they rest on: no babysitter before the
launch and no launcher before the fork (`ForkedLate`); a babysitter past its
loop has reaped a launcher that is dead (`ReapedDead`); a launcher past its
acknowledgement does not outlive its babysitter undoomed (`Leashed`); the status
names the cgroup of every forked launcher, so that the clean-up finds it
(`Recorded`); once the verifier has stopped waiting there is no babysitter
(`HandedOver`); and from the verifier's own kill on, what lives in the cgroup is
doomed (`Doomed`).

`SuccessesAreEarned`, `BlamesAreEarned` and `PhaseKeepsContract` rest on a second
invariant, `EvidenceInv`: what the babysitter has seen is so (`SeenTruly`); a
command that ended by itself did so before the deadline or after SIGTERM
(`EndedTruly`); while there is a babysitter, a launcher is killed only for a
reason the babysitter knows (`CutForCause`); the cgroup with its counters is
there until the verifier has read them (`Housed`); a finished status stays true
after it is written, and the exit status of the babysitter agrees with it
(`ReportedTruly`); and the two verdicts that count are true from when they are
reached until the phase is over (`JudgedTruly`). `PhaseKeepsContract` is the
refinement: the initial states map to the contract's, and every step of
`SupervisedPhase` maps to a step of `PhaseContract` or to a stutter.

`GraceIsGiven` has a hypothesis, `Ample`: the budget covers the launch, the
deadline, the grace and the margin, and the margin covers the two launches (of
the verifier's command and of the chain behind it). `phase_scarce_budget` shows
that the first is needed. The invariant `Patient` compares the three clocks: the
babysitter's starts within the launch, the verifier's ends no earlier than the
margin after deadline and grace.

**`CgroupDelegateProofs`** - `TypeCorrect` and `YoungRunsAreKept` for any number
of helpers; `SweepsAreComplete` for runs that leave nothing two levels deep,
which is what `delegate_abandoned_leaf` shows to be needed. While there has been
one subtree directory its lock is exclusive (`Exclusive`), and between the
creation of a run and its placement the lock is held.

**`RecursionTheorems`** - the induction that the others use. The library's
induction theorems have an operator as a parameter, which the installed provers
cannot instantiate; `SetInduction` is about a set of numbers instead, and follows
from the well-foundedness of `<`. From it, `RecursionExists`: a function defined
by recursion on `0 .. n` exists and satisfies its recursion, which is what makes
such a definition usable in a proof at all; and `SelectedEmbeds`: what `Selected`
keeps are the chosen elements, all of them, in their order.

**`PreparationProofs`** - no specification, but what the checks and the fold over
their issues come to, for every submission and every cap. `IssuesNameFields`:
each issue has the owner that its cause calls for, and the metadata fields named
are wrong ones, among them every required one, whichever refusal ends a section.
`PreparationIsFair`: a report of issues is an error or a rejection with a
reason; it is a rejection only if all it holds are findings against the
submission; and if it had room, it holds every required field that is wrong and
is no rejection if a check could not be made. The fold is unfolded with
`RecursionExists` and its invariant carried along with `SetInduction`: what is
recorded is among the issues, each issue so far is there or has one of its key
there, and unless the report is full, it has been recorded.

**`ExecutionPipelineProofs`** - lemmas only: what recording, guarding, catching
and stopping do to a report, and that every step of the verifier or the host
keeps `ExecuteInv`. That says that before a stage rules the copy in memory is an
error with nothing but a note on a tool (`Undecided`), that the stages behind
have narrowed the kinds of proof (`Narrowed`), that a verdict in memory is
complete before it is written for good (`Concluding`), and that a pass is of a
sound proof past the last stage (`Sound`). `ExecuteTypes` says what the verifier
can write at all (`RunReports`): diagnostics that its own stages and handlers
record, none of them about a metadata field.

**`SubmissionWorkflowProofs`** - the job. `JobInv` joins, to the pipeline's
invariant while `execute` runs: the steps behind are over and those ahead have
not begun (`Ordered`); what is known of the inputs and of prepare (`Inputs`,
`Known`); what the report can be before, during and after `execute`
(`Executed`); what is stored, and after which upload (`Sent`); and what an open
gate has seen (`Gated`). From it:

* `GreenIsEarned`, `ReturnsAreVerdicts`, `ReportsAreDelivered`,
  `PassesNeedIntactTools`, `VerdictsSurvive` - without a hypothesis;
* `DeliveriesAreConclusive` - the same: that what preparation reports has a
  reason is `PreparationIsFair`;
* `SoundIsSpared` - if a report has room for two diagnostics (the code's has
  room for fifty): with room for one, the note on a tool would keep the
  exporter's failure out;
* `FailuresAreBlamed` - if a report has room for two diagnostics; what
  preparation itself fails, it fails for findings of its own, by
  `PreparationIsFair` again.

Three more invariants of the job follow from two further inductive ones. The
types do not, as they stand: a step that records needs to know that the report
it starts from is one `execute` can have, and one that finalizes that a stored
report is one at all. `Kinds` says so, and `Outputs` adds the job's outputs;
from both, `JobTypes`. `Remembered` says what the report still tells of
preparation's findings, including what is needed to keep it: until prepare has
run there are none, without any there is nothing to recall, and with any the
report is terminal, which is why neither `execute`, which needs a pending one,
nor the finalizer replaces it. From it and `PreparationIsFair`:
`OutagesNeverReject` and `FieldsStayNamed`, which have no hypothesis: the
condition about the report's room is in the properties.

**`TrustedDependenciesProofs`** - for every allowlist, history, set of manifests
and set of submissions:

* `TrustedTypes`;
* `PromotedStateIsValidated`, from `PromotionInv`: nothing is promoted before the
  closure was found in order, and what it was found in does not change
  afterwards; and `ExportsAreCanonical`;
* `AvailableCacheIsWhole`, for every transcript, from `PromotionInv` (a promoted
  closure was in order), `BuildInv` (all of it was promoted when it is replayed)
  and what `Availability` makes of the client's lines;
* `StatementsCompileFromTrustedState`, `TrustedStateStays`, `BuildsReadTrusted`,
  from `BuildInv`: before the roots are built no package is in trusted state
  (`NothingBuilt`); while they are, a package is in trusted state if and only if
  one of the roots built so far owns it (`RootsBuilt`), which is what makes the
  order of the roots matter; Mathlib's closure goes from reset to promoted as a
  whole (`ClosureStaged`); and what the next root owns was reset when its links
  were made (`NextIsFresh`, with `LinkInv`). That owning is unique and in the
  order of trust is a fact about `Selected`, by `SelectedEmbeds`;
* `StatedTrustIsHonest`, from the owners being the first root in that order: a
  package is credited with high trust exactly if a high-trust root vouches for
  it, in whatever order the file has the roots;
* `StatementsRestOnPinned`, with a hypothesis that is a fact about Lake: the
  manifest of a root is flat, so that a package it pins brings in nothing that
  it does not pin itself. Without it a pinned package's own manifest could name
  others. `AllowedInv` carries the checks made by `manifest_packages` and
  `package_allowlist` to the stages that rely on them.

**`ChallengeRenderProofs`** - `RenderTypes`, `DownloadBounded`, `PassesAreWhole`,
`OnlyAnchorsAreBlamed`, `ToolsStayAuthentic`, `RenderedIsVerified`, for every
budget, hint, allowlist, set of Verso tags and set of verified requests, from
the assumption that requests were accepted by the verification and that
libraries' manifests are flat (`RequestsAssumption`), and that Mathlib is a root
under the name the renderer looks for (`RendererAssumption`).
`ToolsStayAuthentic` joins three parts of the job. `NetworkInv`: nothing runs
with the network before the releases are staged, and then only what a Mathlib of
the workspace pins. `WorkspaceInv`: the workspace is a merge, so that this Mathlib
is the submission's or Verso's. And the acceptance, by which the submission's is at
an official revision (`MathlibIsOfficial`): `stage_legacy_proofwidgets_release`
itself never asks for that.

Every invariant and every action property of a passing run is a theorem. Only
model-checked: the liveness properties (`PhaseSettles`, `OrphansDie`,
`HelpersGetThrough`, `JobConcludes`), since fairness and ENABLED are outside the
prover's logic; and the six violations, which are counterexamples of an instance.

## 6. What is not modelled

* The text of reports, logs and telemetry beyond what a verdict depends on.
* The sandbox's argument lists, the seccomp program and the confinement probe:
  constants handed to the kernel. Which directories they leave writable is in
  `TrustedDependencies` and `ChallengeRender`.
* The HTML sanitizer, the stylesheet rewriting (`render_styles.py`) and the
  parsers of Lean, Lake and YAML texts: transformations of one text without
  state, for which their unit tests are the better check.
* Lean, Lake, Git, Verso and the kernels themselves: they are the external
  definitions of the map, used as the code uses them.
* `trusted_git_fetch.py`, which no workflow of the service uses: the same loop
  as the download without its authentication.
* `verification_profile.py` and the measurements of `check-capacity`: data; both
  outcomes of the step are in `SubmissionWorkflow`.
* The `sudo` variant of the launch chain, in which the verifier's kill may be
  refused because the direct child runs as root.
* CI, compatibility and smoke jobs, which test the repository.

Nothing of the plan is left. A weaker `MathlibAssumption`, for several roots in
high trust, would need the code to change first.
