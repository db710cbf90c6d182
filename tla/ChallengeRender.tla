-------------------------- MODULE ChallengeRender --------------------------
(***************************************************************************)
(* render-challenge.yml and render_challenge.py: a job that renders the    *)
(* Challenge of a verified submission as a static site.  It binds the      *)
(* accepted source (prepare), installs its tools, builds and sanitizes the *)
(* site (execute), and uploads the report with what was rendered.          *)
(*                                                                         *)
(* Lake code of the submission's packages runs from "discover" to          *)
(* "verso-html", and writes what it likes where the workspace is writable. *)
(* The verification's own set-up, where it takes its checker from a        *)
(* download, is here as a job that ends with that.                         *)
(*                                                                         *)
(* A variant before an operator is a slip that PROJECT.json's "mutants"    *)
(* put in its place; nothing else uses it.                                 *)
(***************************************************************************)
EXTENDS RendererManifest, TrustedDownload

CONSTANT Requests   \* records: project, imports (of the Challenge), toolchain,
                    \* bound (the Challenge has the accepted digest), layout (of
                    \* ProofWidgets), shadowed (a package has the Challenge's top
                    \* level), and anchored (Verso gives each declaration an anchor)

\* The job is started for a submission that was verified.  A Lake manifest is flat:
\* a library's has what the packages it pins need themselves.
ASSUME RequestsAssumption ==
    \A r \in Requests :
       /\ Accepted(r.project, r.imports)
       /\ \A p \in Libraries(Prepared(r.project)) : \A pin \in PinsOf(p) :
             Names(PinsOf(pin)) \subseteq Names(PinsOf(p))

\* Mathlib is a root, under the name the renderer looks for.
ASSUME RendererAssumption == RootOf("mathlib4") # {}

VARIABLES
  request,
  step,       \* of the job; a stage of execute while that runs
  ready,      \* the output of prepare
  report,     \* report.json
  mem,        \* the renderer's copy
  workspace,  \* its packages
  module,     \* where Lean would find a module of the toolchain: "toolchain", "candidate"
  leantar,    \* in the cache directory: "none", "pinned", "candidate"
  preserved,  \* the renderer put it there, and keeps it
  networked,  \* history: the packages whose Lake code has run with the network
  site,       \* the sanitized site: "none", "clean", "anchorless"
  text,       \* the declarations as the audit printed them, and whose modules it read
  result,     \* the parts of the result directory
  cause,      \* history: what ended execute
  uploaded,   \* the artifact
  failed      \* a step of the job has

staging == <<leantar, preserved, networked>>
renderer == <<report, mem, workspace, module, staging, site, text, result, cause>>
job == <<request, ready, uploaded, failed>>
tools == <<client, download, checker, blame>>
vars == <<tools, job, step, renderer>>

Report(status, stage, errors) == [status |-> status, stage |-> stage, errors |-> errors]
NoReport == Report("none", "none", FALSE)

ExecuteStages == {"workspace", "release", "discover", "fetch", "unpack", "literate",
                  "audit", "verso-html", "sanitize", "copy", "seal", "publish", "handler"}
JobSteps == {"setup", "prepare", "elan", "install", "execute", "upload", "require", "done"}

\* What a complete result holds: the site, the audit's text, and a report of its own.
Whole == {"clean", "trusted", "report"}

TypeOK ==
    /\ DownloadTypeOK
    /\ step \in JobSteps \cup ExecuteStages
    /\ ready \in BOOLEAN /\ failed \in BOOLEAN
    /\ {report, mem} \subseteq [status : {"none", "pending", "error", "fail", "pass"},
                                stage : {"none", "intake", "prepared", "workspace", "literate",
                                         "verso-html", "sanitize", "complete"},
                                errors : BOOLEAN]
    /\ module \in {"toolchain", "candidate"}
    /\ leantar \in {"none", "pinned", "candidate"}
    /\ preserved \in BOOLEAN
    /\ networked \subseteq workspace
    /\ site \in {"none", "clean", "anchorless"}
    /\ text \in {"none", "trusted", "candidate"}
    /\ result \subseteq Whole \cup {"candidate", "anchorless"}
    /\ cause \in {"none", "timeout", "anchors", "conflict", "provider", "other"}
    /\ uploaded.result \subseteq Whole \cup {"candidate", "anchorless"}

Init ==
    /\ request \in Requests
    /\ client \in {"elan", "checker", "bundled"}
    /\ client # "elan" => request = CHOOSE r \in Requests : TRUE
    /\ step = IF client = "elan" THEN "prepare" ELSE "setup"
    /\ DownloadInit
    /\ ready = FALSE /\ failed = FALSE
    /\ report = NoReport /\ mem = NoReport
    /\ workspace = {}
    /\ module = "toolchain"
    /\ leantar = "none" /\ preserved = FALSE /\ networked = {}
    /\ site = "none" /\ text = "none"
    /\ result = {}
    /\ cause = "none"
    /\ uploaded = [report |-> NoReport, result |-> {}]

-----------------------------------------------------------------------------
(* prepare                                                                 *)

CanRender(r) ==
    /\ r.bound
    /\ HasVerso(r.toolchain)

\* A report that could not be announced stays the prepared one, with an error.
Prepare ==
    /\ step = "prepare"
    /\ \/ /\ CanRender(request)
          /\ report' = Report("pending", "prepared", FALSE)
          /\ ready' = TRUE
          /\ step' = "elan"
       \/ /\ \/ report' = Report("error", "intake", TRUE)
             \/ CanRender(request) /\ report' = Report("pending", "prepared", TRUE)
          /\ ready' = FALSE
          /\ step' = "upload"
    /\ UNCHANGED <<tools, request, uploaded, failed, mem, workspace, module, site, text,
                   staging, result, cause>>

-----------------------------------------------------------------------------
(* The job's tools.  A step that fails, or a job that is cancelled or out  *)
(* of time, leaves the steps that always run.                              *)

Abandon ==
    /\ failed' = TRUE
    /\ step' = "upload"

\* The download was a process of its own, whose counts end with it.
DownloadExits ==
    /\ transfer \in Ended
    /\ attempt' = 0 /\ left' = 0
    /\ UNCHANGED <<client, transfer, destination, checker, blame>>

InstallElan ==
    /\ step = "elan"
    /\ \/ Download /\ UNCHANGED <<step, failed>>
       \/ /\ DownloadExits
          /\ \/ transfer = "ok" /\ step' = "install" /\ UNCHANGED failed
             \/ Abandon
    /\ UNCHANGED <<request, ready, uploaded, renderer>>

\* The toolchain and bubblewrap.
InstallTools ==
    /\ step = "install"
    /\ step' = "execute"
    /\ UNCHANGED <<tools, job, renderer>>

\* A verification that fetches its checker, which is all of it that is here.
SetUpChecker ==
    /\ step = "setup"
    /\ \/ SelectChecker
       \/ Download
       \/ RefuseChecker
       \/ ExtractChecker
    /\ UNCHANGED <<job, step, renderer>>

-----------------------------------------------------------------------------
(* execute                                                                 *)

\* A check of execute that fails, or an error that it did not expect.
Raise(why) ==
    /\ step' = "handler"
    /\ cause' = why

Working(stage) == step = stage /\ UNCHANGED <<tools, job>>

\* The prepared report is parsed, and stays on disk until the build begins.
Begin ==
    /\ Working("execute")
    /\ mem' = Report("error", "workspace", FALSE)
    /\ step' = "workspace"
    /\ UNCHANGED <<report, workspace, module, site, text,
                   staging, result, cause>>

Source == Prepared(request.project)
Verso == VersoAt[VersoFor(request.toolchain)]
VersoPackages == Verso.packages \cup {Own}

\* prepare_workspace and materialize_packages.  The provider may not have what a
\* canonical root's own manifest is read from.
OpenWorkspace ==
    /\ Working("workspace")
    /\ \/ /\ Compatible(request.toolchain, Verso.toolchain)
          /\ CanPlan(Source, VersoPackages)
          /\ workspace' = Planned(Source, VersoPackages)
          /\ step' = "release"
          /\ UNCHANGED cause
       \/ /\ ~ CanPlan(Source, VersoPackages)
          /\ Raise("conflict")
          /\ UNCHANGED workspace
       \/ /\ ~ Mergeable(Source, VersoPackages)
          /\ Raise("provider")
          /\ UNCHANGED workspace
       \/ Raise("other") /\ UNCHANGED workspace
    /\ UNCHANGED <<report, mem, module, site, text, staging, result>>

\* The ProofWidgets whose sources have no widgets of their own.
Released == IF request.layout = "legacy" THEN Named(workspace, "proofwidgets") ELSE {}

CanStage ==
    /\ WidgetsCanonical(workspace)
    /\ ReleaseAllowed(Released, workspace)

\* prepare_legacy_mathlib_cache_tool: a legacy Mathlib's leantar is put into the cache
\* directory if its archive has the digest of an allowed version.
PreparedTools == {"none"} \cup {"pinned" : p \in Named(workspace, "mathlib")}

\* stage_legacy_proofwidgets_release: Lake builds the package's release target with
\* the network, in a copy of its own; this or what follows it may fail.
StageReleases ==
    /\ Working("release")
    /\ \/ /\ CanStage
          /\ networked' = Released
          /\ leantar' \in PreparedTools
          /\ step' = "discover"
          /\ UNCHANGED cause
       \/ /\ networked' = networked \/ (CanStage /\ networked' = Released)
          /\ \E why \in {"timeout", "other"} : Raise(why)
          /\ UNCHANGED leantar
    /\ UNCHANGED <<report, mem, workspace, module, site, text, result, preserved>>

\* No cache is asked for a workspace without Mathlib.
SkipHydration ==
    /\ Working("discover")
    /\ Named(workspace, "mathlib") = {}
    /\ step' = "literate"
    /\ mem' = [mem EXCEPT !.stage = "literate"]
    /\ report' = mem'
    /\ UNCHANGED <<workspace, module, staging, site, text, result, cause>>

\* lake exe cache elaborates every Lakefile, without a network, to name the archives.
Discover ==
    /\ Working("discover")
    /\ Named(workspace, "mathlib") # {}
    /\ \/ /\ leantar' \in {leantar, "candidate"}
          /\ preserved' = (leantar = "pinned")
          /\ module' \in {module, "candidate"}
          /\ step' = "fetch"
          /\ UNCHANGED cause
       \/ \E why \in {"timeout", "other"} : Raise(why) /\ UNCHANGED <<leantar, preserved, module>>
    /\ UNCHANGED <<report, mem, workspace, site, text, result, networked>>

FetchOverOldTool ==
    /\ Working("fetch")
    /\ \/ step' = "unpack" /\ UNCHANGED <<cause, leantar>>
       \/ \E why \in {"timeout", "other"} : Raise(why) /\ UNCHANGED leantar
    /\ UNCHANGED <<report, mem, workspace, module, site, text, result, preserved, networked>>

\* download_mathlib_cache: the tool as it was put there survives in a directory that
\* is made anew.  Archives that no host has are no failure.
FetchArchives ==
    /\ Working("fetch")
    /\ \/ /\ preserved => leantar = "pinned"
          /\ leantar' = IF preserved THEN leantar ELSE "none"
          /\ step' = "unpack"
          /\ UNCHANGED cause
       \/ \E why \in {"timeout", "other"} : Raise(why) /\ UNCHANGED leantar
    /\ UNCHANGED <<report, mem, workspace, module, site, text, result, preserved, networked>>

\* hydrate_mathlib_cache ends, and prepare_build_metadata_files.
Unpack ==
    /\ Working("unpack")
    /\ \/ /\ module' \in {module, "candidate"}
          /\ leantar' = "none"
          /\ step' = "literate"
          /\ mem' = [mem EXCEPT !.stage = "literate"]
          /\ report' = mem'
          /\ UNCHANGED cause
       \/ \E why \in {"timeout", "other"} : Raise(why) /\ UNCHANGED <<module, mem, report, leantar>>
    /\ UNCHANGED <<workspace, site, text, result, preserved, networked>>

\* The submission's modules are compiled, by its own code where it has any.
BuildLiterate ==
    /\ Working("literate")
    /\ \/ /\ ~ request.shadowed
          /\ module' \in {module, "candidate"}
          /\ step' = "audit"
          /\ UNCHANGED cause
       \/ \E why \in {"timeout", "other"} : Raise(why) /\ UNCHANGED module
    /\ UNCHANGED <<report, mem, workspace, site, text, staging, result>>

\* core_notation_audit_lean_path comes after the last Lake code of the submission's:
\* no directory but the toolchain's may have a module of the toolchain.  The text
\* goes where no later phase can write.
Audit ==
    /\ Working("audit")
    /\ \/ /\ module # "candidate"
          /\ text' = "trusted"
          /\ step' = "verso-html"
          /\ mem' = [mem EXCEPT !.stage = "verso-html"]
          /\ report' = mem'
          /\ UNCHANGED cause
       \/ \E why \in {"timeout", "other"} : Raise(why) /\ UNCHANGED <<text, mem, report>>
    /\ UNCHANGED <<workspace, module, site, staging, result>>

\* verso-html elaborates the Lakefiles once more, and writes where they do.
WriteHtml ==
    /\ Working("verso-html")
    /\ \/ /\ module' \in {module, "candidate"}
          /\ step' = "sanitize"
          /\ mem' = [mem EXCEPT !.stage = "sanitize"]
          /\ report' = mem'
          /\ UNCHANGED cause
       \/ \E why \in {"timeout", "other"} : Raise(why) /\ UNCHANGED <<module, mem, report>>
    /\ UNCHANGED <<workspace, site, text, staging, result>>

\* The sanitizer's exit status says that an anchor is missing, and its diagnostic
\* which; any other failure is not the submitter's.
Sanitize ==
    /\ Working("sanitize")
    /\ \/ /\ request.anchored
          /\ site' = "clean"
          /\ step' = "copy"
          /\ UNCHANGED cause
       \/ ~ request.anchored /\ Raise("anchors") /\ UNCHANGED site
       \/ \E why \in {"timeout", "other"} : Raise(why) /\ UNCHANGED site
    /\ UNCHANGED <<report, mem, workspace, module, text, staging, result>>

\* The manifest in the site is the site's, and the result directory is new.
CopyResult ==
    /\ Working("copy")
    /\ \/ /\ result' = {site, text}
          /\ mem' = Report("pass", "complete", FALSE)
          /\ step' = "seal"
          /\ UNCHANGED cause
       \/ \E parts \in SUBSET {site, text} :
            /\ result' = parts
            /\ Raise("other")
            /\ UNCHANGED mem
    /\ UNCHANGED <<report, workspace, module, site, text, staging>>

\* The report goes into the result, and then where the job looks for it.
SealTogether ==
    /\ Working("seal")
    /\ \/ step' = "publish" /\ report' = mem /\ UNCHANGED <<cause, result>>
       \/ Raise("other") /\ UNCHANGED <<report, result>>
    /\ UNCHANGED <<mem, workspace, module, site, text, staging>>

Seal ==
    /\ Working("seal")
    /\ \/ step' = "publish" /\ result' = result \cup {"report"} /\ UNCHANGED cause
       \/ Raise("other") /\ UNCHANGED result
    /\ UNCHANGED <<report, mem, workspace, module, site, text, staging>>

Publish ==
    /\ step = "publish" /\ UNCHANGED <<tools, request, ready, uploaded, failed>>
    /\ \/ step' = "upload" /\ report' = mem /\ UNCHANGED cause
       \/ Raise("other") /\ UNCHANGED report
    /\ UNCHANGED <<mem, workspace, module, site, text, staging, result>>

StatusByDefaultOwner(r, why) ==
    IF why \in {"anchors", "other"} THEN "fail" ELSE r.status

\* append_render_failure: of the renderer's errors only the missing anchors are the
\* submitter's.  The status is else what it was: "error", or "pass" if it was the
\* writing of a pass that failed.
StatusAfter(r, why) == IF why = "anchors" THEN "fail" ELSE r.status

Handle ==
    /\ step = "handler" /\ Abandon
    /\ mem' = Report(StatusAfter(mem, cause), mem.stage, TRUE)
    /\ report' \in {mem', report}
    /\ UNCHANGED <<tools, request, ready, uploaded, workspace, module, site, text,
                   staging, result, cause>>

\* The step is killed: the job's timeout, or somebody cancels it.
Cancelled ==
    /\ step \in {"prepare", "elan", "install", "execute"} \cup ExecuteStages
    /\ Abandon
    /\ UNCHANGED <<tools, request, ready, uploaded, renderer>>

-----------------------------------------------------------------------------
(* The steps that always run                                               *)

Upload ==
    /\ step = "upload"
    /\ step' = "require"
    /\ \/ report # NoReport /\ uploaded' = [report |-> report, result |-> result]
          /\ UNCHANGED failed
       \/ failed' = TRUE /\ UNCHANGED uploaded
    /\ UNCHANGED <<tools, request, ready, renderer>>

Require ==
    /\ step = "require"
    /\ step' = "done"
    /\ failed' = (failed \/ report.status # "pass")
    /\ UNCHANGED <<tools, request, ready, uploaded, renderer>>

Next ==
    \/ Prepare \/ InstallElan \/ InstallTools \/ SetUpChecker
    \/ Begin \/ OpenWorkspace \/ StageReleases
    \/ SkipHydration \/ Discover \/ FetchArchives \/ Unpack
    \/ BuildLiterate \/ Audit \/ WriteHtml \/ Sanitize
    \/ CopyResult \/ Seal \/ Publish \/ Handle \/ Cancelled
    \/ Upload \/ Require

Spec == Init /\ [][Next]_vars

-----------------------------------------------------------------------------
\* What of outside code the job takes is authentic where it is taken.  A download is
\* installed with its pinned digest (see ToolsAreAuthentic).  Lake code runs with the
\* network only of the ProofWidgets that a Mathlib pins, and that Mathlib is Verso's
\* own or one whose revision was verified to be official, whatever else the merge of
\* the manifests kept or left out.  And the leantar in the cache directory when
\* archives are about to be unpacked, offline, is the one the renderer put there, or
\* none: not what Lake code left while it named them.
RenderToolsAreAuthentic ==
    /\ ToolsAreAuthentic
    /\ \A w \in networked : \E m \in Source \cup VersoPackages :
         /\ m.repo = "mathlib4" /\ w \in PinsOf(m)
         /\ \/ m \in VersoPackages
            \/ \E r \in Trusted : m \in Matching(r, Source) /\ Official(r, m.rev)
    /\ step = "unpack" => leantar # "candidate"

Passed(r) == r.status = "pass" /\ ~ r.errors

\* Wherever the job dies, fails to write or is cancelled, and whatever the
\* submission's code left in its workspace: a report that says pass, and has no
\* error, stands beside a whole result, sanitized, with the audit's text from the
\* toolchain's own modules; and the job is green only with just that uploaded.
PassIsWhole ==
    /\ Passed(report) => result = Whole
    /\ step = "done" /\ ~ failed => Passed(uploaded.report) /\ uploaded.result = Whole

\* What is rendered is what was verified: every package the Challenge rests on is in
\* the workspace with the sources of the accepted manifest, however Verso's own
\* packages conflicted with the proof's; and Verso is of the same line of releases.
RenderedAsVerified ==
    workspace # {} =>
      /\ \A p \in Source :
           p.name \in Needs(request.imports, Source) =>
             \E q \in workspace : q.name = p.name /\ (SameKey(p, q) \/ SamePlausible(p, q))
      /\ Verso.toolchain.line = request.toolchain.line

\* Of all that can go wrong after a submission was accepted, its author is told to
\* change it only for declarations that Verso gave no anchor.
AnchorsAloneAreBlamed ==
    report.status = "fail" => ~ request.anchored /\ cause = "anchors"
=============================================================================
