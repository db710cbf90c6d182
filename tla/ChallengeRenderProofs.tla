----------------------- MODULE ChallengeRenderProofs -----------------------
(***************************************************************************)
(* Theorems about ChallengeRender for every budget, every answer of the    *)
(* provider and every verified submission: a download is bounded, tools    *)
(* are authentic, a pass is whole, only anchors are blamed, and what is    *)
(* rendered is what was verified.                                          *)
(***************************************************************************)
EXTENDS ChallengeRender, TLAPS

Renders == Prepare \/ InstallTools \/ Begin \/ OpenWorkspace \/ StageReleases \/ SkipHydration
           \/ Discover \/ FetchArchives \/ Unpack \/ BuildLiterate \/ Audit \/ WriteHtml
           \/ Sanitize \/ CopyResult \/ Seal \/ Publish \/ Handle \/ Cancelled \/ Upload
           \/ Require

\* Every other action leaves the download and the checker alone.
LEMMA RendersKeepTools == Renders => UNCHANGED tools
  BY DEF Renders, Prepare, InstallTools, Begin, OpenWorkspace, StageReleases, SkipHydration,
     Discover, FetchArchives, Unpack, BuildLiterate, Audit, WriteHtml, Sanitize, CopyResult,
     Seal, Publish, Handle, Cancelled, Upload, Require, Working, job

-----------------------------------------------------------------------------
(* The download                                                            *)

\* What a request leaves to the next, and what an error is recorded as.
DownloadInv ==
    /\ attempt \in 0 .. Attempts /\ left \in Int
    /\ transfer \in {"asking", "busy"} => attempt < Attempts
    /\ checker = "unset" => blame = NoBlame
    /\ DownloadIsBounded
    /\ ToolsAreAuthentic

LEMMA DownloadStart == DownloadInit => DownloadInv
  BY BudgetsAssumption DEF DownloadInit, DownloadInv, DownloadIsBounded, ToolsAreAuthentic,
     Attempts, Grace, LongestPause, NoBlame

\* The provider can ask for no pause that is longer than a minute, or negative.
LEMMA DelaysAreShort == \A n : RetryDelays(n) \subseteq 0 .. LongestPause
  BY HintsAssumption DEF RetryDelays, LongestPause

LEMMA DownloadStep == DownloadInv /\ Download => DownloadInv'
  <1> SUFFICES ASSUME DownloadInv, Download PROVE DownloadInv'
    OBVIOUS
  <1> USE DEF DownloadInv, DownloadIsBounded, ToolsAreAuthentic, Attempts, Grace, LongestPause,
      NoBlame
  <1>1. CASE Ask
    BY <1>1 DEF Ask, Outcome, Deliver
  <1>2. CASE Backoff
    BY <1>2, DelaysAreShort DEF Backoff
  <1>3. CASE GiveUp
    BY <1>3 DEF GiveUp
  <1> QED
    BY <1>1, <1>2, <1>3 DEF Download

\* A manifest of updates that does not parse is no reason to try again.
LEMMA PolicyIsNoOutage == ~ BlameFor("policy").retryable
  <1>1. "policy" \notin {"transient", "timeout"}
    OBVIOUS
  <1> DEFINE outage == "policy" \in {"transient", "timeout"}
  <1>2. ~ outage
    BY <1>1
  <1>3. BlameFor("policy").retryable = outage
    BY DEF BlameFor
  <1> HIDE DEF outage
  <1> QED
    BY <1>2, <1>3

LEMMA CheckerStep == DownloadInv /\ SetUpChecker => DownloadInv'
  <1> SUFFICES ASSUME DownloadInv, SetUpChecker PROVE DownloadInv'
    OBVIOUS
  <1>1. CASE Download
    BY <1>1, DownloadStep
  <1> USE DEF DownloadInv, DownloadIsBounded, ToolsAreAuthentic, Attempts, Grace, LongestPause,
      NoBlame
  <1>2. CASE SelectChecker
    <2>1. ~ blame'.retryable
      BY <1>2, PolicyIsNoOutage DEF SelectChecker
    <2>2. checker' # "unset"
      BY <1>2 DEF SelectChecker
    <2> QED
      BY <1>2, <2>1, <2>2 DEF SelectChecker
  <1>3. CASE RefuseChecker
    BY <1>3 DEF RefuseChecker, BlameFor, Ended
  <1>4. CASE ExtractChecker
    BY <1>4 DEF ExtractChecker, BlameFor
  <1> QED
    BY <1>1, <1>2, <1>3, <1>4 DEF SetUpChecker

LEMMA ElanStep == DownloadInv /\ InstallElan => DownloadInv'
  <1> SUFFICES ASSUME DownloadInv, InstallElan PROVE DownloadInv'
    OBVIOUS
  <1>1. CASE Download
    BY <1>1, DownloadStep
  <1>2. CASE DownloadExits
    BY <1>2 DEF DownloadExits, DownloadInv, DownloadIsBounded, ToolsAreAuthentic, Attempts,
       Grace, LongestPause, NoBlame, Ended
  <1> QED
    BY <1>1, <1>2 DEF InstallElan

LEMMA DownloadInvariant == Spec => []DownloadInv
  <1>1. Init => DownloadInv
    BY DownloadStart DEF Init
  <1>2. DownloadInv /\ [Next]_vars => DownloadInv'
    <2> SUFFICES ASSUME DownloadInv, [Next]_vars PROVE DownloadInv'
      OBVIOUS
    <2>1. CASE InstallElan
      BY <2>1, ElanStep
    <2>2. CASE SetUpChecker
      BY <2>2, CheckerStep
    <2>3. CASE UNCHANGED tools
      BY <2>3 DEF tools, download, DownloadInv, DownloadIsBounded, ToolsAreAuthentic
    <2> QED
      BY <2>1, <2>2, <2>3, RendersKeepTools DEF Next, Renders, vars
  <1> QED
    BY <1>1, <1>2, PTL DEF Spec

\* However the provider answers, and whatever it asks to be waited for, a download
\* ends within its budget and the grace of one subprocess, and only an outage is
\* reported as worth a retry.
THEOREM DownloadBounded == Spec => []DownloadIsBounded
  <1>1. DownloadInv => DownloadIsBounded
    BY DEF DownloadInv
  <1> QED
    BY <1>1, DownloadInvariant, PTL

-----------------------------------------------------------------------------
(* The job                                                                 *)

Reports == [status : {"none", "pending", "error", "fail", "pass"},
            stage : {"none", "intake", "prepared", "workspace", "literate",
                     "verso-html", "sanitize", "complete"},
            errors : BOOLEAN]

Building == {"workspace", "release", "discover", "fetch", "unpack", "literate", "audit",
             "verso-html", "sanitize", "copy"}

Sealing == {"seal", "publish"}

\* The request is one, and reports are whole records.
Recorded ==
    /\ request \in Requests
    /\ report \in Reports /\ mem \in Reports

\* Until a pass is published, or an error handled, there is no verdict on disk.
Undecided ==
    /\ step \in {"setup", "prepare", "elan", "install", "execute", "handler"}
                \cup Building \cup Sealing
         => report.status \notin {"pass", "fail"}
    /\ step \in Building => mem.status = "error"
    /\ step \in Sealing => mem = Report("pass", "complete", FALSE)
    /\ step = "handler" => mem.status \in {"error", "pass"}

\* What the stages behind have left for the stages ahead.
Accumulated ==
    /\ step \in {"verso-html", "sanitize", "copy"} => text = "trusted"
    /\ step = "copy" => site = "clean"
    /\ step = "seal" => result = {"clean", "trusted"}
    /\ step = "publish" => result = Whole
    /\ step = "unpack" => leantar # "candidate"

\* An execute that goes on has met no error, and what it blames is there.
Blamed ==
    /\ step \in {"setup", "prepare", "elan", "install", "execute"} \cup Building \cup Sealing
         => cause = "none"
    /\ cause = "anchors" => ~ request.anchored
    /\ report.status = "fail" => cause = "anchors"

\* A pass on disk is whole or has an error, of which the job's own end is one.
Concluded ==
    /\ Passed(report) => result = Whole
    /\ report.status = "pass" /\ report.errors => failed
    /\ step \in {"require", "done"} => failed \/ uploaded = [report |-> report, result |-> result]
    /\ step = "done" => failed \/ report.status = "pass"

RenderInv == Recorded /\ Undecided /\ Accumulated /\ Blamed /\ Concluded

LEMMA NoReportType == NoReport \in Reports /\ NoReport.status = "none"
  BY DEF NoReport, Report, Reports

LEMMA ReportType ==
  ASSUME NEW s \in {"none", "pending", "error", "fail", "pass"},
         NEW g \in {"none", "intake", "prepared", "workspace", "literate", "verso-html",
                    "sanitize", "complete"},
         NEW e \in BOOLEAN
  PROVE  Report(s, g, e) \in Reports
  BY DEF Report, Reports

LEMMA RenderStart == Init => RenderInv
  <1> SUFFICES ASSUME Init PROVE RenderInv
    OBVIOUS
  <1>1. /\ request \in Requests /\ failed = FALSE /\ cause = "none"
        /\ report = NoReport /\ mem = NoReport /\ step \in {"prepare", "setup"}
    BY DEF Init
  <1> QED
    BY <1>1, NoReportType DEF RenderInv, Recorded, Undecided, Accumulated, Blamed, Concluded,
       Building, Sealing, Passed

LEMMA RenderStep == RenderInv /\ [Next]_vars => RenderInv'
  <1> SUFFICES ASSUME RenderInv, [Next]_vars PROVE RenderInv'
    OBVIOUS
  <1> USE DEF RenderInv, Recorded, Undecided, Accumulated, Blamed, Concluded, Building,
      Sealing, Passed, Whole, Report, Reports, Raise, Abandon, Working, job, renderer, staging
  <1>1. CASE Prepare
    <2>1. Recorded'
      <3>1. /\ Report("pending", "prepared", FALSE) \in Reports
            /\ Report("error", "intake", TRUE) \in Reports
            /\ Report("pending", "prepared", TRUE) \in Reports
        BY ReportType
      <3> QED
        BY <1>1, <3>1, Zenon DEF Prepare
    <2>2. Undecided'
      BY <1>1 DEF Prepare
    <2>3. Accumulated'
      BY <1>1 DEF Prepare
    <2>4. Blamed'
      BY <1>1 DEF Prepare
    <2>5. Concluded'
      BY <1>1 DEF Prepare
    <2> QED
      BY <2>1, <2>2, <2>3, <2>4, <2>5
  <1>2. CASE InstallElan
    <2>1. Recorded'
      BY <1>2 DEF InstallElan
    <2>2. Undecided'
      BY <1>2 DEF InstallElan
    <2>3. Accumulated'
      BY <1>2 DEF InstallElan
    <2>4. Blamed'
      BY <1>2 DEF InstallElan
    <2>5. Concluded'
      BY <1>2 DEF InstallElan
    <2> QED
      BY <2>1, <2>2, <2>3, <2>4, <2>5
  <1>3. CASE InstallTools
    BY <1>3 DEF InstallTools
  <1>4. CASE SetUpChecker
    BY <1>4 DEF SetUpChecker
  <1>5. CASE Begin
    BY <1>5 DEF Begin
  <1>6. CASE OpenWorkspace
    BY <1>6 DEF OpenWorkspace
  <1>7. CASE StageReleases
    BY <1>7 DEF StageReleases
  <1>8. CASE SkipHydration
    BY <1>8 DEF SkipHydration
  <1>9. CASE Discover
    BY <1>9 DEF Discover
  <1>10. CASE FetchArchives
    BY <1>10 DEF FetchArchives
  <1>11. CASE Unpack
    BY <1>11 DEF Unpack
  <1>12. CASE BuildLiterate
    BY <1>12 DEF BuildLiterate
  <1>13. CASE Audit
    BY <1>13 DEF Audit
  <1>14. CASE WriteHtml
    BY <1>14 DEF WriteHtml
  <1>15. CASE Sanitize
    BY <1>15 DEF Sanitize
  <1>16. CASE CopyResult
    <2>1. Recorded'
      <3>1. Report("pass", "complete", FALSE) \in Reports
        BY ReportType
      <3> QED
        BY <1>16, <3>1, Zenon DEF CopyResult
    <2>2. Undecided'
      BY <1>16 DEF CopyResult
    <2>3. Accumulated'
      BY <1>16 DEF CopyResult
    <2>4. Blamed'
      BY <1>16 DEF CopyResult
    <2>5. Concluded'
      BY <1>16 DEF CopyResult
    <2> QED
      BY <2>1, <2>2, <2>3, <2>4, <2>5
  <1>17. CASE Seal
    BY <1>17 DEF Seal
  <1>18. CASE Publish
    BY <1>18 DEF Publish
  <1>19. CASE Handle
    <2>1. Recorded'
      <3>1. StatusAfter(mem, cause) \in {"none", "pending", "error", "fail", "pass"}
        BY DEF StatusAfter
      <3>2. mem.stage \in {"none", "intake", "prepared", "workspace", "literate", "verso-html",
                           "sanitize", "complete"}
        OBVIOUS
      <3>3. Report(StatusAfter(mem, cause), mem.stage, TRUE) \in Reports
        BY <3>1, <3>2, ReportType
      <3> QED
        BY <1>19, <3>3, Zenon DEF Handle
    <2>2. Undecided'
      BY <1>19 DEF Handle, StatusAfter
    <2>3. Accumulated'
      BY <1>19 DEF Handle, StatusAfter
    <2>4. Blamed'
      BY <1>19 DEF Handle, StatusAfter
    <2>5. Concluded'
      BY <1>19 DEF Handle, StatusAfter
    <2> QED
      BY <2>1, <2>2, <2>3, <2>4, <2>5
  <1>20. CASE Cancelled
    BY <1>20 DEF Cancelled, ExecuteStages
  <1>21. CASE Upload
    <2>1. Recorded'
      BY <1>21 DEF Upload
    <2>2. Undecided'
      BY <1>21 DEF Upload
    <2>3. Accumulated'
      BY <1>21 DEF Upload
    <2>4. Blamed'
      BY <1>21 DEF Upload
    <2>5. Concluded'
      BY <1>21 DEF Upload
    <2> QED
      BY <2>1, <2>2, <2>3, <2>4, <2>5
  <1>22. CASE Require
    <2>1. Recorded'
      BY <1>22 DEF Require
    <2>2. Undecided'
      BY <1>22 DEF Require
    <2>3. Accumulated'
      BY <1>22 DEF Require
    <2>4. Blamed'
      BY <1>22 DEF Require
    <2>5. Concluded'
      BY <1>22 DEF Require
    <2> QED
      BY <2>1, <2>2, <2>3, <2>4, <2>5
  <1>23. CASE UNCHANGED vars
    BY <1>23 DEF vars
  <1> QED
    BY <1>1, <1>2, <1>3, <1>4, <1>5, <1>6, <1>7, <1>8, <1>9, <1>10, <1>11, <1>12, <1>13,
       <1>14, <1>15, <1>16, <1>17, <1>18, <1>19, <1>20, <1>21, <1>22, <1>23 DEF Next

LEMMA RenderInvariant == Spec => []RenderInv
  BY RenderStart, RenderStep, PTL DEF Spec

\* A pass without an error stands beside a whole result, and the job is green only
\* with just that uploaded, wherever it died and whatever was written before.
THEOREM PassesAreWhole == Spec => []PassIsWhole
  <1>1. RenderInv => PassIsWhole
    <2> SUFFICES ASSUME RenderInv PROVE PassIsWhole
      OBVIOUS
    <2>1. Passed(report) => result = Whole
      BY DEF RenderInv, Concluded
    <2>2. ASSUME step = "done", ~ failed
          PROVE  Passed(uploaded.report) /\ uploaded.result = Whole
      <3>1. uploaded.report = report /\ uploaded.result = result
        BY <2>2 DEF RenderInv, Concluded
      <3>2. Passed(report)
        BY <2>2 DEF RenderInv, Concluded, Passed
      <3> QED
        BY <2>1, <3>1, <3>2
    <2> QED
      BY <2>1, <2>2, Zenon DEF PassIsWhole
  <1> QED
    BY <1>1, RenderInvariant, PTL

\* An accepted submission's author is told to change it only for declarations that
\* Verso gave no anchor.
THEOREM OnlyAnchorsAreBlamed == Spec => []AnchorsAloneAreBlamed
  <1>1. RenderInv => AnchorsAloneAreBlamed
    BY DEF RenderInv, Blamed, AnchorsAloneAreBlamed
  <1> QED
    BY <1>1, RenderInvariant, PTL

-----------------------------------------------------------------------------
(* What runs with the network                                              *)

\* Before "release" no package's Lake code has run with the network, and only what
\* the workspace's Mathlib pins ever does; there is no workspace before it is opened.
NetworkInv ==
    /\ step \in {"setup", "prepare", "elan", "install", "execute", "workspace"} =>
         workspace = {}
    /\ step \in {"setup", "prepare", "elan", "install", "execute", "workspace", "release"} =>
         networked = {}
    /\ networked \subseteq workspace
    /\ \A w \in networked : \E m \in workspace : m.repo = "mathlib4" /\ w \in PinsOf(m)

LEMMA NetworkStep == NetworkInv /\ [Next]_vars => NetworkInv'
  <1> SUFFICES ASSUME NetworkInv, [Next]_vars PROVE NetworkInv'
    OBVIOUS
  <1>1. CASE OpenWorkspace
    <2>1. networked' = {} /\ step' \in {"release", "handler"}
      BY <1>1 DEF OpenWorkspace, Working, Raise, staging, NetworkInv
    <2> QED
      BY <2>1 DEF NetworkInv
  <1>2. CASE StageReleases
    <2>1. /\ step' \in {"discover", "handler"} /\ workspace' = workspace
          /\ networked' = {} \/ (CanStage /\ networked' = Released)
      BY <1>2 DEF StageReleases, Working, Raise, NetworkInv
    <2>2. CASE networked' = {}
      BY <2>1, <2>2 DEF NetworkInv
    <2>3. CASE CanStage /\ networked' = Released
      <3>1. Released \subseteq workspace
        BY DEF Released, Named
      <3>2. \A w \in Released : \E m \in workspace : m.repo = "mathlib4" /\ w \in PinsOf(m)
        BY <2>3 DEF CanStage, ReleaseAllowed
      <3> QED
        BY <2>1, <2>3, <3>1, <3>2 DEF NetworkInv
    <2> QED
      BY <2>1, <2>2, <2>3
  <1>3. CASE UNCHANGED <<workspace, networked>>
    <2>1. /\ step' \in {"setup", "prepare", "elan", "install", "execute", "workspace"} =>
               step \in {"setup", "prepare", "elan", "install", "execute", "workspace"}
          /\ step' = "release" => step \in {"release", "workspace"}
      BY <1>3 DEF Next, vars, job, Prepare, InstallElan, InstallTools, SetUpChecker, Begin,
         OpenWorkspace, StageReleases, SkipHydration, Discover, FetchArchives, Unpack,
         BuildLiterate, Audit, WriteHtml, Sanitize, CopyResult, Seal, Publish, Handle,
         Cancelled, Upload, Require, Working, Raise, Abandon
    <2> QED
      BY <1>3, <2>1 DEF NetworkInv
  <1> QED
    BY <1>1, <1>2, <1>3 DEF Next, vars, renderer, staging, Prepare, InstallElan, InstallTools,
       SetUpChecker, Begin, SkipHydration, Discover, FetchArchives, Unpack, BuildLiterate,
       Audit, WriteHtml, Sanitize, CopyResult, Seal, Publish, Handle, Cancelled, Upload, Require

LEMMA NetworkInvariant == Spec => []NetworkInv
  <1>1. Init => NetworkInv
    BY DEF Init, NetworkInv
  <1> QED
    BY <1>1, NetworkStep, PTL DEF Spec

-----------------------------------------------------------------------------
(* Types                                                                   *)

\* What DownloadInv does not already bound.
DownloadTypes ==
    /\ client \in {"elan", "checker", "bundled"}
    /\ transfer \in {"asking", "busy"} \cup Ended
    /\ destination \in {"none", "genuine", "forged"}
    /\ checker \in {"unset", "bundled", "pinned", "failed"}
    /\ blame \in {NoBlame} \cup [owner : {"palomar", "provider"}, retryable : BOOLEAN]

LEMMA BlameType ==
  ASSUME NEW end
  PROVE  BlameFor(end) \in [owner : {"palomar", "provider"}, retryable : BOOLEAN]
  <1> DEFINE owner == IF end \in {"transient", "timeout", "permanent"}
                      THEN "provider" ELSE "palomar"
             outage == end \in {"transient", "timeout"}
  <1>1. owner \in {"palomar", "provider"} /\ outage \in BOOLEAN
    OBVIOUS
  <1>2. BlameFor(end) = [owner |-> owner, retryable |-> outage]
    BY Zenon DEF BlameFor
  <1> HIDE DEF owner, outage
  <1> QED
    BY <1>1, <1>2

LEMMA OutcomeType ==
  ASSUME NEW answer \in {"genuine", "forged", "refused", "busy"}, NEW n
  PROVE  Outcome(answer, n) \in {"busy"} \cup Ended
  BY DEF Outcome, Ended

LEMMA DownloadTypesStart == Init => DownloadTypes
  BY DEF Init, DownloadInit, DownloadTypes

LEMMA DownloadTypesKept == DownloadTypes /\ [Next]_vars => DownloadTypes'
  <1> SUFFICES ASSUME DownloadTypes, [Next]_vars PROVE DownloadTypes'
    OBVIOUS
  <1>1. CASE UNCHANGED tools
    BY <1>1 DEF tools, download, DownloadTypes
  <1>2. CASE Ask
    BY <1>2, OutcomeType DEF Ask, Deliver, DownloadTypes, Ended
  <1>3. CASE Backoff \/ GiveUp
    BY <1>3 DEF Backoff, GiveUp, DownloadTypes, Ended
  <1>4. CASE SelectChecker
    BY <1>4, BlameType DEF SelectChecker, DownloadTypes
  <1>5. CASE RefuseChecker
    BY <1>5, BlameType DEF RefuseChecker, DownloadTypes
  <1>6. CASE ExtractChecker
    BY <1>6, BlameType DEF ExtractChecker, DownloadTypes
  <1>7. CASE DownloadExits
    BY <1>7 DEF DownloadExits, DownloadTypes
  <1>8. CASE InstallElan
    BY <1>2, <1>3, <1>7, <1>8 DEF InstallElan, Download
  <1>9. CASE SetUpChecker
    BY <1>2, <1>3, <1>4, <1>5, <1>6, <1>9 DEF SetUpChecker, Download
  <1> QED
    BY <1>1, <1>8, <1>9, RendersKeepTools DEF Next, Renders, vars

\* The rest of the job, but for the reports, whose type RenderInv has.
JobTypes ==
    /\ step \in JobSteps \cup ExecuteStages
    /\ ready \in BOOLEAN /\ failed \in BOOLEAN
    /\ cause \in {"none", "timeout", "anchors", "conflict", "provider", "other"}

WorkTypes ==
    /\ module \in {"toolchain", "candidate"}
    /\ leantar \in {"none", "pinned", "candidate"}
    /\ preserved \in BOOLEAN
    /\ site \in {"none", "clean", "anchorless"}
    /\ text \in {"none", "trusted", "candidate"}

ResultTypes ==
    /\ result \subseteq Whole \cup {"candidate", "anchorless"}
    /\ uploaded.result \subseteq Whole \cup {"candidate", "anchorless"}

LEMMA JobTypesKept == JobTypes /\ [Next]_vars => JobTypes'
  <1> SUFFICES ASSUME JobTypes, [Next]_vars PROVE JobTypes'
    OBVIOUS
  <1> USE DEF JobTypes, JobSteps, ExecuteStages, Raise, Abandon, Working, job, renderer
  <1>2. CASE Prepare \/ InstallElan \/ InstallTools \/ SetUpChecker \/ Begin \/ OpenWorkspace
    BY <1>2 DEF Prepare, InstallElan, InstallTools, SetUpChecker, Begin, OpenWorkspace
  <1>3. CASE StageReleases \/ SkipHydration \/ Discover \/ FetchArchives \/ Unpack
    BY <1>3 DEF StageReleases, SkipHydration, Discover, FetchArchives, Unpack
  <1>4. CASE BuildLiterate \/ Audit \/ WriteHtml \/ Sanitize \/ CopyResult
    BY <1>4 DEF BuildLiterate, Audit, WriteHtml, Sanitize, CopyResult
  <1>5. CASE Seal \/ Publish \/ Handle \/ Cancelled \/ Upload
    BY <1>5 DEF Seal, Publish, Handle, Cancelled, Upload
  <1>6. CASE Require
    <2>1. (failed \/ report.status # "pass") \in BOOLEAN
      OBVIOUS
    <2>2. failed' \in BOOLEAN /\ step' = "done" /\ UNCHANGED <<ready, cause>>
      BY <1>6, <2>1, Zenon DEF Require
    <2> QED
      BY <2>2
  <1>7. CASE UNCHANGED vars
    BY <1>7 DEF vars
  <1> QED
    BY <1>2, <1>3, <1>4, <1>5, <1>6, <1>7 DEF Next

LEMMA WorkTypesKept == WorkTypes /\ [Next]_vars => WorkTypes'
  <1> SUFFICES ASSUME WorkTypes, [Next]_vars PROVE WorkTypes'
    OBVIOUS
  <1> USE DEF WorkTypes, Working, job, renderer, staging
  <1>1. CASE Prepare \/ InstallElan \/ InstallTools \/ SetUpChecker \/ Begin \/ OpenWorkspace
    BY <1>1 DEF Prepare, InstallElan, InstallTools, SetUpChecker, Begin, OpenWorkspace
  <1>2. CASE StageReleases
    BY <1>2 DEF StageReleases, PreparedTools
  <1>3. CASE Discover
    <2>1. (leantar = "pinned") \in BOOLEAN
      OBVIOUS
    <2>2. preserved' \in BOOLEAN
      BY <1>3, <2>1, Zenon DEF Discover
    <2>3. /\ leantar' \in {leantar, "candidate"} /\ module' \in {module, "candidate"}
          /\ site' = site /\ text' = text
      BY <1>3 DEF Discover
    <2> QED
      BY <2>2, <2>3
  <1>4. CASE SkipHydration \/ FetchArchives \/ Unpack
    BY <1>4 DEF SkipHydration, FetchArchives, Unpack
  <1>5. CASE BuildLiterate \/ Audit \/ WriteHtml \/ Sanitize \/ CopyResult
    BY <1>5 DEF BuildLiterate, Audit, WriteHtml, Sanitize, CopyResult
  <1>6. CASE Seal \/ Publish \/ Handle \/ Cancelled \/ Upload \/ Require
    BY <1>6 DEF Seal, Publish, Handle, Cancelled, Upload, Require
  <1>7. CASE UNCHANGED vars
    BY <1>7 DEF vars
  <1> QED
    BY <1>1, <1>2, <1>3, <1>4, <1>5, <1>6, <1>7 DEF Next

\* What goes into the result is what Accumulated says of the stages behind.
LEMMA ResultTypesKept == ResultTypes /\ RenderInv /\ [Next]_vars => ResultTypes'
  <1> SUFFICES ASSUME ResultTypes, RenderInv, [Next]_vars PROVE ResultTypes'
    OBVIOUS
  <1> USE DEF ResultTypes, Whole
  <1>1. CASE CopyResult
    <2>1. site = "clean" /\ text = "trusted"
      BY <1>1 DEF CopyResult, Working, RenderInv, Accumulated
    <2>2. result' \subseteq {"clean", "trusted"}
      BY <1>1, <2>1 DEF CopyResult
    <2>3. uploaded' = uploaded
      BY <1>1 DEF CopyResult, Working, job
    <2> QED
      BY <2>2, <2>3
  <1>2. CASE Seal
    BY <1>2 DEF Seal, Working, job
  <1>3. CASE Upload
    <2>1. result' = result
      BY <1>3 DEF Upload, renderer
    <2>2. uploaded' = [report |-> report, result |-> result] \/ uploaded' = uploaded
      BY <1>3 DEF Upload
    <2>3. uploaded'.result \in {result, uploaded.result}
      BY <2>2
    <2> QED
      BY <2>1, <2>3
  <1>4. CASE UNCHANGED <<result, uploaded>>
    BY <1>4
  <1> QED
    BY <1>1, <1>2, <1>3, <1>4 DEF Next, Prepare, InstallElan, InstallTools, SetUpChecker, Begin,
       OpenWorkspace, StageReleases, SkipHydration, Discover, FetchArchives, Unpack, BuildLiterate,
       Audit, WriteHtml, Sanitize, Publish, Handle, Cancelled, Require, Working, job, renderer,
       vars

\* Every variable of the job, of its download and of the renderer keeps its type.
THEOREM RenderTypes == Spec => []TypeOK
  <1>1. Init => JobTypes /\ WorkTypes /\ ResultTypes
    <2> SUFFICES ASSUME Init PROVE JobTypes /\ WorkTypes /\ ResultTypes
      OBVIOUS
    <2>1. JobTypes
      BY DEF Init, JobTypes, JobSteps
    <2>2. WorkTypes
      BY DEF Init, WorkTypes
    <2>3. ResultTypes
      <3>1. result = {} /\ uploaded.result = {}
        BY DEF Init
      <3> QED
        BY <3>1 DEF ResultTypes
    <2> QED
      BY <2>1, <2>2, <2>3
  <1>2. /\ DownloadInv /\ DownloadTypes /\ RenderInv /\ JobTypes /\ WorkTypes /\ ResultTypes
        /\ NetworkInv
        => TypeOK
    BY DEF DownloadInv, DownloadTypes, DownloadTypeOK, RenderInv, Recorded, Reports, JobTypes,
       WorkTypes, ResultTypes, NetworkInv, TypeOK
  <1> QED
    BY <1>1, <1>2, DownloadTypesStart, DownloadTypesKept, JobTypesKept, WorkTypesKept,
       ResultTypesKept, NetworkInvariant, DownloadInvariant, RenderInvariant, PTL DEF Spec

-----------------------------------------------------------------------------
(* The workspace                                                           *)

\* What a root vouches for is a library to the renderer, though it may be named by
\* an alias.
LEMMA RootsAreLibraries ==
  ASSUME NEW source, NEW r \in Trusted, NEW p \in Matching(r, source)
  PROVE  p \in Libraries(source)
  <1>1. p \in source /\ Canonical(p.repo) = r.repository
    BY DEF Matching
  <1>2. RootOf(p.repo) # {}
    <2> SUFFICES ASSUME RootOf(p.repo) = {} PROVE FALSE
      OBVIOUS
    <2>1. p.repo = r.repository
      BY <1>1 DEF Canonical
    <2>2. r \in RootOf(p.repo)
      BY <2>1 DEF RootOf, RepositoriesOf
    <2> QED
      BY <2>2
  <1> QED
    BY <1>1, <1>2 DEF Libraries

\* Of a library in the manifest everything stays that the Challenge needs, though
\* it was imported by a package the library only pins.
LEMMA NeedsAreKept ==
  ASSUME NEW source, NEW imports, WellFormed(source), CanAllow(source),
         imports \subseteq Allowed(source),
         \A p \in Libraries(source) : \A pin \in PinsOf(p) :
            Names(PinsOf(pin)) \subseteq Names(PinsOf(p)),
         NEW p \in source, p.name \in Needs(imports, source)
  PROVE  p \in ChallengeOnly(source)
  <1>1. PICK n \in imports : \E q \in Named(source, n) : p.name \in Closure(q)
    BY DEF Needs
  <1>2. PICK q \in Named(source, n) : p.name \in Closure(q)
    BY <1>1
  <1>3. PICK r \in Trusted : n \in ClosureOf(r, source)
    BY <1>1 DEF Allowed
  <1>4. PICK lib \in Matching(r, source) : n \in Closure(lib)
    BY <1>3 DEF ClosureOf
  <1>5. lib \in Libraries(source) /\ lib \in source
    BY <1>4, RootsAreLibraries DEF Libraries
  <1>6. Closure(q) \subseteq Closure(lib)
    <2>1. q \in source /\ q.name = n
      BY <1>2 DEF Named
    <2>2. CASE n = lib.name
      <3>1. q = lib
        BY <1>5, <2>1, <2>2 DEF WellFormed
      <3> QED
        BY <3>1
    <2>3. CASE n \in Names(PinsOf(lib))
      <3>1. PICK expected \in PinsOf(lib) : expected.name = n
        BY <2>3 DEF Names
      <3>2. Pinned(expected, source)
        BY <1>3, <1>4, <3>1 DEF CanAllow, RootAccepted
      <3>3. PICK actual \in Named(source, n) :
               /\ Canonical(actual.repo) = Canonical(expected.repo)
               /\ actual.rev = expected.rev
        BY <3>1, <3>2 DEF Pinned
      <3>4. actual = q
        BY <2>1, <3>3 DEF Named, WellFormed
      <3>5. PinsOf(q) = PinsOf(expected)
        BY <3>3, <3>4 DEF PinsOf
      <3>6. Names(PinsOf(q)) \subseteq Names(PinsOf(lib))
        BY <1>5, <3>1, <3>5
      <3> QED
        BY <2>1, <2>3, <3>6 DEF Closure
    <2> QED
      BY <1>4, <2>2, <2>3 DEF Closure
  <1> QED
    BY <1>2, <1>5, <1>6 DEF ChallengeOnly

\* Once there is a workspace, it is the merge of one of the two manifests.
WorkspaceInv ==
    /\ request \in Requests
    /\ workspace # {} =>
         /\ CanPlan(Source, VersoPackages)
         /\ workspace = Planned(Source, VersoPackages)
         /\ Compatible(request.toolchain, Verso.toolchain)

LEMMA WorkspaceInvariant == Spec => []WorkspaceInv
  <1>1. Init => WorkspaceInv
    BY DEF Init, WorkspaceInv
  <1>2. WorkspaceInv /\ [Next]_vars => WorkspaceInv'
    <2> SUFFICES ASSUME WorkspaceInv, [Next]_vars PROVE WorkspaceInv'
      OBVIOUS
    <2>1. request' = request
      BY DEF Next, vars, Prepare, InstallElan, InstallTools, SetUpChecker, Begin,
         OpenWorkspace, StageReleases, SkipHydration, Discover, FetchArchives, Unpack,
         BuildLiterate, Audit, WriteHtml, Sanitize, CopyResult, Seal, Publish, Handle,
         Cancelled, Upload, Require, Working, job
    <2>2. CASE OpenWorkspace
      <3>1. \/ workspace' = workspace
            \/ /\ CanPlan(Source, VersoPackages)
               /\ workspace' = Planned(Source, VersoPackages)
               /\ Compatible(request.toolchain, Verso.toolchain)
        BY <2>2 DEF OpenWorkspace
      <3> QED
        BY <2>1, <3>1 DEF WorkspaceInv, Source, Verso, VersoPackages
    <2>3. CASE workspace' = workspace
      BY <2>1, <2>3 DEF WorkspaceInv, Source, Verso, VersoPackages
    <2>4. OpenWorkspace \/ workspace' = workspace
      BY DEF Next, vars, Prepare, InstallElan, InstallTools, SetUpChecker, Begin,
         StageReleases, SkipHydration, Discover, FetchArchives, Unpack, BuildLiterate, Audit,
         WriteHtml, Sanitize, CopyResult, Seal, Publish, Handle, Cancelled, Upload, Require,
         renderer
    <2> QED
      BY <2>2, <2>3, <2>4
  <1> QED
    BY <1>1, <1>2, PTL DEF Spec

\* However Verso's own packages conflict with the proof's, what the Challenge rests
\* on is rendered from the sources that were verified, by a Verso of its line.
THEOREM RenderedIsVerified == Spec => []RenderedAsVerified
  <1>1. WorkspaceInv => RenderedAsVerified
    <2> SUFFICES ASSUME WorkspaceInv, workspace # {}
                 PROVE  /\ \A p \in Source : p.name \in Needs(request.imports, Source) =>
                             \E q \in workspace : q.name = p.name
                                                  /\ (SameKey(p, q) \/ SamePlausible(p, q))
                        /\ Verso.toolchain.line = request.toolchain.line
      BY DEF RenderedAsVerified
    <2>1. Verso.toolchain.line = request.toolchain.line
      BY DEF WorkspaceInv, Compatible
    <2>2. ASSUME NEW p \in Source, p.name \in Needs(request.imports, Source)
          PROVE  p \in workspace
      <3>1. Accepted(request.project, request.imports)
        BY RequestsAssumption DEF WorkspaceInv, RequestsAssumption
      <3>2. WellFormed(Source) /\ CanAllow(Source) /\ request.imports \subseteq Allowed(Source)
        BY <3>1 DEF Accepted, CanPrepare, Source, Prepared
      <3>3. \A lib \in Libraries(Source) : \A pin \in PinsOf(lib) :
               Names(PinsOf(pin)) \subseteq Names(PinsOf(lib))
        BY RequestsAssumption DEF WorkspaceInv, RequestsAssumption, Source
      <3>4. p \in ChallengeOnly(Source)
        BY <2>2, <3>2, <3>3, NeedsAreKept
      <3> QED
        BY <3>4 DEF WorkspaceInv, Planned, Merged
    <2> QED
      BY <2>1, <2>2 DEF SameKey
  <1> QED
    BY <1>1, WorkspaceInvariant, PTL

-----------------------------------------------------------------------------
(* Tools                                                                   *)

\* A Mathlib that the renderer finds by its name was found by the verification.
LEMMA MathlibIsOfficial ==
  ASSUME NEW source, CanAllow(source), NEW m \in source, m.repo = "mathlib4"
  PROVE  \E r \in Trusted : m \in Matching(r, source) /\ Official(r, m.rev)
  <1> DEFINE root == CHOOSE r \in RootOf(m.repo) : TRUE
  <1>1. root \in RootOf(m.repo) /\ Canonical(m.repo) = root.repository
    BY RendererAssumption DEF Canonical, RendererAssumption
  <1>2. root \in Trusted
    BY <1>1 DEF RootOf
  <1> HIDE DEF root
  <1>3. m \in Matching(root, source)
    BY <1>1 DEF Matching
  <1> QED
    BY <1>2, <1>3 DEF CanAllow, RootAccepted

\* materialize_checker, stage_legacy_proofwidgets_release and download_mathlib_cache:
\* a download is installed with its digest or not at all; the one package whose Lake
\* code runs with the network is what an official Mathlib of the verified manifest
\* pins, or Verso's, however the manifests were merged; and Lake code that ran while
\* the archives were named leaves no leantar of its own for the unpacking to start with.
THEOREM ToolsStayAuthentic == Spec => []RenderToolsAreAuthentic
  <1>1. RenderInv /\ DownloadInv /\ NetworkInv /\ WorkspaceInv => RenderToolsAreAuthentic
    <2> SUFFICES ASSUME RenderInv, DownloadInv, NetworkInv, WorkspaceInv
                 PROVE  RenderToolsAreAuthentic
      OBVIOUS
    <2>1. ToolsAreAuthentic /\ (step = "unpack" => leantar # "candidate")
      BY DEF RenderInv, Accumulated, DownloadInv
    <2>2. ASSUME NEW w \in networked
          PROVE  \E m \in Source \cup VersoPackages :
                   /\ m.repo = "mathlib4" /\ w \in PinsOf(m)
                   /\ \/ m \in VersoPackages
                      \/ \E r \in Trusted : m \in Matching(r, Source) /\ Official(r, m.rev)
      <3>1. PICK m \in workspace : m.repo = "mathlib4" /\ w \in PinsOf(m)
        BY <2>2 DEF NetworkInv
      <3>2. m \in Source \cup VersoPackages
        <4>1. workspace = Planned(Source, VersoPackages)
          BY <3>1 DEF WorkspaceInv
        <4> QED
          BY <3>1, <4>1 DEF Planned, Merged, ChallengeOnly
      <3>3. CanAllow(Source)
        BY RequestsAssumption DEF WorkspaceInv, RequestsAssumption, Accepted, Source
      <3> QED
        BY <3>1, <3>2, <3>3, MathlibIsOfficial
    <2> QED
      BY <2>1, <2>2 DEF RenderToolsAreAuthentic
  <1> QED
    BY <1>1, RenderInvariant, DownloadInvariant, NetworkInvariant, WorkspaceInvariant, PTL
=============================================================================
