------------------------ MODULE TrustedDependencies ------------------------
(***************************************************************************)
(* verify_submission.py: how the packages a statement is compiled against  *)
(* come to be built, from their checkouts to the two exports.  Candidate   *)
(* Lake code runs before that, with every package's .lake writable, and    *)
(* after it, with the trusted ones frozen; the Mathlib cache client has    *)
(* the network, and a disposable copy of the closure to write to.          *)
(*                                                                         *)
(* lake says who wrote the canonical .lake/build of a package last.  A     *)
(* candidate that writes is taken to write wherever it can.                *)
(*                                                                         *)
(* A variant before an operator is a slip that PROJECT.json's "mutants"    *)
(* put in its place; nothing else uses it.                                 *)
(***************************************************************************)
EXTENDS PackageProvenance, FiniteSets

CONSTANTS
  Projects,  \* submissions: project (see PackageProvenance), tops, prebuilt,
             \* selects, toolchain, and challenge: its top-level name, the packages
             \* it imports, and those of which the project has a module by that name
  Sidecars   \* the files one module compiles to

\* Mathlib is the first of the roots in high trust: allowed-challenge-repositories.json
\* has no other, and package_allowlist relies on it to own what roots share.
ASSUME MathlibAssumption == Len(RootOrder) > 0 /\ RootOrder[1].repository = "mathlib4"

\* The packages' names, and the names in the manifests of their checkouts.
AllNames(packages) ==
    Names(packages) \cup UNION {Closure(p) : p \in {q \in packages : q.repo # "path"}}

\* What stands for a place outside of every package is no package's name.
ASSUME PlacesAssumption ==
    \A s \in Projects : AllNames(Prepared(s.project)) \cap {"project", "toolchain"} = {}

Stages == {"candidate-setup", "module-resolution", "dependency-provenance",
           "trusted-cache", "fetched", "promoting", "promoted", "trusted-roots",
           "canonical-challenge", "challenge-provenance", "candidate-build",
           "exported", "failed", "gone"}

VARIABLES
  submission,
  stage,
  allowlist,  \* per trusted package: the root that owns it, and its level
  lake,       \* per package: "absent", "fresh", "candidate", "cache", "replayed", "built"
  staged,     \* per package of Mathlib's closure: "none", "fetched", "missing", "escapes"
  changed,    \* the cache client has changed a hard-linked source
  said,       \* what get_mathlib_cache has of the cache client's transcript
  cache,      \* report["mathlib_cache"]["available"], "unset" before
  linked,     \* packages with a .lake/packages of links
  unbuilt,    \* how many roots are still to be built
  protected,  \* what the protected directory holds
  audited,    \* the trust level of the report, "unset" before
  exports     \* where the statement's modules were found when it was exported

vars == <<submission, stage, allowlist, lake, staged, changed, said, cache, linked, unbuilt,
          protected, audited, exports>>

Packages == Prepared(submission.project)
PackageNames == Names(Packages)
Mathlib == {p \in Packages : Canonical(p.repo) = "mathlib4"}
MathlibClosure == UNION {Closure(p) : p \in Mathlib}

\* Of the client's lines the code knows three: the counts of files downloaded at the
\* start of a line, of which only zero matters, the warning, and that it had nothing
\* to do.
Transcripts == [counts : SUBSET {0, 1}, warned : BOOLEAN, idle : BOOLEAN]

Silent == [counts |-> {}, warned |-> FALSE, idle |-> FALSE]

TypeOK ==
    /\ stage \in Stages
    /\ DOMAIN allowlist \subseteq PackageNames
    /\ \A n \in DOMAIN allowlist :
         \E r \in Trusted : allowlist[n] = [owner |-> r.repository, level |-> r.level]
    /\ lake \in [PackageNames -> {"absent", "fresh", "candidate", "cache", "replayed", "built"}]
    /\ staged \in [PackageNames -> {"none", "fetched", "missing", "escapes"}]
    /\ changed \in BOOLEAN
    /\ said \in Transcripts
    /\ cache \in {"unset", "not-required", "unknown", "available", "short"}
    /\ linked \subseteq PackageNames
    /\ unbuilt \in 0..Len(RootOrder)
    /\ protected \subseteq Sidecars \cup {"stray"}
    /\ audited \in {"unset", "high", "qualified"}
    /\ exports \subseteq {"protected", "toolchain", "trusted", "candidate"}

Init ==
    /\ submission \in Projects
    /\ stage = "candidate-setup"
    /\ allowlist = [n \in {} |-> "none"]
    /\ lake = [n \in PackageNames |-> "absent"]
    /\ staged = [n \in PackageNames |-> "none"]
    /\ changed = FALSE
    /\ said = Silent
    /\ cache = "unset"
    /\ linked = {}
    /\ unbuilt = 0
    /\ protected = {}
    /\ audited = "unset"
    /\ exports = {}

\* Any check or process of a stage can fail, and the verification ends there.
Fail == stage' = "failed"

ResetOnly(names) == [n \in names |-> "fresh"]

Reset(names) == [n \in PackageNames |-> IF n \in names THEN "fresh" ELSE lake[n]]

\* Lake keeps what a build directory holds if its traces say that it is current.
Rebuilt(found, by) == IF found = "candidate" THEN found ELSE by

-----------------------------------------------------------------------------
(* Candidate Lake code, before                                             *)

\* ensure_lake_manifest and materialize_packages: every submitted .lake goes.
Materialize ==
    /\ stage = "candidate-setup"
    /\ \/ /\ CanPrepare(submission.project)
          /\ lake' = Reset(PackageNames)
          /\ stage' = "module-resolution"
       \/ Fail /\ UNCHANGED lake
    /\ UNCHANGED <<submission, allowlist, staged, changed, said, cache, linked, unbuilt, protected,
                   audited, exports>>

\* lake env elaborates the candidate's Lakefile with every .lake writable.
Elaborate ==
    /\ stage = "module-resolution"
    /\ lake' \in {lake, [n \in PackageNames |-> "candidate"]}
    /\ stage' \in {"dependency-provenance", "failed"}
    /\ UNCHANGED <<submission, allowlist, staged, changed, said, cache, linked, unbuilt, protected,
                   audited, exports>>

\* shadowing_dependency to reject_untrusted_package_artifacts.
CheckProvenance ==
    /\ stage = "dependency-provenance"
    /\ \/ /\ ~ Shadowed(submission.challenge, Packages, submission.tops)
          /\ CanAllow(Packages)
          /\ ToolchainMatches(submission.toolchain, Packages, submission.selects)
          /\ allowlist' = Allowlist(Packages)
          /\ ArtifactsAllowed(Packages, submission.prebuilt, allowlist')
          /\ stage' = "trusted-cache"
       \/ Fail /\ UNCHANGED allowlist
    /\ UNCHANGED <<submission, lake, staged, changed, said, cache, linked, unbuilt, protected,
                   audited, exports>>

-----------------------------------------------------------------------------
(* get_mathlib_cache                                                       *)

\* Path packages are never trusted state; a name's literal repository must be the
\* one its root pins, which package_allowlist does not ask of an alias.
Linkable(package) ==
    \A expected \in PinsOf(package) : expected \in Packages

CanReset(names) ==
    names \subseteq PackageNames /\ \A p \in Packages : p.name \in names => p.repo # "path"

\* trusted_package_url_map: Lake is told where each package that a root pins comes
\* from, and an alias of its repository will do.
CanMapUrls(package) ==
    \A expected \in PinsOf(package) : expected.repo # "path" /\ Pinned(expected, Packages)

\* stage_trusted_closure, then nested_package_links in the copy.
CanStage(root) == CanReset(Closure(root)) /\ Linkable(root)

\* create_trusted_replay_workspace: the closure is what the root pins.
CanReplay(root) == Names(PinsOf(root)) = MathlibClosure \ {root.name}

NoCacheNeeded ==
    /\ stage = "trusted-cache"
    /\ Mathlib = {}
    /\ cache' = "not-required"
    /\ unbuilt' = Len(RootOrder)
    /\ stage' = "trusted-roots"
    /\ UNCHANGED <<submission, allowlist, lake, staged, changed, said, linked, protected, audited,
                   exports>>

\* mathlib_cache_availability: the warning first, then the counts.  A client that
\* says nothing of it claims neither.
AvailabilityByCount(transcript) ==
    IF 1 \in transcript.counts THEN "available"
    ELSE IF transcript.warned \/ transcript.counts # {} THEN "short"
    ELSE IF transcript.idle THEN "available" ELSE "unknown"

Availability(transcript) ==
    IF transcript.warned THEN "short"
    ELSE IF transcript.counts # {}
         THEN IF 1 \in transcript.counts THEN "available" ELSE "short"
    ELSE IF transcript.idle THEN "available" ELSE "unknown"

\* The closure's canonical state is discarded, and its sources are hard-linked into
\* the workspace where lake exe cache get runs with the network: it leaves of each
\* package's build what it was given, nothing, or an object that leads out of it,
\* and of the sources what it likes if it is not read-only after all.  What it
\* prints need not agree with what it did.
FetchCache ==
    /\ stage = "trusted-cache"
    /\ Mathlib # {}
    /\ \/ \E missing \in SUBSET MathlibClosure, escapes \in SUBSET MathlibClosure :
            /\ \A p \in Mathlib :
                 p.repo = "mathlib4" /\ CanReset(Closure(p)) /\ CanMapUrls(p) /\ CanStage(p)
            /\ lake' = Reset(MathlibClosure)
            /\ missing \cap escapes = {}
            /\ staged' = [n \in PackageNames |->
                            CASE n \notin MathlibClosure -> "none"
                              [] n \in missing -> "missing"
                              [] n \in escapes -> "escapes"
                              [] OTHER -> "fetched"]
            /\ said' \in Transcripts
            /\ changed' \in BOOLEAN
            /\ stage' = "fetched"
       \/ Fail /\ UNCHANGED <<lake, staged, said, changed>>
    /\ UNCHANGED <<submission, allowlist, cache, linked, unbuilt, protected, audited, exports>>

\* validate_trusted_source_snapshots
SourcesUnchanged == ~ changed

\* validate_staged_lake_promotions: every package, before any is promoted.
Promotable(names) ==
    \A n \in names : staged[n] # "escapes" /\ lake[n] = "fresh"

ValidateRootOnly ==
    /\ stage = "fetched"
    /\ \/ /\ SourcesUnchanged
          /\ Promotable({p.name : p \in Mathlib})
          /\ stage' = "promoting"
       \/ Fail
    /\ UNCHANGED <<submission, allowlist, lake, staged, changed, said, cache, linked, unbuilt,
                   protected, audited, exports>>

Validate ==
    /\ stage = "fetched"
    /\ \/ /\ SourcesUnchanged
          /\ Promotable(MathlibClosure)
          /\ stage' = "promoting"
       \/ Fail
    /\ UNCHANGED <<submission, allowlist, lake, staged, changed, said, cache, linked, unbuilt,
                   protected, audited, exports>>

\* promote_staged_lake_state: one package after another, any of which can fail.
Promote ==
    /\ stage = "promoting"
    /\ LET left == {n \in MathlibClosure : lake[n] = "fresh"}
       IN  \/ \E n \in left :
                /\ lake' = [lake EXCEPT ![n] = "cache"]
                /\ stage' = IF left = {n} THEN "promoted" ELSE stage
           \/ Fail /\ UNCHANGED lake
    /\ UNCHANGED <<submission, allowlist, staged, changed, said, cache, linked, unbuilt, protected,
                   audited, exports>>

\* The links, the two builds without a network, which make up for what the cache
\* did not have, and the links' end, which nothing prevents.  Only a return puts
\* the client's summary into the report.
Replay ==
    /\ stage = "promoted"
    /\ \/ /\ \A p \in Mathlib : Linkable(p) /\ CanReplay(p)
          /\ lake' = [n \in PackageNames |->
                        IF n \in MathlibClosure THEN Rebuilt(lake[n], "replayed")
                        ELSE lake[n]]
          /\ stage' = "trusted-roots"
          /\ unbuilt' = Len(RootOrder)
          /\ cache' = Availability(said)
       \/ /\ Fail
          /\ UNCHANGED <<lake, unbuilt, cache>>
    /\ said' = Silent
    /\ UNCHANGED <<submission, allowlist, staged, changed, linked, protected, audited, exports>>

-----------------------------------------------------------------------------
(* build_allowlisted_roots                                                 *)

\* One root after another in the order of its trust; Mathlib's is done.
NextRootFromLast == RootOrder[unbuilt]

NextRoot == RootOrder[Len(RootOrder) - unbuilt + 1]

SkipRoot ==
    /\ stage = "trusted-roots" /\ unbuilt > 0
    /\ NextRoot.repository = "mathlib4" \/ Matching(NextRoot, Packages) = {}
    /\ unbuilt' = unbuilt - 1
    /\ UNCHANGED <<submission, stage, allowlist, lake, staged, changed, said, cache, linked,
                   protected, audited, exports>>

\* The state a root owns is discarded, and its links are made over it.
PrepareRootOverOldState ==
    /\ stage = "trusted-roots" /\ unbuilt > 0 /\ linked = {}
    /\ NextRoot.repository # "mathlib4"
    /\ \E p \in Matching(NextRoot, Packages) :
         \/ /\ Closure(p) \subseteq DOMAIN allowlist
            /\ p.name \in Owned(NextRoot, allowlist)
            /\ Linkable(p)
            /\ CanMapUrls(p)
            /\ CanReset(Owned(NextRoot, allowlist))
            /\ linked' = {p.name}
            /\ UNCHANGED <<lake, stage>>
         \/ Fail /\ UNCHANGED <<lake, linked>>
    /\ UNCHANGED <<submission, allowlist, staged, changed, said, cache, unbuilt, protected, audited,
                   exports>>

PrepareRoot ==
    /\ stage = "trusted-roots" /\ unbuilt > 0 /\ linked = {}
    /\ NextRoot.repository # "mathlib4"
    /\ \E p \in Matching(NextRoot, Packages) :
         \/ /\ Closure(p) \subseteq DOMAIN allowlist
            /\ p.name \in Owned(NextRoot, allowlist)
            /\ Linkable(p)
            /\ CanMapUrls(p)
            /\ CanReset(Owned(NextRoot, allowlist))
            /\ lake' = Reset(Owned(NextRoot, allowlist))
            /\ linked' = {p.name}
            /\ UNCHANGED stage
         \/ Fail /\ UNCHANGED <<lake, linked>>
    /\ UNCHANGED <<submission, allowlist, staged, changed, said, cache, unbuilt, protected, audited,
                   exports>>

\* Lake writes what the root owns and reads the rest; the links go either way.
BuildRoot ==
    /\ stage = "trusted-roots" /\ linked # {}
    /\ linked' = {}
    /\ \/ /\ lake' = [n \in PackageNames |->
                        IF n \in Owned(NextRoot, allowlist) THEN Rebuilt(lake[n], "built")
                        ELSE lake[n]]
          /\ unbuilt' = unbuilt - 1
          /\ UNCHANGED stage
       \/ Fail /\ UNCHANGED <<lake, unbuilt>>
    /\ UNCHANGED <<submission, allowlist, staged, changed, said, cache, protected, audited,
                   exports>>

-----------------------------------------------------------------------------
(* The statement                                                           *)

\* The packages whose sources an import brings in.
Reached(name) ==
    {name} \cup UNION {Closure(p) : p \in {q \in Named(Packages, name) : q.repo # "path"}}

\* lean --src-deps looks in the project first, so a module of the project by the
\* name of a package's is the source it names.
SourcesOf(challenge) ==
    {[place |-> IF n \in challenge.twins THEN "project" ELSE n, tracked |-> TRUE] :
       n \in UNION {Reached(m) : m \in challenge.imports}}
    \cup {[place |-> "toolchain", tracked |-> TRUE]}

\* canonical_challenge_artifacts: what of the compiler's directory is copied.
Published(scratch) == scratch \cap Sidecars

\* compile_canonical_challenge: Lean finds compiled modules in the toolchain and in
\* trusted packages alone, and may leave anything beside its own files.
CompileChallenge ==
    /\ stage = "trusted-roots" /\ unbuilt = 0
    /\ \/ /\ submission.challenge.imports \subseteq DOMAIN allowlist
          /\ \E scratch \in SUBSET (Sidecars \cup {"stray"}) :
               /\ Sidecars \subseteq scratch
               /\ protected' = Published(scratch)
          /\ stage' = "challenge-provenance"
       \/ Fail /\ UNCHANGED protected
    /\ UNCHANGED <<submission, allowlist, lake, staged, changed, said, cache, linked, unbuilt,
                   audited, exports>>

\* audit_challenge_sources and the choice on what it finds.
Audit ==
    /\ stage = "challenge-provenance"
    /\ LET sources == SourcesOf(submission.challenge)
       IN  /\ audited' = TrustLevel(sources, allowlist)
           /\ stage' = IF Untrusted(sources, allowlist) = {} THEN "candidate-build"
                       ELSE "failed"
    /\ UNCHANGED <<submission, allowlist, lake, staged, changed, said, cache, linked, unbuilt,
                   protected, exports>>

-----------------------------------------------------------------------------
(* Candidate Lake code, after                                              *)

\* What execute leaves writable once trusted state is built.
EveryPackage(names) == names

CandidateWritable(names) == names \ DOMAIN allowlist

\* protected_lean_path: the directories a module is looked for in, in order.
CandidateFirst == <<"candidate", "protected", "toolchain", "trusted">>

LeanPath == <<"protected", "toolchain", "trusted", "candidate">>

FoundIn(places) == LeanPath[CHOOSE i \in DOMAIN LeanPath :
                              /\ LeanPath[i] \in places
                              /\ \A j \in 1..(i - 1) : LeanPath[j] \notin places]

\* lake env, lake build and the export: the candidate's own build may hold a module
\* by the name of any other, save the statement's, which is not known to it.
CandidateBuilds ==
    /\ stage = "candidate-build"
    /\ lake' \in {lake, [n \in PackageNames |->
                           IF n \in CandidateWritable(PackageNames) THEN "candidate"
                           ELSE lake[n]]}
    /\ \/ /\ \E twin \in SUBSET {"candidate"} :
               exports' = {FoundIn({"protected"}), FoundIn({"toolchain"} \cup twin)}
                          \cup {FoundIn({"trusted"} \cup twin) :
                                  n \in submission.challenge.imports}
          /\ stage' = "exported"
       \/ Fail /\ UNCHANGED exports
    /\ UNCHANGED <<submission, allowlist, staged, changed, said, cache, linked, unbuilt, protected,
                   audited>>

\* The runner disappears at any time.
Gone ==
    /\ stage \notin {"exported", "failed", "gone"}
    /\ stage' = "gone"
    /\ UNCHANGED <<submission, allowlist, lake, staged, changed, said, cache, linked, unbuilt,
                   protected, audited, exports>>

Next ==
    \/ Materialize \/ Elaborate \/ CheckProvenance
    \/ NoCacheNeeded \/ FetchCache \/ Validate \/ Promote \/ Replay
    \/ SkipRoot \/ PrepareRoot \/ BuildRoot
    \/ CompileChallenge \/ Audit \/ CandidateBuilds
    \/ Gone

Spec == Init /\ [][Next]_vars

-----------------------------------------------------------------------------
(* Properties                                                              *)

TrustedState == {"replayed", "built"}

StatementPackages == UNION {Reached(n) : n \in submission.challenge.imports}

\* Whatever a compiled statement rests on is a root at a revision of its official
\* history, or exactly what such a root's own manifest pins: a fork, another
\* revision or a path under a trusted name never gets there.
StatementRestsOnPinned ==
    protected # {} =>
      \A n \in StatementPackages : \E q \in Named(Packages, n), r \in Trusted :
        \E root \in Matching(r, Packages) :
           /\ \/ root.rev \in r.accepted
              \/ History[<<r.repository, root.rev>>] \in {"ancestor"} \cup
                   IF r.tags THEN {"release"} ELSE {}
           /\ \/ q = root
              \/ \E pin \in PinsOf(root) :
                   pin.name = n /\ pin.rev = q.rev
                   /\ Canonical(pin.repo) = Canonical(q.repo)

\* A statement is said to rest on high trust if and only if a high-trust root
\* vouches for every package it reaches, however many other roots do.
TrustLevelIsHonest ==
    stage \in {"candidate-build", "exported"} =>
      ((audited = "high") <=>
         \A n \in StatementPackages :
            \E r \in Trusted : r.level = "high" /\ n \in ClosureOf(r, Packages))

\* When the statement has been compiled, and ever after, every package it can have
\* read was built by trusted code from a directory the candidate never wrote to.
CompiledFromTrustedState ==
    protected # {} => \A n \in DOMAIN allowlist : lake[n] \in TrustedState

\* Canonical state holds something the networked client made only if its whole
\* closure was found in order, with no source changed.
PromotedIsValidated ==
    (\E n \in PackageNames : lake[n] = "cache") =>
       /\ ~ changed
       /\ \A n \in MathlibClosure : staged[n] \in {"fetched", "missing"}

\* The statement is exported from the protected directory, which holds its own
\* files and nothing elaboration left beside them, over modules that the
\* candidate's build cannot replace.
StatementIsCanonical ==
    stage = "exported" => protected = Sidecars /\ "candidate" \notin exports

\* What a trusted build has made, no later step changes: neither another root's
\* build nor the candidate's.
TrustedStateIsFrozen ==
    [][\A n \in PackageNames : lake[n] \in TrustedState => lake'[n] = lake[n]]_vars

\* A client owns up to what it lacks if it warns, or counts nothing but zeros, or
\* says nothing of it.
OwnsUp == (\E n \in MathlibClosure : staged[n] = "missing") =>
             said.warned \/ (1 \notin said.counts /\ ~ said.idle)

\* The report comes to claim an available cache only once its whole closure has been
\* found in order, promoted and replayed; and then, of a client that owns up to what
\* it lacks, every package of it came from the cache and none was made up for by the
\* build.
AvailabilityIsHonest ==
    [][cache' = "available" /\ cache # "available" =>
         /\ ~ changed
         /\ \A n \in MathlibClosure : staged[n] # "escapes" /\ lake'[n] = "replayed"
         /\ OwnsUp => \A n \in MathlibClosure : staged[n] = "fetched"]_vars

\* A root is built only when nothing of its closure is state the candidate wrote,
\* or has not been built and is not its own to build.
BuildsReadTrustedState ==
    [][\A n \in linked : n \notin linked' /\ unbuilt' < unbuilt =>
         \A p \in Named(Packages, n), m \in PackageNames :
            m \in Closure(p) => lake'[m] \in TrustedState]_vars
=============================================================================
