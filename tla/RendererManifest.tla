-------------------------- MODULE RendererManifest -------------------------
(***************************************************************************)
(* render_challenge.py: the packages a Challenge is rendered with.  Verso  *)
(* brings its own; where they disagree with the submission's, whatever     *)
(* only the proof needs is left out and the merge is tried again.          *)
(*                                                                         *)
(* A variant before an operator is a slip that PROJECT.json's "mutants"    *)
(* put in its place; nothing else uses it.                                 *)
(***************************************************************************)
EXTENDS PackageProvenance

CONSTANTS
  VersoTags,   \* the Lean releases for which Verso has published a tag
  VersoAt,     \* per tag: the toolchain of that commit, and what its manifest pins
  Identical    \* SOURCE_IDENTICAL_PLAUSIBLE_REVISIONS

-----------------------------------------------------------------------------
(* A Lean release has a line (major and minor), a patch and whether it is a *)
(* release candidate.                                                       *)

\* toolchain_verso_commit: the release's own tag, or its line's patch zero.
VersoFor(toolchain) ==
    IF toolchain.rc \/ toolchain \in VersoTags THEN toolchain
    ELSE [toolchain EXCEPT !.patch = 0]

HasVerso(toolchain) == VersoFor(toolchain) \in VersoTags

\* compatible_verso_toolchain
Compatible(source, verso) ==
    \/ source = verso
    \/ /\ ~ source.rc /\ ~ verso.rc
       /\ source.line = verso.line
       /\ source.patch > 0 /\ verso.patch = 0

-----------------------------------------------------------------------------
(* Manifests                                                               *)

Own == [name |-> "verso", repo |-> "verso", rev |-> "chosen"]

\* manifest_package_key: the literal repository, not the one it may be an alias of.
SameKey(p, q) == p.repo = q.repo /\ p.rev = q.rev

SamePlausible(p, q) ==
    /\ p.name = "plausible"
    /\ p.repo = "plausible" /\ q.repo = "plausible"
    /\ {p.rev, q.rev} \subseteq Identical

Agree(p, q) == p.name = q.name => SameKey(p, q) \/ SamePlausible(p, q)

Mergeable(source, verso) ==
    \A p \in source \cup verso, q \in verso : Agree(p, q)

\* merge_renderer_manifest: the first entry of a name stays.
Merged(source, verso) ==
    source \cup {p \in verso : p.name \notin Names(source)}

\* challenge_only_manifest, with the canonical roots' manifests read afresh.
Libraries(source) == {p \in source : RootOf(p.repo) # {}}

Unsubstituted(source) ==
    \A p \in Libraries(source) : \A expected \in PinsOf(p) : Pinned(expected, source)

ChallengeOnlyRoots(source) == Libraries(source)

ChallengeOnly(source) ==
    LET kept == UNION {Closure(p) : p \in Libraries(source)}
    IN  {p \in source : p.name \in kept}

\* prepare_workspace: the packages of the workspace, or a conflict.
Planned(source, verso) ==
    IF Mergeable(source, verso) THEN Merged(source, verso)
    ELSE Merged(ChallengeOnly(source), verso)

CanPlan(source, verso) ==
    \/ Mergeable(source, verso)
    \/ Unsubstituted(source) /\ Mergeable(ChallengeOnly(source), verso)

\* stage_legacy_proofwidgets_release: no other repository under the package's name,
\* and a networked build only of what the manifest of Mathlib's own checkout pins.
WidgetsCanonical(packages) ==
    \A w \in Named(packages, "proofwidgets") : w.repo = "proofwidgets"

ReleaseAllowed(widgets, packages) ==
    \A w \in widgets : \E m \in packages : m.repo = "mathlib4" /\ w \in PinsOf(m)

-----------------------------------------------------------------------------
(* What the verification let the Challenge rest on                         *)

Needs(imports, source) == UNION {UNION {Closure(p) : p \in Named(source, n)} : n \in imports}

\* A request names a submission that was verified: see PackageProvenance.
Accepted(project, imports) ==
    /\ CanPrepare(project)
    /\ CanAllow(Prepared(project))
    /\ imports \subseteq Allowed(Prepared(project))
=============================================================================
