------------------------- MODULE PackageProvenance -------------------------
(***************************************************************************)
(* verify_submission.py: which packages of a Lake manifest the statement   *)
(* of a submission may be compiled against.  A package has a name, the     *)
(* repository of its URL ("path" for a contained directory) and a          *)
(* revision.  An allowlisted root vouches for itself, if its official      *)
(* history holds the revision, and for what its own manifest pins.         *)
(*                                                                         *)
(* A variant before an operator is a slip that PROJECT.json's "mutants"    *)
(* put in its place; nothing else uses it.                                 *)
(***************************************************************************)
EXTENDS Integers, Sequences, Selection

CONSTANTS
  Roots,    \* allowed-challenge-repositories.json: a sequence of records with
            \* repository, aliases, level, accepted and tags
  History,  \* what official history makes of a repository's revision: "ancestor",
            \* "release" or "neither"
  Pins      \* the manifest in the checkout of a repository at a revision

Trusted == {Roots[i] : i \in DOMAIN Roots}

RepositoriesOf(root) == {root.repository} \cup root.aliases

\* allowed_roots refuses another level and a repository that occurs twice.
ASSUME RootsAssumption ==
    /\ Roots \in Seq(Trusted)
    /\ \A r \in Trusted : r.level \in {"high", "qualified"}
    /\ \A i, j \in DOMAIN Roots :
         i # j => RepositoriesOf(Roots[i]) \cap RepositoriesOf(Roots[j]) = {}

RootOf(repository) ==
    {r \in Trusted : repository \in RepositoriesOf(r)}

\* canonical_repository
Canonical(repository) ==
    IF RootOf(repository) = {} THEN repository
    ELSE (CHOOSE r \in RootOf(repository) : TRUE).repository

Named(packages, name) == {p \in packages : p.name = name}
Names(packages) == {p.name : p \in packages}

\* manifest_packages: one package to a name, each Git package pinned.
WellFormed(packages) ==
    /\ \A p, q \in packages : p.name = q.name => p = q
    /\ \A p \in packages : p.repo = "path" \/ p.rev # "moving"

-----------------------------------------------------------------------------
(* A project without a manifest: ensure_lake_manifest.  A requirement      *)
(* names a directory; its target holds a committed manifest, or not.       *)

Generated(requirements) ==
    UNION {{[name |-> r.name, repo |-> "path", rev |-> "tree"]} \cup r.manifest :
             r \in requirements}

\* Two entries of one name are refused even where they agree.
CanGenerate(requirements) ==
    /\ \A r \in requirements :
         /\ r.kind = "path" /\ r.committed
         /\ \A p \in r.manifest : p.repo # "path"
    /\ \A r, s \in requirements :
         r # s => ({r.name} \cup Names(r.manifest)) \cap ({s.name} \cup Names(s.manifest)) = {}
    /\ \A r \in requirements : r.name \notin Names(r.manifest)
    /\ \A r, s \in requirements : r.directory = s.directory

CanPrepare(project) ==
    IF project.committed THEN WellFormed(project.packages)
    ELSE CanGenerate(project.requirements) /\ WellFormed(Generated(project.requirements))

Prepared(project) ==
    IF project.committed THEN project.packages ELSE Generated(project.requirements)

-----------------------------------------------------------------------------
(* package_allowlist                                                       *)

OfficialByAnyTag(root, revision) ==
    revision \in root.accepted \/ History[<<root.repository, revision>>] # "neither"

\* verify_official_revision
Official(root, revision) ==
    \/ revision \in root.accepted
    \/ History[<<root.repository, revision>>] = "ancestor"
    \/ root.tags /\ History[<<root.repository, revision>>] = "release"

Matching(root, packages) ==
    {p \in packages : Canonical(p.repo) = root.repository}

PinsOf(package) == Pins[<<Canonical(package.repo), package.rev>>]

\* The flattened manifest has what the root's own manifest pins.
Pinned(expected, packages) ==
    \E actual \in Named(packages, expected.name) :
       /\ Canonical(actual.repo) = Canonical(expected.repo)
       /\ actual.rev = expected.rev

RootAccepted(root, packages) ==
    /\ \A p, q \in Matching(root, packages) : p = q
    /\ \A p \in Matching(root, packages) :
         /\ Official(root, p.rev)
         /\ \A expected \in PinsOf(p) : Pinned(expected, packages)

CanAllow(packages) == \A r \in Trusted : RootAccepted(r, packages)

Closure(package) == {package.name} \cup Names(PinsOf(package))

ClosureOf(root, packages) == UNION {Closure(p) : p \in Matching(root, packages)}

Allowed(packages) == UNION {ClosureOf(r, packages) : r \in Trusted}

\* High-trust roots come first, then the order of the configuration; the first
\* root whose closure holds a name owns it.
RootOrder ==
    LET high == {r \in Trusted : r.level = "high"}
    IN  Selected(Roots, high) \o Selected(Roots, Trusted \ high)

OwnersAmong(order, packages) ==
    LET Closures == [i \in DOMAIN order |-> ClosureOf(order[i], packages)]
        First(name) == CHOOSE i \in DOMAIN order :
                          /\ name \in Closures[i]
                          /\ \A j \in 1..(i - 1) : name \notin Closures[j]
    IN  [name \in Allowed(packages) |->
           LET root == order[First(name)]
           IN  [owner |-> root.repository, level |-> root.level]]

AllowlistInFileOrder(packages) == OwnersAmong(Roots, packages)

Allowlist(packages) == OwnersAmong(RootOrder, packages)

Owned(root, allowlist) ==
    {n \in DOMAIN allowlist : allowlist[n].owner = root.repository}

-----------------------------------------------------------------------------
(* The rest of the stage dependency-provenance                             *)

\* shadowing_dependency: tops are the top-level names in a package's checkout.
Shadowed(challenge, packages, tops) ==
    \E p \in packages : challenge.top \in tops[p.name]

\* check_mathlib_toolchain
ToolchainMatches(toolchain, packages, selects) ==
    \A p \in packages :
       Canonical(p.repo) = "mathlib4" => selects[p.rev] = toolchain

\* reject_untrusted_package_artifacts: prebuilt output is a defect only of a
\* package that no root vouches for.
ArtifactsAllowed(packages, prebuilt, allowlist) ==
    \A p \in packages : p.name \in prebuilt => p.name \in DOMAIN allowlist

\* audit_challenge_sources: source.place is "toolchain", "writable", "project" or
\* the name of a package, source.tracked whether the commit has the same bytes.
AuditTrusts(source, allowlist) ==
    \/ source.place = "toolchain"
    \/ source.place \in DOMAIN allowlist /\ source.tracked

Untrusted(sources, allowlist) == {s \in sources : ~ AuditTrusts(s, allowlist)}

\* The roots the report credits, and the level it states.
Credited(sources, allowlist) ==
    {allowlist[s.place] :
       s \in {t \in sources : t.place # "toolchain" /\ AuditTrusts(t, allowlist)}}

TrustLevel(sources, allowlist) ==
    IF \E root \in Credited(sources, allowlist) : root.level = "qualified"
    THEN "qualified" ELSE "high"
=============================================================================
