--------------------- MODULE TrustedDependenciesProofs ---------------------
(***************************************************************************)
(* What TrustedDependencies promises for every submission, whatever the    *)
(* allowlist and the manifests hold: which state of the cache client is    *)
(* believed, what a compiled statement rests on and what is exported.      *)
(***************************************************************************)
EXTENDS TrustedDependencies, RecursionTheorems

\* Every step but the first one keeps the submission.
LEMMA SubmissionStays ==
  ASSUME [Next]_vars
  PROVE  /\ submission' = submission
         /\ Packages' = Packages /\ PackageNames' = PackageNames
         /\ MathlibClosure' = MathlibClosure
  <1>1. submission' = submission
    BY DEF Next, vars, Materialize, Elaborate, CheckProvenance, NoCacheNeeded, FetchCache,
       Validate, Promote, Replay, SkipRoot, PrepareRoot, BuildRoot, CompileChallenge, Audit,
       CandidateBuilds, Gone
  <1>2. Packages' = Packages
    BY <1>1 DEF Packages
  <1> QED
    BY <1>1, <1>2 DEF PackageNames, Mathlib, MathlibClosure

-----------------------------------------------------------------------------
(* The cache client                                                        *)

Unpromoted == {"candidate-setup", "module-resolution", "dependency-provenance",
               "trusted-cache", "fetched"}

Cached == \E n \in PackageNames : lake[n] = "cache"

InOrder == ~ changed /\ \A n \in MathlibClosure : staged[n] \in {"fetched", "missing"}

\* What the client leaves is looked at before any of it is promoted, and stays
\* what it was when it was looked at.
PromotionInv ==
    /\ stage \in Unpromoted => ~ Cached
    /\ stage = "fetched" =>
         \A n \in MathlibClosure : staged[n] \in {"fetched", "missing", "escapes"}
    /\ stage \in {"promoting", "promoted"} => InOrder
    /\ Cached => InOrder

\* Only promotion puts the client's state in the place of the canonical one.
LEMMA OnlyPromotionCaches ==
  ASSUME [Next]_vars, ~ Promote, Cached'
  PROVE  Cached
  <1>1. PICK n \in PackageNames : lake'[n] = "cache"
    BY SubmissionStays DEF Cached
  <1>2. CASE lake' = lake
    BY <1>1, <1>2 DEF Cached
  <1>3. CASE \E names : lake' = Reset(names)
    BY <1>1, <1>3 DEF Reset, Cached
  <1>4. CASE Elaborate \/ CandidateBuilds
    BY <1>1, <1>4 DEF Elaborate, CandidateBuilds, Cached
  <1>5. CASE Replay \/ BuildRoot
    BY <1>1, <1>5 DEF Replay, BuildRoot, Rebuilt, Cached
  <1>6. Materialize \/ FetchCache \/ PrepareRoot => lake' = lake \/ \E names : lake' = Reset(names)
    BY Zenon DEF Materialize, FetchCache, PrepareRoot
  <1>7. CheckProvenance \/ NoCacheNeeded \/ Validate \/ SkipRoot \/ CompileChallenge
          \/ Audit \/ Gone \/ UNCHANGED vars => lake' = lake
    BY Zenon DEF CheckProvenance, NoCacheNeeded, Validate, SkipRoot, CompileChallenge, Audit,
       Gone, vars
  <1> QED
    BY <1>2, <1>3, <1>4, <1>5, <1>6, <1>7 DEF Next

LEMMA FetchKeepsPromotion ==
  ASSUME PromotionInv, FetchCache
  PROVE  PromotionInv'
  <1>1. ~ Cached'
    BY OnlyPromotionCaches DEF PromotionInv, Unpromoted, FetchCache, Next, Promote
  <1>2. ASSUME stage' # "failed"
        PROVE  /\ stage' = "fetched"
               /\ \A n \in MathlibClosure : staged'[n] \in {"fetched", "missing", "escapes"}
    <2>1. MathlibClosure \subseteq PackageNames
      BY <1>2 DEF FetchCache, Fail, CanReset, MathlibClosure
    <2>2. PICK missing, escapes :
            staged' = [n \in PackageNames |->
                         CASE n \notin MathlibClosure -> "none"
                           [] n \in missing -> "missing"
                           [] n \in escapes -> "escapes"
                           [] OTHER -> "fetched"]
            /\ missing \cap escapes = {}
      BY <1>2, Zenon DEF FetchCache, Fail
    <2>3. \A n \in MathlibClosure : staged'[n] \in {"fetched", "missing", "escapes"}
      BY <2>1, <2>2
    <2> QED
      BY <1>2, <2>3 DEF FetchCache, Fail
  <1> QED
    BY <1>1, <1>2, SubmissionStays DEF PromotionInv, Next

LEMMA NextKeepsPromotion ==
  ASSUME PromotionInv, [Next]_vars
  PROVE  PromotionInv'
  <1>1. CASE FetchCache
    BY <1>1, FetchKeepsPromotion
  <1>2. CASE Validate
    BY <1>2, SubmissionStays, OnlyPromotionCaches
       DEF Validate, Fail, PromotionInv, InOrder, Promotable, SourcesUnchanged, Unpromoted, Promote
  <1>3. CASE Promote
    BY <1>3, SubmissionStays DEF Promote, Fail, PromotionInv, InOrder, Unpromoted
  <1>4. CASE ~ (FetchCache \/ Validate \/ Promote)
    <2>1. UNCHANGED <<changed, staged>>
      BY <1>4 DEF Next, vars, Materialize, Elaborate, CheckProvenance, NoCacheNeeded, Replay,
         SkipRoot, PrepareRoot, BuildRoot, CompileChallenge, Audit, CandidateBuilds, Gone
    <2>2. /\ stage' \in Unpromoted => stage \in Unpromoted
          /\ stage' \in {"fetched", "promoting", "promoted"} => stage' = stage
      BY <1>4 DEF Next, vars, Materialize, Elaborate, CheckProvenance, NoCacheNeeded, Replay,
         SkipRoot, PrepareRoot, BuildRoot, CompileChallenge, Audit, CandidateBuilds, Gone,
         Fail, Unpromoted
    <2> QED
      BY <1>4, <2>1, <2>2, SubmissionStays, OnlyPromotionCaches DEF PromotionInv, InOrder
  <1> QED
    BY <1>1, <1>2, <1>3, <1>4

\* validate_staged_lake_promotions and validate_trusted_source_snapshots come before
\* the first promotion: canonical state never holds what the networked client made
\* of a closure with an object that leads out of it or a source that was changed,
\* even when promotion fails half way.
THEOREM PromotedStateIsValidated == Spec => []PromotedIsValidated
  <1>1. Init => PromotionInv
    BY DEF Init, PromotionInv, Cached
  <1>2. PromotionInv => PromotedIsValidated
    BY DEF PromotionInv, PromotedIsValidated, Cached, InOrder
  <1> QED
    BY <1>1, <1>2, NextKeepsPromotion, PTL DEF Spec

-----------------------------------------------------------------------------
(* What is exported                                                        *)

\* A module is taken from the first directory that has it.
LEMMA FoundFirst ==
  ASSUME NEW places, NEW i \in 1 .. 4, LeanPath[i] \in places,
         \A j \in 1 .. (i - 1) : LeanPath[j] \notin places
  PROVE  FoundIn(places) = LeanPath[i]
  <1>1. DOMAIN LeanPath = 1 .. 4
    BY DEF LeanPath
  <1>2. ASSUME NEW k \in DOMAIN LeanPath, LeanPath[k] \in places,
               \A j \in 1 .. (k - 1) : LeanPath[j] \notin places
        PROVE  k = i
    BY <1>1, <1>2
  <1>3. (CHOOSE k \in DOMAIN LeanPath :
           LeanPath[k] \in places /\ \A j \in 1 .. (k - 1) : LeanPath[j] \notin places) = i
    BY <1>1, <1>2
  <1> QED
    BY <1>3, Zenon DEF FoundIn

\* A module by the name of another is found behind it.
LEMMA NoTwinIsFound ==
  ASSUME NEW twin \in SUBSET {"candidate"}
  PROVE  /\ FoundIn({"protected"}) = "protected"
         /\ FoundIn({"toolchain"} \cup twin) = "toolchain"
         /\ FoundIn({"trusted"} \cup twin) = "trusted"
  <1> DEFINE path == <<"protected", "toolchain", "trusted", "candidate">>
  <1>1. LeanPath = path
    BY DEF LeanPath
  <1>2. path[1] = "protected" /\ path[2] = "toolchain" /\ path[3] = "trusted"
    OBVIOUS
  <1> HIDE DEF path
  <1>3. FoundIn({"protected"}) = LeanPath[1]
    BY <1>1, <1>2, FoundFirst
  <1>4. FoundIn({"toolchain"} \cup twin) = LeanPath[2]
    <2>1. \A j \in 1 .. (2 - 1) : LeanPath[j] \notin {"toolchain"} \cup twin
      BY <1>1, <1>2
    <2> QED
      BY <1>1, <1>2, <2>1, FoundFirst
  <1>5. FoundIn({"trusted"} \cup twin) = LeanPath[3]
    <2>1. \A j \in 1 .. (3 - 1) : LeanPath[j] \notin {"trusted"} \cup twin
      BY <1>1, <1>2
    <2> QED
      BY <1>1, <1>2, <2>1, FoundFirst
  <1> QED
    BY <1>1, <1>2, <1>3, <1>4, <1>5

Compiled == {"challenge-provenance", "candidate-build", "exported"}

CanonicalInv ==
    /\ stage \in Compiled => protected = Sidecars
    /\ stage = "exported" => "candidate" \notin exports

LEMMA NextKeepsCanonical ==
  ASSUME CanonicalInv, [Next]_vars
  PROVE  CanonicalInv'
  <1>1. CASE CompileChallenge
    BY <1>1 DEF CompileChallenge, Fail, Published, CanonicalInv, Compiled
  <1>2. CASE CandidateBuilds
    <2>1. CASE stage' = "failed"
      BY <2>1 DEF CanonicalInv, Compiled
    <2>2. CASE stage' # "failed"
      <3>1. PICK twin \in SUBSET {"candidate"} :
              exports' = {FoundIn({"protected"}), FoundIn({"toolchain"} \cup twin)}
                         \cup {FoundIn({"trusted"} \cup twin) :
                                 n \in submission.challenge.imports}
        BY <1>2, <2>2, Zenon DEF CandidateBuilds, Fail
      <3>2. "candidate" \notin exports'
        BY <3>1, NoTwinIsFound
      <3>3. protected' = protected /\ stage = "candidate-build"
        BY <1>2 DEF CandidateBuilds
      <3> QED
        BY <3>2, <3>3 DEF CanonicalInv, Compiled
    <2> QED
      BY <2>1, <2>2
  <1>3. CASE Audit
    BY <1>3 DEF Audit, CanonicalInv, Compiled
  <1>4. CASE ~ (CompileChallenge \/ CandidateBuilds \/ Audit)
    <2>1. UNCHANGED <<protected, exports>>
      BY <1>4 DEF Next, vars, Materialize, Elaborate, CheckProvenance, NoCacheNeeded, FetchCache,
         Validate, Promote, Replay, SkipRoot, PrepareRoot, BuildRoot, Gone
    <2>2. stage' \in Compiled => stage' = stage
      BY <1>4 DEF Next, vars, Materialize, Elaborate, CheckProvenance, NoCacheNeeded, FetchCache,
         Validate, Promote, Replay, SkipRoot, PrepareRoot, BuildRoot, Gone, Fail, Compiled
    <2> QED
      BY <2>1, <2>2 DEF CanonicalInv, Compiled
  <1> QED
    BY <1>1, <1>2, <1>3, <1>4

\* compile_canonical_challenge and protected_lean_path: whatever elaboration leaves
\* beside its own files and whatever modules the candidate builds, the statement is
\* exported from the files it was compiled to, over modules of no candidate's.
THEOREM ExportsAreCanonical == Spec => []StatementIsCanonical
  <1>1. Init => CanonicalInv
    BY DEF Init, CanonicalInv, Compiled
  <1>2. CanonicalInv => StatementIsCanonical
    BY DEF CanonicalInv, StatementIsCanonical, Compiled
  <1> QED
    BY <1>1, <1>2, NextKeepsCanonical, PTL DEF Spec

-----------------------------------------------------------------------------
(* What a statement rests on                                               *)

\* A root's manifest is flat: it pins all that its pins bring in.
Flat(packages) ==
    \A r \in Trusted : \A root \in Matching(r, packages) : \A pin \in PinsOf(root) :
      \A actual \in Named(packages, pin.name) :
         Closure(actual) \subseteq Closure(root)

\* What package_allowlist and manifest_packages leave is what every later stage
\* works with.
AllowedInv ==
    /\ stage = "candidate-setup" => protected = {}
    /\ stage \notin {"candidate-setup", "failed", "gone"} => WellFormed(Packages)
    /\ stage \in {"candidate-setup", "module-resolution", "dependency-provenance"} =>
         protected = {}
    /\ stage \notin {"candidate-setup", "module-resolution", "dependency-provenance",
                     "failed", "gone"} =>
         CanAllow(Packages) /\ allowlist = Allowlist(Packages)
    /\ protected # {} =>
         /\ WellFormed(Packages) /\ CanAllow(Packages)
         /\ submission.challenge.imports \subseteq Allowed(Packages)

LEMMA NextKeepsAllowed ==
  ASSUME AllowedInv, [Next]_vars
  PROVE  AllowedInv'
  <1>0. /\ submission' = submission /\ Packages' = Packages
        /\ WellFormed(Packages)' = WellFormed(Packages)
        /\ CanAllow(Packages)' = CanAllow(Packages)
        /\ Allowed(Packages)' = Allowed(Packages)
        /\ Allowlist(Packages)' = Allowlist(Packages)
    <2>1. submission' = submission /\ Packages' = Packages
      BY SubmissionStays
    <2> QED
      BY <2>1, Zenon
  <1>1. CASE Materialize
    BY <1>0, <1>1 DEF Materialize, Fail, CanPrepare, Packages, Prepared, AllowedInv
  <1>2. CASE CheckProvenance
    BY <1>0, <1>2 DEF CheckProvenance, Fail, AllowedInv
  <1>3. CASE CompileChallenge
    <2>1. DOMAIN Allowlist(Packages) = Allowed(Packages)
      BY DEF Allowlist, OwnersAmong
    <2> QED
      BY <1>0, <1>3, <2>1 DEF CompileChallenge, Fail, AllowedInv
  <1>4. CASE ~ (Materialize \/ CheckProvenance \/ CompileChallenge)
    <2>1. UNCHANGED <<allowlist, protected>>
      BY <1>4 DEF Next, vars, Elaborate, NoCacheNeeded, FetchCache, Validate, Promote, Replay,
         SkipRoot, PrepareRoot, BuildRoot, Audit, CandidateBuilds, Gone
    <2>2. \/ stage' \in {"failed", "gone"} \/ stage' = stage
          \/ stage = "module-resolution" /\ stage' = "dependency-provenance"
          \/ stage \notin {"candidate-setup", "module-resolution", "dependency-provenance",
                           "failed", "gone"}
             /\ stage' \notin {"candidate-setup", "module-resolution", "dependency-provenance"}
      BY <1>4 DEF Next, vars, Elaborate, NoCacheNeeded, FetchCache, Validate, Promote, Replay,
         SkipRoot, PrepareRoot, BuildRoot, Audit, CandidateBuilds, Gone, Fail
    <2> QED
      BY <1>0, <2>1, <2>2 DEF AllowedInv
  <1> QED
    BY <1>1, <1>2, <1>3, <1>4

\* The package of an allowed name is a root or what a root pins, and brings in
\* nothing that the root does not pin.
LEMMA AllowedIsVouchedFor ==
  ASSUME NEW packages, WellFormed(packages), CanAllow(packages), Flat(packages),
         NEW m \in Allowed(packages)
  PROVE  \E r \in Trusted : \E root \in Matching(r, packages) :
            /\ m \in Closure(root)
            /\ \A q \in Named(packages, m) : Closure(q) \subseteq Closure(root)
  <1>1. PICK r \in Trusted : m \in ClosureOf(r, packages)
    BY DEF Allowed
  <1>2. PICK root \in Matching(r, packages) : m \in Closure(root)
    BY <1>1 DEF ClosureOf
  <1>3. ASSUME NEW q \in Named(packages, m)
        PROVE  Closure(q) \subseteq Closure(root)
    <2>1. CASE m = root.name
      BY <1>2, <2>1 DEF WellFormed, Named, Matching
    <2>2. CASE \E pin \in PinsOf(root) : m = pin.name
      BY <1>2, <2>2 DEF Flat
    <2> QED
      BY <1>2, <2>1, <2>2 DEF Closure, Names
  <1> QED
    BY <1>2, <1>3

LEMMA ClosureIsPinned ==
  ASSUME NEW packages, CanAllow(packages), NEW r \in Trusted,
         NEW root \in Matching(r, packages), NEW n \in Closure(root)
  PROVE  \E q \in Named(packages, n) :
            /\ \/ root.rev \in r.accepted
               \/ History[<<r.repository, root.rev>>] \in {"ancestor"} \cup
                    IF r.tags THEN {"release"} ELSE {}
            /\ \/ q = root
               \/ \E pin \in PinsOf(root) :
                    pin.name = n /\ pin.rev = q.rev
                    /\ Canonical(pin.repo) = Canonical(q.repo)
  <1>1. Official(r, root.rev) /\ \A expected \in PinsOf(root) : Pinned(expected, packages)
    BY DEF CanAllow, RootAccepted
  <1>2. CASE n = root.name
    BY <1>1, <1>2 DEF Official, Named, Matching
  <1>3. CASE \E pin \in PinsOf(root) : n = pin.name
    <2>1. PICK pin \in PinsOf(root) : n = pin.name
      BY <1>3
    <2>2. PICK q \in Named(packages, n) :
            Canonical(q.repo) = Canonical(pin.repo) /\ q.rev = pin.rev
      BY <1>1, <2>1 DEF Pinned
    <2> QED
      BY <1>1, <2>1, <2>2 DEF Official
  <1> QED
    BY <1>2, <1>3 DEF Closure, Names

\* package_allowlist: as long as the manifests of roots are flat, as Lake writes
\* them, a compiled statement reaches roots at official revisions and exactly what
\* they pin.
THEOREM StatementsRestOnPinned ==
  ASSUME \A s \in Projects : CanAllow(Prepared(s.project)) => Flat(Prepared(s.project))
  PROVE  Spec => []StatementRestsOnPinned
  <1>1. Init => AllowedInv /\ submission \in Projects
    BY DEF Init, AllowedInv
  <1>2. AllowedInv /\ submission \in Projects /\ [Next]_vars
          => (AllowedInv /\ submission \in Projects)'
    BY NextKeepsAllowed, SubmissionStays
  <1>3. ASSUME AllowedInv, submission \in Projects, protected # {},
               NEW n \in StatementPackages
        PROVE  \E q \in Named(Packages, n), r \in Trusted :
                 \E root \in Matching(r, Packages) :
                   /\ \/ root.rev \in r.accepted
                      \/ History[<<r.repository, root.rev>>] \in {"ancestor"} \cup
                           IF r.tags THEN {"release"} ELSE {}
                   /\ \/ q = root
                      \/ \E pin \in PinsOf(root) :
                           pin.name = n /\ pin.rev = q.rev
                           /\ Canonical(pin.repo) = Canonical(q.repo)
    <2>1. PICK m \in submission.challenge.imports : n \in Reached(m)
      BY <1>3 DEF StatementPackages
    <2>2. m \in Allowed(Packages) /\ WellFormed(Packages) /\ CanAllow(Packages)
      BY <1>3 DEF AllowedInv
    <2>3. Flat(Packages)
      BY <1>3, <2>2 DEF Packages
    <2>4. PICK r \in Trusted : \E root \in Matching(r, Packages) :
            /\ m \in Closure(root)
            /\ \A q \in Named(Packages, m) : Closure(q) \subseteq Closure(root)
      BY <2>2, <2>3, AllowedIsVouchedFor
    <2>5. PICK root \in Matching(r, Packages) :
            /\ m \in Closure(root)
            /\ \A q \in Named(Packages, m) : Closure(q) \subseteq Closure(root)
      BY <2>4
    <2>6. n \in Closure(root)
      <3>1. CASE n = m
        BY <2>5, <3>1
      <3>2. CASE n \in UNION {Closure(p) : p \in {q \in Named(Packages, m) : q.repo # "path"}}
        <4>1. PICK q \in Named(Packages, m) : n \in Closure(q)
          BY <3>2
        <4> QED
          BY <2>5, <4>1
      <3> QED
        BY <2>1, <3>1, <3>2, Zenon DEF Reached
    <2>7. PICK q \in Named(Packages, n) :
            /\ \/ root.rev \in r.accepted
               \/ History[<<r.repository, root.rev>>] \in {"ancestor"} \cup
                    IF r.tags THEN {"release"} ELSE {}
            /\ \/ q = root
               \/ \E pin \in PinsOf(root) :
                    pin.name = n /\ pin.rev = q.rev
                    /\ Canonical(pin.repo) = Canonical(q.repo)
      BY <2>2, <2>6, ClosureIsPinned
    <2> QED
      BY <2>7, Zenon
  <1>4. AllowedInv /\ submission \in Projects => StatementRestsOnPinned
    BY <1>3 DEF StatementRestsOnPinned
  <1> QED
    BY <1>1, <1>2, <1>4, PTL DEF Spec
-----------------------------------------------------------------------------
(* The order of the roots, and who owns a name                             *)

\* The order has every root once, and high trust first.
LEMMA OrderOfRoots ==
  /\ RootOrder \in Seq(Trusted)
  /\ \A r \in Trusted : \E i \in 1 .. Len(RootOrder) : RootOrder[i] = r
  /\ \A i, j \in 1 .. Len(RootOrder) :
       RootOrder[i].repository = RootOrder[j].repository => i = j
  /\ \A i, j \in 1 .. Len(RootOrder) :
       i < j /\ RootOrder[j].level = "high" => RootOrder[i].level = "high"
  <1> DEFINE high == {r \in Trusted : r.level = "high"}
             low == Trusted \ high
             a == Selected(Roots, high)
             b == Selected(Roots, low)
             n == Len(Roots)
  <1>1. Roots \in Seq(Trusted) /\ n \in Nat /\ Trusted = {Roots[i] : i \in 1 .. n}
    BY RootsAssumption DEF Trusted
  <1>2. RootOrder = a \o b
    BY DEF RootOrder
  <1> HIDE DEF high, low
  <1>3. a \in Seq(Trusted) /\ \E at : Embeds(a, at, Roots, high, n)
    BY <1>1, SelectedEmbeds
  <1>4. b \in Seq(Trusted) /\ \E bt : Embeds(b, bt, Roots, low, n)
    BY <1>1, SelectedEmbeds
  <1>5. PICK at : Embeds(a, at, Roots, high, n)
    BY <1>3
  <1>6. PICK bt : Embeds(b, bt, Roots, low, n)
    BY <1>4
  <1> HIDE DEF a, b, n
  <1>7. /\ Len(a) \in Nat /\ Len(b) \in Nat /\ Len(RootOrder) = Len(a) + Len(b)
        /\ RootOrder \in Seq(Trusted)
        /\ \A i \in 1 .. Len(a) : RootOrder[i] = a[i]
        /\ \A i \in 1 .. Len(b) : RootOrder[Len(a) + i] = b[i]
    BY <1>2, <1>3, <1>4
  <1>8. \A i \in 1 .. Len(RootOrder) :
          i \in 1 .. Len(a) \/ \E k \in 1 .. Len(b) : i = Len(a) + k
    <2> SUFFICES ASSUME NEW i \in 1 .. Len(RootOrder), i \notin 1 .. Len(a)
                 PROVE  \E k \in 1 .. Len(b) : i = Len(a) + k
      OBVIOUS
    <2>1. i - Len(a) \in 1 .. Len(b) /\ i = Len(a) + (i - Len(a))
      BY <1>7
    <2> QED
      BY <2>1
  <1>9. \A i \in 1 .. Len(a) : at[i] \in 1 .. n /\ RootOrder[i] = Roots[at[i]]
                                /\ RootOrder[i] \in high
    BY <1>5, <1>7 DEF Embeds
  <1>10. \A k \in 1 .. Len(b) : bt[k] \in 1 .. n /\ RootOrder[Len(a) + k] = Roots[bt[k]]
                                 /\ RootOrder[Len(a) + k] \in low
    BY <1>6, <1>7 DEF Embeds
  <1>11. ASSUME NEW r \in Trusted
         PROVE  \E i \in 1 .. Len(RootOrder) : RootOrder[i] = r
    <2>1. PICK m \in 1 .. n : Roots[m] = r
      BY <1>1
    <2>2. CASE r \in high
      <3>1. PICK k \in 1 .. Len(a) : at[k] = m
        BY <1>5, <2>1, <2>2 DEF Embeds
      <3>2. k \in 1 .. Len(RootOrder) /\ RootOrder[k] = r
        BY <1>7, <1>9, <2>1, <3>1
      <3> QED
        BY <3>2
    <2>3. CASE r \notin high
      <3>1. PICK k \in 1 .. Len(b) : bt[k] = m
        BY <1>6, <2>1, <2>3 DEF Embeds, low
      <3>2. Len(a) + k \in 1 .. Len(RootOrder) /\ RootOrder[Len(a) + k] = r
        BY <1>7, <1>10, <2>1, <3>1
      <3> QED
        BY <3>2
    <2> QED
      BY <2>2, <2>3
  <1>12. \A i, j \in 1 .. n : Roots[i].repository = Roots[j].repository => i = j
    <2> SUFFICES ASSUME NEW i \in 1 .. n, NEW j \in 1 .. n,
                        Roots[i].repository = Roots[j].repository, i # j
                 PROVE  FALSE
      OBVIOUS
    <2>1. i \in DOMAIN Roots /\ j \in DOMAIN Roots
      BY <1>1 DEF n
    <2>2. Roots[i].repository \in RepositoriesOf(Roots[i]) \cap RepositoriesOf(Roots[j])
      BY DEF RepositoriesOf
    <2> QED
      BY <2>1, <2>2, RootsAssumption
  <1>13. ASSUME NEW i \in 1 .. Len(RootOrder), NEW j \in 1 .. Len(RootOrder), i < j
         PROVE  RootOrder[i].repository # RootOrder[j].repository
    <2>1. CASE i \in 1 .. Len(a) /\ j \in 1 .. Len(a)
      <3>1. at[i] < at[j]
        BY <1>5, <1>13, <2>1 DEF Embeds
      <3> QED
        BY <1>9, <1>12, <2>1, <3>1
    <2>2. CASE i \in 1 .. Len(a) /\ \E k \in 1 .. Len(b) : j = Len(a) + k
      <3>1. PICK k \in 1 .. Len(b) : j = Len(a) + k
        BY <2>2
      <3>2. at[i] \in 1 .. n /\ RootOrder[i] = Roots[at[i]] /\ Roots[at[i]] \in high
        BY <1>9, <2>2
      <3>3. bt[k] \in 1 .. n /\ RootOrder[j] = Roots[bt[k]] /\ Roots[bt[k]] \notin high
        BY <1>10, <3>1 DEF low
      <3> QED
        BY <1>12, <3>2, <3>3
    <2>3. CASE (\E k \in 1 .. Len(b) : i = Len(a) + k) /\ \E k \in 1 .. Len(b) : j = Len(a) + k
      <3>1. PICK k \in 1 .. Len(b), l \in 1 .. Len(b) : i = Len(a) + k /\ j = Len(a) + l
        BY <2>3
      <3>2. k < l
        BY <1>7, <1>13, <3>1
      <3>3. bt[k] < bt[l] /\ bt[k] \in 1 .. n /\ bt[l] \in 1 .. n
        BY <1>6, <3>2 DEF Embeds
      <3>4. RootOrder[i] = Roots[bt[k]] /\ RootOrder[j] = Roots[bt[l]]
        BY <1>10, <3>1
      <3>5. bt[k] # bt[l]
        BY <3>3
      <3> QED
        BY <1>12, <3>3, <3>4, <3>5
    <2>4. CASE (\E k \in 1 .. Len(b) : i = Len(a) + k) /\ j \in 1 .. Len(a)
      BY <1>7, <1>13, <2>4
    <2> QED
      BY <1>8, <2>1, <2>2, <2>3, <2>4
  <1>14. ASSUME NEW i \in 1 .. Len(RootOrder), NEW j \in 1 .. Len(RootOrder), i < j,
                RootOrder[j].level = "high"
         PROVE  RootOrder[i].level = "high"
    <2>1. RootOrder[j] \in high
      BY <1>7, <1>14 DEF high
    <2>2. j \in 1 .. Len(a)
      BY <1>8, <1>10, <2>1 DEF low
    <2>3. i \in 1 .. Len(a)
      BY <1>7, <1>14, <2>2
    <2> QED
      BY <1>9, <2>3 DEF high
  <1>15. \A i, j \in 1 .. Len(RootOrder) : i < j \/ j < i \/ i = j
    BY <1>7
  <1>16. \A i, j \in 1 .. Len(RootOrder) :
           RootOrder[i].repository = RootOrder[j].repository => i = j
    BY <1>13, <1>15
  <1> QED
    BY <1>7, <1>11, <1>14, <1>16

\* The i-th root in the order is the first whose closure has the name.
Owns(i, name, packages) ==
    /\ i \in 1 .. Len(RootOrder)
    /\ name \in ClosureOf(RootOrder[i], packages)
    /\ \A j \in 1 .. (i - 1) : name \notin ClosureOf(RootOrder[j], packages)

LEMMA OneOwner ==
  ASSUME NEW packages, NEW name, NEW i, NEW j, Owns(i, name, packages), Owns(j, name, packages)
  PROVE  i = j
  <1>1. i \in 1 .. Len(RootOrder) /\ j \in 1 .. Len(RootOrder) /\ Len(RootOrder) \in Nat
    BY OrderOfRoots DEF Owns
  <1>2. ~ (i < j) /\ ~ (j < i)
    BY <1>1 DEF Owns
  <1> QED
    BY <1>1, <1>2

LEMMA AllowedHasOwner ==
  ASSUME NEW packages, NEW name \in Allowed(packages)
  PROVE  \E i \in 1 .. Len(RootOrder) : Owns(i, name, packages)
  <1> DEFINE T == {i \in 1 .. Len(RootOrder) : name \in ClosureOf(RootOrder[i], packages)}
  <1>1. PICK r \in Trusted : name \in ClosureOf(r, packages)
    BY DEF Allowed
  <1>2. T \in SUBSET Nat /\ T # {} /\ Len(RootOrder) \in Nat
    BY <1>1, OrderOfRoots
  <1> HIDE DEF T
  <1>3. PICK i \in T : \A j \in T : i <= j
    BY <1>2, LeastElement
  <1>4. i \in 1 .. Len(RootOrder) /\ name \in ClosureOf(RootOrder[i], packages)
    BY DEF T
  <1>5. ASSUME NEW j \in 1 .. (i - 1)
        PROVE  name \notin ClosureOf(RootOrder[j], packages)
    <2>1. j \in 1 .. Len(RootOrder) /\ ~ (i <= j)
      BY <1>2, <1>4
    <2> QED
      BY <1>3, <2>1 DEF T
  <1> QED
    BY <1>4, <1>5 DEF Owns

\* package_allowlist records the owner, and its level.
LEMMA OwnerIsRecorded ==
  ASSUME NEW packages, NEW name, NEW i, Owns(i, name, packages)
  PROVE  /\ name \in Allowed(packages)
         /\ RootOrder[i] \in Trusted
         /\ Allowlist(packages)[name] =
              [owner |-> RootOrder[i].repository, level |-> RootOrder[i].level]
  <1>1. /\ i \in 1 .. Len(RootOrder) /\ RootOrder[i] \in Trusted
        /\ DOMAIN RootOrder = 1 .. Len(RootOrder) /\ Len(RootOrder) \in Nat
    BY OrderOfRoots DEF Owns
  <1>2. name \in Allowed(packages)
    BY <1>1 DEF Owns, Allowed
  <1> DEFINE order == RootOrder
             Closures == [k \in DOMAIN order |-> ClosureOf(order[k], packages)]
             First(n) == CHOOSE k \in DOMAIN order :
                           /\ n \in Closures[k]
                           /\ \A j \in 1 .. (k - 1) : n \notin Closures[j]
  <1>3. ASSUME NEW k \in DOMAIN order
        PROVE  /\ name \in Closures[k]
               /\ \A j \in 1 .. (k - 1) : name \notin Closures[j]
               <=> Owns(k, name, packages)
    <2>1. \A j \in 1 .. (k - 1) : j \in DOMAIN order
      BY <1>1
    <2> QED
      BY <1>1, <2>1 DEF Owns
  <1>4. First(name) = i
    <2> HIDE DEF Closures
    <2> QED
      BY <1>1, <1>3, OneOwner
  <1>5. Allowlist(packages)[name] =
          [owner |-> order[First(name)].repository, level |-> order[First(name)].level]
    BY <1>2 DEF Allowlist, OwnersAmong
  <1> QED
    BY <1>1, <1>2, <1>4, <1>5

LEMMA OwnedAreItsFirst ==
  ASSUME NEW packages, NEW i \in 1 .. Len(RootOrder), NEW name
  PROVE  name \in Owned(RootOrder[i], Allowlist(packages)) <=> Owns(i, name, packages)
  <1>1. DOMAIN Allowlist(packages) = Allowed(packages)
    BY DEF Allowlist, OwnersAmong
  <1>2. ASSUME Owns(i, name, packages)
        PROVE  name \in Owned(RootOrder[i], Allowlist(packages))
    <2>1. /\ name \in Allowed(packages)
          /\ Allowlist(packages)[name] =
               [owner |-> RootOrder[i].repository, level |-> RootOrder[i].level]
      BY <1>2, OwnerIsRecorded
    <2>2. Allowlist(packages)[name].owner = RootOrder[i].repository
      BY <2>1
    <2> QED
      BY <1>1, <2>1, <2>2 DEF Owned
  <1>3. ASSUME name \in Owned(RootOrder[i], Allowlist(packages))
        PROVE  Owns(i, name, packages)
    <2>1. name \in Allowed(packages) /\ Allowlist(packages)[name].owner = RootOrder[i].repository
      BY <1>1, <1>3 DEF Owned
    <2>2. PICK j \in 1 .. Len(RootOrder) : Owns(j, name, packages)
      BY <2>1, AllowedHasOwner
    <2>3. Allowlist(packages)[name] =
            [owner |-> RootOrder[j].repository, level |-> RootOrder[j].level]
      BY <2>2, OwnerIsRecorded
    <2>4. RootOrder[j].repository = RootOrder[i].repository
      BY <2>1, <2>3
    <2> QED
      BY <2>2, <2>4, OrderOfRoots
  <1> QED
    BY <1>2, <1>3

\* A root is in the manifest, and so is what it pins.
LEMMA AllowedAreNamed ==
  ASSUME NEW packages, CanAllow(packages)
  PROVE  Allowed(packages) \subseteq Names(packages)
  <1> SUFFICES ASSUME NEW r \in Trusted, NEW p \in Matching(r, packages), NEW n \in Closure(p)
               PROVE  n \in Names(packages)
    BY DEF Allowed, ClosureOf
  <1>1. \A expected \in PinsOf(p) : Pinned(expected, packages)
    BY DEF CanAllow, RootAccepted
  <1> QED
    BY <1>1 DEF Closure, Names, Pinned, Named, Matching
-----------------------------------------------------------------------------
(* Types                                                                   *)

Unbuilt == Unpromoted \cup {"promoting", "promoted"}

\* The links are there only while their root is being built.
LinkInv ==
    /\ stage \in Unbuilt => linked = {}
    /\ stage = "trusted-roots" /\ linked # {} =>
         /\ unbuilt > 0
         /\ NextRoot.repository # "mathlib4"
         /\ \E p \in Matching(NextRoot, Packages) :
              linked = {p.name} /\ Closure(p) \subseteq DOMAIN allowlist

LEMMA NextKeepsLinks ==
  ASSUME LinkInv, [Next]_vars
  PROVE  LinkInv'
  <1>0. Packages' = Packages
    BY SubmissionStays
  <1>1. CASE SkipRoot
    BY <1>1 DEF SkipRoot, LinkInv, Unbuilt, Unpromoted
  <1>2. CASE PrepareRoot
    BY <1>0, <1>2 DEF PrepareRoot, Fail, LinkInv, Unbuilt, Unpromoted, NextRoot
  <1>3. CASE BuildRoot
    BY <1>3 DEF BuildRoot, LinkInv
  <1>4. CASE ~ (SkipRoot \/ PrepareRoot \/ BuildRoot)
    <2>1. /\ linked' = linked
          /\ stage' \in Unbuilt => stage \in Unbuilt
          /\ \/ stage' # "trusted-roots"
             \/ stage \in Unbuilt
             \/ stage' = stage /\ UNCHANGED <<allowlist, unbuilt>>
      BY <1>4 DEF Next, vars, Materialize, Elaborate, CheckProvenance, NoCacheNeeded, FetchCache,
         Validate, Promote, Replay, CompileChallenge, Audit, CandidateBuilds, Gone, Fail,
         Unbuilt, Unpromoted
    <2> QED
      BY <1>0, <2>1 DEF LinkInv, NextRoot
  <1> QED
    BY <1>1, <1>2, <1>3, <1>4

LakeStates == {"absent", "fresh", "candidate", "cache", "replayed", "built"}

LEMMA NextKeepsLakeType ==
  ASSUME TypeOK, [Next]_vars
  PROVE  lake' \in [PackageNames -> LakeStates]
  <1>0. lake \in [PackageNames -> LakeStates]
    BY DEF TypeOK, LakeStates
  <1>1. CASE lake' = lake
    BY <1>0, <1>1
  <1>2. CASE \E names : lake' = Reset(names)
    BY <1>0, <1>2 DEF Reset, LakeStates
  <1>3. CASE Elaborate \/ CandidateBuilds
    <2>1. [n \in PackageNames |-> "candidate"] \in [PackageNames -> LakeStates]
      BY DEF LakeStates
    <2>2. [n \in PackageNames |-> IF n \in CandidateWritable(PackageNames) THEN "candidate"
                                  ELSE lake[n]] \in [PackageNames -> LakeStates]
      BY <1>0 DEF LakeStates
    <2> QED
      BY <1>0, <1>3, <2>1, <2>2 DEF Elaborate, CandidateBuilds
  <1>4. CASE Promote
    BY <1>0, <1>4 DEF Promote, LakeStates
  <1>5. CASE Replay \/ BuildRoot
    BY <1>0, <1>5 DEF Replay, BuildRoot, Rebuilt, LakeStates
  <1>6. Materialize \/ FetchCache \/ PrepareRoot => lake' = lake \/ \E names : lake' = Reset(names)
    BY Zenon DEF Materialize, FetchCache, PrepareRoot
  <1>7. CheckProvenance \/ NoCacheNeeded \/ Validate \/ SkipRoot \/ CompileChallenge
          \/ Audit \/ Gone \/ UNCHANGED vars => lake' = lake
    BY Zenon DEF CheckProvenance, NoCacheNeeded, Validate, SkipRoot, CompileChallenge, Audit,
       Gone, vars
  <1> QED
    BY <1>1, <1>2, <1>3, <1>4, <1>5, <1>6, <1>7 DEF Next

LEMMA AllowlistType ==
  ASSUME CanAllow(Packages), NEW a, a = Allowlist(Packages)
  PROVE  /\ DOMAIN a \subseteq PackageNames
         /\ \A n \in DOMAIN a : \E r \in Trusted : a[n] = [owner |-> r.repository, level |-> r.level]
  <1>1. DOMAIN a = Allowed(Packages)
    BY DEF Allowlist, OwnersAmong
  <1>2. ASSUME NEW n \in DOMAIN a
        PROVE  \E r \in Trusted : a[n] = [owner |-> r.repository, level |-> r.level]
    <2>1. PICK i \in 1 .. Len(RootOrder) : Owns(i, n, Packages)
      BY <1>1, AllowedHasOwner
    <2>2. /\ RootOrder[i] \in Trusted
          /\ Allowlist(Packages)[n] =
               [owner |-> RootOrder[i].repository, level |-> RootOrder[i].level]
      BY <2>1, OwnerIsRecorded
    <2> QED
      BY <2>2
  <1> QED
    BY <1>1, <1>2, AllowedAreNamed DEF PackageNames

LEMMA NextKeepsTypes ==
  ASSUME TypeOK, LinkInv, [Next]_vars
  PROVE  TypeOK'
  <1>1. stage' \in Stages
    BY DEF TypeOK, Stages, Next, vars, Materialize, Elaborate, CheckProvenance, NoCacheNeeded,
       FetchCache, Validate, Promote, Replay, SkipRoot, PrepareRoot, BuildRoot, CompileChallenge,
       Audit, CandidateBuilds, Gone, Fail
  <1>2. /\ DOMAIN allowlist' \subseteq PackageNames
        /\ \A n \in DOMAIN allowlist' :
             \E r \in Trusted : allowlist'[n] = [owner |-> r.repository, level |-> r.level]
    <2>1. CASE allowlist' = allowlist
      BY <2>1 DEF TypeOK
    <2>2. CASE allowlist' = Allowlist(Packages) /\ CanAllow(Packages)
      BY <2>2, AllowlistType
    <2>3. allowlist' = allowlist \/ (allowlist' = Allowlist(Packages) /\ CanAllow(Packages))
      BY Zenon DEF Next, vars, Materialize, Elaborate, CheckProvenance, NoCacheNeeded,
         FetchCache, Validate, Promote, Replay, SkipRoot, PrepareRoot, BuildRoot,
         CompileChallenge, Audit, CandidateBuilds, Gone
    <2> QED
      BY <2>1, <2>2, <2>3
  <1>3. lake' \in [PackageNames -> LakeStates]
    BY NextKeepsLakeType
  <1>4. /\ staged' \in [PackageNames -> {"none", "fetched", "missing", "escapes"}]
        /\ changed' \in BOOLEAN
        /\ said' \in Transcripts
        /\ cache' \in {"unset", "not-required", "unknown", "available", "short"}
    <2>0. Silent \in Transcripts
      BY DEF Silent, Transcripts
    <2>1. CASE UNCHANGED <<staged, changed, said, cache>>
      BY <2>1 DEF TypeOK
    <2>2. CASE NoCacheNeeded
      BY <2>2 DEF TypeOK, NoCacheNeeded
    <2>3. CASE FetchCache /\ ~ UNCHANGED <<lake, staged, said, changed>>
      <3>1. ASSUME NEW missing, NEW escapes
            PROVE  [n \in PackageNames |->
                      CASE n \notin MathlibClosure -> "none"
                        [] n \in missing -> "missing"
                        [] n \in escapes -> "escapes"
                        [] OTHER -> "fetched"]
                   \in [PackageNames -> {"none", "fetched", "missing", "escapes"}]
        OBVIOUS
      <3>2. PICK missing, escapes :
              /\ staged' = [n \in PackageNames |->
                              CASE n \notin MathlibClosure -> "none"
                                [] n \in missing -> "missing"
                                [] n \in escapes -> "escapes"
                                [] OTHER -> "fetched"]
              /\ said' \in Transcripts
              /\ changed' \in BOOLEAN
        BY <2>3, Zenon DEF FetchCache
      <3>3. staged' \in [PackageNames -> {"none", "fetched", "missing", "escapes"}]
        BY <3>1, <3>2
      <3> QED
        BY <2>3, <3>2, <3>3 DEF FetchCache, TypeOK
    <2>4. CASE Replay
      <3>1. \A t : Availability(t) \in {"unknown", "available", "short"}
        BY DEF Availability
      <3>2. cache' = cache \/ cache' = Availability(said)
        BY <2>4 DEF Replay
      <3> QED
        BY <2>0, <2>4, <3>1, <3>2 DEF Replay, TypeOK
    <2>5. \/ UNCHANGED <<staged, changed, said, cache>> \/ NoCacheNeeded \/ Replay
          \/ FetchCache /\ ~ UNCHANGED <<lake, staged, said, changed>>
      <3>1. FetchCache => UNCHANGED cache
        BY DEF FetchCache
      <3> QED
        BY <3>1 DEF Next, vars, Materialize, Elaborate, CheckProvenance, Validate, Promote,
           SkipRoot, PrepareRoot, BuildRoot, CompileChallenge, Audit, CandidateBuilds, Gone
    <2> QED
      BY <2>1, <2>2, <2>3, <2>4, <2>5
  <1>5. linked' \subseteq PackageNames
    <2>1. CASE PrepareRoot
      BY <2>1 DEF PrepareRoot, TypeOK, Matching, PackageNames, Names
    <2>2. CASE BuildRoot
      BY <2>2 DEF BuildRoot
    <2>3. CASE ~ (PrepareRoot \/ BuildRoot)
      BY <2>3 DEF TypeOK, Next, vars, Materialize, Elaborate, CheckProvenance, NoCacheNeeded,
         FetchCache, Validate, Promote, Replay, SkipRoot, CompileChallenge, Audit,
         CandidateBuilds, Gone
    <2> QED
      BY <2>1, <2>2, <2>3
  <1>6. unbuilt' \in 0 .. Len(RootOrder)
    <2>1. Len(RootOrder) \in Nat
      BY OrderOfRoots
    <2>2. CASE NoCacheNeeded \/ Replay
      BY <2>1, <2>2 DEF NoCacheNeeded, Replay, TypeOK
    <2>3. CASE SkipRoot
      BY <2>1, <2>3 DEF SkipRoot, TypeOK
    <2>4. CASE BuildRoot
      BY <2>1, <2>4 DEF BuildRoot, TypeOK, LinkInv
    <2>5. CASE ~ (NoCacheNeeded \/ Replay \/ SkipRoot \/ BuildRoot)
      BY <2>5 DEF TypeOK, Next, vars, Materialize, Elaborate, CheckProvenance, FetchCache,
         Validate, Promote, PrepareRoot, CompileChallenge, Audit, CandidateBuilds, Gone
    <2> QED
      BY <2>2, <2>3, <2>4, <2>5
  <1>7. protected' \subseteq Sidecars \cup {"stray"}
    <2>1. CASE CompileChallenge
      BY <2>1 DEF CompileChallenge, Published, TypeOK
    <2>2. CASE ~ CompileChallenge
      BY <2>2 DEF TypeOK, Next, vars, Materialize, Elaborate, CheckProvenance, NoCacheNeeded,
         FetchCache, Validate, Promote, Replay, SkipRoot, PrepareRoot, BuildRoot, Audit,
         CandidateBuilds, Gone
    <2> QED
      BY <2>1, <2>2
  <1>8. audited' \in {"unset", "high", "qualified"}
    <2>1. \A sources, a : TrustLevel(sources, a) \in {"qualified", "high"}
      BY DEF TrustLevel
    <2>2. CASE Audit
      BY <2>1, <2>2 DEF Audit
    <2>3. CASE ~ Audit
      BY <2>3 DEF TypeOK, Next, vars, Materialize, Elaborate, CheckProvenance, NoCacheNeeded,
         FetchCache, Validate, Promote, Replay, SkipRoot, PrepareRoot, BuildRoot,
         CompileChallenge, CandidateBuilds, Gone
    <2> QED
      BY <2>2, <2>3
  <1>9. exports' \subseteq {"protected", "toolchain", "trusted", "candidate"}
    <2>1. CASE exports' = exports
      BY <2>1 DEF TypeOK
    <2>2. CASE exports' # exports
      <3>1. CandidateBuilds
        BY <2>2 DEF Next, vars, Materialize, Elaborate, CheckProvenance, NoCacheNeeded,
           FetchCache, Validate, Promote, Replay, SkipRoot, PrepareRoot, BuildRoot,
           CompileChallenge, Audit, Gone
      <3>2. PICK twin \in SUBSET {"candidate"} :
              exports' = {FoundIn({"protected"}), FoundIn({"toolchain"} \cup twin)}
                         \cup {FoundIn({"trusted"} \cup twin) :
                                 n \in submission.challenge.imports}
        BY <2>2, <3>1, Zenon DEF CandidateBuilds
      <3> QED
        BY <3>2, NoTwinIsFound
    <2> QED
      BY <2>1, <2>2
  <1>10. PackageNames' = PackageNames
    BY SubmissionStays
  <1> QED
    BY <1>1, <1>2, <1>3, <1>4, <1>5, <1>6, <1>7, <1>8, <1>9, <1>10 DEF TypeOK, LakeStates

LEMMA InitTypes == Init => TypeOK /\ LinkInv
  <1> SUFFICES ASSUME Init PROVE TypeOK /\ LinkInv
    OBVIOUS
  <1>1. Len(RootOrder) \in Nat
    BY OrderOfRoots
  <1>2. DOMAIN allowlist = {}
    BY DEF Init
  <1>3. /\ lake \in [PackageNames -> {"absent", "fresh", "candidate", "cache", "replayed", "built"}]
        /\ staged \in [PackageNames -> {"none", "fetched", "missing", "escapes"}]
    BY DEF Init
  <1>4. stage = "candidate-setup" /\ linked = {}
    BY DEF Init
  <1>5. /\ changed = FALSE /\ said = Silent /\ cache = "unset" /\ unbuilt = 0 /\ protected = {}
        /\ audited = "unset" /\ exports = {}
    BY DEF Init
  <1>6. TypeOK
    <2>1. unbuilt \in 0 .. Len(RootOrder) /\ stage \in Stages
      BY <1>1, <1>4, <1>5 DEF Stages
    <2>2. /\ changed \in BOOLEAN
          /\ said \in Transcripts
          /\ cache \in {"unset", "not-required", "unknown", "available", "short"}
          /\ audited \in {"unset", "high", "qualified"}
      BY <1>5 DEF Silent, Transcripts
    <2> QED
      BY <1>2, <1>3, <1>4, <1>5, <2>1, <2>2, Zenon DEF TypeOK
  <1> QED
    BY <1>4, <1>6 DEF LinkInv

LEMMA TypesAndLinks == Spec => [](TypeOK /\ LinkInv)
  <1>1. TypeOK /\ LinkInv /\ [Next]_vars => (TypeOK /\ LinkInv)'
    BY NextKeepsTypes, NextKeepsLinks
  <1> QED
    BY <1>1, InitTypes, PTL DEF Spec

\* The allowlist names packages of the manifest under owners of the configuration,
\* and build_allowlisted_roots never counts past the last root.
THEOREM TrustedTypes == Spec => []TypeOK
  BY TypesAndLinks, PTL
-----------------------------------------------------------------------------
(* Who has built what                                                      *)

Ends == {"failed", "gone"}

\* Owned by a root that has been built; Mathlib's is built before all others.
BuiltWith(name, left) ==
    \E i \in 1 .. Len(RootOrder) :
       Owns(i, name, Packages) /\ (i = 1 \/ i <= Len(RootOrder) - left)

NothingBuilt == stage \in Unbuilt => \A n \in PackageNames : lake[n] \notin TrustedState

NothingCompiled == stage \in Unbuilt \cup {"trusted-roots"} => protected = {}

ClosureStaged ==
    /\ stage \in {"fetched", "promoting", "promoted"} =>
         /\ MathlibClosure \subseteq PackageNames
         /\ \A n \in MathlibClosure : lake[n] \in {"fresh", "cache"}
    /\ stage = "promoted" => \A n \in MathlibClosure : lake[n] = "cache"

RootsBuilt ==
    stage \in {"trusted-roots"} \cup Compiled =>
      \A n \in PackageNames : lake[n] \in TrustedState <=> BuiltWith(n, unbuilt)

AllBuilt == stage \in Compiled => unbuilt = 0

NextIsFresh ==
    stage = "trusted-roots" /\ linked # {} =>
      \A n \in Owned(NextRoot, allowlist) : lake[n] = "fresh"

\* Until roots are built nothing is in trusted state; then exactly what the roots
\* so far own is, and it is all that is allowed when the statement is compiled.
BuildInv ==
    /\ NothingBuilt /\ NothingCompiled
    /\ ClosureStaged
    /\ RootsBuilt /\ AllBuilt /\ NextIsFresh
    /\ CompiledFromTrustedState

Frozen == \A n \in PackageNames : lake[n] \in TrustedState => lake'[n] = lake[n]

LEMMA MathlibIsFirst ==
  ASSUME NEW name
  PROVE  Owns(1, name, Packages) <=> name \in MathlibClosure
  <1>1. 1 \in 1 .. Len(RootOrder) /\ RootOrder[1].repository = "mathlib4"
    BY OrderOfRoots, MathlibAssumption
  <1>2. Matching(RootOrder[1], Packages) = Mathlib
    BY <1>1 DEF Matching, Mathlib
  <1>3. ClosureOf(RootOrder[1], Packages) = MathlibClosure
    BY <1>2 DEF ClosureOf, MathlibClosure
  <1> QED
    BY <1>1, <1>3 DEF Owns

\* The next root, and that what it owns has not been built.
LEMMA NextRootOwns ==
  ASSUME TypeOK, stage = "trusted-roots", AllowedInv, unbuilt > 0
  PROVE  /\ Len(RootOrder) - unbuilt + 1 \in 1 .. Len(RootOrder)
         /\ NextRoot = RootOrder[Len(RootOrder) - unbuilt + 1]
         /\ \A n : n \in Owned(NextRoot, allowlist)
                     <=> Owns(Len(RootOrder) - unbuilt + 1, n, Packages)
         /\ NextRoot.repository = "mathlib4" <=> Len(RootOrder) - unbuilt + 1 = 1
  <1> DEFINE k == Len(RootOrder) - unbuilt + 1
  <1>1. Len(RootOrder) \in Nat /\ unbuilt \in 0 .. Len(RootOrder)
    BY OrderOfRoots DEF TypeOK
  <1>2. k \in 1 .. Len(RootOrder) /\ 1 \in 1 .. Len(RootOrder)
    BY <1>1
  <1>3. NextRoot = RootOrder[k]
    BY DEF NextRoot
  <1>4. allowlist = Allowlist(Packages)
    BY DEF AllowedInv
  <1>5. NextRoot.repository = "mathlib4" <=> k = 1
    BY <1>2, <1>3, OrderOfRoots, MathlibAssumption
  <1> HIDE DEF k
  <1>6. \A n : n \in Owned(NextRoot, allowlist) <=> Owns(k, n, Packages)
    BY <1>2, <1>3, <1>4, OwnedAreItsFirst
  <1> QED
    BY <1>2, <1>3, <1>5, <1>6 DEF k

\* What has been built when the next root is, and what has not.
LEMMA BuiltNext ==
  ASSUME unbuilt \in 1 .. Len(RootOrder), NEW n
  PROVE  /\ BuiltWith(n, unbuilt - 1)
              <=> BuiltWith(n, unbuilt) \/ Owns(Len(RootOrder) - unbuilt + 1, n, Packages)
         /\ Len(RootOrder) - unbuilt + 1 # 1
              => ~ (BuiltWith(n, unbuilt) /\ Owns(Len(RootOrder) - unbuilt + 1, n, Packages))
  <1> DEFINE l == Len(RootOrder)
             k == l - unbuilt + 1
  <1>1. l \in Nat /\ k \in 1 .. l /\ k - 1 = l - unbuilt /\ k = l - (unbuilt - 1)
    BY OrderOfRoots
  <1>2. \A i \in 1 .. l : i <= k <=> i <= k - 1 \/ i = k
    BY <1>1
  <1>3. BuiltWith(n, unbuilt - 1) <=> \E i \in 1 .. l : Owns(i, n, Packages) /\ (i = 1 \/ i <= k)
    BY <1>1 DEF BuiltWith
  <1>4. BuiltWith(n, unbuilt) <=> \E i \in 1 .. l : Owns(i, n, Packages) /\ (i = 1 \/ i <= k - 1)
    BY <1>1 DEF BuiltWith
  <1>5. ~ (k <= k - 1)
    BY <1>1
  <1> HIDE DEF k, l
  <1>6. BuiltWith(n, unbuilt - 1) <=> BuiltWith(n, unbuilt) \/ Owns(k, n, Packages)
    BY <1>1, <1>2, <1>3, <1>4
  <1>7. k # 1 => ~ (BuiltWith(n, unbuilt) /\ Owns(k, n, Packages))
    BY <1>4, <1>5, OneOwner
  <1> QED
    BY <1>6, <1>7 DEF k, l

\* A step that ends the verification and changes no trusted state.
LEMMA EndKeepsBuilt ==
  ASSUME TypeOK, BuildInv, Frozen, stage' \in Ends, UNCHANGED <<allowlist, protected>>
  PROVE  BuildInv'
  <1>1. DOMAIN allowlist \subseteq PackageNames
    BY DEF TypeOK
  <1>2. protected' # {} => \A n \in DOMAIN allowlist' : lake'[n] \in TrustedState'
    BY <1>1 DEF BuildInv, CompiledFromTrustedState, Frozen, TrustedState
  <1> QED
    BY <1>2 DEF BuildInv, NothingBuilt, NothingCompiled, ClosureStaged, RootsBuilt, AllBuilt,
       NextIsFresh, CompiledFromTrustedState, Ends, Unbuilt,
       Unpromoted, Compiled

\* What there is to show of a step that stays before the roots, and among them.
LEMMA BeforeRoots ==
  ASSUME stage' \in Unbuilt, protected' = {}, ClosureStaged',
         \A n \in PackageNames' : lake'[n] \notin TrustedState
  PROVE  BuildInv'
  <1>1. stage' \notin {"trusted-roots"} \cup Compiled /\ stage' # "trusted-roots"
    BY DEF Unbuilt, Unpromoted, Compiled
  <1>2. NothingBuilt' /\ NothingCompiled' /\ CompiledFromTrustedState'
    BY DEF NothingBuilt, NothingCompiled, CompiledFromTrustedState
  <1>3. RootsBuilt' /\ AllBuilt' /\ NextIsFresh'
    BY <1>1 DEF RootsBuilt, AllBuilt, NextIsFresh
  <1> QED
    BY <1>2, <1>3 DEF BuildInv

LEMMA AmongRoots ==
  ASSUME stage' = "trusted-roots", protected' = {}, NextIsFresh',
         \A n \in PackageNames' : lake'[n] \in TrustedState <=> BuiltWith(n, unbuilt)'
  PROVE  BuildInv'
  <1>1. stage' \notin Unbuilt /\ stage' \notin Compiled
        /\ stage' \notin {"fetched", "promoting", "promoted"}
    BY DEF Unbuilt, Unpromoted, Compiled
  <1>2. NothingBuilt' /\ NothingCompiled' /\ CompiledFromTrustedState'
    BY <1>1 DEF NothingBuilt, NothingCompiled, CompiledFromTrustedState
  <1>3. ClosureStaged' /\ AllBuilt' /\ RootsBuilt'
    BY <1>1 DEF ClosureStaged, RootsBuilt, AllBuilt
  <1> QED
    BY <1>2, <1>3 DEF BuildInv

\* A step that ends the verification leaves the allowlist.
LEMMA EarlyAllowlist ==
  ASSUME [Next]_vars, stage' \in Ends
  PROVE  UNCHANGED allowlist
  BY DEF Next, vars, Materialize, Elaborate, CheckProvenance, NoCacheNeeded, FetchCache, Validate,
     Promote, Replay, SkipRoot, PrepareRoot, BuildRoot, CompileChallenge, Audit, CandidateBuilds,
     Gone, Fail, Ends

\* Up to the cache client.
LEMMA EarlyKeepsBuilt ==
  ASSUME TypeOK, BuildInv, [Next]_vars,
         Materialize \/ Elaborate \/ CheckProvenance \/ FetchCache
  PROVE  BuildInv' /\ Frozen
  <1>0. /\ Packages' = Packages /\ PackageNames' = PackageNames
        /\ MathlibClosure' = MathlibClosure
    BY SubmissionStays
  <1>1. stage \in Unbuilt
    BY DEF Materialize, Elaborate, CheckProvenance, FetchCache, Unbuilt, Unpromoted
  <1>2. Frozen /\ protected = {} /\ \A n \in PackageNames : lake[n] \notin TrustedState
    BY <1>1 DEF BuildInv, NothingBuilt, NothingCompiled, Frozen
  <1>3. UNCHANGED protected
    BY DEF Materialize, Elaborate, CheckProvenance, FetchCache
  <1>4. lake' = lake \/ (\E names : lake' = Reset(names))
           \/ lake' = [n \in PackageNames |-> "candidate"]
    BY Zenon DEF Materialize, Elaborate, CheckProvenance, FetchCache
  <1>5. \A n \in PackageNames : lake'[n] \notin TrustedState
    <2>1. CASE lake' = lake
      BY <1>2, <2>1
    <2>2. CASE \E names : lake' = Reset(names)
      BY <1>2, <2>2 DEF Reset, TrustedState
    <2>3. CASE lake' = [n \in PackageNames |-> "candidate"]
      BY <2>3 DEF TrustedState
    <2> QED
      BY <1>4, <2>1, <2>2, <2>3
  <1>6. /\ stage' \in Unbuilt \cup Ends
        /\ stage' \in {"fetched", "promoting", "promoted"} =>
             stage' = "fetched" /\ FetchCache /\ stage' # "failed"
    BY DEF Materialize, Elaborate, CheckProvenance, FetchCache, Fail, Unbuilt, Unpromoted, Ends
  <1>7. ASSUME FetchCache, stage' # "failed"
        PROVE  /\ MathlibClosure \subseteq PackageNames
               /\ \A n \in MathlibClosure : lake'[n] = "fresh"
    <2>1. MathlibClosure \subseteq PackageNames
      BY <1>7 DEF FetchCache, Fail, CanReset, MathlibClosure
    <2>2. lake' = Reset(MathlibClosure)
      BY <1>7, Zenon DEF FetchCache, Fail
    <2> QED
      BY <2>1, <2>2 DEF Reset
  <1>8. BuildInv'
    <2>1. CASE stage' \in Ends
      BY <1>2, <1>3, <2>1, EarlyAllowlist, EndKeepsBuilt DEF Ends
    <2>2. CASE stage' \notin Ends
      <3>1. ClosureStaged'
        BY <1>0, <1>6, <1>7, <2>2 DEF ClosureStaged, Ends
      <3> QED
        BY <1>0, <1>2, <1>3, <1>5, <1>6, <2>2, <3>1, BeforeRoots
    <2> QED
      BY <2>1, <2>2
  <1> QED
    BY <1>2, <1>8

\* Validation and promotion.
LEMMA PromotionKeepsBuilt ==
  ASSUME TypeOK, BuildInv, [Next]_vars, Validate \/ Promote
  PROVE  BuildInv' /\ Frozen
  <1>0. /\ Packages' = Packages /\ PackageNames' = PackageNames
        /\ MathlibClosure' = MathlibClosure
    BY SubmissionStays
  <1>1. stage \in {"fetched", "promoting"} /\ UNCHANGED <<protected, allowlist>>
    BY DEF Validate, Promote
  <1>2. /\ \A n \in PackageNames : lake[n] \notin TrustedState
        /\ protected = {} /\ MathlibClosure \subseteq PackageNames
        /\ \A n \in MathlibClosure : lake[n] \in {"fresh", "cache"}
    BY <1>1 DEF BuildInv, NothingBuilt, NothingCompiled, ClosureStaged, Unbuilt, Unpromoted
  <1>3. Frozen
    BY <1>2 DEF Frozen
  <1>4. CASE lake' = lake /\ stage' # "promoted"
    <2>1. stage' \in {"promoting", "failed"}
      BY <1>4 DEF Validate, Promote, Fail
    <2>2. CASE stage' = "failed"
      BY <1>1, <1>3, <2>2, EndKeepsBuilt DEF Ends
    <2>3. CASE stage' = "promoting"
      <3>1. ClosureStaged'
        BY <1>0, <1>2, <1>4, <2>3 DEF ClosureStaged
      <3>2. stage' \in Unbuilt /\ protected' = {}
            /\ \A n \in PackageNames' : lake'[n] \notin TrustedState
        BY <1>0, <1>1, <1>2, <1>4, <2>3 DEF Unbuilt
      <3> QED
        BY <1>3, <3>1, <3>2, BeforeRoots
    <2> QED
      BY <2>1, <2>2, <2>3
  <1>5. CASE ~ (lake' = lake /\ stage' # "promoted")
    <2> DEFINE left == {n \in MathlibClosure : lake[n] = "fresh"}
    <2>1. PICK n \in left : /\ lake' = [lake EXCEPT ![n] = "cache"]
                            /\ stage' = IF left = {n} THEN "promoted" ELSE stage
      BY <1>5 DEF Validate, Promote, Fail
    <2>2. stage = "promoting"
      BY <1>1, <1>5 DEF Validate, Promote, Fail
    <2>3. \A m \in PackageNames : lake'[m] = IF m = n THEN "cache" ELSE lake[m]
      BY <2>1 DEF TypeOK
    <2>4. stage' = "promoted" => \A m \in MathlibClosure : lake'[m] = "cache"
      <3> SUFFICES ASSUME left = {n}, NEW m \in MathlibClosure
                   PROVE  lake'[m] = "cache"
        BY <2>1, <2>2
      <3> QED
        BY <1>2, <2>3
    <2>5. stage' \in {"promoting", "promoted"}
      BY <2>1, <2>2
    <2>6. \A m \in PackageNames : lake'[m] \notin TrustedState
      BY <1>2, <2>3 DEF TrustedState
    <2>7. \A m \in MathlibClosure : lake'[m] \in {"fresh", "cache"}
      BY <1>2, <2>3
    <2> HIDE DEF left
    <2>8. ClosureStaged'
      BY <1>0, <1>2, <2>4, <2>7 DEF ClosureStaged
    <2>9. stage' \in Unbuilt /\ protected' = {}
          /\ \A m \in PackageNames' : lake'[m] \notin TrustedState
      BY <1>0, <1>1, <1>2, <2>5, <2>6 DEF Unbuilt
    <2> QED
      BY <1>3, <2>8, <2>9, BeforeRoots
  <1> QED
    BY <1>3, <1>4, <1>5

\* Mathlib's closure is built, or there is none.
LEMMA MathlibIsBuilt ==
  ASSUME TypeOK, LinkInv, BuildInv, [Next]_vars, NoCacheNeeded \/ Replay
  PROVE  BuildInv' /\ Frozen
  <1>0. /\ Packages' = Packages /\ PackageNames' = PackageNames
    BY SubmissionStays
  <1>1. stage \in Unbuilt /\ UNCHANGED <<protected, allowlist, linked>>
    BY DEF NoCacheNeeded, Replay, Unbuilt, Unpromoted
  <1>2. /\ \A n \in PackageNames : lake[n] \notin TrustedState
        /\ protected = {} /\ linked = {}
    BY <1>1 DEF BuildInv, NothingBuilt, NothingCompiled, LinkInv
  <1>3. Frozen
    BY <1>2 DEF Frozen
  <1>4. CASE stage' \in Ends
    BY <1>1, <1>3, <1>4, EndKeepsBuilt
  <1>5. CASE stage' \notin Ends
    <2>1. stage' = "trusted-roots" /\ unbuilt' = Len(RootOrder)
      BY <1>5 DEF NoCacheNeeded, Replay, Fail, Ends
    <2>2. Len(RootOrder) \in Nat /\ \A i \in 1 .. Len(RootOrder) : ~ (i <= Len(RootOrder) - unbuilt')
      BY <2>1, OrderOfRoots
    <2>3. \A n : BuiltWith(n, unbuilt') <=> n \in MathlibClosure
      <3>1. 1 \in 1 .. Len(RootOrder)
        BY OrderOfRoots, MathlibAssumption
      <3> QED
        BY <2>2, <3>1, MathlibIsFirst DEF BuiltWith
    <2>4. \A n \in PackageNames : lake'[n] \in TrustedState <=> n \in MathlibClosure
      <3>1. CASE NoCacheNeeded
        BY <1>2, <3>1 DEF NoCacheNeeded, MathlibClosure
      <3>2. CASE Replay
        <4>1. \A n \in MathlibClosure : lake[n] = "cache"
          BY <3>2 DEF Replay, BuildInv, ClosureStaged
        <4>2. lake' = [n \in PackageNames |-> IF n \in MathlibClosure
                                              THEN Rebuilt(lake[n], "replayed") ELSE lake[n]]
          BY <2>1, <3>2 DEF Replay, Fail
        <4> QED
          BY <1>2, <4>1, <4>2 DEF Rebuilt, TrustedState
      <3> QED
        BY <3>1, <3>2
    <2>5. \A n : BuiltWith(n, unbuilt)' <=> BuiltWith(n, unbuilt')
      BY <1>0 DEF BuiltWith
    <2>6. \A n \in PackageNames' : lake'[n] \in TrustedState <=> BuiltWith(n, unbuilt)'
      BY <1>0, <2>3, <2>4, <2>5
    <2>7. protected' = {} /\ NextIsFresh'
      BY <1>1, <1>2 DEF NextIsFresh
    <2> QED
      BY <1>3, <2>1, <2>6, <2>7, AmongRoots
  <1> QED
    BY <1>3, <1>4, <1>5

LEMMA SkipKeepsBuilt ==
  ASSUME TypeOK, AllowedInv, LinkInv, BuildInv, [Next]_vars, SkipRoot
  PROVE  BuildInv' /\ Frozen
  <1> DEFINE k == Len(RootOrder) - unbuilt + 1
  <1>0. /\ Packages' = Packages /\ PackageNames' = PackageNames
    BY SubmissionStays
  <1>1. /\ stage = "trusted-roots" /\ unbuilt > 0 /\ unbuilt' = unbuilt - 1
        /\ UNCHANGED <<stage, protected, allowlist, linked, lake>>
        /\ NextRoot.repository = "mathlib4" \/ Matching(NextRoot, Packages) = {}
    BY DEF SkipRoot
  <1>2. linked = {}
    BY <1>1 DEF LinkInv
  <1>3. unbuilt \in 1 .. Len(RootOrder) /\ 1 \in 1 .. Len(RootOrder)
    BY <1>1, OrderOfRoots, MathlibAssumption DEF TypeOK
  <1>4. /\ k \in 1 .. Len(RootOrder) /\ NextRoot = RootOrder[k]
        /\ NextRoot.repository = "mathlib4" <=> k = 1
    BY <1>1, NextRootOwns
  <1>5. ASSUME NEW n, Owns(k, n, Packages)
        PROVE  BuiltWith(n, unbuilt)
    <2>1. CASE k = 1
      BY <1>3, <1>5, <2>1 DEF BuiltWith
    <2>2. CASE Matching(NextRoot, Packages) = {}
      BY <1>4, <1>5, <2>2 DEF Owns, ClosureOf
    <2> QED
      BY <1>1, <1>4, <2>1, <2>2
  <1>6. \A n : BuiltWith(n, unbuilt - 1) <=> BuiltWith(n, unbuilt)
    BY <1>3, <1>5, BuiltNext
  <1>7. \A n : BuiltWith(n, unbuilt)' <=> BuiltWith(n, unbuilt - 1)
    BY <1>0, <1>1 DEF BuiltWith
  <1> HIDE DEF k
  <1>8. /\ \A n \in PackageNames : lake[n] \in TrustedState <=> BuiltWith(n, unbuilt)
        /\ protected = {}
    BY <1>1 DEF BuildInv, RootsBuilt, NothingCompiled
  <1>9. \A n \in PackageNames' : lake'[n] \in TrustedState <=> BuiltWith(n, unbuilt)'
    BY <1>0, <1>1, <1>6, <1>7, <1>8
  <1>10. protected' = {} /\ NextIsFresh' /\ Frozen
    BY <1>1, <1>2, <1>8 DEF NextIsFresh, Frozen
  <1> QED
    BY <1>1, <1>9, <1>10, AmongRoots

LEMMA PrepareKeepsBuilt ==
  ASSUME TypeOK, AllowedInv, LinkInv, BuildInv, [Next]_vars, PrepareRoot
  PROVE  BuildInv' /\ Frozen
  <1> DEFINE k == Len(RootOrder) - unbuilt + 1
  <1>0. /\ Packages' = Packages /\ PackageNames' = PackageNames
    BY SubmissionStays
  <1>1. /\ stage = "trusted-roots" /\ unbuilt > 0 /\ NextRoot.repository # "mathlib4"
        /\ UNCHANGED <<protected, allowlist, unbuilt>>
    BY DEF PrepareRoot
  <1>2. CASE stage' \in Ends
    <2>1. lake' = lake
      BY <1>1, <1>2 DEF PrepareRoot, Ends
    <2> QED
      BY <1>1, <1>2, <2>1, EndKeepsBuilt DEF Frozen
  <1>3. CASE stage' \notin Ends
    <2>1. stage' = stage /\ lake' = Reset(Owned(NextRoot, allowlist))
      BY <1>3, Zenon DEF PrepareRoot, Fail, Ends
    <2>2. /\ k # 1
          /\ \A n : n \in Owned(NextRoot, allowlist) <=> Owns(k, n, Packages)
      BY <1>1, NextRootOwns
    <2>3. unbuilt \in 1 .. Len(RootOrder)
      BY <1>1, OrderOfRoots DEF TypeOK
    <2>4. \A n : ~ (BuiltWith(n, unbuilt) /\ Owns(k, n, Packages))
      BY <2>2, <2>3, BuiltNext
    <2> HIDE DEF k
    <2>5. /\ \A n \in PackageNames : lake[n] \in TrustedState <=> BuiltWith(n, unbuilt)
          /\ protected = {}
      BY <1>1 DEF BuildInv, RootsBuilt, NothingCompiled
    <2>6. \A n \in PackageNames :
            lake'[n] = IF n \in Owned(NextRoot, allowlist) THEN "fresh" ELSE lake[n]
      BY <2>1 DEF Reset
    <2>7. \A n \in PackageNames : n \in Owned(NextRoot, allowlist) => lake[n] \notin TrustedState
      BY <2>2, <2>4, <2>5
    <2>8. Frozen
      BY <2>6, <2>7 DEF Frozen
    <2>9. \A n \in PackageNames : lake'[n] \in TrustedState <=> lake[n] \in TrustedState
      BY <2>6, <2>7 DEF TrustedState
    <2>10. \A n : BuiltWith(n, unbuilt)' <=> BuiltWith(n, unbuilt)
      BY <1>0, <1>1 DEF BuiltWith
    <2>11. Owned(NextRoot, allowlist)' = Owned(NextRoot, allowlist)
      BY <1>1 DEF Owned, NextRoot
    <2>12. Owned(NextRoot, allowlist) \subseteq PackageNames
      BY DEF Owned, TypeOK
    <2>13. \A n \in Owned(NextRoot, allowlist)' : lake'[n] = "fresh"
      BY <2>6, <2>11, <2>12
    <2>14. \A n \in PackageNames' : lake'[n] \in TrustedState <=> BuiltWith(n, unbuilt)'
      BY <1>0, <2>5, <2>9, <2>10
    <2>15. protected' = {} /\ NextIsFresh'
      BY <1>1, <2>5, <2>13 DEF NextIsFresh
    <2> QED
      BY <1>1, <2>1, <2>8, <2>14, <2>15, AmongRoots
  <1> QED
    BY <1>2, <1>3

LEMMA BuildKeepsBuilt ==
  ASSUME TypeOK, AllowedInv, LinkInv, BuildInv, [Next]_vars, BuildRoot
  PROVE  BuildInv' /\ Frozen
  <1> DEFINE k == Len(RootOrder) - unbuilt + 1
  <1>0. /\ Packages' = Packages /\ PackageNames' = PackageNames
    BY SubmissionStays
  <1>1. /\ stage = "trusted-roots" /\ linked # {} /\ linked' = {}
        /\ UNCHANGED <<protected, allowlist>>
    BY DEF BuildRoot
  <1>2. unbuilt > 0 /\ NextRoot.repository # "mathlib4"
    BY <1>1 DEF LinkInv
  <1>3. CASE stage' \in Ends
    <2>1. lake' = lake
      BY <1>1, <1>3 DEF BuildRoot, Ends
    <2> QED
      BY <1>1, <1>3, <2>1, EndKeepsBuilt DEF Frozen
  <1>4. CASE stage' \notin Ends
    <2>1. /\ stage' = stage /\ unbuilt' = unbuilt - 1
          /\ lake' = [n \in PackageNames |->
                        IF n \in Owned(NextRoot, allowlist) THEN Rebuilt(lake[n], "built")
                        ELSE lake[n]]
      BY <1>4, Zenon DEF BuildRoot, Fail, Ends
    <2>2. /\ k # 1
          /\ \A n : n \in Owned(NextRoot, allowlist) <=> Owns(k, n, Packages)
      BY <1>1, <1>2, NextRootOwns
    <2>3. unbuilt \in 1 .. Len(RootOrder)
      BY <1>2, OrderOfRoots DEF TypeOK
    <2>4. \A n : /\ ~ (BuiltWith(n, unbuilt) /\ Owns(k, n, Packages))
                 /\ BuiltWith(n, unbuilt - 1) <=> BuiltWith(n, unbuilt) \/ Owns(k, n, Packages)
      BY <2>2, <2>3, BuiltNext
    <2> HIDE DEF k
    <2>5. /\ \A n \in PackageNames : lake[n] \in TrustedState <=> BuiltWith(n, unbuilt)
          /\ \A n \in Owned(NextRoot, allowlist) : lake[n] = "fresh"
          /\ protected = {}
      BY <1>1 DEF BuildInv, RootsBuilt, NextIsFresh, NothingCompiled
    <2>6. \A n \in PackageNames :
            lake'[n] = IF n \in Owned(NextRoot, allowlist) THEN "built" ELSE lake[n]
      BY <2>1, <2>5 DEF Rebuilt
    <2>7. Frozen
      BY <2>2, <2>4, <2>5, <2>6 DEF Frozen
    <2>8. \A n \in PackageNames : lake'[n] \in TrustedState <=> BuiltWith(n, unbuilt - 1)
      BY <2>2, <2>4, <2>5, <2>6 DEF TrustedState
    <2>9. \A n : BuiltWith(n, unbuilt)' <=> BuiltWith(n, unbuilt - 1)
      BY <1>0, <2>1 DEF BuiltWith
    <2>10. \A n \in PackageNames' : lake'[n] \in TrustedState <=> BuiltWith(n, unbuilt)'
      BY <1>0, <2>8, <2>9
    <2>11. protected' = {} /\ NextIsFresh'
      BY <1>1, <2>5 DEF NextIsFresh
    <2> QED
      BY <1>1, <2>1, <2>7, <2>10, <2>11, AmongRoots
  <1> QED
    BY <1>3, <1>4

\* With no root left, everything that is allowed has been built.
LEMMA AllIsBuilt ==
  ASSUME TypeOK, AllowedInv, BuildInv, unbuilt = 0, stage \in {"trusted-roots"} \cup Compiled
  PROVE  \A n \in PackageNames : lake[n] \in TrustedState <=> n \in DOMAIN allowlist
  <1>1. DOMAIN allowlist = Allowed(Packages)
    BY DEF AllowedInv, Compiled, Allowlist, OwnersAmong
  <1>2. \A i \in 1 .. Len(RootOrder) : i <= Len(RootOrder) - unbuilt
    BY OrderOfRoots
  <1>3. \A n : BuiltWith(n, unbuilt) <=> n \in Allowed(Packages)
    BY <1>2, AllowedHasOwner, OwnerIsRecorded DEF BuiltWith
  <1> QED
    BY <1>1, <1>3 DEF BuildInv, RootsBuilt

\* The statement is compiled, audited and exported over what was built.
LEMMA StatementKeepsBuilt ==
  ASSUME TypeOK, AllowedInv, BuildInv, [Next]_vars, CompileChallenge \/ Audit \/ CandidateBuilds
  PROVE  BuildInv' /\ Frozen
  <1>0. /\ Packages' = Packages /\ PackageNames' = PackageNames
    BY SubmissionStays
  <1>1. /\ stage \in {"trusted-roots"} \cup Compiled /\ unbuilt = 0
        /\ UNCHANGED <<allowlist, unbuilt>>
    BY DEF CompileChallenge, Audit, CandidateBuilds, Compiled, BuildInv, AllBuilt
  <1>2. \A n \in PackageNames : lake[n] \in TrustedState <=> n \in DOMAIN allowlist
    BY <1>1, AllIsBuilt
  <1>3. \A n \in PackageNames : n \in DOMAIN allowlist => lake'[n] = lake[n]
    BY DEF CompileChallenge, Audit, CandidateBuilds, CandidateWritable
  <1>4. \A n \in PackageNames : n \notin DOMAIN allowlist => lake'[n] \notin TrustedState
    BY <1>2 DEF CompileChallenge, Audit, CandidateBuilds, CandidateWritable, TrustedState
  <1>5. Frozen
    BY <1>2, <1>3 DEF Frozen
  <1>6. \A n \in PackageNames : lake'[n] \in TrustedState <=> lake[n] \in TrustedState
    BY <1>2, <1>3, <1>4
  <1>7. \A n \in PackageNames : lake[n] \in TrustedState <=> BuiltWith(n, unbuilt)
    BY <1>1 DEF BuildInv, RootsBuilt
  <1>8. \A n : BuiltWith(n, unbuilt)' <=> BuiltWith(n, unbuilt)
    BY <1>0, <1>1 DEF BuiltWith
  <1>9. RootsBuilt'
    BY <1>0, <1>6, <1>7, <1>8 DEF RootsBuilt, TrustedState
  <1>10. CompiledFromTrustedState'
    BY <1>1, <1>2, <1>3 DEF TypeOK, TrustedState, CompiledFromTrustedState
  <1>11. stage' \in Compiled \cup Ends
    BY DEF CompileChallenge, Audit, CandidateBuilds, Fail, Compiled, Ends
  <1> QED
    <2>1. /\ stage' \notin Unbuilt \cup {"trusted-roots"}
          /\ stage' \notin {"fetched", "promoting", "promoted"}
      BY <1>11 DEF Unbuilt, Unpromoted, Compiled, Ends
    <2>2. NothingBuilt' /\ NothingCompiled' /\ ClosureStaged' /\ NextIsFresh' /\ AllBuilt'
      BY <1>1, <2>1 DEF NothingBuilt, NothingCompiled, ClosureStaged, NextIsFresh, AllBuilt
    <2> QED
      BY <1>5, <1>9, <1>10, <2>2 DEF BuildInv

LEMMA NextKeepsBuilt ==
  ASSUME TypeOK, AllowedInv, LinkInv, BuildInv, [Next]_vars
  PROVE  BuildInv' /\ Frozen
  <1>1. CASE Gone
    BY <1>1, EndKeepsBuilt DEF Gone, Frozen, Ends
  <1>2. CASE UNCHANGED vars
    <2>1. Packages' = Packages /\ PackageNames' = PackageNames /\ MathlibClosure' = MathlibClosure
      BY SubmissionStays
    <2> QED
      BY <1>2, <2>1 DEF vars, BuildInv, NothingBuilt, NothingCompiled, ClosureStaged, RootsBuilt,
         AllBuilt, NextIsFresh, CompiledFromTrustedState, Frozen,
         BuiltWith, TrustedState, Owned, NextRoot
  <1> QED
    BY <1>1, <1>2, EarlyKeepsBuilt, PromotionKeepsBuilt, MathlibIsBuilt, SkipKeepsBuilt,
       PrepareKeepsBuilt, BuildKeepsBuilt, StatementKeepsBuilt DEF Next

DependenciesInv == TypeOK /\ AllowedInv /\ LinkInv /\ BuildInv

LEMMA InitDependencies == Init => DependenciesInv
  <1> SUFFICES ASSUME Init PROVE AllowedInv /\ BuildInv
    BY InitTypes DEF DependenciesInv
  <1>1. stage = "candidate-setup" /\ protected = {} /\ lake = [n \in PackageNames |-> "absent"]
    BY DEF Init
  <1>2. \A n \in PackageNames : lake[n] \notin TrustedState
    BY <1>1 DEF TrustedState
  <1>3. AllowedInv
    BY <1>1 DEF AllowedInv
  <1>4. NothingBuilt /\ NothingCompiled /\ CompiledFromTrustedState
    BY <1>1, <1>2 DEF NothingBuilt, NothingCompiled, CompiledFromTrustedState
  <1>5. ClosureStaged /\ RootsBuilt /\ AllBuilt /\ NextIsFresh
    BY <1>1 DEF ClosureStaged, RootsBuilt, AllBuilt, NextIsFresh, Compiled
  <1> QED
    BY <1>3, <1>4, <1>5 DEF BuildInv

LEMMA DependenciesStep == DependenciesInv /\ [Next]_vars => DependenciesInv' /\ Frozen
  BY NextKeepsTypes, NextKeepsAllowed, NextKeepsLinks, NextKeepsBuilt DEF DependenciesInv

LEMMA DependenciesInvariant == Spec => []DependenciesInv
  BY InitDependencies, DependenciesStep, PTL DEF Spec

\* mathlib_cache_availability, and get_mathlib_cache around it: whatever the client
\* prints, and whatever it leaves behind, the report claims an available cache only
\* at the end of a replay of a closure that was validated whole; and the warning, a
\* count of zero or silence is enough for it not to claim more than the client had.
THEOREM AvailableCacheIsWhole == Spec => AvailabilityIsHonest
  <1> DEFINE Claim == cache' = "available" /\ cache # "available"
             Honest == Claim =>
                         /\ ~ changed
                         /\ \A n \in MathlibClosure : staged[n] # "escapes" /\ lake'[n] = "replayed"
                         /\ OwnsUp => \A n \in MathlibClosure : staged[n] = "fetched"
  <1>1. ASSUME PromotionInv, DependenciesInv, [Next]_vars, Claim
        PROVE  Honest
    <2>1. Replay /\ cache' = Availability(said)
      <3>1. Replay
        BY <1>1 DEF Next, vars, Materialize, Elaborate, CheckProvenance, NoCacheNeeded,
           FetchCache, Validate, Promote, SkipRoot, PrepareRoot, BuildRoot, CompileChallenge,
           Audit, CandidateBuilds, Gone
      <3> QED
        BY <1>1, <3>1 DEF Replay
    <2>2. /\ stage = "promoted"
          /\ lake' = [n \in PackageNames |-> IF n \in MathlibClosure
                                             THEN Rebuilt(lake[n], "replayed") ELSE lake[n]]
      BY <1>1, <2>1 DEF Replay
    <2>3. InOrder
      BY <1>1, <2>2 DEF PromotionInv
    <2>4. /\ MathlibClosure \subseteq PackageNames
          /\ \A n \in MathlibClosure : lake[n] = "cache"
      BY <1>1, <2>2 DEF DependenciesInv, BuildInv, ClosureStaged
    <2>5. \A n \in MathlibClosure : lake'[n] = "replayed"
      BY <2>2, <2>4 DEF Rebuilt
    <2>6. ~ said.warned /\ (1 \in said.counts \/ said.idle)
      BY <1>1, <2>1, Zenon DEF Availability
    <2>7. OwnsUp => \A n \in MathlibClosure : staged[n] # "missing"
      BY <2>6, Zenon DEF OwnsUp
    <2> QED
      BY <2>3, <2>5, <2>7 DEF InOrder
  <1>2. PromotionInv /\ DependenciesInv /\ [Next]_vars => [Honest]_vars
    BY <1>1
  <1>3. Init => PromotionInv
    BY DEF Init, PromotionInv, Cached
  <1> QED
    BY <1>2, <1>3, NextKeepsPromotion, DependenciesInvariant, PTL DEF Spec, AvailabilityIsHonest

\* get_mathlib_cache and build_allowlisted_roots: whatever the candidate wrote before
\* and whatever the networked client left, a statement is compiled when every package
\* it may read was built anew by its owner, and that state is there ever after.
THEOREM StatementsCompileFromTrustedState == Spec => []CompiledFromTrustedState
  <1>1. DependenciesInv => CompiledFromTrustedState
    BY DEF DependenciesInv, BuildInv
  <1> QED
    BY <1>1, DependenciesInvariant, PTL

\* No root's build, no failure and no code of the candidate touches the state that a
\* trusted build has made: roots own disjoint names, and trusted names are frozen.
THEOREM TrustedStateStays == Spec => TrustedStateIsFrozen
  <1>1. DependenciesInv /\ [Next]_vars
          => [\A n \in PackageNames : lake[n] \in TrustedState => lake'[n] = lake[n]]_vars
    BY DependenciesStep DEF Frozen
  <1> QED
    BY <1>1, DependenciesInvariant, PTL DEF Spec, TrustedStateIsFrozen

\* build_allowlisted_roots: the order of trust is an order of building, too.  When a
\* root has been built, all that its manifest brings in is in trusted state.
THEOREM BuildsReadTrusted == Spec => BuildsReadTrustedState
  <1> DEFINE Reads == \A n \in linked : n \notin linked' /\ unbuilt' < unbuilt =>
                        \A p \in Named(Packages, n), m \in PackageNames :
                           m \in Closure(p) => lake'[m] \in TrustedState
  <1>1. ASSUME DependenciesInv, [Next]_vars, NEW n \in linked, n \notin linked',
               unbuilt' < unbuilt, NEW p \in Named(Packages, n), NEW m \in PackageNames,
               m \in Closure(p)
        PROVE  lake'[m] \in TrustedState
    <2>1. BuildRoot
      BY <1>1 DEF Next, vars, Materialize, Elaborate, CheckProvenance, NoCacheNeeded, FetchCache,
         Validate, Promote, Replay, SkipRoot, PrepareRoot, CompileChallenge, Audit,
         CandidateBuilds, Gone
    <2>2. stage = "trusted-roots" /\ linked # {} /\ unbuilt > 0
      BY <1>1, <2>1 DEF BuildRoot, DependenciesInv, LinkInv
    <2>3. PICK q \in Matching(NextRoot, Packages) : linked = {q.name}
      BY <1>1, <2>2 DEF DependenciesInv, LinkInv
    <2>4. p = q
      BY <1>1, <2>2, <2>3 DEF DependenciesInv, AllowedInv, WellFormed, Named, Matching
    <2> DEFINE k == Len(RootOrder) - unbuilt + 1
    <2>5. k \in 1 .. Len(RootOrder) /\ NextRoot = RootOrder[k] /\ RootOrder[k] \in Trusted
      BY <1>1, <2>2, NextRootOwns, OrderOfRoots DEF DependenciesInv
    <2>6. m \in ClosureOf(RootOrder[k], Packages)
      BY <1>1, <2>3, <2>4, <2>5 DEF ClosureOf
    <2>7. m \in Allowed(Packages)
      BY <2>5, <2>6 DEF Allowed
    <2>8. PICK i \in 1 .. Len(RootOrder) : Owns(i, m, Packages)
      BY <2>7, AllowedHasOwner
    <2>9. Len(RootOrder) \in Nat /\ unbuilt \in 0 .. Len(RootOrder)
      BY <1>1, OrderOfRoots DEF DependenciesInv, TypeOK
    <2>10. i <= k
      <3>1. ASSUME k < i PROVE FALSE
        <4>1. k \in 1 .. (i - 1)
          BY <2>5, <2>9, <3>1
        <4> QED
          BY <2>6, <2>8, <4>1 DEF Owns
      <3> QED
        BY <2>9, <3>1
    <2>11. BuiltWith(m, unbuilt - 1)
      BY <2>8, <2>9, <2>10 DEF BuiltWith
    <2>12. unbuilt' = unbuilt - 1 /\ stage' = "trusted-roots"
      BY <1>1, <2>1, <2>2, <2>9 DEF BuildRoot
    <2>13. BuildInv' /\ Packages' = Packages /\ PackageNames' = PackageNames
      BY <1>1, DependenciesStep, SubmissionStays DEF DependenciesInv
    <2>14. BuiltWith(m, unbuilt)'
      BY <2>11, <2>12, <2>13 DEF BuiltWith
    <2> QED
      BY <2>12, <2>13, <2>14 DEF BuildInv, RootsBuilt, TrustedState
  <1>2. DependenciesInv /\ [Next]_vars => [Reads]_vars
    BY <1>1
  <1> QED
    BY <1>2, DependenciesInvariant, PTL DEF Spec, BuildsReadTrustedState

-----------------------------------------------------------------------------
(* The level of trust                                                      *)

\* What Lean finds modules of is in the allowlist.
ImportsInv == stage \in Compiled => submission.challenge.imports \subseteq DOMAIN allowlist

\* An audit that finds nothing untrusted has seen the packages the statement reaches
\* and the toolchain, and nothing of the project by one of their names.
LEMMA AuditedPackages ==
  ASSUME submission \in Projects, DOMAIN allowlist \subseteq PackageNames,
         submission.challenge.imports \subseteq DOMAIN allowlist,
         Untrusted(SourcesOf(submission.challenge), allowlist) = {}
  PROVE  /\ StatementPackages \subseteq DOMAIN allowlist
         /\ Credited(SourcesOf(submission.challenge), allowlist)
              = {allowlist[n] : n \in StatementPackages}
  <1> DEFINE sources == SourcesOf(submission.challenge)
             Place(n) == IF n \in submission.challenge.twins THEN "project" ELSE n
             Source(n) == [place |-> Place(n), tracked |-> TRUE]
             tool == [place |-> "toolchain", tracked |-> TRUE]
  <1>1. sources = {Source(n) : n \in StatementPackages} \cup {tool}
    BY DEF SourcesOf, StatementPackages
  <1>2. AllNames(Packages) \cap {"project", "toolchain"} = {}
    BY PlacesAssumption DEF Packages
  <1>3. StatementPackages \subseteq AllNames(Packages)
    <2> SUFFICES ASSUME NEW m \in submission.challenge.imports, NEW n \in Reached(m)
                 PROVE  n \in AllNames(Packages)
      BY DEF StatementPackages
    <2>1. CASE n = m
      BY <2>1 DEF AllNames, PackageNames
    <2>2. CASE \E p \in {q \in Named(Packages, m) : q.repo # "path"} : n \in Closure(p)
      BY <2>2 DEF AllNames, Named
    <2> QED
      BY <2>1, <2>2 DEF Reached
  <1>4. DOMAIN allowlist \subseteq AllNames(Packages)
    BY DEF AllNames, PackageNames
  <1>5. \A n : Source(n).place = Place(n)
    OBVIOUS
  <1>6. tool.place = "toolchain"
    OBVIOUS
  <1>7. \A s \in sources : s.place = "toolchain" \/ s.place \in DOMAIN allowlist
    BY DEF Untrusted, AuditTrusts
  <1> HIDE DEF Source, tool, sources
  <1>8. ASSUME NEW n \in StatementPackages
        PROVE  Source(n).place = n /\ n # "toolchain" /\ n \in DOMAIN allowlist
    <2>1. Place(n) = "toolchain" \/ Place(n) \in DOMAIN allowlist
      BY <1>1, <1>5, <1>7
    <2>2. n \notin {"project", "toolchain"} /\ "project" \notin DOMAIN allowlist
      BY <1>2, <1>3, <1>4
    <2> QED
      BY <1>5, <2>1, <2>2
  <1>9. {t \in sources : t.place # "toolchain" /\ AuditTrusts(t, allowlist)}
           = {Source(n) : n \in StatementPackages}
    <2>1. \A t \in sources : AuditTrusts(t, allowlist)
      BY DEF Untrusted, sources
    <2> QED
      BY <1>1, <1>6, <1>8, <2>1
  <1>10. {allowlist[t.place] : t \in {Source(n) : n \in StatementPackages}}
           = {allowlist[n] : n \in StatementPackages}
    BY <1>8
  <1>11. Credited(sources, allowlist) = {allowlist[n] : n \in StatementPackages}
    BY <1>9, <1>10 DEF Credited
  <1> QED
    BY <1>8, <1>11 DEF sources

\* High-trust roots come first, so the owner of a name is of high trust if any root
\* that vouches for the name is.
LEMMA OwnerHasHighestTrust ==
  ASSUME NEW packages, NEW n \in Allowed(packages)
  PROVE  /\ Allowlist(packages)[n].level \in {"high", "qualified"}
         /\ Allowlist(packages)[n].level = "high"
              <=> \E r \in Trusted : r.level = "high" /\ n \in ClosureOf(r, packages)
  <1>1. PICK i \in 1 .. Len(RootOrder) : Owns(i, n, packages)
    BY AllowedHasOwner
  <1>2. /\ RootOrder[i] \in Trusted
        /\ Allowlist(packages)[n] =
             [owner |-> RootOrder[i].repository, level |-> RootOrder[i].level]
    BY <1>1, OwnerIsRecorded
  <1>3. Allowlist(packages)[n].level = RootOrder[i].level
    BY <1>2
  <1>4. RootOrder[i].level \in {"high", "qualified"}
    BY <1>2, RootsAssumption
  <1>5. ASSUME NEW r \in Trusted, r.level = "high", n \in ClosureOf(r, packages)
        PROVE  RootOrder[i].level = "high"
    <2>1. PICK j \in 1 .. Len(RootOrder) : RootOrder[j] = r
      BY OrderOfRoots
    <2>2. Len(RootOrder) \in Nat
      BY OrderOfRoots
    <2>3. ~ (j < i)
      <3>1. ASSUME j < i PROVE FALSE
        <4>1. j \in 1 .. (i - 1)
          BY <2>2, <3>1
        <4> QED
          BY <1>1, <1>5, <2>1, <4>1 DEF Owns
      <3> QED
        BY <3>1
    <2>4. i = j \/ i < j
      BY <2>2, <2>3
    <2> QED
      BY <1>5, <2>1, <2>4, OrderOfRoots
  <1>6. n \in ClosureOf(RootOrder[i], packages)
    BY <1>1 DEF Owns
  <1> QED
    BY <1>2, <1>3, <1>4, <1>5, <1>6

LEMMA NextKeepsImports ==
  ASSUME ImportsInv, [Next]_vars
  PROVE  ImportsInv'
  <1>0. submission' = submission
    BY SubmissionStays
  <1>1. CASE CompileChallenge
    BY <1>0, <1>1 DEF CompileChallenge, Fail, ImportsInv, Compiled
  <1>2. CASE ~ CompileChallenge
    <2>1. stage' \in Compiled => stage \in Compiled /\ UNCHANGED allowlist
      BY <1>2 DEF Next, vars, Materialize, Elaborate, CheckProvenance, NoCacheNeeded, FetchCache,
         Validate, Promote, Replay, SkipRoot, PrepareRoot, BuildRoot, Audit, CandidateBuilds,
         Gone, Fail, Compiled
    <2> QED
      BY <1>0, <2>1 DEF ImportsInv
  <1> QED
    BY <1>1, <1>2

LEMMA AuditIsHonest ==
  ASSUME TypeOK, AllowedInv, ImportsInv, submission \in Projects, Audit, [Next]_vars
  PROVE  TrustLevelIsHonest'
  <1>0. submission' = submission /\ Packages' = Packages /\ StatementPackages' = StatementPackages
    <2>1. submission' = submission /\ Packages' = Packages
      BY SubmissionStays
    <2> QED
      BY <2>1 DEF StatementPackages, Reached
  <1> DEFINE sources == SourcesOf(submission.challenge)
  <1>1. /\ stage = "challenge-provenance"
        /\ audited' = TrustLevel(sources, allowlist)
        /\ stage' = IF Untrusted(sources, allowlist) = {} THEN "candidate-build" ELSE "failed"
    BY DEF Audit
  <1> HIDE DEF sources
  <1>2. CASE Untrusted(sources, allowlist) = {}
    <2>1. allowlist = Allowlist(Packages) /\ DOMAIN allowlist = Allowed(Packages)
      BY <1>1 DEF AllowedInv, Allowlist, OwnersAmong
    <2>2. /\ StatementPackages \subseteq Allowed(Packages)
          /\ Credited(sources, allowlist) = {allowlist[n] : n \in StatementPackages}
      BY <1>1, <1>2, <2>1, AuditedPackages DEF sources, TypeOK, ImportsInv, Compiled
    <2>3. \A n \in StatementPackages :
            /\ allowlist[n].level \in {"high", "qualified"}
            /\ allowlist[n].level = "high"
                 <=> \E r \in Trusted : r.level = "high" /\ n \in ClosureOf(r, Packages)
      BY <2>1, <2>2, OwnerHasHighestTrust
    <2>4. audited' = "high" <=> \A n \in StatementPackages : allowlist[n].level # "qualified"
      BY <1>1, <2>2 DEF TrustLevel
    <2>5. audited' = "high" <=>
            \A n \in StatementPackages :
               \E r \in Trusted : r.level = "high" /\ n \in ClosureOf(r, Packages)
      BY <2>3, <2>4
    <2> QED
      BY <1>0, <2>5 DEF TrustLevelIsHonest
  <1>3. CASE Untrusted(sources, allowlist) # {}
    BY <1>1, <1>3 DEF TrustLevelIsHonest
  <1> QED
    BY <1>2, <1>3

\* audit_challenge_sources and the report's challenge_trust_level: the statement is said
\* to be of high trust if and only if a high-trust root vouches for all it reaches, in
\* whatever order the configuration has its roots and however their closures overlap.
THEOREM StatedTrustIsHonest == Spec => []TrustLevelIsHonest
  <1> DEFINE Inv == ImportsInv /\ submission \in Projects /\ TrustLevelIsHonest
  <1>1. Init => Inv
    BY DEF Init, ImportsInv, Compiled, TrustLevelIsHonest
  <1>2. DependenciesInv /\ Inv /\ [Next]_vars => Inv'
    <2> SUFFICES ASSUME DependenciesInv, Inv, [Next]_vars
                 PROVE  Inv'
      OBVIOUS
    <2>1. ImportsInv' /\ submission' \in Projects
      BY NextKeepsImports, SubmissionStays
    <2>2. CASE Audit
      BY <2>1, <2>2, AuditIsHonest DEF DependenciesInv
    <2>3. CASE ~ Audit
      <3>1. /\ stage' \in {"candidate-build", "exported"} =>
                 stage \in {"candidate-build", "exported"}
            /\ audited' = audited
        BY <2>3 DEF Next, vars, Materialize, Elaborate, CheckProvenance, NoCacheNeeded, FetchCache,
           Validate, Promote, Replay, SkipRoot, PrepareRoot, BuildRoot, CompileChallenge,
           CandidateBuilds, Gone, Fail
      <3>2. submission' = submission /\ Packages' = Packages
        BY SubmissionStays
      <3>3. StatementPackages' = StatementPackages
        BY <3>2 DEF StatementPackages, Reached
      <3> QED
        BY <2>1, <3>1, <3>2, <3>3 DEF TrustLevelIsHonest
    <2> QED
      BY <2>2, <2>3
  <1>3. Inv => TrustLevelIsHonest
    OBVIOUS
  <1> HIDE DEF Inv
  <1> QED
    BY <1>1, <1>2, <1>3, DependenciesInvariant, PTL DEF Spec
=============================================================================
