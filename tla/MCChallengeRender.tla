------------------------- MODULE MCChallengeRender -------------------------
(***************************************************************************)
(* Verified submissions for the model checker: over one canonical library, *)
(* over Mathlib, or over neither, with and without packages of the proof's *)
(* own that are not Verso's, and on releases that Verso has, has only the  *)
(* patch zero of, or has not.                                              *)
(***************************************************************************)
EXTENDS ChallengeRender

RootsForMC ==
    <<[repository |-> "mathlib4", aliases |-> {}, level |-> "high", accepted |-> {},
       tags |-> TRUE],
      [repository |-> "TauCeti", aliases |-> {"FormalFrontier"}, level |-> "qualified",
       accepted |-> {}, tags |-> FALSE]>>

Pkg(name, repo, rev) == [name |-> name, repo |-> repo, rev |-> rev]

Repositories == {"mathlib4", "TauCeti", "FormalFrontier", "plausible", "proofwidgets",
                 "md4lean", "path"}
Revisions == {"main", "late", "side", "tree"}

HistoryForMC ==
    [at \in Repositories \X Revisions |->
       IF at[2] = "main" THEN "ancestor" ELSE "neither"]

MathlibPins == {Pkg("plausible", "plausible", "main"),
                Pkg("proofwidgets", "proofwidgets", "main")}

PinsForMC ==
    [at \in Repositories \X Revisions |->
       CASE at[1] = "mathlib4" -> MathlibPins
         [] at[1] = "TauCeti"  -> MathlibPins \cup {Pkg("mathlib", "mathlib4", "main")}
         [] OTHER -> {}]

Release(line, patch, rc) == [line |-> line, patch |-> patch, rc |-> rc]

TagsForMC == {Release(30, 0, FALSE), Release(31, 0, TRUE), Release(32, 0, FALSE)}

\* One release candidate has no plausible of its own kind, and one tag is of a
\* commit on another toolchain than its name says.
VersoForMC ==
    [tag \in TagsForMC |->
       [toolchain |-> IF tag.line = 32 THEN Release(31, 0, TRUE) ELSE tag,
        packages |-> {Pkg("md4lean", "md4lean", "main"),
                      Pkg("plausible", "plausible", IF tag.rc THEN "side" ELSE "late")}]]

Mathlib == {Pkg("mathlib", "mathlib4", "main")}
Tau == {Pkg("tau", "FormalFrontier", "main")}

Manifests ==
    {base \cup own :
       base \in {{}, Mathlib \cup MathlibPins, Tau \cup Mathlib \cup MathlibPins},
       own \in {{}, {Pkg("md4lean", "md4lean", "side")}, {Pkg("md4lean", "path", "tree")},
                {Pkg("verso", "md4lean", "main")}}}
    \cup {{Pkg("plausible", "plausible", "side")},
          {Pkg("proofwidgets", "proofwidgets", "side")}}

Candidates ==
    [project : {[committed |-> TRUE, packages |-> m, requirements |-> {}] : m \in Manifests},
     imports : {{}, {"mathlib"}, {"tau"}},
     toolchain : {Release(30, 0, FALSE), Release(30, 2, FALSE), Release(31, 0, TRUE),
                  Release(31, 1, FALSE), Release(32, 0, FALSE)},
     layout : {"legacy"}, bound : {TRUE}, shadowed : {FALSE}, anchored : {TRUE}]

Verified == {r \in Candidates : Accepted(r.project, r.imports)}

\* One is varied in what the verification does not see.
Example == CHOOSE r \in Verified : r.imports = {"tau"} /\ r.toolchain.patch = 2

RequestsForMC ==
    Verified
    \cup {[Example EXCEPT !.bound = FALSE], [Example EXCEPT !.shadowed = TRUE],
          [Example EXCEPT !.anchored = FALSE], [Example EXCEPT !.layout = "modern"]}
=============================================================================
