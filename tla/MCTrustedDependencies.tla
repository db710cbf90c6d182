----------------------- MODULE MCTrustedDependencies -----------------------
(***************************************************************************)
(* A small GitHub for the model checker.  The allowlist has the three      *)
(* roots of allowed-challenge-repositories.json, Mathlib last, so that     *)
(* their trust and not their place decides.  Two qualified roots pin       *)
(* Mathlib and share a package that Mathlib does not know; one has moved.  *)
(***************************************************************************)
EXTENDS TrustedDependencies

RootsForMC ==
    <<[repository |-> "cslib", aliases |-> {}, level |-> "qualified", accepted |-> {},
       tags |-> FALSE],
      [repository |-> "TauCeti", aliases |-> {"FormalFrontier"}, level |-> "qualified",
       accepted |-> {"legacy"}, tags |-> FALSE],
      [repository |-> "mathlib4", aliases |-> {}, level |-> "high", accepted |-> {},
       tags |-> TRUE]>>

Pkg(name, repo, rev) == [name |-> name, repo |-> repo, rev |-> rev]

Repositories == {"mathlib4", "TauCeti", "FormalFrontier", "cslib", "batteries", "shared",
                 "fork", "path"}
Revisions == {"main", "tagged", "legacy", "side", "tree", "moving"}

HistoryForMC ==
    [at \in Repositories \X Revisions |->
       CASE at[2] = "main"   -> "ancestor"
         [] at[2] = "tagged" -> "release"
         [] OTHER            -> "neither"]

PinsForMC ==
    [at \in Repositories \X Revisions |->
       CASE at[1] = "mathlib4" -> {Pkg("batteries", "batteries", "main")}
         [] at[1] \in {"TauCeti", "cslib"} ->
              {Pkg("mathlib", "mathlib4", "main"), Pkg("batteries", "batteries", "main"),
               Pkg("shared", "shared", "main")}
         [] OTHER -> {}]

\* Each package as its roots pin it, elsewhere, or not at all.
Choices ==
    {m \cup b \cup t \cup s \cup c \cup u :
       m \in {{}, {Pkg("mathlib", "mathlib4", "main")}, {Pkg("mathlib", "mathlib4", "tagged")},
              {Pkg("mathlib", "mathlib4", "side")}, {Pkg("mathlib", "fork", "main")}},
       b \in {{}, {Pkg("batteries", "batteries", "main")},
              {Pkg("batteries", "batteries", "side")}},
       t \in {{}, {Pkg("tau", "FormalFrontier", "legacy")},
              {Pkg("tau", "TauCeti", "tagged")}},
       s \in {{}, {Pkg("shared", "shared", "main")}, {Pkg("shared", "path", "tree")}},
       c \in {{}, {Pkg("cslib", "cslib", "main")}},
       u \in {{}, {Pkg("other", "fork", "main")}}}

Challenge(imports, twins, top) == [imports |-> imports, twins |-> twins, top |-> top]

Committed(packages) == [committed |-> TRUE, packages |-> packages, requirements |-> {}]

Submission(project, challenge) ==
    [project |-> project, challenge |-> challenge, toolchain |-> "v4.30",
     tops |-> [n \in {"mathlib", "batteries", "tau", "shared", "cslib", "other", "main",
                   "twin", "side"} |->
                 {n}],
     prebuilt |-> {"batteries"},
     selects |-> [r \in Revisions |-> "v4.30"]]

Plain(packages) ==
    {Submission(Committed(packages), Challenge(imports, {}, "Challenge")) :
       imports \in {{}} \cup {{n} : n \in Names(packages)}}

Full == {Pkg("mathlib", "mathlib4", "main"), Pkg("batteries", "batteries", "main"),
         Pkg("tau", "FormalFrontier", "legacy"), Pkg("shared", "shared", "main"),
         Pkg("cslib", "cslib", "main"), Pkg("other", "fork", "main")}

\* One requirement of a project that has no manifest of its own.
Requirement(name, kind, committed, manifest, directory) ==
    [name |-> name, kind |-> kind, committed |-> committed, manifest |-> manifest,
     directory |-> directory]

Uncommitted ==
    {[committed |-> FALSE, packages |-> {}, requirements |-> rs] :
       rs \in {{Requirement("main", "path", TRUE, Full, "main")},
               {Requirement("main", "path", FALSE, Full, "main")},
               {Requirement("main", "git", TRUE, Full, "main")},
               {Requirement("main", "path", TRUE, {Pkg("batteries", "path", "tree")}, "main")},
               {Requirement("main", "path", TRUE, Full, "main"),
                Requirement("side", "path", TRUE, Full, "main")}}}

Good == Submission(Committed(Full), Challenge({"tau"}, {}, "Challenge"))

Odd ==
    {Submission(Committed(Full \cup {Pkg("twin", "TauCeti", "main")}), Good.challenge),
     Submission(Committed(Full \cup {Pkg("tau", "TauCeti", "main")}), Good.challenge),
     Submission(Committed((Full \ {Pkg("other", "fork", "main")})
                          \cup {Pkg("other", "fork", "moving")}), Good.challenge),
     Submission(Committed(Full), Challenge({"mathlib"}, {"batteries"}, "Challenge")),
     Submission(Committed(Full), Challenge({"mathlib"}, {}, "other")),
     [Good EXCEPT !.prebuilt = {"other"}],
     [Good EXCEPT !.selects["main"] = "v4.31"]}

ProjectsForMC ==
    (UNION {Plain(packages) : packages \in Choices})
    \cup {Submission(p, Challenge({"mathlib"}, {}, "Challenge")) : p \in Uncommitted}
    \cup Odd
=============================================================================
