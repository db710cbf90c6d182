------------------------ MODULE CgroupDelegateProofs ------------------------
(***************************************************************************)
(* Theorems about CgroupDelegate for every number of helpers: the types,   *)
(* the exclusion that one directory's lock gives, and what a sweep leaves. *)
(***************************************************************************)
EXTENDS CgroupDelegate, TLAPS

-----------------------------------------------------------------------------
(* Type correctness                                                        *)

\* TypeOK, and that every helper has a program counter.
TypeInv ==
    /\ TypeOK
    /\ pc \in [Helpers -> DelegatePCs \cup TeardownPCs]

LEMMA TypeInit == Init => TypeInv
  <1> SUFFICES ASSUME Init PROVE TypeInv
    OBVIOUS
  <1>1. pc \in [Helpers -> DelegatePCs \cup TeardownPCs]
    BY DEF Init, DelegatePCs, TeardownPCs
  <1>2. \A d \in Delegates : pc[d] \in DelegatePCs
    BY DEF Init, Helpers, DelegatePCs
  <1>3. \A t \in Teardowns : pc[t] \in TeardownPCs
    BY HelpersAssumption DEF HelpersAssumption, Init, Helpers, TeardownPCs
  <1>4. holds \in [Delegates -> Shapes] /\ lock \in [Subtrees -> Helpers \cup {Nobody}]
    BY DEF Init, Shapes
  <1>5. strays \in BOOLEAN /\ rootEnabled \in BOOLEAN
    BY Zenon DEF Init
  <1>6. created \in 0 .. MaxSubtrees /\ subtree \in {Absent, created}
    BY SubtreesAssumption DEF Init, SubtreesAssumption
  <1>7. /\ live \subseteq runs /\ runs \subseteq Delegates /\ lost \subseteq Delegates
        /\ fd \in [Helpers -> {Absent} \cup Subtrees]
        /\ todo \in [Helpers -> SUBSET Delegates]
        /\ aim \in [Helpers -> SUBSET Delegates]
        /\ stale \in [Helpers -> SUBSET Delegates]
    BY DEF Init
  <1> QED
    BY <1>1, <1>2, <1>3, <1>4, <1>5, <1>6, <1>7, Zenon DEF TypeInv, TypeOK

\* A step of one helper keeps the program counters, if it goes where it may.
LEMMA GotoType ==
  ASSUME TypeInv, NEW h \in Helpers, NEW label, Goto(h, label),
         h \in Delegates => label \in DelegatePCs,
         h \in Teardowns => label \in TeardownPCs
  PROVE  /\ pc' \in [Helpers -> DelegatePCs \cup TeardownPCs]
         /\ \A d \in Delegates : pc'[d] \in DelegatePCs
         /\ \A t \in Teardowns : pc'[t] \in TeardownPCs
         /\ pc'[h] = label
         /\ \A g \in Helpers \ {h} : pc'[g] = pc[g]
  BY DEF TypeInv, TypeOK, Goto, Helpers

\* What a step leaves alone, and what it writes to the helper's own entries.
LEMMA UnlockedType ==
  ASSUME TypeInv, NEW h \in Helpers
  PROVE  Unlocked(h) \in [Subtrees -> Helpers \cup {Nobody}]
  BY DEF TypeInv, TypeOK, Unlocked

LEMMA TypeStep == TypeInv /\ [Next]_vars => TypeInv'
  <1> SUFFICES ASSUME TypeInv, [Next]_vars PROVE TypeInv'
    OBVIOUS
  <1> USE DEF TypeInv, TypeOK, fsvars
  <1>1. ASSUME NEW d \in Delegates, PrepareRoot(d) PROVE TypeInv'
    BY <1>1, GotoType DEF PrepareRoot, Helpers, DelegatePCs, TeardownPCs, Goto
  <1>2. ASSUME NEW d \in Delegates, MakeSubtree(d) PROVE TypeInv'
    BY <1>2, GotoType, SubtreesAssumption
    DEF MakeSubtree, Helpers, DelegatePCs, TeardownPCs, Absent, SubtreesAssumption
  <1>3. ASSUME NEW d \in Delegates, EnableSubtree(d) PROVE TypeInv'
    BY <1>3, GotoType DEF EnableSubtree, Helpers, DelegatePCs, TeardownPCs
  <1>4. ASSUME NEW d \in Delegates, MakeRun(d) PROVE TypeInv'
    BY <1>4, GotoType, UnlockedType DEF MakeRun, Helpers, DelegatePCs, TeardownPCs, Shapes
  <1>5. ASSUME NEW d \in Delegates, Place(d) PROVE TypeInv'
    <2>1. CASE d \in runs
      BY <1>5, <2>1, GotoType, UnlockedType DEF Place, Helpers, DelegatePCs, TeardownPCs
    <2>2. CASE d \notin runs
      BY <1>5, <2>2, GotoType, UnlockedType DEF Place, Helpers, DelegatePCs, TeardownPCs
    <2> QED
      BY <2>1, <2>2
  <1>6. ASSUME NEW d \in Delegates, RunEnds(d) PROVE TypeInv'
    BY <1>6, GotoType, LeftoversAssumption
    DEF RunEnds, Helpers, DelegatePCs, TeardownPCs, Shapes, LeftoversAssumption
  <1>7. ASSUME NEW t \in Teardowns, RemoveSubtree(t) PROVE TypeInv'
    BY <1>7, GotoType DEF RemoveSubtree, Helpers, DelegatePCs, TeardownPCs
  <1>8. ASSUME NEW h \in Helpers, Open(h) PROVE TypeInv'
    BY <1>8, GotoType, SubtreesAssumption
    DEF Open, Helpers, DelegatePCs, TeardownPCs, Subtrees, Absent, SubtreesAssumption
  <1>9. ASSUME NEW h \in Helpers, Lock(h) PROVE TypeInv'
    BY <1>9, GotoType DEF Lock, DelegatePCs, TeardownPCs
  <1>10. ASSUME NEW h \in Helpers, Glob(h) PROVE TypeInv'
    <2>1. CASE subtree = Absent
      BY <1>10, <2>1, GotoType, UnlockedType DEF Glob, DelegatePCs, TeardownPCs
    <2>2. CASE subtree # Absent
      <3>1. Goto(h, "sweep")
        BY <1>10, <2>2 DEF Glob
      <3>2. /\ pc' \in [Helpers -> DelegatePCs \cup TeardownPCs]
            /\ \A d \in Delegates : pc'[d] \in DelegatePCs
            /\ \A t \in Teardowns : pc'[t] \in TeardownPCs
        BY <3>1, GotoType DEF DelegatePCs, TeardownPCs
      <3>3. /\ todo' \in [Helpers -> SUBSET Delegates]
            /\ stale' \in [Helpers -> SUBSET Delegates]
        BY <1>10, <2>2 DEF Glob
      <3> QED
        BY <1>10, <2>2, <3>2, <3>3 DEF Glob
    <2> QED
      BY <2>1, <2>2
  <1>11. ASSUME NEW h \in Helpers, Inspect(h) PROVE TypeInv'
    BY <1>11, GotoType DEF Inspect, DelegatePCs, TeardownPCs
  <1>12. ASSUME NEW h \in Helpers, Remove(h) PROVE TypeInv'
    BY <1>12, GotoType DEF Remove, Removable, Young, DelegatePCs, TeardownPCs
  <1>13. ASSUME NEW h \in Helpers, EndSweep(h) PROVE TypeInv'
    BY <1>13, GotoType, UnlockedType, HelpersAssumption
    DEF EndSweep, DelegatePCs, TeardownPCs, HelpersAssumption
  <1>14. ASSUME NEW h \in Helpers, Killed(h) PROVE TypeInv'
    BY <1>14, GotoType, UnlockedType DEF Killed, DelegatePCs, TeardownPCs
  <1>15. CASE UNCHANGED vars
    BY <1>15 DEF vars
  <1> QED
    BY <1>1, <1>2, <1>3, <1>4, <1>5, <1>6, <1>7, <1>8, <1>9, <1>10, <1>11, <1>12, <1>13,
       <1>14, <1>15 DEF Next, DelegateStep, SweepStep, Terminated

LEMMA TypeInvariant == Spec => []TypeInv
  BY TypeInit, TypeStep, PTL DEF Spec

\* The variables keep their types, and each helper stays within its own protocol.
THEOREM TypeCorrect == Spec => []TypeOK
  <1>1. TypeInv => TypeOK
    BY DEF TypeInv
  <1> QED
    BY <1>1, TypeInvariant, PTL

-----------------------------------------------------------------------------
(* Exclusion                                                               *)

Inside == {"glob", "sweep", "remove", "mkrun", "place"}

\* From the sweep to the placement, a helper holds the lock of the directory it
\* opened, which is one that has been made.
Exclusive ==
    \A h \in Helpers :
       /\ pc[h] \in Inside \cup {"lock"} => fd[h] \in 1 .. created
       /\ pc[h] \in Inside => lock[fd[h]] = h

LEMMA ExclusiveStep == TypeInv /\ Exclusive /\ [Next]_vars => Exclusive'
  <1> SUFFICES ASSUME TypeInv, Exclusive, [Next]_vars PROVE Exclusive'
    OBVIOUS
  <1>t. /\ created \in Nat /\ subtree \in {0, created}
        /\ pc \in [Helpers -> DelegatePCs \cup TeardownPCs]
        /\ fd \in [Helpers -> {Absent} \cup Subtrees]
        /\ lock \in [Subtrees -> Helpers \cup {Nobody}]
    BY SubtreesAssumption DEF TypeInv, TypeOK, Absent, SubtreesAssumption
  <1> USE <1>t DEF Exclusive, Inside, fsvars, Goto
  <1>u. \A h \in Helpers, s \in Subtrees : lock[s] # h => Unlocked(h)[s] = lock[s]
    BY DEF Unlocked
  <1>c. 1 .. created \subseteq Subtrees
    BY SubtreesAssumption DEF TypeInv, TypeOK, Subtrees, SubtreesAssumption
  <1>1. ASSUME NEW d \in Delegates, PrepareRoot(d) PROVE Exclusive'
    BY <1>1 DEF PrepareRoot, Helpers
  <1>2. ASSUME NEW d \in Delegates, MakeSubtree(d) PROVE Exclusive'
    BY <1>2 DEF MakeSubtree, Helpers
  <1>3. ASSUME NEW d \in Delegates, EnableSubtree(d) PROVE Exclusive'
    BY <1>3 DEF EnableSubtree, Helpers
  <1>4. ASSUME NEW d \in Delegates, MakeRun(d) PROVE Exclusive'
    BY <1>4, <1>u, <1>c DEF MakeRun, Helpers
  <1>5. ASSUME NEW d \in Delegates, Place(d) PROVE Exclusive'
    BY <1>5, <1>u, <1>c DEF Place, Helpers
  <1>6. ASSUME NEW d \in Delegates, RunEnds(d) PROVE Exclusive'
    BY <1>6 DEF RunEnds, Helpers
  <1>7. ASSUME NEW t \in Teardowns, RemoveSubtree(t) PROVE Exclusive'
    BY <1>7 DEF RemoveSubtree, Helpers
  <1>8. ASSUME NEW h \in Helpers, Open(h) PROVE Exclusive'
    BY <1>8 DEF Open, Absent
  <1>9. ASSUME NEW h \in Helpers, Lock(h) PROVE Exclusive'
    <2>1. fd[h] \in Subtrees /\ lock[fd[h]] = Nobody
      BY <1>9, <1>c DEF Lock, LockFree
    <2>2. \A g \in Helpers : pc[g] \in Inside => fd[g] # fd[h]
      BY <2>1, NobodyAssumption DEF NobodyAssumption
    <2> QED
      BY <1>9, <1>c, <2>1, <2>2 DEF Lock
  <1>10. ASSUME NEW h \in Helpers, Glob(h) PROVE Exclusive'
    BY <1>10, <1>u, <1>c DEF Glob
  <1>11. ASSUME NEW h \in Helpers, Inspect(h) PROVE Exclusive'
    BY <1>11 DEF Inspect
  <1>12. ASSUME NEW h \in Helpers, Remove(h) PROVE Exclusive'
    BY <1>12 DEF Remove
  <1>13. ASSUME NEW h \in Helpers, EndSweep(h) PROVE Exclusive'
    BY <1>13, <1>u, <1>c DEF EndSweep
  <1>14. ASSUME NEW h \in Helpers, Killed(h) PROVE Exclusive'
    BY <1>14, <1>u, <1>c DEF Killed
  <1>15. CASE UNCHANGED vars
    BY <1>15 DEF vars
  <1> QED
    BY <1>1, <1>2, <1>3, <1>4, <1>5, <1>6, <1>7, <1>8, <1>9, <1>10, <1>11, <1>12, <1>13,
       <1>14, <1>15 DEF Next, DelegateStep, SweepStep, Terminated

LEMMA ExclusiveInvariant == Spec => []Exclusive
  <1>1. Init => Exclusive
    BY HelpersAssumption DEF Init, Exclusive, Inside, Helpers, HelpersAssumption
  <1> QED
    BY <1>1, ExclusiveStep, TypeInvariant, PTL DEF Spec

\* While there has been one directory, two helpers are never inside.
LEMMA OneInside ==
  ASSUME Exclusive, created \in Nat, created <= 1,
         NEW g \in Helpers, NEW h \in Helpers, pc[g] \in Inside, pc[h] \in Inside
  PROVE  g = h
  <1>1. fd[g] = 1 /\ fd[h] = 1
    BY DEF Exclusive
  <1> QED
    BY <1>1 DEF Exclusive

\* As long as no teardown has removed the subtree, no sweep takes a run whose
\* delegate has not entered it yet for a stale one.
THEOREM YoungRunsAreKept == Spec => []YoungRunsAreSafeOnOneSubtree
  <1>1. Init => YoungRunsAreSafeOnOneSubtree
    BY DEF Init, YoungRunsAreSafeOnOneSubtree
  <1>2. TypeInv /\ Exclusive /\ YoungRunsAreSafeOnOneSubtree /\ [Next]_vars
          => YoungRunsAreSafeOnOneSubtree'
    <2> SUFFICES ASSUME TypeInv, Exclusive, YoungRunsAreSafeOnOneSubtree, [Next]_vars,
                        created' <= 1
                 PROVE  lost' = {}
      BY DEF YoungRunsAreSafeOnOneSubtree
    <2>1. created \in Nat
      BY SubtreesAssumption DEF TypeInv, TypeOK, SubtreesAssumption
    <2>2. created' = created \/ created' = created + 1
      BY DEF Next, DelegateStep, SweepStep, Terminated, vars, fsvars, PrepareRoot,
         MakeSubtree, EnableSubtree, MakeRun, Place, RunEnds, RemoveSubtree, Open, Lock,
         Glob, Inspect, Remove, EndSweep, Killed
    <2>3. created <= 1 /\ lost = {}
      <3>1. created <= 1
        BY <2>1, <2>2
      <3> QED
        BY <3>1 DEF YoungRunsAreSafeOnOneSubtree
    <2>4. ASSUME NEW h \in Helpers, Remove(h) PROVE lost' = {}
      <3>1. \A d \in Young : d \in Helpers /\ pc[d] \in Inside
        BY DEF Young, Inside, TypeInv, TypeOK, Helpers
      <3>2. pc[h] \in Inside /\ pc[h] # "place"
        BY <2>4 DEF Remove, Inside
      <3>3. Young = {}
        BY <2>1, <2>3, <3>1, <3>2, OneInside DEF Young
      <3> QED
        BY <2>3, <2>4, <3>3 DEF Remove
    <2>5. (\E h \in Helpers : Remove(h)) \/ lost' = lost
      BY DEF Next, DelegateStep, SweepStep, Terminated, vars, fsvars, PrepareRoot,
         MakeSubtree, EnableSubtree, MakeRun, Place, RunEnds, RemoveSubtree, Open, Lock,
         Glob, Inspect, EndSweep, Killed
    <2> QED
      BY <2>3, <2>4, <2>5
  <1> QED
    BY <1>1, <1>2, TypeInvariant, ExclusiveInvariant, PTL DEF Spec

-----------------------------------------------------------------------------
(* The sweep                                                               *)

\* A run is one of a delegate that has made it, and lives while that runs; no run
\* holds more than one level of directories.
RunsInv ==
    /\ \A d \in runs : pc[d] \in {"place", "running", "gone"}
    /\ \A d \in runs : d \in live <=> pc[d] = "running"
    /\ \A d \in Delegates : holds[d] \in Sweepable

\* What a sweep found stale is over for good, and what of it is still there the
\* sweep still has before it.
SweepInv ==
    \A h \in Helpers :
       /\ \A r \in stale[h] : pc[r] = "gone"
       /\ pc[h] = "sweep" => stale[h] \cap runs \subseteq todo[h]
       /\ pc[h] = "remove" => stale[h] \cap runs \subseteq todo[h] \cup aim[h]
       /\ pc[h] \in {"mkrun", "rmsubtree"} => stale[h] \cap runs = {}

LEMMA RunsStep ==
  ASSUME "leaf" \notin Leftovers
  PROVE  TypeInv /\ RunsInv /\ [Next]_vars => RunsInv'
  <1> SUFFICES ASSUME TypeInv, RunsInv, [Next]_vars PROVE RunsInv'
    OBVIOUS
  <1>t. /\ pc \in [Helpers -> DelegatePCs \cup TeardownPCs]
        /\ live \subseteq runs /\ runs \subseteq Delegates
        /\ holds \in [Delegates -> Shapes]
        /\ Leftovers \subseteq Sweepable
    BY LeftoversAssumption DEF TypeInv, TypeOK, LeftoversAssumption, Sweepable
  <1> USE <1>t DEF RunsInv, fsvars, Goto, Helpers
  <1>1. ASSUME NEW d \in Delegates, PrepareRoot(d) PROVE RunsInv'
    BY <1>1 DEF PrepareRoot
  <1>2. ASSUME NEW d \in Delegates, MakeSubtree(d) PROVE RunsInv'
    BY <1>2 DEF MakeSubtree
  <1>3. ASSUME NEW d \in Delegates, EnableSubtree(d) PROVE RunsInv'
    BY <1>3 DEF EnableSubtree
  <1>4. ASSUME NEW d \in Delegates, MakeRun(d) PROVE RunsInv'
    BY <1>4 DEF MakeRun, Sweepable
  <1>5. ASSUME NEW d \in Delegates, Place(d) PROVE RunsInv'
    BY <1>5 DEF Place
  <1>6. ASSUME NEW d \in Delegates, RunEnds(d) PROVE RunsInv'
    BY <1>6 DEF RunEnds
  <1>7. ASSUME NEW t \in Teardowns, RemoveSubtree(t) PROVE RunsInv'
    BY <1>7, HelpersAssumption DEF RemoveSubtree, HelpersAssumption
  <1>8. ASSUME NEW h \in Helpers, Open(h) PROVE RunsInv'
    BY <1>8 DEF Open
  <1>9. ASSUME NEW h \in Helpers, Lock(h) PROVE RunsInv'
    BY <1>9 DEF Lock
  <1>10. ASSUME NEW h \in Helpers, Glob(h) PROVE RunsInv'
    BY <1>10 DEF Glob
  <1>11. ASSUME NEW h \in Helpers, Inspect(h) PROVE RunsInv'
    BY <1>11 DEF Inspect
  <1>12. ASSUME NEW h \in Helpers, Remove(h) PROVE RunsInv'
    BY <1>12 DEF Remove, Removable
  <1>13. ASSUME NEW h \in Helpers, EndSweep(h) PROVE RunsInv'
    BY <1>13 DEF EndSweep
  <1>14. ASSUME NEW h \in Helpers, Killed(h) PROVE RunsInv'
    BY <1>14 DEF Killed
  <1>15. CASE UNCHANGED vars
    BY <1>15 DEF vars
  <1> QED
    BY <1>1, <1>2, <1>3, <1>4, <1>5, <1>6, <1>7, <1>8, <1>9, <1>10, <1>11, <1>12, <1>13,
       <1>14, <1>15 DEF Next, DelegateStep, SweepStep, Terminated

LEMMA SweepStepKeeps == TypeInv /\ RunsInv /\ SweepInv /\ [Next]_vars => SweepInv'
  <1> SUFFICES ASSUME TypeInv, RunsInv, SweepInv, [Next]_vars PROVE SweepInv'
    OBVIOUS
  <1>t. /\ pc \in [Helpers -> DelegatePCs \cup TeardownPCs]
        /\ live \subseteq runs /\ runs \subseteq Delegates
        /\ todo \in [Helpers -> SUBSET Delegates]
        /\ aim \in [Helpers -> SUBSET Delegates]
        /\ stale \in [Helpers -> SUBSET Delegates]
    BY DEF TypeInv, TypeOK
  <1> USE <1>t DEF SweepInv, fsvars, Goto, Helpers
  <1>1. ASSUME NEW d \in Delegates, PrepareRoot(d) PROVE SweepInv'
    BY <1>1 DEF PrepareRoot
  <1>2. ASSUME NEW d \in Delegates, MakeSubtree(d) PROVE SweepInv'
    BY <1>2 DEF MakeSubtree
  <1>3. ASSUME NEW d \in Delegates, EnableSubtree(d) PROVE SweepInv'
    BY <1>3 DEF EnableSubtree
  <1>4. ASSUME NEW d \in Delegates, MakeRun(d) PROVE SweepInv'
    BY <1>4 DEF MakeRun
  <1>5. ASSUME NEW d \in Delegates, Place(d) PROVE SweepInv'
    BY <1>5 DEF Place
  <1>6. ASSUME NEW d \in Delegates, RunEnds(d) PROVE SweepInv'
    BY <1>6 DEF RunEnds
  <1>7. ASSUME NEW t \in Teardowns, RemoveSubtree(t) PROVE SweepInv'
    BY <1>7 DEF RemoveSubtree
  <1>8. ASSUME NEW h \in Helpers, Open(h) PROVE SweepInv'
    BY <1>8 DEF Open
  <1>9. ASSUME NEW h \in Helpers, Lock(h) PROVE SweepInv'
    BY <1>9 DEF Lock
  <1>10. ASSUME NEW h \in Helpers, Glob(h) PROVE SweepInv'
    <2>1. \A r \in runs \ (live \cup Young) : pc[r] = "gone"
      BY DEF RunsInv, Young
    <2>2. CASE subtree = Absent
      BY <1>10, <2>2 DEF Glob
    <2>3. CASE subtree # Absent
      BY <1>10, <2>1, <2>3 DEF Glob
    <2> QED
      BY <2>2, <2>3
  <1>11. ASSUME NEW h \in Helpers, Inspect(h) PROVE SweepInv'
    <2>1. stale[h] \cap runs \cap live = {}
      BY DEF RunsInv
    <2> QED
      BY <1>11, <2>1 DEF Inspect
  <1>12. ASSUME NEW h \in Helpers, Remove(h) PROVE SweepInv'
    <2>1. \A r \in stale[h] \cap runs : Removable(r)
      BY DEF RunsInv, Removable
    <2> QED
      BY <1>12, <2>1 DEF Remove
  <1>13. ASSUME NEW h \in Helpers, EndSweep(h) PROVE SweepInv'
    BY <1>13 DEF EndSweep
  <1>14. ASSUME NEW h \in Helpers, Killed(h) PROVE SweepInv'
    BY <1>14 DEF Killed
  <1>15. CASE UNCHANGED vars
    BY <1>15 DEF vars
  <1> QED
    BY <1>1, <1>2, <1>3, <1>4, <1>5, <1>6, <1>7, <1>8, <1>9, <1>10, <1>11, <1>12, <1>13,
       <1>14, <1>15 DEF Next, DelegateStep, SweepStep, Terminated

\* If abandoned runs hold at most their own level of directories, a finished sweep
\* leaves none of the runs it found stale, whoever else sweeps, runs or is killed.
THEOREM SweepsAreComplete ==
  ASSUME "leaf" \notin Leftovers
  PROVE  Spec => []SweepIsComplete
  <1>1. Init => RunsInv /\ SweepInv
    BY DEF Init, RunsInv, SweepInv, Sweepable, Helpers
  <1>2. TypeInv /\ RunsInv /\ [Next]_vars => RunsInv'
    BY RunsStep
  <1>3. TypeInv /\ RunsInv /\ SweepInv /\ [Next]_vars => SweepInv'
    BY SweepStepKeeps
  <1>4. SweepInv => SweepIsComplete
    BY DEF SweepInv, SweepIsComplete
  <1> QED
    BY <1>1, <1>2, <1>3, <1>4, TypeInvariant, PTL DEF Spec
=============================================================================
