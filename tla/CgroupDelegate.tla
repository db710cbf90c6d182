--------------------------- MODULE CgroupDelegate ---------------------------
(***************************************************************************)
(* scripts/cgroup_delegate.py: root helpers that hand out run cgroups on a *)
(* runner without systemd.  Each delegate prepares the cgroup root, takes  *)
(* an flock on the palomar subtree, sweeps stale runs, creates a run and   *)
(* places itself in it; a teardown sweeps and removes the subtree.  The    *)
(* helpers run concurrently, on paths, while the lock belongs to the       *)
(* directory a helper once opened.                                         *)
(***************************************************************************)
EXTENDS Integers, FiniteSets

CONSTANTS
  Delegates,     \* helpers that bootstrap one run each
  Teardowns,     \* helpers started with --teardown
  Leftovers,     \* what an abandoned run may still hold, of {"bare", "phase", "leaf"}
  MaxSubtrees    \* bound: how often the subtree directory may be created

ASSUME HelpersAssumption == Delegates \cap Teardowns = {}
ASSUME LeftoversAssumption == Leftovers \subseteq {"bare", "phase", "leaf"}
ASSUME SubtreesAssumption == MaxSubtrees \in Nat

Helpers == Delegates \cup Teardowns
Subtrees == 1 .. MaxSubtrees
Absent == 0                     \* the subtree directory does not exist
Nobody == "nobody"

ASSUME NobodyAssumption == Nobody \notin Helpers

VARIABLES
  strays,        \* processes still sit in the cgroup root
  rootEnabled,   \* the root's controllers are enabled
  subtree,       \* which directory the path SUBTREE names, or Absent
  created,       \* how many subtree directories there have been
  runs,          \* run directories, named by the delegate that made them
  live,          \* runs in which a process lives
  holds,         \* what each run directory holds
  lock,          \* holder of the flock of each subtree directory
  pc, fd,        \* each helper: where it stands, the directory it opened
  todo,          \* each helper: runs its sweep has still to look at
  aim,           \* each helper: the run it found empty and is about to remove
  stale,         \* history: the stale runs each sweep found
  lost           \* history: runs removed before their delegate was in them

fsvars == <<strays, rootEnabled, subtree, created, runs, live, holds, lock>>
vars == <<fsvars, pc, fd, todo, aim, stale, lost>>

Shapes == {"bare", "phase", "leaf"}
DelegatePCs == {"start", "mksubtree", "enable", "open", "lock", "glob", "sweep", "remove",
                "mkrun", "place", "running", "gone"}
TeardownPCs == {"open", "lock", "glob", "sweep", "remove", "rmsubtree", "gone"}

TypeOK ==
  /\ strays \in BOOLEAN /\ rootEnabled \in BOOLEAN
  /\ created \in 0 .. MaxSubtrees
  /\ subtree \in {Absent, created}
  /\ live \subseteq runs /\ runs \subseteq Delegates
  /\ holds \in [Delegates -> Shapes]
  /\ lock \in [Subtrees -> Helpers \cup {Nobody}]
  /\ \A d \in Delegates : pc[d] \in DelegatePCs
  /\ \A t \in Teardowns : pc[t] \in TeardownPCs
  /\ fd \in [Helpers -> {Absent} \cup Subtrees]
  /\ todo \in [Helpers -> SUBSET Delegates]
  /\ aim \in [Helpers -> SUBSET Delegates]
  /\ stale \in [Helpers -> SUBSET Delegates]
  /\ lost \subseteq Delegates

Init ==
  /\ strays \in BOOLEAN /\ rootEnabled = FALSE
  /\ subtree = Absent /\ created = 0
  /\ runs = {} /\ live = {} /\ holds = [d \in Delegates |-> "bare"]
  /\ lock = [s \in Subtrees |-> Nobody]
  /\ pc = [h \in Helpers |-> IF h \in Delegates THEN "start" ELSE "open"]
  /\ fd = [h \in Helpers |-> Absent]
  /\ todo = [h \in Helpers |-> {}]
  /\ aim = [h \in Helpers |-> {}]
  /\ stale = [h \in Helpers |-> {}]
  /\ lost = {}

-----------------------------------------------------------------------------
(* Helper state formulae.  A variant before an operator is a slip that     *)
(* PROJECT.json's "mutants" put in its place; nothing else uses it.         *)

Goto(h, label) == pc' = [pc EXCEPT ![h] = label]

\* A run that exists and whose delegate has not entered it yet.
Young == {d \in runs : pc[d] = "place"}

RunRmdirOnly == {"bare"}

\* rmdir of each directory in the run, then of the run: one level deep.
Sweepable == {"bare", "phase"}

RemovableAsInspected(r) == r \in runs /\ holds[r] \in Sweepable

\* The kernel refuses a run that is populated by now or still has directories.
Removable(r) == r \in runs \ live /\ holds[r] \in Sweepable

LockIgnored(h) == TRUE

\* flock(LOCK_EX) on the directory the helper opened.
LockFree(h) == lock[fd[h]] = Nobody

LocksAgain(h) == lock[fd[h]] = Nobody

\* sweep_stale(locked=True) opens the subtree once more but does not lock it.
MayGlob(h) == TRUE

KeepsLock(h) == lock

\* A helper that ends, however it ends, drops its lock.
Unlocked(h) == [s \in Subtrees |-> IF lock[s] = h THEN Nobody ELSE lock[s]]

-----------------------------------------------------------------------------
(* bootstrap                                                               *)

\* drain_root and enable: every process is moved out of the root, or the helper
\* gives up; an enabled root is left as it is.
PrepareRoot(d) ==
  /\ pc[d] = "start"
  /\ \/ /\ Goto(d, "mksubtree")
        /\ rootEnabled' = TRUE
        /\ strays' = (IF rootEnabled THEN strays ELSE FALSE)
     \/ /\ strays /\ ~rootEnabled
        /\ Goto(d, "gone")
        /\ UNCHANGED <<strays, rootEnabled>>
  /\ UNCHANGED <<subtree, created, runs, live, holds, lock, fd, todo, aim, stale, lost>>

MakeSubtree(d) ==
  /\ pc[d] = "mksubtree"
  /\ Goto(d, "enable")
  /\ IF subtree = Absent
       THEN /\ created < MaxSubtrees
            /\ created' = created + 1 /\ subtree' = created + 1
       ELSE UNCHANGED <<created, subtree>>
  /\ UNCHANGED <<strays, rootEnabled, runs, live, holds, lock, fd, todo, aim, stale, lost>>

\* The controllers of a subtree that is gone again cannot be enabled.
EnableSubtree(d) ==
  /\ pc[d] = "enable"
  /\ Goto(d, IF subtree = Absent THEN "gone" ELSE "open")
  /\ UNCHANGED <<fsvars, fd, todo, aim, stale, lost>>

-----------------------------------------------------------------------------
(* The lock and the sweep                                                  *)

Open(h) ==
  /\ pc[h] = "open"
  /\ Goto(h, IF subtree = Absent THEN "gone" ELSE "lock")
  /\ fd' = [fd EXCEPT ![h] = subtree]
  /\ UNCHANGED <<fsvars, todo, aim, stale, lost>>

Lock(h) ==
  /\ pc[h] = "lock" /\ LockFree(h)
  /\ lock' = [lock EXCEPT ![fd[h]] = h]
  /\ Goto(h, "glob")
  /\ UNCHANGED <<strays, rootEnabled, subtree, created, runs, live, holds, fd, todo, aim, stale, lost>>

\* sweep_stale opens SUBTREE by its path and lists the runs below it.
Glob(h) ==
  /\ pc[h] = "glob"
  /\ IF subtree = Absent
       THEN /\ Goto(h, "gone") /\ lock' = Unlocked(h)
            /\ UNCHANGED <<todo, stale>>
       ELSE /\ MayGlob(h)
            /\ Goto(h, "sweep")
            /\ todo' = [todo EXCEPT ![h] = runs]
            /\ stale' = [stale EXCEPT ![h] = runs \ (live \cup Young)]
            /\ UNCHANGED lock
  /\ UNCHANGED <<strays, rootEnabled, subtree, created, runs, live, holds, fd, aim, lost>>

\* A populated run, or one that cannot be read any more, is left alone.
Inspect(h) ==
  /\ pc[h] = "sweep"
  /\ \E r \in todo[h] :
       /\ todo' = [todo EXCEPT ![h] = @ \ {r}]
       /\ IF r \in runs \ live
            THEN aim' = [aim EXCEPT ![h] = {r}] /\ Goto(h, "remove")
            ELSE UNCHANGED <<aim, pc>>
  /\ UNCHANGED <<fsvars, fd, stale, lost>>

Remove(h) ==
  LET gone == {r \in aim[h] : Removable(r)} IN
  /\ pc[h] = "remove"
  /\ runs' = runs \ gone
  /\ lost' = lost \cup (gone \cap Young)
  /\ aim' = [aim EXCEPT ![h] = {}]
  /\ Goto(h, "sweep")
  /\ UNCHANGED <<strays, rootEnabled, subtree, created, live, holds, lock, fd, todo, stale>>

\* A delegate goes on under the lock, a teardown has closed its descriptor.
EndSweep(h) ==
  /\ pc[h] = "sweep" /\ todo[h] = {}
  /\ IF h \in Delegates THEN Goto(h, "mkrun") /\ UNCHANGED lock
                        ELSE Goto(h, "rmsubtree") /\ lock' = Unlocked(h)
  /\ UNCHANGED <<strays, rootEnabled, subtree, created, runs, live, holds, fd, todo, aim,
                 stale, lost>>

-----------------------------------------------------------------------------
(* The run, the teardown and the failures                                  *)

MakeRun(d) ==
  /\ pc[d] = "mkrun"
  /\ IF subtree = Absent
       THEN Goto(d, "gone") /\ lock' = Unlocked(d) /\ UNCHANGED <<runs, holds>>
       ELSE /\ Goto(d, "place") /\ UNCHANGED lock
            /\ runs' = runs \cup {d} /\ holds' = [holds EXCEPT ![d] = "bare"]
  /\ UNCHANGED <<strays, rootEnabled, subtree, created, live, fd, todo, aim, stale, lost>>

\* The delegate enters its run, unlocks, drops its privileges and becomes the
\* babysitter; if the run is gone it dies of the error, and unlocks.
Place(d) ==
  /\ pc[d] = "place"
  /\ IF d \in runs THEN Goto(d, "running") /\ live' = live \cup {d}
                   ELSE Goto(d, "gone") /\ UNCHANGED live
  /\ lock' = Unlocked(d)
  /\ UNCHANGED <<strays, rootEnabled, subtree, created, runs, holds, fd, todo, aim, stale, lost>>

\* The phase is over: the verifier removes the run, or is gone and leaves it.
RunEnds(d) ==
  /\ pc[d] = "running"
  /\ Goto(d, "gone")
  /\ live' = live \ {d}
  /\ \/ runs' = runs \ {d} /\ UNCHANGED holds
     \/ /\ \E left \in Leftovers : holds' = [holds EXCEPT ![d] = left]
        /\ UNCHANGED runs
  /\ UNCHANGED <<strays, rootEnabled, subtree, created, lock, fd, todo, aim, stale, lost>>

RemoveSubtree(t) ==
  /\ pc[t] = "rmsubtree"
  /\ Goto(t, "gone")
  /\ subtree' = IF runs = {} THEN Absent ELSE subtree
  /\ UNCHANGED <<strays, rootEnabled, created, runs, live, holds, lock, fd, todo, aim, stale,
                 lost>>

\* A helper is killed, or dies of an unexpected OSError, anywhere on its way.
Killed(h) ==
  /\ pc[h] \notin {"running", "gone"}
  /\ Goto(h, "gone")
  /\ lock' = Unlocked(h)
  /\ UNCHANGED <<strays, rootEnabled, subtree, created, runs, live, holds, fd, todo, aim, stale,
                 lost>>

Finished == \A h \in Helpers : pc[h] = "gone"

Terminated == Finished /\ UNCHANGED vars

-----------------------------------------------------------------------------
DelegateStep(d) ==
  \/ PrepareRoot(d) \/ MakeSubtree(d) \/ EnableSubtree(d)
  \/ MakeRun(d) \/ Place(d)

SweepStep(h) == Open(h) \/ Lock(h) \/ Glob(h) \/ Inspect(h) \/ Remove(h) \/ EndSweep(h)

Next ==
  \/ \E d \in Delegates : DelegateStep(d) \/ RunEnds(d)
  \/ \E t \in Teardowns : RemoveSubtree(t)
  \/ \E h \in Helpers : SweepStep(h) \/ Killed(h)
  \/ Terminated

Spec == Init /\ [][Next]_vars

\* The kernel schedules every helper; whether a phase ends is not its affair.
FairSpec ==
  /\ Spec
  /\ \A d \in Delegates : WF_vars(DelegateStep(d) \/ SweepStep(d))
  /\ \A t \in Teardowns : WF_vars(RemoveSubtree(t) \/ SweepStep(t))

-----------------------------------------------------------------------------
(* Properties                                                              *)

\* One lock covers the sweep and the creation and placement of a run: no sweep
\* takes a run whose delegate has not entered it yet for a stale one.
YoungRunsAreSafe == lost = {}

\* The same, for as long as every helper's lock is on the directory it sweeps:
\* until a teardown has removed the subtree.
YoungRunsAreSafeOnOneSubtree == created <= 1 => lost = {}

\* A finished sweep leaves none of the runs it found stale.
SweepIsComplete ==
  \A h \in Helpers : pc[h] \in {"mkrun", "rmsubtree"} => stale[h] \cap runs = {}

\* A helper that takes the lock does not run into it again, and nobody dies
\* holding it: every helper ends or gets its run.
HelpersGetThrough == \A h \in Helpers : <>(pc[h] \in {"running", "gone"})
=============================================================================
