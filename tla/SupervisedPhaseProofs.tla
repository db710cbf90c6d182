----------------------- MODULE SupervisedPhaseProofs -----------------------
(***************************************************************************)
(* Theorems about SupervisedPhase for every deadline, grace, budget and    *)
(* combination of disturbances, each by one inductive invariant.           *)
(***************************************************************************)
EXTENDS SupervisedPhase, TLAPS

-----------------------------------------------------------------------------
(* Types of the records the two processes keep                             *)

LEMMA StatusInType ==
  ASSUME NEW s \in {"none", "started", "failed"}
  PROVE  StatusIn(s) \in StatusRecord
  BY DEF StatusIn, StatusRecord, Exits

LEMMA NoEvidenceType == NoEvidence \in Evidence
  BY DEF NoEvidence, Evidence, Exits

LEMMA ReapedType ==
  ASSUME seen \in Evidence PROVE Reaped \in Exits
  <1>1. seen.exit \in Exits
    BY DEF Evidence
  <1>2. ExitOf(child) \in Exits
    BY DEF ExitOf, Exits
  <1> QED
    BY <1>1, <1>2 DEF Reaped

LEMMA EvidenceUpdate ==
  ASSUME seen \in Evidence, NEW e \in Exits
  PROVE  /\ [seen EXCEPT !.exit = e] \in Evidence
         /\ [seen EXCEPT !.exit = e, !.fired = TRUE] \in Evidence
         /\ [seen EXCEPT !.exit = e, !.killed = TRUE] \in Evidence
  BY DEF Evidence

\* A request capped by the seconds left, of which there is at least one.
LEMMA CapType ==
  ASSUME NEW request \in Nat, NEW end \in Nat, NEW clock \in Nat, ~(end - clock < 1)
  PROVE  Min2(request, end - clock) \in Nat
  BY DEF Min2

LEMMA PatienceType ==
  ASSUME deadline \in Nat PROVE Patience \in Nat
  BY TimesAssumption DEF TimesAssumption, Patience

LEMMA FinishedType ==
  ASSUME TypeOK
  PROVE  [state |-> "finished", exit |-> seen.exit, fired |-> seen.fired, ack |-> ack,
          sandbox |-> seen.sandbox, oom |-> oomKilled, left |-> Populated] \in StatusRecord
  <1>1. Populated \in BOOLEAN
    BY DEF Populated, ChildInLeaf, TypeOK
  <1>2. /\ seen.exit \in Exits /\ seen.fired \in BOOLEAN /\ seen.sandbox \in BOOLEAN
        /\ ack \in {"", "fail", "placed", "placed fail"} /\ oomKilled \in BOOLEAN
    BY DEF TypeOK, Evidence
  <1> QED
    BY <1>1, <1>2 DEF StatusRecord

-----------------------------------------------------------------------------
(* Type correctness                                                        *)

LEMMA TypeInit == Init => TypeOK
  <1> SUFFICES ASSUME Init PROVE TypeOK
    OBVIOUS
  <1>1. now \in Nat /\ budgetEnd \in Nat /\ deadline \in Nat /\ expiry \in Nat
    BY TimesAssumption DEF Init, TimesAssumption
  <1>2. seen \in Evidence /\ status \in StatusRecord
    BY NoEvidenceType, StatusInType DEF Init
  <1>3. vpc \in VerifierPCs /\ bpc \in BabysitterPCs /\ child \in ChildStates
    BY DEF Init, VerifierPCs, BabysitterPCs, ChildStates
  <1>4. rc \in Exits /\ verdict \in Verdicts
    BY DEF Init, Exits, Verdicts
  <1> QED
    BY <1>1, <1>2, <1>3, <1>4 DEF Init, TypeOK

LEMMA TypeStep == TypeOK /\ [Next]_vars => TypeOK'
  <1> SUFFICES ASSUME TypeOK, [Next]_vars PROVE TypeOK'
    OBVIOUS
  <1> USE DEF TypeOK, vvars, bvars, wvars
  <1>1. CASE Enter
    <2>1. deadline' \in Nat
      <3>1. Timeout \in Nat /\ budgetEnd \in Nat /\ now \in Nat /\ deadline \in Nat
        BY TimesAssumption DEF TimesAssumption
      <3>2. \/ ~(budgetEnd - now < 1) /\ deadline' = Min2(Timeout, budgetEnd - now)
            \/ deadline' = deadline
        BY <1>1, Zenon DEF Enter, Remaining
      <3> HIDE DEF TypeOK
      <3>3. CASE deadline' = deadline
        BY <3>1, <3>3
      <3>4. CASE ~(budgetEnd - now < 1) /\ deadline' = Min2(Timeout, budgetEnd - now)
        <4>1. Min2(Timeout, budgetEnd - now) \in Nat
          BY <3>1, <3>4, CapType
        <4> QED
          BY <3>1, <3>4, <4>1
      <3> QED
        BY <3>2, <3>3, <3>4
    <2>2. vpc' \in VerifierPCs /\ verdict' \in Verdicts
      BY <1>1 DEF Enter, VerifierPCs, Verdicts
    <2> QED
      BY <1>1, <2>1, <2>2 DEF Enter
  <1>2. CASE Launch
    <2>1. expiry' \in Nat
      <3>1. Patience \in Nat /\ budgetEnd \in Nat /\ now \in Nat /\ expiry \in Nat
        BY PatienceType
      <3>2. \/ ~(budgetEnd - now < 1) /\ expiry' = now + Min2(Patience, budgetEnd - now)
            \/ expiry' = expiry
        BY <1>2, Zenon DEF Launch, Remaining
      <3> HIDE DEF TypeOK
      <3>3. CASE expiry' = expiry
        BY <3>1, <3>3
      <3>4. CASE ~(budgetEnd - now < 1) /\ expiry' = now + Min2(Patience, budgetEnd - now)
        <4>1. Min2(Patience, budgetEnd - now) \in Nat
          BY <3>1, <3>4, CapType
        <4> QED
          BY <3>1, <3>4, <4>1
      <3> QED
        BY <3>2, <3>3, <3>4
    <2>2. vpc' \in VerifierPCs /\ verdict' \in Verdicts /\ bpc' \in BabysitterPCs
      BY <1>2 DEF Launch, VerifierPCs, Verdicts, BabysitterPCs
    <2> QED
      BY <1>2, <2>1, <2>2 DEF Launch
  <1>3. CASE Reap
    BY <1>3 DEF Reap, VerifierPCs
  <1>4. CASE Drain
    BY <1>4 DEF Drain, VerifierPCs
  <1>5. CASE PatienceExpires
    BY <1>5 DEF PatienceExpires, BabysitterDies, VerifierPCs, BabysitterPCs
  <1>6. CASE ReadStatus
    BY <1>6 DEF ReadStatus, Classified, VerifierPCs, Verdicts
  <1>7. CASE CleanupKill
    BY <1>7 DEF CleanupKill, Kill, Members, VerifierPCs
  <1>8. CASE CleanupRemove
    BY <1>8 DEF CleanupRemove, VerifierPCs
  <1>9. CASE OpenLiveness
    <2>1. status' \in StatusRecord
      BY <1>9, StatusInType DEF OpenLiveness
    <2>2. bpc' \in BabysitterPCs /\ rc' \in Exits
      BY <1>9 DEF OpenLiveness, Exits, BabysitterPCs
    <2>3. startedAt' \in Nat \cup {Never} /\ dirs' \subseteq {"cgroup", "leaf"}
      BY <1>9 DEF OpenLiveness
    <2>4. UNCHANGED <<now, vpc, budgetEnd, deadline, expiry, verdict, termAt, seen,
                      child, ack, tree, doomed, sandbox, oomKilled, cause>>
      BY <1>9 DEF OpenLiveness
    <2> QED
      BY <2>1, <2>2, <2>3, <2>4
  <1>10. CASE SetupFails
    BY <1>10, StatusInType DEF SetupFails, Exits, BabysitterPCs
  <1>11. CASE WriteStarted
    BY <1>11, StatusInType DEF WriteStarted, BabysitterPCs
  <1>12. CASE Fork
    BY <1>12 DEF Fork, BabysitterPCs, ChildStates
  <1>13. CASE ReadAck
    BY <1>13 DEF ReadAck, BabysitterPCs
  <1>14. CASE PollKill
    <2>1. seen' \in Evidence
      BY <1>14, ReapedType, EvidenceUpdate DEF PollKill
    <2> QED
      BY <1>14, <2>1 DEF PollKill, Kill, Members, BabysitterPCs
  <1>15. CASE PollDeadline
    <2>1. seen' \in Evidence
      BY <1>15, ReapedType, EvidenceUpdate DEF PollDeadline
    <2> QED
      BY <1>15, <2>1 DEF PollDeadline, BabysitterPCs
  <1>16. CASE PollIdle
    <2>1. seen' \in Evidence
      BY <1>16, ReapedType, EvidenceUpdate DEF PollIdle
    <2> QED
      BY <1>16, <2>1 DEF PollIdle, BabysitterPCs
  <1>17. CASE Check
    BY <1>17 DEF Check, BabysitterPCs
  <1>18. CASE FinalKill
    BY <1>18 DEF FinalKill, Kill, Members, BabysitterPCs
  <1>19. CASE WriteFinished
    BY <1>19, FinishedType DEF WriteFinished, BabysitterPCs
  <1>20. CASE Exit
    BY <1>20 DEF Exit, BabysitterDies, Exits, BabysitterPCs
  <1>21. CASE StopRequested
    BY <1>21 DEF StopRequested, Evidence
  <1>22. CASE WatchSandbox
    BY <1>22 DEF WatchSandbox, Evidence
  <1>23. CASE ChildJoin
    BY <1>23 DEF ChildJoin, ChildFails, ChildStates
  <1>24. CASE ChildArm
    BY <1>24 DEF ChildArm, ChildFails, ChildStates
  <1>25. CASE ChildAck
    BY <1>25 DEF ChildAck, ChildFails, ChildStates
  <1>26. CASE ChildExec
    BY <1>26 DEF ChildExec, ChildFails, ChildStates
  <1>27. CASE ChildKilled
    BY <1>27 DEF ChildKilled, ChildStates
  <1>28. CASE TreeKilled
    BY <1>28 DEF TreeKilled
  <1>29. CASE TreeLosesLauncher
    BY <1>29 DEF TreeLosesLauncher
  <1>30. CASE SandboxStarts
    BY <1>30 DEF SandboxStarts
  <1>31. CASE LauncherExits
    BY <1>31 DEF LauncherExits, ChildStates
  <1>32. CASE TreeExits
    BY <1>32 DEF TreeExits
  <1>33. CASE OomKill
    BY <1>33 DEF OomKill, Members
  <1>34. CASE VerifierCrash
    BY <1>34 DEF VerifierCrash, VerifierPCs
  <1>35. CASE BabysitterLost
    BY <1>35 DEF BabysitterLost, BabysitterDies, Exits, BabysitterPCs
  <1>36. CASE Tick
    <2>1. now' \in Nat
      <3>1. now' = now + 1
        BY <1>36, Zenon DEF Tick
      <3>2. now \in Nat
        BY DEF TypeOK
      <3> HIDE DEF TypeOK
      <3> QED
        BY <3>1, <3>2
    <2>2. UNCHANGED <<vvars, bvars, wvars>>
      BY <1>36, Zenon DEF Tick
    <2> QED
      BY <2>1, <2>2
  <1>37. CASE Terminated
    BY <1>37 DEF Terminated, vars
  <1>38. CASE UNCHANGED vars
    BY <1>38 DEF vars
  <1> QED
    BY <1>1, <1>2, <1>3, <1>4, <1>5, <1>6, <1>7, <1>8, <1>9, <1>10, <1>11,
       <1>12, <1>13, <1>14, <1>15, <1>16, <1>17, <1>18, <1>19, <1>20, <1>21,
       <1>22, <1>23, <1>24, <1>25, <1>26, <1>27, <1>28, <1>29, <1>30, <1>31,
       <1>32, <1>33, <1>34, <1>35, <1>36, <1>37, <1>38 DEF Next, VerifierStep,
       BabysitterStep, LaunchStep, KernelStep, CandidateStep, Disturbance

\* The variables keep their types: the program points are the code's, the status
\* file and the evidence are always whole records.
THEOREM TypeCorrect == Spec => []TypeOK
  BY TypeInit, TypeStep, PTL DEF Spec

-----------------------------------------------------------------------------
(* No workload without its supervisor, none after the verdict              *)

\* Nothing is forked before the cgroup is set up, and no tree grows without a
\* launcher.
ForkedLate ==
  /\ vpc \in {"entered", "prepared"} => bpc = "none"
  /\ bpc \in {"none", "boot", "made", "limits"} => child = "none"
  /\ tree => child # "none"

\* The babysitter leaves its loop only with the exit of a launcher that is gone.
ReapedDead ==
  /\ seen.exit # "none" => child \in {"failed", "zero", "nonzero", "signal"}
  /\ bpc \in {"final", "report", "exiting"} => seen.exit # "none"

\* A launcher past the acknowledgement does not outlive its babysitter.
Leashed == bpc = "gone" /\ child \in {"acked", "exec"} => "child" \in doomed

\* A forked launcher is one whose cgroup the status file names.
Recorded ==
  /\ bpc = "limits" => status.state = "started"
  /\ child # "none" => status.state \in {"started", "finished"}

\* Once the verifier stops waiting there is no babysitter.
HandedOver ==
  vpc \in {"joining", "returned", "expired", "cleanup", "cleanupWait", "done"}
    => bpc \in {"none", "gone"}

\* From its own cgroup.kill on, the verifier leaves nothing that can go on.
Doomed ==
  vpc \in {"cleanupWait", "done"} =>
    /\ child = "exec" => "child" \in doomed
    /\ tree => "tree" \in doomed

SupervisionInv == ForkedLate /\ ReapedDead /\ Leashed /\ Recorded /\ HandedOver /\ Doomed

LEMMA SupervisionInit == Init => SupervisionInv
  <1> SUFFICES ASSUME Init PROVE SupervisionInv
    OBVIOUS
  <1>1. seen.exit = "none"
    BY DEF Init, NoEvidence
  <1>2. child = "none" /\ bpc = "none" /\ vpc = "entered" /\ tree = FALSE
    BY DEF Init
  <1> QED
    BY <1>1, <1>2 DEF SupervisionInv, ForkedLate, ReapedDead, Leashed, Recorded, HandedOver,
       Doomed

\* What a turn of the loop learns of the launcher's exit is true.
LEMMA ReapedIsTrue ==
  ASSUME ReapedDead
  PROVE  Reaped # "none" => child \in {"failed", "zero", "nonzero", "signal"}
  BY DEF ReapedDead, Reaped, ExitOf

LEMMA ExitUpdate ==
  ASSUME seen \in Evidence, NEW e
  PROVE  /\ [seen EXCEPT !.exit = e].exit = e
         /\ [seen EXCEPT !.exit = e, !.fired = TRUE].exit = e
         /\ [seen EXCEPT !.exit = e, !.killed = TRUE].exit = e
         /\ [seen EXCEPT !.stop = TRUE].exit = seen.exit
         /\ [seen EXCEPT !.sandbox = TRUE].exit = seen.exit
  BY DEF Evidence

LEMMA SupervisionStep == TypeOK /\ SupervisionInv /\ [Next]_vars => SupervisionInv'
  <1> SUFFICES ASSUME seen \in Evidence, SupervisionInv, [Next]_vars PROVE SupervisionInv'
    BY DEF TypeOK
  <1> USE DEF SupervisionInv, ForkedLate, ReapedDead, Leashed, Recorded, HandedOver, Doomed,
      vvars, bvars, wvars
  <1>1. CASE Enter
    BY <1>1 DEF Enter
  <1>2. CASE Launch
    BY <1>2 DEF Launch
  <1>3. CASE Reap
    BY <1>3 DEF Reap
  <1>4. CASE Drain
    BY <1>4 DEF Drain
  <1>5. CASE PatienceExpires
    BY <1>5 DEF PatienceExpires, BabysitterDies, Leash
  <1>6. CASE ReadStatus
    BY <1>6 DEF ReadStatus
  <1>7. CASE CleanupKill
    BY <1>7 DEF CleanupKill, Kill, Members, ChildAlive, ChildInLeaf, Unstarted
  <1>8. CASE CleanupRemove
    BY <1>8 DEF CleanupRemove
  <1>9. CASE OpenLiveness
    BY <1>9 DEF OpenLiveness, StatusIn
  <1>10. CASE SetupFails
    BY <1>10 DEF SetupFails, StatusIn
  <1>11. CASE WriteStarted
    BY <1>11 DEF WriteStarted, StatusIn
  <1>12. CASE Fork
    BY <1>12 DEF Fork
  <1>13. CASE ReadAck
    BY <1>13 DEF ReadAck
  <1>14. CASE PollKill
    BY <1>14, ReapedIsTrue, ExitUpdate DEF PollKill, Kill, Members
  <1>15. CASE PollDeadline
    BY <1>15, ReapedIsTrue, ExitUpdate DEF PollDeadline
  <1>16. CASE PollIdle
    BY <1>16, ReapedIsTrue, ExitUpdate DEF PollIdle
  <1>17. CASE Check
    BY <1>17 DEF Check
  <1>18. CASE FinalKill
    BY <1>18 DEF FinalKill, Kill, Members
  <1>19. CASE WriteFinished
    BY <1>19 DEF WriteFinished
  <1>20. CASE Exit
    BY <1>20 DEF Exit, BabysitterDies
  <1>21. CASE StopRequested
    BY <1>21, ExitUpdate DEF StopRequested, Watching
  <1>22. CASE WatchSandbox
    BY <1>22, ExitUpdate DEF WatchSandbox, Watching
  <1>23. CASE ChildJoin
    BY <1>23 DEF ChildJoin, ChildFails
  <1>24. CASE ChildArm
    BY <1>24 DEF ChildArm, ChildFails, ChildRuns
  <1>25. CASE ChildAck
    BY <1>25 DEF ChildAck, ChildFails, ChildRuns, PipeHasReader,
       BabysitterAlive
  <1>26. CASE ChildExec
    BY <1>26 DEF ChildExec, ChildFails, ChildRuns
  <1>27. CASE ChildKilled
    BY <1>27 DEF ChildKilled, ChildAlive, ChildInLeaf, Unstarted
  <1>28. CASE TreeKilled
    BY <1>28 DEF TreeKilled
  <1>29. CASE TreeLosesLauncher
    BY <1>29 DEF TreeLosesLauncher
  <1>30. CASE SandboxStarts
    BY <1>30 DEF SandboxStarts, ChildRuns
  <1>31. CASE LauncherExits
    BY <1>31 DEF LauncherExits
  <1>32. CASE TreeExits
    BY <1>32 DEF TreeExits
  <1>33. CASE OomKill
    BY <1>33 DEF OomKill, Kill, Members
  <1>34. CASE VerifierCrash
    BY <1>34 DEF VerifierCrash
  <1>35. CASE BabysitterLost
    BY <1>35 DEF BabysitterLost, BabysitterDies, Leash, BabysitterAlive
  <1>36. CASE Tick
    BY <1>36 DEF Tick
  <1>37. CASE Terminated
    BY <1>37 DEF Terminated, vars
  <1>38. CASE UNCHANGED vars
    BY <1>38 DEF vars
  <1> QED
    BY <1>1, <1>2, <1>3, <1>4, <1>5, <1>6, <1>7, <1>8, <1>9, <1>10, <1>11,
       <1>12, <1>13, <1>14, <1>15, <1>16, <1>17, <1>18, <1>19, <1>20, <1>21,
       <1>22, <1>23, <1>24, <1>25, <1>26, <1>27, <1>28, <1>29, <1>30, <1>31,
       <1>32, <1>33, <1>34, <1>35, <1>36, <1>37, <1>38 DEF Next, VerifierStep,
       BabysitterStep, LaunchStep, KernelStep, CandidateStep, Disturbance

LEMMA SupervisionInvariant == Spec => []SupervisionInv
  <1>1. Init => SupervisionInv
    BY SupervisionInit
  <1>2. TypeOK /\ SupervisionInv /\ [Next]_vars => SupervisionInv'
    BY SupervisionStep
  <1> QED
    BY <1>1, <1>2, TypeCorrect, PTL DEF Spec

\* The launcher never executes beyond its babysitter's life: an armed one dies
\* with it, an unarmed one cannot acknowledge and so never executes.
THEOREM LauncherIsLeashed == Spec => []LauncherLeashed
  <1>1. SupervisionInv => LauncherLeashed
    BY DEF SupervisionInv, Leashed, LauncherLeashed
  <1> QED
    BY <1>1, SupervisionInvariant, PTL

\* When the verifier has a verdict, every process of the phase is dead or has
\* SIGKILL pending, whichever crash, loss or expiry came before.
THEOREM NothingSurvivesPhase == Spec => []NothingSurvives
  <1>1. SupervisionInv => NothingSurvives
    <2> SUFFICES ASSUME Doomed, vpc = "done"
                 PROVE  /\ child = "exec" => "child" \in doomed
                        /\ tree => "tree" \in doomed
      BY Zenon DEF SupervisionInv, NothingSurvives
    <2>1. vpc \in {"cleanupWait", "done"}
      OBVIOUS
    <2> QED
      BY <2>1, Zenon DEF Doomed
  <1> QED
    BY <1>1, SupervisionInvariant, PTL

-----------------------------------------------------------------------------
(* The verdict is what really happened                                     *)

Dead == {"failed", "zero", "nonzero", "signal"}

\* What the babysitter has seen is so.
SeenTruly ==
  /\ seen.sandbox => sandbox
  /\ seen.exit = "zero" => child = "zero"
  /\ seen.exit = "nonzero" => child \in {"nonzero", "failed"}
  /\ seen.exit = "signal" => child = "signal"

\* A launcher that ended by itself did so before the deadline, or after SIGTERM; one
\* that did not get as far says so in the pipe.
EndedTruly ==
  /\ child \in {"zero", "nonzero"} => cause = "own" \/ (cause = "term" /\ seen.fired)
  /\ child = "zero" => sandbox
  /\ child = "failed" => ack # "placed"

Excused == oomKilled \/ seen.stop \/ seen.fired

\* While there is a babysitter, a launcher is killed only for a reason it knows.
CutForCause ==
  /\ bpc # "gone" /\ "child" \in doomed => Excused
  /\ child = "signal" /\ (bpc # "gone" \/ status.state = "finished") => Excused

\* The cgroup and its counters are there until the verifier has read them.
Housed ==
  (bpc \in {"made", "limits"} \/ child # "none") /\ vpc # "done" => "cgroup" \in dirs

\* A finished status stays true after it is written.
ReportedTruly ==
  status.state = "finished" =>
    /\ bpc \in {"exiting", "gone"} /\ seen.exit # "none"
    /\ status.fired = seen.fired /\ status.ack = ack
    /\ status.sandbox => sandbox
    /\ ~ status.left => ~ tree
    /\ bpc = "gone" /\ vpc \in {"waiting", "joining", "returned"} =>
         \/ rc = "signal"
         \/ rc = "zero" /\ seen.exit = "zero"
         \/ rc = "nonzero" /\ seen.exit # "zero"

\* The two verdicts that count, from when they are reached.
JudgedTruly ==
  verdict \in {"success", "failed"} =>
    /\ bpc = "gone" /\ child \in Dead /\ ~ tree
    /\ sandbox /\ ~ oomKilled /\ ~ seen.fired
    /\ verdict = "success" => child = "zero" /\ cause = "own"
    /\ verdict = "failed" =>
         (child = "nonzero" /\ cause = "own") \/ seen.stop \/ rc = "signal"

\* Only a babysitter that is gone has an exit status, and a verdict precedes the
\* clean-up.
Closing ==
  /\ bpc # "gone" => rc = "none"
  /\ vpc \in {"cleanup", "cleanupWait", "done"} => verdict # "none"

EvidenceInv ==
  /\ SeenTruly /\ EndedTruly /\ CutForCause /\ Housed
  /\ ReportedTruly /\ JudgedTruly /\ Closing

LEMMA StatusInState ==
  ASSUME NEW s PROVE StatusIn(s).state = s
  BY DEF StatusIn

LEMMA EvidenceInit == Init => EvidenceInv
  <1> SUFFICES ASSUME Init PROVE EvidenceInv
    OBVIOUS
  <1>1. seen.exit = "none" /\ seen.sandbox = FALSE
    BY DEF Init, NoEvidence
  <1>2. status.state = "none"
    BY StatusInState DEF Init
  <1>3. child = "none" /\ bpc = "none" /\ doomed = {} /\ verdict = "none"
    BY DEF Init
  <1>4. vpc = "entered" /\ rc = "none"
    BY DEF Init
  <1> QED
    BY <1>1, <1>2, <1>3, <1>4 DEF EvidenceInv, SeenTruly, EndedTruly, CutForCause, Housed,
       ReportedTruly, JudgedTruly, Closing

LEMMA ReapedTruly ==
  ASSUME SeenTruly
  PROVE  /\ Reaped = "zero" => child = "zero"
         /\ Reaped = "nonzero" => child \in {"nonzero", "failed"}
         /\ Reaped = "signal" => child = "signal"
  BY DEF SeenTruly, Reaped, ExitOf

\* Each update of the evidence sets what it names and leaves the rest.
LEMMA SeenUpdate ==
  ASSUME seen \in Evidence, NEW e
  PROVE  /\ LET s == [seen EXCEPT !.exit = e]
            IN  s.exit = e /\ s.fired = seen.fired /\ s.stop = seen.stop
                /\ s.sandbox = seen.sandbox
         /\ LET s == [seen EXCEPT !.exit = e, !.fired = TRUE]
            IN  s.exit = e /\ s.fired = TRUE /\ s.stop = seen.stop
                /\ s.sandbox = seen.sandbox
         /\ LET s == [seen EXCEPT !.exit = e, !.killed = TRUE]
            IN  s.exit = e /\ s.fired = seen.fired /\ s.stop = seen.stop
                /\ s.sandbox = seen.sandbox
         /\ LET s == [seen EXCEPT !.stop = TRUE]
            IN  s.exit = seen.exit /\ s.fired = seen.fired /\ s.stop = TRUE
                /\ s.sandbox = seen.sandbox
         /\ LET s == [seen EXCEPT !.sandbox = TRUE]
            IN  s.exit = seen.exit /\ s.fired = seen.fired /\ s.stop = seen.stop
                /\ s.sandbox = TRUE
  BY DEF Evidence

LEMMA EvidenceStep == TypeOK /\ SupervisionInv /\ EvidenceInv /\ [Next]_vars => EvidenceInv'
  <1> SUFFICES ASSUME seen \in Evidence, SupervisionInv, EvidenceInv, [Next]_vars
               PROVE  EvidenceInv'
    BY DEF TypeOK
  <1> USE DEF SupervisionInv, ForkedLate, ReapedDead, Recorded, HandedOver,
      EvidenceInv, SeenTruly, EndedTruly, CutForCause, Excused, Housed, ReportedTruly,
      JudgedTruly, Closing, Dead, vvars, bvars, wvars
  <1>1. CASE Enter
    BY <1>1 DEF Enter
  <1>2. CASE Launch
    BY <1>2 DEF Launch
  <1>3. CASE Reap
    BY <1>3 DEF Reap
  <1>4. CASE Drain
    BY <1>4 DEF Drain
  <1>5. CASE PatienceExpires
    BY <1>5 DEF PatienceExpires, BabysitterDies, Leash, BabysitterAlive
  <1>6. CASE ReadStatus
    <2> DEFINE oom == status.oom \/ (status.state \in {"started", "finished"}
                                       /\ "cgroup" \in dirs /\ oomKilled)
    <2>1. /\ vpc \in {"returned", "expired"} /\ vpc' \in {"cleanup", "done"}
          /\ UNCHANGED <<rc, bvars, wvars>>
      BY <1>6 DEF ReadStatus
    <2>2. verdict' \in {"success", "failed"} =>
            vpc = "returned" /\ verdict' = Classified(status, oom, rc)
      BY <1>6 DEF ReadStatus
    <2>3. verdict' \in {"success", "failed"} =>
            /\ vpc = "returned" /\ status.state = "finished" /\ status.ack = "placed"
            /\ status.sandbox /\ ~ status.left /\ ~ oom /\ ~ status.fired
            /\ verdict' = "success" <=> rc = "zero"
      BY <2>2 DEF Classified
    <2>4. seen.exit \in Exits
      BY DEF Evidence
    <2>5. JudgedTruly'
      BY <2>1, <2>3, <2>4 DEF Exits
    <2>6. (SeenTruly /\ EndedTruly /\ CutForCause /\ Housed /\ ReportedTruly)'
      BY <2>1
    <2>7. Closing'
      <3>1. verdict' # "none"
        BY <1>6 DEF ReadStatus, Classified
      <3> QED
        BY <2>1, <3>1
    <2> QED
      BY <2>5, <2>6, <2>7
  <1>7. CASE CleanupKill
    BY <1>7 DEF CleanupKill, Kill, Members, ChildAlive, ChildInLeaf, Unstarted
  <1>8. CASE CleanupRemove
    BY <1>8 DEF CleanupRemove
  <1>9. CASE OpenLiveness
    BY <1>9, StatusInState DEF OpenLiveness
  <1>10. CASE SetupFails
    BY <1>10, StatusInState DEF SetupFails
  <1>11. CASE WriteStarted
    BY <1>11, StatusInState DEF WriteStarted
  <1>12. CASE Fork
    BY <1>12 DEF Fork
  <1>13. CASE ReadAck
    BY <1>13 DEF ReadAck
  <1>14. CASE PollKill
    BY <1>14, ReapedTruly, SeenUpdate DEF PollKill, Kill, Members, ChildAlive, ChildInLeaf,
       Unstarted, GraceDue
  <1>15. CASE PollDeadline
    BY <1>15, ReapedTruly, SeenUpdate DEF PollDeadline
  <1>16. CASE PollIdle
    BY <1>16, ReapedTruly, SeenUpdate DEF PollIdle
  <1>17. CASE Check
    BY <1>17 DEF Check
  <1>18. CASE FinalKill
    BY <1>18 DEF FinalKill, Kill, Members, ChildAlive, ChildInLeaf, Unstarted
  <1>19. CASE WriteFinished
    BY <1>19 DEF WriteFinished, Populated
  <1>20. CASE Exit
    BY <1>20 DEF Exit, BabysitterDies, Leash, BabysitterAlive
  <1>21. CASE StopRequested
    BY <1>21, SeenUpdate DEF StopRequested, Watching
  <1>22. CASE WatchSandbox
    BY <1>22, SeenUpdate DEF WatchSandbox, Watching
  <1>23. CASE ChildJoin
    BY <1>23 DEF ChildJoin, ChildFails, ChildRuns, ChildAlive, ChildInLeaf, Unstarted
  <1>24. CASE ChildArm
    BY <1>24 DEF ChildArm, ChildFails, ChildRuns, ChildAlive, ChildInLeaf, Unstarted
  <1>25. CASE ChildAck
    BY <1>25 DEF ChildAck, ChildFails, ChildRuns, ChildAlive, ChildInLeaf, Unstarted,
       PipeHasReader, BabysitterAlive
  <1>26. CASE ChildExec
    BY <1>26 DEF ChildExec, ChildFails, ChildRuns, ChildAlive, ChildInLeaf, Unstarted
  <1>27. CASE ChildKilled
    BY <1>27 DEF ChildKilled, ChildRuns, ChildAlive, ChildInLeaf, Unstarted
  <1>28. CASE TreeKilled
    BY <1>28 DEF TreeKilled
  <1>29. CASE TreeLosesLauncher
    BY <1>29 DEF TreeLosesLauncher, ChildRuns, ChildAlive, ChildInLeaf, Unstarted
  <1>30. CASE SandboxStarts
    BY <1>30 DEF SandboxStarts, ChildRuns, ChildAlive, ChildInLeaf, Unstarted
  <1>31. CASE LauncherExits
    BY <1>31 DEF LauncherExits, ChildRuns, ChildAlive, ChildInLeaf, Unstarted
  <1>32. CASE TreeExits
    BY <1>32 DEF TreeExits
  <1>33. CASE OomKill
    BY <1>33 DEF OomKill, Members, ChildAlive, ChildInLeaf, Unstarted
  <1>34. CASE VerifierCrash
    BY <1>34 DEF VerifierCrash
  <1>35. CASE BabysitterLost
    BY <1>35 DEF BabysitterLost, BabysitterDies, Leash, BabysitterAlive
  <1>36. CASE Tick
    BY <1>36 DEF Tick
  <1>37. CASE Terminated
    BY <1>37 DEF Terminated, vars
  <1>38. CASE UNCHANGED vars
    BY <1>38 DEF vars
  <1> QED
    BY <1>1, <1>2, <1>3, <1>4, <1>5, <1>6, <1>7, <1>8, <1>9, <1>10, <1>11, <1>12, <1>13,
       <1>14, <1>15, <1>16, <1>17, <1>18, <1>19, <1>20, <1>21, <1>22, <1>23, <1>24, <1>25,
       <1>26, <1>27, <1>28, <1>29, <1>30, <1>31, <1>32, <1>33, <1>34, <1>35, <1>36, <1>37,
       <1>38 DEF Next, VerifierStep,
       BabysitterStep, LaunchStep, KernelStep, CandidateStep, Disturbance

LEMMA EvidenceInvariant == Spec => []EvidenceInv
  <1>1. Init => EvidenceInv
    BY EvidenceInit
  <1>2. TypeOK /\ SupervisionInv /\ EvidenceInv /\ [Next]_vars => EvidenceInv'
    BY EvidenceStep
  <1> QED
    BY <1>1, <1>2, TypeCorrect, SupervisionInvariant, PTL DEF Spec

\* A phase passes only if its command ran in the sandbox to its own exit 0, before the
\* deadline and without an OOM kill, and left no process behind.
THEOREM SuccessesAreEarned == Spec => []SuccessIsEarned
  <1>1. EvidenceInv => SuccessIsEarned
    BY DEF EvidenceInv, JudgedTruly, SuccessIsEarned
  <1> QED
    BY <1>1, EvidenceInvariant, PTL

\* A phase counts against the candidate only if its command ended by itself, in the
\* sandbox and in time, or someone stopped or killed the babysitter.
THEOREM BlamesAreEarned == Spec => []BlameIsEarned
  <1>1. EvidenceInv => BlameIsEarned
    BY DEF EvidenceInv, JudgedTruly, BlameIsEarned
  <1> QED
    BY <1>1, EvidenceInvariant, PTL

-----------------------------------------------------------------------------
(* The phase keeps its contract                                            *)

LEMMA ContractInit == Init => Contract!Init
  <1> SUFFICES ASSUME Init PROVE Contract!Init
    OBVIOUS
  <1>1. seen.stop = FALSE
    BY DEF Init, NoEvidence
  <1>2. child = "none" /\ vpc = "entered" /\ rc = "none"
    BY DEF Init
  <1> QED
    BY <1>1, <1>2 DEF Contract!Init, Ending

LEMMA ContractStep ==
  TypeOK /\ SupervisionInv /\ EvidenceInv /\ [Next]_vars => [Contract!Next]_(Contract!cvars)
  <1> SUFFICES ASSUME seen \in Evidence, verdict \in Verdicts, SupervisionInv,
                      EvidenceInv, [Next]_vars
               PROVE  Contract!Next \/ UNCHANGED Contract!cvars
    BY DEF TypeOK
  <1> USE DEF SupervisionInv, ForkedLate, ReapedDead, HandedOver, EvidenceInv, EndedTruly,
      JudgedTruly, Closing, Dead, vvars, bvars, wvars, Ending, ChildAlive, Unstarted,
      Contract!Next, Contract!End, Contract!Meddle, Contract!Settle, Contract!Abandon,
      Contract!Permitted, Contract!cvars
  <1>1. CASE Enter
    BY <1>1 DEF Enter
  <1>2. CASE Launch
    BY <1>2 DEF Launch
  <1>3. CASE Reap
    BY <1>3 DEF Reap
  <1>4. CASE Drain
    BY <1>4 DEF Drain
  <1>5. CASE PatienceExpires
    BY <1>5 DEF PatienceExpires, BabysitterDies, Leash, BabysitterAlive
  <1>6. CASE ReadStatus
    BY <1>6 DEF ReadStatus, Classified
  <1>7. CASE CleanupKill
    BY <1>7 DEF CleanupKill, Kill, Members, ChildInLeaf
  <1>8. CASE CleanupRemove
    <2>1. /\ vpc = "cleanupWait" /\ vpc' = "done"
          /\ UNCHANGED <<verdict, rc, seen, child, cause, sandbox>>
      BY <1>8 DEF CleanupRemove
    <2>2. Ending' = Ending /\ seen'.stop = seen.stop
      BY <2>1
    <2>3. verdict = "success" => Ending = "ok"
      OBVIOUS
    <2>4. verdict = "failed" => Ending = "bad" \/ seen.stop \/ rc = "signal"
      OBVIOUS
    <2>5. verdict \in {"success", "failed", "oom", "timeout", "unavailable"}
      BY <2>1 DEF Verdicts
    <2> HIDE DEF Ending
    <2>6. verdict \in Contract!Permitted
      BY <2>3, <2>4, <2>5
    <2>7. Contract!Settle
      BY <2>1, <2>2, <2>6
    <2> QED
      BY <2>7
  <1>9. CASE OpenLiveness
    BY <1>9 DEF OpenLiveness
  <1>10. CASE SetupFails
    BY <1>10 DEF SetupFails
  <1>11. CASE WriteStarted
    BY <1>11 DEF WriteStarted
  <1>12. CASE Fork
    BY <1>12 DEF Fork
  <1>13. CASE ReadAck
    BY <1>13 DEF ReadAck
  <1>14. CASE PollKill
    BY <1>14, SeenUpdate DEF PollKill, Kill, Members, GraceDue, ChildInLeaf
  <1>15. CASE PollDeadline
    BY <1>15, SeenUpdate DEF PollDeadline
  <1>16. CASE PollIdle
    BY <1>16, SeenUpdate DEF PollIdle
  <1>17. CASE Check
    BY <1>17 DEF Check
  <1>18. CASE FinalKill
    BY <1>18 DEF FinalKill, Kill, Members, ChildInLeaf
  <1>19. CASE WriteFinished
    BY <1>19 DEF WriteFinished, Populated
  <1>20. CASE Exit
    BY <1>20 DEF Exit, BabysitterDies, Leash, BabysitterAlive
  <1>21. CASE StopRequested
    BY <1>21, SeenUpdate DEF StopRequested, Watching
  <1>22. CASE WatchSandbox
    BY <1>22, SeenUpdate DEF WatchSandbox, Watching
  <1>23. CASE ChildJoin
    BY <1>23 DEF ChildJoin, ChildFails, ChildRuns, ChildInLeaf
  <1>24. CASE ChildArm
    BY <1>24 DEF ChildArm, ChildFails, ChildRuns, ChildInLeaf
  <1>25. CASE ChildAck
    BY <1>25 DEF ChildAck, ChildFails, ChildRuns, PipeHasReader, BabysitterAlive, ChildInLeaf
  <1>26. CASE ChildExec
    BY <1>26 DEF ChildExec, ChildFails, ChildRuns, ChildInLeaf
  <1>27. CASE ChildKilled
    BY <1>27 DEF ChildKilled, ChildRuns, ChildInLeaf
  <1>28. CASE TreeKilled
    BY <1>28 DEF TreeKilled
  <1>29. CASE TreeLosesLauncher
    BY <1>29 DEF TreeLosesLauncher, ChildRuns, ChildInLeaf
  <1>30. CASE SandboxStarts
    BY <1>30 DEF SandboxStarts, ChildRuns, ChildInLeaf
  <1>31. CASE LauncherExits
    BY <1>31 DEF LauncherExits, ChildRuns, ChildInLeaf
  <1>32. CASE TreeExits
    BY <1>32 DEF TreeExits
  <1>33. CASE OomKill
    BY <1>33 DEF OomKill, Members, ChildInLeaf
  <1>34. CASE VerifierCrash
    BY <1>34 DEF VerifierCrash
  <1>35. CASE BabysitterLost
    BY <1>35 DEF BabysitterLost, BabysitterDies, Leash, BabysitterAlive
  <1>36. CASE Tick
    BY <1>36 DEF Tick
  <1>37. CASE Terminated
    BY <1>37 DEF Terminated, vars
  <1>38. CASE UNCHANGED vars
    BY <1>38 DEF vars
  <1> QED
    BY <1>1, <1>2, <1>3, <1>4, <1>5, <1>6, <1>7, <1>8, <1>9, <1>10, <1>11, <1>12, <1>13,
       <1>14, <1>15, <1>16, <1>17, <1>18, <1>19, <1>20, <1>21, <1>22, <1>23, <1>24, <1>25,
       <1>26, <1>27, <1>28, <1>29, <1>30, <1>31, <1>32, <1>33, <1>34, <1>35, <1>36, <1>37,
       <1>38 DEF Next, VerifierStep,
       BabysitterStep, LaunchStep, KernelStep, CandidateStep, Disturbance

\* Every step of the phase, under every disturbance, is a step of its contract or leaves
\* it alone: it settles once, on a verdict that the end of its command permits.
THEOREM PhaseKeepsContract == Spec => KeepsContract
  <1>1. Init => Contract!Init
    BY ContractInit
  <1>2. TypeOK /\ SupervisionInv /\ EvidenceInv /\ [Next]_vars => [Contract!Next]_(Contract!cvars)
    BY ContractStep
  <1> QED
    BY <1>1, <1>2, TypeCorrect, SupervisionInvariant, EvidenceInvariant, PTL
       DEF Spec, KeepsContract, Contract!Spec

-----------------------------------------------------------------------------
(* The verifier's patience                                                 *)

\* The budget covers the launch, the deadline and the grace, and the margin the
\* launch, of the verifier and of the chain behind it.
Ample ==
  /\ Timeout > 0 /\ Margin >= 2 * Lag
  /\ \A b \in Budgets : b >= Lag + Timeout + Grace + Margin

\* When the parties' clocks start, and that the verifier's has the longest way to go.
Patient ==
  /\ budgetEnd \in Budgets
  /\ vpc \in {"entered", "prepared"} => now <= Lag
  /\ vpc = "prepared" => deadline \in 1 .. Timeout
  /\ bpc = "boot" => now <= 2 * Lag
  /\ bpc \notin {"none", "boot", "gone"} => startedAt \in 0 .. 2 * Lag
  /\ vpc = "waiting" =>
       /\ bpc # "none" /\ deadline > 0
       /\ expiry >= deadline + Grace + Margin

LEMMA PatientInit == Init => Patient
  <1>1. Init => now = 0 /\ vpc = "entered" /\ bpc = "none" /\ budgetEnd \in Budgets
    BY DEF Init
  <1>2. 0 <= Lag
    BY TimesAssumption DEF TimesAssumption
  <1> QED
    BY <1>1, <1>2 DEF Patient

\* What a step leaves alone while no clock starts.
LEMMA PatientStays ==
  ASSUME Patient, UNCHANGED <<now, budgetEnd, deadline, expiry, startedAt>>,
         vpc' = vpc \/ vpc' \notin {"entered", "prepared", "waiting"},
         \/ bpc' = bpc \/ bpc' = "gone"
         \/ bpc \notin {"none", "boot", "gone"} /\ bpc' \notin {"none", "boot"}
  PROVE  Patient'
  BY DEF Patient

LEMMA PatientStep ==
  ASSUME Ample, TypeOK, Patient, [Next]_vars
  PROVE  Patient'
  <1>0. /\ Timeout \in Nat /\ Grace \in Nat /\ Margin \in Nat /\ Lag \in Nat
        /\ now \in Nat /\ budgetEnd \in Nat
    BY TimesAssumption DEF TimesAssumption, TypeOK
  <1>1. CASE Enter
    BY <1>0, <1>1 DEF Enter, Remaining, Min2, Patient, Ample, bvars
  <1>2. CASE Launch
    <2>1. /\ UNCHANGED <<now, budgetEnd, deadline, startedAt>>
          /\ \/ vpc' = "done" /\ UNCHANGED bpc
             \/ /\ vpc' = "waiting" /\ bpc' = "boot"
                /\ expiry' = now + Min2(Patience, Remaining)
      BY <1>2 DEF Launch
    <2>2. now <= Lag /\ deadline \in 1 .. Timeout /\ budgetEnd >= Lag + Timeout + Grace + Margin
      BY <1>2 DEF Launch, Patient, Ample
    <2>3. now + Min2(Patience, Remaining) >= deadline + Grace + Margin
      BY <1>0, <2>2 DEF Min2, Patience, Remaining
    <2> QED
      BY <1>0, <2>1, <2>2, <2>3 DEF Patient
  <1>3. CASE OpenLiveness
    <2>1. /\ bpc = "boot" /\ UNCHANGED <<now, vpc, budgetEnd, deadline, expiry>>
          /\ \/ bpc' = "made" /\ startedAt' = now
             \/ bpc' = "gone"
      BY <1>3 DEF OpenLiveness
    <2> QED
      BY <1>0, <2>1 DEF Patient
  <1>4. CASE Tick
    <2>1. /\ now' = now + 1 /\ UNCHANGED <<budgetEnd, deadline, expiry, startedAt, vpc, bpc>>
          /\ vpc \in {"entered", "prepared"} => now < Lag
          /\ bpc = "boot" => now < 2 * Lag
      BY <1>4 DEF Tick, vvars, bvars
    <2> QED
      BY <1>0, <2>1 DEF Patient
  <1>5. CASE VerifierStep /\ ~ Enter /\ ~ Launch
    <2>1. /\ UNCHANGED <<now, budgetEnd, deadline, expiry, startedAt>>
          /\ vpc' \notin {"entered", "prepared", "waiting"}
          /\ bpc' = bpc \/ bpc' = "gone"
      BY <1>5 DEF VerifierStep, Reap, Drain, PatienceExpires, BabysitterDies, ReadStatus,
         CleanupKill, CleanupRemove, bvars
    <2> QED
      BY <2>1, PatientStays
  <1>6. CASE BabysitterStep /\ ~ OpenLiveness
    <2>1. UNCHANGED <<now, vpc, budgetEnd, deadline, expiry, startedAt>>
      BY <1>6 DEF BabysitterStep, SetupFails, WriteStarted, Fork, ReadAck, PollKill,
         PollDeadline, PollIdle, Check, FinalKill, WriteFinished, Exit, vvars
    <2>2. \/ bpc' = "gone"
          \/ bpc \notin {"none", "boot", "gone"} /\ bpc' \notin {"none", "boot"}
      BY <1>6 DEF BabysitterStep, SetupFails, WriteStarted, Fork, ReadAck, PollKill,
         PollDeadline, PollIdle, Check, FinalKill, WriteFinished, Exit, BabysitterDies
    <2> QED
      BY <2>1, <2>2, PatientStays
  <1>7. CASE Disturbance
    <2>1. /\ UNCHANGED <<now, budgetEnd, deadline, expiry, startedAt>>
          /\ vpc' = vpc \/ vpc' \notin {"entered", "prepared", "waiting"}
          /\ bpc' = bpc \/ bpc' = "gone"
      BY <1>7 DEF Disturbance, VerifierCrash, BabysitterLost, BabysitterDies, bvars
    <2> QED
      BY <2>1, PatientStays
  <1>8. CASE \/ StopRequested \/ WatchSandbox \/ LaunchStep \/ KernelStep \/ CandidateStep
             \/ Terminated \/ UNCHANGED vars
    <2>1. UNCHANGED <<now, vpc, budgetEnd, deadline, expiry, startedAt, bpc>>
      BY <1>8 DEF StopRequested, WatchSandbox, LaunchStep, ChildJoin, ChildArm, ChildAck,
         ChildExec, KernelStep, ChildKilled, TreeKilled, TreeLosesLauncher, CandidateStep,
         SandboxStarts, LauncherExits, TreeExits, OomKill, Terminated, vars, vvars, bvars
    <2> QED
      BY <2>1, PatientStays
  <1> QED
    BY <1>1, <1>2, <1>3, <1>4, <1>5, <1>6, <1>7, <1>8 DEF Next

LEMMA GraceStep ==
  ASSUME Ample, TypeOK, Patient, PatienceExpires
  PROVE  \/ bpc = "gone"
         \/ startedAt # Never /\ now - startedAt >= deadline + Grace
  <1> SUFFICES ASSUME bpc # "gone"
               PROVE  startedAt # Never /\ now - startedAt >= deadline + Grace
    OBVIOUS
  <1>1. /\ Grace \in Nat /\ Margin \in Nat /\ Lag \in Nat
        /\ now \in Nat /\ deadline \in Nat /\ expiry \in Nat
    BY TimesAssumption DEF TimesAssumption, TypeOK
  <1>2. /\ bpc # "none" /\ deadline > 0 /\ now >= expiry
        /\ expiry >= deadline + Grace + Margin
    BY DEF PatienceExpires, Patient
  <1>3. bpc # "boot"
    BY <1>1, <1>2 DEF Patient, Ample
  <1>4. startedAt \in 0 .. 2 * Lag
    BY <1>2, <1>3 DEF Patient
  <1> QED
    BY <1>1, <1>2, <1>4 DEF Ample, Never

\* With a budget that does not bind, run() kills the babysitter only after it has
\* had its deadline and its grace, as the comment in sandboxed_run says.
THEOREM GraceIsGiven ==
  ASSUME Ample
  PROVE  Spec => FullGrace
  <1>1. TypeOK /\ Patient /\ [Next]_vars => Patient'
    BY PatientStep
  <1>2. TypeOK /\ Patient /\ [Next]_vars
          => [PatienceExpires => \/ bpc = "gone"
                                 \/ startedAt # Never /\ now - startedAt >= deadline + Grace]_vars
    BY GraceStep
  <1> QED
    BY <1>1, <1>2, PatientInit, TypeCorrect, PTL DEF Spec, FullGrace
=============================================================================
