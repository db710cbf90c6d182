--------------------------- MODULE PhaseContract ---------------------------
(***************************************************************************)
(* What a confined phase promises its caller: the command ends in one of   *)
(* four ways, the phase settles once, and the settled verdict is one the   *)
(* ending permits.  A verdict that the candidate answers for needs an      *)
(* ending that was the candidate's own, unless somebody outside the        *)
(* verifier interfered with the supervision.                               *)
(***************************************************************************)

VARIABLES
  ending,      \* how the command ended
  meddled,     \* a third party signalled the babysitter
  stage,       \* "open", then "settled", or "abandoned" by a dying verifier
  verdict

cvars == <<ending, meddled, stage, verdict>>

Init ==
  /\ ending = "pending" /\ meddled = FALSE /\ stage = "open" /\ verdict = "none"

\* The command exits 0, exits otherwise, or is cut short: by a limit, by the
\* deadline, by a kill, or because it never started.
End ==
  /\ ending = "pending"
  /\ ending' \in {"ok", "bad", "cut"}
  /\ UNCHANGED <<meddled, stage, verdict>>

Meddle ==
  /\ meddled' = TRUE
  /\ UNCHANGED <<ending, stage, verdict>>

\* Resource verdicts and missing evidence are always open to the supervisor;
\* the two others are earned.
Permitted ==
  {"oom", "timeout", "unavailable"}
    \cup (IF ending = "ok" THEN {"success"} ELSE {})
    \cup (IF ending = "bad" \/ meddled THEN {"failed"} ELSE {})

Settle ==
  /\ stage = "open"
  /\ stage' = "settled"
  /\ verdict' \in Permitted
  /\ UNCHANGED <<ending, meddled>>

Abandon ==
  /\ stage = "open"
  /\ stage' = "abandoned"
  /\ UNCHANGED <<ending, meddled, verdict>>

Next == End \/ Meddle \/ Settle \/ Abandon

Spec == Init /\ [][Next]_cvars
=============================================================================
