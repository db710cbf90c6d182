-------------------------- MODULE TrustedDownload --------------------------
(***************************************************************************)
(* trusted_download.py: one authenticated download within a budget of      *)
(* time, and checker_updates.py, which takes a verification's con-ron from *)
(* one.  A client is "elan" (a step of the jobs), "checker" (a toolchain   *)
(* with a pinned update) or "bundled" (one without).                       *)
(*                                                                         *)
(* A unit of time is five seconds, the first delay and the grace of the    *)
(* subprocess; a budget that is already overspent is 0.                    *)
(*                                                                         *)
(* A variant before an operator is a slip that PROJECT.json's "mutants"    *)
(* put in its place; nothing else uses it.                                 *)
(***************************************************************************)
EXTENDS Integers

CONSTANTS
  Budgets,   \* what min(300 s, the end of the job) may leave
  Hints      \* what a Retry-After header may ask for, in units

ASSUME BudgetsAssumption == Budgets \subseteq Nat
ASSUME HintsAssumption == Hints \subseteq Nat

VARIABLES
  client,
  attempt,      \* requests made
  left,         \* time to the deadline
  transfer,     \* "asking", "busy", or how download ended
  destination,  \* the bytes at the destination
  checker,      \* the con-ron of the verification
  blame         \* the error of materialize_checker

download == <<attempt, left, transfer, destination>>

Attempts == 3
Grace == 1
LongestPause == 12

Ended == {"ok", "authentication", "permanent", "transient", "timeout"}

NoBlame == [owner |-> "none", retryable |-> FALSE]

DownloadTypeOK ==
    /\ client \in {"elan", "checker", "bundled"}
    /\ attempt \in 0 .. Attempts
    /\ left \in Int
    /\ transfer \in {"asking", "busy"} \cup Ended
    /\ destination \in {"none", "genuine", "forged"}
    /\ checker \in {"unset", "bundled", "pinned", "failed"}
    /\ blame \in {NoBlame} \cup [owner : {"palomar", "provider"}, retryable : BOOLEAN]

DownloadInit ==
    /\ attempt = 0
    /\ left \in Budgets
    /\ transfer = "asking"
    /\ destination = "none"
    /\ checker = "unset"
    /\ blame = NoBlame

-----------------------------------------------------------------------------
\* retry_delay after the n-th request: a header's, up to a minute, or else its own.
RetryDelays(n) ==
    {IF hint < LongestPause THEN hint ELSE LongestPause : hint \in Hints}
    \cup {IF n = 1 THEN 1 ELSE 4}

\* Only what has the pinned digest replaces the destination.
Deliver(answer) ==
    destination' = IF answer = "genuine" THEN answer ELSE destination

OutcomeOnceMore(answer, n) ==
    CASE answer = "genuine" -> "ok"
      [] answer = "forged"  -> "authentication"
      [] answer = "refused" -> "permanent"
      [] answer = "busy"    -> IF n <= Attempts THEN "busy" ELSE "transient"

Outcome(answer, n) ==
    CASE answer = "genuine" -> "ok"
      [] answer = "forged"  -> "authentication"
      [] answer = "refused" -> "permanent"
      [] answer = "busy"    -> IF n < Attempts THEN "busy" ELSE "transient"

\* curl has what is left; a curl that overruns that is killed a little later.
Ask ==
    /\ client # "bundled" /\ checker = "unset"
    /\ transfer = "asking" /\ left > 0
    /\ attempt' = attempt + 1
    /\ \/ \E took \in {1, left}, answer \in {"genuine", "forged", "refused", "busy"} :
            /\ left' = left - took
            /\ transfer' = Outcome(answer, attempt + 1)
            /\ Deliver(answer)
       \/ /\ left' = -Grace
          /\ transfer' = "timeout"
          /\ UNCHANGED destination
    /\ UNCHANGED <<client, checker, blame>>

BackoffPastDeadline ==
    /\ transfer = "busy"
    /\ \E pause \in RetryDelays(attempt) : left' = left - pause
    /\ transfer' = "asking"
    /\ UNCHANGED <<client, attempt, destination, checker, blame>>

\* No sleep that the deadline would cut short.
Backoff ==
    /\ transfer = "busy"
    /\ \E pause \in RetryDelays(attempt) :
         IF pause >= left
         THEN transfer' = "transient" /\ UNCHANGED left
         ELSE transfer' = "asking" /\ left' = left - pause
    /\ UNCHANGED <<client, attempt, destination, checker, blame>>

GiveUp ==
    /\ client # "bundled" /\ checker = "unset"
    /\ transfer = "asking" /\ left <= 0
    /\ transfer' = "transient"
    /\ UNCHANGED <<client, attempt, left, destination, checker, blame>>

Download == Ask \/ Backoff \/ GiveUp

-----------------------------------------------------------------------------
(* materialize_checker                                                     *)

\* What each error but that of an archive's extraction is recorded as.
BlameFor(end) ==
    [owner |-> IF end \in {"transient", "timeout", "permanent"} THEN "provider" ELSE "palomar",
     retryable |-> end \in {"transient", "timeout"}]

\* A manifest that does not parse is a policy error, with or without a revision.
SelectChecker ==
    /\ client # "elan" /\ checker = "unset"
    /\ \/ client = "bundled" /\ checker' = "bundled" /\ UNCHANGED blame
       \/ attempt = 0 /\ checker' = "failed" /\ blame' = BlameFor("policy")
    /\ UNCHANGED <<client, attempt, left, transfer, destination>>

RefuseChecker ==
    /\ client = "checker" /\ checker = "unset"
    /\ transfer \in Ended \ {"ok"}
    /\ checker' = "failed"
    /\ blame' = BlameFor(transfer)
    /\ UNCHANGED <<client, attempt, left, transfer, destination>>

\* tar writes one member to a pipe, and the archive goes either way.
ExtractChecker ==
    /\ client = "checker" /\ checker = "unset"
    /\ transfer = "ok"
    /\ \/ checker' = "pinned" /\ UNCHANGED blame
       \/ /\ checker' = "failed"
          /\ \E end \in {"digest", "tar", "timeout"} : blame' = BlameFor(end)
    /\ destination' = "none"
    /\ UNCHANGED <<client, attempt, left, transfer>>

-----------------------------------------------------------------------------
\* What a job runs from a download has the pinned digest, and a verification whose
\* checker has a pinned update runs that checker or none: no failure of the download
\* or of the archive falls back to the bundled one.
ToolsAreAuthentic ==
    /\ destination # "forged"
    /\ client = "checker" => checker # "bundled"

\* However the provider answers, a download ends within its budget and the grace of
\* one subprocess; it reports an outage only after all of its attempts, or with less
\* time left than the provider may ask it to wait; and only an outage, never a
\* refusal or a wrong digest, is reported as worth a retry.
DownloadIsBounded ==
    /\ left + Grace >= 0
    /\ transfer = "transient" => attempt = Attempts \/ left <= LongestPause
    /\ blame.retryable /\ transfer # "ok" => transfer \in {"transient", "timeout"}
=============================================================================
