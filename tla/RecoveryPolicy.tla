--------------------------- MODULE RecoveryPolicy ---------------------------
(***************************************************************************)
(* The decision of RecoveryController.evaluate (core/recovery.py), as a    *)
(* function of what it reads: the recovery history persisted in DataHub,   *)
(* whether the fresh checks are complete and pass, and the human approval. *)
(* A history is the sequence of the "clean" flags of past evaluations.     *)
(***************************************************************************)
EXTENDS Naturals, Sequences

CONSTANTS
    CleanRuns,       \* recovery_policy.consecutive_clean_runs
    AllowOneClean    \* recovery_policy.allow_one_clean_with_human_approval

ASSUME PolicyAssumption == CleanRuns \in Nat \ {0} /\ AllowOneClean \in BOOLEAN

ControlStates == {"AT_RISK", "QUARANTINED", "RECOVERY_PENDING", "RESOLVED"}

\* Mutant of EndsClean: the evaluation that runs now is counted twice.
EndsCleanEarly(h, n) == Len(h) >= n - 1 /\ \A k \in (Len(h) - n + 2)..Len(h) : h[k]

\* The last n evaluations of history h exist and were clean.
EndsClean(h, n) == Len(h) >= n /\ \A k \in (Len(h) - n + 1)..Len(h) : h[k]

ApprovedByHistory(h) == EndsClean(h, CleanRuns)

\* Mutant of ApprovedByHuman: an approval stands in for the clean run.
ApprovedByHumanAlone(clean, authorized) == authorized /\ AllowOneClean

\* authorized: a human approval is attached and says production_authorized.
ApprovedByHuman(clean, authorized) == clean /\ authorized /\ AllowOneClean

\* h is the history with the result of this evaluation appended.
Resume(h, clean, authorized) ==
    (clean /\ ApprovedByHistory(h)) \/ ApprovedByHuman(clean, authorized)

NextState(previous, clean, resume) ==
    CASE resume -> "RESOLVED"
      [] ~resume /\ clean -> "RECOVERY_PENDING"
      [] ~resume /\ ~clean ->
            IF previous = "QUARANTINED" THEN "QUARANTINED" ELSE "AT_RISK"
=============================================================================
