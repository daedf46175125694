------------------------- MODULE MCRepairLifecycle --------------------------
(* Model values, symmetry and a later starting point for RepairLifecycle.  *)
EXTENDS RepairLifecycle, TLC

CONSTANTS c1, r1

Symmetry == Permutations(Requests) \cup Permutations(Commits)

\* The state after one publication, verification, approval and application,
\* each by worker r1 on commit c1, before any recovery.
Published == [Proposed EXCEPT !.status = "PUBLISHED", !.change = c1]
Verified == [Published EXCEPT !.status = "VERIFIED", !.verification = c1]
Approved(production) == [Verified EXCEPT !.status = "APPROVED",
    !.approval = [commit |-> c1, decision |-> "APPROVE", by |-> r1, production |-> production]]
Applied(production) == [Approved(production) EXCEPT !.status = "APPLIED", !.application = c1]
LogWritten == [type |-> "DECISION_LOG_WRITTEN", clean |-> FALSE]

AppliedInit ==
    /\ \E p \in Authorities :
       stream = << [type |-> "REPAIR_BUNDLE_CREATED", bundle |-> Proposed],
                   [type |-> "REPAIR_PUBLISHED", bundle |-> Published], LogWritten,
                   [type |-> "REPAIR_VERIFIED", bundle |-> Verified], LogWritten,
                   [type |-> "APPROVAL_RECORDED", bundle |-> Approved(p)], LogWritten,
                   [type |-> "REPAIR_APPLIED", bundle |-> Applied(p)], LogWritten >>
    /\ log = [status |-> "APPLIED", resume |-> FALSE]
    /\ branch = c1 /\ head = c1 /\ used = Commits /\ deployed = {c1}
    /\ control = [state |-> "AT_RISK", history |-> <<>>, policy |-> "HALT",
                  authorized |-> FALSE]
    /\ released = {}
    /\ native = "ACTIVE"
    /\ state = "QUARANTINED"
    /\ request = [r \in Requests |-> Idle]
    /\ operator = MaxOperator

AppliedSpec == AppliedInit /\ [][Next]_vars

\* Both starting points at once.  From Init a stream is followed up to 7 events,
\* from AppliedInit, which no operator and no second commit disturb, from 9 on.
BothSpec == (Init \/ AppliedInit) /\ [][Next]_vars
Horizon == Len(stream) # 8
=============================================================================
