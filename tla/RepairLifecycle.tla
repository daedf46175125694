--------------------------- MODULE RepairLifecycle --------------------------
(***************************************************************************)
(* The repair and recovery of one incident whose live run has completed:   *)
(* the handlers publish_repair, verify_repair, approve_repair,             *)
(* apply_repair and recover of api/runtime.py, which FastAPI runs on       *)
(* concurrent worker threads, over the state they share: the event stream  *)
(* of the run, the Git repository of the repair, the staging deployment,   *)
(* and the DataHub control asset, native Incident and Decision Log.        *)
(*                                                                         *)
(* No lock spans a handler.  Each reads the latest repair bundle from the  *)
(* stream, calls an external system, builds the next bundle from the one   *)
(* it read, writes the Decision Log, and only then appends its event.  The *)
(* four repair handlers load a fresh recorder for each event they append;  *)
(* recover keeps the one it loaded first, so its appends are refused once  *)
(* another handler appended.  A handler can stop between any two of its    *)
(* steps: an external call raises, an append is refused, the process dies. *)
(*                                                                         *)
(* append_event is one step here: RunStore shows that it commits at the    *)
(* write of the manifest, whatever interleaves with it.                    *)
(***************************************************************************)
EXTENDS RecoveryPolicy, FiniteSets

CONSTANTS
    Requests,             \* worker threads
    Commits,              \* commits that publications create
    Assets,               \* controlled assets other than the control asset
    None,
    Authorities,          \* production_authorized of the authorities that sign
    MaxEvents,            \* bound: lifecycle and evidence events in the stream
    MaxEvaluations,       \* bound: evaluations in the recovery history
    MaxOperator           \* bound: operator interventions in the repository

ASSUME LifecycleAssumption ==
    /\ None \notin Commits
    /\ Authorities \subseteq BOOLEAN
    /\ MaxEvents \in Nat /\ MaxEvaluations \in Nat /\ MaxOperator \in Nat

VARIABLES
    stream,      \* the events of the run from REPAIR_BUNDLE_CREATED on
    log,         \* customProperties of the native Decision Log
    branch,      \* the commit that the repair branch points to, or None
    head,        \* the commit checked out in the repair repository, or None
    used,        \* commits that were ever created
    deployed,    \* commits released to synthetic staging
    control,     \* sciguard properties of the control asset in DataHub
    released,    \* the controlled assets that were marked RESOLVED / ALLOW
    native,      \* status of the native DataHub Incident
    state,       \* incident_state in the run manifest
    request,     \* request[r]: what worker r executes
    operator     \* operator interventions so far

repository == <<branch, head, used>>
datahub == <<log, control, released, native>>
vars == <<stream, log, branch, head, used, deployed, control, released, native,
          state, request, operator>>

-----------------------------------------------------------------------------
(* Bundles, events and requests                                            *)

\* RepairBundle, reduced to its status and the receipts that bind it.  An
\* approval receipt names the commit it is for, the request it was signed in and
\* whether it authorizes production.
Bundle == [status: {"PROPOSED", "PUBLISHED", "VERIFIED", "APPROVED", "REJECTED", "APPLIED"},
           change: Commits \cup {None},
           verification: Commits \cup {None},
           approval: [commit: Commits, decision: {"APPROVE", "REJECT"}, by: Requests,
                      production: BOOLEAN] \cup {None},
           application: Commits \cup {None}]

Proposed == [status |-> "PROPOSED", change |-> None, verification |-> None,
             approval |-> None, application |-> None]

Lifecycle == {"REPAIR_BUNDLE_CREATED", "REPAIR_PUBLISHED", "REPAIR_VERIFIED",
              "APPROVAL_RECORDED", "REPAIR_APPLIED"}

\* Types of the other events, with what they say: a fresh verification is clean
\* or not, the other reports carry nothing the handlers read.
Reports == {"RECOVERY_EVIDENCE_REFRESHED", "RECOVERY_CHECKED", "INCIDENT_RESOLVED",
            "DATAHUB_INCIDENT_WRITTEN", "DECISION_LOG_WRITTEN"}

Event == [type: Lifecycle, bundle: Bundle] \cup [type: Reports, clean: BOOLEAN]

Idle == [op |-> "idle", pc |-> "done", bundle |-> Proposed, decision |-> "APPROVE",
         seen |-> 0, authorized |-> FALSE, clean |-> FALSE, history |-> <<>>,
         previous |-> "AT_RISK", resume |-> FALSE, left |-> {}]

Request == [op: {"idle", "publish", "verify", "approve", "apply", "recover"},
            pc: {"done", "act", "log", "emit", "emitLog", "refresh", "read", "write",
                 "assets", "report", "incident", "emitIncident", "state"},
            bundle: Bundle, decision: {"APPROVE", "REJECT"},
            seen: Nat, authorized: BOOLEAN, clean: BOOLEAN,
            history: Seq(BOOLEAN), previous: ControlStates, resume: BOOLEAN,
            left: SUBSET Assets]

TypeOK ==
    /\ stream \in Seq(Event)
    /\ log \in [status: {"PROPOSED", "PUBLISHED", "VERIFIED", "APPROVED", "REJECTED",
                         "APPLIED"}, resume: BOOLEAN]
    /\ branch \in Commits \cup {None} /\ head \in Commits \cup {None}
    /\ used \subseteq Commits /\ deployed \subseteq Commits
    /\ control \in [state: ControlStates, history: Seq(BOOLEAN),
                    policy: {"HALT", "ALLOW"}, authorized: BOOLEAN]
    /\ released \subseteq Assets
    /\ native \in {"ACTIVE", "RESOLVED"}
    /\ state \in ControlStates
    /\ request \in [Requests -> Request]
    /\ operator \in Nat

Init ==
    /\ stream = <<[type |-> "REPAIR_BUNDLE_CREATED", bundle |-> Proposed]>>
    /\ log = [status |-> "PROPOSED", resume |-> FALSE]
    /\ branch = None /\ head = None /\ used = {} /\ deployed = {}
    /\ control = [state |-> "AT_RISK", history |-> <<>>, policy |-> "HALT",
                  authorized |-> FALSE]
    /\ released = {}
    /\ native = "ACTIVE"
    /\ state = "QUARANTINED"
    /\ request = [r \in Requests |-> Idle]
    /\ operator = 0

\* _latest_repair_bundle
LifecycleIndexes == {k \in DOMAIN stream : stream[k].type \in Lifecycle}
Latest ==
    stream[CHOOSE k \in LifecycleIndexes : \A j \in LifecycleIndexes : j <= k].bundle

Step(r, pc) == request[r].pc = pc /\ request[r].op # "idle"
Goto(r, pc) == request' = [request EXCEPT ![r].pc = pc]
Return(r) == request' = [request EXCEPT ![r] = Idle]

\* The event the run stream gains; a bound on how long the stream gets.
Add(event) == Len(stream) < MaxEvents /\ stream' = Append(stream, event)
Report(type, clean) == Add([type |-> type, clean |-> clean])

-----------------------------------------------------------------------------
(* The four repair handlers                                                *)

\* What an operation requires of the bundle it reads.
Required == [publish |-> "PROPOSED", verify |-> "PUBLISHED",
             approve |-> "VERIFIED", apply |-> "APPROVED"]

Begin(r, op, decision) ==
    /\ request[r].op = "idle"
    /\ Latest.status = Required[op]
    /\ op # "approve" => decision = "APPROVE"
    /\ request' = [request EXCEPT ![r] =
           [Idle EXCEPT !.op = op, !.pc = "act", !.bundle = Latest, !.decision = decision]]
    /\ UNCHANGED <<stream, datahub, repository, deployed, state, operator>>

\* The handler holds the bundle it will append.
Acted(r, bundle) ==
    request' = [request EXCEPT ![r].bundle = bundle, ![r].pc = "log"]

\* LocalGitChangePublisher.publish and attach_change_receipt: the branch of the
\* bundle is committed once; a retry returns the receipt of the commit it finds.
Publish(r) ==
    /\ Step(r, "act") /\ request[r].op = "publish"
    /\ IF branch = None
       THEN \E c \in Commits \ used :
                branch' = c /\ head' = c /\ used' = used \cup {c}
       ELSE UNCHANGED repository
    /\ Acted(r, [request[r].bundle EXCEPT !.status = "PUBLISHED", !.change = branch'])
    /\ UNCHANGED <<stream, datahub, deployed, state, operator>>

\* LocalVerificationEngine.verify runs only at the published commit, and a
\* failing check is refused by attach_verification_receipt (see Leave).
Verify(r) ==
    LET c == request[r].bundle.change IN
    /\ Step(r, "act") /\ request[r].op = "verify"
    /\ head = c /\ branch = c
    /\ Acted(r, [request[r].bundle EXCEPT !.status = "VERIFIED", !.verification = c])
    /\ UNCHANGED <<stream, datahub, repository, deployed, state, operator>>

\* Mutant of Approve: the decision is stored as the status.
ApproveRaw(r) ==
    /\ Step(r, "act") /\ request[r].op = "approve"
    /\ request[r].bundle.change = request[r].bundle.verification
    /\ \E production \in Authorities : Acted(r, [request[r].bundle EXCEPT
           !.status = request[r].decision,
           !.approval = [commit |-> request[r].bundle.verification,
                         decision |-> request[r].decision, by |-> r,
                         production |-> production]])
    /\ UNCHANGED <<stream, datahub, repository, deployed, state, operator>>

\* ApprovalAuthority.record and attach_approval_receipt
Approve(r) ==
    LET b == request[r].bundle IN
    /\ Step(r, "act") /\ request[r].op = "approve"
    /\ b.change = b.verification
    /\ \E production \in Authorities : Acted(r, [b EXCEPT
           !.status = IF request[r].decision = "APPROVE" THEN "APPROVED" ELSE "REJECTED",
           !.approval = [commit |-> b.verification, decision |-> request[r].decision,
                         by |-> r, production |-> production]])
    /\ UNCHANGED <<stream, datahub, repository, deployed, state, operator>>

\* Mutant of Apply: what is checked out is released, whatever was approved.
ApplyHead(r) ==
    LET b == request[r].bundle IN
    /\ Step(r, "act") /\ request[r].op = "apply"
    /\ b.approval.commit = b.change /\ b.verification = b.change
    /\ head # None
    /\ deployed' = deployed \cup {head}
    /\ Acted(r, [b EXCEPT !.status = "APPLIED", !.application = b.change])
    /\ UNCHANGED <<stream, datahub, repository, state, operator>>

\* LocalStagingApplicator.apply and attach_application_receipt: a commit that is
\* already released yields the receipt of its release.
Apply(r) ==
    LET b == request[r].bundle IN
    /\ Step(r, "act") /\ request[r].op = "apply"
    /\ b.approval.commit = b.change /\ b.verification = b.change
    /\ head = b.change
    /\ deployed' = deployed \cup {b.change}
    /\ Acted(r, [b EXCEPT !.status = "APPLIED", !.application = b.change])
    /\ UNCHANGED <<stream, datahub, repository, state, operator>>

\* write_decision_log replaces the whole document.
WriteLog(r) ==
    /\ Step(r, "log")
    /\ log' = [status |-> request[r].bundle.status, resume |-> request[r].resume]
    /\ Goto(r, IF request[r].op = "recover" THEN "emitIncident" ELSE "emit")
    /\ UNCHANGED <<stream, control, released, native, repository, deployed, state, operator>>

EventOf == [publish |-> "REPAIR_PUBLISHED", verify |-> "REPAIR_VERIFIED",
            approve |-> "APPROVAL_RECORDED", apply |-> "REPAIR_APPLIED"]

\* _recorder(...).emit of the lifecycle event, with the bundle built above
EmitLifecycle(r) ==
    /\ Step(r, "emit")
    /\ Add([type |-> EventOf[request[r].op], bundle |-> request[r].bundle])
    /\ Goto(r, "emitLog")
    /\ UNCHANGED <<datahub, repository, deployed, state, operator>>

\* _recorder(...).emit of DECISION_LOG_WRITTEN
EmitLogWritten(r) ==
    /\ Step(r, "emitLog") /\ request[r].op # "recover"
    /\ Report("DECISION_LOG_WRITTEN", FALSE)
    /\ Return(r)
    /\ UNCHANGED <<datahub, repository, deployed, state, operator>>

-----------------------------------------------------------------------------
(* recover and RecoveryController.evaluate                                 *)

\* Mutant of BeginRecover: an APPROVED bundle is enough.
BeginRecoverApproved(r, withApproval) ==
    /\ request[r].op = "idle"
    /\ Latest.status \in {"APPROVED", "APPLIED"}
    /\ withApproval => Latest.approval.decision = "APPROVE"
    /\ request' = [request EXCEPT ![r] = [Idle EXCEPT
           !.op = "recover", !.pc = "act", !.bundle = Latest, !.seen = Len(stream),
           !.authorized = withApproval /\ Latest.approval.production]]
    /\ UNCHANGED <<stream, datahub, repository, deployed, state, operator>>

\* The recorder is loaded, the bundle is read and must be APPLIED.  A caller
\* may present the approval receipt of the bundle.
BeginRecover(r, withApproval) ==
    /\ request[r].op = "idle"
    /\ Latest.status = "APPLIED"
    /\ withApproval => Latest.approval.decision = "APPROVE"
    /\ request' = [request EXCEPT ![r] = [Idle EXCEPT
           !.op = "recover", !.pc = "act", !.bundle = Latest, !.seen = Len(stream),
           !.authorized = withApproval /\ Latest.approval.production]]
    /\ UNCHANGED <<stream, datahub, repository, deployed, state, operator>>

\* The locked checks are executed again at the exact published commit.
Reverify(r) ==
    /\ Step(r, "act") /\ request[r].op = "recover"
    /\ head = request[r].bundle.change /\ branch = head
    /\ \E clean \in BOOLEAN :
           request' = [request EXCEPT ![r].clean = clean, ![r].pc = "refresh"]
    /\ UNCHANGED <<stream, datahub, repository, deployed, state, operator>>

\* Mutant of EmitStale: a refused append is ignored.
EmitIfAccepted(r, type, pc) ==
    /\ IF request[r].seen = Len(stream)
       THEN Report(type, request[r].clean) ELSE UNCHANGED stream
    /\ request' = [request EXCEPT ![r].seen = @ + 1, ![r].pc = pc]
    /\ UNCHANGED <<datahub, repository, deployed, state, operator>>

\* An append through the recorder that recover loaded: refused if the stream
\* grew since, otherwise the recorder grows with it.
EmitStale(r, type, pc) ==
    /\ request[r].seen = Len(stream)
    /\ Report(type, request[r].clean)
    /\ request' = [request EXCEPT ![r].seen = @ + 1, ![r].pc = pc]
    /\ UNCHANGED <<datahub, repository, deployed, state, operator>>

EmitRefreshed(r) == Step(r, "refresh") /\ EmitStale(r, "RECOVERY_EVIDENCE_REFRESHED", "read")

\* The first get_aspect of evaluate
ReadControl(r) ==
    /\ Step(r, "read")
    /\ Len(control.history) < MaxEvaluations
    /\ LET h == Append(control.history, request[r].clean) IN
       request' = [request EXCEPT
           ![r].history = h, ![r].previous = control.state, ![r].pc = "write",
           ![r].resume = Resume(h, request[r].clean, request[r].authorized)]
    /\ UNCHANGED <<stream, datahub, repository, deployed, state, operator>>

Outcome(r) == NextState(request[r].previous, request[r].clean, request[r].resume)

\* add_custom_properties on the control asset: the keys of this evaluation
\* replace what is there, the policy keys only when RESUME was decided.
WriteControl(r) ==
    /\ Step(r, "write")
    /\ control' = [state |-> Outcome(r), history |-> request[r].history,
                   policy |-> IF request[r].resume THEN "ALLOW" ELSE control.policy,
                   authorized |-> request[r].resume]
    /\ request' = [request EXCEPT ![r].pc = IF request[r].resume THEN "assets" ELSE "report",
                                  ![r].left = Assets]
    /\ UNCHANGED <<stream, log, released, native, repository, deployed, state, operator>>

\* One round of the loop over the controlled assets
WriteAsset(r) ==
    /\ Step(r, "assets")
    /\ \E a \in request[r].left :
          /\ released' = released \cup {a}
          /\ request' = [request EXCEPT ![r].left = @ \ {a},
                 ![r].pc = IF request[r].left = {a} THEN "report" ELSE "assets"]
    /\ UNCHANGED <<stream, log, control, native, repository, deployed, state, operator>>

EmitResult(r) ==
    /\ Step(r, "report")
    /\ EmitStale(r, IF request[r].resume THEN "INCIDENT_RESOLVED" ELSE "RECOVERY_CHECKED",
                 "incident")

\* update_incident_status
UpdateIncident(r) ==
    /\ Step(r, "incident")
    /\ native' = IF request[r].resume THEN "RESOLVED" ELSE "ACTIVE"
    /\ Goto(r, "log")
    /\ UNCHANGED <<stream, log, control, released, repository, deployed, state, operator>>

EmitIncidentWritten(r) ==
    Step(r, "emitIncident") /\ EmitStale(r, "DATAHUB_INCIDENT_WRITTEN", "emitLog")

EmitRecoveryLogWritten(r) ==
    /\ Step(r, "emitLog") /\ request[r].op = "recover"
    /\ EmitStale(r, "DECISION_LOG_WRITTEN", "state")

UpdateState(r) ==
    /\ Step(r, "state")
    /\ state' = Outcome(r)
    /\ Return(r)
    /\ UNCHANGED <<stream, datahub, repository, deployed, operator>>

-----------------------------------------------------------------------------
\* An external call or an append raised, a check failed, or the process died.
Leave(r) ==
    /\ request[r].op # "idle"
    /\ Return(r)
    /\ UNCHANGED <<stream, datahub, repository, deployed, state, operator>>

\* An operator works in the repair repository: checks another commit out, or
\* deletes the repair branch, after which publication starts over.
Operate ==
    /\ operator < MaxOperator
    /\ branch # None
    /\ operator' = operator + 1
    /\ \/ head' \in {None, branch} \ {head} /\ UNCHANGED branch
       \/ branch' = None /\ head' = None
    /\ UNCHANGED <<stream, datahub, used, deployed, state, request>>

RepairStep(r) ==
    \/ \E op \in DOMAIN Required, d \in {"APPROVE", "REJECT"} : Begin(r, op, d)
    \/ Publish(r) \/ Verify(r) \/ Approve(r) \/ Apply(r)
    \/ WriteLog(r) \/ EmitLifecycle(r) \/ EmitLogWritten(r)

RecoveryStep(r) ==
    \/ \E withApproval \in BOOLEAN : BeginRecover(r, withApproval)
    \/ Reverify(r) \/ EmitRefreshed(r) \/ ReadControl(r) \/ WriteControl(r)
    \/ WriteAsset(r) \/ EmitResult(r) \/ UpdateIncident(r)
    \/ EmitIncidentWritten(r) \/ EmitRecoveryLogWritten(r) \/ UpdateState(r)

Next ==
    \/ \E r \in Requests : RepairStep(r) \/ RecoveryStep(r) \/ Leave(r)
    \/ Operate

Spec == Init /\ [][Next]_vars

-----------------------------------------------------------------------------
(* Properties                                                              *)

\* The stream holds an event of this type, before position k, for commit c.
Before(k, type, c) == \E j \in 1..(k - 1) : stream[j].type = type /\ stream[j].bundle.change = c

\* Whatever the handlers raced with and however often steps were repeated or
\* abandoned, a commit that reached staging was published, verified and approved
\* first, and the stream shows those events for that very commit, in order.
DeployedIsAccountable ==
    \A c \in deployed : \E k \in DOMAIN stream :
        /\ stream[k].type = "APPROVAL_RECORDED"
        /\ stream[k].bundle.approval.commit = c
        /\ stream[k].bundle.approval.decision = "APPROVE"
        /\ \E j \in 1..(k - 1) : /\ stream[j].type = "REPAIR_VERIFIED"
                                 /\ stream[j].bundle.verification = c
                                 /\ Before(j, "REPAIR_PUBLISHED", c)

\* Nothing outside the stream says RESOLVED, ALLOW or RESUME for an incident
\* whose stream does not show the application of an approved repair.
ResolvedAfterApplied ==
    \/ control.state = "RESOLVED" \/ control.policy = "ALLOW" \/ control.authorized
    \/ released # {} \/ native = "RESOLVED" \/ state = "RESOLVED" \/ log.resume
    => \E k \in DOMAIN stream :
          /\ stream[k].type = "REPAIR_APPLIED"
          /\ stream[k].bundle.application \in deployed
          /\ stream[k].bundle.approval.decision = "APPROVE"

\* The native Incident, the Decision Log and the run manifest report a resolution
\* only after INCIDENT_RESOLVED is in the stream: a recovery whose append is
\* refused stops before it tells anyone.
ResolutionIsReported ==
    native = "RESOLVED" \/ log.resume \/ state = "RESOLVED" =>
        \E k \in DOMAIN stream : stream[k].type = "INCIDENT_RESOLVED"

\* Clean evidence in the stream up to position k
CleanEvidence(k) == {j \in 1..k : stream[j].type = "RECOVERY_EVIDENCE_REFRESHED"
                                  /\ stream[j].clean}

\* The stream shows an approval that authorizes production.
ProductionApproval == \E k \in DOMAIN stream : /\ stream[k].type = "APPROVAL_RECORDED"
                                               /\ stream[k].bundle.approval.decision = "APPROVE"
                                               /\ stream[k].bundle.approval.production

\* RESUME is never decided on less evidence than the policy asks for: the stream
\* shows as many clean verifications as must be consecutive, or one of them and
\* an approval by an authority that may authorize production.  Lost updates of
\* the history can only make the gate stricter on this count.
ResumeHasEvidence ==
    control.authorized =>
        \/ Cardinality(CleanEvidence(Len(stream))) >= CleanRuns
        \/ /\ ProductionApproval /\ AllowOneClean
           /\ CleanEvidence(Len(stream)) # {}

\* The evidence events of the stream, in order
EvidenceIndexes == {k \in DOMAIN stream : stream[k].type = "RECOVERY_EVIDENCE_REFRESHED"}

\* "two consecutive complete clean runs": when RESUME is authorized without a
\* production approval, no failing verification lies between the last CleanRuns
\* clean ones of the stream.
ResumeIsConsecutive ==
    control.authorized /\ ~ProductionApproval =>
        \E K \in SUBSET EvidenceIndexes :
            /\ Cardinality(K) = CleanRuns
            /\ \A k \in K : stream[k].clean
            /\ \A k \in EvidenceIndexes \ K : \A a, b \in K : ~(a < k /\ k < b)

\* "Missing/failed checks stay locked": after a failing evaluation the control
\* asset does not allow the blocked operation.
FailedCheckLocks ==
    control.history # <<>> /\ ~control.history[Len(control.history)] =>
        control.policy # "ALLOW"
=============================================================================
