----------------------- MODULE RepairLifecycleProofs ------------------------
(***************************************************************************)
(* Proofs about RepairLifecycle, for any number of workers, commits,       *)
(* assets and events, and any recovery policy: what the stream shows of a  *)
(* commit before it is deployed, and of a recovery before anything says    *)
(* that the incident is resolved.                                          *)
(***************************************************************************)
EXTENDS RepairLifecycle, FiniteSetTheorems, WellFoundedInduction, TLAPS

-----------------------------------------------------------------------------
(* The invariant                                                           *)

\* The stream shows before position k that commit c was verified after it was
\* published, and that it was approved after that.
VerifiedBefore(k, c) ==
    \E j \in 1..(k - 1) : /\ stream[j].type = "REPAIR_VERIFIED"
                          /\ stream[j].bundle.verification = c
                          /\ Before(j, "REPAIR_PUBLISHED", c)
ApprovedBefore(k, c) ==
    \E j \in 1..(k - 1) : /\ stream[j].type = "APPROVAL_RECORDED"
                          /\ stream[j].bundle.approval.commit = c
                          /\ stream[j].bundle.approval.decision = "APPROVE"
                          /\ VerifiedBefore(j, c)
ReceiptBefore(k, receipt) ==
    \E j \in 1..(k - 1) : /\ stream[j].type = "APPROVAL_RECORDED"
                          /\ stream[j].bundle.approval = receipt

\* What the receipts of bundle b rest on in the stream before position k.
Founded(k, b) ==
    /\ b.status # "PROPOSED" => b.change \in Commits
    /\ b.status \in {"VERIFIED", "APPROVED", "REJECTED", "APPLIED"} => b.verification = b.change
    /\ b.status \in {"APPROVED", "REJECTED", "APPLIED"} =>
          /\ b.approval.commit = b.change
          /\ b.approval.decision = "APPROVE" <=> b.status # "REJECTED"
    /\ b.status = "VERIFIED" => Before(k, "REPAIR_PUBLISHED", b.change)
    /\ b.status \in {"APPROVED", "REJECTED"} => VerifiedBefore(k, b.change)
    /\ b.status = "APPLIED" =>
          /\ ApprovedBefore(k, b.change) /\ ReceiptBefore(k, b.approval)
          /\ b.application = b.change /\ b.application \in deployed

\* The status of the bundle in a lifecycle event of each type
StatusIn == [REPAIR_BUNDLE_CREATED |-> {"PROPOSED"}, REPAIR_PUBLISHED |-> {"PUBLISHED"},
             REPAIR_VERIFIED |-> {"VERIFIED"}, APPROVAL_RECORDED |-> {"APPROVED", "REJECTED"},
             REPAIR_APPLIED |-> {"APPLIED"}]

StreamFounded ==
    /\ Len(stream) >= 1 /\ stream[1].type = "REPAIR_BUNDLE_CREATED"
    /\ \A k \in DOMAIN stream : stream[k].type \in Lifecycle =>
          /\ stream[k].bundle.status \in StatusIn[stream[k].type]
          /\ Founded(k, stream[k].bundle)

\* A lifecycle event of the stream carries bundle b.
Shown(b) == \E k \in LifecycleIndexes : stream[k].bundle = b

\* A handler works on a bundle that the stream shows until it holds the next one.
Rests(q) ==
    /\ q.op = "recover" => Shown(q.bundle) /\ q.bundle.status = "APPLIED"
    /\ q.op \in DOMAIN Required /\ q.pc = "act" =>
          Shown(q.bundle) /\ q.bundle.status = Required[q.op]
    /\ q.op \in DOMAIN Required /\ q.pc \in {"log", "emit"} =>
          /\ q.bundle.status \in StatusIn[EventOf[q.op]]
          /\ Founded(Len(stream) + 1, q.bundle)
    /\ q.op \in DOMAIN Required => q.pc \in {"act", "log", "emit", "emitLog"}
    /\ q.op = "recover" => q.pc \notin {"done", "emit"}
    /\ q.op = "idle" => q.pc = "done"
    /\ q.resume => q.op = "recover"
    /\ q.authorized => ProductionApproval

Reported == \E k \in DOMAIN stream : stream[k].type = "INCIDENT_RESOLVED"

\* A recovery that decided RESUME has evidence when it writes, and has reported the
\* resolution when it tells DataHub and the manifest.
Evidence ==
    \/ Cardinality(CleanEvidence(Len(stream))) >= CleanRuns
    \/ ProductionApproval /\ AllowOneClean /\ CleanEvidence(Len(stream)) # {}
Resumes(q) == q.resume =>
    /\ q.pc = "write" => Evidence
    /\ q.pc \in {"incident", "log", "emitIncident", "emitLog", "state"} => Reported

\* The clean evaluations of a history, and the recoveries whose clean evidence is in the
\* stream and not yet in the history of the control asset.
Cleans(h) == {k \in DOMAIN h : h[k]}
Unwritten == {r \in Requests : request[r].pc \in {"read", "write"} /\ request[r].clean}

\* Each clean evaluation in a history, and each one that is still to be written, has its
\* own evidence event.
Covered(h, set) ==
    Cardinality(Cleans(h)) + Cardinality(set) <= Cardinality(CleanEvidence(Len(stream)))
EvidenceCovers ==
    /\ IsFiniteSet(Unwritten)
    /\ Covered(control.history, Unwritten)
    /\ \A r \in Requests : request[r].pc = "write" =>
           Covered(request[r].history, Unwritten \ {r})

LifecycleInv ==
    /\ TypeOK /\ StreamFounded
    /\ \A r \in Requests : Rests(request[r]) /\ Resumes(request[r])
    /\ DeployedIsAccountable /\ ResolvedAfterApplied /\ ResolutionIsReported
    /\ EvidenceCovers /\ ResumeHasEvidence

-----------------------------------------------------------------------------
(* The stream                                                              *)

\* A nonempty set of numbers up to n has a greatest one.
LEMMA Greatest ==
    ASSUME NEW n \in Nat, NEW S \in SUBSET (1..n), S # {}
    PROVE  \E m \in S : \A k \in S : k <= m
<1> DEFINE R == OpToRel(<, Nat)
           D == {n - k : k \in S}
<1>1. D \in SUBSET Nat /\ D # {}
    <2>1. \A k \in S : n - k \in Nat /\ n - k \in D
        OBVIOUS
    <2>2. QED
        BY <2>1
<1>2. \A m, k \in Nat : <<m, k>> \in R <=> m < k
    BY DEF OpToRel
<1>3. IsWellFoundedOn(R, Nat)
    BY NatLessThanWellFounded
<1> HIDE DEF R
<1>4. PICK x \in D : \A y \in D : ~ (<<y, x>> \in R)
    <2> HIDE DEF D
    <2>1. QED
        BY <1>1, <1>3, WFMin
<1>5. PICK m \in S : x = n - m
    OBVIOUS
<1>6. ASSUME NEW k \in S PROVE k <= m
    <2>1. n - k \in D /\ n - k \in Nat /\ n - m \in Nat
        BY <1>1
    <2>2. ~(n - k < n - m)
        BY <1>2, <1>4, <1>5, <2>1
    <2>3. QED
        BY <2>2
<1>7. QED
    BY <1>6

LEMMA StreamTypes ==
    ASSUME TypeOK
    PROVE  /\ Len(stream) \in Nat /\ DOMAIN stream = 1..Len(stream)
           /\ \A k \in 1..Len(stream) :
                 /\ stream[k] \in Event
                 /\ stream[k].type \in Lifecycle => stream[k].bundle \in Bundle
                 /\ stream[k].type \in Reports => stream[k].clean \in BOOLEAN
<1>1. stream \in Seq(Event)
    BY DEF TypeOK
<1>2. ASSUME NEW e \in Event
      PROVE  /\ e.type \in Lifecycle => e.bundle \in Bundle
             /\ e.type \in Reports => e.clean \in BOOLEAN
    <2>1. \A type \in Lifecycle : type \notin Reports
        BY DEF Lifecycle, Reports
    <2>2. QED
        BY <2>1 DEF Event
<1>3. QED
    BY <1>1, <1>2

\* The stream keeps what it showed, and commits stay deployed.
Grown ==
    /\ Len(stream') \in Nat /\ Len(stream) <= Len(stream')
    /\ DOMAIN stream' = 1..Len(stream')
    /\ \A k \in 1..Len(stream) : stream'[k] = stream[k]
    /\ deployed \subseteq deployed'

LEMMA AddGrows ==
    ASSUME TypeOK, NEW e \in Event, Add(e), deployed' = deployed
    PROVE  /\ Grown /\ stream' \in Seq(Event)
           /\ Len(stream') = Len(stream) + 1 /\ stream'[Len(stream) + 1] = e
<1>1. stream \in Seq(Event) /\ stream' = Append(stream, e)
    BY DEF TypeOK, Add
<1>2. QED
    BY <1>1 DEF Grown

LEMMA SameGrows ==
    ASSUME TypeOK, stream' = stream, deployed \subseteq deployed'
    PROVE  Grown
BY StreamTypes DEF Grown

\* What was shown before a position is shown before it, and before every later one.
LEMMA BeforeStays ==
    ASSUME TypeOK, Grown, NEW k \in 1..(Len(stream) + 1), NEW m \in Nat, k <= m, NEW c,
           NEW type
    PROVE  /\ Before(k, type, c) => Before(m, type, c)'
           /\ VerifiedBefore(k, c) => VerifiedBefore(m, c)'
           /\ ApprovedBefore(k, c) => ApprovedBefore(m, c)'
           /\ ReceiptBefore(k, c) => ReceiptBefore(m, c)'
<1>1. Len(stream) \in Nat
    BY StreamTypes
<1>2. \A j \in 1..(k - 1) : j \in 1..(m - 1) /\ stream'[j] = stream[j]
    BY <1>1 DEF Grown
<1>3. ASSUME NEW i \in 1..(Len(stream) + 1), NEW t, Before(i, t, c) PROVE Before(i, t, c)'
    <2>1. \A j \in 1..(i - 1) : stream'[j] = stream[j]
        BY <1>1 DEF Grown
    <2>2. QED
        BY <1>3, <2>1 DEF Before
<1>4. ASSUME NEW i \in 1..(Len(stream) + 1), VerifiedBefore(i, c) PROVE VerifiedBefore(i, c)'
    <2>1. \A j \in 1..(i - 1) : stream'[j] = stream[j] /\ j \in 1..(Len(stream) + 1)
        BY <1>1 DEF Grown
    <2>2. QED
        BY <1>3, <1>4, <2>1 DEF VerifiedBefore
<1>5. Before(k, type, c) => Before(m, type, c)'
    BY <1>2 DEF Before
<1>6. \A j \in 1..(k - 1) : j \in 1..(Len(stream) + 1)
    BY <1>1
<1>7. VerifiedBefore(k, c) => VerifiedBefore(m, c)'
    BY <1>2, <1>3, <1>6 DEF VerifiedBefore
<1>8. ApprovedBefore(k, c) => ApprovedBefore(m, c)'
    BY <1>2, <1>4, <1>6 DEF ApprovedBefore
<1>9. ReceiptBefore(k, c) => ReceiptBefore(m, c)'
    BY <1>2 DEF ReceiptBefore
<1>10. QED
    BY <1>5, <1>7, <1>8, <1>9

LEMMA FoundedStays ==
    ASSUME TypeOK, Grown, NEW k \in 1..(Len(stream) + 1), NEW m \in Nat, k <= m, NEW b,
           Founded(k, b)
    PROVE  Founded(m, b)'
<1>1. /\ Before(k, "REPAIR_PUBLISHED", b.change) => Before(m, "REPAIR_PUBLISHED", b.change)'
      /\ VerifiedBefore(k, b.change) => VerifiedBefore(m, b.change)'
      /\ ApprovedBefore(k, b.change) => ApprovedBefore(m, b.change)'
      /\ ReceiptBefore(k, b.approval) => ReceiptBefore(m, b.approval)'
    BY BeforeStays
<1>2. deployed \subseteq deployed'
    BY DEF Grown
<1>3. QED
    BY <1>1, <1>2 DEF Founded

\* A bundle that is shown is the bundle of some event, which tells its status and what
\* it rests on; so are the bundles that are shown later.
LEMMA ShownIs ==
    ASSUME TypeOK, StreamFounded, NEW b, Shown(b)
    PROVE  \E k \in 1..Len(stream) :
              /\ stream[k].type \in Lifecycle /\ stream[k].bundle = b /\ b \in Bundle
              /\ b.status \in StatusIn[stream[k].type] /\ Founded(k, b)
BY StreamTypes DEF Shown, LifecycleIndexes, StreamFounded

LEMMA ShownStays ==
    ASSUME TypeOK, Grown, NEW b, Shown(b)
    PROVE  Shown(b)'
BY StreamTypes DEF Shown, LifecycleIndexes, Grown

LEMMA LatestIsShown ==
    ASSUME TypeOK, StreamFounded
    PROVE  Shown(Latest) /\ Latest \in Bundle
<1>1. LifecycleIndexes \in SUBSET (1..Len(stream)) /\ Len(stream) \in Nat
    BY StreamTypes DEF LifecycleIndexes
<1>2. 1 \in LifecycleIndexes
    BY StreamTypes DEF StreamFounded, LifecycleIndexes, Lifecycle
<1>3. \E k \in LifecycleIndexes : \A j \in LifecycleIndexes : j <= k
    BY <1>1, <1>2, Greatest
<1>4. PICK k \in LifecycleIndexes : Latest = stream[k].bundle
    BY <1>3 DEF Latest
<1>5. QED
    BY <1>1, <1>4, StreamTypes DEF Shown, LifecycleIndexes

\* What the stream shows once it shows a bundle, by the status of the bundle
LEMMA ShownPublished ==
    ASSUME TypeOK, StreamFounded, NEW b, Shown(b), b.status = "PUBLISHED"
    PROVE  b.change \in Commits /\ Before(Len(stream) + 1, "REPAIR_PUBLISHED", b.change)
<1>1. PICK k \in 1..Len(stream) :
          /\ stream[k].type \in Lifecycle /\ stream[k].bundle = b
          /\ b.status \in StatusIn[stream[k].type] /\ Founded(k, b)
    BY ShownIs
<1>2. stream[k].type = "REPAIR_PUBLISHED"
    BY <1>1 DEF Lifecycle, StatusIn
<1>3. k \in 1..((Len(stream) + 1) - 1)
    BY StreamTypes
<1>4. QED
    BY <1>1, <1>2, <1>3 DEF Founded, Before

LEMMA ShownVerified ==
    ASSUME TypeOK, StreamFounded, NEW b, Shown(b), b.status = "VERIFIED"
    PROVE  /\ b.change \in Commits /\ b.verification = b.change
           /\ VerifiedBefore(Len(stream) + 1, b.change)
<1>1. PICK k \in 1..Len(stream) :
          /\ stream[k].type \in Lifecycle /\ stream[k].bundle = b
          /\ b.status \in StatusIn[stream[k].type] /\ Founded(k, b)
    BY ShownIs
<1>2. stream[k].type = "REPAIR_VERIFIED"
    BY <1>1 DEF Lifecycle, StatusIn
<1>3. k \in 1..((Len(stream) + 1) - 1)
    BY StreamTypes
<1>4. QED
    BY <1>1, <1>2, <1>3 DEF Founded, VerifiedBefore

LEMMA ShownApproved ==
    ASSUME TypeOK, StreamFounded, NEW b, Shown(b), b.status = "APPROVED"
    PROVE  /\ b.change \in Commits /\ b.verification = b.change
           /\ b.approval.commit = b.change
           /\ b.approval.decision = "APPROVE"
           /\ ApprovedBefore(Len(stream) + 1, b.change)
           /\ ReceiptBefore(Len(stream) + 1, b.approval)
<1>1. PICK k \in 1..Len(stream) :
          /\ stream[k].type \in Lifecycle /\ stream[k].bundle = b
          /\ b.status \in StatusIn[stream[k].type] /\ Founded(k, b)
    BY ShownIs
<1>2. stream[k].type = "APPROVAL_RECORDED"
    BY <1>1 DEF Lifecycle, StatusIn
<1>3. k \in 1..((Len(stream) + 1) - 1)
    BY StreamTypes
<1>4. QED
    BY <1>1, <1>2, <1>3 DEF Founded, ApprovedBefore, ReceiptBefore

\* The application of an approved repair is shown, and of the approval that it carries.
AppliedShown ==
    \E k \in DOMAIN stream : /\ stream[k].type = "REPAIR_APPLIED"
                             /\ stream[k].bundle.application \in deployed
                             /\ stream[k].bundle.approval.decision = "APPROVE"

LEMMA ShownApplied ==
    ASSUME TypeOK, StreamFounded, NEW b, Shown(b), b.status = "APPLIED"
    PROVE  /\ AppliedShown
           /\ b.approval.production => ProductionApproval
<1>1. PICK k \in 1..Len(stream) :
          /\ stream[k].type \in Lifecycle /\ stream[k].bundle = b
          /\ b.status \in StatusIn[stream[k].type] /\ Founded(k, b)
    BY ShownIs
<1>2. stream[k].type = "REPAIR_APPLIED"
    BY <1>1 DEF Lifecycle, StatusIn
<1>3. k \in DOMAIN stream
    BY StreamTypes
<1>4. /\ b.approval.decision = "APPROVE"
      /\ b.application \in deployed
    BY <1>1 DEF Founded
<1>5. PICK j \in 1..(k - 1) : /\ stream[j].type = "APPROVAL_RECORDED"
                              /\ stream[j].bundle.approval = b.approval
    BY <1>1 DEF Founded, ReceiptBefore
<1>6. j \in DOMAIN stream
    BY StreamTypes
<1>7. QED
    BY <1>1, <1>2, <1>3, <1>4, <1>5, <1>6 DEF AppliedShown, ProductionApproval

LEMMA ReportsStay ==
    ASSUME TypeOK, Grown
    PROVE  /\ AppliedShown => AppliedShown'
           /\ ProductionApproval => ProductionApproval'
           /\ Reported => Reported'
<1>1. \A k \in DOMAIN stream : k \in DOMAIN stream' /\ stream'[k] = stream[k]
    BY StreamTypes DEF Grown
<1>2. deployed \subseteq deployed'
    BY DEF Grown
<1>3. QED
    BY <1>1, <1>2 DEF AppliedShown, ProductionApproval, Reported

-----------------------------------------------------------------------------
(* The requests                                                            *)

Pcs == {"done", "act", "log", "emit", "emitLog", "refresh", "read", "write",
        "assets", "report", "incident", "emitIncident", "state"}
Ops == {"idle", "publish", "verify", "approve", "apply", "recover"}

LEMMA RequestTypes ==
    ASSUME TypeOK, NEW r \in Requests
    PROVE  /\ request[r] \in Request
           /\ request[r].op \in Ops /\ request[r].pc \in Pcs /\ request[r].bundle \in Bundle
           /\ request[r].decision \in {"APPROVE", "REJECT"} /\ request[r].seen \in Nat
           /\ request[r].authorized \in BOOLEAN /\ request[r].clean \in BOOLEAN
           /\ request[r].history \in Seq(BOOLEAN) /\ request[r].previous \in ControlStates
           /\ request[r].resume \in BOOLEAN /\ request[r].left \in SUBSET Assets
<1>1. request[r] \in Request
    BY DEF TypeOK
<1>2. QED
    BY <1>1 DEF Request, Ops, Pcs

LEMMA IdleTypes ==
    /\ Idle \in Request /\ Idle.op = "idle" /\ Idle.pc = "done" /\ ~Idle.resume
    /\ ~Idle.authorized /\ ~Idle.clean /\ Idle.history = <<>>
<1>1. Proposed \in Bundle
    BY DEF Proposed, Bundle
<1>2. <<>> \in Seq(BOOLEAN) /\ 0 \in Nat /\ {} \in SUBSET Assets
    OBVIOUS
<1>3. QED
    BY <1>1, <1>2 DEF Idle, Request, ControlStates

\* The other requests stay as they are.
Others(r) ==
    request' \in [Requests -> Request] /\ \A s \in Requests \ {r} : request'[s] = request[s]

LEMMA MoveIs ==
    ASSUME TypeOK, NEW r \in Requests, NEW q \in Request, request' = [request EXCEPT ![r] = q]
    PROVE  Others(r) /\ request'[r] = q
BY DEF TypeOK, Others

\* The request goes on as the same call.
Keeps(r) ==
    /\ request'[r].op = request[r].op /\ request'[r].authorized = request[r].authorized

LEMMA GotoIs ==
    ASSUME TypeOK, NEW r \in Requests, NEW pc \in Pcs, Goto(r, pc)
    PROVE  /\ Others(r) /\ Keeps(r) /\ request'[r].pc = pc
           /\ request'[r].bundle = request[r].bundle /\ request'[r].resume = request[r].resume
<1> DEFINE q == [request[r] EXCEPT !.pc = pc]
<1>1. request[r] \in Request
    BY RequestTypes
<1>2. /\ q \in Request /\ q.pc = pc /\ q.op = request[r].op
      /\ q.authorized = request[r].authorized /\ q.bundle = request[r].bundle
      /\ q.resume = request[r].resume
    BY <1>1 DEF Request, Pcs
<1>3. request' = [request EXCEPT ![r] = q]
    BY DEF Goto
<1> HIDE DEF q
<1>4. QED
    BY <1>2, <1>3, MoveIs DEF Keeps

LEMMA ReturnIs ==
    ASSUME TypeOK, NEW r \in Requests, Return(r)
    PROVE  Others(r) /\ request'[r] = Idle
BY IdleTypes, MoveIs DEF Return

LEMMA ActedIs ==
    ASSUME TypeOK, NEW r \in Requests, NEW b \in Bundle, Acted(r, b)
    PROVE  /\ Others(r) /\ Keeps(r) /\ request'[r].pc = "log" /\ request'[r].bundle = b
           /\ request'[r].resume = request[r].resume
<1> DEFINE q == [request[r] EXCEPT !.bundle = b, !.pc = "log"]
<1>1. request[r] \in Request
    BY RequestTypes
<1>2. /\ q \in Request /\ q.pc = "log" /\ q.op = request[r].op /\ q.bundle = b
      /\ q.authorized = request[r].authorized /\ q.resume = request[r].resume
    BY <1>1 DEF Request
<1>3. request' = [request EXCEPT ![r] = q]
    BY DEF Acted
<1> HIDE DEF q
<1>4. QED
    BY <1>2, <1>3, MoveIs DEF Keeps

LEMMA BeginIs ==
    ASSUME TypeOK, StreamFounded, NEW r \in Requests, NEW op \in DOMAIN Required,
           NEW d \in {"APPROVE", "REJECT"}, Begin(r, op, d)
    PROVE  /\ Others(r) /\ request'[r].op = op /\ request'[r].pc = "act"
           /\ request'[r].bundle = Latest /\ Latest.status = Required[op]
           /\ ~request'[r].resume /\ ~request'[r].authorized
<1> DEFINE q == [Idle EXCEPT !.op = op, !.pc = "act", !.bundle = Latest, !.decision = d]
<1>1. Idle \in Request /\ Latest \in Bundle /\ op \in Ops
    BY IdleTypes, LatestIsShown DEF Required, Ops
<1>2. /\ q \in Request /\ q.pc = "act" /\ q.op = op /\ q.bundle = Latest
      /\ ~q.resume /\ ~q.authorized
    BY <1>1, IdleTypes DEF Request, Ops
<1>3. request' = [request EXCEPT ![r] = q] /\ Latest.status = Required[op]
    BY DEF Begin
<1> HIDE DEF q
<1>4. QED
    BY <1>2, <1>3, MoveIs

LEMMA BeginRecoverIs ==
    ASSUME TypeOK, StreamFounded, NEW r \in Requests, NEW withApproval \in BOOLEAN,
           BeginRecover(r, withApproval)
    PROVE  /\ Others(r) /\ request'[r].op = "recover" /\ request'[r].pc = "act"
           /\ request'[r].bundle = Latest /\ Latest.status = "APPLIED"
           /\ ~request'[r].resume
           /\ request'[r].authorized => Latest.approval.production
<1> DEFINE a == withApproval /\ Latest.approval.production
           q == [Idle EXCEPT !.op = "recover", !.pc = "act", !.bundle = Latest,
                             !.seen = Len(stream), !.authorized = a]
<1>1. Idle \in Request /\ Latest \in Bundle /\ Len(stream) \in Nat
    BY IdleTypes, LatestIsShown, StreamTypes
<1>2. a \in BOOLEAN
    OBVIOUS
<1>3. request' = [request EXCEPT ![r] = q] /\ Latest.status = "APPLIED"
    BY DEF BeginRecover
<1> HIDE DEF a
<1>4. /\ q \in Request /\ q.pc = "act" /\ q.op = "recover" /\ q.bundle = Latest
      /\ ~q.resume /\ q.authorized = a
    BY <1>1, <1>2, IdleTypes DEF Request
<1> HIDE DEF q
<1>5. Others(r) /\ request'[r] = q
    BY <1>3, <1>4, MoveIs
<1>6. q.authorized => Latest.approval.production
    BY <1>4 DEF a
<1>7. QED
    BY <1>3, <1>4, <1>5, <1>6

LEMMA ReverifyIs ==
    ASSUME TypeOK, NEW r \in Requests, Reverify(r)
    PROVE  /\ Others(r) /\ Keeps(r) /\ request'[r].pc = "refresh"
           /\ request'[r].bundle = request[r].bundle /\ request'[r].resume = request[r].resume
<1>1. PICK clean \in BOOLEAN :
          request' = [request EXCEPT ![r].clean = clean, ![r].pc = "refresh"]
    BY DEF Reverify
<1> DEFINE q == [request[r] EXCEPT !.clean = clean, !.pc = "refresh"]
<1>2. request[r] \in Request
    BY RequestTypes
<1>3. /\ q \in Request /\ q.pc = "refresh" /\ q.op = request[r].op
      /\ q.authorized = request[r].authorized /\ q.bundle = request[r].bundle
      /\ q.resume = request[r].resume
    BY <1>2 DEF Request
<1>4. request' = [request EXCEPT ![r] = q]
    BY <1>1
<1> HIDE DEF q
<1>5. QED
    BY <1>3, <1>4, MoveIs DEF Keeps

\* An append of recover: the stream grows by one report.
LEMMA EmitStaleIs ==
    ASSUME TypeOK, NEW r \in Requests, NEW type \in Reports, NEW pc \in Pcs,
           EmitStale(r, type, pc)
    PROVE  /\ Others(r) /\ Keeps(r) /\ request'[r].pc = pc
           /\ request'[r].bundle = request[r].bundle /\ request'[r].resume = request[r].resume
           /\ request'[r].clean = request[r].clean
           /\ LET e == [type |-> type, clean |-> request[r].clean] IN
              e \in Event /\ e.type = type /\ e.clean = request[r].clean /\ Add(e)
           /\ UNCHANGED <<datahub, repository, deployed, state, operator>>
<1> DEFINE q == [request[r] EXCEPT !.seen = @ + 1, !.pc = pc]
<1>1. request[r] \in Request /\ request[r].seen + 1 \in Nat
    BY RequestTypes
<1>2. /\ q \in Request /\ q.pc = pc /\ q.op = request[r].op
      /\ q.authorized = request[r].authorized /\ q.bundle = request[r].bundle
      /\ q.resume = request[r].resume /\ q.clean = request[r].clean
    BY <1>1 DEF Request, Pcs
<1>3. request' = [request EXCEPT ![r] = q]
    BY DEF EmitStale
<1> HIDE DEF q
<1>4. [type |-> type, clean |-> request[r].clean] \in Event
    BY RequestTypes DEF Event
<1>5. Add([type |-> type, clean |-> request[r].clean])
      /\ UNCHANGED <<datahub, repository, deployed, state, operator>>
    BY DEF EmitStale, Report
<1>6. QED
    BY <1>2, <1>3, <1>4, <1>5, MoveIs DEF Keeps

LEMMA ReadControlIs ==
    ASSUME TypeOK, NEW r \in Requests, ReadControl(r),
           NEW h, h = Append(control.history, request[r].clean)
    PROVE  /\ Others(r) /\ Keeps(r) /\ request'[r].pc = "write"
           /\ request'[r].bundle = request[r].bundle /\ request'[r].clean = request[r].clean
           /\ request'[r].history = h /\ h \in Seq(BOOLEAN)
           /\ request'[r].resume = Resume(h, request[r].clean, request[r].authorized)
<1> DEFINE resume == Resume(h, request[r].clean, request[r].authorized)
           q == [request[r] EXCEPT !.history = h, !.previous = control.state, !.pc = "write",
                                   !.resume = resume]
<1>1. /\ request[r] \in Request /\ request[r].clean \in BOOLEAN
      /\ request[r].authorized \in BOOLEAN
    BY RequestTypes
<1>2. control.history \in Seq(BOOLEAN) /\ control.state \in ControlStates
    BY DEF TypeOK
<1>3. h \in Seq(BOOLEAN)
    BY <1>1, <1>2
<1>4. resume \in BOOLEAN
    BY DEF Resume
<1>5. request' = [request EXCEPT ![r] = q]
    BY DEF ReadControl
<1> HIDE DEF resume
<1>6. /\ q \in Request /\ q.pc = "write" /\ q.op = request[r].op
      /\ q.authorized = request[r].authorized /\ q.bundle = request[r].bundle
      /\ q.resume = resume /\ q.clean = request[r].clean /\ q.history = h
    BY <1>1, <1>2, <1>3, <1>4 DEF Request
<1> HIDE DEF q
<1>7. QED
    BY <1>3, <1>5, <1>6, MoveIs DEF Keeps, resume

LEMMA WriteControlIs ==
    ASSUME TypeOK, NEW r \in Requests, WriteControl(r)
    PROVE  /\ Others(r) /\ Keeps(r) /\ request'[r].pc \in {"assets", "report"}
           /\ request'[r].bundle = request[r].bundle /\ request'[r].resume = request[r].resume
<1> DEFINE pc == IF request[r].resume THEN "assets" ELSE "report"
           q == [request[r] EXCEPT !.pc = pc, !.left = Assets]
<1>1. request[r] \in Request /\ pc \in {"assets", "report"}
    BY RequestTypes
<1>2. request' = [request EXCEPT ![r] = q]
    BY DEF WriteControl
<1> HIDE DEF pc
<1>3. /\ q \in Request /\ q.pc = pc /\ q.op = request[r].op
      /\ q.authorized = request[r].authorized /\ q.bundle = request[r].bundle
      /\ q.resume = request[r].resume
    BY <1>1 DEF Request
<1> HIDE DEF q
<1>4. QED
    BY <1>1, <1>2, <1>3, MoveIs DEF Keeps

LEMMA WriteAssetIs ==
    ASSUME TypeOK, NEW r \in Requests, WriteAsset(r)
    PROVE  /\ Others(r) /\ Keeps(r) /\ request'[r].pc \in {"assets", "report"}
           /\ request'[r].bundle = request[r].bundle /\ request'[r].resume = request[r].resume
           /\ released' \subseteq Assets
<1>1. PICK a \in request[r].left :
          /\ released' = released \cup {a}
          /\ request' = [request EXCEPT ![r].left = @ \ {a},
                 ![r].pc = IF request[r].left = {a} THEN "report" ELSE "assets"]
    BY DEF WriteAsset
<1> DEFINE pc == IF request[r].left = {a} THEN "report" ELSE "assets"
           q == [request[r] EXCEPT !.left = request[r].left \ {a}, !.pc = pc]
<1>2. /\ request[r] \in Request /\ pc \in {"assets", "report"}
      /\ request[r].left \in SUBSET Assets /\ released \subseteq Assets
    BY RequestTypes DEF TypeOK
<1>3. request' = [request EXCEPT ![r] = q]
    BY <1>1
<1> HIDE DEF pc
<1>4. /\ q \in Request /\ q.pc = pc /\ q.op = request[r].op
      /\ q.authorized = request[r].authorized /\ q.bundle = request[r].bundle
      /\ q.resume = request[r].resume
    BY <1>2 DEF Request
<1> HIDE DEF q
<1>5. QED
    BY <1>1, <1>2, <1>3, <1>4, MoveIs DEF Keeps

-----------------------------------------------------------------------------
(* What stays                                                              *)

\* Every deployed commit is one that the stream shows approved.
LEMMA DeployedAre ==
    ASSUME TypeOK
    PROVE  DeployedIsAccountable <=> \A c \in deployed : ApprovedBefore(Len(stream) + 1, c)
<1>1. DOMAIN stream = 1..((Len(stream) + 1) - 1)
    BY StreamTypes
<1>2. QED
    BY <1>1 DEF DeployedIsAccountable, ApprovedBefore, VerifiedBefore

LEMMA DeployedAreNext ==
    ASSUME Grown, NEW m \in Nat, m = Len(stream') + 1
    PROVE  DeployedIsAccountable' <=> \A c \in deployed' : ApprovedBefore(m, c)'
<1>1. DOMAIN stream' = 1..(m - 1)
    BY DEF Grown
<1>2. QED
    BY <1>1 DEF DeployedIsAccountable, ApprovedBefore, VerifiedBefore

LEMMA DeployedStays ==
    ASSUME TypeOK, Grown, TypeOK', deployed' = deployed, DeployedIsAccountable
    PROVE  DeployedIsAccountable'
<1>1. PICK k \in 1..(Len(stream) + 1), m \in Nat :
          k = Len(stream) + 1 /\ m = Len(stream') + 1 /\ k <= m
    BY StreamTypes DEF Grown
<1>2. ASSUME NEW c \in deployed PROVE ApprovedBefore(m, c)'
    <2>1. ApprovedBefore(k, c)
        BY <1>1, DeployedAre
    <2>2. QED
        BY <1>1, <2>1, BeforeStays
<1>3. QED
    BY <1>1, <1>2, DeployedAreNext

LEMMA SameFoundation ==
    ASSUME TypeOK, StreamFounded, stream' = stream, deployed \subseteq deployed'
    PROVE  Grown /\ StreamFounded'
<1>1. Grown
    BY SameGrows
<1>2. ASSUME NEW k \in 1..Len(stream), stream[k].type \in Lifecycle
      PROVE  Founded(k, stream[k].bundle)'
    <2>1. PICK b : b = stream[k].bundle
        OBVIOUS
    <2>2. Founded(k, b) /\ k \in 1..(Len(stream) + 1) /\ k \in Nat /\ k <= k
        BY <1>2, <2>1, StreamTypes DEF StreamFounded
    <2>3. Founded(k, b)'
        BY <1>1, <2>2, FoundedStays
    <2>4. stream'[k].bundle = b
        BY <2>1
    <2>5. QED
        BY <2>3, <2>4 DEF Founded
<1>3. QED
    BY <1>1, <1>2, StreamTypes DEF StreamFounded

\* An event of the stream after one was added is an earlier one, or the one added.
LEMMA AddedFoundation ==
    ASSUME TypeOK, StreamFounded, NEW e \in Event, Add(e), deployed' = deployed,
           e.type \in Lifecycle => /\ e.bundle.status \in StatusIn[e.type]
                                  /\ Founded(Len(stream) + 1, e.bundle)
    PROVE  Grown /\ StreamFounded' /\ stream' \in Seq(Event)
<1>1. /\ Grown /\ stream' \in Seq(Event)
      /\ Len(stream') = Len(stream) + 1 /\ stream'[Len(stream) + 1] = e
    BY AddGrows
<1>2. Len(stream) \in Nat
    BY StreamTypes
<1>3. ASSUME NEW k \in 1..Len(stream'), stream'[k].type \in Lifecycle
      PROVE  /\ stream'[k].bundle.status \in StatusIn[stream'[k].type]
             /\ Founded(k, stream[k].bundle)'
    <2>1. k \in 1..(Len(stream) + 1) /\ k \in Nat /\ k <= k
        BY <1>1, <1>2
    <2>2. PICK b : b = stream'[k].bundle
        OBVIOUS
    <2>3. b.status \in StatusIn[stream'[k].type] /\ Founded(k, b)
        <3>1. CASE k = Len(stream) + 1
            BY <1>1, <1>3, <2>2, <3>1
        <3>2. CASE k # Len(stream) + 1
            <4>1. k \in 1..Len(stream) /\ stream'[k] = stream[k]
                BY <1>1, <1>2, <2>1, <3>2 DEF Grown
            <4>2. QED
                BY <1>3, <2>2, <4>1, StreamTypes DEF StreamFounded
        <3>3. QED
            BY <3>1, <3>2
    <2>4. Founded(k, b)'
        BY <1>1, <2>1, <2>3, FoundedStays
    <2>5. QED
        BY <2>2, <2>3, <2>4 DEF Founded
<1>4. DOMAIN stream' = 1..Len(stream') /\ Len(stream') >= 1 /\ stream'[1] = stream[1]
    BY <1>1, <1>2, StreamTypes DEF Grown, StreamFounded
<1>5. stream'[1].type = "REPAIR_BUNDLE_CREATED"
    BY <1>4 DEF StreamFounded
<1>6. \A k \in DOMAIN stream' : stream'[k].type \in Lifecycle =>
          /\ stream'[k].bundle.status \in StatusIn[stream'[k].type]
          /\ Founded(k, stream[k].bundle)'
    BY <1>3, <1>4
<1>7. StreamFounded'
    BY <1>4, <1>5, <1>6 DEF StreamFounded
<1>8. QED
    BY <1>1, <1>7

\* The clean evidence of the stream stays evidence.
CleanNow == CleanEvidence(Len(stream))

LEMMA EvidenceFinite ==
    ASSUME TypeOK
    PROVE  IsFiniteSet(CleanNow) /\ Cardinality(CleanNow) \in Nat
<1>1. Len(stream) \in Nat /\ CleanNow \in SUBSET (1..Len(stream))
    BY StreamTypes DEF CleanNow, CleanEvidence
<1>2. IsFiniteSet(1..Len(stream))
    BY <1>1, FS_Interval
<1>3. IsFiniteSet(CleanNow)
    BY <1>1, <1>2, FS_Subset
<1>4. QED
    BY <1>3, FS_CardinalityType

LEMMA EvidenceStays ==
    ASSUME TypeOK, TypeOK', Grown
    PROVE  /\ CleanNow \subseteq CleanNow'
           /\ Cardinality(CleanNow) <= Cardinality(CleanNow')
           /\ Cardinality(CleanNow) \in Nat /\ Cardinality(CleanNow') \in Nat
<1>1. Len(stream) \in Nat
    BY StreamTypes
<1>2. \A k \in 1..Len(stream) : k \in 1..Len(stream') /\ stream'[k] = stream[k]
    BY <1>1 DEF Grown
<1>3. CleanNow \subseteq CleanNow'
    BY <1>2 DEF CleanNow, CleanEvidence
<1>4. Len(stream') \in Nat /\ CleanNow' \in SUBSET (1..Len(stream'))
    BY DEF CleanNow, CleanEvidence, Grown
<1>5. IsFiniteSet(CleanNow')
    <2>1. IsFiniteSet(1..Len(stream'))
        BY <1>4, FS_Interval
    <2>2. QED
        BY <1>4, <2>1, FS_Subset
<1>6. Cardinality(CleanNow) <= Cardinality(CleanNow')
    BY <1>3, <1>5, FS_Subset
<1>7. QED
    BY <1>3, <1>5, <1>6, EvidenceFinite, FS_CardinalityType

LEMMA EvidenceIsKept ==
    ASSUME TypeOK, TypeOK', Grown, Evidence
    PROVE  Evidence'
<1>1. CleanRuns \in Nat
    BY PolicyAssumption
<1>2. CASE Cardinality(CleanNow) >= CleanRuns
    BY <1>1, <1>2, EvidenceStays DEF Evidence, CleanNow
<1>3. CASE ProductionApproval /\ AllowOneClean /\ CleanNow # {}
    BY <1>3, EvidenceStays, ReportsStay DEF Evidence, CleanNow
<1>4. QED
    BY <1>2, <1>3 DEF Evidence, CleanNow

\* A request that does not move keeps what it rests on.
LEMMA RestStays ==
    ASSUME TypeOK, TypeOK', Grown, NEW q \in Request, Rests(q), Resumes(q)
    PROVE  Rests(q)' /\ Resumes(q)'
<1> DEFINE b == q.bundle
<1>1. PICK k \in 1..(Len(stream) + 1), m \in Nat :
          k = Len(stream) + 1 /\ m = Len(stream') + 1 /\ k <= m
    BY StreamTypes DEF Grown
<1>2. Shown(b) => Shown(b)'
    BY ShownStays
<1>3. Founded(k, b) => Founded(m, b)'
    BY <1>1, FoundedStays
<1>4. /\ ProductionApproval => ProductionApproval'
      /\ Reported => Reported'
      /\ Evidence => Evidence'
    BY ReportsStay, EvidenceIsKept
<1>5. Rests(q)'
    <2>1. Shown(q.bundle)' <=> Shown(b)'
        BY <1>1 DEF Shown
    <2>2. Founded(Len(stream) + 1, q.bundle)' <=> Founded(m, b)'
        BY <1>1 DEF Founded
    <2>3. QED
        BY <1>1, <1>2, <1>3, <1>4, <2>1, <2>2 DEF Rests
<1>6. Resumes(q)'
    BY <1>4 DEF Resumes
<1>7. QED
    BY <1>5, <1>6

-----------------------------------------------------------------------------
(* The evidence                                                            *)

LEMMA CleansAre ==
    ASSUME NEW h \in Seq(BOOLEAN)
    PROVE  /\ Cleans(h) \in SUBSET (1..Len(h)) /\ IsFiniteSet(Cleans(h))
           /\ Cardinality(Cleans(h)) \in Nat
<1>1. Len(h) \in Nat /\ Cleans(h) \in SUBSET (1..Len(h))
    BY DEF Cleans
<1>2. IsFiniteSet(1..Len(h))
    BY <1>1, FS_Interval
<1>3. IsFiniteSet(Cleans(h))
    BY <1>1, <1>2, FS_Subset
<1>4. QED
    BY <1>1, <1>3, FS_CardinalityType

\* One more evaluation is one more clean one, or none.
LEMMA CleansGrow ==
    ASSUME NEW h \in Seq(BOOLEAN), NEW clean \in BOOLEAN
    PROVE  Cardinality(Cleans(Append(h, clean)))
               = IF clean THEN Cardinality(Cleans(h)) + 1 ELSE Cardinality(Cleans(h))
<1> DEFINE g == Append(h, clean)
<1>1. /\ Len(h) \in Nat /\ DOMAIN g = 1..(Len(h) + 1) /\ DOMAIN h = 1..Len(h)
      /\ \A k \in 1..Len(h) : g[k] = h[k]
      /\ g[Len(h) + 1] = clean
    OBVIOUS
<1> HIDE DEF g
<1>2. CASE clean
    <2>1. \A k : k \in DOMAIN g <=> k \in DOMAIN h \/ k = Len(h) + 1
        BY <1>1
    <2>2. \A k : k \in Cleans(g) <=> k \in Cleans(h) \/ k = Len(h) + 1
        BY <1>1, <1>2, <2>1 DEF Cleans
    <2>3. Cleans(g) = Cleans(h) \cup {Len(h) + 1}
        BY <2>2
    <2>4. Len(h) + 1 \notin Cleans(h)
        BY <1>1, CleansAre
    <2>5. QED
        BY <1>2, <2>3, <2>4, CleansAre, FS_AddElement DEF g
<1>3. CASE ~clean
    <2>1. Cleans(g) = Cleans(h)
        BY <1>1, <1>3 DEF Cleans
    <2>2. QED
        BY <1>3, <2>1 DEF g
<1>4. QED
    BY <1>2, <1>3

\* A history that ends with n clean evaluations has n of them.
LEMMA EndsCleanHas ==
    ASSUME NEW h \in Seq(BOOLEAN), NEW n \in Nat \ {0}, EndsClean(h, n)
    PROVE  Cardinality(Cleans(h)) >= n
<1> DEFINE low == Len(h) - n + 1
           last == low..Len(h)
<1>1. Len(h) \in Nat /\ Len(h) >= n /\ \A k \in last : h[k]
    BY DEF EndsClean
<1>2. low \in Int /\ Len(h) - low + 1 = n /\ ~(low > Len(h))
    BY <1>1
<1>3. last \in SUBSET Cleans(h)
    BY <1>1 DEF Cleans
<1>4. Cardinality(last) = n
    <2> HIDE DEF low
    <2>1. Cardinality(low..Len(h)) = n
        BY <1>1, <1>2, FS_Interval
    <2>2. QED
        BY <2>1
<1> HIDE DEF last
<1>5. Cardinality(last) <= Cardinality(Cleans(h))
    BY <1>3, CleansAre, FS_Subset
<1>6. QED
    BY <1>4, <1>5, CleansAre

LEMMA CoveredStays ==
    ASSUME TypeOK, TypeOK', Grown, NEW h \in Seq(BOOLEAN), NEW S, IsFiniteSet(S),
           NEW T \in SUBSET S, Covered(h, S)
    PROVE  Covered(h, T)'
<1>1. Cardinality(T) <= Cardinality(S) /\ Cardinality(T) \in Nat /\ Cardinality(S) \in Nat
    BY FS_Subset, FS_CardinalityType
<1>2. QED
    BY <1>1, CleansAre, EvidenceStays DEF Covered, CleanNow

\* A clean evidence event makes room for one more evaluation.
LEMMA CoveredGrows ==
    ASSUME TypeOK, TypeOK', NEW clean \in BOOLEAN,
           Add([type |-> "RECOVERY_EVIDENCE_REFRESHED", clean |-> clean]), Grown,
           NEW h \in Seq(BOOLEAN), NEW S, IsFiniteSet(S), NEW r,
           NEW T \in SUBSET (IF clean THEN S \cup {r} ELSE S), Covered(h, S)
    PROVE  Covered(h, T)'
<1>1. CASE ~clean
    BY <1>1, CoveredStays
<1>2. CASE clean
    <2> DEFINE n == Len(stream) + 1
    <2>1. stream' = Append(stream, [type |-> "RECOVERY_EVIDENCE_REFRESHED", clean |-> clean])
        BY DEF Add
    <2>2. stream \in Seq(Event) /\ Len(stream) \in Nat
        BY StreamTypes DEF TypeOK
    <2>3. /\ stream'[n] = [type |-> "RECOVERY_EVIDENCE_REFRESHED", clean |-> clean]
          /\ Len(stream') = n /\ n \notin 1..Len(stream) /\ n \in 1..n
          /\ \A k \in 1..n : k = n \/ k \in 1..Len(stream)
        BY <2>1, <2>2
    <2> HIDE DEF n
    <2>4. CleanNow \cup {n} \subseteq CleanNow' /\ n \notin CleanNow
        <3>1. CleanNow \subseteq CleanNow'
            BY EvidenceStays
        <3>2. n \in CleanNow'
            BY <1>2, <2>3 DEF CleanNow, CleanEvidence
        <3>3. QED
            BY <3>1, <3>2, <2>3 DEF CleanNow, CleanEvidence
    <2>5. IsFiniteSet(CleanNow')
        <3>1. Len(stream') \in Nat /\ CleanNow' \in SUBSET (1..Len(stream'))
            BY DEF CleanNow, CleanEvidence, Grown
        <3>2. IsFiniteSet(1..Len(stream'))
            BY <3>1, FS_Interval
        <3>3. QED
            BY <3>1, <3>2, FS_Subset
    <2>6. Cardinality(CleanNow \cup {n}) = Cardinality(CleanNow) + 1
        BY <2>4, EvidenceFinite, FS_AddElement
    <2>7. Cardinality(CleanNow \cup {n}) <= Cardinality(CleanNow')
        BY <2>4, <2>5, FS_Subset
    <2>8. Cardinality(T) <= Cardinality(S) + 1 /\ Cardinality(T) \in Nat /\ Cardinality(S) \in Nat
        <3>0. Cardinality(S) \in Nat
            BY FS_CardinalityType
        <3>1. /\ IsFiniteSet(S \cup {r})
              /\ Cardinality(S \cup {r}) \in {Cardinality(S), Cardinality(S) + 1}
            BY FS_AddElement
        <3>2. T \in SUBSET (S \cup {r})
            BY <1>2
        <3>3. Cardinality(T) <= Cardinality(S \cup {r}) /\ IsFiniteSet(T)
            BY <3>1, <3>2, FS_Subset
        <3>4. Cardinality(T) \in Nat /\ Cardinality(S \cup {r}) \in Nat
            BY <3>1, <3>3, FS_CardinalityType
        <3>5. QED
            BY <3>0, <3>1, <3>3, <3>4
    <2>9. QED
        BY <2>6, <2>7, <2>8, CleansAre, EvidenceStays DEF Covered, CleanNow
<1>3. QED
    BY <1>1, <1>2

\* A request that is not between its evidence and its write leaves the rest covered.
LEMMA CoversStay ==
    ASSUME TypeOK, TypeOK', Grown, EvidenceCovers, NEW r \in Requests, Others(r),
           request'[r].pc \notin {"read", "write"}, control'.history = control.history
    PROVE  EvidenceCovers'
<1>1. PICK S, T, h : S = Unwritten /\ T = Unwritten' /\ h = control.history
    OBVIOUS
<1>2. IsFiniteSet(S) /\ Covered(h, S)
    BY <1>1 DEF EvidenceCovers
<1>3. T \in SUBSET S /\ h \in Seq(BOOLEAN)
    BY <1>1 DEF Unwritten, Others, TypeOK
<1>4. IsFiniteSet(T) /\ Covered(h, T)'
    BY <1>2, <1>3, CoveredStays, FS_Subset
<1>5. ASSUME NEW s \in Requests, request'[s].pc = "write"
      PROVE  Covered(request[s].history, Unwritten \ {s})'
    <2>1. s # r /\ request'[s] = request[s]
        BY <1>5 DEF Others
    <2>2. PICK g : g = request[s].history /\ g \in Seq(BOOLEAN)
        BY RequestTypes
    <2>3. Covered(g, S \ {s}) /\ IsFiniteSet(S \ {s}) /\ T \ {s} \in SUBSET (S \ {s})
        BY <1>1, <1>2, <1>3, <1>5, <2>1, <2>2, FS_RemoveElement DEF EvidenceCovers
    <2>4. Covered(g, T \ {s})'
        BY <2>2, <2>3, CoveredStays
    <2>5. QED
        BY <1>1, <2>1, <2>2, <2>4 DEF Covered
<1>6. Covered(control.history, Unwritten)' /\ IsFiniteSet(Unwritten)'
    BY <1>1, <1>4 DEF Covered
<1>7. QED
    BY <1>5, <1>6 DEF EvidenceCovers

-----------------------------------------------------------------------------
(* One step                                                                *)

\* What the control asset, the assets, the native Incident, the manifest and the
\* Decision Log say of a resolution.
Marked == \/ control.state = "RESOLVED" \/ control.policy = "ALLOW" \/ control.authorized
          \/ released # {} \/ native = "RESOLVED" \/ state = "RESOLVED" \/ log.resume
Told == native = "RESOLVED" \/ log.resume \/ state = "RESOLVED"

\* What a step adds to it rests on the application, the report and the evidence.
MarksHold ==
    /\ Marked' => Marked \/ AppliedShown
    /\ Told' => Told \/ Reported
    /\ control'.authorized => control.authorized \/ Evidence

LEMMA MarksStay ==
    ASSUME LifecycleInv, TypeOK', Grown, MarksHold
    PROVE  ResolvedAfterApplied' /\ ResolutionIsReported' /\ ResumeHasEvidence'
<1>1. /\ TypeOK
      /\ Marked => AppliedShown
      /\ Told => Reported
      /\ control.authorized => Evidence
    BY DEF LifecycleInv, ResolvedAfterApplied, ResolutionIsReported, ResumeHasEvidence, Marked,
           Told, AppliedShown, Reported, Evidence
<1>2. Marked' => AppliedShown'
    BY <1>1, ReportsStay DEF MarksHold
<1>3. Told' => Reported'
    BY <1>1, ReportsStay DEF MarksHold
<1>4. control'.authorized => Evidence'
    BY <1>1, EvidenceIsKept DEF MarksHold
<1>5. ResolvedAfterApplied'
    BY <1>2 DEF ResolvedAfterApplied, Marked, AppliedShown
<1>6. ResolutionIsReported'
    BY <1>3 DEF ResolutionIsReported, Told, Reported
<1>7. ResumeHasEvidence'
    BY <1>4 DEF ResumeHasEvidence, Evidence
<1>8. QED
    BY <1>5, <1>6, <1>7

LEMMA SameMarks ==
    ASSUME UNCHANGED <<log, control, released, native, state>>
    PROVE  MarksHold
BY DEF MarksHold, Marked, Told

LEMMA GoesOn ==
    ASSUME LifecycleInv, NEW r \in Requests, Others(r), Grown, TypeOK', MarksHold,
           StreamFounded', DeployedIsAccountable', EvidenceCovers',
           NEW q, q = request'[r], Rests(q)', Resumes(q)'
    PROVE  LifecycleInv'
<1>1. TypeOK
    BY DEF LifecycleInv
<1>2. ASSUME NEW s \in Requests PROVE Rests(request[s])' /\ Resumes(request[s])'
    <2>1. CASE s = r
        BY <2>1 DEF Rests, Resumes, Shown, Founded
    <2>2. CASE s # r
        <3>1. PICK p : p = request[s] /\ p = request'[s] /\ p \in Request
            BY <1>1, <2>2, RequestTypes DEF Others
        <3>2. Rests(p) /\ Resumes(p)
            BY <3>1 DEF LifecycleInv
        <3>3. Rests(p)' /\ Resumes(p)'
            BY <1>1, <3>1, <3>2, RestStays
        <3>4. QED
            BY <3>1, <3>3 DEF Rests, Resumes, Shown, Founded
    <2>3. QED
        BY <2>1, <2>2
<1>3. ResolvedAfterApplied' /\ ResolutionIsReported' /\ ResumeHasEvidence'
    BY MarksStay
<1>4. QED
    BY <1>2, <1>3 DEF LifecycleInv

\* A step that leaves the stream and the deployment as they are
LEMMA SameStream ==
    ASSUME LifecycleInv, NEW r \in Requests, Others(r), TypeOK', MarksHold, EvidenceCovers',
           stream' = stream, deployed' = deployed,
           NEW q \in Request, q = request'[r], Rests(q), Resumes(q)
    PROVE  LifecycleInv'
<1>1. TypeOK /\ StreamFounded /\ DeployedIsAccountable
    BY DEF LifecycleInv
<1>2. Grown /\ StreamFounded'
    BY <1>1, SameFoundation
<1>3. DeployedIsAccountable'
    BY <1>1, <1>2, DeployedStays
<1>4. Rests(q)' /\ Resumes(q)'
    BY <1>1, <1>2, RestStays
<1>5. QED
    BY <1>2, <1>3, <1>4, GoesOn

\* A step of a request that changes nothing but the request and the repository
Quiet ==
    /\ UNCHANGED <<stream, datahub, deployed, state, operator>>
    /\ branch' \in Commits \cup {None} /\ head' \in Commits \cup {None} /\ used' \subseteq Commits

LEMMA QuietIs ==
    ASSUME LifecycleInv, NEW r \in Requests, Others(r), Quiet
    PROVE  TypeOK' /\ Grown /\ MarksHold
<1>1. TypeOK
    BY DEF LifecycleInv
<1>2. UNCHANGED <<stream, log, control, released, native, deployed, state, operator>>
    BY DEF Quiet, datahub
<1>3. TypeOK'
    BY <1>1, <1>2 DEF TypeOK, Others, Quiet
<1>4. QED
    BY <1>1, <1>2, <1>3, SameGrows, SameMarks

LEMMA Moves ==
    ASSUME LifecycleInv, NEW r \in Requests, Others(r), Quiet,
           NEW q \in Request, q = request'[r], Rests(q), Resumes(q),
           q.pc \notin {"read", "write"}
    PROVE  LifecycleInv'
<1>1. TypeOK' /\ Grown /\ MarksHold
    BY QuietIs
<1>2. TypeOK /\ EvidenceCovers
    BY DEF LifecycleInv
<1>3. EvidenceCovers'
    BY <1>1, <1>2, CoversStay DEF Quiet, datahub
<1>4. QED
    BY <1>1, <1>3, SameStream DEF Quiet

\* A step that appends one event
Appends(e) ==
    Add(e) /\ UNCHANGED <<datahub, repository, deployed, state, operator>>

LEMMA AppendsIs ==
    ASSUME LifecycleInv, NEW r \in Requests, Others(r), NEW e \in Event, Appends(e),
           e.type \in Lifecycle => /\ e.bundle.status \in StatusIn[e.type]
                                  /\ Founded(Len(stream) + 1, e.bundle)
    PROVE  /\ Grown /\ StreamFounded' /\ TypeOK' /\ MarksHold /\ DeployedIsAccountable'
           /\ control'.history = control.history
<1>1. TypeOK /\ StreamFounded /\ DeployedIsAccountable
    BY DEF LifecycleInv
<1>2. /\ Add(e)
      /\ UNCHANGED <<log, control, released, native, branch, head, used, deployed, state, operator>>
    BY DEF Appends, datahub, repository
<1>3. Grown /\ StreamFounded' /\ stream' \in Seq(Event)
    BY <1>1, <1>2, AddedFoundation
<1>4. TypeOK'
    BY <1>1, <1>2, <1>3 DEF TypeOK, Others
<1>5. MarksHold
    BY <1>2, SameMarks
<1>6. DeployedIsAccountable'
    BY <1>1, <1>2, <1>3, <1>4, DeployedStays
<1>7. QED
    BY <1>2, <1>3, <1>4, <1>5, <1>6

LEMMA AppendGoesOn ==
    ASSUME LifecycleInv, NEW r \in Requests, Others(r), NEW e \in Event, Appends(e),
           e.type \in Lifecycle => /\ e.bundle.status \in StatusIn[e.type]
                                  /\ Founded(Len(stream) + 1, e.bundle),
           NEW q, q = request'[r], Rests(q)', Resumes(q)',
           q.pc \notin {"read", "write"}
    PROVE  LifecycleInv'
<1>1. /\ Grown /\ StreamFounded' /\ TypeOK' /\ MarksHold /\ DeployedIsAccountable'
      /\ control'.history = control.history
    BY AppendsIs
<1>2. TypeOK /\ EvidenceCovers
    BY DEF LifecycleInv
<1>3. EvidenceCovers'
    BY <1>1, <1>2, CoversStay
<1>4. QED
    BY <1>1, <1>3, GoesOn

-----------------------------------------------------------------------------
(* The repair handlers                                                     *)

LEMMA RequiredIs ==
    /\ DOMAIN Required = {"publish", "verify", "approve", "apply"}
    /\ DOMAIN EventOf = DOMAIN Required
    /\ Required["publish"] = "PROPOSED" /\ Required["verify"] = "PUBLISHED"
    /\ Required["approve"] = "VERIFIED" /\ Required["apply"] = "APPROVED"
    /\ EventOf["publish"] = "REPAIR_PUBLISHED" /\ EventOf["verify"] = "REPAIR_VERIFIED"
    /\ EventOf["approve"] = "APPROVAL_RECORDED" /\ EventOf["apply"] = "REPAIR_APPLIED"
    /\ StatusIn["REPAIR_PUBLISHED"] = {"PUBLISHED"} /\ StatusIn["REPAIR_VERIFIED"] = {"VERIFIED"}
    /\ StatusIn["APPROVAL_RECORDED"] = {"APPROVED", "REJECTED"}
    /\ StatusIn["REPAIR_APPLIED"] = {"APPLIED"}
BY DEF Required, EventOf, StatusIn

LEMMA InvIs ==
    ASSUME LifecycleInv, NEW r \in Requests
    PROVE  /\ TypeOK /\ StreamFounded /\ DeployedIsAccountable /\ EvidenceCovers
           /\ Rests(request[r]) /\ Resumes(request[r])
           /\ request[r] \in Request
BY RequestTypes DEF LifecycleInv

\* A request whose handler returned, or stopped, rests on nothing.
LEMMA IdleRests == Rests(Idle) /\ Resumes(Idle)
BY IdleTypes, RequiredIs DEF Rests, Resumes

\* A handler that acted holds the bundle that its event will carry.
LEMMA HandlerActed ==
    ASSUME LifecycleInv, NEW r \in Requests, NEW op \in DOMAIN Required, request[r].op = op,
           NEW b \in Bundle, Acted(r, b),
           b.status \in StatusIn[EventOf[op]], Founded(Len(stream) + 1, b)
    PROVE  /\ Others(r)
           /\ \E q \in Request : q = request'[r] /\ Rests(q) /\ Resumes(q) /\ q.pc = "log"
<1>1. TypeOK /\ Rests(request[r]) /\ request[r] \in Request
    BY InvIs
<1>2. /\ Others(r) /\ Keeps(r) /\ request'[r].pc = "log" /\ request'[r].bundle = b
      /\ request'[r].resume = request[r].resume
    BY <1>1, ActedIs
<1>3. PICK q \in Request : q = request'[r]
    BY <1>2 DEF Others
<1>4. q.op = op /\ q.bundle = b /\ q.pc = "log" /\ q.resume = request[r].resume
      /\ q.authorized = request[r].authorized
    BY <1>2, <1>3 DEF Keeps
<1>5. ~q.resume /\ (q.authorized => ProductionApproval) /\ op \notin {"idle", "recover"}
    BY <1>1, <1>4, RequiredIs, RequestTypes DEF Rests
<1>6. Rests(q)
    BY <1>4, <1>5 DEF Rests
<1>7. Resumes(q)
    BY <1>5 DEF Resumes
<1>8. QED
    BY <1>2, <1>3, <1>4, <1>6, <1>7

LEMMA BeginStep ==
    ASSUME LifecycleInv, NEW r \in Requests, NEW op \in DOMAIN Required,
           NEW d \in {"APPROVE", "REJECT"}, Begin(r, op, d)
    PROVE  LifecycleInv'
<1>1. TypeOK /\ StreamFounded
    BY InvIs
<1>2. /\ Others(r) /\ request'[r].op = op /\ request'[r].pc = "act"
      /\ request'[r].bundle = Latest /\ Latest.status = Required[op]
      /\ ~request'[r].resume /\ ~request'[r].authorized
    BY <1>1, BeginIs
<1>3. PICK q \in Request : q = request'[r]
    BY <1>2 DEF Others
<1>4. Shown(Latest)
    BY <1>1, LatestIsShown
<1>5. op \notin {"idle", "recover"}
    BY RequiredIs
<1>6. Rests(q) /\ Resumes(q) /\ q.pc \notin {"read", "write"}
    BY <1>2, <1>3, <1>4, <1>5 DEF Rests, Resumes
<1>7. Quiet
    BY <1>1 DEF Begin, Quiet, TypeOK, repository
<1>8. QED
    BY <1>2, <1>3, <1>6, <1>7, Moves

LEMMA PublishStep ==
    ASSUME LifecycleInv, NEW r \in Requests, Publish(r)
    PROVE  LifecycleInv'
<1>1. TypeOK /\ Rests(request[r]) /\ request[r].bundle \in Bundle
    BY InvIs, RequestTypes
<1>2. Step(r, "act") /\ request[r].op = "publish"
    BY DEF Publish
<1>3. /\ branch' \in Commits /\ head' \in Commits \cup {None} /\ used' \subseteq Commits
    BY <1>1 DEF Publish, TypeOK, repository
<1>4. PICK b : b = [request[r].bundle EXCEPT !.status = "PUBLISHED", !.change = branch']
    OBVIOUS
<1>5. b \in Bundle /\ b.status = "PUBLISHED" /\ b.change \in Commits
    BY <1>1, <1>3, <1>4 DEF Bundle
<1>6. Acted(r, b)
    BY <1>4 DEF Publish
<1>7. Founded(Len(stream) + 1, b)
    BY <1>5 DEF Founded
<1>8. /\ Others(r)
      /\ \E q \in Request : q = request'[r] /\ Rests(q) /\ Resumes(q) /\ q.pc = "log"
    <2>1. "publish" \in DOMAIN Required /\ b.status \in StatusIn[EventOf["publish"]]
        BY <1>5, RequiredIs
    <2>2. QED
        BY <1>2, <1>5, <1>6, <1>7, <2>1, HandlerActed
<1>9. Quiet
    BY <1>3 DEF Publish, Quiet
<1>10. QED
    BY <1>8, <1>9, Moves

LEMMA VerifyStep ==
    ASSUME LifecycleInv, NEW r \in Requests, Verify(r)
    PROVE  LifecycleInv'
<1>1. /\ TypeOK /\ StreamFounded /\ Rests(request[r]) /\ request[r].bundle \in Bundle
    BY InvIs, RequestTypes
<1>2. request[r].pc = "act" /\ request[r].op = "verify"
    BY DEF Verify, Step
<1>3. PICK a : a = request[r].bundle
    OBVIOUS
<1>4. Shown(a) /\ a.status = "PUBLISHED"
    BY <1>1, <1>2, <1>3, RequiredIs DEF Rests
<1>5. a.change \in Commits /\ Before(Len(stream) + 1, "REPAIR_PUBLISHED", a.change)
    BY <1>1, <1>4, ShownPublished
<1>6. PICK b : b = [a EXCEPT !.status = "VERIFIED", !.verification = a.change]
    OBVIOUS
<1>7. /\ b \in Bundle /\ b.status = "VERIFIED" /\ b.change = a.change
      /\ b.verification = a.change
    BY <1>1, <1>3, <1>5, <1>6 DEF Bundle
<1>8. Acted(r, b)
    BY <1>3, <1>6 DEF Verify
<1>9. Founded(Len(stream) + 1, b)
    BY <1>5, <1>7 DEF Founded
<1>10. /\ Others(r)
       /\ \E q \in Request : q = request'[r] /\ Rests(q) /\ Resumes(q) /\ q.pc = "log"
    <2>1. "verify" \in DOMAIN Required /\ b.status \in StatusIn[EventOf["verify"]]
        BY <1>7, RequiredIs
    <2>2. QED
        BY <1>2, <1>7, <1>8, <1>9, <2>1, HandlerActed
<1>11. Quiet
    BY <1>1 DEF Verify, Quiet, TypeOK, repository
<1>12. QED
    BY <1>10, <1>11, Moves

LEMMA ApproveStep ==
    ASSUME LifecycleInv, NEW r \in Requests, Approve(r)
    PROVE  LifecycleInv'
<1>1. /\ TypeOK /\ StreamFounded /\ Rests(request[r]) /\ request[r].bundle \in Bundle
      /\ request[r].decision \in {"APPROVE", "REJECT"}
    BY InvIs, RequestTypes
<1>2. request[r].pc = "act" /\ request[r].op = "approve"
    BY DEF Approve, Step
<1>3. PICK a, d : a = request[r].bundle /\ d = request[r].decision
    OBVIOUS
<1>4. Shown(a) /\ a.status = "VERIFIED"
    BY <1>1, <1>2, <1>3, RequiredIs DEF Rests
<1>5. /\ a.change \in Commits /\ a.verification = a.change
      /\ VerifiedBefore(Len(stream) + 1, a.change)
    BY <1>1, <1>4, ShownVerified
<1>6. PICK production \in Authorities : Acted(r, [a EXCEPT
           !.status = IF d = "APPROVE" THEN "APPROVED" ELSE "REJECTED",
           !.approval = [commit |-> a.verification, decision |-> d,
                         by |-> r, production |-> production]])
    BY <1>3 DEF Approve
<1>7. PICK receipt, status : /\ receipt = [commit |-> a.verification, decision |-> d,
                                           by |-> r, production |-> production]
                             /\ status = IF d = "APPROVE" THEN "APPROVED" ELSE "REJECTED"
    OBVIOUS
<1>8. PICK b : b = [a EXCEPT !.status = status, !.approval = receipt]
    OBVIOUS
<1>9. receipt \in [commit: Commits, decision: {"APPROVE", "REJECT"}, by: Requests,
                   production: BOOLEAN]
    BY <1>1, <1>3, <1>5, <1>7, LifecycleAssumption
<1>10. /\ b \in Bundle /\ b.status = status /\ b.change = a.change
       /\ b.verification = a.verification /\ b.approval = receipt
    <2>1. a \in Bundle /\ status \in {"APPROVED", "REJECTED"}
        BY <1>1, <1>3, <1>7
    <2>2. QED
        BY <1>8, <1>9, <2>1 DEF Bundle
<1>11. Founded(Len(stream) + 1, b)
    <2>1. receipt.commit = a.change /\ receipt.decision = d
        BY <1>5, <1>7
    <2>2. /\ status \in {"APPROVED", "REJECTED"}
          /\ d = "APPROVE" <=> status # "REJECTED"
        BY <1>1, <1>3, <1>7
    <2>3. QED
        BY <1>5, <1>10, <2>1, <2>2 DEF Founded
<1>12. Acted(r, b)
    BY <1>6, <1>7, <1>8
<1>13. /\ Others(r)
       /\ \E q \in Request : q = request'[r] /\ Rests(q) /\ Resumes(q) /\ q.pc = "log"
    <2>1. "approve" \in DOMAIN Required /\ b.status \in StatusIn[EventOf["approve"]]
        BY <1>7, <1>10, RequiredIs
    <2>2. QED
        BY <1>2, <1>10, <1>11, <1>12, <2>1, HandlerActed
<1>14. Quiet
    BY <1>1 DEF Approve, Quiet, TypeOK, repository
<1>15. QED
    BY <1>13, <1>14, Moves

LEMMA ApplyStep ==
    ASSUME LifecycleInv, NEW r \in Requests, Apply(r)
    PROVE  LifecycleInv'
<1>1. /\ TypeOK /\ StreamFounded /\ Rests(request[r]) /\ request[r] \in Request
      /\ request[r].bundle \in Bundle /\ DeployedIsAccountable /\ EvidenceCovers
    BY InvIs, RequestTypes
<1>2. request[r].pc = "act" /\ request[r].op = "apply"
    BY DEF Apply, Step
<1>3. PICK a : a = request[r].bundle
    OBVIOUS
<1>4. Shown(a) /\ a.status = "APPROVED"
    BY <1>1, <1>2, <1>3, RequiredIs DEF Rests
<1>5. /\ a.change \in Commits /\ a.verification = a.change
      /\ a.approval.commit = a.change /\ a.approval.decision = "APPROVE"
      /\ ApprovedBefore(Len(stream) + 1, a.change)
      /\ ReceiptBefore(Len(stream) + 1, a.approval)
    BY <1>1, <1>4, ShownApproved
<1>6. /\ deployed' = deployed \cup {a.change}
      /\ UNCHANGED <<stream, log, control, released, native, branch, head, used, state, operator>>
    BY <1>3 DEF Apply, datahub, repository
<1>7. PICK b : b = [a EXCEPT !.status = "APPLIED", !.application = a.change]
    OBVIOUS
<1>8. /\ b \in Bundle /\ b.status = "APPLIED" /\ b.change = a.change
      /\ b.verification = a.verification /\ b.approval = a.approval
      /\ b.application = a.change
    BY <1>1, <1>3, <1>5, <1>7 DEF Bundle
<1>9. Acted(r, b)
    BY <1>3, <1>7 DEF Apply
<1>10. /\ Others(r) /\ Keeps(r) /\ request'[r].pc = "log" /\ request'[r].bundle = b
       /\ request'[r].resume = request[r].resume
    BY <1>1, <1>8, <1>9, ActedIs
<1>11. PICK q \in Request : q = request'[r]
    BY <1>10 DEF Others
<1>12. TypeOK'
    BY <1>1, <1>5, <1>6, <1>10 DEF TypeOK, Others
<1>13. Grown /\ StreamFounded'
    BY <1>1, <1>6, SameFoundation
<1>14. PICK k \in 1..(Len(stream) + 1) : k = Len(stream) + 1 /\ k \in Nat /\ k <= k
    BY <1>1, StreamTypes
<1>15. Founded(k, b)'
    <2>1. ApprovedBefore(k, b.change)' /\ ReceiptBefore(k, b.approval)'
        BY <1>1, <1>5, <1>8, <1>13, <1>14, BeforeStays
    <2>2. QED
        BY <1>5, <1>6, <1>8, <2>1 DEF Founded
<1>16. Rests(q)' /\ Resumes(q)'
    <2>1. /\ q.op = "apply" /\ q.pc = "log" /\ q.bundle = b /\ q.resume = request[r].resume
          /\ q.authorized = request[r].authorized
        BY <1>2, <1>10, <1>11 DEF Keeps
    <2>2. ~q.resume /\ (q.authorized => ProductionApproval)
        BY <1>1, <1>2, <2>1, RequestTypes DEF Rests
    <2>3. q.authorized => ProductionApproval'
        BY <1>1, <1>13, <2>2, ReportsStay
    <2>4. b.status \in StatusIn[EventOf["apply"]]
        BY <1>8, RequiredIs
    <2>5. Founded(Len(stream) + 1, q.bundle)'
        BY <1>6, <1>14, <1>15, <2>1 DEF Founded
    <2>6. Rests(q)'
        BY <2>1, <2>2, <2>3, <2>4, <2>5 DEF Rests
    <2>7. QED
        BY <2>2, <2>6 DEF Resumes
<1>17. DeployedIsAccountable'
    <2>1. \A c \in deployed' : ApprovedBefore(k, c)
        BY <1>1, <1>5, <1>6, <1>14, DeployedAre
    <2>2. \A c \in deployed' : ApprovedBefore(k, c)'
        BY <1>1, <1>13, <1>14, <2>1, BeforeStays
    <2>3. k = Len(stream') + 1
        BY <1>6, <1>14
    <2>4. QED
        BY <1>13, <1>14, <2>2, <2>3, DeployedAreNext
<1>18. EvidenceCovers'
    BY <1>1, <1>6, <1>10, <1>12, <1>13, CoversStay
<1>19. MarksHold
    BY <1>6, SameMarks
<1>20. QED
    BY <1>10, <1>11, <1>12, <1>13, <1>16, <1>17, <1>18, <1>19, GoesOn

\* A recovery works for the bundle of an application that the stream shows.
LEMMA RecoverIs ==
    ASSUME LifecycleInv, NEW r \in Requests, request[r].op = "recover"
    PROVE  AppliedShown
<1>1. TypeOK /\ StreamFounded /\ Rests(request[r])
    BY InvIs
<1>2. PICK a : a = request[r].bundle
    OBVIOUS
<1>3. Shown(a) /\ a.status = "APPLIED"
    BY <1>1, <1>2 DEF Rests
<1>4. QED
    BY <1>1, <1>3, ShownApplied

\* The steps that only recover takes
LEMMA RecoversAt ==
    ASSUME LifecycleInv, NEW r \in Requests, request[r].op # "idle",
           request[r].pc \notin {"act", "log", "emit", "emitLog"}
    PROVE  request[r].op = "recover"
<1>1. Rests(request[r]) /\ request[r].op \in Ops
    BY InvIs, RequestTypes
<1>2. QED
    BY <1>1, RequiredIs DEF Rests, Ops

\* A recovery that goes on works for the same bundle.
LEMMA RecoverRests ==
    ASSUME LifecycleInv, NEW r \in Requests, request[r].op = "recover",
           NEW q \in Request, q.op = "recover", q.bundle = request[r].bundle,
           q.authorized = request[r].authorized, q.pc \notin {"done", "emit"}
    PROVE  Rests(q)
<1>1. Rests(request[r])
    BY InvIs
<1>2. QED
    BY <1>1, RequiredIs DEF Rests

LEMMA WriteLogStep ==
    ASSUME LifecycleInv, NEW r \in Requests, WriteLog(r)
    PROVE  LifecycleInv'
<1>1. /\ TypeOK /\ EvidenceCovers /\ Rests(request[r]) /\ Resumes(request[r])
      /\ request[r].op \in Ops /\ request[r].bundle \in Bundle
      /\ request[r].resume \in BOOLEAN
    BY InvIs, RequestTypes
<1>2. PICK pc : /\ pc = IF request[r].op = "recover" THEN "emitIncident" ELSE "emit"
                /\ pc \in Pcs /\ Goto(r, pc)
    BY DEF WriteLog, Pcs
<1>3. /\ Others(r) /\ Keeps(r) /\ request'[r].pc = pc
      /\ request'[r].bundle = request[r].bundle /\ request'[r].resume = request[r].resume
    BY <1>1, <1>2, GotoIs
<1>4. PICK q \in Request : q = request'[r]
    BY <1>3 DEF Others
<1>5. request[r].pc = "log" /\ request[r].op # "idle"
    BY DEF WriteLog, Step
<1>6. /\ log' = [status |-> request[r].bundle.status, resume |-> request[r].resume]
      /\ UNCHANGED <<stream, control, released, native, branch, head, used, deployed, state,
                     operator>>
    BY DEF WriteLog, repository
<1>7. TypeOK'
    <2>1. request[r].bundle.status \in {"PROPOSED", "PUBLISHED", "VERIFIED", "APPROVED",
                                        "REJECTED", "APPLIED"}
        BY <1>1 DEF Bundle
    <2>2. QED
        BY <1>1, <1>3, <1>6, <2>1 DEF TypeOK, Others
<1>8. request[r].resume => Reported /\ AppliedShown
    BY <1>1, <1>5, RecoverIs DEF Rests, Resumes
<1>9. MarksHold
    BY <1>6, <1>8 DEF MarksHold, Marked, Told
<1>10. EvidenceCovers'
    <2>1. Grown
        BY <1>1, <1>6, SameGrows
    <2>2. request'[r].pc \notin {"read", "write"}
        BY <1>2, <1>3
    <2>3. QED
        BY <1>1, <1>3, <1>6, <1>7, <2>1, <2>2, CoversStay
<1>11. Rests(q)
    <2>1. CASE request[r].op = "recover"
        BY <1>2, <1>3, <1>4, <2>1, RecoverRests DEF Keeps
    <2>2. CASE request[r].op # "recover"
        <3>1. request[r].op \in DOMAIN Required /\ q.op = request[r].op /\ q.pc = "emit"
            BY <1>1, <1>2, <1>3, <1>4, <1>5, <2>2, RequiredIs DEF Ops, Keeps
        <3>2. /\ q.bundle = request[r].bundle /\ q.resume = request[r].resume
              /\ q.authorized = request[r].authorized
            BY <1>3, <1>4 DEF Keeps
        <3>3. /\ q.bundle.status \in StatusIn[EventOf[q.op]]
              /\ Founded(Len(stream) + 1, q.bundle)
            BY <1>1, <1>5, <3>1, <3>2 DEF Rests
        <3>4. QED
            BY <1>1, <1>5, <2>2, <3>1, <3>2, <3>3 DEF Rests
    <2>3. QED
        BY <2>1, <2>2
<1>12. Resumes(q)
    BY <1>2, <1>3, <1>4, <1>8 DEF Resumes
<1>13. QED
    BY <1>3, <1>4, <1>6, <1>7, <1>9, <1>10, <1>11, <1>12, SameStream

\* A step that appends an event leaves the request founded if it was before.
LEMMA AppendStays ==
    ASSUME LifecycleInv, NEW r \in Requests, Others(r), NEW e \in Event, Appends(e),
           e.type \in Lifecycle => /\ e.bundle.status \in StatusIn[e.type]
                                  /\ Founded(Len(stream) + 1, e.bundle),
           NEW q \in Request, q = request'[r], Rests(q), Resumes(q),
           q.pc \notin {"read", "write"}
    PROVE  LifecycleInv'
<1>1. TypeOK /\ TypeOK' /\ Grown
    BY InvIs, AppendsIs
<1>2. Rests(q)' /\ Resumes(q)'
    BY <1>1, RestStays
<1>3. QED
    BY <1>2, AppendGoesOn

LEMMA EmitLifecycleStep ==
    ASSUME LifecycleInv, NEW r \in Requests, EmitLifecycle(r)
    PROVE  LifecycleInv'
<1>1. /\ TypeOK /\ Rests(request[r]) /\ request[r].op \in Ops /\ request[r].bundle \in Bundle
      /\ request[r].resume \in BOOLEAN
    BY InvIs, RequestTypes
<1>2. request[r].pc = "emit" /\ request[r].op # "idle"
    BY DEF EmitLifecycle, Step
<1>3. request[r].op \in DOMAIN Required /\ ~request[r].resume
    BY <1>1, <1>2, RequiredIs DEF Rests, Ops
<1>4. PICK e : e = [type |-> EventOf[request[r].op], bundle |-> request[r].bundle]
    OBVIOUS
<1>5. e \in Event /\ e.type = EventOf[request[r].op] /\ e.bundle = request[r].bundle
    <2>1. EventOf[request[r].op] \in Lifecycle
        BY <1>3, RequiredIs DEF Lifecycle
    <2>2. QED
        BY <1>1, <1>4, <2>1 DEF Event
<1>6. e.bundle.status \in StatusIn[e.type] /\ Founded(Len(stream) + 1, e.bundle)
    BY <1>1, <1>2, <1>3, <1>5 DEF Rests
<1>7. Appends(e) /\ Goto(r, "emitLog")
    BY <1>4 DEF EmitLifecycle, Appends
<1>8. /\ Others(r) /\ Keeps(r) /\ request'[r].pc = "emitLog"
      /\ request'[r].bundle = request[r].bundle /\ request'[r].resume = request[r].resume
    <2>1. "emitLog" \in Pcs
        BY DEF Pcs
    <2>2. QED
        BY <1>1, <1>7, <2>1, GotoIs
<1>9. PICK q \in Request : q = request'[r]
    BY <1>8 DEF Others
<1>10. Rests(q) /\ Resumes(q)
    <2>1. /\ q.op = request[r].op /\ q.pc = "emitLog" /\ ~q.resume
          /\ q.authorized = request[r].authorized /\ q.op \notin {"idle", "recover"}
        BY <1>3, <1>8, <1>9, RequiredIs DEF Keeps
    <2>2. QED
        BY <1>1, <2>1 DEF Rests, Resumes
<1>11. QED
    BY <1>5, <1>6, <1>7, <1>8, <1>9, <1>10, AppendStays

LEMMA EmitLogWrittenStep ==
    ASSUME LifecycleInv, NEW r \in Requests, EmitLogWritten(r)
    PROVE  LifecycleInv'
<1>1. TypeOK
    BY InvIs
<1>2. PICK e : e = [type |-> "DECISION_LOG_WRITTEN", clean |-> FALSE]
    OBVIOUS
<1>3. e \in Event /\ e.type \notin Lifecycle
    BY <1>2 DEF Event, Lifecycle, Reports
<1>4. Appends(e) /\ Return(r)
    BY <1>2 DEF EmitLogWritten, Appends, Report
<1>5. Others(r) /\ request'[r] = Idle
    BY <1>1, <1>4, ReturnIs
<1>6. Idle \in Request /\ Idle.pc \notin {"read", "write"} /\ Rests(Idle) /\ Resumes(Idle)
    BY IdleTypes, IdleRests
<1>7. QED
    BY <1>3, <1>4, <1>5, <1>6, AppendStays

LEMMA LeaveStep ==
    ASSUME LifecycleInv, NEW r \in Requests, Leave(r)
    PROVE  LifecycleInv'
<1>1. TypeOK
    BY InvIs
<1>2. Others(r) /\ request'[r] = Idle
    BY <1>1, ReturnIs DEF Leave
<1>3. Idle \in Request /\ Idle.pc \notin {"read", "write"} /\ Rests(Idle) /\ Resumes(Idle)
    BY IdleTypes, IdleRests
<1>4. Quiet
    BY <1>1 DEF Leave, Quiet, TypeOK, repository
<1>5. QED
    BY <1>2, <1>3, <1>4, Moves

-----------------------------------------------------------------------------
(* recover                                                                 *)

LEMMA BeginRecoverStep ==
    ASSUME LifecycleInv, NEW r \in Requests, NEW withApproval \in BOOLEAN,
           BeginRecover(r, withApproval)
    PROVE  LifecycleInv'
<1>1. TypeOK /\ StreamFounded
    BY InvIs
<1>2. PICK b : b = Latest
    OBVIOUS
<1>3. /\ Others(r) /\ request'[r].op = "recover" /\ request'[r].pc = "act"
      /\ request'[r].bundle = b /\ b.status = "APPLIED" /\ ~request'[r].resume
      /\ request'[r].authorized => b.approval.production
    BY <1>1, <1>2, BeginRecoverIs
<1>4. PICK q \in Request : q = request'[r]
    BY <1>3 DEF Others
<1>5. Shown(b) /\ (b.approval.production => ProductionApproval)
    BY <1>1, <1>2, <1>3, LatestIsShown, ShownApplied
<1>6. Rests(q) /\ Resumes(q) /\ q.pc \notin {"read", "write"}
    <2>1. q.authorized => ProductionApproval
        BY <1>3, <1>4, <1>5
    <2>2. QED
        BY <1>3, <1>4, <1>5, <2>1, RequiredIs DEF Rests, Resumes
<1>7. Quiet
    BY <1>1 DEF BeginRecover, Quiet, TypeOK, repository
<1>8. QED
    BY <1>3, <1>4, <1>6, <1>7, Moves

LEMMA ReverifyStep ==
    ASSUME LifecycleInv, NEW r \in Requests, Reverify(r)
    PROVE  LifecycleInv'
<1>1. TypeOK /\ Resumes(request[r])
    BY InvIs
<1>2. /\ Others(r) /\ Keeps(r) /\ request'[r].pc = "refresh"
      /\ request'[r].bundle = request[r].bundle /\ request'[r].resume = request[r].resume
    BY <1>1, ReverifyIs
<1>3. PICK q \in Request : q = request'[r]
    BY <1>2 DEF Others
<1>4. request[r].op = "recover"
    BY DEF Reverify
<1>5. Rests(q) /\ Resumes(q) /\ q.pc \notin {"read", "write"}
    BY <1>2, <1>3, <1>4, RecoverRests DEF Keeps, Resumes
<1>6. Quiet
    BY <1>1 DEF Reverify, Quiet, TypeOK, repository
<1>7. QED
    BY <1>2, <1>3, <1>5, <1>6, Moves

\* An append through the recorder of recover
LEMMA EmitStaleRests ==
    ASSUME LifecycleInv, NEW r \in Requests, request[r].op = "recover",
           NEW type \in Reports, NEW pc \in Pcs \ {"done", "emit"}, EmitStale(r, type, pc)
    PROVE  /\ Others(r) /\ request'[r].pc = pc /\ request'[r].resume = request[r].resume
           /\ request'[r].clean = request[r].clean
           /\ \E e \in Event : /\ e = [type |-> type, clean |-> request[r].clean]
                               /\ e.type = type /\ e.type \notin Lifecycle /\ Appends(e)
           /\ \E q \in Request : q = request'[r] /\ Rests(q)
<1>1. TypeOK
    BY InvIs
<1>2. PICK e : e = [type |-> type, clean |-> request[r].clean]
    OBVIOUS
<1>3. /\ Others(r) /\ Keeps(r) /\ request'[r].pc = pc
      /\ request'[r].bundle = request[r].bundle /\ request'[r].resume = request[r].resume
      /\ request'[r].clean = request[r].clean
      /\ e \in Event /\ e.type = type /\ Add(e)
      /\ UNCHANGED <<datahub, repository, deployed, state, operator>>
    BY <1>1, <1>2, EmitStaleIs
<1>4. e.type \notin Lifecycle /\ Appends(e)
    BY <1>3 DEF Appends, Lifecycle, Reports
<1>5. PICK q \in Request : q = request'[r]
    BY <1>3 DEF Others
<1>6. Rests(q)
    BY <1>3, <1>5, RecoverRests DEF Keeps
<1>7. QED
    BY <1>2, <1>3, <1>4, <1>5, <1>6

LEMMA EmitRefreshedStep ==
    ASSUME LifecycleInv, NEW r \in Requests, EmitRefreshed(r)
    PROVE  LifecycleInv'
<1>1. /\ TypeOK /\ EvidenceCovers /\ request[r].clean \in BOOLEAN
      /\ request[r].resume \in BOOLEAN
    BY InvIs, RequestTypes
<1>2. request[r].pc = "refresh" /\ request[r].op = "recover"
    BY RecoversAt DEF EmitRefreshed, Step
<1>3. PICK clean \in BOOLEAN : clean = request[r].clean
    BY <1>1
<1>4. /\ Others(r) /\ request'[r].pc = "read" /\ request'[r].clean = clean
      /\ \E e \in Event : /\ e = [type |-> "RECOVERY_EVIDENCE_REFRESHED", clean |-> clean]
                          /\ e.type \notin Lifecycle /\ Appends(e)
      /\ \E q \in Request : q = request'[r] /\ Rests(q)
    <2>1. "RECOVERY_EVIDENCE_REFRESHED" \in Reports /\ "read" \in Pcs \ {"done", "emit"}
        BY DEF Reports, Pcs
    <2>2. EmitStale(r, "RECOVERY_EVIDENCE_REFRESHED", "read")
        BY DEF EmitRefreshed
    <2>3. QED
        BY <1>2, <1>3, <2>1, <2>2, EmitStaleRests
<1>5. PICK q \in Request : q = request'[r] /\ Rests(q) /\ q.pc = "read"
    BY <1>4
<1>6. PICK e \in Event : /\ e = [type |-> "RECOVERY_EVIDENCE_REFRESHED", clean |-> clean]
                         /\ e.type \notin Lifecycle /\ Appends(e)
    BY <1>4
<1>7. /\ Grown /\ StreamFounded' /\ TypeOK' /\ MarksHold /\ DeployedIsAccountable'
      /\ control'.history = control.history
    BY <1>4, <1>6, AppendsIs
<1>8. Rests(q)' /\ Resumes(q)'
    <2>1. Resumes(q)
        BY <1>5 DEF Resumes
    <2>2. QED
        BY <1>1, <1>5, <1>7, <2>1, RestStays
<1>9. EvidenceCovers'
    <2>1. PICK S, T, h : S = Unwritten /\ T = Unwritten' /\ h = control.history
        OBVIOUS
    <2>2. IsFiniteSet(S) /\ Covered(h, S) /\ h \in Seq(BOOLEAN)
        BY <1>1, <2>1 DEF EvidenceCovers, TypeOK
    <2>3. T \in SUBSET (IF clean THEN S \cup {r} ELSE S)
        <3>1. \A s \in T : (s = r /\ clean) \/ s \in S
            BY <1>4, <2>1 DEF Unwritten, Others
        <3>2. QED
            BY <3>1
    <2>4. Add([type |-> "RECOVERY_EVIDENCE_REFRESHED", clean |-> clean])
        BY <1>6 DEF Appends
    <2>5. Covered(h, T)'
        BY <1>1, <1>7, <2>2, <2>3, <2>4, CoveredGrows
    <2>6. IsFiniteSet(T)
        <3>1. IsFiniteSet(S \cup {r}) /\ T \in SUBSET (S \cup {r})
            BY <2>2, <2>3, FS_AddElement
        <3>2. QED
            BY <3>1, FS_Subset
    <2>7. ASSUME NEW s \in Requests, request'[s].pc = "write"
          PROVE  Covered(request[s].history, Unwritten \ {s})'
        <3>1. s # r /\ request'[s] = request[s]
            BY <1>4, <2>7 DEF Others
        <3>2. PICK g : g = request[s].history /\ g \in Seq(BOOLEAN)
            BY <1>1, RequestTypes
        <3>3. Covered(g, S \ {s}) /\ IsFiniteSet(S \ {s})
            BY <1>1, <2>1, <2>2, <2>7, <3>1, <3>2, FS_RemoveElement DEF EvidenceCovers
        <3>4. T \ {s} \in SUBSET (IF clean THEN (S \ {s}) \cup {r} ELSE S \ {s})
            BY <2>3
        <3>5. Covered(g, T \ {s})'
            BY <1>1, <1>7, <2>4, <3>2, <3>3, <3>4, CoveredGrows
        <3>6. QED
            BY <2>1, <3>1, <3>2, <3>5 DEF Covered
    <2>8. Covered(control.history, Unwritten)' /\ IsFiniteSet(Unwritten)'
        BY <1>7, <2>1, <2>5, <2>6 DEF Covered
    <2>9. QED
        BY <2>7, <2>8 DEF EvidenceCovers
<1>10. QED
    BY <1>4, <1>5, <1>7, <1>8, <1>9, GoesOn

\* A decision to resume rests on the evidence.
LEMMA ResumeIsFounded ==
    ASSUME TypeOK, NEW h \in Seq(BOOLEAN), NEW S, IsFiniteSet(S), Covered(h, S),
           NEW clean \in BOOLEAN, NEW authorized \in BOOLEAN, Resume(h, clean, authorized),
           clean => Cleans(h) # {}, authorized => ProductionApproval
    PROVE  Evidence
<1>1. /\ Cardinality(Cleans(h)) <= Cardinality(CleanNow)
      /\ Cardinality(CleanNow) \in Nat /\ Cardinality(Cleans(h)) \in Nat
    <2>1. Cardinality(S) \in Nat
        BY FS_CardinalityType
    <2>2. QED
        BY <2>1, CleansAre, EvidenceFinite DEF Covered, CleanNow
<1>2. CASE ApprovedByHistory(h)
    <2>1. Cardinality(Cleans(h)) >= CleanRuns /\ CleanRuns \in Nat
        BY <1>2, PolicyAssumption, EndsCleanHas DEF ApprovedByHistory
    <2>2. QED
        BY <1>1, <2>1 DEF Evidence, CleanNow
<1>3. CASE ApprovedByHuman(clean, authorized)
    <2>1. clean /\ authorized /\ AllowOneClean
        BY <1>3 DEF ApprovedByHuman
    <2>2. Cardinality(Cleans(h)) # 0
        BY <2>1, CleansAre, FS_EmptySet
    <2>3. PICK N : N = CleanNow
        OBVIOUS
    <2>4. Cardinality(N) # 0
        BY <1>1, <2>2, <2>3
    <2>5. N # {}
        BY <2>4, FS_EmptySet
    <2>6. QED
        BY <2>1, <2>3, <2>5 DEF Evidence, CleanNow
<1>4. QED
    BY <1>2, <1>3 DEF Resume

LEMMA ReadControlStep ==
    ASSUME LifecycleInv, NEW r \in Requests, ReadControl(r)
    PROVE  LifecycleInv'
<1>1. /\ TypeOK /\ EvidenceCovers /\ Rests(request[r])
      /\ request[r].clean \in BOOLEAN /\ request[r].authorized \in BOOLEAN
      /\ control.history \in Seq(BOOLEAN)
    BY InvIs, RequestTypes DEF TypeOK
<1>2. request[r].pc = "read" /\ request[r].op = "recover"
    BY RecoversAt DEF ReadControl, Step
<1>3. PICK old, clean, h : /\ old = control.history /\ clean = request[r].clean
                           /\ h = Append(old, clean)
    OBVIOUS
<1>4. /\ Others(r) /\ Keeps(r) /\ request'[r].pc = "write"
      /\ request'[r].bundle = request[r].bundle /\ request'[r].clean = clean
      /\ request'[r].history = h /\ h \in Seq(BOOLEAN)
      /\ request'[r].resume = Resume(h, clean, request[r].authorized)
    BY <1>1, <1>3, ReadControlIs
<1>5. PICK q \in Request : q = request'[r]
    BY <1>4 DEF Others
<1>6. Quiet
    BY <1>1 DEF ReadControl, Quiet, TypeOK, repository
<1>7. TypeOK' /\ Grown /\ MarksHold
    BY <1>4, <1>6, QuietIs
<1>8. PICK S : S = Unwritten
    OBVIOUS
<1>9. Unwritten' = S
    <2>1. \A s \in Requests : request'[s].pc \in {"read", "write"} /\ request'[s].clean
                                <=> request[s].pc \in {"read", "write"} /\ request[s].clean
        BY <1>2, <1>3, <1>4 DEF Others
    <2>2. QED
        BY <1>8, <2>1 DEF Unwritten
<1>10. IsFiniteSet(S) /\ Covered(old, S) /\ IsFiniteSet(S \ {r})
    BY <1>1, <1>3, <1>8, FS_RemoveElement DEF EvidenceCovers
<1>11. r \in S <=> clean
    BY <1>2, <1>3, <1>8 DEF Unwritten
<1>12. Covered(h, S \ {r})
    <2>1. Cardinality(Cleans(h)) = IF clean THEN Cardinality(Cleans(old)) + 1
                                            ELSE Cardinality(Cleans(old))
        BY <1>1, <1>3, CleansGrow
    <2>2. Cardinality(S \ {r}) = IF clean THEN Cardinality(S) - 1 ELSE Cardinality(S)
        BY <1>10, <1>11, FS_RemoveElement
    <2>3. /\ Cardinality(S) \in Nat /\ Cardinality(Cleans(old)) \in Nat
          /\ Cardinality(CleanNow) \in Nat
        BY <1>1, <1>3, <1>10, CleansAre, EvidenceFinite, FS_CardinalityType
    <2>4. QED
        BY <1>10, <2>1, <2>2, <2>3 DEF Covered, CleanNow
<1>13. Rests(q)
    BY <1>2, <1>4, <1>5, RecoverRests DEF Keeps
<1>14. Resumes(q)
    <2>1. q.pc = "write" /\ q.resume = Resume(h, clean, request[r].authorized)
        BY <1>4, <1>5
    <2>2. clean => Cleans(h) # {}
        <3>1. Len(old) + 1 \in DOMAIN h /\ h[Len(old) + 1] = clean
            BY <1>1, <1>3
        <3>2. QED
            BY <3>1 DEF Cleans
    <2>3. request[r].authorized => ProductionApproval
        BY <1>1 DEF Rests
    <2>4. Resume(h, clean, request[r].authorized) => Evidence
        BY <1>1, <1>3, <1>4, <1>10, <1>12, <2>2, <2>3, ResumeIsFounded
    <2>5. QED
        BY <2>1, <2>4 DEF Resumes
<1>15. EvidenceCovers'
    <2>1. Covered(old, S)'
        BY <1>1, <1>3, <1>7, <1>10, CoveredStays
    <2>2. Covered(h, S \ {r})'
        BY <1>1, <1>4, <1>7, <1>10, <1>12, CoveredStays
    <2>3. ASSUME NEW s \in Requests, request'[s].pc = "write"
          PROVE  Covered(request[s].history, Unwritten \ {s})'
        <3>1. CASE s = r
            BY <1>4, <1>9, <2>2, <3>1 DEF Covered
        <3>2. CASE s # r
            <4>1. request'[s] = request[s]
                BY <1>4, <3>2 DEF Others
            <4>2. PICK g : g = request[s].history /\ g \in Seq(BOOLEAN)
                BY <1>1, RequestTypes
            <4>3. Covered(g, S \ {s}) /\ IsFiniteSet(S \ {s})
                BY <1>1, <1>8, <1>10, <2>3, <4>1, <4>2, FS_RemoveElement DEF EvidenceCovers
            <4>4. Covered(g, S \ {s})'
                BY <1>1, <1>7, <4>2, <4>3, CoveredStays
            <4>5. QED
                BY <1>9, <4>1, <4>2, <4>4 DEF Covered
        <3>3. QED
            BY <3>1, <3>2
    <2>4. control'.history = old
        BY <1>3, <1>6 DEF Quiet, datahub
    <2>5. Covered(control.history, Unwritten)' /\ IsFiniteSet(Unwritten)'
        BY <1>9, <1>10, <2>1, <2>4 DEF Covered
    <2>6. QED
        BY <2>3, <2>5 DEF EvidenceCovers
<1>16. stream' = stream /\ deployed' = deployed
    BY <1>6 DEF Quiet
<1>17. QED
    BY <1>4, <1>5, <1>7, <1>13, <1>14, <1>15, <1>16, SameStream

\* What an evaluation makes of the state of the control asset
LEMMA NextStateIs ==
    ASSUME NEW previous \in ControlStates, NEW clean \in BOOLEAN, NEW resume \in BOOLEAN
    PROVE  /\ NextState(previous, clean, resume) \in ControlStates
           /\ NextState(previous, clean, resume) = "RESOLVED" => resume
BY DEF NextState, ControlStates

LEMMA WriteControlStep ==
    ASSUME LifecycleInv, NEW r \in Requests, WriteControl(r)
    PROVE  LifecycleInv'
<1>1. /\ TypeOK /\ EvidenceCovers /\ Resumes(request[r])
      /\ request[r].clean \in BOOLEAN /\ request[r].resume \in BOOLEAN
      /\ request[r].previous \in ControlStates /\ request[r].history \in Seq(BOOLEAN)
    BY InvIs, RequestTypes
<1>2. request[r].pc = "write" /\ request[r].op = "recover"
    BY RecoversAt DEF WriteControl, Step
<1>3. /\ Others(r) /\ Keeps(r) /\ request'[r].pc \in {"assets", "report"}
      /\ request'[r].bundle = request[r].bundle /\ request'[r].resume = request[r].resume
    BY <1>1, WriteControlIs
<1>4. PICK q \in Request : q = request'[r]
    BY <1>3 DEF Others
<1>5. /\ control' = [state |-> Outcome(r), history |-> request[r].history,
                     policy |-> IF request[r].resume THEN "ALLOW" ELSE control.policy,
                     authorized |-> request[r].resume]
      /\ UNCHANGED <<stream, log, released, native, branch, head, used, deployed, state,
                     operator>>
    BY DEF WriteControl, repository
<1>6. Outcome(r) \in ControlStates
    BY <1>1, NextStateIs DEF Outcome
<1>7. TypeOK'
    <2>1. control.policy \in {"HALT", "ALLOW"}
        BY <1>1 DEF TypeOK
    <2>2. control' \in [state: ControlStates, history: Seq(BOOLEAN), policy: {"HALT", "ALLOW"},
                        authorized: BOOLEAN]
        BY <1>1, <1>5, <1>6, <2>1
    <2>3. QED
        BY <1>1, <1>3, <1>5, <2>2 DEF TypeOK, Others
<1>8. Grown
    BY <1>1, <1>5, SameGrows
<1>9. MarksHold
    <2>1. AppliedShown
        BY <1>2, RecoverIs
    <2>2. control'.authorized => Evidence
        BY <1>1, <1>2, <1>5 DEF Resumes
    <2>3. QED
        BY <1>5, <2>1, <2>2 DEF MarksHold, Told
<1>10. Rests(q) /\ Resumes(q)
    BY <1>2, <1>3, <1>4, RecoverRests DEF Keeps, Resumes
<1>11. EvidenceCovers'
    <2>1. PICK S, T, h : S = Unwritten /\ T = Unwritten' /\ h = request[r].history
        OBVIOUS
    <2>2. /\ IsFiniteSet(S) /\ IsFiniteSet(S \ {r}) /\ Covered(h, S \ {r})
          /\ h \in Seq(BOOLEAN) /\ T \in SUBSET (S \ {r})
        BY <1>1, <1>2, <1>3, <2>1, FS_RemoveElement DEF EvidenceCovers, Unwritten, Others
    <2>3. IsFiniteSet(T) /\ Covered(h, T)'
        BY <1>1, <1>7, <1>8, <2>2, CoveredStays, FS_Subset
    <2>4. ASSUME NEW s \in Requests, request'[s].pc = "write"
          PROVE  Covered(request[s].history, Unwritten \ {s})'
        <3>1. s # r /\ request'[s] = request[s]
            BY <1>3, <2>4 DEF Others
        <3>2. PICK g : g = request[s].history /\ g \in Seq(BOOLEAN)
            BY <1>1, RequestTypes
        <3>3. /\ Covered(g, S \ {s}) /\ IsFiniteSet(S \ {s})
              /\ T \ {s} \in SUBSET (S \ {s})
            BY <1>1, <2>1, <2>2, <2>4, <3>1, <3>2, FS_RemoveElement DEF EvidenceCovers
        <3>4. Covered(g, T \ {s})'
            BY <1>1, <1>7, <1>8, <3>2, <3>3, CoveredStays
        <3>5. QED
            BY <2>1, <3>1, <3>2, <3>4 DEF Covered
    <2>5. Covered(control.history, Unwritten)' /\ IsFiniteSet(Unwritten)'
        BY <1>5, <2>1, <2>3 DEF Covered
    <2>6. QED
        BY <2>4, <2>5 DEF EvidenceCovers
<1>12. QED
    BY <1>3, <1>4, <1>5, <1>7, <1>9, <1>10, <1>11, SameStream

LEMMA WriteAssetStep ==
    ASSUME LifecycleInv, NEW r \in Requests, WriteAsset(r)
    PROVE  LifecycleInv'
<1>1. TypeOK /\ EvidenceCovers
    BY InvIs
<1>2. request[r].op = "recover"
    BY RecoversAt DEF WriteAsset, Step
<1>3. /\ Others(r) /\ Keeps(r) /\ request'[r].pc \in {"assets", "report"}
      /\ request'[r].bundle = request[r].bundle /\ request'[r].resume = request[r].resume
      /\ released' \subseteq Assets
    BY <1>1, WriteAssetIs
<1>4. PICK q \in Request : q = request'[r]
    BY <1>3 DEF Others
<1>5. UNCHANGED <<stream, log, control, native, branch, head, used, deployed, state, operator>>
    BY DEF WriteAsset, repository
<1>6. TypeOK'
    BY <1>1, <1>3, <1>5 DEF TypeOK, Others
<1>7. Grown
    BY <1>1, <1>5, SameGrows
<1>8. MarksHold
    BY <1>2, <1>5, RecoverIs DEF MarksHold, Told
<1>9. Rests(q) /\ Resumes(q)
    BY <1>2, <1>3, <1>4, RecoverRests DEF Keeps, Resumes
<1>10. EvidenceCovers'
    BY <1>1, <1>3, <1>5, <1>6, <1>7, CoversStay
<1>11. QED
    BY <1>3, <1>4, <1>5, <1>6, <1>8, <1>9, <1>10, SameStream

LEMMA EmitResultStep ==
    ASSUME LifecycleInv, NEW r \in Requests, EmitResult(r)
    PROVE  LifecycleInv'
<1>1. TypeOK /\ request[r].resume \in BOOLEAN
    BY InvIs, RequestTypes
<1>2. request[r].op = "recover"
    BY RecoversAt DEF EmitResult, Step
<1>3. PICK type \in Reports :
          /\ type = IF request[r].resume THEN "INCIDENT_RESOLVED" ELSE "RECOVERY_CHECKED"
          /\ EmitStale(r, type, "incident")
    BY DEF EmitResult, Reports
<1>4. /\ Others(r) /\ request'[r].pc = "incident" /\ request'[r].resume = request[r].resume
      /\ \E e \in Event : e.type = type /\ e.type \notin Lifecycle /\ Appends(e)
      /\ \E q \in Request : q = request'[r] /\ Rests(q)
    <2>1. "incident" \in Pcs \ {"done", "emit"}
        BY DEF Pcs
    <2>2. QED
        BY <1>2, <1>3, <2>1, EmitStaleRests
<1>5. PICK q \in Request : q = request'[r] /\ Rests(q) /\ q.resume = request[r].resume
                           /\ q.pc = "incident"
    BY <1>4
<1>6. PICK e \in Event : e.type = type /\ e.type \notin Lifecycle /\ Appends(e)
    BY <1>4
<1>7. Grown /\ TypeOK'
    BY <1>4, <1>6, AppendsIs
<1>8. Resumes(q)'
    <2>1. CASE q.resume
        <3>1. Len(stream) + 1 \in DOMAIN stream' /\ stream'[Len(stream) + 1] = e
            BY <1>1, <1>6, StreamTypes, AddGrows DEF Appends, Grown
        <3>2. Reported'
            BY <1>3, <1>5, <1>6, <2>1, <3>1 DEF Reported
        <3>3. QED
            BY <1>5, <3>2 DEF Resumes
    <2>2. CASE ~q.resume
        BY <2>2 DEF Resumes
    <2>3. QED
        BY <2>1, <2>2
<1>9. Rests(q)'
    <2>1. PICK p : p = [q EXCEPT !.resume = FALSE]
        OBVIOUS
    <2>2. /\ p \in Request /\ p.op = q.op /\ p.pc = q.pc /\ p.bundle = q.bundle
          /\ p.authorized = q.authorized /\ ~p.resume
        BY <2>1 DEF Request
    <2>3. Rests(p) /\ Resumes(p)
        BY <1>5, <2>2 DEF Rests, Resumes
    <2>4. Rests(p)'
        BY <1>1, <1>7, <2>2, <2>3, RestStays
    <2>5. q.resume => q.op = "recover"
        BY <1>5 DEF Rests
    <2>6. QED
        BY <2>2, <2>4, <2>5 DEF Rests
<1>10. QED
    BY <1>4, <1>5, <1>6, <1>8, <1>9, AppendGoesOn

LEMMA UpdateIncidentStep ==
    ASSUME LifecycleInv, NEW r \in Requests, UpdateIncident(r)
    PROVE  LifecycleInv'
<1>1. /\ TypeOK /\ EvidenceCovers /\ Resumes(request[r]) /\ request[r].resume \in BOOLEAN
    BY InvIs, RequestTypes
<1>2. request[r].pc = "incident" /\ request[r].op = "recover"
    BY RecoversAt DEF UpdateIncident, Step
<1>3. /\ Others(r) /\ Keeps(r) /\ request'[r].pc = "log"
      /\ request'[r].bundle = request[r].bundle /\ request'[r].resume = request[r].resume
    <2>1. Goto(r, "log") /\ "log" \in Pcs
        BY DEF UpdateIncident, Pcs
    <2>2. QED
        BY <1>1, <2>1, GotoIs
<1>4. PICK q \in Request : q = request'[r]
    BY <1>3 DEF Others
<1>5. /\ native' = IF request[r].resume THEN "RESOLVED" ELSE "ACTIVE"
      /\ UNCHANGED <<stream, log, control, released, branch, head, used, deployed, state,
                     operator>>
    BY DEF UpdateIncident, repository
<1>6. TypeOK'
    BY <1>1, <1>3, <1>5 DEF TypeOK, Others
<1>7. Grown
    BY <1>1, <1>5, SameGrows
<1>8. request[r].resume => Reported
    BY <1>1, <1>2 DEF Resumes
<1>9. MarksHold
    BY <1>2, <1>5, <1>8, RecoverIs DEF MarksHold, Told
<1>10. Rests(q) /\ Resumes(q)
    BY <1>2, <1>3, <1>4, <1>8, RecoverRests DEF Keeps, Resumes
<1>11. EvidenceCovers'
    BY <1>1, <1>3, <1>5, <1>6, <1>7, CoversStay
<1>12. QED
    BY <1>3, <1>4, <1>5, <1>6, <1>9, <1>10, <1>11, SameStream

\* An append of recover after its result
LEMMA EmitStaleStep ==
    ASSUME LifecycleInv, NEW r \in Requests, request[r].op = "recover",
           request[r].pc \in {"emitIncident", "emitLog"},
           NEW type \in Reports, NEW pc \in {"emitLog", "state"}, EmitStale(r, type, pc)
    PROVE  LifecycleInv'
<1>1. /\ Others(r) /\ request'[r].pc = pc /\ request'[r].resume = request[r].resume
      /\ \E e \in Event : e.type = type /\ e.type \notin Lifecycle /\ Appends(e)
      /\ \E q \in Request : q = request'[r] /\ Rests(q)
    <2>1. pc \in Pcs \ {"done", "emit"}
        BY DEF Pcs
    <2>2. QED
        BY <2>1, EmitStaleRests
<1>2. PICK q \in Request : q = request'[r] /\ Rests(q) /\ q.resume = request[r].resume
                           /\ q.pc = pc
    BY <1>1
<1>3. Resumes(request[r])
    BY InvIs
<1>4. Resumes(q)
    BY <1>2, <1>3 DEF Resumes
<1>5. QED
    BY <1>1, <1>2, <1>4, AppendStays

LEMMA UpdateStateStep ==
    ASSUME LifecycleInv, NEW r \in Requests, UpdateState(r)
    PROVE  LifecycleInv'
<1>1. /\ TypeOK /\ EvidenceCovers /\ Resumes(request[r]) /\ request[r].resume \in BOOLEAN
      /\ request[r].clean \in BOOLEAN /\ request[r].previous \in ControlStates
    BY InvIs, RequestTypes
<1>2. request[r].pc = "state" /\ request[r].op = "recover"
    BY RecoversAt DEF UpdateState, Step
<1>3. Others(r) /\ request'[r] = Idle
    BY <1>1, ReturnIs DEF UpdateState
<1>4. /\ state' = Outcome(r)
      /\ UNCHANGED <<stream, log, control, released, native, branch, head, used, deployed,
                     operator>>
    BY DEF UpdateState, repository, datahub
<1>5. Outcome(r) \in ControlStates /\ (Outcome(r) = "RESOLVED" => request[r].resume)
    BY <1>1, NextStateIs DEF Outcome
<1>6. TypeOK'
    BY <1>1, <1>3, <1>4, <1>5 DEF TypeOK, Others
<1>7. Grown
    BY <1>1, <1>4, SameGrows
<1>8. request[r].resume => Reported
    BY <1>1, <1>2 DEF Resumes
<1>9. MarksHold
    BY <1>2, <1>4, <1>5, <1>8, RecoverIs DEF MarksHold, Told
<1>10. /\ Idle \in Request /\ Idle.pc \notin {"read", "write"} /\ Rests(Idle) /\ Resumes(Idle)
    BY IdleTypes, IdleRests
<1>11. EvidenceCovers'
    BY <1>1, <1>3, <1>4, <1>6, <1>7, <1>10, CoversStay
<1>12. QED
    BY <1>3, <1>4, <1>6, <1>9, <1>10, <1>11, SameStream

\* The operator moves the repository, which no property is about, and a step that
\* changes nothing keeps them all.
LEMMA Unmoved ==
    ASSUME LifecycleInv, UNCHANGED <<stream, datahub, deployed, state, request>>,
           branch' \in Commits \cup {None}, head' \in Commits \cup {None},
           used' \subseteq Commits, operator' \in Nat
    PROVE  LifecycleInv'
<1>1. /\ TypeOK /\ StreamFounded /\ DeployedIsAccountable /\ EvidenceCovers
      /\ UNCHANGED <<stream, log, control, released, native, deployed, state, request>>
    BY DEF LifecycleInv, datahub
<1>2. TypeOK'
    BY <1>1 DEF TypeOK
<1>3. Grown /\ StreamFounded'
    BY <1>1, SameFoundation
<1>4. DeployedIsAccountable'
    BY <1>1, <1>2, <1>3, DeployedStays
<1>5. ASSUME NEW s \in Requests PROVE Rests(request[s])' /\ Resumes(request[s])'
    <2>1. PICK p : p = request[s] /\ p = request'[s] /\ p \in Request
        BY <1>1, RequestTypes
    <2>2. Rests(p) /\ Resumes(p)
        BY <2>1 DEF LifecycleInv
    <2>3. Rests(p)' /\ Resumes(p)'
        BY <1>1, <1>2, <1>3, <2>1, <2>2, RestStays
    <2>4. QED
        BY <2>1, <2>3 DEF Rests, Resumes, Shown, Founded
<1>6. MarksHold
    BY <1>1, SameMarks
<1>7. ResolvedAfterApplied' /\ ResolutionIsReported' /\ ResumeHasEvidence'
    BY <1>2, <1>3, <1>6, MarksStay
<1>8. EvidenceCovers'
    BY <1>1 DEF EvidenceCovers, Covered, Cleans, Unwritten, CleanEvidence
<1>9. QED
    BY <1>2, <1>3, <1>4, <1>5, <1>7, <1>8 DEF LifecycleInv

-----------------------------------------------------------------------------
(* The theorems                                                            *)

LEMMA InitHolds == Init => LifecycleInv
<1> SUFFICES ASSUME Init PROVE LifecycleInv
    OBVIOUS
<1>1. /\ Len(stream) = 1 /\ DOMAIN stream = {1} /\ stream[1].type = "REPAIR_BUNDLE_CREATED"
      /\ stream[1].bundle = Proposed
    BY DEF Init
<1>2. TypeOK
    <2>1. Proposed \in Bundle
        BY DEF Proposed, Bundle
    <2>2. [type |-> "REPAIR_BUNDLE_CREATED", bundle |-> Proposed] \in Event
        BY <2>1 DEF Event, Lifecycle
    <2>3. stream \in Seq(Event)
        BY <2>2 DEF Init
    <2>4. request \in [Requests -> Request]
        BY IdleTypes DEF Init
    <2>5. control \in [state: ControlStates, history: Seq(BOOLEAN), policy: {"HALT", "ALLOW"},
                       authorized: BOOLEAN]
        BY DEF Init, ControlStates
    <2>6. /\ log \in [status: {"PROPOSED", "PUBLISHED", "VERIFIED", "APPROVED", "REJECTED",
                               "APPLIED"}, resume: BOOLEAN]
          /\ branch \in Commits \cup {None} /\ head \in Commits \cup {None}
          /\ used \subseteq Commits /\ deployed \subseteq Commits /\ released \subseteq Assets
          /\ native \in {"ACTIVE", "RESOLVED"} /\ state \in ControlStates /\ operator \in Nat
        BY DEF Init, ControlStates
    <2>7. QED
        BY <2>3, <2>4, <2>5, <2>6 DEF TypeOK
<1>3. StreamFounded
    <2>1. Founded(1, Proposed) /\ Proposed.status \in StatusIn["REPAIR_BUNDLE_CREATED"]
        BY DEF Founded, Proposed, StatusIn
    <2>2. QED
        BY <1>1, <2>1 DEF StreamFounded
<1>4. \A r \in Requests : request[r] = Idle
    BY DEF Init
<1>5. \A r \in Requests : Rests(request[r]) /\ Resumes(request[r])
    BY <1>4, IdleRests
<1>6. DeployedIsAccountable /\ ResolvedAfterApplied /\ ResolutionIsReported /\ ResumeHasEvidence
    BY DEF Init, DeployedIsAccountable, ResolvedAfterApplied, ResolutionIsReported,
           ResumeHasEvidence
<1>7. EvidenceCovers
    <2>1. Unwritten = {} /\ \A r \in Requests : request[r].pc # "write"
        BY <1>4, IdleTypes DEF Unwritten
    <2>2. Cleans(control.history) = {}
        <3>1. control.history = <<>>
            BY DEF Init
        <3>2. QED
            BY <3>1 DEF Cleans
    <2>3. Cardinality(CleanNow) \in Nat
        BY <1>2, EvidenceFinite
    <2>4. IsFiniteSet({}) /\ Cardinality({}) = 0
        BY FS_EmptySet
    <2>5. QED
        BY <2>1, <2>2, <2>3, <2>4 DEF EvidenceCovers, Covered, CleanNow
<1>8. QED
    BY <1>2, <1>3, <1>5, <1>6, <1>7 DEF LifecycleInv

LEMMA NextHolds == LifecycleInv /\ [Next]_vars => LifecycleInv'
<1> SUFFICES ASSUME LifecycleInv, [Next]_vars PROVE LifecycleInv'
    OBVIOUS
<1>1. ASSUME NEW r \in Requests, RepairStep(r) PROVE LifecycleInv'
    <2>1. CASE \E op \in DOMAIN Required, d \in {"APPROVE", "REJECT"} : Begin(r, op, d)
        BY <2>1, BeginStep
    <2>2. CASE Publish(r)
        BY <2>2, PublishStep
    <2>3. CASE Verify(r)
        BY <2>3, VerifyStep
    <2>4. CASE Approve(r)
        BY <2>4, ApproveStep
    <2>5. CASE Apply(r)
        BY <2>5, ApplyStep
    <2>6. CASE WriteLog(r)
        BY <2>6, WriteLogStep
    <2>7. CASE EmitLifecycle(r)
        BY <2>7, EmitLifecycleStep
    <2>8. CASE EmitLogWritten(r)
        BY <2>8, EmitLogWrittenStep
    <2>9. QED
        BY <1>1, <2>1, <2>2, <2>3, <2>4, <2>5, <2>6, <2>7, <2>8 DEF RepairStep
<1>2. ASSUME NEW r \in Requests, RecoveryStep(r) PROVE LifecycleInv'
    <2>1. CASE \E withApproval \in BOOLEAN : BeginRecover(r, withApproval)
        BY <2>1, BeginRecoverStep
    <2>2. CASE Reverify(r)
        BY <2>2, ReverifyStep
    <2>3. CASE EmitRefreshed(r)
        BY <2>3, EmitRefreshedStep
    <2>4. CASE ReadControl(r)
        BY <2>4, ReadControlStep
    <2>5. CASE WriteControl(r)
        BY <2>5, WriteControlStep
    <2>6. CASE WriteAsset(r)
        BY <2>6, WriteAssetStep
    <2>7. CASE EmitResult(r)
        BY <2>7, EmitResultStep
    <2>8. CASE UpdateIncident(r)
        BY <2>8, UpdateIncidentStep
    <2>9. CASE EmitIncidentWritten(r)
        <3>1. request[r].pc = "emitIncident" /\ request[r].op # "idle"
              /\ EmitStale(r, "DATAHUB_INCIDENT_WRITTEN", "emitLog")
            BY <2>9 DEF EmitIncidentWritten, Step
        <3>2. request[r].op = "recover" /\ "DATAHUB_INCIDENT_WRITTEN" \in Reports
            BY <3>1, RecoversAt DEF Reports
        <3>3. QED
            BY <3>1, <3>2, EmitStaleStep
    <2>10. CASE EmitRecoveryLogWritten(r)
        <3>1. request[r].pc = "emitLog" /\ request[r].op = "recover"
              /\ EmitStale(r, "DECISION_LOG_WRITTEN", "state")
            BY <2>10 DEF EmitRecoveryLogWritten, Step
        <3>2. "DECISION_LOG_WRITTEN" \in Reports
            BY DEF Reports
        <3>3. QED
            BY <3>1, <3>2, EmitStaleStep
    <2>11. CASE UpdateState(r)
        BY <2>11, UpdateStateStep
    <2>12. QED
        BY <1>2, <2>1, <2>2, <2>3, <2>4, <2>5, <2>6, <2>7, <2>8, <2>9, <2>10, <2>11
           DEF RecoveryStep
<1>3. ASSUME Operate PROVE LifecycleInv'
    <2>1. TypeOK
        BY DEF LifecycleInv
    <2>2. /\ UNCHANGED <<stream, datahub, deployed, state, request>>
          /\ branch' \in Commits \cup {None} /\ head' \in Commits \cup {None}
          /\ used' \subseteq Commits /\ operator' \in Nat
        BY <1>3, <2>1 DEF Operate, TypeOK
    <2>3. QED
        BY <2>2, Unmoved
<1>4. ASSUME UNCHANGED vars PROVE LifecycleInv'
    <2>1. TypeOK
        BY DEF LifecycleInv
    <2>2. /\ UNCHANGED <<stream, datahub, deployed, state, request>>
          /\ branch' \in Commits \cup {None} /\ head' \in Commits \cup {None}
          /\ used' \subseteq Commits /\ operator' \in Nat
        BY <1>4, <2>1 DEF vars, datahub, TypeOK
    <2>3. QED
        BY <2>2, Unmoved
<1>5. QED
    BY <1>1, <1>2, <1>3, <1>4, LeaveStep DEF Next

\* The invariant holds of every reachable state.
THEOREM LifecycleInvHolds == Spec => []LifecycleInv
BY InitHolds, NextHolds, PTL DEF Spec

\* The stream, the records in DataHub, the deployment and what each worker holds are
\* of the types that runtime.py and core/recovery.py give them.
THEOREM TypesHold == Spec => []TypeOK
<1>1. LifecycleInv => TypeOK
    BY DEF LifecycleInv
<1>2. QED
    BY <1>1, LifecycleInvHolds, PTL

\* A commit that reaches staging was published, then verified, then approved in the
\* stream, whatever handlers run next to each other and wherever they stop: publish,
\* verify, approve and apply each work on the bundle of an event, and the receipt they
\* attach names the commit of that bundle.
THEOREM DeploymentIsAccountable == Spec => []DeployedIsAccountable
<1>1. LifecycleInv => DeployedIsAccountable
    BY DEF LifecycleInv
<1>2. QED
    BY <1>1, LifecycleInvHolds, PTL

\* Nothing says RESOLVED, ALLOW or RESUME before the stream shows that an approved
\* repair was applied: recover starts from an APPLIED bundle of the stream.
THEOREM ResolutionFollowsApplication == Spec => []ResolvedAfterApplied
<1>1. LifecycleInv => ResolvedAfterApplied
    BY DEF LifecycleInv
<1>2. QED
    BY <1>1, LifecycleInvHolds, PTL

\* The native Incident, the Decision Log and the manifest report a resolution only after
\* INCIDENT_RESOLVED is in the stream: a refused append stops recover before.
THEOREM ResolutionFollowsReport == Spec => []ResolutionIsReported
<1>1. LifecycleInv => ResolutionIsReported
    BY DEF LifecycleInv
<1>2. QED
    BY <1>1, LifecycleInvHolds, PTL

\* However recoveries overwrite each other's history, the control asset is authorized
\* to resume only on as much clean evidence as recovery_policy asks for, or on clean
\* evidence and an approval that authorizes production.
THEOREM ResumeFollowsEvidence == Spec => []ResumeHasEvidence
<1>1. LifecycleInv => ResumeHasEvidence
    BY DEF LifecycleInv
<1>2. QED
    BY <1>1, LifecycleInvHolds, PTL
=============================================================================
