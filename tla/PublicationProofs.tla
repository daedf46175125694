------------------------- MODULE PublicationProofs -------------------------
(***************************************************************************)
(* Proofs about GitHubRepair, for every number of workers, of required     *)
(* checks and of commits, and every value of the bounds; and about         *)
(* Publication, the runtime that is configured with one of the two         *)
(* providers: what LocalRepairProofs proves of the local one holds there.  *)
(***************************************************************************)
EXTENDS Publication, SequenceTheorems, TLAPS

Worker == [pc: Pcs, head: Commit \cup {None}, base: Nat,
           receipt: Receipt \cup {None}, observed: SUBSET Checks]

\* From the lookup on a publisher has a commit, and a receipt that a worker carries, or
\* that is attached to the bundle, was issued.
Publishing == {"assertRef", "postRef", "reread", "existing", "list", "assertPull",
               "postPull", "probe"}
Carrying == {"attach", "verifyBranch", "verifyBase", "verifyPull", "readChecks",
             "readWorkflow"}
Held ==
    /\ change = None \/ change \in receipts
    /\ \A w \in Workers :
          /\ worker[w].pc \in Publishing => worker[w].head \in Commit
          /\ worker[w].pc \in Carrying => worker[w].receipt \in receipts

\* A concluded attempt of the workflow run has no job that still runs, and succeeded
\* only if every job did.
Concluded ==
    /\ \A n \in DOMAIN attempts : attempts[n].conclusion # "none" =>
          \A k \in Checks :
              /\ attempts[n].check[k] # "pending"
              /\ attempts[n].conclusion = "success" => attempts[n].check[k] = "success"
    /\ \A w \in Workers : worker[w].pc = "readWorkflow" => attempts # <<>>
    /\ \A v \in verified : v.attempt \in DOMAIN attempts

\* An open pull request shows the branch.
OpenShowsBranch ==
    \A k \in DOMAIN pulls : pulls[k].open => branch # None /\ pulls[k].head = branch

\* What the workers know of commits, and where the branch can be after a receipt.
ExactRepairs ==
    /\ branch # None => (branch.exact <=> IsRepair(branch))
    /\ \A w \in Workers :
          /\ worker[w].head # None => (worker[w].head.exact <=> IsRepair(worker[w].head))
          /\ worker[w].pc \in {"list", "assertPull", "postPull", "probe"}
                => IsRepair(worker[w].head)
BranchOfReceipts ==
    ~deleted => \A r \in receipts :
        branch = r.commit \/ (branch # None /\ ~IsRepair(branch))

Published == OpenShowsBranch /\ ExactRepairs /\ BranchOfReceipts

Inv == TypeOK /\ Held /\ Concluded /\ Published

-----------------------------------------------------------------------------
(* The operators of the model                                              *)

LEMMA IdleTypes == Idle \in Worker /\ Idle.pc \notin Publishing \cup Carrying
BY DEF Idle, Worker, Pcs, Publishing, Carrying

\* A commit that is created is a commit, and exact only as the repair.
LEMMA NewCommitTypes ==
    ASSUME NEW on \in Nat, NEW kind \in {"repair", "amended", "stacked"}, Fresh # {}
    PROVE  /\ NewCommit(on, kind) \in Commit
           /\ NewCommit(on, kind).kind = kind
           /\ NewCommit(on, kind).exact <=> kind = "repair"
<1>1. (CHOOSE id \in Fresh : TRUE) \in CommitIds
    BY DEF Fresh
<1>2. QED
    BY <1>1 DEF NewCommit, Commit

\* The pull requests stay pull requests when their heads follow the branch, when they
\* are closed, and when one is opened.
LEMMA PullTypes ==
    ASSUME TypeOK
    PROVE  /\ \A c \in Commit : WithHead(c) \in Seq(Pull)
           /\ AllClosed \in Seq(Pull)
           /\ branch # None => Opened \in Seq(Pull) /\ Len(Opened) \in DOMAIN Opened
<1>1. /\ pulls \in Seq(Pull) /\ DOMAIN pulls = 1 .. Len(pulls) /\ Len(pulls) \in Nat
      /\ \A k \in 1 .. Len(pulls) : pulls[k] \in Pull
    BY DEF TypeOK
<1>2. ASSUME NEW p \in Pull
      PROVE  /\ \A c \in Commit : [p EXCEPT !.head = c] \in Pull
             /\ [p EXCEPT !.open = FALSE] \in Pull
    BY DEF Pull
<1>3. ASSUME NEW c \in Commit PROVE WithHead(c) \in Seq(Pull)
    <2>1. \A k \in 1 .. Len(pulls) :
              [pulls[k] EXCEPT !.head = IF pulls[k].open THEN c ELSE @] \in Pull
        BY <1>1, <1>2 DEF Pull
    <2>2. WithHead(c) \in [1 .. Len(pulls) -> Pull]
        BY <1>1, <2>1 DEF WithHead
    <2>3. QED
        BY <1>1, <2>2
<1>4. AllClosed \in Seq(Pull)
    <2>1. \A k \in 1 .. Len(pulls) : [pulls[k] EXCEPT !.open = FALSE] \in Pull
        BY <1>1, <1>2
    <2>2. AllClosed \in [1 .. Len(pulls) -> Pull]
        BY <1>1, <2>1 DEF AllClosed
    <2>3. QED
        BY <1>1, <2>2
<1>5. ASSUME branch # None PROVE Opened \in Seq(Pull) /\ Len(Opened) \in DOMAIN Opened
    <2>1. branch \in Commit /\ base \in Nat
        BY <1>5 DEF TypeOK
    <2>2. [head |-> branch, base |-> base, open |-> TRUE] \in Pull
        BY <2>1 DEF Pull
    <2>3. QED
        BY <1>1, <2>2 DEF Opened
<1>6. QED
    BY <1>3, <1>4, <1>5

\* A worker stays a worker when its program counter, or what it holds, changes.
LEMMA WorkerUpdates ==
    ASSUME TypeOK, NEW w \in Workers
    PROVE  /\ worker[w] \in Worker
           /\ \A pc \in Pcs : [worker EXCEPT ![w].pc = pc] \in [Workers -> Worker]
           /\ \A new \in Worker : [worker EXCEPT ![w] = new] \in [Workers -> Worker]
<1>1. worker \in [Workers -> Worker]
    BY DEF TypeOK, Worker
<1>2. \A pc \in Pcs : [worker[w] EXCEPT !.pc = pc] \in Worker
    BY <1>1 DEF Worker
<1>3. QED
    BY <1>1, <1>2

LEMMA RefuseTypes ==
    ASSUME TypeOK, NEW w \in Workers, Refuse(w)
    PROVE  worker' \in [Workers -> Worker]
BY WorkerUpdates, IdleTypes DEF Refuse

LEMMA GotoTypes ==
    ASSUME TypeOK, NEW w \in Workers, NEW pc \in Pcs, Goto(w, pc)
    PROVE  worker' \in [Workers -> Worker]
BY WorkerUpdates DEF Goto

\* Issue either refuses, or issues and carries a receipt of its worker's commit while an
\* open pull request shows it.
LEMMA IssueFacts ==
    ASSUME TypeOK, NEW w \in Workers, worker[w].head \in Commit,
           pulls' \in Seq(Pull), NEW k \in DOMAIN pulls', Issue(w, k)
    PROVE  /\ UNCHANGED <<change, verified>>
           /\ receipts' \subseteq Receipt
           /\ worker' \in [Workers -> Worker]
           /\ \/ Refuse(w) /\ UNCHANGED receipts
              \/ \E r \in Receipt :
                    /\ r.commit = worker[w].head
                    /\ pulls'[k].open /\ pulls'[k].head = r.commit
                    /\ receipts' = receipts \cup {r}
                    /\ worker' = [worker EXCEPT ![w] =
                                     [Idle EXCEPT !.pc = "attach", !.receipt = r]]
<1> DEFINE r == [commit |-> worker[w].head, base |-> worker[w].base, pull |-> k]
           new == [Idle EXCEPT !.pc = "attach", !.receipt = r]
<1>1. k \in Nat /\ worker[w].base \in Nat
    BY WorkerUpdates DEF Worker
<1>2. r \in Receipt /\ r.commit = worker[w].head
    BY <1>1 DEF Receipt
<1>3. new \in Worker
    BY <1>2, IdleTypes DEF Worker, Idle, Pcs
<1>4. CASE pulls'[k].open /\ pulls'[k].head = r.commit /\ pulls'[k].base = r.base
    <2>1. receipts' = receipts \cup {r} /\ worker' = [worker EXCEPT ![w] = new]
        BY <1>4 DEF Issue
    <2>2. worker' \in [Workers -> Worker]
        BY <2>1, <1>3, WorkerUpdates
    <2>3. QED
        BY <1>2, <1>4, <2>1, <2>2 DEF Issue, TypeOK
<1>5. CASE ~(pulls'[k].open /\ pulls'[k].head = r.commit /\ pulls'[k].base = r.base)
    <2>1. Refuse(w) /\ UNCHANGED receipts
        BY <1>5 DEF Issue
    <2>2. QED
        BY <2>1, RefuseTypes DEF Issue, TypeOK
<1>6. QED
    BY <1>4, <1>5

-----------------------------------------------------------------------------
(* Type correctness                                                        *)

\* The steps of a publisher that change nothing but its own place.
LEMMA PublishTypes ==
    ASSUME TypeOK, Held, NEW w \in Workers, PublishStep(w)
    PROVE  TypeOK'
<1> USE DEF remote, bundle, people
<1>1. CASE LookupBranch(w)
    <2> DEFINE pc == IF branch = None THEN "readBase" ELSE "existing"
               new == [worker[w] EXCEPT !.pc = pc, !.head = branch]
    <2>1. new \in Worker
        <3>1. pc \in Pcs /\ branch \in Commit \cup {None}
            BY DEF Pcs, TypeOK
        <3>w. worker[w] \in Worker
            BY WorkerUpdates
        <3>2. QED
            BY <3>1, <3>w DEF Worker
    <2>2. worker' = [worker EXCEPT ![w] = new]
        BY <1>1 DEF LookupBranch
    <2>3. QED
        BY <1>1, <2>1, <2>2, WorkerUpdates DEF LookupBranch, TypeOK, Worker
<1>2. CASE ReadBase(w)
    <2> DEFINE new == [worker[w] EXCEPT !.pc = "create", !.base = base]
    <2>1. new \in Worker
        <3>1. "create" \in Pcs /\ base \in Nat
            BY DEF Pcs, TypeOK
        <3>w. worker[w] \in Worker
            BY WorkerUpdates
        <3>2. QED
            BY <3>1, <3>w DEF Worker
    <2>2. worker' = [worker EXCEPT ![w] = new]
        BY <1>2 DEF ReadBase
    <2>3. QED
        BY <1>2, <2>1, <2>2, WorkerUpdates DEF ReadBase, TypeOK, Worker
<1>3. CASE CreateCommit(w)
    <2>1. CASE Refuse(w)
        BY <1>3, <2>1, RefuseTypes DEF CreateCommit, TypeOK, Worker
    <2>2. CASE ~Refuse(w)
        <3> DEFINE new == [worker[w] EXCEPT !.pc = "assertRef",
                                            !.head = NewCommit(base, "repair")]
        <3>1. Fresh # {} /\ worker' = [worker EXCEPT ![w] = new]
            BY <1>3, <2>2 DEF CreateCommit
        <3>2. NewCommit(base, "repair") \in Commit
            BY <3>1, NewCommitTypes DEF TypeOK
        <3>3. new \in Worker
            <4>1. "assertRef" \in Pcs
                BY DEF Pcs
            <4>w. worker[w] \in Worker
                BY WorkerUpdates
            <4>2. QED
                BY <3>2, <4>1, <4>w DEF Worker
        <3>4. QED
            BY <1>3, <3>1, <3>3, WorkerUpdates DEF CreateCommit, TypeOK, Worker
    <2>3. QED
        BY <2>1, <2>2
<1>4. ASSUME NEW from \in Pcs, NEW to \in Pcs, AssertBase(w, from, to)
      PROVE  TypeOK'
    BY <1>4, RefuseTypes, GotoTypes DEF AssertBase, TypeOK, Worker
<1>5. CASE PostRef(w)
    <2>1. worker[w].head \in Commit
        BY <1>5 DEF PostRef, At, Held, Publishing
    <2>2. worker' \in [Workers -> Worker]
        BY <1>5, GotoTypes DEF PostRef, Pcs
    <2>3. QED
        BY <1>5, <2>1, <2>2 DEF PostRef, TypeOK, Worker
<1>6. CASE RereadRef(w)
    <2>1. worker' \in [Workers -> Worker]
        BY <1>6, GotoTypes, RefuseTypes DEF RereadRef, Pcs
    <2>2. QED
        BY <1>6, <2>1 DEF RereadRef, TypeOK, Worker
<1>7. CASE CheckExisting(w)
    <2>1. CASE Refuse(w)
        BY <1>7, <2>1, RefuseTypes DEF CheckExisting, TypeOK, Worker
    <2>2. CASE ~Refuse(w)
        <3> DEFINE new == [worker[w] EXCEPT !.pc = "list", !.base = worker[w].head.base]
        <3>1. worker' = [worker EXCEPT ![w] = new]
            BY <1>7, <2>2 DEF CheckExisting
        <3>2. worker[w].head \in Commit
            BY <1>7 DEF CheckExisting, At, Held, Publishing
        <3>3. worker[w].head.base \in Nat
            BY <3>2 DEF Commit
        <3>4. new \in Worker
            <4>1. "list" \in Pcs
                BY DEF Pcs
            <4>w. worker[w] \in Worker
                BY WorkerUpdates
            <4>2. QED
                BY <3>3, <4>1, <4>w DEF Worker
        <3>5. QED
            BY <1>7, <3>1, <3>4, WorkerUpdates DEF CheckExisting, TypeOK, Worker
    <2>3. QED
        BY <2>1, <2>2
<1>8. ASSUME worker[w].head \in Commit, pulls' \in Seq(Pull), NEW k \in DOMAIN pulls',
             Issue(w, k), UNCHANGED <<base, branch, attempts, people>>, faults' \in Nat
      PROVE  TypeOK'
    BY <1>8, IssueFacts DEF TypeOK, Worker
<1>9. CASE ListPulls(w)
    <2>1. worker[w].head \in Commit
        BY <1>9 DEF ListPulls, At, Held, Publishing
    <2>2. CASE UNCHANGED bundle
        <3>1. worker' \in [Workers -> Worker]
            BY <1>9, <2>2, GotoTypes, RefuseTypes, <2>1, IssueFacts
               DEF ListPulls, Pcs, Matching, TypeOK
        <3>2. QED
            BY <1>9, <2>2, <3>1 DEF ListPulls, TypeOK, Worker
    <2>3. CASE ~UNCHANGED bundle
        <3>1. PICK k \in Matching(worker[w].head) : Issue(w, k)
            BY <1>9, <2>3 DEF ListPulls
        <3>2. pulls' \in Seq(Pull) /\ k \in DOMAIN pulls'
            BY <1>9 DEF ListPulls, Matching, TypeOK
        <3>3. QED
            BY <1>8, <1>9, <2>1, <3>1, <3>2 DEF ListPulls, TypeOK
    <2>4. QED
        BY <2>2, <2>3
<1>10. CASE PostPull(w)
    <2>1. worker[w].head \in Commit
        BY <1>10 DEF PostPull, At, Held, Publishing
    <2>2. pulls' = Opened /\ branch # None
        BY <1>10 DEF PostPull, CanOpen
    <2>3. pulls' \in Seq(Pull) /\ Len(pulls') \in DOMAIN pulls'
        BY <2>2, PullTypes
    <2>4. QED
        BY <1>8, <1>10, <2>1, <2>3 DEF PostPull, TypeOK
<1>11. CASE PostPullUnclear(w)
    <2>1. pulls' \in Seq(Pull) /\ faults' \in Nat
        BY <1>11, PullTypes DEF PostPullUnclear, CanOpen, TypeOK
    <2>2. worker' \in [Workers -> Worker]
        BY <1>11, GotoTypes DEF PostPullUnclear, Pcs
    <2>3. QED
        BY <1>11, <2>1, <2>2 DEF PostPullUnclear, TypeOK, Worker
<1>12. CASE ProbePulls(w)
    <2>1. worker[w].head \in Commit
        BY <1>12 DEF ProbePulls, At, Held, Publishing
    <2>2. CASE \E k \in Matching(worker[w].head) : Issue(w, k)
        <3>1. PICK k \in Matching(worker[w].head) : Issue(w, k)
            BY <2>2
        <3>2. pulls' \in Seq(Pull) /\ k \in DOMAIN pulls'
            BY <1>12 DEF ProbePulls, Matching, TypeOK
        <3>3. QED
            BY <1>8, <1>12, <2>1, <3>1, <3>2 DEF ProbePulls, TypeOK
    <2>3. CASE Refuse(w) /\ UNCHANGED bundle
        BY <1>12, <2>3, RefuseTypes DEF ProbePulls, TypeOK, Worker
    <2>4. QED
        BY <1>12, <2>2, <2>3 DEF ProbePulls
<1>13. CASE Attach(w)
    <2>1. worker[w].receipt \in Receipt \cup {None}
        BY WorkerUpdates DEF Worker
    <2>2. QED
        BY <1>13, <2>1, RefuseTypes DEF Attach, TypeOK, Worker
<1>14. QED
    BY <1>1, <1>2, <1>3, <1>4, <1>5, <1>6, <1>7, <1>9, <1>10, <1>11, <1>12, <1>13
       DEF PublishStep, Pcs

LEMMA VerifyTypes ==
    ASSUME TypeOK, Held, NEW w \in Workers, VerifyStep(w)
    PROVE  TypeOK'
<1> USE DEF remote, bundle, people
<1>1. ASSUME NEW from \in Pcs, NEW to \in Pcs, NEW holds \in BOOLEAN,
             StillExact(w, from, to, holds)
      PROVE  TypeOK'
    BY <1>1, RefuseTypes, GotoTypes DEF StillExact, TypeOK, Worker
<1>2. CASE VerifyBranch(w)
    BY <1>1, <1>2 DEF VerifyBranch, Pcs
<1>3. CASE VerifyBase(w)
    BY <1>1, <1>3 DEF VerifyBase, Pcs
<1>4. CASE VerifyPull(w)
    BY <1>1, <1>4 DEF VerifyPull, Pcs
<1>5. CASE ReadChecks(w)
    <2> DEFINE new == [worker[w] EXCEPT !.pc = "readWorkflow",
                          !.observed = {k \in Checks : Latest.check[k] = "success"}]
    <2>1. new \in Worker
        <3>1. "readWorkflow" \in Pcs /\ {k \in Checks : Latest.check[k] = "success"} \in SUBSET Checks
            BY DEF Pcs
        <3>w. worker[w] \in Worker
            BY WorkerUpdates
        <3>2. QED
            BY <3>1, <3>w DEF Worker
    <2>2. Refuse(w) \/ worker' = [worker EXCEPT ![w] = new]
        BY <1>5 DEF ReadChecks
    <2>3. worker' \in [Workers -> Worker]
        BY <2>1, <2>2, WorkerUpdates, RefuseTypes
    <2>4. QED
        BY <1>5, <2>3 DEF ReadChecks, TypeOK, Worker
<1>6. CASE ReadWorkflow(w)
    <2> DEFINE v == [receipt |-> worker[w].receipt, attempt |-> Len(attempts)]
    <2>1. worker[w].receipt \in Receipt /\ Len(attempts) \in Nat
        BY <1>6 DEF ReadWorkflow, At, Held, Carrying, TypeOK
    <2>2. v \in [receipt: Receipt, attempt: Nat]
        BY <2>1
    <2>3. verified' \subseteq verified \cup {v}
        BY <1>6 DEF ReadWorkflow
    <2>4. QED
        BY <1>6, <2>2, <2>3, RefuseTypes DEF ReadWorkflow, TypeOK, Worker
<1>7. QED
    BY <1>2, <1>3, <1>4, <1>5, <1>6 DEF VerifyStep

LEMMA InterveneTypes ==
    ASSUME TypeOK, Intervene
    PROVE  TypeOK'
<1>1. branch \in Commit /\ branch.base \in Nat
    BY DEF Intervene, TypeOK, Commit
<1>2. branch' \in Commit \cup {None} /\ pulls' \in Seq(Pull)
    <2>1. CASE /\ Fresh # {}
               /\ \E kind \in {"amended", "stacked"} :
                     branch' = NewCommit(branch.base, kind) /\ pulls' = WithHead(branch')
        <3>1. PICK kind \in {"amended", "stacked"} :
                     branch' = NewCommit(branch.base, kind) /\ pulls' = WithHead(branch')
            BY <2>1
        <3>2. branch' \in Commit
            BY <1>1, <2>1, <3>1, NewCommitTypes
        <3>3. QED
            BY <3>1, <3>2, PullTypes
    <2>2. CASE pulls' = AllClosed /\ branch' \in {branch, None}
        BY <1>1, <2>2, PullTypes
    <2>3. QED
        BY <2>1, <2>2 DEF Intervene
<1>3. deleted' \in BOOLEAN
    <2>1. deleted' = deleted \/ deleted' = TRUE
        BY DEF Intervene
    <2>2. QED
        BY <2>1 DEF TypeOK
<1>4. humans' \in Nat
    BY DEF Intervene, TypeOK
<1>5. QED
    BY <1>2, <1>3, <1>4 DEF Intervene, TypeOK, bundle

\* The CI service writes attempts of its workflow run.
LEMMA CITypes ==
    ASSUME TypeOK, CIStep
    PROVE  attempts' \in Seq(Attempt) /\ UNCHANGED <<remote, worker, bundle, people, faults>>
<1> DEFINE S == {"pending", "success", "failure"}
<1>1. /\ attempts \in Seq(Attempt) /\ Len(attempts) \in Nat
      /\ attempts # <<>> => Len(attempts) \in 1 .. Len(attempts) /\ Latest \in Attempt
    BY DEF TypeOK, Latest
<1>2. CASE StartWorkflow
    <2>1. [check |-> [k \in Checks |-> "pending"], conclusion |-> "none"] \in Attempt
        BY DEF Attempt
    <2>2. QED
        BY <1>2, <2>1 DEF StartWorkflow
<1>3. CASE FinishJobs
    <2>1. PICK result \in [Checks -> {"success", "failure"}] :
              attempts' = [attempts EXCEPT ![Len(attempts)].check = result]
        BY <1>3 DEF FinishJobs
    <2>2. [Latest EXCEPT !.check = result] \in Attempt
        BY <1>1, <1>3 DEF FinishJobs, Attempt
    <2>3. attempts' = [attempts EXCEPT ![Len(attempts)] = [Latest EXCEPT !.check = result]]
        BY <2>1 DEF Latest
    <2>4. QED
        BY <1>1, <1>3, <2>2, <2>3 DEF FinishJobs
<1>4. CASE FinishWorkflow
    <2>1. PICK result \in {"success", "failure"} :
              attempts' = [attempts EXCEPT ![Len(attempts)].conclusion = result]
        BY <1>4 DEF FinishWorkflow
    <2>2. [Latest EXCEPT !.conclusion = result] \in Attempt
        BY <1>1, <1>4 DEF FinishWorkflow, Attempt
    <2>3. attempts' = [attempts EXCEPT ![Len(attempts)] = [Latest EXCEPT !.conclusion = result]]
        BY <2>1 DEF Latest
    <2>4. QED
        BY <1>1, <1>4, <2>2, <2>3 DEF FinishWorkflow
<1>5. ASSUME NEW again \in SUBSET Checks, RerunJobs(again)
      PROVE  attempts' \in Seq(Attempt)
    <2> DEFINE new == [check |-> [k \in Checks |-> IF k \in again THEN "pending"
                                                   ELSE Latest.check[k]],
                       conclusion |-> "none"]
    <2>1. Latest.check \in [Checks -> S]
        BY <1>1, <1>5 DEF RerunJobs, Attempt
    <2>2. [k \in Checks |-> IF k \in again THEN "pending" ELSE Latest.check[k]] \in [Checks -> S]
        BY <2>1
    <2>3. new \in Attempt
        BY <2>2 DEF Attempt
    <2>4. QED
        BY <1>1, <1>5, <2>3 DEF RerunJobs
<1>6. QED
    BY <1>2, <1>3, <1>4, <1>5
       DEF CIStep, StartWorkflow, FinishJobs, FinishWorkflow, RerunJobs

LEMMA TypeOKInductive == TypeOK /\ Held /\ [Next]_vars => TypeOK'
<1> SUFFICES ASSUME TypeOK, Held, [Next]_vars PROVE TypeOK'
    OBVIOUS
<1> USE DEF remote, bundle, people
<1>1. ASSUME NEW w \in Workers, BeginPublish(w) PROVE TypeOK'
    BY <1>1, GotoTypes DEF BeginPublish, TypeOK, Worker, Pcs
<1>2. ASSUME NEW w \in Workers, BeginVerify(w) PROVE TypeOK'
    <2> DEFINE new == [worker[w] EXCEPT !.pc = "verifyBranch", !.receipt = change]
    <2>1. new \in Worker
        <3>1. "verifyBranch" \in Pcs /\ change \in Receipt \cup {None}
            BY DEF Pcs, TypeOK
        <3>w. worker[w] \in Worker
            BY WorkerUpdates
        <3>2. QED
            BY <3>1, <3>w DEF Worker
    <2>2. worker' = [worker EXCEPT ![w] = new]
        BY <1>2 DEF BeginVerify
    <2>3. QED
        BY <1>2, <2>1, <2>2, WorkerUpdates DEF BeginVerify, TypeOK, Worker
<1>3. ASSUME NEW w \in Workers, PostRefLost(w) PROVE TypeOK'
    BY <1>3, GotoTypes DEF PostRefLost, TypeOK, Worker, Pcs
<1>4. ASSUME NEW w \in Workers, Leave(w) PROVE TypeOK'
    BY <1>4, RefuseTypes DEF Leave, TypeOK, Worker
<1>5. CASE MergeIntoBase
    BY <1>5 DEF MergeIntoBase, TypeOK
<1>6. CASE CIStep
    BY <1>6, CITypes DEF TypeOK
<1>7. CASE UNCHANGED vars
    BY <1>7 DEF vars, TypeOK
<1>8. QED
    BY <1>1, <1>2, <1>3, <1>4, <1>5, <1>6, <1>7, PublishTypes, VerifyTypes, InterveneTypes
       DEF Next

-----------------------------------------------------------------------------
(* What workers hold was issued                                            *)

LEMMA HeldInductive == TypeOK /\ Held /\ [Next]_vars => Held'
<1> SUFFICES ASSUME TypeOK, Held, [Next]_vars PROVE Held'
    OBVIOUS
<1> USE DEF remote, bundle, people
<1> DEFINE Kept == receipts \subseteq receipts'
\* A step that lets worker w go on, or starts it again, leaves the others alone.
<1>1. ASSUME NEW w \in Workers, Refuse(w), Kept, change' = change \/ change' \in receipts
      PROVE  Held'
    BY <1>1, IdleTypes DEF Held, Refuse, TypeOK, Publishing, Carrying, Idle
<1>2. ASSUME NEW w \in Workers, NEW pc \in Pcs, Goto(w, pc), UNCHANGED <<receipts, change>>,
             pc \in Publishing => worker[w].head \in Commit,
             pc \in Carrying => worker[w].receipt \in receipts
      PROVE  Held'
    BY <1>2 DEF Held, Goto, TypeOK
<1>3. ASSUME NEW w \in Workers, NEW new \in Worker, worker' = [worker EXCEPT ![w] = new],
             Kept, UNCHANGED change,
             new.pc \in Publishing => new.head \in Commit,
             new.pc \in Carrying => new.receipt \in receipts'
      PROVE  Held'
    BY <1>3 DEF Held, TypeOK
<1>4. ASSUME NEW w \in Workers, worker[w].head \in Commit, pulls' \in Seq(Pull),
             NEW k \in DOMAIN pulls', Issue(w, k)
      PROVE  Held'
    <2>1. CASE Refuse(w) /\ UNCHANGED receipts
        BY <1>1, <1>4, <2>1, IssueFacts
    <2>2. CASE \E r \in Receipt :
                  /\ receipts' = receipts \cup {r}
                  /\ worker' = [worker EXCEPT ![w] =
                                   [Idle EXCEPT !.pc = "attach", !.receipt = r]]
        <3>1. PICK r \in Receipt :
                  /\ receipts' = receipts \cup {r}
                  /\ worker' = [worker EXCEPT ![w] =
                                   [Idle EXCEPT !.pc = "attach", !.receipt = r]]
            BY <2>2
        <3> DEFINE new == [Idle EXCEPT !.pc = "attach", !.receipt = r]
        <3>2. new \in Worker /\ new.pc = "attach" /\ new.receipt = r
            BY IdleTypes DEF Worker, Idle, Pcs
        <3>3. QED
            BY <1>3, <1>4, <3>1, <3>2, IssueFacts DEF Publishing
    <2>3. QED
        BY <1>4, <2>1, <2>2, IssueFacts
<1>5. ASSUME NEW w \in Workers, PublishStep(w) PROVE Held'
    <2>1. CASE LookupBranch(w)
        BY <2>1 DEF LookupBranch, Held, TypeOK, Publishing, Carrying
    <2>2. CASE ReadBase(w)
        BY <2>2 DEF ReadBase, Held, TypeOK, Publishing, Carrying
    <2>3. CASE CreateCommit(w)
        <3>1. CASE Refuse(w)
            BY <1>1, <2>3, <3>1 DEF CreateCommit
        <3>2. CASE ~Refuse(w)
            <4>1. NewCommit(base, "repair") \in Commit
                BY <2>3, <3>2, NewCommitTypes DEF CreateCommit, TypeOK
            <4> DEFINE new == [worker[w] EXCEPT !.pc = "assertRef",
                                                !.head = NewCommit(base, "repair")]
            <4>2. /\ new \in Worker /\ new.pc = "assertRef"
                  /\ new.head = NewCommit(base, "repair")
                <5>1. worker[w] \in Worker
                    BY WorkerUpdates
                <5>2. "assertRef" \in Pcs
                    BY DEF Pcs
                <5>3. QED
                    BY <4>1, <5>1, <5>2 DEF Worker
            <4>3. worker' = [worker EXCEPT ![w] = new] /\ UNCHANGED bundle
                BY <2>3, <3>2 DEF CreateCommit
            <4>4. QED
                BY <1>3, <4>1, <4>2, <4>3 DEF Carrying
        <3>3. QED
            BY <3>1, <3>2
    <2>4. CASE AssertBase(w, "assertRef", "postRef")
        <3>1. worker[w].head \in Commit /\ UNCHANGED <<receipts, change>>
            BY <2>4 DEF AssertBase, At, Held, Publishing
        <3>2. CASE Refuse(w)
            BY <1>1, <3>1, <3>2
        <3>3. CASE Goto(w, "postRef")
            BY <1>2, <3>1, <3>3 DEF Carrying, Pcs
        <3>4. QED
            BY <2>4, <3>2, <3>3 DEF AssertBase
    <2>5. CASE PostRef(w)
        BY <1>2, <2>5 DEF PostRef, At, Held, Publishing, Carrying, Pcs
    <2>6. CASE RereadRef(w)
        BY <1>1, <1>2, <2>6 DEF RereadRef, At, Held, Publishing, Carrying, Pcs
    <2>7. CASE CheckExisting(w)
        <3>1. CASE Refuse(w)
            BY <1>1, <2>7, <3>1 DEF CheckExisting
        <3>2. CASE ~Refuse(w)
            <4> DEFINE new == [worker[w] EXCEPT !.pc = "list", !.base = worker[w].head.base]
            <4>1. worker[w].head \in Commit /\ worker[w].head.base \in Nat
                <5>1. worker[w].pc = "existing"
                    BY <2>7 DEF CheckExisting, At
                <5>2. worker[w].head \in Commit
                    BY <5>1 DEF Held, Publishing
                <5>3. QED
                    BY <5>2 DEF Commit
            <4>2. new \in Worker /\ new.pc = "list" /\ new.head = worker[w].head
                <5>1. worker[w] \in Worker
                    BY WorkerUpdates
                <5>2. "list" \in Pcs
                    BY DEF Pcs
                <5>3. QED
                    BY <4>1, <5>1, <5>2 DEF Worker
            <4>3. worker' = [worker EXCEPT ![w] = new] /\ UNCHANGED bundle
                BY <2>7, <3>2 DEF CheckExisting
            <4>4. QED
                BY <1>3, <4>1, <4>2, <4>3 DEF Carrying
        <3>3. QED
            BY <3>1, <3>2
    <2>8. CASE ListPulls(w)
        <3>1. worker[w].head \in Commit
            BY <2>8 DEF ListPulls, At, Held, Publishing
        <3>2. ASSUME NEW k \in Matching(worker[w].head), Issue(w, k) PROVE Held'
            BY <1>4, <2>8, <3>1, <3>2 DEF ListPulls, Matching, TypeOK
        <3>3. CASE Goto(w, "assertPull") /\ UNCHANGED bundle
            BY <1>2, <3>1, <3>3 DEF Publishing, Carrying, Pcs
        <3>4. QED
            BY <1>1, <2>8, <3>2, <3>3 DEF ListPulls
    <2>9. CASE AssertBase(w, "assertPull", "postPull")
        BY <1>1, <1>2, <2>9 DEF AssertBase, At, Held, Publishing, Carrying, Pcs
    <2>10. CASE PostPull(w)
        <3>1. worker[w].head \in Commit
            BY <2>10 DEF PostPull, At, Held, Publishing
        <3>2. pulls' \in Seq(Pull) /\ Len(pulls') \in DOMAIN pulls'
            BY <2>10, PullTypes DEF PostPull, CanOpen
        <3>3. QED
            BY <1>4, <2>10, <3>1, <3>2 DEF PostPull
    <2>11. CASE PostPullUnclear(w)
        BY <1>2, <2>11 DEF PostPullUnclear, At, Held, Publishing, Carrying, Pcs
    <2>12. CASE ProbePulls(w)
        <3>1. worker[w].head \in Commit
            BY <2>12 DEF ProbePulls, At, Held, Publishing
        <3>2. ASSUME NEW k \in Matching(worker[w].head), Issue(w, k) PROVE Held'
            BY <1>4, <2>12, <3>1, <3>2 DEF ProbePulls, Matching, TypeOK
        <3>3. QED
            BY <1>1, <2>12, <3>2 DEF ProbePulls
    <2>13. CASE Attach(w)
        BY <1>1, <2>13 DEF Attach, At, Held, Carrying
    <2>14. QED
        BY <1>5, <2>1, <2>2, <2>3, <2>4, <2>5, <2>6, <2>7, <2>8, <2>9, <2>10, <2>11,
           <2>12, <2>13 DEF PublishStep
<1>6. ASSUME NEW w \in Workers, VerifyStep(w) PROVE Held'
    <2>1. ASSUME NEW from \in Carrying, NEW to \in Carrying, NEW holds \in BOOLEAN,
                 StillExact(w, from, to, holds)
          PROVE  Held'
        BY <1>1, <1>2, <2>1 DEF StillExact, At, Held, Publishing, Carrying, Pcs
    <2>2. CASE ReadChecks(w)
        <3>1. CASE Refuse(w)
            BY <1>1, <2>2, <3>1 DEF ReadChecks
        <3>2. CASE ~Refuse(w)
            <4> DEFINE new == [worker[w] EXCEPT !.pc = "readWorkflow",
                          !.observed = {k \in Checks : Latest.check[k] = "success"}]
            <4>1. worker[w].receipt \in receipts
                BY <2>2 DEF ReadChecks, At, Held, Carrying
            <4>2. new \in Worker /\ new.pc = "readWorkflow" /\ new.receipt = worker[w].receipt
                <5>1. /\ "readWorkflow" \in Pcs
                      /\ {k \in Checks : Latest.check[k] = "success"} \in SUBSET Checks
                    BY DEF Pcs
                <5>w. worker[w] \in Worker
                    BY WorkerUpdates
                <5>2. QED
                    BY <5>1, <5>w DEF Worker
            <4>3. worker' = [worker EXCEPT ![w] = new] /\ UNCHANGED bundle
                BY <2>2, <3>2 DEF ReadChecks
            <4> HIDE DEF new
            <4>4. QED
                BY <1>3, <4>1, <4>2, <4>3 DEF Publishing
        <3>3. QED
            BY <3>1, <3>2
    <2>3. CASE ReadWorkflow(w)
        BY <1>1, <2>3 DEF ReadWorkflow
    <2>4. QED
        BY <1>6, <2>1, <2>2, <2>3
           DEF VerifyStep, VerifyBranch, VerifyBase, VerifyPull, Carrying
<1>7. ASSUME NEW w \in Workers, BeginPublish(w) PROVE Held'
    BY <1>2, <1>7 DEF BeginPublish, Publishing, Carrying, Pcs
<1>8. ASSUME NEW w \in Workers, BeginVerify(w) PROVE Held'
    BY <1>8 DEF BeginVerify, Held, TypeOK, Publishing, Carrying
<1>9. ASSUME NEW w \in Workers, PostRefLost(w) PROVE Held'
    BY <1>2, <1>9 DEF PostRefLost, At, Held, Publishing, Carrying, Pcs
<1>10. ASSUME NEW w \in Workers, Leave(w) PROVE Held'
    BY <1>1, <1>10 DEF Leave
<1>11. CASE MergeIntoBase \/ Intervene \/ CIStep
    BY <1>11, CITypes DEF MergeIntoBase, Intervene, Held
<1>12. CASE UNCHANGED vars
    BY <1>12 DEF vars, Held
<1>13. QED
    BY <1>5, <1>6, <1>7, <1>8, <1>9, <1>10, <1>11, <1>12 DEF Next

-----------------------------------------------------------------------------
(* A PASS receipt is backed by its attempt                                 *)

\* Every step but the CI service's leaves the attempts alone, and only ReadChecks lets
\* a worker read the workflow run.
LEMMA WorkersKeepAttempts ==
    ASSUME TypeOK, Held, NEW w \in Workers,
           \/ BeginPublish(w) \/ BeginVerify(w) \/ PublishStep(w) \/ VerifyStep(w)
           \/ PostRefLost(w) \/ Leave(w)
    PROVE  /\ UNCHANGED attempts
           /\ ~ReadWorkflow(w) => UNCHANGED verified
           /\ \A v \in Workers \ {w} : worker'[v] = worker[v]
           /\ ReadChecks(w) \/ worker'[w].pc # "readWorkflow"
<1> USE DEF bundle
<1>1. ASSUME Refuse(w) PROVE /\ \A v \in Workers \ {w} : worker'[v] = worker[v]
                             /\ worker'[w].pc # "readWorkflow"
    BY <1>1 DEF Refuse, TypeOK, Idle
<1>2. ASSUME NEW pc \in Pcs \ {"readWorkflow"}, Goto(w, pc)
      PROVE  /\ \A v \in Workers \ {w} : worker'[v] = worker[v]
             /\ worker'[w].pc # "readWorkflow"
    BY <1>2 DEF Goto, TypeOK
<1>3. ASSUME worker[w].head \in Commit, pulls' \in Seq(Pull), NEW k \in DOMAIN pulls', Issue(w, k)
      PROVE  /\ UNCHANGED verified
             /\ \A v \in Workers \ {w} : worker'[v] = worker[v]
             /\ worker'[w].pc # "readWorkflow"
    <2>1. CASE Refuse(w)
        BY <1>1, <1>3, <2>1, IssueFacts
    <2>2. CASE ~Refuse(w)
        <3>1. PICK r \in Receipt :
                  worker' = [worker EXCEPT ![w] = [Idle EXCEPT !.pc = "attach", !.receipt = r]]
            BY <1>3, <2>2, IssueFacts
        <3>2. QED
            BY <1>3, <3>1, IssueFacts DEF TypeOK, Idle
    <2>3. QED
        BY <2>1, <2>2
<1>4. CASE BeginPublish(w) \/ BeginVerify(w) \/ PostRefLost(w) \/ Leave(w)
    BY <1>1, <1>2, <1>4 DEF BeginPublish, BeginVerify, PostRefLost, Leave, TypeOK, Pcs
<1>5. CASE VerifyStep(w)
    <2>1. ASSUME NEW from \in Pcs, NEW to \in Pcs \ {"readWorkflow"}, NEW holds \in BOOLEAN,
                 StillExact(w, from, to, holds)
          PROVE  /\ UNCHANGED <<attempts, verified>>
                 /\ \A v \in Workers \ {w} : worker'[v] = worker[v]
                 /\ worker'[w].pc # "readWorkflow"
        BY <1>1, <1>2, <2>1 DEF StillExact
    <2>2. CASE VerifyBranch(w) \/ VerifyBase(w) \/ VerifyPull(w)
        BY <2>1, <2>2 DEF VerifyBranch, VerifyBase, VerifyPull, Pcs
    <2>3. CASE ReadChecks(w)
        BY <1>1, <2>3 DEF ReadChecks, TypeOK
    <2>4. CASE ReadWorkflow(w)
        BY <1>1, <2>4 DEF ReadWorkflow
    <2>5. QED
        BY <1>5, <2>2, <2>3, <2>4 DEF VerifyStep
<1>6. CASE PublishStep(w)
    <2>1. CASE LookupBranch(w) \/ ReadBase(w)
        BY <2>1 DEF LookupBranch, ReadBase, TypeOK
    <2>2. CASE CreateCommit(w)
        BY <1>1, <2>2 DEF CreateCommit, TypeOK
    <2>3. CASE AssertBase(w, "assertRef", "postRef") \/ AssertBase(w, "assertPull", "postPull")
        BY <1>1, <1>2, <2>3 DEF AssertBase, Pcs
    <2>4. CASE PostRef(w) \/ RereadRef(w) \/ PostPullUnclear(w) \/ Attach(w)
        BY <1>1, <1>2, <2>4 DEF PostRef, RereadRef, PostPullUnclear, Attach, Pcs
    <2>5. CASE CheckExisting(w)
        BY <1>1, <2>5 DEF CheckExisting, TypeOK
    <2>6. CASE ListPulls(w) \/ ProbePulls(w)
        <3>1. worker[w].head \in Commit
            BY <2>6 DEF ListPulls, ProbePulls, At, Held, Publishing
        <3>2. UNCHANGED <<pulls, attempts>>
            BY <2>6 DEF ListPulls, ProbePulls, remote
        <3>3. ASSUME NEW k \in Matching(worker[w].head), Issue(w, k)
              PROVE  /\ UNCHANGED verified
                     /\ \A v \in Workers \ {w} : worker'[v] = worker[v]
                     /\ worker'[w].pc # "readWorkflow"
            BY <1>3, <3>1, <3>2, <3>3 DEF Matching, TypeOK
        <3>4. QED
            BY <1>1, <1>2, <2>6, <3>2, <3>3 DEF ListPulls, ProbePulls, Pcs
    <2>7. CASE PostPull(w)
        <3>1. worker[w].head \in Commit
            BY <2>7 DEF PostPull, At, Held, Publishing
        <3>2. pulls' \in Seq(Pull) /\ Len(pulls') \in DOMAIN pulls'
            BY <2>7, PullTypes DEF PostPull, CanOpen
        <3>3. QED
            BY <1>3, <2>7, <3>1, <3>2 DEF PostPull
    <2>8. QED
        BY <1>6, <2>1, <2>2, <2>3, <2>4, <2>5, <2>6, <2>7 DEF PublishStep
<1>7. QED
    BY <1>4, <1>5, <1>6

\* What the CI service does to a concluded attempt: nothing.
LEMMA CIKeepsConcluded ==
    ASSUME TypeOK, Concluded, CIStep
    PROVE  /\ DOMAIN attempts \subseteq DOMAIN attempts'
           /\ attempts # <<>> => attempts' # <<>>
           /\ \A n \in DOMAIN attempts' : attempts'[n].conclusion # "none" =>
                 \A k \in Checks :
                    /\ attempts'[n].check[k] # "pending"
                    /\ attempts'[n].conclusion = "success" => attempts'[n].check[k] = "success"
           /\ \A n \in DOMAIN attempts : attempts[n].conclusion # "none" =>
                 attempts'[n] = attempts[n]
<1>1. attempts \in Seq(Attempt) /\ Len(attempts) \in Nat /\ DOMAIN attempts = 1 .. Len(attempts)
    BY DEF TypeOK
<1>2. CASE StartWorkflow
    <2> DEFINE new == [check |-> [k \in Checks |-> "pending"], conclusion |-> "none"]
    <2>1. attempts = <<>> /\ attempts' = <<new>>
        BY <1>2 DEF StartWorkflow
    <2>2. DOMAIN attempts' = {1} /\ attempts'[1].conclusion = "none"
        BY <2>1
    <2>3. QED
        BY <1>1, <2>1, <2>2
<1>3. CASE FinishJobs
    <2>1. PICK result \in [Checks -> {"success", "failure"}] :
              attempts' = [attempts EXCEPT ![Len(attempts)].check = result]
        BY <1>3 DEF FinishJobs
    <2>2. Len(attempts) \in DOMAIN attempts /\ Latest \in Attempt /\ Latest.conclusion = "none"
        BY <1>1, <1>3 DEF FinishJobs, Concluded, Latest
    <2>3. /\ DOMAIN attempts' = DOMAIN attempts
          /\ \A n \in DOMAIN attempts \ {Len(attempts)} : attempts'[n] = attempts[n]
          /\ attempts'[Len(attempts)].conclusion = "none"
        BY <1>1, <2>1, <2>2 DEF Latest, Attempt
    <2>4. QED
        BY <1>1, <2>2, <2>3 DEF Concluded, Latest
<1>4. CASE FinishWorkflow
    <2>1. PICK result \in {"success", "failure"} :
              /\ result = "success" => \A k \in Checks : Latest.check[k] = "success"
              /\ attempts' = [attempts EXCEPT ![Len(attempts)].conclusion = result]
        BY <1>4 DEF FinishWorkflow
    <2>2. /\ Len(attempts) \in DOMAIN attempts /\ Latest \in Attempt /\ Latest.conclusion = "none"
          /\ \A k \in Checks : Latest.check[k] # "pending"
        BY <1>1, <1>4 DEF FinishWorkflow, Latest
    <2>3. /\ DOMAIN attempts' = DOMAIN attempts
          /\ \A n \in DOMAIN attempts \ {Len(attempts)} : attempts'[n] = attempts[n]
          /\ attempts'[Len(attempts)].conclusion = result
          /\ attempts'[Len(attempts)].check = Latest.check
        BY <1>1, <2>1, <2>2 DEF Latest, Attempt
    <2>4. QED
        BY <1>1, <2>1, <2>2, <2>3 DEF Concluded, Latest
<1>5. ASSUME NEW again \in SUBSET Checks, RerunJobs(again)
      PROVE  \E new : new.conclusion = "none" /\ attempts' = Append(attempts, new)
    BY <1>5 DEF RerunJobs
<1>6. CASE \E again \in SUBSET Checks : RerunJobs(again)
    <2>1. PICK new : new.conclusion = "none" /\ attempts' = Append(attempts, new)
        BY <1>5, <1>6
    <2>2. /\ DOMAIN attempts' = DOMAIN attempts \cup {Len(attempts) + 1}
          /\ \A n \in DOMAIN attempts : attempts'[n] = attempts[n]
          /\ attempts'[Len(attempts) + 1] = new
        BY <1>1, <2>1
    <2>3. attempts' # <<>>
        BY <2>2
    <2>4. QED
        BY <2>1, <2>2, <2>3 DEF Concluded
<1>7. QED
    BY <1>2, <1>3, <1>4, <1>6 DEF CIStep

LEMMA ConcludedInductive == TypeOK /\ Held /\ Concluded /\ [Next]_vars => Concluded'
<1> SUFFICES ASSUME TypeOK, Held, Concluded, [Next]_vars PROVE Concluded'
    OBVIOUS
<1>1. ASSUME NEW w \in Workers,
             \/ BeginPublish(w) \/ BeginVerify(w) \/ PublishStep(w) \/ VerifyStep(w)
             \/ PostRefLost(w) \/ Leave(w)
      PROVE  Concluded'
    <2>1. /\ UNCHANGED attempts
          /\ ~ReadWorkflow(w) => UNCHANGED verified
          /\ \A v \in Workers \ {w} : worker'[v] = worker[v]
          /\ ReadChecks(w) \/ worker'[w].pc # "readWorkflow"
        BY <1>1, WorkersKeepAttempts
    <2>2. \A v \in Workers : worker'[v].pc = "readWorkflow" => attempts # <<>>
        <3>1. ASSUME ReadChecks(w), attempts = <<>> PROVE worker'[w].pc # "readWorkflow"
            BY <3>1 DEF ReadChecks, Refuse, Idle, TypeOK
        <3>2. QED
            BY <2>1, <3>1 DEF Concluded
    <2>3. \A v \in verified' : v.attempt \in DOMAIN attempts
        <3>1. CASE ReadWorkflow(w)
            <4>1. Len(attempts) \in DOMAIN attempts
                BY <3>1 DEF ReadWorkflow, At, Concluded, TypeOK
            <4>2. verified' \subseteq verified \cup
                      {[receipt |-> worker[w].receipt, attempt |-> Len(attempts)]}
                BY <3>1 DEF ReadWorkflow
            <4>3. QED
                BY <4>1, <4>2 DEF Concluded
        <3>2. QED
            BY <2>1, <3>1 DEF Concluded
    <2>4. QED
        BY <2>1, <2>2, <2>3 DEF Concluded
<1>2. CASE MergeIntoBase \/ Intervene \/ UNCHANGED vars
    BY <1>2 DEF MergeIntoBase, Intervene, vars, bundle, Concluded
<1>3. CASE CIStep
    BY <1>3, CITypes, CIKeepsConcluded DEF bundle, Concluded
<1>4. QED
    BY <1>1, <1>2, <1>3 DEF Next

LEMMA PassIsBackedInductive ==
    TypeOK /\ Held /\ Concluded /\ PassIsBacked /\ [Next]_vars => PassIsBacked'
<1> SUFFICES ASSUME TypeOK, Held, Concluded, PassIsBacked, [Next]_vars PROVE PassIsBacked'
    OBVIOUS
<1>1. receipts \subseteq receipts'
    <2>1. ASSUME NEW w \in Workers, PublishStep(w) PROVE receipts \subseteq receipts'
        BY <2>1 DEF PublishStep, LookupBranch, ReadBase, CreateCommit, AssertBase, PostRef,
           RereadRef, CheckExisting, ListPulls, PostPull, PostPullUnclear, ProbePulls,
           Attach, Issue, bundle
    <2>2. ASSUME NEW w \in Workers, VerifyStep(w) PROVE receipts \subseteq receipts'
        BY <2>2 DEF VerifyStep, VerifyBranch, VerifyBase, VerifyPull, StillExact,
           ReadChecks, ReadWorkflow, bundle
    <2>3. QED
        BY <2>1, <2>2, CITypes DEF Next, BeginPublish, BeginVerify, PostRefLost, Leave,
           MergeIntoBase, Intervene, bundle, vars
<1>2. ASSUME NEW w \in Workers, ReadWorkflow(w) PROVE PassIsBacked'
    <2> DEFINE v == [receipt |-> worker[w].receipt, attempt |-> Len(attempts)]
    <2>1. worker[w].receipt \in receipts /\ Len(attempts) \in DOMAIN attempts
        BY <1>2 DEF ReadWorkflow, At, Held, Carrying, Concluded, TypeOK
    <2>2. /\ UNCHANGED attempts
          /\ \/ UNCHANGED verified
             \/ Latest.conclusion = "success" /\ verified' = verified \cup {v}
        BY <1>2 DEF ReadWorkflow, Passes
    <2>3. Latest.conclusion = "success" => \A k \in Checks : Latest.check[k] = "success"
        BY <2>1 DEF Concluded, Latest
    <2>4. QED
        BY <1>1, <2>1, <2>2, <2>3 DEF PassIsBacked, Latest
<1>3. ASSUME NEW w \in Workers, ~ReadWorkflow(w),
             \/ BeginPublish(w) \/ BeginVerify(w) \/ PublishStep(w) \/ VerifyStep(w)
             \/ PostRefLost(w) \/ Leave(w)
      PROVE  PassIsBacked'
    BY <1>1, <1>3, WorkersKeepAttempts DEF PassIsBacked
<1>4. CASE MergeIntoBase \/ Intervene \/ UNCHANGED vars
    BY <1>1, <1>4 DEF MergeIntoBase, Intervene, vars, bundle, PassIsBacked
<1>5. CASE CIStep
    <2>1. \A v \in verified : attempts[v.attempt].conclusion # "none"
        BY DEF PassIsBacked
    <2>2. QED
        BY <1>1, <1>5, <2>1, CITypes, CIKeepsConcluded DEF bundle, Concluded, PassIsBacked
<1>6. QED
    BY <1>2, <1>3, <1>4, <1>5 DEF Next, VerifyStep

-----------------------------------------------------------------------------
(* Receipts and the branch                                                 *)

\* An issued receipt names the exact repair that the branch holds.
LEMMA IssuedIsOnBranch ==
    ASSUME TypeOK, Published, NEW w \in Workers, worker[w].head \in Commit,
           worker[w].pc \in {"list", "assertPull", "postPull", "probe"},
           pulls' \in Seq(Pull), NEW k \in DOMAIN pulls', Issue(w, k),
           pulls'[k].open => branch # None /\ pulls'[k].head = branch
    PROVE  \/ Refuse(w) /\ UNCHANGED receipts
           \/ \E r \in Receipt :
                 /\ r.commit = branch /\ branch # None /\ IsRepair(branch) /\ branch.exact
                 /\ receipts' = receipts \cup {r}
                 /\ worker' = [worker EXCEPT ![w] = [Idle EXCEPT !.pc = "attach", !.receipt = r]]
<1>1. IsRepair(worker[w].head) /\ worker[w].head.exact /\ worker[w].head # None
    BY GitHubRepairAssumption DEF Published, ExactRepairs
<1>2. CASE Refuse(w) /\ UNCHANGED receipts
    BY <1>2
<1>3. CASE ~(Refuse(w) /\ UNCHANGED receipts)
    <2>1. PICK r \in Receipt :
              /\ r.commit = worker[w].head
              /\ pulls'[k].open /\ pulls'[k].head = r.commit
              /\ receipts' = receipts \cup {r}
              /\ worker' = [worker EXCEPT ![w] = [Idle EXCEPT !.pc = "attach", !.receipt = r]]
        BY <1>3, IssueFacts
    <2>2. r.commit = branch /\ branch # None /\ IsRepair(branch) /\ branch.exact
        BY <1>1, <2>1
    <2>3. QED
        BY <2>1, <2>2
<1>4. QED
    BY <1>2, <1>3

\* What each step does to the branch, the pull requests and the receipts: it leaves
\* them alone, publishes a repair that is new, opens a pull request for the branch, or
\* issues a receipt for it.
Quiet == UNCHANGED <<branch, pulls, receipts, deleted>>
IssuesReceipt(w) ==
    /\ UNCHANGED <<branch, deleted>>
    /\ UNCHANGED pulls \/ (CanOpen /\ pulls' = Opened)
    /\ \/ Refuse(w) /\ UNCHANGED receipts
       \/ \E r \in Receipt :
             /\ r.commit = branch /\ branch # None /\ IsRepair(branch) /\ branch.exact
             /\ receipts' = receipts \cup {r}
             /\ worker' = [worker EXCEPT ![w] = [Idle EXCEPT !.pc = "attach", !.receipt = r]]
\* The worker's commit stays exact knowledge of its repair.
Knows(w) ==
    /\ \A v \in Workers \ {w} : worker'[v] = worker[v]
    /\ worker'[w].head # None => (worker'[w].head.exact <=> IsRepair(worker'[w].head))
    /\ worker'[w].pc \in {"list", "assertPull", "postPull", "probe"} => IsRepair(worker'[w].head)

LEMMA PublishEffects ==
    ASSUME TypeOK, Held, Published, NEW w \in Workers, PublishStep(w)
    PROVE  /\ Knows(w)
           /\ \/ Quiet
              \/ branch = None /\ branch' \in Commit /\ branch' = worker[w].head
                    /\ UNCHANGED <<pulls, receipts, deleted>>
              \/ CanOpen /\ pulls' = Opened /\ UNCHANGED <<branch, receipts, deleted>>
              \/ IssuesReceipt(w)
<1> DEFINE Goal == /\ Knows(w)
                   /\ \/ Quiet
                      \/ branch = None /\ branch' \in Commit /\ branch' = worker[w].head
                            /\ UNCHANGED <<pulls, receipts, deleted>>
                      \/ CanOpen /\ pulls' = Opened /\ UNCHANGED <<branch, receipts, deleted>>
                      \/ IssuesReceipt(w)
           Late == {"list", "assertPull", "postPull", "probe"}
<1> USE DEF remote, bundle, people
<1>1. ASSUME Refuse(w) PROVE Knows(w)
    BY <1>1 DEF Refuse, Knows, TypeOK, Idle
<1>2. ASSUME NEW pc \in Pcs, Goto(w, pc), pc \in Late => IsRepair(worker[w].head)
      PROVE  Knows(w)
    <2>1. /\ \A v \in Workers \ {w} : worker'[v] = worker[v]
          /\ worker'[w].pc = pc /\ worker'[w].head = worker[w].head
        BY <1>2 DEF Goto, TypeOK
    <2>2. QED
        BY <1>2, <2>1 DEF Knows, Published, ExactRepairs
<1>3. ASSUME NEW new \in Worker, worker' = [worker EXCEPT ![w] = new],
             new.head # None => (new.head.exact <=> IsRepair(new.head)),
             new.pc \in Late => IsRepair(new.head)
      PROVE  Knows(w)
    BY <1>3 DEF Knows, TypeOK
<1>4. ASSUME worker[w].head \in Commit, worker[w].pc \in Late, UNCHANGED <<branch, deleted>>,
             UNCHANGED pulls \/ (CanOpen /\ pulls' = Opened),
             NEW k \in DOMAIN pulls', Issue(w, k)
      PROVE  Knows(w) /\ IssuesReceipt(w)
    <2>1. pulls' \in Seq(Pull)
        BY <1>4, PullTypes DEF CanOpen, TypeOK
    <2>2. pulls'[k].open => branch # None /\ pulls'[k].head = branch
        <3>1. CASE UNCHANGED pulls
            BY <1>4, <3>1 DEF Published, OpenShowsBranch
        <3>2. CASE CanOpen /\ pulls' = Opened
            BY <1>4, <3>2 DEF CanOpen, Opened, TypeOK
        <3>3. QED
            BY <1>4, <3>1, <3>2
    <2>3. IssuesReceipt(w)
        BY <1>4, <2>1, <2>2, IssuedIsOnBranch DEF IssuesReceipt
    <2>4. CASE Refuse(w)
        BY <1>1, <2>3, <2>4
    <2>5. CASE ~Refuse(w)
        <3>1. PICK r \in Receipt :
                  worker' = [worker EXCEPT ![w] = [Idle EXCEPT !.pc = "attach", !.receipt = r]]
            BY <2>3, <2>5 DEF IssuesReceipt
        <3> DEFINE new == [Idle EXCEPT !.pc = "attach", !.receipt = r]
        <3>2. new \in Worker /\ new.head = None /\ new.pc = "attach"
            BY IdleTypes DEF Worker, Idle, Pcs
        <3>3. QED
            BY <1>3, <2>3, <3>1, <3>2
    <2>6. QED
        BY <2>4, <2>5
<1>5. CASE LookupBranch(w)
    <2> DEFINE pc == IF branch = None THEN "readBase" ELSE "existing"
               new == [worker[w] EXCEPT !.pc = pc, !.head = branch]
    <2>1. pc \in Pcs /\ pc \notin Late
        BY DEF Pcs
    <2> HIDE DEF pc
    <2>2. new \in Worker /\ new.head = branch /\ new.pc = pc
        <3>1. branch \in Commit \cup {None}
            BY DEF TypeOK
        <3>w. worker[w] \in Worker
            BY WorkerUpdates
        <3>2. QED
            BY <2>1, <3>1, <3>w DEF Worker
    <2>3. worker' = [worker EXCEPT ![w] = new] /\ Quiet
        BY <1>5 DEF LookupBranch, Quiet, pc
    <2> HIDE DEF new
    <2>4. QED
        BY <1>3, <2>1, <2>2, <2>3 DEF Published, ExactRepairs
<1>6. CASE ReadBase(w)
    <2> DEFINE new == [worker[w] EXCEPT !.pc = "create", !.base = base]
    <2>1. new \in Worker /\ new.head = worker[w].head /\ new.pc \notin Late
        <3>1. "create" \in Pcs /\ base \in Nat
            BY DEF Pcs, TypeOK
        <3>w. worker[w] \in Worker
            BY WorkerUpdates
        <3>2. new \in Worker /\ new.head = worker[w].head /\ new.pc = "create"
            BY <3>1, <3>w DEF Worker
        <3>3. QED
            BY <3>2
    <2>2. worker' = [worker EXCEPT ![w] = new] /\ Quiet
        BY <1>6 DEF ReadBase, Quiet
    <2> HIDE DEF new
    <2>3. QED
        BY <1>3, <2>1, <2>2 DEF Published, ExactRepairs
<1>7. CASE CreateCommit(w)
    <2>1. Quiet
        BY <1>7 DEF CreateCommit, Quiet
    <2>2. CASE ~Refuse(w)
        <3> DEFINE c == NewCommit(base, "repair")
                   new == [worker[w] EXCEPT !.pc = "assertRef", !.head = c]
        <3>1. worker' = [worker EXCEPT ![w] = new] /\ Fresh # {}
            BY <1>7, <2>2 DEF CreateCommit
        <3>2. c \in Commit /\ (c.exact <=> IsRepair(c))
            BY <3>1, NewCommitTypes DEF TypeOK, IsRepair
        <3>3. new \in Worker /\ new.head = c /\ new.pc \notin Late
            <4>1. "assertRef" \in Pcs
                BY DEF Pcs
            <4>w. worker[w] \in Worker
                BY WorkerUpdates
            <4>2. new \in Worker /\ new.head = c /\ new.pc = "assertRef"
                BY <3>2, <4>1, <4>w DEF Worker
            <4>3. QED
                BY <4>2
        <3> HIDE DEF new, c
        <3>4. QED
            BY <1>3, <2>1, <3>1, <3>2, <3>3
    <2>3. QED
        BY <1>1, <2>1, <2>2
<1>8. CASE AssertBase(w, "assertRef", "postRef")
    BY <1>1, <1>2, <1>8 DEF AssertBase, Quiet, Pcs
<1>9. CASE AssertBase(w, "assertPull", "postPull")
    BY <1>1, <1>2, <1>9 DEF AssertBase, At, Quiet, Pcs, Published, ExactRepairs
<1>10. CASE PostRef(w)
    <2>1. worker[w].head \in Commit
        BY <1>10 DEF PostRef, At, Held, Publishing
    <2>2. QED
        BY <1>2, <1>10, <2>1 DEF PostRef, Quiet, Pcs
<1>11. CASE RereadRef(w)
    BY <1>1, <1>2, <1>11 DEF RereadRef, Quiet, Pcs
<1>12. CASE CheckExisting(w)
    <2>1. Quiet
        BY <1>12 DEF CheckExisting, Quiet
    <2>2. CASE ~Refuse(w)
        <3> DEFINE new == [worker[w] EXCEPT !.pc = "list", !.base = worker[w].head.base]
        <3>1. worker' = [worker EXCEPT ![w] = new] /\ IsRepair(worker[w].head)
            BY <1>12, <2>2 DEF CheckExisting
        <3>2. worker[w].head.base \in Nat
            BY <1>12 DEF CheckExisting, At, Held, Publishing, Commit
        <3>3. new \in Worker /\ new.head = worker[w].head
            <4>1. "list" \in Pcs
                BY DEF Pcs
            <4>w. worker[w] \in Worker
                BY WorkerUpdates
            <4>2. QED
                BY <3>2, <4>1, <4>w DEF Worker
        <3> HIDE DEF new
        <3>4. QED
            BY <1>3, <2>1, <3>1, <3>3 DEF Published, ExactRepairs
    <2>3. QED
        BY <1>1, <2>1, <2>2
<1>13. CASE ListPulls(w) \/ ProbePulls(w)
    <2>1. /\ worker[w].head \in Commit /\ worker[w].pc \in Late
          /\ UNCHANGED <<branch, deleted, pulls>>
        BY <1>13 DEF ListPulls, ProbePulls, At, Held, Publishing
    <2>2. ASSUME NEW k \in Matching(worker[w].head), Issue(w, k) PROVE Goal
        BY <1>4, <2>1, <2>2 DEF Matching
    <2>3. CASE Goto(w, "assertPull") /\ UNCHANGED bundle
        BY <1>2, <2>1, <2>3 DEF Published, ExactRepairs, Quiet, Pcs
    <2>4. CASE Refuse(w) /\ UNCHANGED bundle
        BY <1>1, <2>1, <2>4 DEF Quiet
    <2>5. QED
        BY <1>13, <2>2, <2>3, <2>4 DEF ListPulls, ProbePulls
<1>14. CASE PostPull(w)
    <2>1. /\ worker[w].head \in Commit /\ worker[w].pc \in Late
          /\ CanOpen /\ pulls' = Opened /\ UNCHANGED <<branch, deleted>>
        BY <1>14 DEF PostPull, At, Held, Publishing
    <2>2. Len(pulls') \in DOMAIN pulls'
        BY <2>1, PullTypes DEF CanOpen
    <2>3. QED
        BY <1>4, <1>14, <2>1, <2>2 DEF PostPull
<1>15. CASE PostPullUnclear(w)
    <2>1. Knows(w)
        BY <1>2, <1>15 DEF PostPullUnclear, At, Pcs, Published, ExactRepairs
    <2>2. QED
        BY <1>15, <2>1 DEF PostPullUnclear, Quiet
<1>16. CASE Attach(w)
    BY <1>1, <1>16 DEF Attach, Quiet
<1>17. QED
    BY <1>5, <1>6, <1>7, <1>8, <1>9, <1>10, <1>11, <1>12, <1>13, <1>14, <1>15, <1>16
       DEF PublishStep

LEMMA OtherWorkerEffects ==
    ASSUME TypeOK, Published, NEW w \in Workers,
           BeginPublish(w) \/ BeginVerify(w) \/ VerifyStep(w) \/ PostRefLost(w) \/ Leave(w)
    PROVE  Knows(w) /\ Quiet
<1> DEFINE Late == {"list", "assertPull", "postPull", "probe"}
<1> USE DEF remote, bundle, people
<1>1. ASSUME Refuse(w) PROVE Knows(w)
    BY <1>1 DEF Refuse, Knows, TypeOK, Idle
<1>2. ASSUME worker'[w].head = worker[w].head, worker'[w].pc \notin Late,
             \A v \in Workers \ {w} : worker'[v] = worker[v]
      PROVE  Knows(w)
    BY <1>2 DEF Knows, Published, ExactRepairs
<1>3. ASSUME NEW pc \in Pcs \ Late, Goto(w, pc) PROVE Knows(w)
    BY <1>2, <1>3 DEF Goto, TypeOK
<1>4. CASE BeginPublish(w) \/ PostRefLost(w) \/ Leave(w)
    BY <1>1, <1>3, <1>4 DEF BeginPublish, PostRefLost, Leave, Quiet, Pcs
<1>5. CASE BeginVerify(w)
    BY <1>2, <1>5 DEF BeginVerify, Quiet, TypeOK
<1>6. ASSUME NEW from \in Pcs, NEW to \in Pcs \ Late, NEW holds \in BOOLEAN,
             StillExact(w, from, to, holds)
      PROVE  Knows(w) /\ Quiet
    BY <1>1, <1>3, <1>6 DEF StillExact, Quiet
<1>7. CASE ReadChecks(w)
    BY <1>1, <1>2, <1>7 DEF ReadChecks, Quiet, TypeOK
<1>8. CASE ReadWorkflow(w)
    BY <1>1, <1>8 DEF ReadWorkflow, Quiet
<1>9. QED
    BY <1>4, <1>5, <1>6, <1>7, <1>8 DEF VerifyStep, VerifyBranch, VerifyBase, VerifyPull, Pcs

LEMMA PublishedInductive == TypeOK /\ Held /\ Published /\ [Next]_vars => Published'
<1> SUFFICES ASSUME TypeOK, Held, Published, [Next]_vars PROVE Published'
    OBVIOUS
<1>1. ASSUME NEW w \in Workers, Knows(w), branch' # None => (branch'.exact <=> IsRepair(branch'))
      PROVE  ExactRepairs'
    <2>1. \A v \in Workers \ {w} : worker'[v] = worker[v]
        BY <1>1 DEF Knows
    <2>2. QED
        BY <1>1, <2>1 DEF Knows, Published, ExactRepairs, IsRepair
<1>2. ASSUME NEW w \in Workers, Knows(w), Quiet PROVE Published'
    <2>1. ExactRepairs'
        BY <1>1, <1>2 DEF Quiet, Published, ExactRepairs
    <2>2. QED
        BY <1>2, <2>1 DEF Quiet, Published, OpenShowsBranch, BranchOfReceipts
<1>3. ASSUME NEW w \in Workers, PublishStep(w) PROVE Published'
    <2>1. Knows(w)
        BY <1>3, PublishEffects
    <2>2. CASE Quiet
        BY <1>2, <2>1, <2>2
    <2>3. CASE branch = None /\ branch' \in Commit /\ branch' = worker[w].head
                  /\ UNCHANGED <<pulls, receipts, deleted>>
        <3>1. ExactRepairs'
            BY <1>1, <2>1, <2>3, GitHubRepairAssumption DEF Published, ExactRepairs
        <3>2. deleted \/ receipts = {}
            BY <2>3, GitHubRepairAssumption DEF Published, BranchOfReceipts, TypeOK, Receipt
        <3>3. QED
            BY <2>3, <3>1, <3>2 DEF Published, OpenShowsBranch, BranchOfReceipts
    <2>4. ASSUME pulls' = Opened, CanOpen, UNCHANGED branch PROVE OpenShowsBranch'
        <3>1. \A k \in DOMAIN pulls' : pulls'[k].open => pulls'[k].head = branch
            BY <2>4 DEF Opened, CanOpen, TypeOK
        <3>2. QED
            BY <2>4, <3>1 DEF CanOpen, OpenShowsBranch
    <2>5. CASE CanOpen /\ pulls' = Opened /\ UNCHANGED <<branch, receipts, deleted>>
        BY <1>1, <2>1, <2>4, <2>5 DEF Published, ExactRepairs, BranchOfReceipts
    <2>6. CASE IssuesReceipt(w)
        <3>1. UNCHANGED <<branch, deleted>>
            BY <2>6 DEF IssuesReceipt
        <3>2. OpenShowsBranch'
            BY <2>4, <2>6 DEF IssuesReceipt, Published, OpenShowsBranch
        <3>3. BranchOfReceipts'
            BY <2>6 DEF IssuesReceipt, Published, BranchOfReceipts
        <3>4. QED
            BY <1>1, <2>1, <3>1, <3>2, <3>3 DEF Published, ExactRepairs
    <2>7. QED
        BY <1>3, <2>2, <2>3, <2>5, <2>6, PublishEffects
<1>4. CASE Intervene
    <2>1. \A k \in DOMAIN pulls : pulls[k] \in Pull
        BY DEF TypeOK
    <2>2. branch \in Commit /\ branch.base \in Nat
        BY <1>4 DEF Intervene, TypeOK, Commit
    <2>3. UNCHANGED <<worker, receipts>>
        BY <1>4 DEF Intervene, bundle
    <2>4. ASSUME pulls' = AllClosed PROVE OpenShowsBranch'
        BY <2>1, <2>4 DEF AllClosed, OpenShowsBranch, Pull
    <2>5. CASE branch' = None /\ pulls' = AllClosed /\ deleted' = TRUE
        BY <2>3, <2>4, <2>5 DEF Published, ExactRepairs, BranchOfReceipts
    <2>6. CASE pulls' = AllClosed /\ UNCHANGED <<branch, deleted>>
        BY <2>3, <2>4, <2>6 DEF Published, ExactRepairs, BranchOfReceipts
    <2>7. ASSUME NEW kind \in {"amended", "stacked"}, Fresh # {}, UNCHANGED deleted,
                 branch' = NewCommit(branch.base, kind), pulls' = WithHead(branch')
          PROVE  Published'
        <3>1. branch' \in Commit /\ ~IsRepair(branch') /\ ~branch'.exact
            BY <2>2, <2>7, NewCommitTypes DEF IsRepair
        <3>2. \A k \in DOMAIN pulls' : pulls'[k].open => pulls'[k].head = branch'
            BY <2>1, <2>7 DEF WithHead, Pull
        <3>3. branch' # None
            BY <3>1, GitHubRepairAssumption
        <3>4. QED
            BY <2>3, <2>7, <3>1, <3>2, <3>3
               DEF Published, OpenShowsBranch, ExactRepairs, BranchOfReceipts, IsRepair
    <2>8. QED
        BY <1>4, <2>5, <2>6, <2>7 DEF Intervene
<1>5. CASE MergeIntoBase \/ CIStep \/ UNCHANGED vars
    BY <1>5, CITypes DEF MergeIntoBase, vars, remote, bundle, people, Published,
       OpenShowsBranch, ExactRepairs, BranchOfReceipts
<1>6. QED
    BY <1>2, <1>3, <1>4, <1>5, OtherWorkerEffects DEF Next

-----------------------------------------------------------------------------
(* The theorems                                                            *)

LEMMA InvInit == Init => Inv
<1> SUFFICES ASSUME Init PROVE Inv
    OBVIOUS
<1>1. TypeOK
    <2>1. worker \in [Workers -> Worker]
        BY IdleTypes DEF Init
    <2>2. pulls \in Seq(Pull) /\ attempts \in Seq(Attempt)
        BY DEF Init
    <2>3. QED
        BY <2>1, <2>2 DEF Init, TypeOK, Worker
<1>2. \A w \in Workers : worker[w].pc = "idle" /\ worker[w].head = None
    BY DEF Init, Idle
<1>3. Held /\ Concluded /\ Published
    BY <1>2 DEF Init, Held, Concluded, Published, OpenShowsBranch, ExactRepairs,
       BranchOfReceipts, Publishing, Carrying
<1>4. QED
    BY <1>1, <1>3 DEF Inv

\* The inductive invariant of publication and verification on GitHub: workers carry
\* commits that exist, receipts are bound to what the branch held, and a pull request
\* shows its branch.
THEOREM GitHubInvariant == Spec => []Inv
<1>1. Inv /\ [Next]_vars => Inv'
    BY TypeOKInductive, HeldInductive, ConcludedInductive, PublishedInductive DEF Inv
<1>2. QED
    BY InvInit, <1>1, PTL DEF Spec

\* Every reachable state of the publication on GitHub is well typed: the provider, its
\* pull requests, the workflow attempts and what the workers carry.
THEOREM GitHubTypeCorrect == Spec => []TypeOK
<1>1. Inv => TypeOK
    BY DEF Inv
<1>2. QED
    BY <1>1, GitHubInvariant, PTL

\* A PASS receipt names a successful attempt with every required check, whatever jobs
\* are run again while workers collect the results.
THEOREM PassReceiptsAreBacked == Spec => []PassIsBacked
<1>1. Init => PassIsBacked
    BY DEF Init, PassIsBacked
<1>2. Inv /\ PassIsBacked /\ [Next]_vars => PassIsBacked'
    BY PassIsBackedInductive DEF Inv
<1>3. QED
    BY <1>1, <1>2, GitHubInvariant, PTL DEF Spec

\* The GitHub adapter implements ChangeProvider: every receipt names the exact repair
\* the branch held when it was issued, and all agree until somebody deletes the branch.
THEOREM GitHubImplementsChangeProvider == Spec => ImplementsChangeProvider
<1>1. Init => Provider!Init
    BY DEF Init, Provider!Init
<1>2. ASSUME Inv, [Next]_vars PROVE [Provider!Next]_(Provider!promise)
    <2> USE <1>2
    <2>1. TypeOK /\ Held /\ Published
        BY DEF Inv
    <2>2. CASE UNCHANGED receipts /\ (deleted => deleted')
        BY <2>2 DEF Provider!Next, Provider!Move
    <2>3. ASSUME NEW w \in Workers, IssuesReceipt(w), ~Refuse(w) \/ ~UNCHANGED receipts
          PROVE  Provider!Issue
        <3>1. UNCHANGED <<branch, deleted>>
            BY <2>3 DEF IssuesReceipt
        <3>2. PICK r \in Receipt :
                  /\ r.commit = branch /\ branch # None /\ IsRepair(branch) /\ branch.exact
                  /\ receipts' = receipts \cup {r}
            BY <2>3 DEF IssuesReceipt
        <3>3. deleted \/ \A q \in receipts : q.commit = r.commit
            BY <2>1, <3>2 DEF Published, BranchOfReceipts
        <3>4. r \in receipts'
            BY <3>2
        <3>5. QED
            BY <3>1, <3>2, <3>3, <3>4 DEF Provider!Issue
    <2>4. ASSUME NEW w \in Workers, PublishStep(w)
          PROVE  [Provider!Next]_(Provider!promise)
        BY <2>1, <2>2, <2>3, <2>4, PublishEffects DEF Quiet, IssuesReceipt, Provider!Next
    <2>5. ASSUME NEW w \in Workers,
                 BeginPublish(w) \/ BeginVerify(w) \/ VerifyStep(w) \/ PostRefLost(w) \/ Leave(w)
          PROVE  [Provider!Next]_(Provider!promise)
        BY <2>1, <2>2, <2>5, OtherWorkerEffects DEF Quiet
    <2>6. CASE MergeIntoBase \/ Intervene \/ CIStep \/ UNCHANGED vars
        BY <2>1, <2>2, <2>6, CITypes DEF MergeIntoBase, Intervene, vars, bundle, people
    <2>7. QED
        BY <2>4, <2>5, <2>6 DEF Next
<1>3. QED
    BY <1>1, <1>2, GitHubInvariant, PTL DEF Spec, ImplementsChangeProvider, Provider!Spec

-----------------------------------------------------------------------------
(* The local provider in the composition                                   *)

\* LocalRepairProofs under the substitution of Local: Proofs!X and Local!X are equal
\* for every definition X of LocalRepair, once both are expanded.
Proofs == INSTANCE LocalRepairProofs WITH
    worker <- localWorker, receipts <- localReceipts, deleted <- localDeleted,
    faults <- localFaults, MaxFaults <- MaxLocalFaults

LEMMA LocalAssumption == Proofs!LocalRepairAssumption
BY PublicationAssumption DEF Local!LocalRepairAssumption, Proofs!LocalRepairAssumption,
   Local!Commit, Proofs!Commit, Local!Root, Proofs!Root

\* The local part of the composition behaves as LocalRepair.
LEMMA LocalPart == PublicationSpec => Proofs!Spec
<1>1. PublicationInit => Proofs!Init
    BY DEF PublicationInit, Local!Init, Proofs!Init, Local!Idle, Proofs!Idle, Local!Root,
       Proofs!Root
<1>2. Local!Next = Proofs!Next
    BY DEF Local!Next, Proofs!Next,
           Local!Root, Proofs!Root, Local!Commit, Proofs!Commit, Local!Idle, Proofs!Idle,
           Local!At, Proofs!At, Local!Goto, Proofs!Goto, Local!Return, Proofs!Return,
           Local!InTree, Proofs!InTree, Local!BeginPublish, Proofs!BeginPublish,
           Local!Issue, Proofs!Issue, Local!Lookup, Proofs!Lookup, Local!Status,
           Proofs!Status, Local!Checkout, Proofs!Checkout, Local!Write, Proofs!Write,
           Local!Named, Proofs!Named, Local!Fresh, Proofs!Fresh, Local!Add, Proofs!Add,
           Local!CommitStaged, Proofs!CommitStaged, Local!Describe, Proofs!Describe, Local!Raise, Proofs!Raise,
           Local!Reset, Proofs!Reset, Local!CheckoutMain, Proofs!CheckoutMain,
           Local!DeleteBranch, Proofs!DeleteBranch, Local!BeginApply, Proofs!BeginApply,
           Local!CheckHead, Proofs!CheckHead, Local!Release, Proofs!Release,
           Local!FilesOf, Proofs!FilesOf, Local!Look, Proofs!Look, Local!Rename,
           Proofs!Rename, Local!OpenReceipt, Proofs!OpenReceipt, Local!WriteReceipt,
           Proofs!WriteReceipt, Local!Leave, Proofs!Leave, Local!Crash, Proofs!Crash,
           Local!PublishStep, Proofs!PublishStep, Local!ApplyStep, Proofs!ApplyStep,
           Local!vars, Proofs!vars, Local!repository, Proofs!repository, Local!staging,
           Proofs!staging, Local!history, Proofs!history
<1>3. [GitHubNext \/ LocalNext]_allVars => [Proofs!Next]_(Proofs!vars)
    BY <1>2 DEF GitHubNext, LocalNext, allVars, local, Proofs!vars, Proofs!repository,
       Proofs!staging, Proofs!history
<1>4. QED
    BY <1>1, <1>3, PTL DEF PublicationSpec, Proofs!Spec

\* No crash or failure leaves an application receipt on disk without its release.
THEOREM LocalReceiptsHaveReleases == PublicationSpec => []LocalReceiptHasRelease
<1>1. Proofs!LocalReceiptHasRelease => LocalReceiptHasRelease
    BY DEF LocalReceiptHasRelease, Local!LocalReceiptHasRelease, Proofs!LocalReceiptHasRelease
<1>2. Proofs!Spec => []Proofs!LocalReceiptHasRelease
    BY LocalAssumption, Proofs!LocalReceiptsHaveReleases
<1>3. QED
    BY <1>1, <1>2, LocalPart, PTL

\* The rollback of a failed publication restores tracked files, index and branches, and
\* leaves new files only of publications that failed before they staged them, whichever
\* provider is configured.
THEOREM RollbacksLeaveOnlyNewFiles == PublicationSpec => []RollbackLeavesOnlyNewFiles
<1>1. Proofs!RollbackLeavesOnlyNewFiles => RollbackLeavesOnlyNewFiles
    BY DEF RollbackLeavesOnlyNewFiles, Local!RollbackLeavesOnlyNewFiles,
       Proofs!RollbackLeavesOnlyNewFiles, Local!InTree, Proofs!InTree
<1>2. Proofs!Spec => []Proofs!RollbackLeavesOnlyNewFiles
    BY LocalAssumption, Proofs!RollbacksLeaveOnlyNewFiles
<1>3. QED
    BY <1>1, <1>2, LocalPart, PTL

\* The local adapter keeps the receipt semantics of ChangeProvider.
THEOREM LocalProviderImplementsChangeProvider ==
    PublicationSpec => LocalImplementsChangeProvider
<1>1. Proofs!Provider!Init => Local!Provider!Init
    BY DEF Local!Provider!Init, Proofs!Provider!Init
<1>2. [Proofs!Provider!Next]_(Proofs!Provider!promise)
          => [Local!Provider!Next]_(Local!Provider!promise)
    BY DEF Local!Provider!Next, Proofs!Provider!Next, Local!Provider!promise,
       Proofs!Provider!promise, Local!Provider!Issue, Proofs!Provider!Issue,
       Local!Provider!Move, Proofs!Provider!Move
<1>3. Proofs!Spec => Proofs!LocalImplementsChangeProvider
    BY LocalAssumption, Proofs!LocalProviderImplementsChangeProvider
<1>4. QED
    BY <1>1, <1>2, <1>3, LocalPart, PTL
       DEF LocalImplementsChangeProvider, Local!LocalImplementsChangeProvider,
           Proofs!LocalImplementsChangeProvider, Local!Provider!Spec, Proofs!Provider!Spec
=============================================================================
