-------------------------- MODULE LocalRepairProofs --------------------------
(***************************************************************************)
(* Proofs about LocalRepair, for every number of workers, bundles and      *)
(* artifacts, and any number of failing commands and crashes.              *)
(***************************************************************************)
EXTENDS LocalRepair, TLAPS

Worker == [pc: Pcs, bundle: Bundles \cup {None}, base: Commit,
           left: SUBSET Artifacts, commit: Commit]

\* Whoever works, works on a bundle; the base branch and what is checked out exist.
Placed ==
    /\ refs[Main] \in Commit
    /\ refs[head] \in Commit
    /\ \A w \in Workers : worker[w].pc # "idle" => worker[w].bundle \in Bundles

\* The application of a release renames its directory first.
RenamedFirst ==
    \A w \in Workers :
        worker[w].pc \in {"openReceipt", "writeReceipt"} => Release(w) \in released

\* The branch of bundle b holds its exact repair.
Own(b) == refs[b] \in Commit /\ refs[b].by = b /\ refs[b].exact

\* New files of publications that failed before they staged what they wrote.
Leftovers == spilled \X (Artifacts \ Tracked)

\* The repository between two commands of the one publication that works in it.
Stage(w) ==
    LET b == worker[w].bundle IN
    /\ At(w, "write") => /\ head = b /\ refs[b] = Root /\ staged = {}
                         /\ tree = {b} \X (Artifacts \ worker[w].left)
    /\ At(w, "add") => /\ head = b /\ refs[b] = Root /\ staged = {}
                       /\ tree = {b} \X Artifacts /\ tree # {}
    /\ At(w, "commit") => /\ head = b /\ refs[b] = Root /\ staged = tree
                          /\ tree = {b} \X Artifacts /\ tree # {}
    /\ At(w, "describe") => head = b /\ Own(b) /\ tree = {} /\ staged = {}
    /\ At(w, "reset") => /\ head = b /\ (refs[b] = Root \/ Own(b))
                         /\ tree \subseteq {b} \X Artifacts
                         /\ b \in spilled \/ tree = staged
    /\ At(w, "checkoutMain") => /\ head = b /\ refs[b] = Root
                                /\ staged = {} /\ tree \subseteq Leftovers
    /\ At(w, "deleteBranch") => /\ head = Main /\ refs[b] = Root
                                /\ staged = {} /\ tree \subseteq Leftovers

\* What receipts of bundle b are worth.
Receipted(b) ==
    \A q \in receipts[b] : q.commit.exact /\ (b \in deleted \/ refs[b] = q.commit)

\* While publications do not share the working tree: the base branch stays, one worker
\* at most is in the tree, every branch is absent, at its base or an exact repair, and
\* the receipts hold.
Alone ==
    /\ refs[Main] = Root /\ \A w \in Workers : worker[w].base = Root
    /\ \A v, w \in Workers : InTree(v) /\ InTree(w) => v = w
    /\ \A w \in Workers : Stage(w)
    /\ \A b \in Bundles : refs[b] \in {None, Root} \/ Own(b)
    /\ \A b \in Bundles : Receipted(b)

\* Only a worker in the tree, or a rollback that was interrupted, leaves a branch at its
\* base, staged changes, or changes other than the files that a rollback does not remove.
Clean ==
    /\ (\A w \in Workers : ~InTree(w)) => staged = {} /\ tree \subseteq Leftovers
    /\ \A b \in Bundles : refs[b] = Root =>
          \E w \in Workers : InTree(w) /\ worker[w].bundle = b

Inv == /\ TypeOK /\ Placed
       /\ shared \/ Alone
       /\ shared \/ stranded \/ Clean

-----------------------------------------------------------------------------
(* Type correctness                                                        *)

LEMMA RootTypes ==
    /\ Root \in Commit /\ Root.id \in CommitIds \cup {Main}
    /\ \A c \in Commit : c.id \in CommitIds \cup {Main}
    /\ \A c \in Commit : c.exact => c.parent \in CommitIds \cup {Main}
    /\ ~Root.exact /\ Root.by = None
BY DEF Root, Commit

LEMMA IdleTypes ==
    /\ Idle \in Worker /\ Idle.pc = "idle" /\ Idle.base = Root
    /\ \A b \in Bundles : [Idle EXCEPT !.pc = "lookup", !.bundle = b] \in Worker
    /\ \A b \in Bundles : \A c \in Commit :
          [Idle EXCEPT !.pc = "checkHead", !.bundle = b, !.commit = c] \in Worker
BY RootTypes DEF Idle, Worker, Pcs

\* A worker stays a worker when it goes on, returns or starts.
LEMMA WorkerUpdates ==
    ASSUME TypeOK, NEW w \in Workers
    PROVE  /\ worker[w] \in Worker
           /\ \A pc \in Pcs : Goto(w, pc) => worker' \in [Workers -> Worker]
           /\ Return(w) => worker' \in [Workers -> Worker]
           /\ \A new \in Worker : [worker EXCEPT ![w] = new] \in [Workers -> Worker]
<1>1. worker \in [Workers -> Worker]
    BY DEF TypeOK, Worker
<1>2. \A pc \in Pcs : [worker[w] EXCEPT !.pc = pc] \in Worker
    BY <1>1 DEF Worker
<1>3. \A new \in Worker : [worker EXCEPT ![w] = new] \in [Workers -> Worker]
    BY <1>1
<1>4. ASSUME NEW pc \in Pcs, Goto(w, pc) PROVE worker' \in [Workers -> Worker]
    BY <1>1, <1>2, <1>4 DEF Goto
<1>5. QED
    BY <1>1, <1>3, <1>4, IdleTypes DEF Return

\* Goto and Return change one worker, and where it is.
LEMMA Moves ==
    ASSUME TypeOK, NEW w \in Workers
    PROVE  /\ \A pc \in Pcs : Goto(w, pc) =>
                 /\ worker'[w].pc = pc /\ worker'[w].bundle = worker[w].bundle
                 /\ worker'[w].base = worker[w].base /\ worker'[w].left = worker[w].left
                 /\ worker'[w].commit = worker[w].commit
                 /\ \A v \in Workers \ {w} : worker'[v] = worker[v]
           /\ Return(w) => /\ worker'[w] = Idle
                           /\ \A v \in Workers \ {w} : worker'[v] = worker[v]
BY WorkerUpdates DEF Goto, Return, TypeOK, Worker

LEMMA IssueTypes ==
    ASSUME TypeOK, NEW w \in Workers, NEW b \in Bundles, NEW c \in Commit,
           NEW base \in CommitIds \cup {Main}, Issue(w, b, c, base)
    PROVE  /\ receipts' \in [Bundles -> SUBSET [commit: Commit, base: CommitIds \cup {Main}]]
           /\ worker' \in [Workers -> Worker]
           /\ receipts'[b] = receipts[b] \cup {[commit |-> c, base |-> base]}
           /\ \A d \in Bundles \ {b} : receipts'[d] = receipts[d]
BY WorkerUpdates DEF Issue, TypeOK

\* A commit that CommitStaged makes.
LEMMA CommitTypes ==
    ASSUME TypeOK, Placed, NEW w \in Workers, CommitStaged(w), staged # {}
    PROVE  \E c \in Commit : /\ refs' = [refs EXCEPT ![head] = c]
                             /\ c.by = worker[w].bundle
                             /\ c.exact <=> staged = {worker[w].bundle} \X Artifacts
<1> DEFINE c == [id |-> CHOOSE id \in Fresh : TRUE, by |-> worker[w].bundle,
                 parent |-> refs[head].id, exact |-> staged = {worker[w].bundle} \X Artifacts]
<1>1. Fresh # {} /\ refs' = [refs EXCEPT ![head] = c]
    BY DEF CommitStaged
<1>2. (CHOOSE id \in Fresh : TRUE) \in CommitIds
    BY <1>1 DEF Fresh
<1>3. worker[w].bundle \in Bundles
    BY DEF CommitStaged, At, Placed
<1>4. refs[head].id \in CommitIds \cup {Main}
    BY RootTypes DEF Placed
<1>5. c \in Commit
    BY <1>2, <1>3, <1>4 DEF Commit
<1>6. QED
    BY <1>1, <1>5

LEMMA PublishTypes ==
    ASSUME LocalRepairAssumption, TypeOK, Placed, NEW w \in Workers, PublishStep(w)
    PROVE  TypeOK' /\ Placed'
<1> USE DEF repository, staging, history
<1> DEFINE b == worker[w].bundle
<1>1. worker[w].pc # "idle" => b \in Bundles
    BY DEF Placed
\* A step that lets the worker go on or return and keeps the branches and the receipts.
<1>2. ASSUME worker' \in [Workers -> Worker], worker'[w].pc # "idle" => worker'[w].bundle = b,
             worker[w].pc # "idle", \A v \in Workers \ {w} : worker'[v] = worker[v],
             refs'[Main] \in Commit, refs'[head'] \in Commit
      PROVE  Placed'
    BY <1>1, <1>2 DEF Placed
<1>3. ASSUME NEW pc \in Pcs, Goto(w, pc) \/ Return(w), worker[w].pc # "idle"
      PROVE  /\ worker' \in [Workers -> Worker]
             /\ worker'[w].pc # "idle" => worker'[w].bundle = b
             /\ \A v \in Workers \ {w} : worker'[v] = worker[v]
    BY <1>3, WorkerUpdates, Moves, IdleTypes
<1>4. ASSUME NEW new \in Worker, worker' = [worker EXCEPT ![w] = new], new.bundle = b
      PROVE  /\ worker' \in [Workers -> Worker]
             /\ worker'[w].pc # "idle" => worker'[w].bundle = b
             /\ \A v \in Workers \ {w} : worker'[v] = worker[v]
    BY <1>4, WorkerUpdates DEF TypeOK
<1>5. CASE Lookup(w)
    <2>1. CASE \E pc \in Pcs : (Goto(w, pc) \/ Return(w)) /\ UNCHANGED receipts
        BY <1>2, <1>3, <1>5, <2>1 DEF Lookup, At, TypeOK, Placed, Worker
    <2>2. CASE /\ Issue(w, b, refs[b], refs[b].parent)
               /\ refs[b] # None /\ refs[b].exact
        <3>1. b \in Bundles
            BY <1>1, <1>5 DEF Lookup, At
        <3>2. refs[b] \in Commit /\ refs[b].parent \in CommitIds \cup {Main}
            BY <2>2, <3>1, RootTypes DEF TypeOK
        <3>3. /\ receipts' \in [Bundles -> SUBSET [commit: Commit, base: CommitIds \cup {Main}]]
              /\ Return(w)
            BY <2>2, <3>1, <3>2, IssueTypes DEF Issue
        <3>4. QED
            BY <1>2, <1>3, <1>5, <3>3 DEF Lookup, At, TypeOK, Placed, Worker, Pcs
    <2>3. QED
        BY <1>5, <2>1, <2>2 DEF Lookup, Pcs
<1>6. CASE Status(w)
    <2> DEFINE new == [worker[w] EXCEPT !.pc = "checkout", !.base = refs[Main]]
    <2>1. new \in Worker /\ new.bundle = b
        BY WorkerUpdates DEF Worker, Pcs, Placed
    <2>2. Return(w) \/ worker' = [worker EXCEPT ![w] = new]
        BY <1>6 DEF Status
    <2>3. QED
        BY <1>2, <1>3, <1>4, <1>6, <2>1, <2>2 DEF Status, At, TypeOK, Placed, Worker, Pcs
<1>7. CASE Checkout(w)
    <2> DEFINE new == [worker[w] EXCEPT !.pc = "write", !.left = Artifacts]
    <2>1. b \in Bundles
        BY <1>1, <1>7 DEF Checkout, At
    <2>2. CASE Return(w) /\ UNCHANGED <<refs, head, shared>>
        BY <1>2, <1>3, <1>7, <2>2 DEF Checkout, At, TypeOK, Placed, Worker, Pcs
    <2>3. CASE refs[b] = None
        <3>1. new \in Worker /\ new.bundle = b /\ worker[w].base \in Commit
            BY WorkerUpdates DEF Worker, Pcs
        <3>2. /\ refs' = [refs EXCEPT ![b] = worker[w].base] /\ head' = b
              /\ worker' = [worker EXCEPT ![w] = new]
            BY <1>7, <2>3 DEF Checkout
        <3>3. /\ refs' \in [Bundles \cup {Main} -> Commit \cup {None}]
              /\ refs'[Main] \in Commit /\ refs'[head'] \in Commit
            BY <2>1, <3>1, <3>2 DEF TypeOK, Placed, LocalRepairAssumption
        <3>4. shared' \in BOOLEAN
            BY <1>7, <2>3 DEF Checkout, TypeOK
        <3>5. QED
            BY <1>2, <1>4, <1>7, <2>1, <3>1, <3>2, <3>3, <3>4
               DEF Checkout, At, TypeOK, Worker
    <2>4. QED
        BY <1>7, <2>2, <2>3 DEF Checkout
<1>8. CASE Write(w)
    <2>1. PICK k \in worker[w].left :
              /\ tree' = tree \cup {<<b, k>>}
              /\ worker' = [worker EXCEPT ![w].left = @ \ {k},
                     ![w].pc = IF worker[w].left = {k} THEN "add" ELSE "write"]
        BY <1>8 DEF Write
    <2> DEFINE pc == IF worker[w].left = {k} THEN "add" ELSE "write"
               new == [worker[w] EXCEPT !.left = @ \ {k}, !.pc = pc]
    <2>2. k \in Artifacts /\ b \in Bundles /\ pc \in Pcs
        BY <1>1, <1>8, WorkerUpdates DEF Write, At, Worker, Pcs
    <2>3. new \in Worker /\ new.bundle = b /\ worker' = [worker EXCEPT ![w] = new]
        BY <2>1, <2>2, WorkerUpdates DEF Worker
    <2>4. tree' \subseteq Bundles \X Artifacts /\ staged' \subseteq tree'
        BY <1>8, <2>1, <2>2 DEF Write, TypeOK
    <2> HIDE DEF new
    <2>5. worker' \in [Workers -> Worker] /\ Placed'
        BY <1>2, <1>4, <1>8, <2>3 DEF Write, At, Placed
    <2>6. QED
        BY <1>8, <2>4, <2>5 DEF Write, TypeOK, Worker
<1>9. CASE Add(w)
    BY <1>2, <1>3, <1>9 DEF Add, At, TypeOK, Placed, Worker, Pcs
<1>10. CASE CommitStaged(w)
    <2>1. tree' \subseteq Bundles \X Artifacts /\ staged' \subseteq tree'
        BY <1>10 DEF CommitStaged, TypeOK
    <2>2. CASE staged = {}
        BY <1>2, <1>3, <1>10, <2>1, <2>2 DEF CommitStaged, At, TypeOK, Placed, Worker, Pcs
    <2>3. CASE staged # {}
        <3>1. PICK c \in Commit : refs' = [refs EXCEPT ![head] = c]
            BY <1>10, <2>3, CommitTypes
        <3>2. /\ refs' \in [Bundles \cup {Main} -> Commit \cup {None}]
              /\ refs'[Main] \in Commit /\ refs'[head] \in Commit
            BY <3>1 DEF TypeOK, Placed
        <3>3. Goto(w, "describe")
            BY <1>10, <2>3 DEF CommitStaged
        <3>4. QED
            BY <1>2, <1>3, <1>10, <2>1, <3>2, <3>3 DEF CommitStaged, At, TypeOK, Worker, Pcs
    <2>4. QED
        BY <2>2, <2>3
<1>11. CASE Describe(w)
    <2>1. b \in Bundles /\ refs[head] \in Commit /\ worker[w].base.id \in CommitIds \cup {Main}
        BY <1>1, <1>11, WorkerUpdates, RootTypes DEF Describe, At, Placed, Worker
    <2>2. Issue(w, b, refs[head], worker[w].base.id)
        BY <1>11 DEF Describe
    <2>3. /\ receipts' \in [Bundles -> SUBSET [commit: Commit, base: CommitIds \cup {Main}]]
          /\ Return(w)
        BY <2>1, <2>2, IssueTypes DEF Issue
    <2>4. QED
        BY <1>2, <1>3, <1>11, <2>3 DEF Describe, At, TypeOK, Placed, Worker, Pcs
<1>12. CASE Raise(w)
    <2>1. spilled' \subseteq Bundles
        BY <1>1, <1>12 DEF Raise, TypeOK
    <2>2. QED
        BY <1>2, <1>3, <1>12, <2>1 DEF Raise, TypeOK, Placed, Worker, Pcs
<1>13. CASE Reset(w)
    <2>1. worker[w].base \in Commit
        BY WorkerUpdates DEF Worker
    <2>2. /\ refs' \in [Bundles \cup {Main} -> Commit \cup {None}]
          /\ refs'[Main] \in Commit /\ refs'[head] \in Commit
        BY <1>13, <2>1 DEF Reset, TypeOK, Placed
    <2>3. tree' \subseteq Bundles \X Artifacts /\ staged' \subseteq tree'
        BY <1>13 DEF Reset, TypeOK
    <2>4. QED
        BY <1>2, <1>3, <1>13, <2>2, <2>3 DEF Reset, At, TypeOK, Worker, Pcs
<1>14. CASE CheckoutMain(w)
    BY <1>2, <1>3, <1>14 DEF CheckoutMain, At, TypeOK, Placed, Worker, Pcs
<1>15. CASE DeleteBranch(w)
    <2>1. b \in Bundles
        BY <1>1, <1>15 DEF DeleteBranch, At
    <2>2. /\ refs' \in [Bundles \cup {Main} -> Commit \cup {None}]
          /\ refs'[Main] \in Commit /\ refs'[head] \in Commit /\ deleted' \subseteq Bundles
        BY <1>15, <2>1 DEF DeleteBranch, TypeOK, Placed, LocalRepairAssumption
    <2>3. QED
        BY <1>2, <1>3, <1>15, <2>2 DEF DeleteBranch, At, TypeOK, Worker, Pcs
<1>16. QED
    BY <1>5, <1>6, <1>7, <1>8, <1>9, <1>10, <1>11, <1>12, <1>13, <1>14, <1>15 DEF PublishStep

LEMMA ApplyTypes ==
    ASSUME TypeOK, Placed, NEW w \in Workers, ApplyStep(w)
    PROVE  TypeOK' /\ Placed'
<1> USE DEF repository, staging, history
<1>1. worker[w].pc # "idle" /\ worker[w].bundle \in Bundles /\ Release(w) \in Bundles \X Commit
    <2>1. worker[w].pc # "idle"
        BY DEF ApplyStep, CheckHead, Look, Rename, OpenReceipt, WriteReceipt, At
    <2>2. worker[w].bundle \in Bundles /\ worker[w].commit \in Commit
        BY <2>1, WorkerUpdates DEF Placed, Worker
    <2>3. QED
        BY <2>1, <2>2 DEF Release
<1>2. ASSUME NEW pc \in Pcs, Goto(w, pc) \/ Return(w), UNCHANGED repository
      PROVE  worker' \in [Workers -> Worker] /\ Placed'
    <2>1. worker' \in [Workers -> Worker]
        BY <1>2, WorkerUpdates
    <2>2. /\ worker'[w].pc # "idle" => worker'[w].bundle \in Bundles
          /\ \A v \in Workers \ {w} : worker'[v] = worker[v]
        BY <1>1, <1>2, Moves, IdleTypes
    <2>3. QED
        BY <1>2, <2>1, <2>2 DEF Placed
<1>3. worker' \in [Workers -> Worker] /\ Placed'
    BY <1>2 DEF ApplyStep, CheckHead, Look, Rename, OpenReceipt, WriteReceipt, Pcs
<1>4. /\ released' \subseteq Bundles \X Commit
      /\ receiptFiles' \subseteq [release: Bundles \X Commit, whole: BOOLEAN]
      /\ applied' \subseteq Bundles \X Commit
    <2>1. /\ [release |-> Release(w), whole |-> FALSE] \in [release: Bundles \X Commit, whole: BOOLEAN]
          /\ [release |-> Release(w), whole |-> TRUE] \in [release: Bundles \X Commit, whole: BOOLEAN]
        BY <1>1
    <2>2. /\ released' \subseteq released \cup {Release(w)}
          /\ receiptFiles' \subseteq receiptFiles \cup
                 {[release |-> Release(w), whole |-> FALSE], [release |-> Release(w), whole |-> TRUE]}
          /\ applied' \subseteq applied \cup {Release(w)}
        <3>1. CASE CheckHead(w) \/ Look(w) \/ Rename(w)
            BY <3>1 DEF CheckHead, Look, Rename
        <3>2. CASE OpenReceipt(w) \/ WriteReceipt(w)
            BY <3>2 DEF OpenReceipt, WriteReceipt
        <3>3. QED
            BY <3>1, <3>2 DEF ApplyStep
    <2>3. QED
        BY <1>1, <2>1, <2>2 DEF TypeOK
<1>5. UNCHANGED <<repository, receipts, history, faults>>
    BY DEF ApplyStep, CheckHead, Look, Rename, OpenReceipt, WriteReceipt
<1>6. QED
    BY <1>3, <1>4, <1>5 DEF TypeOK, Worker

LEMMA TypeOKInductive ==
    ASSUME LocalRepairAssumption, TypeOK, Placed, [Next]_vars
    PROVE  TypeOK' /\ Placed'
<1> USE DEF repository, staging, history
<1>1. ASSUME NEW w \in Workers, NEW b \in Bundles, BeginPublish(w, b) PROVE TypeOK' /\ Placed'
    <2> DEFINE new == [Idle EXCEPT !.pc = "lookup", !.bundle = b]
    <2>1. new \in Worker /\ new.bundle = b
        BY IdleTypes DEF Idle
    <2>2. worker' = [worker EXCEPT ![w] = new]
        BY <1>1 DEF BeginPublish
    <2> HIDE DEF new
    <2>3. worker' \in [Workers -> Worker] /\ Placed'
        BY <1>1, <2>1, <2>2, WorkerUpdates DEF BeginPublish, TypeOK, Placed
    <2>4. QED
        BY <1>1, <2>3 DEF BeginPublish, TypeOK, Worker
<1>2. ASSUME NEW w \in Workers, NEW b \in Bundles, BeginApply(w, b) PROVE TypeOK' /\ Placed'
    <2>1. PICK r \in receipts[b] : worker' = [worker EXCEPT ![w] =
              [Idle EXCEPT !.pc = "checkHead", !.bundle = b, !.commit = r.commit]]
        BY <1>2 DEF BeginApply
    <2> DEFINE new == [Idle EXCEPT !.pc = "checkHead", !.bundle = b, !.commit = r.commit]
    <2>2. r.commit \in Commit
        BY DEF TypeOK
    <2>3. new \in Worker /\ new.bundle = b
        BY <2>2, IdleTypes DEF Idle
    <2>4. worker' = [worker EXCEPT ![w] = new]
        BY <2>1
    <2> HIDE DEF new
    <2>5. worker' \in [Workers -> Worker] /\ Placed'
        BY <1>2, <2>3, <2>4, WorkerUpdates DEF BeginApply, TypeOK, Placed
    <2>6. QED
        BY <1>2, <2>5 DEF BeginApply, TypeOK, Worker
<1>3. ASSUME NEW w \in Workers, Leave(w) PROVE TypeOK' /\ Placed'
    <2>1. worker' \in [Workers -> Worker] /\ Placed'
        <3>1. Return(w) /\ UNCHANGED repository
            BY <1>3 DEF Leave
        <3>2. worker' \in [Workers -> Worker]
            BY <3>1, WorkerUpdates
        <3>3. worker'[w].pc = "idle" /\ \A v \in Workers \ {w} : worker'[v] = worker[v]
            BY <3>1, Moves, IdleTypes
        <3>4. QED
            BY <3>1, <3>2, <3>3 DEF Placed
    <2>2. stranded' \in BOOLEAN
        BY <1>3 DEF Leave, InTree
    <2>3. QED
        BY <1>3, <2>1, <2>2 DEF Leave, TypeOK, Worker
<1>4. CASE Crash
    <2>1. worker' \in [Workers -> Worker] /\ Placed'
        BY <1>4, IdleTypes DEF Crash, Placed
    <2>2. stranded' \in BOOLEAN
        BY <1>4 DEF Crash, InTree
    <2>3. QED
        BY <1>4, <2>1, <2>2 DEF Crash, TypeOK, Worker
<1>5. CASE UNCHANGED vars
    BY <1>5 DEF vars, TypeOK, Placed
<1>6. QED
    BY <1>1, <1>2, <1>3, <1>4, <1>5, PublishTypes, ApplyTypes DEF Next

-----------------------------------------------------------------------------
(* Application                                                             *)

LEMMA ReleaseInductive ==
    ASSUME TypeOK, RenamedFirst, LocalReceiptHasRelease, [Next]_vars
    PROVE  RenamedFirst' /\ LocalReceiptHasRelease'
<1> USE DEF staging
<1> DEFINE Applying == {"openReceipt", "writeReceipt"}
<1>1. ASSUME NEW w \in Workers, released \subseteq released',
             \A v \in Workers \ {w} : worker'[v] = worker[v],
             worker'[w].pc \in Applying => Release(w)' \in released'
      PROVE  RenamedFirst'
    BY <1>1 DEF RenamedFirst, Release
<1>2. ASSUME NEW w \in Workers, Return(w), released \subseteq released' PROVE RenamedFirst'
    BY <1>1, <1>2, Moves, IdleTypes
<1>3. ASSUME NEW w \in Workers, NEW pc \in Pcs \ Applying, Goto(w, pc), released \subseteq released'
      PROVE  RenamedFirst'
    BY <1>1, <1>3, Moves
<1>4. ASSUME NEW w \in Workers, PublishStep(w) PROVE RenamedFirst' /\ UNCHANGED staging
    <2>1. CASE Lookup(w) \/ Describe(w) \/ Add(w) \/ CommitStaged(w) \/ Raise(w) \/ Reset(w)
               \/ CheckoutMain(w) \/ DeleteBranch(w)
        BY <1>2, <1>3, <2>1 DEF Lookup, Describe, Add, CommitStaged, Raise, Reset,
           CheckoutMain, DeleteBranch, Issue, Pcs
    <2>2. CASE Status(w)
        BY <1>1, <1>2, <2>2 DEF Status, TypeOK
    <2>3. CASE Checkout(w)
        BY <1>1, <1>2, <2>3 DEF Checkout, TypeOK
    <2>4. CASE Write(w)
        <3>1. worker'[w].pc \in {"add", "write"} /\ \A v \in Workers \ {w} : worker'[v] = worker[v]
            BY <2>4 DEF Write, TypeOK
        <3>2. QED
            BY <1>1, <2>4, <3>1 DEF Write
    <2>5. QED
        BY <1>4, <2>1, <2>2, <2>3, <2>4 DEF PublishStep
<1>5. ASSUME NEW w \in Workers, CheckHead(w) PROVE RenamedFirst' /\ UNCHANGED staging
    BY <1>2, <1>3, <1>5 DEF CheckHead, Pcs
<1>6. ASSUME NEW w \in Workers, Look(w) PROVE RenamedFirst' /\ LocalReceiptHasRelease'
    <2>1. RenamedFirst'
        BY <1>2, <1>3, <1>6 DEF Look, Pcs
    <2>2. ASSUME NEW f \in FilesOf(Release(w)), f.whole
          PROVE  [release |-> Release(w), whole |-> TRUE] \in receiptFiles
        <3>1. f \in [release: Bundles \X Commit, whole: BOOLEAN] /\ f \in receiptFiles
              /\ f.release = Release(w) /\ f.whole = TRUE
            BY <2>2 DEF FilesOf, TypeOK
        <3>2. f = [release |-> Release(w), whole |-> TRUE]
            BY <3>1
        <3>3. QED
            BY <3>1, <3>2
    <2>3. QED
        BY <1>6, <2>1, <2>2 DEF Look, LocalReceiptHasRelease
<1>7. ASSUME NEW w \in Workers, Rename(w) PROVE RenamedFirst' /\ LocalReceiptHasRelease'
    <2>1. RenamedFirst'
        <3>1. CASE Return(w)
            BY <1>2, <1>7, <3>1 DEF Rename
        <3>2. CASE Goto(w, "openReceipt")
            <4>1. Release(w)' = Release(w)
                BY <3>2, Moves DEF Release, Pcs
            <4>2. QED
                BY <1>1, <1>7, <3>2, <4>1, Moves DEF Rename, Pcs
        <3>3. QED
            BY <1>7, <3>1, <3>2 DEF Rename
    <2>2. QED
        BY <1>7, <2>1 DEF Rename, LocalReceiptHasRelease
<1>8. ASSUME NEW w \in Workers, OpenReceipt(w) PROVE RenamedFirst' /\ LocalReceiptHasRelease'
    <2>1. Release(w) \in released
        BY <1>8 DEF OpenReceipt, At, RenamedFirst
    <2>2. Release(w)' = Release(w)
        BY <1>8, Moves DEF OpenReceipt, Release, Pcs
    <2>3. RenamedFirst'
        BY <1>1, <1>8, <2>1, <2>2, Moves DEF OpenReceipt, Pcs
    <2>4. QED
        BY <1>8, <2>1, <2>3 DEF OpenReceipt, LocalReceiptHasRelease
<1>9. ASSUME NEW w \in Workers, WriteReceipt(w) PROVE RenamedFirst' /\ LocalReceiptHasRelease'
    <2>1. Release(w) \in released
        BY <1>9 DEF WriteReceipt, At, RenamedFirst
    <2>2. RenamedFirst'
        BY <1>2, <1>9 DEF WriteReceipt
    <2> DEFINE new == [release |-> Release(w), whole |-> TRUE]
    <2>3. /\ receiptFiles' = (receiptFiles \ FilesOf(Release(w))) \cup {new}
          /\ applied' = applied \cup {Release(w)} /\ released' = released
        BY <1>9 DEF WriteReceipt
    <2>4. \A f \in receiptFiles' : f.release \in released'
        BY <2>1, <2>3 DEF LocalReceiptHasRelease
    <2>5. ASSUME NEW release \in applied', release # Release(w)
          PROVE  release \in released /\ [release |-> release, whole |-> TRUE] \in receiptFiles'
        <3>1. [release |-> release, whole |-> TRUE] \notin FilesOf(Release(w))
            BY <2>5 DEF FilesOf
        <3>2. QED
            BY <2>3, <2>5, <3>1 DEF LocalReceiptHasRelease
    <2>6. QED
        BY <2>1, <2>2, <2>3, <2>4, <2>5 DEF LocalReceiptHasRelease
<1>10. ASSUME NEW w \in Workers, NEW b \in Bundles, BeginPublish(w, b) \/ BeginApply(w, b)
       PROVE  RenamedFirst' /\ UNCHANGED staging
    <2>1. CASE BeginPublish(w, b)
        <3>1. worker'[w].pc = "lookup" /\ \A v \in Workers \ {w} : worker'[v] = worker[v]
            BY <2>1 DEF BeginPublish, TypeOK, Idle
        <3>2. QED
            BY <1>1, <2>1, <3>1 DEF BeginPublish
    <2>2. CASE BeginApply(w, b)
        <3>1. worker'[w].pc = "checkHead" /\ \A v \in Workers \ {w} : worker'[v] = worker[v]
            BY <2>2 DEF BeginApply, TypeOK, Idle
        <3>2. QED
            BY <1>1, <2>2, <3>1 DEF BeginApply
    <2>3. QED
        BY <1>10, <2>1, <2>2
<1>11. ASSUME NEW w \in Workers, Leave(w) PROVE RenamedFirst' /\ UNCHANGED staging
    BY <1>2, <1>11 DEF Leave
<1>12. CASE Crash \/ UNCHANGED vars
    BY <1>12, IdleTypes DEF Crash, vars, RenamedFirst, Release, LocalReceiptHasRelease
<1>13. QED
    BY <1>4, <1>5, <1>6, <1>7, <1>8, <1>9, <1>10, <1>11, <1>12
       DEF Next, ApplyStep, LocalReceiptHasRelease

-----------------------------------------------------------------------------
(* One publication in the working tree                                     *)

\* A step of a worker that stays out of the tree and leaves the repository alone.
LEMMA OutsideKeepsAlone ==
    ASSUME TypeOK, Alone, NEW w \in Workers, ~InTree(w), ~InTree(w)',
           \A v \in Workers \ {w} : worker'[v] = worker[v],
           worker'[w].base = Root, UNCHANGED <<repository, deleted, spilled>>,
           \A b \in Bundles : Receipted(b)'
    PROVE  Alone' /\ (Clean => Clean')
<1> USE DEF repository
<1>1. \A v \in Workers \ {w} : InTree(v)' <=> InTree(v)
    BY DEF InTree
<1>2. \A v \in Workers : Stage(v)'
    <2>1. Stage(w)'
        BY DEF Stage, At, InTree
    <2>2. \A v \in Workers \ {w} : Stage(v)'
        BY DEF Alone, Stage, At, Own, Leftovers
    <2>3. QED
        BY <2>1, <2>2
<1>3. \A b \in Bundles : Own(b)' <=> Own(b)
    BY DEF Own
<1>4. Alone'
    BY <1>1, <1>2, <1>3 DEF Alone
<1>5. Clean => Clean'
    BY <1>1 DEF Clean, Leftovers
<1>6. QED
    BY <1>4, <1>5

\* The receipts of b hold when a receipt for its exact repair is added.
LEMMA IssueReceipted ==
    ASSUME TypeOK, Alone, NEW w \in Workers, NEW b \in Bundles, Own(b),
           NEW base \in CommitIds \cup {Main}, Issue(w, b, refs[b], base),
           UNCHANGED <<refs, deleted>>
    PROVE  \A d \in Bundles : Receipted(d)'
<1>1. refs[b] \in Commit
    BY DEF Own
<1>2. /\ receipts'[b] = receipts[b] \cup {[commit |-> refs[b], base |-> base]}
      /\ \A d \in Bundles \ {b} : receipts'[d] = receipts[d]
    BY <1>1, IssueTypes
<1>3. QED
    BY <1>2 DEF Alone, Receipted, Own

\* A step of the worker that is in the tree, or enters or leaves it.
LEMMA InsideKeepsAlone ==
    ASSUME LocalRepairAssumption, TypeOK, Placed, Alone, NEW w \in Workers,
           InTree(w) \/ InTree(w)', \A v \in Workers \ {w} : worker'[v] = worker[v],
           \A v \in Workers \ {w} : ~InTree(v),
           worker'[w].base = Root, refs'[Main] = Root,
           Stage(w)', \A b \in Bundles : refs'[b] \in {None, Root} \/ Own(b)',
           \A b \in Bundles : Receipted(b)'
    PROVE  Alone'
<1>1. \A v \in Workers \ {w} : ~InTree(v)'
    BY DEF InTree
<1>2. \A v \in Workers \ {w} : Stage(v)'
    BY <1>1 DEF Stage, At, InTree
<1>3. QED
    BY <1>1, <1>2 DEF Alone

\* A worker that is in the tree is there alone.
LEMMA AloneInTree ==
    ASSUME Alone, NEW w \in Workers, InTree(w)
    PROVE  \A v \in Workers \ {w} : ~InTree(v)
BY DEF Alone

\* What is cleaned up when the only worker in the tree leaves it.
LEMMA InsideKeepsClean ==
    ASSUME Clean, NEW w \in Workers,
           \A v \in Workers \ {w} : ~InTree(v), worker'[w].bundle = worker[w].bundle \/ ~InTree(w)',
           \A b \in Bundles \ {worker[w].bundle} : refs'[b] = refs[b],
           ~InTree(w)' => /\ staged' = {} /\ (tree \subseteq Leftovers)'
                          /\ refs'[worker[w].bundle] # Root
    PROVE  Clean'
<1>1. CASE InTree(w)'
    BY <1>1 DEF Clean
<1>2. CASE ~InTree(w)'
    BY <1>2 DEF Clean
<1>3. QED
    BY <1>1, <1>2

LEMMA PublishKeepsAlone ==
    ASSUME LocalRepairAssumption, TypeOK, Placed, Alone, NEW w \in Workers, PublishStep(w),
           ~shared'
    PROVE  Alone' /\ (Clean => Clean')
<1> USE DEF repository, staging, history
<1> DEFINE b == worker[w].bundle
<1>1. CASE Lookup(w)
    <2>1. b \in Bundles /\ ~InTree(w) /\ worker[w].base = Root
        BY <1>1 DEF Lookup, At, Placed, InTree, Alone
    <2>2. \A d \in Bundles : Receipted(d)'
        <3>1. CASE UNCHANGED receipts
            BY <1>1, <3>1 DEF Lookup, Alone, Receipted
        <3>2. CASE Issue(w, b, refs[b], refs[b].parent) /\ refs[b] # None
                       /\ refs[b].by = b /\ refs[b].exact
            <4>1. Own(b) /\ refs[b].parent \in CommitIds \cup {Main}
                BY <2>1, <3>2, RootTypes DEF Own, TypeOK
            <4>2. QED
                BY <1>1, <2>1, <3>2, <4>1, IssueReceipted DEF Lookup
        <3>3. QED
            BY <1>1, <3>1, <3>2 DEF Lookup
    <2>3. Goto(w, "status") \/ Return(w)
        BY <1>1 DEF Lookup, Issue
    <2>4. ~InTree(w)' /\ worker'[w].base = Root /\ \A v \in Workers \ {w} : worker'[v] = worker[v]
        BY <2>1, <2>3, Moves, IdleTypes DEF InTree, Pcs
    <2>5. QED
        BY <1>1, <2>1, <2>2, <2>4, OutsideKeepsAlone DEF Lookup
<1>2. CASE Status(w)
    <2>1. ~InTree(w) /\ worker[w].base = Root /\ refs[Main] = Root
        BY <1>2 DEF Status, At, InTree, Alone
    <2>2. ~InTree(w)' /\ worker'[w].base = Root /\ \A v \in Workers \ {w} : worker'[v] = worker[v]
        <3>1. CASE Return(w)
            BY <3>1, Moves, IdleTypes DEF InTree
        <3>2. CASE ~Return(w)
            BY <1>2, <2>1, <3>2 DEF Status, InTree, TypeOK
        <3>3. QED
            BY <3>1, <3>2
    <2>3. \A d \in Bundles : Receipted(d)'
        BY <1>2 DEF Status, Alone, Receipted
    <2>4. QED
        BY <1>2, <2>1, <2>2, <2>3, OutsideKeepsAlone DEF Status
<1>3. CASE Checkout(w)
    <2>1. b \in Bundles /\ ~InTree(w) /\ worker[w].base = Root
        BY <1>3 DEF Checkout, At, Placed, InTree, Alone
    <2>2. CASE refs[b] # None
        <3>1. Return(w) /\ UNCHANGED <<repository, receipts, deleted, spilled>>
            BY <1>3, <2>2 DEF Checkout
        <3>2. ~InTree(w)' /\ worker'[w].base = Root /\ \A v \in Workers \ {w} : worker'[v] = worker[v]
            BY <3>1, Moves, IdleTypes DEF InTree
        <3>3. \A d \in Bundles : Receipted(d)'
            BY <3>1 DEF Alone, Receipted
        <3>4. QED
            BY <2>1, <3>1, <3>2, <3>3, OutsideKeepsAlone
    <2>3. CASE refs[b] = None
        <3>1. /\ refs' = [refs EXCEPT ![b] = Root] /\ head' = b /\ tree' = {} /\ staged' = {}
              /\ \A v \in Workers \ {w} : ~InTree(v)
              /\ worker' = [worker EXCEPT ![w].pc = "write", ![w].left = Artifacts]
              /\ UNCHANGED <<receipts, deleted>>
            BY <1>3, <2>1, <2>3 DEF Checkout, TypeOK
        <3>2. /\ worker'[w].pc = "write" /\ worker'[w].left = Artifacts
              /\ worker'[w].bundle = b /\ worker'[w].base = Root
              /\ \A v \in Workers \ {w} : worker'[v] = worker[v]
            BY <2>1, <3>1, WorkerUpdates DEF TypeOK, Worker
        <3>3. /\ refs'[b] = Root /\ refs'[Main] = Root
              /\ \A d \in Bundles \ {b} : refs'[d] = refs[d]
            BY <2>1, <3>1 DEF TypeOK, Alone, LocalRepairAssumption
        <3>4. InTree(w)' /\ Stage(w)'
            BY <3>1, <3>2, <3>3 DEF InTree, Stage, At
        <3>5. \A d \in Bundles : refs'[d] \in {None, Root} \/ Own(d)'
            BY <3>3 DEF Alone, Own
        <3>6. \A d \in Bundles : Receipted(d)'
            <4>1. \A q \in receipts[b] : q.commit # None
                BY <2>1 DEF TypeOK, LocalRepairAssumption
            <4>2. QED
                BY <2>1, <2>3, <3>1, <3>3, <4>1 DEF Alone, Receipted
        <3>7. Alone'
            BY <3>1, <3>2, <3>3, <3>4, <3>5, <3>6, InsideKeepsAlone
        <3>8. QED
            BY <3>1, <3>2, <3>3, <3>4, <3>7, InsideKeepsClean
    <2>4. QED
        BY <2>2, <2>3
<1>4. CASE Write(w)
    <2>1. /\ b \in Bundles /\ InTree(w) /\ head = b /\ refs[b] = Root
          /\ tree = {b} \X (Artifacts \ worker[w].left) /\ worker[w].left \subseteq Artifacts
          /\ worker[w].base = Root /\ staged = {}
        BY <1>4, WorkerUpdates DEF Write, At, Placed, InTree, Alone, Stage, Worker
    <2>2. PICK k \in worker[w].left :
              /\ tree' = tree \cup {<<b, k>>}
              /\ worker' = [worker EXCEPT ![w].left = @ \ {k},
                     ![w].pc = IF worker[w].left = {k} THEN "add" ELSE "write"]
        BY <1>4 DEF Write
    <2>3. /\ worker'[w].pc = IF worker[w].left = {k} THEN "add" ELSE "write"
          /\ worker'[w].left = worker[w].left \ {k}
          /\ worker'[w].bundle = b /\ worker'[w].base = Root
          /\ \A v \in Workers \ {w} : worker'[v] = worker[v]
        BY <2>1, <2>2, WorkerUpdates DEF TypeOK, Worker
    <2>4. tree' = {b} \X (Artifacts \ worker'[w].left) /\ tree' # {}
        <3>1. k \in Artifacts /\ <<b, k>> \in tree'
            BY <2>1, <2>2
        <3>2. Artifacts \ worker'[w].left = (Artifacts \ worker[w].left) \cup {k}
            BY <2>3, <3>1
        <3>3. {b} \X ((Artifacts \ worker[w].left) \cup {k})
                 = ({b} \X (Artifacts \ worker[w].left)) \cup {<<b, k>>}
            OBVIOUS
        <3>4. QED
            BY <2>1, <2>2, <3>1, <3>2, <3>3
    <2>5. UNCHANGED <<refs, head, staged, receipts, deleted>>
        BY <1>4 DEF Write
    <2>6. InTree(w)' /\ Stage(w)'
        <3>1. CASE worker[w].left = {k}
            <4>1. tree' = {b} \X Artifacts
                BY <2>1, <2>2, <3>1
            <4>2. QED
                BY <2>1, <2>3, <2>4, <2>5, <3>1, <4>1 DEF InTree, Stage, At
        <3>2. CASE worker[w].left # {k}
            BY <2>1, <2>3, <2>4, <2>5, <3>2 DEF InTree, Stage, At
        <3>3. QED
            BY <3>1, <3>2
    <2>7. Alone'
        BY <2>1, <2>3, <2>5, <2>6, AloneInTree, InsideKeepsAlone DEF Alone, Own, Receipted
    <2>8. QED
        BY <2>1, <2>3, <2>5, <2>6, <2>7, AloneInTree, InsideKeepsClean
<1>5. CASE Add(w)
    <2>1. /\ b \in Bundles /\ InTree(w) /\ head = b /\ refs[b] = Root
          /\ tree = {b} \X Artifacts /\ tree # {} /\ worker[w].base = Root
        BY <1>5 DEF Add, At, Placed, InTree, Alone, Stage
    <2>2. Goto(w, "commit") /\ staged' = tree /\ UNCHANGED <<refs, head, tree, receipts, deleted>>
        BY <1>5, <2>1 DEF Add
    <2>3. /\ worker'[w].pc = "commit" /\ worker'[w].bundle = b /\ worker'[w].base = Root
          /\ \A v \in Workers \ {w} : worker'[v] = worker[v]
        BY <2>1, <2>2, Moves DEF Pcs
    <2>4. InTree(w)' /\ Stage(w)'
        BY <2>1, <2>2, <2>3 DEF InTree, Stage, At
    <2>5. Alone'
        BY <2>1, <2>2, <2>3, <2>4, AloneInTree, InsideKeepsAlone DEF Alone, Own, Receipted
    <2>6. QED
        BY <2>1, <2>2, <2>3, <2>4, <2>5, AloneInTree, InsideKeepsClean
<1>6. CASE CommitStaged(w)
    <2>1. /\ b \in Bundles /\ InTree(w) /\ head = b /\ refs[b] = Root
          /\ staged = tree /\ staged = {b} \X Artifacts /\ staged # {}
          /\ worker[w].base = Root
        BY <1>6 DEF CommitStaged, At, Placed, InTree, Alone, Stage
    <2>2. PICK c \in Commit : refs' = [refs EXCEPT ![head] = c] /\ c.by = b /\ c.exact
        BY <1>6, <2>1, CommitTypes
    <2>3. /\ Goto(w, "describe") /\ tree' = {} /\ staged' = {}
          /\ UNCHANGED <<head, receipts, deleted>>
        BY <1>6, <2>1 DEF CommitStaged
    <2>4. /\ worker'[w].pc = "describe" /\ worker'[w].bundle = b /\ worker'[w].base = Root
          /\ \A v \in Workers \ {w} : worker'[v] = worker[v]
        BY <2>1, <2>3, Moves DEF Pcs
    <2>5. /\ refs'[b] = c /\ refs'[Main] = Root
          /\ \A d \in Bundles \ {b} : refs'[d] = refs[d]
        BY <2>1, <2>2 DEF TypeOK, Alone, LocalRepairAssumption
    <2>6. InTree(w)' /\ Stage(w)'
        BY <2>1, <2>2, <2>3, <2>4, <2>5 DEF InTree, Stage, At, Own
    <2>7. \A d \in Bundles : refs'[d] \in {None, Root} \/ Own(d)'
        BY <2>2, <2>5 DEF Alone, Own
    <2>8. \A d \in Bundles : Receipted(d)'
        <3>1. \A q \in receipts[b] : q.commit.exact /\ (b \in deleted \/ q.commit = Root)
            BY <2>1 DEF Alone, Receipted
        <3>2. QED
            BY <2>1, <2>3, <2>5, <3>1, RootTypes DEF Alone, Receipted
    <2>9. Alone'
        BY <2>1, <2>4, <2>5, <2>6, <2>7, <2>8, AloneInTree, InsideKeepsAlone
    <2>10. QED
        BY <2>1, <2>4, <2>5, <2>6, <2>9, AloneInTree, InsideKeepsClean
<1>7. CASE Describe(w)
    <2>1. /\ b \in Bundles /\ InTree(w) /\ head = b /\ Own(b) /\ tree = {} /\ staged = {}
          /\ worker[w].base.id \in CommitIds \cup {Main} /\ worker[w].base = Root
        BY <1>7, RootTypes DEF Describe, At, Placed, InTree, Alone, Stage
    <2>2. Issue(w, b, refs[b], worker[w].base.id) /\ UNCHANGED <<repository, deleted>>
        BY <1>7, <2>1 DEF Describe
    <2>3. \A d \in Bundles : Receipted(d)'
        BY <2>1, <2>2, IssueReceipted
    <2>4. worker'[w] = Idle /\ \A v \in Workers \ {w} : worker'[v] = worker[v]
        BY <2>2, Moves DEF Issue
    <2>5. ~InTree(w)' /\ Stage(w)' /\ worker'[w].base = Root
        BY <2>4, IdleTypes DEF InTree, Stage, At
    <2>6. refs[b] # Root
        BY <2>1, RootTypes DEF Own
    <2>7. Alone'
        BY <2>1, <2>2, <2>3, <2>4, <2>5, AloneInTree, InsideKeepsAlone DEF Alone, Own
    <2>8. QED
        BY <2>1, <2>2, <2>4, <2>5, <2>6, <2>7, AloneInTree, InsideKeepsClean
<1>8. CASE Raise(w)
    <2>1. /\ b \in Bundles /\ InTree(w) /\ head = b /\ (refs[b] = Root \/ Own(b))
          /\ worker[w].base = Root /\ tree \subseteq {b} \X Artifacts
        BY <1>8 DEF Raise, At, Placed, InTree, Alone, Stage
    <2>2. Goto(w, "reset") /\ UNCHANGED <<repository, receipts, deleted>>
        BY <1>8 DEF Raise
    <2>3. /\ worker'[w].pc = "reset" /\ worker'[w].bundle = b /\ worker'[w].base = Root
          /\ \A v \in Workers \ {w} : worker'[v] = worker[v]
        BY <2>1, <2>2, Moves DEF Pcs
    <2>4. InTree(w)' /\ Stage(w)'
        <3>1. b \in spilled' \/ tree = staged
            BY <1>8 DEF Raise, Alone, Stage, At
        <3>2. QED
            BY <2>1, <2>2, <2>3, <3>1 DEF InTree, Stage, At, Own
    <2>5. Alone'
        BY <2>1, <2>2, <2>3, <2>4, AloneInTree, InsideKeepsAlone DEF Alone, Own, Receipted
    <2>6. QED
        BY <2>1, <2>2, <2>3, <2>4, <2>5, AloneInTree, InsideKeepsClean
<1>9. CASE Reset(w)
    <2>1. /\ b \in Bundles /\ InTree(w) /\ head = b /\ (refs[b] = Root \/ Own(b))
          /\ worker[w].base = Root /\ tree \subseteq {b} \X Artifacts
          /\ b \in spilled \/ tree = staged
        BY <1>9 DEF Reset, At, Placed, InTree, Alone, Stage
    <2>2. /\ refs' = [refs EXCEPT ![b] = Root] /\ staged' = {} /\ Goto(w, "checkoutMain")
          /\ tree' = {change \in tree \ staged : change[2] \notin Tracked}
          /\ deleted \subseteq deleted' /\ (refs[b].by = b => b \in deleted') /\ spilled' = spilled
          /\ UNCHANGED <<head, receipts>>
        BY <1>9, <2>1 DEF Reset
    <2>3. /\ worker'[w].pc = "checkoutMain" /\ worker'[w].bundle = b /\ worker'[w].base = Root
          /\ \A v \in Workers \ {w} : worker'[v] = worker[v]
        BY <2>1, <2>2, Moves DEF Pcs
    <2>4. /\ refs'[b] = Root /\ refs'[Main] = Root
          /\ \A d \in Bundles \ {b} : refs'[d] = refs[d]
        BY <2>1, <2>2 DEF TypeOK, Alone, LocalRepairAssumption
    <2>5. InTree(w)' /\ Stage(w)'
        <3>1. tree' \subseteq spilled \X (Artifacts \ Tracked)
            BY <2>1, <2>2
        <3>2. QED
            BY <2>1, <2>2, <2>3, <2>4, <3>1 DEF InTree, Stage, At, Leftovers
    <2>6. \A d \in Bundles : Receipted(d)'
        <3>1. \A q \in receipts[b] : q.commit.exact /\ b \in deleted'
            BY <2>1, <2>2, RootTypes DEF Alone, Receipted, Own
        <3>2. QED
            BY <2>1, <2>2, <2>4, <3>1 DEF Alone, Receipted
    <2>7. \A d \in Bundles : refs'[d] \in {None, Root} \/ Own(d)'
        BY <2>4 DEF Alone, Own
    <2>8. Alone'
        BY <2>1, <2>3, <2>4, <2>5, <2>6, <2>7, AloneInTree, InsideKeepsAlone
    <2>9. QED
        BY <2>1, <2>3, <2>4, <2>5, <2>8, AloneInTree, InsideKeepsClean
<1>10. CASE CheckoutMain(w)
    <2>1. /\ b \in Bundles /\ InTree(w) /\ refs[b] = Root /\ worker[w].base = Root
          /\ staged = {} /\ tree \subseteq Leftovers
        BY <1>10 DEF CheckoutMain, At, Placed, InTree, Alone, Stage
    <2>2. /\ Goto(w, "deleteBranch") /\ head' = Main
          /\ UNCHANGED <<refs, tree, staged, receipts, deleted, spilled>>
        BY <1>10 DEF CheckoutMain
    <2>3. /\ worker'[w].pc = "deleteBranch" /\ worker'[w].bundle = b /\ worker'[w].base = Root
          /\ \A v \in Workers \ {w} : worker'[v] = worker[v]
        BY <2>1, <2>2, Moves DEF Pcs
    <2>4. InTree(w)' /\ Stage(w)'
        BY <2>1, <2>2, <2>3 DEF InTree, Stage, At, Leftovers
    <2>5. Alone'
        BY <2>1, <2>2, <2>3, <2>4, AloneInTree, InsideKeepsAlone DEF Alone, Own, Receipted
    <2>6. QED
        BY <2>1, <2>2, <2>3, <2>4, <2>5, AloneInTree, InsideKeepsClean
<1>11. CASE DeleteBranch(w)
    <2>1. /\ b \in Bundles /\ InTree(w) /\ head = Main /\ refs[b] = Root /\ staged = {}
          /\ tree \subseteq Leftovers /\ worker[w].base = Root /\ Main # b
        BY <1>11 DEF DeleteBranch, At, Placed, InTree, Alone, Stage, LocalRepairAssumption
    <2>2. /\ refs' = [refs EXCEPT ![b] = None] /\ Return(w) /\ UNCHANGED <<head, tree, staged, receipts>>
          /\ deleted \subseteq deleted' /\ Leftovers' = Leftovers
        BY <1>11, <2>1 DEF DeleteBranch, Leftovers
    <2>3. worker'[w] = Idle /\ \A v \in Workers \ {w} : worker'[v] = worker[v]
        BY <2>2, Moves
    <2>4. /\ refs'[b] = None /\ refs'[Main] = Root
          /\ \A d \in Bundles \ {b} : refs'[d] = refs[d]
        BY <2>1, <2>2 DEF TypeOK, Alone
    <2>5. ~InTree(w)' /\ Stage(w)' /\ worker'[w].base = Root
        BY <2>3, IdleTypes DEF InTree, Stage, At
    <2>6. \A d \in Bundles : Receipted(d)'
        <3>1. \A q \in receipts[b] : q.commit.exact /\ b \in deleted
            BY <2>1, RootTypes DEF Alone, Receipted
        <3>2. QED
            BY <2>1, <2>2, <2>4, <3>1 DEF Alone, Receipted
    <2>7. \A d \in Bundles : refs'[d] \in {None, Root} \/ Own(d)'
        BY <2>4 DEF Alone, Own
    <2>8. refs'[b] # Root
        BY <2>4, RootTypes DEF LocalRepairAssumption
    <2>9. Alone'
        BY <2>1, <2>3, <2>4, <2>5, <2>6, <2>7, AloneInTree, InsideKeepsAlone
    <2>10. QED
        BY <2>1, <2>2, <2>3, <2>4, <2>5, <2>8, <2>9, AloneInTree, InsideKeepsClean
<1>12. QED
    BY <1>1, <1>2, <1>3, <1>4, <1>5, <1>6, <1>7, <1>8, <1>9, <1>10, <1>11 DEF PublishStep

LEMMA ApplyKeepsAlone ==
    ASSUME TypeOK, Alone, NEW w \in Workers, ApplyStep(w)
    PROVE  Alone' /\ (Clean => Clean')
<1> USE DEF repository, staging, history
<1>1. /\ ~InTree(w) /\ worker[w].base = Root
      /\ UNCHANGED <<repository, receipts, deleted, spilled>>
    BY DEF ApplyStep, CheckHead, Look, Rename, OpenReceipt, WriteReceipt, At, InTree, Alone
<1>2. Return(w) \/ \E pc \in {"look", "rename", "openReceipt", "writeReceipt"} : Goto(w, pc)
    BY DEF ApplyStep, CheckHead, Look, Rename, OpenReceipt, WriteReceipt
<1>3. ~InTree(w)' /\ worker'[w].base = Root /\ \A v \in Workers \ {w} : worker'[v] = worker[v]
    BY <1>1, <1>2, Moves, IdleTypes DEF InTree, Pcs
<1>4. \A b \in Bundles : Receipted(b)'
    BY <1>1 DEF Alone, Receipted
<1>5. QED
    BY <1>1, <1>3, <1>4, OutsideKeepsAlone

LEMMA AloneInductive ==
    ASSUME LocalRepairAssumption, TypeOK, Placed, shared \/ Alone, [Next]_vars
    PROVE  /\ shared' \/ Alone'
           /\ (shared \/ stranded \/ Clean) => (shared' \/ stranded' \/ Clean')
<1> USE DEF repository, staging, history
<1>1. ASSUME NEW w \in Workers, PublishStep(w) PROVE shared => shared'
    BY <1>1 DEF PublishStep, Lookup, Status, Checkout, Write, Add, CommitStaged, Describe,
       Raise, Reset, CheckoutMain, DeleteBranch
<1>2. ASSUME NEW w \in Workers, PublishStep(w) PROVE stranded => stranded'
    BY <1>2 DEF PublishStep, Lookup, Status, Checkout, Write, Add, CommitStaged, Describe,
       Raise, Reset, CheckoutMain, DeleteBranch
<1>3. ASSUME NEW w \in Workers, ApplyStep(w) PROVE UNCHANGED <<shared, stranded>>
    BY <1>3 DEF ApplyStep, CheckHead, Look, Rename, OpenReceipt, WriteReceipt
<1>4. ASSUME NEW w \in Workers, NEW b \in Bundles, BeginPublish(w, b) \/ BeginApply(w, b),
             Alone
      PROVE  Alone' /\ (Clean => Clean') /\ UNCHANGED <<shared, stranded>>
    <2>1. At(w, "idle") /\ UNCHANGED <<repository, receipts, deleted, shared, stranded, spilled>>
        BY <1>4 DEF BeginPublish, BeginApply
    <2>2. /\ worker'[w].pc \in {"lookup", "checkHead"} /\ worker'[w].base = Root
          /\ \A v \in Workers \ {w} : worker'[v] = worker[v]
        <3>1. CASE BeginPublish(w, b)
            BY <3>1 DEF BeginPublish, TypeOK, Idle
        <3>2. CASE BeginApply(w, b)
            BY <3>2 DEF BeginApply, TypeOK, Idle
        <3>3. QED
            BY <1>4, <3>1, <3>2
    <2>3. ~InTree(w) /\ ~InTree(w)'
        BY <2>1, <2>2 DEF At, InTree
    <2>4. \A d \in Bundles : Receipted(d)'
        BY <1>4, <2>1 DEF Alone, Receipted
    <2>5. QED
        BY <1>4, <2>1, <2>2, <2>3, <2>4, OutsideKeepsAlone
<1>5. ASSUME NEW w \in Workers, Leave(w), Alone
      PROVE  Alone' /\ (Clean => stranded' \/ Clean') /\ (shared' <=> shared)
                    /\ (stranded => stranded')
    <2>1. /\ Return(w) /\ UNCHANGED <<repository, receipts, deleted, shared, spilled>>
          /\ stranded' = (stranded \/ InTree(w))
        BY <1>5 DEF Leave
    <2>2. worker'[w] = Idle /\ \A v \in Workers \ {w} : worker'[v] = worker[v]
        BY <2>1, Moves
    <2>3. ~InTree(w)' /\ worker'[w].base = Root /\ Stage(w)'
        BY <2>2, IdleTypes DEF InTree, Stage, At
    <2>4. \A d \in Bundles : Receipted(d)'
        BY <1>5, <2>1 DEF Alone, Receipted
    <2>5. CASE ~InTree(w)
        BY <1>5, <2>1, <2>2, <2>3, <2>4, <2>5, OutsideKeepsAlone
    <2>6. CASE InTree(w)
        <3>1. \A v \in Workers \ {w} : ~InTree(v)'
            BY <1>5, <2>2, <2>6, AloneInTree DEF InTree
        <3>2. \A v \in Workers \ {w} : Stage(v)'
            BY <3>1 DEF Stage, At, InTree
        <3>3. Alone'
            BY <1>5, <2>1, <2>2, <2>3, <2>4, <3>1, <3>2 DEF Alone, Own
        <3>4. QED
            BY <2>1, <2>6, <3>3
    <2>7. QED
        BY <2>5, <2>6
<1>6. ASSUME Crash, Alone
      PROVE  Alone' /\ (Clean => stranded' \/ Clean') /\ (shared' <=> shared)
                    /\ (stranded => stranded')
    <2>1. /\ worker' = [w \in Workers |-> Idle]
          /\ UNCHANGED <<repository, receipts, deleted, shared, spilled>>
          /\ stranded' = (stranded \/ \E w \in Workers : InTree(w))
        BY <1>6 DEF Crash
    <2>2. \A w \in Workers : ~InTree(w)' /\ Stage(w)' /\ worker'[w].base = Root
        BY <2>1, IdleTypes DEF InTree, Stage, At
    <2>3. Alone'
        <3>1. /\ refs'[Main] = Root
              /\ \A b \in Bundles : refs'[b] \in {None, Root} \/ Own(b)'
              /\ \A b \in Bundles : Receipted(b)'
            BY <1>6, <2>1 DEF Alone, Own, Receipted
        <3>2. QED
            BY <2>2, <3>1 DEF Alone
    <2>4. CASE \E w \in Workers : InTree(w)
        BY <2>1, <2>3, <2>4
    <2>5. CASE \A w \in Workers : ~InTree(w)
        <3>1. Clean => Clean'
            BY <2>1, <2>5 DEF Clean, Leftovers
        <3>2. QED
            BY <2>1, <2>3, <2>5, <3>1
    <2>6. QED
        BY <2>4, <2>5
<1>7. ASSUME UNCHANGED vars, Alone PROVE Alone' /\ (Clean => Clean')
    <2>1. UNCHANGED <<refs, head, tree, staged, worker, receipts, deleted, spilled>>
        BY <1>7 DEF vars
    <2>2. ASSUME NEW w \in Workers PROVE (InTree(w)' <=> InTree(w)) /\ Stage(w)'
        <3>1. Stage(w)
            BY <1>7 DEF Alone
        <3>2. Stage(w)' <=> Stage(w)
            BY <2>1 DEF Stage, At, Own, Leftovers
        <3>3. InTree(w)' <=> InTree(w)
            BY <2>1 DEF InTree
        <3>4. QED
            BY <3>1, <3>2, <3>3
    <2>3. \A b \in Bundles : (Own(b)' <=> Own(b)) /\ Receipted(b)'
        BY <1>7, <2>1 DEF Alone, Own, Receipted
    <2>4. Alone'
        BY <1>7, <2>1, <2>2, <2>3 DEF Alone
    <2>5. Clean => Clean'
        BY <2>1, <2>2 DEF Clean, Leftovers
    <2>6. QED
        BY <2>4, <2>5
<1>8. shared => shared'
    BY <1>1, <1>3 DEF Next, BeginPublish, BeginApply, Leave, Crash, vars
<1>9. CASE shared
    BY <1>8, <1>9
<1>10. CASE ~shared
    <2>1. Alone
        BY <1>10
    <2>2. ASSUME NEW w \in Workers, PublishStep(w)
          PROVE  shared' \/ (Alone' /\ (Clean => Clean'))
        BY <2>1, <2>2, PublishKeepsAlone
    <2>3. QED
        BY <1>2, <1>3, <1>4, <1>5, <1>6, <1>7, <1>10, <2>1, <2>2, ApplyKeepsAlone DEF Next, vars
<1>11. QED
    BY <1>9, <1>10

-----------------------------------------------------------------------------
(* The theorems.  The assumption is one on the constants.                  *)

LEMMA InvInit ==
    ASSUME LocalRepairAssumption, Init
    PROVE  Inv /\ RenamedFirst /\ LocalReceiptHasRelease
<1>1. /\ refs[Main] = Root /\ head = Main /\ tree = {} /\ staged = {}
      /\ \A b \in Bundles : refs[b] = None
      /\ refs \in [Bundles \cup {Main} -> Commit \cup {None}]
    BY RootTypes DEF Init, LocalRepairAssumption
<1>2. \A w \in Workers : worker[w] = Idle
    BY DEF Init
<1>3. TypeOK
    <2>1. worker \in [Workers -> Worker]
        BY IdleTypes DEF Init
    <2>2. QED
        BY <1>1, <2>1 DEF Init, TypeOK, Worker
<1>4. Placed
    BY <1>1, <1>2, RootTypes, IdleTypes DEF Placed
<1>5. Alone
    BY <1>1, <1>2, IdleTypes DEF Init, Alone, InTree, Stage, At, Receipted
<1>6. Clean
    BY <1>1, RootTypes DEF Clean, LocalRepairAssumption
<1>7. RenamedFirst /\ LocalReceiptHasRelease
    BY <1>2, IdleTypes DEF Init, RenamedFirst, LocalReceiptHasRelease
<1>8. QED
    BY <1>3, <1>4, <1>5, <1>6, <1>7 DEF Inv

\* The inductive invariant of the local adapter: without a shared tree or an interrupted
\* rollback, whenever nobody works in the tree the index is clean and the tree holds only
\* new files of publications that failed before their git add; a release is renamed into
\* place before its receipt is written, and a receipt on disk has its release.
THEOREM LocalInvariant ==
    ASSUME LocalRepairAssumption
    PROVE  Spec => [](Inv /\ RenamedFirst /\ LocalReceiptHasRelease)
<1> DEFINE All == Inv /\ RenamedFirst /\ LocalReceiptHasRelease
<1>1. All /\ [Next]_vars => All'
    BY TypeOKInductive, AloneInductive, ReleaseInductive DEF Inv
<1>2. Init => All
    BY InvInit
<1> HIDE DEF All
<1>3. Spec => []All
    BY <1>1, <1>2, PTL DEF Spec
<1>4. QED
    BY <1>3 DEF All

\* No crash or failure leaves an application receipt on disk without its release, and
\* what was reported as applied is there.
THEOREM LocalReceiptsHaveReleases ==
    ASSUME LocalRepairAssumption
    PROVE  Spec => []LocalReceiptHasRelease
BY LocalInvariant, PTL

\* The rollback of a failed publication restores the tracked files and the index, and every
\* branch is gone or an exact repair, unless a second failure strands it or another
\* publication shares the working tree.  What it leaves is new files, and only of
\* publications that failed before they staged them.
THEOREM RollbacksLeaveOnlyNewFiles ==
    ASSUME LocalRepairAssumption
    PROVE  Spec => []RollbackLeavesOnlyNewFiles
<1>1. Inv => RollbackLeavesOnlyNewFiles
    BY DEF Inv, Alone, Clean, RollbackLeavesOnlyNewFiles, Own, Leftovers
<1>2. QED
    BY <1>1, LocalInvariant, PTL

\* The local adapter implements ChangeProvider, up to publications that share the
\* working tree and rollbacks after the commit.
THEOREM LocalProviderImplementsChangeProvider ==
    ASSUME LocalRepairAssumption
    PROVE  Spec => LocalImplementsChangeProvider
<1> USE DEF repository, staging, history
<1>1. Init => Provider!Init
    BY DEF Init, Provider!Init, LocalRepairAssumption
<1>2. ASSUME Inv, [Next]_vars PROVE [Provider!Next]_(Provider!promise)
    <2> DEFINE Keeps == /\ receipts'[Followed] = receipts[Followed]
                        /\ deleted \subseteq deleted' /\ (shared => shared')
    <2>1. Keeps => Provider!Move
        BY DEF Provider!Move
    <2>2. ASSUME NEW w \in Workers, NEW b \in Bundles, NEW base \in CommitIds \cup {Main},
                 worker[w].bundle = b, refs[head] \in Commit,
                 NEW c \in Commit, Issue(w, b, c, base), UNCHANGED <<refs, deleted, shared>>,
                 shared \/ (c = refs[b] /\ Own(b))
          PROVE  Provider!Next
        <3>1. /\ receipts'[b] = receipts[b] \cup {[commit |-> c, base |-> base]}
              /\ \A d \in Bundles \ {b} : receipts'[d] = receipts[d]
            BY <1>2, <2>2, IssueTypes DEF Inv
        <3>2. CASE b # Followed
            BY <2>1, <2>2, <3>1, <3>2 DEF Provider!Next, LocalRepairAssumption
        <3>3. CASE b = Followed
            <4> DEFINE r == [commit |-> c, base |-> base]
            <4>1. shared \/ (r.commit = refs[b] /\ r.commit.exact)
                BY <2>2 DEF Own
            <4>2. shared \/ b \in deleted \/ \A q \in receipts[b] : q.commit = r.commit
                BY <1>2, <2>2 DEF Inv, Alone, Receipted
            <4>3. Provider!Issue
                BY <2>2, <3>1, <3>3, <4>1, <4>2 DEF Provider!Issue
            <4>4. QED
                BY <4>3 DEF Provider!Next
        <3>4. QED
            BY <3>2, <3>3
    <2>3. ASSUME NEW w \in Workers, Lookup(w) PROVE Provider!Next
        <3> DEFINE b == worker[w].bundle
        <3>1. b \in Bundles /\ refs[head] \in Commit
            BY <1>2, <2>3 DEF Inv, Placed, Lookup, At
        <3>2. CASE UNCHANGED receipts
            BY <2>1, <2>3, <3>2 DEF Lookup, Provider!Next
        <3>3. CASE Issue(w, b, refs[b], refs[b].parent) /\ refs[b] # None
                       /\ refs[b].by = b /\ refs[b].exact
            <4>1. Own(b) /\ refs[b] \in Commit /\ refs[b].parent \in CommitIds \cup {Main}
                BY <1>2, <3>1, <3>3, RootTypes DEF Inv, TypeOK, Own
            <4>2. QED
                BY <2>2, <2>3, <3>1, <3>3, <4>1 DEF Lookup
        <3>4. QED
            BY <2>3, <3>2, <3>3 DEF Lookup
    <2>4. ASSUME NEW w \in Workers, Describe(w) PROVE Provider!Next
        <3> DEFINE b == worker[w].bundle
        <3>1. /\ b \in Bundles /\ refs[head] \in Commit
              /\ worker[w].base.id \in CommitIds \cup {Main}
            BY <1>2, <2>4, RootTypes, WorkerUpdates DEF Inv, Placed, Describe, At, Worker
        <3>2. shared \/ (head = b /\ Own(b))
            BY <1>2, <2>4 DEF Inv, Alone, Stage, Describe
        <3>3. QED
            BY <2>2, <2>4, <3>1, <3>2 DEF Describe
    <2>5. ASSUME NEW w \in Workers, PublishStep(w), ~Lookup(w), ~Describe(w) PROVE Keeps
        <3>1. CASE \/ Status(w) \/ Write(w) \/ Add(w) \/ CommitStaged(w) \/ Raise(w)
                 \/ CheckoutMain(w)
            BY <3>1 DEF Status, Write, Add, CommitStaged, Raise, CheckoutMain
        <3>2. CASE Checkout(w)
            BY <3>2 DEF Checkout
        <3>3. CASE Reset(w)
            BY <3>3 DEF Reset
        <3>4. CASE DeleteBranch(w)
            BY <3>4 DEF DeleteBranch
        <3>5. QED
            BY <2>5, <3>1, <3>2, <3>3, <3>4 DEF PublishStep
    <2>6. ASSUME NEW w \in Workers,
                 ApplyStep(w) \/ Leave(w) \/ \E b \in Bundles : BeginPublish(w, b) \/ BeginApply(w, b)
          PROVE  Keeps
        <3>1. CASE ApplyStep(w)
            BY <3>1 DEF ApplyStep, CheckHead, Look, Rename, OpenReceipt, WriteReceipt
        <3>2. CASE Leave(w)
            BY <3>2 DEF Leave
        <3>3. ASSUME NEW b \in Bundles, BeginPublish(w, b) \/ BeginApply(w, b) PROVE Keeps
            <4>1. UNCHANGED <<receipts, deleted, shared>>
                BY <3>3 DEF BeginPublish, BeginApply
            <4>2. QED
                BY <4>1
        <3>4. QED
            BY <2>6, <3>1, <3>2, <3>3
    <2>7. CASE Crash \/ UNCHANGED vars
        BY <2>1, <2>7 DEF Crash, vars, Provider!Next
    <2>8. QED
        BY <1>2, <2>1, <2>3, <2>4, <2>5, <2>6, <2>7 DEF Next, Provider!Next
<1>3. QED
    BY <1>1, <1>2, LocalInvariant, PTL DEF Spec, LocalImplementsChangeProvider, Provider!Spec

==============================================================================
