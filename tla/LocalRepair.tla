----------------------------- MODULE LocalRepair -----------------------------
(***************************************************************************)
(* Publication and application of repair bundles in one local Git          *)
(* repository: LocalGitChangePublisher (core/change_provider.py) and       *)
(* LocalStagingApplicator (core/application.py), executed by concurrent    *)
(* workers of the API.  The incidents of the API share the repository and  *)
(* its working tree, and nothing locks it.                                 *)
(*                                                                         *)
(* An action is one Git command or file operation that reads or changes    *)
(* shared state.  A command may fail: inside the try block of publish the  *)
(* rollback runs, command by command; elsewhere the error is raised.  The  *)
(* process may die between any two actions.                                *)
(***************************************************************************)
EXTENDS Naturals, FiniteSets

CONSTANTS
    Workers,       \* worker threads of the API
    Bundles,       \* repair bundles, one per incident
    Followed,      \* one of them, whose receipts LocalImplementsChangeProvider is about
    Artifacts,     \* artifacts of a bundle
    Tracked,       \* those that patch files under version control; the others are new files
    CommitIds,     \* commit hashes
    Main,          \* the target base revision, a branch name
    None,
    MaxFaults      \* bound: commands that fail and crashes

VARIABLES
    refs,          \* the commit each branch points to, or None; a bundle has one branch
    head,          \* the branch that is checked out
    tree,          \* changes of the working tree to HEAD: <<bundle, artifact>>
    staged,        \* those of them that are in the index
    worker,        \* worker[w]: what worker w executes
    receipts,      \* change receipts that publishers returned, per bundle
    released,      \* release directories of the staging area: <<bundle, commit>>
    receiptFiles,  \* receipt files of the staging area: [release, whole]
    applied,       \* releases whose application receipt was returned
    deleted,       \* bundles whose branch lost a commit that it had
    shared,        \* two publications changed the working tree at the same time
    stranded,      \* a rollback was itself interrupted
    spilled,       \* bundles whose publication failed before it staged what it wrote
    faults         \* failures so far

repository == <<refs, head, tree, staged>>
staging == <<released, receiptFiles, applied>>
history == <<deleted, shared, stranded, spilled>>
vars == <<repository, worker, receipts, staging, history, faults>>

\* A commit: the bundle its message names, its parent, and whether it changes exactly
\* the artifacts of that bundle on its parent.
Root == [id |-> Main, by |-> None, parent |-> None, exact |-> FALSE]
Commit == [id: CommitIds, by: Bundles, parent: CommitIds \cup {Main}, exact: BOOLEAN]
             \cup {Root}

LocalRepairAssumption ==
    /\ Followed \in Bundles
    /\ Tracked \subseteq Artifacts
    /\ Main \notin Bundles
    /\ None \notin Commit \cup Bundles

Idle == [pc |-> "idle", bundle |-> None, base |-> Root, left |-> {}, commit |-> Root]

Pcs == {"idle", "lookup", "status", "checkout", "write", "add", "commit", "describe",
        "reset", "checkoutMain", "deleteBranch",
        "checkHead", "look", "rename", "openReceipt", "writeReceipt"}

TypeOK ==
    /\ refs \in [Bundles \cup {Main} -> Commit \cup {None}]
    /\ head \in Bundles \cup {Main}
    /\ tree \subseteq Bundles \X Artifacts /\ staged \subseteq tree
    /\ worker \in [Workers -> [pc: Pcs, bundle: Bundles \cup {None}, base: Commit,
                               left: SUBSET Artifacts, commit: Commit]]
    /\ receipts \in [Bundles -> SUBSET [commit: Commit, base: CommitIds \cup {Main}]]
    /\ released \subseteq Bundles \X Commit
    /\ receiptFiles \subseteq [release: Bundles \X Commit, whole: BOOLEAN]
    /\ applied \subseteq Bundles \X Commit
    /\ deleted \subseteq Bundles /\ spilled \subseteq Bundles
    /\ shared \in BOOLEAN /\ stranded \in BOOLEAN /\ faults \in Nat

Init ==
    /\ refs = [b \in Bundles \cup {Main} |-> IF b = Main THEN Root ELSE None]
    /\ head = Main /\ tree = {} /\ staged = {}
    /\ worker = [w \in Workers |-> Idle]
    /\ receipts = [b \in Bundles |-> {}]
    /\ released = {} /\ receiptFiles = {} /\ applied = {}
    /\ deleted = {} /\ shared = FALSE /\ stranded = FALSE /\ spilled = {} /\ faults = 0

At(w, pc) == worker[w].pc = pc
Goto(w, pc) == worker' = [worker EXCEPT ![w].pc = pc]
Return(w) == worker' = [worker EXCEPT ![w] = Idle]

\* Between the checkout of its new branch and the end of the try block or rollback
InTree(w) == worker[w].pc \in {"write", "add", "commit", "describe", "reset",
                               "checkoutMain", "deleteBranch"}

-----------------------------------------------------------------------------
(* LocalGitChangePublisher.publish                                         *)

\* Bound: once two publications shared the working tree they are followed to their
\* end, and nothing is published after them.
BeginPublish(w, b) ==
    /\ At(w, "idle")
    /\ ~shared
    /\ worker' = [worker EXCEPT ![w] = [Idle EXCEPT !.pc = "lookup", !.bundle = b]]
    /\ UNCHANGED <<repository, receipts, staging, history, faults>>

Issue(w, b, commit, base) ==
    /\ receipts' = [receipts EXCEPT ![b] = @ \cup {[commit |-> commit, base |-> base]}]
    /\ Return(w)

\* Mutant of Lookup: the commit is not compared with the bundle.
LookupUnbound(w) ==
    LET b == worker[w].bundle IN
    /\ At(w, "lookup")
    /\ IF refs[b] = None THEN Goto(w, "status") /\ UNCHANGED receipts
       ELSE Issue(w, b, refs[b], refs[b].parent)
    /\ UNCHANGED <<repository, staging, history, faults>>

\* _receipt_for_existing: the branch must hold a commit of this bundle with one
\* parent and the exact files; a branch that is still at its base is refused.
Lookup(w) ==
    LET b == worker[w].bundle IN
    /\ At(w, "lookup")
    /\ IF refs[b] = None THEN Goto(w, "status") /\ UNCHANGED receipts
       ELSE IF refs[b].by = b /\ refs[b].exact
       THEN Issue(w, b, refs[b], refs[b].parent)
       ELSE Return(w) /\ UNCHANGED receipts
    /\ UNCHANGED <<repository, staging, history, faults>>

\* The repository must be clean; the base revision is resolved.
Status(w) ==
    /\ At(w, "status")
    /\ IF tree # {} THEN Return(w)
       ELSE worker' = [worker EXCEPT ![w].pc = "checkout", ![w].base = refs[Main]]
    /\ UNCHANGED <<repository, receipts, staging, history, faults>>

\* git checkout -b: fails if the branch exists, and keeps local changes.
Checkout(w) ==
    LET b == worker[w].bundle IN
    /\ At(w, "checkout")
    /\ IF refs[b] # None THEN Return(w) /\ UNCHANGED <<refs, head, shared>>
       ELSE /\ refs' = [refs EXCEPT ![b] = worker[w].base]
            /\ head' = b
            /\ shared' = (shared \/ tree # {} \/ \E v \in Workers \ {w} : InTree(v))
            /\ worker' = [worker EXCEPT ![w].pc = "write", ![w].left = Artifacts]
    /\ UNCHANGED <<tree, staged, receipts, staging, deleted, stranded, spilled, faults>>

\* git apply, or write_text, of the next artifact
Write(w) ==
    /\ At(w, "write")
    /\ \E k \in worker[w].left :
          /\ tree' = tree \cup {<<worker[w].bundle, k>>}
          /\ worker' = [worker EXCEPT ![w].left = @ \ {k},
                 ![w].pc = IF worker[w].left = {k} THEN "add" ELSE "write"]
    /\ UNCHANGED <<refs, head, staged, receipts, staging, history, faults>>

\* Commits that somebody still names, and a hash that nobody uses
Named == {refs[b] : b \in Bundles \cup {Main}} \cup {worker[w].commit : w \in Workers}
         \cup {worker[w].base : w \in Workers}
         \cup {r.commit : r \in UNION {receipts[b] : b \in Bundles}}
Fresh == CommitIds \ {c.id : c \in Named \ {None}}

\* git add --all stages whatever has changed; a bundle that changed nothing is refused.
Add(w) ==
    /\ At(w, "add")
    /\ IF tree = {} THEN Goto(w, "reset") ELSE Goto(w, "commit")
    /\ staged' = tree
    /\ UNCHANGED <<refs, head, tree, receipts, staging, history, faults>>

\* git commit of the index on whatever is checked out; it refuses an empty commit.
CommitStaged(w) ==
    LET b == worker[w].bundle IN
    /\ At(w, "commit")
    /\ IF staged = {} THEN Goto(w, "reset") /\ UNCHANGED refs
       ELSE /\ Fresh # {}
            /\ refs' = [refs EXCEPT ![head] =
                   [id |-> CHOOSE id \in Fresh : TRUE, by |-> b, parent |-> @.id,
                    exact |-> staged = {b} \X Artifacts]]
            /\ Goto(w, "describe")
    /\ tree' = tree \ staged
    /\ staged' = {}
    /\ UNCHANGED <<head, receipts, staging, history, faults>>

\* git rev-parse HEAD, git diff, git show: the receipt describes what is checked out.
Describe(w) ==
    /\ At(w, "describe")
    /\ Issue(w, worker[w].bundle, refs[head], worker[w].base.id)
    /\ UNCHANGED <<repository, staging, history, faults>>

\* A command of the try block fails: the rollback starts.
Raise(w) ==
    /\ worker[w].pc \in {"write", "add", "commit", "describe"}
    /\ faults < MaxFaults
    /\ faults' = faults + 1
    /\ spilled' = IF worker[w].pc \in {"write", "add"} THEN spilled \cup {worker[w].bundle}
                  ELSE spilled
    /\ Goto(w, "reset")
    /\ UNCHANGED <<repository, receipts, staging, deleted, shared, stranded>>

\* git reset --hard: the index and the tracked files are those of the base again; a new
\* file that was not staged is untracked and stays.
Reset(w) ==
    /\ At(w, "reset")
    /\ refs' = [refs EXCEPT ![head] = worker[w].base]
    /\ tree' = {change \in tree \ staged : change[2] \notin Tracked}
    /\ staged' = {}
    /\ deleted' = deleted \cup {b \in Bundles : head = b /\ refs[b].by = b}
    /\ Goto(w, "checkoutMain")
    /\ UNCHANGED <<head, receipts, staging, shared, stranded, spilled, faults>>

CheckoutMain(w) ==
    /\ At(w, "checkoutMain")
    /\ head' = Main
    /\ Goto(w, "deleteBranch")
    /\ UNCHANGED <<refs, tree, staged, receipts, staging, history, faults>>

\* Mutant of DeleteBranch: the branch is left behind.
KeepBranch(w) ==
    /\ At(w, "deleteBranch")
    /\ Return(w)
    /\ UNCHANGED <<repository, receipts, staging, history, faults>>

\* git branch -D, which refuses the branch that is checked out
DeleteBranch(w) ==
    LET b == worker[w].bundle IN
    /\ At(w, "deleteBranch")
    /\ IF head = b THEN UNCHANGED <<refs, deleted>>
       ELSE /\ refs' = [refs EXCEPT ![b] = None]
            /\ deleted' = IF refs[b] # None /\ refs[b].by = b THEN deleted \cup {b} ELSE deleted
    /\ Return(w)
    /\ UNCHANGED <<head, tree, staged, receipts, staging, shared, stranded, spilled, faults>>

-----------------------------------------------------------------------------
(* LocalStagingApplicator.apply                                            *)

\* A bundle that was published, and then verified and approved for its commit.  Bound:
\* no application begins while publications that shared the working tree are in it.
BeginApply(w, b) ==
    /\ At(w, "idle")
    /\ shared => \A v \in Workers : ~InTree(v)
    /\ \E r \in receipts[b] : worker' = [worker EXCEPT ![w] =
           [Idle EXCEPT !.pc = "checkHead", !.bundle = b, !.commit = r.commit]]
    /\ UNCHANGED <<repository, receipts, staging, history, faults>>

\* HEAD must be the approved commit, and the repository clean.
CheckHead(w) ==
    /\ At(w, "checkHead")
    /\ IF refs[head] = worker[w].commit /\ tree = {} THEN Goto(w, "look") ELSE Return(w)
    /\ UNCHANGED <<repository, receipts, staging, history, faults>>

\* The deployment id is derived from the bundle and the commit.
Release(w) == <<worker[w].bundle, worker[w].commit>>
FilesOf(release) == {f \in receiptFiles : f.release = release}

\* A release with its receipt is returned again, if both are as written; one without
\* the other "requires operator review"; otherwise a directory is prepared.
Look(w) ==
    LET F == FilesOf(Release(w)) IN
    /\ At(w, "look")
    /\ IF F = {} /\ Release(w) \notin released
       THEN Goto(w, "rename") /\ UNCHANGED applied
       ELSE /\ Return(w)
            /\ applied' = IF Release(w) \in released /\ \E f \in F : f.whole
                          THEN applied \cup {Release(w)} ELSE applied
    /\ UNCHANGED <<repository, receipts, released, receiptFiles, history, faults>>

\* Mutant of Rename: the receipt is written before the directory is renamed.
RenameLast(w) ==
    /\ At(w, "rename")
    /\ Goto(w, "openReceipt")
    /\ UNCHANGED <<repository, receipts, staging, history, faults>>

\* os.replace of the complete temporary directory, which refuses an existing release
Rename(w) ==
    /\ At(w, "rename")
    /\ IF Release(w) \in released THEN Return(w) ELSE Goto(w, "openReceipt")
    /\ released' = released \cup {Release(w)}
    /\ UNCHANGED <<repository, receipts, receiptFiles, applied, history, faults>>

\* write_text of the receipt: the file exists before its content does.
OpenReceipt(w) ==
    /\ At(w, "openReceipt")
    /\ receiptFiles' = receiptFiles \cup {[release |-> Release(w), whole |-> FALSE]}
    /\ Goto(w, "writeReceipt")
    /\ UNCHANGED <<repository, receipts, released, applied, history, faults>>

WriteReceipt(w) ==
    /\ At(w, "writeReceipt")
    /\ receiptFiles' = (receiptFiles \ FilesOf(Release(w)))
                           \cup {[release |-> Release(w), whole |-> TRUE]}
    /\ applied' = applied \cup {Release(w)}
    /\ Return(w)
    /\ UNCHANGED <<repository, receipts, released, history, faults>>

-----------------------------------------------------------------------------
\* Outside the try block an error is raised to the caller; a rollback command that
\* fails abandons the rollback.
Leave(w) ==
    /\ worker[w].pc \notin {"idle", "write", "add", "commit", "describe"}
    /\ faults < MaxFaults
    /\ faults' = faults + 1
    /\ stranded' = (stranded \/ InTree(w))
    /\ Return(w)
    /\ UNCHANGED <<repository, receipts, staging, deleted, shared, spilled>>

Crash ==
    /\ faults < MaxFaults
    /\ \E w \in Workers : ~At(w, "idle")
    /\ faults' = faults + 1
    /\ stranded' = (stranded \/ \E w \in Workers : InTree(w))
    /\ worker' = [w \in Workers |-> Idle]
    /\ UNCHANGED <<repository, receipts, staging, deleted, shared, spilled>>

PublishStep(w) ==
    \/ Lookup(w) \/ Status(w) \/ Checkout(w) \/ Write(w) \/ Add(w) \/ CommitStaged(w)
    \/ Describe(w) \/ Raise(w) \/ Reset(w) \/ CheckoutMain(w) \/ DeleteBranch(w)

ApplyStep(w) ==
    \/ CheckHead(w) \/ Look(w) \/ Rename(w) \/ OpenReceipt(w) \/ WriteReceipt(w)

Next ==
    \/ \E w \in Workers :
          \/ \E b \in Bundles : BeginPublish(w, b) \/ BeginApply(w, b)
          \/ PublishStep(w) \/ ApplyStep(w) \/ Leave(w)
    \/ Crash

Spec == Init /\ [][Next]_vars

-----------------------------------------------------------------------------
(* Properties                                                              *)

Provider == INSTANCE ChangeProvider WITH
    branch <- refs[Followed], receipts <- receipts[Followed], deleted <- Followed \in deleted

\* The local adapter implements the receipt semantics as long as publications do not
\* share the working tree; a rollback after the commit counts as a deletion.
LocalImplementsChangeProvider == Provider!Spec

\* Failure rollback: after publications that failed without a second failure, every
\* branch is gone or holds the exact repair, tracked files and the index are restored,
\* and nothing is left of a publication that staged its files.  A clean working tree is
\* more than the code achieves: the new files of a publication that failed before its
\* git add survive the rollback, and Status refuses every bundle until they are removed.
RollbackLeavesOnlyNewFiles ==
    ~shared /\ ~stranded /\ (\A w \in Workers : ~InTree(w)) =>
        /\ \A b \in Bundles : refs[b] = None \/ (refs[b].by = b /\ refs[b].exact)
        /\ staged = {}
        /\ tree \subseteq spilled \X (Artifacts \ Tracked)

\* No crash or failure leaves an application receipt on disk without its release, and
\* what was reported as applied is there.
LocalReceiptHasRelease ==
    /\ \A f \in receiptFiles : f.release \in released
    /\ \A release \in applied : /\ release \in released
                                /\ [release |-> release, whole |-> TRUE] \in receiptFiles
=============================================================================
