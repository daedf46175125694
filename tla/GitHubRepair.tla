----------------------------- MODULE GitHubRepair ----------------------------
(***************************************************************************)
(* Publication of one repair bundle on GitHub and the collection of its    *)
(* hosted checks: GitHubChangePublisher (core/github_provider.py) and      *)
(* GitHubCheckRunVerifier (core/github_verification.py), executed by       *)
(* concurrent workers of the API, against a remote repository that people  *)
(* and the CI service change between any two requests.                     *)
(*                                                                         *)
(* An action is one request that reads or changes mutable remote state,    *)
(* with the local checks of its answer.  Reads of immutable objects (a     *)
(* commit, a comparison of two commits, the files at a base commit) are    *)
(* part of the action that uses them.  A request may fail at any time: an  *)
(* error answer that the code raises on, a time-out, which nothing catches,*)
(* or the death of the process end the worker wherever it stands, so also  *)
(* after a request whose effect it never learned (Leave).                  *)
(***************************************************************************)
EXTENDS Naturals, Sequences, FiniteSets

CONSTANTS
    Workers,        \* worker threads of the API
    Verifiers,      \* those that are asked to verify
    CommitIds,      \* commit hashes
    Checks,         \* required Check Runs
    None,
    MaxBase,        \* bound: commits merged into the base branch meanwhile
    MaxHuman,       \* bound: interventions of people on the repair branch and its PR
    MaxFaults,      \* bound: requests that fail
    MaxAttempts     \* bound: attempts of the CI workflow run

VARIABLES
    base,           \* head of the base branch, as the number of commits merged
    branch,         \* head of the repair branch, or None
    pulls,          \* pull requests of the branch; its number is the index
    attempts,       \* attempts of the workflow run for the published commit
    worker,         \* worker[w]: what worker w executes
    receipts,       \* change receipts that publishers returned
    change,         \* the receipt attached to the bundle (REPAIR_PUBLISHED), or None
    verified,       \* PASS receipts that verifiers returned
    deleted,        \* somebody deleted the repair branch
    humans,         \* interventions so far
    faults          \* failed requests so far

remote == <<base, branch, pulls>>
bundle == <<receipts, change, verified>>
people == <<deleted, humans>>
vars == <<remote, attempts, worker, bundle, people, faults>>

\* A commit: what it is based on, and whether it is the repair.  "amended" replaces
\* the repair by other content under the same message; "stacked" is on top of it.
Commit == [id: CommitIds, base: Nat, kind: {"repair", "amended", "stacked"}, exact: BOOLEAN]

\* While it is open, head is the head of the branch; base is the base branch's head
\* when it was opened.
Pull == [head: Commit, base: Nat, open: BOOLEAN]

Receipt == [commit: Commit, base: Nat, pull: Nat]

\* One attempt of the workflow run: the latest Check Runs, and its conclusion.
Attempt == [check: [Checks -> {"pending", "success", "failure"}],
            conclusion: {"none", "success", "failure"}]

ASSUME GitHubRepairAssumption == None \notin Commit \cup Receipt

Idle == [pc |-> "idle", head |-> None, base |-> 0, receipt |-> None, observed |-> {}]

Pcs == {"idle", "lookup", "readBase", "create", "assertRef", "postRef", "reread",
        "existing", "list", "assertPull", "postPull", "probe", "attach",
        "verifyBranch", "verifyBase", "verifyPull", "readChecks", "readWorkflow"}

TypeOK ==
    /\ base \in Nat
    /\ branch \in Commit \cup {None}
    /\ pulls \in Seq(Pull)
    /\ attempts \in Seq(Attempt)
    /\ worker \in [Workers -> [pc: Pcs, head: Commit \cup {None}, base: Nat,
                               receipt: Receipt \cup {None}, observed: SUBSET Checks]]
    /\ receipts \subseteq Receipt
    /\ change \in Receipt \cup {None}
    /\ verified \subseteq [receipt: Receipt, attempt: Nat]
    /\ deleted \in BOOLEAN /\ humans \in Nat /\ faults \in Nat

Init ==
    /\ base = 0 /\ branch = None /\ pulls = <<>> /\ attempts = <<>>
    /\ worker = [w \in Workers |-> Idle]
    /\ receipts = {} /\ change = None /\ verified = {}
    /\ deleted = FALSE /\ humans = 0 /\ faults = 0

At(w, pc) == worker[w].pc = pc
Goto(w, pc) == worker' = [worker EXCEPT ![w].pc = pc]

\* The code raises: the handler answers with an error.
Refuse(w) == worker' = [worker EXCEPT ![w] = Idle]

-----------------------------------------------------------------------------
(* GitHubChangePublisher.publish                                           *)

\* The runtime calls publish with a PROPOSED bundle without a receipt.
BeginPublish(w) ==
    /\ At(w, "idle")
    /\ change = None
    /\ Goto(w, "lookup")
    /\ UNCHANGED <<remote, attempts, bundle, people, faults>>

\* Mutant of LookupBranch: a branch that exists is refused, as if a retry could
\* only find a stranger's work.
LookupBranchOnce(w) ==
    /\ At(w, "lookup")
    /\ IF branch = None THEN Goto(w, "readBase") ELSE Refuse(w)
    /\ UNCHANGED <<remote, attempts, bundle, people, faults>>

\* _get_ref of the repair branch
LookupBranch(w) ==
    /\ At(w, "lookup")
    /\ worker' = [worker EXCEPT ![w].pc = IF branch = None THEN "readBase" ELSE "existing",
                                ![w].head = branch]
    /\ UNCHANGED <<remote, attempts, bundle, people, faults>>

\* The base ref, its commit and tree, and the files at that commit
ReadBase(w) ==
    /\ At(w, "readBase")
    /\ worker' = [worker EXCEPT ![w].pc = "create", ![w].base = base]
    /\ UNCHANGED <<remote, attempts, bundle, people, faults>>

\* Commits that somebody still names; the others are unreachable objects.
Named == ({branch} \cup {pulls[k].head : k \in DOMAIN pulls}
          \cup {worker[w].head : w \in Workers}
          \cup {r.commit : r \in receipts}) \ {None}

\* Hashes are interchangeable: any unused one stands for the next commit.
Fresh == CommitIds \ {c.id : c \in Named}
NewCommit(on, kind) ==
    [id |-> CHOOSE id \in Fresh : TRUE, base |-> on, kind |-> kind, exact |-> kind = "repair"]

\* _assert_base_unchanged, then the blobs, the tree and the commit: objects that
\* nothing points to yet
CreateCommit(w) ==
    /\ At(w, "create")
    /\ IF base # worker[w].base THEN Refuse(w)
       ELSE /\ Fresh # {}
            /\ worker' = [worker EXCEPT ![w].pc = "assertRef",
                                        ![w].head = NewCommit(base, "repair")]
    /\ UNCHANGED <<remote, attempts, bundle, people, faults>>

\* _assert_base_unchanged before each of the two public mutations
AssertBase(w, from, to) ==
    /\ At(w, from)
    /\ IF base = worker[w].base THEN Goto(w, to) ELSE Refuse(w)
    /\ UNCHANGED <<remote, attempts, bundle, people, faults>>

\* POST git/refs, whose answer is not looked at.  GitHub refuses a ref that exists.
PostRef(w) ==
    /\ At(w, "postRef")
    /\ branch' = IF branch = None THEN worker[w].head ELSE branch
    /\ Goto(w, "reread")
    /\ UNCHANGED <<base, pulls, attempts, bundle, people, faults>>

\* The same request, lost before it took effect.
PostRefLost(w) ==
    /\ At(w, "postRef")
    /\ faults < MaxFaults
    /\ faults' = faults + 1
    /\ Goto(w, "reread")
    /\ UNCHANGED <<remote, attempts, bundle, people>>

\* _get_ref again: the branch must hold the commit this worker created.
RereadRef(w) ==
    /\ At(w, "reread")
    /\ IF branch = worker[w].head THEN Goto(w, "existing") ELSE Refuse(w)
    /\ UNCHANGED <<remote, attempts, bundle, people, faults>>

\* Mutant of IsRepair: the comparison with the artifacts is dropped.
IsRepairByMarkers(c) == c.kind \in {"repair", "amended"}

\* _validate_existing_branch but for the base: a single parent, the markers of the
\* bundle in the message, one commit ahead, and the exact content of every file.
IsRepair(c) == c.kind = "repair"

\* _existing_receipt up to the pull requests
CheckExisting(w) ==
    LET c == worker[w].head IN
    /\ At(w, "existing")
    /\ IF IsRepair(c) /\ base = c.base
       THEN worker' = [worker EXCEPT ![w].pc = "list", ![w].base = c.base]
       ELSE Refuse(w)
    /\ UNCHANGED <<remote, attempts, bundle, people, faults>>

\* Pull requests for exactly this head; every one made here carries the marker.
Matching(c) == {k \in DOMAIN pulls : pulls[k].head = c}

\* _validate_pull, then _receipt
Issue(w, k) ==
    LET p == pulls'[k]
        r == [commit |-> worker[w].head, base |-> worker[w].base, pull |-> k]
    IN
    /\ UNCHANGED <<change, verified>>
    /\ IF p.open /\ p.head = r.commit /\ p.base = r.base
       THEN /\ receipts' = receipts \cup {r}
            /\ worker' = [worker EXCEPT ![w] = [Idle EXCEPT !.pc = "attach", !.receipt = r]]
       ELSE Refuse(w) /\ UNCHANGED receipts

\* _pulls_for_branch, open and closed ones
ListPulls(w) ==
    LET M == Matching(worker[w].head) IN
    /\ At(w, "list")
    /\ UNCHANGED <<remote, attempts, people, faults>>
    /\ IF pulls = <<>> THEN Goto(w, "assertPull") /\ UNCHANGED bundle
       ELSE IF Cardinality(M) = 1 THEN \E k \in M : Issue(w, k)
       ELSE Refuse(w) /\ UNCHANGED bundle

\* GitHub opens a pull request for a branch that exists, once while one is open.
Opened == Append(pulls, [head |-> branch, base |-> base, open |-> TRUE])
CanOpen == branch # None /\ \A k \in DOMAIN pulls : ~pulls[k].open

\* POST pulls, answered 201
PostPull(w) ==
    /\ At(w, "postPull")
    /\ CanOpen
    /\ pulls' = Opened
    /\ Issue(w, Len(pulls'))
    /\ UNCHANGED <<base, branch, attempts, people, faults>>

\* POST pulls, answered otherwise: refused, or an error answer after it took effect
PostPullUnclear(w) ==
    /\ At(w, "postPull")
    /\ IF CanOpen THEN faults < MaxFaults /\ faults' = faults + 1 /\ pulls' \in {pulls, Opened}
       ELSE UNCHANGED <<faults, pulls>>
    /\ Goto(w, "probe")
    /\ UNCHANGED <<base, branch, attempts, bundle, people>>

\* _pulls_for_branch after an unclear answer
ProbePulls(w) ==
    LET M == Matching(worker[w].head) IN
    /\ At(w, "probe")
    /\ UNCHANGED <<remote, attempts, people, faults>>
    /\ IF Cardinality(M) = 1 THEN \E k \in M : Issue(w, k)
       ELSE Refuse(w) /\ UNCHANGED bundle

\* Mutant of Attach: the commit in place of its receipt.
AttachCommit(w) ==
    /\ At(w, "attach")
    /\ change' = worker[w].receipt.commit
    /\ Refuse(w)
    /\ UNCHANGED <<remote, attempts, receipts, verified, people, faults>>

\* attach_change_receipt, write_decision_log and the REPAIR_PUBLISHED event
Attach(w) ==
    /\ At(w, "attach")
    /\ change' = worker[w].receipt
    /\ Refuse(w)
    /\ UNCHANGED <<remote, attempts, receipts, verified, people, faults>>

-----------------------------------------------------------------------------
(* GitHubCheckRunVerifier.verify                                           *)

BeginVerify(w) ==
    /\ w \in Verifiers
    /\ At(w, "idle")
    /\ change # None
    /\ worker' = [worker EXCEPT ![w].pc = "verifyBranch", ![w].receipt = change]
    /\ UNCHANGED <<remote, attempts, bundle, people, faults>>

\* _assert_publication_still_exact reads the branch, the base and the pull request.
StillExact(w, from, to, holds) ==
    /\ At(w, from)
    /\ IF holds THEN Goto(w, to) ELSE Refuse(w)
    /\ UNCHANGED <<remote, attempts, bundle, people, faults>>

VerifyBranch(w) == StillExact(w, "verifyBranch", "verifyBase",
                              branch = worker[w].receipt.commit)
VerifyBase(w) == StillExact(w, "verifyBase", "verifyPull", base = worker[w].receipt.base)
VerifyPull(w) ==
    LET r == worker[w].receipt IN
    StillExact(w, "verifyPull", "readChecks",
               pulls[r.pull] = [head |-> r.commit, base |-> r.base, open |-> TRUE])

Latest == attempts[Len(attempts)]

\* The latest Check Runs of the commit; a required one may be missing.
ReadChecks(w) ==
    /\ At(w, "readChecks")
    /\ IF attempts # <<>> /\ \A k \in Checks : Latest.check[k] # "pending"
       THEN worker' = [worker EXCEPT ![w].pc = "readWorkflow",
                ![w].observed = {k \in Checks : Latest.check[k] = "success"}]
       ELSE Refuse(w)
    /\ UNCHANGED <<remote, attempts, bundle, people, faults>>

\* Mutant of Passes: the conclusion of the workflow run is not asked for.
PassesByChecks(observed, attempt) == observed = Checks

Passes(observed, attempt) == observed = Checks /\ attempt.conclusion = "success"

\* _workflow_provenance: one read of the workflow run, cached for all checks.  Only
\* a PASS receipt is attached to the bundle.
ReadWorkflow(w) ==
    /\ At(w, "readWorkflow")
    /\ verified' = IF Latest.conclusion # "none" /\ Passes(worker[w].observed, Latest)
                   THEN verified \cup {[receipt |-> worker[w].receipt, attempt |-> Len(attempts)]}
                   ELSE verified
    /\ Refuse(w)
    /\ UNCHANGED <<remote, attempts, receipts, change, people, faults>>

-----------------------------------------------------------------------------
(* Failures, people and the CI service                                     *)

\* A request fails and the error is raised, a time-out is not caught, or the process
\* dies.  The worker forgets everything; what its request did stays.
Leave(w) ==
    /\ ~At(w, "idle")
    /\ faults < MaxFaults
    /\ faults' = faults + 1
    /\ Refuse(w)
    /\ UNCHANGED <<remote, attempts, bundle, people>>

MergeIntoBase ==
    /\ base < MaxBase
    /\ base' = base + 1
    /\ UNCHANGED <<branch, pulls, attempts, worker, bundle, people, faults>>

WithHead(c) == [k \in DOMAIN pulls |-> [pulls[k] EXCEPT !.head = IF pulls[k].open THEN c ELSE @]]
AllClosed == [k \in DOMAIN pulls |-> [pulls[k] EXCEPT !.open = FALSE]]

\* People amend or extend the repair branch, delete it (which closes its pull
\* request), or close the pull request.
Intervene ==
    /\ branch # None
    /\ humans < MaxHuman
    /\ humans' = humans + 1
    /\ \/ /\ Fresh # {}
          /\ \E kind \in {"amended", "stacked"} :
                branch' = NewCommit(branch.base, kind) /\ pulls' = WithHead(branch')
          /\ UNCHANGED deleted
       \/ branch' = None /\ pulls' = AllClosed /\ deleted' = TRUE
       \/ pulls' = AllClosed /\ pulls' # pulls /\ UNCHANGED <<branch, deleted>>
    /\ UNCHANGED <<base, attempts, worker, bundle, faults>>

\* The workflow run of the published commit, whose jobs matter from the time the
\* receipt is attached.  Some of them can be run again once it completed.
StartWorkflow ==
    /\ change # None /\ attempts = <<>>
    /\ attempts' = <<[check |-> [k \in Checks |-> "pending"], conclusion |-> "none"]>>
    /\ UNCHANGED <<remote, worker, bundle, people, faults>>

\* The pending jobs end; until the last one has, a required check is pending.
FinishJobs ==
    /\ attempts # <<>>
    /\ \E k \in Checks : Latest.check[k] = "pending"
    /\ \E result \in [Checks -> {"success", "failure"}] :
          /\ \A k \in Checks : Latest.check[k] \in {"pending", result[k]}
          /\ attempts' = [attempts EXCEPT ![Len(attempts)].check = result]
    /\ UNCHANGED <<remote, worker, bundle, people, faults>>

\* Another job of the workflow may fail although every required check succeeded.
FinishWorkflow ==
    /\ attempts # <<>> /\ Latest.conclusion = "none"
    /\ \A k \in Checks : Latest.check[k] # "pending"
    /\ \E result \in {"success", "failure"} :
          /\ result = "success" => \A k \in Checks : Latest.check[k] = "success"
          /\ attempts' = [attempts EXCEPT ![Len(attempts)].conclusion = result]
    /\ UNCHANGED <<remote, worker, bundle, people, faults>>

RerunJobs(again) ==
    /\ attempts # <<>> /\ Latest.conclusion # "none"
    /\ Len(attempts) < MaxAttempts
    /\ attempts' = Append(attempts,
           [check |-> [k \in Checks |-> IF k \in again THEN "pending" ELSE Latest.check[k]],
            conclusion |-> "none"])
    /\ UNCHANGED <<remote, worker, bundle, people, faults>>

-----------------------------------------------------------------------------
PublishStep(w) ==
    \/ LookupBranch(w) \/ ReadBase(w) \/ CreateCommit(w)
    \/ AssertBase(w, "assertRef", "postRef") \/ PostRef(w) \/ RereadRef(w)
    \/ CheckExisting(w) \/ ListPulls(w)
    \/ AssertBase(w, "assertPull", "postPull") \/ PostPull(w) \/ PostPullUnclear(w)
    \/ ProbePulls(w) \/ Attach(w)

VerifyStep(w) ==
    \/ VerifyBranch(w) \/ VerifyBase(w) \/ VerifyPull(w)
    \/ ReadChecks(w) \/ ReadWorkflow(w)

CIStep == \/ StartWorkflow \/ FinishJobs \/ FinishWorkflow
          \/ \E again \in (SUBSET Checks) : RerunJobs(again)

Next ==
    \/ \E w \in Workers : \/ BeginPublish(w) \/ BeginVerify(w) \/ PublishStep(w)
                          \/ VerifyStep(w) \/ PostRefLost(w) \/ Leave(w)
    \/ MergeIntoBase \/ Intervene \/ CIStep

Spec == Init /\ [][Next]_vars

-----------------------------------------------------------------------------
(* Properties                                                              *)

Provider == INSTANCE ChangeProvider WITH shared <- FALSE

\* The GitHub adapter implements the receipt semantics: whatever requests failed
\* after taking effect, whoever raced, and whatever people did to the branch, every
\* receipt names the exact repair that the branch held, and all of them agree unless
\* the branch was deleted.
ImplementsChangeProvider == Provider!Spec

\* A PASS receipt names an attempt of the workflow run that succeeded, with every
\* required check, also when jobs were run again while it was collected.
PassIsBacked ==
    \A v \in verified :
        /\ v.receipt \in receipts
        /\ attempts[v.attempt].conclusion = "success"
        /\ \A k \in Checks : attempts[v.attempt].check[k] = "success"
=============================================================================
