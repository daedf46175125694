----------------------------- MODULE Publication -----------------------------
(***************************************************************************)
(* The two change providers of the runtime side by side: SciGuardRuntime   *)
(* publishes and verifies on GitHub when a repository and a token are      *)
(* configured, and in a local Git repository otherwise.  One provider is   *)
(* configured for the life of the process.                                 *)
(***************************************************************************)
EXTENDS GitHubRepair

CONSTANTS Bundles, Followed, Artifacts, Tracked, Main, MaxLocalFaults

VARIABLES provider, refs, head, tree, staged, localWorker, localReceipts, released,
          receiptFiles, applied, localDeleted, shared, stranded, spilled, localFaults

Local == INSTANCE LocalRepair WITH
    worker <- localWorker, receipts <- localReceipts, deleted <- localDeleted,
    faults <- localFaults, MaxFaults <- MaxLocalFaults

ASSUME PublicationAssumption == Local!LocalRepairAssumption

local == <<refs, head, tree, staged, localWorker, localReceipts, released, receiptFiles,
           applied, localDeleted, shared, stranded, spilled, localFaults>>
allVars == <<provider, vars, local>>

PublicationInit == provider \in {"GITHUB", "LOCAL_GIT"} /\ Init /\ Local!Init

GitHubNext == provider = "GITHUB" /\ Next /\ UNCHANGED <<provider, local>>

LocalNext == provider = "LOCAL_GIT" /\ Local!Next /\ UNCHANGED <<provider, vars>>

PublicationSpec == PublicationInit /\ [][GitHubNext \/ LocalNext]_allVars

\* Somebody keeps asking for a publication that failed, and at least one worker has
\* its requests answered.
PublicationFairness == WF_allVars(
    /\ provider = "GITHUB"
    /\ \E w \in Workers : BeginPublish(w) \/ PublishStep(w)
    /\ UNCHANGED <<provider, local>>)

FairPublicationSpec == PublicationSpec /\ PublicationFairness

-----------------------------------------------------------------------------
(* Properties                                                              *)

\* Both adapters implement the receipt semantics of ChangeProvider.
LocalImplementsChangeProvider == Local!LocalImplementsChangeProvider

\* Failure rollback of the local adapter leaves no branch at its base, no changed tracked
\* file, and new files only of publications that failed before their git add.
RollbackLeavesOnlyNewFiles == Local!RollbackLeavesOnlyNewFiles

\* Crashes never leave an application receipt without its release.
LocalReceiptHasRelease == Local!LocalReceiptHasRelease

\* Unclear answers of GitHub strand nothing: if the base stays and nobody touches the
\* branch, a publication that is asked for again ends with a receipt on the bundle.
PublicationRecovers == provider = "GITHUB" ~> change # None \/ base > 0 \/ humans > 0
=============================================================================
