---------------------------- MODULE ChangeProvider ---------------------------
(***************************************************************************)
(* What a change publisher promises, whatever repository is behind it: a   *)
(* receipt is issued while the repair branch holds the commit it names,    *)
(* and that commit is exactly the artifacts of the bundle on its base; and *)
(* as long as nobody deletes the branch, all receipts of a bundle name one *)
(* commit.                                                                 *)
(*                                                                         *)
(* core/change_provider.py asks every adapter for "the same receipt        *)
(* semantics"; GitHubRepair and LocalRepair are shown to implement this.   *)
(***************************************************************************)
VARIABLES
    branch,      \* the commit the repair branch points to, or something else
    receipts,    \* the receipts issued for the bundle, each naming its commit
    deleted,     \* the repair branch was deleted after it held a commit
    shared       \* publications of other bundles ran in the same working tree

promise == <<branch, receipts, deleted, shared>>

Init == receipts = {} /\ ~deleted /\ ~shared

\* The branch moves, or one of the assumptions breaks, for good.
Move ==
    /\ deleted => deleted'
    /\ shared => shared'
    /\ UNCHANGED receipts

Issue ==
    /\ UNCHANGED <<branch, deleted, shared>>
    /\ \E r \in receipts' :
          /\ receipts' = receipts \cup {r}
          /\ shared \/ (r.commit = branch /\ r.commit.exact)
          /\ shared \/ deleted \/ \A q \in receipts : q.commit = r.commit

Next == Move \/ Issue

Spec == Init /\ [][Next]_promise
=============================================================================
