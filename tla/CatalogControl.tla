--------------------------- MODULE CatalogControl ---------------------------
(***************************************************************************)
(* The incident controls that SciGuard keeps in the DataHub catalog, and   *)
(* what writes them: enforce (core/enforcement.py), at the end of a live   *)
(* run; the release of the controlled assets by                            *)
(* RecoveryController.evaluate (core/recovery.py); the steps of the repair *)
(* (publish, verify, approve, apply), each of which writes the Decision    *)
(* Log; and reset_incident_metadata (core/reset.py).                       *)
(*                                                                         *)
(* The catalog has no transactions.  Each helper of metadata_writer.py     *)
(* emits one aspect of one entity, so an operation carries out its writes  *)
(* one by one and stops at the first one that raises.  A request holds the *)
(* entities it still has to go through and the writes that are left on the *)
(* one it is at; Abandon drops them.  The order in which the code goes     *)
(* through the entities of one kind is left open.                          *)
(*                                                                         *)
(* An entity is a dataset or a native ML entity that the dataset points to *)
(* (its projection and its deployment).  Of the properties with the prefix *)
(* sciguard: the model keeps the ones the operations read or a property is *)
(* about; policy_decision, catalog_status and enforcement_actions always   *)
(* change together and are one key, "HALT" for whatever is not ALLOW.      *)
(* One write, which reads the aspect and emits it, is one step.  Approvals *)
(* that authorize production are left to RepairLifecycle.                  *)
(***************************************************************************)
EXTENDS RecoveryPolicy, Functions

CONSTANTS
    Incidents,       \* incident ids
    Datasets,        \* datasets of the catalog
    Natives,         \* native ML features, models and deployments
    Control,         \* the control asset, CONTROL_URN
    Mirrors,         \* Mirrors[d]: the set of native entities that dataset d names
    Plan,            \* Plan[i]: datasets with WRITE_BACK in the plan of i
    Status,          \* Status[d]: the catalog status the plan gives to d
    Executors,       \* the run thread and the workers of the API process
    None,
    MaxEvaluations   \* bound: evaluations in one recovery history

ASSUME CatalogAssumption ==
    /\ Control \in Datasets
    /\ Datasets \cap Natives = {}
    /\ Mirrors \in [Datasets -> SUBSET Natives]
    /\ Plan \in [Incidents -> SUBSET Datasets]
    /\ \A i \in Incidents : Control \in Plan[i]
    /\ Status \in [Datasets -> {"AT_RISK", "QUARANTINED"}]
    /\ None \notin Incidents /\ \A i \in Incidents : Plan[i] # None
    /\ MaxEvaluations \in Nat

VARIABLES
    props,       \* props[e]: the incident properties of entity e
    tags,        \* tags[e]: the status tags of entity e
    artifacts,   \* artifacts[i]: native Incident and Decision Log that exist
    run,         \* run[i]: the run of incident i in the run store
    request,     \* request[x]: the operation that x executes
    shared       \* an enforcement found an asset of another incident (history)

catalog == <<props, tags, artifacts>>
vars == <<props, tags, artifacts, run, request, shared>>

Entities == Datasets \cup Natives
Tags == {"AT_RISK", "QUARANTINED", "RESOLVED"}
Keys == {"owner", "state", "policy", "targets", "history"}
Evaluation == [inc: Incidents, clean: BOOLEAN]

\* A key that is absent is None.
Properties == [owner: Incidents \cup {None}, state: ControlStates \cup {None},
               policy: {"HALT", "ALLOW", None}, targets: (SUBSET Datasets) \cup {None},
               history: Seq(Evaluation) \cup {None}]
Absent == [k \in Keys |-> None]

\* A write of properties: the keys it writes and what it makes of them; the other
\* keys stay as they are.
Update == [keys: SUBSET Keys, to: Properties]
NoUpdate == [keys |-> {}, to |-> Absent]

Artifacts == {"incident", "log"}

Writes == [kind: {"props"}, on: Entities, update: Update]
          \cup [kind: {"tag", "untag"}, on: Entities, tags: SUBSET Tags]
          \cup [kind: {"publish", "delete"}, on: Incidents, artifacts: SUBSET Artifacts]

\* The datasets, native entities and artifacts that the operation has still to go
\* through, what it writes to the native entities, and the writes left on the entity
\* it is at
Request == [op: {"idle", "run", "recover", "repair", "reset"}, inc: Incidents \cup {None},
            left: SUBSET Datasets, natives: SUBSET Natives, artifacts: SUBSET Artifacts,
            update: Update, tag: Tags, todo: Seq(Writes)]

Idle == [op |-> "idle", inc |-> None, left |-> {}, natives |-> {}, artifacts |-> {},
         update |-> NoUpdate, tag |-> "RESOLVED", todo |-> <<>>]

TypeOK ==
    /\ props \in [Entities -> Properties]
    /\ tags \in [Entities -> SUBSET Tags]
    /\ artifacts \in [Incidents -> SUBSET Artifacts]
    /\ run \in [Incidents -> {"none", "live", "completed", "failed"}]
    /\ request \in [Executors -> Request]
    /\ shared \in BOOLEAN

Init ==
    /\ props = [e \in Entities |-> Absent]
    /\ tags = [e \in Entities |-> {}]
    /\ artifacts = [i \in Incidents |-> {}]
    /\ run = [i \in Incidents |-> "none"]
    /\ request = [x \in Executors |-> Idle]
    /\ shared = FALSE

-----------------------------------------------------------------------------
(* Single writes: add_custom_properties and remove_custom_properties, with *)
(* their variants for native aspects, add_tags and remove_tags, and the    *)
(* native artifacts of an incident.                                        *)

SetProperties(e, update) == [kind |-> "props", on |-> e, update |-> update]
AddTag(e, tag) == [kind |-> "tag", on |-> e, tags |-> {tag}]
RemoveTags(e, set) == [kind |-> "untag", on |-> e, tags |-> set]
PublishArtifact(i, a) == [kind |-> "publish", on |-> i, artifacts |-> {a}]
DeleteArtifact(i, a) == [kind |-> "delete", on |-> i, artifacts |-> {a}]

\* Properties p after an update
Updated(p, update) ==
    [k \in Keys |-> IF k \in update.keys THEN update.to[k] ELSE p[k]]

Busy(x, op) == request[x].op = op /\ request[x].todo = <<>>

\* The next write of the operation of x
Write(x) ==
    /\ request[x].todo # <<>>
    /\ request' = [request EXCEPT ![x].todo = Tail(@)]
    /\ LET w == Head(request[x].todo) IN
       \/ /\ w.kind = "props"
          /\ props' = [props EXCEPT ![w.on] = Updated(@, w.update)]
          /\ UNCHANGED <<tags, artifacts>>
       \/ /\ w.kind = "tag"
          /\ tags' = [tags EXCEPT ![w.on] = @ \cup w.tags]
          /\ UNCHANGED <<props, artifacts>>
       \/ /\ w.kind = "untag"
          /\ tags' = [tags EXCEPT ![w.on] = @ \ w.tags]
          /\ UNCHANGED <<props, artifacts>>
       \/ /\ w.kind = "publish"
          /\ artifacts' = [artifacts EXCEPT ![w.on] = @ \cup w.artifacts]
          /\ UNCHANGED <<props, tags>>
       \/ /\ w.kind = "delete"
          /\ artifacts' = [artifacts EXCEPT ![w.on] = @ \ w.artifacts]
          /\ UNCHANGED <<props, tags>>
    /\ UNCHANGED <<run, shared>>

\* One round of the loop of mirror_native_projection_state
MirrorNative(x) ==
    /\ request[x].op \in {"run", "recover"} /\ request[x].todo = <<>>
    /\ \E n \in request[x].natives :
       LET tag == request[x].tag IN
       request' = [request EXCEPT ![x].natives = @ \ {n},
           ![x].todo = << RemoveTags(n, Tags \ {tag}), AddTag(n, tag),
                          SetProperties(n, request[x].update) >>]
    /\ UNCHANGED <<catalog, run, shared>>

-----------------------------------------------------------------------------
(* A live run: the native Incident and Decision Log, then enforce.         *)

StartRun(x, i) ==
    /\ request[x].op = "idle"
    /\ run[i] = "none" /\ \A j \in Incidents : run[j] # "live"
    /\ run' = [run EXCEPT ![i] = "live"]
    /\ request' = [request EXCEPT ![x] = [Idle EXCEPT
           !.op = "run", !.inc = i, !.left = Plan[i],
           !.todo = << PublishArtifact(i, "incident"), PublishArtifact(i, "log") >>]]
    /\ UNCHANGED <<catalog, shared>>

\* Mutant of History: the history is kept whoever it belongs to.
HistoryKept(d, i) == IF props[d].history = None THEN <<>> ELSE props[d].history

\* The recovery history that enforcement writes: kept only for the same incident.
History(d, i) ==
    IF props[d].owner = i /\ props[d].history # None THEN props[d].history ELSE <<>>

\* enforce takes the next asset: its own writes, then those on its native entities
EnforceAsset(x) ==
    /\ Busy(x, "run") /\ request[x].natives = {}
    /\ \E d \in request[x].left :
       LET i == request[x].inc
           update == [keys |-> Keys, to |-> [owner |-> i, state |-> Status[d],
                         policy |-> "HALT", targets |-> Plan[i], history |-> History(d, i)]]
       IN
       /\ request' = [request EXCEPT ![x].left = @ \ {d}, ![x].natives = Mirrors[d],
              ![x].update = update, ![x].tag = Status[d],
              ![x].todo = << RemoveTags(d, Tags \ {Status[d]}), AddTag(d, Status[d]),
                             SetProperties(d, update) >>]
       /\ shared' = (shared \/ \E e \in {d} \cup Mirrors[d] : props[e].owner \notin {i, None})
    /\ UNCHANGED <<catalog, run>>

FinishRun(x) ==
    /\ Busy(x, "run") /\ request[x].natives = {} /\ request[x].left = {}
    /\ run' = [run EXCEPT ![request[x].inc] = "completed"]
    /\ request' = [request EXCEPT ![x] = Idle]
    /\ UNCHANGED <<catalog, shared>>

-----------------------------------------------------------------------------
(* Recovery of a completed run whose repair was applied.                   *)

\* Mutant of Evaluated: the history keeps the outcome without what it is about.
EvaluatedFlag(i, clean) == Append(props[Control].history, [clean |-> clean])

\* The history with this evaluation appended
Evaluated(i, clean) == Append(props[Control].history, [inc |-> i, clean |-> clean])

\* evaluate reads the control asset, decides, and writes it; when it resumes it
\* goes on to the assets that the control asset names.
BeginRecover(x, i) ==
    /\ request[x].op = "idle"
    /\ run[i] = "completed"
    /\ props[Control].owner = i
    /\ Len(props[Control].history) < MaxEvaluations
    /\ \E clean \in BOOLEAN :
       LET h == Evaluated(i, clean)
           flags == [k \in DOMAIN h |-> IF k = Len(h) THEN clean ELSE h[k].clean]
           resume == Resume(flags, clean, FALSE)
           update == [keys |-> {"state", "history"} \cup (IF resume THEN {"policy"} ELSE {}),
                      to |-> [Absent EXCEPT
                          !.state = NextState(props[Control].state, clean, resume),
                          !.history = h, !.policy = "ALLOW"]]
       IN request' = [request EXCEPT ![x] = [Idle EXCEPT
              !.op = "recover", !.inc = i,
              !.left = IF resume THEN props[Control].targets ELSE {},
              !.todo = << SetProperties(Control, update) >>]]
    /\ UNCHANGED <<catalog, run, shared>>

Released == [keys |-> {"state", "policy"},
             to |-> [Absent EXCEPT !.state = "RESOLVED", !.policy = "ALLOW"]]

ReleaseAsset(x) ==
    /\ Busy(x, "recover") /\ request[x].natives = {}
    /\ \E d \in request[x].left :
       request' = [request EXCEPT ![x].left = @ \ {d}, ![x].natives = Mirrors[d],
           ![x].update = Released, ![x].tag = "RESOLVED",
           ![x].todo = (IF d = Control THEN <<>> ELSE << SetProperties(d, Released) >>)
                       \o << RemoveTags(d, {"AT_RISK", "QUARANTINED"}), AddTag(d, "RESOLVED") >>]
    /\ UNCHANGED <<catalog, run, shared>>

\* update_incident_status needs the native Incident; write_decision_log does not
\* need the Decision Log.
FinishRecover(x) ==
    LET i == request[x].inc IN
    /\ Busy(x, "recover") /\ request[x].natives = {} /\ request[x].left = {}
    /\ "incident" \in artifacts[i]
    /\ artifacts' = [artifacts EXCEPT ![i] = @ \cup {"log"}]
    /\ request' = [request EXCEPT ![x] = Idle]
    /\ UNCHANGED <<props, tags, run, shared>>

-----------------------------------------------------------------------------
(* The steps of the repair: publish, verify, approve and apply.            *)

\* The handler asks for a completed run, goes through its step, and writes the
\* Decision Log before it emits the event.  It looks at nothing in the catalog, so it
\* writes the log of an incident that a reset has half removed as well.  Which of the
\* four the bundle allows is left to RepairLifecycle; a handler that stopped before
\* its event is repeated, so a log may be written any number of times.
BeginRepair(x, i) ==
    /\ request[x].op = "idle"
    /\ run[i] = "completed"
    /\ request' = [request EXCEPT ![x] = [Idle EXCEPT
           !.op = "repair", !.inc = i, !.todo = << PublishArtifact(i, "log") >>]]
    /\ UNCHANGED <<catalog, run, shared>>

FinishRepair(x) ==
    /\ Busy(x, "repair")
    /\ request' = [request EXCEPT ![x] = Idle]
    /\ UNCHANGED <<catalog, run, shared>>

-----------------------------------------------------------------------------
(* POST /api/reset                                                         *)

\* Mutant of Targets: the controlled URNs are not read.
TargetsControlOnly == {Control}

\* The control asset and the assets it names
Targets == {Control} \cup (IF props[Control].targets = None THEN {} ELSE props[Control].targets)

\* An entity that names an incident has every key (enforce writes them together),
\* so the keys that are found and removed are all of them.
CleanWrites(e) ==
    << SetProperties(e, [keys |-> Keys, to |-> Absent]), RemoveTags(e, Tags) >>

\* The ownership check and the cleanup plan
BeginReset(x, i) ==
    LET D == {d \in Targets : props[d].owner = i} IN
    /\ request[x].op = "idle"
    /\ run[i] \in {"completed", "failed"}
    /\ props[Control].owner = i
    /\ request' = [request EXCEPT ![x] = [Idle EXCEPT
           !.op = "reset", !.inc = i, !.left = D, !.natives = UNION {Mirrors[d] : d \in D},
           !.artifacts = artifacts[i]]]
    /\ UNCHANGED <<catalog, run, shared>>

\* A native entity is cleaned only if it names the incident.
ResetNative(x) ==
    /\ Busy(x, "reset")
    /\ \E n \in request[x].natives :
       request' = [request EXCEPT ![x].natives = @ \ {n},
           ![x].todo = IF props[n].owner = request[x].inc THEN CleanWrites(n) ELSE <<>>]
    /\ UNCHANGED <<catalog, run, shared>>

\* The artifacts that were found are deleted.
ResetArtifact(x) ==
    /\ Busy(x, "reset") /\ request[x].natives = {}
    /\ \E a \in request[x].artifacts :
       request' = [request EXCEPT ![x].artifacts = @ \ {a},
           ![x].todo = << DeleteArtifact(request[x].inc, a) >>]
    /\ UNCHANGED <<catalog, run, shared>>

\* Mutant of NextDatasets: the control asset is cleaned first.
NextDatasetsControlFirst(D) == IF Control \in D THEN {Control} ELSE D

\* The datasets that reset may clean next: the control asset comes last.
NextDatasets(D) == IF D = {Control} THEN D ELSE D \ {Control}

ResetDataset(x) ==
    /\ Busy(x, "reset") /\ request[x].natives = {} /\ request[x].artifacts = {}
    /\ \E d \in NextDatasets(request[x].left) :
       request' = [request EXCEPT ![x].left = @ \ {d}, ![x].todo = CleanWrites(d)]
    /\ UNCHANGED <<catalog, run, shared>>

\* delete_run
FinishReset(x) ==
    /\ Busy(x, "reset")
    /\ request[x].natives = {} /\ request[x].artifacts = {} /\ request[x].left = {}
    /\ run' = [run EXCEPT ![request[x].inc] = "none"]
    /\ request' = [request EXCEPT ![x] = Idle]
    /\ UNCHANGED <<catalog, shared>>

-----------------------------------------------------------------------------
\* A write or a read raised: the operation stops where it is.
Abandon(x) ==
    /\ request[x].op # "idle"
    /\ run' = IF request[x].op = "run"
              THEN [run EXCEPT ![request[x].inc] = "failed"] ELSE run
    /\ request' = [request EXCEPT ![x] = Idle]
    /\ UNCHANGED <<catalog, shared>>

Next == \E x \in Executors :
    \/ \E i \in Incidents :
          StartRun(x, i) \/ BeginRecover(x, i) \/ BeginRepair(x, i) \/ BeginReset(x, i)
    \/ EnforceAsset(x) \/ MirrorNative(x) \/ FinishRun(x)
    \/ ReleaseAsset(x) \/ FinishRecover(x) \/ FinishRepair(x)
    \/ ResetNative(x) \/ ResetArtifact(x) \/ ResetDataset(x) \/ FinishReset(x)
    \/ Write(x) \/ Abandon(x)

Spec == Init /\ [][Next]_vars

-----------------------------------------------------------------------------
(* Properties                                                              *)

\* The history of e shows, at some point, as many consecutive clean evaluations
\* as the policy asks for, all of them evaluations of incident i.
OwnEvidence(h, i) ==
    \E k \in CleanRuns..Len(h) : \A j \in (k - CleanRuns + 1)..k : h[j].clean /\ h[j].inc = i

\* "Cross-incident state stays locked": whatever incidents follow each other on
\* the same assets, and wherever an operation stopped, a dataset that an incident
\* holds together with the control asset is allowed again only on clean
\* evaluations of that incident.  (A dataset without an owner is no control
\* state: LocalPipelineController.from_datahub refuses it.)
ReleasedOnOwnEvidence ==
    \A d \in Datasets :
        /\ props[d].owner # None
        /\ props[d].owner = props[Control].owner
        /\ props[d].policy = "ALLOW"
        => OwnEvidence(props[Control].history, props[d].owner)

\* "Missing/failed checks and cross-incident state stay locked" (docs/architecture.md),
\* with several operations at a time: whoever else was at work, a dataset that an
\* incident holds is not allowed on the evaluations of another incident.
CrossIncidentStaysLocked ==
    \A d \in Datasets :
        /\ props[d].owner # None
        /\ props[d].owner = props[Control].owner
        /\ props[d].policy = "ALLOW"
        => \A e \in Range(props[Control].history) : e.inc = props[d].owner

\* Everything that names incident i in the catalog
Named(i) == {e \in Entities : props[e].owner = i}

\* A reset that completes, over any abandoned attempts before, leaves nothing: of an
\* incident whose run is gone there is no artifact, and no dataset names it; nor does a
\* native entity, unless incidents met on the same assets.
NoOrphans ==
    \A i \in Incidents : run[i] = "none" =>
        /\ artifacts[i] = {}
        /\ Named(i) \cap Datasets = {}
        /\ ~shared => Named(i) = {}

\* "The control asset is deliberately cleaned last so a failed partial reset can
\* be retried": as long as an entity names a completed incident, or its native Incident
\* exists, the control asset names it too, and a reset is accepted.  The Decision Log
\* is not part of this: once a reset has cleaned the control asset and stopped, a step
\* of the repair still writes the log again (run[i] is "completed" until delete_run),
\* and no reset is accepted that would remove it.
OwnershipOutlivesReset ==
    \A i \in Incidents : run[i] = "completed" /\ ~shared =>
        \/ props[Control].owner = i
        \/ Named(i) = {} /\ "incident" \notin artifacts[i]

\* The same comment, taken to include the status tags: as long as a completed
\* incident whose reset stopped has left any mark, a retry is accepted.
PartialResetCanBeRetried ==
    \A i \in Incidents :
        run[i] = "completed" /\ ~shared /\ (\A x \in Executors : request[x].inc # i) =>
        props[Control].owner = i \/ \A e \in Plan[i] \cup UNION {Mirrors[d] : d \in Plan[i]} :
                                        props[e].owner # i /\ tags[e] = {}
=============================================================================
