------------------------------ MODULE LiveRun ------------------------------
(***************************************************************************)
(* One live run: SciGuardRuntime.run_live (api/runtime.py) with all the    *)
(* parts it drives, from the detection of the drift by the Sentinel to the *)
(* controls in DataHub and the publication guard.                          *)
(*                                                                         *)
(* run_live is one thread, but it reads DataHub call by call, writes it    *)
(* entity by entity and appends to the stream event by event.  Any of      *)
(* these calls may raise and ends the run where it is, so each is a step:  *)
(* Raise ends the run before the next one takes effect, and an append may  *)
(* raise after the event is in the stream (the manifest write that follows *)
(* it failed, see RunStore).  What the run leaves behind then is what the  *)
(* properties are about.                                                   *)
(*                                                                         *)
(* The catalog and the artifacts are inputs: the field lineage with the    *)
(* hop distances DataHub reports, the roles of the assets, and the rows.   *)
(* The metadata ingestion may replace the lineage of one dataset while the *)
(* run follows it (bound: once in a run, and only then).  The enforcement  *)
(* of a dataset is two writes, its tag and its properties; CatalogControl  *)
(* has every single write.                                                 *)
(***************************************************************************)
EXTENDS IncidentState, FiniteSets, Functions

CONSTANTS
    Assets,          \* datasets of the catalog
    Source,          \* SOURCE_URN, the raw experiments
    Batch,           \* BATCH_URN, the instrument batch B042
    Report,          \* the candidate ranking report
    Safe,            \* the formulation report
    DecisionAssets,  \* assets whose name makes them a model or a decision report
    FieldNames,      \* names of fields
    TgField,         \* the field tg_value, with a unit contract
    Rows,            \* rows of the raw experiments
    Candidate,       \* the row of the candidate that the symptom names
    BatchRows,       \* rows of batch B042
    Edges,           \* the edges of field lineage that may be ingested
    Catalogs,        \* the catalogs a run may meet
    None

Fields == Assets \X FieldNames
DriftedField == <<Source, TgField>>

ASSUME LiveRunAssumption ==
    /\ {Source, Batch, Report, Safe} \cup DecisionAssets \subseteq Assets
    /\ Cardinality({Source, Batch, Report, Safe}) = 4
    /\ IsFiniteSet(Assets)
    /\ TgField \in FieldNames
    /\ Candidate \in Rows /\ BatchRows \subseteq Rows
    /\ {"incident", "log", "PUBLISH"} \cap Assets = {}
    /\ Edges \subseteq Fields \X Fields
    /\ Catalogs \subseteq [drift: BOOLEAN, edges: SUBSET Edges,
                           degree: [Assets -> Nat], role: [Assets -> STRING]]
    /\ \A c \in Catalogs : c.degree[Source] = 0

VARIABLES
    pc,          \* what run_live does next
    catalog,     \* the catalog when the run started
    lineage,     \* its field lineage now
    evidence,    \* what the investigator and the reality checker returned
    left,        \* what the loop that runs has still to handle
    pending,     \* downstream hits whose field lineage is not read yet
    tainted,     \* fields the drift has reached
    affected,    \* affected_urns
    unaffected,  \* unaffected_urns
    plan,        \* plan[a]: the decision on asset a
    stream,      \* the events in the run store
    native,      \* native Incident and Decision Log in DataHub
    control      \* control[a]: what enforce has written on asset a

\* state, of IncidentState, is IncidentStateMachine.state.
input == <<catalog, lineage>>
work == <<evidence, left>>
impact == <<pending, tainted, affected, unaffected>>
datahub == <<native, control>>
vars == <<pc, catalog, lineage, evidence, left, pending, tainted, affected, unaffected,
          plan, stream, native, control, state>>

Hypotheses == <<"H1", "H2", "H3">>
Unavailable == [available |-> FALSE]
CatalogEvidence == [available: {TRUE}, release: BOOLEAN, reaches: BOOLEAN]
RowEvidence == [available: {TRUE}, drifted: SUBSET Rows, real: SUBSET Rows, jump: BOOLEAN]
Controls == {"CLEAN", "TAGGED", "CONTROLLED"}
Ended == {"RETURNED", "FAILED"}
Points == {"detect", "escalate", "create", "open", "assess", "propose", "investigate",
           "check", "resolve", "resolved", "lineage", "trace", "decide", "raise",
           "raised", "bundle", "log", "logged", "approval", "notify", "tag", "control",
           "applied", "allow", "finish"}

-----------------------------------------------------------------------------
(* The configured policy: action_policy of domain_profiles/polymer.yaml.   *)

Rule(decision, status, blocks, writes) ==
    [decision |-> decision, status |-> status, blocks |-> blocks, writes |-> writes]
HaltRoles == {"source_batch", "model", "decision_report"}
WarnRoles == {"dataset", "feature_table", "dashboard", "report"}
AffectedRoles == [r \in HaltRoles \cup WarnRoles |->
    Rule(IF r \in HaltRoles THEN "HALT" ELSE "WARN",
         IF r = "source_batch" THEN "QUARANTINED" ELSE "AT_RISK",
         IF r = "decision_report" THEN "PUBLISH" ELSE "NOTHING", TRUE)]
UnaffectedRule == Rule("ALLOW", "HEALTHY", "NOTHING", FALSE)
NoRule == [decision |-> "NONE"]
Rules == {UnaffectedRule} \cup Range(AffectedRoles)

TypeOK ==
    /\ evidence \in [catalog: CatalogEvidence \cup {Unavailable},
                     rows: RowEvidence \cup {Unavailable}]
    /\ lineage \subseteq Edges
    /\ left \in Seq(Assets \cup Range(Hypotheses))
    /\ pending \subseteq Assets /\ tainted \subseteq Fields
    /\ affected \in Seq(Assets) /\ unaffected \in Seq(Assets)
    /\ Range(affected) \cap Range(unaffected) = {}
    /\ plan \in [Assets -> Rules \cup {NoRule}]
    /\ native \subseteq {"incident", "log"}
    /\ control \in [Assets -> Controls]
    /\ state \in IncidentStates
    /\ pc \in Ended \cup Points

Init ==
    /\ pc = "detect"
    /\ catalog \in Catalogs
    /\ lineage = catalog.edges
    /\ evidence = [catalog |-> Unavailable, rows |-> Unavailable]
    /\ left = <<>>
    /\ pending = {} /\ tainted = {} /\ affected = <<>> /\ unaffected = <<>>
    /\ plan = [a \in Assets |-> NoRule]
    /\ stream = <<>>
    /\ native = {}
    /\ control = [a \in Assets |-> "CLEAN"]
    /\ state = HEALTHY

-----------------------------------------------------------------------------
(* Events.  An append may raise although the event is in the stream.       *)

Event(type, about, value) == [type |-> type, about |-> about, value |-> value]

Emit(event, next) ==
    /\ stream' = Append(stream, event)
    /\ pc' \in {next, "FAILED"}

\* IncidentStateMachine.transition.  Mutants: from_state is read after the assignment;
\* the assignment is missing.
TransitionEventLate(target) == [type |-> "STATE_TRANSITIONED", from |-> target, to |-> target]
TransitionEvent(target) == [type |-> "STATE_TRANSITIONED", from |-> state, to |-> target]
MoveForgetting(target, next) ==
    /\ <<state, target>> \in ALLOWED_TRANSITIONS
    /\ Emit(TransitionEvent(target), next)
    /\ UNCHANGED state
Move(target, next) ==
    /\ <<state, target>> \in ALLOWED_TRANSITIONS
    /\ Emit(TransitionEvent(target), next)
    /\ state' = IF pc' = "FAILED" THEN state ELSE target

\* A step that only appends one event
Announce(from, event, next) ==
    /\ pc = from
    /\ Emit(event, next)
    /\ UNCHANGED <<input, work, impact, plan, datahub, state>>

Advance(from, target, next) ==
    /\ pc = from
    /\ Move(target, next)
    /\ UNCHANGED <<input, work, impact, plan, datahub>>

\* Any call raises, or an append is refused.
Raise ==
    /\ pc \notin Ended
    /\ pc' = "FAILED"
    /\ UNCHANGED <<input, work, impact, plan, stream, datahub, state>>

-----------------------------------------------------------------------------
(* Detection and escalation: the Sentinel's part of run_live.              *)

Downstream == {a \in Assets : catalog.degree[a] > 0}

\* trace_initial_scope, assess and decide_escalation: a unit change is critical.
Escalates == catalog.drift /\ DecisionAssets \cap Downstream # {}

Detect == Announce("detect", Event("SIGNAL_DETECTED", None, catalog.drift), "escalate")
Escalate == Announce("escalate", Event("ESCALATION_DECIDED", None, Escalates), "create")
Create == Announce("create", Event("INCIDENT_CREATED", None, None), "open")
Open == Advance("open", "DETECTED", "assess")
Close == ~Escalates /\ Advance("assess", "RESOLVED", "RETURNED")

\* The transition to INVESTIGATING and open_case, before its first event
Investigate ==
    /\ Escalates /\ pc = "assess"
    /\ Move("INVESTIGATING", "propose")
    /\ left' = Hypotheses
    /\ UNCHANGED <<input, evidence, impact, plan, datahub>>

-----------------------------------------------------------------------------
(* The investigation: two independent workers and the Coordinator.         *)

\* An append of the loop over left, which goes on at again or at next
EmitNext(event, again, next) ==
    /\ left # <<>>
    /\ left' = Tail(left)
    /\ Emit(event, IF left' = <<>> THEN next ELSE again)

Propose ==
    /\ pc = "propose"
    /\ EmitNext(Event("HYPOTHESIS_PROPOSED", Head(left), None), "propose", "investigate")
    /\ UNCHANGED <<input, evidence, impact, plan, datahub, state>>

\* ScientificInvestigator.investigate: an exception degrades the evidence.  Whether the
\* batch is upstream of the report is read by a traversal of its own, which may disagree
\* with the downstream traversal of the impact.
AskCatalog ==
    /\ pc = "investigate"
    /\ \E found \in CatalogEvidence \cup {Unavailable} :
          /\ evidence' = [evidence EXCEPT !.catalog = found]
          /\ Emit(Event("EVIDENCE_OBSERVED", "DATAHUB_CATALOG", found.available), "check")
    /\ UNCHANGED <<input, left, impact, plan, datahub, state>>

\* RealityChecker.check.  drifted: rows in another unit than their baseline; real:
\* those whose converted value differs from it; jump: the rank rose as the symptom
\* says while the pipeline reported SUCCESS.
CheckRows ==
    /\ pc = "check"
    /\ \E found \in {e \in RowEvidence : e.real \subseteq e.drifted} \cup {Unavailable} :
          /\ evidence' = [evidence EXCEPT !.rows = found]
          /\ Emit(Event("EVIDENCE_OBSERVED", "LOCAL_ARTIFACT", found.available), "resolve")
    /\ left' = Hypotheses
    /\ UNCHANGED <<input, impact, plan, datahub, state>>

Degraded == ~(evidence.catalog.available /\ evidence.rows.available)
NoImprovementSoFar == evidence.rows.jump /\ evidence.rows.real = {}

\* What the evidence says of hypothesis h
Holds(h) ==
    \/ h = "H1" /\ ~evidence.catalog.release
    \/ h = "H2" /\ evidence.catalog.reaches /\ evidence.rows.drifted \cap BatchRows # {}
    \/ h = "H3" /\ ~NoImprovementSoFar
Status(h) == IF Degraded THEN "INCONCLUSIVE" ELSE IF Holds(h) THEN "CONFIRMED" ELSE "REJECTED"
Confirmed == Status("H1") = "REJECTED" /\ Status("H2") = "CONFIRMED" /\ Status("H3") = "REJECTED"

\* float(None): the candidate's row has no delta because it did not drift.
NoDelta == ~Degraded /\ NoImprovementSoFar /\ Candidate \notin evidence.rows.drifted

\* Coordinator.resolve, and the check of its report in run_live
Resolve ==
    /\ pc = "resolve"
    /\ ~NoDelta
    /\ EmitNext(Event("HYPOTHESIS_RESOLVED", Head(left), Status(Head(left))), "resolve",
                IF Confirmed THEN "lineage" ELSE "FAILED")
    /\ UNCHANGED <<input, evidence, impact, plan, datahub, state>>

-----------------------------------------------------------------------------
(* Impact: trace_field_impact reads the downstream hits once and then the  *)
(* field lineage of one hit after the other, nearest first.                *)

ReadDownstream ==
    /\ pc = "lineage"
    /\ pending' = Downstream
    /\ tainted' = {DriftedField}
    /\ affected' = <<Source>>
    /\ unaffected' = <<>>
    /\ pc' = "trace"
    /\ UNCHANGED <<input, work, plan, stream, datahub, state>>

\* Mutants: the hits are not sorted by degree; lineage is followed by dataset.
NearestUnsorted(hit) == TRUE
Nearest(hit) == \A other \in pending : catalog.degree[hit] <= catalog.degree[other]
PropagatedByDataset(hit) ==
    {e[2] : e \in {edge \in lineage :
                      edge[1][1] \in {field[1] : field \in tainted} /\ edge[2][1] = hit}}
Propagated(hit) ==
    {e[2] : e \in {edge \in lineage : edge[1] \in tainted /\ edge[2][1] = hit}}

\* Mutant of TraceHit: a hit is looked at again.
TraceHitKeeping ==
    /\ pc = "trace"
    /\ \E hit \in pending :
          /\ Nearest(hit)
          /\ tainted' = tainted \cup Propagated(hit)
          /\ IF Propagated(hit) # {}
             THEN affected' = Append(affected, hit) /\ UNCHANGED unaffected
             ELSE unaffected' = Append(unaffected, hit) /\ UNCHANGED affected
    /\ UNCHANGED <<pc, input, work, pending, plan, stream, datahub, state>>

TraceHit ==
    /\ pc = "trace"
    /\ \E hit \in pending :
          /\ Nearest(hit)
          /\ pending' = pending \ {hit}
          /\ tainted' = tainted \cup Propagated(hit)
          /\ IF Propagated(hit) # {}
             THEN affected' = Append(affected, hit) /\ UNCHANGED unaffected
             ELSE unaffected' = Append(unaffected, hit) /\ UNCHANGED affected
    /\ UNCHANGED <<pc, input, work, plan, stream, datahub, state>>

\* An ingestion replaces the upstream lineage aspect of dataset d.
Ingest(d) ==
    /\ pc = "trace" /\ lineage = catalog.edges
    /\ \E new \in SUBSET {edge \in Edges : edge[2][1] = d} :
          lineage' = {edge \in lineage : edge[2][1] # d} \cup new
    /\ UNCHANGED <<pc, catalog, work, impact, plan, stream, datahub, state>>

\* build_policy_contexts: the impact and the batch, each asset once
IsAffected(a) == a \in Range(affected) \cup {Batch}
Contexts == LET hits == affected \o unaffected
            IN  IF Batch \in Range(hits) THEN hits ELSE Append(hits, Batch)

MapImpact ==
    /\ pc = "trace" /\ pending = {}
    /\ Emit(Event("IMPACT_MAPPED", None, Range(affected)), "decide")
    /\ left' = Contexts
    /\ UNCHANGED <<input, evidence, impact, plan, datahub, state>>

-----------------------------------------------------------------------------
(* Decision, native artifacts and proposal.                                *)

\* One iteration of decide; an affected asset without a rule for its role raises.
DecideAsset ==
    LET a == Head(left)
        rule == IF IsAffected(a) THEN AffectedRoles[catalog.role[a]] ELSE UnaffectedRule IN
    /\ pc = "decide"
    /\ IsAffected(a) => catalog.role[a] \in DOMAIN AffectedRoles
    /\ plan' = [plan EXCEPT ![a] = rule]
    /\ EmitNext(Event("POLICY_DECIDED", a, rule.decision), "decide", "raise")
    /\ UNCHANGED <<input, evidence, impact, datahub, state>>

WriteNative(from, artifact, next) ==
    /\ pc = from
    /\ native' = native \cup {artifact}
    /\ pc' = next
    /\ UNCHANGED <<input, work, impact, plan, stream, control, state>>

\* raise_incident.  Mutant: its event is not emitted.
RaiseIncidentSilently == WriteNative("raise", "incident", "bundle")
RaiseIncident == WriteNative("raise", "incident", "raised")
IncidentWritten == Announce("raised", Event("DATAHUB_INCIDENT_WRITTEN", "incident", None), "bundle")
CreateBundle == Announce("bundle", Event("REPAIR_BUNDLE_CREATED", None, None), "log")
WriteLog == WriteNative("log", "log", "logged")
LogWritten == Announce("logged", Event("DECISION_LOG_WRITTEN", "log", None), "approval")
RequestApproval == Announce("approval", Event("APPROVAL_REQUESTED", None, None), "notify")

\* NOTIFICATION_RECORDED, and the plan that enforce goes through
Notify ==
    /\ pc = "notify"
    /\ left' = Contexts
    /\ Emit(Event("NOTIFICATION_RECORDED", None, None), "tag")
    /\ UNCHANGED <<input, evidence, impact, plan, datahub, state>>

-----------------------------------------------------------------------------
(* Enforcement, publication guard and end.                                 *)

\* A decision that is not written back, the head of left
PassOver ==
    /\ pc = "tag" /\ left # <<>> /\ ~plan[Head(left)].writes
    /\ left' = Tail(left)
    /\ UNCHANGED <<pc, input, evidence, impact, plan, stream, datahub, state>>

WriteControl(from, value, next) ==
    /\ pc = from /\ left # <<>> /\ plan[Head(left)].writes
    /\ control' = [control EXCEPT ![Head(left)] = value]
    /\ pc' = next
    /\ UNCHANGED <<input, work, impact, plan, stream, native, state>>

TagAsset == WriteControl("tag", "TAGGED", "control")
ControlAsset == WriteControl("control", "CONTROLLED", "applied")
ControlApplied ==
    /\ pc = "applied"
    /\ EmitNext(Event("ENFORCEMENT_APPLIED", Head(left), plan[Head(left)].decision),
                "tag", "tag")
    /\ UNCHANGED <<input, evidence, impact, plan, datahub, state>>

\* LocalPipelineController.publish; an asset without a decision raises.
Decided(a) == plan[a] # NoRule
Blocked(a) == plan[a].blocks = "PUBLISH"

BlockReport ==
    /\ Decided(Report) /\ Blocked(Report)
    /\ left = <<>>
    /\ Announce("tag", Event("ENFORCEMENT_APPLIED", "PUBLISH", "BLOCKED"), "allow")
AllowSafe ==
    /\ Decided(Safe) /\ ~Blocked(Safe)
    /\ Announce("allow", Event("ENFORCEMENT_APPLIED", "PUBLISH", "ALLOWED"), "finish")

FinalState ==
    IF \E a \in Assets : Decided(a) /\ plan[a].status = "QUARANTINED"
    THEN "QUARANTINED" ELSE "AT_RISK"
Finish == Advance("finish", FinalState, "RETURNED")

Next ==
    \/ Raise
    \/ Detect \/ Escalate \/ Create \/ Open \/ Close \/ Investigate
    \/ Propose \/ AskCatalog \/ CheckRows \/ Resolve
    \/ ReadDownstream \/ TraceHit \/ MapImpact \/ DecideAsset \/ \E d \in Assets : Ingest(d)
    \/ RaiseIncident \/ IncidentWritten \/ CreateBundle \/ WriteLog \/ LogWritten
    \/ RequestApproval \/ Notify
    \/ PassOver \/ TagAsset \/ ControlAsset \/ ControlApplied
    \/ BlockReport \/ AllowSafe \/ Finish

Spec == Init /\ [][Next]_vars

-----------------------------------------------------------------------------
(* Properties.                                                             *)

\* Fields that the drifted field feeds over edges, in at most as many steps as there are
\* datasets: the trace handles each hit once.
Fed(edges, fields) == fields \cup {e[2] : e \in {edge \in edges : edge[1] \in fields}}
Reached(edges) ==
    LET reach[n \in 0 .. Cardinality(Assets)] ==
            IF n = 0 THEN {DriftedField} ELSE Fed(edges, reach[n - 1])
    IN  reach

\* The fields it feeds over the lineage before or now
Cone == Reached(catalog.edges \cup lineage)[Cardinality(Assets)]

\* The stream says that the controls of the incident are applied.
Contained == \E n \in DOMAIN stream :
    /\ stream[n].type = "STATE_TRANSITIONED"
    /\ stream[n].to \in {"QUARANTINED", "AT_RISK"}

Mapped == \E n \in DOMAIN stream : stream[n].type = "IMPACT_MAPPED"

\* A stream that reports the impact reports every dataset that a tainted field feeds
\* from a smaller hop distance over an edge that no ingestion touched: the cone of
\* trace_field_impact is closed under such edges, so every path of growing distance from
\* the drifted field ends in it (edges between equal distances, or back, may be
\* missed).  A stream that says the controls are applied has them on the whole cone and
\* on the batch.
ConeIsControlled ==
    /\ Mapped =>
        /\ DriftedField \in tainted /\ Source \in Range(affected)
        /\ \A e \in catalog.edges \cap lineage :
              e[1] \in tainted /\ catalog.degree[e[1][1]] < catalog.degree[e[2][1]]
                 => e[2] \in tainted /\ e[2][1] \in Range(affected)
    /\ Contained => \A a \in Range(affected) \cup {Batch} : control[a] = "CONTROLLED"

Observed(type, about, value) ==
    \E n \in DOMAIN stream : /\ stream[n].type = type
                            /\ stream[n].about = about /\ stream[n].value = value

\* Whatever raises and wherever the run stops, DataHub holds a control only on the batch
\* or on a dataset that the drifted field really feeds, and the stream then holds the
\* decision that asked for it and the three resolutions that confirmed the root cause.
ControlsAreExplained == LET fed == {field[1] : field \in Cone} IN
    \A a \in Assets : control[a] # "CLEAN" =>
    /\ a = Batch \/ a \in fed
    /\ \E d \in {"HALT", "WARN"} : Observed("POLICY_DECIDED", a, d)
    /\ Observed("HYPOTHESIS_RESOLVED", "H1", "REJECTED")
    /\ Observed("HYPOTHESIS_RESOLVED", "H2", "CONFIRMED")
    /\ Observed("HYPOTHESIS_RESOLVED", "H3", "REJECTED")

\* What is in DataHub, and what the stream says is there
Effects == native \cup {a \in Assets : control[a] # "CLEAN"}
Reports == {stream[k].about : k \in {n \in DOMAIN stream :
               stream[n].type \in {"DATAHUB_INCIDENT_WRITTEN", "DECISION_LOG_WRITTEN",
                                   "ENFORCEMENT_APPLIED"}}} \ {"PUBLISH"}

\* The stream never reports a write to DataHub that was not made, and whenever the run
\* stops at most one write, the last, is missing from the stream.
EffectsAreReported ==
    /\ Reports \subseteq Effects
    /\ \A x, y \in Effects \ Reports : x = y

\* The stream replays to the state that the run's machine has, and after an append that
\* raised to the state it was about to enter.
StreamReplays ==
    \/ Replay(stream) = state
    \/ pc = "FAILED" /\ <<state, Replay(stream)>> \in ALLOWED_TRANSITIONS

Lifecycle == INSTANCE IncidentState WITH state <- Replay(stream)

\* Every append moves the replayed state along the lifecycle or leaves it.
ImplementsIncidentState == Lifecycle!LifecycleSpec
=============================================================================
