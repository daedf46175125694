----------------------------- MODULE MCLiveRun -----------------------------
(* A small catalog for LiveRun.  The field lineage is any subset of eight   *)
(* edges: the path over the features and the model to the ranking report,   *)
(* an edge from the source that brings the model to the distance of the     *)
(* features, one back edge, and two that lead to the formulation report.    *)
EXTENDS LiveRun

CONSTANTS source, batch, report, safe, feature, model, candidate, neighbour

Edge(a, f, b, g) == <<<<a, f>>, <<b, g>>>>
MCEdges == {
    Edge(Source, "tg", feature, "tg"), Edge(Source, "mw", feature, "mw"),
    Edge(feature, "tg", model, "tg"), Edge(Source, "mw", model, "mw"),
    Edge(model, "tg", Report, "tg"), Edge(Report, "tg", feature, "mw"),
    Edge(feature, "mw", Safe, "mw"), Edge(feature, "tg", Safe, "tg")}

\* The number of hops from Source to a, and 0 where there is no path
Hop(edges, reached) == {e[2][1] : e \in {x \in edges : x[1][1] \in reached}}
Hops(edges) ==
    LET one == Hop(edges, {Source})
        two == Hop(edges, one) \ one
        three == Hop(edges, two) \ (one \cup two)
    IN  [a \in Assets |-> IF a \in one THEN 1 ELSE IF a \in two THEN 2
                          ELSE IF a \in three THEN 3 ELSE 0]

Roles == [a \in Assets |->
    CASE a = Batch -> "source_batch" [] a = feature -> "feature_table"
      [] a = model -> "model" [] a = Report -> "decision_report"
      [] a = Safe -> "report" [] OTHER -> "dataset"]

MCCatalogs ==
    {[drift |-> d, edges |-> edges, degree |-> Hops(edges), role |-> roles] :
        d \in BOOLEAN, edges \in SUBSET MCEdges,
        roles \in {Roles, [Roles EXCEPT ![Batch] = "dataset"], [Roles EXCEPT ![Safe] = "unlisted"]}}
=============================================================================
