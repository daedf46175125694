-------------------------- MODULE MCCatalogControl --------------------------
(* A small catalog for the runs of CatalogControl: the source batch, a     *)
(* model with a native projection, and the report, which is the control    *)
(* asset.  The second incident touches the report only.                    *)
EXTENDS CatalogControl

CONSTANTS batch, report, model, projection, i1, i2

MCMirrors == [d \in Datasets |-> IF d = model THEN {projection} ELSE {}]
MCStatus == [d \in Datasets |-> IF d = batch THEN "QUARANTINED" ELSE "AT_RISK"]
MCPlan == [i \in Incidents |-> IF i = i2 THEN {report} ELSE Datasets]
=============================================================================
