\* One run over every subset of eight lineage edges, with any evidence, and any call
\* or append that raises.  A run ends, so it may stop.
CONSTANTS
    source = source
    batch = batch
    feature = feature
    model = model
    report = report
    safe = safe
    candidate = candidate
    neighbour = neighbour
    None = None
    Assets = {source, batch, feature, model, report, safe}
    Source = source
    Batch = batch
    Report = report
    Safe = safe
    DecisionAssets = {model, report}
    FieldNames = {"tg", "mw"}
    TgField = "tg"
    Rows = {candidate, neighbour}
    Candidate = candidate
    BatchRows = {candidate}
    Edges <- MCEdges
    Catalogs <- MCCatalogs
SPECIFICATION Spec
CHECK_DEADLOCK FALSE
INVARIANTS
    TypeOK
    ConeIsControlled
    ControlsAreExplained
    EffectsAreReported
    StreamReplays
PROPERTIES
    ImplementsIncidentState
