\* One subject per behaviour; the bounds are those of each component.
SPECIFICATION SuiteSpec
CONSTANTS
    \* CanaryRollout: an HTTP request and one of a single target, in one
    \* second or in two
    r1 = r1  r2 = r2
    Reqs = {r1, r2}
    Single = {r2}
    Http = {r1}
    MaxSecond = 1
    MaxFaults = 2
    None = None
    \* TelemetrySender
    TelemetryCap = 2
    MaxTelemetry = 3
    \* CorrelatorRules
    RuleFiles = 2
    RuleIds = {x}
    RuleSeverities = {"low", "high"}
    MaxEdits = 2
    MaxLoads = 2
    MaxReadFaults = 1
    NoRule = NoRule
    \* OrchestratorRollback
    OpIds = {"i1"}
    TargetCounts = {2}
    RollbackBatch = 1
    MaxOps = 2
CHECK_DEADLOCK FALSE
INVARIANTS
    CanarySound
PROPERTIES
    RolloutConcludes
    QueuedIsDecided
    RulesFollowFiles
    RollbackConcludes
