\* One subject per behaviour; the bounds are those of each component.
SPECIFICATION SuiteSpec
CONSTANTS
    \* Guardrails: two changes while a decision is made
    db = db
    Labels = {db}
    Matches <- SameLabel
    Maxes <- MCMaxes
    IllTyped = IllTyped
    Defaults <- MCDefaults
    EnvDefaults <- MCEnvDefaults
    Desires = {"enforce", "aggressive", "other"}
    MaxTargets = 2
    Hours = 4
    MaxChanges = 2
    \* DecisionPlans
    PlanHandlers = {w1, w2}
    Findings <- MCFindings
    PolicyIntents <- MCIntents
    RoutedRoles = {"planner", "policywriter"}
    Tools = {"ebpf.template_suggest", "graph.query"}
    RateLimit = 2
    MaxCost = 3
    CallCost = 1
    MinutesPerHour = 2
    KeepMinutes = 1
    CanaryLimit = 2
    Capacity = 1
    MaxMinute = 2
    MaxPlanRequests = 2
    \* ConfigService
    CfgWorkers = {cw1, cw2}
    CfgKeys = {"k1", "k2"}
    CfgValues = {"v1"}
    MaxPuts = 2
    MaxCfgFaults = 1
    MaxRefresh = 1
    NoPut = NoPut
    NoRow = NoRow
    NoFetch = NoFetch
    \* Segmenter
    SegHosts <- MCSegHosts
    SegFlows <- MCSegFlows
    SegGoals <- MCSegGoals
    WordsOf <- MCWordsOf
    PrivateHosts = {"10.0.0.1"}
    HighVolume = 1
    NoReply = NoReply
    \* OrchestratorRollback
    OpIds = {"i1", "i2"}
    TargetCounts = {0, 3}
    RollbackBatch = 2
    MaxOps = 2
    \* OrchestratorBuild
    Builders = {b1, b2}
    Plans <- MCPlans
    Templates = {"drop_egress_by_cgroup", "deny_syscall_for_cgroup"}
    MaxSecond = 1
    MaxBuilds = 2
    NoArtifact = NoArtifact
    \* PlatformAgents
    EventCap = 1
    Requests = {q1, q2}
    AskedAgents = {"control_designer", "pack_author", "nobody"}
    ProviderIds = {"local", "openai"}
    NamedCandidates = {"c1"}
    AuditCap = 1
    RunCap = 2
    MaxRuns = 2
    MaxSettings = 2
    NoRun = NoRun
SYMMETRY Symmetry
CHECK_DEADLOCK FALSE
INVARIANTS
    DecisionsSound
    SerialSettles
    PlansSound
    ConfigSound
    SegmentsSound
    RollbacksSound
    BuildsSound
    HarnessSound
