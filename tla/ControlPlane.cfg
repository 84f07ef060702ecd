\* One subject per behaviour; the bounds are those of each component.
SPECIFICATION SuiteSpec
CONSTANTS
    \* SnapshotFile
    Writers = {w1, w2}
    Contents = {c1, c2}
    Inodes = {i1, i2, i3, i4}
    None = None
    Empty = Empty
    Torn = Torn
    \* AgentRegistry
    d1 = d1
    h1 = h1
    Devices = {d1}
    HostNames = {h1}
    HostOf <- MCHostOf
    Callers = {x1, x2}
    Labels = {l1}
    Messages = {m1}
    ReachableFor = 1
    MaxClock = 1
    MaxPending = 2
    NoKey = NoKey
    UidRank <- MCUidRank
    PageSizes = {1, 2}
    \* PlatformState, PlatformCandidates
    EventCap = 1
    ResearchIds = {"s1", "s3"}
    SeedItems <- MCSeedItems
    SentStatuses = {"ready_for_pack"}
    GateFields = {"reviewer_notes"}
    ResearchCap = 2
    CandidateCap = 1
    SimCap = 1
    MaxCandidates = 2
    NoCandidate = NoCandidate
    \* PlatformBundles
    BundleDevices = {"d1", "d2"}
    StageRequests <- MCStageRequests
    ReportedStatuses = {"accepted", "stale"}
    BundleContents = {"x", "y"}
    MatchCap = 1
    BundleCap = 1
    MaxBundles = 2
    \* PlatformDrafts
    DraftIds = {"x"}
    DraftStatuses = {"draft_archived"}
    Scopes = {"s1"}
    SentParts <- MCSentParts
    SimDevices = {"d1", "d2"}
    HistoryCap = 2
    SimulationCap = 1
    MaxDrafts = 2
    DefaultScope = "all"
    NoMatches = NoMatches
    \* BpfRegistry
    RegWorkers = {v1, v2}
    ArtIds = {a1}
    RegHosts = {"h1", "h2"}
    HostLists <- MCHostLists
    MaxRegOps = 4
    MaxRegCrashes = 1
    MaxWriteFaults = 1
    NoFile = NoFile
    NoOp = NoOp
    \* TelemetrySender
    TelemetryCap = 2
    MaxTelemetry = 5
    \* RuleEval
    EvidencePool <- MCPool
    RuleClauses <- MCClauses
    MaxNesting = 1
    MaxEvidence = 4
    NoGuid = NoGuid
    \* Ingest
    e1 = e1
    e2 = e2
    e3 = e3
    EventIds = {e1, e2, e3}
    Handlers = {y1, y2}
    BadEvents = {e3}
    Batches <- MCBatches
    TrackerLimit = 1
    Anonymous = {e1}
    MaxLines = 1
    MaxKills = 1
    MaxRequests = 3
    MaxStoreFaults = 1
    \* FleetReadiness
    OnlineFor = 1
    HeartbeatWarn = 2
    EventsWarn = 3
    OfflineAfter = 4
    HeartbeatBad = 5
    EventsBad = 6
    PackOld = 6
    AgeCap = 7
    Never = Never
CHECK_DEADLOCK FALSE
INVARIANTS
    RegistrySound
    
    DraftsSound
    ArtifactsSound
    TelemetrySound
    IngestSound
PROPERTIES
    SerialPersistIsSafe
    BundlesSound
    MatchesSound
    ReadinessSound
