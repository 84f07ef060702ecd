\* One subject per behaviour; the bounds are those of each component.
SPECIFICATION SuiteSpec
CONSTANTS
    \* PackController
    PackIds = {p1, p2}
    Cores <- MCCoresMixed
    Tags = {""}
    Agents <- MCAgents
    MinVersions <- MCMinVersions
    OSSets <- MCLinux
    Allowed = {p1}
    MaxArts = 3
    None = None
    \* WebsocketGateway over AgentRegistry
    d1 = d1
    d2 = d2
    h1 = h1
    h2 = h2
    Devices = {d1, d2}
    HostNames = {h1, h2}
    HostOf <- MCHostOf
    Sessions = {s1, s2}
    Callers = {s1, s2, http}
    Labels = {}
    Messages = {m1}
    ReachableFor = 1
    MaxBeats = 1
    MaxConnections = 2
    MaxPending = 1
    MaxClock = 0
    NoKey = NoKey
    UidRank <- MCUidRank
    PageSizes = {1, 2}
    Nobody = Nobody
    \* CorrelatorEval
    Callbacks = {c1, c2}
    EvHosts = {"h1"}
    EvTypes = {"exec", "connect"}
    EvLabels = {"l1"}
    RuleList <- MCRuleList
    Snapshots <- MCSnapshots
    Overridable = {"low"}
    MaxAge = 1
    LabelTTL = 1
    MaxFindings = 2
    DedupeCap = 3
    MaxTime = 2
    MaxArrivals = 2
    MaxOverrides = 1
    NoLabels = NoLabels
    \* CorrelatorForward
    Incoming <- MCIncoming
    FwdRules <- MCFwdRules
    MaxOutages = 1
    NoHostId = NoHostId
CHECK_DEADLOCK FALSE
INVARIANTS
    SelectionSound
    GatewaySound
    FindingsSound
    ForwardingSound
