\* Two packs the agent can verify and one it cannot, offered in any order.
SPECIFICATION RolloutFairSpec
CONSTANTS
    Arts = {a, b, bad}
    Good = {a, b}
    MaxFaults = 2
    None = None
    Torn = Torn
INVARIANTS
    CacheSound
    OneFaultTolerated
PROPERTIES
    RecordSound
    Converges
    StatusConverges
