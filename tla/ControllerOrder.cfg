SPECIFICATION Spec
CONSTANTS
    PackIds = {p1, p2}
    Cores <- MCCoresMixed
    Tags = {""}
    Agents <- MCAgents
    MinVersions <- MCOne
    OSSets <- MCLinux
    Allowed = {}
    MaxArts = 3
    None = None
CHECK_DEADLOCK FALSE
INVARIANT HigherSemverPreferred
