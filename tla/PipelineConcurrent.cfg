\* Two validations and two signings by two handlers, without persistence.
SPECIFICATION FairSpec
CONSTANTS
    Handlers = {r1, r2}
    Research = {ri}
    Cands = {c1}
    Runs = {v1, v2}
    Packs = {p1, p2}
    Persistent = FALSE
    MaxFaults = 1
    Inodes = {i1}
    None = None
    Empty = Empty
    Torn = Torn
CHECK_DEADLOCK FALSE
PROPERTIES
    SigningSound
    ValidationConcludes
