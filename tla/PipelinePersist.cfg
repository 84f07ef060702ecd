SPECIFICATION Spec
CONSTANTS
    Handlers = {r1, r2}
    Research = {ri}
    Cands = {c1}
    Runs = {v1}
    Packs = {p1}
    Persistent = TRUE
    MaxFaults = 1
    Inodes = {i1, i2, i3, i4}
    None = None
    Empty = Empty
    Torn = Torn
CHECK_DEADLOCK FALSE
VIEW View
SYMMETRY Symmetry
INVARIANTS
    RefsSound
    ReviewSound
