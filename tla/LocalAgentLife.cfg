\* Two goroutines on three artifacts, one program allowed.
SPECIFICATION FairSpec
CONSTANTS
    a1 = a1  a2 = a2  a3 = a3
    w1 = w1  w2 = w2
    Arts = {a1, a2, a3}
    Workers = {w1, w2}
    MaxPrograms = 1
    None = None
INVARIANTS
    ProgramsSound
    OverrunBounded
PROPERTIES
    TTLEnforced
