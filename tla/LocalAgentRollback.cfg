\* Loads, unloads and reports at once; the queue is often full.
SPECIFICATION RollbackFairSpec
CONSTANTS
    a1 = a1
    w1 = w1  w2 = w2
    u1 = u1  u2 = u2
    Arts = {a1}
    Workers = {w1, w2}
    Updaters = {u1, u2}
    MaxPrograms = 1
    None = None
    MaxQueue = 1
    MaxCalls = 1
    MaxReports = 2
PROPERTIES
    BadProgramsGo
