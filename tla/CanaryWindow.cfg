\* One request through the HTTP handler.
SPECIFICATION Spec
CONSTANTS
    r1 = r1  r2 = r2
    Reqs = {r1}
    Single = {}
    Http = {r1}
    MaxSecond = 0
    MaxFaults = 0
    None = None
CHECK_DEADLOCK FALSE
INVARIANT WindowKept
