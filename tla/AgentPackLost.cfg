SPECIFICATION Spec
CONSTANTS
    Arts = {a, b}
    Good = {a, b}
    MaxFaults = 1
    None = None
    Torn = Torn
INVARIANT VerifiedPackKept
