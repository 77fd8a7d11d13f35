\* Two executions, nothing breaks.
CONSTANTS
    Null = Null
    Subs = {s1, s2}
    Verdicts = {"accepted"}
    Slots = {k1, k2}
    MaxPolls = 2
    MaxTimers = 2
    MaxDrops = 0
SPECIFICATION Spec
INVARIANTS
    ShowsOwnStatus
