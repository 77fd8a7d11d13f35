\* One execution, nothing breaks.
CONSTANTS
    Null = Null
    Subs = {s1}
    Verdicts = {"accepted"}
    Slots = {k1}
    MaxPolls = 2
    MaxTimers = 1
    MaxDrops = 0
\* The page may be left alone for ever.
CHECK_DEADLOCK FALSE
SPECIFICATION FairSpec
PROPERTIES
    ExecutionEnds
