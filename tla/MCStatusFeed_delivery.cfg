\* One execution; one thing may break, whenever and whatever it is.
CONSTANTS
    Null = Null
    Subs = {s1}
    Verdicts = {"accepted"}
    Slots = {k1, k2}
    MaxPolls = 2
    MaxTimers = 3
    MaxDrops = 1
\* The page may be left alone for ever.
CHECK_DEADLOCK FALSE
SPECIFICATION FairSpec
INVARIANTS
    TypeOK
PROPERTIES
    PollingEnds
    OpenFeedDelivers
