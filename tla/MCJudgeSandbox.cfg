\* A catalogue question, and one with more cases than the host waits for.
CONSTANTS
    Null = Null
    Jobs = {j1}
    CaseCounts = {1, 5, 8}
    Executors = {"docker", "local"}
    CompileLimit = 2
    RunLimit = 1
    HostLimit = 9
    DelayCap = 2
CHECK_DEADLOCK FALSE
SPECIFICATION FairSpec
INVARIANTS
    TypeOK
    VerdictsAreEarned
    CatalogueFitsHost
    LeftoversHaveAReason
PROPERTIES
    JudgingEnds
    ContainersEnd
