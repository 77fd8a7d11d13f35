\* Two workers and two overlapping requests, runs and submits; requests may fail
\* and workers may die.
CONSTANTS
    q1 = q1
    q2 = q2
    Null = Null
    Users = {u1}
    Questions = {q2}
    SubIds = {s1, s2}
    Handlers = {h1, h2}
    Workers = {w1, w2}
    Ops = {"start", "submit"}
    Kinds = {"run", "submit"}
    CaseCount <- HiddenCasesOnly
    Verdicts = {"accepted", "tle"}
    Duration = 1
    MaxNow = 0
    MaxFaults = 2
SPECIFICATION FairSpec
INVARIANTS
    SingleCustody
    HeldAsExpected
PROPERTIES
    ImplementsLifecycle
    JudgedUnlessFault
    QueueDrains
