\* A finish racing with two verdicts of the one worker.
CONSTANTS
    q1 = q1
    q2 = q2
    Null = Null
    Users = {u1}
    Questions = {q1, q2}
    SubIds = {s1, s2}
    Handlers = {h1}
    Workers = {w1}
    Ops = {"start", "submit", "finish"}
    Kinds = {"submit"}
    CaseCount <- CasesForAll
    Verdicts = {"accepted"}
    Duration = 1
    MaxNow = 0
    MaxFaults = 0
SYMMETRY Interchangeable
SPECIFICATION Spec
INVARIANTS
    SettledScoreExact
