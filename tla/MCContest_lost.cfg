\* One crash or failed request, under fair scheduling.
CONSTANTS
    q1 = q1
    q2 = q2
    Null = Null
    Users = {u1}
    Questions = {q1}
    SubIds = {s1}
    Handlers = {h1}
    Workers = {w1}
    Ops = {"start", "submit"}
    Kinds = {"submit"}
    CaseCount <- CasesForAll
    Verdicts = {"accepted"}
    Duration = 1
    MaxNow = 1
    MaxFaults = 1
SPECIFICATION FairSpec
PROPERTIES
    EveryoneIsJudged
