\* Two overlapping requests, of one student or of two, around the deadline.
CONSTANTS
    q1 = q1
    q2 = q2
    Null = Null
    Users = {u1, u2}
    Questions = {q1}
    SubIds = {s1}
    Handlers = {h1, h2}
    Workers = {w1}
    Ops = {"start", "read", "submit", "finish"}
    Kinds = {"submit"}
    CaseCount <- CasesForAll
    Verdicts = {"accepted"}
    Duration = 1
    MaxNow = 1
    MaxFaults = 0
SYMMETRY Interchangeable
SPECIFICATION Spec
INVARIANTS
    TypeOK
    AnswersTellTheTruth
    LateIsPractice
PROPERTIES
    AttemptIsOnce
    OthersKeepTheirAttempt
    FinishIsFinal
