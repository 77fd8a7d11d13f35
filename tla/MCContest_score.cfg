\* Two overlapping requests while the one worker judges two solved problems.
CONSTANTS
    q1 = q1
    q2 = q2
    Null = Null
    Users = {u1}
    Questions = {q1, q2}
    SubIds = {s1, s2}
    Handlers = {h1, h2}
    Workers = {w1}
    Ops = {"start", "submit", "finish"}
    Kinds = {"submit"}
    CaseCount <- CasesForAll
    Verdicts = {"accepted"}
    Duration = 1
    MaxNow = 1
    MaxFaults = 0
SYMMETRY Interchangeable
SPECIFICATION Spec
INVARIANTS
    IndInv
    NoPhantomCredit
    OpenScoreExact
