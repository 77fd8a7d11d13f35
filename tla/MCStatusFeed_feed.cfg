\* Two executions of one page, in which polls may outlive their execution.
CONSTANTS
    Null = Null
    Subs = {s1, s2}
    Verdicts = {"accepted"}
    Slots = {k1}
    MaxPolls = 1
    MaxTimers = 2
    MaxDrops = 0
\* The page may be left alone for ever.
CHECK_DEADLOCK FALSE
SYMMETRY Interchangeable
SPECIFICATION Spec
INVARIANTS
    VerdictsAreStored
    SilentSocketIsCovered
PROPERTIES
    SocketInOrder
