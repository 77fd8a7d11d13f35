\* Two overlapping requests of the page, one of which may be lost.
CONSTANTS
    Null = Null
    Calls = {c1, c2}
    Duration = 2
    Skews <- SomeSkews
    MaxNow = 3
    MaxFaults = 1
SPECIFICATION FairSpec
INVARIANTS
    TypeOK
    NeverShort
    ZeroFindsItClosed
    ActionsShowTheirEffect
PROPERTIES
    ClosedIsShown
