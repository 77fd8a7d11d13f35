\* Two seeds, one administrator, one student and the worker.
CONSTANTS
    Null = Null
    Seeders = {p1, p2}
    Catalogue <- CatalogueTitles
    Retired = {"retired"}
    CaseKeys <- CatalogueKeys
    OldKeys = {"old"}
    Starts <- AllStarts
    OtherAdmin = 1
    MaxId = 18
    MaxSeeds = 2
    MaxAdds = 1
    MaxSubs = 1
    MaxFaults = 1
SYMMETRY Interchangeable
SPECIFICATION Spec
CHECK_DEADLOCK FALSE
INVARIANTS
    TypeOK
    CatalogueComplete
    QuestionsComeWithCases
    JudgedOnCases
    NothingIsDoubled
    ReseedIsANoop
    WaitingEnds
PROPERTIES
    SeenSubmissionsSurvive
