SPECIFICATION QuestionsSpec
CONSTANTS
    Keys = {"k1", "k2", "k3"}
    Docs <- MCDocs
    Names <- MCNames
    Fold <- MCFold
    Within <- MCWithin
    None = None
    Null = Null
    NoId = NoId
    MaxCalls = 3
    Paths = {"p", "q"}
    Versions = {"short", "bad", "long"}
    Size <- MCSize
    Convertible <- MCConvertible
    Limit = 1
    MaxWrites = 3
    MaxPasses = 3
    MaxDeaths = 1
    Runners = {"loop", "once"}
    Files = {"p"}
    Retain = 1
    MaxSeconds = 2
    MaxCycles = 2
    MaxOps = 2
    MaxEnds = 1
    Refused = Refused
    NotFound = NotFound
INVARIANTS  RecordsKeepUp   NamesResolve
PROPERTIES BatchesAreExact ReportsAreExact
CHECK_DEADLOCK FALSE
