SPECIFICATION Spec
CONSTANTS
    Cycle = "cycle"
    Cli = "cli"
    Files = {"m365/a", "notes/b"}
    RootSeq <- MCRootSeq
    RootOf <- MCRootOf
    Place <- MCPlace
    Disks <- MCDisks
    Contents <- MCContents
    Natural <- MCNatural
    Fallback <- MCFallback
    BatchSize = 1
    WriteBatch = 2
    None = None
    TornReads = FALSE
    Budgets <- MCBudgets
INVARIANT IndexMirrors
PROPERTIES  UndisturbedSyncCompletes
