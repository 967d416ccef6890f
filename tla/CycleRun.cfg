\* One failure and one death anywhere, and any number of restarts.
CONSTANTS
    Extractors <- MCExtractors
    Interval <- MCInterval
    PageCap = 1
    Hooks = 1
    Ceiling = 1
    Modes <- MCModes
    Restarts = TRUE
    MaxFeed <- MCMaxFeed
    MaxFaults = 1
    MaxCrashes = 1
SPECIFICATION FairSpec
INVARIANTS NothingSkipped ReportedUnlessDied RecordBeforeHooks 
PROPERTY EventuallyMirrored
