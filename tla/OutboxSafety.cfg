\* Crashes, faults and resubmission over two uuids; replies excluded.
CONSTANTS
    Uuids = {"a", "b"}
    Outboxes = {"mail", "news"}
    Listing <- MCListing
    Authority <- MCAuthority
    Class <- Mixed
    Programs <- PlainPrograms
    Attempts = 2
    Lost = FALSE
    MaxFaults = 2
    MaxCrashes = 2
    MaxSubmits = 3
SPECIFICATION Spec
INVARIANTS NoIntentLost DispatchesOwnIntent AtMostOneDraft ReceiptsAndCounts
PROPERTIES NeverDispatchedTwice ImplementsLedger
\* With its bounds spent and every outbox empty the system rests.
CHECK_DEADLOCK FALSE
