\* Every authority, fair passes, one crash and one fault that then stop.
CONSTANTS
    Uuids = {"a", "b"}
    Outboxes = {"mail", "post", "shut", "gone", "news"}
    Listing <- EveryListing
    Authority <- EveryAuthority
    Class <- AllOk
    Programs <- PlainPrograms
    Attempts = 2
    Lost = FALSE
    MaxFaults = 1
    MaxCrashes = 1
    MaxSubmits = 2
SPECIFICATION FairSpec
PROPERTIES IntentSettles
\* With its bounds spent and every outbox empty the system rests.
CHECK_DEADLOCK FALSE
