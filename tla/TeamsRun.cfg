\* Both extractors, a message, its reply and a system event; one fault of each kind.
CONSTANTS
    Extractors = {"teams_chats", "teams_channels"}
    Conversations <- MCConversations
    Messages = {"a", "b", "x"}
    ConversationOf <- MCConversationOf
    RootOf <- MCRootOf
    Noise = {"x"}
    Late = {}
    PageSize = 1
    WindowPages = 1
    BackfillPages = 2
    BackfillTotal = 2
    MaxStamp = 3
    MaxFaults = 1
    MaxAborts = 1
    MaxLosses = 1
SPECIFICATION FairSpec
INVARIANTS NothingBehindTheWatermark StoreVouches
PROPERTY EventuallyMirrored
