SPECIFICATION MirrorsSpec
CONSTANTS
    Kinds = {"onedrive", "sharepoint", "contacts", "directory"}
    ItemSeq <- MCItems
    GroupsOf <- MCGroups
    FeedsIn <- MCFeeds
    FeedOf <- MCFeedOf
    DocsOf <- MCDocs
    FirstDocs <- MCFirstDocs
    ManagerOf <- MCManager
    OnlyActive = TRUE
    PageCap = 1
    MaxEdits = 2
    MaxFaults = 1
    Unborn = Unborn
    Gone = Gone
    Unmade = Unmade
    Deleted = Deleted
    Nowhere = Nowhere
    Events = {"e1", "e2"}
    EventDocs <- MCEventDocs
    Back = 1
    Forward = 1
    Cap = 1
    LastDay = 3
    MaxChanges = 2
    MaxDeaths = 1
    Unwritten = Unwritten
    MaxPosts = 3
    AttachmentLists <- MCAttachmentLists
    Images = {"0"}
INVARIANTS RecordsLeadToPages WhatIsKeptIsFound
PROPERTIES EventuallyMirrored MediaStays
CHECK_DEADLOCK FALSE
