\* A message and its copy, or the id it gets when it is moved; one of each fault.
CONSTANTS
    Folders <- MCFolders
    Ids = {"a1", "a2"}
    KeyOf <- MovedKeyOf
    PageCap = 1
    MaxAborts = 1
    MaxForgets = 1
    MaxTouches = 1
SPECIFICATION FairSpec
INVARIANTS  DeletionsPropagate
PROPERTIES EventuallyFollows
