SPECIFICATION Spec
CONSTANTS
    Requests <- MCRequests
    AutoTools = {"search"}
    Tabs = {t1, t2}
    Users = {"ann", "bob"}
    Stores <- MCStores
    Opened = {{t1}, {t1, t2}}
    Threads = {"h1", "h2"}
    Mounted = {"mnt"}
    Imports = {"i1"}
    Current = "m1"
    Folders <- MCFolders
    Models = {"m1", "m2"}
    Vision = {"m2"}
    Lists <- MCLists
    Picks <- MCPicks
    Tools = {"g", "a"}
    Gated = {"g"}
    Errors <- MCErrors
    Members = {"root", "ann"}
    Self = "root"
    Uploads <- MCUploads
    Spans = {"s1"}
    Bound <- MCBound
INVARIANTS
    TypeOK
    NothingStaysBusy
    DecidedAsSeen
    DecidedHere
    BuriedStayHidden
    BoxFitsModel
    SentWhereAdded
    PauseIsShownOnce
    TurnsAnswered
    RunIsSeen
PROPERTIES
    KnownAccountsKept
    CopyKeptWhileRunning
CHECK_DEADLOCK FALSE
