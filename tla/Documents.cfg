CONSTANTS
    MaxFiles = 2
    Contents = {"a"}
    Searchers = {s1}
    MaxFaults = 1
SPECIFICATION Spec
INVARIANTS
    ObjectsFollowRows
    ProcessingIsAttended
    FailedUploadLeavesNothing
    CacheIsCurrent
CHECK_DEADLOCK FALSE
