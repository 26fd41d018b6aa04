SPECIFICATION Spec
CONSTANTS
    Requests <- MCRequests
    AutoTools = {"search"}
    MaxPauses = 1
    MaxRetries = 1
    MaxEvents = 2
INVARIANT LaterOnly
CHECK_DEADLOCK FALSE
