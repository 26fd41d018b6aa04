CONSTANTS
    Workers = {w1, w2}
    Keys = {k1}
    Quota = 1
    RpmLimit = 1
    MaxCost = 1
    MaxCalls = 2
    MaxMinute = 2
    MaxEvents = 1
SPECIFICATION FairSpec
INVARIANTS
    SingleFlight
    QuotaOvershoot
    RpmHolds
PROPERTIES
    LockIsNotStolen
    CallsEnd
    LockIsFreed
