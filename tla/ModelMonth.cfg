CONSTANTS
    Workers = {w1, w2}
    Keys = {k1}
    Quota = 3
    RpmLimit = 9
    MaxCost = 1
    MaxCalls = 4
    MaxMinute = 1
    MaxEvents = 1
SPECIFICATION Spec
INVARIANTS
    UsageIsKept
