CONSTANTS
    Attempts = {a1, a2}
    Calls = {1, 2}
    Batch <- BothGated
    Inputs = {"m"}
    Reasons = {"no", "later"}
    Messages <- OneMessage
SPECIFICATION Spec
INVARIANTS
    DecidedTogether
    ToolsFollowRecord
SYMMETRY AttemptSymmetry
PROPERTIES
    ImplementsGate
