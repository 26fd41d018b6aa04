CONSTANTS
    Attempts = {a1, a2}
    Calls = {1, 2}
    Batch <- FirstGated
    Inputs = {"m", "x"}
    Reasons = {"no", "later"}
    Messages <- OtherUngated
SYMMETRY AttemptSymmetry
SPECIFICATION Spec
INVARIANTS
    AtMostOnce
    ExecutedAsDecided
    RepliesAgree
    RepliesMatchPayload
PROPERTIES
    DecisionIsFinal
