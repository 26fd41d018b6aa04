CONSTANTS
    Attempts = {a1, a2, a3}
    Calls = {1}
    Batch <- FirstGated
    Inputs = {"m"}
    Reasons = {"no", "later"}
    Messages <- OneMessage
SYMMETRY AttemptSymmetry
SPECIFICATION Spec
INVARIANT ConflictMeansDifferent
