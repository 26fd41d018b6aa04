CONSTANTS
    Attempts = {a1, a2}
    Calls = {1}
    Batch <- FirstGated
    Inputs = {"m", "x"}
    Reasons = {"no", "later"}
    Messages <- TwoMessages
SPECIFICATION FairSpec
PROPERTIES
    AttemptsSettle
    RunningIsFinished
