CONSTANTS
    Requests = {r1, r2}
    Emails = {"root", "ann"}
    InitialAdmin = "root"
    MaxRegistrations = 1
    MaxLinks = 2
    MaxRequests = 5
SYMMETRY RequestSymmetry
SPECIFICATION Spec
INVARIANTS
    RevokedStaysRevoked
CHECK_DEADLOCK FALSE
