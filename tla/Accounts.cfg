CONSTANTS
    Requests = {r1, r2}
    Emails = {"root", "ann"}
    InitialAdmin = "root"
    MaxRegistrations = 2
    MaxLinks = 2
    MaxRequests = 5
SYMMETRY RequestSymmetry
SPECIFICATION Spec
INVARIANTS
    RevocationHolds
    LinkIsSpent
PROPERTIES
    ReplacedLinkIsDead
    AdminRemains
CHECK_DEADLOCK FALSE
