CONSTANTS
    Cases = {home, other}
    Home = home
    Reports = {"blocked"}
    MaxProposals = 1
    MaxMoves = 1
    MaxSessions = 2
    MaxRevision = 3
    None = None
SPECIFICATION Spec
PROPERTIES
    NoRecoveryOverReport
CHECK_DEADLOCK FALSE
