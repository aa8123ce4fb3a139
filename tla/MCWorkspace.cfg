CONSTANTS
    Cases = {home, other}
    Home = home
    Reports = {"blocked"}
    MaxProposals = 2
    MaxMoves = 2
    MaxSessions = 2
    MaxRevision = 3
    None = None
SPECIFICATION FairSpec
INVARIANTS
    TypeOK
    OneTaskAtATime
    ShownIsCurrent
    ReceiptBesideItsOperation
PROPERTIES
    OperationNeverGoesBack
    WaitsEnd
CHECK_DEADLOCK FALSE
