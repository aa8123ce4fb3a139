CONSTANTS
    Vehicles = {"v1", "v2", "v3"}
    Works = {"w1", "w3"}
    Recovery = "recovery"
    Requests <- MCRequests
    Answers <- MCAnswers
    Garbage = Garbage
    None = None
SPECIFICATION FairSpec
INVARIANTS
    QuoteSound
    FaultsAreNotInfeasible
PROPERTIES
    QuoteEnds
CHECK_DEADLOCK FALSE
