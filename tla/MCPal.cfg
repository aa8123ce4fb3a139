SPECIFICATION FairSpec
CONSTANTS
    None = None
    SourceItems <- MCSourceItems
    PolicyUntil = 9
    Listings <- MCListings
    MaxTime = 3
    MaxDescriptors = 256
    OmissionTokens = 1
    ResidualTokens = 1
    MaxSkillCalls = 6
    MaxContextTokens = 14
    MaxLatency = 2
    MaxCost = 52
    AllowedSkills <- MCAllowed
    Reports <- MCReports
    Payloads <- MCPayloads
INVARIANTS
    PreparedIsSound
    HandedOverIsPrepared
    TraceTrue
    WithinBudget
    AssemblyAgrees
    EnvelopeHonest
PROPERTIES
    AcceptedWhileCurrent
    ResultStands
    RunEnds
CHECK_DEADLOCK FALSE
