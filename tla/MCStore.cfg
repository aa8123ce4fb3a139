CONSTANTS
    Callers = {c1, c2}
    k1 = k1
    k2 = k2
    o1 = o1
    o2 = o2
    s1 = s1
    s2 = s2
    Candidates <- MCCandidates
    Keys <- MCKeys
    Operations <- MCOperations
    MaxAttempts = 2
    None = None
SPECIFICATION FairSpec
INVARIANTS
    HolderUndisturbed
    AnswersStand
PROPERTIES
    OrphanFailsSafe
    RegisterSpec
    CallsEnd
