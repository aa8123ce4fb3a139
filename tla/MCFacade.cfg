CONSTANTS
    Cases = {c1}
    Proposals = {p1, p2}
    Operations = {o1, o2}
    Users = {u1}
    Workers = {w1, w2}
    Sessions = {s1}
    Greenleaf = c1
    Dispatcher = u1
    Reports = {"confirmed_clear", "blocked"}
    MaxSecond = 1
    CaseOf <- MCCaseOf
    Revisions <- MCRevisions
    Kinds <- MCNoKinds
    MaxReceipts = 1
    None = None
SPECIFICATION FacadeSpec
SYMMETRY MCSymmetry
CONSTRAINT MCInQuestion
INVARIANTS
    OneRecoveryUnlessOvertaken
