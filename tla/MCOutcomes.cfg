CONSTANTS
    Cases = {c1}
    Proposals = {p1}
    Operations = {o1}
    Users = {u1}
    Workers = {w1, w2}
    CaseOf <- MCCaseOf
    Revisions <- MCOneRevision
    Kinds <- EvidenceKinds
    MaxReceipts = 1
    None = None
SPECIFICATION FairSpec
INVARIANTS
    TypeOK
    RecordTrue
    EvidenceFollowsAssignment
PROPERTIES
    NothingForgotten
    DispatchSettles
