CONSTANTS
    Cases = {c1}
    Proposals = {p1, p2}
    Operations = {o1, o2}
    Users = {u1}
    Workers = {w1, w2}
    CaseOf <- MCCaseOf
    Revisions <- MCOneRevision
    Kinds <- MCNoKinds
    MaxReceipts = 0
    None = None
SPECIFICATION Spec
SYMMETRY MCSymmetry
INVARIANTS
    RowsCoherent
    SentAtMostOnce
    RejectionRecordable
    OneOperationPerProposal
PROPERTIES
    KnowledgeSpec
