CONSTANTS
    Cases = {c1}
    Proposals = {p1, p2}
    Operations = {o1}
    Users = {u1, u2}
    Workers = {w1}
    CaseOf <- MCCaseOf
    Revisions <- MCRevisions
    Kinds <- MCNoKinds
    MaxReceipts = 0
    None = None
SPECIFICATION Spec
SYMMETRY MCSymmetry
PROPERTIES
    DoomedStaysDoomed
