CONSTANTS
    Tokens = {t1, t2}
    Users = {u1}
    Capabilities <- MCCapabilities
    Proposals = {p1}
    Operations = {o1}
    Versions = {v1, v2}
    Calls = {k1, k2}
    Evidence = {e1, e2, e3}
    Kinds <- MCAllKinds
    MaxReceipts = 1
    None = None
SPECIFICATION Spec
SYMMETRY MCSymmetry
INVARIANTS
    OneSender
    AssignmentRecorded
    RecordTrue
PROPERTIES
    WithdrawnNeverSent
    KnowledgeSpec
