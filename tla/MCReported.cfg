CONSTANTS
    Cases = {c1}
    Proposals = {p1}
    Operations = {o1}
    Users = {u1}
    Workers = {w1}
    Sessions = {s1}
    Greenleaf = c1
    Dispatcher = u1
    Reports = {"confirmed_clear", "blocked", "unknown"}
    MaxSecond = 1
    CaseOf <- MCCaseOf
    Revisions <- MCRevisions
    Kinds <- MCNoKinds
    MaxReceipts = 1
    None = None
SPECIFICATION FacadeSpec
PROPERTIES
    NoReservationOverReport
