SPECIFICATION Spec
CONSTANTS
    None = None
    h1 = h1
    h2 = h2
    c1 = c1
    c2 = c2
    s1 = s1
    s2 = s2
    u1 = u1
    u2 = u2
    u3 = u3
    u4 = u4
    User = {u1, u2, u3, u4}
    Customer = {c1, c2}
    Sub = {s1, s2}
    Handler = {h1, h2}
    Offered = {"admin"}
    MaxOrgs = 2
    MaxEvents = 3
    MaxPending = 1
    Faults = TRUE
SYMMETRY Symmetry
CONSTRAINT Focus
INVARIANTS
    OrgTypeOK
    PlanIsStripes
    PlanWasPaid
    FewPending
CHECK_DEADLOCK FALSE
