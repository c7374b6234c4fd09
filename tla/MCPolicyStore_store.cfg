SPECIFICATION Spec
CONSTANTS
    None = None
    Project = Project
    s1 = s1
    Template = {t1, t2}
    Secret = {s1}
    Agent = {a1}
    Request = {r1}
    Handler = {h1, h2}
    TypeOf <- Typed
    Name <- TwoNames
    Seeds <- OneSeed
    Input <- Inputs
    Override <- Overrides
    Custom <- Customs
    Tries <- Boundaries
    MaxVersion = 2
    Faults = TRUE
SYMMETRY Symmetry
INVARIANTS
    PolicyTypeOK
    BindingResolves
    UnwarnedIsStricter
    SnapshotTraceable
    PermissionKept
CONSTRAINT Focus
CHECK_DEADLOCK FALSE
