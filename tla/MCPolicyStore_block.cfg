SPECIFICATION Spec
CONSTANTS
    None = None
    Project = Project
    s1 = s1
    Template = {t1}
    Secret = {s1}
    Agent = {a1}
    Request = {r1}
    Handler = {h1}
    TypeOf <- Typed
    Name <- TwoNames
    Seeds <- OneSeed
    Input <- Inputs
    Override <- Overrides
    Custom <- Customs
    Tries <- Boundaries
    MaxVersion = 1
    Faults = FALSE
INVARIANT CustomObeyed
CONSTRAINT Focus
CHECK_DEADLOCK FALSE
