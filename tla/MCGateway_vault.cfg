SPECIFICATION Spec
CONSTANTS
    None = None
    Host = Host
    Path = Path
    Secret = {s1}
    Key = {k1, k2}
    Writer = {w1, w2}
    Faults = TRUE
    Agent = {a1, a2}
    AgentToken = {t1}
    Route = {r1, r2}
    Endpoint <- Ends
    TunnelEnd = Host
    Pattern <- WholeAndPath
    Call = {c1}
    MaxLimits = 2
SYMMETRY Symmetry
INVARIANTS
    GatewayTypeOK
    ReadableUnlessHurt
    InjectsOwnLive
    BlockHolds
CONSTRAINT Focus
CHECK_DEADLOCK FALSE
