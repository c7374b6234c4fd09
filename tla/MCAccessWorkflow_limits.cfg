SPECIFICATION Spec
CONSTANTS
    None = None
    System = System
    owner = owner
    approver = approver
    agent = agent
    shared = shared
    private = private
    User = {owner}
    Agent = {agent}
    Secret = {shared}
    RequestId = {q1, q2, q3}
    SessionId = {x1}
    Worker = {h1, h2}
    Owner <- MCOwner
    Legacy <- MCLegacy
    Member <- MCAgentsOnly
    Approvers <- MCNone
    Policy <- LimitPolicies
    Default <- Daily
    Duration = {0}
    Day = 1
    LinkTTL = 1
    MaxTime = 2
    MaxUses = 0
    Faults = TRUE
SYMMETRY Symmetry
INVARIANTS
    RequestLimits
CHECK_DEADLOCK FALSE
