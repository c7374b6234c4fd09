SPECIFICATION FairSpec
CONSTANTS
    None = None
    System = System
    owner = owner
    approver = approver
    agent = agent
    shared = shared
    private = private
    User = {owner}
    Agent = {}
    Secret = {shared}
    RequestId = {q1}
    SessionId = {x1}
    Worker = {h1, h2}
    Owner <- MCOwner
    Legacy <- MCLegacy
    Member <- MCMember
    Approvers <- MCNone
    Policy <- LoudPolicies
    Default <- Tier3
    Duration = {0}
    Day = 2
    LinkTTL = 1
    MaxTime = 2
    MaxUses = 0
    Faults = TRUE
PROPERTIES
    ApprovedGetsSession
CHECK_DEADLOCK FALSE
