SPECIFICATION FairSpec
CONSTANTS
    None = None
    System = System
    owner = owner
    approver = approver
    agent = agent
    shared = shared
    private = private
    User = {owner}
    Agent = {}
    Secret = {shared}
    RequestId = {q1}
    SessionId = {x1}
    Worker = {h1}
    Owner <- MCOwner
    Legacy <- MCLegacy
    Member <- MCMember
    Approvers <- MCNone
    Policy <- LoudPolicy
    Default <- Tier3
    Duration = {0}
    Day = 2
    LinkTTL = 1
    MaxTime = 2
    MaxUses = 1
    Faults = FALSE
PROPERTIES
    OneClickDecides
CHECK_DEADLOCK FALSE
