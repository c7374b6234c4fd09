SPECIFICATION Spec
CONSTANTS
    None = None
    System = System
    owner = owner
    approver = approver
    agent = agent
    shared = shared
    private = private
    User = {owner, approver}
    Agent = {}
    Secret = {shared}
    RequestId = {q1}
    SessionId = {x1, x2}
    Worker = {h1, h2}
    Owner <- MCOwner
    Legacy <- MCLegacy
    Member <- MCApproverOnly
    Approvers <- MCApprovers
    Policy <- TierPolicies
    Default <- Quiet
    Duration = {0, 9}
    Day = 2
    LinkTTL = 2
    MaxTime = 2
    MaxUses = 2
    Faults = TRUE
SYMMETRY Symmetry
INVARIANTS
    TypeOK
    HumanInTheLoop
    OneSessionPerRequest
    RevokedIsDead
    ReleasesAsGranted
PROPERTIES
    ImplementsGrant
CHECK_DEADLOCK FALSE
