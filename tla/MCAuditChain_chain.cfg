SPECIFICATION FairSpec
CONSTANTS
    None = None
    lower = lower
    upper = upper
    header = header
    rendered = rendered
    mixed = mixed
    netip = netip
    inet = inet
    Writer = {w1, w2}
    Id = {lower, upper, agentTag}
    Uuid = {lower, upper}
    UuidText <- MCUuidText
    IP = {None, header, rendered, mixed, netip, inet}
    CanonicalIP <- MCCanonicalIP
    Inet <- MCInet
    MonthLen <- MCMonthLen
    InitParts <- MCNoMonth
    StartDates <- MCStartDates
    MaxOld = 1
    MaxLog = 2
    MaxMonth = 2
    Faults = TRUE
INVARIANTS
    AuditTypeOK
    OnlyMisspeltFail
    TamperEvident
    PartitionsAhead
PROPERTIES
    EveryLogEnds
    ImplementsTrail
CHECK_DEADLOCK FALSE
