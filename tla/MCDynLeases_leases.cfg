SPECIFICATION FairSpec
CONSTANTS
    None = None
    u1 = u1
    p1 = p1
    User <- Users
    Provider <- Providers
    Lease = {l1, l2}
    Role = {b1, b2}
    Handler = {h1, h2}
    Offered <- Memberships
    Second = 2
    Skew <- Clocks
    MaxTTL = 1
    MaxTime = 4
    Faults = TRUE
INVARIANTS
    LeaseTypeOK
    LeasesAreLogins
PROPERTIES
    LeasesEnd
CHECK_DEADLOCK FALSE
