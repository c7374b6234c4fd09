SPECIFICATION Spec
CONSTANTS
    None = None
    User = {u1}
    Token = {t1, t2, t3, t4}
    ResetToken = {r1}
    Code = {c1, c2}
    Worker = {h1, h2}
    MaxAttempts = 1
    Batch = 1
    MaxPassword = 1
    MaxToggle = 2
    Crashes = TRUE
    Lossy = TRUE
SYMMETRY Symmetry
INVARIANTS
    AuthTypeOK
    RotatedOut
    LockoutHolds
    CodeOnce
    SessionsEndAlone
PROPERTIES
    SecondFactor
CONSTRAINT Focus
CHECK_DEADLOCK FALSE
