SPECIFICATION AuthSpec
CONSTANTS
    Account = {a1}
    Session = {s1, s2}
    Request = {r1}
    Password = {p1, p2}
    Lifetime = 2
    Skew = 1
    MaxTime = 1
    None = None
CHECK_DEADLOCK FALSE
SYMMETRY Symmetry
INVARIANTS
    AuthInv
    LocksAreSound
    NoTokenWithoutSession
PROPERTIES
    CreatedOnlyWhileEligible
    LastLoginAdvances
    RecordedWithCurrentPassword
