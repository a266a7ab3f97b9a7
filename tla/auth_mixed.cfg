SPECIFICATION FairAuthSpec
CONSTANTS
    Account = {a1}
    Session = {s1}
    Request = {r1, r2}
    Password = {p1, p2}
    Lifetime = 2
    Skew = 0
    MaxTime = 2
    None = None
CHECK_DEADLOCK FALSE
INVARIANTS
    ContinuesAfterLogin
PROPERTIES
    ImplementsSessionFamily
    AllAnswered
