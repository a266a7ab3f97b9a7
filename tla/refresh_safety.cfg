SPECIFICATION Spec
CONSTANTS
    Account = {a1}
    Session = {s1}
    Request = {r1, r2, r3}
    Lifetime = 2
    Skew = 1
    MaxTime = 2
    None = None
SYMMETRY Symmetry
CHECK_DEADLOCK FALSE
INVARIANTS
    SingleSuccessor
    ReuseIsGenuine
    ExpiryIsAbsolute
    RotationPassesCheck
    ContinuesUnlessLost
    Inv
PROPERTIES
    ReuseStands
    WrittenOnlyWhileEligible
    ImplementsSessionFamily
