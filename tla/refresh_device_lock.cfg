SPECIFICATION Spec
CONSTANTS
    Account = {a1}
    Session = {s1, s2}
    Request = {r1, r2}
    Lifetime = 2
    Skew = 0
    MaxTime = 1
    None = None
CHECK_DEADLOCK FALSE
INVARIANTS
    DeviceIndependence
