SPECIFICATION HealthySpec
CONSTANTS
    Attempt = {n1, n2, n3, n4}
    Client = {c1}
    MaximumAttempts = 2
    WindowSeconds = 1
    TicksPerSecond = 4
    LastTick = 4
    None = None
SYMMETRY Symmetry
CHECK_DEADLOCK FALSE
INVARIANTS
    SixthIsLimited
