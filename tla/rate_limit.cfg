SPECIFICATION RateSpec
CONSTANTS
    Attempt = {n1, n2, n3, n4}
    Client = {c1, c2}
    MaximumAttempts = 2
    WindowSeconds = 1
    TicksPerSecond = 4
    LastTick = 5
    None = None
SYMMETRY Symmetry
CHECK_DEADLOCK FALSE
INVARIANTS
    LimitPerWindow
    CountingIsSound
PROPERTIES
    WindowIsFixed
