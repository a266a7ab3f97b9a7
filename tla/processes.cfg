SPECIFICATION ProcessSpec
CONSTANTS
    Tasks = {r1, r2}
    Probes = {r1, r2}
    StartTask = StartTask
    MaxPool = 1
    QueueNames = {q1, q2, q3}
    MaxEdits = 2
CHECK_DEADLOCK FALSE
INVARIANTS
    ApiClosesInOrder
    WorkerClosesInOrder
    ConfigurationIsSafe
PROPERTIES
    NeverReadyAfterShutdown
    ReadyMeansConsuming
    ApiEnds
    SignalEnds
    RepairsEnd
