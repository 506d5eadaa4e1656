CONSTANTS
    Timeout = 4
    DeprogramDelay = 1
    MaxRequests = 2
SPECIFICATION Spec
INVARIANTS
    PlannedStopRefusesNobody
    DrainWithinTimeout
    NilMeansCleanStop
PROPERTIES
    ImplementsLifecycle
    StopsWhenCancelled
    FailureStops
CHECK_DEADLOCK FALSE
