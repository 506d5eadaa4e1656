CONSTANTS
    FailureThreshold = 2
    MaxChanges = 3
    MaxCrashes = 1
SPECIFICATION Spec
INVARIANT HealthyMeansCurrent
PROPERTIES
    RotationsTakeEffect
    ChangesRestart
