CONSTANTS
    Targets <- TwoTargets
    Addressed = {"agent-server"}
    MaxCA = 2
    MaxFaults = 2
SPECIFICATION Spec
PROPERTIES
    TrustRestored
    CopiesFollow
    TrustIsKept
