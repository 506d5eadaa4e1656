CONSTANTS
    Clusters = {c1, c2}
    Getters = {g1, g2}
    MaxTransports = 3
SPECIFICATION Spec
INVARIANTS
    CachedImpliesAllowed
    NoTransportLost
PROPERTY ImplementsContract
PROPERTIES
    EvictedGetClosed
