CONSTANTS
    h1 = h1
    h2 = h2
    Handlers = {h1, h2}
    Enabled <- Both
    TTL = 1
    LookupTimeout = 1
    MaxChanges = 1
SPECIFICATION Spec
INVARIANT FirstMatchWins
PROPERTIES
    StaleForLessThanHorizon
    RequestsDecided
