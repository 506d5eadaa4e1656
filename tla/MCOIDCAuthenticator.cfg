CONSTANTS
    b1 = b1
    b2 = b2
    text = text
    noEntry = noEntry
    SystemRoots = SystemRoots
    Missing = Missing
    q1 = q1
    Bundles = {b1, b2, text}
    Trusted = {b1, SystemRoots}
    Unparsable = {text}
    Invalid = {noEntry}
    Requests = {q1}
    MaxRotations = 3
SPECIFICATION OIDCSpec
INVARIANTS
    PublishedIsCurrent
    AtMostOneLive
    AnswersAreDefinitive
PROPERTY FollowsConfigMap
