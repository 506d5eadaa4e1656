CONSTANTS
    Conns = {c1}
    MaxRotations = 2
    MaxPodCrashes = 2
SPECIFICATION PodSpec
INVARIANTS
    ReturnReleases
    OldCertificateNoticed
PROPERTIES
    CopiesEnd
    HandlersReturn
    LeaseFollowsConnection
