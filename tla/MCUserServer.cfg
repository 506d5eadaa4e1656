CONSTANTS
    Clusters = {c1}
    Handlers = {h1}
    Requests <- FewRequests
    ConfigMaps <- FewConfigMaps
    Malformed = Malformed
    Wildcard = Wildcard
    Absent = Absent
    MaxChanges = 2
    MaxNotices = 1
    MaxTransports = 3
SPECIFICATION Spec
INVARIANTS
    MembershipTracksAddons
    AllowlistIsLastKnownGood
PROPERTIES
    PolicyChecksWhatIsDialled
    PoolUsedAsSpecified
    WatchersConverge
CHECK_DEADLOCK FALSE
