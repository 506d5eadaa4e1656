CONSTANTS
    r1 = r1
    r2 = r2
    r3 = r3
    Replicas = {r1, r2, r3}
    MaxDeletes = 2
    MaxRestarts = 2
SPECIFICATION SignerSpec
INVARIANTS
    SignersUseStoredCA
    ReplicasAgree
PROPERTY StoredCANeverReplaced
CHECK_DEADLOCK FALSE
PROPERTY EveryReplicaLoads
