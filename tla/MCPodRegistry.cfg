SPECIFICATION Spec
CONSTANTS
    nm1 = nm1
    nm2 = nm2
    u1 = u1
    u2 = u2
    u3 = u3
    w1 = w1
    w2 = w2
    w3 = w3
    Names = {nm1, nm2}
    PodUids = {u1, u2, u3}
    NodeUids = {w1, w2, w3}
    NodePoolSize = 2
    HostKeys <- MCHostKeys
    HostKey <- MCHostKey
    None = None
    MaxFaults = 1
    ReadErrors = FALSE
SYMMETRY Symmetry
INVARIANTS TypeOK OneHostPerPod UniqueNodeNames NodeKeysResolve DebrisBounded
PROPERTY HostKeptUntilUnregister
