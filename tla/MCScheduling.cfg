SPECIFICATION FairSchedulingSpec
CONSTANTS
    nm1 = nm1
    nm2 = nm2
    u1 = u1
    u2 = u2
    w1 = w1
    w2 = w2
    Names = {nm1, nm2}
    PodUids = {u1, u2}
    NodeUids = {w1, w2}
    NodePoolSize = 2
    HostKeys <- MCHostKeys
    HostKey <- MCHostKey
    None = None
    MaxFaults = 1
    ReadErrors = FALSE
    Policies = {"Round_Policy", "Random_Policy", "NodeAffinity_Policy"}
    Affine <- MCAffine
    RRPeriod = 2
INVARIANTS SchedulingTypeOK  
PROPERTIES PlacedWhileSchedulerLives ListsConverge
CHECK_DEADLOCK FALSE
