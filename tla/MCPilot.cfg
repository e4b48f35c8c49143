SPECIFICATION FairPilotSpec
CONSTANTS
    a = a
    b = b
    p1 = p1
    p2 = p2
    p3 = p3
    v1 = v1
    v2 = v2
    canary = canary
    ru1 = ru1
    ru2 = ru2
    Names = {p1, p2, p3}
    PodUids = {1, 2, 3, 4, 5, 6, 7, 8}
    UidsOf <- MCUidsOf
    NodeUids = {}
    NodePoolSize = 1
    HostKeys = {"key"}
    HostKey <- MCHostKey
    None = None
    MaxFaults = 1
    ReadErrors = FALSE
    Svcs = {a, b}
    UserSubsets = {v1, v2}
    UserVss = {canary}
    RuNames = {ru1, ru2}
    VsUids = {1, 2}
    RuUids = {1, 2}
    Backs <- MCBacks
    WeightLimit = 16
    Scenarios <- MCScenarios
INVARIANTS MsTypeOK MinimumAlive FinishedReplacesAll UpdatesLeaveNothing
PROPERTIES WeightsFollowSubsets 
