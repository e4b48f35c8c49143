SPECIFICATION FairRsSpec
CONSTANTS
    web = web
    hpa = hpa
    r1 = r1
    r2 = r2
    h1 = h1
    PodUids <- MCPodUids
    Names <- MCPodUids
    NameOf <- MCNameOf
    NodeUids = {}
    NodePoolSize = 1
    HostKeys = {"key"}
    HostKey <- MCHostKey
    RsNames = {web}
    RsUids = {r1, r2}
    RsSpecs <- MCRsSpecs
    HpaNames = {hpa}
    HpaUids = {h1}
    HpaSpecs <- MCHpaSpecs
    Labels = {"web", "v1", "db"}
    Replicas = {0}
    MaxTurns = 3
    MaxReports = 1
    MaxFaults = 1
    ReadErrors = TRUE
    None = None
INVARIANTS RsTypeOK RsDebrisBounded NoExcessPods 
PROPERTY ReplicasConverge
CHECK_DEADLOCK FALSE
