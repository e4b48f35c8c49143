SPECIFICATION FairSpec
CONSTANTS
    u1 = u1
    u2 = u2
    c1 = c1
    c2 = c2
    nm = nm
    PodNames = {nm}
    NameOf <- MCNameOf
    PodUids = {u1}
    Containers = {c1, c2}
    Scenarios <- RestartScene
    Always = {u1}
    QueueCap = 10
    EventCap = 100
    None = None
PROPERTY DeadContainersRestart
CHECK_DEADLOCK FALSE
