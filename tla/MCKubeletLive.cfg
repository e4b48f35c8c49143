SPECIFICATION FairSpec
CONSTANTS
    u1 = u1
    u2 = u2
    c1 = c1
    c2 = c2
    nm = nm
    PodNames = {nm}
    NameOf <- MCNameOf
    PodUids = {u1}
    Containers = {c1, c2}
    Scenarios <- LiveScene
    Always = {}
    QueueCap = 1
    EventCap = 100
    None = None
 
PROPERTIES AssignedPodsStart RemovedPodsStop InterruptUnregisters
CHECK_DEADLOCK FALSE
