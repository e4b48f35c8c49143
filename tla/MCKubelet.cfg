SPECIFICATION Spec
CONSTANTS
    u1 = u1
    u2 = u2
    c1 = c1
    c2 = c2
    nm = nm
    PodNames = {nm}
    NameOf <- MCNameOf
    PodUids = {u1, u2}
    Containers = {c1, c2}
    Scenarios <- OneOrPair
    Always = {u1}
    QueueCap = 1
    EventCap = 2
    None = None
INVARIANTS TypeOK NoLockDeadlock NoContainersWithoutWorker
CHECK_DEADLOCK FALSE
