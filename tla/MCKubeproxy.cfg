SPECIFICATION FairSpec
CONSTANTS
    a = a
    a2 = a2
    b = b
    c = c
    p1 = p1
    p2 = p2
    d1 = d1
    d2 = d2
    ns_a = ns_a
    ns_b = ns_b
    other_a = other_a
    hostIP = hostIP
    Services = {a, a2, b, c}
    NameOf <- MCNameOf
    ShortName <- MCShortName
    PortsOf <- MCPortsOf
    Pods = {p1, p2}
    PodIP <- MCPodIP
    Exposes <- MCExposes
    Selected <- MCSelected
    DNSes = {d1, d2}
    RulesOf <- MCRulesOf
    IPPoolSize = 2
    HostIP = hostIP
    None = None
    Scenarios <- MCScenarios
INVARIANTS ProxyTypeOK LatestServed  NoNameOutlives
 
CHECK_DEADLOCK FALSE
