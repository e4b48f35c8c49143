SPECIFICATION Spec
CONSTANTS
    svc1 = svc1
    svc2 = svc2
    s1 = s1
    s2 = s2
    s3 = s3
    dns1 = dns1
    dns2 = dns2
    d1 = d1
    d2 = d2
    d3 = d3
    SvcNames = {svc1, svc2}
    SvcUids = {s1, s2, s3}
    DNSNames = {dns1, dns2}
    DNSUids = {d1, d2, d3}
    SvcSpecs <- MCSvcSpecs
    DNSSpecs <- MCDNSSpecs
    Ports = {80}
    NodePorts = {30080}
    Hosts <- MCHosts
    IPPoolSize = 2
    None = None
    MaxFaults = 2
    ReadErrors = FALSE
SYMMETRY Symmetry
INVARIANTS TypeOK NodePortsDisjoint ServiceKeysResolve IPDebrisBounded HostListExact
CHECK_DEADLOCK FALSE
