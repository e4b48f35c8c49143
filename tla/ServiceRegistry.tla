--------------------------- MODULE ServiceRegistry ---------------------------
(***************************************************************************)
(* The API server's records of services and of DNS objects: the handlers   *)
(* of pkg/kubeapiserver/app/routine.go that allocate cluster IPs, reserve  *)
(* node ports and reserve host names.  As in PodRegistry a handler is one  *)
(* action (the server's mutex), cut short after k of its etcd writes when  *)
(* a call fails or the server dies.                                        *)
(***************************************************************************)
EXTENDS Naturals, FiniteSets, FiniteSetsExt

CONSTANTS
    SvcNames, SvcUids,  \* namespaced service names, uids AddService draws
    DNSNames, DNSUids,  \* the same of DNS objects
    SvcSpecs,    \* service specs that pass validation: [ports, nodePorts]
    DNSSpecs,    \* DNS specs that pass validation: [hosts, backends]
    Ports, NodePorts, Hosts,
    IPPoolSize,  \* utils.IPPoolSize
    None,        \* what etcd's Get returns for an absent key: ""
    MaxFaults,   \* bound on the failing etcd calls and server crashes explored
    ReadErrors   \* whether an etcd read may fail while the next call succeeds

IPs == 0 .. IPPoolSize - 1  \* 100.0.0.<n> by its n

(* A ClusterIP service has no node ports; a NodePort service has distinct  *)
(* ones.                                                                   *)
SvcSpec == [ports : SUBSET Ports, nodePorts : SUBSET NodePorts]
Service == [name : SvcNames, ip : IPs, spec : SvcSpec]

(* The hosts of the rules and the <service name, port> of their paths.     *)
DNSSpec == [hosts : SUBSET Hosts, backends : SUBSET (SvcNames \X Ports)]
DNS == [name : DNSNames, spec : DNSSpec]

ASSUME PoolAssumption == IPPoolSize \in Nat \ {0}
ASSUME SpecAssumption == SvcSpecs \subseteq SvcSpec /\ DNSSpecs \subseteq DNSSpec
ASSUME NoneAssumption == None \notin SvcUids \union DNSUids \union Service \union DNS
ASSUME FaultAssumption == MaxFaults \in Nat /\ ReadErrors \in BOOLEAN

VARIABLES
    svcKey,    \* /registry/namespaces/<ns>/services/<name> -> uid
    services,  \* /registry/services/<uid>                  -> service
    ipPool,    \* /registry/IPPool/bitmap: the IPs handed out
    dnsKey,    \* /registry/namespaces/<ns>/dns/<name>      -> uid
    dnses,     \* /registry/dns/<uid>                       -> DNS object
    hostList,  \* /registry/hosts: the host names in use, one a line
    used,      \* history: the uids drawn so far
    faults     \* failures so far, at most MaxFaults

svcVars == <<svcKey, services, ipPool>>
dnsVars == <<dnsKey, dnses, hostList>>
vars == <<svcVars, dnsVars, used, faults>>

(* How a handler ends: with the success answer after all its writes, or    *)
(* with a failure after the first k of them; or reading went wrong, which  *)
(* is a failure whatever the answer.                                       *)
Ends(ok, k, total, readable) ==
    /\ k \in 0 .. total
    /\ ok => k = total
    /\ readable \/ ReadErrors
    /\ IF ok /\ readable THEN UNCHANGED faults
       ELSE faults < MaxFaults /\ faults' = faults + 1

Init ==
    /\ svcKey = [nm \in SvcNames |-> None]
    /\ services = [u \in SvcUids |-> None]
    /\ ipPool = {}
    /\ dnsKey = [nm \in DNSNames |-> None]
    /\ dnses = [u \in DNSUids |-> None]
    /\ hostList = {}
    /\ used = {}
    /\ faults = 0

-----------------------------------------------------------------------------
(* Services *)

StoredServices == {u \in SvcUids : services[u] # None}

(* Mutant of NodePortsFree: only looks at services found by name.          *)
NodePortsFreeByName(spec) ==
    \A nm \in SvcNames : svcKey[nm] # None =>
        spec.nodePorts \intersect services[svcKey[nm]].spec.nodePorts = {}

(* checkTypeAndPorts: no stored service has one of the node ports.         *)
NodePortsFree(spec) ==
    \A u \in StoredServices : spec.nodePorts \intersect services[u].spec.nodePorts = {}

(* Mutant of NextIP: the address after the last one handed out.            *)
NextIPAfterLast(pool) == IF pool = {} THEN 0 ELSE Max(pool) + 1

NextIP(pool) == Min(IPs \ pool)

(* AddServiceHandler: bitmap, service, name key.  A name key that cannot   *)
(* be read (kread) counts as absent, and so does a bitmap (pread): a fresh *)
(* one is written over it.                                                 *)
AddService(nm, spec, u, kread, pread, k, ok) ==
    LET seen == IF pread THEN ipPool ELSE {}
        ip   == NextIP(seen)
    IN  /\ kread => svcKey[nm] = None
        /\ NodePortsFree(spec)
        /\ u \in SvcUids \ used
        /\ seen # IPs
        /\ Ends(ok, k, 3, kread /\ pread)
        /\ used' = used \union {u}
        /\ ipPool' = IF k >= 1 THEN seen \union {ip} ELSE seen
        /\ services' =
              IF k >= 2 THEN [services EXCEPT ![u] = [name |-> nm, ip |-> ip, spec |-> spec]]
              ELSE services
        /\ svcKey' = IF k >= 3 THEN [svcKey EXCEPT ![nm] = u] ELSE svcKey
        /\ UNCHANGED dnsVars

(* Mutant of DeleteService: the IP is never given back.                    *)
DeleteServiceLeaks(nm, k, ok) ==
    /\ svcKey[nm] # None
    /\ Ends(ok, k, 2, TRUE)
    /\ svcKey' = IF k >= 1 THEN [svcKey EXCEPT ![nm] = None] ELSE svcKey
    /\ services' = IF k >= 2 THEN [services EXCEPT ![svcKey[nm]] = None] ELSE services
    /\ UNCHANGED <<ipPool, dnsVars, used>>

(* Mutant of DeleteService: the service goes before its name key.          *)
DeleteServiceKeyLast(nm, k, ok) ==
    /\ svcKey[nm] # None
    /\ services[svcKey[nm]] # None
    /\ services[svcKey[nm]].ip \in ipPool
    /\ Ends(ok, k, 3, TRUE)
    /\ ipPool' = IF k >= 1 THEN ipPool \ {services[svcKey[nm]].ip} ELSE ipPool
    /\ services' = IF k >= 2 THEN [services EXCEPT ![svcKey[nm]] = None] ELSE services
    /\ svcKey' = IF k >= 3 THEN [svcKey EXCEPT ![nm] = None] ELSE svcKey
    /\ UNCHANGED <<dnsVars, used>>

(* DeleteServiceHandler: bitmap, name key, service.  FreeIP refuses a bit  *)
(* that is not set, and the handler gives up before any write.             *)
DeleteService(nm, k, ok) ==
    /\ svcKey[nm] # None
    /\ services[svcKey[nm]] # None
    /\ services[svcKey[nm]].ip \in ipPool
    /\ Ends(ok, k, 3, TRUE)
    /\ ipPool' = IF k >= 1 THEN ipPool \ {services[svcKey[nm]].ip} ELSE ipPool
    /\ svcKey' = IF k >= 2 THEN [svcKey EXCEPT ![nm] = None] ELSE svcKey
    /\ services' = IF k >= 3 THEN [services EXCEPT ![svcKey[nm]] = None] ELSE services
    /\ UNCHANGED <<dnsVars, used>>

-----------------------------------------------------------------------------
(* DNS objects *)

(* Mutant of HostsFree: a conflict only if every host is taken.            *)
HostsNotAllTaken(spec) == ~(spec.hosts \subseteq hostList)

HostsFree(spec) == spec.hosts \intersect hostList = {}

(* The service a path names exists and has the port.                       *)
BackendsExist(spec) ==
    \A b \in spec.backends :
        /\ svcKey[b[1]] # None
        /\ services[svcKey[b[1]]] # None
        /\ b[2] \in services[svcKey[b[1]]].spec.ports

(* AddDNSHandler: host list, name key, DNS object.                         *)
AddDNS(nm, spec, u, kread, k, ok) ==
    /\ kread => dnsKey[nm] = None
    /\ HostsFree(spec)
    /\ BackendsExist(spec)
    /\ u \in DNSUids \ used
    /\ Ends(ok, k, 3, kread)
    /\ used' = used \union {u}
    /\ hostList' = IF k >= 1 THEN hostList \union spec.hosts ELSE hostList
    /\ dnsKey' = IF k >= 2 THEN [dnsKey EXCEPT ![nm] = u] ELSE dnsKey
    /\ dnses' = IF k >= 3 THEN [dnses EXCEPT ![u] = [name |-> nm, spec |-> spec]] ELSE dnses
    /\ UNCHANGED svcVars

(* DeleteDNSHandler: host list, name key, DNS object.                      *)
DeleteDNS(nm, k, ok) ==
    /\ dnsKey[nm] # None
    /\ dnses[dnsKey[nm]] # None
    /\ Ends(ok, k, 3, TRUE)
    /\ hostList' = IF k >= 1 THEN hostList \ dnses[dnsKey[nm]].spec.hosts ELSE hostList
    /\ dnsKey' = IF k >= 2 THEN [dnsKey EXCEPT ![nm] = None] ELSE dnsKey
    /\ dnses' = IF k >= 3 THEN [dnses EXCEPT ![dnsKey[nm]] = None] ELSE dnses
    /\ UNCHANGED <<svcVars, used>>

-----------------------------------------------------------------------------
Next ==
    \E ok \in BOOLEAN, k \in 0 .. 3 :
        \/ \E nm \in SvcNames, spec \in SvcSpecs, u \in SvcUids, kread, pread \in BOOLEAN :
              AddService(nm, spec, u, kread, pread, k, ok)
        \/ \E nm \in SvcNames : DeleteService(nm, k, ok)
        \/ \E nm \in DNSNames, spec \in DNSSpecs, u \in DNSUids, kread \in BOOLEAN :
              AddDNS(nm, spec, u, kread, k, ok)
        \/ \E nm \in DNSNames : DeleteDNS(nm, k, ok)

Spec == Init /\ [][Next]_vars

-----------------------------------------------------------------------------
(* Type invariant: what each etcd prefix may hold.                         *)
TypeOK ==
    /\ svcKey   \in [SvcNames -> SvcUids \union {None}]
    /\ services \in [SvcUids -> Service \union {None}]
    /\ ipPool   \in SUBSET IPs
    /\ dnsKey   \in [DNSNames -> DNSUids \union {None}]
    /\ dnses    \in [DNSUids -> DNS \union {None}]
    /\ hostList \in SUBSET Hosts
    /\ used     \in SUBSET (SvcUids \union DNSUids)
    /\ faults   \in 0 .. MaxFaults

(* checkTypeAndPorts scans the stored services, not the named ones: no two *)
(* of them claim one node port, whatever debris failures leave, so no two  *)
(* IPVS virtual servers of kubeproxy collide on a host port.               *)
NodePortsDisjoint ==
    \A u1, u2 \in StoredServices :
        u1 # u2 => services[u1].spec.nodePorts \intersect services[u2].spec.nodePorts = {}

(* AddServiceHandler, DeleteServiceHandler: the name key is written last   *)
(* and deleted before the service, so a name always leads to its service.  *)
ServiceKeysResolve ==
    \A nm \in SvcNames : svcKey[nm] # None =>
        /\ services[svcKey[nm]] # None
        /\ services[svcKey[nm]].name = nm

(* The IPs of stored services whose bit is set, and the set bits that no   *)
(* stored service has.                                                     *)
ServiceIPs == {services[u].ip : u \in StoredServices}
HeldIPs    == ServiceIPs \intersect ipPool
LeakedIPs  == ipPool \ ServiceIPs

(* AddServiceHandler, DeleteServiceHandler: with no failure the bitmap is  *)
(* the set of the services' IPs and no two services share one; each        *)
(* failure costs at most one IP, leaked, shared or unprotected.            *)
IPDebrisBounded ==
    Cardinality(LeakedIPs) + Cardinality(StoredServices)
        <= Cardinality(HeldIPs) + faults

(* AddDNSHandler, DeleteDNSHandler: with no failure /registry/hosts is     *)
(* what the stored DNS objects claim, and no two claim one host.           *)
StoredDNS == {u \in DNSUids : dnses[u] # None}

HostListExact ==
    faults = 0 =>
        /\ hostList = UNION {dnses[u].spec.hosts : u \in StoredDNS}
        /\ \A u1, u2 \in StoredDNS :
              u1 # u2 => dnses[u1].spec.hosts \intersect dnses[u2].spec.hosts = {}

(* README 5.7: "restarting the control plane is required to have no impact *)
(* on the Pods and Services in the cluster": services found by name keep   *)
(* distinct cluster IPs.                                                   *)
UniqueClusterIPs ==
    \A nm1, nm2 \in SvcNames :
        /\ svcKey[nm1] # None /\ svcKey[nm2] # None
        /\ services[svcKey[nm1]].ip = services[svcKey[nm2]].ip
        => nm1 = nm2

(* The comment in AddServiceHandler: the bitmap is initialised when etcd   *)
(* stores none.  So creating a service never frees an IP.                  *)
AddServiceKeepsBits == [][used' # used => ipPool \subseteq ipPool']_vars
=============================================================================
