------------------------------ MODULE Kubeproxy ------------------------------
(***************************************************************************)
(* One node's kube-proxy: the watcher that polls the API server            *)
(* (pkg/kubeproxy/app/server.go), the two channels to the proxy's loop     *)
(* (pkg/kubeproxy/proxy.go), and what the loop keeps in step with them:    *)
(* the kernel's IPVS table (route/ipvs.go), CoreDNS's hosts file and the   *)
(* nginx configuration.  The last three outlive the process.  An update    *)
(* is a list in the order of a Go map, so any order; each of its entries   *)
(* is one step, and the process may be killed between two of them.         *)
(*                                                                         *)
(* Protocols are left out: a service port is known by its number.          *)
(***************************************************************************)
EXTENDS Naturals, Sequences, FiniteSetsExt

CONSTANTS
    Services,     \* the uids of the services users may create
    NameOf,       \* their <namespace>_<name>
    ShortName,    \* the <name> of a <namespace>_<name>
    PortsOf,      \* their ports: [port, target, node], node = None if ClusterIP
    Pods, PodIP,  \* pods and the addresses they run with
    Exposes,      \* the container ports of a pod
    Selected,     \* <service, pod>: the pod bears the selector's labels
    DNSes,        \* the uids of the DNS objects users may create
    RulesOf,      \* their rules: [host, backends], backends a set of names
    IPPoolSize,   \* utils.IPPoolSize
    HostIP,       \* the node's own address
    None,
    Scenarios     \* what a behaviour may hold: [objects, faults, starts]: the objects
                  \* created, and bounds on failing requests, kernel calls and
                  \* nginx reloads, and on starts of the process

ClusterIPs == 0 .. IPPoolSize - 1
Names == {NameOf[s] : s \in Services}
Rules == UNION {{RulesOf[d][i] : i \in DOMAIN RulesOf[d]} : d \in DNSes}
DNSHosts == {r.host : r \in Rules}
HostNames == {ShortName[nm] : nm \in Names} \union DNSHosts

ASSUME ServiceAssumption ==
    /\ DOMAIN NameOf = Services /\ Names \subseteq DOMAIN ShortName
    /\ \A s \in Services : DOMAIN PortsOf[s] # {}
    /\ Selected \subseteq Services \X Pods
ASSUME RuleAssumption ==
    /\ \A d \in DNSes : RulesOf[d] \in Seq(Rules)
    /\ \A r \in Rules : r.backends \subseteq Names /\ r.backends # {}
ASSUME UidAssumption ==
    Services \intersect Pods = {} /\ Services \intersect DNSes = {} /\ Pods \intersect DNSes = {}
ASSUME NoneAssumption == \A B \in SUBSET Names : None \notin [B -> ClusterIPs]
ASSUME PoolAssumption == IPPoolSize \in Nat /\ HostIP \notin ClusterIPs
ASSUME ScenarioAssumption ==
    \A sc \in Scenarios : /\ sc.objects \subseteq Services \union Pods \union DNSes
                          /\ sc.faults \in Nat /\ sc.starts \in Nat

VARIABLES
    scenario,           \* one of Scenarios
    phase,           \* API server: "new", "live" or "gone", of every object
    clusterIP,       \* API server: the address a service was given
    watcher,         \* its next request: "pods", "services", "dns"; or "ended", "off"
    podsSeen,        \* updateService: the answer of GetAllPods
    outbox,          \* the updates it has still to send
    latest,          \* uid -> endpoints <ip, port> of the services announced
    latestDNS,       \* the DNS objects announced
    serviceUpdates, dnsUpdates,  \* the channels, of capacity 1
    proxy,           \* the loop: "up", "ended", "failed" (at its start) or "off"
    job,             \* the update at hand: [op, items], the items still to do
    serviceCache,    \* Proxy.serviceCache: service name -> cluster IP
    virtuals,        \* IPVS: the virtual servers <ip, port>
    routes,          \* IPVS: <virtual server, endpoint>
    addrs,           \* the addresses of the interface minik8s-dummy
    hosts,           \* /etc/coredns/hosts: name -> address
    nginx,           \* /etc/nginx/conf.d/<host>.conf: service name -> address
    interrupted,     \* ctx is done
    faults, starts,  \* failures and process starts so far
    leftover,        \* history: a process died without its cleanup
    spoilt           \* history: objects that this process will not complete

apiVars     == <<scenario, phase, clusterIP>>
watcherVars == <<watcher, podsSeen, latest, latestDNS>>
kernelVars  == <<virtuals, routes, addrs>>
fileVars    == <<hosts, nginx>>
runVars     == <<interrupted, starts, leftover>>
chanVars    == <<serviceUpdates, dnsUpdates>>
vars == <<apiVars, watcherVars, outbox, chanVars, proxy, job, serviceCache,
          kernelVars, fileVars, runVars, faults, spoilt>>

Live(objects) == {x \in objects : phase[x] = "live"}

NoServices == [s \in {} |-> {}]
Idle == [op |-> "none", items |-> {}]

Init ==
    /\ scenario \in Scenarios
    /\ phase = [x \in Services \union Pods \union DNSes |->
                   IF x \in scenario.objects THEN "new" ELSE "gone"]
    /\ clusterIP = [s \in Services |-> None]
    /\ watcher = "off" /\ podsSeen = {} /\ outbox = <<>>
    /\ latest = NoServices /\ latestDNS = {}
    /\ serviceUpdates = <<>> /\ dnsUpdates = <<>>
    /\ proxy = "off" /\ job = Idle
    /\ serviceCache = [nm \in Names |-> None]
    /\ virtuals = {} /\ routes = {} /\ addrs = {}
    /\ hosts = [h \in HostNames |-> None]
    /\ nginx = [h \in DNSHosts |-> None]
    /\ interrupted = FALSE /\ faults = 0 /\ starts = 0
    /\ leftover = FALSE /\ spoilt = {}

(* One more failure, if it is one.                                         *)
Fault(failing) ==
    /\ failing => faults < scenario.faults
    /\ faults' = IF failing THEN faults + 1 ELSE faults

-----------------------------------------------------------------------------
(* Users, through the handlers of ServiceRegistry, and the kubelets        *)

(* AddService: a name, node ports and the first address not in use.        *)
NodePortsOf(s) == {PortsOf[s][i].node : i \in DOMAIN PortsOf[s]} \ {None}

AddService(s) ==
    /\ phase[s] = "new"
    /\ \A t \in Live(Services) :
          NameOf[t] # NameOf[s] /\ NodePortsOf(t) \intersect NodePortsOf(s) = {}
    /\ LET free == ClusterIPs \ {clusterIP[t] : t \in Live(Services)}
       IN  /\ free # {}
           /\ clusterIP' = [clusterIP EXCEPT ![s] = Min(free)]
    /\ phase' = [phase EXCEPT ![s] = "live"]
    /\ UNCHANGED scenario

(* AddDNS: its hosts are free and its backends exist.                      *)
HostsOf(d) == {RulesOf[d][i].host : i \in DOMAIN RulesOf[d]}

AddDNS(d) ==
    /\ phase[d] = "new"
    /\ \A e \in Live(DNSes) : HostsOf(d) \intersect HostsOf(e) = {}
    /\ \A i \in DOMAIN RulesOf[d] :
          RulesOf[d][i].backends \subseteq {NameOf[s] : s \in Live(Services)}
    /\ phase' = [phase EXCEPT ![d] = "live"]
    /\ UNCHANGED <<scenario, clusterIP>>

(* A pod is running and has its address, which no other running pod has.   *)
PodRuns(p) ==
    /\ phase[p] = "new"
    /\ \A q \in Live(Pods) : PodIP[q] # PodIP[p]
    /\ phase' = [phase EXCEPT ![p] = "live"]
    /\ UNCHANGED <<scenario, clusterIP>>

(* DeleteService, DeleteDNS, or a pod that ends or is deleted.             *)
Delete(x) ==
    /\ phase[x] = "live"
    /\ phase' = [phase EXCEPT ![x] = "gone"]
    /\ UNCHANGED <<scenario, clusterIP>>

Cluster ==
    /\ \/ \E s \in Services : AddService(s)
       \/ \E d \in DNSes : AddDNS(d)
       \/ \E p \in Pods : PodRuns(p)
       \/ \E x \in DOMAIN phase : Delete(x)
    /\ UNCHANGED <<watcherVars, outbox, chanVars, proxy, job, serviceCache,
                   kernelVars, fileVars, runVars, faults, spoilt>>

-----------------------------------------------------------------------------
(* The watcher *)

(* The loop over pods and ports of updateService: what the containers of   *)
(* the selected running pods expose of the service's target ports.         *)
Endpoints(s, pods) ==
    UNION {{<<PodIP[p], PortsOf[s][i].target>> :
               i \in {j \in DOMAIN PortsOf[s] : PortsOf[s][j].target \in Exposes[p]}} :
           p \in {q \in pods : <<s, q>> \in Selected}}

Change(s, dels, adds) == [svc |-> s, dels |-> dels, adds |-> adds]

Update(op, items) == IF items = {} THEN <<>> ELSE <<[op |-> op, items |-> items]>>

(* Mutant of Gone: a service without endpoints counts as gone.             *)
GoneOrEmpty(old, new) == {s \in DOMAIN old : s \in DOMAIN new => new[s] = {}}

Gone(old, new) == DOMAIN old \ DOMAIN new

(* calculateDiff of the services that stay: a pod whose ports changed      *)
(* leaves with all of them and comes back with the new ones.               *)
Of(endpoints, ip) == {e \in endpoints : e[1] = ip}
Changed(from, to) == {e \in from : Of(from, e[1]) # Of(to, e[1])}

(* Mutants of Differences: endpoints that went are forgotten; new ones     *)
(* alone are no difference.                                                *)
DifferencesAdded(old, new) ==
    {Change(s, {}, Changed(new[s], old[s])) :
        s \in {t \in DOMAIN old \intersect DOMAIN new : old[t] # new[t]}}
DifferencesIfGone(old, new) ==
    {Change(s, Changed(old[s], new[s]), Changed(new[s], old[s])) :
        s \in {t \in DOMAIN old \intersect DOMAIN new : Changed(old[t], new[t]) # {}}}

Differences(old, new) ==
    {Change(s, Changed(old[s], new[s]), Changed(new[s], old[s])) :
        s \in {t \in DOMAIN old \intersect DOMAIN new : old[t] # new[t]}}

ServiceChanges(old, new) ==
    Update("ServiceAdd", {Change(s, {}, new[s]) : s \in DOMAIN new \ DOMAIN old})
    \o Update("ServiceDelete", {Change(s, {}, {}) : s \in Gone(old, new)})
    \o Update("ServiceEndpointsUpdate", Differences(old, new))

DNSChanges(old, new) == Update("DNSAdd", new \ old) \o Update("DNSDelete", old \ new)

(* Additions travel before deletions: a new service is overtaken by the    *)
(* deletion of one that had its name, address or a node port, and a new    *)
(* DNS object by that of one that had a host of it.                        *)
Clash(s, t) ==
    \/ NameOf[s] = NameOf[t] \/ clusterIP[s] = clusterIP[t]
    \/ NodePortsOf(s) \intersect NodePortsOf(t) # {}
OvertakenServices(old, new) == {s \in new \ old : \E t \in old \ new : Clash(s, t)}
OvertakenDNS(old, new) ==
    {d \in new \ old : \E e \in old \ new : HostsOf(d) \intersect HostsOf(e) # {}}

(* A request that fails ends updateService or updateDNS of this period.    *)
Polling(request, failing) ==
    /\ watcher = request /\ outbox = <<>>
    /\ Fault(failing)
    /\ UNCHANGED <<apiVars, chanVars, proxy, job, serviceCache, kernelVars,
                   fileVars, runVars>>

ListPods(failing) ==
    /\ Polling("pods", failing)
    /\ podsSeen' = IF failing THEN podsSeen ELSE Live(Pods)
    /\ watcher' = IF failing THEN "dns" ELSE "services"
    /\ UNCHANGED <<latest, latestDNS, outbox, spoilt>>

(* latest is assigned after the sends; nobody else reads it, so here it is *)
(* assigned before them.                                                   *)
ListServices(failing) ==
    /\ Polling("services", failing)
    /\ LET new == IF failing THEN latest
                  ELSE [s \in Live(Services) |-> Endpoints(s, podsSeen)]
       IN  /\ latest' = new
           /\ outbox' = ServiceChanges(latest, new)
           /\ spoilt' = spoilt \union OvertakenServices(DOMAIN latest, DOMAIN new)
    /\ watcher' = "dns" /\ podsSeen' = {}
    /\ UNCHANGED latestDNS

ListDNS(failing) ==
    /\ Polling("dns", failing)
    /\ LET new == IF failing THEN latestDNS ELSE Live(DNSes)
       IN  /\ latestDNS' = new
           /\ outbox' = DNSChanges(latestDNS, new)
           /\ spoilt' = spoilt \union OvertakenDNS(latestDNS, new)
    /\ watcher' = "pods"
    /\ UNCHANGED <<podsSeen, latest>>

Poll(failing) == ListPods(failing) \/ ListServices(failing) \/ ListDNS(failing)

(* Mutant of Send: does not wait for room in the channel.                  *)
SendUnbounded ==
    /\ outbox # <<>>
    /\ LET update == Head(outbox)
       IN  IF update.op \in {"DNSAdd", "DNSDelete"}
           THEN dnsUpdates' = Append(dnsUpdates, update) /\ UNCHANGED serviceUpdates
           ELSE serviceUpdates' = Append(serviceUpdates, update) /\ UNCHANGED dnsUpdates
    /\ outbox' = Tail(outbox)
    /\ UNCHANGED <<apiVars, watcherVars, proxy, job, serviceCache, kernelVars,
                   fileVars, runVars, faults, spoilt>>

(* ps.serviceUpdates <- update, ps.dnsUpdates <- update: not a select.     *)
Send ==
    /\ outbox # <<>>
    /\ LET update == Head(outbox)
       IN  IF update.op \in {"DNSAdd", "DNSDelete"}
           THEN dnsUpdates = <<>> /\ dnsUpdates' = <<update>> /\ UNCHANGED serviceUpdates
           ELSE serviceUpdates = <<>> /\ serviceUpdates' = <<update>> /\ UNCHANGED dnsUpdates
    /\ outbox' = Tail(outbox)
    /\ UNCHANGED <<apiVars, watcherVars, proxy, job, serviceCache, kernelVars,
                   fileVars, runVars, faults, spoilt>>

(* Only between two periods does the watcher look at ctx.                  *)
WatcherEnds ==
    /\ interrupted /\ watcher = "pods" /\ outbox = <<>>
    /\ watcher' = "ended"
    /\ UNCHANGED <<apiVars, podsSeen, latest, latestDNS, outbox, chanVars, proxy, job,
                   serviceCache, kernelVars, fileVars, runVars, faults, spoilt>>

-----------------------------------------------------------------------------
(* The rules of a service in the kernel *)

ClusterServer(s, i) == <<clusterIP[s], PortsOf[s][i].port>>

(* The virtual servers of the i-th port: the node port's too, if any.      *)
Servers(s, i) ==
    {ClusterServer(s, i)} \union
    IF PortsOf[s][i].node = None THEN {} ELSE {<<HostIP, PortsOf[s][i].node>>}

VirtualsOf(s) == UNION {Servers(s, i) : i \in DOMAIN PortsOf[s]}

(* The routes to endpoints through the reverse maps of the given ports:    *)
(* keyed by target port, they keep the last port of each target.           *)
Reverse(s, ports) ==
    {i \in ports : \A j \in ports : PortsOf[s][j].target = PortsOf[s][i].target => j <= i}

RoutesVia(s, ports, endpoints) ==
    UNION {Servers(s, i) \X {e \in endpoints : e[2] = PortsOf[s][i].target} :
           i \in Reverse(s, ports)}

RoutesOf(s, endpoints) == RoutesVia(s, DOMAIN PortsOf[s], endpoints)

(* Kernel calls that may fail though nothing is wrong with them: of an     *)
(* entry's virtual servers at most one, of its routes at most one.         *)
Refusals(calls) == {{}} \union {{c} : c \in calls}

-----------------------------------------------------------------------------
(* The proxy's loop *)

(* One entry of the update at hand has been handled.                       *)
Handling(op, item) ==
    /\ proxy = "up" /\ job.op = op /\ item \in job.items
    /\ job' = IF job.items = {item} THEN Idle ELSE [job EXCEPT !.items = @ \ {item}]
    /\ UNCHANGED <<apiVars, watcherVars, outbox, chanVars, proxy, runVars>>

(* select: either channel if both have an update.                          *)
Receive ==
    /\ proxy = "up" /\ job = Idle
    /\ \/ /\ serviceUpdates # <<>>
          /\ job' = Head(serviceUpdates)
          /\ serviceUpdates' = <<>> /\ UNCHANGED dnsUpdates
       \/ /\ dnsUpdates # <<>>
          /\ job' = Head(dnsUpdates)
          /\ dnsUpdates' = <<>> /\ UNCHANGED serviceUpdates
    /\ UNCHANGED <<apiVars, watcherVars, outbox, proxy, serviceCache, kernelVars,
                   fileVars, runVars, faults, spoilt>>

(* Of ports <<vip, i>>: a virtual server that exists already, or that the  *)
(* kernel refuses, leaves its port without node port, map entry or routes; *)
(* so does the node port's, but the cluster IP's stays.                    *)
HandleServiceAddition(item, refused, lost) ==
    LET s        == item.svc
        ports    == DOMAIN PortsOf[s]
        bad      == virtuals \union refused
        first    == {i \in ports : ClusterServer(s, i) \notin bad}
        mapped   == {i \in first : Servers(s, i) \intersect bad = {}}
        added    == {ClusterServer(s, i) : i \in first} \union
                    UNION {Servers(s, i) : i \in mapped}
        free     == hosts[ShortName[NameOf[s]]] = None
    IN  /\ Handling("ServiceAdd", item)
        /\ Fault(refused # {} \/ lost # {})
        /\ spoilt' = IF refused # {} \/ lost # {} THEN spoilt \union {s} ELSE spoilt
        /\ virtuals' = virtuals \union added
        /\ routes' = routes \union (RoutesVia(s, mapped, item.adds) \ lost)
        /\ addrs' = IF first # {} THEN addrs \union {clusterIP[s]} ELSE addrs
        /\ serviceCache' = [serviceCache EXCEPT ![NameOf[s]] = clusterIP[s]]
        \* addServiceNameDNS
        /\ hosts' = IF free THEN [hosts EXCEPT ![ShortName[NameOf[s]]] = clusterIP[s]]
                    ELSE hosts
        /\ UNCHANGED nginx

(* A virtual server takes its routes along.  The address goes if one of    *)
(* the cluster IP's servers was there to delete, the name if it is still   *)
(* this service's.                                                         *)
HandleServiceDeletion(item) ==
    LET s    == item.svc
        gone == VirtualsOf(s) \intersect virtuals
        mine == hosts[ShortName[NameOf[s]]] = clusterIP[s]
    IN  /\ Handling("ServiceDelete", item)
        /\ virtuals' = virtuals \ gone
        /\ routes' = {r \in routes : r[1] \notin gone}
        /\ addrs' = IF \E v \in gone : v[1] = clusterIP[s] THEN addrs \ {clusterIP[s]}
                    ELSE addrs
        /\ serviceCache' = [serviceCache EXCEPT ![NameOf[s]] = None]
        \* deleteServiceNameDNS
        /\ hosts' = IF mine THEN [hosts EXCEPT ![ShortName[NameOf[s]]] = None] ELSE hosts
        /\ UNCHANGED <<nginx, faults, spoilt>>

(* Routes that went, then routes that came; one through a virtual server   *)
(* that is not there is an error.                                          *)
HandleServiceEndpointsUpdate(item, lost) ==
    LET s == item.svc
    IN  /\ Handling("ServiceEndpointsUpdate", item)
        /\ Fault(lost # {})
        /\ spoilt' = IF lost # {} THEN spoilt \union {s} ELSE spoilt
        /\ routes' = (routes \ RoutesOf(s, item.dels)) \union
                     {r \in RoutesOf(s, item.adds) \ lost : r[1] \in virtuals}
        /\ UNCHANGED <<virtuals, addrs, serviceCache, fileVars>>

(* The rules addNginxConfig writes before the first whose file exists or   *)
(* one of whose services is not in the cache.                              *)
Written(d) ==
    LET rule(i)    == RulesOf[d][i]
        blocked(i) == \/ nginx[rule(i).host] # None
                      \/ \E j \in 1 .. i - 1 : rule(j).host = rule(i).host
                      \/ \E nm \in rule(i).backends : serviceCache[nm] = None
    IN  {i \in DOMAIN RulesOf[d] : \A j \in 1 .. i : ~ blocked(j)}

(* nginx configuration (with the addresses of now), reload, hosts file.    *)
HandleDNSAddition(d, reloads) ==
    LET whole == Written(d) = DOMAIN RulesOf[d]
        conf(h) == CHOOSE i \in Written(d) : RulesOf[d][i].host = h
    IN  /\ Handling("DNSAdd", d)
        /\ reloads \/ whole
        /\ Fault(~ reloads)
        /\ nginx' = [h \in DNSHosts |->
                        IF \E i \in Written(d) : RulesOf[d][i].host = h
                        THEN [nm \in RulesOf[d][conf(h)].backends |-> serviceCache[nm]]
                        ELSE nginx[h]]
        /\ hosts' = IF whole /\ reloads
                    THEN [h \in HostNames |->
                             IF h \in HostsOf(d) /\ hosts[h] = None THEN HostIP ELSE hosts[h]]
                    ELSE hosts
        /\ spoilt' = IF whole /\ reloads THEN spoilt ELSE spoilt \union {d}
        /\ UNCHANGED <<serviceCache, kernelVars>>

(* The files deleteNginxConfig removes before the first that is missing.   *)
Removable(d) ==
    {RulesOf[d][i].host : i \in {k \in DOMAIN RulesOf[d] :
        \A j \in 1 .. k : /\ nginx[RulesOf[d][j].host] # None
                          /\ \A l \in 1 .. j - 1 : RulesOf[d][l].host # RulesOf[d][j].host}}

(* Hosts file, nginx configuration, and if both went well the reload.      *)
HandleDNSDeletion(d, reloads) ==
    /\ Handling("DNSDelete", d)
    /\ reloads \/ Removable(d) = HostsOf(d)
    /\ Fault(~ reloads)
    /\ hosts' = [h \in HostNames |-> IF h \in HostsOf(d) THEN None ELSE hosts[h]]
    /\ nginx' = [h \in DNSHosts |-> IF h \in Removable(d) THEN None ELSE nginx[h]]
    /\ UNCHANGED <<serviceCache, kernelVars, spoilt>>

Handle ==
    \/ /\ job.op \in {"ServiceAdd", "ServiceDelete", "ServiceEndpointsUpdate"}
       /\ \E item \in job.items :
             \/ HandleServiceDeletion(item)
             \/ \E lost \in Refusals(RoutesOf(item.svc, item.adds)) :
                   \/ \E refused \in Refusals(VirtualsOf(item.svc)) :
                         HandleServiceAddition(item, refused, lost)
                   \/ HandleServiceEndpointsUpdate(item, lost)
    \/ /\ job.op \in {"DNSAdd", "DNSDelete"}
       /\ \E d \in job.items, reloads \in BOOLEAN :
             HandleDNSAddition(d, reloads) \/ HandleDNSDeletion(d, reloads)

(* Mutant of ProxyEnds: the hosts file is not truncated.                   *)
ProxyEndsKeepsHosts ==
    /\ interrupted /\ proxy = "up" /\ job = Idle
    /\ proxy' = "ended"
    /\ virtuals' = {} /\ routes' = {} /\ addrs' = {}
    /\ nginx' = [h \in DNSHosts |-> None]
    /\ UNCHANGED <<apiVars, watcherVars, outbox, chanVars, job, serviceCache, hosts,
                   runVars, faults, spoilt>>

(* ctx.Done at the select, which may prefer an update while there is one:  *)
(* DoCleanUp flushes the table, deletes the interface and clears the files.*)
ProxyEnds ==
    /\ interrupted /\ proxy = "up" /\ job = Idle
    /\ proxy' = "ended"
    /\ virtuals' = {} /\ routes' = {} /\ addrs' = {}
    /\ hosts' = [h \in HostNames |-> None]
    /\ nginx' = [h \in DNSHosts |-> None]
    /\ UNCHANGED <<apiVars, watcherVars, outbox, chanVars, job, serviceCache,
                   runVars, faults, spoilt>>

-----------------------------------------------------------------------------
(* The process *)

(* Run.  The proxy's initialisation (Init, getHostIP, nameserver) may fail:*)
(* its goroutine returns, the watcher runs on.                             *)
Start(failing) ==
    /\ watcher = "off" /\ starts < scenario.starts
    /\ Fault(failing)
    /\ starts' = starts + 1
    /\ watcher' = "pods" /\ proxy' = IF failing THEN "failed" ELSE "up"
    /\ UNCHANGED <<apiVars, podsSeen, latest, latestDNS, outbox, chanVars, job,
                   serviceCache, kernelVars, fileVars, interrupted, leftover, spoilt>>

Interrupt ==
    /\ watcher # "off" /\ ~ interrupted
    /\ interrupted' = TRUE
    /\ UNCHANGED <<apiVars, watcherVars, outbox, chanVars, proxy, job, serviceCache,
                   kernelVars, fileVars, starts, leftover, faults, spoilt>>

(* The process ends, wg.Wait having returned or killed at any moment; what *)
(* is in memory is gone.                                                   *)
Exit(byKill) ==
    /\ watcher # "off"
    /\ byKill \/ (watcher = "ended" /\ proxy = "ended")
    /\ watcher' = "off" /\ podsSeen' = {} /\ outbox' = <<>>
    /\ latest' = NoServices /\ latestDNS' = {}
    /\ serviceUpdates' = <<>> /\ dnsUpdates' = <<>>
    /\ proxy' = "off" /\ job' = Idle
    /\ serviceCache' = [nm \in Names |-> None]
    /\ interrupted' = FALSE
    /\ leftover' = (proxy # "ended")
    /\ spoilt' = IF proxy = "ended" THEN {} ELSE spoilt
    /\ UNCHANGED <<apiVars, kernelVars, fileVars, starts, faults>>

Next ==
    \/ Cluster
    \/ \E failing \in BOOLEAN : Poll(failing) \/ Start(failing)
    \/ Send \/ WatcherEnds
    \/ Receive \/ Handle \/ ProxyEnds
    \/ Interrupt
    \/ \E byKill \in BOOLEAN : Exit(byKill)

Spec == Init /\ [][Next]_vars

(* The goroutines are scheduled fairly; users, signals and restarts owe    *)
(* nothing.                                                                *)
Watcher == Send \/ WatcherEnds \/ \E failing \in BOOLEAN : Poll(failing)
Proxy == Receive \/ Handle \/ ProxyEnds

FairSpec == Spec /\ WF_vars(Watcher) /\ WF_vars(Proxy)

-----------------------------------------------------------------------------
(* Properties *)

EndpointSet == {PodIP[p] : p \in Pods} \X UNION {Exposes[p] : p \in Pods}
PortNumbers == UNION {{PortsOf[s][i].port : i \in DOMAIN PortsOf[s]} : s \in Services}
ServerSet == (ClusterIPs \X PortNumbers) \union
             ({HostIP} \X UNION {NodePortsOf(s) : s \in Services})

ServiceItems == [svc : Services, dels : SUBSET EndpointSet, adds : SUBSET EndpointSet]
IsServiceUpdate(u) ==
    /\ u.op \in {"ServiceAdd", "ServiceDelete", "ServiceEndpointsUpdate"}
    /\ u.items \subseteq ServiceItems /\ u.items # {}
IsDNSUpdate(u) ==
    u.op \in {"DNSAdd", "DNSDelete"} /\ u.items \subseteq DNSes /\ u.items # {}

(* Every variable has its type: what the maps, channels and files may hold.*)
ProxyTypeOK ==
    /\ phase \in [Services \union Pods \union DNSes -> {"new", "live", "gone"}]
    /\ clusterIP \in [Services -> ClusterIPs \union {None}]
    /\ watcher \in {"pods", "services", "dns", "ended", "off"}
    /\ podsSeen \subseteq Pods /\ latestDNS \subseteq DNSes
    /\ DOMAIN latest \subseteq Services
    /\ \A s \in DOMAIN latest : latest[s] \subseteq EndpointSet
    /\ \A i \in DOMAIN outbox : IsServiceUpdate(outbox[i]) \/ IsDNSUpdate(outbox[i])
    /\ Len(serviceUpdates) <= 1 /\ \A i \in DOMAIN serviceUpdates : IsServiceUpdate(serviceUpdates[i])
    /\ Len(dnsUpdates) <= 1 /\ \A i \in DOMAIN dnsUpdates : IsDNSUpdate(dnsUpdates[i])
    /\ proxy \in {"up", "ended", "failed", "off"}
    /\ job = Idle \/ IsServiceUpdate(job) \/ IsDNSUpdate(job)
    /\ serviceCache \in [Names -> ClusterIPs \union {None}]
    /\ virtuals \subseteq ServerSet /\ routes \subseteq virtuals \X EndpointSet
    /\ addrs \subseteq ClusterIPs
    /\ hosts \in [HostNames -> ClusterIPs \union {HostIP, None}]
    /\ \A h \in DNSHosts : nginx[h] # None =>
          DOMAIN nginx[h] \subseteq Names /\ \A nm \in DOMAIN nginx[h] : nginx[h][nm] \in ClusterIPs
    /\ interrupted \in BOOLEAN /\ leftover \in BOOLEAN
    /\ faults \in 0 .. scenario.faults /\ starts \in 0 .. scenario.starts
    /\ spoilt \subseteq Services \union DNSes

(* Nothing the watcher announced is still on its way.                      *)
Settled ==
    /\ proxy = "up" /\ job = Idle
    /\ outbox = <<>> /\ serviceUpdates = <<>> /\ dnsUpdates = <<>>

(* Once the updates are handled, every service announced has the virtual   *)
(* servers of its cluster IP and its name in the cache, also if the table  *)
(* is one a killed process left; its node ports and its address on the     *)
(* interface only without: AddVirtual finds the cluster IP's server and    *)
(* gives up the port, and an address goes with the deletion of any service *)
(* that had it, though another's servers stayed.  Spoilt is a service      *)
(* announced with the deletion of one whose name, address or node port it  *)
(* took over, or that the kernel refused something.                        *)
LatestServed ==
    Settled => \A s \in DOMAIN latest \ spoilt :
        /\ \A i \in DOMAIN PortsOf[s] : ClusterServer(s, i) \in virtuals
        /\ leftover \/ (VirtualsOf(s) \subseteq virtuals /\ clusterIP[s] \in addrs)
        /\ serviceCache[NameOf[s]] = clusterIP[s]

(* Without a table some killed process left, it then holds nothing that is *)
(* not a service's of latest, no route to an endpoint that is not latest's,*)
(* and of each service that is not spoilt all its routes: however the      *)
(* additions, deletions and differences were ordered and refused.          *)
RulesExact ==
    Settled /\ ~ leftover =>
        /\ virtuals \subseteq UNION {VirtualsOf(s) : s \in DOMAIN latest}
        /\ addrs \subseteq {clusterIP[s] : s \in DOMAIN latest}
        /\ routes \subseteq UNION {RoutesOf(s, latest[s]) : s \in DOMAIN latest}
        /\ \A s \in DOMAIN latest \ spoilt : RoutesOf(s, latest[s]) \subseteq routes

(* Nor does a name outlive its object: cache, hosts file and nginx files   *)
(* only hold names of announced services and hosts of announced DNS        *)
(* objects, each with the address of its object, even where an addition    *)
(* stopped half way or a reload failed.  One way is left open: of two      *)
(* objects with a host in common, the deletion of one that was not set up  *)
(* may overtake the other's and take its file, and the other's deletion    *)
(* stops at the file it misses.                                            *)
CrossedDNS(d) ==
    d \in spoilt /\ \E e \in (scenario.objects \intersect DNSes) \ {d} :
                       HostsOf(d) \intersect HostsOf(e) # {}

NoNameOutlives ==
    Settled /\ ~ leftover =>
        /\ \A nm \in Names : serviceCache[nm] # None =>
              \E s \in DOMAIN latest : NameOf[s] = nm /\ clusterIP[s] = serviceCache[nm]
        /\ \A h \in HostNames : hosts[h] # None =>
              \/ \E s \in DOMAIN latest : ShortName[NameOf[s]] = h /\ clusterIP[s] = hosts[h]
              \/ \E d \in latestDNS : h \in HostsOf(d) /\ hosts[h] = HostIP
        /\ \A h \in DNSHosts : nginx[h] # None =>
              \E d \in DNSes : h \in HostsOf(d) /\ (d \in latestDNS \/ CrossedDNS(d))

(* Once the cluster stops changing, the table comes to route every stored  *)
(* service to exactly the pods that back it, as long as the proxy lives.   *)
RoutedAsStored ==
    \A s \in Services \ spoilt :
        phase[s] = "live" => RoutesOf(s, Endpoints(s, Live(Pods))) \subseteq routes
RoutesConverge ==
    <>[](proxy = "up" /\ ~ leftover =>
            /\ RoutedAsStored
            /\ routes \subseteq UNION {RoutesOf(s, Endpoints(s, Live(Pods))) : s \in Live(Services)})

-----------------------------------------------------------------------------
(* What the repository says and the code does not do *)

Undisturbed == ~ leftover /\ faults = 0

(* README 5.3: "When it discovers that the local version is outdated and   *)
(* local IPVS rules need updating, it calls the encapsulated IPVS          *)
(* interfaces to perform the update": every service announced is served,   *)
(* one created again within a polling period too.                          *)
EveryLatestServed ==
    Settled /\ Undisturbed => \A s \in DOMAIN latest :
        VirtualsOf(s) \subseteq virtuals /\ clusterIP[s] \in addrs

(* README 5.3: the destinations of the virtual server of each port are     *)
(* "the PodIP:TargetPort of all Endpoints", two ports to one target too.   *)
EveryPortRouted ==
    Settled /\ Undisturbed => \A s \in DOMAIN latest \ spoilt, e \in EndpointSet :
        \A i \in DOMAIN PortsOf[s] : e \in latest[s] /\ e[2] = PortsOf[s][i].target =>
            <<ClusterServer(s, i), e>> \in routes

(* README 5.9: Kubeproxy "dynamically modify the configuration files for   *)
(* both based on this to make the DNS available": every DNS object         *)
(* announced has its nginx files and its hosts.                            *)
EveryDNSAvailable ==
    Settled /\ Undisturbed => \A d \in latestDNS : \A h \in HostsOf(d) :
        nginx[h] # None /\ hosts[h] = HostIP

(* The same passage: the addresses nginx forwards to are the services'.    *)
ProxiesCurrentService ==
    Settled /\ Undisturbed => \A h \in DNSHosts : nginx[h] # None =>
        \A nm \in DOMAIN nginx[h] : \A s \in DOMAIN latest :
            NameOf[s] = nm => nginx[h][nm] = clusterIP[s]

(* README 5.3 again, for the process that follows a killed one: it installs*)
(* nothing that is not in the cluster, and removes what is not.            *)
RulesExactAlways ==
    Settled /\ faults = 0 /\ DOMAIN latest # {} =>
        virtuals \subseteq UNION {VirtualsOf(s) : s \in DOMAIN latest}
=============================================================================
