--------------------------- MODULE KubeproxyProofs ---------------------------
(***************************************************************************)
(* What holds of a node's kube-proxy for every set of services, pods and   *)
(* DNS objects, every pool of addresses and every number of failures and   *)
(* of starts of the process.                                               *)
(*                                                                         *)
(*   ProxyTypeCorrect     maps, channels, kernel table and files hold what *)
(*                        the code declares                                *)
(*   ServedOnceSettled    what was announced is served                     *)
(*   NamesEnd             no name, host or file outlives its object        *)
(*                                                                         *)
(* and, of services no two of whose ports share a target:                  *)
(*                                                                         *)
(*   RulesAreExact        servers, addresses and routes are exactly those  *)
(*                        announced                                        *)
(*                                                                         *)
(* All four speak of the updates still on their way: their two lines, and  *)
(* the rank of each item on its line, come before the invariants.          *)
(***************************************************************************)
EXTENDS Kubeproxy, SequenceTheorems, TLAPS, NaturalsInduction, WellFoundedInduction, FiniteSetTheorems

(* The principle of the least number, in the form the proofs cite: an      *)
(* induction over an index goes through its least counterexample.          *)
LEMMA LeastExists ==
    ASSUME NEW S, S \subseteq Nat, S # {}
    PROVE  \E x \in S : \A y \in S : x <= y
<1> DEFINE R == {ss \in Nat \X Nat : ss[1] < ss[2]}
<1>1. R = OpToRel(<, Nat)
  BY DEF OpToRel
<1>2. IsWellFoundedOn(R, Nat)
  BY <1>1, NatLessThanWellFounded
<1> HIDE DEF R
<1>3. PICK x \in S : \A y \in S : ~ (<<y, x>> \in R)
  BY <1>2, WFMin
<1>4. \A y \in S : y < x => <<y, x>> \in R
  BY DEF R
<1>5. \A y \in S : ~ (y < x)
  BY <1>3, <1>4, Zenon
<1> QED
  BY <1>5

(* The least member (FiniteSetsExt) of a nonempty set of numbers is one.   *)
LEMMA MinIsMember ==
    ASSUME NEW S, S \subseteq Nat, S # {}
    PROVE  Min(S) \in S
  BY LeastExists DEF Min

-----------------------------------------------------------------------------
(* Types *)

ServiceOps == {"ServiceAdd", "ServiceDelete", "ServiceEndpointsUpdate"}
DNSOps == {"DNSAdd", "DNSDelete"}

(* The services and DNS objects a poll may have seen: they have been live, *)
(* and a service has its address for good.                                 *)
Given == {s \in Services : phase[s] # "new" /\ clusterIP[s] \in ClusterIPs}
Announceable == {d \in DNSes : phase[d] # "new" /\ d \in scenario.objects}

ServiceUpdateSet ==
    [op : ServiceOps, items : (SUBSET {x \in ServiceItems : x.svc \in Given}) \ {{}}]
DNSUpdateSet == [op : DNSOps, items : (SUBSET Announceable) \ {{}}]

(* An outbox holds the updates of one poll, all for one channel.           *)
QueuesTyped ==
    /\ outbox \in Seq(ServiceUpdateSet) \union Seq(DNSUpdateSet)
    /\ serviceUpdates \in Seq(ServiceUpdateSet) /\ Len(serviceUpdates) <= 1
    /\ dnsUpdates \in Seq(DNSUpdateSet) /\ Len(dnsUpdates) <= 1
    /\ job \in {Idle} \union ServiceUpdateSet \union DNSUpdateSet

ApiTyped ==
    /\ scenario \in Scenarios
    /\ phase \in [Services \union Pods \union DNSes -> {"new", "live", "gone"}]
    /\ clusterIP \in [Services -> ClusterIPs \union {None}]
    /\ \A s \in Services : phase[s] = "live" => clusterIP[s] \in ClusterIPs
    /\ \A d \in DNSes : phase[d] \in {"new", "live"} => d \in scenario.objects

WatcherTyped ==
    /\ watcher \in {"pods", "services", "dns", "ended", "off"}
    /\ podsSeen \subseteq Pods
    /\ DOMAIN latest \subseteq Given /\ latest = [s \in DOMAIN latest |-> latest[s]]
    /\ \A s \in DOMAIN latest : latest[s] \subseteq EndpointSet
    /\ latestDNS \subseteq Announceable

KernelTyped ==
    /\ virtuals \subseteq ServerSet /\ routes \subseteq virtuals \X EndpointSet
    /\ addrs \subseteq ClusterIPs

FilesTyped ==
    /\ serviceCache \in [Names -> ClusterIPs \union {None}]
    /\ hosts \in [HostNames -> ClusterIPs \union {HostIP, None}]
    /\ nginx = [h \in DNSHosts |-> nginx[h]]
    /\ \A h \in DNSHosts : nginx[h] # None =>
          DOMAIN nginx[h] \subseteq Names /\ \A nm \in DOMAIN nginx[h] : nginx[h][nm] \in ClusterIPs

RunTyped ==
    /\ proxy \in {"up", "ended", "failed", "off"}
    /\ interrupted \in BOOLEAN /\ leftover \in BOOLEAN
    /\ starts \in 0 .. scenario.starts
    /\ spoilt \subseteq Services \union DNSes

FaultsTyped == faults \in 0 .. scenario.faults

TypeInv ==
    /\ ApiTyped /\ WatcherTyped /\ QueuesTyped
    /\ KernelTyped /\ FilesTyped /\ RunTyped /\ FaultsTyped

LEMMA TypeInvIsEnough ==
    TypeInv => ProxyTypeOK
<1> SUFFICES ASSUME TypeInv PROVE ProxyTypeOK
  OBVIOUS
<1> USE DEF TypeInv
<1>1. \A u \in ServiceUpdateSet : IsServiceUpdate(u)
  BY DEF ServiceUpdateSet, IsServiceUpdate, ServiceOps
<1>2. \A u \in DNSUpdateSet : IsDNSUpdate(u)
  BY DEF DNSUpdateSet, IsDNSUpdate, DNSOps, Announceable
<1>3. \A i \in DOMAIN outbox : IsServiceUpdate(outbox[i]) \/ IsDNSUpdate(outbox[i])
  BY <1>1, <1>2 DEF QueuesTyped
<1>4. /\ Len(serviceUpdates) <= 1 /\ \A i \in DOMAIN serviceUpdates : IsServiceUpdate(serviceUpdates[i])
      /\ Len(dnsUpdates) <= 1 /\ \A i \in DOMAIN dnsUpdates : IsDNSUpdate(dnsUpdates[i])
  BY <1>1, <1>2 DEF QueuesTyped
<1>5. job = Idle \/ IsServiceUpdate(job) \/ IsDNSUpdate(job)
  BY <1>1, <1>2 DEF QueuesTyped
<1>6. DOMAIN latest \subseteq Services /\ latestDNS \subseteq DNSes
  BY DEF WatcherTyped, Given, Announceable
<1> QED
  BY <1>3, <1>4, <1>5, <1>6 DEF ProxyTypeOK, ApiTyped, WatcherTyped, KernelTyped, FilesTyped,
     RunTyped, FaultsTyped

(* Objects keep what they were given: of a step of the cluster nothing in  *)
(* the queues goes stale.                                                  *)
LEMMA ClusterKeepsGiven ==
    ASSUME TypeInv, Cluster
    PROVE  Given \subseteq Given' /\ Announceable \subseteq Announceable' /\ ApiTyped'
<1> USE DEF TypeInv, ApiTyped
<1>0. Services \intersect Pods = {} /\ Services \intersect DNSes = {} /\ Pods \intersect DNSes = {}
  BY UidAssumption DEF UidAssumption
<1>1. CASE \E s \in Services : AddService(s)
  <2>1. PICK s \in Services : AddService(s)
    BY <1>1
  <2> DEFINE free == ClusterIPs \ {clusterIP[t] : t \in Live(Services)}
  <2>2. Min(free) \in ClusterIPs
    <3>1. free \subseteq Nat /\ free # {}
      BY <2>1, PoolAssumption DEF AddService, ClusterIPs, PoolAssumption
    <3> QED
      BY <3>1, MinIsMember, Zenon
  <2>3. /\ phase[s] = "new" /\ clusterIP' = [clusterIP EXCEPT ![s] = Min(free)]
        /\ phase' = [phase EXCEPT ![s] = "live"] /\ scenario' = scenario
    BY <2>1 DEF AddService
  <2> HIDE DEF free
  <2> QED
    BY <1>0, <2>2, <2>3 DEF Given, Announceable
<1>2. CASE \E d \in DNSes : AddDNS(d)
  BY <1>0, <1>2 DEF AddDNS, Given, Announceable
<1>3. CASE \E p \in Pods : PodRuns(p)
  BY <1>0, <1>3 DEF PodRuns, Given, Announceable
<1>4. CASE \E x \in DOMAIN phase : Delete(x)
  BY <1>0, <1>4 DEF Delete, Given, Announceable
<1> QED
  BY <1>1, <1>2, <1>3, <1>4 DEF Cluster

LEMMA SeqMonotone ==
    ASSUME NEW S, NEW T, S \subseteq T
    PROVE  Seq(S) \subseteq Seq(T)
  OBVIOUS

LEMMA QueuesMonotone ==
    ASSUME Given \subseteq Given', Announceable \subseteq Announceable'
    PROVE  /\ ServiceUpdateSet \subseteq ServiceUpdateSet'
           /\ DNSUpdateSet \subseteq DNSUpdateSet'
           /\ Seq(ServiceUpdateSet) \subseteq Seq(ServiceUpdateSet')
           /\ Seq(DNSUpdateSet) \subseteq Seq(DNSUpdateSet')
<1>1. ServiceUpdateSet \subseteq ServiceUpdateSet'
  BY DEF ServiceUpdateSet, ServiceItems, EndpointSet
<1>2. DNSUpdateSet \subseteq DNSUpdateSet'
  BY DEF DNSUpdateSet
<1> QED
  BY <1>1, <1>2, SeqMonotone
(* A poll announces endpoints of running pods.                             *)
LEMMA EndpointsTyped ==
    ASSUME NEW s \in Services, NEW pods \in SUBSET Pods
    PROVE  Endpoints(s, pods) \subseteq EndpointSet
<1> SUFFICES ASSUME NEW e \in Endpoints(s, pods) PROVE e \in EndpointSet
  OBVIOUS
<1>1. PICK p \in pods : \E i \in {j \in DOMAIN PortsOf[s] : PortsOf[s][j].target \in Exposes[p]} :
         e = <<PodIP[p], PortsOf[s][i].target>>
  BY DEF Endpoints
<1>2. PodIP[p] \in {PodIP[q] : q \in Pods} /\ Exposes[p] \in {Exposes[q] : q \in Pods}
  OBVIOUS
<1> QED
  BY <1>1, <1>2 DEF EndpointSet

(* What updateService and updateDNS send are updates for one channel.      *)
LEMMA ServiceUpdateTyped ==
    ASSUME NEW op \in ServiceOps, NEW items \in SUBSET {x \in ServiceItems : x.svc \in Given}
    PROVE  Update(op, items) \in Seq(ServiceUpdateSet)
<1>1. items # {} => [op |-> op, items |-> items] \in ServiceUpdateSet
  BY DEF ServiceUpdateSet
<1> QED
  BY <1>1 DEF Update

LEMMA DNSUpdateTyped ==
    ASSUME NEW op \in DNSOps, NEW items \in SUBSET Announceable
    PROVE  Update(op, items) \in Seq(DNSUpdateSet)
<1>1. items # {} => [op |-> op, items |-> items] \in DNSUpdateSet
  BY DEF DNSUpdateSet
<1> QED
  BY <1>1 DEF Update

LEMMA ChangesTyped ==
    ASSUME NEW old, NEW new, DOMAIN old \subseteq Given, DOMAIN new \subseteq Given,
           \A s \in DOMAIN old : old[s] \subseteq EndpointSet,
           \A s \in DOMAIN new : new[s] \subseteq EndpointSet
    PROVE  ServiceChanges(old, new) \in Seq(ServiceUpdateSet)
<1> DEFINE Items == {x \in ServiceItems : x.svc \in Given}
           added == {Change(s, {}, new[s]) : s \in DOMAIN new \ DOMAIN old}
           gone  == {Change(s, {}, {}) : s \in Gone(old, new)}
           moved == Differences(old, new)
<1>1. \A s \in Given : \A dels, adds \in SUBSET EndpointSet : Change(s, dels, adds) \in Items
  BY DEF Change, ServiceItems, Given
<1>2. added \in SUBSET Items
  BY <1>1
<1>3. gone \in SUBSET Items
  BY <1>1 DEF Gone
<1>4. moved \in SUBSET Items
  BY <1>1 DEF Differences, Changed
<1> HIDE DEF added, gone, moved
<1>5. /\ Update("ServiceAdd", added) \in Seq(ServiceUpdateSet)
      /\ Update("ServiceDelete", gone) \in Seq(ServiceUpdateSet)
      /\ Update("ServiceEndpointsUpdate", moved) \in Seq(ServiceUpdateSet)
  BY <1>2, <1>3, <1>4, ServiceUpdateTyped DEF ServiceOps
<1>6. ServiceChanges(old, new) = Update("ServiceAdd", added) \o Update("ServiceDelete", gone)
                                 \o Update("ServiceEndpointsUpdate", moved)
  BY DEF ServiceChanges, added, gone, moved
<1> HIDE DEF Items
<1> QED
  BY <1>5, <1>6, ConcatProperties

(* A step of one of the groups of variables.                               *)
LEMMA QueuesKept ==
    ASSUME TypeInv, Given \subseteq Given', Announceable \subseteq Announceable',
           UNCHANGED <<outbox, serviceUpdates, dnsUpdates, job>>
    PROVE  QueuesTyped'
  BY QueuesMonotone DEF TypeInv, QueuesTyped

LEMMA WatcherKept ==
    ASSUME TypeInv, Given \subseteq Given', Announceable \subseteq Announceable',
           UNCHANGED watcherVars
    PROVE  WatcherTyped'
  BY DEF TypeInv, WatcherTyped, watcherVars, EndpointSet

LEMMA GivenKept ==
    ASSUME UNCHANGED apiVars
    PROVE  Given' = Given /\ Announceable' = Announceable /\ (ApiTyped => ApiTyped')
           /\ ServiceUpdateSet' = ServiceUpdateSet /\ DNSUpdateSet' = DNSUpdateSet
  BY DEF apiVars, Given, Announceable, ApiTyped, ServiceUpdateSet, DNSUpdateSet, ServiceItems,
     EndpointSet

LEMMA KernelKept ==
    ASSUME KernelTyped, UNCHANGED kernelVars
    PROVE  KernelTyped'
  BY DEF KernelTyped, kernelVars, ServerSet, EndpointSet, NodePortsOf, PortNumbers, ClusterIPs

LEMMA FilesKept ==
    ASSUME FilesTyped, UNCHANGED <<serviceCache, fileVars>>
    PROVE  FilesTyped'
  BY DEF FilesTyped, fileVars, HostNames, Names, DNSHosts, ClusterIPs, Rules

LEMMA RunKept ==
    ASSUME RunTyped, UNCHANGED <<proxy, runVars, spoilt, scenario>>
    PROVE  RunTyped'
  BY DEF RunTyped, runVars

LEMMA FaultTyped ==
    ASSUME TypeInv, NEW failing \in BOOLEAN, Fault(failing), scenario' = scenario
    PROVE  FaultsTyped'
  BY ScenarioAssumption DEF TypeInv, ApiTyped, Fault, FaultsTyped, ScenarioAssumption

LEMMA FaultsKept ==
    ASSUME FaultsTyped, UNCHANGED <<faults, scenario>>
    PROVE  FaultsTyped'
  BY DEF FaultsTyped

-----------------------------------------------------------------------------
LEMMA PollTyped ==
    ASSUME TypeInv, NEW failing \in BOOLEAN, Poll(failing)
    PROVE  TypeInv'
<1> USE DEF TypeInv
<1>1. UNCHANGED <<apiVars, chanVars, proxy, job, serviceCache, kernelVars, fileVars, runVars>>
      /\ Fault(failing) /\ outbox = <<>>
  BY DEF Poll, ListPods, ListServices, ListDNS, Polling
<1>2. UNCHANGED apiVars /\ scenario' = scenario /\ UNCHANGED <<serviceUpdates, dnsUpdates>>
  BY <1>1 DEF apiVars, chanVars
<1>3. /\ Given' = Given /\ Announceable' = Announceable /\ ApiTyped'
      /\ ServiceUpdateSet' = ServiceUpdateSet /\ DNSUpdateSet' = DNSUpdateSet
  BY <1>2, GivenKept
<1>4. KernelTyped' /\ FilesTyped' /\ FaultsTyped'
  BY <1>1, <1>2, KernelKept, FilesKept, FaultTyped
<1>5. EndpointSet' = EndpointSet
  BY DEF EndpointSet
<1>6. spoilt' \subseteq Services \union DNSes => RunTyped'
  BY <1>1, <1>2 DEF RunTyped, runVars
<1>7. outbox' \in Seq(ServiceUpdateSet) \union Seq(DNSUpdateSet) => QueuesTyped'
  BY <1>1, <1>2, <1>3 DEF QueuesTyped
<1>8. \A s \in Live(Services) : s \in Given
  BY DEF Live, Given, ApiTyped
<1>9. Live(DNSes) \subseteq Announceable
  BY DEF Live, Announceable, ApiTyped
<1>10. CASE ListPods(failing)
  <2>1. UNCHANGED <<latest, latestDNS, outbox, spoilt>> /\ watcher' \in {"dns", "services"}
        /\ podsSeen' \subseteq Pods
    BY <1>10 DEF ListPods, WatcherTyped, Live
  <2>2. WatcherTyped'
    BY <2>1, <1>3, <1>5 DEF WatcherTyped
  <2> QED
    BY <2>1, <2>2, <1>3, <1>4, <1>6, <1>7 DEF QueuesTyped, RunTyped
<1>11. CASE ListServices(failing)
  <2> DEFINE new == IF failing THEN latest ELSE [s \in Live(Services) |-> Endpoints(s, podsSeen)]
  <2>1. /\ latest' = new /\ outbox' = ServiceChanges(latest, new)
        /\ spoilt' = spoilt \union OvertakenServices(DOMAIN latest, DOMAIN new)
        /\ watcher' = "dns" /\ podsSeen' = {} /\ latestDNS' = latestDNS
    BY <1>11 DEF ListServices
  <2>2. /\ DOMAIN new \subseteq Given /\ new = [s \in DOMAIN new |-> new[s]]
        /\ \A s \in DOMAIN new : new[s] \subseteq EndpointSet
    <3>1. Live(Services) \subseteq Services
      BY DEF Live
    <3> QED
      BY <1>8, <3>1, EndpointsTyped DEF WatcherTyped
  <2> HIDE DEF new
  <2>3. ServiceChanges(latest, new) \in Seq(ServiceUpdateSet)
    BY <2>2, ChangesTyped DEF WatcherTyped
  <2>4. spoilt' \subseteq Services \union DNSes
    BY <2>1, <2>2 DEF OvertakenServices, RunTyped, Given
  <2>5. WatcherTyped'
    BY <2>1, <2>2, <1>3, <1>5 DEF WatcherTyped
  <2> QED
    BY <2>1, <2>3, <2>4, <2>5, <1>3, <1>4, <1>6, <1>7
<1>12. CASE ListDNS(failing)
  <2> DEFINE new == IF failing THEN latestDNS ELSE Live(DNSes)
  <2>1. /\ latestDNS' = new /\ outbox' = DNSChanges(latestDNS, new)
        /\ spoilt' = spoilt \union OvertakenDNS(latestDNS, new)
        /\ watcher' = "pods" /\ UNCHANGED <<podsSeen, latest>>
    BY <1>12 DEF ListDNS
  <2>2. new \subseteq Announceable /\ latestDNS \subseteq Announceable
    BY <1>9 DEF WatcherTyped
  <2> HIDE DEF new
  <2>3. DNSChanges(latestDNS, new) \in Seq(DNSUpdateSet)
    <3>1. /\ Update("DNSAdd", new \ latestDNS) \in Seq(DNSUpdateSet)
          /\ Update("DNSDelete", latestDNS \ new) \in Seq(DNSUpdateSet)
      BY <2>2, DNSUpdateTyped DEF DNSOps
    <3> QED
      BY <3>1, ConcatProperties DEF DNSChanges
  <2>4. spoilt' \subseteq Services \union DNSes
    BY <2>1, <2>2 DEF OvertakenDNS, RunTyped, Announceable
  <2>5. WatcherTyped'
    BY <2>1, <2>2, <1>3, <1>5 DEF WatcherTyped
  <2> QED
    BY <2>1, <2>3, <2>4, <2>5, <1>3, <1>4, <1>6, <1>7
<1> QED
  BY <1>10, <1>11, <1>12 DEF Poll

LEMMA MovingTyped ==
    ASSUME TypeInv, Send \/ Receive
    PROVE  TypeInv'
<1> USE DEF TypeInv
<1>1. UNCHANGED <<apiVars, watcherVars, serviceCache, kernelVars, fileVars, runVars, faults, spoilt, proxy>>
  BY DEF Send, Receive
<1>2. /\ Given' = Given /\ Announceable' = Announceable /\ ApiTyped'
      /\ ServiceUpdateSet' = ServiceUpdateSet /\ DNSUpdateSet' = DNSUpdateSet /\ scenario' = scenario
  BY <1>1, GivenKept DEF apiVars
<1>3. WatcherTyped' /\ KernelTyped' /\ FilesTyped' /\ RunTyped' /\ FaultsTyped'
  BY <1>1, <1>2, WatcherKept, KernelKept, FilesKept, RunKept, FaultsKept
<1>4. CASE Send
  <2>0. /\ \A u \in ServiceUpdateSet : u.op \in ServiceOps
        /\ \A u \in DNSUpdateSet : u.op \in DNSOps
    BY DEF ServiceUpdateSet, DNSUpdateSet
  <2>1. outbox # <<>> /\ outbox' = Tail(outbox) /\ job' = job
    BY <1>4 DEF Send
  <2>2. Tail(outbox) \in Seq(ServiceUpdateSet) \union Seq(DNSUpdateSet)
    BY <2>1 DEF QueuesTyped
  <2>3. Head(outbox) \in ServiceUpdateSet \union DNSUpdateSet
    BY <2>1 DEF QueuesTyped
  <2>4. CASE Head(outbox).op \in DNSOps
    <3>1. dnsUpdates' = <<Head(outbox)>> /\ serviceUpdates' = serviceUpdates
      BY <1>4, <2>4 DEF Send, DNSOps
    <3>2. Head(outbox) \in DNSUpdateSet
      BY <2>0, <2>3, <2>4 DEF DNSOps, ServiceOps
    <3>3. QueuesTyped'
      BY <1>2, <2>1, <2>2, <3>1, <3>2 DEF QueuesTyped
    <3> QED
      BY <1>2, <1>3, <3>3
  <2>5. CASE Head(outbox).op \notin DNSOps
    <3>1. serviceUpdates' = <<Head(outbox)>> /\ dnsUpdates' = dnsUpdates
      BY <1>4, <2>5 DEF Send, DNSOps
    <3>2. Head(outbox) \in ServiceUpdateSet
      BY <2>0, <2>3, <2>5
    <3>3. QueuesTyped'
      BY <1>2, <2>1, <2>2, <3>1, <3>2 DEF QueuesTyped
    <3> QED
      BY <1>2, <1>3, <3>3
  <2> QED
    BY <2>4, <2>5
<1>5. CASE Receive
  <2>1. outbox' = outbox
    BY <1>5 DEF Receive
  <2>2. \/ /\ serviceUpdates # <<>> /\ job' = Head(serviceUpdates)
           /\ serviceUpdates' = <<>> /\ dnsUpdates' = dnsUpdates
        \/ /\ dnsUpdates # <<>> /\ job' = Head(dnsUpdates)
           /\ dnsUpdates' = <<>> /\ serviceUpdates' = serviceUpdates
    BY <1>5 DEF Receive
  <2>3. /\ serviceUpdates # <<>> => Head(serviceUpdates) \in ServiceUpdateSet
        /\ dnsUpdates # <<>> => Head(dnsUpdates) \in DNSUpdateSet
    BY DEF QueuesTyped
  <2>4. /\ job' \in ServiceUpdateSet \union DNSUpdateSet
        /\ serviceUpdates' \in {<<>>, serviceUpdates} /\ dnsUpdates' \in {<<>>, dnsUpdates}
    BY <2>2, <2>3, Zenon
  <2>5. /\ serviceUpdates' \in Seq(ServiceUpdateSet) /\ Len(serviceUpdates') <= 1
        /\ dnsUpdates' \in Seq(DNSUpdateSet) /\ Len(dnsUpdates') <= 1
    <3>1. /\ serviceUpdates \in Seq(ServiceUpdateSet) /\ Len(serviceUpdates) <= 1
          /\ dnsUpdates \in Seq(DNSUpdateSet) /\ Len(dnsUpdates) <= 1
      BY DEF QueuesTyped
    <3>2. \A S : <<>> \in Seq(S) /\ Len(<<>>) <= 1
      OBVIOUS
    <3> QED
      BY <2>4, <3>1, <3>2, Zenon
  <2>6. QueuesTyped'
    BY <1>2, <2>1, <2>4, <2>5 DEF QueuesTyped
  <2> QED
    BY <1>2, <1>3, <2>6
<1> QED
  BY <1>4, <1>5

(* The item at hand, and what is left of its update.                       *)
LEMMA HandlingTyped ==
    ASSUME TypeInv, NEW op \in ServiceOps \union DNSOps, NEW item, Handling(op, item)
    PROVE  /\ op \in ServiceOps => item \in ServiceItems /\ item.svc \in Given
           /\ op \in DNSOps => item \in Announceable
           /\ ApiTyped' /\ WatcherTyped' /\ QueuesTyped'
           /\ UNCHANGED <<apiVars, watcherVars, proxy, runVars>> /\ scenario' = scenario
           /\ spoilt' \subseteq Services \union DNSes => RunTyped'
<1> USE DEF TypeInv
<1>1. /\ job.op = op /\ item \in job.items
      /\ job' = IF job.items = {item} THEN Idle ELSE [job EXCEPT !.items = @ \ {item}]
      /\ UNCHANGED <<apiVars, watcherVars, outbox, chanVars, proxy, runVars>>
  BY DEF Handling
<1>2. /\ Given' = Given /\ Announceable' = Announceable /\ ApiTyped'
      /\ ServiceUpdateSet' = ServiceUpdateSet /\ DNSUpdateSet' = DNSUpdateSet /\ scenario' = scenario
  BY <1>1, GivenKept DEF apiVars
<1>3. job \in ServiceUpdateSet \union DNSUpdateSet
  BY <1>1 DEF QueuesTyped, Idle, ServiceOps, DNSOps
<1>4. /\ job \in ServiceUpdateSet => op \in ServiceOps
      /\ job \in DNSUpdateSet => op \in DNSOps
  BY <1>1 DEF ServiceUpdateSet, DNSUpdateSet
<1>5. ServiceOps \intersect DNSOps = {}
  BY DEF ServiceOps, DNSOps
<1>6. job \in ServiceUpdateSet => item \in ServiceItems /\ item.svc \in Given
  BY <1>1 DEF ServiceUpdateSet
<1>7. job \in DNSUpdateSet => item \in Announceable
  BY <1>1 DEF DNSUpdateSet
<1>8. job' \in {Idle} \union ServiceUpdateSet \union DNSUpdateSet
  BY <1>1, <1>3 DEF ServiceUpdateSet, DNSUpdateSet
<1>9. QueuesTyped'
  BY <1>1, <1>2, <1>8 DEF QueuesTyped, chanVars
<1> QED
  BY <1>1, <1>2, <1>3, <1>4, <1>5, <1>6, <1>7, <1>9, WatcherKept DEF RunTyped, runVars

LEMMA ServerTyped ==
    ASSUME NEW s \in Given
    PROVE  /\ \A i \in DOMAIN PortsOf[s] : ClusterServer(s, i) \in Servers(s, i) /\ Servers(s, i) \subseteq ServerSet
           /\ VirtualsOf(s) \subseteq ServerSet
<1>1. /\ s \in Services /\ clusterIP[s] \in ClusterIPs
      /\ PortsOf[s] \in {PortsOf[t] : t \in Services} /\ NodePortsOf(s) \in {NodePortsOf(t) : t \in Services}
  BY DEF Given
<1>2. ASSUME NEW i \in DOMAIN PortsOf[s]
      PROVE  ClusterServer(s, i) \in Servers(s, i) /\ Servers(s, i) \subseteq ServerSet
  <2>1. PortsOf[s][i].port \in PortNumbers
    BY <1>1 DEF PortNumbers
  <2>2. PortsOf[s][i].node # None => PortsOf[s][i].node \in UNION {NodePortsOf(t) : t \in Services}
    BY <1>1 DEF NodePortsOf
  <2> QED
    BY <1>1, <2>1, <2>2 DEF ClusterServer, Servers, ServerSet
<1> QED
  BY <1>2 DEF VirtualsOf

(* RoutesVia: through the virtual servers of the ports, to the endpoints.  *)
LEMMA RoutesTyped ==
    ASSUME NEW s \in Given, NEW ports \in SUBSET DOMAIN PortsOf[s], NEW endpoints
    PROVE  RoutesVia(s, ports, endpoints) \subseteq (UNION {Servers(s, i) : i \in ports}) \X endpoints
<1> SUFFICES ASSUME NEW r \in RoutesVia(s, ports, endpoints)
             PROVE  r \in (UNION {Servers(s, i) : i \in ports}) \X endpoints
  OBVIOUS
<1>1. PICK i \in Reverse(s, ports) :
         r \in Servers(s, i) \X {e \in endpoints : e[2] = PortsOf[s][i].target}
  BY DEF RoutesVia
<1>2. i \in ports
  BY DEF Reverse
<1> QED
  BY <1>1, <1>2

LEMMA AdditionTyped ==
    ASSUME TypeInv, NEW item, NEW refused, NEW lost, HandleServiceAddition(item, refused, lost)
    PROVE  TypeInv'
<1> USE DEF TypeInv
<1> DEFINE s      == item.svc
           ports  == DOMAIN PortsOf[s]
           bad    == virtuals \union refused
           first  == {i \in ports : ClusterServer(s, i) \notin bad}
           mapped == {i \in first : Servers(s, i) \intersect bad = {}}
           added  == {ClusterServer(s, i) : i \in first} \union UNION {Servers(s, i) : i \in mapped}
           nm     == NameOf[s]
<1>1. /\ Handling("ServiceAdd", item)
      /\ Fault(refused # {} \/ lost # {})
      /\ spoilt' = IF refused # {} \/ lost # {} THEN spoilt \union {s} ELSE spoilt
      /\ virtuals' = virtuals \union added
      /\ routes' = routes \union (RoutesVia(s, mapped, item.adds) \ lost)
      /\ addrs' = IF first # {} THEN addrs \union {clusterIP[s]} ELSE addrs
      /\ serviceCache' = [serviceCache EXCEPT ![nm] = clusterIP[s]]
      /\ hosts' = IF hosts[ShortName[nm]] = None THEN [hosts EXCEPT ![ShortName[nm]] = clusterIP[s]]
                  ELSE hosts
      /\ UNCHANGED nginx
  BY DEF HandleServiceAddition
<1>2. /\ item \in ServiceItems /\ s \in Given
      /\ ApiTyped' /\ WatcherTyped' /\ QueuesTyped' /\ scenario' = scenario
      /\ spoilt' \subseteq Services \union DNSes => RunTyped'
  BY <1>1, HandlingTyped DEF ServiceOps
<1>3. s \in Services /\ clusterIP[s] \in ClusterIPs /\ nm \in Names /\ ShortName[nm] \in HostNames
      /\ item.adds \subseteq EndpointSet
  BY <1>2 DEF Given, Names, HostNames, ServiceItems
<1>4. FaultsTyped' /\ RunTyped'
  BY <1>1, <1>2, <1>3, FaultTyped DEF RunTyped
<1>5. FilesTyped'
  <2>1. serviceCache' \in [Names -> ClusterIPs \union {None}]
    BY <1>1, <1>3 DEF FilesTyped
  <2>2. hosts' \in [HostNames -> ClusterIPs \union {HostIP, None}]
    BY <1>1, <1>3 DEF FilesTyped
  <2> QED
    BY <1>1, <2>1, <2>2 DEF FilesTyped
<1>6. KernelTyped'
  <2>1. added \subseteq ServerSet
    BY <1>2, ServerTyped
  <2>2. UNION {Servers(s, i) : i \in mapped} \subseteq added /\ mapped \in SUBSET ports
    OBVIOUS
  <2>3. RoutesVia(s, mapped, item.adds) \subseteq (UNION {Servers(s, i) : i \in mapped}) \X item.adds
    BY <1>2, <2>2, RoutesTyped
  <2> HIDE DEF added, mapped, first
  <2>4. routes' \subseteq virtuals' \X EndpointSet
    BY <1>1, <1>3, <2>2, <2>3 DEF KernelTyped
  <2> QED
    BY <1>1, <1>3, <2>1, <2>4 DEF KernelTyped
<1> QED
  BY <1>2, <1>4, <1>5, <1>6

LEMMA DeletionTyped ==
    ASSUME TypeInv, NEW item, HandleServiceDeletion(item)
    PROVE  TypeInv'
<1> USE DEF TypeInv
<1>1. /\ Handling("ServiceDelete", item) /\ UNCHANGED <<nginx, faults, spoilt>>
      /\ virtuals' = virtuals \ (VirtualsOf(item.svc) \intersect virtuals)
      /\ routes' = {r \in routes : r[1] \notin VirtualsOf(item.svc) \intersect virtuals}
      /\ addrs' \subseteq addrs
      /\ serviceCache' = [serviceCache EXCEPT ![NameOf[item.svc]] = None]
      /\ hosts' = hosts \/ hosts' = [hosts EXCEPT ![ShortName[NameOf[item.svc]]] = None]
  BY DEF HandleServiceDeletion
<1>2. /\ ApiTyped' /\ WatcherTyped' /\ QueuesTyped' /\ scenario' = scenario
      /\ spoilt' \subseteq Services \union DNSes => RunTyped'
  BY <1>1, HandlingTyped DEF ServiceOps
<1>3. FilesTyped'
  BY <1>1 DEF FilesTyped
<1>4. KernelTyped'
  BY <1>1 DEF KernelTyped
<1> QED
  BY <1>1, <1>2, <1>3, <1>4, FaultsKept DEF RunTyped

LEMMA EndpointsUpdateTyped ==
    ASSUME TypeInv, NEW item, NEW lost, HandleServiceEndpointsUpdate(item, lost)
    PROVE  TypeInv'
<1> USE DEF TypeInv
<1>1. /\ Handling("ServiceEndpointsUpdate", item)
      /\ Fault(lost # {})
      /\ spoilt' = IF lost # {} THEN spoilt \union {item.svc} ELSE spoilt
      /\ routes' = (routes \ RoutesOf(item.svc, item.dels)) \union
                   {r \in RoutesOf(item.svc, item.adds) \ lost : r[1] \in virtuals}
      /\ UNCHANGED <<virtuals, addrs, serviceCache, fileVars>>
  BY DEF HandleServiceEndpointsUpdate
<1>2. /\ item \in ServiceItems /\ item.svc \in Given
      /\ ApiTyped' /\ WatcherTyped' /\ QueuesTyped' /\ scenario' = scenario
      /\ spoilt' \subseteq Services \union DNSes => RunTyped'
  BY <1>1, HandlingTyped DEF ServiceOps
<1>3. FaultsTyped' /\ RunTyped' /\ FilesTyped'
  BY <1>1, <1>2, FaultTyped, FilesKept DEF RunTyped, Given
<1>4. RoutesOf(item.svc, item.adds) \subseteq (UNION {Servers(item.svc, i) : i \in DOMAIN PortsOf[item.svc]}) \X item.adds
  BY <1>2, RoutesTyped DEF RoutesOf
<1>5. item.adds \subseteq EndpointSet
  BY <1>2 DEF ServiceItems
<1>6. routes' \subseteq virtuals \X EndpointSet
  BY <1>1, <1>4, <1>5 DEF KernelTyped
<1>7. KernelTyped'
  BY <1>1, <1>6 DEF KernelTyped
<1> QED
  BY <1>2, <1>3, <1>7

LEMMA DNSAdditionTyped ==
    ASSUME TypeInv, NEW d, NEW reloads \in BOOLEAN, HandleDNSAddition(d, reloads)
    PROVE  TypeInv'
<1> USE DEF TypeInv
<1> DEFINE conf(h) == CHOOSE i \in Written(d) : RulesOf[d][i].host = h
           new(h)  == [nm \in RulesOf[d][conf(h)].backends |-> serviceCache[nm]]
<1>1. /\ Handling("DNSAdd", d) /\ Fault(~ reloads) /\ UNCHANGED <<serviceCache, kernelVars>>
      /\ nginx' = [h \in DNSHosts |-> IF \E i \in Written(d) : RulesOf[d][i].host = h
                                      THEN new(h) ELSE nginx[h]]
      /\ \/ hosts' = hosts
         \/ hosts' = [h \in HostNames |->
                         IF h \in HostsOf(d) /\ hosts[h] = None THEN HostIP ELSE hosts[h]]
      /\ spoilt' \subseteq spoilt \union {d}
  BY DEF HandleDNSAddition
<1>2. /\ d \in Announceable
      /\ ApiTyped' /\ WatcherTyped' /\ QueuesTyped' /\ scenario' = scenario
      /\ spoilt' \subseteq Services \union DNSes => RunTyped'
  BY <1>1, HandlingTyped DEF DNSOps
<1>3. FaultsTyped' /\ RunTyped' /\ KernelTyped'
  BY <1>1, <1>2, FaultTyped, KernelKept DEF RunTyped, Announceable
<1>4. ASSUME NEW h, \E i \in Written(d) : RulesOf[d][i].host = h
      PROVE  DOMAIN new(h) \subseteq Names /\ \A nm \in DOMAIN new(h) : new(h)[nm] \in ClusterIPs
  <2>1. conf(h) \in Written(d) /\ RulesOf[d][conf(h)].host = h
    BY <1>4
  <2> DEFINE c == conf(h)
  <2> HIDE DEF conf
  <2>2. c \in DOMAIN RulesOf[d] /\ \A nm \in RulesOf[d][c].backends : serviceCache[nm] # None
    <3>1. c \in DOMAIN RulesOf[d] /\ c \in 1 .. c
      BY <1>2, <2>1, RuleAssumption DEF Written, RuleAssumption, Announceable
    <3> QED
      BY <2>1, <3>1 DEF Written
  <2>3. RulesOf[d][c] \in Rules
    BY <1>2, <2>2 DEF Rules, Announceable
  <2>4. RulesOf[d][c].backends \subseteq Names
    BY <2>3, RuleAssumption DEF RuleAssumption
  <2> QED
    BY <2>2, <2>4 DEF FilesTyped
<1>5. hosts' \in [HostNames -> ClusterIPs \union {HostIP, None}]
  BY <1>1 DEF FilesTyped
<1> HIDE DEF new
<1>6. nginx' = [h \in DNSHosts |-> nginx'[h]] /\ \A h \in DNSHosts : nginx'[h] # None =>
          DOMAIN nginx'[h] \subseteq Names /\ \A nm \in DOMAIN nginx'[h] : nginx'[h][nm] \in ClusterIPs
  <2>1. ASSUME NEW h \in DNSHosts, nginx'[h] # None
        PROVE  DOMAIN nginx'[h] \subseteq Names /\ \A nm \in DOMAIN nginx'[h] : nginx'[h][nm] \in ClusterIPs
    <3>1. CASE \E i \in Written(d) : RulesOf[d][i].host = h
      <4>1. nginx'[h] = new(h)
        BY <1>1, <3>1
      <4> QED
        BY <1>4, <3>1, <4>1
    <3>2. CASE ~ \E i \in Written(d) : RulesOf[d][i].host = h
      <4>1. nginx'[h] = nginx[h]
        BY <1>1, <3>2
      <4> QED
        BY <2>1, <4>1 DEF FilesTyped
    <3> QED
      BY <3>1, <3>2
  <2>2. nginx' = [h \in DNSHosts |-> nginx'[h]]
    BY <1>1
  <2> QED
    BY <2>1, <2>2
<1>7. FilesTyped'
  BY <1>1, <1>5, <1>6 DEF FilesTyped
<1> QED
  BY <1>2, <1>3, <1>7

LEMMA DNSDeletionTyped ==
    ASSUME TypeInv, NEW d, NEW reloads \in BOOLEAN, HandleDNSDeletion(d, reloads)
    PROVE  TypeInv'
<1> USE DEF TypeInv
<1>1. /\ Handling("DNSDelete", d) /\ Fault(~ reloads) /\ UNCHANGED <<serviceCache, kernelVars, spoilt>>
      /\ hosts' = [h \in HostNames |-> IF h \in HostsOf(d) THEN None ELSE hosts[h]]
      /\ nginx' = [h \in DNSHosts |-> IF h \in Removable(d) THEN None ELSE nginx[h]]
  BY DEF HandleDNSDeletion
<1>2. /\ ApiTyped' /\ WatcherTyped' /\ QueuesTyped' /\ scenario' = scenario
      /\ spoilt' \subseteq Services \union DNSes => RunTyped'
  BY <1>1, HandlingTyped DEF DNSOps
<1>3. FaultsTyped' /\ RunTyped' /\ KernelTyped'
  BY <1>1, <1>2, FaultTyped, KernelKept DEF RunTyped
<1>4. FilesTyped'
  BY <1>1 DEF FilesTyped
<1> QED
  BY <1>2, <1>3, <1>4

(* What Handle does, one item of one kind at a time.                       *)
LEMMA HandleCases ==
    ASSUME TypeInv, Handle
    PROVE  \/ \E item \in job.items : HandleServiceDeletion(item)
           \/ \E item \in job.items : \E refused, lost : HandleServiceAddition(item, refused, lost)
           \/ \E item \in job.items : \E lost : HandleServiceEndpointsUpdate(item, lost)
           \/ \E d \in job.items, reloads \in BOOLEAN : HandleDNSAddition(d, reloads)
           \/ \E d \in job.items, reloads \in BOOLEAN : HandleDNSDeletion(d, reloads)
  BY DEF Handle

LEMMA ProcessTyped ==
    ASSUME TypeInv,
           \/ WatcherEnds \/ ProxyEnds \/ Interrupt
           \/ \E failing \in BOOLEAN : Start(failing)
           \/ \E byKill \in BOOLEAN : Exit(byKill)
    PROVE  TypeInv'
<1> USE DEF TypeInv
<1>1. UNCHANGED apiVars /\ scenario' = scenario
  BY DEF WatcherEnds, ProxyEnds, Interrupt, Start, Exit, apiVars
<1>2. /\ Given' = Given /\ Announceable' = Announceable /\ ApiTyped'
  BY <1>1, GivenKept
<1>3. CASE WatcherEnds
  <2>1. WatcherTyped'
    BY <1>2, <1>3 DEF WatcherEnds, WatcherTyped, EndpointSet
  <2>2. QueuesTyped' /\ KernelTyped' /\ FilesTyped' /\ RunTyped' /\ FaultsTyped'
    BY <1>1, <1>2, <1>3, QueuesKept, KernelKept, FilesKept, RunKept, FaultsKept
    DEF WatcherEnds, chanVars
  <2> QED
    BY <1>2, <2>1, <2>2
<1>4. CASE ProxyEnds
  <2>1. WatcherTyped' /\ QueuesTyped' /\ FaultsTyped'
    BY <1>1, <1>2, <1>4, QueuesKept, WatcherKept, FaultsKept DEF ProxyEnds, chanVars
  <2>2. RunTyped' /\ KernelTyped'
    BY <1>1, <1>4 DEF ProxyEnds, RunTyped, KernelTyped, runVars
  <2>3. FilesTyped'
    BY <1>4 DEF ProxyEnds, FilesTyped
  <2> QED
    BY <1>2, <2>1, <2>2, <2>3
<1>5. CASE Interrupt
  <2>1. WatcherTyped' /\ QueuesTyped' /\ FaultsTyped' /\ KernelTyped' /\ FilesTyped'
    BY <1>1, <1>2, <1>5, QueuesKept, WatcherKept, FaultsKept, KernelKept, FilesKept
    DEF Interrupt, chanVars
  <2>2. RunTyped'
    BY <1>1, <1>5 DEF Interrupt, RunTyped
  <2> QED
    BY <1>2, <2>1, <2>2
<1>6. ASSUME NEW failing \in BOOLEAN, Start(failing) PROVE TypeInv'
  <2>1. QueuesTyped' /\ KernelTyped' /\ FilesTyped'
    BY <1>1, <1>2, <1>6, QueuesKept, KernelKept, FilesKept DEF Start, chanVars
  <2>2. FaultsTyped'
    BY <1>1, <1>6, FaultTyped DEF Start
  <2>3. WatcherTyped'
    BY <1>2, <1>6 DEF Start, WatcherTyped, EndpointSet
  <2>4. RunTyped'
    BY <1>1, <1>6, ScenarioAssumption DEF Start, RunTyped, ScenarioAssumption, ApiTyped
  <2> QED
    BY <1>2, <2>1, <2>2, <2>3, <2>4
<1>7. ASSUME NEW byKill \in BOOLEAN, Exit(byKill) PROVE TypeInv'
  <2>1. KernelTyped' /\ FaultsTyped'
    BY <1>1, <1>7, KernelKept, FaultsKept DEF Exit
  <2>2. WatcherTyped'
    BY <1>7 DEF Exit, WatcherTyped, NoServices
  <2>3. QueuesTyped'
    BY <1>7 DEF Exit, QueuesTyped
  <2>4. RunTyped'
    BY <1>1, <1>7 DEF Exit, RunTyped
  <2>5. FilesTyped'
    BY <1>7 DEF Exit, FilesTyped, fileVars
  <2> QED
    BY <1>2, <2>1, <2>2, <2>3, <2>4, <2>5
<1> QED
  BY <1>3, <1>4, <1>5, <1>6, <1>7

LEMMA StutterTyped ==
    ASSUME TypeInv, UNCHANGED vars
    PROVE  TypeInv'
<1> USE DEF TypeInv
<1>1. /\ UNCHANGED <<apiVars, watcherVars, kernelVars, fileVars, runVars, serviceCache, proxy, spoilt>>
      /\ UNCHANGED <<outbox, serviceUpdates, dnsUpdates, job, faults, scenario>>
  BY DEF vars, apiVars, chanVars
<1>2. Given' = Given /\ Announceable' = Announceable /\ ApiTyped'
  BY <1>1, GivenKept
<1> QED
  BY <1>1, <1>2, QueuesKept, WatcherKept, KernelKept, FilesKept, RunKept, FaultsKept

LEMMA TypeInit ==
    ASSUME Init
    PROVE  TypeInv
<1> USE DEF Init
<1>1. ApiTyped
  BY UidAssumption DEF ApiTyped, UidAssumption
<1>2. WatcherTyped
  BY DEF WatcherTyped, NoServices
<1>3. QueuesTyped
  BY DEF QueuesTyped
<1>4. KernelTyped /\ FilesTyped
  BY DEF KernelTyped, FilesTyped
<1>5. RunTyped /\ FaultsTyped
  <2>1. scenario.faults \in Nat /\ scenario.starts \in Nat
    BY ScenarioAssumption DEF ScenarioAssumption
  <2>2. /\ proxy = "off" /\ interrupted = FALSE /\ leftover = FALSE /\ spoilt = {}
        /\ starts = 0 /\ faults = 0
    OBVIOUS
  <2>3. starts \in 0 .. scenario.starts /\ faults \in 0 .. scenario.faults
    BY <2>1, <2>2
  <2> QED
    BY <2>2, <2>3 DEF RunTyped, FaultsTyped
<1> QED
  BY <1>1, <1>2, <1>3, <1>4, <1>5 DEF TypeInv

LEMMA TypeStep ==
    ASSUME TypeInv, [Next]_vars
    PROVE  TypeInv'
<1>1. CASE Cluster
  <2>1. Given \subseteq Given' /\ Announceable \subseteq Announceable' /\ ApiTyped'
    BY <1>1, ClusterKeepsGiven
  <2>2. UNCHANGED <<watcherVars, outbox, chanVars, proxy, job, serviceCache,
                    kernelVars, fileVars, runVars, faults, spoilt>>
        /\ UNCHANGED <<serviceUpdates, dnsUpdates>>
    BY <1>1 DEF Cluster, chanVars
  <2>3. scenario' = scenario
    BY <1>1 DEF Cluster, AddService, AddDNS, PodRuns, Delete
  <2> QED
    BY <2>1, <2>2, <2>3, QueuesKept, WatcherKept, KernelKept, FilesKept, RunKept, FaultsKept
    DEF TypeInv
<1>2. CASE Handle
  BY <1>2, HandleCases, AdditionTyped, DeletionTyped, EndpointsUpdateTyped,
     DNSAdditionTyped, DNSDeletionTyped, Zenon
<1> QED
  BY <1>1, <1>2, PollTyped, MovingTyped, ProcessTyped, StutterTyped, Zenon DEF Next

(* pkg/kubeproxy: maps, channels, tables and files hold what their types   *)
(* say; above all, what is handled is about services that have an address, *)
(* and routes only go through virtual servers that are there.              *)
THEOREM ProxyTypeCorrect == Spec => []ProxyTypeOK
<1>1. Init => TypeInv
  BY TypeInit
<1>2. TypeInv /\ [Next]_vars => TypeInv'
  BY TypeStep
<1>3. TypeInv => ProxyTypeOK
  BY TypeInvIsEnough
<1> QED
  BY <1>1, <1>2, <1>3, PTL DEF Spec

-----------------------------------------------------------------------------
(* The updates on their way *)

(* Those the loop has at hand or will receive, first come first served.    *)
AtHand(ops) == IF job.op \in ops THEN <<job>> ELSE <<>>
Waiting(ops) == IF outbox # <<>> /\ Head(outbox).op \in ops THEN outbox ELSE <<>>
ServiceLine == AtHand(ServiceOps) \o serviceUpdates \o Waiting(ServiceOps)
DNSLine == AtHand(DNSOps) \o dnsUpdates \o Waiting(DNSOps)

(* The items still to be handled of one kind, each with its rank: how many *)
(* updates come after its own.  What is handled changes no other's rank.   *)
Items(line, op) ==
    UNION {{Len(line) - i} \X line[i].items : i \in {j \in DOMAIN line : line[j].op = op}}

Uids(pairs) == {p[2] : p \in pairs}
OfServices(pairs) == {<<p[1], p[2].svc>> : p \in pairs}
ServiceAdds == Items(ServiceLine, "ServiceAdd")
ServiceMoves == Items(ServiceLine, "ServiceEndpointsUpdate")
AddedServices == OfServices(ServiceAdds)
DeletedServices == OfServices(Items(ServiceLine, "ServiceDelete"))
AddedDNS == Items(DNSLine, "DNSAdd")
DeletedDNS == Items(DNSLine, "DNSDelete")

(* added and deleted are ranked uids, now the objects announced.  An object*)
(* is added once, and not again after its deletion; the objects announced  *)
(* are apart; and whoever meets a deletion of one it clashes with is yet   *)
(* to be added then, or spoilt.                                            *)
Orderly(added, deleted, now, gone, clash, lost) ==
    /\ \A p \in added \union deleted : p[1] \in Nat
    /\ \A p, q \in added : p[2] = q[2] => p = q
    /\ \A q \in deleted : q[2] \in gone \ now
    /\ \A p \in added : p[2] \in now \/ \E q \in deleted : q[2] = p[2] /\ q[1] < p[1]
    /\ \A s, t \in now : s # t => <<s, t>> \notin clash
    /\ \A q \in deleted : \A s \in now \union Uids({r \in deleted : r[1] <= q[1]}) :
          <<s, q[2]>> \in clash /\ s # q[2] =>
              s \in lost \/ \E p \in added : p[2] = s /\ p[1] < q[1]

GoneObjects == {x \in DOMAIN phase : phase[x] = "gone"}
ServiceClash == {p \in Given \X Given : Clash(p[1], p[2])}
DNSClash == {p \in DNSes \X DNSes : HostsOf(p[1]) \intersect HostsOf(p[2]) # {}}

(* An update has one entry of a service.                                   *)
Single(pairs) == \A p, q \in pairs : p[1] = q[1] /\ p[2].svc = q[2].svc => p = q
SingleInv == \A op \in ServiceOps : Single(Items(ServiceLine, op))

Apart(S, clash) == \A s, t \in S : s # t => <<s, t>> \notin clash

ApartInv ==
    /\ Apart(Live(Services), ServiceClash) /\ Apart(Live(DNSes), DNSClash)
    /\ Orderly(AddedServices, DeletedServices, DOMAIN latest, GoneObjects, ServiceClash, spoilt)
    /\ Orderly(AddedDNS, DeletedDNS, latestDNS, GoneObjects, DNSClash, spoilt)

(* What has been set up and is not yet taken down.                         *)
SetUp == (DOMAIN latest \union Uids(DeletedServices)) \ Uids(AddedServices)
SetUpDNS == (latestDNS \union Uids(DeletedDNS)) \ Uids(AddedDNS)

(* After its end the proxy touches nothing.                                *)
EndInv ==
    /\ watcher = "off" => proxy = "off" /\ latest = NoServices /\ latestDNS = {}
                          /\ ServiceLine = <<>> /\ DNSLine = <<>>
    /\ proxy = "ended" =>
          /\ virtuals = {} /\ routes = {} /\ addrs = {}
          /\ \A h \in HostNames : hosts[h] = None
          /\ \A h \in DNSHosts : nginx[h] = None

Served(s) ==
    /\ \A i \in DOMAIN PortsOf[s] : ClusterServer(s, i) \in virtuals
    /\ leftover \/ (VirtualsOf(s) \subseteq virtuals /\ clusterIP[s] \in addrs)
    /\ serviceCache[NameOf[s]] = clusterIP[s]

ServedInv ==
    /\ proxy # "ended" => \A s \in DOMAIN latest \ (spoilt \union Uids(AddedServices)) : Served(s)
    /\ ~ leftover =>
          /\ \A v \in virtuals : \E t \in SetUp : v \in VirtualsOf(t)
          /\ \A ip \in addrs : \E v \in virtuals : v[1] = ip

NamesInv ==
    /\ \A nm \in Names : serviceCache[nm] # None =>
          \E t \in SetUp : NameOf[t] = nm /\ clusterIP[t] = serviceCache[nm]
    /\ ~ leftover =>
          /\ \A h \in HostNames : hosts[h] # None =>
                \/ \E t \in SetUp : ShortName[NameOf[t]] = h /\ clusterIP[t] = hosts[h]
                \/ \E d \in SetUpDNS : h \in HostsOf(d) /\ hosts[h] = HostIP
          /\ \A h \in DNSHosts : nginx[h] # None =>
                \E d \in DNSes : /\ h \in HostsOf(d)
                                 /\ CrossedDNS(d) \/ (d \in SetUpDNS /\ h \in Removable(d))

(* Of the endpoints: what is on its way leads to those announced.  A move  *)
(* is of a service added before; what comes and is not to stay goes later, *)
(* and what goes and is to stay comes later.                               *)
Traced(N, M, A, D, endpoints) ==
    /\ \A p \in M : p[2].svc \in DOMAIN endpoints \/ \E q \in D : q[2] = p[2].svc /\ q[1] < p[1]
    /\ \A p \in M : \A q \in A : q[2] = p[2].svc => p[1] < q[1]
    /\ \A p \in N \union M : \A e \in p[2].adds :
          \/ p[2].svc \in Uids(D)
          \/ p[2].svc \in DOMAIN endpoints /\ e \in endpoints[p[2].svc]
          \/ \E q \in M : q[2].svc = p[2].svc /\ e \in q[2].dels /\ q[1] < p[1]
    /\ \A p \in M : \A e \in p[2].dels \ p[2].adds :
          p[2].svc \in DOMAIN endpoints /\ e \in endpoints[p[2].svc] =>
              \E q \in M : q[2].svc = p[2].svc /\ e \in q[2].adds /\ q[1] < p[1]

TracedInv == Traced(ServiceAdds, ServiceMoves, AddedServices, DeletedServices, latest)

Coming(s, e) == \E p \in ServiceAdds \union ServiceMoves : p[2].svc = s /\ e \in p[2].adds
Leaving(s, e) == \E p \in ServiceMoves : p[2].svc = s /\ e \in p[2].dels
Backs(e, s) == s \in DOMAIN latest /\ e \in latest[s]

(* A route is of a service set up, to an endpoint that is announced or is  *)
(* to go; an endpoint announced is to come, or has its routes.             *)
RouteKnown(r) ==
    \E t \in SetUp : /\ r \in RoutesOf(t, {r[2]})
                     /\ t \in Uids(DeletedServices) \/ Backs(r[2], t) \/ Leaving(t, r[2])
EndpointRouted(s, e) ==
    Coming(s, e) \/ (s \notin Uids(AddedServices) /\ RoutesOf(s, {e}) \subseteq routes)

RoutesInv ==
    ~ leftover =>
        /\ \A r \in routes : RouteKnown(r)
        /\ proxy # "ended" =>
              \A s \in DOMAIN latest \ spoilt : \A e \in latest[s] : EndpointRouted(s, e)

-----------------------------------------------------------------------------
(* Items of a line *)

LEMMA ItemIn ==
    ASSUME NEW U, NEW line \in Seq(U), NEW op
    PROVE  /\ \A i \in 1 .. Len(line) : \A x \in line[i].items :
                 line[i].op = op => <<Len(line) - i, x>> \in Items(line, op)
           /\ \A p \in Items(line, op) : \E i \in 1 .. Len(line) :
                 p = <<Len(line) - i, p[2]>> /\ line[i].op = op /\ p[2] \in line[i].items
<1> DEFINE n == Len(line)
<1>0. n \in Nat /\ DOMAIN line = 1 .. n
  OBVIOUS
<1> HIDE DEF n
<1>1. ASSUME NEW i \in 1 .. n, NEW x \in line[i].items, line[i].op = op
      PROVE  <<n - i, x>> \in Items(line, op)
  <2>1. i \in {j \in DOMAIN line : line[j].op = op}
    BY <1>0, <1>1
  <2>2. <<n - i, x>> \in {n - i} \X line[i].items
    OBVIOUS
  <2> QED
    BY <2>1, <2>2 DEF Items, n
<1>2. ASSUME NEW p \in Items(line, op)
      PROVE  \E i \in 1 .. n : p = <<n - i, p[2]>> /\ line[i].op = op /\ p[2] \in line[i].items
  <2>1. PICK i \in {j \in DOMAIN line : line[j].op = op} : p \in {n - i} \X line[i].items
    BY <1>2 DEF Items, n
  <2>2. p = <<n - i, p[2]>> /\ p[2] \in line[i].items /\ i \in 1 .. n /\ line[i].op = op
    BY <1>0, <2>1
  <2> QED
    BY <2>2
<1> QED
  BY <1>1, <1>2 DEF n

(* An item of the first update has been handled: no other rank changes.    *)
FirstWithout(line, rest, item) ==
    \/ line[1].items = {item} /\ rest = Tail(line)
    \/ /\ Len(rest) = Len(line)
       /\ rest[1].op = line[1].op /\ rest[1].items = line[1].items \ {item}
       /\ \A i \in 2 .. Len(line) : rest[i] = line[i]

LEMMA ItemTaken ==
    ASSUME NEW U, NEW line \in Seq(U), NEW rest \in Seq(U), line # <<>>,
           NEW item, item \in line[1].items, FirstWithout(line, rest, item), NEW op
    PROVE  LET top == Len(line) - 1
           IN  /\ Items(rest, op) = Items(line, op) \ {<<top, item>>}
               /\ line[1].op = op => <<top, item>> \in Items(line, op)
               /\ \A p \in Items(line, op) :
                     /\ p[1] \in Nat /\ p[1] <= top
                     /\ p[1] = top => line[1].op = op /\ p[2] \in line[1].items
<1> DEFINE n == Len(line)
           m == Len(rest)
           top == n - 1
           At(seq, i, x) == seq[i].op = op /\ x \in seq[i].items
<1>0. n \in Nat /\ n >= 1 /\ m \in Nat /\ DOMAIN line = 1 .. n /\ top \in Nat
  OBVIOUS
<1>1. /\ \A i \in 1 .. n : \A x : At(line, i, x) => <<n - i, x>> \in Items(line, op)
      /\ \A p \in Items(line, op) : \E i \in 1 .. n : p = <<n - i, p[2]>> /\ At(line, i, p[2])
  BY ItemIn
<1>2. /\ \A i \in 1 .. m : \A x : At(rest, i, x) => <<m - i, x>> \in Items(rest, op)
      /\ \A p \in Items(rest, op) : \E i \in 1 .. m : p = <<m - i, p[2]>> /\ At(rest, i, p[2])
  BY ItemIn
<1>3. \A p \in Items(line, op) : /\ p[1] \in Nat /\ p[1] <= top
                                 /\ p[1] = top => line[1].op = op /\ p[2] \in line[1].items
  <2> TAKE p \in Items(line, op)
  <2>1. PICK i \in 1 .. n : p = <<n - i, p[2]>> /\ At(line, i, p[2])
    BY <1>1
  <2>2. p[1] = n - i
    BY <2>1
  <2> HIDE DEF n
  <2>3. p[1] \in Nat /\ p[1] <= top /\ (p[1] = top => i = 1)
    BY <1>0, <2>2
  <2> QED
    BY <2>1, <2>3
<1>4. line[1].op = op => <<top, item>> \in Items(line, op)
  BY <1>0, <1>1
<1>5. CASE line[1].items = {item} /\ rest = Tail(line)
  <2>1. m = n - 1 /\ \A i \in 1 .. m : rest[i] = line[i + 1]
    BY <1>0, <1>5
  <2>2. line[1].items = {item}
    BY <1>5
  <2> HIDE DEF n, m
  <2>3. ASSUME NEW p \in Items(rest, op) PROVE p \in Items(line, op) \ {<<top, item>>}
    <3>1. PICK i \in 1 .. m : p = <<m - i, p[2]>> /\ At(rest, i, p[2])
      BY <1>2
    <3>2. i + 1 \in 1 .. n /\ m - i = n - (i + 1) /\ m - i # top
      BY <1>0, <2>1
    <3>3. At(line, i + 1, p[2])
      BY <2>1, <3>1
    <3>4. <<n - (i + 1), p[2]>> \in Items(line, op)
      BY <1>1, <3>2, <3>3
    <3> HIDE DEF top
    <3> QED
      BY <3>1, <3>2, <3>4
  <2>4. ASSUME NEW p \in Items(line, op), p # <<top, item>> PROVE p \in Items(rest, op)
    <3>1. PICK i \in 1 .. n : p = <<n - i, p[2]>> /\ At(line, i, p[2])
      BY <1>1
    <3>2. i # 1
      BY <2>2, <2>4, <3>1
    <3>3. i - 1 \in 1 .. m /\ (i - 1) + 1 = i /\ m - (i - 1) = n - i
      BY <1>0, <2>1, <3>2
    <3>4. rest[i - 1] = line[(i - 1) + 1]
      BY <2>1, <3>3
    <3>5. At(rest, i - 1, p[2])
      BY <3>1, <3>3, <3>4
    <3>6. <<m - (i - 1), p[2]>> \in Items(rest, op)
      BY <1>2, <3>3, <3>5
    <3> QED
      BY <3>1, <3>3, <3>6
  <2>5. Items(rest, op) = Items(line, op) \ {<<top, item>>}
    BY <2>3, <2>4
  <2> QED
    BY <1>3, <1>4, <2>5 DEF n
<1>6. CASE /\ Len(rest) = Len(line)
           /\ rest[1].op = line[1].op /\ rest[1].items = line[1].items \ {item}
           /\ \A i \in 2 .. Len(line) : rest[i] = line[i]
  <2>1. m = n /\ \A i \in 1 .. n : i # 1 => rest[i] = line[i]
    <3>1. m = n /\ \A i \in 2 .. n : rest[i] = line[i]
      BY <1>6
    <3> HIDE DEF n, m
    <3>2. \A i \in 1 .. n : i # 1 => i \in 2 .. n
      BY <1>0
    <3> QED
      BY <3>1, <3>2
  <2>2. rest[1].op = line[1].op /\ rest[1].items = line[1].items \ {item}
    BY <1>6
  <2> HIDE DEF n, m
  <2>3. \A i \in 1 .. n : \A x : At(rest, i, x) <=> At(line, i, x) /\ ~ (i = 1 /\ x = item)
    BY <2>1, <2>2
  <2> HIDE DEF At
  <2>4. ASSUME NEW p \in Items(rest, op) PROVE p \in Items(line, op) \ {<<top, item>>}
    <3>1. PICK i \in 1 .. n : p = <<n - i, p[2]>> /\ At(rest, i, p[2])
      BY <1>2, <2>1
    <3>2. n - i = top => i = 1
      BY <1>0
    <3>3. <<n - i, p[2]>> \in Items(line, op) /\ ~ (i = 1 /\ p[2] = item)
      BY <1>1, <2>3, <3>1
    <3>4. p[1] = n - i
      BY <3>1
    <3>5. p = <<top, item>> => p[1] = top /\ p[2] = item
      OBVIOUS
    <3>6. p # <<top, item>>
      BY <3>2, <3>3, <3>4, <3>5
    <3> QED
      BY <3>1, <3>3, <3>6
  <2>5. ASSUME NEW p \in Items(line, op), p # <<top, item>> PROVE p \in Items(rest, op)
    <3>1. PICK i \in 1 .. n : p = <<n - i, p[2]>> /\ At(line, i, p[2])
      BY <1>1
    <3>2. ~ (i = 1 /\ p[2] = item)
      BY <2>5, <3>1
    <3>3. <<n - i, p[2]>> \in Items(rest, op)
      BY <1>2, <2>1, <2>3, <3>1, <3>2
    <3> QED
      BY <3>1, <3>3
  <2>6. Items(rest, op) = Items(line, op) \ {<<top, item>>}
    BY <2>4, <2>5
  <2> QED
    BY <1>3, <1>4, <2>6 DEF n
<1> QED
  BY <1>5, <1>6 DEF FirstWithout

(* A line and what comes after it.                                         *)
LEMMA ItemsAppended ==
    ASSUME NEW U, NEW line \in Seq(U), NEW more \in Seq(U), NEW op
    PROVE  /\ Items(line \o more, op) =
                 {<<p[1] + Len(more), p[2]>> : p \in Items(line, op)} \union Items(more, op)
           /\ \A p \in Items(more, op) : p[1] \in Nat /\ p[1] < Len(more)
<1> DEFINE n == Len(line)
           k == Len(more)
           both == line \o more
           At(seq, i, x) == seq[i].op = op /\ x \in seq[i].items
<1>0. n \in Nat /\ k \in Nat
  OBVIOUS
<1>1. both \in Seq(U) /\ Len(both) = n + k
      /\ \A i \in 1 .. n + k : both[i] = IF i <= n THEN line[i] ELSE more[i - n]
  BY ConcatProperties
<1>2. /\ \A i \in 1 .. n : \A x : At(line, i, x) => <<n - i, x>> \in Items(line, op)
      /\ \A p \in Items(line, op) : \E i \in 1 .. n : p = <<n - i, p[2]>> /\ At(line, i, p[2])
  BY ItemIn
<1>3. /\ \A i \in 1 .. k : \A x : At(more, i, x) => <<k - i, x>> \in Items(more, op)
      /\ \A p \in Items(more, op) : \E i \in 1 .. k : p = <<k - i, p[2]>> /\ At(more, i, p[2])
  BY ItemIn
<1> HIDE DEF both
<1>4. /\ \A i \in 1 .. Len(both) : \A x : At(both, i, x) => <<Len(both) - i, x>> \in Items(both, op)
      /\ \A p \in Items(both, op) : \E i \in 1 .. Len(both) :
            p = <<Len(both) - i, p[2]>> /\ At(both, i, p[2])
  <2>1. both \in Seq(U)
    BY <1>1
  <2> HIDE DEF At
  <2> QED
    BY <2>1, ItemIn DEF At
<1> HIDE DEF n, k
<1>5. \A i \in 1 .. n + k : /\ i <= n => i \in 1 .. n /\ both[i] = line[i]
                            /\ ~ (i <= n) => i - n \in 1 .. k /\ both[i] = more[i - n]
  BY <1>0, <1>1
<1> HIDE DEF At
<1>6. ASSUME NEW p \in Items(both, op)
      PROVE  p \in {<<q[1] + k, q[2]>> : q \in Items(line, op)} \union Items(more, op)
  <2>1. PICK i \in 1 .. n + k : p = <<(n + k) - i, p[2]>> /\ At(both, i, p[2])
    BY <1>1, <1>4
  <2>2. CASE i <= n
    <3>1. i \in 1 .. n /\ At(line, i, p[2])
      BY <1>5, <2>1, <2>2 DEF At
    <3>2. <<n - i, p[2]>> \in Items(line, op) /\ (n + k) - i = (n - i) + k
      BY <1>0, <1>2, <3>1
    <3> QED
      BY <2>1, <3>2
  <2>3. CASE ~ (i <= n)
    <3>1. i - n \in 1 .. k /\ At(more, i - n, p[2])
      BY <1>5, <2>1, <2>3 DEF At
    <3>2. <<k - (i - n), p[2]>> \in Items(more, op) /\ (n + k) - i = k - (i - n)
      BY <1>0, <1>3, <3>1
    <3> QED
      BY <2>1, <3>2
  <2> QED
    BY <2>2, <2>3
<1>7. ASSUME NEW q \in Items(line, op) PROVE <<q[1] + k, q[2]>> \in Items(both, op)
  <2>1. PICK i \in 1 .. n : q = <<n - i, q[2]>> /\ At(line, i, q[2])
    BY <1>2
  <2>2. i \in 1 .. n + k /\ i <= n /\ (n + k) - i = (n - i) + k
    BY <1>0
  <2>3. At(both, i, q[2])
    BY <1>5, <2>1, <2>2 DEF At
  <2>4. <<(n + k) - i, q[2]>> \in Items(both, op)
    BY <1>1, <1>4, <2>2, <2>3
  <2>5. q[1] = n - i
    BY <2>1
  <2> QED
    BY <2>2, <2>4, <2>5
<1>8. ASSUME NEW q \in Items(more, op) PROVE q \in Items(both, op) /\ q[1] \in Nat /\ q[1] < k
  <2>1. PICK i \in 1 .. k : q = <<k - i, q[2]>> /\ At(more, i, q[2])
    BY <1>3
  <2>2. n + i \in 1 .. n + k /\ ~ (n + i <= n) /\ (n + i) - n = i /\ (n + k) - (n + i) = k - i
    BY <1>0
  <2>3. both[n + i] = more[(n + i) - n]
    BY <1>5, <2>2
  <2>4. At(both, n + i, q[2])
    BY <2>1, <2>2, <2>3 DEF At
  <2>5. <<(n + k) - (n + i), q[2]>> \in Items(both, op)
    BY <1>1, <1>4, <2>2, <2>4
  <2>6. q[1] = k - i
    BY <2>1
  <2> QED
    BY <1>0, <2>1, <2>2, <2>5, <2>6
<1>9. Items(both, op) = {<<p[1] + k, p[2]>> : p \in Items(line, op)} \union Items(more, op)
  BY <1>6, <1>7, <1>8
<1> QED
  BY <1>8, <1>9 DEF both, k

-----------------------------------------------------------------------------
(* How the steps move the lines *)

LEMMA OpsApart ==
    /\ ServiceOps \intersect DNSOps = {}
    /\ \A u \in ServiceUpdateSet : u.op \in ServiceOps /\ u.items # {}
    /\ \A u \in DNSUpdateSet : u.op \in DNSOps /\ u.items # {}
    /\ Idle.op \notin ServiceOps \union DNSOps
  BY DEF ServiceOps, DNSOps, ServiceUpdateSet, DNSUpdateSet, Idle

LEMMA LineParts ==
    ASSUME TypeInv
    PROVE  /\ AtHand(ServiceOps) \in Seq(ServiceUpdateSet) /\ AtHand(DNSOps) \in Seq(DNSUpdateSet)
           /\ Waiting(ServiceOps) \in Seq(ServiceUpdateSet) /\ Waiting(DNSOps) \in Seq(DNSUpdateSet)
           /\ serviceUpdates \in Seq(ServiceUpdateSet) /\ dnsUpdates \in Seq(DNSUpdateSet)
           /\ ServiceLine \in Seq(ServiceUpdateSet) /\ DNSLine \in Seq(DNSUpdateSet)
<1> USE DEF TypeInv, QueuesTyped
<1>1. AtHand(ServiceOps) \in Seq(ServiceUpdateSet) /\ AtHand(DNSOps) \in Seq(DNSUpdateSet)
  BY OpsApart DEF AtHand
<1>2. outbox # <<>> => /\ outbox \in Seq(ServiceUpdateSet) => Head(outbox) \in ServiceUpdateSet
                       /\ outbox \in Seq(DNSUpdateSet) => Head(outbox) \in DNSUpdateSet
  OBVIOUS
<1>3. Waiting(ServiceOps) \in Seq(ServiceUpdateSet)
  BY <1>2, OpsApart DEF Waiting
<1>4. Waiting(DNSOps) \in Seq(DNSUpdateSet)
  BY <1>2, OpsApart DEF Waiting
<1>5. serviceUpdates \in Seq(ServiceUpdateSet) /\ dnsUpdates \in Seq(DNSUpdateSet)
  OBVIOUS
<1> QED
  BY <1>1, <1>3, <1>4, <1>5, ConcatProperties DEF ServiceLine, DNSLine

LEMMA Shifting ==
    ASSUME NEW U, NEW a \in Seq(U), NEW b \in Seq(U), b # <<>>
    PROVE  /\ a \o <<>> \o b = a \o <<Head(b)>> \o Tail(b)
           /\ Len(b) <= 1 => b = <<Head(b)>>
<1>1. b = <<Head(b)>> \o Tail(b) /\ <<Head(b)>> \in Seq(U) /\ Tail(b) \in Seq(U)
  OBVIOUS
<1>2. a \o <<>> = a
  OBVIOUS
<1>3. (a \o <<Head(b)>>) \o Tail(b) = a \o (<<Head(b)>> \o Tail(b))
  BY <1>1, ConcatAssociative
<1>4. ASSUME Len(b) <= 1 PROVE b = <<Head(b)>>
  <2> DEFINE one == <<Head(b)>>
  <2>1. Len(b) \in Nat /\ Len(b) # 0 /\ b[1] = Head(b)
    BY EmptySeq
  <2>2. Len(b) = 1
    <3>1. \A n \in Nat : n # 0 /\ n <= 1 => n = 1
      OBVIOUS
    <3> QED
      BY <1>4, <2>1, <3>1, Zenon
  <2>3. one \in Seq(U) /\ Len(one) = 1 /\ one[1] = Head(b)
    BY <1>1
  <2> HIDE DEF one
  <2>4. \A i \in 1 .. Len(b) : b[i] = one[i]
    BY <2>1, <2>2, <2>3
  <2>5. b = one
    BY <2>2, <2>3, <2>4, SeqEqual
  <2> QED
    BY <2>5 DEF one
<1> QED
  BY <1>1, <1>2, <1>3, <1>4

(* A send or a receive moves an update within its line.                    *)
LEMMA LinesMoved ==
    ASSUME TypeInv, Send \/ Receive
    PROVE  ServiceLine' = ServiceLine /\ DNSLine' = DNSLine
<1>0. /\ outbox \in Seq(ServiceUpdateSet) \union Seq(DNSUpdateSet)
      /\ serviceUpdates \in Seq(ServiceUpdateSet) /\ Len(serviceUpdates) <= 1
      /\ dnsUpdates \in Seq(DNSUpdateSet) /\ Len(dnsUpdates) <= 1
  BY DEF TypeInv, QueuesTyped
<1>1. CASE Send
  <2>1. /\ outbox # <<>> /\ outbox' = Tail(outbox) /\ job' = job
        /\ IF Head(outbox).op \in DNSOps
           THEN dnsUpdates = <<>> /\ dnsUpdates' = <<Head(outbox)>> /\ serviceUpdates' = serviceUpdates
           ELSE serviceUpdates = <<>> /\ serviceUpdates' = <<Head(outbox)>> /\ dnsUpdates' = dnsUpdates
    BY <1>1 DEF Send, DNSOps
  <2>2. \A ops : AtHand(ops)' = AtHand(ops)
    BY <2>1 DEF AtHand
  <2>3. CASE outbox \in Seq(DNSUpdateSet)
    <3>1. /\ Head(outbox) \in DNSUpdateSet
          /\ Tail(outbox) # <<>> => Head(Tail(outbox)) \in DNSUpdateSet
      BY <2>1, <2>3
    <3>2. Head(outbox).op \in DNSOps /\ Head(outbox).op \notin ServiceOps
          /\ (Tail(outbox) # <<>> => Head(Tail(outbox)).op \in DNSOps /\ Head(Tail(outbox)).op \notin ServiceOps)
      BY <3>1, OpsApart
    <3>3. /\ Waiting(DNSOps) = outbox /\ Waiting(DNSOps)' = Tail(outbox)
          /\ Waiting(ServiceOps) = <<>> /\ Waiting(ServiceOps)' = <<>>
      BY <2>1, <3>2 DEF Waiting
    <3>4. AtHand(DNSOps) \o <<>> \o outbox = AtHand(DNSOps) \o <<Head(outbox)>> \o Tail(outbox)
      BY <2>1, <2>3, LineParts, Shifting
    <3> QED
      BY <2>1, <2>2, <3>2, <3>3, <3>4 DEF ServiceLine, DNSLine
  <2>4. CASE outbox \in Seq(ServiceUpdateSet)
    <3>1. /\ Head(outbox) \in ServiceUpdateSet
          /\ Tail(outbox) # <<>> => Head(Tail(outbox)) \in ServiceUpdateSet
      BY <2>1, <2>4
    <3>2. Head(outbox).op \in ServiceOps /\ Head(outbox).op \notin DNSOps
          /\ (Tail(outbox) # <<>> => Head(Tail(outbox)).op \in ServiceOps /\ Head(Tail(outbox)).op \notin DNSOps)
      BY <3>1, OpsApart
    <3>3. /\ Waiting(ServiceOps) = outbox /\ Waiting(ServiceOps)' = Tail(outbox)
          /\ Waiting(DNSOps) = <<>> /\ Waiting(DNSOps)' = <<>>
      BY <2>1, <3>2 DEF Waiting
    <3>4. AtHand(ServiceOps) \o <<>> \o outbox = AtHand(ServiceOps) \o <<Head(outbox)>> \o Tail(outbox)
      BY <2>1, <2>4, LineParts, Shifting
    <3> QED
      BY <2>1, <2>2, <3>2, <3>3, <3>4 DEF ServiceLine, DNSLine
  <2> QED
    BY <1>0, <2>3, <2>4
<1>2. CASE Receive
  <2>1. outbox' = outbox /\ job = Idle
    BY <1>2 DEF Receive
  <2>2. AtHand(ServiceOps) = <<>> /\ AtHand(DNSOps) = <<>>
    BY <2>1, OpsApart DEF AtHand
  <2>3. \A ops : Waiting(ops)' = Waiting(ops)
    BY <2>1 DEF Waiting
  <2>5. CASE /\ serviceUpdates # <<>> /\ job' = Head(serviceUpdates)
             /\ serviceUpdates' = <<>> /\ dnsUpdates' = dnsUpdates
    <3>0. Head(serviceUpdates) \in ServiceUpdateSet
      BY <1>0, <2>5
    <3>1. Head(serviceUpdates) \in ServiceUpdateSet /\ serviceUpdates = <<Head(serviceUpdates)>>
      BY <1>0, <2>5, <3>0, Shifting, Zenon
    <3>2. AtHand(ServiceOps)' = serviceUpdates /\ AtHand(DNSOps)' = <<>>
      BY <2>5, <3>1, OpsApart DEF AtHand
    <3>3. <<>> \o serviceUpdates = serviceUpdates \o <<>>
      BY <1>0
    <3> QED
      BY <2>2, <2>3, <2>5, <3>2, <3>3 DEF ServiceLine, DNSLine
  <2>6. CASE /\ dnsUpdates # <<>> /\ job' = Head(dnsUpdates)
             /\ dnsUpdates' = <<>> /\ serviceUpdates' = serviceUpdates
    <3>0. Head(dnsUpdates) \in DNSUpdateSet
      BY <1>0, <2>6
    <3>1. Head(dnsUpdates) \in DNSUpdateSet /\ dnsUpdates = <<Head(dnsUpdates)>>
      BY <1>0, <2>6, <3>0, Shifting, Zenon
    <3>2. AtHand(DNSOps)' = dnsUpdates /\ AtHand(ServiceOps)' = <<>>
      BY <2>6, <3>1, OpsApart DEF AtHand
    <3>3. <<>> \o dnsUpdates = dnsUpdates \o <<>>
      BY <1>0
    <3> QED
      BY <2>2, <2>3, <2>6, <3>2, <3>3 DEF ServiceLine, DNSLine
  <2> QED
    BY <1>2, <2>5, <2>6 DEF Receive
<1> QED
  BY <1>1, <1>2

(* rest is the line after an item of the first update, one of kind op, has *)
(* been handled.                                                           *)
Handled(line, rest, op, item) ==
    LET top == Len(line) - 1
    IN  /\ <<top, item>> \in Items(line, op)
        /\ \A kind \in ServiceOps \union DNSOps :
              /\ Items(rest, kind) = Items(line, kind) \ {<<top, item>>}
              /\ \A p \in Items(line, kind) :
                    /\ p[1] \in Nat /\ p[1] <= top
                    /\ p[1] = top => kind = op

LEMMA FirstHandled ==
    ASSUME NEW U, NEW update \in U, NEW behind \in Seq(U), NEW item \in update.items,
           NEW updateLeft, updateLeft.op = update.op, updateLeft.items = update.items \ {item},
           updateLeft \in U \/ update.items = {item}
    PROVE  Handled(<<update>> \o behind,
                   (IF update.items = {item} THEN <<>> ELSE <<updateLeft>>) \o behind, update.op, item)
<1> DEFINE line == <<update>> \o behind
           rest == (IF update.items = {item} THEN <<>> ELSE <<updateLeft>>) \o behind
<1>1. /\ line \in Seq(U) /\ line # <<>> /\ Tail(line) = behind /\ line[1] = update
      /\ Len(line) = Len(behind) + 1 /\ \A i \in 2 .. Len(line) : line[i] = behind[i - 1]
  OBVIOUS
<1>2. /\ update.items = {item} => rest = behind
      /\ update.items # {item} => /\ rest \in Seq(U) /\ rest[1] = updateLeft
                                 /\ Len(rest) = Len(behind) + 1
                                 /\ \A i \in 2 .. Len(line) : rest[i] = behind[i - 1]
  <2>1. CASE update.items = {item}
    BY <2>1, ConcatEmptySeq
  <2>2. CASE update.items # {item}
    <3>1. rest = <<updateLeft>> \o behind /\ updateLeft \in U
      BY <2>2
    <3>2. rest \in Seq(U) /\ rest[1] = updateLeft /\ Len(rest) = Len(behind) + 1
          /\ \A i \in 2 .. Len(behind) + 1 : rest[i] = behind[i - 1]
      BY <3>1
    <3> HIDE DEF line, rest
    <3> QED
      BY <1>1, <2>2, <3>2
  <2> QED
    BY <2>1, <2>2
<1> HIDE DEF line, rest
<1>3. FirstWithout(line, rest, item)
  BY <1>1, <1>2 DEF FirstWithout
<1>4. rest \in Seq(U)
  BY <1>2
<1>5. ASSUME NEW kind
      PROVE  LET top == Len(line) - 1
             IN  /\ Items(rest, kind) = Items(line, kind) \ {<<top, item>>}
                 /\ line[1].op = kind => <<top, item>> \in Items(line, kind)
                 /\ \A p \in Items(line, kind) :
                      /\ p[1] \in Nat /\ p[1] <= top
                      /\ p[1] = top => line[1].op = kind /\ p[2] \in line[1].items
  <2>1. item \in line[1].items /\ line \in Seq(U) /\ line # <<>>
    BY <1>1
  <2> QED
    BY <1>3, <1>4, <2>1, ItemTaken
<1> QED
  BY <1>1, <1>5 DEF Handled, line, rest

LEMMA LinesHandled ==
    ASSUME TypeInv, NEW op \in ServiceOps \union DNSOps, NEW item, Handling(op, item)
    PROVE  /\ op \in ServiceOps => Handled(ServiceLine, ServiceLine', op, item) /\ DNSLine' = DNSLine
           /\ op \in DNSOps => Handled(DNSLine, DNSLine', op, item) /\ ServiceLine' = ServiceLine
<1>1. /\ job.op = op /\ item \in job.items
      /\ job' = IF job.items = {item} THEN Idle ELSE [job EXCEPT !.items = @ \ {item}]
      /\ UNCHANGED <<outbox, serviceUpdates, dnsUpdates>>
  BY DEF Handling, chanVars
<1>2. job \in ServiceUpdateSet \union DNSUpdateSet
  BY <1>1, OpsApart DEF TypeInv, QueuesTyped
<1> DEFINE left == [job EXCEPT !.items = @ \ {item}]
<1>3. /\ left.op = job.op /\ left.items = job.items \ {item}
      /\ job \in ServiceUpdateSet /\ job.items # {item} => left \in ServiceUpdateSet
      /\ job \in DNSUpdateSet /\ job.items # {item} => left \in DNSUpdateSet
  BY <1>1, <1>2 DEF ServiceUpdateSet, DNSUpdateSet
<1>4. \A ops : Waiting(ops)' = Waiting(ops)
  BY <1>1 DEF Waiting
<1>5. job' = IF job.items = {item} THEN Idle ELSE left
  BY <1>1
<1> HIDE DEF left
<1>6. CASE op \in ServiceOps
  <2>1. job \in ServiceUpdateSet /\ op \notin DNSOps
    BY <1>1, <1>2, <1>6, OpsApart
  <2>2. AtHand(ServiceOps) = <<job>> /\ AtHand(DNSOps) = <<>>
    BY <1>1, <1>6, <2>1 DEF AtHand
  <2>3. /\ AtHand(ServiceOps)' = (IF job.items = {item} THEN <<>> ELSE <<left>>)
        /\ AtHand(DNSOps)' = <<>>
    BY <1>1, <1>3, <1>5, <1>6, <2>1, OpsApart DEF AtHand
  <2>4. DNSLine' = DNSLine
    BY <1>1, <1>4, <2>2, <2>3 DEF DNSLine
  <2> DEFINE behind == serviceUpdates \o Waiting(ServiceOps)
  <2>5. behind \in Seq(ServiceUpdateSet) /\ <<job>> \in Seq(ServiceUpdateSet)
        /\ (job.items # {item} => <<left>> \in Seq(ServiceUpdateSet))
    BY <1>3, <2>1, LineParts, ConcatProperties
  <2>6. ServiceLine = <<job>> \o behind
    BY <2>2, <2>5, LineParts, ConcatAssociative DEF ServiceLine
  <2>7. ServiceLine' = (IF job.items = {item} THEN <<>> ELSE <<left>>) \o behind
    <3> DEFINE front == IF job.items = {item} THEN <<>> ELSE <<left>>
    <3>1. ServiceLine' = (front \o serviceUpdates) \o Waiting(ServiceOps)
      BY <1>1, <1>4, <2>3 DEF ServiceLine
    <3>2. front \in Seq(ServiceUpdateSet)
      BY <2>5
    <3> HIDE DEF front
    <3>3. /\ serviceUpdates \in Seq(ServiceUpdateSet) /\ Waiting(ServiceOps) \in Seq(ServiceUpdateSet)
      BY LineParts
    <3>4. (front \o serviceUpdates) \o Waiting(ServiceOps) = front \o behind
      BY <3>2, <3>3, ConcatAssociative
    <3>5. ServiceLine' = front \o behind
      BY <3>1, <3>4
    <3> QED
      BY <3>5 DEF front
  <2> HIDE DEF behind
  <2>8. Handled(<<job>> \o behind, (IF job.items = {item} THEN <<>> ELSE <<left>>) \o behind, job.op, item)
    BY <1>1, <1>3, <2>1, <2>5, FirstHandled
  <2> QED
    BY <1>1, <2>1, <2>4, <2>6, <2>7, <2>8
<1>7. CASE op \in DNSOps
  <2>1. job \in DNSUpdateSet /\ op \notin ServiceOps
    BY <1>1, <1>2, <1>7, OpsApart
  <2>2. AtHand(DNSOps) = <<job>> /\ AtHand(ServiceOps) = <<>>
    BY <1>1, <1>7, <2>1 DEF AtHand
  <2>3. /\ AtHand(DNSOps)' = (IF job.items = {item} THEN <<>> ELSE <<left>>)
        /\ AtHand(ServiceOps)' = <<>>
    BY <1>1, <1>3, <1>5, <1>7, <2>1, OpsApart DEF AtHand
  <2>4. ServiceLine' = ServiceLine
    BY <1>1, <1>4, <2>2, <2>3 DEF ServiceLine
  <2> DEFINE behind == dnsUpdates \o Waiting(DNSOps)
  <2>5. behind \in Seq(DNSUpdateSet) /\ <<job>> \in Seq(DNSUpdateSet)
        /\ (job.items # {item} => <<left>> \in Seq(DNSUpdateSet))
    BY <1>3, <2>1, LineParts, ConcatProperties
  <2>6. DNSLine = <<job>> \o behind
    BY <2>2, <2>5, LineParts, ConcatAssociative DEF DNSLine
  <2>7. DNSLine' = (IF job.items = {item} THEN <<>> ELSE <<left>>) \o behind
    <3> DEFINE front == IF job.items = {item} THEN <<>> ELSE <<left>>
    <3>1. DNSLine' = (front \o dnsUpdates) \o Waiting(DNSOps)
      BY <1>1, <1>4, <2>3 DEF DNSLine
    <3>2. front \in Seq(DNSUpdateSet)
      BY <2>5
    <3> HIDE DEF front
    <3>3. /\ dnsUpdates \in Seq(DNSUpdateSet) /\ Waiting(DNSOps) \in Seq(DNSUpdateSet)
      BY LineParts
    <3>4. (front \o dnsUpdates) \o Waiting(DNSOps) = front \o behind
      BY <3>2, <3>3, ConcatAssociative
    <3>5. DNSLine' = front \o behind
      BY <3>1, <3>4
    <3> QED
      BY <3>5 DEF front
  <2> HIDE DEF behind
  <2>8. Handled(<<job>> \o behind, (IF job.items = {item} THEN <<>> ELSE <<left>>) \o behind, job.op, item)
    BY <1>1, <1>3, <2>1, <2>5, FirstHandled
  <2> QED
    BY <1>1, <2>1, <2>4, <2>6, <2>7, <2>8
<1> QED
  BY <1>6, <1>7

(* A poll appends what it found to its line.                               *)
LEMMA LinesPolled ==
    ASSUME TypeInv, NEW failing \in BOOLEAN, Poll(failing)
    PROVE  /\ ListPods(failing) => ServiceLine' = ServiceLine /\ DNSLine' = DNSLine
           /\ ListServices(failing) => ServiceLine' = ServiceLine \o outbox' /\ DNSLine' = DNSLine
           /\ ListDNS(failing) => DNSLine' = DNSLine \o outbox' /\ ServiceLine' = ServiceLine
<1>1. UNCHANGED <<job, serviceUpdates, dnsUpdates>> /\ outbox = <<>>
  BY DEF Poll, ListPods, ListServices, ListDNS, Polling, chanVars
<1>2. \A ops : AtHand(ops)' = AtHand(ops) /\ Waiting(ops) = <<>>
  BY <1>1 DEF AtHand, Waiting
<1>3. TypeInv'
  BY PollTyped
<1>4. ASSUME outbox' \in Seq(ServiceUpdateSet') PROVE Waiting(ServiceOps)' = outbox' /\ Waiting(DNSOps)' = <<>>
  <2>1. outbox' # <<>> => Head(outbox').op \in ServiceOps /\ Head(outbox').op \notin DNSOps
    <3>1. outbox' # <<>> => Head(outbox') \in ServiceUpdateSet'
      BY <1>4
    <3>2. \A u \in ServiceUpdateSet' : u.op \in ServiceOps
      BY DEF ServiceUpdateSet
    <3> QED
      BY <3>1, <3>2, OpsApart
  <2> QED
    BY <2>1 DEF Waiting
<1>5. ASSUME outbox' \in Seq(DNSUpdateSet') PROVE Waiting(DNSOps)' = outbox' /\ Waiting(ServiceOps)' = <<>>
  <2>1. outbox' # <<>> => Head(outbox').op \in DNSOps /\ Head(outbox').op \notin ServiceOps
    <3>1. outbox' # <<>> => Head(outbox') \in DNSUpdateSet'
      BY <1>5
    <3>2. \A u \in DNSUpdateSet' : u.op \in DNSOps
      BY DEF DNSUpdateSet
    <3> QED
      BY <3>1, <3>2, OpsApart
  <2> QED
    BY <2>1 DEF Waiting
<1>6. /\ ServiceLine = AtHand(ServiceOps) \o serviceUpdates
      /\ DNSLine = AtHand(DNSOps) \o dnsUpdates
  <2>1. AtHand(ServiceOps) \o serviceUpdates \in Seq(ServiceUpdateSet)
        /\ AtHand(DNSOps) \o dnsUpdates \in Seq(DNSUpdateSet)
    BY LineParts, ConcatProperties
  <2> QED
    BY <1>2, <2>1, ConcatEmptySeq DEF ServiceLine, DNSLine
<1>7. /\ ServiceLine' = ServiceLine \o Waiting(ServiceOps)'
      /\ DNSLine' = DNSLine \o Waiting(DNSOps)'
  BY <1>1, <1>2, <1>6 DEF ServiceLine, DNSLine
<1>8. ServiceLine \o <<>> = ServiceLine /\ DNSLine \o <<>> = DNSLine
  BY LineParts, ConcatEmptySeq
<1>9. ListPods(failing) => outbox' = <<>>
  BY <1>1 DEF ListPods
<1>10. ListServices(failing) => outbox' \in Seq(ServiceUpdateSet')
  <2> SUFFICES ASSUME ListServices(failing) PROVE outbox' \in Seq(ServiceUpdateSet')
    OBVIOUS
  <2>1. latest' = latest' /\ outbox' = ServiceChanges(latest, latest') /\ UNCHANGED apiVars
    BY DEF ListServices, Polling
  <2>2. DOMAIN latest \subseteq Given /\ \A s \in DOMAIN latest : latest[s] \subseteq EndpointSet
    BY DEF TypeInv, WatcherTyped
  <2>3. /\ Given' = Given /\ EndpointSet' = EndpointSet /\ ServiceUpdateSet' = ServiceUpdateSet
    BY <2>1, GivenKept DEF EndpointSet
  <2>4. DOMAIN latest' \subseteq Given' /\ \A s \in DOMAIN latest' : latest'[s] \subseteq EndpointSet'
    BY <1>3 DEF TypeInv, WatcherTyped
  <2>5. DOMAIN latest' \subseteq Given /\ \A s \in DOMAIN latest' : latest'[s] \subseteq EndpointSet
    BY <2>3, <2>4
  <2> QED
    BY <2>1, <2>2, <2>3, <2>5, ChangesTyped
<1>11. ListDNS(failing) => outbox' \in Seq(DNSUpdateSet')
  <2> SUFFICES ASSUME ListDNS(failing) PROVE outbox' \in Seq(DNSUpdateSet')
    OBVIOUS
  <2>1. outbox' = DNSChanges(latestDNS, latestDNS') /\ UNCHANGED apiVars
    BY DEF ListDNS, Polling
  <2>2. Announceable' = Announceable /\ DNSUpdateSet' = DNSUpdateSet
    BY <2>1, GivenKept
  <2>3. latestDNS \subseteq Announceable /\ latestDNS' \subseteq Announceable
    BY <1>3, <2>2 DEF TypeInv, WatcherTyped
  <2>4. /\ Update("DNSAdd", latestDNS' \ latestDNS) \in Seq(DNSUpdateSet)
        /\ Update("DNSDelete", latestDNS \ latestDNS') \in Seq(DNSUpdateSet)
    BY <2>3, DNSUpdateTyped DEF DNSOps
  <2> QED
    BY <2>1, <2>2, <2>4, ConcatProperties DEF DNSChanges
<1> QED
  BY <1>4, <1>5, <1>7, <1>8, <1>9, <1>10, <1>11, EmptySeq

(* No other step touches the lines but the end of the process, which       *)
(* forgets them.                                                           *)
LEMMA LinesKept ==
    ASSUME UNCHANGED <<outbox, serviceUpdates, dnsUpdates, job>>
    PROVE  ServiceLine' = ServiceLine /\ DNSLine' = DNSLine
  BY DEF ServiceLine, DNSLine, AtHand, Waiting

LEMMA LinesForgotten ==
    ASSUME outbox = <<>>, serviceUpdates = <<>>, dnsUpdates = <<>>, job = Idle
    PROVE  ServiceLine = <<>> /\ DNSLine = <<>>
  BY OpsApart DEF ServiceLine, DNSLine, AtHand, Waiting

LEMMA NoItems ==
    ASSUME NEW op
    PROVE  Items(<<>>, op) = {}
  BY DEF Items

-----------------------------------------------------------------------------
(* Order on a line *)

(* Whoever has been added meets none that it clashes with among those      *)
(* announced or to be deleted; nor does who is being added.                *)
LEMMA MeetsNoClash ==
    ASSUME NEW A, NEW D, NEW now, NEW gone, NEW clash, NEW lost,
           Orderly(A, D, now, gone, clash, lost),
           NEW s \in now \ lost, NEW t \in now \union Uids(D), s # t,
           s \notin Uids(A) \/ \E a \in A : a[2] = s /\ \A p \in D : p[1] <= a[1]
    PROVE  <<s, t>> \notin clash
<1>1. CASE t \in now
  BY <1>1 DEF Orderly
<1>2. CASE t \in Uids(D)
  <2>1. PICK q \in D : q[2] = t
    BY <1>2 DEF Uids
  <2>2. SUFFICES ASSUME <<s, t>> \in clash PROVE FALSE
    OBVIOUS
  <2>3. PICK p \in A : p[2] = s /\ p[1] < q[1]
    BY <2>1, <2>2 DEF Orderly
  <2>4. PICK a \in A : a[2] = s /\ \A r \in D : r[1] <= a[1]
    BY <2>3 DEF Uids
  <2>5. p = a
    BY <2>3, <2>4 DEF Orderly
  <2>6. q[1] <= p[1] /\ q[1] \in Nat /\ p[1] \in Nat
    BY <2>1, <2>4, <2>5 DEF Orderly
  <2> QED
    BY <2>3, <2>6
<1> QED
  BY <1>1, <1>2

LEMMA OrderlyAdded ==
    ASSUME NEW A, NEW D, NEW now, NEW gone, NEW clash, NEW lost, NEW lost2, lost \subseteq lost2,
           Orderly(A, D, now, gone, clash, lost),
           NEW a \in A, \A p \in A \union D : p[1] <= a[1]
    PROVE  /\ Orderly(A \ {a}, D, now, gone, clash, lost2)
           /\ a[2] \notin Uids(A \ {a})
           /\ a[2] \in now \union Uids(D)
<1> DEFINE B == A \ {a}
<1>1. /\ \A p \in A \union D : p[1] \in Nat
      /\ \A p, q \in A : p[2] = q[2] => p = q
      /\ \A q \in D : q[2] \in gone \ now
      /\ \A p \in A : p[2] \in now \/ \E q \in D : q[2] = p[2] /\ q[1] < p[1]
      /\ \A s, t \in now : s # t => <<s, t>> \notin clash
      /\ \A q \in D : \A s \in now \union Uids({r \in D : r[1] <= q[1]}) :
            <<s, q[2]>> \in clash /\ s # q[2] =>
                s \in lost \/ \E p \in A : p[2] = s /\ p[1] < q[1]
  BY DEF Orderly
<1>2. ASSUME NEW q \in D, NEW s \in now \union Uids({r \in D : r[1] <= q[1]}),
             <<s, q[2]>> \in clash, s # q[2]
      PROVE  s \in lost2 \/ \E p \in B : p[2] = s /\ p[1] < q[1]
  <2>1. s \in lost \/ \E p \in A : p[2] = s /\ p[1] < q[1]
    BY <1>1, <1>2
  <2>2. ASSUME NEW p \in A, p[1] < q[1] PROVE p # a
    <3>1. q[1] <= a[1] /\ q[1] \in Nat /\ p[1] \in Nat
      BY <1>1
    <3> QED
      BY <2>2, <3>1
  <2> QED
    BY <2>1, <2>2
<1> HIDE DEF B
<1>3. B \subseteq A
  BY DEF B
<1>4. Orderly(B, D, now, gone, clash, lost2)
  BY <1>1, <1>2, <1>3 DEF Orderly
<1>5. a[2] \notin Uids(B)
  BY <1>1 DEF Uids, B
<1>6. a[2] \in now \union Uids(D)
  BY <1>1 DEF Uids
<1> QED
  BY <1>4, <1>5, <1>6 DEF B

LEMMA OrderlyDeleted ==
    ASSUME NEW A, NEW D, NEW now, NEW gone, NEW clash, NEW lost,
           Orderly(A, D, now, gone, clash, lost),
           NEW d \in D, \A p \in A \union D : p[1] <= d[1]
    PROVE  /\ Orderly(A, D \ {d}, now, gone, clash, lost)
           /\ d[2] \notin now
<1>1. /\ \A p \in A \union D : p[1] \in Nat
      /\ \A p, q \in A : p[2] = q[2] => p = q
      /\ \A q \in D : q[2] \in gone \ now
      /\ \A p \in A : p[2] \in now \/ \E q \in D : q[2] = p[2] /\ q[1] < p[1]
      /\ \A s, t \in now : s # t => <<s, t>> \notin clash
      /\ \A q \in D : \A s \in now \union Uids({r \in D : r[1] <= q[1]}) :
            <<s, q[2]>> \in clash /\ s # q[2] =>
                s \in lost \/ \E p \in A : p[2] = s /\ p[1] < q[1]
  BY DEF Orderly
<1> DEFINE E == D \ {d}
<1>2. ASSUME NEW p \in A PROVE p[2] \in now \/ \E q \in E : q[2] = p[2] /\ q[1] < p[1]
  <2>1. ASSUME NEW q \in D, q[1] < p[1] PROVE q # d
    <3>1. p[1] <= d[1] /\ p[1] \in Nat /\ q[1] \in Nat
      BY <1>1
    <3> QED
      BY <2>1, <3>1
  <2> QED
    BY <1>1, <2>1
<1>3. E \subseteq D /\ \A q : Uids({r \in E : r[1] <= q[1]}) \subseteq Uids({r \in D : r[1] <= q[1]})
  BY DEF Uids
<1> HIDE DEF E
<1>4. Orderly(A, E, now, gone, clash, lost)
  BY <1>1, <1>2, <1>3 DEF Orderly
<1> QED
  BY <1>1, <1>4 DEF E

(* A poll, k updates long: what is new comes with its rank a, what is gone *)
(* with its rank d, and all that was there is k updates further ahead.     *)
Ahead(pairs, k) == {<<p[1] + k, p[2]>> : p \in pairs}

LEMMA OrderlyPolled ==
    ASSUME NEW A, NEW D, NEW old, NEW new, NEW gone, NEW clash, NEW lost, NEW lost2,
           Orderly(A, D, old, gone, clash, lost),
           NEW k \in Nat, NEW a \in Nat, NEW d \in Nat,
           new \ old # {} => a < k, old \ new # {} => d < k,
           Apart(new, clash), (new \ old) \intersect gone = {}, old \ new \subseteq gone,
           lost \subseteq lost2,
           \A s \in new \ old : \A t \in old \ new : <<s, t>> \in clash => s \in lost2
    PROVE  Orderly(Ahead(A, k) \union ({a} \X (new \ old)), Ahead(D, k) \union ({d} \X (old \ new)),
                   new, gone, clash, lost2)
<1> DEFINE B == Ahead(A, k) \union ({a} \X (new \ old))
           E == Ahead(D, k) \union ({d} \X (old \ new))
<1>1. /\ \A p \in A \union D : p[1] \in Nat
      /\ \A p, q \in A : p[2] = q[2] => p = q
      /\ \A q \in D : q[2] \in gone \ old
      /\ \A p \in A : p[2] \in old \/ \E q \in D : q[2] = p[2] /\ q[1] < p[1]
      /\ \A s, t \in old : s # t => <<s, t>> \notin clash
      /\ \A q \in D : \A s \in old \union Uids({r \in D : r[1] <= q[1]}) :
            <<s, q[2]>> \in clash /\ s # q[2] =>
                s \in lost \/ \E p \in A : p[2] = s /\ p[1] < q[1]
  BY DEF Orderly
<1>2. /\ \A p \in A : <<p[1] + k, p[2]>> \in B
      /\ \A s \in new \ old : <<a, s>> \in B
      /\ \A p \in B : \/ \E q \in A : p = <<q[1] + k, q[2]>>
                      \/ \E s \in new \ old : p = <<a, s>>
  BY DEF Ahead
<1>3. /\ \A p \in D : <<p[1] + k, p[2]>> \in E
      /\ \A s \in old \ new : <<d, s>> \in E
      /\ \A p \in E : \/ \E q \in D : p = <<q[1] + k, q[2]>>
                      \/ \E s \in old \ new : p = <<d, s>>
  BY DEF Ahead
<1> HIDE DEF B, E
<1>4. \A p \in B \union E : p[1] \in Nat
  BY <1>1, <1>2, <1>3
<1>5. ASSUME NEW p \in B, NEW q \in B, p[2] = q[2] PROVE p = q
  <2>1. ASSUME NEW r \in A PROVE r[2] \notin new \ old
    BY <1>1
  <2>2. CASE (\E r \in A : p = <<r[1] + k, r[2]>>) /\ (\E r \in A : q = <<r[1] + k, r[2]>>)
    <3>1. PICK r \in A : p = <<r[1] + k, r[2]>>
      BY <2>2
    <3>2. PICK u \in A : q = <<u[1] + k, u[2]>>
      BY <2>2
    <3>3. r = u
      BY <1>1, <1>5, <3>1, <3>2
    <3> QED
      BY <3>1, <3>2, <3>3
  <2>3. CASE (\E s \in new \ old : p = <<a, s>>) /\ (\E s \in new \ old : q = <<a, s>>)
    BY <1>5, <2>3
  <2>4. CASE (\E r \in A : p = <<r[1] + k, r[2]>>) /\ (\E s \in new \ old : q = <<a, s>>)
    BY <1>5, <2>1, <2>4
  <2>5. CASE (\E s \in new \ old : p = <<a, s>>) /\ (\E r \in A : q = <<r[1] + k, r[2]>>)
    BY <1>5, <2>1, <2>5
  <2> QED
    BY <1>2, <2>2, <2>3, <2>4, <2>5
<1>6. \A q \in E : q[2] \in gone \ new
  BY <1>1, <1>3
<1>7. ASSUME NEW p \in B PROVE p[2] \in new \/ \E q \in E : q[2] = p[2] /\ q[1] < p[1]
  <2>1. CASE \E s \in new \ old : p = <<a, s>>
    BY <2>1
  <2>2. CASE \E r \in A : p = <<r[1] + k, r[2]>>
    <3>1. PICK r \in A : p = <<r[1] + k, r[2]>>
      BY <2>2
    <3>2. CASE r[2] \in old
      <4>1. CASE r[2] \in new
        BY <3>1, <4>1
      <4>2. CASE r[2] \notin new
        <5>1. <<d, r[2]>> \in E /\ d < k
          BY <1>3, <3>2, <4>2
        <5>2. p[1] = r[1] + k /\ r[1] \in Nat
          BY <1>1, <3>1
        <5> QED
          BY <3>1, <5>1, <5>2
      <4> QED
        BY <4>1, <4>2
    <3>3. CASE r[2] \notin old
      <4>1. PICK q \in D : q[2] = r[2] /\ q[1] < r[1]
        BY <1>1, <3>3
      <4>2. <<q[1] + k, q[2]>> \in E /\ q[1] + k < r[1] + k
        BY <1>1, <1>3, <4>1
      <4> QED
        BY <3>1, <4>1, <4>2
    <3> QED
      BY <3>2, <3>3
  <2> QED
    BY <1>2, <2>1, <2>2
<1>8. ASSUME NEW q \in E, NEW s \in new \union Uids({r \in E : r[1] <= q[1]}),
             <<s, q[2]>> \in clash, s # q[2]
      PROVE  s \in lost2 \/ \E p \in B : p[2] = s /\ p[1] < q[1]
  <2>1. CASE \E t \in old \ new : q = <<d, t>>
    <3>1. q[1] = d /\ q[2] \in old \ new /\ d < k
      BY <2>1
    <3>2. s \in new \union old
      <4>1. SUFFICES ASSUME s \notin new PROVE s \in old
        OBVIOUS
      <4>2. PICK r \in E : r[2] = s /\ r[1] <= q[1]
        BY <1>8, <4>1 DEF Uids
      <4>3. CASE \E u \in D : r = <<u[1] + k, u[2]>>
        BY <1>1, <3>1, <4>2, <4>3
      <4> QED
        BY <1>3, <4>2, <4>3
    <3>3. s \notin old
      BY <1>1, <1>8, <3>1
    <3> QED
      BY <1>8, <3>1, <3>2, <3>3
  <2>2. CASE \E u \in D : q = <<u[1] + k, u[2]>>
    <3>1. PICK u \in D : q = <<u[1] + k, u[2]>>
      BY <2>2
    <3>2. q[1] = u[1] + k /\ q[2] = u[2] /\ u[1] \in Nat
      BY <1>1, <3>1
    <3>3. CASE s \in new \ old
      <4>1. <<a, s>> \in B /\ a < k
        BY <1>2, <3>3
      <4> QED
        BY <3>2, <4>1
    <3>4. CASE s \in old \union Uids({r \in D : r[1] <= u[1]})
      <4>1. s \in lost \/ \E p \in A : p[2] = s /\ p[1] < u[1]
        BY <1>1, <1>8, <3>2, <3>4
      <4>2. ASSUME NEW p \in A, p[2] = s, p[1] < u[1]
            PROVE  \E v \in B : v[2] = s /\ v[1] < q[1]
        <5>1. <<p[1] + k, p[2]>> \in B /\ p[1] + k < u[1] + k
          BY <1>1, <1>2, <3>2, <4>2
        <5> QED
          BY <3>2, <4>2, <5>1
      <4> QED
        BY <4>1, <4>2
    <3>5. s \in new \union old \union Uids({r \in D : r[1] <= u[1]})
      <4>1. SUFFICES ASSUME s \notin new \union old PROVE s \in Uids({r \in D : r[1] <= u[1]})
        OBVIOUS
      <4>2. PICK r \in E : r[2] = s /\ r[1] <= q[1]
        BY <1>8, <4>1 DEF Uids
      <4>3. PICK v \in D : r = <<v[1] + k, v[2]>>
        BY <1>3, <4>1, <4>2
      <4>4. v[1] <= u[1] /\ v[2] = s
        BY <1>1, <3>2, <4>2, <4>3
      <4> QED
        BY <4>4 DEF Uids
    <3> QED
      BY <3>3, <3>4, <3>5
  <2> QED
    BY <1>3, <2>1, <2>2
<1>9. \A s, t \in new : s # t => <<s, t>> \notin clash
  BY DEF Apart
<1>10. Orderly(B, E, new, gone, clash, lost2)
  BY <1>4, <1>5, <1>6, <1>7, <1>8, <1>9 DEF Orderly
<1> QED
  BY <1>10 DEF B, E

LEMMA OrderlyElse ==
    ASSUME NEW A, NEW D, NEW now, NEW gone, NEW clash, NEW lost, NEW gone2, NEW clash2, NEW lost2,
           Orderly(A, D, now, gone, clash, lost), gone \subseteq gone2, lost \subseteq lost2,
           \A s, t \in now \union Uids(D) : <<s, t>> \in clash2 => <<s, t>> \in clash
    PROVE  Orderly(A, D, now, gone2, clash2, lost2)
<1>1. \A q \in D : q[2] \in Uids(D) /\ Uids({r \in D : r[1] <= q[1]}) \subseteq Uids(D)
  BY DEF Uids
<1> QED
  BY <1>1 DEF Orderly

LEMMA OrderlyEmpty ==
    ASSUME NEW gone, NEW clash, NEW lost
    PROVE  Orderly({}, {}, {}, gone, clash, lost)
  BY DEF Orderly

-----------------------------------------------------------------------------
(* What a poll appends *)

LEMMA UpdateItems ==
    ASSUME NEW op, NEW kind, NEW items
    PROVE  Items(Update(op, items), kind) = IF kind = op THEN {0} \X items ELSE {}
<1>1. CASE items = {}
  BY <1>1 DEF Items, Update
<1>2. CASE items # {}
  <2> DEFINE line == <<[op |-> op, items |-> items]>>
  <2>1. Len(line) = 1 /\ line[1].op = op /\ line[1].items = items
    OBVIOUS
  <2>2. line \in Seq({[op |-> op, items |-> items]})
    OBVIOUS
  <2>3. Update(op, items) = line
    BY <1>2 DEF Update
  <2> HIDE DEF line
  <2>4. /\ \A i \in 1 .. Len(line) : \A x \in line[i].items :
              line[i].op = kind => <<Len(line) - i, x>> \in Items(line, kind)
        /\ \A p \in Items(line, kind) : \E i \in 1 .. Len(line) :
              p = <<Len(line) - i, p[2]>> /\ line[i].op = kind /\ p[2] \in line[i].items
    BY <2>2, ItemIn
  <2>5. /\ \A x \in items : op = kind => <<0, x>> \in Items(line, kind)
        /\ \A p \in Items(line, kind) : p = <<0, p[2]>> /\ op = kind /\ p[2] \in items
    BY <2>1, <2>4
  <2> HIDE DEF Items
  <2> QED
    BY <2>3, <2>5
<1> QED
  BY <1>1, <1>2

Shifts(i, k, n) == \A X : Ahead({i} \X X, k) = {n} \X X

LEMMA AheadOfOne ==
    ASSUME NEW k, NEW i, NEW n, n = i + k
    PROVE  Shifts(i, k, n) /\ Ahead({}, k) = {}
<1> SUFFICES ASSUME NEW X
             PROVE  Ahead({i} \X X, k) = {n} \X X /\ Ahead({}, k) = {}
  BY DEF Shifts
<1>1. ASSUME NEW p \in Ahead({i} \X X, k) PROVE p \in {n} \X X
  <2>1. PICK q \in {i} \X X : p = <<q[1] + k, q[2]>>
    BY DEF Ahead
  <2>2. q[1] = i /\ q[2] \in X
    OBVIOUS
  <2> QED
    BY <2>1, <2>2
<1>2. ASSUME NEW p \in {n} \X X PROVE p \in Ahead({i} \X X, k)
  <2>1. PICK x \in X : p = <<n, x>>
    OBVIOUS
  <2> DEFINE q == <<i, x>>
  <2>2. q \in {i} \X X /\ q[1] = i /\ q[2] = x
    OBVIOUS
  <2> HIDE DEF q
  <2>3. p = <<q[1] + k, q[2]>>
    BY <2>1, <2>2
  <2> QED
    BY <2>2, <2>3 DEF Ahead
<1>3. Ahead({}, k) = {}
  BY DEF Ahead
<1> QED
  BY <1>1, <1>2, <1>3

LEMMA AheadOfServices ==
    ASSUME NEW P, NEW Q, NEW k
    PROVE  /\ OfServices(Ahead(P, k)) = Ahead(OfServices(P), k)
           /\ OfServices(P \union Q) = OfServices(P) \union OfServices(Q)
<1>1. ASSUME NEW x \in OfServices(Ahead(P, k)) PROVE x \in Ahead(OfServices(P), k)
  <2>1. PICK p \in Ahead(P, k) : x = <<p[1], p[2].svc>>
    BY DEF OfServices
  <2>2. PICK q \in P : p = <<q[1] + k, q[2]>>
    BY DEF Ahead
  <2>3. p[1] = q[1] + k /\ p[2] = q[2]
    BY <2>2
  <2> DEFINE r == <<q[1], q[2].svc>>
  <2>4. r \in OfServices(P) /\ r[1] = q[1] /\ r[2] = q[2].svc
    BY DEF OfServices
  <2> HIDE DEF r
  <2>5. x = <<r[1] + k, r[2]>>
    BY <2>1, <2>3, <2>4
  <2> QED
    BY <2>4, <2>5 DEF Ahead
<1>2. ASSUME NEW x \in Ahead(OfServices(P), k) PROVE x \in OfServices(Ahead(P, k))
  <2>1. PICK r \in OfServices(P) : x = <<r[1] + k, r[2]>>
    BY DEF Ahead
  <2>2. PICK q \in P : r = <<q[1], q[2].svc>>
    BY DEF OfServices
  <2>3. r[1] = q[1] /\ r[2] = q[2].svc
    BY <2>2
  <2> DEFINE p == <<q[1] + k, q[2]>>
  <2>4. p \in Ahead(P, k) /\ p[1] = q[1] + k /\ p[2] = q[2]
    BY DEF Ahead
  <2> HIDE DEF p
  <2>5. x = <<p[1], p[2].svc>>
    BY <2>1, <2>3, <2>4
  <2> QED
    BY <2>4, <2>5 DEF OfServices
<1>3. OfServices(P \union Q) = OfServices(P) \union OfServices(Q)
  BY DEF OfServices
<1> QED
  BY <1>1, <1>2, <1>3

(* after is line with k updates more, and in the one of rank r, if any, the *)
(* items of kind op.                                                       *)
Longer(line, after, k, r, op, items) ==
    /\ k \in Nat /\ r \in Nat /\ (items # {} => r < k)
    /\ Items(after, op) = Ahead(Items(line, op), k) \union ({r} \X items)

LEMMA UpdatesAppended ==
    ASSUME NEW U, NEW line \in Seq(U), NEW x, NEW y, NEW z, NEW kx, NEW ky, NEW kz,
           kx # ky, kx # kz, ky # kz,
           Update(kx, x) \in Seq(U), Update(ky, y) \in Seq(U), Update(kz, z) \in Seq(U)
    PROVE  \E k, a, d, m :
              LET after == line \o (Update(kx, x) \o Update(ky, y) \o Update(kz, z))
              IN  /\ Longer(line, after, k, a, kx, x)
                  /\ Longer(line, after, k, d, ky, y)
                  /\ Longer(line, after, k, m, kz, z)
<1> DEFINE ux == Update(kx, x)
           uy == Update(ky, y)
           uz == Update(kz, z)
           two == ux \o uy
           more == two \o uz
           after == line \o more
           ly == Len(uy)
           lz == Len(uz)
           k == Len(more)
<1>1. two \in Seq(U) /\ more \in Seq(U) /\ Len(ux) \in Nat /\ ly \in Nat /\ lz \in Nat
  BY ConcatProperties
<1>2. Len(two) = Len(ux) + ly /\ k = Len(two) + lz /\ k \in Nat
  BY <1>1, ConcatProperties
<1>3. (x # {} => Len(ux) = 1) /\ (y # {} => ly = 1) /\ (z # {} => lz = 1)
  BY DEF Update
<1>4. ly + lz \in Nat /\ (x # {} => ly + lz < k) /\ (y # {} => lz < k) /\ (z # {} => 0 < k)
  <2> DEFINE lx == Len(ux)
             l2 == Len(two)
  <2>1. lx \in Nat /\ ly \in Nat /\ lz \in Nat /\ l2 = lx + ly /\ k = l2 + lz
        /\ (x # {} => lx = 1) /\ (y # {} => ly = 1) /\ (z # {} => lz = 1)
    BY <1>1, <1>2, <1>3
  <2> HIDE DEF lx, ly, lz, l2, k
  <2> QED
    BY <2>1
<1>5. ASSUME NEW kind
      PROVE  /\ Items(two, kind) = Ahead(Items(ux, kind), ly) \union Items(uy, kind)
             /\ Items(more, kind) = Ahead(Items(two, kind), lz) \union Items(uz, kind)
             /\ Items(after, kind) = Ahead(Items(line, kind), k) \union Items(more, kind)
  <2> HIDE DEF ux, uy, uz
  <2>1. Items(two, kind) = Ahead(Items(ux, kind), ly) \union Items(uy, kind)
    BY ItemsAppended DEF Ahead, ux, uy
  <2> HIDE DEF two
  <2>2. Items(more, kind) = Ahead(Items(two, kind), lz) \union Items(uz, kind)
    BY <1>1, ItemsAppended DEF Ahead, uz
  <2> HIDE DEF more
  <2>3. Items(after, kind) = Ahead(Items(line, kind), k) \union Items(more, kind)
    BY <1>1, ItemsAppended DEF Ahead
  <2> QED
    BY <2>1, <2>2, <2>3
<1>6. ASSUME NEW kind
      PROVE  /\ Items(ux, kind) = IF kind = kx THEN {0} \X x ELSE {}
             /\ Items(uy, kind) = IF kind = ky THEN {0} \X y ELSE {}
             /\ Items(uz, kind) = IF kind = kz THEN {0} \X z ELSE {}
  BY UpdateItems
<1> HIDE DEF after, more, two, ux, uy, uz, ly, lz, k
<1>7. /\ Ahead({0} \X x, ly) = {ly} \X x /\ Ahead({ly} \X x, lz) = {ly + lz} \X x
      /\ Ahead({0} \X y, lz) = {lz} \X y /\ Ahead({}, ly) = {} /\ Ahead({}, lz) = {}
  <2>1. ly = 0 + ly /\ lz = 0 + lz
    BY <1>1
  <2>2. /\ Shifts(0, ly, ly) /\ Shifts(0, lz, lz) /\ Shifts(ly, lz, ly + lz)
        /\ Ahead({}, ly) = {} /\ Ahead({}, lz) = {}
    BY <2>1, AheadOfOne
  <2> QED
    BY <2>2, Zenon DEF Shifts
<1>8. Items(more, kx) = {ly + lz} \X x
  <2>1. Items(ux, kx) = {0} \X x /\ Items(uy, kx) = {} /\ Items(uz, kx) = {}
    BY <1>6
  <2>2. Items(two, kx) = {ly} \X x
    BY <1>5, <1>7, <2>1
  <2>3. Items(more, kx) = Ahead(Items(two, kx), lz) \union {}
    BY <1>5, <2>1
  <2> QED
    BY <1>7, <2>2, <2>3
<1>9. Items(more, ky) = {lz} \X y
  <2>1. Items(ux, ky) = {} /\ Items(uy, ky) = {0} \X y /\ Items(uz, ky) = {}
    BY <1>6
  <2>2. Items(two, ky) = {0} \X y
    BY <1>5, <1>7, <2>1
  <2>3. Items(more, ky) = Ahead(Items(two, ky), lz) \union {}
    BY <1>5, <2>1
  <2> QED
    BY <1>7, <2>2, <2>3
<1>10. Items(more, kz) = {0} \X z
  <2>1. Items(ux, kz) = {} /\ Items(uy, kz) = {} /\ Items(uz, kz) = {0} \X z
    BY <1>6
  <2>2. Items(two, kz) = {}
    BY <1>5, <1>7, <2>1
  <2>3. Items(more, kz) = Ahead(Items(two, kz), lz) \union {0} \X z
    BY <1>5, <2>1
  <2> QED
    BY <1>7, <2>2, <2>3
<1>11. /\ Longer(line, after, k, ly + lz, kx, x)
       /\ Longer(line, after, k, lz, ky, y)
       /\ Longer(line, after, k, 0, kz, z)
  <2>1. 0 \in Nat
    OBVIOUS
  <2> QED
    BY <1>1, <1>2, <1>4, <1>5, <1>8, <1>9, <1>10, <2>1, Zenon DEF Longer
<1>12. after = line \o (Update(kx, x) \o Update(ky, y) \o Update(kz, z))
  BY DEF after, more, two, ux, uy, uz
<1> QED
  BY <1>11, <1>12

(* The line after a poll of the services, k updates longer.                *)
ServicesPolled(k, a, d, m) ==
    /\ Longer(ServiceLine, ServiceLine', k, a, "ServiceAdd",
              {Change(s, {}, latest'[s]) : s \in DOMAIN latest' \ DOMAIN latest})
    /\ Longer(ServiceLine, ServiceLine', k, d, "ServiceDelete",
              {Change(s, {}, {}) : s \in DOMAIN latest \ DOMAIN latest'})
    /\ Longer(ServiceLine, ServiceLine', k, m, "ServiceEndpointsUpdate", Differences(latest, latest'))

LEMMA ServicesAppended ==
    ASSUME TypeInv, NEW failing \in BOOLEAN, ListServices(failing)
    PROVE  \E k, a, d, m : ServicesPolled(k, a, d, m)
<1> DEFINE x == {Change(s, {}, latest'[s]) : s \in DOMAIN latest' \ DOMAIN latest}
           y == {Change(s, {}, {}) : s \in DOMAIN latest \ DOMAIN latest'}
           z == Differences(latest, latest')
<1>1. outbox' = ServiceChanges(latest, latest') /\ ServiceLine' = ServiceLine \o outbox' /\ UNCHANGED apiVars
  BY LinesPolled DEF ListServices, Polling, Poll
<1>2. outbox' = Update("ServiceAdd", x) \o Update("ServiceDelete", y) \o Update("ServiceEndpointsUpdate", z)
  BY <1>1 DEF ServiceChanges, Gone
<1>3. TypeInv' /\ Given' = Given /\ EndpointSet' = EndpointSet
  BY <1>1, PollTyped, GivenKept DEF Poll, EndpointSet
<1>4. /\ DOMAIN latest \subseteq Given /\ \A s \in DOMAIN latest : latest[s] \subseteq EndpointSet
      /\ DOMAIN latest' \subseteq Given /\ \A s \in DOMAIN latest' : latest'[s] \subseteq EndpointSet
  BY <1>3 DEF TypeInv, WatcherTyped
<1>5. /\ x \in SUBSET {i \in ServiceItems : i.svc \in Given}
      /\ y \in SUBSET {i \in ServiceItems : i.svc \in Given}
      /\ z \in SUBSET {i \in ServiceItems : i.svc \in Given}
  <2>1. \A s \in Given : \A dels, adds \in SUBSET EndpointSet :
           Change(s, dels, adds) \in {i \in ServiceItems : i.svc \in Given}
    BY DEF Change, ServiceItems, Given
  <2> QED
    BY <1>4, <2>1 DEF Differences, Changed
<1> HIDE DEF x, y, z
<1>6. /\ Update("ServiceAdd", x) \in Seq(ServiceUpdateSet)
      /\ Update("ServiceDelete", y) \in Seq(ServiceUpdateSet)
      /\ Update("ServiceEndpointsUpdate", z) \in Seq(ServiceUpdateSet)
  BY <1>5, ServiceUpdateTyped DEF ServiceOps
<1>7. PICK k, a, d, m :
         /\ Longer(ServiceLine, ServiceLine', k, a, "ServiceAdd", x)
         /\ Longer(ServiceLine, ServiceLine', k, d, "ServiceDelete", y)
         /\ Longer(ServiceLine, ServiceLine', k, m, "ServiceEndpointsUpdate", z)
  <2>1. ServiceLine \in Seq(ServiceUpdateSet)
    BY LineParts
  <2> HIDE DEF ServiceLine
  <2> QED
    BY <1>1, <1>2, <1>6, <2>1, UpdatesAppended
<1> QED
  BY <1>7 DEF ServicesPolled, x, y, z

(* And of the DNS objects.                                                 *)
DNSPolled(k, a, d) ==
    /\ Longer(DNSLine, DNSLine', k, a, "DNSAdd", latestDNS' \ latestDNS)
    /\ Longer(DNSLine, DNSLine', k, d, "DNSDelete", latestDNS \ latestDNS')

LEMMA DNSAppended ==
    ASSUME TypeInv, NEW failing \in BOOLEAN, ListDNS(failing)
    PROVE  \E k, a, d : DNSPolled(k, a, d)
<1> DEFINE x == latestDNS' \ latestDNS
           y == latestDNS \ latestDNS'
<1>1. /\ outbox' = Update("DNSAdd", x) \o Update("DNSDelete", y)
      /\ DNSLine' = DNSLine \o outbox' /\ UNCHANGED apiVars
  BY LinesPolled DEF ListDNS, Polling, Poll, DNSChanges
<1>2. TypeInv' /\ Announceable' = Announceable
  BY <1>1, PollTyped, GivenKept DEF Poll
<1>3. x \subseteq Announceable /\ y \subseteq Announceable
  BY <1>2 DEF TypeInv, WatcherTyped
<1> HIDE DEF x, y
<1>4. /\ Update("DNSAdd", x) \in Seq(DNSUpdateSet) /\ Update("DNSDelete", y) \in Seq(DNSUpdateSet)
      /\ Update("none", {}) \in Seq(DNSUpdateSet) /\ Update("none", {}) = <<>>
  BY <1>3, DNSUpdateTyped DEF DNSOps, Update
<1>5. Update("DNSAdd", x) \o Update("DNSDelete", y) \o Update("none", {}) = outbox'
  <2>1. Update("DNSAdd", x) \o Update("DNSDelete", y) \in Seq(DNSUpdateSet)
    BY <1>4, ConcatProperties
  <2> QED
    BY <1>1, <1>4, <2>1, ConcatEmptySeq
<1>6. PICK k, a, d, m :
         /\ Longer(DNSLine, DNSLine', k, a, "DNSAdd", x)
         /\ Longer(DNSLine, DNSLine', k, d, "DNSDelete", y)
         /\ Longer(DNSLine, DNSLine', k, m, "none", {})
  <2>1. DNSLine \in Seq(DNSUpdateSet)
    BY LineParts
  <2> HIDE DEF DNSLine
  <2> QED
    BY <1>1, <1>4, <1>5, <2>1, UpdatesAppended
<1> QED
  BY <1>6 DEF DNSPolled, x, y

-----------------------------------------------------------------------------
(* One entry of an update handled *)

LEMMA PairTaken ==
    ASSUME NEW P, NEW p \in P, Single(P)
    PROVE  /\ <<p[1], p[2].svc>> \in OfServices(P)
           /\ OfServices(P \ {p}) = OfServices(P) \ {<<p[1], p[2].svc>>}
           /\ Single(P \ {p})
<1> DEFINE a == <<p[1], p[2].svc>>
<1>1. a \in OfServices(P)
  BY DEF OfServices
<1>2. ASSUME NEW x \in OfServices(P \ {p}) PROVE x \in OfServices(P) \ {a}
  <2>1. PICK q \in P \ {p} : x = <<q[1], q[2].svc>>
    BY DEF OfServices
  <2>2. x = a => q[1] = p[1] /\ q[2].svc = p[2].svc
    BY <2>1
  <2> QED
    BY <2>1, <2>2 DEF OfServices, Single
<1>3. ASSUME NEW x \in OfServices(P) \ {a} PROVE x \in OfServices(P \ {p})
  <2>1. PICK q \in P : x = <<q[1], q[2].svc>>
    BY DEF OfServices
  <2>2. q # p
    BY <2>1
  <2> QED
    BY <2>1, <2>2 DEF OfServices
<1>4. Single(P \ {p})
  BY DEF Single
<1> QED
  BY <1>1, <1>2, <1>3, <1>4

LEMMA RankOfServices ==
    ASSUME NEW P
    PROVE  \A a \in OfServices(P) : \E p \in P : a[1] = p[1] /\ a[2] = p[2].svc
<1>1. ASSUME NEW a \in OfServices(P) PROVE \E p \in P : a[1] = p[1] /\ a[2] = p[2].svc
  <2>1. PICK p \in P : a = <<p[1], p[2].svc>>
    BY DEF OfServices
  <2> QED
    BY <2>1
<1> QED
  BY <1>1

LEMMA AdditionTaken ==
    ASSUME TypeInv, SingleInv, NEW item, Handling("ServiceAdd", item)
    PROVE  /\ SingleInv' /\ DNSLine' = DNSLine /\ DeletedServices' = DeletedServices
           /\ \E a \in AddedServices :
                 /\ a[2] = item.svc /\ AddedServices' = AddedServices \ {a}
                 /\ \A p \in AddedServices \union DeletedServices : p[1] <= a[1]
<1> DEFINE top == Len(ServiceLine) - 1
           It(op) == Items(ServiceLine, op)
           It2(op) == Items(ServiceLine', op)
           taken == <<top, item>>
<1>0. "ServiceAdd" \in ServiceOps /\ "ServiceDelete" \in ServiceOps /\ "ServiceDelete" # "ServiceAdd"
  BY DEF ServiceOps
<1>1. Handled(ServiceLine, ServiceLine', "ServiceAdd", item) /\ DNSLine' = DNSLine
  BY <1>0, LinesHandled
<1>2. /\ taken \in It("ServiceAdd") /\ taken[1] = top /\ taken[2] = item
      /\ \A op \in ServiceOps :
            /\ It2(op) = It(op) \ {taken}
            /\ \A p \in It(op) : p[1] <= top /\ (p[1] = top => op = "ServiceAdd")
  BY <1>1 DEF Handled
<1> HIDE DEF top, It, It2, taken
<1>3. \A op \in ServiceOps : Single(It(op)) /\ Single(It2(op))
  BY <1>2 DEF SingleInv, Single, It
<1>4. SingleInv'
  BY <1>3 DEF SingleInv, It2
<1>5. taken \notin It("ServiceDelete") /\ It2("ServiceDelete") = It("ServiceDelete")
  BY <1>0, <1>2
<1>6. DeletedServices' = DeletedServices
  BY <1>5 DEF DeletedServices, It, It2
<1>7. AddedServices = OfServices(It("ServiceAdd")) /\ AddedServices' = OfServices(It2("ServiceAdd"))
      /\ DeletedServices = OfServices(It("ServiceDelete"))
  BY DEF AddedServices, DeletedServices, ServiceAdds, It, It2
<1> DEFINE a == <<top, item.svc>>
<1>8. a \in AddedServices /\ AddedServices' = AddedServices \ {a}
  BY <1>0, <1>2, <1>3, <1>7, PairTaken
<1>9. \A p \in AddedServices \union DeletedServices : p[1] <= top
  BY <1>0, <1>2, <1>7, RankOfServices
<1>10. a[1] = top /\ a[2] = item.svc
  OBVIOUS
<1> QED
  BY <1>1, <1>4, <1>6, <1>8, <1>9, <1>10

LEMMA DeletionTaken ==
    ASSUME TypeInv, SingleInv, NEW item, Handling("ServiceDelete", item)
    PROVE  /\ SingleInv' /\ DNSLine' = DNSLine /\ AddedServices' = AddedServices
           /\ \E d \in DeletedServices :
                 /\ d[2] = item.svc /\ DeletedServices' = DeletedServices \ {d}
                 /\ \A p \in AddedServices \union DeletedServices : p[1] <= d[1]
<1> DEFINE top == Len(ServiceLine) - 1
           It(op) == Items(ServiceLine, op)
           It2(op) == Items(ServiceLine', op)
           taken == <<top, item>>
<1>0. "ServiceAdd" \in ServiceOps /\ "ServiceDelete" \in ServiceOps /\ "ServiceDelete" # "ServiceAdd"
  BY DEF ServiceOps
<1>1. Handled(ServiceLine, ServiceLine', "ServiceDelete", item) /\ DNSLine' = DNSLine
  BY <1>0, LinesHandled
<1>2. /\ taken \in It("ServiceDelete") /\ taken[1] = top /\ taken[2] = item
      /\ \A op \in ServiceOps :
            /\ It2(op) = It(op) \ {taken}
            /\ \A p \in It(op) : p[1] <= top /\ (p[1] = top => op = "ServiceDelete")
  BY <1>1 DEF Handled
<1> HIDE DEF top, It, It2, taken
<1>3. \A op \in ServiceOps : Single(It(op)) /\ Single(It2(op))
  BY <1>2 DEF SingleInv, Single, It
<1>4. SingleInv'
  BY <1>3 DEF SingleInv, It2
<1>5. taken \notin It("ServiceAdd") /\ It2("ServiceAdd") = It("ServiceAdd")
  BY <1>0, <1>2
<1>6. AddedServices' = AddedServices
  BY <1>5 DEF AddedServices, ServiceAdds, It, It2
<1>7. DeletedServices = OfServices(It("ServiceDelete")) /\ DeletedServices' = OfServices(It2("ServiceDelete"))
      /\ AddedServices = OfServices(It("ServiceAdd"))
  BY DEF AddedServices, DeletedServices, ServiceAdds, It, It2
<1> DEFINE d == <<top, item.svc>>
<1>8. d \in DeletedServices /\ DeletedServices' = DeletedServices \ {d}
  BY <1>0, <1>2, <1>3, <1>7, PairTaken
<1>9. \A p \in AddedServices \union DeletedServices : p[1] <= top
  BY <1>0, <1>2, <1>7, RankOfServices
<1>10. d[1] = top /\ d[2] = item.svc
  OBVIOUS
<1> QED
  BY <1>1, <1>4, <1>6, <1>8, <1>9, <1>10

LEMMA MoveTaken ==
    ASSUME TypeInv, SingleInv, NEW item, Handling("ServiceEndpointsUpdate", item)
    PROVE  /\ SingleInv' /\ DNSLine' = DNSLine
           /\ AddedServices' = AddedServices /\ DeletedServices' = DeletedServices
<1>0. /\ "ServiceAdd" \in ServiceOps /\ "ServiceDelete" \in ServiceOps
      /\ "ServiceEndpointsUpdate" \in ServiceOps
      /\ "ServiceEndpointsUpdate" \notin {"ServiceAdd", "ServiceDelete"}
  BY DEF ServiceOps
<1>1. Handled(ServiceLine, ServiceLine', "ServiceEndpointsUpdate", item) /\ DNSLine' = DNSLine
  BY <1>0, LinesHandled
<1> DEFINE taken == <<Len(ServiceLine) - 1, item>>
<1>2. \A op \in ServiceOps :
         /\ Items(ServiceLine', op) = Items(ServiceLine, op) \ {taken}
         /\ taken \in Items(ServiceLine, op) => op = "ServiceEndpointsUpdate"
  BY <1>1 DEF Handled
<1> HIDE DEF taken
<1>3. SingleInv'
  BY <1>2 DEF SingleInv, Single
<1>4. /\ Items(ServiceLine', "ServiceAdd") = Items(ServiceLine, "ServiceAdd")
      /\ Items(ServiceLine', "ServiceDelete") = Items(ServiceLine, "ServiceDelete")
  BY <1>0, <1>2
<1> QED
  BY <1>1, <1>3, <1>4 DEF AddedServices, DeletedServices, ServiceAdds

LEMMA DNSTaken ==
    ASSUME TypeInv, NEW op \in DNSOps, NEW d, Handling(op, d)
    PROVE  /\ ServiceLine' = ServiceLine
           /\ op = "DNSAdd" =>
                 /\ DeletedDNS' = DeletedDNS
                 /\ \E a \in AddedDNS :
                       /\ a[2] = d /\ AddedDNS' = AddedDNS \ {a}
                       /\ \A p \in AddedDNS \union DeletedDNS : p[1] <= a[1]
           /\ op = "DNSDelete" =>
                 /\ AddedDNS' = AddedDNS
                 /\ \E a \in DeletedDNS :
                       /\ a[2] = d /\ DeletedDNS' = DeletedDNS \ {a}
                       /\ \A p \in AddedDNS \union DeletedDNS : p[1] <= a[1]
<1> DEFINE top == Len(DNSLine) - 1
           taken == <<top, d>>
<1>0. "DNSAdd" \in DNSOps /\ "DNSDelete" \in DNSOps /\ "DNSAdd" # "DNSDelete"
  BY DEF DNSOps
<1>1. Handled(DNSLine, DNSLine', op, d) /\ ServiceLine' = ServiceLine
  BY LinesHandled
<1>2. /\ taken \in Items(DNSLine, op) /\ taken[1] = top /\ taken[2] = d
      /\ \A kind \in DNSOps :
            /\ Items(DNSLine', kind) = Items(DNSLine, kind) \ {taken}
            /\ \A p \in Items(DNSLine, kind) : p[1] <= top /\ (p[1] = top => kind = op)
  BY <1>1 DEF Handled
<1> HIDE DEF top, taken
<1> QED
  BY <1>0, <1>1, <1>2 DEF AddedDNS, DeletedDNS

-----------------------------------------------------------------------------
(* Additions and deletions stay in order *)

LEMMA UidsTyped ==
    ASSUME TypeInv
    PROVE  /\ Uids(AddedServices) \subseteq Given /\ Uids(DeletedServices) \subseteq Given
           /\ Uids(AddedDNS) \subseteq Announceable /\ Uids(DeletedDNS) \subseteq Announceable
           /\ DOMAIN latest \subseteq Given /\ latestDNS \subseteq Announceable
           /\ SetUp \subseteq Given /\ SetUpDNS \subseteq Announceable
<1>1. ASSUME NEW op, NEW p \in Items(ServiceLine, op) PROVE p[2].svc \in Given
  <2>1. ServiceLine \in Seq(ServiceUpdateSet)
    BY LineParts
  <2> HIDE DEF ServiceLine
  <2>2. PICK i \in 1 .. Len(ServiceLine) : p[2] \in ServiceLine[i].items
    BY <2>1, ItemIn
  <2>3. ServiceLine[i] \in ServiceUpdateSet
    BY <2>1
  <2> QED
    BY <2>2, <2>3 DEF ServiceUpdateSet
<1>2. ASSUME NEW op, NEW p \in Items(DNSLine, op) PROVE p[2] \in Announceable
  <2>1. DNSLine \in Seq(DNSUpdateSet)
    BY LineParts
  <2> HIDE DEF DNSLine
  <2>2. PICK i \in 1 .. Len(DNSLine) : p[2] \in DNSLine[i].items
    BY <2>1, ItemIn
  <2>3. DNSLine[i] \in DNSUpdateSet
    BY <2>1
  <2> QED
    BY <2>2, <2>3 DEF DNSUpdateSet
<1>3. Uids(AddedServices) \subseteq Given /\ Uids(DeletedServices) \subseteq Given
  BY <1>1, RankOfServices DEF AddedServices, DeletedServices, ServiceAdds, Uids
<1>4. Uids(AddedDNS) \subseteq Announceable /\ Uids(DeletedDNS) \subseteq Announceable
  BY <1>2 DEF AddedDNS, DeletedDNS, Uids
<1>5. DOMAIN latest \subseteq Given /\ latestDNS \subseteq Announceable
  BY DEF TypeInv, WatcherTyped
<1> QED
  BY <1>3, <1>4, <1>5 DEF SetUp, SetUpDNS

(* What is on its way, read off the lines.                                 *)
LEMMA LinesTell ==
    /\ ServiceLine' = ServiceLine =>
          /\ AddedServices' = AddedServices /\ DeletedServices' = DeletedServices
          /\ ServiceAdds' = ServiceAdds /\ ServiceMoves' = ServiceMoves
          /\ SingleInv => SingleInv'
    /\ DNSLine' = DNSLine => AddedDNS' = AddedDNS /\ DeletedDNS' = DeletedDNS
  BY DEF AddedServices, DeletedServices, ServiceAdds, ServiceMoves, AddedDNS, DeletedDNS, SingleInv

(* Nothing polled, nothing handled: the order is what it was, also after a *)
(* step of the cluster, which only adds objects that are apart.            *)
LEMMA ApartQuiet ==
    ASSUME ApartInv, ServiceLine' = ServiceLine, DNSLine' = DNSLine,
           UNCHANGED <<apiVars, latest, latestDNS>>, spoilt \subseteq spoilt'
    PROVE  ApartInv'
<1>1. /\ Live(Services)' = Live(Services) /\ Live(DNSes)' = Live(DNSes)
      /\ ServiceClash' = ServiceClash /\ GoneObjects' = GoneObjects
  BY DEF Live, ServiceClash, Clash, Given, GoneObjects, apiVars
<1>2. /\ AddedServices' = AddedServices /\ DeletedServices' = DeletedServices
      /\ AddedDNS' = AddedDNS /\ DeletedDNS' = DeletedDNS
  BY LinesTell
<1>3. Orderly(AddedServices, DeletedServices, DOMAIN latest, GoneObjects, ServiceClash, spoilt')
  BY OrderlyElse DEF ApartInv
<1>4. Orderly(AddedDNS, DeletedDNS, latestDNS, GoneObjects, DNSClash, spoilt')
  BY OrderlyElse DEF ApartInv
<1> QED
  BY <1>1, <1>2, <1>3, <1>4 DEF ApartInv

(* The handlers keep apart what is stored: AddService chooses a name,      *)
(* node ports and an address of its own, AddDNS hosts of its own.          *)
LEMMA StoredApart ==
    ASSUME TypeInv, Cluster, Apart(Live(Services), ServiceClash), Apart(Live(DNSes), DNSClash)
    PROVE  /\ Apart(Live(Services), ServiceClash)' /\ Apart(Live(DNSes), DNSClash)'
           /\ GoneObjects \subseteq GoneObjects'
           /\ \A s, t \in Given : <<s, t>> \in ServiceClash' => <<s, t>> \in ServiceClash
<1>1. phase \in [Services \union Pods \union DNSes -> {"new", "live", "gone"}]
      /\ clusterIP \in [Services -> ClusterIPs \union {None}]
  BY DEF TypeInv, ApiTyped
<1>2. Live(Services) \subseteq Given /\ Given \subseteq Services
  BY DEF TypeInv, ApiTyped, Live, Given
<1>3. \A s, t : <<s, t>> \in ServiceClash <=> s \in Given /\ t \in Given /\ Clash(s, t)
  BY DEF ServiceClash
<1>4. CASE \E s \in Services : AddService(s)
  <2>1. PICK s \in Services : AddService(s)
    BY <1>4
  <2> DEFINE free == ClusterIPs \ {clusterIP[t] : t \in Live(Services)}
  <2>2. Min(free) \in free
    <3>1. free # {} /\ free \subseteq Nat
      BY <2>1, PoolAssumption DEF AddService, ClusterIPs, PoolAssumption
    <3> HIDE DEF free
    <3> QED
      BY <3>1, MinIsMember
  <2> HIDE DEF free
  <2>3. /\ phase[s] = "new" /\ phase' = [phase EXCEPT ![s] = "live"]
        /\ clusterIP' = [clusterIP EXCEPT ![s] = Min(free)]
        /\ \A t \in Live(Services) :
              NameOf[t] # NameOf[s] /\ NodePortsOf(t) \intersect NodePortsOf(s) = {}
    BY <2>1 DEF AddService, free
  <2>4. \A t \in Live(Services) : clusterIP[t] # Min(free)
    BY <2>2 DEF free
  <2>5. /\ Live(Services)' = Live(Services) \union {s} /\ Live(DNSes)' = Live(DNSes)
        /\ GoneObjects' = GoneObjects /\ s \notin Given
        /\ \A t \in Services \ {s} : clusterIP'[t] = clusterIP[t]
        /\ clusterIP'[s] = Min(free)
    BY <1>1, <2>3, UidAssumption DEF Live, GoneObjects, Given, UidAssumption
  <2>6. \A t, u \in Services \ {s} : Clash(t, u)' <=> Clash(t, u)
    BY <2>5 DEF Clash
  <2>7. \A t \in Live(Services) : ~ Clash(s, t)' /\ ~ Clash(t, s)'
    <3> SUFFICES ASSUME NEW t \in Live(Services) PROVE ~ Clash(s, t)' /\ ~ Clash(t, s)'
      OBVIOUS
    <3>1. t \in Services \ {s}
      BY <2>5, <1>2
    <3>2. clusterIP'[t] # clusterIP'[s]
      BY <2>4, <2>5, <3>1
    <3> QED
      BY <2>3, <3>2 DEF Clash
  <2>8. \A t, u : <<t, u>> \in ServiceClash' => Clash(t, u)'
    BY DEF ServiceClash
  <2>9. Apart(Live(Services), ServiceClash)'
    <3>1. \A t, u \in Live(Services) : t # u => ~ Clash(t, u)
      BY <1>2, <1>3 DEF Apart
    <3>2. \A t \in Live(Services) : t \in Services \ {s}
      BY <1>2, <2>5
    <3>3. \A t, u \in Live(Services)' : t # u => ~ Clash(t, u)'
      BY <2>5, <2>6, <2>7, <3>1, <3>2
    <3> QED
      BY <2>8, <3>3 DEF Apart
  <2>10. \A t, u \in Given : <<t, u>> \in ServiceClash' => <<t, u>> \in ServiceClash
    BY <1>2, <1>3, <2>5, <2>6, <2>8
  <2> QED
    BY <2>5, <2>9, <2>10 DEF Apart, DNSClash
<1>5. CASE \E d \in DNSes : AddDNS(d)
  <2>1. PICK d \in DNSes : AddDNS(d)
    BY <1>5
  <2>2. /\ phase[d] = "new" /\ phase' = [phase EXCEPT ![d] = "live"] /\ clusterIP' = clusterIP
        /\ \A e \in Live(DNSes) : HostsOf(d) \intersect HostsOf(e) = {}
    BY <2>1 DEF AddDNS
  <2>3. /\ Live(DNSes)' = Live(DNSes) \union {d} /\ Live(Services)' = Live(Services)
        /\ GoneObjects' = GoneObjects /\ Given' = Given
    BY <1>1, <2>2, UidAssumption DEF Live, GoneObjects, Given, UidAssumption
  <2>4. ServiceClash' = ServiceClash
    BY <2>2, <2>3 DEF ServiceClash, Clash
  <2>5. \A e, f : <<e, f>> \in DNSClash <=> e \in DNSes /\ f \in DNSes /\ HostsOf(e) \intersect HostsOf(f) # {}
    BY DEF DNSClash
  <2>6. Apart(Live(DNSes) \union {d}, DNSClash)
    BY <2>2, <2>5 DEF Apart
  <2> QED
    BY <2>3, <2>4, <2>6 DEF Apart, DNSClash
<1>6. CASE \E p \in Pods : PodRuns(p)
  <2>1. /\ Live(DNSes)' = Live(DNSes) /\ Live(Services)' = Live(Services)
        /\ GoneObjects' = GoneObjects /\ Given' = Given /\ clusterIP' = clusterIP
    BY <1>1, <1>6, UidAssumption DEF PodRuns, Live, GoneObjects, Given, UidAssumption
  <2> QED
    BY <2>1 DEF Apart, DNSClash, ServiceClash, Clash
<1>7. CASE \E x \in DOMAIN phase : Delete(x)
  <2>1. /\ Live(DNSes)' \subseteq Live(DNSes) /\ Live(Services)' \subseteq Live(Services)
        /\ GoneObjects \subseteq GoneObjects' /\ Given' = Given /\ clusterIP' = clusterIP
    BY <1>1, <1>7 DEF Delete, Live, GoneObjects, Given
  <2> QED
    BY <2>1 DEF Apart, DNSClash, ServiceClash, Clash
<1> QED
  BY <1>4, <1>5, <1>6, <1>7 DEF Cluster

LEMMA ApartCluster ==
    ASSUME TypeInv, ApartInv, SingleInv, Cluster
    PROVE  ApartInv' /\ SingleInv'
<1>1. /\ UNCHANGED <<outbox, serviceUpdates, dnsUpdates, job, latest, latestDNS, spoilt>>
  BY DEF Cluster, watcherVars, chanVars
<1>2. ServiceLine' = ServiceLine /\ DNSLine' = DNSLine
  BY <1>1, LinesKept
<1>3. /\ AddedServices' = AddedServices /\ DeletedServices' = DeletedServices /\ SingleInv'
      /\ AddedDNS' = AddedDNS /\ DeletedDNS' = DeletedDNS
  BY <1>2, LinesTell
<1>4. /\ Apart(Live(Services), ServiceClash)' /\ Apart(Live(DNSes), DNSClash)'
      /\ GoneObjects \subseteq GoneObjects' /\ DNSClash' = DNSClash
      /\ \A s, t \in Given : <<s, t>> \in ServiceClash' => <<s, t>> \in ServiceClash
  BY StoredApart DEF ApartInv, DNSClash
<1>5. DOMAIN latest \union Uids(DeletedServices) \subseteq Given
  BY UidsTyped
<1>6. Orderly(AddedServices, DeletedServices, DOMAIN latest, GoneObjects', ServiceClash', spoilt)
  <2>1. \A s, t \in DOMAIN latest \union Uids(DeletedServices) :
           <<s, t>> \in ServiceClash' => <<s, t>> \in ServiceClash
    BY <1>4, <1>5
  <2> QED
    BY <1>4, <2>1, OrderlyElse DEF ApartInv
<1>7. Orderly(AddedDNS, DeletedDNS, latestDNS, GoneObjects', DNSClash, spoilt)
  BY <1>4, OrderlyElse DEF ApartInv
<1> QED
  BY <1>1, <1>3, <1>4, <1>6, <1>7 DEF ApartInv

(* What is polled anew is live, what is missing has gone.                  *)
LEMMA PolledApart ==
    ASSUME TypeInv, ApartInv, NEW failing \in BOOLEAN
    PROVE  /\ ListServices(failing) =>
                 LET old == DOMAIN latest
                     new == DOMAIN latest'
                 IN  /\ Apart(new, ServiceClash) /\ (new \ old) \intersect GoneObjects = {}
                     /\ old \ new \subseteq GoneObjects
                     /\ \A s \in new \ old : \A t \in old \ new : <<s, t>> \in ServiceClash => s \in spoilt'
           /\ ListDNS(failing) =>
                 LET old == latestDNS
                     new == latestDNS'
                 IN  /\ Apart(new, DNSClash) /\ (new \ old) \intersect GoneObjects = {}
                     /\ old \ new \subseteq GoneObjects
                     /\ \A s \in new \ old : \A t \in old \ new : <<s, t>> \in DNSClash => s \in spoilt'
<1>1. phase \in [Services \union Pods \union DNSes -> {"new", "live", "gone"}]
  BY DEF TypeInv, ApiTyped
<1>2. \A x \in Services \union DNSes : phase[x] # "new" => x \in GoneObjects \/ phase[x] = "live"
  BY <1>1 DEF GoneObjects
<1>3. DOMAIN latest \subseteq Given /\ latestDNS \subseteq Announceable
  BY DEF TypeInv, WatcherTyped
<1>4. ASSUME ListServices(failing)
      PROVE  LET old == DOMAIN latest
                 new == DOMAIN latest'
             IN  /\ Apart(new, ServiceClash) /\ (new \ old) \intersect GoneObjects = {}
                 /\ old \ new \subseteq GoneObjects
                 /\ \A s \in new \ old : \A t \in old \ new : <<s, t>> \in ServiceClash => s \in spoilt'
  <2>1. DOMAIN latest' = DOMAIN latest \/ DOMAIN latest' = Live(Services)
    BY <1>4 DEF ListServices
  <2>2. OvertakenServices(DOMAIN latest, DOMAIN latest') \subseteq spoilt'
    BY <1>4 DEF ListServices
  <2>3. CASE DOMAIN latest' = DOMAIN latest
    BY <2>3 DEF ApartInv, Orderly, Apart
  <2>4. CASE DOMAIN latest' = Live(Services)
    <3>1. \A s \in Live(Services) : s \notin GoneObjects
      BY DEF Live, GoneObjects
    <3>2. \A s \in Given \ Live(Services) : s \in GoneObjects
      BY <1>2 DEF Live, Given
    <3>3. Apart(Live(Services), ServiceClash)
      BY DEF ApartInv
    <3>4. \A s, t : <<s, t>> \in ServiceClash => Clash(s, t)
      BY DEF ServiceClash
    <3> QED
      BY <1>3, <2>2, <2>4, <3>1, <3>2, <3>3, <3>4 DEF OvertakenServices
  <2> QED
    BY <2>1, <2>3, <2>4
<1>5. ASSUME ListDNS(failing)
      PROVE  LET old == latestDNS
                 new == latestDNS'
             IN  /\ Apart(new, DNSClash) /\ (new \ old) \intersect GoneObjects = {}
                 /\ old \ new \subseteq GoneObjects
                 /\ \A s \in new \ old : \A t \in old \ new : <<s, t>> \in DNSClash => s \in spoilt'
  <2>1. latestDNS' = latestDNS \/ latestDNS' = Live(DNSes)
    BY <1>5 DEF ListDNS
  <2>2. OvertakenDNS(latestDNS, latestDNS') \subseteq spoilt'
    BY <1>5 DEF ListDNS
  <2>3. CASE latestDNS' = latestDNS
    BY <2>3 DEF ApartInv, Orderly, Apart
  <2>4. CASE latestDNS' = Live(DNSes)
    <3>1. \A s \in Live(DNSes) : s \notin GoneObjects
      BY DEF Live, GoneObjects
    <3>2. \A s \in Announceable \ Live(DNSes) : s \in GoneObjects
      BY <1>2 DEF Live, Announceable
    <3>3. Apart(Live(DNSes), DNSClash)
      BY DEF ApartInv
    <3>4. \A s, t : <<s, t>> \in DNSClash => HostsOf(s) \intersect HostsOf(t) # {}
      BY DEF DNSClash
    <3> QED
      BY <1>3, <2>2, <2>4, <3>1, <3>2, <3>3, <3>4 DEF OvertakenDNS
  <2> QED
    BY <2>1, <2>3, <2>4
<1> QED
  BY <1>4, <1>5

(* The services added and deleted after a poll.                            *)
LEMMA ServicesLonger ==
    ASSUME NEW k, NEW a, NEW d, NEW m, ServicesPolled(k, a, d, m)
    PROVE  LET old == DOMAIN latest
               new == DOMAIN latest'
           IN  /\ k \in Nat /\ a \in Nat /\ d \in Nat /\ m \in Nat
               /\ new \ old # {} => a < k
               /\ old \ new # {} => d < k
               /\ AddedServices' = Ahead(AddedServices, k) \union ({a} \X (new \ old))
               /\ DeletedServices' = Ahead(DeletedServices, k) \union ({d} \X (old \ new))
<1> DEFINE old == DOMAIN latest
           new == DOMAIN latest'
           x == {Change(s, {}, latest'[s]) : s \in new \ old}
           y == {Change(s, {}, {}) : s \in old \ new}
<1>1. /\ Longer(ServiceLine, ServiceLine', k, a, "ServiceAdd", x)
      /\ Longer(ServiceLine, ServiceLine', k, d, "ServiceDelete", y)
      /\ m \in Nat
  BY DEF ServicesPolled, Longer
<1>2. ASSUME NEW n, NEW X, NEW I, \A i \in I : i.svc \in X, \A s \in X : \E i \in I : i.svc = s
      PROVE  OfServices({n} \X I) = {n} \X X
  <2> DEFINE P == {n} \X I
  <2>1. ASSUME NEW s \in X PROVE <<n, s>> \in OfServices(P)
    <3>1. PICK i \in I : i.svc = s
      BY <1>2
    <3> DEFINE p == <<n, i>>
    <3>2. p \in P /\ p[1] = n /\ p[2].svc = s
      BY <3>1
    <3> HIDE DEF p, P
    <3> QED
      BY <3>2 DEF OfServices
  <2>2. ASSUME NEW b \in OfServices(P) PROVE b \in {n} \X X
    <3>1. PICK p \in P : b = <<p[1], p[2].svc>>
      BY DEF OfServices
    <3> QED
      BY <1>2, <3>1
  <2> QED
    BY <2>1, <2>2
<1>3. OfServices({a} \X x) = {a} \X (new \ old)
  <2>1. \A s \in new \ old : Change(s, {}, latest'[s]) \in x /\ Change(s, {}, latest'[s]).svc = s
    BY DEF Change
  <2>2. \A i \in x : i.svc \in new \ old
    BY DEF Change
  <2> HIDE DEF x, new, old
  <2> QED
    BY <1>2, <2>1, <2>2
<1>4. OfServices({d} \X y) = {d} \X (old \ new)
  <2>1. \A s \in old \ new : Change(s, {}, {}) \in y /\ Change(s, {}, {}).svc = s
    BY DEF Change
  <2>2. \A i \in y : i.svc \in old \ new
    BY DEF Change
  <2> HIDE DEF y, new, old
  <2> QED
    BY <1>2, <2>1, <2>2
<1>5. (x = {} => new \ old = {}) /\ (y = {} => old \ new = {})
  OBVIOUS
<1> HIDE DEF x, y, old, new
<1>6. /\ k \in Nat /\ a \in Nat /\ d \in Nat /\ (x # {} => a < k) /\ (y # {} => d < k)
      /\ Items(ServiceLine', "ServiceAdd") = Ahead(Items(ServiceLine, "ServiceAdd"), k) \union ({a} \X x)
      /\ Items(ServiceLine', "ServiceDelete") = Ahead(Items(ServiceLine, "ServiceDelete"), k) \union ({d} \X y)
  BY <1>1 DEF Longer
<1>7. AddedServices' = Ahead(AddedServices, k) \union ({a} \X (new \ old))
  BY <1>3, <1>6, AheadOfServices DEF AddedServices, ServiceAdds
<1>8. DeletedServices' = Ahead(DeletedServices, k) \union ({d} \X (old \ new))
  <2>1. DeletedServices' = OfServices(Ahead(Items(ServiceLine, "ServiceDelete"), k) \union ({d} \X y))
    BY <1>6 DEF DeletedServices
  <2>2. DeletedServices' = OfServices(Ahead(Items(ServiceLine, "ServiceDelete"), k)) \union OfServices({d} \X y)
    BY <2>1, AheadOfServices
  <2> QED
    BY <1>4, <2>2, AheadOfServices DEF DeletedServices
<1> QED
  BY <1>1, <1>5, <1>6, <1>7, <1>8 DEF old, new

LEMMA DNSLonger ==
    ASSUME NEW k, NEW a, NEW d, DNSPolled(k, a, d)
    PROVE  /\ k \in Nat /\ a \in Nat /\ d \in Nat
           /\ latestDNS' \ latestDNS # {} => a < k
           /\ latestDNS \ latestDNS' # {} => d < k
           /\ AddedDNS' = Ahead(AddedDNS, k) \union ({a} \X (latestDNS' \ latestDNS))
           /\ DeletedDNS' = Ahead(DeletedDNS, k) \union ({d} \X (latestDNS \ latestDNS'))
  BY DEF DNSPolled, Longer, AddedDNS, DeletedDNS

(* Of a poll's entries of a kind no two are of one service.                *)
LEMMA SinglePolled ==
    ASSUME NEW P, Single(P), \A p \in P : p[1] \in Nat, NEW k \in Nat, NEW r \in Nat, NEW X,
           X # {} => r < k, \A x, y \in X : x.svc = y.svc => x = y
    PROVE  Single(Ahead(P, k) \union ({r} \X X))
<1> SUFFICES ASSUME NEW p \in Ahead(P, k) \union ({r} \X X), NEW q \in Ahead(P, k) \union ({r} \X X),
                    p[1] = q[1], p[2].svc = q[2].svc
             PROVE  p = q
  BY DEF Single
<1>1. \A b \in {r} \X X : b[1] = r /\ b[2] \in X /\ b = <<r, b[2]>>
  OBVIOUS
<1>2. ASSUME NEW b \in Ahead(P, k)
      PROVE  \E c \in P : b = <<c[1] + k, c[2]>> /\ b[1] = c[1] + k /\ b[2] = c[2] /\ c[1] \in Nat /\ b[1] >= k
  <2>1. PICK c \in P : b = <<c[1] + k, c[2]>>
    BY DEF Ahead
  <2> QED
    BY <2>1
<1>3. CASE p \in {r} \X X /\ q \in {r} \X X
  BY <1>1, <1>3
<1>4. ASSUME NEW b \in Ahead(P, k), NEW c \in {r} \X X PROVE b[1] # c[1]
  BY <1>1, <1>2
<1>5. CASE p \in Ahead(P, k) /\ q \in Ahead(P, k)
  <2>1. PICK c \in P : p = <<c[1] + k, c[2]>> /\ p[1] = c[1] + k /\ p[2] = c[2] /\ c[1] \in Nat
    BY <1>2, <1>5
  <2>2. PICK e \in P : q = <<e[1] + k, e[2]>> /\ q[1] = e[1] + k /\ q[2] = e[2] /\ e[1] \in Nat
    BY <1>2, <1>5
  <2>3. c[1] = e[1] /\ c[2].svc = e[2].svc
    BY <2>1, <2>2
  <2>4. c = e
    BY <2>3 DEF Single
  <2> QED
    BY <2>1, <2>2, <2>4
<1> QED
  BY <1>3, <1>4, <1>5

LEMMA RanksTyped ==
    ASSUME TypeInv, NEW op
    PROVE  /\ \A p \in Items(ServiceLine, op) : p[1] \in Nat
           /\ \A p \in Items(DNSLine, op) : p[1] \in Nat
<1>1. ASSUME NEW U, NEW line \in Seq(U) PROVE \A p \in Items(line, op) : p[1] \in Nat
  <2> SUFFICES ASSUME NEW p \in Items(line, op) PROVE p[1] \in Nat
    OBVIOUS
  <2>1. PICK i \in 1 .. Len(line) : p = <<Len(line) - i, p[2]>>
    BY ItemIn
  <2>2. p[1] = Len(line) - i
    BY <2>1
  <2>3. Len(line) \in Nat
    OBVIOUS
  <2> QED
    BY <2>2, <2>3
<1>2. ServiceLine \in Seq(ServiceUpdateSet) /\ DNSLine \in Seq(DNSUpdateSet)
  BY LineParts
<1> HIDE DEF ServiceLine, DNSLine
<1> QED
  BY <1>1, <1>2

LEMMA ServicesPolledSingle ==
    ASSUME TypeInv, SingleInv, NEW k, NEW a, NEW d, NEW m, ServicesPolled(k, a, d, m)
    PROVE  SingleInv'
<1> DEFINE x == {Change(s, {}, latest'[s]) : s \in DOMAIN latest' \ DOMAIN latest}
           y == {Change(s, {}, {}) : s \in DOMAIN latest \ DOMAIN latest'}
           z == Differences(latest, latest')
<1>1. /\ Longer(ServiceLine, ServiceLine', k, a, "ServiceAdd", x)
      /\ Longer(ServiceLine, ServiceLine', k, d, "ServiceDelete", y)
      /\ Longer(ServiceLine, ServiceLine', k, m, "ServiceEndpointsUpdate", z)
  BY DEF ServicesPolled
<1>2. /\ \A i, j \in x : i.svc = j.svc => i = j
      /\ \A i, j \in y : i.svc = j.svc => i = j
      /\ \A i, j \in z : i.svc = j.svc => i = j
  BY DEF Change, Differences
<1> HIDE DEF x, y, z
<1>3. ASSUME NEW op \in ServiceOps, NEW r, NEW X, Longer(ServiceLine, ServiceLine', k, r, op, X),
             \A i, j \in X : i.svc = j.svc => i = j
      PROVE  Single(Items(ServiceLine', op))
  <2>1. /\ k \in Nat /\ r \in Nat /\ (X # {} => r < k)
        /\ Items(ServiceLine', op) = Ahead(Items(ServiceLine, op), k) \union ({r} \X X)
    BY <1>3 DEF Longer
  <2>2. Single(Items(ServiceLine, op))
    BY DEF SingleInv
  <2>3. \A p \in Items(ServiceLine, op) : p[1] \in Nat
    BY RanksTyped
  <2>4. Single(Ahead(Items(ServiceLine, op), k) \union ({r} \X X))
    BY <1>3, <2>1, <2>2, <2>3, SinglePolled
  <2> QED
    BY <2>1, <2>4
<1>4. /\ Single(Items(ServiceLine', "ServiceAdd"))
      /\ Single(Items(ServiceLine', "ServiceDelete"))
      /\ Single(Items(ServiceLine', "ServiceEndpointsUpdate"))
  BY <1>1, <1>2, <1>3 DEF ServiceOps
<1> QED
  BY <1>4 DEF SingleInv, ServiceOps

LEMMA ApartPoll ==
    ASSUME TypeInv, ApartInv, SingleInv, NEW failing \in BOOLEAN, Poll(failing)
    PROVE  ApartInv' /\ SingleInv'
<1>1. UNCHANGED apiVars /\ spoilt \subseteq spoilt'
  BY DEF Poll, Polling, ListPods, ListServices, ListDNS
<1>2. /\ Live(Services)' = Live(Services) /\ Live(DNSes)' = Live(DNSes)
      /\ ServiceClash' = ServiceClash /\ GoneObjects' = GoneObjects /\ DNSClash' = DNSClash
  BY <1>1 DEF Live, ServiceClash, Clash, Given, GoneObjects, DNSClash, apiVars
<1>3. CASE ListPods(failing)
  <2>1. ServiceLine' = ServiceLine /\ DNSLine' = DNSLine /\ UNCHANGED <<latest, latestDNS>>
    BY <1>3, LinesPolled DEF ListPods
  <2> QED
    BY <1>1, <2>1, ApartQuiet, LinesTell
<1>4. CASE ListServices(failing)
  <2>1. DNSLine' = DNSLine /\ latestDNS' = latestDNS
    BY <1>4, LinesPolled DEF ListServices
  <2>2. AddedDNS' = AddedDNS /\ DeletedDNS' = DeletedDNS
    BY <2>1, LinesTell
  <2>3. Orderly(AddedDNS, DeletedDNS, latestDNS, GoneObjects, DNSClash, spoilt')
    BY <1>1, OrderlyElse DEF ApartInv
  <2>4. PICK k, a, d, m : ServicesPolled(k, a, d, m)
    BY <1>4, ServicesAppended
  <2>5. SingleInv'
    BY <2>4, ServicesPolledSingle
  <2> DEFINE old == DOMAIN latest
             new == DOMAIN latest'
  <2>6. /\ k \in Nat /\ a \in Nat /\ d \in Nat
        /\ new \ old # {} => a < k
        /\ old \ new # {} => d < k
        /\ AddedServices' = Ahead(AddedServices, k) \union ({a} \X (new \ old))
        /\ DeletedServices' = Ahead(DeletedServices, k) \union ({d} \X (old \ new))
    BY <2>4, ServicesLonger
  <2>7. /\ Apart(new, ServiceClash) /\ (new \ old) \intersect GoneObjects = {}
        /\ old \ new \subseteq GoneObjects
        /\ \A s \in new \ old : \A t \in old \ new : <<s, t>> \in ServiceClash => s \in spoilt'
    BY <1>4, PolledApart
  <2>8. Orderly(AddedServices, DeletedServices, old, GoneObjects, ServiceClash, spoilt)
    BY DEF ApartInv
  <2> HIDE DEF old, new
  <2>9. Orderly(Ahead(AddedServices, k) \union ({a} \X (new \ old)),
                Ahead(DeletedServices, k) \union ({d} \X (old \ new)),
                new, GoneObjects, ServiceClash, spoilt')
    BY <1>1, <2>6, <2>7, <2>8, OrderlyPolled
  <2>10. Orderly(AddedServices', DeletedServices', DOMAIN latest', GoneObjects, ServiceClash, spoilt')
    BY <2>6, <2>9 DEF new
  <2> QED
    BY <1>2, <2>1, <2>2, <2>3, <2>5, <2>10 DEF ApartInv
<1>5. CASE ListDNS(failing)
  <2>1. ServiceLine' = ServiceLine /\ latest' = latest
    BY <1>5, LinesPolled DEF ListDNS
  <2>2. AddedServices' = AddedServices /\ DeletedServices' = DeletedServices /\ SingleInv'
    BY <2>1, LinesTell
  <2>3. Orderly(AddedServices, DeletedServices, DOMAIN latest, GoneObjects, ServiceClash, spoilt')
    BY <1>1, OrderlyElse DEF ApartInv
  <2>4. PICK k, a, d : DNSPolled(k, a, d)
    BY <1>5, DNSAppended
  <2>5. /\ k \in Nat /\ a \in Nat /\ d \in Nat
        /\ latestDNS' \ latestDNS # {} => a < k
        /\ latestDNS \ latestDNS' # {} => d < k
        /\ AddedDNS' = Ahead(AddedDNS, k) \union ({a} \X (latestDNS' \ latestDNS))
        /\ DeletedDNS' = Ahead(DeletedDNS, k) \union ({d} \X (latestDNS \ latestDNS'))
    BY <2>4, DNSLonger
  <2>6. /\ Apart(latestDNS', DNSClash) /\ (latestDNS' \ latestDNS) \intersect GoneObjects = {}
        /\ latestDNS \ latestDNS' \subseteq GoneObjects
        /\ \A s \in latestDNS' \ latestDNS : \A t \in latestDNS \ latestDNS' :
              <<s, t>> \in DNSClash => s \in spoilt'
    BY <1>5, PolledApart
  <2>7. Orderly(AddedDNS, DeletedDNS, latestDNS, GoneObjects, DNSClash, spoilt)
    BY DEF ApartInv
  <2>8. Orderly(Ahead(AddedDNS, k) \union ({a} \X (latestDNS' \ latestDNS)),
                Ahead(DeletedDNS, k) \union ({d} \X (latestDNS \ latestDNS')),
                latestDNS', GoneObjects, DNSClash, spoilt')
    BY <1>1, <2>5, <2>6, <2>7, OrderlyPolled
  <2>9. Orderly(AddedDNS', DeletedDNS', latestDNS', GoneObjects, DNSClash, spoilt')
    BY <2>5, <2>8
  <2> QED
    BY <1>2, <2>1, <2>2, <2>3, <2>9 DEF ApartInv
<1> QED
  BY <1>3, <1>4, <1>5 DEF Poll

LEMMA ApartHandle ==
    ASSUME TypeInv, ApartInv, SingleInv, Handle
    PROVE  ApartInv' /\ SingleInv'
<1>1. /\ UNCHANGED <<apiVars, latest, latestDNS>> /\ spoilt \subseteq spoilt'
  BY DEF Handle, HandleServiceAddition, HandleServiceDeletion, HandleServiceEndpointsUpdate,
         HandleDNSAddition, HandleDNSDeletion, Handling, watcherVars
<1>2. /\ Live(Services)' = Live(Services) /\ Live(DNSes)' = Live(DNSes)
      /\ ServiceClash' = ServiceClash /\ GoneObjects' = GoneObjects /\ DNSClash' = DNSClash
  BY <1>1 DEF Live, ServiceClash, Clash, Given, GoneObjects, DNSClash, apiVars
<1>3. /\ Orderly(AddedServices, DeletedServices, DOMAIN latest, GoneObjects, ServiceClash, spoilt')
      /\ Orderly(AddedDNS, DeletedDNS, latestDNS, GoneObjects, DNSClash, spoilt')
  BY <1>1, OrderlyElse DEF ApartInv
<1>4. SUFFICES /\ Orderly(AddedServices', DeletedServices', DOMAIN latest, GoneObjects, ServiceClash, spoilt')
               /\ Orderly(AddedDNS', DeletedDNS', latestDNS, GoneObjects, DNSClash, spoilt')
               /\ SingleInv'
  BY <1>1, <1>2 DEF ApartInv
<1>5. ASSUME NEW item, Handling("ServiceAdd", item)
      PROVE  /\ Orderly(AddedServices', DeletedServices', DOMAIN latest, GoneObjects, ServiceClash, spoilt')
             /\ AddedDNS' = AddedDNS /\ DeletedDNS' = DeletedDNS /\ SingleInv'
  BY <1>3, <1>5, AdditionTaken, OrderlyAdded, LinesTell
<1>6. ASSUME NEW item, Handling("ServiceDelete", item)
      PROVE  /\ Orderly(AddedServices', DeletedServices', DOMAIN latest, GoneObjects, ServiceClash, spoilt')
             /\ AddedDNS' = AddedDNS /\ DeletedDNS' = DeletedDNS /\ SingleInv'
  BY <1>3, <1>6, DeletionTaken, OrderlyDeleted, LinesTell
<1>7. ASSUME NEW item, Handling("ServiceEndpointsUpdate", item)
      PROVE  /\ Orderly(AddedServices', DeletedServices', DOMAIN latest, GoneObjects, ServiceClash, spoilt')
             /\ AddedDNS' = AddedDNS /\ DeletedDNS' = DeletedDNS /\ SingleInv'
  BY <1>3, <1>7, MoveTaken, LinesTell
<1>8. ASSUME NEW d, Handling("DNSAdd", d)
      PROVE  /\ Orderly(AddedDNS', DeletedDNS', latestDNS, GoneObjects, DNSClash, spoilt')
             /\ AddedServices' = AddedServices /\ DeletedServices' = DeletedServices /\ SingleInv'
  BY <1>3, <1>8, DNSTaken, OrderlyAdded, LinesTell DEF DNSOps
<1>9. ASSUME NEW d, Handling("DNSDelete", d)
      PROVE  /\ Orderly(AddedDNS', DeletedDNS', latestDNS, GoneObjects, DNSClash, spoilt')
             /\ AddedServices' = AddedServices /\ DeletedServices' = DeletedServices /\ SingleInv'
  BY <1>3, <1>9, DNSTaken, OrderlyDeleted, LinesTell DEF DNSOps
<1>10. \/ \E item : \/ Handling("ServiceAdd", item) \/ Handling("ServiceDelete", item)
                    \/ Handling("ServiceEndpointsUpdate", item)
       \/ \E d : Handling("DNSAdd", d) \/ Handling("DNSDelete", d)
  BY HandleCases DEF HandleServiceAddition, HandleServiceDeletion, HandleServiceEndpointsUpdate,
                     HandleDNSAddition, HandleDNSDeletion
<1> QED
  BY <1>3, <1>5, <1>6, <1>7, <1>8, <1>9, <1>10

LEMMA ApartElse ==
    ASSUME TypeInv, ApartInv, SingleInv,
           \/ Send \/ Receive \/ WatcherEnds \/ ProxyEnds \/ Interrupt
           \/ \E failing \in BOOLEAN : Start(failing)
           \/ \E byKill \in BOOLEAN : Exit(byKill)
           \/ UNCHANGED vars
    PROVE  ApartInv' /\ SingleInv'
<1>1. CASE Send \/ Receive
  <2>1. ServiceLine' = ServiceLine /\ DNSLine' = DNSLine
    BY <1>1, LinesMoved
  <2>2. UNCHANGED <<apiVars, latest, latestDNS, spoilt>>
    BY <1>1 DEF Send, Receive, watcherVars
  <2> QED
    BY <2>1, <2>2, ApartQuiet, LinesTell
<1>2. CASE \E byKill \in BOOLEAN : Exit(byKill)
  <2>1. /\ UNCHANGED apiVars /\ latest' = NoServices /\ latestDNS' = {}
        /\ outbox' = <<>> /\ serviceUpdates' = <<>> /\ dnsUpdates' = <<>> /\ job' = Idle
    BY <1>2 DEF Exit
  <2>2. ServiceLine' = <<>> /\ DNSLine' = <<>>
    BY <2>1, OpsApart DEF ServiceLine, DNSLine, AtHand, Waiting
  <2>3. /\ AddedServices' = {} /\ DeletedServices' = {} /\ AddedDNS' = {} /\ DeletedDNS' = {}
        /\ SingleInv'
    BY <2>2, NoItems DEF AddedServices, DeletedServices, ServiceAdds, AddedDNS, DeletedDNS,
                         SingleInv, Single, OfServices
  <2>4. /\ Live(Services)' = Live(Services) /\ Live(DNSes)' = Live(DNSes) /\ ServiceClash' = ServiceClash
    BY <2>1 DEF Live, ServiceClash, Clash, Given, apiVars
  <2>5. DOMAIN latest' = {}
    BY <2>1 DEF NoServices
  <2> QED
    BY <2>1, <2>3, <2>4, <2>5, OrderlyEmpty DEF ApartInv, DNSClash
<1>3. CASE \/ WatcherEnds \/ ProxyEnds \/ Interrupt
           \/ \E failing \in BOOLEAN : Start(failing)
           \/ UNCHANGED vars
  <2>1. /\ UNCHANGED <<apiVars, latest, latestDNS, spoilt>>
        /\ UNCHANGED <<outbox, serviceUpdates, dnsUpdates, job>>
    BY <1>3 DEF WatcherEnds, ProxyEnds, Interrupt, Start, vars, watcherVars, chanVars
  <2> QED
    BY <2>1, LinesKept, ApartQuiet, LinesTell
<1> QED
  BY <1>1, <1>2, <1>3

LEMMA ApartStep ==
    ASSUME TypeInv, ApartInv, SingleInv, [Next]_vars
    PROVE  ApartInv' /\ SingleInv'
  BY ApartCluster, ApartPoll, ApartHandle, ApartElse, Zenon DEF Next

-----------------------------------------------------------------------------
(* Before its start and after its end *)

LEMMA EndStep ==
    ASSUME TypeInv, EndInv, [Next]_vars
    PROVE  EndInv'
<1>1. CASE Cluster
  <2>1. UNCHANGED <<watcher, proxy, latest, latestDNS, outbox, serviceUpdates, dnsUpdates, job,
                    virtuals, routes, addrs, hosts, nginx>>
    BY <1>1 DEF Cluster, watcherVars, chanVars, kernelVars, fileVars
  <2> QED
    BY <2>1, LinesKept DEF EndInv
<1>2. CASE Send \/ Receive
  <2>1. UNCHANGED <<watcher, proxy, latest, latestDNS, virtuals, routes, addrs, hosts, nginx>>
    BY <1>2 DEF Send, Receive, watcherVars, kernelVars, fileVars
  <2> QED
    BY <1>2, <2>1, LinesMoved DEF EndInv
<1>3. ASSUME NEW failing \in BOOLEAN, Poll(failing) PROVE EndInv'
  <2>1. watcher' # "off" /\ UNCHANGED <<proxy, virtuals, routes, addrs, hosts, nginx>>
    BY <1>3 DEF Poll, ListPods, ListServices, ListDNS, Polling, kernelVars, fileVars
  <2> QED
    BY <2>1 DEF EndInv
<1>4. CASE Handle
  <2>1. proxy = "up" /\ UNCHANGED <<watcher, proxy>>
    BY <1>4 DEF Handle, HandleServiceAddition, HandleServiceDeletion, HandleServiceEndpointsUpdate,
                HandleDNSAddition, HandleDNSDeletion, Handling, watcherVars
  <2> QED
    BY <2>1 DEF EndInv
<1>5. CASE WatcherEnds
  BY <1>5 DEF WatcherEnds, EndInv, kernelVars, fileVars
<1>6. CASE ProxyEnds
  BY <1>6 DEF ProxyEnds, EndInv, watcherVars
<1>7. CASE Interrupt
  BY <1>7 DEF Interrupt, EndInv, kernelVars, fileVars, watcherVars
<1>8. ASSUME NEW failing \in BOOLEAN, Start(failing) PROVE EndInv'
  BY <1>8 DEF Start, EndInv
<1>9. ASSUME NEW byKill \in BOOLEAN, Exit(byKill) PROVE EndInv'
  <2>1. /\ proxy' = "off" /\ latest' = NoServices /\ latestDNS' = {}
        /\ outbox' = <<>> /\ serviceUpdates' = <<>> /\ dnsUpdates' = <<>> /\ job' = Idle
    BY <1>9 DEF Exit
  <2>2. ServiceLine' = <<>> /\ DNSLine' = <<>>
    BY <2>1, OpsApart DEF ServiceLine, DNSLine, AtHand, Waiting
  <2> QED
    BY <2>1, <2>2 DEF EndInv
<1>10. CASE UNCHANGED vars
  <2>1. UNCHANGED <<watcher, proxy, latest, latestDNS, outbox, serviceUpdates, dnsUpdates, job,
                    virtuals, routes, addrs, hosts, nginx>>
    BY <1>10 DEF vars, watcherVars, chanVars, kernelVars, fileVars
  <2> QED
    BY <2>1, LinesKept DEF EndInv
<1> QED
  BY <1>1, <1>2, <1>3, <1>4, <1>5, <1>6, <1>7, <1>8, <1>9, <1>10, Zenon DEF Next

-----------------------------------------------------------------------------
(* What a service has in the kernel is its own *)

LEMMA VirtualsKept ==
    ASSUME NEW s, clusterIP'[s] = clusterIP[s]
    PROVE  /\ VirtualsOf(s)' = VirtualsOf(s)
           /\ \A i : ClusterServer(s, i)' = ClusterServer(s, i) /\ Servers(s, i)' = Servers(s, i)
  BY DEF VirtualsOf, Servers, ClusterServer

LEMMA VirtualsOfPorts ==
    ASSUME NEW s
    PROVE  /\ \A i \in DOMAIN PortsOf[s] : ClusterServer(s, i) \in Servers(s, i)
           /\ \A i \in DOMAIN PortsOf[s] : Servers(s, i) \subseteq VirtualsOf(s)
           /\ \A v \in VirtualsOf(s) :
                 \/ v[1] = clusterIP[s]
                 \/ v[1] = HostIP /\ v[2] \in NodePortsOf(s)
           /\ \A i \in DOMAIN PortsOf[s] : ClusterServer(s, i)[1] = clusterIP[s]
  BY DEF VirtualsOf, Servers, ClusterServer, NodePortsOf

LEMMA VirtualsApart ==
    ASSUME NEW s \in Given, NEW t \in Given, <<s, t>> \notin ServiceClash
    PROVE  /\ VirtualsOf(s) \intersect VirtualsOf(t) = {}
           /\ NameOf[s] # NameOf[t] /\ clusterIP[s] # clusterIP[t]
<1>1. /\ NameOf[s] # NameOf[t] /\ clusterIP[s] # clusterIP[t]
      /\ NodePortsOf(s) \intersect NodePortsOf(t) = {}
  BY DEF ServiceClash, Clash
<1>2. clusterIP[s] # HostIP /\ clusterIP[t] # HostIP
  BY PoolAssumption DEF Given, PoolAssumption
<1>3. \A v : v \in VirtualsOf(s) => v \notin VirtualsOf(t)
  BY <1>1, <1>2, VirtualsOfPorts
<1> QED
  BY <1>1, <1>3

(* Who is yet to be deleted, or was announced, stays set up after a poll.  *)
Polled(A, D, A2, D2, old, new) ==
    /\ \E k, a : A2 = Ahead(A, k) \union ({a} \X (new \ old))
    /\ \E k, d : D2 = Ahead(D, k) \union ({d} \X (old \ new))
    /\ \A q \in D : q[2] \notin new \ old

LEMMA UidsPolled ==
    ASSUME NEW A, NEW D, NEW A2, NEW D2, NEW old, NEW new, Polled(A, D, A2, D2, old, new)
    PROVE  /\ (old \union Uids(D)) \ Uids(A) \subseteq (new \union Uids(D2)) \ Uids(A2)
           /\ Uids(A) \subseteq Uids(A2) /\ new \ Uids(A2) \subseteq old
<1>1. ASSUME NEW P, NEW k PROVE Uids(Ahead(P, k)) = Uids(P)
  <2>1. ASSUME NEW x \in Uids(P) PROVE x \in Uids(Ahead(P, k))
    <3>1. PICK p \in P : x = p[2]
      BY DEF Uids
    <3>2. <<p[1] + k, p[2]>> \in Ahead(P, k) /\ <<p[1] + k, p[2]>>[2] = x
      BY <3>1 DEF Ahead
    <3> QED
      BY <3>2 DEF Uids
  <2>2. ASSUME NEW x \in Uids(Ahead(P, k)) PROVE x \in Uids(P)
    BY DEF Uids, Ahead
  <2> QED
    BY <2>1, <2>2
<1>2. ASSUME NEW n, NEW X PROVE Uids({n} \X X) = X
  <2>1. \A x \in X : <<n, x>> \in {n} \X X /\ <<n, x>>[2] = x
    OBVIOUS
  <2> QED
    BY <2>1 DEF Uids
<1>3. PICK k, a : A2 = Ahead(A, k) \union ({a} \X (new \ old))
  BY DEF Polled
<1>4. PICK l, d : D2 = Ahead(D, l) \union ({d} \X (old \ new))
  BY DEF Polled
<1>5. Uids(A2) = Uids(A) \union (new \ old) /\ Uids(D2) = Uids(D) \union (old \ new)
  <2>1. /\ Uids(A2) = Uids(Ahead(A, k)) \union Uids({a} \X (new \ old))
        /\ Uids(D2) = Uids(Ahead(D, l)) \union Uids({d} \X (old \ new))
    BY <1>3, <1>4 DEF Uids
  <2>2. Uids(Ahead(A, k)) = Uids(A) /\ Uids(Ahead(D, l)) = Uids(D)
    BY <1>1
  <2>3. Uids({a} \X (new \ old)) = new \ old
    BY <1>2
  <2>4. Uids({d} \X (old \ new)) = old \ new
    BY <1>2
  <2> QED
    BY <2>1, <2>2, <2>3, <2>4
<1>6. Uids(D) \intersect (new \ old) = {}
  BY DEF Uids, Polled
<1> QED
  BY <1>5, <1>6

LEMMA SetUpPolled ==
    ASSUME TypeInv, ApartInv, NEW failing \in BOOLEAN, Poll(failing)
    PROVE  /\ SetUp \subseteq SetUp' /\ SetUpDNS \subseteq SetUpDNS'
           /\ Uids(AddedServices) \subseteq Uids(AddedServices')
           /\ DOMAIN latest' \ Uids(AddedServices') \subseteq DOMAIN latest
<1>2. CASE ListPods(failing)
  <2>1. ServiceLine' = ServiceLine /\ DNSLine' = DNSLine /\ UNCHANGED <<latest, latestDNS>>
    BY <1>2, LinesPolled DEF ListPods
  <2> QED
    BY <2>1, LinesTell DEF SetUp, SetUpDNS
<1>3. CASE ListServices(failing)
  <2>1. DNSLine' = DNSLine /\ latestDNS' = latestDNS
    BY <1>3, LinesPolled DEF ListServices
  <2>2. PICK k, a, d, m : ServicesPolled(k, a, d, m)
    BY <1>3, ServicesAppended
  <2> DEFINE old == DOMAIN latest
             new == DOMAIN latest'
  <2>3. /\ AddedServices' = Ahead(AddedServices, k) \union ({a} \X (new \ old))
        /\ DeletedServices' = Ahead(DeletedServices, k) \union ({d} \X (old \ new))
    BY <2>2, ServicesLonger
  <2>4. \A q \in DeletedServices : q[2] \notin new \ old
    BY <1>3, PolledApart DEF ApartInv, Orderly
  <2> HIDE DEF old, new
  <2>5. Polled(AddedServices, DeletedServices, AddedServices', DeletedServices', old, new)
    BY <2>3, <2>4 DEF Polled
  <2>6. /\ (old \union Uids(DeletedServices)) \ Uids(AddedServices)
              \subseteq (new \union Uids(DeletedServices')) \ Uids(AddedServices')
        /\ Uids(AddedServices) \subseteq Uids(AddedServices') /\ new \ Uids(AddedServices') \subseteq old
    BY <2>5, UidsPolled
  <2> QED
    BY <2>1, <2>6, LinesTell DEF SetUp, SetUpDNS, old, new
<1>4. CASE ListDNS(failing)
  <2>1. ServiceLine' = ServiceLine /\ latest' = latest
    BY <1>4, LinesPolled DEF ListDNS
  <2>2. PICK k, a, d : DNSPolled(k, a, d)
    BY <1>4, DNSAppended
  <2>3. /\ AddedDNS' = Ahead(AddedDNS, k) \union ({a} \X (latestDNS' \ latestDNS))
        /\ DeletedDNS' = Ahead(DeletedDNS, k) \union ({d} \X (latestDNS \ latestDNS'))
    BY <2>2, DNSLonger
  <2>4. \A q \in DeletedDNS : q[2] \notin latestDNS' \ latestDNS
    BY <1>4, PolledApart DEF ApartInv, Orderly
  <2>5. Polled(AddedDNS, DeletedDNS, AddedDNS', DeletedDNS', latestDNS, latestDNS')
    BY <2>3, <2>4 DEF Polled
  <2>6. (latestDNS \union Uids(DeletedDNS)) \ Uids(AddedDNS)
           \subseteq (latestDNS' \union Uids(DeletedDNS')) \ Uids(AddedDNS')
    BY <2>5, UidsPolled
  <2> QED
    BY <2>1, <2>6, LinesTell DEF SetUp, SetUpDNS
<1> QED
  BY <1>2, <1>3, <1>4 DEF Poll

(* What handling an entry does to what is set up.                          *)
LEMMA SetUpAdded ==
    ASSUME TypeInv, ApartInv, SingleInv, NEW item, Handling("ServiceAdd", item)
    PROVE  /\ item.svc \in SetUp' /\ SetUp \subseteq SetUp' /\ item.svc \notin SetUp
           /\ SetUpDNS' = SetUpDNS
<1> DEFINE s == item.svc
<1>1. UNCHANGED <<latest, latestDNS>>
  BY DEF Handling, watcherVars
<1>2. PICK a \in AddedServices :
         /\ a[2] = s /\ AddedServices' = AddedServices \ {a} /\ DeletedServices' = DeletedServices
         /\ DNSLine' = DNSLine
         /\ \A p \in AddedServices \union DeletedServices : p[1] <= a[1]
  BY AdditionTaken
<1>3. s \notin Uids(AddedServices') /\ s \in DOMAIN latest \union Uids(DeletedServices)
  BY <1>2, OrderlyAdded DEF ApartInv
<1>4. s \in Uids(AddedServices) /\ Uids(AddedServices') \subseteq Uids(AddedServices)
  BY <1>2 DEF Uids
<1> QED
  BY <1>1, <1>2, <1>3, <1>4, LinesTell DEF SetUp, SetUpDNS

LEMMA SetUpDeleted ==
    ASSUME TypeInv, ApartInv, SingleInv, NEW item, Handling("ServiceDelete", item)
    PROVE  /\ \A t \in SetUp : t = item.svc \/ t \in SetUp'
           /\ SetUpDNS' = SetUpDNS
<1>1. UNCHANGED <<latest, latestDNS>>
  BY DEF Handling, watcherVars
<1>2. PICK d \in DeletedServices :
         /\ d[2] = item.svc /\ DeletedServices' = DeletedServices \ {d} /\ AddedServices' = AddedServices
         /\ DNSLine' = DNSLine
  BY DeletionTaken
<1>3. \A t \in Uids(DeletedServices) : t = item.svc \/ t \in Uids(DeletedServices')
  BY <1>2 DEF Uids
<1> QED
  BY <1>1, <1>2, <1>3, LinesTell DEF SetUp, SetUpDNS

LEMMA SetUpDNSAdded ==
    ASSUME TypeInv, ApartInv, SingleInv, NEW d, Handling("DNSAdd", d)
    PROVE  d \in SetUpDNS' /\ SetUpDNS \subseteq SetUpDNS' /\ SetUp' = SetUp
<1>1. UNCHANGED <<latest, latestDNS>>
  BY DEF Handling, watcherVars
<1>2. PICK a \in AddedDNS :
         /\ a[2] = d /\ AddedDNS' = AddedDNS \ {a} /\ DeletedDNS' = DeletedDNS
         /\ ServiceLine' = ServiceLine
         /\ \A p \in AddedDNS \union DeletedDNS : p[1] <= a[1]
  BY DNSTaken DEF DNSOps
<1>3. d \notin Uids(AddedDNS') /\ d \in latestDNS \union Uids(DeletedDNS)
  BY <1>2, OrderlyAdded DEF ApartInv
<1>4. Uids(AddedDNS') \subseteq Uids(AddedDNS)
  BY <1>2 DEF Uids
<1> QED
  BY <1>1, <1>2, <1>3, <1>4, LinesTell DEF SetUp, SetUpDNS

(* Whoever is set up and meets the deletion of one with a host in common   *)
(* was overtaken by it.                                                    *)
LEMMA SetUpDNSDeleted ==
    ASSUME TypeInv, ApartInv, SingleInv, NEW d, Handling("DNSDelete", d)
    PROVE  /\ \A e \in SetUpDNS : e = d \/ e \in SetUpDNS'
           /\ \A e \in SetUpDNS : e # d /\ <<e, d>> \in DNSClash => e \in spoilt
           /\ SetUp' = SetUp
<1>1. UNCHANGED <<latest, latestDNS>>
  BY DEF Handling, watcherVars
<1>2. PICK q \in DeletedDNS :
         /\ q[2] = d /\ DeletedDNS' = DeletedDNS \ {q} /\ AddedDNS' = AddedDNS
         /\ ServiceLine' = ServiceLine
         /\ \A p \in AddedDNS \union DeletedDNS : p[1] <= q[1]
  BY DNSTaken DEF DNSOps
<1>3. \A t \in Uids(DeletedDNS) : t = d \/ t \in Uids(DeletedDNS')
  BY <1>2 DEF Uids
<1>4. ASSUME NEW e \in SetUpDNS, e # d, <<e, d>> \in DNSClash PROVE e \in spoilt
  <2>1. e \in latestDNS \union Uids({r \in DeletedDNS : r[1] <= q[1]})
    BY <1>2 DEF SetUpDNS, Uids
  <2>2. e \in spoilt \/ \E p \in AddedDNS : p[2] = e
    BY <1>2, <1>4, <2>1 DEF ApartInv, Orderly
  <2> QED
    BY <2>2 DEF SetUpDNS, Uids
<1> QED
  BY <1>1, <1>2, <1>3, <1>4, LinesTell DEF SetUp, SetUpDNS

-----------------------------------------------------------------------------
(* Services announced are served *)

ServedUnmoved ==
    /\ AddedServices' = AddedServices /\ DeletedServices' = DeletedServices
    /\ UNCHANGED <<latest, virtuals, addrs, serviceCache, leftover>>
    /\ \A s \in Given : clusterIP'[s] = clusterIP[s]
    /\ spoilt \subseteq spoilt'
    /\ proxy = "ended" => proxy' = "ended"

LEMMA ServedQuiet ==
    ASSUME TypeInv, ServedInv, ServedUnmoved
    PROVE  ServedInv'
<1>1. SetUp' = SetUp /\ SetUp \subseteq Given /\ DOMAIN latest \subseteq Given
  BY UidsTyped DEF SetUp, ServedUnmoved
<1>2. \A s \in Given : /\ VirtualsOf(s)' = VirtualsOf(s) /\ clusterIP'[s] = clusterIP[s]
                       /\ \A i : ClusterServer(s, i)' = ClusterServer(s, i)
  BY VirtualsKept DEF ServedUnmoved
<1>3. \A s \in Given : Served(s) => Served(s)'
  BY <1>2 DEF Served, ServedUnmoved
<1>4. ASSUME proxy' # "ended", NEW s \in DOMAIN latest' \ (spoilt' \union Uids(AddedServices)')
      PROVE  Served(s)'
  BY <1>1, <1>3, <1>4 DEF ServedInv, ServedUnmoved
<1>5. ASSUME ~ leftover'
      PROVE  /\ \A v \in virtuals' : \E t \in SetUp' : v \in VirtualsOf(t)'
             /\ \A ip \in addrs' : \E v \in virtuals' : v[1] = ip
  BY <1>1, <1>2, <1>5 DEF ServedInv, ServedUnmoved
<1> QED
  BY <1>4, <1>5 DEF ServedInv

(* A service announced finds none of its servers there when it is added.   *)
LEMMA NoServersYet ==
    ASSUME TypeInv, ApartInv, SingleInv, ServedInv, ~ leftover,
           NEW item, Handling("ServiceAdd", item), item.svc \in DOMAIN latest \ spoilt
    PROVE  VirtualsOf(item.svc) \intersect virtuals = {}
<1> DEFINE s == item.svc
<1>1. \A v \in virtuals : \E t \in SetUp : v \in VirtualsOf(t)
  BY DEF ServedInv
<1>2. PICK a \in AddedServices :
         a[2] = s /\ \A p \in AddedServices \union DeletedServices : p[1] <= a[1]
  BY AdditionTaken
<1>3. Orderly(AddedServices, DeletedServices, DOMAIN latest, GoneObjects, ServiceClash, spoilt)
  BY DEF ApartInv
<1>4. s \in Given /\ SetUp \subseteq Given
  BY HandlingTyped, UidsTyped DEF ServiceOps
<1>5. ASSUME NEW t \in SetUp PROVE VirtualsOf(t) \intersect VirtualsOf(s) = {}
  <2>1. t \in DOMAIN latest \union Uids(DeletedServices) /\ t # s
    BY <1>2 DEF SetUp, Uids
  <2>2. \E b \in AddedServices : b[2] = s /\ \A p \in DeletedServices : p[1] <= b[1]
    BY <1>2
  <2>3. <<s, t>> \notin ServiceClash
    BY <1>3, <2>1, <2>2, MeetsNoClash
  <2> QED
    BY <1>4, <2>3, VirtualsApart
<1> QED
  BY <1>1, <1>5

LEMMA ServedAddition ==
    ASSUME TypeInv, ApartInv, SingleInv, ServedInv, NEW item, NEW refused, NEW lost,
           HandleServiceAddition(item, refused, lost)
    PROVE  ServedInv'
<1> DEFINE s == item.svc
           ports == DOMAIN PortsOf[s]
           bad == virtuals \union refused
           first == {i \in ports : ClusterServer(s, i) \notin bad}
           mapped == {i \in first : Servers(s, i) \intersect bad = {}}
           added == {ClusterServer(s, i) : i \in first} \union
                    UNION {Servers(s, i) : i \in mapped}
<1>1. /\ Handling("ServiceAdd", item)
      /\ spoilt' = IF refused # {} \/ lost # {} THEN spoilt \union {s} ELSE spoilt
      /\ virtuals' = virtuals \union added
      /\ addrs' = IF first # {} THEN addrs \union {clusterIP[s]} ELSE addrs
      /\ serviceCache' = [serviceCache EXCEPT ![NameOf[s]] = clusterIP[s]]
  BY DEF HandleServiceAddition
<1>2. /\ proxy = "up" /\ UNCHANGED <<apiVars, latest, proxy, leftover>>
  BY <1>1 DEF Handling, watcherVars, runVars
<1>3. s \in Given /\ DOMAIN latest \subseteq Given /\ SetUp \subseteq Given
  BY <1>1, HandlingTyped, UidsTyped DEF ServiceOps
<1>4. PICK a \in AddedServices :
         /\ a[2] = s /\ AddedServices' = AddedServices \ {a} /\ DeletedServices' = DeletedServices
         /\ \A p \in AddedServices \union DeletedServices : p[1] <= a[1]
  BY <1>1, AdditionTaken
<1>5. Orderly(AddedServices, DeletedServices, DOMAIN latest, GoneObjects, ServiceClash, spoilt)
  BY DEF ApartInv
<1>6. s \notin Uids(AddedServices') /\ s \in DOMAIN latest \union Uids(DeletedServices)
  BY <1>4, <1>5, OrderlyAdded
<1>7. /\ s \in Uids(AddedServices) /\ Uids(AddedServices') \subseteq Uids(AddedServices)
      /\ \A t \in Uids(AddedServices) : t = s \/ t \in Uids(AddedServices')
  BY <1>4 DEF Uids
<1>8. s \in SetUp' /\ SetUp \subseteq SetUp' /\ s \notin SetUp
  BY <1>1, SetUpAdded
<1>9. \A t : /\ VirtualsOf(t)' = VirtualsOf(t) /\ clusterIP'[t] = clusterIP[t]
             /\ \A i : ClusterServer(t, i)' = ClusterServer(t, i)
  BY <1>2, VirtualsKept DEF apiVars
<1>10. serviceCache'[NameOf[s]] = clusterIP[s]
       /\ \A nm \in Names : nm # NameOf[s] => serviceCache'[nm] = serviceCache[nm]
  <2>1. serviceCache \in [Names -> ClusterIPs \union {None}] /\ NameOf[s] \in Names
    BY <1>3 DEF TypeInv, FilesTyped, Given, Names
  <2> QED
    BY <1>1, <2>1
<1>11. ASSUME NEW t \in DOMAIN latest \ (spoilt' \union Uids(AddedServices')), t # s
       PROVE  Served(t)'
  <2>1. t \in DOMAIN latest \ (spoilt \union Uids(AddedServices))
    BY <1>1, <1>7, <1>11
  <2>2. <<t, s>> \notin ServiceClash
    BY <1>5, <1>6, <1>11, <2>1, MeetsNoClash
  <2>3. NameOf[t] # NameOf[s] /\ NameOf[t] \in Names
    BY <1>3, <2>1, <2>2, VirtualsApart DEF Given, Names
  <2>4. Served(t)
    BY <1>2, <2>1 DEF ServedInv
  <2>5. virtuals \subseteq virtuals' /\ addrs \subseteq addrs'
    BY <1>1
  <2> QED
    BY <1>2, <1>9, <1>10, <2>3, <2>4, <2>5 DEF Served
<1>12. ASSUME s \in DOMAIN latest \ spoilt' PROVE Served(s)'
  <2>1. refused = {} /\ s \in DOMAIN latest \ spoilt
    BY <1>1, <1>12
  <2>2. \A i \in ports : ClusterServer(s, i) \in virtuals'
    BY <1>1, <2>1
  <2>3. ASSUME ~ leftover PROVE VirtualsOf(s) \subseteq virtuals' /\ clusterIP[s] \in addrs'
    <3>3. VirtualsOf(s) \intersect virtuals = {}
      BY <1>1, <2>1, <2>3, NoServersYet
    <3>4. \A i \in ports : ClusterServer(s, i) \in VirtualsOf(s) /\ Servers(s, i) \subseteq VirtualsOf(s)
      BY VirtualsOfPorts
    <3>5. first = ports
      BY <2>1, <3>3, <3>4
    <3>6. mapped = ports
      BY <2>1, <3>3, <3>4, <3>5
    <3>7. VirtualsOf(s) \subseteq added
      BY <3>6 DEF VirtualsOf
    <3>8. ports # {}
      BY <1>3, ServiceAssumption DEF Given, ServiceAssumption
    <3> QED
      BY <1>1, <3>5, <3>7, <3>8
  <2> QED
    BY <1>2, <1>9, <1>10, <2>2, <2>3 DEF Served
<1>13. ASSUME ~ leftover'
       PROVE  /\ \A v \in virtuals' : \E t \in SetUp' : v \in VirtualsOf(t)'
              /\ \A ip \in addrs' : \E v \in virtuals' : v[1] = ip
  <2>1. added \subseteq VirtualsOf(s)
    BY VirtualsOfPorts
  <2>2. \A v \in virtuals' : \E t \in SetUp' : v \in VirtualsOf(t)'
    BY <1>1, <1>2, <1>8, <1>9, <1>13, <2>1 DEF ServedInv
  <2>3. ASSUME first # {} PROVE \E v \in virtuals' : v[1] = clusterIP[s]
    <3>1. PICK i \in first : TRUE
      BY <2>3
    <3>2. ClusterServer(s, i) \in added /\ ClusterServer(s, i)[1] = clusterIP[s]
      BY VirtualsOfPorts
    <3> QED
      BY <1>1, <3>2
  <2>4. \A ip \in addrs : \E v \in virtuals' : v[1] = ip
    BY <1>1, <1>2, <1>13 DEF ServedInv
  <2> QED
    BY <1>1, <2>2, <2>3, <2>4
<1>14. DOMAIN latest' = DOMAIN latest /\ leftover' = leftover
  BY <1>2
<1> HIDE DEF s
<1> QED
  BY <1>11, <1>12, <1>13, <1>14 DEF ServedInv

LEMMA ServedDeletion ==
    ASSUME TypeInv, ApartInv, SingleInv, ServedInv, NEW item, HandleServiceDeletion(item)
    PROVE  ServedInv'
<1> DEFINE s == item.svc
           gone == VirtualsOf(s) \intersect virtuals
<1>1. /\ Handling("ServiceDelete", item)
      /\ virtuals' = virtuals \ gone
      /\ addrs' = IF \E v \in gone : v[1] = clusterIP[s] THEN addrs \ {clusterIP[s]} ELSE addrs
      /\ serviceCache' = [serviceCache EXCEPT ![NameOf[s]] = None]
      /\ spoilt' = spoilt
  BY DEF HandleServiceDeletion
<1>2. /\ proxy = "up" /\ UNCHANGED <<apiVars, latest, proxy, leftover>>
  BY <1>1 DEF Handling, watcherVars, runVars
<1>3. s \in Given /\ DOMAIN latest \subseteq Given /\ SetUp \subseteq Given
  BY <1>1, HandlingTyped, UidsTyped DEF ServiceOps
<1>4. PICK d \in DeletedServices :
         /\ d[2] = s /\ DeletedServices' = DeletedServices \ {d} /\ AddedServices' = AddedServices
         /\ \A p \in AddedServices \union DeletedServices : p[1] <= d[1]
  BY <1>1, DeletionTaken
<1>5. Orderly(AddedServices, DeletedServices, DOMAIN latest, GoneObjects, ServiceClash, spoilt)
  BY DEF ApartInv
<1>6. s \notin DOMAIN latest
  BY <1>4, <1>5, OrderlyDeleted
<1>7. s \in Uids(DeletedServices) /\ \A t \in Uids(DeletedServices) : t = s \/ t \in Uids(DeletedServices')
  BY <1>4 DEF Uids
<1>8. \A t \in SetUp : t = s \/ t \in SetUp'
  BY <1>1, SetUpDeleted
<1>9. \A t : /\ VirtualsOf(t)' = VirtualsOf(t) /\ clusterIP'[t] = clusterIP[t]
             /\ \A i : ClusterServer(t, i)' = ClusterServer(t, i)
  BY <1>2, VirtualsKept DEF apiVars
<1>10. \A nm \in Names : nm # NameOf[s] => serviceCache'[nm] = serviceCache[nm]
  <2>1. serviceCache \in [Names -> ClusterIPs \union {None}]
    BY DEF TypeInv, FilesTyped
  <2> QED
    BY <1>1, <2>1
<1>11. ASSUME NEW t \in DOMAIN latest \ (spoilt \union Uids(AddedServices))
       PROVE  Served(t)'
  <2>1. t # s /\ t \in Given
    BY <1>3, <1>6
  <2>2. <<t, s>> \notin ServiceClash
    BY <1>5, <1>7, <1>11, <2>1, MeetsNoClash
  <2>3. /\ NameOf[t] # NameOf[s] /\ NameOf[t] \in Names /\ clusterIP[t] # clusterIP[s]
        /\ VirtualsOf(t) \intersect VirtualsOf(s) = {}
    BY <1>3, <2>1, <2>2, VirtualsApart DEF Given, Names
  <2>4. Served(t)
    BY <1>2, <1>11 DEF ServedInv
  <2>5. \A i \in DOMAIN PortsOf[t] : ClusterServer(t, i) \in VirtualsOf(t)
    BY VirtualsOfPorts
  <2>6. \A v \in VirtualsOf(t) : v \in virtuals => v \in virtuals'
    BY <1>1, <2>3
  <2>7. clusterIP[t] \in addrs => clusterIP[t] \in addrs'
    BY <1>1, <2>3
  <2> QED
    BY <1>2, <1>9, <1>10, <2>3, <2>4, <2>5, <2>6, <2>7 DEF Served
<1>12. ASSUME ~ leftover'
       PROVE  /\ \A v \in virtuals' : \E t \in SetUp' : v \in VirtualsOf(t)'
              /\ \A ip \in addrs' : \E v \in virtuals' : v[1] = ip
  <2>1. ~ leftover
    BY <1>2, <1>12
  <2>2. ASSUME NEW v \in virtuals' PROVE \E t \in SetUp' : v \in VirtualsOf(t)'
    <3>1. v \in virtuals /\ v \notin VirtualsOf(s)
      BY <1>1, <2>2
    <3>2. PICK t \in SetUp : v \in VirtualsOf(t)
      BY <2>1, <3>1 DEF ServedInv
    <3> QED
      BY <1>8, <1>9, <3>1, <3>2
  <2>3. ASSUME NEW ip \in addrs' PROVE \E v \in virtuals' : v[1] = ip
    <3>1. ip \in addrs /\ ip \in ClusterIPs
      BY <1>1, <2>3 DEF TypeInv, KernelTyped
    <3>2. PICK v \in virtuals : v[1] = ip
      BY <2>1, <3>1 DEF ServedInv
    <3>3. ASSUME v \in gone PROVE FALSE
      <4>1. v[1] = clusterIP[s]
        BY <3>1, <3>2, <3>3, VirtualsOfPorts, PoolAssumption DEF PoolAssumption
      <4>2. addrs' = addrs \ {clusterIP[s]}
        BY <1>1, <3>3, <4>1
      <4> QED
        BY <2>3, <3>2, <4>1, <4>2
    <3> QED
      BY <1>1, <3>2, <3>3
  <2> QED
    BY <2>2, <2>3
<1>13. DOMAIN latest' = DOMAIN latest /\ leftover' = leftover /\ spoilt' = spoilt
       /\ AddedServices' = AddedServices
  BY <1>1, <1>2, <1>4
<1> QED
  BY <1>11, <1>12, <1>13 DEF ServedInv

LEMMA ServedPoll ==
    ASSUME TypeInv, ApartInv, ServedInv, NEW failing \in BOOLEAN, Poll(failing)
    PROVE  ServedInv'
<1>1. /\ UNCHANGED <<apiVars, virtuals, addrs, serviceCache, leftover, proxy>>
      /\ spoilt \subseteq spoilt'
  BY DEF Poll, Polling, ListPods, ListServices, ListDNS, kernelVars, runVars
<1>2. \A t : /\ VirtualsOf(t)' = VirtualsOf(t) /\ clusterIP'[t] = clusterIP[t]
             /\ \A i : ClusterServer(t, i)' = ClusterServer(t, i)
  BY <1>1, VirtualsKept DEF apiVars
<1>3. \A s : Served(s)' <=> Served(s)
  BY <1>1, <1>2 DEF Served
<1>4. /\ SetUp \subseteq SetUp'
      /\ DOMAIN latest' \ Uids(AddedServices') \subseteq DOMAIN latest
      /\ Uids(AddedServices) \subseteq Uids(AddedServices')
  BY SetUpPolled
<1> QED
  BY <1>1, <1>2, <1>3, <1>4 DEF ServedInv

LEMMA ServedStep ==
    ASSUME TypeInv, ApartInv, SingleInv, EndInv, ServedInv, [Next]_vars
    PROVE  ServedInv'
<1>1. CASE Cluster
  <2>1. UNCHANGED <<latest, virtuals, addrs, serviceCache, leftover, spoilt, proxy,
                    outbox, serviceUpdates, dnsUpdates, job>>
    BY <1>1 DEF Cluster, watcherVars, kernelVars, runVars, chanVars
  <2>2. \A s \in Given : clusterIP'[s] = clusterIP[s]
    BY <1>1 DEF Cluster, AddService, AddDNS, PodRuns, Delete, Given, TypeInv, ApiTyped
  <2>3. ServedUnmoved
    BY <2>1, <2>2, LinesKept, LinesTell DEF ServedUnmoved
  <2> QED
    BY <2>3, ServedQuiet
<1>2. CASE Handle
  <2>1. ASSUME NEW item, NEW lost, HandleServiceEndpointsUpdate(item, lost) PROVE ServedInv'
    <3>1. /\ Handling("ServiceEndpointsUpdate", item) /\ spoilt \subseteq spoilt'
          /\ UNCHANGED <<virtuals, addrs, serviceCache>>
      BY <2>1 DEF HandleServiceEndpointsUpdate
    <3>2. UNCHANGED <<apiVars, latest, leftover, proxy>>
      BY <3>1 DEF Handling, watcherVars, runVars
    <3>3. ServedUnmoved
      BY <3>1, <3>2, MoveTaken DEF ServedUnmoved, apiVars
    <3> QED
      BY <3>3, ServedQuiet
  <2>2. ASSUME NEW d, NEW reloads \in BOOLEAN, HandleDNSAddition(d, reloads) \/ HandleDNSDeletion(d, reloads)
        PROVE  ServedInv'
    <3>1. /\ Handling("DNSAdd", d) \/ Handling("DNSDelete", d)
          /\ spoilt \subseteq spoilt' /\ UNCHANGED <<virtuals, addrs, serviceCache>>
      BY <2>2 DEF HandleDNSAddition, HandleDNSDeletion, kernelVars
    <3>2. UNCHANGED <<apiVars, latest, leftover, proxy>>
      BY <3>1 DEF Handling, watcherVars, runVars
    <3>3. ServiceLine' = ServiceLine
      BY <3>1, DNSTaken DEF DNSOps
    <3>4. ServedUnmoved
      BY <3>1, <3>2, <3>3, LinesTell DEF ServedUnmoved, apiVars
    <3> QED
      BY <3>4, ServedQuiet
  <2> QED
    BY <1>2, <2>1, <2>2, HandleCases, ServedAddition, ServedDeletion
<1>3. CASE ProxyEnds
  BY <1>3 DEF ProxyEnds, ServedInv
<1>4. ASSUME NEW byKill \in BOOLEAN, Exit(byKill) PROVE ServedInv'
  <2>1. /\ latest' = NoServices /\ leftover' = (proxy # "ended") /\ UNCHANGED <<virtuals, addrs>>
    BY <1>4 DEF Exit, kernelVars
  <2>2. proxy = "ended" => virtuals = {} /\ addrs = {}
    BY DEF EndInv
  <2>3. DOMAIN latest' = {}
    BY <2>1 DEF NoServices
  <2> QED
    BY <2>1, <2>2, <2>3 DEF ServedInv
<1>5. CASE \/ Send \/ Receive \/ WatcherEnds \/ Interrupt
           \/ \E failing \in BOOLEAN : Start(failing)
           \/ UNCHANGED vars
  <2>1. UNCHANGED <<apiVars, latest, virtuals, addrs, serviceCache, leftover, spoilt>>
    BY <1>5 DEF Send, Receive, WatcherEnds, Interrupt, Start, vars, watcherVars, kernelVars, runVars
  <2>2. ServiceLine' = ServiceLine
    <3>1. CASE Send \/ Receive
      BY <3>1, LinesMoved
    <3>2. CASE \/ WatcherEnds \/ Interrupt
               \/ \E failing \in BOOLEAN : Start(failing)
               \/ UNCHANGED vars
      <4>1. UNCHANGED <<outbox, serviceUpdates, dnsUpdates, job>>
        BY <3>2 DEF WatcherEnds, Interrupt, Start, vars, chanVars
      <4> QED
        BY <4>1, LinesKept
    <3> QED
      BY <1>5, <3>1, <3>2
  <2>3. proxy = "ended" => proxy' = "ended"
    BY <1>5 DEF Send, Receive, WatcherEnds, Interrupt, Start, vars, EndInv
  <2>4. ServedUnmoved
    BY <2>1, <2>2, <2>3, LinesTell DEF ServedUnmoved, apiVars
  <2> QED
    BY <2>4, ServedQuiet
<1> QED
  BY <1>1, <1>2, <1>3, <1>4, <1>5, ServedPoll, Zenon DEF Next

-----------------------------------------------------------------------------
(* Names and files *)

LEMMA CrossedStays ==
    ASSUME NEW d, scenario' = scenario, spoilt \subseteq spoilt', CrossedDNS(d)
    PROVE  CrossedDNS(d)'
  BY DEF CrossedDNS

LEMMA RulesTyped ==
    ASSUME NEW d \in DNSes
    PROVE  /\ DOMAIN RulesOf[d] = 1 .. Len(RulesOf[d]) /\ Len(RulesOf[d]) \in Nat
           /\ \A i \in DOMAIN RulesOf[d] : /\ RulesOf[d][i].host \in HostsOf(d)
                                           /\ RulesOf[d][i].host \in DNSHosts
                                           /\ RulesOf[d][i].backends \subseteq Names
           /\ HostsOf(d) \subseteq DNSHosts /\ Removable(d) \subseteq HostsOf(d)
<1>1. RulesOf[d] \in Seq(Rules)
  BY RuleAssumption DEF RuleAssumption
<1>2. DOMAIN RulesOf[d] = 1 .. Len(RulesOf[d]) /\ Len(RulesOf[d]) \in Nat
      /\ \A i \in DOMAIN RulesOf[d] : RulesOf[d][i] \in Rules
  BY <1>1
<1>3. \A i \in DOMAIN RulesOf[d] : /\ RulesOf[d][i].host \in HostsOf(d)
                                   /\ RulesOf[d][i].host \in DNSHosts
                                   /\ RulesOf[d][i].backends \subseteq Names
  BY <1>2, RuleAssumption DEF RuleAssumption, HostsOf, DNSHosts
<1> QED
  BY <1>2, <1>3 DEF HostsOf, Removable

(* Of an object whose files stay, those that were removable still are.     *)
LEMMA RemovableStays ==
    ASSUME NEW d \in DNSes,
           \A i \in DOMAIN RulesOf[d] :
              nginx[RulesOf[d][i].host] # None => nginx'[RulesOf[d][i].host] # None
    PROVE  Removable(d) \subseteq Removable(d)'
<1> SUFFICES ASSUME NEW h \in Removable(d) PROVE h \in Removable(d)'
  OBVIOUS
<1>1. PICK k \in DOMAIN RulesOf[d] :
         /\ h = RulesOf[d][k].host
         /\ \A j \in 1 .. k : /\ nginx[RulesOf[d][j].host] # None
                              /\ \A l \in 1 .. j - 1 : RulesOf[d][l].host # RulesOf[d][j].host
  BY DEF Removable
<1>2. \A j \in 1 .. k : j \in DOMAIN RulesOf[d]
  BY <1>1, RulesTyped
<1>3. \A j \in 1 .. k : /\ nginx'[RulesOf[d][j].host] # None
                        /\ \A l \in 1 .. j - 1 : RulesOf[d][l].host # RulesOf[d][j].host
  BY <1>1, <1>2
<1> QED
  BY <1>1, <1>3 DEF Removable

(* addNginxConfig writes files where there were none, and deleteNginxConfig*)
(* of the same object would find all of them.                              *)
LEMMA FilesWritten ==
    ASSUME TypeInv, NEW d \in DNSes, NEW reloads \in BOOLEAN, HandleDNSAddition(d, reloads)
    PROVE  /\ \A h \in DNSHosts : nginx[h] # None => nginx'[h] # None
           /\ \A h \in DNSHosts : nginx[h] = None /\ nginx'[h] # None => h \in Removable(d)'
<1> DEFINE conf(h) == CHOOSE i \in Written(d) : RulesOf[d][i].host = h
           new(h)  == [nm \in RulesOf[d][conf(h)].backends |-> serviceCache[nm]]
<1>1. nginx' = [h \in DNSHosts |-> IF \E i \in Written(d) : RulesOf[d][i].host = h
                                   THEN new(h) ELSE nginx[h]]
  BY DEF HandleDNSAddition
<1>2. /\ \A i \in Written(d) : i \in DOMAIN RulesOf[d] /\ i \in 1 .. i
      /\ \A i \in Written(d) : \A j \in 1 .. i :
            /\ j \in DOMAIN RulesOf[d] /\ nginx[RulesOf[d][j].host] = None
            /\ \A l \in 1 .. j - 1 : RulesOf[d][l].host # RulesOf[d][j].host
            /\ \A nm \in RulesOf[d][j].backends : serviceCache[nm] # None
  <2>1. \A i \in DOMAIN RulesOf[d] : i \in 1 .. i /\ \A j \in 1 .. i : j \in DOMAIN RulesOf[d]
    BY RulesTyped
  <2> QED
    BY <2>1 DEF Written
<1>3. \A i \in Written(d) : \A j \in 1 .. i : j \in Written(d)
  <2> SUFFICES ASSUME NEW i \in Written(d), NEW j \in 1 .. i PROVE j \in Written(d)
    OBVIOUS
  <2>1. i \in Nat /\ j \in Nat /\ \A k \in 1 .. j : k \in 1 .. i
    BY <1>2, RulesTyped
  <2>2. j \in DOMAIN RulesOf[d]
    BY <1>2
  <2> QED
    BY <2>1, <2>2 DEF Written
<1>4. ASSUME NEW i \in Written(d) PROVE nginx'[RulesOf[d][i].host] # None
  <2> DEFINE h == RulesOf[d][i].host
             c == conf(h)
  <2>1. c \in Written(d)
    OBVIOUS
  <2>2. h \in DNSHosts
    BY <1>2, RulesTyped
  <2>3. nginx'[h] = [nm \in RulesOf[d][c].backends |-> serviceCache[nm]]
    BY <1>1, <2>2
  <2> HIDE DEF c
  <2>4. /\ \A nm \in RulesOf[d][c].backends : serviceCache[nm] # None
        /\ RulesOf[d][c].backends \subseteq Names
    BY <1>2, <2>1, RulesTyped
  <2>5. \A nm \in RulesOf[d][c].backends : serviceCache[nm] \in ClusterIPs
    BY <2>4 DEF TypeInv, FilesTyped
  <2>6. nginx'[h] \in [RulesOf[d][c].backends -> ClusterIPs]
    BY <2>3, <2>5
  <2> QED
    BY <2>4, <2>6, NoneAssumption DEF NoneAssumption
<1>5. ASSUME NEW h \in DNSHosts, ~ \E i \in Written(d) : RulesOf[d][i].host = h
      PROVE  nginx'[h] = nginx[h]
  BY <1>1, <1>5
<1> HIDE DEF new
<1>6. ASSUME NEW i \in Written(d) PROVE RulesOf[d][i].host \in Removable(d)'
  <2>1. i \in DOMAIN RulesOf[d]
    BY <1>2
  <2>2. \A j \in 1 .. i : /\ nginx'[RulesOf[d][j].host] # None
                          /\ \A l \in 1 .. j - 1 : RulesOf[d][l].host # RulesOf[d][j].host
    BY <1>2, <1>3, <1>4
  <2> QED
    BY <2>1, <2>2 DEF Removable
<1> QED
  BY <1>4, <1>5, <1>6

HostsOwned ==
    \A h \in HostNames : hosts[h] # None =>
       \/ \E t \in SetUp : ShortName[NameOf[t]] = h /\ clusterIP[t] = hosts[h]
       \/ \E d \in SetUpDNS : h \in HostsOf(d) /\ hosts[h] = HostIP
FilesOwned ==
    \A h \in DNSHosts : nginx[h] # None =>
       \E d \in DNSes : h \in HostsOf(d) /\ (CrossedDNS(d) \/ (d \in SetUpDNS /\ h \in Removable(d)))

(* What is set up stays so, and names and files are left alone.            *)
NamesUnmoved ==
    /\ SetUp \subseteq SetUp' /\ SetUpDNS \subseteq SetUpDNS'
    /\ UNCHANGED <<scenario, serviceCache, hosts, nginx>>
    /\ leftover' = leftover
    /\ \A s \in Given : clusterIP'[s] = clusterIP[s]
    /\ spoilt \subseteq spoilt'

LEMMA NamesQuiet ==
    ASSUME TypeInv, NamesInv, NamesUnmoved
    PROVE  NamesInv'
<1>1. SetUp \subseteq Given
  BY UidsTyped
<1>2. ASSUME NEW nm \in Names, serviceCache'[nm] # None
      PROVE  \E t \in SetUp' : NameOf[t] = nm /\ clusterIP'[t] = serviceCache'[nm]
  BY <1>1, <1>2 DEF NamesInv, NamesUnmoved
<1>3. ASSUME ~ leftover' PROVE HostsOwned' /\ FilesOwned'
  <2>1. HostsOwned /\ FilesOwned
    BY <1>3 DEF NamesInv, NamesUnmoved, HostsOwned, FilesOwned
  <2>2. HostsOwned'
    BY <1>1, <2>1 DEF HostsOwned, NamesUnmoved
  <2>3. ASSUME NEW d \in DNSes PROVE Removable(d) \subseteq Removable(d)' /\ (CrossedDNS(d) => CrossedDNS(d)')
    BY RemovableStays, CrossedStays DEF NamesUnmoved
  <2>4. FilesOwned'
    BY <2>1, <2>3 DEF FilesOwned, NamesUnmoved
  <2> QED
    BY <2>2, <2>4
<1> QED
  BY <1>2, <1>3 DEF NamesInv, HostsOwned, FilesOwned

LEMMA NamesAddition ==
    ASSUME TypeInv, ApartInv, SingleInv, NamesInv, NEW item, NEW refused, NEW lost,
           HandleServiceAddition(item, refused, lost)
    PROVE  NamesInv'
<1> DEFINE s == item.svc
           short == ShortName[NameOf[s]]
<1>1. /\ Handling("ServiceAdd", item) /\ spoilt \subseteq spoilt'
      /\ serviceCache' = [serviceCache EXCEPT ![NameOf[s]] = clusterIP[s]]
      /\ hosts' = IF hosts[short] = None THEN [hosts EXCEPT ![short] = clusterIP[s]] ELSE hosts
      /\ nginx' = nginx
  BY DEF HandleServiceAddition
<1>2. UNCHANGED <<apiVars, leftover>> /\ scenario' = scenario /\ clusterIP' = clusterIP
  BY <1>1 DEF Handling, runVars, apiVars
<1>3. s \in SetUp' /\ SetUp \subseteq SetUp' /\ SetUpDNS' = SetUpDNS
  BY <1>1, SetUpAdded
<1>4. \A nm \in Names : \/ serviceCache'[nm] = serviceCache[nm]
                        \/ nm = NameOf[s] /\ serviceCache'[nm] = clusterIP[s]
  BY <1>1 DEF TypeInv, FilesTyped
<1>5. \A h \in HostNames : \/ hosts'[h] = hosts[h]
                           \/ h = short /\ hosts'[h] = clusterIP[s]
  BY <1>1 DEF TypeInv, FilesTyped
<1>6. ASSUME NEW nm \in Names, serviceCache'[nm] # None
      PROVE  \E t \in SetUp' : NameOf[t] = nm /\ clusterIP'[t] = serviceCache'[nm]
  BY <1>2, <1>3, <1>4, <1>6 DEF NamesInv
<1>7. ASSUME ~ leftover' PROVE HostsOwned' /\ FilesOwned'
  <2>1. HostsOwned /\ FilesOwned
    BY <1>2, <1>7 DEF NamesInv, HostsOwned, FilesOwned
  <2>2. HostsOwned'
    BY <1>2, <1>3, <1>5, <2>1 DEF HostsOwned
  <2>3. ASSUME NEW d \in DNSes PROVE Removable(d) \subseteq Removable(d)' /\ (CrossedDNS(d) => CrossedDNS(d)')
    BY <1>1, <1>2, RemovableStays, CrossedStays
  <2>4. FilesOwned'
    BY <1>1, <1>3, <2>1, <2>3 DEF FilesOwned
  <2> QED
    BY <2>2, <2>4
<1> QED
  BY <1>6, <1>7 DEF NamesInv, HostsOwned, FilesOwned

LEMMA NamesDeletion ==
    ASSUME TypeInv, ApartInv, SingleInv, NamesInv, NEW item, HandleServiceDeletion(item)
    PROVE  NamesInv'
<1> DEFINE s == item.svc
           short == ShortName[NameOf[s]]
<1>1. /\ Handling("ServiceDelete", item) /\ spoilt' = spoilt
      /\ serviceCache' = [serviceCache EXCEPT ![NameOf[s]] = None]
      /\ hosts' = IF hosts[short] = clusterIP[s] THEN [hosts EXCEPT ![short] = None] ELSE hosts
      /\ nginx' = nginx
  BY DEF HandleServiceDeletion
<1>2. UNCHANGED <<apiVars, leftover>> /\ scenario' = scenario /\ clusterIP' = clusterIP
  BY <1>1 DEF Handling, runVars, apiVars
<1>3. (\A t \in SetUp : t = s \/ t \in SetUp') /\ SetUpDNS' = SetUpDNS
  BY <1>1, SetUpDeleted
<1>4. \A nm \in Names : serviceCache'[nm] # None => nm # NameOf[s] /\ serviceCache'[nm] = serviceCache[nm]
  BY <1>1 DEF TypeInv, FilesTyped
<1>5. \A h \in HostNames : hosts'[h] # None =>
         hosts'[h] = hosts[h] /\ (h = short => hosts[h] # clusterIP[s])
  BY <1>1 DEF TypeInv, FilesTyped
<1>6. ASSUME NEW nm \in Names, serviceCache'[nm] # None
      PROVE  \E t \in SetUp' : NameOf[t] = nm /\ clusterIP'[t] = serviceCache'[nm]
  BY <1>2, <1>3, <1>4, <1>6 DEF NamesInv
<1>7. ASSUME ~ leftover' PROVE HostsOwned' /\ FilesOwned'
  <2>1. HostsOwned /\ FilesOwned
    BY <1>2, <1>7 DEF NamesInv, HostsOwned, FilesOwned
  <2>2. ASSUME NEW h \in HostNames, hosts'[h] # None
        PROVE  \/ \E t \in SetUp' : ShortName[NameOf[t]] = h /\ clusterIP'[t] = hosts'[h]
               \/ \E d \in SetUpDNS' : h \in HostsOf(d) /\ hosts'[h] = HostIP
    <3>1. hosts'[h] = hosts[h] /\ hosts[h] # None /\ (h = short => hosts[h] # clusterIP[s])
      BY <1>5, <2>2
    <3>2. \/ \E t \in SetUp : ShortName[NameOf[t]] = h /\ clusterIP[t] = hosts[h]
          \/ \E d \in SetUpDNS : h \in HostsOf(d) /\ hosts[h] = HostIP
      BY <2>1, <3>1 DEF HostsOwned
    <3> QED
      BY <1>2, <1>3, <3>1, <3>2
  <2>3. HostsOwned'
    BY <2>2 DEF HostsOwned
  <2>4. ASSUME NEW d \in DNSes PROVE Removable(d) \subseteq Removable(d)' /\ (CrossedDNS(d) => CrossedDNS(d)')
    BY <1>1, <1>2, RemovableStays, CrossedStays
  <2>5. FilesOwned'
    BY <1>1, <1>3, <2>1, <2>4 DEF FilesOwned
  <2> QED
    BY <2>3, <2>5
<1> QED
  BY <1>6, <1>7 DEF NamesInv, HostsOwned, FilesOwned

LEMMA NamesDNSAddition ==
    ASSUME TypeInv, ApartInv, SingleInv, NamesInv, NEW d, NEW reloads \in BOOLEAN,
           HandleDNSAddition(d, reloads)
    PROVE  NamesInv'
<1>1. /\ Handling("DNSAdd", d) /\ spoilt \subseteq spoilt' /\ serviceCache' = serviceCache
      /\ \/ hosts' = hosts
         \/ hosts' = [h \in HostNames |->
                         IF h \in HostsOf(d) /\ hosts[h] = None THEN HostIP ELSE hosts[h]]
  BY DEF HandleDNSAddition
<1>2. UNCHANGED <<apiVars, leftover>> /\ scenario' = scenario /\ clusterIP' = clusterIP
  BY <1>1 DEF Handling, runVars, apiVars
<1>3. d \in SetUpDNS' /\ SetUpDNS \subseteq SetUpDNS' /\ SetUp' = SetUp
  BY <1>1, SetUpDNSAdded
<1>4. d \in DNSes
  BY <1>1, HandlingTyped DEF DNSOps, Announceable
<1>5. \A h \in HostNames : hosts'[h] = hosts[h] \/ (h \in HostsOf(d) /\ hosts'[h] = HostIP)
  BY <1>1
<1>6. ASSUME NEW nm \in Names, serviceCache'[nm] # None
      PROVE  \E t \in SetUp' : NameOf[t] = nm /\ clusterIP'[t] = serviceCache'[nm]
  BY <1>1, <1>2, <1>3, <1>6 DEF NamesInv
<1>7. ASSUME ~ leftover' PROVE HostsOwned' /\ FilesOwned'
  <2>1. HostsOwned /\ FilesOwned
    BY <1>2, <1>7 DEF NamesInv, HostsOwned, FilesOwned
  <2>2. HostsOwned'
    BY <1>2, <1>3, <1>5, <2>1 DEF HostsOwned
  <2>3. /\ \A h \in DNSHosts : nginx[h] # None => nginx'[h] # None
        /\ \A h \in DNSHosts : nginx[h] = None /\ nginx'[h] # None => h \in Removable(d)'
    BY <1>4, FilesWritten
  <2>4. ASSUME NEW e \in DNSes PROVE Removable(e) \subseteq Removable(e)' /\ (CrossedDNS(e) => CrossedDNS(e)')
    <3>1. \A i \in DOMAIN RulesOf[e] :
             nginx[RulesOf[e][i].host] # None => nginx'[RulesOf[e][i].host] # None
      BY <2>3, RulesTyped
    <3> QED
      BY <1>1, <1>2, <3>1, RemovableStays, CrossedStays
  <2>5. Removable(d)' \subseteq HostsOf(d)
    BY DEF Removable, HostsOf
  <2>6. FilesOwned'
    <3> SUFFICES ASSUME NEW h \in DNSHosts, nginx'[h] # None
                 PROVE  \E e \in DNSes : h \in HostsOf(e) /\
                           (CrossedDNS(e)' \/ (e \in SetUpDNS' /\ h \in Removable(e)'))
      BY DEF FilesOwned, HostsOf
    <3>1. CASE nginx[h] = None
      BY <1>3, <1>4, <2>3, <2>5, <3>1
    <3>2. CASE nginx[h] # None
      BY <1>3, <2>1, <2>4, <3>2 DEF FilesOwned
    <3> QED
      BY <3>1, <3>2
  <2> QED
    BY <2>2, <2>6
<1> QED
  BY <1>6, <1>7 DEF NamesInv, HostsOwned, FilesOwned

LEMMA NamesDNSDeletion ==
    ASSUME TypeInv, ApartInv, SingleInv, NamesInv, NEW d, NEW reloads \in BOOLEAN,
           HandleDNSDeletion(d, reloads)
    PROVE  NamesInv'
<1>1. /\ Handling("DNSDelete", d) /\ spoilt' = spoilt /\ serviceCache' = serviceCache
      /\ hosts' = [h \in HostNames |-> IF h \in HostsOf(d) THEN None ELSE hosts[h]]
      /\ nginx' = [h \in DNSHosts |-> IF h \in Removable(d) THEN None ELSE nginx[h]]
  BY DEF HandleDNSDeletion
<1>2. UNCHANGED <<apiVars, leftover>> /\ scenario' = scenario /\ clusterIP' = clusterIP
  BY <1>1 DEF Handling, runVars, apiVars
<1>3. /\ \A e \in SetUpDNS : e = d \/ e \in SetUpDNS'
      /\ \A e \in SetUpDNS : e # d /\ <<e, d>> \in DNSClash => e \in spoilt
      /\ SetUp' = SetUp
  BY <1>1, SetUpDNSDeleted
<1>4. d \in DNSes /\ d \in scenario.objects
  BY <1>1, HandlingTyped DEF DNSOps, Announceable
<1>5. ASSUME NEW nm \in Names, serviceCache'[nm] # None
      PROVE  \E t \in SetUp' : NameOf[t] = nm /\ clusterIP'[t] = serviceCache'[nm]
  BY <1>1, <1>2, <1>3, <1>5 DEF NamesInv
<1>6. ASSUME ~ leftover' PROVE HostsOwned' /\ FilesOwned'
  <2>1. HostsOwned /\ FilesOwned
    BY <1>2, <1>6 DEF NamesInv, HostsOwned, FilesOwned
  <2>2. \A h \in HostNames : hosts'[h] # None => hosts'[h] = hosts[h] /\ h \notin HostsOf(d)
    BY <1>1
  <2>3. HostsOwned'
    BY <1>2, <1>3, <2>1, <2>2 DEF HostsOwned
  <2>4. ASSUME NEW h \in DNSHosts, nginx'[h] # None
        PROVE  \E e \in DNSes : h \in HostsOf(e) /\
                  (CrossedDNS(e)' \/ (e \in SetUpDNS' /\ h \in Removable(e)'))
    <3>1. nginx[h] # None /\ h \notin Removable(d)
      BY <1>1, <2>4
    <3>2. PICK e \in DNSes : h \in HostsOf(e) /\ (CrossedDNS(e) \/ (e \in SetUpDNS /\ h \in Removable(e)))
      BY <2>1, <3>1 DEF FilesOwned
    <3>3. CASE CrossedDNS(e)
      BY <1>1, <1>2, <3>2, <3>3, CrossedStays
    <3>4. CASE e \in SetUpDNS /\ h \in Removable(e)
      <4>1. e # d /\ e \in SetUpDNS'
        BY <1>3, <3>1, <3>4
      <4>2. CASE HostsOf(e) \intersect HostsOf(d) = {}
        <5>1. \A i \in DOMAIN RulesOf[e] : nginx'[RulesOf[e][i].host] = nginx[RulesOf[e][i].host]
          BY <1>1, <1>4, <4>2, RulesTyped
        <5> QED
          BY <3>2, <3>4, <4>1, <5>1, RemovableStays
      <4>3. CASE HostsOf(e) \intersect HostsOf(d) # {}
        <5>1. e \in spoilt
          BY <1>3, <1>4, <3>4, <4>1, <4>3 DEF DNSClash
        <5>2. CrossedDNS(e)
          BY <1>4, <4>1, <4>3, <5>1 DEF CrossedDNS
        <5> QED
          BY <1>1, <1>2, <3>2, <5>2, CrossedStays
      <4> QED
        BY <4>2, <4>3
    <3> QED
      BY <3>2, <3>3, <3>4
  <2>5. FilesOwned'
    BY <2>4 DEF FilesOwned, HostsOf
  <2> QED
    BY <2>3, <2>5
<1> QED
  BY <1>5, <1>6 DEF NamesInv, HostsOwned, FilesOwned

LEMMA NamesStep ==
    ASSUME TypeInv, ApartInv, SingleInv, EndInv, NamesInv, [Next]_vars
    PROVE  NamesInv'
<1>1. CASE Cluster
  <2>1. UNCHANGED <<latest, latestDNS, serviceCache, hosts, nginx, leftover, spoilt,
                    outbox, serviceUpdates, dnsUpdates, job>>
    BY <1>1 DEF Cluster, watcherVars, fileVars, runVars, chanVars
  <2>2. scenario' = scenario /\ \A s \in Given : clusterIP'[s] = clusterIP[s]
    BY <1>1 DEF Cluster, AddService, AddDNS, PodRuns, Delete, Given, TypeInv, ApiTyped
  <2>3. NamesUnmoved
    BY <2>1, <2>2, LinesKept, LinesTell DEF NamesUnmoved, SetUp, SetUpDNS
  <2> QED
    BY <2>3, NamesQuiet
<1>2. ASSUME NEW failing \in BOOLEAN, Poll(failing) PROVE NamesInv'
  <2>1. UNCHANGED <<apiVars, serviceCache, hosts, nginx, leftover>> /\ spoilt \subseteq spoilt'
    BY <1>2 DEF Poll, Polling, ListPods, ListServices, ListDNS, fileVars, runVars
  <2>2. NamesUnmoved
    BY <1>2, <2>1, SetUpPolled DEF NamesUnmoved, apiVars
  <2> QED
    BY <2>2, NamesQuiet
<1>3. CASE Handle
  <2>1. ASSUME NEW item, NEW lost, HandleServiceEndpointsUpdate(item, lost) PROVE NamesInv'
    <3>1. /\ Handling("ServiceEndpointsUpdate", item) /\ spoilt \subseteq spoilt'
          /\ UNCHANGED <<serviceCache, hosts, nginx>>
      BY <2>1 DEF HandleServiceEndpointsUpdate, fileVars
    <3>2. UNCHANGED <<apiVars, latest, latestDNS, leftover>>
      BY <3>1 DEF Handling, watcherVars, runVars
    <3>3. NamesUnmoved
      BY <3>1, <3>2, MoveTaken, LinesTell DEF NamesUnmoved, apiVars, SetUp, SetUpDNS
    <3> QED
      BY <3>3, NamesQuiet
  <2> QED
    BY <1>3, <2>1, HandleCases, NamesAddition, NamesDeletion, NamesDNSAddition, NamesDNSDeletion
<1>4. CASE ProxyEnds
  <2>1. /\ UNCHANGED <<clusterIP, latest, latestDNS, serviceCache, outbox, serviceUpdates, dnsUpdates, job>>
        /\ \A h \in HostNames : hosts'[h] = None
        /\ \A h \in DNSHosts : nginx'[h] = None
    BY <1>4 DEF ProxyEnds, watcherVars, chanVars, apiVars
  <2>2. SetUp' = SetUp
    BY <2>1, LinesKept, LinesTell DEF SetUp
  <2> QED
    BY <2>1, <2>2 DEF NamesInv
<1>5. ASSUME NEW byKill \in BOOLEAN, Exit(byKill) PROVE NamesInv'
  <2>1. /\ serviceCache' = [nm \in Names |-> None] /\ leftover' = (proxy # "ended")
        /\ UNCHANGED <<hosts, nginx>>
    BY <1>5 DEF Exit, fileVars
  <2> QED
    BY <2>1 DEF NamesInv, EndInv
<1>6. CASE \/ Send \/ Receive \/ WatcherEnds \/ Interrupt
           \/ \E failing \in BOOLEAN : Start(failing)
           \/ UNCHANGED vars
  <2>1. UNCHANGED <<apiVars, latest, latestDNS, serviceCache, hosts, nginx, leftover, spoilt>>
    BY <1>6 DEF Send, Receive, WatcherEnds, Interrupt, Start, vars, watcherVars, fileVars, runVars
  <2>2. ServiceLine' = ServiceLine /\ DNSLine' = DNSLine
    <3>1. CASE Send \/ Receive
      BY <3>1, LinesMoved
    <3>2. CASE \/ WatcherEnds \/ Interrupt
               \/ \E failing \in BOOLEAN : Start(failing)
               \/ UNCHANGED vars
      <4>1. UNCHANGED <<outbox, serviceUpdates, dnsUpdates, job>>
        BY <3>2 DEF WatcherEnds, Interrupt, Start, vars, chanVars
      <4> QED
        BY <4>1, LinesKept
    <3> QED
      BY <1>6, <3>1, <3>2
  <2>3. NamesUnmoved
    BY <2>1, <2>2, LinesTell DEF NamesUnmoved, apiVars, SetUp, SetUpDNS
  <2> QED
    BY <2>3, NamesQuiet
<1> QED
  BY <1>1, <1>2, <1>3, <1>4, <1>5, <1>6, Zenon DEF Next

-----------------------------------------------------------------------------
(* The endpoints on their way *)

(* P2 is P moved k updates ahead, and X behind it with rank r.             *)
Extends(P, P2, k, r, X) ==
    /\ k \in Nat /\ r \in Nat /\ (X # {} => r < k)
    /\ \A p \in P : p[1] \in Nat
    /\ \A p \in P2 : (\E q \in P : p[1] = q[1] + k /\ p[2] = q[2]) \/ (p[1] = r /\ p[2] \in X)
    /\ \A q \in P : \E p \in P2 : p[1] = q[1] + k /\ p[2] = q[2]
    /\ \A x \in X : \E p \in P2 : p[1] = r /\ p[2] = x

LEMMA ExtendsWhenAhead ==
    ASSUME NEW P, NEW P2, NEW k \in Nat, NEW r \in Nat, NEW X, X # {} => r < k,
           \A p \in P : p[1] \in Nat, P2 = Ahead(P, k) \union ({r} \X X)
    PROVE  Extends(P, P2, k, r, X)
<1>1. ASSUME NEW p \in P2
      PROVE  (\E q \in P : p[1] = q[1] + k /\ p[2] = q[2]) \/ (p[1] = r /\ p[2] \in X)
  <2>1. CASE p \in {r} \X X
    BY <2>1
  <2>2. CASE p \in Ahead(P, k)
    <3>1. PICK q \in P : p = <<q[1] + k, q[2]>>
      BY <2>2 DEF Ahead
    <3> QED
      BY <3>1
  <2> QED
    BY <2>1, <2>2
<1>2. ASSUME NEW q \in P PROVE \E p \in P2 : p[1] = q[1] + k /\ p[2] = q[2]
  <2>1. <<q[1] + k, q[2]>> \in P2
    BY DEF Ahead
  <2> QED
    BY <2>1
<1>3. ASSUME NEW x \in X PROVE \E p \in P2 : p[1] = r /\ p[2] = x
  <2>1. <<r, x>> \in P2
    OBVIOUS
  <2> QED
    BY <2>1
<1> QED
  BY <1>1, <1>2, <1>3 DEF Extends

LEMMA ExtendsUids ==
    ASSUME NEW P, NEW P2, NEW k, NEW r, NEW X, Extends(P, P2, k, r, X)
    PROVE  Uids(P2) = Uids(P) \union X
<1>1. \A x \in Uids(P2) : x \in Uids(P) \union X
  BY DEF Extends, Uids
<1>2. \A x \in Uids(P) \union X : x \in Uids(P2)
  BY DEF Extends, Uids
<1> QED
  BY <1>1, <1>2

(* calculateDiff: what leaves and does not come back has gone, what was    *)
(* not there comes, and what comes is there.                               *)
LEMMA DifferencesTell ==
    ASSUME NEW old, NEW new
    PROVE  /\ \A x \in Differences(old, new) :
                 /\ x.svc \in DOMAIN old \intersect DOMAIN new
                 /\ x.adds \subseteq new[x.svc]
                 /\ x.dels \intersect new[x.svc] \subseteq x.adds
           /\ \A s \in DOMAIN old \intersect DOMAIN new :
                 /\ \A e \in old[s] \ new[s] : \E x \in Differences(old, new) : x.svc = s /\ e \in x.dels
                 /\ \A e \in new[s] \ old[s] : \E x \in Differences(old, new) : x.svc = s /\ e \in x.adds
<1>1. ASSUME NEW x \in Differences(old, new)
      PROVE  /\ x.svc \in DOMAIN old \intersect DOMAIN new
             /\ x.adds \subseteq new[x.svc]
             /\ x.dels \intersect new[x.svc] \subseteq x.adds
  <2>1. PICK s \in DOMAIN old \intersect DOMAIN new :
           x = Change(s, Changed(old[s], new[s]), Changed(new[s], old[s]))
    BY DEF Differences
  <2>2. x.svc = s /\ x.dels = Changed(old[s], new[s]) /\ x.adds = Changed(new[s], old[s])
    BY <2>1 DEF Change
  <2> QED
    BY <2>2 DEF Changed
<1>2. ASSUME NEW s \in DOMAIN old \intersect DOMAIN new, old[s] # new[s]
      PROVE  \E x \in Differences(old, new) :
                x.svc = s /\ x.dels = Changed(old[s], new[s]) /\ x.adds = Changed(new[s], old[s])
  <2> DEFINE x == Change(s, Changed(old[s], new[s]), Changed(new[s], old[s]))
  <2>1. x \in Differences(old, new)
    BY <1>2 DEF Differences
  <2>2. x.svc = s /\ x.dels = Changed(old[s], new[s]) /\ x.adds = Changed(new[s], old[s])
    BY DEF Change
  <2> HIDE DEF x
  <2> QED
    BY <2>1, <2>2
<1>3. ASSUME NEW from, NEW to, NEW e \in from \ to PROVE e \in Changed(from, to)
  <2>1. e \in Of(from, e[1]) /\ e \notin Of(to, e[1])
    BY DEF Of
  <2> QED
    BY <2>1 DEF Changed
<1>4. ASSUME NEW s \in DOMAIN old \intersect DOMAIN new, NEW e \in old[s] \ new[s]
      PROVE  \E x \in Differences(old, new) : x.svc = s /\ e \in x.dels
  BY <1>2, <1>3
<1>5. ASSUME NEW s \in DOMAIN old \intersect DOMAIN new, NEW e \in new[s] \ old[s]
      PROVE  \E x \in Differences(old, new) : x.svc = s /\ e \in x.adds
  BY <1>2, <1>3
<1> QED
  BY <1>1, <1>4, <1>5

LEMMA TracedPolled ==
    ASSUME NEW N, NEW M, NEW A, NEW D, NEW N2, NEW M2, NEW A2, NEW D2, NEW old, NEW new,
           NEW k, NEW a, NEW d, NEW m, NEW X, NEW Z,
           Traced(N, M, A, D, old),
           Extends(N, N2, k, a, X), Extends(M, M2, k, m, Z),
           Extends(A, A2, k, a, DOMAIN new \ DOMAIN old),
           Extends(D, D2, k, d, DOMAIN old \ DOMAIN new),
           \A x \in X : x.svc \in DOMAIN new \ DOMAIN old /\ x.adds = new[x.svc],
           Z = Differences(old, new),
           \A q \in D : q[2] \notin DOMAIN new \ DOMAIN old
    PROVE  Traced(N2, M2, A2, D2, new)
<1> DEFINE come == DOMAIN new \ DOMAIN old
           went == DOMAIN old \ DOMAIN new
<1>1. /\ \A x \in Z : /\ x.svc \in DOMAIN old /\ x.svc \in DOMAIN new
                      /\ x.adds \subseteq new[x.svc] /\ x.dels \intersect new[x.svc] \subseteq x.adds
      /\ \A s \in DOMAIN old \intersect DOMAIN new :
            /\ \A e \in old[s] \ new[s] : \E x \in Z : x.svc = s /\ e \in x.dels
            /\ \A e \in new[s] \ old[s] : \E x \in Z : x.svc = s /\ e \in x.adds
  BY DifferencesTell
<1>2. Uids(D2) = Uids(D) \union went
  BY ExtendsUids
<1>3. /\ k \in Nat /\ a \in Nat /\ d \in Nat /\ m \in Nat
      /\ (Z # {} => m < k) /\ (went # {} => d < k)
      /\ \A p \in N \union M \union A \union D : p[1] \in Nat
  BY DEF Extends
<1>4. /\ \A p \in N2 : (\E q \in N : p[1] = q[1] + k /\ p[2] = q[2]) \/ (p[1] = a /\ p[2] \in X)
      /\ \A p \in M2 : (\E q \in M : p[1] = q[1] + k /\ p[2] = q[2]) \/ (p[1] = m /\ p[2] \in Z)
      /\ \A q \in M : \E p \in M2 : p[1] = q[1] + k /\ p[2] = q[2]
      /\ \A x \in Z : \E p \in M2 : p[1] = m /\ p[2] = x
      /\ \A p \in A2 : (\E q \in A : p[1] = q[1] + k /\ p[2] = q[2]) \/ (p[1] = a /\ p[2] \in come)
      /\ \A q \in D : \E p \in D2 : p[1] = q[1] + k /\ p[2] = q[2]
      /\ \A x \in went : \E p \in D2 : p[1] = d /\ p[2] = x
  BY DEF Extends
<1>5. \A i, j \in Nat : /\ i < j => i + k < j + k
                        /\ m < k => m < i + k
                        /\ d < k => d < i + k
  BY <1>3
<1>6. \A s \in come : s \notin Uids(D) /\ s \notin DOMAIN old
  BY DEF Uids
<1> HIDE DEF come, went
<1>7. ASSUME NEW p \in M2
      PROVE  p[2].svc \in DOMAIN new \/ \E q \in D2 : q[2] = p[2].svc /\ q[1] < p[1]
  <2>1. CASE p[1] = m /\ p[2] \in Z
    BY <1>1, <2>1
  <2>2. ASSUME NEW o \in M, p[1] = o[1] + k, p[2] = o[2]
        PROVE  p[2].svc \in DOMAIN new \/ \E q \in D2 : q[2] = p[2].svc /\ q[1] < p[1]
    <3>1. CASE \E q \in D : q[2] = o[2].svc /\ q[1] < o[1]
      <4>1. PICK q \in D : q[2] = o[2].svc /\ q[1] < o[1]
        BY <3>1
      <4>2. PICK q2 \in D2 : q2[1] = q[1] + k /\ q2[2] = q[2]
        BY <1>4
      <4>3. q[1] \in Nat /\ o[1] \in Nat
        BY <1>3
      <4>4. q2[1] < p[1]
        BY <1>5, <2>2, <4>1, <4>2, <4>3
      <4> QED
        BY <2>2, <4>1, <4>2, <4>4
    <3>2. CASE o[2].svc \in DOMAIN old \ DOMAIN new
      <4>1. PICK q2 \in D2 : q2[1] = d /\ q2[2] = o[2].svc
        BY <1>4, <3>2 DEF went
      <4>2. d < k /\ o[1] \in Nat
        BY <1>3, <3>2 DEF went
      <4>3. q2[1] < p[1]
        BY <1>5, <2>2, <4>1, <4>2
      <4> QED
        BY <2>2, <4>1, <4>3
    <3> QED
      BY <2>2, <3>1, <3>2 DEF Traced
  <2> QED
    BY <1>4, <2>1, <2>2
<1>8. ASSUME NEW p \in M2, NEW q \in A2, q[2] = p[2].svc PROVE p[1] < q[1]
  <2>1. p[2].svc \notin come
    <3>1. CASE p[2] \in Z
      BY <1>1, <1>6, <3>1
    <3>2. ASSUME NEW o \in M, p[2] = o[2] PROVE p[2].svc \notin come
      <4>1. o[2].svc \in DOMAIN old \/ o[2].svc \in Uids(D)
        BY DEF Traced, Uids
      <4> QED
        BY <1>6, <3>2, <4>1
    <3> QED
      BY <1>4, <3>1, <3>2
  <2>2. PICK b \in A : q[1] = b[1] + k /\ q[2] = b[2]
    BY <1>4, <1>8, <2>1
  <2>3. b[1] \in Nat
    BY <1>3
  <2>4. CASE p[1] = m /\ p[2] \in Z
    BY <1>3, <1>5, <2>2, <2>3, <2>4
  <2>5. ASSUME NEW o \in M, p[1] = o[1] + k, p[2] = o[2] PROVE p[1] < q[1]
    <3>1. o[1] < b[1] /\ o[1] \in Nat
      BY <1>3, <1>8, <2>2, <2>5 DEF Traced
    <3> QED
      BY <1>5, <2>2, <2>3, <2>5, <3>1
  <2> QED
    BY <1>4, <2>4, <2>5
<1>9. ASSUME NEW p \in N2 \union M2, NEW e \in p[2].adds
      PROVE  \/ p[2].svc \in Uids(D2)
             \/ p[2].svc \in DOMAIN new /\ e \in new[p[2].svc]
             \/ \E q \in M2 : q[2].svc = p[2].svc /\ e \in q[2].dels /\ q[1] < p[1]
  <2>1. CASE p[2] \in X \/ p[2] \in Z
    BY <1>1, <1>9, <2>1
  <2>2. ASSUME NEW o \in N \union M, p[1] = o[1] + k, p[2] = o[2]
        PROVE  \/ p[2].svc \in Uids(D2)
               \/ p[2].svc \in DOMAIN new /\ e \in new[p[2].svc]
               \/ \E q \in M2 : q[2].svc = p[2].svc /\ e \in q[2].dels /\ q[1] < p[1]
    <3>1. CASE o[2].svc \in Uids(D)
      BY <1>2, <2>2, <3>1
    <3>2. CASE \E q \in M : q[2].svc = o[2].svc /\ e \in q[2].dels /\ q[1] < o[1]
      <4>1. PICK q \in M : q[2].svc = o[2].svc /\ e \in q[2].dels /\ q[1] < o[1]
        BY <3>2
      <4>2. PICK q2 \in M2 : q2[1] = q[1] + k /\ q2[2] = q[2]
        BY <1>4
      <4>3. q[1] \in Nat /\ o[1] \in Nat
        BY <1>3
      <4>4. q2[1] < p[1]
        BY <1>5, <2>2, <4>1, <4>2, <4>3
      <4> QED
        BY <2>2, <4>1, <4>2, <4>4
    <3>3. CASE o[2].svc \in DOMAIN old /\ e \in old[o[2].svc]
      <4>1. CASE o[2].svc \in DOMAIN old \ DOMAIN new
        BY <1>2, <2>2, <4>1 DEF went
      <4>2. CASE o[2].svc \in DOMAIN new /\ e \notin new[o[2].svc]
        <5>1. PICK x \in Z : x.svc = o[2].svc /\ e \in x.dels
          BY <1>1, <3>3, <4>2
        <5>2. PICK q2 \in M2 : q2[1] = m /\ q2[2] = x
          BY <1>4
        <5>3. m < k /\ o[1] \in Nat
          BY <1>3
        <5>4. q2[1] < p[1]
          BY <1>5, <2>2, <5>2, <5>3
        <5> QED
          BY <2>2, <5>1, <5>2, <5>4
      <4> QED
        BY <2>2, <3>3, <4>1, <4>2
    <3> QED
      BY <1>9, <2>2, <3>1, <3>2, <3>3 DEF Traced
  <2> QED
    BY <1>4, <2>1, <2>2
<1>10. ASSUME NEW p \in M2, NEW e \in p[2].dels \ p[2].adds,
              p[2].svc \in DOMAIN new, e \in new[p[2].svc]
       PROVE  \E q \in M2 : q[2].svc = p[2].svc /\ e \in q[2].adds /\ q[1] < p[1]
  <2>1. CASE p[2] \in Z
    BY <1>1, <1>10, <2>1
  <2>2. ASSUME NEW o \in M, p[1] = o[1] + k, p[2] = o[2]
        PROVE  \E q \in M2 : q[2].svc = p[2].svc /\ e \in q[2].adds /\ q[1] < p[1]
    <3>1. o[2].svc \in DOMAIN old
      <4>1. o[2].svc \in DOMAIN old \/ o[2].svc \in Uids(D)
        BY DEF Traced, Uids
      <4> QED
        BY <1>6, <1>10, <2>2, <4>1 DEF come
    <3>2. CASE e \in old[o[2].svc]
      <4>1. PICK q \in M : q[2].svc = o[2].svc /\ e \in q[2].adds /\ q[1] < o[1]
        BY <1>10, <2>2, <3>1, <3>2 DEF Traced
      <4>2. PICK q2 \in M2 : q2[1] = q[1] + k /\ q2[2] = q[2]
        BY <1>4
      <4>3. q[1] \in Nat /\ o[1] \in Nat
        BY <1>3
      <4>4. q2[1] < p[1]
        BY <1>5, <2>2, <4>1, <4>2, <4>3
      <4> QED
        BY <2>2, <4>1, <4>2, <4>4
    <3>3. CASE e \notin old[o[2].svc]
      <4>1. PICK x \in Z : x.svc = o[2].svc /\ e \in x.adds
        BY <1>1, <1>10, <2>2, <3>1, <3>3
      <4>2. PICK q2 \in M2 : q2[1] = m /\ q2[2] = x
        BY <1>4
      <4>3. m < k /\ o[1] \in Nat
        BY <1>3
      <4>4. q2[1] < p[1]
        BY <1>5, <2>2, <4>2, <4>3
      <4> QED
        BY <2>2, <4>1, <4>2, <4>4
    <3> QED
      BY <3>2, <3>3
  <2> QED
    BY <1>4, <2>1, <2>2
<1> QED
  BY <1>7, <1>8, <1>9, <1>10 DEF Traced

(* The update whose rank is the highest is at hand.                        *)
Topmost(op, item, n) ==
    /\ n \in Nat /\ <<n, item>> \in Items(ServiceLine, op)
    /\ Items(ServiceLine', op) = Items(ServiceLine, op) \ {<<n, item>>}
    /\ \A p \in Items(ServiceLine, op) : p[1] \in Nat /\ p[1] <= n
    /\ \A kind \in ServiceOps \ {op} :
          /\ Items(ServiceLine', kind) = Items(ServiceLine, kind)
          /\ \A p \in Items(ServiceLine, kind) : p[1] \in Nat /\ p[1] < n

LEMMA TopmostTaken ==
    ASSUME TypeInv, NEW op \in ServiceOps, NEW item, Handling(op, item)
    PROVE  \E n : Topmost(op, item, n)
<1> DEFINE n == Len(ServiceLine) - 1
           taken == <<n, item>>
<1>1. Handled(ServiceLine, ServiceLine', op, item)
  BY LinesHandled
<1>2. /\ taken \in Items(ServiceLine, op) /\ taken[1] = n
      /\ \A kind \in ServiceOps :
            /\ Items(ServiceLine', kind) = Items(ServiceLine, kind) \ {taken}
            /\ \A p \in Items(ServiceLine, kind) :
                  p[1] \in Nat /\ p[1] <= n /\ (p[1] = n => kind = op)
  BY <1>1 DEF Handled
<1>3. n \in Nat
  BY <1>2
<1> HIDE DEF n
<1>4. ASSUME NEW kind \in ServiceOps \ {op}
      PROVE  /\ Items(ServiceLine', kind) = Items(ServiceLine, kind)
             /\ \A p \in Items(ServiceLine, kind) : p[1] \in Nat /\ p[1] < n
  <2>1. \A p \in Items(ServiceLine, kind) : p[1] \in Nat /\ p[1] <= n /\ p[1] # n
    BY <1>2
  <2>2. taken \notin Items(ServiceLine, kind)
    BY <1>2, <2>1
  <2> QED
    BY <1>2, <1>3, <2>1, <2>2
<1> QED
  BY <1>2, <1>3, <1>4 DEF Topmost

(* What was on its way is, but for the entry handled.                      *)
LEMMA TracedAdded ==
    ASSUME NEW N, NEW M, NEW A, NEW D, NEW endpoints, Traced(N, M, A, D, endpoints),
           NEW N2 \in SUBSET N, NEW A2 \in SUBSET A
    PROVE  Traced(N2, M, A2, D, endpoints)
  BY DEF Traced

LEMMA TracedDeleted ==
    ASSUME NEW N, NEW M, NEW A, NEW D, NEW endpoints, Traced(N, M, A, D, endpoints),
           NEW d \in D, d[1] \in Nat, \A p \in N \union M : p[1] \in Nat /\ p[1] < d[1],
           \A q \in D : q[1] \in Nat /\ q[2] \notin DOMAIN endpoints,
           \A p \in N : \/ p[2].svc \in DOMAIN endpoints
                        \/ \E q \in D : q[2] = p[2].svc /\ q[1] < p[1]
    PROVE  Traced(N, M, A, D \ {d}, endpoints)
<1> DEFINE E == D \ {d}
<1>1. ASSUME NEW p \in N \union M
      PROVE  p[2].svc \in DOMAIN endpoints \/ \E q \in E : q[2] = p[2].svc /\ q[1] < p[1]
  <2>1. p[2].svc \in DOMAIN endpoints \/ \E q \in D : q[2] = p[2].svc /\ q[1] < p[1]
    BY DEF Traced
  <2>2. ASSUME NEW q \in D, q[1] < p[1] PROVE q \in E
    <3>1. p[1] < d[1] /\ p[1] \in Nat /\ q[1] \in Nat
      OBVIOUS
    <3>2. q # d
      BY <2>2, <3>1
    <3> QED
      BY <3>2
  <2> QED
    BY <2>1, <2>2
<1>2. ASSUME NEW p \in N \union M, p[2].svc \in Uids(D) PROVE p[2].svc \in Uids(E)
  <2>1. p[2].svc \notin DOMAIN endpoints
    BY <1>2 DEF Uids
  <2> QED
    BY <1>1, <2>1 DEF Uids
<1> HIDE DEF E
<1>3. Traced(N, M, A, E, endpoints)
  BY <1>1, <1>2 DEF Traced
<1> QED
  BY <1>3 DEF E

LEMMA TracedMoved ==
    ASSUME NEW N, NEW M, NEW A, NEW D, NEW endpoints, Traced(N, M, A, D, endpoints),
           NEW t \in M, t[1] \in Nat, \A p \in N \union M : p[1] \in Nat /\ p[1] <= t[1]
    PROVE  Traced(N, M \ {t}, A, D, endpoints)
<1> DEFINE E == M \ {t}
<1>1. ASSUME NEW p \in N \union M, NEW q \in M, q[1] < p[1] PROVE q \in E
  <2>1. p[1] <= t[1] /\ p[1] \in Nat /\ q[1] \in Nat
    OBVIOUS
  <2>2. q # t
    BY <1>1, <2>1
  <2> QED
    BY <2>2
<1>2. E \subseteq M
  OBVIOUS
<1> HIDE DEF E
<1>3. /\ \A p \in E : p[2].svc \in DOMAIN endpoints \/ \E q \in D : q[2] = p[2].svc /\ q[1] < p[1]
      /\ \A p \in E : \A q \in A : q[2] = p[2].svc => p[1] < q[1]
  BY <1>2 DEF Traced
<1>4. ASSUME NEW p \in N \union E, NEW e \in p[2].adds
      PROVE  \/ p[2].svc \in Uids(D)
             \/ p[2].svc \in DOMAIN endpoints /\ e \in endpoints[p[2].svc]
             \/ \E q \in E : q[2].svc = p[2].svc /\ e \in q[2].dels /\ q[1] < p[1]
  <2>1. p \in N \union M
    BY <1>2
  <2> QED
    BY <1>1, <2>1 DEF Traced
<1>5. ASSUME NEW p \in E, NEW e \in p[2].dels \ p[2].adds,
             p[2].svc \in DOMAIN endpoints, e \in endpoints[p[2].svc]
      PROVE  \E q \in E : q[2].svc = p[2].svc /\ e \in q[2].adds /\ q[1] < p[1]
  <2>1. p \in M
    BY <1>2
  <2> QED
    BY <1>1, <1>5, <2>1 DEF Traced
<1>6. Traced(N, E, A, D, endpoints)
  BY <1>3, <1>4, <1>5 DEF Traced
<1> QED
  BY <1>6 DEF E

LEMMA PollExtends ==
    ASSUME TypeInv, NEW failing \in BOOLEAN, ListServices(failing)
    PROVE  \E k, a, d, m :
              /\ Extends(ServiceAdds, ServiceAdds', k, a,
                         {Change(s, {}, latest'[s]) : s \in DOMAIN latest' \ DOMAIN latest})
              /\ Extends(ServiceMoves, ServiceMoves', k, m, Differences(latest, latest'))
              /\ Extends(AddedServices, AddedServices', k, a, DOMAIN latest' \ DOMAIN latest)
              /\ Extends(DeletedServices, DeletedServices', k, d, DOMAIN latest \ DOMAIN latest')
<1>1. PICK k, a, d, m : ServicesPolled(k, a, d, m)
  BY ServicesAppended
<1> DEFINE x == {Change(s, {}, latest'[s]) : s \in DOMAIN latest' \ DOMAIN latest}
           z == Differences(latest, latest')
           come == DOMAIN latest' \ DOMAIN latest
           went == DOMAIN latest \ DOMAIN latest'
<1>2. /\ k \in Nat /\ a \in Nat /\ d \in Nat /\ m \in Nat
      /\ (x # {} => a < k) /\ (z # {} => m < k)
      /\ ServiceAdds' = Ahead(ServiceAdds, k) \union ({a} \X x)
      /\ ServiceMoves' = Ahead(ServiceMoves, k) \union ({m} \X z)
  BY <1>1 DEF ServicesPolled, Longer, ServiceAdds, ServiceMoves
<1>3. /\ (come # {} => a < k) /\ (went # {} => d < k)
      /\ AddedServices' = Ahead(AddedServices, k) \union ({a} \X come)
      /\ DeletedServices' = Ahead(DeletedServices, k) \union ({d} \X went)
  BY <1>1, ServicesLonger
<1>4. /\ \A p \in ServiceAdds : p[1] \in Nat
      /\ \A p \in ServiceMoves : p[1] \in Nat
      /\ \A p \in Items(ServiceLine, "ServiceDelete") : p[1] \in Nat
  BY RanksTyped DEF ServiceAdds, ServiceMoves
<1>5. /\ \A p \in AddedServices : p[1] \in Nat
      /\ \A p \in DeletedServices : p[1] \in Nat
  BY <1>4, RankOfServices DEF AddedServices, DeletedServices
<1> HIDE DEF x, z, come, went
<1>6. /\ Extends(ServiceAdds, ServiceAdds', k, a, x)
      /\ Extends(ServiceMoves, ServiceMoves', k, m, z)
      /\ Extends(AddedServices, AddedServices', k, a, come)
      /\ Extends(DeletedServices, DeletedServices', k, d, went)
  BY <1>2, <1>3, <1>4, <1>5, ExtendsWhenAhead
<1> QED
  BY <1>6 DEF x, z, come, went

(* The services to be deleted are not announced, and one to be added is    *)
(* announced or to be deleted before.                                      *)
LEMMA DeletedGone ==
    ASSUME ApartInv
    PROVE  /\ \A q \in DeletedServices : q[1] \in Nat /\ q[2] \notin DOMAIN latest
           /\ \A p \in ServiceAdds :
                 /\ <<p[1], p[2].svc>> \in AddedServices /\ p[2].svc \in Uids(AddedServices)
                 /\ \/ p[2].svc \in DOMAIN latest
                    \/ \E q \in DeletedServices : q[2] = p[2].svc /\ q[1] < p[1]
<1>1. Orderly(AddedServices, DeletedServices, DOMAIN latest, GoneObjects, ServiceClash, spoilt)
  BY DEF ApartInv
<1>2. \A q \in DeletedServices : q[1] \in Nat /\ q[2] \notin DOMAIN latest
  BY <1>1 DEF Orderly
<1>3. ASSUME NEW p \in ServiceAdds
      PROVE  /\ <<p[1], p[2].svc>> \in AddedServices /\ p[2].svc \in Uids(AddedServices)
             /\ \/ p[2].svc \in DOMAIN latest
                \/ \E q \in DeletedServices : q[2] = p[2].svc /\ q[1] < p[1]
  <2> DEFINE a == <<p[1], p[2].svc>>
  <2>1. a \in AddedServices /\ a[1] = p[1] /\ a[2] = p[2].svc
    BY DEF AddedServices, OfServices
  <2> HIDE DEF a
  <2>2. a[2] \in DOMAIN latest \/ \E q \in DeletedServices : q[2] = a[2] /\ q[1] < a[1]
    BY <1>1, <2>1 DEF Orderly
  <2>3. a[2] \in Uids(AddedServices)
    BY <2>1 DEF Uids
  <2> QED
    BY <2>1, <2>2, <2>3 DEF a
<1> QED
  BY <1>2, <1>3

LEMMA TracedPoll ==
    ASSUME TypeInv, ApartInv, TracedInv, NEW failing \in BOOLEAN, Poll(failing)
    PROVE  TracedInv'
<1>1. CASE ListServices(failing)
  <2>1. PICK k, a, d, m :
              /\ Extends(ServiceAdds, ServiceAdds', k, a,
                         {Change(s, {}, latest'[s]) : s \in DOMAIN latest' \ DOMAIN latest})
              /\ Extends(ServiceMoves, ServiceMoves', k, m, Differences(latest, latest'))
              /\ Extends(AddedServices, AddedServices', k, a, DOMAIN latest' \ DOMAIN latest)
              /\ Extends(DeletedServices, DeletedServices', k, d, DOMAIN latest \ DOMAIN latest')
    BY <1>1, PollExtends
  <2> DEFINE X == {Change(s, {}, latest'[s]) : s \in DOMAIN latest' \ DOMAIN latest}
  <2>2. \A x \in X : x.svc \in DOMAIN latest' \ DOMAIN latest /\ x.adds = latest'[x.svc]
    BY DEF Change
  <2>3. \A q \in DeletedServices : q[2] \notin DOMAIN latest' \ DOMAIN latest
    <3>1. (DOMAIN latest' \ DOMAIN latest) \intersect GoneObjects = {}
      BY <1>1, PolledApart
    <3>2. \A q \in DeletedServices : q[2] \in GoneObjects
      BY DEF ApartInv, Orderly
    <3> QED
      BY <3>1, <3>2
  <2> HIDE DEF X
  <2>4. Traced(ServiceAdds, ServiceMoves, AddedServices, DeletedServices, latest)
    BY DEF TracedInv
  <2>5. Traced(ServiceAdds', ServiceMoves', AddedServices', DeletedServices', latest')
    BY <2>1, <2>2, <2>3, <2>4, TracedPolled DEF X
  <2> QED
    BY <2>5 DEF TracedInv
<1>2. CASE ListPods(failing) \/ ListDNS(failing)
  <2>1. latest' = latest
    BY <1>2 DEF ListPods, ListDNS
  <2>2. ServiceLine' = ServiceLine
    BY <1>2, LinesPolled
  <2> QED
    BY <2>1, <2>2, LinesTell DEF TracedInv
<1> QED
  BY <1>1, <1>2 DEF Poll

LEMMA TracedHandle ==
    ASSUME TypeInv, ApartInv, SingleInv, TracedInv, NEW op \in ServiceOps, NEW item, Handling(op, item)
    PROVE  TracedInv'
<1>0. "ServiceAdd" # "ServiceDelete" /\ "ServiceAdd" # "ServiceEndpointsUpdate"
      /\ "ServiceDelete" # "ServiceEndpointsUpdate"
      /\ ServiceOps = {"ServiceAdd", "ServiceDelete", "ServiceEndpointsUpdate"}
  BY DEF ServiceOps
<1>1. PICK n : Topmost(op, item, n)
  BY TopmostTaken
<1>2. latest' = latest
  BY DEF Handling, watcherVars
<1>3. Traced(ServiceAdds, ServiceMoves, AddedServices, DeletedServices, latest)
  BY DEF TracedInv
<1>4. CASE op = "ServiceAdd"
  <2>1. ServiceAdds' \subseteq ServiceAdds /\ ServiceMoves' = ServiceMoves
    BY <1>0, <1>1, <1>4 DEF Topmost, ServiceAdds, ServiceMoves
  <2>2. AddedServices' \subseteq AddedServices /\ DeletedServices' = DeletedServices
    BY <1>4, AdditionTaken
  <2>3. Traced(ServiceAdds', ServiceMoves', AddedServices', DeletedServices', latest)
    BY <1>3, <2>1, <2>2, TracedAdded
  <2> QED
    BY <1>2, <2>3 DEF TracedInv
<1>5. CASE op = "ServiceDelete"
  <2>1. /\ ServiceAdds' = ServiceAdds /\ ServiceMoves' = ServiceMoves
        /\ \A p \in ServiceAdds \union ServiceMoves : p[1] \in Nat /\ p[1] < n
        /\ n \in Nat /\ <<n, item>> \in Items(ServiceLine, "ServiceDelete")
        /\ Items(ServiceLine', "ServiceDelete") = Items(ServiceLine, "ServiceDelete") \ {<<n, item>>}
    BY <1>0, <1>1, <1>5 DEF Topmost, ServiceAdds, ServiceMoves
  <2> DEFINE t == <<n, item>>
             d == <<n, item.svc>>
  <2>2. t[1] = n /\ t[2] = item /\ d[1] = n
    OBVIOUS
  <2>3. Single(Items(ServiceLine, "ServiceDelete"))
    BY <1>0 DEF SingleInv
  <2> HIDE DEF t
  <2>4. d \in DeletedServices /\ DeletedServices' = DeletedServices \ {d}
    <3>1. t \in Items(ServiceLine, "ServiceDelete")
          /\ Items(ServiceLine', "ServiceDelete") = Items(ServiceLine, "ServiceDelete") \ {t}
      BY <2>1 DEF t
    <3> QED
      BY <2>2, <2>3, <3>1, PairTaken DEF DeletedServices
  <2>5. AddedServices' = AddedServices
    BY <2>1 DEF AddedServices
  <2> HIDE DEF d
  <2>6. Traced(ServiceAdds, ServiceMoves, AddedServices, DeletedServices \ {d}, latest)
    <3>1. d \in DeletedServices /\ d[1] \in Nat
          /\ \A p \in ServiceAdds \union ServiceMoves : p[1] \in Nat /\ p[1] < d[1]
      BY <2>1, <2>2, <2>4
    <3>2. /\ \A q \in DeletedServices : q[1] \in Nat /\ q[2] \notin DOMAIN latest
          /\ \A p \in ServiceAdds :
                \/ p[2].svc \in DOMAIN latest
                \/ \E q \in DeletedServices : q[2] = p[2].svc /\ q[1] < p[1]
      BY DeletedGone
    <3> QED
      BY <1>3, <3>1, <3>2, TracedDeleted, Zenon
  <2> QED
    BY <1>2, <2>1, <2>4, <2>5, <2>6 DEF TracedInv
<1>6. CASE op = "ServiceEndpointsUpdate"
  <2> DEFINE t == <<n, item>>
  <2>1. /\ ServiceAdds' = ServiceAdds /\ ServiceMoves' = ServiceMoves \ {t}
        /\ \A p \in ServiceAdds \union ServiceMoves : p[1] \in Nat /\ p[1] <= n
        /\ n \in Nat /\ t \in ServiceMoves
    BY <1>0, <1>1, <1>6 DEF Topmost, ServiceAdds, ServiceMoves
  <2>2. t[1] = n
    OBVIOUS
  <2>3. AddedServices' = AddedServices /\ DeletedServices' = DeletedServices
    BY <1>6, MoveTaken
  <2> HIDE DEF t
  <2>4. Traced(ServiceAdds, ServiceMoves \ {t}, AddedServices, DeletedServices, latest)
    BY <1>3, <2>1, <2>2, TracedMoved
  <2> QED
    BY <1>2, <2>1, <2>3, <2>4 DEF TracedInv
<1> QED
  BY <1>0, <1>4, <1>5, <1>6

LEMMA TracedStep ==
    ASSUME TypeInv, ApartInv, SingleInv, TracedInv, [Next]_vars
    PROVE  TracedInv'
<1>1. CASE Handle
  <2>1. ASSUME NEW op \in ServiceOps, NEW item, Handling(op, item) PROVE TracedInv'
    BY <2>1, TracedHandle
  <2>2. ASSUME NEW op \in DNSOps, NEW d, Handling(op, d) PROVE TracedInv'
    <3>1. ServiceLine' = ServiceLine /\ latest' = latest
      BY <2>2, DNSTaken DEF Handling, watcherVars
    <3> QED
      BY <3>1, LinesTell DEF TracedInv
  <2>3. \/ \E op \in ServiceOps : \E item : Handling(op, item)
        \/ \E op \in DNSOps : \E d : Handling(op, d)
    BY <1>1, HandleCases DEF HandleServiceAddition, HandleServiceDeletion, HandleServiceEndpointsUpdate,
                             HandleDNSAddition, HandleDNSDeletion, ServiceOps, DNSOps
  <2> QED
    BY <2>1, <2>2, <2>3
<1>2. ASSUME NEW byKill \in BOOLEAN, Exit(byKill) PROVE TracedInv'
  <2>1. outbox' = <<>> /\ serviceUpdates' = <<>> /\ dnsUpdates' = <<>> /\ job' = Idle
    BY <1>2 DEF Exit
  <2>2. ServiceLine' = <<>>
    BY <2>1, OpsApart DEF ServiceLine, AtHand, Waiting
  <2>3. ServiceAdds' = {} /\ ServiceMoves' = {}
    BY <2>2, NoItems DEF ServiceAdds, ServiceMoves
  <2> QED
    BY <2>3 DEF TracedInv, Traced
<1>3. CASE Cluster \/ Send \/ Receive \/ WatcherEnds \/ ProxyEnds \/ Interrupt
           \/ (\E failing \in BOOLEAN : Start(failing)) \/ UNCHANGED vars
  <2>1. latest' = latest
    BY <1>3 DEF Cluster, Send, Receive, WatcherEnds, ProxyEnds, Interrupt, Start, vars, watcherVars
  <2>2. ServiceLine' = ServiceLine
    <3>1. CASE Send \/ Receive
      BY <3>1, LinesMoved
    <3>2. CASE Cluster \/ WatcherEnds \/ ProxyEnds \/ Interrupt
               \/ (\E failing \in BOOLEAN : Start(failing)) \/ UNCHANGED vars
      <4>1. UNCHANGED <<outbox, serviceUpdates, dnsUpdates, job>>
        BY <3>2 DEF Cluster, WatcherEnds, ProxyEnds, Interrupt, Start, vars, chanVars
      <4> QED
        BY <4>1, LinesKept
    <3> QED
      BY <1>3, <3>1, <3>2
  <2> QED
    BY <2>1, <2>2, LinesTell DEF TracedInv
<1> QED
  BY <1>1, <1>2, <1>3, TracedPoll, Zenon DEF Next

-----------------------------------------------------------------------------
(* Routes to endpoints *)

(* No two ports of a service lead to one target: the reverse maps of       *)
(* proxy.go keep one port of each.                                         *)
DistinctTargets ==
    \A s \in Services : \A i, j \in DOMAIN PortsOf[s] :
        PortsOf[s][i].target = PortsOf[s][j].target => i = j

LEMMA RoutesOfMember ==
    ASSUME NEW s, NEW E
    PROVE  /\ \A r \in RoutesOf(s, E) :
                 /\ r \in RoutesOf(s, {r[2]}) /\ r[2] \in E /\ r[1] \in VirtualsOf(s)
           /\ \A e \in E : \A r \in RoutesOf(s, {e}) : r \in RoutesOf(s, E) /\ r[2] = e
<1>1. ASSUME NEW r \in RoutesOf(s, E)
      PROVE  r \in RoutesOf(s, {r[2]}) /\ r[2] \in E /\ r[1] \in VirtualsOf(s)
  <2>1. PICK i \in Reverse(s, DOMAIN PortsOf[s]) :
           r \in Servers(s, i) \X {e \in E : e[2] = PortsOf[s][i].target}
    BY DEF RoutesOf, RoutesVia
  <2>2. r \in Servers(s, i) \X {e \in {r[2]} : e[2] = PortsOf[s][i].target} /\ r[2] \in E
    BY <2>1
  <2>3. i \in DOMAIN PortsOf[s] /\ r[1] \in Servers(s, i)
    BY <2>1 DEF Reverse
  <2> QED
    BY <2>2, <2>3 DEF RoutesOf, RoutesVia, VirtualsOf
<1>2. ASSUME NEW e \in E, NEW r \in RoutesOf(s, {e})
      PROVE  r \in RoutesOf(s, E) /\ r[2] = e
  <2>1. PICK i \in Reverse(s, DOMAIN PortsOf[s]) :
           r \in Servers(s, i) \X {f \in {e} : f[2] = PortsOf[s][i].target}
    BY DEF RoutesOf, RoutesVia
  <2>2. r \in Servers(s, i) \X {f \in E : f[2] = PortsOf[s][i].target} /\ r[2] = e
    BY <2>1
  <2> QED
    BY <2>1, <2>2 DEF RoutesOf, RoutesVia
<1> QED
  BY <1>1, <1>2

LEMMA RoutesOfMapped ==
    ASSUME DistinctTargets, NEW s \in Services, NEW mapped \in SUBSET DOMAIN PortsOf[s], NEW E
    PROVE  RoutesVia(s, mapped, E) \subseteq RoutesOf(s, E)
<1>1. Reverse(s, mapped) \subseteq Reverse(s, DOMAIN PortsOf[s])
  BY DEF Reverse, DistinctTargets
<1> QED
  BY <1>1 DEF RoutesOf, RoutesVia

LEMMA RoutesOfKept ==
    ASSUME NEW s, NEW E, clusterIP'[s] = clusterIP[s]
    PROVE  RoutesOf(s, E)' = RoutesOf(s, E)
<1>1. \A i : Servers(s, i)' = Servers(s, i)
  BY VirtualsKept
<1>2. Reverse(s, DOMAIN PortsOf[s])' = Reverse(s, DOMAIN PortsOf[s])
  BY DEF Reverse
<1> QED
  BY <1>1, <1>2 DEF RoutesOf, RoutesVia

(* A service's routes are not those of one it does not clash with.         *)
LEMMA RoutesApart ==
    ASSUME NEW s \in Given, NEW t \in Given, <<s, t>> \notin ServiceClash, NEW E, NEW F
    PROVE  \A r \in RoutesOf(s, E) : r \notin RoutesOf(t, F) /\ r[1] \notin VirtualsOf(t)
<1>1. VirtualsOf(s) \intersect VirtualsOf(t) = {}
  BY VirtualsApart
<1>2. \A r \in RoutesOf(s, E) : r[1] \in VirtualsOf(s)
  BY RoutesOfMember
<1>3. \A r \in RoutesOf(t, F) : r[1] \in VirtualsOf(t)
  BY RoutesOfMember
<1> QED
  BY <1>1, <1>2, <1>3

(* Nothing changed that the endpoints' routes depend on.                   *)
RoutesUnmoved ==
    /\ ServiceLine' = ServiceLine
    /\ UNCHANGED <<latest, routes, leftover>>
    /\ \A s \in Given : clusterIP'[s] = clusterIP[s]
    /\ spoilt \subseteq spoilt'
    /\ proxy = "ended" => proxy' = "ended"

LEMMA RoutesQuiet ==
    ASSUME TypeInv, RoutesInv, RoutesUnmoved
    PROVE  RoutesInv'
<1>1. /\ AddedServices' = AddedServices /\ DeletedServices' = DeletedServices
      /\ ServiceAdds' = ServiceAdds /\ ServiceMoves' = ServiceMoves
  BY LinesTell DEF RoutesUnmoved
<1>2. /\ SetUp' = SetUp /\ SetUp \subseteq Given /\ DOMAIN latest \subseteq Given /\ latest' = latest
      /\ \A s, e : /\ Coming(s, e)' = Coming(s, e) /\ Leaving(s, e)' = Leaving(s, e)
                   /\ Backs(e, s)' = Backs(e, s)
  BY <1>1, UidsTyped DEF RoutesUnmoved, SetUp, Coming, Leaving, Backs
<1>3. \A s \in Given : \A e : RoutesOf(s, {e})' = RoutesOf(s, {e})
  BY RoutesOfKept DEF RoutesUnmoved
<1>4. ASSUME NEW r, RouteKnown(r) PROVE RouteKnown(r)'
  <2>1. PICK t \in SetUp : /\ r \in RoutesOf(t, {r[2]})
                           /\ t \in Uids(DeletedServices) \/ Backs(r[2], t) \/ Leaving(t, r[2])
    BY <1>4 DEF RouteKnown
  <2>2. r \in RoutesOf(t, {r[2]})'
    BY <1>2, <1>3, <2>1
  <2>3. t \in SetUp' /\ (t \in Uids(DeletedServices)' \/ Backs(r[2], t)' \/ Leaving(t, r[2])')
    BY <1>1, <1>2, <2>1
  <2> QED
    BY <2>2, <2>3 DEF RouteKnown
<1>5. ASSUME NEW s \in Given, NEW e, EndpointRouted(s, e) PROVE EndpointRouted(s, e)'
  <2>1. RoutesOf(s, {e})' = RoutesOf(s, {e}) /\ routes' = routes
    BY <1>3 DEF RoutesUnmoved
  <2> QED
    BY <1>1, <1>2, <1>5, <2>1 DEF EndpointRouted
<1>6. /\ routes' = routes /\ leftover' = leftover /\ spoilt \subseteq spoilt'
      /\ (proxy = "ended" => proxy' = "ended")
  BY DEF RoutesUnmoved
<1>7. ASSUME ~ leftover', NEW r \in routes' PROVE RouteKnown(r)'
  BY <1>4, <1>6, <1>7 DEF RoutesInv
<1>8. ASSUME ~ leftover', proxy' # "ended", NEW s \in DOMAIN latest' \ spoilt', NEW e \in latest'[s]
      PROVE  EndpointRouted(s, e)'
  BY <1>2, <1>5, <1>6, <1>8 DEF RoutesInv
<1> QED
  BY <1>7, <1>8 DEF RoutesInv

LEMMA RoutesSame ==
    ASSUME UNCHANGED apiVars
    PROVE  \A s, e : RoutesOf(s, {e})' = RoutesOf(s, {e})
<1>1. \A s : clusterIP'[s] = clusterIP[s]
  BY DEF apiVars
<1> QED
  BY <1>1, RoutesOfKept

LEMMA RoutesAddition ==
    ASSUME DistinctTargets, TypeInv, ApartInv, SingleInv, ServedInv, TracedInv, RoutesInv,
           NEW item, NEW refused, NEW lost, HandleServiceAddition(item, refused, lost)
    PROVE  RoutesInv'
<1> DEFINE s == item.svc
           ports == DOMAIN PortsOf[s]
           bad == virtuals \union refused
           first == {i \in ports : ClusterServer(s, i) \notin bad}
           mapped == {i \in first : Servers(s, i) \intersect bad = {}}
<1>1. /\ Handling("ServiceAdd", item)
      /\ spoilt' = IF refused # {} \/ lost # {} THEN spoilt \union {s} ELSE spoilt
      /\ routes' = routes \union (RoutesVia(s, mapped, item.adds) \ lost)
  BY DEF HandleServiceAddition
<1>2. proxy = "up" /\ UNCHANGED <<apiVars, latest, proxy, leftover>>
  BY <1>1 DEF Handling, watcherVars, runVars
<1>3. "ServiceAdd" \in ServiceOps /\ "ServiceEndpointsUpdate" \in ServiceOps \ {"ServiceAdd"}
  BY DEF ServiceOps
<1>4. PICK n : Topmost("ServiceAdd", item, n)
  BY <1>1, <1>3, TopmostTaken
<1> DEFINE taken == <<n, item>>
<1>5. /\ taken \in ServiceAdds /\ taken[2] = item
      /\ ServiceAdds' = ServiceAdds \ {taken} /\ ServiceMoves' = ServiceMoves
  BY <1>3, <1>4 DEF Topmost, ServiceAdds, ServiceMoves
<1> HIDE DEF taken
<1>6. /\ DeletedServices' = DeletedServices /\ Uids(AddedServices') \subseteq Uids(AddedServices)
      /\ s \in Uids(AddedServices)
  <2>1. s \in Uids(AddedServices)
    BY <1>5, DeletedGone
  <2> QED
    BY <1>1, <2>1, AdditionTaken DEF Uids
<1>7. s \in SetUp' /\ SetUp \subseteq SetUp' /\ s \in Given /\ s \in Services
  BY <1>1, <1>3, SetUpAdded, HandlingTyped DEF Given
<1>8. s \notin Uids(AddedServices')
  BY <1>7 DEF SetUp
<1>9. \A t, e : RoutesOf(t, {e})' = RoutesOf(t, {e})
  BY <1>2, RoutesSame
<1>10. \A t, e : /\ Leaving(t, e)' = Leaving(t, e) /\ Backs(e, t)' = Backs(e, t)
                 /\ Coming(t, e) => Coming(t, e)' \/ (t = s /\ e \in item.adds)
  BY <1>2, <1>5 DEF Leaving, Backs, Coming
<1> HIDE DEF mapped
<1>11. ASSUME ~ leftover, NEW r \in routes' PROVE RouteKnown(r)'
  <2>1. CASE r \in routes
    <3>1. PICK t \in SetUp : /\ r \in RoutesOf(t, {r[2]})
                             /\ t \in Uids(DeletedServices) \/ Backs(r[2], t) \/ Leaving(t, r[2])
      BY <1>11, <2>1 DEF RoutesInv, RouteKnown
    <3>2. r \in RoutesOf(t, {r[2]})' /\ t \in SetUp'
      BY <1>7, <1>9, <3>1
    <3>3. t \in Uids(DeletedServices)' \/ Backs(r[2], t)' \/ Leaving(t, r[2])'
      BY <1>6, <1>10, <3>1
    <3> QED
      BY <3>2, <3>3 DEF RouteKnown
  <2>2. CASE r \in RoutesVia(s, mapped, item.adds)
    <3>1. r \in RoutesOf(s, item.adds)
      <4>1. mapped \in SUBSET DOMAIN PortsOf[s]
        BY DEF mapped
      <4> QED
        BY <1>7, <2>2, <4>1, RoutesOfMapped
    <3>2. r \in RoutesOf(s, {r[2]}) /\ r[2] \in item.adds
      BY <3>1, RoutesOfMember
    <3>3. \/ s \in Uids(DeletedServices)
          \/ s \in DOMAIN latest /\ r[2] \in latest[s]
          \/ \E q \in ServiceMoves : q[2].svc = s /\ r[2] \in q[2].dels
      BY <1>5, <3>2 DEF TracedInv, Traced
    <3>4. s \in Uids(DeletedServices)' \/ Backs(r[2], s)' \/ Leaving(s, r[2])'
      BY <1>6, <1>10, <3>3 DEF Backs, Leaving
    <3>5. r \in RoutesOf(s, {r[2]})'
      BY <1>9, <3>2
    <3> QED
      BY <1>7, <3>4, <3>5 DEF RouteKnown
  <2> QED
    BY <1>1, <2>1, <2>2
<1>12. ASSUME ~ leftover, NEW t \in DOMAIN latest \ spoilt', NEW e \in latest[t]
       PROVE  EndpointRouted(t, e)'
  <2>1. EndpointRouted(t, e) /\ t \in DOMAIN latest \ spoilt
    BY <1>1, <1>2, <1>12 DEF RoutesInv
  <2>2. CASE t = s /\ e \in item.adds
    <3>1. refused = {} /\ lost = {}
      BY <1>1, <1>12, <2>2
    <3>2. VirtualsOf(s) \intersect virtuals = {}
      BY <1>1, <1>12, <2>1, <2>2, NoServersYet
    <3>3. \A i \in ports : ClusterServer(s, i) \in VirtualsOf(s) /\ Servers(s, i) \subseteq VirtualsOf(s)
      BY VirtualsOfPorts
    <3>4. mapped = ports
      BY <3>1, <3>2, <3>3 DEF mapped
    <3>5. RoutesOf(s, item.adds) \subseteq routes'
      BY <1>1, <3>1, <3>4 DEF RoutesOf
    <3>6. RoutesOf(s, {e}) \subseteq routes'
      BY <2>2, <3>5, RoutesOfMember
    <3>7. RoutesOf(s, {e})' \subseteq routes'
      BY <1>9, <3>6
    <3> QED
      BY <1>8, <2>2, <3>7 DEF EndpointRouted
  <2>3. CASE Coming(t, e)'
    BY <2>3 DEF EndpointRouted
  <2>4. CASE ~ Coming(t, e)
    <3>1. t \notin Uids(AddedServices) /\ RoutesOf(t, {e}) \subseteq routes
      BY <2>1, <2>4 DEF EndpointRouted
    <3>2. RoutesOf(t, {e})' \subseteq routes'
      BY <1>1, <1>9, <3>1
    <3> QED
      BY <1>6, <3>1, <3>2 DEF EndpointRouted
  <2> QED
    BY <1>10, <2>2, <2>3, <2>4
<1> QED
  BY <1>2, <1>11, <1>12 DEF RoutesInv

LEMMA RoutesDeletion ==
    ASSUME TypeInv, ApartInv, SingleInv, RoutesInv, NEW item, HandleServiceDeletion(item)
    PROVE  RoutesInv'
<1> DEFINE s == item.svc
<1>1. /\ Handling("ServiceDelete", item) /\ spoilt' = spoilt
      /\ routes' = {r \in routes : r[1] \notin VirtualsOf(s) \intersect virtuals}
  BY DEF HandleServiceDeletion
<1>2. proxy = "up" /\ UNCHANGED <<apiVars, latest, proxy, leftover>>
  BY <1>1 DEF Handling, watcherVars, runVars
<1>3. /\ "ServiceDelete" \in ServiceOps /\ "ServiceAdd" \in ServiceOps \ {"ServiceDelete"}
      /\ "ServiceEndpointsUpdate" \in ServiceOps \ {"ServiceDelete"}
  BY DEF ServiceOps
<1>4. PICK n : Topmost("ServiceDelete", item, n)
  BY <1>1, <1>3, TopmostTaken
<1>5. ServiceAdds' = ServiceAdds /\ ServiceMoves' = ServiceMoves
  BY <1>3, <1>4 DEF Topmost, ServiceAdds, ServiceMoves
<1>6. PICK d \in DeletedServices :
         /\ d[2] = s /\ DeletedServices' = DeletedServices \ {d} /\ AddedServices' = AddedServices
         /\ \A p \in AddedServices \union DeletedServices : p[1] <= d[1]
  BY <1>1, DeletionTaken
<1>7. Orderly(AddedServices, DeletedServices, DOMAIN latest, GoneObjects, ServiceClash, spoilt)
  BY DEF ApartInv
<1>8. /\ s \notin DOMAIN latest /\ s \in Uids(DeletedServices)
      /\ \A t \in Uids(DeletedServices) : t = s \/ t \in Uids(DeletedServices')
      /\ \A t \in SetUp : t = s \/ t \in SetUp'
  <2>1. s \notin DOMAIN latest
    BY <1>6, <1>7, OrderlyDeleted
  <2>2. \A t \in SetUp : t = s \/ t \in SetUp'
    BY <1>1, SetUpDeleted
  <2> QED
    BY <1>6, <2>1, <2>2 DEF Uids
<1>9. s \in Given /\ DOMAIN latest \subseteq Given
  BY <1>1, <1>3, HandlingTyped, UidsTyped
<1>10. \A t, e : RoutesOf(t, {e})' = RoutesOf(t, {e})
  BY <1>2, RoutesSame
<1>11. \A t, e : /\ Leaving(t, e)' = Leaving(t, e) /\ Backs(e, t)' = Backs(e, t)
                 /\ Coming(t, e)' = Coming(t, e)
  BY <1>2, <1>5 DEF Leaving, Backs, Coming
<1> HIDE DEF s
<1>12. ASSUME ~ leftover, NEW r \in routes' PROVE RouteKnown(r)'
  <2>1. r \in routes /\ r[1] \in virtuals /\ r[1] \notin VirtualsOf(s)
    BY <1>1 DEF TypeInv, KernelTyped
  <2>2. PICK t \in SetUp : /\ r \in RoutesOf(t, {r[2]})
                           /\ t \in Uids(DeletedServices) \/ Backs(r[2], t) \/ Leaving(t, r[2])
    BY <1>12, <2>1 DEF RoutesInv, RouteKnown
  <2>3. t # s
    BY <2>1, <2>2, RoutesOfMember
  <2>4. t \in SetUp' /\ (t \in Uids(DeletedServices)' \/ Backs(r[2], t)' \/ Leaving(t, r[2])')
    BY <1>8, <1>11, <2>2, <2>3
  <2>5. r \in RoutesOf(t, {r[2]})'
    BY <1>10, <2>2
  <2> QED
    BY <2>4, <2>5 DEF RouteKnown
<1>13. ASSUME ~ leftover, NEW t \in DOMAIN latest \ spoilt', NEW e \in latest[t]
       PROVE  EndpointRouted(t, e)'
  <2>1. EndpointRouted(t, e) /\ t \in DOMAIN latest \ spoilt
    BY <1>1, <1>2, <1>13 DEF RoutesInv
  <2>2. CASE Coming(t, e)
    BY <1>11, <2>2 DEF EndpointRouted
  <2>3. CASE t \notin Uids(AddedServices) /\ RoutesOf(t, {e}) \subseteq routes
    <3>1. <<t, s>> \notin ServiceClash
      BY <1>7, <1>8, <2>1, <2>3, MeetsNoClash
    <3>2. \A r \in RoutesOf(t, {e}) : r[1] \notin VirtualsOf(s)
      BY <1>9, <2>1, <3>1, RoutesApart
    <3>3. RoutesOf(t, {e})' \subseteq routes'
      BY <1>1, <1>10, <2>3, <3>2 DEF s
    <3> QED
      BY <1>6, <2>3, <3>3 DEF EndpointRouted
  <2> QED
    BY <2>1, <2>2, <2>3 DEF EndpointRouted
<1> QED
  BY <1>2, <1>12, <1>13 DEF RoutesInv

LEMMA RoutesMove ==
    ASSUME TypeInv, ApartInv, SingleInv, ServedInv, TracedInv, RoutesInv,
           NEW item, NEW lost, HandleServiceEndpointsUpdate(item, lost)
    PROVE  RoutesInv'
<1> DEFINE s == item.svc
<1>1. /\ Handling("ServiceEndpointsUpdate", item)
      /\ spoilt' = IF lost # {} THEN spoilt \union {s} ELSE spoilt
      /\ routes' = (routes \ RoutesOf(s, item.dels)) \union
                   {r \in RoutesOf(s, item.adds) \ lost : r[1] \in virtuals}
  BY DEF HandleServiceEndpointsUpdate
<1>2. proxy = "up" /\ UNCHANGED <<apiVars, latest, proxy, leftover>>
  BY <1>1 DEF Handling, watcherVars, runVars
<1>3. "ServiceEndpointsUpdate" \in ServiceOps /\ "ServiceAdd" \in ServiceOps \ {"ServiceEndpointsUpdate"}
  BY DEF ServiceOps
<1>4. PICK n : Topmost("ServiceEndpointsUpdate", item, n)
  BY <1>1, <1>3, TopmostTaken
<1> DEFINE taken == <<n, item>>
<1>5. /\ taken \in ServiceMoves /\ taken[1] = n /\ taken[2] = item /\ n \in Nat
      /\ ServiceMoves' = ServiceMoves \ {taken} /\ ServiceAdds' = ServiceAdds
      /\ \A p \in ServiceAdds : p[1] \in Nat /\ p[1] < n
  BY <1>3, <1>4 DEF Topmost, ServiceAdds, ServiceMoves
<1> HIDE DEF taken
<1>6. AddedServices' = AddedServices /\ DeletedServices' = DeletedServices
  BY <1>1, MoveTaken
<1>7. Traced(ServiceAdds, ServiceMoves, AddedServices, DeletedServices, latest)
  BY DEF TracedInv
<1>8. s \in DOMAIN latest \union Uids(DeletedServices)
  BY <1>5, <1>7 DEF Traced, Uids
<1>9. s \notin Uids(AddedServices)
  <2>1. ASSUME NEW q \in AddedServices, q[2] = s PROVE FALSE
    <3>1. n < q[1]
      BY <1>5, <1>7, <2>1 DEF Traced
    <3>2. PICK p \in ServiceAdds : q[1] = p[1]
      BY RankOfServices DEF AddedServices
    <3> QED
      BY <1>5, <3>1, <3>2
  <2> QED
    BY <2>1 DEF Uids
<1>10. /\ s \in SetUp /\ SetUp' = SetUp
       /\ s \in Given /\ DOMAIN latest \subseteq Given
  BY <1>1, <1>2, <1>3, <1>6, <1>8, <1>9, HandlingTyped, UidsTyped DEF SetUp
<1>11. \A t, e : RoutesOf(t, {e})' = RoutesOf(t, {e})
  BY <1>2, RoutesSame
<1>12. \A t, e : /\ Backs(e, t)' = Backs(e, t)
                 /\ Coming(t, e) => Coming(t, e)' \/ (t = s /\ e \in item.adds)
                 /\ Leaving(t, e) => Leaving(t, e)' \/ (t = s /\ e \in item.dels)
  BY <1>2, <1>5 DEF Leaving, Backs, Coming
<1>13. ASSUME NEW q \in ServiceMoves, q[1] < n PROVE q \in ServiceMoves'
  BY <1>5, <1>13
<1> HIDE DEF s
<1>14. ASSUME ~ leftover, NEW r \in routes' PROVE RouteKnown(r)'
  <2>1. CASE r \in routes /\ r \notin RoutesOf(s, item.dels)
    <3>1. PICK t \in SetUp : /\ r \in RoutesOf(t, {r[2]})
                             /\ t \in Uids(DeletedServices) \/ Backs(r[2], t) \/ Leaving(t, r[2])
      BY <1>14, <2>1 DEF RoutesInv, RouteKnown
    <3>2. ~ (t = s /\ r[2] \in item.dels)
      BY <2>1, <3>1, RoutesOfMember
    <3>3. t \in SetUp' /\ (t \in Uids(DeletedServices)' \/ Backs(r[2], t)' \/ Leaving(t, r[2])')
      BY <1>6, <1>10, <1>12, <3>1, <3>2
    <3>4. r \in RoutesOf(t, {r[2]})'
      BY <1>11, <3>1
    <3> QED
      BY <3>3, <3>4 DEF RouteKnown
  <2>2. CASE r \in RoutesOf(s, item.adds)
    <3>1. r \in RoutesOf(s, {r[2]}) /\ r[2] \in item.adds
      BY <2>2, RoutesOfMember
    <3>2. \/ s \in Uids(DeletedServices)
          \/ s \in DOMAIN latest /\ r[2] \in latest[s]
          \/ \E q \in ServiceMoves : q[2].svc = s /\ r[2] \in q[2].dels /\ q[1] < n
      BY <1>5, <1>7, <3>1 DEF Traced, s
    <3>3. s \in Uids(DeletedServices)' \/ Backs(r[2], s)' \/ Leaving(s, r[2])'
      BY <1>6, <1>12, <1>13, <3>2 DEF Backs, Leaving
    <3>4. r \in RoutesOf(s, {r[2]})' /\ s \in SetUp'
      BY <1>10, <1>11, <3>1
    <3> QED
      BY <3>3, <3>4 DEF RouteKnown
  <2> QED
    BY <1>1, <2>1, <2>2 DEF s
<1>15. ASSUME ~ leftover, NEW e \in item.adds, s \in DOMAIN latest \ spoilt'
       PROVE  RoutesOf(s, {e})' \subseteq routes'
  <2>1. lost = {} /\ s \notin spoilt
    BY <1>1, <1>15 DEF s
  <2>2. VirtualsOf(s) \subseteq virtuals
    BY <1>2, <1>9, <1>15, <2>1 DEF ServedInv, Served
  <2>3. \A r \in RoutesOf(s, {e}) : r \in RoutesOf(s, item.adds) /\ r[1] \in virtuals
    BY <1>15, <2>2, RoutesOfMember
  <2>4. RoutesOf(s, {e}) \subseteq routes'
    BY <1>1, <2>1, <2>3 DEF s
  <2> QED
    BY <1>11, <2>4
<1>16. ASSUME ~ leftover, NEW t \in DOMAIN latest \ spoilt', NEW e \in latest[t]
       PROVE  EndpointRouted(t, e)'
  <2>1. EndpointRouted(t, e) /\ t \in DOMAIN latest \ spoilt
    BY <1>1, <1>2, <1>16 DEF RoutesInv
  <2>2. CASE t = s /\ e \in item.adds
    BY <1>6, <1>9, <1>15, <1>16, <2>2 DEF EndpointRouted
  <2>3. CASE Coming(t, e) /\ ~ (t = s /\ e \in item.adds)
    BY <1>12, <2>3 DEF EndpointRouted
  <2>4. CASE t = s /\ e \in item.dels \ item.adds
    <3>1. \E q \in ServiceMoves : q[2].svc = s /\ e \in q[2].adds /\ q[1] < n
      BY <1>5, <1>7, <1>16, <2>4 DEF Traced, s
    <3>2. Coming(t, e)'
      BY <1>13, <2>4, <3>1 DEF Coming
    <3> QED
      BY <3>2 DEF EndpointRouted
  <2>5. CASE /\ t \notin Uids(AddedServices) /\ RoutesOf(t, {e}) \subseteq routes
             /\ ~ (t = s /\ e \in item.dels)
    <3>1. ASSUME NEW r \in RoutesOf(t, {e}) PROVE r \notin RoutesOf(s, item.dels)
      <4>1. CASE t = s
        BY <2>5, <3>1, <4>1, RoutesOfMember
      <4>2. CASE t # s
        <5>1. Orderly(AddedServices, DeletedServices, DOMAIN latest, GoneObjects, ServiceClash, spoilt)
          BY DEF ApartInv
        <5>2. <<t, s>> \notin ServiceClash
          BY <1>8, <2>1, <2>5, <4>2, <5>1, MeetsNoClash
        <5> QED
          BY <1>10, <2>1, <5>2, RoutesApart
      <4> QED
        BY <4>1, <4>2
    <3>2. RoutesOf(t, {e})' \subseteq routes'
      BY <1>1, <1>11, <2>5, <3>1 DEF s
    <3> QED
      BY <1>6, <2>5, <3>2 DEF EndpointRouted
  <2> QED
    BY <2>1, <2>2, <2>3, <2>4, <2>5 DEF EndpointRouted
<1> QED
  BY <1>2, <1>14, <1>16 DEF RoutesInv

LEMMA RoutesPoll ==
    ASSUME TypeInv, ApartInv, RoutesInv, NEW failing \in BOOLEAN, ListServices(failing)
    PROVE  RoutesInv'
<1>1. /\ UNCHANGED <<apiVars, routes, leftover, proxy>> /\ spoilt \subseteq spoilt'
  BY DEF Polling, ListServices, kernelVars, runVars
<1>2. PICK k, a, d, m :
            /\ Extends(ServiceAdds, ServiceAdds', k, a,
                       {Change(s, {}, latest'[s]) : s \in DOMAIN latest' \ DOMAIN latest})
            /\ Extends(ServiceMoves, ServiceMoves', k, m, Differences(latest, latest'))
            /\ Extends(AddedServices, AddedServices', k, a, DOMAIN latest' \ DOMAIN latest)
            /\ Extends(DeletedServices, DeletedServices', k, d, DOMAIN latest \ DOMAIN latest')
  BY PollExtends
<1> DEFINE X == {Change(s, {}, latest'[s]) : s \in DOMAIN latest' \ DOMAIN latest}
           Z == Differences(latest, latest')
<1>3. /\ \A p \in ServiceAdds : \E q \in ServiceAdds' : q[2] = p[2]
      /\ \A p \in ServiceMoves : \E q \in ServiceMoves' : q[2] = p[2]
      /\ \A x \in X : \E q \in ServiceAdds' : q[2] = x
      /\ \A x \in Z : \E q \in ServiceMoves' : q[2] = x
  BY <1>2 DEF Extends
<1>4. /\ Uids(AddedServices') = Uids(AddedServices) \union (DOMAIN latest' \ DOMAIN latest)
      /\ Uids(DeletedServices') = Uids(DeletedServices) \union (DOMAIN latest \ DOMAIN latest')
  BY <1>2, ExtendsUids
<1>5. SetUp \subseteq SetUp'
  BY SetUpPolled DEF Poll
<1>6. \A t, e : RoutesOf(t, {e})' = RoutesOf(t, {e})
  BY <1>1, RoutesSame
<1>7. \A s \in DOMAIN latest' \ DOMAIN latest : \E x \in X : x.svc = s /\ x.adds = latest'[s]
  <2> SUFFICES ASSUME NEW s \in DOMAIN latest' \ DOMAIN latest
               PROVE  \E x \in X : x.svc = s /\ x.adds = latest'[s]
    OBVIOUS
  <2> DEFINE x == Change(s, {}, latest'[s])
  <2>1. x \in X
    OBVIOUS
  <2>2. x.svc = s /\ x.adds = latest'[s]
    BY DEF Change
  <2> HIDE DEF x, X
  <2> QED
    BY <2>1, <2>2
<1>8. \A s \in DOMAIN latest \intersect DOMAIN latest' :
         /\ \A e \in latest[s] \ latest'[s] : \E x \in Z : x.svc = s /\ e \in x.dels
         /\ \A e \in latest'[s] \ latest[s] : \E x \in Z : x.svc = s /\ e \in x.adds
  BY DifferencesTell
<1> HIDE DEF X, Z
<1>9. \A t, e : /\ Leaving(t, e) => Leaving(t, e)'
                /\ Coming(t, e) => Coming(t, e)'
  BY <1>3 DEF Leaving, Coming
<1>10. ASSUME ~ leftover, NEW r \in routes PROVE RouteKnown(r)'
  <2>1. PICK t \in SetUp : /\ r \in RoutesOf(t, {r[2]})
                           /\ t \in Uids(DeletedServices) \/ Backs(r[2], t) \/ Leaving(t, r[2])
    BY <1>10 DEF RoutesInv, RouteKnown
  <2>2. ASSUME Backs(r[2], t)
        PROVE  t \in Uids(DeletedServices') \/ Backs(r[2], t)' \/ Leaving(t, r[2])'
    <3>1. t \in DOMAIN latest /\ r[2] \in latest[t]
      BY <2>2 DEF Backs
    <3>2. CASE t \notin DOMAIN latest'
      BY <1>4, <3>1, <3>2
    <3>3. CASE t \in DOMAIN latest' /\ r[2] \in latest'[t]
      BY <3>3 DEF Backs
    <3>4. CASE t \in DOMAIN latest' /\ r[2] \notin latest'[t]
      <4>1. PICK x \in Z : x.svc = t /\ r[2] \in x.dels
        BY <1>8, <3>1, <3>4
      <4>2. PICK q \in ServiceMoves' : q[2] = x
        BY <1>3
      <4> QED
        BY <4>1, <4>2 DEF Leaving
    <3> QED
      BY <3>2, <3>3, <3>4
  <2>3. t \in SetUp' /\ (t \in Uids(DeletedServices)' \/ Backs(r[2], t)' \/ Leaving(t, r[2])')
    BY <1>4, <1>5, <1>9, <2>1, <2>2
  <2>4. r \in RoutesOf(t, {r[2]})'
    BY <1>6, <2>1
  <2> QED
    BY <2>3, <2>4 DEF RouteKnown
<1>11. ASSUME ~ leftover, proxy # "ended", NEW s \in DOMAIN latest' \ spoilt', NEW e \in latest'[s]
       PROVE  EndpointRouted(s, e)'
  <2>1. CASE s \notin DOMAIN latest
    <3>1. PICK x \in X : x.svc = s /\ x.adds = latest'[s]
      BY <1>7, <2>1
    <3>2. PICK q \in ServiceAdds' : q[2] = x
      BY <1>3
    <3>3. Coming(s, e)'
      BY <3>1, <3>2 DEF Coming
    <3> QED
      BY <3>3 DEF EndpointRouted
  <2>2. CASE s \in DOMAIN latest /\ e \notin latest[s]
    <3>1. PICK x \in Z : x.svc = s /\ e \in x.adds
      BY <1>8, <2>2
    <3>2. PICK q \in ServiceMoves' : q[2] = x
      BY <1>3
    <3>3. Coming(s, e)'
      BY <3>1, <3>2 DEF Coming
    <3> QED
      BY <3>3 DEF EndpointRouted
  <2>3. CASE s \in DOMAIN latest /\ e \in latest[s]
    <3>1. EndpointRouted(s, e)
      BY <1>1, <1>11, <2>3 DEF RoutesInv
    <3>2. RoutesOf(s, {e})' = RoutesOf(s, {e}) /\ routes' = routes
      BY <1>1, <1>6
    <3> QED
      BY <1>4, <1>9, <2>3, <3>1, <3>2 DEF EndpointRouted
  <2> QED
    BY <2>1, <2>2, <2>3
<1> QED
  BY <1>1, <1>10, <1>11 DEF RoutesInv

LEMMA RoutesStep ==
    ASSUME DistinctTargets, TypeInv, ApartInv, SingleInv, EndInv, ServedInv, TracedInv, RoutesInv,
           [Next]_vars
    PROVE  RoutesInv'
<1>1. CASE Cluster
  <2>1. UNCHANGED <<latest, routes, leftover, spoilt, proxy, outbox, serviceUpdates, dnsUpdates, job>>
    BY <1>1 DEF Cluster, watcherVars, kernelVars, runVars, chanVars
  <2>2. \A s \in Given : clusterIP'[s] = clusterIP[s]
    BY <1>1 DEF Cluster, AddService, AddDNS, PodRuns, Delete, Given, TypeInv, ApiTyped
  <2>3. RoutesUnmoved
    BY <2>1, <2>2, LinesKept DEF RoutesUnmoved
  <2> QED
    BY <2>3, RoutesQuiet
<1>2. CASE Handle
  <2>1. ASSUME NEW d, NEW reloads \in BOOLEAN, HandleDNSAddition(d, reloads) \/ HandleDNSDeletion(d, reloads)
        PROVE  RoutesInv'
    <3>1. /\ Handling("DNSAdd", d) \/ Handling("DNSDelete", d)
          /\ spoilt \subseteq spoilt' /\ routes' = routes
      BY <2>1 DEF HandleDNSAddition, HandleDNSDeletion, kernelVars
    <3>2. UNCHANGED <<apiVars, latest, leftover, proxy>>
      BY <3>1 DEF Handling, watcherVars, runVars
    <3>3. ServiceLine' = ServiceLine
      BY <3>1, DNSTaken DEF DNSOps
    <3>4. RoutesUnmoved
      BY <3>1, <3>2, <3>3 DEF RoutesUnmoved, apiVars
    <3> QED
      BY <3>4, RoutesQuiet
  <2> QED
    BY <1>2, <2>1, HandleCases, RoutesAddition, RoutesDeletion, RoutesMove
<1>3. CASE ProxyEnds
  BY <1>3 DEF ProxyEnds, RoutesInv
<1>4. ASSUME NEW byKill \in BOOLEAN, Exit(byKill) PROVE RoutesInv'
  <2>1. /\ latest' = NoServices /\ leftover' = (proxy # "ended") /\ routes' = routes
    BY <1>4 DEF Exit, kernelVars
  <2>2. proxy = "ended" => routes = {}
    BY DEF EndInv
  <2>3. DOMAIN latest' = {}
    BY <2>1 DEF NoServices
  <2> QED
    BY <2>1, <2>2, <2>3 DEF RoutesInv
<1>5. ASSUME NEW failing \in BOOLEAN, Poll(failing) PROVE RoutesInv'
  <2>1. CASE ListServices(failing)
    BY <2>1, RoutesPoll
  <2>2. CASE ListPods(failing) \/ ListDNS(failing)
    <3>1. /\ UNCHANGED <<apiVars, latest, routes, leftover, proxy>> /\ spoilt \subseteq spoilt'
      BY <2>2 DEF ListPods, ListDNS, Polling, kernelVars, runVars
    <3>2. ServiceLine' = ServiceLine
      BY <2>2, LinesPolled DEF Poll
    <3>3. RoutesUnmoved
      BY <3>1, <3>2 DEF RoutesUnmoved, apiVars
    <3> QED
      BY <3>3, RoutesQuiet
  <2> QED
    BY <1>5, <2>1, <2>2 DEF Poll
<1>6. CASE \/ Send \/ Receive \/ WatcherEnds \/ Interrupt
           \/ \E failing \in BOOLEAN : Start(failing)
           \/ UNCHANGED vars
  <2>1. UNCHANGED <<apiVars, latest, routes, leftover, spoilt>>
    BY <1>6 DEF Send, Receive, WatcherEnds, Interrupt, Start, vars, watcherVars, kernelVars, runVars
  <2>2. ServiceLine' = ServiceLine
    <3>1. CASE Send \/ Receive
      BY <3>1, LinesMoved
    <3>2. CASE \/ WatcherEnds \/ Interrupt
               \/ \E failing \in BOOLEAN : Start(failing)
               \/ UNCHANGED vars
      <4>1. UNCHANGED <<outbox, serviceUpdates, dnsUpdates, job>>
        BY <3>2 DEF WatcherEnds, Interrupt, Start, vars, chanVars
      <4> QED
        BY <4>1, LinesKept
    <3> QED
      BY <1>6, <3>1, <3>2
  <2>3. proxy = "ended" => proxy' = "ended"
    BY <1>6 DEF Send, Receive, WatcherEnds, Interrupt, Start, vars, EndInv
  <2>4. RoutesUnmoved
    BY <2>1, <2>2, <2>3 DEF RoutesUnmoved, apiVars
  <2> QED
    BY <2>4, RoutesQuiet
<1> QED
  BY <1>1, <1>2, <1>3, <1>4, <1>5, <1>6, Zenon DEF Next

-----------------------------------------------------------------------------
(* What holds once everything is handled *)

ProxyInv == TypeInv /\ ApartInv /\ SingleInv /\ EndInv /\ ServedInv /\ NamesInv

LEMMA SettledLines ==
    ASSUME Settled
    PROVE  /\ ServiceAdds = {} /\ ServiceMoves = {}
           /\ AddedServices = {} /\ DeletedServices = {} /\ AddedDNS = {} /\ DeletedDNS = {}
           /\ SetUp = DOMAIN latest /\ SetUpDNS = latestDNS
<1>1. ServiceLine = <<>> /\ DNSLine = <<>>
  BY LinesForgotten DEF Settled
<1>2. /\ ServiceAdds = {} /\ ServiceMoves = {} /\ Items(ServiceLine, "ServiceDelete") = {}
      /\ AddedDNS = {} /\ DeletedDNS = {}
  BY <1>1, NoItems DEF ServiceAdds, ServiceMoves, AddedDNS, DeletedDNS
<1>3. AddedServices = {} /\ DeletedServices = {}
  BY <1>2 DEF AddedServices, DeletedServices, OfServices
<1> QED
  BY <1>2, <1>3 DEF SetUp, SetUpDNS, Uids

LEMMA ProxyInit ==
    ASSUME Init
    PROVE  ProxyInv
<1>1. TypeInv
  BY TypeInit
<1>2. ServiceLine = <<>> /\ DNSLine = <<>>
  BY LinesForgotten DEF Init
<1>3. /\ AddedServices = {} /\ DeletedServices = {} /\ AddedDNS = {} /\ DeletedDNS = {} /\ SingleInv
  BY <1>2, NoItems DEF AddedServices, DeletedServices, ServiceAdds, AddedDNS, DeletedDNS,
                       SingleInv, Single, OfServices
<1>4. /\ latest = NoServices /\ DOMAIN latest = {} /\ latestDNS = {} /\ proxy = "off"
      /\ virtuals = {} /\ addrs = {}
      /\ serviceCache = [nm \in Names |-> None]
      /\ hosts = [h \in HostNames |-> None] /\ nginx = [h \in DNSHosts |-> None]
  BY DEF Init, NoServices
<1>5. Live(Services) = {} /\ Live(DNSes) = {}
  BY DEF Init, Live
<1>6. ApartInv
  BY <1>3, <1>4, <1>5, OrderlyEmpty DEF ApartInv, Apart
<1>7. EndInv /\ ServedInv /\ NamesInv
  BY <1>2, <1>4 DEF EndInv, ServedInv, NamesInv
<1> QED
  BY <1>1, <1>3, <1>6, <1>7 DEF ProxyInv

LEMMA ProxyStep ==
    ASSUME ProxyInv, [Next]_vars
    PROVE  ProxyInv'
  BY TypeStep, ApartStep, EndStep, ServedStep, NamesStep DEF ProxyInv

(* pkg/kubeproxy: whatever was created, deleted, overtaken, refused or     *)
(* killed, once the updates are handled every announced service that is    *)
(* not spoilt has its servers, and its address and node ports unless a     *)
(* killed process left a table behind.                                     *)
THEOREM ServedOnceSettled == Spec => []LatestServed
<1>1. ProxyInv => LatestServed
  <2> SUFFICES ASSUME ProxyInv, Settled, NEW s \in DOMAIN latest \ spoilt
               PROVE  Served(s)
    BY DEF LatestServed, Served
  <2>1. proxy # "ended" /\ s \notin Uids(AddedServices)
    BY SettledLines DEF Settled, Uids
  <2> QED
    BY <2>1 DEF ProxyInv, ServedInv
<1>2. Init => ProxyInv
  BY ProxyInit
<1>3. ProxyInv /\ [Next]_vars => ProxyInv'
  BY ProxyStep
<1> QED
  BY <1>1, <1>2, <1>3, PTL DEF Spec

(* pkg/kubeproxy: no name, host or nginx file outlives its object, but the *)
(* files of a DNS object that was overtaken by the deletion of another.    *)
THEOREM NamesEnd == Spec => []NoNameOutlives
<1>1. ProxyInv => NoNameOutlives
  <2> SUFFICES ASSUME ProxyInv, Settled, ~ leftover PROVE NoNameOutlives
    BY DEF NoNameOutlives
  <2>1. SetUp = DOMAIN latest /\ SetUpDNS = latestDNS
    BY SettledLines
  <2> QED
    BY <2>1 DEF ProxyInv, NamesInv, NoNameOutlives
<1>2. Init => ProxyInv
  BY ProxyInit
<1>3. ProxyInv /\ [Next]_vars => ProxyInv'
  BY ProxyStep
<1> QED
  BY <1>1, <1>2, <1>3, PTL DEF Spec

(* pkg/kubeproxy: of services no two of whose ports share a target, the    *)
(* table then holds exactly what the services announced ask for, whatever  *)
(* order the additions, deletions and differences arrived in.  Of two      *)
(* ports with one target the last has the routes, or, where the kernel     *)
(* refused it its server, the other: see EveryPortRouted.                  *)
THEOREM RulesAreExact ==
    ASSUME DistinctTargets
    PROVE  Spec => []RulesExact
<1> DEFINE Inv == ProxyInv /\ TracedInv /\ RoutesInv
<1>1. Inv => RulesExact
  <2> SUFFICES ASSUME ProxyInv, RoutesInv, Settled, ~ leftover PROVE RulesExact
    BY DEF RulesExact
  <2>1. /\ SetUp = DOMAIN latest /\ proxy # "ended"
        /\ Uids(DeletedServices) = {} /\ ServiceAdds = {} /\ ServiceMoves = {}
    BY SettledLines DEF Settled, Uids
  <2>2. virtuals \subseteq UNION {VirtualsOf(s) : s \in DOMAIN latest}
    BY <2>1 DEF ProxyInv, ServedInv
  <2>3. addrs \subseteq {clusterIP[s] : s \in DOMAIN latest}
    <3> SUFFICES ASSUME NEW ip \in addrs PROVE \E s \in DOMAIN latest : ip = clusterIP[s]
      OBVIOUS
    <3>1. PICK v \in virtuals : v[1] = ip
      BY DEF ProxyInv, ServedInv
    <3>2. PICK s \in DOMAIN latest : v \in VirtualsOf(s)
      BY <2>2
    <3>3. ip # HostIP
      BY PoolAssumption DEF ProxyInv, TypeInv, KernelTyped, PoolAssumption
    <3> QED
      BY <3>1, <3>2, <3>3, VirtualsOfPorts
  <2>4. routes \subseteq UNION {RoutesOf(s, latest[s]) : s \in DOMAIN latest}
    <3> SUFFICES ASSUME NEW r \in routes PROVE \E s \in DOMAIN latest : r \in RoutesOf(s, latest[s])
      OBVIOUS
    <3>1. PICK s \in DOMAIN latest : r \in RoutesOf(s, {r[2]}) /\ Backs(r[2], s)
      BY <2>1 DEF RoutesInv, RouteKnown, Leaving
    <3> QED
      BY <3>1, RoutesOfMember DEF Backs
  <2>5. ASSUME NEW s \in DOMAIN latest \ spoilt PROVE RoutesOf(s, latest[s]) \subseteq routes
    <3> SUFFICES ASSUME NEW r \in RoutesOf(s, latest[s]) PROVE r \in routes
      OBVIOUS
    <3>1. r \in RoutesOf(s, {r[2]}) /\ r[2] \in latest[s]
      BY RoutesOfMember
    <3> QED
      BY <2>1, <3>1 DEF RoutesInv, EndpointRouted, Coming
  <2> QED
    BY <2>2, <2>3, <2>4, <2>5 DEF RulesExact
<1>2. Init => Inv
  <2> SUFFICES ASSUME Init PROVE Inv
    OBVIOUS
  <2>1. ServiceLine = <<>> /\ DOMAIN latest = {} /\ routes = {}
    BY LinesForgotten DEF Init, NoServices
  <2>2. ServiceAdds = {} /\ ServiceMoves = {}
    BY <2>1, NoItems DEF ServiceAdds, ServiceMoves
  <2>3. TracedInv /\ RoutesInv
    BY <2>1, <2>2 DEF TracedInv, Traced, RoutesInv
  <2> QED
    BY <2>3, ProxyInit
<1>3. Inv /\ [Next]_vars => Inv'
  BY ProxyStep, TracedStep, RoutesStep DEF ProxyInv
<1> HIDE DEF Inv
<1> QED
  BY <1>1, <1>2, <1>3, PTL DEF Spec
=============================================================================
