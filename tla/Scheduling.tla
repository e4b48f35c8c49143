----------------------------- MODULE Scheduling -----------------------------
(***************************************************************************)
(* Scheduler, kubelets and API server together: how a stored pod comes to  *)
(* be on one node's list.  The scheduler is pkg/scheduler/scheduler.go, a  *)
(* loop of one goroutine; of a kubelet this module keeps what touches      *)
(* placement (pkg/kubelet/app/server.go): registering, polling its pods,   *)
(* and leaving.  Each HTTP request is one step, a handler of PodRegistry,  *)
(* so everything a caller keeps between two of its requests may be stale.  *)
(*                                                                         *)
(* PutPodStatus is left out: nobody here reads a pod's status.             *)
(***************************************************************************)
EXTENDS PodRegistry

CONSTANTS
    Policies,  \* the policies a scheduler may be started with
    Affine,    \* pairs <pod uid, node uid>: the node bears all the pod's labels
    RRPeriod   \* roundRobinCount is kept modulo this multiple of every node count

ASSUME PolicyAssumption ==
    Policies \subseteq {"Round_Policy", "Random_Policy", "NodeAffinity_Policy"}
ASSUME AffineAssumption == Affine \subseteq PodUids \X NodeUids
ASSUME RRPeriodAssumption ==
    /\ RRPeriod \in Nat \ {0}
    /\ \A len \in 1 .. NodePoolSize : RRPeriod % len = 0

VARIABLES
    pc,               \* the scheduler: "list", "nodes", "place" or "dead"
    todo,             \* syncLoop: the pods of the list still to come
    pod,              \* syncLoop: the pod at hand, or None
    seen,             \* syncLoop: the answer of informNodes
    roundRobinCount,
    policy,           \* the scheduler's argument (cmd/scheduler)
    kubelet,          \* per node uid: "new", "up" or "down"
    nodeName,         \* KubeletServer.nodeName: the name the kubelet registered as
    latestLocalPods   \* KubeletServer.latestLocalPods

schedVars   == <<pc, todo, pod, seen, roundRobinCount, policy>>
kubeletVars == <<kubelet, nodeName, latestLocalPods>>
allVars     == <<vars, schedVars, kubeletVars>>

SchedulingInit ==
    /\ Init
    /\ pc = "list" /\ todo = {} /\ pod = None /\ seen = {}
    /\ roundRobinCount = 0 /\ policy \in Policies
    /\ kubelet = [w \in NodeUids |-> "new"]
    /\ nodeName = [w \in NodeUids |-> None]
    /\ latestLocalPods = [w \in NodeUids |-> {}]

-----------------------------------------------------------------------------
(* Users (kubectl) *)

Users ==
    /\ \E nm \in Names, ok \in BOOLEAN, k \in 0 .. 2 :
          \/ \E u \in PodUids : AddPod(nm, u, k, ok)
          \/ DeletePod(nm, k, ok)
    /\ UNCHANGED <<schedVars, kubeletVars>>

-----------------------------------------------------------------------------
(* Kubelets *)

(* KubeletServer.Run registers first; without the success answer it is     *)
(* log.Fatalf, whatever the server already wrote.                          *)
KubeletStart(w) ==
    /\ kubelet[w] = "new"
    /\ \E readable, ok \in BOOLEAN, k \in 0 .. 3 :
          /\ RegisterNode(w, readable, k, ok)
          /\ kubelet' = [kubelet EXCEPT ![w] = IF ok THEN "up" ELSE "down"]
          /\ nodeName' = IF ok THEN [nodeName EXCEPT ![w] = nodes'[w]] ELSE nodeName
    /\ UNCHANGED <<latestLocalPods, schedVars>>

(* Mutant of KubeletPoll: pods that left the answer stay listed.           *)
KubeletPollGrows(w) ==
    /\ kubelet[w] = "up"
    /\ \E unread \in SUBSET Mapped(nodeName[w]) : \E kept \in SUBSET Mapped(nodeName[w]) :
          /\ GetPodsByNode(nodeName[w], unread, kept)
          /\ latestLocalPods' =
                [latestLocalPods EXCEPT ![w] = @ \union PodsAnswered(nodeName[w], unread)]
    /\ UNCHANGED <<kubelet, nodeName, schedVars>>

(* updateLocalPods: the answer of GetPodsByNode replaces the list, and the *)
(* sync loop is sent the difference.                                       *)
KubeletPoll(w) ==
    /\ kubelet[w] = "up"
    /\ \E unread \in SUBSET Mapped(nodeName[w]) : \E kept \in SUBSET Mapped(nodeName[w]) :
          /\ GetPodsByNode(nodeName[w], unread, kept)
          /\ latestLocalPods' =
                [latestLocalPods EXCEPT ![w] = PodsAnswered(nodeName[w], unread)]
    /\ UNCHANGED <<kubelet, nodeName, schedVars>>

(* The server answers but the answer is lost: the list stays as it was.    *)
KubeletPollLost(w) ==
    /\ kubelet[w] = "up"
    /\ \E unread \in SUBSET Mapped(nodeName[w]) : \E kept \in SUBSET Mapped(nodeName[w]) :
          GetPodsByNode(nodeName[w], unread, kept)
    /\ UNCHANGED <<kubeletVars, schedVars>>

(* An interrupt: the sync loop ends, DoCleanUp unregisters the node; an    *)
(* error is only logged.                                                   *)
KubeletExit(w) ==
    /\ kubelet[w] = "up"
    /\ \E ok \in BOOLEAN, k \in 0 .. 4 : UnregisterNode(nodeName[w], k, ok)
    /\ kubelet' = [kubelet EXCEPT ![w] = "down"]
    /\ UNCHANGED <<nodeName, latestLocalPods, schedVars>>

(* The machine dies.  Nothing watches a node, so it stays registered.      *)
KubeletCrash(w) ==
    /\ kubelet[w] = "up"
    /\ kubelet' = [kubelet EXCEPT ![w] = "down"]
    /\ UNCHANGED <<vars, nodeName, latestLocalPods, schedVars>>

-----------------------------------------------------------------------------
(* Scheduler *)

(* An error of any request ends Run for good.                              *)
Die ==
    /\ pc' = "dead" /\ todo' = {} /\ pod' = None /\ seen' = {}
    /\ UNCHANGED roundRobinCount

(* The request fails and the server's state stays as it is.                *)
Fails ==
    /\ faults < MaxFaults
    /\ faults' = faults + 1
    /\ Die
    /\ UNCHANGED <<podVars, nodeVars, hosts, used, kubeletVars>>

(* The loop over the list: the next pod, in any order (GetSubKeysValues    *)
(* returns a map), or the sleep before the next list.                      *)
Advance(rest) ==
    \/ /\ rest = {}
       /\ pc' = "list" /\ todo' = {} /\ pod' = None
    \/ \E u \in rest :
          pc' = "nodes" /\ todo' = rest \ {u} /\ pod' = u

(* informPods.  GetUnscheduledPodHandler ignores a failure to read the     *)
(* host-nodes keys: every stored pod is then taken for unscheduled.        *)
InformPods ==
    /\ pc = "list"
    /\ \/ /\ Advance(Unscheduled)
          /\ UNCHANGED faults
       \/ /\ ReadErrors /\ faults < MaxFaults
          /\ Advance({u \in PodUids : pods[u] # None})
          /\ faults' = faults + 1
    /\ UNCHANGED <<podVars, nodeVars, hosts, used, kubeletVars, seen, roundRobinCount>>

(* Mutant of InformNodes: unregistered nodes are listed with the others.   *)
InformNodesUnfiltered ==
    /\ pc = "nodes"
    /\ pc' = "place"
    /\ seen' = {<<w, nodes[w]>> : w \in NodeUids}
    /\ UNCHANGED <<vars, kubeletVars, todo, pod, roundRobinCount>>

(* informNodes, asked anew for every pod: nodes with their names.          *)
InformNodes ==
    /\ pc = "nodes"
    /\ pc' = "place"
    /\ seen' = {<<w, nodes[w]>> : w \in {x \in NodeUids : nodes[x] # None}}
    /\ UNCHANGED <<vars, kubeletVars, todo, pod, roundRobinCount>>

(* GetAllNodesHandler sorts by name: the nodes that may stand at index num. *)
(* (It compares strings, the model numbers: one order up to ten names.)    *)
At(num) ==
    {p \in seen : /\ Cardinality({q \in seen : q[2] < p[2]}) <= num
                  /\ num < Cardinality({q \in seen : q[2] <= p[2]})}

Matching == {p \in seen : <<pod, p[1]>> \in Affine}

(* nodesInRoundPolicy, nodesInRandomPolicy, nodesInNodeAffinityPolicy.     *)
Selected ==
    CASE policy = "Round_Policy" -> At(roundRobinCount % Cardinality(seen))
      [] policy = "Random_Policy" -> seen
      [] policy = "NodeAffinity_Policy" ->
            IF Matching = {} THEN seen
            ELSE {p \in Matching : \A q \in Matching : p[2] <= q[2]}

NextRoundRobinCount ==
    IF policy = "Round_Policy" THEN (roundRobinCount + 1) % RRPeriod
    ELSE roundRobinCount

(* Mutant of AddPodToNode: takes a placement for done that was never sent. *)
AddPodToNodeUnsent(n) == Advance(todo) /\ UNCHANGED <<podVars, nodeVars, hosts, used, faults>>

(* addPodToNode: the request succeeds, fails half-way, or finds that the   *)
(* pod has been deleted since it was listed.                               *)
AddPodToNode(n) ==
    \/ SchedulePod(pod, n, HostsOf(pod), TRUE, TRUE) /\ Advance(todo)
    \/ /\ \E gone \in SUBSET HostsOf(pod), set \in BOOLEAN :
             SchedulePod(pod, n, gone, set, FALSE)
       /\ pc' = "dead" /\ todo' = {} /\ pod' = None
    \/ /\ pods[pod] = None
       /\ pc' = "dead" /\ todo' = {} /\ pod' = None
       /\ UNCHANGED vars

PlacePod ==
    /\ pc = "place"
    /\ seen' = {}
    /\ \/ /\ seen = {}                  \* a nil node: the pod is passed over
          /\ Advance(todo)
          /\ UNCHANGED <<vars, roundRobinCount>>
       \/ /\ seen # {}
          /\ \E p \in Selected : AddPodToNode(p[2])
          /\ roundRobinCount' = NextRoundRobinCount
    /\ UNCHANGED kubeletVars

RequestFails == pc \in {"list", "nodes"} /\ Fails /\ UNCHANGED policy

SyncLoop == (InformPods \/ InformNodes \/ PlacePod) /\ UNCHANGED policy

-----------------------------------------------------------------------------
SchedulingNext ==
    \/ Users
    \/ \E w \in NodeUids :
          \/ KubeletStart(w) \/ KubeletPoll(w) \/ KubeletPollLost(w)
          \/ KubeletExit(w) \/ KubeletCrash(w)
    \/ SyncLoop
    \/ RequestFails

SchedulingSpec == SchedulingInit /\ [][SchedulingNext]_allVars

(* The scheduler's loop sleeps a second and goes on; a kubelet polls every *)
(* seven seconds.  Nobody must create, delete, start or stop anything.     *)
FairSchedulingSpec ==
    /\ SchedulingSpec
    /\ WF_allVars(SyncLoop)
    /\ \A w \in NodeUids : WF_allVars(KubeletPoll(w))

-----------------------------------------------------------------------------
(* Type invariant of the scheduler's and the kubelets' own state           *)
(* (scheduler.go, app/server.go).                                          *)
SchedulingTypeOK ==
    /\ pc \in {"list", "nodes", "place", "dead"}
    /\ todo \in SUBSET PodUids
    /\ pod \in PodUids \union {None}
    /\ pod = None <=> pc \in {"list", "dead"}
    /\ seen \in SUBSET (NodeUids \X NodeNames)
    /\ roundRobinCount \in 0 .. RRPeriod - 1 /\ policy \in Policies
    /\ kubelet \in [NodeUids -> {"new", "up", "down"}]
    /\ nodeName \in [NodeUids -> NodeNames \union {None}]
    /\ latestLocalPods \in [NodeUids -> SUBSET PodUids]

(* scheduler.go, server.go and the placement handlers together: although   *)
(* the scheduler acts on old lists and a kubelet learns of a move up to    *)
(* seven seconds late, no pod is ever on the list of two running kubelets. *)
(* An orphan left by a cut DeletePod is excepted: its mapping is lost when *)
(* the next pod of its name is placed on the same node.                    *)
NoDoubleRun ==
    OrphanPods = {} =>
        \A w1, w2 \in NodeUids :
            /\ kubelet[w1] = "up" /\ kubelet[w2] = "up"
            /\ latestLocalPods[w1] \intersect latestLocalPods[w2] # {}
            => w1 = w2

(* updateLocalPods: what a running kubelet lists and the cluster still     *)
(* stores is mapped to the kubelet's own node and to no other.             *)
ListedPodsAreMapped ==
    OrphanPods = {} =>
        \A w \in NodeUids : kubelet[w] = "up" =>
            \A u \in latestLocalPods[w] :
                pods[u] # None => \E p \in HostsOf(u) : p[1] = nodeName[w]

(* syncLoop: a stored pod no node hosts gets a host, unless it is deleted, *)
(* or there is no node, or the scheduler has ended.                        *)
Stored(u) == pods[u] # None
NoNodes   == \A w \in NodeUids : nodes[w] = None

PlacedWhileSchedulerLives ==
    \A u \in PodUids :
        Stored(u) ~> (HostsOf(u) # {} \/ ~Stored(u) \/ NoNodes \/ pc = "dead")

(* updateLocalPods, GetPodsByNodeHandler: once nothing changes any more,   *)
(* every running kubelet's list is what the cluster maps to its node.      *)
(* (With an orphan things may never stop changing: PlacementSettles.)      *)
ListsConverge ==
    <>[](OrphanPods = {} =>
            \A w \in NodeUids : kubelet[w] = "up" =>
                latestLocalPods[w] = PodsAnswered(nodeName[w], {}))

(* README 5.1: "The Scheduler retrieves this unscheduled Pod during its    *)
(* polling and initiates a scheduling request to the apiserver".           *)
EveryPodPlaced ==
    \A u \in PodUids : Stored(u) ~> (HostsOf(u) # {} \/ ~Stored(u) \/ NoNodes)

(* README 5.7: "restarting the control plane is required to have no impact *)
(* on the Pods and Services in the cluster": wherever a handler was cut    *)
(* short, every pod's placement comes to rest.                             *)
PlacementSettles ==
    \A u \in PodUids : <>[](HostsOf(u) = {}) \/ <>[](HostsOf(u) # {})

(* README 5.8: when a kubelet exits, "the Pods originally scheduled to     *)
(* that node will return to an Unscheduled state": no stored pod stays     *)
(* mapped to a node that is not registered.                                *)
NoPodOnUnregisteredNode ==
    \A n \in NodeNames, h \in HostKeys :
        /\ hosts[n][h] # None
        /\ pods[hosts[n][h]] # None
        => nodeKey[n] # None
=============================================================================
