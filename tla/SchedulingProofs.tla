--------------------------- MODULE SchedulingProofs ---------------------------
(* Proofs about Scheduling: the scheduler's and the kubelets' own state is *)
(* well typed, what a running kubelet lists is mapped to its node, and no  *)
(* pod is listed by two of them, for any number of pods, kubelets, crashes *)
(* and failures and under every placement policy.                          *)
EXTENDS Scheduling, PodRegistryProofs

(* KubeletServer.Run: a kubelet that runs has been told its name.          *)
UpIsNamed == \A w \in NodeUids : kubelet[w] = "up" => nodeName[w] \in NodeNames

SchedulerInv == SchedulingTypeOK /\ UpIsNamed

-----------------------------------------------------------------------------
(* The registry underneath.                                                *)

(* A request that fails before the server wrote anything: to the registry  *)
(* it is a failure counted, and nothing else.                              *)
RequestLost ==
    /\ UNCHANGED <<podVars, nodeVars, hosts, used>>
    /\ faults < MaxFaults /\ faults' = faults + 1

(* The node a policy selects is one of those informNodes answered.         *)
LEMMA SelectedIsSeen == SchedulingTypeOK => Selected \subseteq seen
  BY PolicyAssumption DEF SchedulingTypeOK, Selected, At, Matching

(* The pod SyncLoop places is a pod, and the node a name of the pool.      *)
LEMMA PlacementSteps ==
    ASSUME SchedulingTypeOK, PlacePod
    PROVE  /\ pod \in PodUids
           /\ \/ UNCHANGED vars
              \/ \E n \in NodeNames, set \in BOOLEAN, ok \in BOOLEAN :
                    \E gone \in SUBSET HostsOf(pod) :
                        /\ SchedulePod(pod, n, gone, set, ok)
                        /\ \/ ok /\ Advance(todo)
                           \/ pc' = "dead" /\ todo' = {} /\ pod' = None
<1>1. pod \in PodUids
  BY DEF SchedulingTypeOK, PlacePod
<1>2. ASSUME NEW p \in Selected, AddPodToNode(p[2])
      PROVE  \/ UNCHANGED vars
             \/ \E n \in NodeNames, set \in BOOLEAN, ok \in BOOLEAN :
                   \E gone \in SUBSET HostsOf(pod) :
                       /\ SchedulePod(pod, n, gone, set, ok)
                       /\ \/ ok /\ Advance(todo)
                          \/ pc' = "dead" /\ todo' = {} /\ pod' = None
  <2>1. p[2] \in NodeNames
    BY SelectedIsSeen, <1>1, SchedulingTypeOK DEF SchedulingTypeOK
  <2>2. CASE SchedulePod(pod, p[2], HostsOf(pod), TRUE, TRUE) /\ Advance(todo)
    BY <2>1, <2>2
  <2>3. CASE /\ \E gone \in SUBSET HostsOf(pod), set \in BOOLEAN :
                   SchedulePod(pod, p[2], gone, set, FALSE)
             /\ pc' = "dead" /\ todo' = {} /\ pod' = None
    BY <2>1, <2>3
  <2> QED
    BY <1>2, <2>2, <2>3 DEF AddPodToNode
<1> QED
  BY <1>1, <1>2 DEF PlacePod

(* Every step of scheduler, kubelets and users is to the registry one of   *)
(* its handlers, a lost request, or nothing.                               *)
LEMMA RegistrySteps ==
    ASSUME SchedulerInv, [SchedulingNext]_allVars
    PROVE  [Next]_vars \/ RequestLost
<1> USE DEF SchedulerInv, SchedulingTypeOK, UpIsNamed
<1>1. ASSUME Users PROVE Next
  BY <1>1 DEF Users, Next
<1>2. ASSUME NEW w \in NodeUids, KubeletStart(w) PROVE Next
  <2>1. PICK readable \in BOOLEAN, ok \in BOOLEAN, k \in 0 .. 3 :
           RegisterNode(w, readable, k, ok)
    BY <1>2 DEF KubeletStart
  <2>2. k \in 0 .. 4
    OBVIOUS
  <2> QED
    BY <2>1, <2>2, Zenon DEF Next
<1>3. ASSUME NEW w \in NodeUids, KubeletPoll(w) \/ KubeletPollLost(w) PROVE Next
  <2>1. nodeName[w] \in NodeNames
    BY <1>3 DEF KubeletPoll, KubeletPollLost
  <2>2. \E unread \in SUBSET Mapped(nodeName[w]) : \E kept \in SUBSET Mapped(nodeName[w]) :
           GetPodsByNode(nodeName[w], unread, kept)
    BY <1>3, Zenon DEF KubeletPoll, KubeletPollLost
  <2> QED
    BY <2>1, <2>2, Zenon DEF Next
<1>4. ASSUME NEW w \in NodeUids, KubeletExit(w) PROVE Next
  <2>1. nodeName[w] \in NodeNames
    BY <1>4 DEF KubeletExit
  <2>2. \E ok \in BOOLEAN, k \in 0 .. 4 : UnregisterNode(nodeName[w], k, ok)
    BY <1>4 DEF KubeletExit
  <2> QED
    BY <2>1, <2>2, Zenon DEF Next
<1>5. ASSUME NEW w \in NodeUids, KubeletCrash(w) PROVE UNCHANGED vars
  BY <1>5 DEF KubeletCrash
<1>6. ASSUME InformPods PROVE UNCHANGED vars \/ RequestLost
  BY <1>6 DEF InformPods, RequestLost, vars, podVars, nodeVars
<1>7. ASSUME InformNodes PROVE UNCHANGED vars
  BY <1>7 DEF InformNodes
<1>8. ASSUME PlacePod PROVE [Next]_vars
  <2>1. ASSUME NEW n \in NodeNames, NEW set \in BOOLEAN, NEW ok \in BOOLEAN,
               NEW gone \in SUBSET HostsOf(pod), SchedulePod(pod, n, gone, set, ok)
        PROVE  Next
    BY <1>8, <2>1, PlacementSteps, Zenon DEF Next
  <2> QED
    BY <1>8, <2>1, PlacementSteps
<1>9. ASSUME RequestFails PROVE RequestLost
  BY <1>9 DEF RequestFails, Fails, RequestLost
<1>10. ASSUME UNCHANGED allVars PROVE UNCHANGED vars
  BY <1>10 DEF allVars
<1> QED
  BY <1>1, <1>2, <1>3, <1>4, <1>5, <1>6, <1>7, <1>8, <1>9, <1>10
     DEF SchedulingNext, SyncLoop

(* What is proved of the registry by itself therefore holds of it here.    *)
LEMMA RequestLostIsHarmless ==
    ASSUME RequestLost, faults \in Nat
    PROVE  /\ RegistryInv => RegistryInv'
           /\ UniqueInv => UniqueInv'
           /\ OrphanPods' = OrphanPods
<1>1. faults' \in 0 .. MaxFaults
  BY FaultAssumption DEF RequestLost
<1> QED
  BY <1>1, FailuresElsewhere DEF RequestLost

LEMMA RegistryInvPreserved ==
    RegistryInv /\ SchedulerInv /\ [SchedulingNext]_allVars => RegistryInv'
  BY RegistrySteps, RequestLostIsHarmless, RegistryInvStep, FaultAssumption
     DEF RegistryInv, TypeOK

LEMMA UniqueInvPreservedHere ==
    ~ReadErrors /\ RegistryInv /\ UniqueInv /\ SchedulerInv /\ [SchedulingNext]_allVars
        => UniqueInv'
  BY RegistrySteps, RequestLostIsHarmless, UniqueInvPreserved, FaultAssumption
     DEF RegistryInv, TypeOK

-----------------------------------------------------------------------------
(* The type invariant.                                                     *)

LEMMA AdvanceTyped ==
    ASSUME NEW rest \in SUBSET PodUids, Advance(rest)
    PROVE  /\ pc' \in {"list", "nodes"}
           /\ todo' \in SUBSET PodUids /\ pod' \in PodUids \union {None}
           /\ pod' = None <=> pc' = "list"
  BY NoneAssumption DEF Advance

LEMMA SchedulerInvPreserved ==
    RegistryInv /\ SchedulerInv /\ [SchedulingNext]_allVars => SchedulerInv'
<1> SUFFICES ASSUME RegistryInv, SchedulerInv, [SchedulingNext]_allVars
             PROVE  SchedulerInv'
  OBVIOUS
<1> USE DEF SchedulerInv, SchedulingTypeOK, UpIsNamed
<1>0. TypeOK'
  BY RegistryInvPreserved DEF RegistryInv
<1>1. CASE Users
  BY <1>1 DEF Users, schedVars, kubeletVars
<1>2. ASSUME NEW w \in NodeUids, KubeletStart(w) PROVE SchedulerInv'
  <2>1. PICK readable \in BOOLEAN, ok \in BOOLEAN, k \in 0 .. 3 :
          /\ RegisterNode(w, readable, k, ok)
          /\ kubelet' = [kubelet EXCEPT ![w] = IF ok THEN "up" ELSE "down"]
          /\ nodeName' = IF ok THEN [nodeName EXCEPT ![w] = nodes'[w]] ELSE nodeName
    BY <1>2 DEF KubeletStart
  <2>2. ok => nodes'[w] \in NodeNames
    <3> DEFINE known == IF readable THEN nodePool ELSE {}
               n     == Min(NodeNames \ known)
    <3> SUFFICES ASSUME ok PROVE nodes'[w] \in NodeNames
      OBVIOUS
    <3>1. known \in SUBSET NodeNames /\ known # NodeNames
      BY <2>1 DEF RegisterNode, RegistryInv, TypeOK
    <3>2. n \in NodeNames
      BY <3>1, DrawnNameIsFree
    <3>3. k >= 2 /\ nodes' = IF k >= 2 THEN [nodes EXCEPT ![w] = n] ELSE nodes
      BY <2>1 DEF RegisterNode, Ends
    <3> HIDE DEF n, known
    <3> QED
      BY <3>2, <3>3 DEF RegistryInv, TypeOK
  <2>3. UNCHANGED <<latestLocalPods, pc, todo, pod, seen, roundRobinCount, policy>>
    BY <1>2 DEF KubeletStart, schedVars
  <2> QED
    BY <2>1, <2>2, <2>3
<1>3. ASSUME NEW w \in NodeUids, KubeletPoll(w) PROVE SchedulerInv'
  <2>1. PICK unread : latestLocalPods' =
                [latestLocalPods EXCEPT ![w] = PodsAnswered(nodeName[w], unread)]
    BY <1>3 DEF KubeletPoll
  <2>2. PodsAnswered(nodeName[w], unread) \subseteq PodUids
    BY <1>3 DEF KubeletPoll, PodsAnswered, Mapped, RegistryInv, TypeOK
  <2> QED
    BY <1>3, <2>1, <2>2 DEF KubeletPoll, schedVars
<1>4. ASSUME NEW w \in NodeUids, KubeletPollLost(w) \/ KubeletExit(w) \/ KubeletCrash(w)
      PROVE  SchedulerInv'
  BY <1>4 DEF KubeletPollLost, KubeletExit, KubeletCrash, schedVars, kubeletVars
<1>5. CASE InformPods /\ UNCHANGED policy
  <2>1. /\ Unscheduled \in SUBSET PodUids
        /\ {u \in PodUids : pods[u] # None} \in SUBSET PodUids
    BY DEF Unscheduled
  <2>2. PICK rest \in SUBSET PodUids : Advance(rest)
    BY <1>5, <2>1 DEF InformPods
  <2> QED
    BY <1>5, <2>2, AdvanceTyped DEF InformPods, kubeletVars
<1>6. CASE InformNodes /\ UNCHANGED policy
  <2>1. {<<w, nodes[w]>> : w \in {x \in NodeUids : nodes[x] # None}}
            \in SUBSET (NodeUids \X NodeNames)
    BY DEF RegistryInv, TypeOK
  <2> QED
    BY <1>6, <2>1 DEF InformNodes, kubeletVars
<1>7. CASE PlacePod /\ UNCHANGED policy
  <2>1. \/ Advance(todo)
        \/ pc' = "dead" /\ todo' = {} /\ pod' = None
    BY <1>7 DEF PlacePod, AddPodToNode
  <2>2. /\ pc' \in {"list", "nodes", "dead"}
        /\ todo' \in SUBSET PodUids /\ pod' \in PodUids \union {None}
        /\ pod' = None <=> pc' \in {"list", "dead"}
    BY <2>1, AdvanceTyped
  <2>3. roundRobinCount' \in 0 .. RRPeriod - 1
    BY <1>7, RRPeriodAssumption DEF PlacePod, NextRoundRobinCount
  <2>4. seen' = {} /\ UNCHANGED <<kubelet, nodeName, latestLocalPods, policy>>
    BY <1>7 DEF PlacePod, kubeletVars
  <2> QED
    BY <2>2, <2>3, <2>4
<1>8. CASE RequestFails
  BY <1>8 DEF RequestFails, Fails, Die, kubeletVars
<1>9. CASE UNCHANGED allVars
  BY <1>9 DEF allVars, schedVars, kubeletVars
<1> QED
  BY <1>1, <1>2, <1>3, <1>4, <1>5, <1>6, <1>7, <1>8, <1>9 DEF SchedulingNext, SyncLoop

LEMMA InitiallyRight == SchedulingInit => RegistryInv /\ UniqueInv /\ SchedulerInv
<1> SUFFICES ASSUME SchedulingInit PROVE RegistryInv /\ UniqueInv /\ SchedulerInv
  OBVIOUS
<1>1. RegistryInv /\ UniqueInv
  BY RegistryInvInitially DEF SchedulingInit
<1>2. SchedulerInv
  BY RRPeriodAssumption DEF SchedulingInit, SchedulerInv, SchedulingTypeOK, UpIsNamed
<1> QED
  BY <1>1, <1>2

LEMMA SchedulingInvHolds == SchedulingSpec => [](RegistryInv /\ SchedulerInv)
  BY InitiallyRight, RegistryInvPreserved, SchedulerInvPreserved, PTL DEF SchedulingSpec

(* scheduler.go, app/server.go: the scheduler always places a pod on a     *)
(* node of the pool, whatever it read and whenever it read it.             *)
THEOREM SchedulingTypeCorrect == SchedulingSpec => []SchedulingTypeOK
  BY SchedulingInvHolds, PTL DEF SchedulerInv

(* The detailed cluster implements the registry: seen from the store, the  *)
(* scheduler's and the kubelets' requests are the handlers of routine.go   *)
(* one at a time, or are lost on the way.                                  *)
THEOREM ClusterImplementsRegistry ==
    SchedulingSpec => Init /\ [][Next \/ RequestLost]_vars
<1>1. SchedulingInit => Init
  BY DEF SchedulingInit
<1>2. RegistryInv /\ SchedulerInv /\ [SchedulingNext]_allVars => [Next \/ RequestLost]_vars
  BY RegistrySteps
<1> QED
  BY <1>1, <1>2, SchedulingInvHolds, PTL DEF SchedulingSpec

-----------------------------------------------------------------------------
(* Running kubelets hold their names, when a stored bitmap can be read.    *)

(* KubeletServer.Run, DoCleanUp: the node and the name key of a kubelet    *)
(* stay as its registration wrote them until it asks to leave itself.      *)
NamesKept ==
    \A w \in NodeUids : kubelet[w] = "up" =>
        nodes[w] = nodeName[w] /\ nodeKey[nodeName[w]] = w

(* KubeletServer.Run registers before it polls.                            *)
NewListNothing == \A w \in NodeUids : kubelet[w] = "new" => latestLocalPods[w] = {}

KubeletInv == NamesKept /\ NewListNothing

(* The name a kubelet runs under is its own.                               *)
LEMMA RunningNamesDiffer ==
    ASSUME KubeletInv, NEW v \in NodeUids, NEW w \in NodeUids,
           kubelet[v] = "up", kubelet[w] = "up", nodeName[v] = nodeName[w]
    PROVE  v = w
  BY DEF KubeletInv, NamesKept

(* The steps that neither start nor stop a kubelet.                        *)
LEMMA OtherSteps ==
    ASSUME [SchedulingNext]_allVars
    PROVE  \/ \E w \in NodeUids : KubeletStart(w) \/ KubeletExit(w) \/ KubeletCrash(w)
           \/ \E w \in NodeUids : KubeletPoll(w)
           \/ UNCHANGED <<nodeVars, kubeletVars>>
<1>1. Users => UNCHANGED <<nodeVars, kubeletVars>>
  BY DEF Users, AddPod, DeletePod
<1>2. \A w \in NodeUids : KubeletPollLost(w) => UNCHANGED <<nodeVars, kubeletVars>>
  BY DEF KubeletPollLost, GetPodsByNode
<1>3. InformPods => UNCHANGED <<nodeVars, kubeletVars>>
  BY DEF InformPods
<1>4. InformNodes => UNCHANGED <<nodeVars, kubeletVars>>
  BY DEF InformNodes, vars, nodeVars
<1>5. PlacePod => UNCHANGED <<nodeVars, kubeletVars>>
  BY DEF PlacePod, AddPodToNode, SchedulePod, vars, nodeVars
<1>6. RequestFails => UNCHANGED <<nodeVars, kubeletVars>>
  BY DEF RequestFails, Fails
<1>7. UNCHANGED allVars => UNCHANGED <<nodeVars, kubeletVars>>
  BY DEF allVars, vars, nodeVars, kubeletVars
<1> QED
  BY <1>1, <1>2, <1>3, <1>4, <1>5, <1>6, <1>7, Zenon DEF SchedulingNext, SyncLoop

LEMMA KubeletInvPreserved ==
    ~ReadErrors /\ RegistryInv /\ UniqueInv /\ SchedulerInv /\ KubeletInv
        /\ [SchedulingNext]_allVars => KubeletInv'
<1> SUFFICES ASSUME ~ReadErrors, RegistryInv, UniqueInv, SchedulerInv, KubeletInv,
                    [SchedulingNext]_allVars
             PROVE  KubeletInv'
  OBVIOUS
<1> USE DEF KubeletInv, NamesKept, NewListNothing
<1>0. /\ nodeKey \in [NodeNames -> NodeUids \union {None}]
      /\ nodes \in [NodeUids -> NodeNames \union {None}]
      /\ kubelet \in [NodeUids -> {"new", "up", "down"}]
      /\ nodeName \in [NodeUids -> NodeNames \union {None}]
      /\ latestLocalPods \in [NodeUids -> SUBSET PodUids]
      /\ \A w \in NodeUids : kubelet[w] = "up" => nodeName[w] \in NodeNames
      /\ None \notin NodeUids
  BY NoneAssumption DEF RegistryInv, TypeOK, SchedulerInv, SchedulingTypeOK, UpIsNamed
<1>1. ASSUME NEW v \in NodeUids, KubeletStart(v) PROVE KubeletInv'
  <2> DEFINE n == Min(NodeNames \ nodePool)
  <2>1. PICK ok \in BOOLEAN, k \in 0 .. 3 :
          /\ RegisterNode(v, TRUE, k, ok)
          /\ kubelet' = [kubelet EXCEPT ![v] = IF ok THEN "up" ELSE "down"]
          /\ nodeName' = IF ok THEN [nodeName EXCEPT ![v] = nodes'[v]] ELSE nodeName
    BY <1>1 DEF KubeletStart, RegisterNode
  <2>2. /\ nodePool # NodeNames /\ v \in NodeUids \ used
        /\ nodes' = IF k >= 2 THEN [nodes EXCEPT ![v] = n] ELSE nodes
        /\ nodeKey' = IF k >= 3 THEN [nodeKey EXCEPT ![n] = v] ELSE nodeKey
        /\ ok => k = 3
    BY <2>1 DEF RegisterNode, Ends
  <2>3. n \in NodeNames \ nodePool
    BY <2>2, DrawnNameIsFree DEF RegistryInv, TypeOK
  <2> HIDE DEF n
  <2>4. latestLocalPods' = latestLocalPods /\ kubelet[v] = "new"
    BY <1>1 DEF KubeletStart
  <2>5. NewListNothing'
    BY <1>0, <2>1, <2>4
  <2>6. NamesKept'
    <3> SUFFICES ASSUME NEW w \in NodeUids, kubelet'[w] = "up"
                 PROVE  nodes'[w] = nodeName'[w] /\ nodeKey'[nodeName'[w]] = w
      OBVIOUS
    <3>1. CASE w = v
      BY <1>0, <2>1, <2>2, <2>3, <3>1
    <3>2. CASE w # v
      <4>1. kubelet[w] = "up" /\ nodeName'[w] = nodeName[w] /\ nodes'[w] = nodes[w]
        BY <1>0, <2>1, <2>2, <3>2
      <4>2. nodeName[w] \in nodePool
        BY <1>0, <4>1, PoolAssumption, NoneAssumption DEF UniqueInv, BitsHeld, NodeNames, RegistryInv, TypeOK
      <4> QED
        BY <1>0, <2>2, <2>3, <4>1, <4>2
    <3> QED
      BY <3>1, <3>2
  <2> QED
    BY <2>5, <2>6
<1>2. ASSUME NEW v \in NodeUids, KubeletExit(v) PROVE KubeletInv'
  <2>1. PICK k \in 0 .. 4 :
          /\ nodeKey' = IF k >= 2 THEN [nodeKey EXCEPT ![nodeName[v]] = None] ELSE nodeKey
          /\ nodes' = IF k >= 3 THEN [nodes EXCEPT ![nodeKey[nodeName[v]]] = None] ELSE nodes
    BY <1>2 DEF KubeletExit, UnregisterNode
  <2>2. /\ kubelet[v] = "up" /\ kubelet' = [kubelet EXCEPT ![v] = "down"]
        /\ UNCHANGED <<nodeName, latestLocalPods>>
    BY <1>2 DEF KubeletExit
  <2>3. nodeKey[nodeName[v]] = v /\ nodeName[v] \in NodeNames
    BY <1>0, <2>2
  <2>4. NamesKept'
    <3> SUFFICES ASSUME NEW w \in NodeUids, kubelet'[w] = "up"
                 PROVE  nodes'[w] = nodeName'[w] /\ nodeKey'[nodeName'[w]] = w
      OBVIOUS
    <3>1. w # v /\ kubelet[w] = "up"
      BY <1>0, <2>2
    <3>2. nodeName[w] # nodeName[v]
      BY <2>2, <3>1, RunningNamesDiffer
    <3> QED
      BY <1>0, <2>1, <2>2, <2>3, <3>1, <3>2
  <2> QED
    BY <1>0, <2>2, <2>4
<1>3. ASSUME NEW v \in NodeUids, KubeletCrash(v) PROVE KubeletInv'
  BY <1>0, <1>3 DEF KubeletCrash, vars
<1>4. ASSUME NEW v \in NodeUids, KubeletPoll(v) PROVE KubeletInv'
  <2>1. /\ UNCHANGED nodeVars /\ UNCHANGED <<kubelet, nodeName>> /\ kubelet[v] = "up"
        /\ \A w \in NodeUids : w # v => latestLocalPods'[w] = latestLocalPods[w]
    BY <1>0, <1>4 DEF KubeletPoll, GetPodsByNode
  <2> QED
    BY <1>0, <2>1 DEF nodeVars
<1>5. CASE UNCHANGED <<nodeVars, kubeletVars>>
  BY <1>5 DEF nodeVars, kubeletVars
<1> QED
  BY <1>1, <1>2, <1>3, <1>4, <1>5, OtherSteps

-----------------------------------------------------------------------------
(* Lists and mappings, when reads do not fail alone.                       *)

(* informPods: what the scheduler still has to place is not placed, however*)
(* old its list: nobody else places pods.                                  *)
TodoInv ==
    /\ \A u \in todo : HostsOf(u) = {}
    /\ pod # None => HostsOf(pod) = {} /\ pod \notin todo

LEMMA HostsOfNone ==
    ASSUME NEW u, HostsOf(u) = {}, NEW n \in NodeNames, NEW h \in HostKeys
    PROVE  hosts[n][h] # u
<1>1. <<n, h>> \notin HostsOf(u) /\ <<n, h>> \in NodeNames \X HostKeys
  OBVIOUS
<1> QED
  BY <1>1 DEF HostsOf

(* A mapping that no placement writes goes or stays.                       *)
LEMMA MappingsShrink ==
    ASSUME RegistryInv, SchedulerInv, [SchedulingNext]_allVars, ~PlacePod
    PROVE  \A n \in NodeNames, h \in HostKeys : hosts'[n][h] \in {hosts[n][h], None}
<1>0. /\ hosts \in [NodeNames -> [HostKeys -> PodUids \union {None}]]
      /\ \A w \in NodeUids : kubelet[w] = "up" => nodeName[w] \in NodeNames
  BY DEF RegistryInv, TypeOK, SchedulerInv, UpIsNamed
<1>1. Users => hosts' = hosts
  BY DEF Users, AddPod, DeletePod
<1>2. \A w \in NodeUids : KubeletStart(w) => hosts' = hosts
  BY DEF KubeletStart, RegisterNode
<1>3. ASSUME NEW n, NEW unread, NEW kept, GetPodsByNode(n, unread, kept)
      PROVE  \A m \in NodeNames, h \in HostKeys : hosts'[m][h] \in {hosts[m][h], None}
  BY <1>0, <1>3 DEF GetPodsByNode
<1>4. \A w \in NodeUids : KubeletPoll(w) \/ KubeletPollLost(w) =>
         \E unread, kept : GetPodsByNode(nodeName[w], unread, kept)
  BY DEF KubeletPoll, KubeletPollLost
<1>5. ASSUME NEW w \in NodeUids, KubeletExit(w)
      PROVE  \A m \in NodeNames, h \in HostKeys : hosts'[m][h] \in {hosts[m][h], None}
  BY <1>0, <1>5 DEF KubeletExit, UnregisterNode
<1>6. \A w \in NodeUids : KubeletCrash(w) => hosts' = hosts
  BY DEF KubeletCrash, vars
<1>7. InformPods \/ InformNodes \/ RequestFails => hosts' = hosts
  BY DEF InformPods, InformNodes, RequestFails, Fails, vars
<1>8. UNCHANGED allVars => hosts' = hosts
  BY DEF allVars, vars
<1> QED
  BY <1>1, <1>2, <1>3, <1>4, <1>5, <1>6, <1>7, <1>8 DEF SchedulingNext, SyncLoop

LEMMA AdvanceKeepsTodo ==
    ASSUME NEW rest \in SUBSET PodUids, Advance(rest),
           \A u \in rest : HostsOf(u)' = {}
    PROVE  TodoInv'
<1>1. CASE rest = {} /\ todo' = {} /\ pod' = None
  BY <1>1 DEF TodoInv
<1>2. ASSUME NEW u \in rest, todo' = rest \ {u}, pod' = u PROVE TodoInv'
  BY <1>2 DEF TodoInv
<1> QED
  BY <1>1, <1>2 DEF Advance

LEMMA TodoInvPreserved ==
    ~ReadErrors /\ RegistryInv /\ SchedulerInv /\ TodoInv /\ [SchedulingNext]_allVars
        => TodoInv'
<1> SUFFICES ASSUME ~ReadErrors, RegistryInv, SchedulerInv, TodoInv, [SchedulingNext]_allVars
             PROVE  TodoInv'
  OBVIOUS
<1>0. /\ hosts \in [NodeNames -> [HostKeys -> PodUids \union {None}]]
      /\ todo \subseteq PodUids /\ pod \in PodUids \union {None} /\ None \notin PodUids
  BY NoneAssumption DEF RegistryInv, TypeOK, SchedulerInv, SchedulingTypeOK
<1>1. CASE PlacePod
  <2>1. pod \in PodUids /\ pod \notin todo
    BY <1>0, <1>1, PlacementSteps DEF SchedulerInv, TodoInv
  <2>2. CASE UNCHANGED vars /\ Advance(todo)
    <3>1. \A u \in todo : HostsOf(u)' = {}
      BY <2>2 DEF TodoInv, HostsOf, vars
    <3> QED
      BY <1>0, <2>2, <3>1, AdvanceKeepsTodo
  <2>3. ASSUME NEW n \in NodeNames, NEW set \in BOOLEAN, NEW ok \in BOOLEAN,
               NEW gone \in SUBSET HostsOf(pod), SchedulePod(pod, n, gone, set, ok),
               Advance(todo)
        PROVE  TodoInv'
    <3>1. ASSUME NEW u \in todo PROVE HostsOf(u)' = {}
      <4>1. HostsOf(u) = {} /\ u # pod /\ u # None
        BY <1>0, <2>1, <3>1 DEF TodoInv
      <4> SUFFICES ASSUME NEW m \in NodeNames, NEW h \in HostKeys PROVE hosts'[m][h] # u
        BY DEF HostsOf
      <4>2. hosts[m][h] # u
        BY <4>1, HostsOfNone
      <4>3. hosts'[m][h] = Remapped(m, h, pod, n, gone, set)
        BY <2>3 DEF SchedulePod
      <4> QED
        BY <4>1, <4>2, <4>3, Zenon DEF Remapped
    <3> QED
      BY <1>0, <2>3, <3>1, AdvanceKeepsTodo
  <2>4. CASE pc' = "dead" /\ todo' = {} /\ pod' = None
    BY <2>4 DEF TodoInv
  <2>5. \/ UNCHANGED vars /\ Advance(todo)
        \/ \E n \in NodeNames, set \in BOOLEAN, ok \in BOOLEAN :
              \E gone \in SUBSET HostsOf(pod) :
                  SchedulePod(pod, n, gone, set, ok) /\ Advance(todo)
        \/ pc' = "dead" /\ todo' = {} /\ pod' = None
    <3>1. CASE seen = {}
      BY <1>1, <3>1 DEF PlacePod
    <3>2. ASSUME NEW p \in Selected, AddPodToNode(p[2])
          PROVE  \/ \E n \in NodeNames, set \in BOOLEAN, ok \in BOOLEAN :
                      \E gone \in SUBSET HostsOf(pod) :
                          SchedulePod(pod, n, gone, set, ok) /\ Advance(todo)
                 \/ pc' = "dead" /\ todo' = {} /\ pod' = None
      <4>1. p[2] \in NodeNames
        BY SelectedIsSeen DEF SchedulerInv, SchedulingTypeOK
      <4> QED
        BY <3>2, <4>1 DEF AddPodToNode
    <3> QED
      BY <1>1, <3>1, <3>2 DEF PlacePod
  <2> QED
    BY <2>2, <2>3, <2>4, <2>5
<1>2. ASSUME ~PlacePod, NEW u \in PodUids, HostsOf(u) = {} PROVE HostsOf(u)' = {}
  <2>1. \A n \in NodeNames, h \in HostKeys : hosts'[n][h] \in {hosts[n][h], None}
    BY <1>2, MappingsShrink
  <2> QED
    BY <1>0, <1>2, <2>1 DEF HostsOf
<1>3. CASE ~PlacePod /\ UNCHANGED <<todo, pod>>
  BY <1>0, <1>2, <1>3 DEF TodoInv
<1>4. CASE ~PlacePod /\ InformPods
  <2>1. Advance(Unscheduled)
    BY <1>4 DEF InformPods
  <2>2. Unscheduled \in SUBSET PodUids /\ \A u \in Unscheduled : HostsOf(u) = {}
    BY DEF Unscheduled
  <2> QED
    BY <1>2, <1>4, <2>1, <2>2, AdvanceKeepsTodo
<1>5. CASE RequestFails
  BY <1>5 DEF RequestFails, Fails, Die, TodoInv
<1>6. Users \/ (\E w \in NodeUids : KubeletStart(w) \/ KubeletPoll(w) \/ KubeletPollLost(w)
                                     \/ KubeletExit(w) \/ KubeletCrash(w))
         => UNCHANGED <<todo, pod>>
  BY DEF Users, KubeletStart, KubeletPoll, KubeletPollLost, KubeletExit, KubeletCrash, schedVars
<1>7. InformNodes \/ UNCHANGED allVars => UNCHANGED <<todo, pod>>
  BY DEF InformNodes, allVars, schedVars
<1> QED
  BY <1>1, <1>3, <1>4, <1>5, <1>6, <1>7 DEF SchedulingNext, SyncLoop

(* updateLocalPods: a kubelet lists uids the server drew.                  *)
ListedUsed == \A w \in NodeUids : kubelet[w] = "up" => latestLocalPods[w] \subseteq used

(* What a kubelet lists after a step it listed before, unless it just asked.*)
LEMMA ListSteps ==
    ASSUME RegistryInv, SchedulerInv, KubeletInv, [SchedulingNext]_allVars,
           NEW w \in NodeUids, kubelet'[w] = "up", NEW u \in latestLocalPods'[w]
    PROVE  /\ kubelet[w] = "up" /\ nodeName'[w] = nodeName[w]
           /\ \/ u \in latestLocalPods[w]
              \/ \E unread, kept :
                    GetPodsByNode(nodeName[w], unread, kept)
                      /\ u \in PodsAnswered(nodeName[w], unread)
<1> DEFINE Goal == /\ kubelet[w] = "up" /\ nodeName'[w] = nodeName[w]
                   /\ \/ u \in latestLocalPods[w]
                      \/ \E unread, kept :
                            GetPodsByNode(nodeName[w], unread, kept)
                              /\ u \in PodsAnswered(nodeName[w], unread)
<1>0. /\ kubelet \in [NodeUids -> {"new", "up", "down"}]
      /\ nodeName \in [NodeUids -> NodeNames \union {None}]
      /\ latestLocalPods \in [NodeUids -> SUBSET PodUids]
  BY DEF SchedulerInv, SchedulingTypeOK
<1>1. ASSUME NEW v \in NodeUids, KubeletStart(v) PROVE Goal
  <2>1. latestLocalPods[v] = {}
    BY <1>1 DEF KubeletStart, KubeletInv, NewListNothing
  <2>2. \A x \in NodeUids : x # v => kubelet'[x] = kubelet[x] /\ nodeName'[x] = nodeName[x]
    BY <1>0, <1>1 DEF KubeletStart
  <2> QED
    BY <1>1, <2>1, <2>2 DEF KubeletStart
<1>2. ASSUME NEW v \in NodeUids, KubeletExit(v) PROVE Goal
  BY <1>0, <1>2 DEF KubeletExit
<1>3. ASSUME NEW v \in NodeUids, KubeletCrash(v) PROVE Goal
  BY <1>0, <1>3 DEF KubeletCrash
<1>4. ASSUME NEW v \in NodeUids, KubeletPoll(v) PROVE Goal
  <2>1. PICK unread, kept :
          /\ GetPodsByNode(nodeName[v], unread, kept)
          /\ latestLocalPods' =
                [latestLocalPods EXCEPT ![v] = PodsAnswered(nodeName[v], unread)]
    BY <1>4, Zenon DEF KubeletPoll
  <2>2. UNCHANGED <<kubelet, nodeName>>
    BY <1>4 DEF KubeletPoll
  <2>3. CASE w = v
    BY <1>0, <2>1, <2>2, <2>3
  <2>4. CASE w # v
    BY <1>0, <2>1, <2>2, <2>4
  <2> QED
    BY <2>3, <2>4
<1>5. CASE UNCHANGED kubeletVars
  BY <1>5 DEF kubeletVars
<1> QED
  BY <1>1, <1>2, <1>3, <1>4, <1>5, OtherSteps

(* What the answer of GetPodsByNode lists is stored and stays mapped.      *)
LEMMA AnsweredIsMapped ==
    ASSUME ~ReadErrors, RegistryInv, NEW n \in NodeNames, NEW unread, NEW kept,
           GetPodsByNode(n, unread, kept), NEW u \in PodsAnswered(n, unread)
    PROVE  /\ u \in PodUids /\ u \in used /\ pods[u] # None
           /\ UNCHANGED <<pods, used>>
           /\ \E h \in HostKeys : hosts[n][h] = u /\ hosts'[n][h] = u
<1>1. PICK h \in HostKeys : hosts[n][h] = u /\ u # None /\ h \notin Gone(n) /\ h \in Mapped(n)
  BY DEF PodsAnswered, Mapped
<1>2. pods[u] # None
  BY <1>1 DEF Gone
<1>3. u \in PodUids
  BY <1>1 DEF RegistryInv, TypeOK
<1>4. u \in used
  BY <1>1, <1>3 DEF RegistryInv, PodInv, FreshPodUids
<1>5. unread = {}
  BY DEF GetPodsByNode
<1>6. hosts'[n][h] = u
  BY <1>1, <1>5 DEF GetPodsByNode, RegistryInv, TypeOK
<1>7. UNCHANGED <<pods, used>>
  BY DEF GetPodsByNode, podVars
<1> QED
  BY <1>1, <1>2, <1>3, <1>4, <1>6, <1>7

(* AddPodHandler never draws a uid twice: a pod that is gone stays gone.   *)
LEMMA GoneStaysGone ==
    ASSUME RegistryInv, SchedulerInv, [SchedulingNext]_allVars
    PROVE  /\ used \subseteq used'
           /\ \A u \in PodUids : u \in used /\ pods[u] = None => pods'[u] = None
<1> DEFINE Goal == /\ used \subseteq used'
                   /\ \A u \in PodUids : u \in used /\ pods[u] = None => pods'[u] = None
<1>0. pods \in [PodUids -> Pod \union {None}]
  BY DEF RegistryInv, TypeOK
<1>1. ASSUME NEW nm, NEW u \in PodUids, NEW k, NEW ok, AddPod(nm, u, k, ok) PROVE Goal
  BY <1>0, <1>1 DEF AddPod
<1>2. ASSUME NEW nm, NEW k, NEW ok, DeletePod(nm, k, ok) PROVE Goal
  BY <1>0, <1>2 DEF DeletePod
<1>3. Users => Goal
  BY <1>1, <1>2 DEF Users
<1>4. \A n, unread, kept : GetPodsByNode(n, unread, kept) => UNCHANGED <<pods, used>>
  BY DEF GetPodsByNode, podVars
<1>5. \A w \in NodeUids : KubeletPoll(w) \/ KubeletPollLost(w) => UNCHANGED <<pods, used>>
  BY <1>4 DEF KubeletPoll, KubeletPollLost
<1>6. \A w \in NodeUids : KubeletStart(w) => pods' = pods /\ used \subseteq used'
  BY DEF KubeletStart, RegisterNode, podVars
<1>7. \A w \in NodeUids : KubeletExit(w) \/ KubeletCrash(w) => UNCHANGED <<pods, used>>
  BY DEF KubeletExit, KubeletCrash, UnregisterNode, podVars, vars
<1>8. InformPods \/ InformNodes \/ PlacePod \/ RequestFails => UNCHANGED <<pods, used>>
  BY DEF InformPods, InformNodes, PlacePod, AddPodToNode, SchedulePod, RequestFails, Fails,
         podVars, vars
<1>9. UNCHANGED allVars => UNCHANGED <<pods, used>>
  BY DEF allVars, vars
<1> QED
  BY <1>3, <1>5, <1>6, <1>7, <1>8, <1>9 DEF SchedulingNext, SyncLoop

LEMMA ListedUsedPreserved ==
    ASSUME ~ReadErrors, RegistryInv, SchedulerInv, KubeletInv, ListedUsed,
           [SchedulingNext]_allVars
    PROVE  ListedUsed'
<1> SUFFICES ASSUME NEW w \in NodeUids, kubelet'[w] = "up", NEW u \in latestLocalPods'[w]
             PROVE  u \in used'
  BY DEF ListedUsed
<1>1. kubelet[w] = "up" /\ nodeName[w] \in NodeNames
  BY ListSteps DEF SchedulerInv, UpIsNamed
<1>2. u \in used
  BY <1>1, ListSteps, AnsweredIsMapped DEF ListedUsed
<1> QED
  BY <1>2, GoneStaysGone

(* A mapping to the node of a kubelet that goes on running, of a pod that  *)
(* is stored and not about to be placed, stays.                            *)
LEMMA ListedMappingStays ==
    ASSUME ~ReadErrors, HostKeysDistinct, RegistryInv, SchedulerInv, KubeletInv, TodoInv,
           OrphanPods = {}, [SchedulingNext]_allVars,
           NEW w \in NodeUids, kubelet[w] = "up", kubelet'[w] = "up",
           NEW h \in HostKeys, NEW u \in PodUids, hosts[nodeName[w]][h] = u, pods[u] # None
    PROVE  hosts'[nodeName[w]][h] = u
<1> DEFINE n == nodeName[w]
<1>0. /\ n \in NodeNames /\ u # None
      /\ hosts \in [NodeNames -> [HostKeys -> PodUids \union {None}]]
      /\ kubelet \in [NodeUids -> {"new", "up", "down"}]
      /\ \A v \in NodeUids : kubelet[v] = "up" => nodeName[v] \in NodeNames
  BY NoneAssumption DEF RegistryInv, TypeOK, SchedulerInv, SchedulingTypeOK, UpIsNamed
<1> HIDE DEF n
<1>1. hosts[n][h] = u
  BY DEF n
<1>2. CASE PlacePod
  <2>1. pod \in PodUids /\ HostsOf(pod) = {}
    BY <1>2, PlacementSteps, NoneAssumption DEF SchedulerInv, TodoInv
  <2>2. u # pod
    BY <1>0, <1>1, <2>1, HostsOfNone
  <2>3. ASSUME NEW m \in NodeNames, NEW set \in BOOLEAN, NEW ok \in BOOLEAN,
               NEW gone \in SUBSET HostsOf(pod), SchedulePod(pod, m, gone, set, ok)
        PROVE  hosts'[n][h] = u
    BY <1>0, <1>1, <2>1, <2>2, <2>3, PlacementSparesOthers DEF RegistryInv
  <2>4. UNCHANGED vars => hosts'[n][h] = u
    BY <1>1 DEF vars
  <2> QED
    BY <1>2, <2>3, <2>4, PlacementSteps DEF n, SchedulerInv
<1>3. ASSUME NEW m \in NodeNames, NEW unread, NEW kept, GetPodsByNode(m, unread, kept)
      PROVE  hosts'[n][h] = u
  <2>1. unread = {}
    BY <1>3 DEF GetPodsByNode
  <2>2. h \notin Gone(n)
    BY <1>1 DEF Gone
  <2> QED
    BY <1>0, <1>1, <1>3, <2>1, <2>2 DEF GetPodsByNode
<1>4. ASSUME NEW v \in NodeUids, KubeletPoll(v) \/ KubeletPollLost(v) PROVE hosts'[n][h] = u
  <2>1. nodeName[v] \in NodeNames
    BY <1>0, <1>4 DEF KubeletPoll, KubeletPollLost
  <2>2. \E unread, kept : GetPodsByNode(nodeName[v], unread, kept)
    BY <1>4 DEF KubeletPoll, KubeletPollLost
  <2> QED
    BY <1>3, <2>1, <2>2
<1>5. ASSUME NEW v \in NodeUids, KubeletExit(v) PROVE hosts'[n][h] = u
  <2>1. kubelet[v] = "up" /\ v # w
    BY <1>0, <1>5 DEF KubeletExit
  <2>2. nodeName[v] # n
    BY <2>1, RunningNamesDiffer DEF n
  <2>3. hosts'[n] = hosts[n]
    BY <1>0, <1>5, <2>2 DEF KubeletExit, UnregisterNode
  <2> QED
    BY <1>1, <2>3
<1>6. Users => hosts' = hosts
  BY DEF Users, AddPod, DeletePod
<1>7. \A v \in NodeUids : KubeletStart(v) \/ KubeletCrash(v) => hosts' = hosts
  BY DEF KubeletStart, KubeletCrash, RegisterNode, vars
<1>8. InformPods \/ InformNodes \/ RequestFails => hosts' = hosts
  BY DEF InformPods, InformNodes, RequestFails, Fails, vars
<1>9. UNCHANGED allVars => hosts' = hosts
  BY DEF allVars, vars
<1>10. hosts' = hosts => hosts'[n][h] = u
  BY <1>1
<1> QED
  BY <1>2, <1>4, <1>5, <1>6, <1>7, <1>8, <1>9, <1>10 DEF n, SchedulingNext, SyncLoop

LEMMA NoOrphansBefore ==
    ASSUME RegistryInv, SchedulerInv, [SchedulingNext]_allVars, OrphanPods' = {}
    PROVE  OrphanPods = {}
  BY RegistrySteps, RequestLostIsHarmless, OrphansStay, FaultAssumption DEF RegistryInv, TypeOK

LEMMA ListedMappedPreserved ==
    ASSUME ~ReadErrors, HostKeysDistinct, RegistryInv, SchedulerInv, KubeletInv, TodoInv,
           ListedUsed, ListedPodsAreMapped, [SchedulingNext]_allVars
    PROVE  ListedPodsAreMapped'
<1> SUFFICES ASSUME OrphanPods' = {}, NEW w \in NodeUids, kubelet'[w] = "up",
                    NEW u \in latestLocalPods'[w], pods'[u] # None
             PROVE  \E p \in HostsOf(u)' : p[1] = nodeName'[w]
  BY DEF ListedPodsAreMapped
<1>1. OrphanPods = {}
  BY NoOrphansBefore
<1>2. kubelet[w] = "up" /\ nodeName'[w] = nodeName[w] /\ nodeName[w] \in NodeNames
  BY ListSteps DEF SchedulerInv, UpIsNamed
<1>3. \E h \in HostKeys : hosts'[nodeName[w]][h] = u
  <2>1. CASE u \in latestLocalPods[w]
    <3>1. u \in PodUids /\ u \in used
      BY <1>2, <2>1 DEF ListedUsed, SchedulerInv, SchedulingTypeOK
    <3>2. pods[u] # None
      BY <3>1, GoneStaysGone
    <3>3. PICK p \in HostsOf(u) : p[1] = nodeName[w]
      BY <1>1, <1>2, <2>1, <3>2 DEF ListedPodsAreMapped
    <3>4. p[2] \in HostKeys /\ hosts[nodeName[w]][p[2]] = u
      BY <3>3 DEF HostsOf
    <3> QED
      BY <1>1, <1>2, <3>1, <3>2, <3>4, ListedMappingStays
  <2>2. CASE u \notin latestLocalPods[w]
    BY <1>2, <2>2, ListSteps, AnsweredIsMapped
  <2> QED
    BY <2>1, <2>2
<1>4. PICK h \in HostKeys : hosts'[nodeName[w]][h] = u
  BY <1>3
<1>5. /\ <<nodeName[w], h>> \in NodeNames \X HostKeys
      /\ <<nodeName[w], h>>[1] = nodeName[w] /\ <<nodeName[w], h>>[2] = h
  BY <1>2
<1>6. <<nodeName[w], h>> \in HostsOf(u)'
  BY <1>4, <1>5 DEF HostsOf
<1> QED
  BY <1>2, <1>5, <1>6

(* Two running kubelets are never answered, or keep, the same pod.         *)
LEMMA NoDoubleRunPreserved ==
    ASSUME ~ReadErrors, RegistryInv, SchedulerInv, KubeletInv,
           ListedPodsAreMapped, NoDoubleRun, [SchedulingNext]_allVars
    PROVE  NoDoubleRun'
<1> SUFFICES ASSUME OrphanPods' = {}, NEW v \in NodeUids, NEW w \in NodeUids,
                    kubelet'[v] = "up", kubelet'[w] = "up",
                    NEW u, u \in latestLocalPods'[v], u \in latestLocalPods'[w]
             PROVE  v = w
  BY DEF NoDoubleRun
<1> DEFINE MapsIt(x) == \E h \in HostKeys : hosts[nodeName[x]][h] = u
<1>1. OrphanPods = {}
  BY NoOrphansBefore
<1>2. /\ kubelet[v] = "up" /\ nodeName[v] \in NodeNames
      /\ kubelet[w] = "up" /\ nodeName[w] \in NodeNames
  BY ListSteps DEF SchedulerInv, UpIsNamed
<1>3. /\ u \in latestLocalPods[v] \/ (MapsIt(v) /\ u \in PodUids /\ pods[u] # None)
      /\ u \in latestLocalPods[w] \/ (MapsIt(w) /\ u \in PodUids /\ pods[u] # None)
  BY <1>2, ListSteps, AnsweredIsMapped
<1>4. ASSUME NEW x \in NodeUids, kubelet[x] = "up", u \in latestLocalPods[x], pods[u] # None
      PROVE  MapsIt(x)
  <2>1. PICK p \in HostsOf(u) : p[1] = nodeName[x]
    BY <1>1, <1>4 DEF ListedPodsAreMapped
  <2> QED
    BY <2>1 DEF HostsOf
<1>5. CASE MapsIt(v) /\ MapsIt(w) /\ u \in PodUids
  <2>1. nodeName[v] = nodeName[w]
    BY <1>2, <1>5, NoneAssumption DEF RegistryInv, OneHostPerPod
  <2> QED
    BY <1>2, <2>1, RunningNamesDiffer
<1>6. CASE u \in latestLocalPods[v] /\ u \in latestLocalPods[w]
  BY <1>1, <1>2, <1>6 DEF NoDoubleRun
<1> QED
  BY <1>2, <1>3, <1>4, <1>5, <1>6

-----------------------------------------------------------------------------

ClusterInv ==
    /\ RegistryInv /\ UniqueInv /\ SchedulerInv
    /\ KubeletInv /\ TodoInv /\ ListedUsed /\ ListedPodsAreMapped /\ NoDoubleRun

LEMMA ClusterInvHolds ==
    ASSUME ~ReadErrors, HostKeysDistinct PROVE SchedulingSpec => []ClusterInv
<1>1. SchedulingInit => ClusterInv
  <2> SUFFICES ASSUME SchedulingInit PROVE ClusterInv
    OBVIOUS
  <2>1. KubeletInv /\ TodoInv /\ ListedUsed /\ ListedPodsAreMapped /\ NoDoubleRun
    BY DEF SchedulingInit, KubeletInv, NamesKept, NewListNothing, TodoInv, ListedUsed,
           ListedPodsAreMapped, NoDoubleRun
  <2> QED
    BY <2>1, InitiallyRight DEF ClusterInv
<1>2. ClusterInv /\ [SchedulingNext]_allVars => ClusterInv'
  BY RegistryInvPreserved, UniqueInvPreservedHere, SchedulerInvPreserved, KubeletInvPreserved,
     TodoInvPreserved, ListedUsedPreserved, ListedMappedPreserved, NoDoubleRunPreserved
     DEF ClusterInv
<1> QED
  BY <1>1, <1>2, PTL DEF SchedulingSpec

(* updateLocalPods, GetPodsByNodeHandler, SchedulePodToNodeHandler: while  *)
(* no pod is orphaned, what a running kubelet lists and the cluster stores *)
(* is mapped to the kubelet's own node.                                    *)
THEOREM ListedMapped ==
    ASSUME ~ReadErrors, HostKeysDistinct PROVE SchedulingSpec => []ListedPodsAreMapped
<1>1. ClusterInv => ListedPodsAreMapped
  BY DEF ClusterInv
<1> QED
  BY <1>1, ClusterInvHolds, PTL

(* scheduler.go, app/server.go, routine.go: while no pod is orphaned, no   *)
(* pod is on the list of two running kubelets, for any number of kubelets  *)
(* that start, exit and crash, of requests that fail half-way and of       *)
(* answers that are lost.                                                  *)
THEOREM NoPodRunsTwice ==
    ASSUME ~ReadErrors, HostKeysDistinct PROVE SchedulingSpec => []NoDoubleRun
<1>1. ClusterInv => NoDoubleRun
  BY DEF ClusterInv
<1> QED
  BY <1>1, ClusterInvHolds, PTL
=============================================================================
