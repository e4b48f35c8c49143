---------------------------- MODULE PodRegistry ----------------------------
(***************************************************************************)
(* The API server's records of pods, nodes and of which node hosts a pod:  *)
(* the handlers of pkg/kubeapiserver/app/routine.go over the etcd client   *)
(* of pkg/kubeapiserver/etcd/client.go.                                    *)
(*                                                                         *)
(* Every handler holds the server's mutex from its first line to its last, *)
(* and only the API server talks to etcd, so no client sees the store      *)
(* between two writes of a handler.  A handler is therefore one action.    *)
(* Its etcd calls are not a transaction, though: the process may die, or a *)
(* call may fail, after any of them.  Each action takes the number k of    *)
(* writes the handler performed, in the order of the code, and whether the *)
(* client got the success answer (ok).  ok implies that all were done; the *)
(* converse fails when the server dies before it answers.                  *)
(***************************************************************************)
EXTENDS Naturals, FiniteSets, FiniteSetsExt

CONSTANTS
    Names,         \* namespaced pod names: pairs <namespace, podname> of the URLs
    PodUids,       \* uids AddPod draws
    NodeUids,      \* uids RegisterNode draws
    NodePoolSize,  \* utils.NodePoolSize: bits of the node name bitmap
    HostKeys,      \* the last segments "<namespace>_<podname>" of host-nodes keys
    HostKey,       \* the segment SchedulePodToNode builds for a pod's name
    None,          \* what etcd's Get returns for an absent key: ""
    MaxFaults,     \* bound on the failing etcd calls and server crashes explored
    ReadErrors     \* whether an etcd read may fail while the next call succeeds

ASSUME PoolAssumption == NodePoolSize \in Nat \ {0}
ASSUME HostKeyAssumption == HostKey \in [Names -> HostKeys]
ASSUME NoneAssumption == /\ None \notin PodUids \union NodeUids \union Nat
                         /\ None \notin [name : Names, status : PodUids \union {None}]
ASSUME FaultAssumption == MaxFaults \in Nat /\ ReadErrors \in BOOLEAN

VARIABLES
    podKey,    \* /registry/namespaces/<ns>/pods/<name>      -> uid
    pods,      \* /registry/pods/<uid>                       -> pod
    hosts,     \* /registry/host-nodes/<node>/pods/<ns_name> -> uid
    nodeKey,   \* /registry/namespaces/default/nodes/<node>  -> node uid
    nodes,     \* /registry/nodes/<node uid>                 -> node (its name)
    nodePool,  \* /registry/NodePool/bitmap: the names handed out
    used,      \* history: the uids drawn so far
    faults     \* failures so far, at most MaxFaults

podVars  == <<podKey, pods>>
nodeVars == <<nodeKey, nodes, nodePool>>
vars == <<podKey, pods, hosts, nodeKey, nodes, nodePool, used, faults>>

(* AllocNode returns "node-<bit>"; a name is represented by its bit.        *)
NodeNames == 0 .. NodePoolSize - 1

(* What the model keeps of a stored pod: the name in its metadata, and     *)
(* whose status it carries: None for the Pending that AddPod writes, else  *)
(* the uid of the pod the reporting kubelet looked at.                      *)
Pod == [name : Names, status : PodUids \union {None}]

(***************************************************************************)
(* How a handler ends: with the success answer after all its writes, or    *)
(* with a failure (an etcd error or a crash) after the first k of them.    *)
(***************************************************************************)
Ends(ok, k, total) ==
    \/ /\ ok
       /\ k = total
       /\ UNCHANGED faults
    \/ /\ ~ok
       /\ k \in 0 .. total
       /\ faults < MaxFaults
       /\ faults' = faults + 1

Init ==
    /\ podKey   = [nm \in Names |-> None]
    /\ pods     = [u \in PodUids |-> None]
    /\ hosts    = [n \in NodeNames |-> [h \in HostKeys |-> None]]
    /\ nodeKey  = [n \in NodeNames |-> None]
    /\ nodes    = [w \in NodeUids |-> None]
    /\ nodePool = {}
    /\ used     = {}
    /\ faults   = 0

-----------------------------------------------------------------------------
(* Pods *)

(* Mutant of NameFree: the conflict check of AddPod dropped.               *)
NameUnchecked(nm) == nm \in Names

NameFree(nm) == podKey[nm] = None

(* AddPodHandler: 409 when the name key exists, else a new uid, the name   *)
(* key, then the pod itself.                                               *)
AddPod(nm, u, k, ok) ==
    /\ NameFree(nm)
    /\ u \in PodUids \ used
    /\ Ends(ok, k, 2)
    /\ used' = used \union {u}
    /\ podKey' = IF k >= 1 THEN [podKey EXCEPT ![nm] = u] ELSE podKey
    /\ pods' = IF k >= 2 THEN [pods EXCEPT ![u] = [name |-> nm, status |-> None]]
                         ELSE pods
    /\ UNCHANGED <<hosts, nodeVars>>

(* DeletePodHandler: the name key goes first; when the pod it named is     *)
(* absent the handler stops there with 404.  The host-nodes mapping stays. *)
DeletePod(nm, k, ok) ==
    /\ podKey[nm] # None
    /\ Ends(ok, k, IF pods[podKey[nm]] = None THEN 1 ELSE 2)
    /\ podKey' = IF k >= 1 THEN [podKey EXCEPT ![nm] = None] ELSE podKey
    /\ pods' = IF k >= 2 THEN [pods EXCEPT ![podKey[nm]] = None] ELSE pods
    /\ UNCHANGED <<hosts, nodeVars, used>>

(* Mutant of PutPodStatus: stores the status in place of the pod.          *)
PutPodStatusBare(nm, from, k, ok) ==
    /\ podKey[nm] # None
    /\ pods[podKey[nm]] # None
    /\ Ends(ok, k, 1)
    /\ pods' = IF k >= 1 THEN [pods EXCEPT ![podKey[nm]] = from] ELSE pods
    /\ UNCHANGED <<podKey, hosts, nodeVars, used>>

(* PutPodStatusHandler: the report names the pod, not its uid; it lands on *)
(* whatever pod bears the name now.  The kubelet observed pod "from".      *)
PutPodStatus(nm, from, k, ok) ==
    /\ podKey[nm] # None
    /\ pods[podKey[nm]] # None
    /\ Ends(ok, k, 1)
    /\ pods' = IF k >= 1 THEN [pods EXCEPT ![podKey[nm]].status = from] ELSE pods
    /\ UNCHANGED <<podKey, hosts, nodeVars, used>>

-----------------------------------------------------------------------------
(* Nodes *)

(* RegisterNodeHandler: takes the first free bit and writes bitmap, node   *)
(* and name key.  An absent bitmap is the empty one; a bitmap that cannot  *)
(* be read is taken for absent too, and a fresh one is written over it.    *)
RegisterNode(w, readable, k, ok) ==
    LET seen == IF readable THEN nodePool ELSE {}
        n    == Min(NodeNames \ seen)
    IN  /\ readable \/ ReadErrors
        /\ w \in NodeUids \ used
        /\ seen # NodeNames
        /\ IF readable THEN Ends(ok, k, 3)
           ELSE k \in 0 .. 3 /\ (ok => k = 3)
                /\ faults < MaxFaults /\ faults' = faults + 1
        /\ used' = used \union {w}
        /\ nodePool' = IF k >= 1 THEN seen \union {n} ELSE seen
        /\ nodes' = IF k >= 2 THEN [nodes EXCEPT ![w] = n] ELSE nodes
        /\ nodeKey' = IF k >= 3 THEN [nodeKey EXCEPT ![n] = w] ELSE nodeKey
        /\ UNCHANGED <<podVars, hosts>>

(* Mutant of UnregisterNode: frees the bit first, the name key last.       *)
UnregisterNodeFreeFirst(n, k, ok) ==
    /\ nodeKey[n] # None
    /\ Ends(ok, k, 4)
    /\ nodePool' = IF k >= 1 THEN nodePool \ {n} ELSE nodePool
    /\ hosts' = IF k >= 2 THEN [hosts EXCEPT ![n] = [h \in HostKeys |-> None]] ELSE hosts
    /\ nodes' = IF k >= 3 THEN [nodes EXCEPT ![nodeKey[n]] = None] ELSE nodes
    /\ nodeKey' = IF k >= 4 THEN [nodeKey EXCEPT ![n] = None] ELSE nodeKey
    /\ UNCHANGED <<podVars, used>>

(* UnregisterNodeHandler: drops the node's mappings (its pods are          *)
(* unscheduled again), the name key, the node, and last the bit.  FreeNode *)
(* refuses a bit that is not set: the handler ends before the last write.  *)
UnregisterNode(n, k, ok) ==
    /\ nodeKey[n] # None
    /\ Ends(ok, k, IF n \in nodePool THEN 4 ELSE 3)
    /\ hosts' = IF k >= 1 THEN [hosts EXCEPT ![n] = [h \in HostKeys |-> None]] ELSE hosts
    /\ nodeKey' = IF k >= 2 THEN [nodeKey EXCEPT ![n] = None] ELSE nodeKey
    /\ nodes' = IF k >= 3 THEN [nodes EXCEPT ![nodeKey[n]] = None] ELSE nodes
    /\ nodePool' = IF k >= 4 THEN nodePool \ {n} ELSE nodePool
    /\ UNCHANGED <<podVars, used>>

-----------------------------------------------------------------------------
(* Placement *)

(* Mutant of HostsOf: the loop over the old mappings forgotten.            *)
HostsOfForgotten(u) == {}

(* The host-nodes keys that hold the uid.                                  *)
HostsOf(u) == {p \in NodeNames \X HostKeys : hosts[p[1]][p[2]] = u}

(* Mutant of Unscheduled: the scheduled uids are not subtracted.           *)
UnscheduledAll == {u \in PodUids : pods[u] # None}

(* GetUnscheduledPodHandler: the stored pods whose uid no mapping holds.   *)
Unscheduled == {u \in PodUids : pods[u] # None /\ HostsOf(u) = {}}

(* Mutant of Remapped: the deletes come after the Set.                     *)
RemappedSetFirst(m, h, u, n, gone, set) ==
    IF <<m, h>> \in gone THEN None
    ELSE IF set /\ m = n /\ h = HostKey[pods[u].name] THEN u
    ELSE hosts[m][h]

(* What SchedulePodToNode leaves under key <<m, h>>: its Set comes last.   *)
Remapped(m, h, u, n, gone, set) ==
    IF set /\ m = n /\ h = HostKey[pods[u].name] THEN u
    ELSE IF <<m, h>> \in gone THEN None
    ELSE hosts[m][h]

(* SchedulePodToNodeHandler: removes every mapping of the pod, one delete  *)
(* at a time in map order, then writes the new one.  It asks whether the   *)
(* pod exists, never whether the node does.                                *)
SchedulePod(u, n, gone, set, ok) ==
    /\ pods[u] # None
    /\ gone \subseteq HostsOf(u)
    /\ set => gone = HostsOf(u)
    /\ Ends(ok, IF set THEN 1 ELSE 0, 1)
    /\ hosts' = [m \in NodeNames |-> [h \in HostKeys |-> Remapped(m, h, u, n, gone, set)]]
    /\ UNCHANGED <<podVars, nodeVars, used>>

(* GetPodsByNodeHandler reads the pod behind each mapping of the node.  A  *)
(* pod it does not find, or fails to read, is left out of the answer and   *)
(* its mapping is deleted; a failing delete is ignored.                    *)
Mapped(n) == {h \in HostKeys : hosts[n][h] # None}
Gone(n)   == {h \in Mapped(n) : pods[hosts[n][h]] = None}

(* Mutant of GetPodsByNode: every mapping it walks over is deleted.        *)
GetPodsByNodeAll(n, unread, kept) ==
    /\ unread = {} /\ kept = {}
    /\ hosts' = [hosts EXCEPT ![n] = [h \in HostKeys |-> None]]
    /\ UNCHANGED <<podVars, nodeVars, used, faults>>

GetPodsByNode(n, unread, kept) ==
    /\ unread \subseteq Mapped(n) \ Gone(n)
    /\ kept \subseteq Gone(n) \union unread
    /\ unread # {} => ReadErrors
    /\ IF unread = {} /\ kept = {} THEN UNCHANGED faults
       ELSE faults < MaxFaults /\ faults' = faults + 1
    /\ hosts' = [hosts EXCEPT ![n] = [h \in HostKeys |->
                    IF h \in (Gone(n) \union unread) \ kept THEN None ELSE hosts[n][h]]]
    /\ UNCHANGED <<podVars, nodeVars, used>>

(* The uids the answer of GetPodsByNode lists.                             *)
PodsAnswered(n, unread) == {hosts[n][h] : h \in Mapped(n) \ (Gone(n) \union unread)}

-----------------------------------------------------------------------------
Next ==
    \/ \E ok \in BOOLEAN, k \in 0 .. 4 :
        \/ \E nm \in Names, u \in PodUids : AddPod(nm, u, k, ok)
        \/ \E nm \in Names : DeletePod(nm, k, ok)
        \/ \E nm \in Names, from \in used \intersect PodUids : PutPodStatus(nm, from, k, ok)
        \/ \E w \in NodeUids, readable \in BOOLEAN : RegisterNode(w, readable, k, ok)
        \/ \E n \in NodeNames : UnregisterNode(n, k, ok)
    \/ \E u \in PodUids, n \in NodeNames, set \in BOOLEAN, ok \in BOOLEAN :
        \E gone \in SUBSET HostsOf(u) : SchedulePod(u, n, gone, set, ok)
    \/ \E n \in NodeNames : \E unread \in SUBSET Mapped(n) : \E kept \in SUBSET Mapped(n) :
        GetPodsByNode(n, unread, kept)

Spec == Init /\ [][Next]_vars

-----------------------------------------------------------------------------
(* Type invariant: what each etcd prefix may hold (etcd/client.go).        *)
TypeOK ==
    /\ podKey   \in [Names -> PodUids \union {None}]
    /\ pods     \in [PodUids -> Pod \union {None}]
    /\ hosts    \in [NodeNames -> [HostKeys -> PodUids \union {None}]]
    /\ nodeKey  \in [NodeNames -> NodeUids \union {None}]
    /\ nodes    \in [NodeUids -> NodeNames \union {None}]
    /\ nodePool \in SUBSET NodeNames
    /\ used     \in SUBSET (PodUids \union NodeUids)
    /\ faults   \in 0 .. MaxFaults

(* SchedulePodToNodeHandler: however often, from wherever and with         *)
(* whatever failures a pod is placed, at most one host-nodes key holds its *)
(* uid: no two kubelets are told to run it.                                *)
OneHostPerPod ==
    \A n1, n2 \in NodeNames, h1, h2 \in HostKeys :
        /\ hosts[n1][h1] # None
        /\ hosts[n1][h1] = hosts[n2][h2]
        => n1 = n2 /\ h1 = h2

(* RegisterNodeHandler, UnregisterNodeHandler: the bit is set before the   *)
(* node is stored and cleared after it is gone, so wherever a handler is   *)
(* cut short no two nodes in /registry/nodes bear one name.                *)
UniqueNodeNames ==
    \A w1, w2 \in NodeUids :
        nodes[w1] # None /\ nodes[w1] = nodes[w2] => w1 = w2

(* UnregisterNodeHandler deletes the name key before the node: a kubelet   *)
(* that asks to leave by name never finds a key whose node is gone.        *)
NodeKeysResolve ==
    \A n \in NodeNames : nodeKey[n] # None => nodes[nodeKey[n]] = n

(* What a handler that was cut short leaves behind.                        *)
DanglingNames == {nm \in Names : podKey[nm] # None /\ pods[podKey[nm]] = None}
OrphanPods    == {u \in PodUids : pods[u] # None /\ podKey[pods[u].name] # u}
GhostNodes    == {w \in NodeUids : nodes[w] # None /\ nodeKey[nodes[w]] # w}
LeakedBits    == {n \in nodePool : \A w \in NodeUids : nodes[w] # n}

(* All write handlers: a run without failures leaves no debris, and each   *)
(* failing call or crash costs at most one record that no request by name  *)
(* can reach.                                                              *)
DebrisBounded ==
    Cardinality(DanglingNames) + Cardinality(OrphanPods)
      + Cardinality(GhostNodes) + Cardinality(LeakedBits) <= faults

(* GetPodsByNodeHandler, SchedulePodToNodeHandler: while no call fails, a  *)
(* stored pod that has a host keeps one until that host unregisters.       *)
HostKeptUntilUnregister ==
    [][faults' = 0 =>
        \A n \in NodeNames, h \in HostKeys :
            LET u == hosts[n][h] IN
            (u # None /\ pods[u] # None /\ pods'[u] # None /\ nodeKey[n] # None)
                => \/ nodeKey'[n] = None
                   \/ \E m \in NodeNames, k \in HostKeys : hosts'[m][k] = u]_vars

(* README 5.1: on kubectl delete "the apiserver will then directly delete  *)
(* all data relating to this Pod in etcd": no host-nodes key is left with  *)
(* the uid of a pod that is not stored.                                    *)
NoStaleMapping ==
    \A n \in NodeNames, h \in HostKeys :
        hosts[n][h] # None => pods[hosts[n][h]] # None
=============================================================================
