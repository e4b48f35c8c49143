------------------------- MODULE PodRegistryProofs -------------------------
(* Proofs about PodRegistry: its type invariant, and that no pod has two   *)
(* hosts and no two nodes one name, for any number of pods, nodes and      *)
(* failures, however the handlers are cut short.                           *)
EXTENDS PodRegistry, TLAPS, NaturalsInduction, WellFoundedInduction, FiniteSetTheorems

(* The principle of the least number, in the form the proofs cite: an      *)
(* induction over an index goes through its least counterexample.          *)
LEMMA LeastExists ==
    ASSUME NEW S, S \subseteq Nat, S # {}
    PROVE  \E x \in S : \A y \in S : x <= y
<1> DEFINE R == {ss \in Nat \X Nat : ss[1] < ss[2]}
<1>1. R = OpToRel(<, Nat)
  BY DEF OpToRel
<1>2. IsWellFoundedOn(R, Nat)
  BY <1>1, NatLessThanWellFounded
<1> HIDE DEF R
<1>3. PICK x \in S : \A y \in S : ~ (<<y, x>> \in R)
  BY <1>2, WFMin
<1>4. \A y \in S : y < x => <<y, x>> \in R
  BY DEF R
<1>5. \A y \in S : ~ (y < x)
  BY <1>3, <1>4, Zenon
<1> QED
  BY <1>5

(* The least member (FiniteSetsExt) of a nonempty set of numbers is one.   *)
LEMMA MinIsMember ==
    ASSUME NEW S, S \subseteq Nat, S # {}
    PROVE  Min(S) \in S
  BY LeastExists DEF Min

(* The slot handed out is one of the pool's that is not taken.             *)
LEMMA FirstFreeIsFree ==
    ASSUME NEW size \in Nat, NEW taken \in SUBSET (0 .. size - 1), taken # 0 .. size - 1
    PROVE  Min((0 .. size - 1) \ taken) \in (0 .. size - 1) \ taken
<1>1. (0 .. size - 1) \ taken \subseteq Nat
  OBVIOUS
<1>2. (0 .. size - 1) \ taken # {}
  OBVIOUS
<1> QED
  BY <1>1, <1>2, MinIsMember

(* Debris of the registries' handlers that a step does not add to.         *)
LEMMA NoMore ==
    ASSUME NEW S, IsFiniteSet(S), NEW T, T \subseteq S
    PROVE  /\ IsFiniteSet(T)
           /\ Cardinality(S) \in Nat /\ Cardinality(T) \in Nat
           /\ Cardinality(T) <= Cardinality(S)
  BY FS_Subset, FS_CardinalityType

(* Debris of the registries' handlers that a step adds one record to.      *)
LEMMA OneMore ==
    ASSUME NEW S, IsFiniteSet(S), NEW T, NEW x, T \subseteq S \union {x}
    PROVE  /\ IsFiniteSet(T)
           /\ Cardinality(S) \in Nat /\ Cardinality(T) \in Nat
           /\ Cardinality(T) <= Cardinality(S) + 1
<1>1. /\ IsFiniteSet(S \union {x})
      /\ Cardinality(S \union {x}) = IF x \in S THEN Cardinality(S) ELSE Cardinality(S) + 1
  BY FS_AddElement
<1>2. Cardinality(S) \in Nat
  BY FS_CardinalityType
<1>3. /\ IsFiniteSet(T)
      /\ Cardinality(T) \in Nat
      /\ Cardinality(T) <= Cardinality(S \union {x})
  BY <1>1, NoMore
<1> QED
  BY <1>1, <1>2, <1>3

(* AllocNode: the name a registration draws is a name of the pool that the *)
(* bitmap it read does not hold.                                           *)
LEMMA DrawnNameIsFree ==
    ASSUME NEW seen \in SUBSET NodeNames, seen # NodeNames
    PROVE  Min(NodeNames \ seen) \in NodeNames \ seen
  BY PoolAssumption, FirstFreeIsFree DEF NodeNames

(* How the fault counter moves: it stays within its bound.                 *)
LEMMA EndsCounts ==
    ASSUME NEW ok, NEW k, NEW total, faults \in 0 .. MaxFaults, Ends(ok, k, total)
    PROVE  faults' \in 0 .. MaxFaults
  BY FaultAssumption DEF Ends

(* The type invariant is inductive.                                        *)
LEMMA TypeOKInitially == Init => TypeOK
<1> SUFFICES ASSUME Init PROVE TypeOK
  OBVIOUS
<1> QED
  BY FaultAssumption DEF Init, TypeOK

LEMMA TypeOKPreserved == TypeOK /\ [Next]_vars => TypeOK'
<1> SUFFICES ASSUME TypeOK, [Next]_vars PROVE TypeOK'
  OBVIOUS
<1> USE DEF TypeOK
<1>1. ASSUME NEW ok \in BOOLEAN, NEW k \in 0 .. 4, NEW nm \in Names, NEW u \in PodUids,
             AddPod(nm, u, k, ok)
      PROVE  TypeOK'
  <2>1. faults' \in 0 .. MaxFaults
    BY <1>1, EndsCounts DEF AddPod
  <2>2. [name |-> nm, status |-> None] \in Pod
    BY DEF Pod
  <2>3. pods' \in [PodUids -> Pod \union {None}]
    BY <1>1, <2>2 DEF AddPod
  <2> QED
    BY <1>1, <2>1, <2>3 DEF AddPod, nodeVars
<1>2. ASSUME NEW ok \in BOOLEAN, NEW k \in 0 .. 4, NEW nm \in Names, DeletePod(nm, k, ok)
      PROVE  TypeOK'
  <2>1. faults' \in 0 .. MaxFaults
    BY <1>2, EndsCounts DEF DeletePod
  <2> QED
    BY <1>2, <2>1 DEF DeletePod, nodeVars
<1>3. ASSUME NEW ok \in BOOLEAN, NEW k \in 0 .. 4, NEW nm \in Names,
             NEW from \in used \intersect PodUids, PutPodStatus(nm, from, k, ok)
      PROVE  TypeOK'
  <2>1. faults' \in 0 .. MaxFaults
    BY <1>3, EndsCounts DEF PutPodStatus
  <2>2. [pods[podKey[nm]] EXCEPT !.status = from] \in Pod
    BY <1>3 DEF PutPodStatus, Pod
  <2>3. pods' \in [PodUids -> Pod \union {None}]
    BY <1>3, <2>2 DEF PutPodStatus
  <2> QED
    BY <1>3, <2>1, <2>3 DEF PutPodStatus, nodeVars
<1>4. ASSUME NEW ok \in BOOLEAN, NEW k \in 0 .. 4, NEW w \in NodeUids,
             NEW readable \in BOOLEAN, RegisterNode(w, readable, k, ok)
      PROVE  TypeOK'
  <2> DEFINE seen == IF readable THEN nodePool ELSE {}
             n    == Min(NodeNames \ seen)
  <2>1. faults' \in 0 .. MaxFaults
    BY <1>4, EndsCounts, FaultAssumption DEF RegisterNode
  <2>2. seen \in SUBSET NodeNames /\ seen # NodeNames
    BY <1>4 DEF RegisterNode
  <2>3. n \in NodeNames
    BY <2>2, DrawnNameIsFree
  <2>4. /\ nodePool' = IF k >= 1 THEN seen \union {n} ELSE seen
        /\ nodes' = IF k >= 2 THEN [nodes EXCEPT ![w] = n] ELSE nodes
        /\ nodeKey' = IF k >= 3 THEN [nodeKey EXCEPT ![n] = w] ELSE nodeKey
        /\ used' = used \union {w}
        /\ UNCHANGED <<podVars, hosts>>
    BY <1>4 DEF RegisterNode
  <2> HIDE DEF seen, n
  <2> QED
    BY <2>1, <2>2, <2>3, <2>4 DEF podVars
<1>5. ASSUME NEW ok \in BOOLEAN, NEW k \in 0 .. 4, NEW n \in NodeNames,
             UnregisterNode(n, k, ok)
      PROVE  TypeOK'
  <2>1. faults' \in 0 .. MaxFaults
    BY <1>5, EndsCounts DEF UnregisterNode
  <2> QED
    BY <1>5, <2>1 DEF UnregisterNode, podVars
<1>6. ASSUME NEW u \in PodUids, NEW n \in NodeNames, NEW set \in BOOLEAN, NEW ok \in BOOLEAN,
             NEW gone \in SUBSET HostsOf(u), SchedulePod(u, n, gone, set, ok)
      PROVE  TypeOK'
  <2>1. faults' \in 0 .. MaxFaults
    BY <1>6, EndsCounts DEF SchedulePod
  <2>2. hosts' \in [NodeNames -> [HostKeys -> PodUids \union {None}]]
    BY <1>6 DEF SchedulePod, Remapped
  <2> QED
    BY <1>6, <2>1, <2>2 DEF SchedulePod, podVars, nodeVars
<1>7. ASSUME NEW n \in NodeNames, NEW unread, NEW kept, GetPodsByNode(n, unread, kept)
      PROVE  TypeOK'
  <2>1. faults' \in 0 .. MaxFaults
    BY <1>7, FaultAssumption DEF GetPodsByNode
  <2>2. hosts' \in [NodeNames -> [HostKeys -> PodUids \union {None}]]
    BY <1>7 DEF GetPodsByNode
  <2> QED
    BY <1>7, <2>1, <2>2 DEF GetPodsByNode, podVars, nodeVars
<1>8. CASE UNCHANGED vars
  BY <1>8 DEF vars, podVars, nodeVars
<1> QED
  BY <1>1, <1>2, <1>3, <1>4, <1>5, <1>6, <1>7, <1>8 DEF Next

(* Every etcd prefix the handlers of routine.go write to holds only what   *)
(* they mean it to hold.                                                   *)
THEOREM TypeCorrect == Spec => []TypeOK
  BY TypeOKInitially, TypeOKPreserved, PTL DEF Spec

(* The steps by what they touch: the pod handlers leave nodes and          *)
(* placement alone.                                                        *)
LEMMA StepCases ==
    ASSUME [Next]_vars
    PROVE  \/ UNCHANGED <<hosts, nodeVars>> /\ used \subseteq used'
           \/ \E ok \in BOOLEAN, k \in 0 .. 4, w \in NodeUids, readable \in BOOLEAN :
                 RegisterNode(w, readable, k, ok)
           \/ \E ok \in BOOLEAN, k \in 0 .. 4, n \in NodeNames : UnregisterNode(n, k, ok)
           \/ \E u \in PodUids, n \in NodeNames, set \in BOOLEAN, ok \in BOOLEAN :
                 \E gone \in SUBSET HostsOf(u) : SchedulePod(u, n, gone, set, ok)
           \/ \E n \in NodeNames : \E unread, kept : GetPodsByNode(n, unread, kept)
<1>1. \A ok, k, nm, u : AddPod(nm, u, k, ok)
        => UNCHANGED <<hosts, nodeVars>> /\ used \subseteq used'
  BY DEF AddPod
<1>2. \A ok, k, nm : DeletePod(nm, k, ok)
        => UNCHANGED <<hosts, nodeVars>> /\ used \subseteq used'
  BY DEF DeletePod
<1>3. \A ok, k, nm, from : PutPodStatus(nm, from, k, ok)
        => UNCHANGED <<hosts, nodeVars>> /\ used \subseteq used'
  BY DEF PutPodStatus
<1>4. UNCHANGED vars => UNCHANGED <<hosts, nodeVars>> /\ used \subseteq used'
  BY DEF vars, nodeVars
<1> QED
  BY <1>1, <1>2, <1>3, <1>4, Zenon DEF Next

-----------------------------------------------------------------------------
(* One host per pod.                                                       *)

(* SchedulePodToNodeHandler: deleting the old mappings before the Set      *)
(* leaves one key with the uid, wherever the deleting is cut short.        *)
LEMMA OneHostPreserved == TypeOK /\ OneHostPerPod /\ [Next]_vars => OneHostPerPod'
<1> SUFFICES ASSUME TypeOK, OneHostPerPod, [Next]_vars PROVE OneHostPerPod'
  OBVIOUS
<1> USE DEF TypeOK, OneHostPerPod
<1>1. ASSUME hosts' = hosts PROVE OneHostPerPod'
  BY <1>1
<1>2. ASSUME NEW ok \in BOOLEAN, NEW k \in 0 .. 4, NEW n \in NodeNames,
             UnregisterNode(n, k, ok)
      PROVE  OneHostPerPod'
  BY <1>2 DEF UnregisterNode
<1>3. ASSUME NEW u \in PodUids, NEW n \in NodeNames, NEW set \in BOOLEAN, NEW ok \in BOOLEAN,
             NEW gone \in SUBSET HostsOf(u), SchedulePod(u, n, gone, set, ok)
      PROVE  OneHostPerPod'
  <2>1. \A m \in NodeNames, h \in HostKeys : hosts'[m][h] = Remapped(m, h, u, n, gone, set)
    BY <1>3 DEF SchedulePod
  <2>2. CASE set
    <3>1. \A m \in NodeNames, h \in HostKeys : hosts[m][h] = u => <<m, h>> \in gone
      BY <1>3, <2>2 DEF SchedulePod, HostsOf
    <3>2. \A m \in NodeNames, h \in HostKeys :
            hosts'[m][h] = u => m = n /\ h = HostKey[pods[u].name]
      <4> SUFFICES ASSUME NEW m \in NodeNames, NEW h \in HostKeys,
                          ~ (m = n /\ h = HostKey[pods[u].name])
                   PROVE  hosts'[m][h] # u
        OBVIOUS
      <4>1. CASE <<m, h>> \in gone
        BY <4>1, <2>1, NoneAssumption DEF Remapped
      <4>2. CASE <<m, h>> \notin gone
        <5>1. hosts[m][h] # u
          BY <4>2, <3>1, Zenon
        <5>2. hosts'[m][h] = hosts[m][h]
          BY <4>2, <2>1, Zenon DEF Remapped
        <5> QED
          BY <5>1, <5>2
      <4> QED
        BY <4>1, <4>2
    <3>3. \A m \in NodeNames, h \in HostKeys :
            hosts'[m][h] # u /\ hosts'[m][h] # None => hosts'[m][h] = hosts[m][h]
      BY <2>1 DEF Remapped
    <3> QED
      BY <3>2, <3>3
  <2>3. CASE ~set
    <3>1. \A m \in NodeNames, h \in HostKeys :
            hosts'[m][h] # None => hosts'[m][h] = hosts[m][h]
      BY <2>1, <2>3 DEF Remapped
    <3> QED
      BY <3>1
  <2> QED
    BY <2>2, <2>3
<1>4. ASSUME NEW n \in NodeNames, NEW unread, NEW kept, GetPodsByNode(n, unread, kept)
      PROVE  OneHostPerPod'
  <2>1. \A m \in NodeNames, h \in HostKeys :
          hosts'[m][h] # None => hosts'[m][h] = hosts[m][h]
    BY <1>4 DEF GetPodsByNode
  <2> QED
    BY <2>1
<1>5. \A ok, k, w, readable : RegisterNode(w, readable, k, ok) => hosts' = hosts
  BY DEF RegisterNode
<1> QED
  BY <1>1, <1>2, <1>3, <1>4, <1>5, StepCases

(* SchedulePodToNodeHandler: at most one host-nodes key holds a pod's uid, *)
(* with any number of failures.                                            *)
THEOREM OneHost == Spec => []OneHostPerPod
<1>1. Init => OneHostPerPod
  BY DEF Init, OneHostPerPod
<1> QED
  BY <1>1, OneHostPreserved, TypeCorrect, PTL DEF Spec

-----------------------------------------------------------------------------
(* The node records.                                                       *)

(* RegisterNodeHandler draws a new uid: nothing in the store has it.       *)
FreshNodeUids ==
    \A w \in NodeUids \ used :
        nodes[w] = None /\ \A n \in NodeNames : nodeKey[n] # w

NodeInv == FreshNodeUids /\ NodeKeysResolve

LEMMA NodeInvPreserved == TypeOK /\ NodeInv /\ [Next]_vars => NodeInv'
<1> SUFFICES ASSUME TypeOK, NodeInv, [Next]_vars PROVE NodeInv'
  OBVIOUS
<1> USE NoneAssumption DEF TypeOK, NodeInv, FreshNodeUids, NodeKeysResolve
<1>1. ASSUME UNCHANGED nodeVars, used \subseteq used' PROVE NodeInv'
  BY <1>1 DEF nodeVars
<1>2. ASSUME NEW ok \in BOOLEAN, NEW k \in 0 .. 4, NEW w \in NodeUids,
             NEW readable \in BOOLEAN, RegisterNode(w, readable, k, ok)
      PROVE  NodeInv'
  <2> DEFINE seen == IF readable THEN nodePool ELSE {}
             n    == Min(NodeNames \ seen)
  <2>1. seen \in SUBSET NodeNames /\ seen # NodeNames
    BY <1>2 DEF RegisterNode
  <2>2. n \in NodeNames
    BY <2>1, DrawnNameIsFree
  <2>3. /\ nodes' = IF k >= 2 THEN [nodes EXCEPT ![w] = n] ELSE nodes
        /\ nodeKey' = IF k >= 3 THEN [nodeKey EXCEPT ![n] = w] ELSE nodeKey
        /\ used' = used \union {w}
        /\ w \in NodeUids \ used
    BY <1>2 DEF RegisterNode
  <2> HIDE DEF seen, n
  <2>4. FreshNodeUids'
    BY <2>2, <2>3
  <2>5. NodeKeysResolve'
    <3> SUFFICES ASSUME NEW m \in NodeNames, nodeKey'[m] # None
                 PROVE  nodes'[nodeKey'[m]] = m
      OBVIOUS
    <3>1. CASE nodeKey'[m] = w
      <4>1. k >= 3 /\ m = n
        BY <3>1, <2>2, <2>3
      <4> QED
        BY <3>1, <4>1, <2>2, <2>3
    <3>2. CASE nodeKey'[m] # w
      <4>1. nodeKey'[m] = nodeKey[m]
        BY <3>2, <2>2, <2>3
      <4> QED
        BY <3>2, <4>1, <2>2, <2>3
    <3> QED
      BY <3>1, <3>2
  <2> QED
    BY <2>4, <2>5
<1>3. ASSUME NEW ok \in BOOLEAN, NEW k \in 0 .. 4, NEW n \in NodeNames,
             UnregisterNode(n, k, ok)
      PROVE  NodeInv'
  <2>1. /\ nodeKey[n] \in NodeUids
        /\ nodeKey' = IF k >= 2 THEN [nodeKey EXCEPT ![n] = None] ELSE nodeKey
        /\ nodes' = IF k >= 3 THEN [nodes EXCEPT ![nodeKey[n]] = None] ELSE nodes
        /\ used' = used
    BY <1>3 DEF UnregisterNode
  <2>2. FreshNodeUids'
    BY <2>1
  <2>3. NodeKeysResolve'
    <3> SUFFICES ASSUME NEW m \in NodeNames, nodeKey'[m] # None
                 PROVE  nodes'[nodeKey'[m]] = m
      OBVIOUS
    <3>1. nodeKey'[m] = nodeKey[m] /\ (k >= 2 => m # n)
      BY <2>1
    <3>2. nodes[nodeKey[m]] = m /\ nodes[nodeKey[n]] = n
      BY <2>1, <3>1
    <3> QED
      BY <2>1, <3>1, <3>2
  <2> QED
    BY <2>2, <2>3
<1>4. \A u, n, gone, set, ok : SchedulePod(u, n, gone, set, ok)
        => UNCHANGED <<nodeVars, used>>
  BY DEF SchedulePod
<1>5. \A n, unread, kept : GetPodsByNode(n, unread, kept) => UNCHANGED <<nodeVars, used>>
  BY DEF GetPodsByNode
<1> QED
  BY <1>1, <1>2, <1>3, <1>4, <1>5, StepCases

LEMMA NodeInvHolds == Spec => []NodeInv
<1>1. Init => NodeInv
  BY NoneAssumption DEF Init, NodeInv, FreshNodeUids, NodeKeysResolve
<1> QED
  BY <1>1, NodeInvPreserved, TypeCorrect, PTL DEF Spec

(* UnregisterNodeHandler: a node's name key never outlives the node, with  *)
(* any number of failures and even when bitmaps are misread.               *)
THEOREM KeysResolve == Spec => []NodeKeysResolve
  BY NodeInvHolds, PTL DEF NodeInv

-----------------------------------------------------------------------------
(* Unique node names, when a bitmap that is stored can be read.            *)

(* RegisterNodeHandler, UnregisterNodeHandler: the bit of a stored node is *)
(* set: it was set before the node was stored and is cleared after it went.*)
BitsHeld == \A w \in NodeUids : nodes[w] # None => nodes[w] \in nodePool

UniqueInv == BitsHeld /\ UniqueNodeNames

LEMMA UniqueInvPreserved ==
    ~ReadErrors /\ TypeOK /\ NodeInv /\ UniqueInv /\ [Next]_vars => UniqueInv'
<1> SUFFICES ASSUME ~ReadErrors, TypeOK, NodeInv, UniqueInv, [Next]_vars
             PROVE  UniqueInv'
  OBVIOUS
<1> USE NoneAssumption
    DEF TypeOK, NodeInv, FreshNodeUids, NodeKeysResolve, UniqueInv, BitsHeld, UniqueNodeNames
<1>1. ASSUME UNCHANGED nodeVars PROVE UniqueInv'
  BY <1>1 DEF nodeVars
<1>2. ASSUME NEW ok \in BOOLEAN, NEW k \in 0 .. 4, NEW w \in NodeUids,
             NEW readable \in BOOLEAN, RegisterNode(w, readable, k, ok)
      PROVE  UniqueInv'
  <2> DEFINE n == Min(NodeNames \ nodePool)
  <2>1. readable /\ nodePool # NodeNames
    BY <1>2 DEF RegisterNode
  <2>2. n \in NodeNames \ nodePool
    BY <2>1, DrawnNameIsFree
  <2>3. /\ nodePool' = IF k >= 1 THEN nodePool \union {n} ELSE nodePool
        /\ nodes' = IF k >= 2 THEN [nodes EXCEPT ![w] = n] ELSE nodes
    BY <1>2, <2>1 DEF RegisterNode
  <2> HIDE DEF n
  <2>4. \A v \in NodeUids : nodes[v] # n
    <3>1. n # None
      BY <2>2, PoolAssumption DEF NodeNames
    <3> QED
      BY <2>2, <3>1
  <2> QED
    BY <2>2, <2>3, <2>4
<1>3. ASSUME NEW ok \in BOOLEAN, NEW k \in 0 .. 4, NEW n \in NodeNames,
             UnregisterNode(n, k, ok)
      PROVE  UniqueInv'
  <2>1. /\ nodeKey[n] \in NodeUids
        /\ nodes[nodeKey[n]] = n
        /\ nodes' = IF k >= 3 THEN [nodes EXCEPT ![nodeKey[n]] = None] ELSE nodes
        /\ nodePool' = IF k >= 4 THEN nodePool \ {n} ELSE nodePool
    BY <1>3 DEF UnregisterNode
  <2>2. n # None
    BY PoolAssumption DEF NodeNames
  <2>3. \A v \in NodeUids : k >= 3 => nodes'[v] # n
    <3> SUFFICES ASSUME NEW v \in NodeUids, k >= 3 PROVE nodes'[v] # n
      OBVIOUS
    <3>1. CASE v = nodeKey[n]
      BY <3>1, <2>1, <2>2
    <3>2. CASE v # nodeKey[n]
      <4>1. nodes'[v] = nodes[v]
        BY <3>2, <2>1
      <4> QED
        BY <4>1, <3>2, <2>1, <2>2
    <3> QED
      BY <3>1, <3>2
  <2> QED
    BY <2>1, <2>3
<1>4. \A u, n, gone, set, ok : SchedulePod(u, n, gone, set, ok) => UNCHANGED nodeVars
  BY DEF SchedulePod
<1>5. \A n, unread, kept : GetPodsByNode(n, unread, kept) => UNCHANGED nodeVars
  BY DEF GetPodsByNode
<1> QED
  BY <1>1, <1>2, <1>3, <1>4, <1>5, StepCases

(* RegisterNodeHandler, UnregisterNodeHandler: no two stored nodes bear    *)
(* one name, wherever crashes and failing writes cut the handlers short,   *)
(* as long as a stored bitmap is never taken for an absent one.            *)
THEOREM NodeNamesUnique == ASSUME ~ReadErrors PROVE Spec => []UniqueNodeNames
<1>1. Init => UniqueInv
  BY DEF Init, UniqueInv, BitsHeld, UniqueNodeNames
<1>2. TypeOK /\ NodeInv /\ UniqueInv /\ [Next]_vars => UniqueInv'
  BY UniqueInvPreserved
<1>3. UniqueInv => UniqueNodeNames
  BY DEF UniqueInv
<1> QED
  BY <1>1, <1>2, <1>3, TypeCorrect, NodeInvHolds, PTL DEF Spec

-----------------------------------------------------------------------------
(* The pod records.                                                        *)

(* AddPodHandler draws a new uid: nothing in the store has it.             *)
FreshPodUids ==
    \A u \in PodUids \ used :
        /\ pods[u] = None
        /\ \A nm \in Names : podKey[nm] # u
        /\ \A n \in NodeNames, h \in HostKeys : hosts[n][h] # u

(* A name key leads to a pod of its name, if to any, and to no other's.    *)
PodKeysNamed ==
    \A nm \in Names : podKey[nm] # None =>
        /\ pods[podKey[nm]] # None => pods[podKey[nm]].name = nm
        /\ \A other \in Names : podKey[other] = podKey[nm] => other = nm

(* A stored pod is mapped under the key SchedulePodToNode builds for it.   *)
HostKeysNamed ==
    \A n \in NodeNames, h \in HostKeys :
        hosts[n][h] # None /\ pods[hosts[n][h]] # None
            => h = HostKey[pods[hosts[n][h]].name]

PodInv == FreshPodUids /\ PodKeysNamed /\ HostKeysNamed

LEMMA PodInvPreserved == TypeOK /\ PodInv /\ [Next]_vars => PodInv'
<1> SUFFICES ASSUME TypeOK, PodInv, [Next]_vars PROVE PodInv'
  OBVIOUS
<1> USE NoneAssumption, HostKeyAssumption
    DEF PodInv, FreshPodUids, PodKeysNamed, HostKeysNamed
<1>0. /\ podKey \in [Names -> PodUids \union {None}]
      /\ pods \in [PodUids -> Pod \union {None}]
      /\ hosts \in [NodeNames -> [HostKeys -> PodUids \union {None}]]
      /\ \A p \in Pod : p # None /\ p.name \in Names
  BY DEF TypeOK, Pod
<1>1. ASSUME NEW ok \in BOOLEAN, NEW k \in 0 .. 4, NEW nm \in Names, NEW u \in PodUids,
             AddPod(nm, u, k, ok)
      PROVE  PodInv'
  <2>1. /\ podKey[nm] = None /\ u \notin used /\ used' = used \union {u}
        /\ podKey' = IF k >= 1 THEN [podKey EXCEPT ![nm] = u] ELSE podKey
        /\ pods' = IF k >= 2 THEN [pods EXCEPT ![u] = [name |-> nm, status |-> None]] ELSE pods
        /\ hosts' = hosts
    BY <1>1 DEF AddPod, NameFree
  <2>2. \A a \in Names : podKey'[a] = IF a = nm /\ k >= 1 THEN u ELSE podKey[a]
    BY <1>0, <2>1
  <2>3. \A v \in PodUids : pods'[v] = IF v = u /\ k >= 2 THEN [name |-> nm, status |-> None]
                                      ELSE pods[v]
    BY <1>0, <2>1
  <2> QED
    BY <1>0, <2>1, <2>2, <2>3
<1>2. ASSUME NEW ok \in BOOLEAN, NEW k \in 0 .. 4, NEW nm \in Names, DeletePod(nm, k, ok)
      PROVE  PodInv'
  <2>1. /\ podKey[nm] \in PodUids /\ UNCHANGED <<hosts, used>>
        /\ \A a \in Names : podKey'[a] \in {podKey[a], None}
        /\ \A v \in PodUids : pods'[v] \in {pods[v], None}
    BY <1>0, <1>2 DEF DeletePod
  <2> QED
    BY <1>0, <2>1
<1>3. ASSUME NEW ok \in BOOLEAN, NEW k \in 0 .. 4, NEW nm \in Names, NEW from,
             PutPodStatus(nm, from, k, ok)
      PROVE  PodInv'
  <2>1. /\ podKey[nm] \in PodUids /\ pods[podKey[nm]] # None
        /\ UNCHANGED <<hosts, used, podKey>>
        /\ pods' = IF k >= 1 THEN [pods EXCEPT ![podKey[nm]].status = from] ELSE pods
    BY <1>0, <1>3 DEF PutPodStatus
  <2> DEFINE v0 == podKey[nm]
             p0 == [pods[v0] EXCEPT !.status = from]
  <2>2. pods[v0] \in Pod /\ p0.name = pods[v0].name
    BY <1>0, <2>1 DEF Pod
  <2>3. \A v \in PodUids : pods'[v] = pods[v] \/ (v = v0 /\ pods'[v] = p0)
    BY <1>0, <2>1
  <2> HIDE DEF v0, p0
  <2>4. \A v \in PodUids : pods'[v] # None => pods[v] # None /\ pods'[v].name = pods[v].name
    BY <2>1, <2>2, <2>3 DEF v0
  <2>5. \A v \in PodUids : pods[v] = None => pods'[v] = None
    BY <2>1, <2>2, <2>3 DEF v0
  <2> QED
    BY <1>0, <2>1, <2>4, <2>5
<1>4. ASSUME UNCHANGED podVars, used \subseteq used',
             \A n \in NodeNames, h \in HostKeys : hosts'[n][h] \in {hosts[n][h], None}
      PROVE  PodInv'
  BY <1>0, <1>4 DEF podVars
<1>5. ASSUME NEW u \in PodUids, NEW n \in NodeNames, NEW set \in BOOLEAN, NEW ok \in BOOLEAN,
             NEW gone \in SUBSET HostsOf(u), SchedulePod(u, n, gone, set, ok)
      PROVE  PodInv'
  <2>1. /\ pods[u] \in Pod /\ u \in used
        /\ UNCHANGED <<podKey, pods, used>>
        /\ \A m \in NodeNames, h \in HostKeys : hosts'[m][h] = Remapped(m, h, u, n, gone, set)
    BY <1>0, <1>5 DEF SchedulePod, podVars
  <2>2. \A m \in NodeNames, h \in HostKeys :
          hosts'[m][h] \in {hosts[m][h], None}
            \/ (hosts'[m][h] = u /\ h = HostKey[pods[u].name])
    <3> SUFFICES ASSUME NEW m \in NodeNames, NEW h \in HostKeys
                 PROVE  hosts'[m][h] \in {hosts[m][h], None}
                          \/ (hosts'[m][h] = u /\ h = HostKey[pods[u].name])
      OBVIOUS
    <3>1. hosts'[m][h] = Remapped(m, h, u, n, gone, set)
      BY <2>1
    <3> QED
      BY <3>1, Zenon DEF Remapped
  <2> QED
    BY <1>0, <2>1, <2>2
<1>6. \A ok, k, w, readable : RegisterNode(w, readable, k, ok)
        => UNCHANGED <<podVars, hosts>> /\ used \subseteq used'
  BY DEF RegisterNode
<1>7. ASSUME NEW ok \in BOOLEAN, NEW k \in 0 .. 4, NEW n \in NodeNames,
             UnregisterNode(n, k, ok)
      PROVE  PodInv'
  <2>1. \A m \in NodeNames, h \in HostKeys : hosts'[m][h] \in {hosts[m][h], None}
    BY <1>0, <1>7 DEF UnregisterNode
  <2>2. UNCHANGED podVars /\ used' = used
    BY <1>7 DEF UnregisterNode
  <2> QED
    BY <1>4, <2>1, <2>2
<1>8. ASSUME NEW n \in NodeNames, NEW unread, NEW kept, GetPodsByNode(n, unread, kept)
      PROVE  PodInv'
  <2>1. \A m \in NodeNames, h \in HostKeys : hosts'[m][h] \in {hosts[m][h], None}
    BY <1>0, <1>8 DEF GetPodsByNode
  <2>2. UNCHANGED podVars /\ used' = used
    BY <1>8 DEF GetPodsByNode
  <2> QED
    BY <1>4, <2>1, <2>2
<1>9. CASE UNCHANGED <<podVars, hosts>> /\ used \subseteq used'
  BY <1>0, <1>4, <1>9
<1>10. UNCHANGED vars => UNCHANGED <<podVars, hosts>> /\ used \subseteq used'
  BY DEF vars, podVars
<1> QED
  BY <1>1, <1>2, <1>3, <1>5, <1>6, <1>7, <1>8, <1>9, <1>10 DEF Next

LEMMA PodInvHolds == Spec => []PodInv
<1>1. Init => PodInv
  BY NoneAssumption DEF Init, PodInv, FreshPodUids, PodKeysNamed, HostKeysNamed
<1> QED
  BY <1>1, PodInvPreserved, TypeCorrect, PTL DEF Spec

-----------------------------------------------------------------------------
(* What cut handlers leave behind, when a stored bitmap can be read.       *)

(* No assumption makes the uids finite: the debris is, because it is made  *)
(* one record at a time.                                                   *)
DebrisInv ==
    /\ IsFiniteSet(DanglingNames) /\ IsFiniteSet(OrphanPods)
    /\ IsFiniteSet(GhostNodes) /\ IsFiniteSet(LeakedBits)
    /\ DebrisBounded

(* A step that leaves no new debris.                                       *)
LEMMA NoNewDebris ==
    ASSUME DebrisInv, faults \in Nat, faults' \in Nat, faults <= faults',
           DanglingNames' \subseteq DanglingNames, OrphanPods' \subseteq OrphanPods,
           GhostNodes' \subseteq GhostNodes, LeakedBits' \subseteq LeakedBits
    PROVE  DebrisInv'
<1>1. /\ IsFiniteSet(DanglingNames') /\ IsFiniteSet(OrphanPods')
      /\ IsFiniteSet(GhostNodes') /\ IsFiniteSet(LeakedBits')
  BY NoMore DEF DebrisInv
<1>2. /\ Cardinality(DanglingNames) \in Nat /\ Cardinality(DanglingNames') \in Nat
      /\ Cardinality(DanglingNames') <= Cardinality(DanglingNames)
  BY NoMore DEF DebrisInv
<1>3. /\ Cardinality(OrphanPods) \in Nat /\ Cardinality(OrphanPods') \in Nat
      /\ Cardinality(OrphanPods') <= Cardinality(OrphanPods)
  BY NoMore DEF DebrisInv
<1>4. /\ Cardinality(GhostNodes) \in Nat /\ Cardinality(GhostNodes') \in Nat
      /\ Cardinality(GhostNodes') <= Cardinality(GhostNodes)
  BY NoMore DEF DebrisInv
<1>5. /\ Cardinality(LeakedBits) \in Nat /\ Cardinality(LeakedBits') \in Nat
      /\ Cardinality(LeakedBits') <= Cardinality(LeakedBits)
  BY NoMore DEF DebrisInv
<1>6. DebrisBounded'
  BY <1>2, <1>3, <1>4, <1>5 DEF DebrisInv, DebrisBounded
<1> QED
  BY <1>1, <1>6 DEF DebrisInv

(* A failing step that leaves one new piece of debris.                     *)
LEMMA OneNewDebris ==
    ASSUME DebrisInv, faults \in Nat, faults' = faults + 1, NEW x,
           \/ /\ DanglingNames' \subseteq DanglingNames \union {x}
              /\ OrphanPods' \subseteq OrphanPods
              /\ GhostNodes' \subseteq GhostNodes /\ LeakedBits' \subseteq LeakedBits
           \/ /\ OrphanPods' \subseteq OrphanPods \union {x}
              /\ DanglingNames' \subseteq DanglingNames
              /\ GhostNodes' \subseteq GhostNodes /\ LeakedBits' \subseteq LeakedBits
           \/ /\ GhostNodes' \subseteq GhostNodes \union {x}
              /\ DanglingNames' \subseteq DanglingNames
              /\ OrphanPods' \subseteq OrphanPods /\ LeakedBits' \subseteq LeakedBits
           \/ /\ LeakedBits' \subseteq LeakedBits \union {x}
              /\ DanglingNames' \subseteq DanglingNames
              /\ OrphanPods' \subseteq OrphanPods /\ GhostNodes' \subseteq GhostNodes
    PROVE  DebrisInv'
<1>0. ASSUME NEW S, IsFiniteSet(S), NEW T, T \subseteq S \union {x}
      PROVE  /\ IsFiniteSet(T) /\ Cardinality(S) \in Nat /\ Cardinality(T) \in Nat
             /\ Cardinality(T) <= Cardinality(S) + 1
             /\ T \subseteq S => Cardinality(T) <= Cardinality(S)
  BY <1>0, NoMore, OneMore
<1>1. /\ DanglingNames' \subseteq DanglingNames \union {x}
      /\ OrphanPods' \subseteq OrphanPods \union {x}
      /\ GhostNodes' \subseteq GhostNodes \union {x}
      /\ LeakedBits' \subseteq LeakedBits \union {x}
  OBVIOUS
<1>2. /\ IsFiniteSet(DanglingNames')
      /\ Cardinality(DanglingNames) \in Nat /\ Cardinality(DanglingNames') \in Nat
      /\ Cardinality(DanglingNames') <= Cardinality(DanglingNames) + 1
      /\ DanglingNames' \subseteq DanglingNames
            => Cardinality(DanglingNames') <= Cardinality(DanglingNames)
  BY <1>0, <1>1 DEF DebrisInv
<1>3. /\ IsFiniteSet(OrphanPods')
      /\ Cardinality(OrphanPods) \in Nat /\ Cardinality(OrphanPods') \in Nat
      /\ Cardinality(OrphanPods') <= Cardinality(OrphanPods) + 1
      /\ OrphanPods' \subseteq OrphanPods
            => Cardinality(OrphanPods') <= Cardinality(OrphanPods)
  BY <1>0, <1>1 DEF DebrisInv
<1>4. /\ IsFiniteSet(GhostNodes')
      /\ Cardinality(GhostNodes) \in Nat /\ Cardinality(GhostNodes') \in Nat
      /\ Cardinality(GhostNodes') <= Cardinality(GhostNodes) + 1
      /\ GhostNodes' \subseteq GhostNodes
            => Cardinality(GhostNodes') <= Cardinality(GhostNodes)
  BY <1>0, <1>1 DEF DebrisInv
<1>5. /\ IsFiniteSet(LeakedBits')
      /\ Cardinality(LeakedBits) \in Nat /\ Cardinality(LeakedBits') \in Nat
      /\ Cardinality(LeakedBits') <= Cardinality(LeakedBits) + 1
      /\ LeakedBits' \subseteq LeakedBits
            => Cardinality(LeakedBits') <= Cardinality(LeakedBits)
  BY <1>0, <1>1 DEF DebrisInv
<1>6. DebrisBounded'
  BY <1>2, <1>3, <1>4, <1>5 DEF DebrisInv, DebrisBounded
<1> QED
  BY <1>2, <1>3, <1>4, <1>5, <1>6 DEF DebrisInv

(* The pod handlers, by what they add to the debris: AddPodHandler leaves  *)
(* a name without a pod when it is cut after the name key, DeletePodHandler*)
(* a pod without a name.                                                   *)
LEMMA PodDebrisSteps ==
    ASSUME TypeOK, PodInv, [Next]_vars
    PROVE  /\ OrphanPods \subseteq OrphanPods'
           /\ \/ /\ faults \in Nat /\ faults' \in Nat /\ faults <= faults'
                 /\ DanglingNames' \subseteq DanglingNames
                 /\ OrphanPods' \subseteq OrphanPods
              \/ /\ UNCHANGED nodeVars
                 /\ faults \in Nat /\ faults' = faults + 1
                 /\ \/ \E nm \in Names : DanglingNames' \subseteq DanglingNames \union {nm}
                       /\ OrphanPods' \subseteq OrphanPods
                    \/ \E u \in PodUids : OrphanPods' \subseteq OrphanPods \union {u}
                       /\ DanglingNames' \subseteq DanglingNames
<1> DEFINE Shrinks == /\ OrphanPods \subseteq OrphanPods'
                      /\ DanglingNames' \subseteq DanglingNames
                      /\ OrphanPods' \subseteq OrphanPods
           Counts == faults \in Nat /\ faults' \in Nat /\ faults <= faults'
           Goal == /\ OrphanPods \subseteq OrphanPods'
                   /\ \/ Counts /\ DanglingNames' \subseteq DanglingNames
                         /\ OrphanPods' \subseteq OrphanPods
                      \/ /\ UNCHANGED nodeVars
                         /\ faults \in Nat /\ faults' = faults + 1
                         /\ \/ \E nm \in Names :
                                 DanglingNames' \subseteq DanglingNames \union {nm}
                                   /\ OrphanPods' \subseteq OrphanPods
                            \/ \E u \in PodUids : OrphanPods' \subseteq OrphanPods \union {u}
                                 /\ DanglingNames' \subseteq DanglingNames
<1> SUFFICES Goal
  OBVIOUS
<1>0. /\ podKey \in [Names -> PodUids \union {None}]
      /\ pods \in [PodUids -> Pod \union {None}]
      /\ \A p \in Pod : p # None /\ p.name \in Names
      /\ None \notin PodUids /\ faults \in Nat
      /\ \A u \in PodUids : pods[u] # None => pods[u].name \in Names
  BY NoneAssumption, FaultAssumption DEF TypeOK, Pod
<1>1. ASSUME NEW ok \in BOOLEAN, NEW k \in 0 .. 4, NEW nm \in Names, NEW u \in PodUids,
             AddPod(nm, u, k, ok)
      PROVE  Goal
  <2>1. /\ podKey[nm] = None /\ u \notin used /\ UNCHANGED nodeVars
        /\ podKey' = IF k >= 1 THEN [podKey EXCEPT ![nm] = u] ELSE podKey
        /\ pods' = IF k >= 2 THEN [pods EXCEPT ![u] = [name |-> nm, status |-> None]] ELSE pods
        /\ k \in 0 .. 2
        /\ (faults' = faults /\ k = 2) \/ faults' = faults + 1
    BY <1>1, <1>0 DEF AddPod, NameFree, Ends
  <2>2. /\ \A a \in Names : podKey'[a] = IF a = nm /\ k >= 1 THEN u ELSE podKey[a]
        /\ \A v \in PodUids : pods'[v] = IF v = u /\ k >= 2 THEN [name |-> nm, status |-> None]
                                        ELSE pods[v]
        /\ [name |-> nm, status |-> None] # None
        /\ [name |-> nm, status |-> None].name = nm
    BY <1>0, <2>1 DEF Pod
  <2>3. pods[u] = None /\ \A a \in Names : podKey[a] # u
    BY <2>1 DEF PodInv, FreshPodUids
  <2>4. OrphanPods' = OrphanPods
    <3>1. \A v \in PodUids : pods[v] # None => v # u /\ pods'[v] = pods[v]
      BY <2>2, <2>3
    <3>2. \A v \in PodUids :
            v # u => (podKey'[pods[v].name] = v <=> podKey[pods[v].name] = v) \/ pods[v] = None
      BY <1>0, <2>1, <2>2
    <3>3. u \notin OrphanPods /\ u \notin OrphanPods'
      BY <2>1, <2>2, <2>3 DEF OrphanPods
    <3>4. \A v \in PodUids : v # u => pods'[v] = pods[v]
      BY <2>2
    <3> QED
      BY <3>1, <3>2, <3>3, <3>4 DEF OrphanPods
  <2>5. DanglingNames' \subseteq DanglingNames \union {nm}
    BY <1>0, <2>2, <2>3 DEF DanglingNames
  <2>6. CASE faults' = faults
    <3>1. nm \notin DanglingNames'
      BY <2>1, <2>2, <2>6, <1>0 DEF DanglingNames
    <3> QED
      BY <1>0, <2>4, <2>5, <2>6, <3>1
  <2> QED
    BY <1>0, <2>1, <2>4, <2>5, <2>6
<1>2. ASSUME NEW ok \in BOOLEAN, NEW k \in 0 .. 4, NEW nm \in Names, DeletePod(nm, k, ok)
      PROVE  Goal
  <2> DEFINE u == podKey[nm]
  <2>1. /\ u \in PodUids /\ UNCHANGED nodeVars
        /\ podKey' = IF k >= 1 THEN [podKey EXCEPT ![nm] = None] ELSE podKey
        /\ pods' = IF k >= 2 THEN [pods EXCEPT ![u] = None] ELSE pods
        /\ k >= 2 => pods[u] # None
        /\ k \in 0 .. 2
        /\ (faults' = faults /\ k = 1 /\ pods[u] = None)
             \/ (faults' = faults /\ k = 2)
             \/ faults' = faults + 1
    BY <1>2, <1>0 DEF DeletePod, Ends
  <2>2. /\ \A a \in Names : podKey'[a] = IF a = nm /\ k >= 1 THEN None ELSE podKey[a]
        /\ \A v \in PodUids : pods'[v] = IF v = u /\ k >= 2 THEN None ELSE pods[v]
    BY <1>0, <2>1
  <2>3. \A a \in Names : podKey[a] = u => a = nm
    BY <1>2 DEF PodInv, PodKeysNamed, DeletePod
  <2>4. u \notin OrphanPods
    BY <1>2, <2>1 DEF PodInv, PodKeysNamed, OrphanPods, DeletePod
  <2> HIDE DEF u
  <2>5. DanglingNames' \subseteq DanglingNames
    BY <1>0, <2>1, <2>2, <2>3 DEF DanglingNames
  <2>6. OrphanPods \subseteq OrphanPods'
    <3> SUFFICES ASSUME NEW v \in OrphanPods PROVE v \in OrphanPods'
      OBVIOUS
    <3>1. v \in PodUids /\ v # u /\ pods[v] # None /\ podKey[pods[v].name] # v
      BY <2>4 DEF OrphanPods
    <3> QED
      BY <1>0, <2>2, <3>1 DEF OrphanPods
  <2>7. OrphanPods' \subseteq OrphanPods \union {u}
    <3> SUFFICES ASSUME NEW v \in OrphanPods', v # u PROVE v \in OrphanPods
      OBVIOUS
    <3>1. v \in PodUids /\ pods[v] # None /\ podKey'[pods[v].name] # v
      BY <2>2 DEF OrphanPods
    <3>2. pods[v].name = nm => podKey[pods[v].name] # v
      BY <3>1 DEF u
    <3> QED
      BY <1>0, <2>2, <3>1, <3>2 DEF OrphanPods
  <2>8. CASE faults' = faults
    <3>1. u \notin OrphanPods'
      BY <1>0, <2>1, <2>2, <2>8 DEF OrphanPods
    <3> QED
      BY <1>0, <2>5, <2>6, <2>7, <2>8, <3>1
  <2> QED
    BY <1>0, <2>1, <2>5, <2>6, <2>7, <2>8
<1>3. ASSUME NEW ok \in BOOLEAN, NEW k \in 0 .. 4, NEW nm \in Names, NEW from \in PodUids,
             PutPodStatus(nm, from, k, ok)
      PROVE  Goal
  <2> DEFINE v0 == podKey[nm]
             p0 == [pods[v0] EXCEPT !.status = from]
  <2>1. /\ v0 \in PodUids /\ pods[v0] # None /\ podKey' = podKey
        /\ pods' = IF k >= 1 THEN [pods EXCEPT ![v0].status = from] ELSE pods
        /\ faults' = faults \/ faults' = faults + 1
    BY <1>0, <1>3 DEF PutPodStatus, Ends
  <2>2. pods[v0] \in Pod /\ p0.name = pods[v0].name /\ p0 # None
    <3>1. pods[v0] \in Pod
      BY <1>0, <2>1
    <3>2. p0 = [name |-> pods[v0].name, status |-> from]
      BY <3>1 DEF Pod
    <3>3. p0 \in Pod
      BY <3>1, <3>2 DEF Pod
    <3> QED
      BY <3>1, <3>2, <3>3, <1>0
  <2>3. \A v \in PodUids : pods'[v] = pods[v] \/ (v = v0 /\ pods'[v] = p0)
    BY <1>0, <2>1
  <2> HIDE DEF v0, p0
  <2>4. \A v \in PodUids : pods'[v] # None => pods[v] # None /\ pods'[v].name = pods[v].name
    BY <2>1, <2>2, <2>3
  <2>5. \A v \in PodUids : pods[v] # None => pods'[v] # None /\ pods'[v].name = pods[v].name
    BY <2>1, <2>2, <2>3
  <2>6. OrphanPods' = OrphanPods
    BY <2>1, <2>4, <2>5 DEF OrphanPods
  <2>7. DanglingNames' = DanglingNames
    BY <1>0, <2>1, <2>4, <2>5 DEF DanglingNames
  <2> QED
    BY <1>0, <2>1, <2>6, <2>7
<1>4. ASSUME UNCHANGED podVars, faults' = faults \/ faults' = faults + 1 PROVE Goal
  BY <1>0, <1>4 DEF podVars, OrphanPods, DanglingNames
<1>5. \A ok, k, total : Ends(ok, k, total) => faults' = faults \/ faults' = faults + 1
  BY DEF Ends
<1>6. \A ok, k, w, readable : RegisterNode(w, readable, k, ok) =>
        UNCHANGED podVars /\ (faults' = faults \/ faults' = faults + 1)
  BY <1>5 DEF RegisterNode
<1>7. \A n, ok, k : UnregisterNode(n, k, ok) =>
        UNCHANGED podVars /\ (faults' = faults \/ faults' = faults + 1)
  BY <1>5 DEF UnregisterNode
<1>8. \A u, n, gone, set, ok : SchedulePod(u, n, gone, set, ok) =>
        UNCHANGED podVars /\ (faults' = faults \/ faults' = faults + 1)
  BY <1>5 DEF SchedulePod
<1>9. \A n, unread, kept : GetPodsByNode(n, unread, kept) =>
        UNCHANGED podVars /\ (faults' = faults \/ faults' = faults + 1)
  BY DEF GetPodsByNode
<1>10. UNCHANGED vars => UNCHANGED podVars /\ faults' = faults
  BY DEF vars, podVars
<1> HIDE DEF Goal
<1> QED
  BY <1>1, <1>2, <1>3, <1>4, <1>6, <1>7, <1>8, <1>9, <1>10 DEF Next

(* The node handlers: RegisterNodeHandler cut after the bitmap leaves a    *)
(* bit without a node, after the node one without a name; UnregisterNode   *)
(* passes through the same two states on its way back.                     *)
LEMMA NodeDebrisSteps ==
    ASSUME ~ReadErrors, TypeOK, NodeInv, UniqueInv,
           NEW ok \in BOOLEAN, NEW k \in 0 .. 4,
           \/ \E w \in NodeUids, readable \in BOOLEAN : RegisterNode(w, readable, k, ok)
           \/ \E n \in NodeNames : UnregisterNode(n, k, ok)
    PROVE  \/ /\ faults <= faults'
              /\ GhostNodes' \subseteq GhostNodes /\ LeakedBits' \subseteq LeakedBits
           \/ /\ faults' = faults + 1
              /\ \/ \E w \in NodeUids : GhostNodes' \subseteq GhostNodes \union {w}
                                          /\ LeakedBits' \subseteq LeakedBits
                 \/ \E n \in NodeNames : LeakedBits' \subseteq LeakedBits \union {n}
                                           /\ GhostNodes' \subseteq GhostNodes
<1> DEFINE Goal == \/ /\ faults <= faults'
                      /\ GhostNodes' \subseteq GhostNodes /\ LeakedBits' \subseteq LeakedBits
                   \/ /\ faults' = faults + 1
                      /\ \/ \E w \in NodeUids : GhostNodes' \subseteq GhostNodes \union {w}
                                                  /\ LeakedBits' \subseteq LeakedBits
                         \/ \E n \in NodeNames : LeakedBits' \subseteq LeakedBits \union {n}
                                                   /\ GhostNodes' \subseteq GhostNodes
<1>0. /\ nodeKey \in [NodeNames -> NodeUids \union {None}]
      /\ nodes \in [NodeUids -> NodeNames \union {None}]
      /\ nodePool \subseteq NodeNames /\ faults \in Nat
      /\ None \notin NodeNames /\ None \notin NodeUids
  BY NoneAssumption, PoolAssumption, FaultAssumption DEF TypeOK, NodeNames
<1>1. ASSUME NEW w \in NodeUids, NEW readable \in BOOLEAN, RegisterNode(w, readable, k, ok)
      PROVE  Goal
  <2> DEFINE n == Min(NodeNames \ nodePool)
  <2>1. readable /\ nodePool # NodeNames
    BY <1>1 DEF RegisterNode
  <2>2. n \in NodeNames \ nodePool
    BY <1>0, <2>1, DrawnNameIsFree
  <2>3. /\ nodePool' = IF k >= 1 THEN nodePool \union {n} ELSE nodePool
        /\ nodes' = IF k >= 2 THEN [nodes EXCEPT ![w] = n] ELSE nodes
        /\ nodeKey' = IF k >= 3 THEN [nodeKey EXCEPT ![n] = w] ELSE nodeKey
        /\ w \in NodeUids \ used
        /\ k \in 0 .. 3
        /\ (faults' = faults /\ k = 3) \/ faults' = faults + 1
    BY <1>1, <2>1, <1>0 DEF RegisterNode, Ends
  <2> HIDE DEF n
  <2>4. /\ \A v \in NodeUids : nodes'[v] = IF v = w /\ k >= 2 THEN n ELSE nodes[v]
        /\ \A m \in NodeNames : nodeKey'[m] = IF m = n /\ k >= 3 THEN w ELSE nodeKey[m]
    BY <1>0, <2>2, <2>3
  <2>5. nodes[w] = None /\ \A v \in NodeUids : nodes[v] # n
    BY <1>0, <2>2, <2>3 DEF NodeInv, FreshNodeUids, UniqueInv, BitsHeld
  <2>6. GhostNodes' \subseteq GhostNodes \union {w}
    <3> SUFFICES ASSUME NEW v \in GhostNodes', v # w PROVE v \in GhostNodes
      OBVIOUS
    <3>1. v \in NodeUids /\ nodes'[v] # None /\ nodeKey'[nodes'[v]] # v
      BY DEF GhostNodes
    <3>2. nodes[v] = nodes'[v] /\ nodes[v] \in NodeNames /\ nodes[v] # n
      BY <1>0, <2>4, <2>5, <3>1
    <3>3. nodeKey'[nodes[v]] = nodeKey[nodes[v]]
      BY <2>4, <3>2
    <3> QED
      BY <3>1, <3>2, <3>3 DEF GhostNodes
  <2>7. k = 3 => w \notin GhostNodes'
    BY <2>2, <2>4 DEF GhostNodes
  <2>8. k <= 1 => w \notin GhostNodes'
    BY <2>4, <2>5 DEF GhostNodes
  <2>9. LeakedBits' \subseteq LeakedBits \union {n}
    <3> SUFFICES ASSUME NEW m \in LeakedBits', m # n PROVE m \in LeakedBits
      OBVIOUS
    <3>1. m \in nodePool /\ \A v \in NodeUids : nodes'[v] # m
      BY <2>3 DEF LeakedBits
    <3>2. \A v \in NodeUids : v # w => nodes[v] # m
      BY <2>4, <3>1
    <3>3. nodes[w] # m
      BY <1>0, <2>5, <3>1
    <3> QED
      BY <3>1, <3>2, <3>3 DEF LeakedBits
  <2>10. k >= 2 => n \notin LeakedBits'
    BY <2>4 DEF LeakedBits
  <2>11. k = 0 => n \notin LeakedBits'
    BY <2>2, <2>3 DEF LeakedBits
  <2>12. CASE k = 3
    BY <2>3, <2>6, <2>7, <2>9, <2>10, <2>12, <1>0
  <2>13. CASE k = 2
    BY <2>3, <2>6, <2>9, <2>10, <2>13
  <2>14. CASE k = 1
    BY <2>2, <2>3, <2>6, <2>8, <2>9, <2>14
  <2>15. CASE k = 0
    BY <2>3, <2>6, <2>8, <2>9, <2>11, <2>15, <1>0
  <2> QED
    BY <2>3, <2>12, <2>13, <2>14, <2>15
<1>2. ASSUME NEW n \in NodeNames, UnregisterNode(n, k, ok) PROVE Goal
  <2> DEFINE w == nodeKey[n]
  <2>1. w \in NodeUids /\ nodes[w] = n /\ n \in nodePool
    BY <1>0, <1>2 DEF UnregisterNode, NodeInv, NodeKeysResolve, UniqueInv, BitsHeld
  <2>2. /\ nodeKey' = IF k >= 2 THEN [nodeKey EXCEPT ![n] = None] ELSE nodeKey
        /\ nodes' = IF k >= 3 THEN [nodes EXCEPT ![w] = None] ELSE nodes
        /\ nodePool' = IF k >= 4 THEN nodePool \ {n} ELSE nodePool
        /\ (faults' = faults /\ k = 4) \/ faults' = faults + 1
    BY <1>2, <2>1 DEF UnregisterNode, Ends
  <2> HIDE DEF w
  <2>3. /\ \A v \in NodeUids : nodes'[v] = IF v = w /\ k >= 3 THEN None ELSE nodes[v]
        /\ \A m \in NodeNames : nodeKey'[m] = IF m = n /\ k >= 2 THEN None ELSE nodeKey[m]
    BY <1>0, <2>1, <2>2
  <2>4. \A v \in NodeUids : nodes[v] = n => v = w
    BY <1>0, <2>1 DEF UniqueInv, UniqueNodeNames
  <2>5. GhostNodes' \subseteq GhostNodes \union {w}
    <3> SUFFICES ASSUME NEW v \in GhostNodes', v # w PROVE v \in GhostNodes
      OBVIOUS
    <3>1. v \in NodeUids /\ nodes'[v] # None /\ nodeKey'[nodes'[v]] # v
      BY DEF GhostNodes
    <3>2. nodes[v] = nodes'[v] /\ nodes[v] \in NodeNames /\ nodes[v] # n
      BY <1>0, <2>3, <2>4, <3>1
    <3>3. nodeKey'[nodes[v]] = nodeKey[nodes[v]]
      BY <2>3, <3>2
    <3> QED
      BY <3>1, <3>2, <3>3 DEF GhostNodes
  <2>6. k >= 3 => w \notin GhostNodes'
    BY <2>3 DEF GhostNodes
  <2>7. k <= 1 /\ w \in GhostNodes' => w \in GhostNodes
    BY <2>1, <2>3 DEF GhostNodes
  <2>8. LeakedBits' \subseteq LeakedBits \union {n}
    <3> SUFFICES ASSUME NEW m \in LeakedBits', m # n PROVE m \in LeakedBits
      OBVIOUS
    <3>1. m \in nodePool /\ \A v \in NodeUids : nodes'[v] # m
      BY <2>2 DEF LeakedBits
    <3>2. \A v \in NodeUids : v # w => nodes[v] # m
      BY <2>3, <3>1
    <3> QED
      BY <3>1, <3>2, <2>1 DEF LeakedBits
  <2>9. k <= 2 => n \notin LeakedBits'
    BY <2>1, <2>3 DEF LeakedBits
  <2>10. k = 4 => n \notin LeakedBits'
    BY <2>2 DEF LeakedBits
  <2>11. CASE k = 4
    BY <2>2, <2>5, <2>6, <2>8, <2>10, <2>11, <1>0
  <2>12. CASE k = 3
    BY <2>2, <2>5, <2>6, <2>8, <2>12
  <2>13. CASE k = 2
    BY <2>1, <2>2, <2>5, <2>8, <2>9, <2>13
  <2>14. CASE k <= 1
    BY <2>2, <2>5, <2>7, <2>8, <2>9, <2>14, <1>0
  <2> QED
    BY <2>11, <2>12, <2>13, <2>14
<1> QED
  BY <1>1, <1>2

LEMMA DebrisInvPreserved ==
    ~ReadErrors /\ TypeOK /\ PodInv /\ NodeInv /\ UniqueInv /\ DebrisInv /\ [Next]_vars
        => DebrisInv'
<1> SUFFICES ASSUME ~ReadErrors, TypeOK, PodInv, NodeInv, UniqueInv, DebrisInv, [Next]_vars
             PROVE  DebrisInv'
  OBVIOUS
<1>0. faults \in Nat
  BY FaultAssumption DEF TypeOK
<1>1. CASE UNCHANGED nodeVars
  <2>1. GhostNodes' \subseteq GhostNodes /\ LeakedBits' \subseteq LeakedBits
    BY <1>1 DEF nodeVars, GhostNodes, LeakedBits
  <2>2. CASE /\ faults' \in Nat /\ faults <= faults'
             /\ DanglingNames' \subseteq DanglingNames /\ OrphanPods' \subseteq OrphanPods
    BY <1>0, <2>1, <2>2, NoNewDebris
  <2>3. ASSUME NEW nm, faults' = faults + 1, OrphanPods' \subseteq OrphanPods,
               DanglingNames' \subseteq DanglingNames \union {nm}
        PROVE  DebrisInv'
    BY <1>0, <2>1, <2>3, OneNewDebris
  <2>4. ASSUME NEW u, faults' = faults + 1, DanglingNames' \subseteq DanglingNames,
               OrphanPods' \subseteq OrphanPods \union {u}
        PROVE  DebrisInv'
    BY <1>0, <2>1, <2>4, OneNewDebris
  <2> QED
    BY <2>2, <2>3, <2>4, PodDebrisSteps
<1>2. ASSUME NEW ok \in BOOLEAN, NEW k \in 0 .. 4,
             \/ \E w \in NodeUids, readable \in BOOLEAN : RegisterNode(w, readable, k, ok)
             \/ \E n \in NodeNames : UnregisterNode(n, k, ok)
      PROVE  DebrisInv'
  <2>1. UNCHANGED podVars
    BY <1>2 DEF RegisterNode, UnregisterNode
  <2>2. DanglingNames' \subseteq DanglingNames /\ OrphanPods' \subseteq OrphanPods
    BY <2>1 DEF podVars, DanglingNames, OrphanPods
  <2>3. TypeOK'
    BY TypeOKPreserved
  <2>4. faults' \in Nat
    BY <2>3, FaultAssumption DEF TypeOK
  <2>5. CASE /\ faults <= faults'
             /\ GhostNodes' \subseteq GhostNodes /\ LeakedBits' \subseteq LeakedBits
    BY <1>0, <2>2, <2>4, <2>5, NoNewDebris
  <2>6. ASSUME NEW w, faults' = faults + 1, LeakedBits' \subseteq LeakedBits,
               GhostNodes' \subseteq GhostNodes \union {w}
        PROVE  DebrisInv'
    BY <1>0, <2>2, <2>6, OneNewDebris
  <2>7. ASSUME NEW n, faults' = faults + 1, GhostNodes' \subseteq GhostNodes,
               LeakedBits' \subseteq LeakedBits \union {n}
        PROVE  DebrisInv'
    BY <1>0, <2>2, <2>7, OneNewDebris
  <2> QED
    BY <1>2, <2>5, <2>6, <2>7, NodeDebrisSteps
<1>3. \A u, n, gone, set, ok : SchedulePod(u, n, gone, set, ok) => UNCHANGED nodeVars
  BY DEF SchedulePod
<1>4. \A n, unread, kept : GetPodsByNode(n, unread, kept) => UNCHANGED nodeVars
  BY DEF GetPodsByNode
<1> QED
  BY <1>1, <1>2, <1>3, <1>4, StepCases

(* All write handlers of pods and nodes: each failing call or crash leaves *)
(* at most one record that no request by name can reach, for any number of *)
(* them, as long as a stored bitmap is never taken for an absent one.      *)
THEOREM DebrisIsBounded == ASSUME ~ReadErrors PROVE Spec => []DebrisBounded
<1>1. Init => UniqueInv /\ DebrisInv
  <2> SUFFICES ASSUME Init PROVE UniqueInv /\ DebrisInv
    OBVIOUS
  <2>1. /\ DanglingNames = {} /\ OrphanPods = {} /\ GhostNodes = {} /\ LeakedBits = {}
        /\ faults = 0
    BY DEF Init, DanglingNames, OrphanPods, GhostNodes, LeakedBits
  <2>2. IsFiniteSet({}) /\ Cardinality({}) = 0
    BY FS_EmptySet
  <2> QED
    BY <2>1, <2>2 DEF Init, UniqueInv, BitsHeld, UniqueNodeNames, DebrisInv, DebrisBounded
<1>2. TypeOK /\ PodInv /\ NodeInv /\ UniqueInv /\ DebrisInv /\ [Next]_vars
        => UniqueInv' /\ DebrisInv'
  BY UniqueInvPreserved, DebrisInvPreserved
<1>3. DebrisInv => DebrisBounded
  BY DEF DebrisInv
<1> QED
  BY <1>1, <1>2, <1>3, TypeCorrect, PodInvHolds, NodeInvHolds, PTL DEF Spec

-----------------------------------------------------------------------------
(* A placed pod keeps a host.                                              *)

(* Nothing by which a request could reach an orphan is ever written again. *)
LEMMA OrphansStay == TypeOK /\ PodInv /\ [Next]_vars /\ OrphanPods' = {} => OrphanPods = {}
  BY PodDebrisSteps

(* Only a failure orphans a pod.                                           *)
NoOrphansYet == faults = 0 => OrphanPods = {}

LEMMA NoOrphansYetHolds == Spec => []NoOrphansYet
<1>1. Init => NoOrphansYet
  BY DEF Init, NoOrphansYet, OrphanPods
<1>2. TypeOK /\ PodInv /\ NoOrphansYet /\ [Next]_vars => NoOrphansYet'
  BY PodDebrisSteps DEF NoOrphansYet
<1> QED
  BY <1>1, <1>2, TypeCorrect, PodInvHolds, PTL DEF Spec

(* The names of the cluster's pods: "<namespace>_<podname>" tells any two  *)
(* of them apart.  Where it does not, the Set of the second pod takes the  *)
(* key of the first on the same node.                                      *)
HostKeysDistinct == \A a, b \in Names : HostKey[a] = HostKey[b] => a = b

(* A host-nodes key belongs to one stored pod.                             *)
LEMMA HostKeyOfOnePod ==
    ASSUME TypeOK, PodInv, OrphanPods = {}, HostKeysDistinct,
           NEW u \in PodUids, NEW v \in PodUids, pods[u] # None, pods[v] # None,
           HostKey[pods[u].name] = HostKey[pods[v].name]
    PROVE  u = v
<1>1. pods[u].name \in Names /\ pods[v].name \in Names
  BY DEF TypeOK, Pod
<1>2. podKey[pods[u].name] = u /\ podKey[pods[v].name] = v
  BY DEF OrphanPods
<1> QED
  BY <1>1, <1>2 DEF HostKeysDistinct

(* SchedulePodToNodeHandler: a placement without orphans about removes the *)
(* mappings of its own pod only.                                           *)
LEMMA PlacementSparesOthers ==
    ASSUME TypeOK, PodInv, OrphanPods = {}, HostKeysDistinct,
           NEW v \in PodUids, NEW m \in NodeNames, NEW set \in BOOLEAN, NEW ok \in BOOLEAN,
           NEW gone \in SUBSET HostsOf(v), SchedulePod(v, m, gone, set, ok),
           NEW n \in NodeNames, NEW h \in HostKeys,
           hosts[n][h] # None, hosts[n][h] # v, pods[hosts[n][h]] # None
    PROVE  hosts'[n][h] = hosts[n][h]
<1> DEFINE u == hosts[n][h]
<1>1. u \in PodUids /\ pods[u] # None /\ pods[v] # None
  BY DEF TypeOK, SchedulePod
<1>2. h = HostKey[pods[u].name]
  BY DEF PodInv, HostKeysNamed
<1>3. h # HostKey[pods[v].name]
  BY <1>1, <1>2, HostKeyOfOnePod
<1>4. <<n, h>> \notin gone
  BY Zenon DEF HostsOf
<1>5. hosts'[n][h] = Remapped(n, h, v, m, gone, set)
  BY DEF SchedulePod
<1> QED
  BY <1>3, <1>4, <1>5, Zenon DEF Remapped

LEMMA HostKeptByStep ==
    ASSUME HostKeysDistinct, TypeOK, PodInv, NoOrphansYet, [Next]_vars, faults' = 0,
           NEW n \in NodeNames, NEW h \in HostKeys, NEW u, u = hosts[n][h],
           u # None, pods[u] # None, nodeKey[n] # None
    PROVE  \/ nodeKey'[n] = None
           \/ \E m \in NodeNames, k \in HostKeys : hosts'[m][k] = u
<1> DEFINE Kept == \/ nodeKey'[n] = None
                   \/ \E m \in NodeNames, k \in HostKeys : hosts'[m][k] = u
<1> SUFFICES Kept
  OBVIOUS
<1>0. /\ hosts \in [NodeNames -> [HostKeys -> PodUids \union {None}]]
      /\ nodeKey \in [NodeNames -> NodeUids \union {None}]
      /\ faults \in Nat /\ u \in PodUids
  BY FaultAssumption DEF TypeOK
<1>1. CASE hosts' = hosts
  BY <1>1
<1>2. ASSUME NEW ok \in BOOLEAN, NEW k \in 0 .. 4, NEW m \in NodeNames,
             UnregisterNode(m, k, ok)
      PROVE  Kept
  <2>1. k >= 3
    BY <1>0, <1>2 DEF UnregisterNode, Ends
  <2>2. CASE m = n
    BY <1>0, <1>2, <2>1, <2>2 DEF UnregisterNode
  <2>3. CASE m # n
    <3>1. hosts'[n] = hosts[n]
      BY <1>0, <1>2, <2>3 DEF UnregisterNode
    <3> QED
      BY <3>1
  <2> QED
    BY <2>2, <2>3
<1>3. ASSUME NEW v \in PodUids, NEW m \in NodeNames, NEW set \in BOOLEAN, NEW ok \in BOOLEAN,
             NEW gone \in SUBSET HostsOf(v), SchedulePod(v, m, gone, set, ok)
      PROVE  Kept
  <2>1. faults = 0 /\ set
    BY <1>0, <1>3 DEF SchedulePod, Ends
  <2>2. OrphanPods = {}
    BY <2>1 DEF NoOrphansYet
  <2>3. CASE u = v
    <3> DEFINE g == HostKey[pods[v].name]
    <3>1. g \in HostKeys
      BY <1>3, HostKeyAssumption DEF SchedulePod, TypeOK, Pod
    <3>2. hosts'[m][g] = Remapped(m, g, v, m, gone, set)
      BY <1>3, <3>1 DEF SchedulePod
    <3> QED
      BY <2>1, <2>3, <3>1, <3>2 DEF Remapped
  <2>4. CASE u # v
    BY <1>3, <2>2, <2>4, PlacementSparesOthers
  <2> QED
    BY <2>3, <2>4
<1>4. ASSUME NEW m \in NodeNames, NEW unread, NEW kept, GetPodsByNode(m, unread, kept)
      PROVE  Kept
  <2>1. unread = {}
    BY <1>0, <1>4 DEF GetPodsByNode
  <2>2. CASE m = n
    <3>1. h \notin Gone(n)
      BY DEF Gone
    <3>2. hosts'[n][h] = hosts[n][h]
      BY <1>0, <1>4, <2>1, <2>2, <3>1 DEF GetPodsByNode
    <3> QED
      BY <3>2
  <2>3. CASE m # n
    <3>1. hosts'[n] = hosts[n]
      BY <1>0, <1>4, <2>3 DEF GetPodsByNode
    <3> QED
      BY <3>1
  <2> QED
    BY <2>2, <2>3
<1>5. \A ok, k, w, readable : RegisterNode(w, readable, k, ok) => hosts' = hosts
  BY DEF RegisterNode
<1> QED
  BY <1>1, <1>2, <1>3, <1>4, <1>5, StepCases

(* GetPodsByNodeHandler, SchedulePodToNodeHandler: while no call fails, a  *)
(* stored pod that has a host keeps one until that host unregisters, for   *)
(* any cluster whose host-nodes keys tell its pod names apart.             *)
THEOREM HostKept == ASSUME HostKeysDistinct PROVE Spec => HostKeptUntilUnregister
<1>1. TypeOK /\ PodInv /\ NoOrphansYet /\ [Next]_vars
        => [faults' = 0 =>
              \A n \in NodeNames, h \in HostKeys :
                LET u == hosts[n][h] IN
                (u # None /\ pods[u] # None /\ pods'[u] # None /\ nodeKey[n] # None)
                    => \/ nodeKey'[n] = None
                       \/ \E m \in NodeNames, k \in HostKeys : hosts'[m][k] = u]_vars
  BY HostKeptByStep
<1> QED
  BY <1>1, TypeCorrect, PodInvHolds, NoOrphansYetHolds, PTL DEF Spec, HostKeptUntilUnregister
-----------------------------------------------------------------------------
(* For the modules that build on the registry: what its records keep to,   *)
(* whatever fails.                                                         *)
RegistryInv == TypeOK /\ OneHostPerPod /\ NodeInv /\ PodInv

LEMMA RegistryInvInitially == Init => RegistryInv /\ UniqueInv
  BY TypeOKInitially, NoneAssumption
     DEF RegistryInv, UniqueInv, Init, OneHostPerPod, NodeInv, FreshNodeUids, NodeKeysResolve,
         PodInv, FreshPodUids, PodKeysNamed, HostKeysNamed, BitsHeld, UniqueNodeNames

LEMMA RegistryInvStep == RegistryInv /\ [Next]_vars => RegistryInv'
  BY TypeOKPreserved, OneHostPreserved, NodeInvPreserved, PodInvPreserved DEF RegistryInv

(* A request that fails before the server wrote any of these records, or   *)
(* that is about other ones: failures are counted, and nothing else.       *)
LEMMA FailuresElsewhere ==
    ASSUME UNCHANGED <<podVars, nodeVars, hosts, used>>, faults' \in 0 .. MaxFaults
    PROVE  /\ RegistryInv => RegistryInv'
           /\ UniqueInv => UniqueInv'
           /\ OrphanPods' = OrphanPods
<1>1. /\ podKey' = podKey /\ pods' = pods /\ hosts' = hosts
      /\ nodeKey' = nodeKey /\ nodes' = nodes /\ nodePool' = nodePool /\ used' = used
  BY DEF podVars, nodeVars
<1>2. TypeOK => TypeOK'
  BY <1>1 DEF TypeOK
<1>3. OneHostPerPod => OneHostPerPod'
  BY <1>1 DEF OneHostPerPod
<1>4. NodeInv => NodeInv'
  BY <1>1 DEF NodeInv, FreshNodeUids, NodeKeysResolve
<1>5. PodInv => PodInv'
  BY <1>1 DEF PodInv, FreshPodUids, PodKeysNamed, HostKeysNamed
<1>6. UniqueInv => UniqueInv'
  BY <1>1 DEF UniqueInv, BitsHeld, UniqueNodeNames
<1>7. OrphanPods' = OrphanPods
  BY <1>1 DEF OrphanPods
<1> QED
  BY <1>2, <1>3, <1>4, <1>5, <1>6, <1>7 DEF RegistryInv
=============================================================================
