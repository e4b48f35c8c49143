----------------------- MODULE ServiceRegistryProofs ------------------------
(* Proofs about ServiceRegistry, for any number of services, DNS objects,  *)
(* IPs and failures: its type invariant, that node ports stay disjoint and *)
(* that a service's name always leads to it.                               *)
EXTENDS ServiceRegistry, TLAPS, NaturalsInduction, WellFoundedInduction, FiniteSetTheorems

(* The principle of the least number, in the form the proofs cite: an      *)
(* induction over an index goes through its least counterexample.          *)
LEMMA LeastExists ==
    ASSUME NEW S, S \subseteq Nat, S # {}
    PROVE  \E x \in S : \A y \in S : x <= y
<1> DEFINE R == {ss \in Nat \X Nat : ss[1] < ss[2]}
<1>1. R = OpToRel(<, Nat)
  BY DEF OpToRel
<1>2. IsWellFoundedOn(R, Nat)
  BY <1>1, NatLessThanWellFounded
<1> HIDE DEF R
<1>3. PICK x \in S : \A y \in S : ~ (<<y, x>> \in R)
  BY <1>2, WFMin
<1>4. \A y \in S : y < x => <<y, x>> \in R
  BY DEF R
<1>5. \A y \in S : ~ (y < x)
  BY <1>3, <1>4, Zenon
<1> QED
  BY <1>5

(* The least member (FiniteSetsExt) of a nonempty set of numbers is one.   *)
LEMMA MinIsMember ==
    ASSUME NEW S, S \subseteq Nat, S # {}
    PROVE  Min(S) \in S
  BY LeastExists DEF Min

(* The slot handed out is one of the pool's that is not taken.             *)
LEMMA FirstFreeIsFree ==
    ASSUME NEW size \in Nat, NEW taken \in SUBSET (0 .. size - 1), taken # 0 .. size - 1
    PROVE  Min((0 .. size - 1) \ taken) \in (0 .. size - 1) \ taken
<1>1. (0 .. size - 1) \ taken \subseteq Nat
  OBVIOUS
<1>2. (0 .. size - 1) \ taken # {}
  OBVIOUS
<1> QED
  BY <1>1, <1>2, MinIsMember

(* Debris of the registries' handlers that a step does not add to.         *)
LEMMA NoMore ==
    ASSUME NEW S, IsFiniteSet(S), NEW T, T \subseteq S
    PROVE  /\ IsFiniteSet(T)
           /\ Cardinality(S) \in Nat /\ Cardinality(T) \in Nat
           /\ Cardinality(T) <= Cardinality(S)
  BY FS_Subset, FS_CardinalityType

(* Debris of the registries' handlers that a step adds one record to.      *)
LEMMA OneMore ==
    ASSUME NEW S, IsFiniteSet(S), NEW T, NEW x, T \subseteq S \union {x}
    PROVE  /\ IsFiniteSet(T)
           /\ Cardinality(S) \in Nat /\ Cardinality(T) \in Nat
           /\ Cardinality(T) <= Cardinality(S) + 1
<1>1. /\ IsFiniteSet(S \union {x})
      /\ Cardinality(S \union {x}) = IF x \in S THEN Cardinality(S) ELSE Cardinality(S) + 1
  BY FS_AddElement
<1>2. Cardinality(S) \in Nat
  BY FS_CardinalityType
<1>3. /\ IsFiniteSet(T)
      /\ Cardinality(T) \in Nat
      /\ Cardinality(T) <= Cardinality(S \union {x})
  BY <1>1, NoMore
<1> QED
  BY <1>1, <1>2, <1>3

(* AllocIP (utils/alloc.go:13): an IP drawn from a bitmap that is not full *)
(* is one of the pool.                                                     *)
LEMMA NextIPIsFree ==
    ASSUME NEW seen \in SUBSET IPs, seen # IPs
    PROVE  NextIP(seen) \in IPs \ seen
  BY PoolAssumption, FirstFreeIsFree DEF IPs, NextIP

(* How the fault counter moves: it stays within its bound.                 *)
LEMMA EndsCounts ==
    ASSUME NEW ok, NEW k, NEW total, NEW readable,
           faults \in 0 .. MaxFaults, Ends(ok, k, total, readable)
    PROVE  faults' \in 0 .. MaxFaults
  BY FaultAssumption DEF Ends

(* The service AddService stores is one.                                   *)
LEMMA AddedService ==
    ASSUME TypeOK, NEW nm \in SvcNames, NEW spec \in SvcSpecs, NEW u \in SvcUids,
           NEW kread \in BOOLEAN, NEW pread \in BOOLEAN, NEW k \in 0 .. 3,
           NEW ok \in BOOLEAN, AddService(nm, spec, u, kread, pread, k, ok)
    PROVE  \E svc \in Service :
             /\ svc.name = nm /\ svc.spec = spec
             /\ u \notin used /\ used' = used \union {u}
             /\ services' = IF k >= 2 THEN [services EXCEPT ![u] = svc] ELSE services
             /\ svcKey' = IF k >= 3 THEN [svcKey EXCEPT ![nm] = u] ELSE svcKey
             /\ ipPool' \in SUBSET IPs
             /\ NodePortsFree(spec)
             /\ UNCHANGED dnsVars
<1> DEFINE seen == IF pread THEN ipPool ELSE {}
           ip   == NextIP(seen)
           svc  == [name |-> nm, ip |-> ip, spec |-> spec]
<1>1. seen \in SUBSET IPs /\ seen # IPs
  BY DEF AddService, TypeOK
<1>2. ip \in IPs
  BY <1>1, NextIPIsFree
<1>3. svc \in Service
  BY <1>2, SpecAssumption DEF Service
<1>4. /\ services' = IF k >= 2 THEN [services EXCEPT ![u] = svc] ELSE services
      /\ ipPool' = IF k >= 1 THEN seen \union {ip} ELSE seen
      /\ svcKey' = IF k >= 3 THEN [svcKey EXCEPT ![nm] = u] ELSE svcKey
      /\ u \notin used /\ used' = used \union {u}
      /\ NodePortsFree(spec)
      /\ UNCHANGED dnsVars
  BY DEF AddService
<1>5. svc.name = nm /\ svc.spec = spec
  OBVIOUS
<1> HIDE DEF svc, seen, ip
<1> QED
  BY <1>1, <1>2, <1>3, <1>4, <1>5

(* The type invariant is inductive.                                        *)
LEMMA TypeOKInitially == Init => TypeOK
  BY FaultAssumption DEF Init, TypeOK

LEMMA TypeOKPreserved == TypeOK /\ [Next]_vars => TypeOK'
<1> SUFFICES ASSUME TypeOK, [Next]_vars PROVE TypeOK'
  OBVIOUS
<1>1. ASSUME NEW ok \in BOOLEAN, NEW k \in 0 .. 3, NEW nm \in SvcNames,
             NEW spec \in SvcSpecs, NEW u \in SvcUids,
             NEW kread \in BOOLEAN, NEW pread \in BOOLEAN,
             AddService(nm, spec, u, kread, pread, k, ok)
      PROVE  TypeOK'
  <2>1. faults' \in 0 .. MaxFaults
    BY <1>1, EndsCounts DEF AddService, TypeOK
  <2> QED
    BY <1>1, <2>1, AddedService DEF TypeOK, dnsVars
<1>2. ASSUME NEW ok \in BOOLEAN, NEW k \in 0 .. 3, NEW nm \in SvcNames,
             DeleteService(nm, k, ok)
      PROVE  TypeOK'
  <2>1. faults' \in 0 .. MaxFaults
    BY <1>2, EndsCounts DEF DeleteService, TypeOK
  <2> QED
    BY <1>2, <2>1 DEF DeleteService, TypeOK, dnsVars
<1>3. ASSUME NEW ok \in BOOLEAN, NEW k \in 0 .. 3, NEW nm \in DNSNames,
             NEW spec \in DNSSpecs, NEW u \in DNSUids, NEW kread \in BOOLEAN,
             AddDNS(nm, spec, u, kread, k, ok)
      PROVE  TypeOK'
  <2>1. faults' \in 0 .. MaxFaults
    BY <1>3, EndsCounts DEF AddDNS, TypeOK
  <2>2. spec.hosts \in SUBSET Hosts /\ [name |-> nm, spec |-> spec] \in DNS
    BY SpecAssumption DEF DNS, DNSSpec
  <2> QED
    BY <1>3, <2>1, <2>2 DEF AddDNS, TypeOK, svcVars
<1>4. ASSUME NEW ok \in BOOLEAN, NEW k \in 0 .. 3, NEW nm \in DNSNames,
             DeleteDNS(nm, k, ok)
      PROVE  TypeOK'
  <2>1. faults' \in 0 .. MaxFaults
    BY <1>4, EndsCounts DEF DeleteDNS, TypeOK
  <2> QED
    BY <1>4, <2>1 DEF DeleteDNS, TypeOK, svcVars
<1>5. CASE UNCHANGED vars
  BY <1>5 DEF vars, svcVars, dnsVars, TypeOK
<1> QED
  BY <1>1, <1>2, <1>3, <1>4, <1>5 DEF Next

(* Every etcd prefix the service and DNS handlers of routine.go write to   *)
(* holds only what they mean it to hold.                                   *)
THEOREM TypeCorrect == Spec => []TypeOK
  BY TypeOKInitially, TypeOKPreserved, PTL DEF Spec

-----------------------------------------------------------------------------
(* What every step may do to the services: add a fresh one, delete the one *)
(* a name key leads to, or leave them alone.                               *)
Adds(nm, u, svc) ==
    /\ svc.name = nm
    /\ u \notin used /\ used' = used \union {u}
    /\ NodePortsFree(svc.spec)
    /\ \/ UNCHANGED <<services, svcKey>>
       \/ /\ services' = [services EXCEPT ![u] = svc]
          /\ svcKey' \in {svcKey, [svcKey EXCEPT ![nm] = u]}

Removes(nm) ==
    /\ svcKey[nm] # None
    /\ UNCHANGED used
    /\ \/ UNCHANGED <<services, svcKey>>
       \/ /\ svcKey' = [svcKey EXCEPT ![nm] = None]
          /\ services' \in {services, [services EXCEPT ![svcKey[nm]] = None]}

LEMMA ServiceSteps ==
    ASSUME TypeOK, [Next]_vars
    PROVE  \/ \E nm \in SvcNames, u \in SvcUids, svc \in Service : Adds(nm, u, svc)
           \/ \E nm \in SvcNames : Removes(nm)
           \/ UNCHANGED <<services, svcKey>> /\ used \subseteq used'
<1>1. ASSUME NEW ok \in BOOLEAN, NEW k \in 0 .. 3, NEW nm \in SvcNames,
             NEW spec \in SvcSpecs, NEW u \in SvcUids,
             NEW kread \in BOOLEAN, NEW pread \in BOOLEAN,
             AddService(nm, spec, u, kread, pread, k, ok)
      PROVE  \E svc \in Service : Adds(nm, u, svc)
  <2>1. PICK svc \in Service :
             /\ svc.name = nm /\ svc.spec = spec
             /\ u \notin used /\ used' = used \union {u}
             /\ services' = IF k >= 2 THEN [services EXCEPT ![u] = svc] ELSE services
             /\ svcKey' = IF k >= 3 THEN [svcKey EXCEPT ![nm] = u] ELSE svcKey
             /\ NodePortsFree(spec)
    BY <1>1, AddedService
  <2>2. CASE k >= 2
    BY <2>1, <2>2 DEF Adds
  <2>3. CASE ~ (k >= 2)
    BY <2>1, <2>3 DEF Adds
  <2> QED
    BY <2>2, <2>3
<1>2. ASSUME NEW ok \in BOOLEAN, NEW k \in 0 .. 3, NEW nm \in SvcNames,
             DeleteService(nm, k, ok)
      PROVE  Removes(nm)
  <2>1. CASE k >= 2
    BY <1>2, <2>1 DEF DeleteService, Removes
  <2>2. CASE ~ (k >= 2)
    BY <1>2, <2>2 DEF DeleteService, Removes
  <2> QED
    BY <2>1, <2>2
<1>3. \A nm, spec, u, kread, k, ok : AddDNS(nm, spec, u, kread, k, ok)
        => UNCHANGED <<services, svcKey>> /\ used \subseteq used'
  BY DEF AddDNS, svcVars
<1>4. \A nm, k, ok : DeleteDNS(nm, k, ok)
        => UNCHANGED <<services, svcKey>> /\ used \subseteq used'
  BY DEF DeleteDNS, svcVars
<1>5. UNCHANGED vars => UNCHANGED <<services, svcKey>> /\ used \subseteq used'
  BY DEF vars, svcVars
<1> QED
  BY <1>1, <1>2, <1>3, <1>4, <1>5 DEF Next

(* checkTypeAndPorts: a stored service's node ports are free of every      *)
(* other's, and storing and deleting keep it so.                           *)
LEMMA NodePortsPreserved ==
    TypeOK /\ NodePortsDisjoint /\ [Next]_vars => NodePortsDisjoint'
<1> SUFFICES ASSUME TypeOK, NodePortsDisjoint, [Next]_vars PROVE NodePortsDisjoint'
  OBVIOUS
<1> USE DEF NodePortsDisjoint, StoredServices
<1>0. services \in [SvcUids -> Service \union {None}]
  BY DEF TypeOK
<1>1. ASSUME UNCHANGED services PROVE NodePortsDisjoint'
  BY <1>1
<1>2. ASSUME NEW nm \in SvcNames, NEW u \in SvcUids, NEW svc \in Service, Adds(nm, u, svc)
      PROVE  NodePortsDisjoint'
  <2>1. CASE UNCHANGED services
    BY <1>1, <2>1
  <2>2. CASE services' = [services EXCEPT ![u] = svc]
    <3>1. \A v \in SvcUids : services[v] # None
             => svc.spec.nodePorts \intersect services[v].spec.nodePorts = {}
      BY <1>2 DEF Adds, NodePortsFree
    <3>2. \A v \in SvcUids : services'[v] = IF v = u THEN svc ELSE services[v]
      BY <2>2, <1>0
    <3> QED
      BY <3>1, <3>2
  <2> QED
    BY <1>2, <2>1, <2>2 DEF Adds
<1>3. ASSUME NEW nm \in SvcNames, Removes(nm) PROVE NodePortsDisjoint'
  <2>1. \A v \in SvcUids : services'[v] \in {services[v], None}
    BY <1>3, <1>0 DEF Removes, TypeOK
  <2> QED
    BY <2>1
<1> QED
  BY <1>1, <1>2, <1>3, ServiceSteps

(* No two stored services claim one node port, whatever calls fail and     *)
(* wherever the server dies.                                               *)
THEOREM NodePortsNeverClash == Spec => []NodePortsDisjoint
<1>1. Init => NodePortsDisjoint
  BY DEF Init, NodePortsDisjoint, StoredServices
<1> QED
  BY <1>1, TypeOKInitially, TypeOKPreserved, NodePortsPreserved, PTL DEF Spec

-----------------------------------------------------------------------------
(* A name leads to its service; the strengthening says that a uid not yet  *)
(* drawn has no service, so that AddService never overwrites one.          *)
FreshUids == \A u \in SvcUids : services[u] # None => u \in used

KeysInv == ServiceKeysResolve /\ FreshUids

LEMMA KeysInvPreserved == TypeOK /\ KeysInv /\ [Next]_vars => KeysInv'
<1> SUFFICES ASSUME TypeOK, KeysInv, [Next]_vars PROVE KeysInv'
  OBVIOUS
<1> USE DEF KeysInv, ServiceKeysResolve, FreshUids
<1>0. /\ services \in [SvcUids -> Service \union {None}]
      /\ svcKey \in [SvcNames -> SvcUids \union {None}]
  BY DEF TypeOK
<1>1. ASSUME UNCHANGED <<services, svcKey>>, used \subseteq used' PROVE KeysInv'
  BY <1>1
<1>2. ASSUME NEW nm \in SvcNames, NEW u \in SvcUids, NEW svc \in Service, Adds(nm, u, svc)
      PROVE  KeysInv'
  <2>1. used \subseteq used'
    BY <1>2 DEF Adds
  <2>2. CASE UNCHANGED <<services, svcKey>>
    BY <1>1, <2>1, <2>2
  <2>3. ASSUME services' = [services EXCEPT ![u] = svc],
               svcKey' \in {svcKey, [svcKey EXCEPT ![nm] = u]}
        PROVE  KeysInv'
    <3>1. /\ u \notin used /\ used' = used \union {u}
          /\ svc.name = nm /\ svc # None
      BY <1>2, NoneAssumption DEF Adds
    <3>2. \A v \in SvcUids : services'[v] = IF v = u THEN svc ELSE services[v]
      BY <2>3, <1>0
    <3>3. \A m \in SvcNames : svcKey[m] # u
      BY <1>0, <3>1, NoneAssumption
    <3>4. \A m \in SvcNames : svcKey'[m] = svcKey[m] \/ (m = nm /\ svcKey'[m] = u)
      BY <2>3, <1>0
    <3> QED
      BY <1>0, <3>1, <3>2, <3>3, <3>4
  <2> QED
    BY <1>2, <2>2, <2>3 DEF Adds
<1>3. ASSUME NEW nm \in SvcNames, Removes(nm) PROVE KeysInv'
  <2>1. used' = used
    BY <1>3 DEF Removes
  <2>2. CASE UNCHANGED <<services, svcKey>>
    BY <1>1, <2>1, <2>2
  <2>3. ASSUME svcKey' = [svcKey EXCEPT ![nm] = None],
               services' \in {services, [services EXCEPT ![svcKey[nm]] = None]}
        PROVE  KeysInv'
    <3>1. \A m \in SvcNames : svcKey'[m] = IF m = nm THEN None ELSE svcKey[m]
      BY <2>3, <1>0
    <3>2. \A v \in SvcUids : \/ services'[v] = services[v]
                             \/ v = svcKey[nm] /\ services'[v] = None
      BY <2>3, <1>0
    <3>3. \A m \in SvcNames : m # nm /\ svcKey[m] # None => svcKey[m] # svcKey[nm]
      BY <1>3 DEF Removes
    <3> QED
      BY <1>0, <2>1, <3>1, <3>2, <3>3
  <2> QED
    BY <1>3, <2>2, <2>3 DEF Removes
<1> QED
  BY <1>1, <1>2, <1>3, ServiceSteps

(* DeleteServiceHandler and AddDNSHandler follow a name key to a service   *)
(* that is there and bears the name.                                       *)
THEOREM KeysResolve == Spec => []ServiceKeysResolve
<1>1. Init => KeysInv
  BY DEF Init, KeysInv, ServiceKeysResolve, FreshUids
<1>2. KeysInv => ServiceKeysResolve
  BY DEF KeysInv
<1> QED
  BY <1>1, <1>2, TypeOKInitially, TypeOKPreserved, KeysInvPreserved, PTL DEF Spec

-----------------------------------------------------------------------------
(* The cluster IPs, when a stored bitmap can be read.                      *)

(* The uids need not be finitely many: the stored services are, because    *)
(* they are stored one at a time.                                          *)
IPDebrisInv == IsFiniteSet(StoredServices) /\ IPDebrisBounded

LEMMA IPSetsFinite ==
    ASSUME NEW S \in SUBSET IPs PROVE IsFiniteSet(S) /\ Cardinality(S) \in Nat
<1>1. IsFiniteSet(IPs)
  BY PoolAssumption, FS_Interval DEF IPs
<1> QED
  BY <1>1, NoMore

(* AddServiceHandler: the bit comes first, so a cut leaves at most that bit*)
(* set for nobody; a stored service has an IP that nobody else holds.      *)
LEMMA AddServiceIPs ==
    ASSUME ~ReadErrors, TypeOK, KeysInv, IPDebrisInv,
           NEW nm \in SvcNames, NEW spec \in SvcSpecs, NEW u \in SvcUids,
           NEW kread \in BOOLEAN, NEW pread \in BOOLEAN, NEW k \in 0 .. 3,
           NEW ok \in BOOLEAN, AddService(nm, spec, u, kread, pread, k, ok),
           TypeOK'
    PROVE  IPDebrisInv'
<1> DEFINE ip == NextIP(ipPool)
           svc == [name |-> nm, ip |-> ip, spec |-> spec]
<1>1. /\ pread /\ ipPool # IPs /\ u \notin used
      /\ ipPool' = IF k >= 1 THEN ipPool \union {ip} ELSE ipPool
      /\ services' = IF k >= 2 THEN [services EXCEPT ![u] = svc] ELSE services
      /\ (faults' = faults /\ k = 3) \/ faults' = faults + 1
  BY DEF AddService, Ends
<1>2. ip \in IPs \ ipPool
  BY <1>1, NextIPIsFree DEF TypeOK
<1>3. svc \in Service /\ svc.ip = ip /\ svc # None
  BY <1>2, SpecAssumption, NoneAssumption DEF Service
<1> HIDE DEF ip, svc
<1>4. services[u] = None
  BY <1>1 DEF KeysInv, FreshUids, TypeOK
<1>5. \A v \in SvcUids : services'[v] = IF v = u /\ k >= 2 THEN svc ELSE services[v]
  BY <1>1 DEF TypeOK
<1>6. faults \in Nat /\ faults' \in Nat
  BY FaultAssumption DEF TypeOK
<1>7. /\ IsFiniteSet(HeldIPs) /\ IsFiniteSet(HeldIPs')
      /\ IsFiniteSet(LeakedIPs) /\ IsFiniteSet(LeakedIPs')
  BY IPSetsFinite DEF TypeOK, HeldIPs, LeakedIPs
<1>8. CASE k >= 2
  <2>1. StoredServices' = StoredServices \union {u}
    BY <1>3, <1>4, <1>5, <1>8 DEF StoredServices
  <2>2. /\ IsFiniteSet(StoredServices') /\ Cardinality(StoredServices) \in Nat
        /\ Cardinality(StoredServices') \in Nat
        /\ Cardinality(StoredServices') <= Cardinality(StoredServices) + 1
    BY <2>1, OneMore DEF IPDebrisInv
  <2>3. ServiceIPs' = ServiceIPs \union {ip}
    <3>1. \A v \in StoredServices : v # u /\ services'[v] = services[v]
      BY <1>4, <1>5 DEF StoredServices
    <3>2. services'[u].ip = ip
      BY <1>3, <1>5, <1>8
    <3> QED
      BY <2>1, <3>1, <3>2 DEF ServiceIPs
  <2>4. ipPool' = ipPool \union {ip}
    BY <1>1, <1>8
  <2>5. HeldIPs' = HeldIPs \union {ip} /\ ip \notin HeldIPs
    BY <1>2, <2>3, <2>4 DEF HeldIPs
  <2>6. Cardinality(HeldIPs') = Cardinality(HeldIPs) + 1 /\ Cardinality(HeldIPs) \in Nat
    BY <1>7, <2>5, FS_AddElement, FS_CardinalityType
  <2>7. LeakedIPs' \subseteq LeakedIPs
    BY <2>3, <2>4 DEF LeakedIPs
  <2>8. /\ Cardinality(LeakedIPs) \in Nat /\ Cardinality(LeakedIPs') \in Nat
        /\ Cardinality(LeakedIPs') <= Cardinality(LeakedIPs)
    BY <1>7, <2>7, NoMore
  <2> QED
    BY <1>1, <1>6, <2>2, <2>6, <2>8 DEF IPDebrisInv, IPDebrisBounded
<1>9. CASE k < 2
  <2>1. services' = services /\ faults' = faults + 1
    BY <1>1, <1>9
  <2>2. ServiceIPs' = ServiceIPs /\ StoredServices' = StoredServices
    BY <2>1 DEF ServiceIPs, StoredServices
  <2>3. ipPool \subseteq ipPool' /\ ipPool' \subseteq ipPool \union {ip}
    BY <1>1
  <2>4. HeldIPs \subseteq HeldIPs'
    BY <2>2, <2>3 DEF HeldIPs
  <2>5. /\ Cardinality(HeldIPs) \in Nat /\ Cardinality(HeldIPs') \in Nat
        /\ Cardinality(HeldIPs) <= Cardinality(HeldIPs')
    BY <1>7, <2>4, NoMore
  <2>6. LeakedIPs' \subseteq LeakedIPs \union {ip}
    BY <2>2, <2>3 DEF LeakedIPs
  <2>7. /\ Cardinality(LeakedIPs) \in Nat /\ Cardinality(LeakedIPs') \in Nat
        /\ Cardinality(LeakedIPs') <= Cardinality(LeakedIPs) + 1
    BY <1>7, <2>6, OneMore
  <2>8. Cardinality(StoredServices) \in Nat
    BY FS_CardinalityType DEF IPDebrisInv
  <2> QED
    BY <1>6, <2>1, <2>2, <2>5, <2>7, <2>8 DEF IPDebrisInv, IPDebrisBounded
<1> QED
  BY <1>8, <1>9

(* DeleteServiceHandler: the bit goes first, so a cut leaves at most one   *)
(* stored service without its bit.                                         *)
LEMMA DeleteServiceIPs ==
    ASSUME TypeOK, IPDebrisInv, NEW nm \in SvcNames, NEW k \in 0 .. 3, NEW ok \in BOOLEAN,
           DeleteService(nm, k, ok), TypeOK'
    PROVE  IPDebrisInv'
<1> DEFINE u == svcKey[nm]
           ip == services[u].ip
<1>1. /\ u \in SvcUids /\ services[u] # None /\ ip \in ipPool
      /\ ipPool' = IF k >= 1 THEN ipPool \ {ip} ELSE ipPool
      /\ services' = IF k >= 3 THEN [services EXCEPT ![u] = None] ELSE services
      /\ (faults' = faults /\ k = 3) \/ faults' = faults + 1
  BY DEF DeleteService, Ends, TypeOK
<1>2. u \in StoredServices /\ ip \in HeldIPs
  BY <1>1 DEF StoredServices, ServiceIPs, HeldIPs
<1>3. \A v \in SvcUids : services'[v] = IF v = u /\ k >= 3 THEN None ELSE services[v]
  BY <1>1 DEF TypeOK
<1>4. \A v \in StoredServices : v # u => services[v].ip = ip \/ services[v].ip \in ServiceIPs
  BY DEF ServiceIPs
<1>5. ServiceIPs \subseteq ServiceIPs' \union {ip} /\ ServiceIPs' \subseteq ServiceIPs
  BY <1>3 DEF ServiceIPs, StoredServices
<1> HIDE DEF u, ip
<1>6. faults \in Nat /\ faults' \in Nat
  BY FaultAssumption DEF TypeOK
<1>7. /\ IsFiniteSet(HeldIPs) /\ IsFiniteSet(HeldIPs')
      /\ IsFiniteSet(LeakedIPs) /\ IsFiniteSet(LeakedIPs')
  BY IPSetsFinite DEF TypeOK, HeldIPs, LeakedIPs
<1>8. StoredServices' \subseteq StoredServices
  BY <1>3 DEF StoredServices
<1>9. /\ IsFiniteSet(StoredServices') /\ Cardinality(StoredServices) \in Nat
      /\ Cardinality(StoredServices') \in Nat
      /\ Cardinality(StoredServices') <= Cardinality(StoredServices)
  BY <1>8, NoMore DEF IPDebrisInv
<1>10. LeakedIPs' \subseteq LeakedIPs
  <2>1. CASE k >= 1
    BY <1>1, <1>5, <2>1 DEF LeakedIPs
  <2>2. CASE k < 1
    <3>1. services' = services /\ ipPool' = ipPool
      BY <1>1, <2>2
    <3> QED
      BY <3>1 DEF LeakedIPs, ServiceIPs, StoredServices
  <2> QED
    BY <2>1, <2>2
<1>11. /\ Cardinality(LeakedIPs) \in Nat /\ Cardinality(LeakedIPs') \in Nat
       /\ Cardinality(LeakedIPs') <= Cardinality(LeakedIPs)
  BY <1>7, <1>10, NoMore
<1>12. HeldIPs \subseteq HeldIPs' \union {ip}
  BY <1>1, <1>5 DEF HeldIPs
<1>13. /\ Cardinality(HeldIPs) \in Nat /\ Cardinality(HeldIPs') \in Nat
       /\ Cardinality(HeldIPs) <= Cardinality(HeldIPs') + 1
  BY <1>7, <1>12, OneMore
<1>14. CASE k >= 3
  <2>1. StoredServices = StoredServices' \union {u} /\ u \notin StoredServices'
    BY <1>2, <1>3, <1>14 DEF StoredServices
  <2>2. Cardinality(StoredServices) = Cardinality(StoredServices') + 1
    BY <1>9, <2>1, FS_AddElement
  <2> QED
    BY <1>1, <1>6, <1>9, <1>11, <1>13, <2>2 DEF IPDebrisInv, IPDebrisBounded
<1>15. CASE k < 3
  <2>1. faults' = faults + 1
    BY <1>1, <1>15
  <2> QED
    BY <1>6, <1>9, <1>11, <1>13, <2>1 DEF IPDebrisInv, IPDebrisBounded
<1> QED
  BY <1>14, <1>15

LEMMA IPDebrisInvPreserved ==
    ~ReadErrors /\ TypeOK /\ KeysInv /\ IPDebrisInv /\ [Next]_vars => IPDebrisInv'
<1> SUFFICES ASSUME ~ReadErrors, TypeOK, KeysInv, IPDebrisInv, [Next]_vars
             PROVE  IPDebrisInv'
  OBVIOUS
<1>1. TypeOK'
  BY TypeOKPreserved
<1>2. ASSUME UNCHANGED svcVars, faults' = faults \/ faults' = faults + 1 PROVE IPDebrisInv'
  <2>1. /\ StoredServices' = StoredServices /\ LeakedIPs' = LeakedIPs /\ HeldIPs' = HeldIPs
    BY <1>2 DEF svcVars, StoredServices, LeakedIPs, HeldIPs, ServiceIPs
  <2>2. /\ Cardinality(StoredServices) \in Nat /\ Cardinality(LeakedIPs) \in Nat
        /\ Cardinality(HeldIPs) \in Nat /\ faults \in Nat
    BY IPSetsFinite, FS_CardinalityType, FaultAssumption
       DEF IPDebrisInv, TypeOK, HeldIPs, LeakedIPs
  <2> QED
    BY <1>2, <2>1, <2>2 DEF IPDebrisInv, IPDebrisBounded
<1>3. \A nm, spec, u, kread, k, ok : AddDNS(nm, spec, u, kread, k, ok)
        => UNCHANGED svcVars /\ (faults' = faults \/ faults' = faults + 1)
  BY DEF AddDNS, Ends
<1>4. \A nm, k, ok : DeleteDNS(nm, k, ok)
        => UNCHANGED svcVars /\ (faults' = faults \/ faults' = faults + 1)
  BY DEF DeleteDNS, Ends
<1>5. UNCHANGED vars => UNCHANGED svcVars /\ faults' = faults
  BY DEF vars
<1> QED
  BY <1>1, <1>2, <1>3, <1>4, <1>5, AddServiceIPs, DeleteServiceIPs DEF Next

(* AddServiceHandler, DeleteServiceHandler: with any number of services,   *)
(* IPs and failures each failure costs at most one IP, leaked, shared or   *)
(* unprotected, as long as a stored bitmap is never taken for absent.      *)
THEOREM IPDebrisIsBounded == ASSUME ~ReadErrors PROVE Spec => []IPDebrisBounded
<1>1. Init => KeysInv /\ IPDebrisInv
  <2> SUFFICES ASSUME Init PROVE KeysInv /\ IPDebrisInv
    OBVIOUS
  <2>1. StoredServices = {} /\ LeakedIPs = {} /\ faults = 0
    BY DEF Init, StoredServices, LeakedIPs
  <2>2. HeldIPs = {}
    BY DEF Init, HeldIPs
  <2>3. IsFiniteSet({}) /\ Cardinality({}) = 0
    BY FS_EmptySet
  <2> QED
    BY <2>1, <2>2, <2>3
       DEF Init, KeysInv, ServiceKeysResolve, FreshUids, IPDebrisInv, IPDebrisBounded
<1>2. TypeOK /\ KeysInv /\ IPDebrisInv /\ [Next]_vars => KeysInv' /\ IPDebrisInv'
  BY KeysInvPreserved, IPDebrisInvPreserved
<1>3. IPDebrisInv => IPDebrisBounded
  BY DEF IPDebrisInv
<1> QED
  BY <1>1, <1>2, <1>3, TypeCorrect, PTL DEF Spec

-----------------------------------------------------------------------------
(* The host names.                                                         *)

(* AddDNSHandler draws a new uid: no DNS object has it.                    *)
FreshDNSUids == \A u \in DNSUids : dnses[u] # None => u \in used

HostsInv == FreshDNSUids /\ HostListExact

(* A host name is in the list if, and only if, a stored object claims it.  *)
LEMMA Claimed ==
    HostListExact <=>
      (faults = 0 =>
         /\ \A x : x \in hostList <=> \E u \in StoredDNS : x \in dnses[u].spec.hosts
         /\ \A u, v \in StoredDNS : u # v =>
               \A x : ~ (x \in dnses[u].spec.hosts /\ x \in dnses[v].spec.hosts))
  BY DEF HostListExact

LEMMA HostsInvPreserved == TypeOK /\ HostsInv /\ [Next]_vars => HostsInv'
<1> SUFFICES ASSUME TypeOK, HostsInv, [Next]_vars PROVE HostsInv'
  OBVIOUS
<1>0. dnses \in [DNSUids -> DNS \union {None}] /\ faults \in Nat
  BY FaultAssumption DEF TypeOK
<1>1. ASSUME UNCHANGED dnsVars, used \subseteq used', faults' = faults \/ faults' = faults + 1
      PROVE  HostsInv'
  BY <1>0, <1>1 DEF dnsVars, HostsInv, FreshDNSUids, HostListExact, StoredDNS
<1>2. ASSUME NEW ok \in BOOLEAN, NEW k \in 0 .. 3, NEW nm \in DNSNames,
             NEW spec \in DNSSpecs, NEW u \in DNSUids, NEW kread \in BOOLEAN,
             AddDNS(nm, spec, u, kread, k, ok)
      PROVE  HostsInv'
  <2> DEFINE d == [name |-> nm, spec |-> spec]
  <2>1. /\ HostsFree(spec) /\ u \notin used /\ used' = used \union {u}
        /\ hostList' = IF k >= 1 THEN hostList \union spec.hosts ELSE hostList
        /\ dnses' = IF k >= 3 THEN [dnses EXCEPT ![u] = d] ELSE dnses
        /\ (faults' = faults /\ k = 3) \/ faults' = faults + 1
    BY <1>2 DEF AddDNS, Ends
  <2>2. d \in DNS /\ d.spec = spec /\ d # None
    BY SpecAssumption, NoneAssumption DEF DNS
  <2> HIDE DEF d
  <2>3. \A v \in DNSUids : dnses'[v] = IF v = u /\ k >= 3 THEN d ELSE dnses[v]
    BY <1>0, <2>1
  <2>4. dnses[u] = None
    BY <2>1 DEF HostsInv, FreshDNSUids
  <2>5. FreshDNSUids'
    BY <2>1, <2>3 DEF HostsInv, FreshDNSUids
  <2>6. ASSUME faults' = 0 PROVE HostListExact'
    <3>1. k = 3 /\ faults = 0
      BY <1>0, <2>1, <2>6
    <3>2. StoredDNS' = StoredDNS \union {u} /\ u \notin StoredDNS
      BY <2>2, <2>3, <2>4, <3>1 DEF StoredDNS
    <3>3. dnses'[u].spec = spec /\ \A v \in StoredDNS : dnses'[v] = dnses[v]
      BY <2>2, <2>3, <3>1, <3>2 DEF StoredDNS
    <3>4. /\ \A x : x \in hostList <=> \E v \in StoredDNS : x \in dnses[v].spec.hosts
          /\ \A v, w \in StoredDNS : v # w =>
               \A x : ~ (x \in dnses[v].spec.hosts /\ x \in dnses[w].spec.hosts)
      BY <3>1, Claimed DEF HostsInv
    <3>5. \A x : x \in hostList' <=> x \in hostList \/ x \in spec.hosts
      BY <2>1, <3>1
    <3>6. \A x : ~ (x \in spec.hosts /\ x \in hostList)
      BY <2>1 DEF HostsFree
    <3>7. \A x : x \in hostList' <=> \E v \in StoredDNS' : x \in dnses'[v].spec.hosts
      BY <3>2, <3>3, <3>4, <3>5
    <3>8. \A v, w \in StoredDNS' : v # w =>
             \A x : ~ (x \in dnses'[v].spec.hosts /\ x \in dnses'[w].spec.hosts)
      BY <3>2, <3>3, <3>4, <3>6
    <3> QED
      BY <3>7, <3>8 DEF HostListExact
  <2> QED
    BY <2>5, <2>6 DEF HostsInv, HostListExact
<1>3. ASSUME NEW ok \in BOOLEAN, NEW k \in 0 .. 3, NEW nm \in DNSNames, DeleteDNS(nm, k, ok)
      PROVE  HostsInv'
  <2> DEFINE u == dnsKey[nm]
  <2>1. /\ u \in StoredDNS /\ used' = used
        /\ hostList' = IF k >= 1 THEN hostList \ dnses[u].spec.hosts ELSE hostList
        /\ dnses' = IF k >= 3 THEN [dnses EXCEPT ![u] = None] ELSE dnses
        /\ (faults' = faults /\ k = 3) \/ faults' = faults + 1
    BY <1>3 DEF DeleteDNS, Ends, TypeOK, StoredDNS
  <2> HIDE DEF u
  <2>2. \A v \in DNSUids : dnses'[v] = IF v = u /\ k >= 3 THEN None ELSE dnses[v]
    BY <1>0, <2>1 DEF StoredDNS
  <2>3. FreshDNSUids'
    BY <2>1, <2>2 DEF HostsInv, FreshDNSUids
  <2>4. ASSUME faults' = 0 PROVE HostListExact'
    <3>1. k = 3 /\ faults = 0
      BY <1>0, <2>1, <2>4
    <3>2. StoredDNS' = StoredDNS \ {u}
      BY <2>1, <2>2, <3>1 DEF StoredDNS
    <3>3. \A v \in StoredDNS' : dnses'[v] = dnses[v]
      BY <2>2, <3>2 DEF StoredDNS
    <3>4. /\ \A x : x \in hostList <=> \E v \in StoredDNS : x \in dnses[v].spec.hosts
          /\ \A v, w \in StoredDNS : v # w =>
               \A x : ~ (x \in dnses[v].spec.hosts /\ x \in dnses[w].spec.hosts)
      BY <3>1, Claimed DEF HostsInv
    <3>5. \A x : x \in hostList' <=> x \in hostList /\ x \notin dnses[u].spec.hosts
      BY <2>1, <3>1
    <3>6. \A x : x \in hostList' <=> \E v \in StoredDNS' : x \in dnses'[v].spec.hosts
      BY <2>1, <3>2, <3>3, <3>4, <3>5
    <3>7. \A v, w \in StoredDNS' : v # w =>
             \A x : ~ (x \in dnses'[v].spec.hosts /\ x \in dnses'[w].spec.hosts)
      BY <3>2, <3>3, <3>4
    <3> QED
      BY <3>6, <3>7 DEF HostListExact
  <2> QED
    BY <2>3, <2>4 DEF HostsInv, HostListExact
<1>4. \A nm, spec, u, kread, pread, k, ok : AddService(nm, spec, u, kread, pread, k, ok)
        => /\ UNCHANGED dnsVars /\ used \subseteq used'
           /\ faults' = faults \/ faults' = faults + 1
  BY DEF AddService, Ends
<1>5. \A nm, k, ok : DeleteService(nm, k, ok)
        => /\ UNCHANGED dnsVars /\ used \subseteq used'
           /\ faults' = faults \/ faults' = faults + 1
  BY DEF DeleteService, Ends
<1>6. UNCHANGED vars => UNCHANGED dnsVars /\ used \subseteq used' /\ faults' = faults
  BY DEF vars
<1> QED
  BY <1>1, <1>2, <1>3, <1>4, <1>5, <1>6 DEF Next

(* AddDNSHandler, DeleteDNSHandler: as long as no call fails the list at   *)
(* /registry/hosts is what the stored DNS objects claim, and no two of     *)
(* them claim one host.                                                    *)
THEOREM HostListIsExact == Spec => []HostListExact
<1>1. Init => HostsInv
  BY DEF Init, HostsInv, FreshDNSUids, HostListExact, StoredDNS
<1>2. HostsInv => HostListExact
  BY DEF HostsInv
<1> QED
  BY <1>1, <1>2, HostsInvPreserved, TypeCorrect, PTL DEF Spec
=============================================================================
