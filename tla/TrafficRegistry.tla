--------------------------- MODULE TrafficRegistry ---------------------------
(***************************************************************************)
(* The API server's records of the service mesh: subsets, virtual services,*)
(* rolling updates and the sidecar mapping, beside the pods of PodRegistry.*)
(* As there, a handler is one action that takes the number k of its writes *)
(* that were done and whether the client got the success answer.           *)
(*                                                                         *)
(* A service is known by its name and has one TCP port.                    *)
(***************************************************************************)
EXTENDS PodRegistry, Sequences, Integers

CONSTANTS
    Svcs,          \* services users may create
    UserSubsets,   \* names of the subsets users define
    UserVss,       \* names of the virtual services users define
    RuNames,       \* names of rolling updates
    VsUids, RuUids \* uids of virtual services and of rolling updates

(* The names pilot makes: <service>-blocked, -available, -rolling-update.  *)
Blocked(s)   == <<s, "blocked">>
Available(s) == <<s, "available">>
RollingVs(s) == <<s, "rolling-update">>

SubNames == UserSubsets \union {Blocked(s) : s \in Svcs} \union {Available(s) : s \in Svcs}
VsNames  == UserVss \union {RollingVs(s) : s \in Svcs}

(* No name of a user's is one that pilot makes.                            *)
ASSUME NamesAssumption ==
    /\ \A s \in Svcs : Blocked(s) \notin UserSubsets /\ Available(s) \notin UserSubsets
    /\ \A s \in Svcs : RollingVs(s) \notin UserVss
    /\ IsFiniteSet(Names)

(* What is stored: a subset's weight in a virtual service is None when it  *)
(* has a URL instead; an entry's when its virtual service goes by URL.     *)
Weighing       == [subset : SubNames, weight : Nat \union {None}]
VirtualService == [svc : Svcs, split : Seq(Weighing)]
RollingUpdate  == [name : RuNames, svc : Svcs, min : Nat, phase : {"Pending", "Running", "Finished"}]
EntryType == [subset : SubNames \union {None}, pod : PodUids \union {None}, weight : Int \union {None}]

ASSUME MeshNoneAssumption == None \notin VirtualService \union RollingUpdate

ASSUME UidAssumption == VsUids \union RuUids \subseteq Nat /\ PodUids \subseteq Nat

VARIABLES
    services,  \* the services stored
    subsets,   \* subset name -> the names of its pods; {} too when only the key is there
    vsKey,     \* virtual service name -> uid
    vss,       \* uid -> [svc, split]
    ruKey,     \* rolling update name -> uid
    rus,       \* uid -> [name, svc, min, phase]
    mapping    \* the sidecar mapping: service -> entries, None if it has no key

meshVars == <<services, subsets, vsKey, vss, ruKey, rus, mapping>>

(* The uids that nothing bears; the lowest stands for an unpredictable     *)
(* one, and when none is left of a bounded set no more is created.         *)
Fresh(uids, key, objects) == {u \in uids : objects[u] = None /\ \A n \in DOMAIN key : key[n] # u}

(* The request names something that is not there, or is there already: an  *)
(* error answer and nothing else.                                          *)
Refused(guard, k, ok) ==
    /\ ~ guard /\ ~ ok /\ k = 0
    /\ UNCHANGED <<vars, meshVars>>

MeshInit ==
    /\ subsets = [n \in SubNames |-> None]
    /\ vsKey = [n \in VsNames |-> None] /\ vss = [v \in VsUids |-> None]
    /\ ruKey = [n \in RuNames |-> None] /\ rus = [r \in RuUids |-> None]
    /\ mapping = [s \in Svcs |-> None]

-----------------------------------------------------------------------------
(* Services (ServiceRegistry has their handlers in full) *)

AddService(s) ==
    /\ s \notin services
    /\ services' = services \union {s}
    /\ UNCHANGED <<vars, subsets, vsKey, vss, ruKey, rus, mapping>>

(* Nobody asks whether a virtual service refers to it.                     *)
DeleteService(s) ==
    /\ s \in services
    /\ services' = services \ {s}
    /\ UNCHANGED <<vars, subsets, vsKey, vss, ruKey, rus, mapping>>

-----------------------------------------------------------------------------
(* Subsets *)

PodsKnown(names) == \A nm \in names : podKey[nm] # None

(* AddSubsetHandler: creates or replaces, key first; an existing key keeps *)
(* its uid.                                                                *)
AddSubset(name, names, k, ok) ==
    /\ PodsKnown(names)
    /\ Ends(ok, k, 2)
    /\ subsets' = CASE k = 2 -> [subsets EXCEPT ![name] = names]
                    [] k = 1 /\ subsets[name] = None -> [subsets EXCEPT ![name] = {}]
                    [] OTHER -> subsets
    /\ UNCHANGED <<podVars, hosts, nodeVars, used, services, vsKey, vss, ruKey, rus, mapping>>

(* DeleteSubsetHandler: the key, then the object, which nobody finds then. *)
DeleteSubset(name, k, ok) ==
    /\ subsets[name] # None
    /\ Ends(ok, k, 2)
    /\ subsets' = IF k >= 1 THEN [subsets EXCEPT ![name] = None] ELSE subsets
    /\ UNCHANGED <<podVars, hosts, nodeVars, used, services, vsKey, vss, ruKey, rus, mapping>>

-----------------------------------------------------------------------------
(* Virtual services: split is the list of their [subset, weight], weight   *)
(* None for one with a URL *)

(* Mutant of VsAccepted: the conflict check dropped.                       *)
VsUnchecked(name, s, split) ==
    /\ name \in VsNames
    /\ s \in services
    /\ \A i \in DOMAIN split : subsets[split[i].subset] # None

VsAccepted(name, s, split) ==
    /\ vsKey[name] = None
    /\ s \in services
    /\ \A i \in DOMAIN split : subsets[split[i].subset] # None

(* AddVirtualServiceHandler: the key, then the object.                     *)
AddVirtualService(name, s, split, k, ok) ==
    LET fresh == Fresh(VsUids, vsKey, vss)
        v == Min(fresh)
    IN  /\ VsAccepted(name, s, split)
        /\ fresh # {}
        /\ Ends(ok, k, 2)
        /\ vsKey' = IF k >= 1 THEN [vsKey EXCEPT ![name] = v] ELSE vsKey
        /\ vss' = IF k >= 2 THEN [vss EXCEPT ![v] = [svc |-> s, split |-> split]] ELSE vss
        /\ UNCHANGED <<podVars, hosts, nodeVars, used, services, subsets, ruKey, rus, mapping>>

(* Mutant of DeleteVirtualService: deletes the key only.                   *)
DeleteVirtualServiceKey(name, k, ok) ==
    /\ vsKey[name] # None
    /\ Ends(ok, k, 1)
    /\ vsKey' = IF k >= 1 THEN [vsKey EXCEPT ![name] = None] ELSE vsKey
    /\ UNCHANGED <<podVars, hosts, nodeVars, used, services, subsets, vss, ruKey, rus, mapping>>

(* DeleteVirtualServiceHandler: the key, then the object.                  *)
DeleteVirtualService(name, k, ok) ==
    /\ vsKey[name] # None
    /\ Ends(ok, k, 2)
    /\ vsKey' = IF k >= 1 THEN [vsKey EXCEPT ![name] = None] ELSE vsKey
    /\ vss' = IF k >= 2 THEN [vss EXCEPT ![vsKey[name]] = None] ELSE vss
    /\ UNCHANGED <<podVars, hosts, nodeVars, used, services, subsets, ruKey, rus, mapping>>

-----------------------------------------------------------------------------
(* Rolling updates *)

(* AddRollingUpdateHandler: the object, then the key; nothing is checked   *)
(* but the name.                                                           *)
AddRollingUpdate(name, s, min, busy, k, ok) ==
    LET fresh == Fresh(RuUids \ busy, ruKey, rus)
        r == Min(fresh)
    IN  /\ ruKey[name] = None
        /\ fresh # {}
        /\ Ends(ok, k, 2)
        /\ rus' = IF k >= 1 THEN [rus EXCEPT ![r] = [name |-> name, svc |-> s, min |-> min,
                                                     phase |-> "Pending"]]
                  ELSE rus
        /\ ruKey' = IF k >= 2 THEN [ruKey EXCEPT ![name] = r] ELSE ruKey
        /\ UNCHANGED <<podVars, hosts, nodeVars, used, services, subsets, vsKey, vss, mapping>>

RuKnown(name) == ruKey[name] # None /\ rus[ruKey[name]] # None

(* Mutant of UpdateRollingUpdateStatus: stores the status as the name.     *)
UpdateRollingUpdateStatusRenamed(name, phase, k, ok) ==
    /\ RuKnown(name)
    /\ Ends(ok, k, 1)
    /\ rus' = IF k = 1 THEN [rus EXCEPT ![ruKey[name]].name = phase] ELSE rus
    /\ UNCHANGED <<podVars, hosts, nodeVars, used, services, subsets, vsKey, vss, ruKey, mapping>>

(* UpdateRollingUpdateStatusHandler: whatever update bears the name now.   *)
UpdateRollingUpdateStatus(name, phase, k, ok) ==
    /\ RuKnown(name)
    /\ Ends(ok, k, 1)
    /\ rus' = IF k = 1 THEN [rus EXCEPT ![ruKey[name]].phase = phase] ELSE rus
    /\ UNCHANGED <<podVars, hosts, nodeVars, used, services, subsets, vsKey, vss, ruKey, mapping>>

(* DeleteRollingUpdateHandler: the key, then the object.                   *)
DeleteRollingUpdate(name, k, ok) ==
    /\ ruKey[name] # None
    /\ Ends(ok, k, 2)
    /\ ruKey' = IF k >= 1 THEN [ruKey EXCEPT ![name] = None] ELSE ruKey
    /\ rus' = IF k >= 2 THEN [rus EXCEPT ![ruKey[name]] = None] ELSE rus
    /\ UNCHANGED <<podVars, hosts, nodeVars, used, services, subsets, vsKey, vss, mapping>>

-----------------------------------------------------------------------------
(* SaveSidecarMapping: one Set.                                            *)
SaveSidecarMapping(result, k, ok) ==
    /\ Ends(ok, k, 1)
    /\ mapping' = IF k = 1 THEN result ELSE mapping
    /\ UNCHANGED <<podVars, hosts, nodeVars, used, services, subsets, vsKey, vss, ruKey, rus>>
=============================================================================
