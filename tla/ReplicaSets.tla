----------------------------- MODULE ReplicaSets -----------------------------
(***************************************************************************)
(* Replica sets and their autoscalers: the API server's handlers for both, *)
(* over the pod handlers of PodRegistry, and the two loops of the          *)
(* controller manager that act on what those handlers answer:              *)
(*                                                                         *)
(*   syncReplicaSet (controller/replicaset)   lists replica sets, lists    *)
(*           pods, then deletes and adds pods one request at a time        *)
(*   Run (controller/podautoscaler)           lists scalers, lists pods,   *)
(*           reads the replica sets and sets their number of replicas      *)
(*                                                                         *)
(* Every request is one step, so whatever a loop has listed may be old     *)
(* when it is used.  The loops are goroutines of one process.  What the    *)
(* metrics say is any outcome they can have; nodes play no part.           *)
(***************************************************************************)
EXTENDS PodRegistry

CONSTANTS
    NameOf,     \* the pod's name "<template name>-<uuid>": one per pod
    RsNames, RsUids, RsSpecs,
    HpaNames, HpaUids, HpaSpecs,
    Labels,     \* the pairs <key, value> of pod labels and selectors
    Replicas,   \* the numbers users set replicas to
    MaxTurns,   \* bound: requests of users and scalings
    MaxReports  \* bound: reports of kubelets that a pod failed or runs again

ASSUME NameOfAssumption ==
    /\ NameOf \in [PodUids -> Names]
    /\ \A u1, u2 \in PodUids : NameOf[u1] = NameOf[u2] => u1 = u2
ASSUME RsAssumption ==
    /\ RsSpecs \subseteq [selector : SUBSET Labels, template : SUBSET Labels, replicas : Nat]
    /\ Replicas \subseteq Nat
    /\ MaxTurns \in Nat /\ MaxReports \in Nat

(* A scaling policy allows a number of pods or a percentage; any other     *)
(* type allows one pod; None stands for a policy that was not given.       *)
Policy == [type : {"Pods", "Percent", "other"}, value : Nat] \union {None}
ASSUME HpaAssumption ==
    HpaSpecs \subseteq [target : RsNames, min : Nat \ {0}, max : Nat, up : Policy, down : Policy]

ReplicaSet == [name : RsNames, selector : SUBSET Labels, template : SUBSET Labels, replicas : Nat]
Hpa == [name : HpaNames, spec : HpaSpecs]

(* No record, and no list entry, is the absent one.                        *)
ASSUME RsNoneAssumption ==
    None \notin RsUids \union HpaUids \union ReplicaSet \union Hpa \union (RsNames \X Nat)

VARIABLES
    rsKey, replicaSets,   \* /registry/namespaces/<ns>/replicasets/<name>, /registry/replicaset/<uid>
    hpaKey, hpas,         \* /registry/namespaces/<ns>/scaling/<name>, /registry/scaling/<uid>
    labels,               \* the labels of each pod stored
    failed,               \* the pods whose stored phase is Failed
    drawn,                \* history: the uids of replica sets and scalers drawn
    rc,                   \* syncReplicaSet: "sets", "pods", "check", "work" or "down"
    reps, allPods,        \* its two lists
    rep, doomed, toStart, \* the set at hand, the pods to delete, how many to add
    hc,                   \* HPA loop: "scalers", "pods", "scale", "update" or "down"
    scalers, seenPods,    \* its two lists
    scaling,              \* the <name, replicas> it is about to write
    turns, reports

registry == <<podVars, hosts, nodeVars, used>>
rsVars   == <<rsKey, replicaSets, hpaKey, hpas, drawn>>
podInfo  == <<labels, failed, reports>>
rcVars   == <<rc, reps, allPods, rep, doomed, toStart>>
hcVars   == <<hc, scalers, seenPods, scaling>>
rsSystem == <<vars, rsVars, podInfo, rcVars, hcVars, turns>>

RsInit ==
    /\ Init
    /\ rsKey = [nm \in RsNames |-> None] /\ replicaSets = [u \in RsUids |-> None]
    /\ hpaKey = [nm \in HpaNames |-> None] /\ hpas = [u \in HpaUids |-> None]
    /\ labels = [u \in PodUids |-> {}] /\ failed = {} /\ drawn = {}
    /\ rc = "sets" /\ reps = {} /\ allPods = {} /\ rep = None /\ doomed = {} /\ toStart = 0
    /\ hc = "scalers" /\ scalers = {} /\ seenPods = {} /\ scaling = None
    /\ turns = 0 /\ reports = 0

-----------------------------------------------------------------------------
(* The handlers of replica sets and scalers *)

(* Mutant of RsNameFree: the conflict check of AddReplicaSet dropped.      *)
RsNameUnchecked(nm) == nm \in RsNames

RsNameFree(nm) == rsKey[nm] = None

(* AddReplicaSetHandler: the name key, then the replica set.               *)
AddReplicaSet(nm, spec, u, k, ok) ==
    /\ RsNameFree(nm)
    /\ u \in RsUids \ drawn
    /\ Ends(ok, k, 2)
    /\ drawn' = drawn \union {u}
    /\ rsKey' = IF k >= 1 THEN [rsKey EXCEPT ![nm] = u] ELSE rsKey
    /\ replicaSets' = IF k < 2 THEN replicaSets
         ELSE [replicaSets EXCEPT ![u] =
                 [name |-> nm, selector |-> spec.selector, template |-> spec.template,
                  replicas |-> spec.replicas]]
    /\ UNCHANGED <<registry, hpaKey, hpas>>

(* Mutant of UpdateReplicaSet: the set is stored under its uid as a name.  *)
UpdateReplicaSetRenamed(nm, n, k, ok) ==
    /\ rsKey[nm] # None /\ replicaSets[rsKey[nm]] # None
    /\ Ends(ok, k, 1)
    /\ replicaSets' = IF k >= 1 THEN [replicaSets EXCEPT ![rsKey[nm]].name = rsKey[nm]]
                                ELSE replicaSets
    /\ UNCHANGED <<registry, rsKey, hpaKey, hpas, drawn>>

(* UpdateReplicaSetHandler writes back the set it read, replicas changed.  *)
UpdateReplicaSet(nm, n, k, ok) ==
    /\ rsKey[nm] # None /\ replicaSets[rsKey[nm]] # None
    /\ Ends(ok, k, 1)
    /\ replicaSets' = IF k >= 1 THEN [replicaSets EXCEPT ![rsKey[nm]].replicas = n]
                                ELSE replicaSets
    /\ UNCHANGED <<registry, rsKey, hpaKey, hpas, drawn>>

(* DeleteReplicaSetHandler: the name key, then the set.  A name key        *)
(* without a set cannot be deleted.  The set's pods stay.                  *)
DeleteReplicaSet(nm, k, ok) ==
    /\ rsKey[nm] # None /\ replicaSets[rsKey[nm]] # None
    /\ Ends(ok, k, 2)
    /\ rsKey' = IF k >= 1 THEN [rsKey EXCEPT ![nm] = None] ELSE rsKey
    /\ replicaSets' = IF k >= 2 THEN [replicaSets EXCEPT ![rsKey[nm]] = None] ELSE replicaSets
    /\ UNCHANGED <<registry, hpaKey, hpas, drawn>>

(* AddScalingHandler: the name key, then the scaler.  A name key that      *)
(* cannot be read counts as absent and is overwritten.                     *)
AddScaling(nm, spec, u, k, ok) ==
    /\ u \in HpaUids \ drawn
    /\ \/ hpaKey[nm] = None /\ Ends(ok, k, 2)
       \/ /\ ReadErrors /\ k \in 0 .. 2 /\ (ok <=> k = 2)
          /\ faults' = faults + IF ok THEN 1 ELSE 2
          /\ faults' <= MaxFaults
    /\ drawn' = drawn \union {u}
    /\ hpaKey' = IF k >= 1 THEN [hpaKey EXCEPT ![nm] = u] ELSE hpaKey
    /\ hpas' = IF k >= 2 THEN [hpas EXCEPT ![u] = [name |-> nm, spec |-> spec]] ELSE hpas
    /\ UNCHANGED <<registry, rsKey, replicaSets>>

(* DeleteScalingHandler: the name key, then the scaler if it is there.     *)
(* When the first delete fails the handler answers so and goes on.         *)
DeleteScaling(nm, k, ok) ==
    LET gone == [hpas EXCEPT ![hpaKey[nm]] = None]
    IN  /\ hpaKey[nm] # None
        /\ \/ /\ Ends(ok, k, IF hpas[hpaKey[nm]] = None THEN 1 ELSE 2)
              /\ hpaKey' = IF k >= 1 THEN [hpaKey EXCEPT ![nm] = None] ELSE hpaKey
              /\ hpas' = IF k >= 2 THEN gone ELSE hpas
           \/ /\ ~ok /\ k = 1
              /\ faults < MaxFaults /\ faults' = faults + 1
              /\ hpas' = gone
              /\ UNCHANGED hpaKey
        /\ UNCHANGED <<registry, rsKey, replicaSets, drawn>>

(* What users ask for, pods deleted by hand included.                      *)
Users ==
    /\ turns < MaxTurns /\ turns' = turns + 1
    /\ \E ok \in BOOLEAN, k \in 0 .. 2 :
        \/ \E nm \in RsNames :
              \/ \E spec \in RsSpecs, u \in RsUids : AddReplicaSet(nm, spec, u, k, ok)
              \/ \E n \in Replicas : UpdateReplicaSet(nm, n, k, ok)
              \/ DeleteReplicaSet(nm, k, ok)
        \/ \E nm \in HpaNames :
              \/ \E spec \in HpaSpecs, u \in HpaUids : AddScaling(nm, spec, u, k, ok)
              \/ DeleteScaling(nm, k, ok)
        \/ \E nm \in Names : DeletePod(nm, k, ok) /\ UNCHANGED rsVars
    /\ UNCHANGED <<podInfo, rcVars, hcVars>>

(* A kubelet reports that a pod has failed, or that it runs again.  (The   *)
(* other phases count alike.)                                              *)
ReportPhase(u) ==
    /\ pods[u] # None
    /\ reports < MaxReports /\ reports' = reports + 1
    /\ PutPodStatus(pods[u].name, u, 1, TRUE)
    /\ failed' = IF u \in failed THEN failed \ {u} ELSE failed \union {u}
    /\ UNCHANGED <<rsVars, labels, rcVars, hcVars, turns>>

-----------------------------------------------------------------------------
(* The replica set controller *)

Sets == {replicaSets[u] : u \in RsUids} \ {None}

(* The answer of GetAllPodsHandler, as far as the loops look at it.        *)
PodsListed == {[uid |-> u, labels |-> labels[u], failed |-> u \in failed] :
                  u \in {p \in PodUids : pods[p] # None}}

(* A listing fails: the error is logged and the list is empty.             *)
ListFails == faults < MaxFaults /\ faults' = faults + 1

ListReplicaSets ==
    /\ rc = "sets"
    /\ rc' = "pods"
    /\ \/ reps' = Sets /\ UNCHANGED faults
       \/ reps' = {} /\ ListFails
    /\ UNCHANGED <<registry, rsVars, podInfo, allPods, rep, doomed, toStart, hcVars, turns>>

ListPods ==
    /\ rc = "pods"
    /\ rc' = "check"
    /\ \/ allPods' = PodsListed /\ UNCHANGED faults
       \/ allPods' = {} /\ ListFails
    /\ UNCHANGED <<registry, rsVars, podInfo, reps, rep, doomed, toStart, hcVars, turns>>

(* oneReplicaSetMatch: a pod without labels matches nothing.               *)
Matching(r) == {p \in allPods : p.labels # {} /\ r.selector \subseteq p.labels}
Counted(listed) == {p \in listed : ~p.failed}

(* Mutant of Excess: failed pods count like the others.                    *)
ExcessCountsFailed(r) ==
    {D \in SUBSET Matching(r) :
        IF r.replicas = 0 THEN D = Matching(r)
        ELSE IF Cardinality(Matching(r)) < r.replicas THEN D = {}
        ELSE Cardinality(Matching(r) \ D) = r.replicas}

(* oneReplicaSetCheck walks over the matching pods in the order of a map.  *)
(* Once the wanted number of pods that have not failed is counted, every   *)
(* pod that follows is deleted, failed or not.                             *)
Excess(r) ==
    {D \in SUBSET Matching(r) :
        IF r.replicas = 0 THEN D = Matching(r)
        ELSE IF Cardinality(Counted(Matching(r))) < r.replicas THEN D = {}
        ELSE Cardinality(Counted(Matching(r) \ D)) = r.replicas}

(* Mutant of Missing: the pods there are not subtracted.                   *)
MissingAll(r) ==
    IF Cardinality(Counted(Matching(r))) < r.replicas THEN r.replicas ELSE 0

Missing(r) ==
    LET count == Cardinality(Counted(Matching(r)))
    IN  IF count < r.replicas THEN r.replicas - count ELSE 0

CheckReplicaSet ==
    /\ rc = "check"
    /\ \E r \in reps, D \in SUBSET allPods :
          /\ D \in Excess(r)
          /\ doomed' = {p.uid : p \in D}
          /\ toStart' = Missing(r)
          /\ rep' = r
          /\ reps' = reps \ {r}
    /\ rc' = "work"
    /\ UNCHANGED <<vars, rsVars, podInfo, allPods, hcVars, turns>>

(* deletePod goes by name and ignores every error.                         *)
DeleteExcess ==
    /\ rc = "work"
    /\ \E u \in doomed :
          /\ doomed' = doomed \ {u}
          /\ \/ \E ok \in BOOLEAN, k \in 0 .. 2 : DeletePod(NameOf[u], k, ok)
             \/ podKey[NameOf[u]] = None /\ UNCHANGED vars
    /\ UNCHANGED <<rsVars, podInfo, rc, reps, allPods, rep, toStart, hcVars, turns>>

(* The uid AddPod draws is any that is new: which one makes no difference. *)
NewUid == CHOOSE u \in PodUids \ used : TRUE

(* addPod ignores every error.                                             *)
AddReplica ==
    /\ rc = "work" /\ doomed = {} /\ toStart > 0
    /\ used # PodUids
    /\ \E ok \in BOOLEAN, k \in 0 .. 2 : AddPod(NameOf[NewUid], NewUid, k, ok)
    /\ labels' = [labels EXCEPT ![NewUid] = rep.template]
    /\ toStart' = toStart - 1
    /\ UNCHANGED <<rsVars, failed, reports, rc, reps, allPods, rep, doomed, hcVars, turns>>

NextReplicaSet ==
    /\ rc = "work" /\ doomed = {} /\ toStart = 0
    /\ rc' = "check" /\ rep' = None
    /\ UNCHANGED <<vars, rsVars, podInfo, reps, allPods, doomed, toStart, hcVars, turns>>

(* Every set is done: the loop sleeps five seconds and starts again.       *)
PassEnds ==
    /\ rc = "check" /\ reps = {}
    /\ rc' = "sets" /\ allPods' = {}
    /\ UNCHANGED <<vars, rsVars, podInfo, reps, rep, doomed, toStart, hcVars, turns>>

SyncReplicaSet ==
    \/ ListReplicaSets \/ ListPods \/ CheckReplicaSet
    \/ DeleteExcess \/ AddReplica \/ NextReplicaSet \/ PassEnds

-----------------------------------------------------------------------------
(* The autoscaler *)

ListScalers ==
    /\ hc = "scalers"
    /\ \/ /\ scalers' = {hpas[u] : u \in HpaUids} \ {None}
          /\ UNCHANGED faults
       \/ scalers' = {} /\ ListFails
    /\ hc' = IF scalers' = {} THEN "scalers" ELSE "pods"
    /\ UNCHANGED <<registry, rsVars, podInfo, rcVars, seenPods, scaling, turns>>

ListScaledPods ==
    /\ hc = "pods"
    /\ hc' = "scale"
    /\ \/ seenPods' = {p.labels : p \in PodsListed} /\ UNCHANGED faults
       \/ seenPods' = {} /\ ListFails
    /\ UNCHANGED <<registry, rsVars, podInfo, rcVars, scalers, scaling, turns>>

(* The change of cur a policy allows where the load asks for d pods more   *)
(* or less; a percentage is rounded down.                                  *)
Allowed(policy, d, cur) ==
    IF policy.type = "Percent" THEN Min({d, (policy.value * cur) \div 100})
    ELSE IF policy.type = "Pods" THEN Min({d, policy.value})
    ELSE 1

(* Mutant of Raised: the upper bound forgotten.                            *)
RaisedUncapped(h, cur) ==
    {cur + Allowed(h.up, d, cur) : d \in IF cur = 0 THEN {0} ELSE 1 .. h.max}

(* genRepNumFromCPU, genRepNumFromMemory: what they return for a load      *)
(* above the target.  The ratio of the two asks for d pods more: any       *)
(* number, and those above h.max make no difference.                       *)
Raised(h, cur) ==
    {Min({cur + Allowed(h.up, d, cur), h.max}) : d \in IF cur = 0 THEN {0} ELSE 1 .. h.max}

(* ... and for a load below the target: a part of cur, or all of it.       *)
Lowered(h, cur) ==
    {Max({cur - Allowed(h.down, d, cur), h.min}) : d \in IF cur = 0 THEN {0} ELSE 1 .. cur}

Outcomes(h, cur) ==
    {cur} \union (IF h.up = None THEN {} ELSE Raised(h, cur))
          \union (IF h.down = None THEN {} ELSE Lowered(h, cur))

(* The replica sets a scaler may find under its target's name; those none  *)
(* of whose pods was listed are passed over.                               *)
Targets(h) ==
    {r \in Sets : /\ r.name = h.spec.target
                  /\ \E ls \in seenPods : ls # {} /\ r.selector \subseteq ls}

(* One scaler of the list: finds its replica set, or fails to; 0 and the   *)
(* present number are not written, nor is anything within the window.      *)
Scale ==
    /\ hc = "scale"
    /\ \E h \in scalers :
        /\ scalers' = scalers \ {h}
        /\ \/ \E r \in Targets(h) :
                /\ \E n \in Outcomes(h.spec, r.replicas) \ {0, r.replicas} :
                      scaling' = <<r.name, n>>
                /\ hc' = "update"
           \/ UNCHANGED scaling /\ hc' = "scale"
    /\ UNCHANGED <<vars, rsVars, podInfo, rcVars, seenPods, turns>>

ScalerListEnds ==
    /\ hc = "scale" /\ scalers = {}
    /\ hc' = "scalers" /\ seenPods' = {}
    /\ UNCHANGED <<vars, rsVars, podInfo, rcVars, scalers, scaling, turns>>

(* changeRpsPodNum: goes by the name of the set; errors are logged.        *)
WriteScaling ==
    /\ hc = "update"
    /\ hc' = "scale" /\ scaling' = None
    /\ \/ /\ turns < MaxTurns /\ turns' = turns + 1
          /\ \E ok \in BOOLEAN, k \in 0 .. 1 : UpdateReplicaSet(scaling[1], scaling[2], k, ok)
       \/ /\ rsKey[scaling[1]] # None => replicaSets[rsKey[scaling[1]]] = None
          /\ UNCHANGED <<vars, rsVars, turns>>
    /\ UNCHANGED <<podInfo, rcVars, scalers, seenPods>>

(* Behavior.ScaleUp is read although it may be nil (only its period is     *)
(* replaced by a default): the process, and both loops with it, ends.      *)
Panic ==
    /\ hc = "scale"
    /\ \E h \in scalers :
          /\ Targets(h) # {}
          /\ h.spec.up = None \/ h.spec.down = None
    /\ rc' = "down" /\ hc' = "down"
    /\ UNCHANGED <<vars, rsVars, podInfo, reps, allPods, rep, doomed, toStart,
                   scalers, seenPods, scaling, turns>>

(* The controller manager is killed, between any two requests, and started *)
(* again: all it knew is lost.                                             *)
ManagerRestarts ==
    /\ rc # "down"
    /\ faults < MaxFaults /\ faults' = faults + 1
    /\ rc' = "sets" /\ reps' = {} /\ allPods' = {} /\ rep' = None /\ doomed' = {} /\ toStart' = 0
    /\ hc' = "scalers" /\ scalers' = {} /\ seenPods' = {} /\ scaling' = None
    /\ UNCHANGED <<registry, rsVars, podInfo, turns>>

Autoscale == ListScalers \/ ListScaledPods \/ Scale \/ ScalerListEnds \/ WriteScaling \/ Panic

-----------------------------------------------------------------------------
RsNext ==
    \/ Users
    \/ \E u \in PodUids : ReportPhase(u)
    \/ SyncReplicaSet
    \/ Autoscale
    \/ ManagerRestarts

RsSpec == RsInit /\ [][RsNext]_rsSystem

(* The replica set controller sleeps and goes on, for ever.  Users, loads  *)
(* and kubelets need do nothing.                                           *)
FairRsSpec == RsSpec /\ WF_rsSystem(SyncReplicaSet)

-----------------------------------------------------------------------------
(* Type invariant: the records of both kinds and the locals of both loops  *)
(* (replicaset/controller.go, podautoscaler/horizonal.go).                 *)
RsTypeOK ==
    /\ rsKey \in [RsNames -> RsUids \union {None}]
    /\ replicaSets \in [RsUids -> ReplicaSet \union {None}]
    /\ hpaKey \in [HpaNames -> HpaUids \union {None}]
    /\ hpas \in [HpaUids -> Hpa \union {None}]
    /\ labels \in [PodUids -> SUBSET Labels] /\ failed \in SUBSET PodUids
    /\ drawn \in SUBSET (RsUids \union HpaUids)
    /\ rc \in {"sets", "pods", "check", "work", "down"}
    /\ reps \subseteq ReplicaSet
    /\ allPods \subseteq [uid : PodUids, labels : SUBSET Labels, failed : BOOLEAN]
    /\ rep \in ReplicaSet \union {None} /\ (rc = "work" => rep # None)
    /\ doomed \in SUBSET PodUids /\ toStart \in Nat
    /\ hc \in {"scalers", "pods", "scale", "update", "down"}
    /\ scalers \subseteq Hpa /\ seenPods \in SUBSET SUBSET Labels
    /\ scaling \in (RsNames \X Nat) \union {None} /\ (scaling # None <=> hc = "update")
    /\ turns \in 0 .. MaxTurns /\ reports \in 0 .. MaxReports

(* What a handler that was cut short leaves behind.                        *)
OrphanSets   == {u \in RsUids : replicaSets[u] # None /\ rsKey[replicaSets[u].name] # u}
DanglingSets == {nm \in RsNames : rsKey[nm] # None /\ replicaSets[rsKey[nm]] = None}
OrphanHpas   == {u \in HpaUids : hpas[u] # None /\ hpaKey[hpas[u].name] # u}
DanglingHpas == {nm \in HpaNames : hpaKey[nm] # None /\ hpas[hpaKey[nm]] = None}

(* The handlers of replica sets and scalers: a failing call or a crash     *)
(* costs at most one record without its other half; without failures every *)
(* set and every scaler the loops act on can be reached by its name.       *)
RsDebrisBounded ==
    Cardinality(OrphanSets) + Cardinality(DanglingSets)
      + Cardinality(OrphanHpas) + Cardinality(DanglingHpas) <= faults

Alive(r) == {u \in PodUids : /\ pods[u] # None /\ u \notin failed
                             /\ labels[u] # {} /\ r.selector \subseteq labels[u]}

(* The numbers users and scalers may ask for.                              *)
Wanted == {spec.replicas : spec \in RsSpecs} \union Replicas
            \union {spec.max : spec \in HpaSpecs} \union {spec.min : spec \in HpaSpecs}

(* syncReplicaSet: though sets are replaced, rescaled and deleted behind   *)
(* its old lists, it never has more pods running than anybody ever wanted  *)
(* of a set, unless a call failed or a failed pod came back.               *)
NoExcessPods ==
    faults = 0 /\ reports = 0 =>
        \A r \in Sets : Cardinality(Alive(r)) <= Max(Wanted)

(* Run of the HPA: whatever old number it read and whatever set it writes  *)
(* to, a number that no user asked for lies within the bounds of a scaler; *)
(* README 5.5: "The upper and lower bounds for HPA scaling".               *)
ReplicasInBounds ==
    \A r \in Sets :
        \/ r.replicas \in Replicas \union {spec.replicas : spec \in RsSpecs}
        \/ \E h \in HpaSpecs : r.replicas \in h.min .. h.max

(* README 5.4: "ensuring that the number of available Pod replicas always  *)
(* matches the preset count": once users, loads and pods come to rest, so  *)
(* it is and stays, while syncReplicaSet lives.  (A record only half       *)
(* deleted may prevent it: the orphans of a set or of a pod cannot be      *)
(* deleted by name.)                                                       *)
Debris == OrphanSets \union OrphanPods

ReplicasConverge ==
    <>[](rc # "down" /\ Debris = {} => \A r \in Sets : Cardinality(Alive(r)) = r.replicas)

(* The comment in genRepNumFromCPU, "defensive programming", about a       *)
(* scaling policy that is nil: no scaler ends the controller manager.      *)
NeverPanics == rc # "down"
=============================================================================
