-------------------------------- MODULE Pilot --------------------------------
(***************************************************************************)
(* Pilot (pkg/microservice/pilot/pilot.go): the loop that computes the     *)
(* sidecar mapping from what it polls, one request at a time, and the      *)
(* goroutine it starts for every rolling update.  Nothing of either        *)
(* outlives the process.  A failing request ends the iteration; a worker   *)
(* gives up before its first batch and ignores failures after it.          *)
(*                                                                         *)
(* Sleeps are left out, but for one: a worker's first request is answered  *)
(* before the next iteration asks for rolling updates, five seconds later. *)
(***************************************************************************)
EXTENDS TrafficRegistry, SequencesExt

CONSTANTS
    Backs,      \* <service, pod name>: the pod's labels match the selector
    UidsOf,     \* pod name -> the uids its pods get, lowest first: each name has its own,
                \* so that the order of additions makes no difference
    WeightLimit,\* weights are of type int32: 2^31
    Scenarios   \* [pods, services: what runs at first, asks: what users will
                \* do, each once, fault: "never", "restart" or "any", rounds: bound
                \* on the iterations begun while some worker is at work]

ASSUME BacksAssumption == Backs \subseteq Svcs \X Names
ASSUME UidsOfAssumption ==
    /\ UidsOf \in [Names -> SUBSET PodUids]
    /\ \A n, m \in Names : n # m => UidsOf[n] \intersect UidsOf[m] = {}

ASSUME WeightLimitAssumption == WeightLimit \in Nat \ {0}

(* What users ask for.                                                     *)
Request ==
    [op : {"AddSubset"}, name : SubNames, pods : SUBSET Names]
      \union [op : {"DeleteSubset"}, name : SubNames]
      \union [op : {"AddVirtualService"}, name : VsNames, svc : Svcs, split : Seq(Weighing)]
      \union [op : {"DeleteVirtualService"}, name : VsNames]
      \union [op : {"AddRollingUpdate"}, name : RuNames, svc : Svcs, min : Nat]
      \union [op : {"DeleteRollingUpdate"}, name : RuNames]
      \union [op : {"AddPod", "DeletePod"}, name : Names]
      \union [op : {"AddService", "DeleteService"}, svc : Svcs]

ASSUME ScenarioAssumption == \A sc \in Scenarios :
    /\ sc.pods \subseteq Names /\ \A n \in sc.pods : UidsOf[n] # {}
    /\ sc.services \subseteq Svcs
    /\ sc.asks \subseteq Request

VARIABLES
    scenario,  \* one of Scenarios
    asks,      \* what users have still to do
    pc,        \* pilot's next request, or "dead" (a panic) or "off"
    it,        \* the locals of syncLoopIteration
    rounds,    \* iterations begun since workers are at work
    worker,    \* uid of a rolling update -> its worker's locals
    spoilt     \* history of what may spoil an update: "users" took pods or objects of
               \* one or made some of its names, "unrolled" one, "panic" ended the workers

pilotVars == <<pc, it, rounds, worker>>
storeVars == <<vars, meshVars>>
allVars   == <<storeVars, scenario, asks, pilotVars, spoilt>>

NoEntries == [s \in Svcs |-> None]

Fresh0 == [pods |-> {}, services |-> {}, todo |-> {}, vs |-> None,
           counts |-> <<>>, got |-> <<>>, result |-> NoEntries]

Off == [pc |-> "off"]
Active(r) == worker[r].pc # "off"
NoneActive == \A r \in RuUids : ~ Active(r)

(* The pods that run with an address, <<name, uid>>.                       *)
Running == {p \in Names \X PodUids :
               pods[p[2]] # None /\ pods[p[2]].name = p[1] /\ pods[p[2]].status # None}

PilotInit ==
    /\ scenario \in Scenarios
    /\ asks = scenario.asks
    /\ services = scenario.services
    /\ podKey = [n \in Names |-> IF n \in scenario.pods THEN Min(UidsOf[n]) ELSE None]
    /\ pods = [u \in PodUids |->
                  IF \E n \in scenario.pods : podKey[n] = u
                  THEN [name |-> CHOOSE n \in scenario.pods : podKey[n] = u, status |-> u]
                  ELSE None]
    /\ used = {podKey[n] : n \in scenario.pods}
    /\ hosts = [n \in NodeNames |-> [h \in HostKeys |-> None]]
    /\ nodeKey = [n \in NodeNames |-> None] /\ nodes = [w \in NodeUids |-> None]
    /\ nodePool = {} /\ faults = 0
    /\ MeshInit
    /\ pc = "pods" /\ it = Fresh0 /\ rounds = 0
    /\ worker = [r \in RuUids |-> Off]
    /\ spoilt = {}

-----------------------------------------------------------------------------
(* Users and kubelets *)

(* While uids are left for the name.                                       *)
AddsPod(nm, k, ok) ==
    LET fresh == UidsOf[nm] \ used
    IN  fresh # {} /\ AddPod(nm, Min(fresh), k, ok)

Ask(a, k, ok) ==
    \/ a.op = "AddSubset" /\ AddSubset(a.name, a.pods, k, ok)
    \/ a.op = "DeleteSubset" /\ DeleteSubset(a.name, k, ok)
    \/ a.op = "AddVirtualService" /\ AddVirtualService(a.name, a.svc, a.split, k, ok)
    \/ a.op = "DeleteVirtualService" /\ DeleteVirtualService(a.name, k, ok)
    \/ a.op = "AddRollingUpdate"
         /\ AddRollingUpdate(a.name, a.svc, a.min, {r \in RuUids : Active(r)}, k, ok)
    \/ a.op = "DeleteRollingUpdate" /\ DeleteRollingUpdate(a.name, k, ok)
    \/ a.op = "AddPod"
         /\ AddsPod(a.name, k, ok) /\ UNCHANGED meshVars
    \/ a.op = "DeletePod" /\ DeletePod(a.name, k, ok) /\ UNCHANGED meshVars
    \/ a.op = "AddService" /\ ok /\ k = 0 /\ AddService(a.svc)
    \/ a.op = "DeleteService" /\ ok /\ k = 0 /\ DeleteService(a.svc)

(* What a user may do to spoil an update.                                  *)
Meddles(a) ==
    \/ a.op = "DeletePod"
    \/ a.op \in {"AddSubset", "DeleteSubset"} /\ a.name \notin UserSubsets
    \/ a.op \in {"AddVirtualService", "DeleteVirtualService"} /\ a.name \notin UserVss
    \/ a.op = "AddVirtualService" /\ \E i \in DOMAIN a.split : a.split[i].subset \notin UserSubsets

(* One of the requests users still have to make, one that is not refused.  *)
Users(k, ok) ==
    \E a \in asks :
        /\ Ask(a, k, ok)
        /\ asks' = asks \ {a}
        /\ spoilt' = spoilt \union {x \in {"users", "unrolled"} :
                        IF x = "users" THEN Meddles(a) ELSE a.op = "DeleteRollingUpdate"}
        /\ UNCHANGED <<scenario, pilotVars>>

(* A kubelet reports that the pod runs.                                    *)
PodRuns(nm, k, ok) ==
    /\ podKey[nm] # None
    /\ pods[podKey[nm]] # None /\ pods[podKey[nm]].status = None
    /\ PutPodStatus(nm, podKey[nm], k, ok)
    /\ UNCHANGED <<meshVars, scenario, asks, pilotVars, spoilt>>

-----------------------------------------------------------------------------
(* The loop *)

Goes(next, locals) == pc' = next /\ it' = locals

(* A request without a write: answered, or an error after which the        *)
(* iteration is over.                                                      *)
Reads(ok, next, locals) ==
    /\ Ends(ok, 0, 0)
    /\ IF ok THEN Goes(next, locals) ELSE Goes("pods", Fresh0)
    /\ UNCHANGED <<podVars, hosts, nodeVars, used, meshVars, scenario, asks>>

GetAllPods(ok) ==
    /\ pc = "pods"
    /\ NoneActive \/ rounds < scenario.rounds
    /\ rounds' = IF NoneActive THEN 0 ELSE rounds + 1
    /\ Reads(ok, "services", [it EXCEPT !.pods = Running])
    /\ UNCHANGED <<worker, spoilt>>

GetAllServices(ok) ==
    /\ pc = "services"
    /\ Reads(ok, "vss", [it EXCEPT !.services = services])
    /\ UNCHANGED <<rounds, worker, spoilt>>

GetAllVirtualServices(ok) ==
    /\ pc = "vss"
    /\ Reads(ok, "rus", [it EXCEPT !.todo = {vss[v] : v \in {u \in VsUids : vss[u] # None}}])
    /\ UNCHANGED <<rounds, worker, spoilt>>

PodsOf(s) == {p \in it.pods : <<s, p[1]>> \in Backs}

(* doRollingUpdate: a worker for every pending update of a listed service  *)
(* with pods; it returns at once when it may not take a pod away.          *)
Starts(r) ==
    /\ rus[r] # None /\ rus[r].phase = "Pending" /\ ~ Active(r)
    /\ rus[r].svc \in it.services
    /\ Cardinality(PodsOf(rus[r].svc)) > rus[r].min

NewWorker(r) ==
    LET ps == PodsOf(rus[r].svc)
    IN  [pc |-> "status", name |-> rus[r].name, svc |-> rus[r].svc, min |-> rus[r].min,
         pods |-> ps, left |-> {p[1] : p \in ps}, batch |-> {}, todo |-> {}]

GetAllRollingUpdates(ok) ==
    /\ pc = "rus" /\ \A r \in RuUids : worker[r].pc # "status"
    /\ Reads(ok, "vs", it)
    /\ worker' = IF ok THEN [r \in RuUids |-> IF Starts(r) THEN NewWorker(r) ELSE worker[r]]
                 ELSE worker
    /\ UNCHANGED <<rounds, spoilt>>

ByURL(vs) == vs.split[1].weight = None

(* The next virtual service of the list.  Its service is looked up in a    *)
(* map and dereferenced; then its first subset.                            *)
Panics(vs) == vs.svc \notin it.services \/ vs.split = <<>>

WorkersDie == worker' = [r \in RuUids |-> Off] /\ spoilt' = spoilt \union {"panic"}

TakeVirtualService(vs) ==
    /\ pc = "vs" /\ vs \in it.todo
    /\ \/ Panics(vs) /\ Goes("dead", Fresh0) /\ WorkersDie
       \/ ~ Panics(vs) /\ UNCHANGED <<worker, spoilt>>
            /\ Goes(IF ByURL(vs) THEN "read" ELSE "count",
                    [it EXCEPT !.todo = @ \ {vs}, !.vs = vs])
    /\ UNCHANGED <<storeVars, scenario, asks, rounds>>

(* GetSubsetByName of the next subset.                                     *)
NextSubset(answers) == subsets[it.vs.split[Len(answers) + 1].subset]

GetsSubset(answers, ok, next, locals) ==
    \/ NextSubset(answers) # None /\ Reads(ok, next, locals)
    \/ NextSubset(answers) = None /\ ~ ok /\ Goes("pods", Fresh0)
         /\ UNCHANGED <<storeVars, scenario, asks>>

(* The first pass, by weight only: how many pods each subset lists.  A     *)
(* weight is dereferenced when its subset has been answered.               *)
CountSubset(ok) ==
    LET n == Len(it.counts) + 1
        panics == ok /\ it.vs.split[n].weight = None
    IN  /\ pc = "count"
        /\ GetsSubset(it.counts, ok,
               IF panics THEN "dead" ELSE IF n = Len(it.vs.split) THEN "read" ELSE "count",
               IF panics THEN Fresh0
               ELSE [it EXCEPT !.counts = Append(@, Cardinality(NextSubset(it.counts)))])
        /\ IF panics THEN WorkersDie ELSE UNCHANGED <<worker, spoilt>>
        /\ UNCHANGED rounds

(* What an int32 keeps of a number; wrapping at the end of a product or a  *)
(* sum comes to the same as wrapping on the way.                           *)
Int32(x) == ((x + WeightLimit) % (2 * WeightLimit)) - WeightLimit

Scaled(weight, counts, others) == FoldSet(LAMBDA j, w : w * counts[j], weight, others)

(* A subset's weight times the sizes of the others, but zeros.             *)
TimesOthers(split, counts, i) ==
    Scaled(split[i].weight, counts, {j \in DOMAIN counts \ {i} : counts[j] # 0})

(* Mutant of Calculate: the subset's own size counts too.                  *)
CalculateOwn(split, counts) ==
    [i \in DOMAIN counts |->
        Int32(Scaled(split[i].weight, counts, {j \in DOMAIN counts : counts[j] # 0}))]

Calculate(split, counts) ==
    [i \in DOMAIN counts |-> Int32(TimesOthers(split, counts, i))]

Entry(subset, pod, weight) == [subset |-> subset, pod |-> pod, weight |-> weight]

(* The endpoint of a pod name: the pod of that name that ran and that the  *)
(* service selects, if any.                                                *)
PodNamed(s, nm, seen) ==
    LET us == {p \in seen : p[1] = nm /\ <<s, nm>> \in Backs}
    IN  IF us = {} THEN None ELSE (CHOOSE p \in us : TRUE)[2]

EntriesOf(vs, counts, got, seen) ==
    LET weight(i) == IF ByURL(vs) THEN None ELSE Calculate(vs.split, counts)[i]
    IN  UNION {{Entry(vs.split[i].subset, PodNamed(vs.svc, nm, seen), weight(i)) : nm \in got[i]} :
               i \in DOMAIN got}

(* The second pass; after its last request the service has its entries.    *)
ReadSubset(ok) ==
    LET got == Append(it.got, NextSubset(it.got))
        entries == EntriesOf(it.vs, it.counts, got, it.pods)
    IN  /\ pc = "read"
        /\ IF Len(got) < Len(it.vs.split)
           THEN GetsSubset(it.got, ok, "read", [it EXCEPT !.got = got])
           ELSE GetsSubset(it.got, ok, "vs",
                    [it EXCEPT !.vs = None, !.counts = <<>>, !.got = <<>>,
                               !.result = [@ EXCEPT ![it.vs.svc] = entries]])
        /\ UNCHANGED <<rounds, worker, spoilt>>

(* Services that no virtual service marked: equal weights.                 *)
DefaultEntries(s, seen) ==
    {Entry(None, p[2], 1) : p \in {q \in seen : <<s, q[1]>> \in Backs}}

(* Mutant of Completed: starts from the old mapping, not an empty one.     *)
CompletedKeeps ==
    [s \in Svcs |-> IF s \in it.services /\ it.result[s] = None
                    THEN DefaultEntries(s, it.pods)
                    ELSE IF it.result[s] = None THEN mapping[s] ELSE it.result[s]]

Completed ==
    [s \in Svcs |-> IF s \in it.services /\ it.result[s] = None
                    THEN DefaultEntries(s, it.pods) ELSE it.result[s]]

AddSidecarMapping(k, ok) ==
    /\ pc = "vs" /\ it.todo = {}
    /\ SaveSidecarMapping(Completed, k, ok)
    /\ Goes("pods", Fresh0)
    /\ UNCHANGED <<scenario, asks, rounds, worker, spoilt>>

Loop(k, ok) ==
    \/ k = 0 /\ (GetAllPods(ok) \/ GetAllServices(ok) \/ GetAllVirtualServices(ok)
                 \/ GetAllRollingUpdates(ok) \/ CountSubset(ok) \/ ReadSubset(ok))
    \/ k = 0 /\ ok /\ \E vs \in it.todo : TakeVirtualService(vs)
    \/ AddSidecarMapping(k, ok)

-----------------------------------------------------------------------------
(* The worker of update r *)

Becomes(r, w) == worker' = [worker EXCEPT ![r] = w]
At(r, label)  == worker[r].pc = label
Moves(r, label) == [worker[r] EXCEPT !.pc = label]

(* updateNum: how many pods may be missing at a time.                      *)
UpdateNum(w) == Cardinality(w.pods) - w.min

(* Mutant of NextBatch: the pods that are left over do not fill a batch.   *)
NextBatchFull(w) ==
    IF Cardinality(w.left) < UpdateNum(w)
    THEN {[w EXCEPT !.pc = "finished"]}
    ELSE {[w EXCEPT !.pc = "blocked", !.batch = b, !.left = @ \ b] :
             b \in {c \in SUBSET w.left : Cardinality(c) = UpdateNum(w)}}

(* Pods come in the order of a listed map: any.                            *)
NextBatch(w) ==
    IF w.left = {} THEN {[w EXCEPT !.pc = "finished"]}
    ELSE LET size == Min({UpdateNum(w), Cardinality(w.left)})
         IN  {[w EXCEPT !.pc = "blocked", !.batch = b, !.left = @ \ b] :
                 b \in {c \in SUBSET w.left : Cardinality(c) = size}}

NamesOf(w) == {p[1] : p \in w.pods}

(* Requests whose failure ends the worker.                                 *)
Prepare(r, k, ok) ==
    LET w == worker[r]
        split == <<[subset |-> Available(w.svc), weight |-> 1],
                   [subset |-> Blocked(w.svc), weight |-> 0]>>
    IN  \/ /\ At(r, "status")
           /\ \/ UpdateRollingUpdateStatus(w.name, "Running", k, ok)
              \/ Refused(RuKnown(w.name), k, ok)
           /\ Becomes(r, IF ok THEN Moves(r, "blocked0") ELSE Off)
        \/ /\ At(r, "blocked0")
           /\ AddSubset(Blocked(w.svc), {}, k, ok)
           /\ Becomes(r, IF ok THEN Moves(r, "available0") ELSE Off)
        \/ /\ At(r, "available0")
           /\ AddSubset(Available(w.svc), {}, k, ok)
           /\ Becomes(r, IF ok THEN Moves(r, "vs") ELSE Off)
        \/ /\ At(r, "vs")
           /\ \/ AddVirtualService(RollingVs(w.svc), w.svc, split, k, ok)
              \/ Refused(VsAccepted(RollingVs(w.svc), w.svc, split), k, ok)
           /\ \/ ok /\ \E n \in NextBatch(w) : Becomes(r, n)
              \/ ~ ok /\ Becomes(r, Off)

(* One batch: both subsets, the deletions, the additions.                  *)
Batch(r, k, ok) ==
    LET w == worker[r]
        free == NamesOf(w) \ w.batch
    IN  \/ /\ At(r, "blocked")
           /\ AddSubset(Blocked(w.svc), w.batch, k, ok) \/ Refused(PodsKnown(w.batch), k, ok)
           /\ Becomes(r, Moves(r, "available"))
        \/ /\ At(r, "available")
           /\ AddSubset(Available(w.svc), free, k, ok) \/ Refused(PodsKnown(free), k, ok)
           /\ Becomes(r, [w EXCEPT !.pc = "delete", !.todo = w.batch])
        \/ /\ At(r, "delete")
           /\ \E nm \in w.todo :
                /\ \/ DeletePod(nm, k, ok) /\ UNCHANGED meshVars
                   \/ Refused(podKey[nm] # None, k, ok)
                /\ Becomes(r, IF w.todo = {nm} THEN [w EXCEPT !.pc = "add", !.todo = w.batch]
                              ELSE [w EXCEPT !.todo = @ \ {nm}])
        \/ /\ At(r, "add")
           /\ \E nm \in w.todo :
                /\ \/ AddsPod(nm, k, ok) /\ UNCHANGED meshVars
                   \/ Refused(NameFree(nm), k, ok)
                /\ IF w.todo = {nm}
                   THEN \E n \in NextBatch([w EXCEPT !.todo = {}]) : Becomes(r, n)
                   ELSE Becomes(r, [w EXCEPT !.todo = @ \ {nm}])

Finish(r, k, ok) ==
    LET w == worker[r]
    IN  \/ /\ At(r, "finished")
           /\ \/ UpdateRollingUpdateStatus(w.name, "Finished", k, ok)
              \/ Refused(RuKnown(w.name), k, ok)
           /\ Becomes(r, Moves(r, "unVs"))
        \/ /\ At(r, "unVs")
           /\ \/ DeleteVirtualService(RollingVs(w.svc), k, ok)
              \/ Refused(vsKey[RollingVs(w.svc)] # None, k, ok)
           /\ Becomes(r, Moves(r, "unBlocked"))
        \/ /\ At(r, "unBlocked")
           /\ \/ DeleteSubset(Blocked(w.svc), k, ok)
              \/ Refused(subsets[Blocked(w.svc)] # None, k, ok)
           /\ Becomes(r, Moves(r, "unAvailable"))
        \/ /\ At(r, "unAvailable")
           /\ \/ DeleteSubset(Available(w.svc), k, ok)
              \/ Refused(subsets[Available(w.svc)] # None, k, ok)
           /\ Becomes(r, Off)

Work(r, k, ok) ==
    /\ Prepare(r, k, ok) \/ Batch(r, k, ok) \/ Finish(r, k, ok)
    /\ UNCHANGED <<scenario, asks, pc, it, rounds, spoilt>>

-----------------------------------------------------------------------------
(* The process *)

Crash ==
    /\ pc \notin {"off", "dead"} /\ faults < MaxFaults
    /\ faults' = faults + 1
    /\ pc' = "off" /\ it' = Fresh0 /\ rounds' = 0 /\ worker' = [r \in RuUids |-> Off]
    /\ UNCHANGED <<podVars, hosts, nodeVars, used, meshVars, scenario, asks, spoilt>>

Restart ==
    /\ pc \in {"off", "dead"}
    /\ pc' = "pods"
    /\ UNCHANGED <<storeVars, scenario, asks, it, rounds, worker, spoilt>>

(* Failures only where the scenario has them.                              *)
Allowed == faults' # faults => scenario.fault = "any"

PilotNext ==
    \/ \E k \in 0 .. 2, ok \in BOOLEAN :
          /\ \/ Users(k, ok) \/ Loop(k, ok)
             \/ \E r \in RuUids : Work(r, k, ok)
             \/ \E nm \in Names : PodRuns(nm, k, ok)
          /\ Allowed
    \/ scenario.fault # "never" /\ Crash
    \/ Restart

PilotSpec == PilotInit /\ [][PilotNext]_allVars

(* Goroutines are scheduled, requests answered, pods come to run; users    *)
(* and operators owe nothing.                                              *)
FairPilotSpec ==
    /\ PilotSpec
    /\ WF_allVars(\E k \in 0 .. 2, ok \in BOOLEAN : Loop(k, ok) /\ Allowed)
    /\ \A r \in RuUids : WF_allVars(\E k \in 0 .. 2, ok \in BOOLEAN : Work(r, k, ok) /\ Allowed)
    /\ \A nm \in Names : WF_allVars(\E k \in 0 .. 2, ok \in BOOLEAN : PodRuns(nm, k, ok) /\ Allowed)

-----------------------------------------------------------------------------
(* Envoy *)

(* getDestinationWithWeight: endpoints in the order of the list, the draw  *)
(* reduced by the weight of each that it does not fall in.  Entries of     *)
(* pods that do not run have no endpoints.                                 *)
Endpoints(entries) == SetToSeq({e \in entries : e.pod # None})

WeightUpTo(es, n) == FoldSet(LAMBDA j, sum : sum + es[j].weight, 0, 1 .. n)

Destination(es, draw) == es[Min({i \in DOMAIN es : draw < WeightUpTo(es, i)})]

(* The draws that a subset gets; rand.Intn panics when there is none.      *)
Share(entries, subset) ==
    LET es == Endpoints(entries)
    IN  Cardinality({d \in 0 .. Int32(WeightUpTo(es, Len(es))) - 1 : Destination(es, d).subset = subset})

-----------------------------------------------------------------------------
(* Properties *)

Labels == {"status", "blocked0", "available0", "vs", "blocked", "available", "delete", "add",
           "finished", "unVs", "unBlocked", "unAvailable"}

IsWorker(w) ==
    /\ w.pc \in Labels /\ w.name \in RuNames /\ w.svc \in Svcs /\ w.min \in Nat
    /\ w.pods \subseteq Names \X PodUids
    /\ w.left \subseteq NamesOf(w) /\ w.batch \subseteq NamesOf(w) /\ w.todo \subseteq w.batch

(* Every variable has its type: what the store's prefixes and the locals   *)
(* of loop and workers may hold.                                           *)
MsTypeOK ==
    /\ TypeOK
    /\ services \subseteq Svcs
    /\ \A n \in SubNames : subsets[n] # None => subsets[n] \subseteq Names
    /\ vsKey \in [VsNames -> VsUids \union {None}]
    /\ vss \in [VsUids -> VirtualService \union {None}]
    /\ ruKey \in [RuNames -> RuUids \union {None}]
    /\ rus \in [RuUids -> RollingUpdate \union {None}]
    /\ \A s \in Svcs : mapping[s] # None => mapping[s] \subseteq EntryType
    /\ pc \in {"pods", "services", "vss", "rus", "vs", "count", "read", "dead", "off"}
    /\ it.pods \subseteq Names \X PodUids /\ it.services \subseteq Svcs
    /\ it.vs # None => Len(it.counts) <= Len(it.vs.split) /\ Len(it.got) < Len(it.vs.split)
    /\ \A r \in RuUids : worker[r] = Off \/ IsWorker(worker[r])

Undisturbed == faults = 0 /\ "users" \notin spoilt

(* Workers that own the virtual service of their service.                  *)
Updating(r) == worker[r].pc \in {"blocked", "available", "delete", "add", "finished", "unVs"}

(* rollingUpdateWorkerLoop: however many updates of a service are asked    *)
(* for at once, with whatever minimum each, one at a time takes pods away, *)
(* and the minimum of that one stays stored.  Only the conflict on the     *)
(* virtual service's name sees to that, and nothing where two services     *)
(* that are updated select the same pod.                                   *)
MinimumAlive ==
    Undisturbed => \A r \in RuUids : Updating(r) =>
        Cardinality({nm \in NamesOf(worker[r]) : podKey[nm] # None}) >= worker[r].min

(* It reports "Finished" when every pod it listed has been replaced by a   *)
(* new one of its name, the last, smaller batch included.                  *)
FinishedReplacesAll ==
    Undisturbed => \A r \in RuUids : At(r, "finished") =>
        \A p \in worker[r].pods : podKey[p[1]] \notin {p[2], None}

(* When the updates are over, none cut short by a panic of the loop, their *)
(* virtual services are gone, and their subsets too if none is stuck in    *)
(* "Running" and users deleted none: the service is balanced again.        *)
NoneStuck  == \A r \in RuUids : rus[r] # None => rus[r].phase # "Running"
UpdatesLeaveNothing ==
    Undisturbed /\ "panic" \notin spoilt /\ NoneActive => \A s \in Svcs :
        /\ vsKey[RollingVs(s)] = None
        /\ \A v \in VsUids : vss[v] # None => \A i \in DOMAIN vss[v].split :
               vss[v].split[i].subset \notin {Blocked(s), Available(s)}
        /\ NoneStuck /\ "unrolled" \notin spoilt =>
              subsets[Blocked(s)] = None /\ subsets[Available(s)] = None

(* README 5.9.2, calculate and getDestinationWithWeight together: of the   *)
(* draws Envoy makes, subsets get shares in the ratio of their weights,    *)
(* whatever their sizes; when the subsets were the same in both passes,    *)
(* none is listed twice, their pods run, and an int32 has room for all.    *)
SharesFollow(vs, entries) ==
    LET n(i) == Cardinality({e \in entries : e.subset = vs.split[i].subset})
        share(i) == Share(entries, vs.split[i].subset)
        filled == {i \in DOMAIN vs.split : n(i) > 0}
    IN  \A i, j \in filled :
            /\ share(i) * vs.split[j].weight = share(j) * vs.split[i].weight
            /\ vs.split[i].weight > 0 => share(i) > 0
SameAndRunning(vs, counts, entries) ==
    /\ \A e \in entries : e.pod # None
    /\ \A i, j \in DOMAIN counts : vs.split[i].subset = vs.split[j].subset => i = j
    /\ \A i \in DOMAIN counts :
          counts[i] = Cardinality({e \in entries : e.subset = vs.split[i].subset})
Fit(vs, counts, entries) ==
    LET es == Endpoints(entries)
    IN  /\ \A i \in DOMAIN counts : TimesOthers(vs.split, counts, i) < WeightLimit
        /\ WeightUpTo(es, Len(es)) < WeightLimit
WeightsFollowSubsets ==
    [][pc = "read" /\ pc' = "vs" /\ ~ ByURL(it.vs) =>
          LET entries == it'.result[it.vs.svc]
          IN  SameAndRunning(it.vs, it.counts, entries) /\ Fit(it.vs, it.counts, entries)
                => SharesFollow(it.vs, entries)]_allVars

(* syncLoopIteration: what it would compute from the stored state.         *)
Stored == {vss[v] : v \in {u \in VsUids : vss[u] # None}}
Whole(vs) == /\ vs.svc \in services /\ vs.split # <<>>
             /\ ByURL(vs) \/ \A i \in DOMAIN vs.split : vs.split[i].weight # None
             /\ \A i \in DOMAIN vs.split : subsets[vs.split[i].subset] # None
Now(vs) ==
    LET got == [i \in DOMAIN vs.split |-> subsets[vs.split[i].subset]]
    IN  EntriesOf(vs, [i \in DOMAIN got |-> Cardinality(got[i])], got, Running)
Current(s) ==
    LET vs == {v \in Stored : v.svc = s}
    IN  CASE s \notin services -> mapping[s] = None
          [] s \in services /\ vs = {} -> mapping[s] = DefaultEntries(s, Running)
          [] OTHER -> \E v \in vs : mapping[s] = Now(v)

(* Once users stop, the mapping comes to be, for every service, what the   *)
(* stored subsets, virtual services and running pods call for, as long as  *)
(* pilot lives and every virtual service has its service, subsets, weights. *)
MappingConverges ==
    <>[](pc \notin {"off", "dead"} /\ (\A vs \in Stored : Whole(vs))
            => \A s \in Svcs : Current(s))

-----------------------------------------------------------------------------
(* What the repository says and the code does not do *)

(* README 5.7, of the control plane without the API server: "A restart     *)
(* results, at most, in the loss of one intermediate calculation result".  *)
(* A pod that an update replaces is not lost by a restart.                 *)
PodsSurviveRestart ==
    pc \notin {"off", "dead"} /\ NoneActive /\ "users" \notin spoilt =>
        \A nm \in scenario.pods : podKey[nm] # None

(* README 5.9.2: "Pilot continuously monitors the VirtualServices, Subsets,*)
(* and Services": no panic ends it.                                        *)
PilotSurvives == pc # "dead"

(* The same passage: it also "computes the forwarding methods for other    *)
(* Services", whatever the state of the virtual services.                  *)
OthersConverge ==
    <>[](pc \notin {"off", "dead"} => \A s \in Svcs :
            (\A vs \in Stored : vs.svc # s) => Current(s))

(* README 5.9.4: a subset of weight 0 prevents "traffic from reaching the  *)
(* Pods currently being updated".                                          *)
NoTrafficToUpdated ==
    \A r \in RuUids : At(r, "delete") =>
        \A s \in Svcs : mapping[s] # None => \A e \in mapping[s] :
            e.weight # 0 => e.pod \notin {p[2] : p \in {q \in worker[r].pods : q[1] \in worker[r].batch}}

(* The same passage: meanwhile the rest of the service's pods, as many as  *)
(* the minimum, can be drawn.                                              *)
KeepsServing ==
    Undisturbed => \A r \in RuUids :
        At(r, "delete") /\ worker[r].min > 0 /\ mapping[worker[r].svc] # None =>
            \E e \in mapping[worker[r].svc] : e.pod # None /\ e.weight > 0
=============================================================================
