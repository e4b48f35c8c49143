------------------------------- MODULE Kubelet -------------------------------
(***************************************************************************)
(* One kubelet: the goroutines of pkg/kubelet and the channels and locks   *)
(* between them.                                                           *)
(*                                                                         *)
(*   watcher  (app/server.go)  polls the API server and sends additions    *)
(*            and deletions over the unbuffered channel "updates"          *)
(*   loop     (kubelet.go)     receives updates and PLEG events and hands  *)
(*            work to the pod workers                                      *)
(*   worker   (pod_workers.go) one per pod, with a channel of ten: calls   *)
(*            the container runtime and reports statuses                   *)
(*   pleg     (pleg/pleg.go)   lists the containers, compares with its     *)
(*            records, updates the status cache, sends lifecycle events    *)
(*                                                                         *)
(* The runtime manager holds a lock for each of its calls, so a call is    *)
(* one step.  Init containers, volumes and networking are left out, as is  *)
(* the metrics tick of the loop, which changes no state modelled here.     *)
(***************************************************************************)
EXTENDS Naturals, Sequences, FiniteSets, SequencesExt

CONSTANTS
    PodUids, PodNames,
    NameOf,      \* a pod's name: the runtime groups containers by it
    Containers,  \* the names of containers
    Always,      \* the pods whose restart policy is Always
    QueueCap,    \* capacity of a worker's channel (10)
    EventCap,    \* capacity of the PLEG's channel (100)
    Scenarios,   \* the containers of each pod's spec, and the bounds:
                 \*   turns: how often the cluster gives or takes each pod
                 \*   exits: how often a container stops by itself
                 \*   faults: failing calls of runtime and API server
                 \*   interrupt: whether the kubelet is ever interrupted
    None

ASSUME NameAssumption == NameOf \in [PodUids -> PodNames]
ASSUME AlwaysAssumption == Always \subseteq PodUids
ASSUME CapAssumption == QueueCap \in Nat \ {0} /\ EventCap \in Nat \ {0}
ASSUME ScenarioAssumption ==
    Scenarios \subseteq [containers : [PodUids -> SUBSET Containers],
                         turns : Nat, exits : Nat, faults : Nat, interrupt : BOOLEAN]

(* A container and the states the code tells apart; an absent container is *)
(* "none".                                                                 *)
Cids   == PodUids \X Containers
States == {"none", "running", "exited"}

VARIABLES
    assigned,     \* the pods the API server answers for this node
    ctr,          \* the container runtime: Cids -> States
    apiStatus,    \* per pod: the phase last reported, or None
    latest,       \* watcher: latestLocalPods
    outbox,       \* watcher: the updates it is about to send
    answer,       \* watcher: the pods of the poll under way
    watcher,      \* "select" or "done"
    loop,         \* "select", "batch", "blocked", "stopping", "ended"
    batch,        \* loop: the rest of the update being handled
    blocked,      \* loop: the <pod, work> it cannot send, holding pw.lock
    podUidMap,    \* pod manager: the pods known
    podUpdates,   \* pod workers: per pod its channel, or None
    worker,       \* per pod: what its worker goroutine is at
    cache,        \* per pod: its cached status, or None
    fresh,        \* per pod: the cache entry is not older than lastSyncTime
    got,          \* per pod: the status GetNewerThan gave its worker
    records,      \* pleg: per pod the containers of podRecord.old
    current,      \* pleg: per pod the containers of podRecord.current
    todo,         \* pleg: the pods with events left in this relist
    sending,      \* pleg: the events of a pod not yet sent
    eventCh,      \* pleg: the channel of events
    pleg,         \* "select", "relist" or "stopped"
    cancelled,    \* an interrupt has come: ctx is cancelled
    turns, exits, faults,
    scenario      \* the pods' specs and the bounds, chosen at the start

env     == <<assigned, ctr, apiStatus, turns, exits, faults, scenario>>
watchV  == <<latest, outbox, answer, watcher>>
loopV   == <<loop, batch, blocked, podUidMap>>
workerV == <<podUpdates, worker, got>>
cacheV  == <<cache, fresh>>
plegV   == <<records, current, todo, sending, eventCh, pleg>>
vars    == <<env, watchV, loopV, workerV, cacheV, plegV, cancelled>>

ContainersOf(u) == scenario.containers[u]

Init ==
    /\ scenario \in Scenarios
    /\ assigned = {}
    /\ ctr = [id \in Cids |-> "none"]
    /\ apiStatus = [u \in PodUids |-> None]
    /\ latest = {} /\ outbox = <<>> /\ answer = {} /\ watcher = "select"
    /\ loop = "select" /\ batch = None /\ blocked = None /\ podUidMap = {}
    /\ podUpdates = [u \in PodUids |-> None]
    /\ worker = [u \in PodUids |-> "none"]
    /\ cache = [u \in PodUids |-> None]
    /\ fresh = [u \in PodUids |-> FALSE]
    /\ got = [u \in PodUids |-> None]
    /\ records = [u \in PodUids |-> {}]
    /\ current = [u \in PodUids |-> {}]
    /\ todo = {} /\ sending = <<>> /\ eventCh = <<>> /\ pleg = "select"
    /\ cancelled = FALSE
    /\ turns = [u \in PodUids |-> 0] /\ exits = 0 /\ faults = 0

-----------------------------------------------------------------------------
(* The world *)

(* The scheduler maps a pod to this node, or the pod is deleted or moved.  *)
Reassign(u) ==
    /\ ContainersOf(u) # {}
    /\ turns[u] < scenario.turns
    /\ turns' = [turns EXCEPT ![u] = @ + 1]
    /\ assigned' = IF u \in assigned THEN assigned \ {u} ELSE assigned \union {u}
    /\ UNCHANGED <<scenario, ctr, apiStatus, exits, faults, watchV, loopV, workerV, cacheV, plegV, cancelled>>

ContainerExits(id) ==
    /\ exits < scenario.exits
    /\ exits' = exits + 1
    /\ ctr[id] = "running"
    /\ ctr' = [ctr EXCEPT ![id] = "exited"]
    /\ UNCHANGED <<scenario, assigned, apiStatus, turns, faults, watchV, loopV, workerV, cacheV, plegV, cancelled>>

Interrupt ==
    /\ scenario.interrupt /\ ~cancelled
    /\ cancelled' = TRUE
    /\ UNCHANGED <<env, watchV, loopV, workerV, cacheV, plegV>>

-----------------------------------------------------------------------------
(* watchApiServer *)

(* Mutant of Difference: old and new list swapped.                         *)
DifferenceSwapped(old, new) ==
    (IF old \ new # {} THEN <<[op |-> "ADD", pods |-> old \ new]>> ELSE <<>>)
      \o (IF new \ old # {} THEN <<[op |-> "DELETE", pods |-> new \ old]>> ELSE <<>>)

(* What updateLocalPods has to send: additions first.                      *)
Difference(old, new) ==
    (IF new \ old # {} THEN <<[op |-> "ADD", pods |-> new \ old]>> ELSE <<>>)
      \o (IF old \ new # {} THEN <<[op |-> "DELETE", pods |-> old \ new]>> ELSE <<>>)

(* The timer fires; the select may prefer it to a cancelled context.       *)
WatcherPolls ==
    /\ watcher = "select" /\ outbox = <<>>
    /\ outbox' = Difference(latest, assigned)
    /\ answer' = assigned
    /\ latest' = IF outbox' = <<>> THEN assigned ELSE latest
    /\ UNCHANGED <<env, watcher, loopV, workerV, cacheV, plegV, cancelled>>

WatcherStops ==
    /\ watcher = "select" /\ outbox = <<>>
    /\ cancelled
    /\ watcher' = "done"
    /\ UNCHANGED <<env, latest, outbox, answer, loopV, workerV, cacheV, plegV, cancelled>>

-----------------------------------------------------------------------------
(* Pod workers: UpdatePod, called by the loop.  A full channel blocks the  *)
(* loop while it holds pw.lock.                                            *)

(* Mutant of Full: room for one more than the capacity.                    *)
FullOneLate(u, work) ==
    podUpdates[u] # None /\ work # "create" /\ Len(podUpdates[u]) > QueueCap

(* The channel is full: the send has to wait.                              *)
Full(u, work) ==
    podUpdates[u] # None /\ work # "create" /\ Len(podUpdates[u]) >= QueueCap

Send(u, work) ==
    /\ podUpdates' = [podUpdates EXCEPT ![u] =
          IF @ = None THEN IF work = "create" THEN <<work>> ELSE None
          ELSE IF work = "create" THEN @ ELSE Append(@, work)]
    /\ worker' = [worker EXCEPT ![u] =
          IF podUpdates[u] = None /\ work = "create" THEN "idle" ELSE @]
    /\ UNCHANGED got

(* UpdatePod, after which the loop is at "next".                           *)
UpdatePod(u, work, next) ==
    \/ /\ ~Full(u, work)
       /\ Send(u, work)
       /\ loop' = next /\ UNCHANGED blocked
    \/ /\ Full(u, work)
       /\ loop' = "blocked" /\ blocked' = <<u, work>>
       /\ UNCHANGED workerV

-----------------------------------------------------------------------------
(* syncLoop *)

(* The rendezvous on the unbuffered channel: watcher and loop in one step. *)
LoopReceivesUpdate ==
    /\ loop = "select" /\ outbox # <<>>
    /\ batch' = Head(outbox)
    /\ loop' = "batch"
    /\ outbox' = Tail(outbox)
    /\ latest' = IF Tail(outbox) = <<>> THEN answer ELSE latest
    /\ UNCHANGED <<env, answer, watcher, blocked, podUidMap, workerV, cacheV, plegV, cancelled>>

(* Mutant of LoopHandlesPod: podManager.DeletePod forgotten.               *)
LoopHandlesPodKeeps(u) ==
    /\ loop = "batch" /\ u \in batch.pods
    /\ podUidMap' = podUidMap \union {u}
    /\ UpdatePod(u, IF batch.op = "ADD" THEN "create" ELSE "kill",
                 IF batch.pods = {u} THEN "select" ELSE "batch")
    /\ batch' = IF batch.pods = {u} THEN None ELSE [batch EXCEPT !.pods = @ \ {u}]
    /\ UNCHANGED <<env, watchV, cacheV, plegV, cancelled>>

(* HandlePodAdditions, HandlePodDeletions: one pod of the update.          *)
LoopHandlesPod(u) ==
    /\ loop = "batch" /\ u \in batch.pods
    /\ podUidMap' = IF batch.op = "ADD" THEN podUidMap \union {u} ELSE podUidMap \ {u}
    /\ UpdatePod(u, IF batch.op = "ADD" THEN "create" ELSE "kill",
                 IF batch.pods = {u} THEN "select" ELSE "batch")
    /\ batch' = IF batch.pods = {u} THEN None ELSE [batch EXCEPT !.pods = @ \ {u}]
    /\ UNCHANGED <<env, watchV, cacheV, plegV, cancelled>>

(* HandlePodLifecycleEvent.                                                *)
WorkFor(event) ==
    IF event.type = "Died" /\ event.pod \in Always THEN "recreate" ELSE "sync"

LoopReceivesEvent ==
    /\ loop = "select" /\ eventCh # <<>>
    /\ LET event == Head(eventCh) IN
          IF event.pod \in podUidMap THEN UpdatePod(event.pod, WorkFor(event), "select")
          ELSE UNCHANGED <<loop, blocked, workerV>>
    /\ eventCh' = Tail(eventCh)
    /\ UNCHANGED <<env, watchV, batch, podUidMap, cacheV, records, current, todo, sending,
                   pleg, cancelled>>

(* The worker has made room: UpdatePod sends and gives up pw.lock.         *)
LoopUnblocks ==
    /\ loop = "blocked"
    /\ ~Full(blocked[1], blocked[2])
    /\ Send(blocked[1], blocked[2])
    /\ loop' = IF batch = None THEN "select" ELSE "batch"
    /\ blocked' = None
    /\ UNCHANGED <<env, watchV, batch, podUidMap, cacheV, plegV, cancelled>>

(* ctx.Done: the loop ends and DoCleanUp stops the PLEG.                   *)
LoopStops ==
    /\ loop = "select" /\ cancelled
    /\ loop' = "stopping"
    /\ UNCHANGED <<env, watchV, batch, blocked, podUidMap, workerV, cacheV, plegV, cancelled>>

(* pleg.Stop has returned; the node is unregistered.                       *)
LoopEnds ==
    /\ loop = "stopping" /\ pleg = "stopped"
    /\ loop' = "ended"
    /\ UNCHANGED <<env, watchV, batch, blocked, podUidMap, workerV, cacheV, plegV, cancelled>>

-----------------------------------------------------------------------------
(* workerLoop *)

WorkerTakes(u) ==
    /\ worker[u] = "idle" /\ podUpdates[u] # <<>>
    /\ worker' = [worker EXCEPT ![u] = Head(podUpdates[u])]
    /\ podUpdates' = [podUpdates EXCEPT ![u] = Tail(@)]
    /\ UNCHANGED <<env, watchV, loopV, got, cacheV, plegV, cancelled>>

(* SyncPodCreate.  AddPod stops at the container it fails to start and     *)
(* leaves the earlier ones.                                                *)
WorkerCreates(u) ==
    /\ worker[u] = "create"
    /\ \E started \in SUBSET ContainersOf(u) :
          /\ IF started = ContainersOf(u) THEN UNCHANGED faults
             ELSE faults < scenario.faults /\ faults' = faults + 1
          /\ ctr' = [id \in Cids |-> IF id[1] = u /\ id[2] \in started THEN "running"
                                     ELSE ctr[id]]
    /\ worker' = [worker EXCEPT ![u] = "stamp"]
    /\ UNCHANGED <<scenario, assigned, apiStatus, turns, exits, watchV, loopV, podUpdates, got, cacheV,
                   plegV, cancelled>>

(* SyncPodSync, SyncPodRecreate: GetNewerThan finds a recent enough entry. *)
WorkerGetsStatus(u) ==
    /\ worker[u] \in {"sync", "recreate"}
    /\ cache[u] # None /\ fresh[u]
    /\ got' = [got EXCEPT ![u] = cache[u]]
    /\ worker' = [worker EXCEPT ![u] = IF @ = "sync" THEN "report" ELSE "restart"]
    /\ UNCHANGED <<env, watchV, loopV, podUpdates, cacheV, plegV, cancelled>>

(* Three looks, a second apart, and none: the event is dropped.            *)
WorkerGivesUp(u) ==
    /\ worker[u] \in {"sync", "recreate"}
    /\ cache[u] = None \/ ~fresh[u]
    /\ worker' = [worker EXCEPT ![u] = "idle"]
    /\ UNCHANGED <<env, watchV, loopV, podUpdates, got, cacheV, plegV, cancelled>>

(* Mutant of Phase: one exited container is enough.                        *)
PhaseAnyExited(u, status) ==
    IF Cardinality(status) # Cardinality(ContainersOf(u)) THEN None
    ELSE IF \E s \in status : s[2] = "exited" THEN "Exited"
    ELSE "Running"

(* computeApiStatus: nothing when containers are missing or in excess.     *)
(* Succeeded and Failed are one phase here.                                *)
Phase(u, status) ==
    IF Cardinality(status) # Cardinality(ContainersOf(u)) THEN None
    ELSE IF \E s \in status : s[2] = "running" THEN "Running"
    ELSE "Exited"

WorkerReports(u) ==
    /\ worker[u] = "report"
    /\ \/ /\ apiStatus' = IF Phase(u, got[u]) = None THEN apiStatus
                          ELSE [apiStatus EXCEPT ![u] = Phase(u, got[u])]
          /\ UNCHANGED faults
       \/ /\ faults < scenario.faults /\ faults' = faults + 1
          /\ UNCHANGED apiStatus
    /\ worker' = [worker EXCEPT ![u] = "stamp"]
    /\ got' = [got EXCEPT ![u] = None]
    /\ UNCHANGED <<scenario, assigned, ctr, turns, exits, watchV, loopV, podUpdates, cacheV, plegV, cancelled>>

(* RestartPod restarts the pod's containers, running or not.               *)
WorkerRestarts(u) ==
    /\ worker[u] = "restart"
    /\ ctr' = [id \in Cids |-> IF id[1] = u /\ ctr[id] # "none" THEN "running" ELSE ctr[id]]
    /\ worker' = [worker EXCEPT ![u] = "stamp"]
    /\ got' = [got EXCEPT ![u] = None]
    /\ UNCHANGED <<scenario, assigned, apiStatus, turns, exits, faults, watchV, loopV, podUpdates, cacheV,
                   plegV, cancelled>>

(* lastSyncTime = time.Now(): the cache entry is older than that.          *)
WorkerStamps(u) ==
    /\ worker[u] = "stamp"
    /\ fresh' = [fresh EXCEPT ![u] = FALSE]
    /\ worker' = [worker EXCEPT ![u] = "idle"]
    /\ UNCHANGED <<env, watchV, loopV, podUpdates, got, cache, plegV, cancelled>>

(* Mutant of WorkerKills: the containers are stopped but not removed.      *)
WorkerKillsStopsOnly(u) ==
    /\ worker[u] = "kill"
    /\ ctr' = [id \in Cids |-> IF id[1] = u /\ ctr[id] # "none" THEN "exited" ELSE ctr[id]]
    /\ worker' = [worker EXCEPT ![u] = "unlist"]
    /\ UNCHANGED <<scenario, assigned, apiStatus, turns, exits, faults, watchV, loopV, podUpdates, got,
                   cacheV, plegV, cancelled>>

(* SyncPodKill: DeletePod may fail; nobody tries again.                    *)
WorkerKills(u) ==
    /\ worker[u] = "kill"
    /\ \/ /\ ctr' = [id \in Cids |-> IF id[1] = u THEN "none" ELSE ctr[id]]
          /\ UNCHANGED faults
       \/ /\ faults < scenario.faults /\ faults' = faults + 1
          /\ UNCHANGED ctr
    /\ worker' = [worker EXCEPT ![u] = "unlist"]
    /\ UNCHANGED <<scenario, assigned, apiStatus, turns, exits, watchV, loopV, podUpdates, got, cacheV,
                   plegV, cancelled>>

(* Takes pw.lock, deletes its channel and ends.                            *)
WorkerEnds(u) ==
    /\ worker[u] = "unlist" /\ loop # "blocked"
    /\ podUpdates' = [podUpdates EXCEPT ![u] = None]
    /\ worker' = [worker EXCEPT ![u] = "none"]
    /\ UNCHANGED <<env, watchV, loopV, got, cacheV, plegV, cancelled>>

WorkerSteps(u) ==
    \/ WorkerTakes(u) \/ WorkerCreates(u) \/ WorkerGetsStatus(u) \/ WorkerGivesUp(u)
    \/ WorkerReports(u) \/ WorkerRestarts(u) \/ WorkerStamps(u) \/ WorkerKills(u)
    \/ WorkerEnds(u)

-----------------------------------------------------------------------------
(* PLEG *)

(* The present containers of a name with their states.  GetAllPods and     *)
(* GetPodStatus both group containers by the pod's name alone.             *)
OfName(nm) == {<<id, ctr[id]>> : id \in {i \in Cids : NameOf[i[1]] = nm /\ ctr[i] # "none"}}

(* GetAllPods takes the uid of a group from the first container listed.    *)
Leaders == {f \in [PodNames -> PodUids \union {None}] :
              \A nm \in PodNames :
                 IF OfName(nm) = {} THEN f[nm] = None
                 ELSE \E s \in OfName(nm) : f[nm] = s[1][1]}

StateIn(pod, id) == IF \E s \in pod : s[1] = id THEN (CHOOSE s \in pod : s[1] = id)[2] ELSE "none"

(* computeEvents, for one container of the pod.                            *)
Events(u, old, new) ==
    CASE old = new -> <<>>
      [] old # new /\ new = "running" -> <<[pod |-> u, type |-> "Started"]>>
      [] old # new /\ new = "exited"  -> <<[pod |-> u, type |-> "Died"]>>
      [] old = "exited" /\ new = "none" -> <<[pod |-> u, type |-> "Removed"]>>
      [] old = "running" /\ new = "none" ->
            <<[pod |-> u, type |-> "Died"], [pod |-> u, type |-> "Removed"]>>

Changed(old, new) ==
    {id \in Cids : StateIn(old, id) # StateIn(new, id)}

(* The first half of Relist: GetAllPods, setCurrentPods, the pods with     *)
(* events.                                                                 *)
PlegLists ==
    /\ pleg = "select"
    /\ \E leader \in Leaders :
          current' = [u \in PodUids |->
                        IF leader[NameOf[u]] = u THEN OfName(NameOf[u]) ELSE {}]
    /\ todo' = {u \in PodUids : Changed(records[u], current'[u]) # {}}
    /\ pleg' = "relist"
    /\ UNCHANGED <<env, watchV, loopV, workerV, cacheV, records, sending, eventCh, cancelled>>

(* The second half, for one pod: the cache, the record, then the events,   *)
(* container by container in map order.                                    *)
PlegUpdatesCache(u) ==
    /\ pleg = "relist" /\ sending = <<>> /\ u \in todo
    /\ todo' = todo \ {u}
    /\ IF current[u] = {} THEN cache' = [cache EXCEPT ![u] = None] /\ UNCHANGED fresh
       ELSE /\ cache' = [cache EXCEPT ![u] = OfName(NameOf[u])]
            /\ fresh' = [fresh EXCEPT ![u] = TRUE]
    /\ records' = [records EXCEPT ![u] = current[u]]
    /\ current' = [current EXCEPT ![u] = {}]
    /\ \E order \in SetToSeqs(Changed(records[u], current[u])) :
          sending' = FlattenSeq([i \in DOMAIN order |->
              Events(u, StateIn(records[u], order[i]), StateIn(current[u], order[i]))])
    /\ UNCHANGED <<env, watchV, loopV, workerV, eventCh, pleg, cancelled>>

(* updateCache fails: the record stays, the next relist finds the events.  *)
PlegFails(u) ==
    /\ pleg = "relist" /\ sending = <<>> /\ u \in todo
    /\ current[u] # {}
    /\ faults < scenario.faults /\ faults' = faults + 1
    /\ todo' = todo \ {u}
    /\ cache' = [cache EXCEPT ![u] = None]
    /\ UNCHANGED <<scenario, assigned, ctr, apiStatus, turns, exits, watchV, loopV, workerV, fresh, records,
                   current, sending, eventCh, pleg, cancelled>>

PlegSends ==
    /\ sending # <<>> /\ Len(eventCh) < EventCap
    /\ eventCh' = Append(eventCh, Head(sending))
    /\ sending' = Tail(sending)
    /\ UNCHANGED <<env, watchV, loopV, workerV, cacheV, records, current, todo, pleg, cancelled>>

PlegDone ==
    /\ pleg = "relist" /\ sending = <<>> /\ todo = {}
    /\ pleg' = "select"
    /\ current' = [u \in PodUids |-> {}]
    /\ UNCHANGED <<env, watchV, loopV, workerV, cacheV, records, todo, sending, eventCh, cancelled>>

(* Mutant of PlegStops: waits until its events have been received.         *)
PlegStopsDrained ==
    /\ pleg = "select" /\ loop = "stopping" /\ eventCh = <<>>
    /\ pleg' = "stopped"
    /\ UNCHANGED <<env, watchV, loopV, workerV, cacheV, records, current, todo, sending, eventCh,
                   cancelled>>

(* pleg.Stop has cancelled its context.                                    *)
PlegStops ==
    /\ pleg = "select" /\ loop = "stopping"
    /\ pleg' = "stopped"
    /\ UNCHANGED <<env, watchV, loopV, workerV, cacheV, records, current, todo, sending, eventCh,
                   cancelled>>

-----------------------------------------------------------------------------
World ==
    \/ \E u \in PodUids : Reassign(u)
    \/ \E id \in Cids : ContainerExits(id)
    \/ Interrupt

LoopWorks ==
    \/ LoopReceivesUpdate
    \/ \E u \in PodUids : LoopHandlesPod(u)
    \/ LoopReceivesEvent
    \/ LoopUnblocks

PlegWorks ==
    \/ PlegLists
    \/ \E u \in PodUids : PlegUpdatesCache(u) \/ PlegFails(u)
    \/ PlegSends
    \/ PlegDone

Next ==
    \/ World
    \/ WatcherPolls \/ WatcherStops
    \/ LoopWorks \/ LoopStops \/ LoopEnds
    \/ \E u \in PodUids : WorkerSteps(u)
    \/ PlegWorks \/ PlegStops

Spec == Init /\ [][Next]_vars

(* Goroutines run and timers fire.  Where a select has several ready cases *)
(* Go picks one at random, so each case is taken sooner or later: strong   *)
(* fairness.  Nothing forces the world to act, nor a call to fail.         *)
FairSpec ==
    /\ Spec
    /\ WF_vars(WatcherPolls) /\ SF_vars(WatcherStops)
    /\ SF_vars(LoopReceivesUpdate) /\ SF_vars(LoopReceivesEvent)
    /\ WF_vars(LoopWorks) /\ SF_vars(LoopStops) /\ WF_vars(LoopEnds)
    /\ \A u \in PodUids : WF_vars(WorkerSteps(u))
    /\ WF_vars(PlegWorks) /\ SF_vars(PlegStops)

-----------------------------------------------------------------------------
Works    == {"create", "kill", "sync", "recreate"}
Snapshot == SUBSET (Cids \X States)
Update   == [op : {"ADD", "DELETE"}, pods : SUBSET PodUids]
Event    == [pod : PodUids, type : {"Started", "Died", "Removed"}]

ASSUME FiniteAssumption == IsFiniteSet(PodUids) /\ IsFiniteSet(Containers)
ASSUME NoneAssumption ==
    None \notin {"Running", "Exited"} \union Update \union (PodUids \X Works) \union Seq(Works)

(* Type invariant: the kubelet's fields, channels and goroutine positions. *)
TypeOK ==
    /\ assigned \in SUBSET PodUids /\ latest \in SUBSET PodUids
    /\ ctr \in [Cids -> States]
    /\ apiStatus \in [PodUids -> {None, "Running", "Exited"}]
    /\ outbox \in Seq(Update) /\ Len(outbox) <= 2 /\ answer \in SUBSET PodUids
    /\ watcher \in {"select", "done"}
    /\ loop \in {"select", "batch", "blocked", "stopping", "ended"}
    /\ batch \in Update \union {None}
    /\ blocked \in (PodUids \X Works) \union {None}
    /\ loop = "blocked" <=> blocked # None
    /\ podUidMap \in SUBSET PodUids
    /\ \A u \in PodUids :
          IF worker[u] = "none" THEN podUpdates[u] = None
          ELSE podUpdates[u] \in Seq(Works) /\ Len(podUpdates[u]) <= QueueCap
    /\ worker \in [PodUids -> Works \union {"none", "idle", "report", "restart", "stamp", "unlist"}]
    /\ cache \in [PodUids -> Snapshot \union {None}] /\ fresh \in [PodUids -> BOOLEAN]
    /\ got \in [PodUids -> Snapshot \union {None}]
    /\ records \in [PodUids -> Snapshot] /\ current \in [PodUids -> Snapshot]
    /\ todo \in SUBSET PodUids
    /\ sending \in Seq(Event) /\ eventCh \in Seq(Event) /\ Len(eventCh) <= EventCap
    /\ pleg \in {"select", "relist", "stopped"}
    /\ cancelled \in BOOLEAN /\ scenario \in Scenarios

(* UpdatePod sends on a worker's channel with pw.lock held, and a worker   *)
(* takes pw.lock to end: the loop must never wait for room in the channel  *)
(* of a worker that will receive no more.  (It can, when a pod comes back  *)
(* to the node while its worker is killing it: turns above 2.)             *)
NoLockDeadlock ==
    loop = "blocked" => worker[blocked[1]] \notin {"kill", "unlist"}

(* computeApiStatus, the cache and the PLEG's two reads of the runtime: a  *)
(* pod that is not restarted is reported as ended only when all its        *)
(* containers have ended, however late the report.                         *)
ExitedIsFinal ==
    \A u \in PodUids \ Always : apiStatus[u] = "Exited" =>
        \A c \in ContainersOf(u) : ctr[<<u, c>>] # "running"

(* workerLoop: once a pod's worker has ended, no container of it is left   *)
(* or comes back, unless DeletePod failed.                                 *)
NoContainersWithoutWorker ==
    faults = 0 =>
        \A u \in PodUids, c \in Containers : ctr[<<u, c>>] # "none" => worker[u] # "none"

HasContainers(u) == \E c \in Containers : ctr[<<u, c>>] # "none"

(* watcher, loop and workers together: a pod the cluster places here gets  *)
(* its containers.                                                         *)
AssignedPodsStart ==
    \A u \in PodUids :
        u \in assigned ~> (HasContainers(u) \/ u \notin assigned \/ cancelled)

(* ... and loses them when the cluster takes it away.                      *)
RemovedPodsStop ==
    \A u \in PodUids :
        u \notin assigned ~> (~HasContainers(u) \/ u \in assigned \/ cancelled)

(* DoCleanUp; README 5.8: "When Kubelet exits, it will also deregister its *)
(* node".  An interrupted kubelet gets to it.                              *)
InterruptUnregisters == cancelled ~> (loop = "ended")

(* The comment in KubeletServer.Run: on SIGINT, "call cancel() and wait    *)
(* for all goroutines to end".                                             *)
AllGoroutinesEnd == cancelled ~> (loop = "ended" /\ watcher = "done")

(* README 5.1: "If the Pod's restart policy is Always, the main goroutine  *)
(* calls the RestartPod interface to attempt to restart the entire Pod".   *)
DeadContainersRestart ==
    \A u \in Always, c \in Containers :
        ctr[<<u, c>>] = "exited"
            ~> (ctr[<<u, c>>] # "exited" \/ u \notin assigned \/ cancelled)

(* README 5.1, policy None: the main goroutine recalculates the status     *)
(* "and sends it to the apiserver".                                        *)
FinalStatusReported ==
    \A u \in PodUids \ Always :
        (\A c \in ContainersOf(u) : ctr[<<u, c>>] = "exited")
            ~> (apiStatus[u] = "Exited" \/ u \notin assigned \/ cancelled)
=============================================================================
