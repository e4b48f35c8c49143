---------------------------- MODULE KubeletProofs ----------------------------
(***************************************************************************)
(* What holds of the kubelet for every set of pods and containers, every   *)
(* grouping of pods by name, every capacity of its channels and every      *)
(* number of failures.                                                     *)
(*                                                                         *)
(*   KubeletTypeCorrect    the fields, the channels and the goroutines'    *)
(*                         positions are what the code declares            *)
(*   NoOrphanContainers    containers end with their worker                *)
(*                                                                         *)
(* and, while the cluster gives and takes each pod at most once:           *)
(*                                                                         *)
(*   LoopNeverWaitsInVain  the loop never waits, pw.lock in hand, for a    *)
(*                         worker that will receive no more                *)
(*   ReportedEndIsFinal    no pod is reported as ended too early           *)
(***************************************************************************)
EXTENDS Kubelet, SequenceTheorems, TLAPS, NaturalsInduction, WellFoundedInduction, FiniteSetTheorems

(* The principle of the least number, in the form the proofs cite: an      *)
(* induction over an index goes through its least counterexample.          *)
LEMMA LeastExists ==
    ASSUME NEW S, S \subseteq Nat, S # {}
    PROVE  \E x \in S : \A y \in S : x <= y
<1> DEFINE R == {ss \in Nat \X Nat : ss[1] < ss[2]}
<1>1. R = OpToRel(<, Nat)
  BY DEF OpToRel
<1>2. IsWellFoundedOn(R, Nat)
  BY <1>1, NatLessThanWellFounded
<1> HIDE DEF R
<1>3. PICK x \in S : \A y \in S : ~ (<<y, x>> \in R)
  BY <1>2, WFMin
<1>4. \A y \in S : y < x => <<y, x>> \in R
  BY DEF R
<1>5. \A y \in S : ~ (y < x)
  BY <1>3, <1>4, Zenon
<1> QED
  BY <1>5

-----------------------------------------------------------------------------
(* Flattening the events                                                   *)

(* PLEG.Relist (pleg/pleg.go): the events of a pod are those of its        *)
(* containers one after the other, a sequence of events.                   *)
LEMMA FlattenTyped ==
    ASSUME NEW S, NEW seqs \in Seq(Seq(S))
    PROVE  FlattenSeq(seqs) \in Seq(S)
<1> DEFINE n == Len(seqs)
           Step(f, i) == IF i = 1 THEN seqs[i] ELSE f[i - 1] \o seqs[i]
           Partial(m) == \E f \in [1 .. m -> Seq(S)] : \A i \in 1 .. m : f[i] = Step(f, i)
<1>0. n \in Nat /\ \A i \in 1 .. n : seqs[i] \in Seq(S)
  OBVIOUS
<1>1. CASE n = 0
  BY <1>1 DEF FlattenSeq
<1>2. CASE n # 0
  <2> HIDE DEF n
  <2>1. \A m \in 1 .. n : Partial(m)
    <3> DEFINE bad == {m \in 1 .. n : ~ Partial(m)}
    <3> SUFFICES ASSUME bad # {} PROVE FALSE
      OBVIOUS
    <3>1. PICK m \in bad : \A k \in bad : m <= k
      <4>1. bad \subseteq Nat
        OBVIOUS
      <4> HIDE DEF bad
      <4> QED
        BY <4>1, LeastExists
    <3>2. CASE m = 1
      <4> DEFINE f == [i \in 1 .. 1 |-> seqs[1]]
      <4>1. f \in [1 .. 1 -> Seq(S)] /\ \A i \in 1 .. 1 : f[i] = Step(f, i)
        BY <1>0, <3>1
      <4> QED
        BY <3>1, <3>2, <4>1
    <3>3. CASE m # 1
      <4>1. m \in 1 .. n /\ ~ Partial(m)
        OBVIOUS
      <4>2. m - 1 \in 1 .. n /\ Partial(m - 1)
        <5> HIDE DEF Partial
        <5> QED
          BY <1>0, <3>1, <3>3, <4>1
      <4>3. PICK f \in [1 .. m - 1 -> Seq(S)] : \A i \in 1 .. m - 1 : f[i] = Step(f, i)
        BY <4>2
      <4> DEFINE g == [i \in 1 .. m |-> IF i < m THEN f[i] ELSE f[m - 1] \o seqs[m]]
      <4>4. g \in [1 .. m -> Seq(S)]
        BY <1>0, <4>1, <4>2
      <4>5. ASSUME NEW i \in 1 .. m PROVE g[i] = Step(g, i)
        <5>1. CASE i = 1
          <6>1. i \in 1 .. m - 1
            BY <3>3, <4>1, <5>1
          <6>2. f[i] = seqs[i] /\ i < m
            <7>1. f[i] = Step(f, i)
              BY <4>3, <6>1
            <7> QED
              BY <4>1, <5>1, <6>1, <7>1
          <6>3. g[i] = f[i]
            BY <6>2
          <6>4. Step(g, i) = seqs[i]
            BY <5>1
          <6> HIDE DEF g, Step
          <6> QED
            BY <6>2, <6>3, <6>4
        <5>2. CASE i # 1 /\ i < m
          <6>1. i \in 1 .. m - 1 /\ i - 1 \in 1 .. m /\ i - 1 < m
            BY <4>1, <5>2
          <6> QED
            BY <4>3, <5>2, <6>1
        <5>3. CASE i = m
          <6>1. m - 1 \in 1 .. m /\ m - 1 < m
            BY <3>3, <4>1
          <6>2. g[m - 1] = f[m - 1]
            BY <6>1
          <6>3. g[m] = f[m - 1] \o seqs[m]
            <7>1. m \in 1 .. m /\ ~ (m < m)
              BY <1>0, <4>1
            <7> QED
              BY <7>1
          <6>4. Step(g, m) = g[m - 1] \o seqs[m]
            BY <3>3
          <6> HIDE DEF g, Step
          <6> QED
            BY <5>3, <6>2, <6>3, <6>4
        <5> QED
          BY <4>1, <5>1, <5>2, <5>3
      <4> QED
        BY <4>1, <4>4, <4>5
    <3> QED
      BY <3>2, <3>3
  <2>2. PICK f \in [1 .. n -> Seq(S)] : \A i \in 1 .. n : f[i] = Step(f, i)
    <3>1. n \in 1 .. n
      BY <1>0, <1>2
    <3> QED
      BY <2>1, <3>1
  <2> DEFINE Whole(g) == [i \in 1 .. n |-> Step(g, i)]
             flatten == CHOOSE g : g = Whole(g)
  <2>3. f = Whole(f)
    BY <2>2
  <2>4. flatten = Whole(flatten)
    <3> HIDE DEF Whole
    <3> QED
      BY <2>3
  <2> HIDE DEF flatten
  <2>5. \A m \in 1 .. n : flatten[m] \in Seq(S)
    <3> DEFINE bad == {m \in 1 .. n : flatten[m] \notin Seq(S)}
    <3> SUFFICES ASSUME bad # {} PROVE FALSE
      OBVIOUS
    <3>1. PICK m \in bad : \A k \in bad : m <= k
      <4>1. bad \subseteq Nat
        OBVIOUS
      <4> HIDE DEF bad
      <4> QED
        BY <4>1, LeastExists
    <3>2. flatten[m] = Step(flatten, m)
      BY <2>4, <3>1
    <3>3. CASE m = 1
      BY <1>0, <3>1, <3>2, <3>3
    <3>4. CASE m # 1
      <4>1. m \in 1 .. n /\ flatten[m] \notin Seq(S)
        OBVIOUS
      <4>2. m - 1 \in 1 .. n /\ m - 1 \notin bad
        <5> HIDE DEF bad
        <5> QED
          BY <1>0, <3>1, <3>4, <4>1
      <4>3. flatten[m - 1] \in Seq(S) /\ seqs[m] \in Seq(S)
        BY <1>0, <4>1, <4>2
      <4>4. flatten[m] = flatten[m - 1] \o seqs[m]
        BY <3>2, <3>4
      <4> QED
        BY <4>1, <4>3, <4>4
    <3> QED
      BY <3>3, <3>4
  <2>6. FlattenSeq(seqs) = flatten[n]
    BY <1>2 DEF FlattenSeq, flatten, n
  <2> QED
    BY <1>0, <1>2, <2>5, <2>6
<1> QED
  BY <1>1, <1>2

-----------------------------------------------------------------------------
(* Types, by goroutine                                                     *)

EnvOK ==
    /\ assigned \in SUBSET PodUids
    /\ ctr \in [Cids -> States]
    /\ apiStatus \in [PodUids -> {None, "Running", "Exited"}]
    /\ turns \in [PodUids -> Nat] /\ exits \in Nat /\ faults \in Nat
    /\ cancelled \in BOOLEAN /\ scenario \in Scenarios

WatchOK ==
    /\ latest \in SUBSET PodUids /\ answer \in SUBSET PodUids
    /\ outbox \in Seq(Update) /\ Len(outbox) <= 2
    /\ watcher \in {"select", "done"}

LoopOK ==
    /\ loop \in {"select", "batch", "blocked", "stopping", "ended"}
    /\ batch \in Update \union {None}
    /\ loop = "batch" => batch # None
    /\ blocked \in (PodUids \X Works) \union {None}
    /\ loop = "blocked" <=> blocked # None
    /\ podUidMap \in SUBSET PodUids

WorkerOK ==
    /\ worker \in [PodUids -> Works \union {"none", "idle", "report", "restart", "stamp", "unlist"}]
    /\ podUpdates \in [PodUids -> Seq(Works) \union {None}]
    /\ \A u \in PodUids :
          IF worker[u] = "none" THEN podUpdates[u] = None
          ELSE podUpdates[u] \in Seq(Works) /\ Len(podUpdates[u]) <= QueueCap
    /\ got \in [PodUids -> Snapshot \union {None}]

CacheOK ==
    /\ cache \in [PodUids -> Snapshot \union {None}]
    /\ fresh \in [PodUids -> BOOLEAN]

PlegOK ==
    /\ records \in [PodUids -> Snapshot] /\ current \in [PodUids -> Snapshot]
    /\ todo \in SUBSET PodUids
    /\ sending \in Seq(Event) /\ eventCh \in Seq(Event) /\ Len(eventCh) <= EventCap
    /\ pleg \in {"select", "relist", "stopped"}

(* What TypeOK leaves out and its proof needs: the counters are numbers, a *)
(* batch under way is there, a channel is there or None.                   *)
KubeletInv == EnvOK /\ WatchOK /\ LoopOK /\ WorkerOK /\ CacheOK /\ PlegOK

(* The parts make up the type invariant.                                   *)
LEMMA KubeletInvTyped == KubeletInv => TypeOK
  BY DEF KubeletInv, EnvOK, WatchOK, LoopOK, WorkerOK, CacheOK, PlegOK, TypeOK

(* The kubelet starts with nothing (NewKubelet, NewPodWorkers, NewPLEG).   *)
LEMMA KubeletInvInit == Init => KubeletInv
<1> SUFFICES ASSUME Init PROVE KubeletInv
  OBVIOUS
<1>1. EnvOK
  BY DEF Init, EnvOK, States
<1>2. WatchOK /\ CacheOK
  BY DEF Init, WatchOK, CacheOK
<1>3. LoopOK
  BY DEF Init, LoopOK
<1>4. WorkerOK
  BY DEF Init, WorkerOK
<1>5. PlegOK
  BY CapAssumption DEF Init, PlegOK, Snapshot
<1> QED
  BY <1>1, <1>2, <1>3, <1>4, <1>5 DEF KubeletInv

(* watchApiServer (app/server.go): what a poll has to send is at most an   *)
(* addition and a deletion.                                                *)
LEMMA DifferenceTyped ==
    ASSUME NEW old \in SUBSET PodUids, NEW new \in SUBSET PodUids
    PROVE  Difference(old, new) \in Seq(Update) /\ Len(Difference(old, new)) <= 2
<1>1. [op |-> "ADD", pods |-> new \ old] \in Update /\ [op |-> "DELETE", pods |-> old \ new] \in Update
  BY DEF Update
<1> QED
  BY <1>1 DEF Difference

(* UpdatePod (pod_workers.go): the send keeps every channel within its     *)
(* capacity.                                                               *)
LEMMA SendTyped ==
    ASSUME WorkerOK, NEW u \in PodUids, NEW work \in Works, ~ Full(u, work), Send(u, work)
    PROVE  WorkerOK'
<1>1. worker' \in [PodUids -> Works \union {"none", "idle", "report", "restart", "stamp", "unlist"}]
  BY DEF Send, WorkerOK
<1>2. /\ podUpdates[u] # None => podUpdates[u] \in Seq(Works)
      /\ <<work>> \in Seq(Works)
      /\ podUpdates[u] # None => Append(podUpdates[u], work) \in Seq(Works)
  BY DEF WorkerOK
<1>3. podUpdates' \in [PodUids -> Seq(Works) \union {None}]
  BY <1>2 DEF Send, WorkerOK
<1>4. ASSUME NEW v \in PodUids
      PROVE  IF worker'[v] = "none" THEN podUpdates'[v] = None
             ELSE podUpdates'[v] \in Seq(Works) /\ Len(podUpdates'[v]) <= QueueCap
  <2>1. CASE v # u
    BY <2>1 DEF Send, WorkerOK
  <2>2. CASE v = u /\ podUpdates[u] = None
    <3>1. worker[u] = "none"
      BY <2>2, NoneAssumption DEF WorkerOK
    <3> QED
      BY <2>2, <3>1, <1>2, CapAssumption DEF Send, WorkerOK
  <2>3. CASE v = u /\ podUpdates[u] # None
    <3>1. worker[u] # "none" /\ podUpdates[u] \in Seq(Works) /\ Len(podUpdates[u]) <= QueueCap
      BY <2>3 DEF WorkerOK
    <3>2. work # "create" => Len(podUpdates[u]) < QueueCap
      BY <2>3, <3>1, CapAssumption DEF Full
    <3> QED
      BY <2>3, <3>1, <3>2, CapAssumption DEF Send, WorkerOK
  <2> QED
    BY <2>1, <2>2, <2>3
<1>5. got' \in [PodUids -> Snapshot \union {None}]
  BY DEF Send, WorkerOK
<1> QED
  BY <1>1, <1>3, <1>4, <1>5 DEF WorkerOK

(* UpdatePod, whether it sends or waits for room.                          *)
LEMMA UpdatePodTyped ==
    ASSUME WorkerOK, loop \in {"select", "batch"}, NEW u \in PodUids, NEW work \in Works,
           NEW next \in {"select", "batch"}, blocked = None, UpdatePod(u, work, next)
    PROVE  /\ WorkerOK'
           /\ blocked' \in (PodUids \X Works) \union {None}
           /\ loop' \in {"select", "batch", "blocked"}
           /\ loop' = "blocked" <=> blocked' # None
           /\ loop' = "batch" => next = "batch"
<1>1. CASE ~ Full(u, work) /\ Send(u, work) /\ loop' = next /\ UNCHANGED blocked
  <2>1. WorkerOK'
    BY <1>1, SendTyped
  <2> QED
    BY <1>1, <2>1
<1>2. CASE Full(u, work) /\ loop' = "blocked" /\ blocked' = <<u, work>> /\ UNCHANGED workerV
  <2>1. WorkerOK'
    BY <1>2 DEF WorkerOK, workerV
  <2>2. <<u, work>> # None
    BY NoneAssumption
  <2> QED
    BY <1>2, <2>1, <2>2
<1> QED
  BY <1>1, <1>2 DEF UpdatePod

(* The world: pods come and go, containers stop, an interrupt.             *)
LEMMA WorldTyped ==
    ASSUME KubeletInv, World
    PROVE  KubeletInv'
<1>1. EnvOK'
  <2>1. ASSUME NEW u \in PodUids, Reassign(u) PROVE EnvOK'
    BY <2>1 DEF KubeletInv, EnvOK, Reassign
  <2>2. ASSUME NEW id \in Cids, ContainerExits(id) PROVE EnvOK'
    BY <2>2 DEF KubeletInv, EnvOK, ContainerExits, States
  <2>3. CASE Interrupt
    BY <2>3 DEF KubeletInv, EnvOK, Interrupt, env
  <2> QED
    BY <2>1, <2>2, <2>3 DEF World
<1>2. UNCHANGED <<watchV, loopV, workerV, cacheV, plegV>>
  BY DEF World, Reassign, ContainerExits, Interrupt
<1>3. WatchOK' /\ CacheOK'
  BY <1>2 DEF KubeletInv, WatchOK, CacheOK, watchV, cacheV
<1>4. LoopOK'
  BY <1>2 DEF KubeletInv, LoopOK, loopV
<1>5. WorkerOK'
  BY <1>2 DEF KubeletInv, WorkerOK, workerV
<1>6. PlegOK'
  BY <1>2 DEF KubeletInv, PlegOK, plegV
<1> QED
  BY <1>1, <1>3, <1>4, <1>5, <1>6 DEF KubeletInv

(* The watcher: a poll, and its end.                                       *)
LEMMA WatcherTyped ==
    ASSUME KubeletInv, WatcherPolls \/ WatcherStops
    PROVE  KubeletInv'
<1>1. WatchOK'
  <2>1. CASE WatcherPolls
    <3>1. outbox' \in Seq(Update) /\ Len(outbox') <= 2
      BY <2>1, DifferenceTyped DEF KubeletInv, EnvOK, WatchOK, WatcherPolls
    <3> QED
      BY <2>1, <3>1 DEF KubeletInv, EnvOK, WatchOK, WatcherPolls
  <2>2. CASE WatcherStops
    BY <2>2 DEF KubeletInv, WatchOK, WatcherStops
  <2> QED
    BY <2>1, <2>2
<1>2. UNCHANGED <<env, loopV, workerV, cacheV, plegV, cancelled>>
  BY DEF WatcherPolls, WatcherStops
<1>3. EnvOK' /\ CacheOK'
  BY <1>2 DEF KubeletInv, EnvOK, CacheOK, env, cacheV
<1>4. LoopOK'
  BY <1>2 DEF KubeletInv, LoopOK, loopV
<1>5. WorkerOK'
  BY <1>2 DEF KubeletInv, WorkerOK, workerV
<1>6. PlegOK'
  BY <1>2 DEF KubeletInv, PlegOK, plegV
<1> QED
  BY <1>1, <1>3, <1>4, <1>5, <1>6 DEF KubeletInv

(* syncLoop (kubelet.go): the select's cases, and its end.                 *)
LEMMA LoopTyped ==
    ASSUME KubeletInv, LoopWorks \/ LoopStops \/ LoopEnds
    PROVE  KubeletInv'
<1> USE DEF KubeletInv
<1>1. EnvOK' /\ CacheOK'
  <2>1. UNCHANGED <<env, cacheV, cancelled>>
    BY DEF LoopWorks, LoopReceivesUpdate, LoopHandlesPod, LoopReceivesEvent, LoopUnblocks,
           LoopStops, LoopEnds
  <2> QED
    BY <2>1 DEF EnvOK, CacheOK, env, cacheV
<1>2. CASE LoopReceivesUpdate
  <2>1. /\ Head(outbox) \in Update /\ Tail(outbox) \in Seq(Update)
        /\ Len(Tail(outbox)) <= 2
    BY <1>2 DEF WatchOK, LoopReceivesUpdate
  <2>2. WatchOK'
    BY <1>2, <2>1 DEF WatchOK, LoopReceivesUpdate
  <2>3. LoopOK'
    BY <1>2, <2>1, NoneAssumption DEF LoopOK, LoopReceivesUpdate
  <2>4. WorkerOK' /\ PlegOK'
    BY <1>2 DEF WorkerOK, PlegOK, LoopReceivesUpdate, workerV, plegV
  <2> QED
    BY <1>1, <2>2, <2>3, <2>4
<1>3. ASSUME NEW u \in PodUids, LoopHandlesPod(u) PROVE KubeletInv'
  <2> DEFINE work == IF batch.op = "ADD" THEN "create" ELSE "kill"
             next == IF batch.pods = {u} THEN "select" ELSE "batch"
  <2>1. work \in Works /\ next \in {"select", "batch"} /\ loop = "batch" /\ blocked = None
    BY <1>3 DEF LoopHandlesPod, LoopOK, Works
  <2>2. UpdatePod(u, work, next)
    BY <1>3 DEF LoopHandlesPod
  <2> HIDE DEF work, next
  <2>3. /\ WorkerOK'
        /\ blocked' \in (PodUids \X Works) \union {None}
        /\ loop' \in {"select", "batch", "blocked"}
        /\ loop' = "blocked" <=> blocked' # None
        /\ loop' = "batch" => next = "batch"
    BY <2>1, <2>2, UpdatePodTyped
  <2>4. batch \in Update
    BY <2>1 DEF LoopOK
  <2>5. [batch EXCEPT !.pods = @ \ {u}] \in Update
    BY <2>4 DEF Update
  <2>6. batch' \in Update \union {None} /\ (next = "batch" => batch' # None)
    BY <1>3, <2>5, NoneAssumption DEF LoopHandlesPod, next
  <2>7. podUidMap' \in SUBSET PodUids
    BY <1>3 DEF LoopHandlesPod, LoopOK
  <2>8. LoopOK'
    BY <2>3, <2>6, <2>7 DEF LoopOK
  <2>9. WatchOK' /\ PlegOK'
    BY <1>3 DEF WatchOK, PlegOK, LoopHandlesPod, watchV, plegV
  <2> QED
    BY <1>1, <2>3, <2>8, <2>9
<1>4. CASE LoopReceivesEvent
  <2>1. Head(eventCh) \in Event /\ Tail(eventCh) \in Seq(Event) /\ Len(Tail(eventCh)) <= EventCap
    BY <1>4, CapAssumption DEF PlegOK, LoopReceivesEvent
  <2>2. PlegOK'
    BY <1>4, <2>1 DEF PlegOK, LoopReceivesEvent
  <2>3. WatchOK'
    BY <1>4 DEF WatchOK, LoopReceivesEvent, watchV
  <2>4. CASE Head(eventCh).pod \in podUidMap
    <3>1. WorkFor(Head(eventCh)) \in Works /\ Head(eventCh).pod \in PodUids
      BY <2>1 DEF WorkFor, Works, Event
    <3>2. loop = "select" /\ blocked = None
      BY <1>4 DEF LoopReceivesEvent, LoopOK
    <3>3. UpdatePod(Head(eventCh).pod, WorkFor(Head(eventCh)), "select")
      BY <1>4, <2>4 DEF LoopReceivesEvent
    <3>4. /\ WorkerOK'
          /\ blocked' \in (PodUids \X Works) \union {None}
          /\ loop' \in {"select", "batch", "blocked"}
          /\ loop' = "blocked" <=> blocked' # None
          /\ loop' = "batch" => FALSE
      BY <3>1, <3>2, <3>3, UpdatePodTyped
    <3>5. LoopOK'
      BY <1>4, <3>4 DEF LoopReceivesEvent, LoopOK
    <3> QED
      BY <1>1, <2>2, <2>3, <3>4, <3>5
  <2>5. CASE Head(eventCh).pod \notin podUidMap
    <3>1. LoopOK' /\ WorkerOK'
      BY <1>4, <2>5 DEF LoopReceivesEvent, LoopOK, WorkerOK, workerV
    <3> QED
      BY <1>1, <2>2, <2>3, <3>1
  <2> QED
    BY <2>4, <2>5
<1>5. CASE LoopUnblocks
  <2>1. blocked \in PodUids \X Works
    BY <1>5 DEF LoopUnblocks, LoopOK
  <2>2. WorkerOK'
    <3>1. blocked[1] \in PodUids /\ blocked[2] \in Works
      BY <2>1
    <3> QED
      BY <1>5, <3>1, SendTyped DEF LoopUnblocks
  <2>3. LoopOK'
    BY <1>5 DEF LoopUnblocks, LoopOK
  <2>4. WatchOK' /\ PlegOK'
    BY <1>5 DEF WatchOK, PlegOK, LoopUnblocks, watchV, plegV
  <2> QED
    BY <1>1, <2>2, <2>3, <2>4
<1>6. CASE LoopStops \/ LoopEnds
  <2>1. LoopOK'
    BY <1>6 DEF LoopOK, LoopStops, LoopEnds
  <2>2. WatchOK' /\ WorkerOK' /\ PlegOK'
    BY <1>6 DEF WatchOK, WorkerOK, PlegOK, LoopStops, LoopEnds, watchV, workerV, plegV
  <2> QED
    BY <1>1, <2>1, <2>2
<1> QED
  BY <1>2, <1>3, <1>4, <1>5, <1>6 DEF LoopWorks

(* workerLoop (pod_workers.go): every step of a pod's worker.              *)
LEMMA WorkerTyped ==
    ASSUME KubeletInv, NEW u \in PodUids, WorkerSteps(u)
    PROVE  KubeletInv'
<1> USE DEF KubeletInv
<1>1. WatchOK' /\ PlegOK'
  <2>1. UNCHANGED <<watchV, plegV>>
    BY DEF WorkerSteps, WorkerTakes, WorkerCreates, WorkerGetsStatus, WorkerGivesUp, WorkerReports,
           WorkerRestarts, WorkerStamps, WorkerKills, WorkerEnds
  <2> QED
    BY <2>1 DEF WatchOK, PlegOK, watchV, plegV
<1>2. LoopOK'
  <2>1. UNCHANGED loopV
    BY DEF WorkerSteps, WorkerTakes, WorkerCreates, WorkerGetsStatus, WorkerGivesUp, WorkerReports,
           WorkerRestarts, WorkerStamps, WorkerKills, WorkerEnds
  <2> QED
    BY <2>1 DEF LoopOK, loopV
<1>3. CASE WorkerTakes(u)
  <2>1. worker[u] # "none" /\ podUpdates[u] \in Seq(Works) /\ podUpdates[u] # <<>>
        /\ Len(podUpdates[u]) <= QueueCap
    BY <1>3 DEF WorkerTakes, WorkerOK
  <2>2. /\ Head(podUpdates[u]) \in Works /\ Tail(podUpdates[u]) \in Seq(Works)
        /\ Len(Tail(podUpdates[u])) <= QueueCap
    BY <2>1, CapAssumption
  <2>3. "none" \notin Works
    BY DEF Works
  <2>4. WorkerOK'
    BY <1>3, <2>2, <2>3 DEF WorkerTakes, WorkerOK
  <2>5. EnvOK' /\ CacheOK'
    BY <1>3 DEF EnvOK, CacheOK, WorkerTakes, env, cacheV
  <2> QED
    BY <1>1, <1>2, <2>4, <2>5
<1>4. CASE WorkerCreates(u)
  <2>1. ctr' \in [Cids -> States] /\ faults' \in Nat
    BY <1>4 DEF WorkerCreates, EnvOK, States
  <2>2. EnvOK' /\ CacheOK'
    BY <1>4, <2>1 DEF EnvOK, CacheOK, WorkerCreates, cacheV
  <2>3. WorkerOK'
    BY <1>4 DEF WorkerCreates, WorkerOK
  <2> QED
    BY <1>1, <1>2, <2>2, <2>3
<1>5. CASE WorkerGetsStatus(u)
  <2>1. cache[u] \in Snapshot \union {None}
    BY DEF CacheOK
  <2>2. WorkerOK'
    BY <1>5, <2>1 DEF WorkerGetsStatus, WorkerOK
  <2>3. EnvOK' /\ CacheOK'
    BY <1>5 DEF EnvOK, CacheOK, WorkerGetsStatus, env, cacheV
  <2> QED
    BY <1>1, <1>2, <2>2, <2>3
<1>6. CASE WorkerGivesUp(u)
  <2>2. WorkerOK'
    BY <1>6 DEF WorkerGivesUp, WorkerOK
  <2>3. EnvOK' /\ CacheOK'
    BY <1>6 DEF EnvOK, CacheOK, WorkerGivesUp, env, cacheV
  <2> QED
    BY <1>1, <1>2, <2>2, <2>3
<1>7. CASE WorkerReports(u)
  <2>1. Phase(u, got[u]) # None => Phase(u, got[u]) \in {"Running", "Exited"}
    BY DEF Phase
  <2>2. apiStatus' \in [PodUids -> {None, "Running", "Exited"}] /\ faults' \in Nat
    BY <1>7, <2>1 DEF WorkerReports, EnvOK
  <2>3. EnvOK' /\ CacheOK'
    BY <1>7, <2>2 DEF EnvOK, CacheOK, WorkerReports, cacheV
  <2>4. WorkerOK'
    BY <1>7 DEF WorkerReports, WorkerOK
  <2> QED
    BY <1>1, <1>2, <2>3, <2>4
<1>8. CASE WorkerRestarts(u)
  <2>1. ctr' \in [Cids -> States]
    BY <1>8 DEF WorkerRestarts, EnvOK, States
  <2>2. EnvOK' /\ CacheOK'
    BY <1>8, <2>1 DEF EnvOK, CacheOK, WorkerRestarts, cacheV
  <2>3. WorkerOK'
    BY <1>8 DEF WorkerRestarts, WorkerOK
  <2> QED
    BY <1>1, <1>2, <2>2, <2>3
<1>9. CASE WorkerStamps(u)
  <2>1. WorkerOK'
    BY <1>9 DEF WorkerStamps, WorkerOK
  <2>2. EnvOK' /\ CacheOK'
    BY <1>9 DEF EnvOK, CacheOK, WorkerStamps, env
  <2> QED
    BY <1>1, <1>2, <2>1, <2>2
<1>10. CASE WorkerKills(u)
  <2>1. ctr' \in [Cids -> States] /\ faults' \in Nat
    BY <1>10 DEF WorkerKills, EnvOK, States
  <2>2. EnvOK' /\ CacheOK'
    BY <1>10, <2>1 DEF EnvOK, CacheOK, WorkerKills, cacheV
  <2>3. WorkerOK'
    BY <1>10 DEF WorkerKills, WorkerOK
  <2> QED
    BY <1>1, <1>2, <2>2, <2>3
<1>11. CASE WorkerEnds(u)
  <2>1. WorkerOK'
    BY <1>11 DEF WorkerEnds, WorkerOK
  <2>2. EnvOK' /\ CacheOK'
    BY <1>11 DEF EnvOK, CacheOK, WorkerEnds, env, cacheV
  <2> QED
    BY <1>1, <1>2, <2>1, <2>2
<1> QED
  BY <1>3, <1>4, <1>5, <1>6, <1>7, <1>8, <1>9, <1>10, <1>11 DEF WorkerSteps

(* GetAllPods, GetPodStatus (runtime_manager.go): what a listing finds.    *)
LEMMA OfNameTyped ==
    ASSUME EnvOK, NEW nm
    PROVE  OfName(nm) \in Snapshot
  BY DEF EnvOK, OfName, Snapshot

(* computeEvents (pleg/pleg.go): a container has one state in a listing,   *)
(* and every change of it makes one or two events.                         *)
LEMMA EventsTyped ==
    ASSUME NEW u \in PodUids, NEW old \in Snapshot, NEW new \in Snapshot, NEW id
    PROVE  Events(u, StateIn(old, id), StateIn(new, id)) \in Seq(Event)
<1>1. ASSUME NEW pod \in Snapshot PROVE StateIn(pod, id) \in States
  <2>1. CASE \E s \in pod : s[1] = id
    <3> DEFINE found == CHOOSE s \in pod : s[1] = id
    <3>1. found \in pod
      BY <2>1
    <3>2. found[2] \in States
      <4> HIDE DEF found
      <4> QED
        BY <3>1 DEF Snapshot
    <3> QED
      BY <2>1, <3>2 DEF StateIn
  <2>2. CASE ~ \E s \in pod : s[1] = id
    BY <2>2 DEF StateIn, States
  <2> QED
    BY <2>1, <2>2
<1>2. StateIn(old, id) \in States /\ StateIn(new, id) \in States
  BY <1>1
<1>3. ASSUME NEW from \in States, NEW to \in States PROVE Events(u, from, to) \in Seq(Event)
  <2>1. /\ [pod |-> u, type |-> "Started"] \in Event
        /\ [pod |-> u, type |-> "Died"] \in Event
        /\ [pod |-> u, type |-> "Removed"] \in Event
    BY DEF Event
  <2>2. CASE from = to
    BY <2>2 DEF Events
  <2>3. CASE from # to /\ to = "running"
    BY <2>1, <2>3 DEF Events
  <2>4. CASE from # to /\ to = "exited"
    BY <2>1, <2>4 DEF Events
  <2>5. CASE from = "exited" /\ to = "none"
    BY <2>1, <2>5 DEF Events
  <2>6. CASE from = "running" /\ to = "none"
    BY <2>1, <2>6 DEF Events
  <2> QED
    BY <2>2, <2>3, <2>4, <2>5, <2>6 DEF States
<1> QED
  BY <1>2, <1>3

(* Relist's second half: the events of a pod, container by container.      *)
LEMMA SendingTyped ==
    ASSUME NEW u \in PodUids, NEW old \in Snapshot, NEW new \in Snapshot,
           NEW order \in SetToSeqs(Changed(old, new))
    PROVE  FlattenSeq([i \in DOMAIN order |->
                Events(u, StateIn(old, order[i]), StateIn(new, order[i]))]) \in Seq(Event)
<1> DEFINE n == Cardinality(Changed(old, new))
<1>1. IsFiniteSet(Cids)
  BY FiniteAssumption, FS_Product DEF Cids
<1>2. IsFiniteSet(Changed(old, new))
  BY <1>1, FS_Subset DEF Changed
<1>3. n \in Nat
  BY <1>2, FS_CardinalityType
<1>4. DOMAIN order = 1 .. n
  BY DEF SetToSeqs
<1> HIDE DEF n
<1>5. [i \in 1 .. n |-> Events(u, StateIn(old, order[i]), StateIn(new, order[i]))] \in Seq(Seq(Event))
  <2>1. \A i \in 1 .. n : Events(u, StateIn(old, order[i]), StateIn(new, order[i])) \in Seq(Event)
    BY EventsTyped
  <2> HIDE DEF Events
  <2> QED
    BY <1>3, <2>1
<1> QED
  BY <1>4, <1>5, FlattenTyped

(* Relist: the listing, a pod's half, its failure, the events one by one.  *)
LEMMA PlegTyped ==
    ASSUME KubeletInv, PlegWorks \/ PlegStops
    PROVE  KubeletInv'
<1> USE DEF KubeletInv
<1>1. WatchOK' /\ LoopOK' /\ WorkerOK'
  <2>1. UNCHANGED <<watchV, loopV, workerV>>
    BY DEF PlegWorks, PlegLists, PlegUpdatesCache, PlegFails, PlegSends, PlegDone, PlegStops
  <2> QED
    BY <2>1 DEF WatchOK, LoopOK, WorkerOK, watchV, loopV, workerV
<1>2. EnvOK'
  <2>1. ASSUME NEW u \in PodUids, PlegFails(u) PROVE EnvOK'
    BY <2>1 DEF PlegFails, EnvOK
  <2>2. (\E u \in PodUids : PlegFails(u)) \/ UNCHANGED <<env, cancelled>>
    BY DEF PlegWorks, PlegLists, PlegUpdatesCache, PlegSends, PlegDone, PlegStops
  <2> QED
    BY <2>1, <2>2 DEF EnvOK, env
<1>3. {} \in Snapshot
  BY DEF Snapshot
<1>4. CASE PlegLists
  <2>1. \A u \in PodUids : OfName(NameOf[u]) \in Snapshot
    BY OfNameTyped
  <2>2. current' \in [PodUids -> Snapshot]
    BY <1>3, <1>4, <2>1 DEF PlegLists
  <2>3. PlegOK' /\ CacheOK'
    BY <1>4, <2>2 DEF PlegLists, PlegOK, CacheOK, cacheV
  <2> QED
    BY <1>1, <1>2, <2>3
<1>5. ASSUME NEW u \in PodUids, PlegUpdatesCache(u) PROVE KubeletInv'
  <2>1. OfName(NameOf[u]) \in Snapshot
    BY OfNameTyped
  <2>2. CacheOK'
    BY <1>5, <2>1 DEF PlegUpdatesCache, CacheOK
  <2>3. records[u] \in Snapshot /\ current[u] \in Snapshot
    BY DEF PlegOK
  <2>4. sending' \in Seq(Event)
    BY <1>5, <2>3, SendingTyped DEF PlegUpdatesCache
  <2>5. PlegOK'
    BY <1>3, <1>5, <2>3, <2>4 DEF PlegUpdatesCache, PlegOK
  <2> QED
    BY <1>1, <1>2, <2>2, <2>5
<1>6. ASSUME NEW u \in PodUids, PlegFails(u) PROVE KubeletInv'
  <2>1. PlegOK' /\ CacheOK'
    BY <1>6 DEF PlegFails, PlegOK, CacheOK
  <2> QED
    BY <1>1, <1>2, <2>1
<1>7. CASE PlegSends
  <2>1. Head(sending) \in Event /\ Tail(sending) \in Seq(Event)
    BY <1>7 DEF PlegSends, PlegOK
  <2>2. PlegOK'
    BY <1>7, <2>1, CapAssumption DEF PlegSends, PlegOK
  <2>3. CacheOK'
    BY <1>7 DEF PlegSends, CacheOK, cacheV
  <2> QED
    BY <1>1, <1>2, <2>2, <2>3
<1>8. CASE PlegDone \/ PlegStops
  <2>1. PlegOK' /\ CacheOK'
    BY <1>3, <1>8 DEF PlegDone, PlegStops, PlegOK, CacheOK, cacheV
  <2> QED
    BY <1>1, <1>2, <2>1
<1> QED
  BY <1>4, <1>5, <1>6, <1>7, <1>8 DEF PlegWorks

(* Every goroutine keeps the types of all.                                 *)
LEMMA KubeletInvPreserved ==
    ASSUME KubeletInv, [Next]_vars
    PROVE  KubeletInv'
<1>1. CASE World
  BY <1>1, WorldTyped
<1>2. CASE WatcherPolls \/ WatcherStops
  BY <1>2, WatcherTyped
<1>3. CASE LoopWorks \/ LoopStops \/ LoopEnds
  BY <1>3, LoopTyped
<1>4. ASSUME NEW u \in PodUids, WorkerSteps(u) PROVE KubeletInv'
  BY <1>4, WorkerTyped
<1>5. CASE PlegWorks \/ PlegStops
  BY <1>5, PlegTyped
<1>6. CASE UNCHANGED vars
  BY <1>6 DEF KubeletInv, EnvOK, WatchOK, LoopOK, WorkerOK, CacheOK, PlegOK,
              vars, env, watchV, loopV, workerV, cacheV, plegV
<1> QED
  BY <1>1, <1>2, <1>3, <1>4, <1>5, <1>6 DEF Next

(* The inductive invariant the other proofs start from.                    *)
LEMMA KubeletInvHolds == Spec => []KubeletInv
<1> QED
  BY KubeletInvInit, KubeletInvPreserved, PTL DEF Spec

(* Type correctness of the kubelet: the fields, channels and positions of  *)
(* its goroutines (kubelet.go, pod_workers.go, pleg.go), whatever the      *)
(* capacities and however many calls fail.                                 *)
THEOREM KubeletTypeCorrect == Spec => []TypeOK
<1> QED
  BY KubeletInvHolds, KubeletInvTyped, PTL

-----------------------------------------------------------------------------
(* Containers end with their worker                                        *)

(* A worker that has killed its pod and has still to leave the list of     *)
(* workers (workerLoop, after SyncPodKill) has no containers either.       *)
Cleared ==
    faults = 0 =>
        \A u \in PodUids, c \in Containers :
            ctr[<<u, c>>] # "none" => worker[u] \notin {"none", "unlist"}

(* No worker ends, and no container starts, out of turn.                   *)
LEMMA ClearedPreserved ==
    ASSUME KubeletInv, KubeletInv', Cleared, [Next]_vars
    PROVE  Cleared'
<1> USE DEF Cleared, KubeletInv
<1>0. /\ worker \in [PodUids -> Works \union {"none", "idle", "report", "restart", "stamp", "unlist"}]
      /\ ctr \in [Cids -> States] /\ faults \in Nat
  BY DEF EnvOK, WorkerOK
<1>a. \A u \in PodUids, c \in Containers : <<u, c>> \in Cids
  BY DEF Cids
(* The steps that leave containers alone and let no worker end.            *)
<1>b. ASSUME UNCHANGED <<ctr, faults>>,
             \A u \in PodUids : worker[u] \notin {"none", "unlist"} => worker'[u] \notin {"none", "unlist"}
      PROVE  Cleared'
  BY <1>b
<1>c. ASSUME NEW u \in PodUids, NEW work \in Works, Send(u, work)
      PROVE  \A v \in PodUids : worker[v] \notin {"none", "unlist"} => worker'[v] \notin {"none", "unlist"}
  BY <1>0, <1>c DEF Send
<1>1. ASSUME NEW u \in PodUids, Reassign(u) PROVE Cleared'
  BY <1>1 DEF Reassign, workerV
<1>2. ASSUME NEW id \in Cids, ContainerExits(id) PROVE Cleared'
  <2>1. \A j \in Cids : ctr'[j] # "none" => ctr[j] # "none"
    BY <1>0, <1>2 DEF ContainerExits
  <2> QED
    BY <1>a, <1>2, <2>1 DEF ContainerExits, workerV
<1>3. CASE Interrupt \/ WatcherPolls \/ WatcherStops \/ LoopStops \/ LoopEnds \/ LoopReceivesUpdate
  BY <1>3 DEF Interrupt, WatcherPolls, WatcherStops, LoopStops, LoopEnds, LoopReceivesUpdate,
              env, workerV
<1>4. ASSUME NEW u \in PodUids, LoopHandlesPod(u) PROVE Cleared'
  <2>1. UNCHANGED <<ctr, faults>>
    BY <1>4 DEF LoopHandlesPod, env
  <2>2. UNCHANGED worker \/ \E work \in Works : Send(u, work)
    BY <1>4 DEF LoopHandlesPod, UpdatePod, workerV, Works
  <2> QED
    BY <1>b, <1>c, <2>1, <2>2
<1>5. CASE LoopReceivesEvent
  <2>1. UNCHANGED <<ctr, faults>>
    BY <1>5 DEF LoopReceivesEvent, env
  <2>2. Head(eventCh) \in Event
    BY <1>5 DEF LoopReceivesEvent, PlegOK
  <2>3. Head(eventCh).pod \in PodUids /\ WorkFor(Head(eventCh)) \in Works
    BY <2>2 DEF Event, WorkFor, Works
  <2>4. UNCHANGED worker \/ Send(Head(eventCh).pod, WorkFor(Head(eventCh)))
    BY <1>5 DEF LoopReceivesEvent, UpdatePod, workerV
  <2> QED
    BY <1>b, <1>c, <2>1, <2>3, <2>4
<1>6. CASE LoopUnblocks
  <2>1. UNCHANGED <<ctr, faults>>
    BY <1>6 DEF LoopUnblocks, env
  <2>2. blocked \in PodUids \X Works /\ Send(blocked[1], blocked[2])
    BY <1>6 DEF LoopUnblocks, LoopOK
  <2>3. blocked[1] \in PodUids /\ blocked[2] \in Works
    BY <2>2
  <2> QED
    BY <1>b, <1>c, <2>1, <2>2, <2>3
<1>7. ASSUME NEW u \in PodUids, WorkerSteps(u) PROVE Cleared'
  <2>1. CASE WorkerTakes(u)
    <3>1. podUpdates[u] \in Seq(Works) /\ podUpdates[u] # <<>>
      BY <2>1 DEF WorkerTakes, WorkerOK
    <3>2. Head(podUpdates[u]) \in Works
      BY <3>1
    <3> QED
      BY <1>b, <2>1, <3>2, <1>0 DEF WorkerTakes, env, Works
  <2>2. CASE WorkerCreates(u)
    <3>1. \A j \in Cids : j[1] # u => ctr'[j] = ctr[j]
      BY <1>0, <2>2 DEF WorkerCreates
    <3>2. \A v \in PodUids, c \in Containers : v # u => ctr'[<<v, c>>] = ctr[<<v, c>>]
      BY <1>a, <3>1
    <3>3. worker' = [worker EXCEPT ![u] = "stamp"] /\ (faults' = 0 => faults = 0)
      BY <1>0, <2>2 DEF WorkerCreates
    <3> QED
      BY <1>0, <3>2, <3>3
  <2>3. CASE WorkerGetsStatus(u) \/ WorkerGivesUp(u) \/ WorkerStamps(u)
    BY <1>b, <1>0, <2>3 DEF WorkerGetsStatus, WorkerGivesUp, WorkerStamps, env
  <2>4. CASE WorkerReports(u)
    BY <1>0, <2>4 DEF WorkerReports
  <2>5. CASE WorkerRestarts(u)
    <3>1. \A j \in Cids : ctr'[j] # "none" => ctr[j] # "none"
      BY <1>0, <2>5 DEF WorkerRestarts
    <3> QED
      BY <1>0, <1>a, <2>5, <3>1 DEF WorkerRestarts
  <2>6. CASE WorkerKills(u)
    <3>1. faults' = 0 => ctr' = [id \in Cids |-> IF id[1] = u THEN "none" ELSE ctr[id]] /\ faults = 0
      BY <1>0, <2>6 DEF WorkerKills
    <3>2. faults' = 0 => \A c \in Containers : ctr'[<<u, c>>] = "none"
      BY <1>a, <3>1
    <3>3. faults' = 0 => \A v \in PodUids, c \in Containers : v # u => ctr'[<<v, c>>] = ctr[<<v, c>>]
      BY <1>a, <3>1
    <3>4. worker' = [worker EXCEPT ![u] = "unlist"]
      BY <2>6 DEF WorkerKills
    <3> QED
      BY <1>0, <3>1, <3>2, <3>3, <3>4
  <2>7. CASE WorkerEnds(u)
    BY <1>0, <2>7 DEF WorkerEnds, env
  <2> QED
    BY <1>7, <2>1, <2>2, <2>3, <2>4, <2>5, <2>6, <2>7 DEF WorkerSteps
<1>8. CASE PlegWorks \/ PlegStops
  <2>1. UNCHANGED <<ctr, worker>> /\ (faults' = 0 => faults = 0)
    BY <1>0, <1>8 DEF PlegWorks, PlegLists, PlegUpdatesCache, PlegFails, PlegSends, PlegDone, PlegStops,
              env, workerV
  <2> QED
    BY <2>1
<1>9. CASE UNCHANGED vars
  BY <1>9 DEF vars, env, workerV
<1> QED
  BY <1>1, <1>2, <1>3, <1>4, <1>5, <1>6, <1>7, <1>8, <1>9 DEF Next, World, LoopWorks

(* workerLoop (pod_workers.go): a worker ends only after its containers,   *)
(* and none appears without one, unless a call has failed.                 *)
THEOREM NoOrphanContainers == Spec => []NoContainersWithoutWorker
<1>1. Init => Cleared
  BY DEF Init, Cleared, Cids
<1>2. Cleared => NoContainersWithoutWorker
  BY DEF Cleared, NoContainersWithoutWorker
<1> QED
  BY <1>1, <1>2, KubeletInvHolds, ClearedPreserved, PTL DEF Spec
-----------------------------------------------------------------------------
(* A pod that comes to the node once                                       *)

(* The scheduler maps a pod to the node, and it is taken away, at most     *)
(* once.  (README.md says what goes wrong when it comes back.)             *)
Once == \A s \in Scenarios : s.turns <= 2

(* What is left of the watcher's update is the difference it has computed, *)
(* or its deletions; and what a pod's turns say of the watcher's lists.    *)
PollInv ==
    /\ \/ outbox = <<>>
       \/ outbox = Difference(latest, answer)
       \/ /\ latest \ answer # {}
          /\ outbox = <<[op |-> "DELETE", pods |-> latest \ answer]>>
    /\ \A u \in PodUids :
          /\ turns[u] <= 2
          /\ u \in assigned <=> turns[u] = 1
          /\ u \in latest => turns[u] >= 1
          /\ outbox # <<>> /\ u \in answer => turns[u] >= 1
          /\ outbox # <<>> /\ u \in latest \ answer => turns[u] = 2

(* The cluster has taken the pod back, and the watcher knows.              *)
Gone(u) == turns[u] = 2 /\ u \notin latest /\ (outbox # <<>> => u \notin answer)

InBatch(op, u) == batch # None /\ batch.op = op /\ u \in batch.pods

Queued(u, work) ==
    podUpdates[u] # None /\ \E i \in DOMAIN podUpdates[u] : podUpdates[u][i] = work

(* The pod's worker has its deletion in its channel, or in its hands.      *)
Killing(u) == Queued(u, "kill") \/ worker[u] \in {"kill", "unlist"}

KillInv ==
    \A u \in PodUids :
        /\ InBatch("DELETE", u) => Gone(u)
        /\ Killing(u) \/ blocked = <<u, "kill">> =>
              Gone(u) /\ ~ InBatch("ADD", u) /\ ~ InBatch("DELETE", u) /\ u \notin podUidMap
        /\ Killing(u) /\ blocked # None => blocked[1] # u

(* The addition of the pod is the next update, or has been.                *)
AddComes(u) == outbox # <<>> /\ Head(outbox).op = "ADD" /\ u \in Head(outbox).pods
Known(u)    == turns[u] = 2 \/ u \in latest \/ (outbox # <<>> /\ u \in answer)
AddsOver(u) == ~ AddComes(u) /\ ~ InBatch("ADD", u) /\ Known(u)

(* A creation is the first work in its channel, its worker never created.  *)
CreateIsFirst(u) ==
    podUpdates[u] # None =>
        \A i \in DOMAIN podUpdates[u] :
            podUpdates[u][i] = "create" => i = 1 /\ worker[u] # "create"

CreateInv ==
    /\ blocked # None => blocked[2] # "create"
    /\ \A u \in PodUids :
          /\ InBatch("ADD", u) => ~ AddComes(u) /\ Known(u)
          /\ Queued(u, "create") \/ worker[u] = "create" => AddsOver(u)
          /\ CreateIsFirst(u)

(* The pod's containers have been created; they will not be again.         *)
Settled(u) == AddsOver(u) /\ ~ Queued(u, "create") /\ worker[u] # "create"

NoneRuns(u) == \A c \in Containers : ctr[<<u, c>>] # "running"

(* A status without a running container is as good as the runtime's word.  *)
Truthful(u, status) ==
    status # None =>
        /\ Settled(u)
        /\ u \notin Always /\ (\A s \in status : s[2] # "running") => NoneRuns(u)

StatusInv ==
    \A u \in PodUids :
        /\ (\E c \in Containers : ctr[<<u, c>>] # "none") \/ current[u] # {} => Settled(u)
        /\ Truthful(u, cache[u]) /\ Truthful(u, got[u])
        /\ worker[u] = "report" => got[u] # None
        /\ u \notin Always =>
              /\ apiStatus[u] = "Exited" => Settled(u) /\ NoneRuns(u)
              /\ ~ Queued(u, "recreate") /\ worker[u] \notin {"recreate", "restart"}
              /\ blocked # <<u, "recreate">>

(* The steps that touch the watcher's lists, and the cluster's.            *)
LEMMA PollSteps ==
    ASSUME [Next]_vars
    PROVE  \/ \E u \in PodUids : Reassign(u)
           \/ WatcherPolls
           \/ LoopReceivesUpdate
           \/ UNCHANGED <<assigned, turns, latest, outbox, answer>>
<1>1. CASE World \/ WatcherPolls \/ WatcherStops \/ LoopStops \/ LoopEnds \/ UNCHANGED vars
  BY <1>1 DEF World, ContainerExits, Interrupt, WatcherStops, LoopStops, LoopEnds, vars, env, watchV
<1>2. CASE LoopWorks
  BY <1>2 DEF LoopWorks, LoopHandlesPod, LoopReceivesEvent, LoopUnblocks, env, watchV
<1>3. ASSUME NEW u \in PodUids, WorkerSteps(u)
      PROVE  UNCHANGED <<assigned, turns, latest, outbox, answer>>
  BY <1>3 DEF WorkerSteps, WorkerTakes, WorkerCreates, WorkerGetsStatus, WorkerGivesUp, WorkerReports,
              WorkerRestarts, WorkerStamps, WorkerKills, WorkerEnds, env, watchV
<1>4. CASE PlegWorks \/ PlegStops
  BY <1>4 DEF PlegWorks, PlegLists, PlegUpdatesCache, PlegFails, PlegSends, PlegDone, PlegStops, env, watchV
<1> QED
  BY <1>1, <1>2, <1>3, <1>4 DEF Next

(* updateLocalPods: the update sent first, and what is left after it.      *)
LEMMA DifferenceParts ==
    ASSUME NEW old \in SUBSET PodUids, NEW new \in SUBSET PodUids, Difference(old, new) # <<>>
    PROVE  LET add    == [op |-> "ADD", pods |-> new \ old]
               delete == [op |-> "DELETE", pods |-> old \ new]
               sent   == Difference(old, new)
           IN  \/ Head(sent) = add /\ Tail(sent) = <<>> /\ new \ old # {} /\ old \ new = {}
               \/ Head(sent) = add /\ Tail(sent) = <<delete>> /\ new \ old # {} /\ old \ new # {}
               \/ Head(sent) = delete /\ Tail(sent) = <<>> /\ old \ new # {}
<1> DEFINE add == [op |-> "ADD", pods |-> new \ old]
           delete == [op |-> "DELETE", pods |-> old \ new]
<1>1. add \in Update /\ delete \in Update
  BY DEF Update
<1>2. ASSUME NEW x \in Update, NEW y \in Update
      PROVE  /\ <<>> \o <<y>> = <<y>> /\ <<x>> \o <<>> = <<x>>
             /\ Head(<<x>>) = x /\ Tail(<<x>>) = <<>>
             /\ Head(<<x>> \o <<y>>) = x /\ Tail(<<x>> \o <<y>>) = <<y>>
  <2>1. <<x>> \in Seq(Update) /\ <<y>> \in Seq(Update)
    OBVIOUS
  <2>2. <<>> \o <<y>> = <<y>> /\ <<x>> \o <<>> = <<x>>
    OBVIOUS
  <2>3. Head(<<x>>) = x /\ Tail(<<x>>) = <<>>
    OBVIOUS
  <2>4. <<x>> \o <<y>> = Append(<<x>>, y)
    BY <2>1
  <2>5. Head(Append(<<x>>, y)) = x
    BY <2>1
  <2>6. Tail(Append(<<x>>, y)) = <<y>>
    <3> DEFINE q == Append(<<x>>, y)
    <3>1. q \in Seq(Update) /\ Len(q) = 2 /\ q[2] = y
      BY <2>1
    <3> HIDE DEF q
    <3>2. Tail(q) \in Seq(Update) /\ Len(Tail(q)) = 1 /\ Tail(q)[1] = y
      <4>1. q # <<>>
        BY <3>1
      <4> QED
        BY <3>1, <4>1, HeadTailProperties
    <3>3. Len(<<y>>) = 1 /\ <<y>>[1] = y
      OBVIOUS
    <3> DEFINE t == Tail(q)
               z == <<y>>
    <3>4. t \in Seq(Update) /\ z \in Seq(Update) /\ Len(t) = 1 /\ Len(z) = 1 /\ t[1] = z[1]
      BY <2>1, <3>2, <3>3
    <3> HIDE DEF t, z
    <3>5. \A i \in 1 .. Len(t) : t[i] = z[i]
      BY <3>4
    <3>6. t = z
      BY <3>4, <3>5, SeqEqual
    <3>7. Tail(q) = <<y>>
      BY <3>6 DEF t, z
    <3> QED
      BY <3>7 DEF q
  <2> QED
    BY <2>2, <2>3, <2>4, <2>5, <2>6
<1> HIDE DEF add, delete
<1>3. /\ <<>> \o <<delete>> = <<delete>> /\ <<add>> \o <<>> = <<add>>
      /\ Head(<<add>>) = add /\ Tail(<<add>>) = <<>>
      /\ Head(<<delete>>) = delete /\ Tail(<<delete>>) = <<>>
      /\ Head(<<add>> \o <<delete>>) = add /\ Tail(<<add>> \o <<delete>>) = <<delete>>
  BY <1>1, <1>2
<1>4. Difference(old, new) = (IF new \ old # {} THEN <<add>> ELSE <<>>)
                                 \o (IF old \ new # {} THEN <<delete>> ELSE <<>>)
  BY DEF Difference, add, delete
<1>5. CASE new \ old # {} /\ old \ new # {}
  <2>1. Difference(old, new) = <<add>> \o <<delete>>
    BY <1>4, <1>5
  <2> QED
    BY <1>3, <1>5, <2>1, Zenon DEF add, delete
<1>6. CASE new \ old # {} /\ old \ new = {}
  <2>1. Difference(old, new) = <<add>>
    BY <1>3, <1>4, <1>6
  <2> QED
    BY <1>3, <1>6, <2>1, Zenon DEF add, delete
<1>7. CASE new \ old = {} /\ old \ new # {}
  <2>1. Difference(old, new) = <<delete>>
    BY <1>3, <1>4, <1>7
  <2> QED
    BY <1>3, <1>7, <2>1, Zenon DEF add, delete
<1>8. CASE new \ old = {} /\ old \ new = {}
  <2>1. Difference(old, new) = <<>> \o <<>>
    BY <1>4, <1>8
  <2>2. <<>> \o <<>> = <<>>
    OBVIOUS
  <2> QED
    BY <2>1, <2>2
<1> QED
  BY <1>5, <1>6, <1>7, <1>8, Zenon

(* The update the loop receives next, and the one it leaves.               *)
LEMMA OutboxParts ==
    ASSUME KubeletInv, PollInv, outbox # <<>>
    PROVE  LET add    == [op |-> "ADD", pods |-> answer \ latest]
               delete == [op |-> "DELETE", pods |-> latest \ answer]
           IN  \/ /\ Head(outbox) = add /\ Tail(outbox) = <<>>
                  /\ answer \ latest # {} /\ latest \ answer = {}
               \/ /\ Head(outbox) = add /\ Tail(outbox) = <<delete>>
                  /\ answer \ latest # {} /\ latest \ answer # {}
               \/ Head(outbox) = delete /\ Tail(outbox) = <<>> /\ latest \ answer # {}
<1> DEFINE delete == [op |-> "DELETE", pods |-> latest \ answer]
<1>1. CASE outbox = Difference(latest, answer)
  BY <1>1, DifferenceParts DEF KubeletInv, WatchOK
<1>2. CASE latest \ answer # {} /\ outbox = <<delete>>
  <2>1. Head(<<delete>>) = delete /\ Tail(<<delete>>) = <<>>
    OBVIOUS
  <2> QED
    BY <1>2, <2>1
<1> QED
  BY <1>1, <1>2 DEF PollInv

(* Nothing is polled, nothing mapped at the start.                         *)
LEMMA PollInvInit == Init => PollInv
  BY DEF Init, PollInv

(* A poll sends the difference of two lists, of which turns know more.     *)
LEMMA PollInvPreserved ==
    ASSUME Once, KubeletInv, PollInv, [Next]_vars
    PROVE  PollInv'
<1>0. /\ turns \in [PodUids -> Nat] /\ scenario.turns <= 2 /\ scenario.turns \in Nat
      /\ assigned \in SUBSET PodUids
  BY ScenarioAssumption DEF KubeletInv, EnvOK, Once
<1>1. ASSUME NEW u \in PodUids, Reassign(u) PROVE PollInv'
  <2>1. UNCHANGED <<latest, outbox, answer>>
    BY <1>1 DEF Reassign, watchV
  <2>2. /\ turns[u] < scenario.turns
        /\ turns' = [turns EXCEPT ![u] = @ + 1]
        /\ assigned' = IF u \in assigned THEN assigned \ {u} ELSE assigned \union {u}
    BY <1>1 DEF Reassign
  <2>3. ASSUME NEW v \in PodUids
        PROVE  /\ turns'[v] <= 2
               /\ v \in assigned' <=> turns'[v] = 1
               /\ v \in latest => turns'[v] >= 1
               /\ outbox # <<>> /\ v \in answer => turns'[v] >= 1
               /\ outbox # <<>> /\ v \in latest \ answer => turns'[v] = 2
    BY <1>0, <2>2 DEF PollInv
  <2> QED
    BY <2>1, <2>3 DEF PollInv
<1>2. CASE WatcherPolls
  <2>1. outbox = <<>> /\ outbox' = Difference(latest, assigned) /\ answer' = assigned
        /\ latest' = (IF outbox' = <<>> THEN assigned ELSE latest) /\ UNCHANGED <<turns, assigned>>
    BY <1>2 DEF WatcherPolls, env
  <2>2. outbox' = <<>> \/ outbox' = Difference(latest', answer')
    BY <2>1
  <2>3. ASSUME NEW v \in PodUids
        PROVE  /\ turns[v] <= 2
               /\ v \in assigned <=> turns[v] = 1
               /\ v \in latest' => turns[v] >= 1
               /\ v \in answer' => turns[v] >= 1
               /\ outbox' # <<>> /\ v \in latest' \ answer' => turns[v] = 2
    BY <1>0, <2>1 DEF PollInv
  <2> QED
    BY <2>1, <2>2, <2>3 DEF PollInv
<1>3. CASE LoopReceivesUpdate
  <2>1. outbox # <<>> /\ outbox' = Tail(outbox) /\ UNCHANGED <<turns, assigned, answer>>
        /\ latest' = (IF Tail(outbox) = <<>> THEN answer ELSE latest)
    BY <1>3 DEF LoopReceivesUpdate, env
  <2>2. \/ outbox' = <<>> /\ latest' = answer
        \/ /\ latest \ answer # {} /\ latest' = latest
           /\ outbox' = <<[op |-> "DELETE", pods |-> latest \ answer]>>
    BY <2>1, OutboxParts
  <2>3. ASSUME NEW v \in PodUids
        PROVE  /\ turns[v] <= 2
               /\ v \in assigned <=> turns[v] = 1
               /\ v \in latest' => turns[v] >= 1
               /\ v \in answer => turns[v] >= 1
               /\ outbox' # <<>> /\ v \in latest' \ answer => turns[v] = 2
    BY <2>1, <2>2 DEF PollInv
  <2> QED
    BY <2>1, <2>2, <2>3 DEF PollInv
<1>4. CASE UNCHANGED <<assigned, turns, latest, outbox, answer>>
  BY <1>4 DEF PollInv
<1> QED
  BY <1>1, <1>2, <1>3, <1>4, PollSteps

(* Nothing brings a pod back that has gone.                                *)
LEMMA GoneStays ==
    ASSUME Once, KubeletInv, PollInv, [Next]_vars, NEW v \in PodUids, Gone(v)
    PROVE  Gone(v)'
<1>0. turns \in [PodUids -> Nat] /\ scenario.turns <= 2 /\ scenario.turns \in Nat /\ v \notin assigned
  BY ScenarioAssumption DEF KubeletInv, EnvOK, Once, PollInv, Gone
<1>1. ASSUME NEW u \in PodUids, Reassign(u) PROVE Gone(v)'
  <2>1. u # v
    BY <1>0, <1>1 DEF Reassign, Gone
  <2> QED
    BY <1>0, <1>1, <2>1 DEF Reassign, Gone, watchV
<1>2. CASE WatcherPolls
  BY <1>0, <1>2 DEF WatcherPolls, Gone, env
<1>3. CASE LoopReceivesUpdate
  BY <1>3 DEF LoopReceivesUpdate, Gone, env
<1>4. CASE UNCHANGED <<assigned, turns, latest, outbox, answer>>
  BY <1>4 DEF Gone
<1> QED
  BY <1>1, <1>2, <1>3, <1>4, PollSteps

(* Nor is a pod added that is known and whose addition is not under way.   *)
LEMMA KnownStays ==
    ASSUME Once, KubeletInv, PollInv, [Next]_vars, NEW v \in PodUids, Known(v)
    PROVE  Known(v)' /\ (~ AddComes(v) => ~ AddComes(v)')
<1>0. /\ turns \in [PodUids -> Nat] /\ scenario.turns <= 2 /\ scenario.turns \in Nat
      /\ assigned \in SUBSET PodUids
      /\ v \in assigned <=> turns[v] = 1
      /\ v \in latest => turns[v] >= 1
      /\ turns[v] <= 2
      /\ outbox # <<>> /\ v \in latest \ answer => turns[v] = 2
  BY ScenarioAssumption DEF KubeletInv, EnvOK, Once, PollInv
<1>1. ASSUME NEW u \in PodUids, Reassign(u) PROVE Known(v)' /\ (~ AddComes(v) => ~ AddComes(v)')
  <2>1. turns[v] = 2 => turns'[v] = 2
    BY <1>0, <1>1 DEF Reassign
  <2> QED
    BY <1>1, <2>1 DEF Reassign, Known, AddComes, watchV
<1>2. CASE WatcherPolls
  <2>1. /\ outbox = <<>> /\ outbox' = Difference(latest, assigned) /\ answer' = assigned
        /\ latest' = (IF outbox' = <<>> THEN assigned ELSE latest)
        /\ turns' = turns
    BY <1>2 DEF WatcherPolls, env
  <2>2. turns[v] = 2 \/ v \in latest
    BY <2>1 DEF Known
  <2>3. v \in assigned => v \in latest
    BY <1>0, <2>2
  <2>4. Known(v)'
    BY <1>0, <2>1, <2>2 DEF Known
  <2>5. CASE outbox' # <<>>
    <3>1. \/ Head(outbox') = [op |-> "ADD", pods |-> assigned \ latest]
          \/ Head(outbox') = [op |-> "DELETE", pods |-> latest \ assigned]
      <4>1. latest \in SUBSET PodUids
        BY DEF KubeletInv, WatchOK
      <4> QED
        BY <1>0, <2>1, <2>5, <4>1, DifferenceParts
    <3>2. ~ (v \in assigned \ latest)
      BY <2>3
    <3>3. ~ AddComes(v)'
      BY <3>1, <3>2 DEF AddComes
    <3> QED
      BY <2>4, <3>3
  <2>6. CASE outbox' = <<>>
    BY <2>4, <2>6 DEF AddComes
  <2> QED
    BY <2>5, <2>6
<1>3. CASE LoopReceivesUpdate
  <2>1. /\ outbox # <<>> /\ outbox' = Tail(outbox) /\ UNCHANGED <<turns, answer>>
        /\ latest' = (IF Tail(outbox) = <<>> THEN answer ELSE latest)
    BY <1>3 DEF LoopReceivesUpdate, env
  <2>2. Known(v)'
    BY <1>0, <2>1 DEF Known
  <2>3. outbox' = <<>> \/ outbox' = <<[op |-> "DELETE", pods |-> latest \ answer]>>
    BY <2>1, OutboxParts
  <2> QED
    BY <2>2, <2>3 DEF AddComes
<1>4. CASE UNCHANGED <<assigned, turns, latest, outbox, answer>>
  BY <1>4 DEF Known, AddComes
<1> QED
  BY <1>1, <1>2, <1>3, <1>4, PollSteps

(* What a send changes in channels and hands.                              *)
LEMMA SendHands ==
    ASSUME KubeletInv, NEW u \in PodUids, NEW work \in Works, Send(u, work)
    PROVE  \A v \in PodUids :
              /\ worker'[v] = worker[v] \/ (worker[v] = "none" /\ worker'[v] = "idle")
              /\ \A w : Queued(v, w)' => Queued(v, w) \/ (v = u /\ w = work)
<1>1. \A v \in PodUids : worker'[v] = worker[v] \/ (worker[v] = "none" /\ worker'[v] = "idle")
  BY NoneAssumption DEF Send, KubeletInv, WorkerOK
<1>2. podUpdates \in [PodUids -> Seq(Works) \union {None}]
  BY DEF KubeletInv, WorkerOK
<1>3. ASSUME NEW v \in PodUids, NEW w, Queued(v, w)'
      PROVE  Queued(v, w) \/ (v = u /\ w = work)
  <2>1. PICK i \in DOMAIN podUpdates'[v] : podUpdates'[v][i] = w
    BY <1>3 DEF Queued
  <2>2. podUpdates'[v] # None
    BY <1>3 DEF Queued
  <2>3. CASE podUpdates'[v] = podUpdates[v]
    BY <2>1, <2>2, <2>3 DEF Queued
  <2>4. CASE v = u /\ podUpdates[u] = None /\ podUpdates'[u] = <<work>>
    BY <2>1, <2>4
  <2>5. CASE v = u /\ podUpdates[u] # None /\ podUpdates'[u] = Append(podUpdates[u], work)
    <3>1. podUpdates[u] \in Seq(Works)
      BY <1>2, <2>5
    <3>2. /\ DOMAIN podUpdates'[u] = 1 .. Len(podUpdates[u]) + 1
          /\ \A j \in 1 .. Len(podUpdates[u]) : podUpdates'[u][j] = podUpdates[u][j]
          /\ podUpdates'[u][Len(podUpdates[u]) + 1] = work
          /\ DOMAIN podUpdates[u] = 1 .. Len(podUpdates[u]) /\ Len(podUpdates[u]) \in Nat
      BY <2>5, <3>1
    <3>3. i \in 1 .. Len(podUpdates[u]) \/ i = Len(podUpdates[u]) + 1
      BY <2>1, <2>5, <3>2
    <3> QED
      BY <2>1, <2>5, <3>2, <3>3 DEF Queued
  <2> QED
    BY <1>2, <2>2, <2>3, <2>4, <2>5 DEF Send
<1> QED
  BY <1>1, <1>3

(* UpdatePod: the work is sent, or the loop waits for room.                *)
LEMMA UpdatePodHands ==
    ASSUME KubeletInv, NEW u \in PodUids, NEW work \in Works, NEW next, blocked = None,
           UpdatePod(u, work, next)
    PROVE  /\ \A v \in PodUids :
                 /\ worker'[v] = worker[v] \/ (worker[v] = "none" /\ worker'[v] = "idle")
                 /\ \A w : Queued(v, w)' => Queued(v, w) \/ (v = u /\ w = work)
           /\ \/ blocked' = None
              \/ /\ blocked' = <<u, work>> /\ work # "create"
                 /\ UNCHANGED <<podUpdates, worker>>
<1>1. CASE Send(u, work) /\ UNCHANGED blocked
  BY <1>1, SendHands
<1>2. CASE Full(u, work) /\ blocked' = <<u, work>> /\ UNCHANGED workerV
  <2>1. work # "create" /\ UNCHANGED <<podUpdates, worker>>
    BY <1>2 DEF Full, workerV
  <2> QED
    BY <1>2, <2>1 DEF Queued
<1> QED
  BY <1>1, <1>2 DEF UpdatePod

(* What a worker's step changes in channels and hands.                     *)
LEMMA WorkerHands ==
    ASSUME KubeletInv, NEW u \in PodUids, WorkerSteps(u)
    PROVE  /\ UNCHANGED <<batch, blocked, podUidMap>>
           /\ \A v \in PodUids : \A w : Queued(v, w)' => Queued(v, w)
           /\ \A v \in PodUids : v # u => worker'[v] = worker[v]
           /\ worker'[u] \in Works => WorkerTakes(u) /\ Queued(u, worker'[u])
           /\ worker'[u] = "unlist" => worker[u] = "kill"
           /\ worker'[u] = "restart" => worker[u] = "recreate"
           /\ worker'[u] = "report" => WorkerGetsStatus(u)
<1>0. /\ worker \in [PodUids -> Works \union {"none", "idle", "report", "restart", "stamp", "unlist"}]
      /\ podUpdates \in [PodUids -> Seq(Works) \union {None}]
  BY DEF KubeletInv, WorkerOK
<1>1. UNCHANGED <<batch, blocked, podUidMap>>
  BY DEF WorkerSteps, WorkerTakes, WorkerCreates, WorkerGetsStatus, WorkerGivesUp, WorkerReports,
         WorkerRestarts, WorkerStamps, WorkerKills, WorkerEnds, loopV
<1>2. CASE WorkerTakes(u)
  <2>1. podUpdates[u] \in Seq(Works) /\ podUpdates[u] # <<>> /\ podUpdates[u] # None
    BY <1>2, NoneAssumption DEF WorkerTakes, KubeletInv, WorkerOK
  <2>2. /\ DOMAIN podUpdates[u] = 1 .. Len(podUpdates[u])
        /\ DOMAIN Tail(podUpdates[u]) = 1 .. Len(podUpdates[u]) - 1
        /\ \A i \in 1 .. Len(podUpdates[u]) - 1 : Tail(podUpdates[u])[i] = podUpdates[u][i + 1]
        /\ Head(podUpdates[u]) = podUpdates[u][1] /\ Len(podUpdates[u]) \in Nat \ {0}
        /\ Head(podUpdates[u]) \in Works
    BY <2>1
  <2>3. ASSUME NEW v \in PodUids, NEW w, Queued(v, w)' PROVE Queued(v, w)
    <3>1. CASE v = u
      <4>1. podUpdates'[u] = Tail(podUpdates[u])
        BY <1>0, <1>2 DEF WorkerTakes
      <4>2. PICK i \in DOMAIN podUpdates'[u] : podUpdates'[u][i] = w
        BY <2>3, <3>1 DEF Queued
      <4>3. i + 1 \in DOMAIN podUpdates[u] /\ podUpdates[u][i + 1] = w
        BY <2>2, <4>1, <4>2
      <4> QED
        BY <2>1, <3>1, <4>3 DEF Queued
    <3>2. CASE v # u
      BY <1>0, <1>2, <2>3, <3>2 DEF WorkerTakes, Queued
    <3> QED
      BY <3>1, <3>2
  <2>4. worker' = [worker EXCEPT ![u] = Head(podUpdates[u])]
    BY <1>2 DEF WorkerTakes
  <2>5. Queued(u, Head(podUpdates[u]))
    BY <2>1, <2>2 DEF Queued
  <2>6. Head(podUpdates[u]) \notin {"unlist", "restart", "report"}
    BY <2>2 DEF Works
  <2> QED
    BY <1>0, <1>1, <1>2, <2>3, <2>4, <2>5, <2>6
<1>3. CASE ~ WorkerTakes(u)
  <2>1. /\ worker'[u] \notin Works
        /\ worker'[u] = "unlist" => worker[u] = "kill"
        /\ worker'[u] = "restart" => worker[u] = "recreate"
        /\ worker'[u] = "report" => WorkerGetsStatus(u)
        /\ \A v \in PodUids : v # u => worker'[v] = worker[v]
    BY <1>0, <1>3 DEF WorkerSteps, WorkerCreates, WorkerGetsStatus, WorkerGivesUp, WorkerReports,
           WorkerRestarts, WorkerStamps, WorkerKills, WorkerEnds, Works
  <2>2. podUpdates' = podUpdates \/ podUpdates' = [podUpdates EXCEPT ![u] = None]
    BY <1>3 DEF WorkerSteps, WorkerCreates, WorkerGetsStatus, WorkerGivesUp, WorkerReports,
           WorkerRestarts, WorkerStamps, WorkerKills, WorkerEnds
  <2>3. \A v \in PodUids : \A w : Queued(v, w)' => Queued(v, w)
    BY <1>0, <2>2 DEF Queued
  <2> QED
    BY <1>1, <2>1, <2>3
<1> QED
  BY <1>2, <1>3

(* The steps that touch the loop's batch, the channels and the hands.      *)
LEMMA HandSteps ==
    ASSUME [Next]_vars
    PROVE  \/ LoopWorks
           \/ \E u \in PodUids : WorkerSteps(u)
           \/ UNCHANGED <<batch, blocked, podUidMap, podUpdates, worker>>
<1>1. CASE World \/ WatcherPolls \/ WatcherStops \/ LoopStops \/ LoopEnds \/ UNCHANGED vars
  BY <1>1 DEF World, Reassign, ContainerExits, Interrupt, WatcherPolls, WatcherStops, LoopStops, LoopEnds,
              vars, loopV, workerV
<1>2. CASE PlegWorks \/ PlegStops
  BY <1>2 DEF PlegWorks, PlegLists, PlegUpdatesCache, PlegFails, PlegSends, PlegDone, PlegStops,
              loopV, workerV
<1> QED
  BY <1>1, <1>2 DEF Next

(* HandlePodAdditions, HandlePodDeletions, HandlePodLifecycleEvent: what   *)
(* the loop's step does to a pod's part of KillInv.                        *)
LEMMA KillInvPreserved ==
    ASSUME Once, KubeletInv, PollInv, KillInv, [Next]_vars
    PROVE  KillInv'
<1>1. ASSUME NEW v \in PodUids, Gone(v) PROVE Gone(v)'
  BY <1>1, GoneStays
<1>2. CASE UNCHANGED <<batch, blocked, podUidMap, podUpdates, worker>>
  BY <1>1, <1>2 DEF KillInv, InBatch, Killing, Queued
<1>3. ASSUME NEW u \in PodUids, WorkerSteps(u) PROVE KillInv'
  <2>1. UNCHANGED <<batch, blocked, podUidMap>>
    BY <1>3, WorkerHands
  <2>2. ASSUME NEW v \in PodUids, Killing(v)' PROVE Killing(v)
    <3>1. Queued(v, "kill")' => Queued(v, "kill")
      BY <1>3, WorkerHands
    <3>2. v # u => worker'[v] = worker[v]
      BY <1>3, WorkerHands
    <3>3. worker'[u] \in Works => Queued(u, worker'[u])
      BY <1>3, WorkerHands
    <3>4. worker'[u] = "unlist" => worker[u] = "kill"
      BY <1>3, WorkerHands
    <3> QED
      BY <2>2, <3>1, <3>2, <3>3, <3>4 DEF Killing, Works
  <2> QED
    BY <1>1, <2>1, <2>2 DEF KillInv, InBatch
<1>4. CASE LoopReceivesUpdate
  <2>1. /\ batch' = Head(outbox) /\ outbox # <<>> /\ loop = "select"
        /\ UNCHANGED <<podUpdates, worker, blocked, podUidMap, turns, answer>>
        /\ outbox' = Tail(outbox)
        /\ latest' = (IF Tail(outbox) = <<>> THEN answer ELSE latest)
    BY <1>4 DEF LoopReceivesUpdate, workerV, env
  <2>2. ASSUME NEW v \in PodUids PROVE Killing(v)' <=> Killing(v)
    BY <2>1 DEF Killing, Queued
  <2>3. ASSUME NEW v \in PodUids, InBatch("DELETE", v)' PROVE Gone(v)' /\ v \in latest /\ v \notin answer
    <3>1. Tail(outbox) = <<>> /\ v \in latest \ answer
      BY <2>1, <2>3, OutboxParts DEF InBatch
    <3> QED
      BY <2>1, <3>1 DEF Gone, PollInv
  <2>4. ASSUME NEW v \in PodUids, InBatch("ADD", v)' PROVE v \in answer
    BY <2>1, <2>4, OutboxParts DEF InBatch
  <2>5. ASSUME NEW v \in PodUids, Gone(v) PROVE ~ InBatch("ADD", v)' /\ ~ InBatch("DELETE", v)'
    BY <2>1, <2>3, <2>4, <2>5 DEF Gone
  <2> QED
    BY <1>1, <2>1, <2>2, <2>3, <2>5 DEF KillInv
<1>5. ASSUME NEW u \in PodUids, LoopHandlesPod(u) PROVE KillInv'
  <2> DEFINE work == IF batch.op = "ADD" THEN "create" ELSE "kill"
  <2>1. /\ u \in batch.pods /\ blocked = None /\ batch \in Update
        /\ podUidMap' = (IF batch.op = "ADD" THEN podUidMap \union {u} ELSE podUidMap \ {u})
        /\ batch' = (IF batch.pods = {u} THEN None ELSE [batch EXCEPT !.pods = @ \ {u}])
    BY <1>5 DEF LoopHandlesPod, KubeletInv, LoopOK
  <2>2. ASSUME NEW op, NEW v \in PodUids, InBatch(op, v)' PROVE InBatch(op, v) /\ v # u
    BY <2>1, <2>2, NoneAssumption DEF InBatch, Update
  <2>3. work \in Works /\ (batch.op = "ADD" <=> work = "create") /\ (batch.op = "DELETE" <=> work = "kill")
    BY <2>1 DEF Works, Update
  <2>4. UpdatePod(u, work, IF batch.pods = {u} THEN "select" ELSE "batch")
    BY <1>5 DEF LoopHandlesPod
  <2>5. /\ \A v \in PodUids :
              /\ worker'[v] = worker[v] \/ (worker[v] = "none" /\ worker'[v] = "idle")
              /\ \A w : Queued(v, w)' => Queued(v, w) \/ (v = u /\ w = work)
        /\ \/ blocked' = None
           \/ /\ blocked' = <<u, work>> /\ work # "create"
              /\ UNCHANGED <<podUpdates, worker>>
    BY <2>1, <2>3, <2>4, UpdatePodHands
  <2> HIDE DEF work
  <2>6. ASSUME NEW v \in PodUids, Killing(v)' PROVE Killing(v) \/ (v = u /\ work = "kill")
    BY <2>5, <2>6 DEF Killing
  <2>7. InBatch(batch.op, u)
    BY <2>1, NoneAssumption DEF InBatch
  <2>8. ~ Killing(u)
    BY <2>1, <2>7 DEF KillInv, Update
  <2>9. batch.op = "DELETE" => Gone(u)
    BY <2>7 DEF KillInv
  <2>10. ASSUME NEW v \in PodUids, Killing(v)' \/ blocked' = <<v, "kill">>
         PROVE  Gone(v)' /\ ~ InBatch("ADD", v)' /\ ~ InBatch("DELETE", v)' /\ v \notin podUidMap'
    <3>0. Killing(v)' \/ (v = u /\ work = "kill")
      <4>1. None # <<v, "kill">>
        BY NoneAssumption DEF Works
      <4> QED
        BY <2>5, <2>10, <4>1
    <3>1. CASE v = u /\ batch.op = "DELETE"
      BY <1>1, <2>1, <2>2, <2>9, <3>1
    <3>2. CASE v = u /\ batch.op # "DELETE"
      BY <2>3, <2>6, <2>8, <3>0, <3>2
    <3>3. CASE v # u
      <4>1. Killing(v)
        BY <2>6, <3>0, <3>3
      <4> QED
        BY <1>1, <2>1, <2>2, <3>3, <4>1 DEF KillInv
    <3> QED
      BY <3>1, <3>2, <3>3
  <2>11. ASSUME NEW v \in PodUids, Killing(v)', blocked' # None PROVE blocked'[1] # v
    <3>1. blocked' = <<u, work>> /\ UNCHANGED <<podUpdates, worker>>
      BY <2>5, <2>11
    <3>2. Killing(v)
      BY <2>11, <3>1 DEF Killing, Queued
    <3> QED
      BY <2>8, <3>1, <3>2
  <2> QED
    BY <1>1, <2>2, <2>10, <2>11 DEF KillInv
<1>6. CASE LoopReceivesEvent
  <2> DEFINE u == Head(eventCh).pod
             work == WorkFor(Head(eventCh))
  <2>1. /\ u \in podUidMap =>
              UpdatePod(u, work, "select")
        /\ u \notin podUidMap => UNCHANGED <<blocked, podUpdates, worker>>
        /\ UNCHANGED <<batch, podUidMap>>
        /\ blocked = None
    BY <1>6 DEF LoopReceivesEvent, workerV, KubeletInv, LoopOK
  <2>2. Head(eventCh) \in Event
    BY <1>6 DEF LoopReceivesEvent, KubeletInv, PlegOK
  <2>3. u \in PodUids /\ work \in Works /\ work \in {"sync", "recreate"}
    BY <2>2 DEF Event, WorkFor, Works
  <2> HIDE DEF u, work
  <2>4. CASE u \in podUidMap
    <3>1. /\ \A v \in PodUids :
                /\ worker'[v] = worker[v] \/ (worker[v] = "none" /\ worker'[v] = "idle")
                /\ \A w : Queued(v, w)' => Queued(v, w) \/ (v = u /\ w = work)
          /\ \/ blocked' = None
             \/ /\ blocked' = <<u, work>> /\ work # "create"
                /\ UNCHANGED <<podUpdates, worker>>
      BY <2>1, <2>3, <2>4, UpdatePodHands
    <3>2. ASSUME NEW v \in PodUids, Killing(v)' PROVE Killing(v)
      BY <2>3, <3>1, <3>2 DEF Killing
    <3>3. ~ Killing(u)
      BY <2>3, <2>4 DEF KillInv
    <3>4. \A v \in PodUids : blocked' # <<v, "kill">>
      BY <2>3, <3>1, NoneAssumption DEF Works
    <3>5. ASSUME NEW v \in PodUids, Killing(v)', blocked' # None PROVE blocked'[1] # v
      BY <3>1, <3>2, <3>3, <3>5
    <3> QED
      BY <1>1, <2>1, <3>2, <3>4, <3>5 DEF KillInv, InBatch
  <2>5. CASE u \notin podUidMap
    BY <1>2, <2>1, <2>5
  <2> QED
    BY <2>4, <2>5
<1>7. CASE LoopUnblocks
  <2>1. /\ blocked \in PodUids \X Works /\ Send(blocked[1], blocked[2]) /\ blocked' = None
        /\ UNCHANGED <<batch, podUidMap>>
    BY <1>7 DEF LoopUnblocks, KubeletInv, LoopOK
  <2>2. blocked[1] \in PodUids /\ blocked[2] \in Works /\ blocked = <<blocked[1], blocked[2]>>
    BY <2>1
  <2>3. \A v \in PodUids :
              /\ worker'[v] = worker[v] \/ (worker[v] = "none" /\ worker'[v] = "idle")
              /\ \A w : Queued(v, w)' => Queued(v, w) \/ (v = blocked[1] /\ w = blocked[2])
    BY <2>1, <2>2, SendHands
  <2>4. ASSUME NEW v \in PodUids, Killing(v)' PROVE Killing(v) \/ blocked = <<v, "kill">>
    BY <2>2, <2>3, <2>4 DEF Killing
  <2>5. \A v \in PodUids : None # <<v, "kill">>
    BY NoneAssumption DEF Works
  <2> QED
    BY <1>1, <2>1, <2>4, <2>5 DEF KillInv, InBatch
<1> QED
  BY <1>2, <1>3, <1>4, <1>5, <1>6, <1>7, HandSteps DEF LoopWorks

(* UpdatePod, workerLoop (pod_workers.go): while a pod comes to the node   *)
(* at most once, the loop never waits, with pw.lock held, for a worker     *)
(* that will receive no more.                                              *)
THEOREM LoopNeverWaitsInVain ==
    ASSUME Once
    PROVE  Spec => []NoLockDeadlock
<1>1. Init => PollInv /\ KillInv
  BY PollInvInit, NoneAssumption DEF Init, KillInv, InBatch, Killing, Queued, Works
<1>2. KubeletInv /\ KillInv => NoLockDeadlock
  <2>1. ASSUME KubeletInv, KillInv, loop = "blocked" PROVE worker[blocked[1]] \notin {"kill", "unlist"}
    <3>1. blocked \in PodUids \X Works /\ blocked # None
      BY <2>1, NoneAssumption DEF KubeletInv, LoopOK
    <3>2. blocked[1] \in PodUids
      BY <3>1
    <3> QED
      BY <2>1, <3>1, <3>2 DEF KillInv, Killing
  <2> QED
    BY <2>1 DEF NoLockDeadlock
<1>3. KubeletInv /\ PollInv /\ KillInv /\ [Next]_vars => PollInv' /\ KillInv'
  BY PollInvPreserved, KillInvPreserved
<1> QED
  BY <1>1, <1>2, <1>3, KubeletInvHolds, PTL DEF Spec

-----------------------------------------------------------------------------
(* A pod's containers are created once                                     *)

(* Where a worker's work comes from: the loop's batch, an event, the send  *)
(* that was waiting, the channel.                                          *)
LEMMA WorkSources ==
    ASSUME KubeletInv, [Next]_vars, NEW v \in PodUids
    PROVE  /\ \A w : Queued(v, w)' =>
                 \/ Queued(v, w) \/ blocked = <<v, w>>
                 \/ w = "create" /\ InBatch("ADD", v) /\ ~ InBatch("ADD", v)'
                 \/ w = "kill"
                 \/ w = "sync" \/ (w = "recreate" /\ v \in Always)
           /\ blocked' = <<v, "recreate">> => blocked = <<v, "recreate">> \/ v \in Always
           /\ worker'[v] \in Works => worker'[v] = worker[v] \/ Queued(v, worker'[v])
           /\ worker'[v] = "restart" => worker[v] \in {"recreate", "restart"}
           /\ worker'[v] = "report" => worker[v] = "report" \/ WorkerGetsStatus(v)
<1> DEFINE Goal == /\ \A w : Queued(v, w)' =>
                         \/ Queued(v, w) \/ blocked = <<v, w>>
                         \/ w = "create" /\ InBatch("ADD", v) /\ ~ InBatch("ADD", v)'
                         \/ w = "kill"
                         \/ w = "sync" \/ (w = "recreate" /\ v \in Always)
                   /\ blocked' = <<v, "recreate">> => blocked = <<v, "recreate">> \/ v \in Always
                   /\ worker'[v] \in Works => worker'[v] = worker[v] \/ Queued(v, worker'[v])
                   /\ worker'[v] = "restart" => worker[v] \in {"recreate", "restart"}
                   /\ worker'[v] = "report" => worker[v] = "report" \/ WorkerGetsStatus(v)
<1>0. None # <<v, "recreate">> /\ "idle" \notin Works
  BY NoneAssumption DEF Works
<1>1. CASE UNCHANGED <<batch, blocked, podUidMap, podUpdates, worker>>
  <2> HIDE DEF WorkerGetsStatus
  <2> QED
    BY <1>1 DEF Queued
<1>2. ASSUME NEW u \in PodUids, WorkerSteps(u) PROVE Goal
  <2>1. /\ UNCHANGED <<batch, blocked, podUidMap>>
        /\ \A w : Queued(v, w)' => Queued(v, w)
        /\ v # u => worker'[v] = worker[v]
        /\ worker'[u] \in Works => Queued(u, worker'[u])
        /\ worker'[u] = "restart" => worker[u] = "recreate"
        /\ worker'[u] = "report" => WorkerGetsStatus(u)
    BY <1>2, WorkerHands
  <2> QED
    BY <2>1
<1>3. CASE LoopReceivesUpdate
  <2>1. UNCHANGED <<blocked, podUpdates, worker>>
    BY <1>3 DEF LoopReceivesUpdate, workerV
  <2> QED
    BY <2>1 DEF Queued
<1>4. ASSUME NEW u \in PodUids, LoopHandlesPod(u) PROVE Goal
  <2> DEFINE work == IF batch.op = "ADD" THEN "create" ELSE "kill"
  <2>1. /\ u \in batch.pods /\ blocked = None /\ batch \in Update
        /\ UpdatePod(u, work, IF batch.pods = {u} THEN "select" ELSE "batch")
    BY <1>4 DEF LoopHandlesPod, KubeletInv, LoopOK
  <2>2. work \in {"create", "kill"} /\ work \in Works /\ (work = "create" => InBatch("ADD", u))
    BY <2>1, NoneAssumption DEF Works, InBatch
  <2>4. ~ InBatch("ADD", u)'
    BY <1>4, <2>1, NoneAssumption DEF LoopHandlesPod, InBatch, Update
  <2> HIDE DEF work
  <2>3. /\ \A x \in PodUids :
              /\ worker'[x] = worker[x] \/ (worker[x] = "none" /\ worker'[x] = "idle")
              /\ \A w : Queued(x, w)' => Queued(x, w) \/ (x = u /\ w = work)
        /\ blocked' = None \/ blocked' = <<u, work>>
    BY <2>1, <2>2, UpdatePodHands
  <2> QED
    BY <1>0, <2>2, <2>3, <2>4
<1>5. CASE LoopReceivesEvent
  <2> DEFINE u == Head(eventCh).pod
             work == WorkFor(Head(eventCh))
  <2>1. /\ u \in podUidMap => UpdatePod(u, work, "select")
        /\ u \notin podUidMap => UNCHANGED <<batch, blocked, podUidMap, podUpdates, worker>>
        /\ blocked = None
    BY <1>5 DEF LoopReceivesEvent, workerV, KubeletInv, LoopOK
  <2>2. Head(eventCh) \in Event
    BY <1>5 DEF LoopReceivesEvent, KubeletInv, PlegOK
  <2>3. u \in PodUids /\ work \in Works /\ (work = "sync" \/ (work = "recreate" /\ u \in Always))
    BY <2>2 DEF Event, WorkFor, Works
  <2> HIDE DEF u, work
  <2>4. CASE u \in podUidMap
    <3>1. /\ \A x \in PodUids :
                /\ worker'[x] = worker[x] \/ (worker[x] = "none" /\ worker'[x] = "idle")
                /\ \A w : Queued(x, w)' => Queued(x, w) \/ (x = u /\ w = work)
          /\ blocked' = None \/ blocked' = <<u, work>>
      BY <2>1, <2>3, <2>4, UpdatePodHands
    <3> QED
      BY <1>0, <2>3, <3>1
  <2>5. CASE u \notin podUidMap
    BY <1>1, <2>1, <2>5
  <2> QED
    BY <2>4, <2>5
<1>6. CASE LoopUnblocks
  <2>1. /\ blocked \in PodUids \X Works /\ Send(blocked[1], blocked[2]) /\ blocked' = None
    BY <1>6 DEF LoopUnblocks, KubeletInv, LoopOK
  <2>2. blocked[1] \in PodUids /\ blocked[2] \in Works /\ blocked = <<blocked[1], blocked[2]>>
    BY <2>1
  <2>3. /\ worker'[v] = worker[v] \/ (worker[v] = "none" /\ worker'[v] = "idle")
        /\ \A w : Queued(v, w)' => Queued(v, w) \/ (v = blocked[1] /\ w = blocked[2])
    BY <2>1, <2>2, SendHands
  <2>4. \A w : Queued(v, w)' => Queued(v, w) \/ blocked = <<v, w>>
    BY <2>2, <2>3
  <2> QED
    BY <1>0, <2>1, <2>3, <2>4
<1> QED
  BY <1>1, <1>2, <1>3, <1>4, <1>5, <1>6, HandSteps DEF LoopWorks

(* An addition reaches the loop from the watcher.                          *)
LEMMA BatchSources ==
    ASSUME KubeletInv, [Next]_vars, NEW v \in PodUids, InBatch("ADD", v)'
    PROVE  InBatch("ADD", v) \/ (LoopReceivesUpdate /\ AddComes(v))
<1>1. CASE UNCHANGED batch
  BY <1>1 DEF InBatch
<1>2. CASE LoopReceivesUpdate
  BY <1>2 DEF LoopReceivesUpdate, InBatch, AddComes
<1>3. ASSUME NEW u \in PodUids, LoopHandlesPod(u) PROVE InBatch("ADD", v)
  BY <1>3, NoneAssumption DEF LoopHandlesPod, InBatch, KubeletInv, LoopOK, Update
<1>4. CASE LoopReceivesEvent \/ LoopUnblocks
  BY <1>1, <1>4 DEF LoopReceivesEvent, LoopUnblocks
<1>5. ASSUME NEW u \in PodUids, WorkerSteps(u) PROVE UNCHANGED batch
  BY <1>5, WorkerHands
<1> QED
  BY <1>1, <1>2, <1>3, <1>4, <1>5, HandSteps DEF LoopWorks

(* After its one addition a pod is not added again.                        *)
LEMMA AddsOverStays ==
    ASSUME Once, KubeletInv, PollInv, [Next]_vars, NEW v \in PodUids, AddsOver(v)
    PROVE  AddsOver(v)'
  BY KnownStays, BatchSources DEF AddsOver

(* UpdatePod gives a worker its creation first, and only then.             *)
LEMMA CreateFirst ==
    ASSUME KubeletInv, [Next]_vars, NEW v \in PodUids, CreateIsFirst(v)
    PROVE  CreateIsFirst(v)'
<1> USE DEF CreateIsFirst
<1>0. /\ worker \in [PodUids -> Works \union {"none", "idle", "report", "restart", "stamp", "unlist"}]
      /\ podUpdates \in [PodUids -> Seq(Works) \union {None}]
  BY DEF KubeletInv, WorkerOK
<1>1. ASSUME NEW u \in PodUids, NEW work \in Works, Send(u, work) PROVE CreateIsFirst(v)'
  <2>1. CASE podUpdates'[v] = podUpdates[v]
    <3>1. worker'[v] = worker[v] \/ worker'[v] = "idle"
      BY <1>0, <1>1 DEF Send
    <3> QED
      BY <2>1, <3>1
  <2>2. CASE v = u /\ podUpdates[u] = None /\ podUpdates'[u] = <<"create">> /\ worker'[u] = "idle"
    BY <2>2
  <2>3. CASE v = u /\ podUpdates[u] # None /\ work # "create" /\ podUpdates'[u] = Append(podUpdates[u], work)
    <3>1. podUpdates[u] \in Seq(Works)
      BY <1>0, <2>3
    <3>2. /\ DOMAIN podUpdates'[u] = 1 .. Len(podUpdates[u]) + 1
          /\ \A j \in 1 .. Len(podUpdates[u]) : podUpdates'[u][j] = podUpdates[u][j]
          /\ podUpdates'[u][Len(podUpdates[u]) + 1] = work
          /\ DOMAIN podUpdates[u] = 1 .. Len(podUpdates[u]) /\ Len(podUpdates[u]) \in Nat
      BY <2>3, <3>1
    <3>3. worker'[u] = worker[u]
      BY <1>0, <1>1, <2>3 DEF Send
    <3>4. ASSUME NEW i \in DOMAIN podUpdates'[u], podUpdates'[u][i] = "create"
          PROVE  i \in DOMAIN podUpdates[u] /\ podUpdates[u][i] = "create"
      BY <2>3, <3>2, <3>4
    <3> QED
      BY <2>3, <3>3, <3>4
  <2> QED
    BY <1>0, <1>1, <2>1, <2>2, <2>3 DEF Send
<1>2. CASE UNCHANGED <<podUpdates, worker>>
  BY <1>2
<1>3. ASSUME NEW u \in PodUids, WorkerSteps(u) PROVE CreateIsFirst(v)'
  <2>1. CASE v # u
    <3>1. worker'[v] = worker[v]
      BY <1>3, <2>1, WorkerHands
    <3>2. podUpdates'[v] = podUpdates[v]
      BY <1>0, <1>3, <2>1 DEF WorkerSteps, WorkerTakes, WorkerCreates, WorkerGetsStatus, WorkerGivesUp,
           WorkerReports, WorkerRestarts, WorkerStamps, WorkerKills, WorkerEnds
    <3> QED
      BY <3>1, <3>2
  <2>2. CASE v = u /\ WorkerTakes(u)
    <3>1. podUpdates[u] \in Seq(Works) /\ podUpdates[u] # <<>> /\ podUpdates[u] # None
      BY <2>2, NoneAssumption DEF WorkerTakes, KubeletInv, WorkerOK
    <3>2. /\ DOMAIN podUpdates[u] = 1 .. Len(podUpdates[u])
          /\ DOMAIN Tail(podUpdates[u]) = 1 .. Len(podUpdates[u]) - 1
          /\ \A i \in 1 .. Len(podUpdates[u]) - 1 : Tail(podUpdates[u])[i] = podUpdates[u][i + 1]
          /\ Len(podUpdates[u]) \in Nat \ {0}
      BY <3>1
    <3>3. podUpdates'[u] = Tail(podUpdates[u])
      BY <1>0, <2>2 DEF WorkerTakes
    <3>4. ASSUME NEW i \in DOMAIN podUpdates'[u] PROVE podUpdates'[u][i] # "create"
      <4>1. i + 1 \in DOMAIN podUpdates[u] /\ i + 1 # 1 /\ podUpdates'[u][i] = podUpdates[u][i + 1]
        BY <3>2, <3>3
      <4> QED
        BY <2>2, <3>1, <4>1
    <3> QED
      BY <2>2, <3>4
  <2>3. CASE v = u /\ ~ WorkerTakes(u)
    <3>1. worker'[u] # "create"
      BY <1>3, <2>3, WorkerHands DEF Works
    <3>2. podUpdates'[u] = podUpdates[u] \/ podUpdates'[u] = None
      BY <1>0, <1>3, <2>3 DEF WorkerSteps, WorkerCreates, WorkerGetsStatus, WorkerGivesUp,
           WorkerReports, WorkerRestarts, WorkerStamps, WorkerKills, WorkerEnds
    <3> QED
      BY <2>3, <3>1, <3>2
  <2> QED
    BY <2>1, <2>2, <2>3
<1>4. ASSUME NEW u \in PodUids, LoopHandlesPod(u) PROVE CreateIsFirst(v)'
  <2>1. UNCHANGED <<podUpdates, worker>> \/ \E work \in Works : Send(u, work)
    BY <1>4 DEF LoopHandlesPod, UpdatePod, workerV, Works
  <2> QED
    BY <1>1, <1>2, <2>1
<1>5. CASE LoopReceivesEvent
  <2>1. Head(eventCh) \in Event
    BY <1>5 DEF LoopReceivesEvent, KubeletInv, PlegOK
  <2>2. Head(eventCh).pod \in PodUids /\ WorkFor(Head(eventCh)) \in Works
    BY <2>1 DEF Event, WorkFor, Works
  <2>3. UNCHANGED <<podUpdates, worker>> \/ Send(Head(eventCh).pod, WorkFor(Head(eventCh)))
    BY <1>5 DEF LoopReceivesEvent, UpdatePod, workerV
  <2> QED
    BY <1>1, <1>2, <2>2, <2>3
<1>6. CASE LoopReceivesUpdate
  BY <1>2, <1>6 DEF LoopReceivesUpdate, workerV
<1>7. CASE LoopUnblocks
  <2>1. blocked \in PodUids \X Works /\ Send(blocked[1], blocked[2])
    BY <1>7 DEF LoopUnblocks, KubeletInv, LoopOK
  <2>2. blocked[1] \in PodUids /\ blocked[2] \in Works
    BY <2>1
  <2> QED
    BY <1>1, <2>1, <2>2
<1> QED
  BY <1>2, <1>3, <1>4, <1>5, <1>6, <1>7, HandSteps DEF LoopWorks

(* A pod whose creation is on its way is not added again.                  *)
LEMMA CreateInvPreserved ==
    ASSUME Once, KubeletInv, PollInv, CreateInv, [Next]_vars
    PROVE  CreateInv'
<1>1. blocked' # None => blocked'[2] # "create"
  <2>1. CASE UNCHANGED blocked
    BY <2>1 DEF CreateInv
  <2>2. ASSUME NEW u \in PodUids, LoopHandlesPod(u) PROVE blocked' # None => blocked'[2] # "create"
    <3>1. UNCHANGED blocked
          \/ \E work \in Works : Full(u, work) /\ blocked' = <<u, work>>
      BY <2>2 DEF LoopHandlesPod, UpdatePod, Works
    <3> QED
      BY <3>1 DEF CreateInv, Full
  <2>3. CASE LoopReceivesEvent
    <3>1. UNCHANGED blocked \/ blocked' = <<Head(eventCh).pod, WorkFor(Head(eventCh))>>
      BY <2>3 DEF LoopReceivesEvent, UpdatePod
    <3> QED
      BY <3>1 DEF CreateInv, WorkFor
  <2>4. CASE LoopReceivesUpdate \/ LoopUnblocks
    BY <2>1, <2>4 DEF LoopReceivesUpdate, LoopUnblocks
  <2>5. ASSUME NEW u \in PodUids, WorkerSteps(u) PROVE UNCHANGED blocked
    BY <2>5, WorkerHands
  <2> QED
    BY <2>1, <2>2, <2>3, <2>4, <2>5, HandSteps DEF LoopWorks
<1>2. ASSUME NEW v \in PodUids, InBatch("ADD", v)' PROVE ~ AddComes(v)' /\ Known(v)'
  <2>1. CASE InBatch("ADD", v)
    BY <2>1, KnownStays DEF CreateInv
  <2>2. CASE LoopReceivesUpdate /\ AddComes(v)
    <3>1. /\ outbox # <<>> /\ outbox' = Tail(outbox) /\ answer' = answer
          /\ latest' = (IF Tail(outbox) = <<>> THEN answer ELSE latest)
      BY <2>2 DEF LoopReceivesUpdate
    <3>2. v \in answer
      BY <2>2, <3>1, OutboxParts DEF AddComes
    <3>3. outbox' = <<>> \/ outbox' = <<[op |-> "DELETE", pods |-> latest \ answer]>>
      BY <3>1, OutboxParts
    <3>4. Known(v)'
      BY <3>1, <3>2 DEF Known
    <3> QED
      BY <3>3, <3>4 DEF AddComes
  <2> QED
    BY <1>2, <2>1, <2>2, BatchSources
<1>3. ASSUME NEW v \in PodUids, Queued(v, "create")' \/ worker'[v] = "create" PROVE AddsOver(v)'
  <2>1. \/ Queued(v, "create") \/ worker[v] = "create"
        \/ InBatch("ADD", v) /\ ~ InBatch("ADD", v)'
    <3>1. "create" \in Works
      BY DEF Works
    <3>2. blocked # <<v, "create">>
      BY <3>1, NoneAssumption DEF CreateInv
    <3>3. Queued(v, "create")' =>
            Queued(v, "create") \/ (InBatch("ADD", v) /\ ~ InBatch("ADD", v)')
      BY <3>2, WorkSources
    <3>4. worker'[v] = "create" => worker[v] = "create" \/ Queued(v, "create")
      BY <3>1, WorkSources
    <3> QED
      BY <1>3, <3>3, <3>4
  <2>2. CASE Queued(v, "create") \/ worker[v] = "create"
    BY <2>2, AddsOverStays DEF CreateInv
  <2>3. CASE InBatch("ADD", v) /\ ~ InBatch("ADD", v)'
    BY <2>3, KnownStays DEF CreateInv, AddsOver
  <2> QED
    BY <2>1, <2>2, <2>3
<1>4. ASSUME NEW v \in PodUids PROVE CreateIsFirst(v)'
  BY CreateFirst DEF CreateInv
<1> QED
  BY <1>1, <1>2, <1>3, <1>4 DEF CreateInv

(* Containers that have been created are not created again.                *)
LEMMA SettledStays ==
    ASSUME Once, KubeletInv, PollInv, CreateInv, [Next]_vars, NEW v \in PodUids, Settled(v)
    PROVE  Settled(v)'
<1>0. "create" \in Works /\ blocked # <<v, "create">>
  BY NoneAssumption DEF CreateInv, Works
<1>1. AddsOver(v)'
  BY AddsOverStays DEF Settled
<1>2. Queued(v, "create")' => Queued(v, "create") \/ InBatch("ADD", v)
  BY <1>0, WorkSources
<1>3. worker'[v] = "create" => worker[v] = "create" \/ Queued(v, "create")
  BY <1>0, WorkSources
<1> QED
  BY <1>1, <1>2, <1>3 DEF Settled, AddsOver

(* The steps that touch the containers.                                    *)
LEMMA ContainerSteps ==
    ASSUME KubeletInv, [Next]_vars, NEW v \in PodUids, NEW c \in Containers
    PROVE  \/ ctr'[<<v, c>>] = ctr[<<v, c>>]
           \/ ctr'[<<v, c>>] = "exited" /\ ctr[<<v, c>>] = "running"
           \/ ctr'[<<v, c>>] = "none"
           \/ WorkerCreates(v)
           \/ WorkerRestarts(v) /\ ctr[<<v, c>>] # "none"
<1>0. <<v, c>> \in Cids /\ ctr \in [Cids -> States]
  BY DEF Cids, KubeletInv, EnvOK
<1> DEFINE Kept == ctr'[<<v, c>>] = ctr[<<v, c>>]
<1>1. CASE World
  BY <1>0, <1>1 DEF World, Reassign, ContainerExits, Interrupt, env
<1>2. CASE WatcherPolls \/ WatcherStops \/ LoopStops \/ LoopEnds \/ UNCHANGED vars
  BY <1>2 DEF WatcherPolls, WatcherStops, LoopStops, LoopEnds, vars, env
<1>3. CASE LoopWorks
  BY <1>3 DEF LoopWorks, LoopReceivesUpdate, LoopHandlesPod, LoopReceivesEvent, LoopUnblocks, env
<1>4. ASSUME NEW u \in PodUids, WorkerSteps(u), u # v
      PROVE  Kept \/ ctr'[<<v, c>>] = "none"
  BY <1>0, <1>4 DEF WorkerSteps, WorkerTakes, WorkerCreates, WorkerGetsStatus, WorkerGivesUp,
           WorkerReports, WorkerRestarts, WorkerStamps, WorkerKills, WorkerEnds, env
<1>5. ASSUME WorkerSteps(v)
      PROVE  Kept \/ ctr'[<<v, c>>] = "none" \/ WorkerCreates(v)
             \/ (WorkerRestarts(v) /\ ctr[<<v, c>>] # "none")
  <2>1. CASE WorkerKills(v) \/ WorkerRestarts(v)
    BY <1>0, <2>1 DEF WorkerKills, WorkerRestarts
  <2>2. CASE WorkerTakes(v) \/ WorkerGetsStatus(v) \/ WorkerGivesUp(v) \/ WorkerReports(v)
             \/ WorkerStamps(v) \/ WorkerEnds(v)
    BY <2>2 DEF WorkerTakes, WorkerGetsStatus, WorkerGivesUp, WorkerReports, WorkerStamps, WorkerEnds, env
  <2> QED
    BY <1>5, <2>1, <2>2 DEF WorkerSteps
<1>6. CASE PlegWorks \/ PlegStops
  BY <1>6 DEF PlegWorks, PlegLists, PlegUpdatesCache, PlegFails, PlegSends, PlegDone, PlegStops, env
<1> QED
  BY <1>1, <1>2, <1>3, <1>4, <1>5, <1>6, Zenon DEF Next

(* A pod that is not restarted and whose containers have been created      *)
(* stays without a running container.                                      *)
LEMMA NoneRunsStays ==
    ASSUME KubeletInv, [Next]_vars, NEW v \in PodUids, Settled(v),
           worker[v] # "restart", NoneRuns(v)
    PROVE  NoneRuns(v)'
<1>1. ~ WorkerCreates(v) /\ ~ WorkerRestarts(v)
  BY DEF WorkerCreates, WorkerRestarts, Settled
<1>2. ASSUME NEW c \in Containers PROVE ctr'[<<v, c>>] # "running"
  BY <1>1, ContainerSteps DEF NoneRuns
<1> QED
  BY <1>2 DEF NoneRuns

(* GetAllPods: what the PLEG lists for a pod is there.                     *)
LEMMA CurrentSources ==
    ASSUME KubeletInv, [Next]_vars, NEW v \in PodUids, current'[v] # {}
    PROVE  current[v] # {} \/ \E c \in Containers : ctr[<<v, c>>] # "none"
<1>0. current \in [PodUids -> Snapshot]
  BY DEF KubeletInv, PlegOK
<1>1. CASE PlegLists
  <2>1. PICK leader \in Leaders :
          current' = [u \in PodUids |-> IF leader[NameOf[u]] = u THEN OfName(NameOf[u]) ELSE {}]
    BY <1>1 DEF PlegLists
  <2>2. leader[NameOf[v]] = v /\ OfName(NameOf[v]) # {}
    BY <2>1
  <2>3. NameOf[v] \in PodNames
    BY NameAssumption
  <2>4. PICK s \in OfName(NameOf[v]) : leader[NameOf[v]] = s[1][1]
    BY <2>2, <2>3 DEF Leaders
  <2>5. PICK i \in Cids : s = <<i, ctr[i]>> /\ ctr[i] # "none"
    BY <2>4 DEF OfName
  <2>6. i = <<v, i[2]>> /\ i[2] \in Containers
    BY <2>2, <2>4, <2>5 DEF Cids
  <2> QED
    BY <2>5, <2>6
<1>2. CASE PlegDone
  BY <1>2 DEF PlegDone
<1>3. ASSUME NEW u \in PodUids, PlegUpdatesCache(u) \/ PlegFails(u) PROVE current[v] # {}
  BY <1>0, <1>3 DEF PlegUpdatesCache, PlegFails
<1>4. CASE PlegSends \/ PlegStops
  BY <1>4 DEF PlegSends, PlegStops
<1>5. CASE World \/ WatcherPolls \/ WatcherStops \/ LoopStops \/ LoopEnds \/ UNCHANGED vars
  BY <1>5 DEF World, Reassign, ContainerExits, Interrupt, WatcherPolls, WatcherStops, LoopStops, LoopEnds,
              vars, plegV
<1>6. CASE LoopWorks
  BY <1>6 DEF LoopWorks, LoopReceivesUpdate, LoopHandlesPod, LoopReceivesEvent, LoopUnblocks, plegV
<1>7. ASSUME NEW u \in PodUids, WorkerSteps(u) PROVE current[v] # {}
  BY <1>7 DEF WorkerSteps, WorkerTakes, WorkerCreates, WorkerGetsStatus, WorkerGivesUp,
           WorkerReports, WorkerRestarts, WorkerStamps, WorkerKills, WorkerEnds, plegV
<1> QED
  BY <1>1, <1>2, <1>3, <1>4, <1>5, <1>6, <1>7 DEF Next, PlegWorks

(* GetPodStatus, GetNewerThan: a status comes from the runtime, or from    *)
(* the cache.                                                              *)
LEMMA StatusSources ==
    ASSUME KubeletInv, [Next]_vars, NEW v \in PodUids
    PROVE  /\ \/ cache'[v] = cache[v] \/ cache'[v] = None
              \/ current[v] # {} /\ cache'[v] = OfName(NameOf[v]) /\ UNCHANGED ctr
           /\ \/ got'[v] = got[v]
              \/ got'[v] = None /\ worker'[v] = "stamp"
              \/ got'[v] = cache[v] /\ cache[v] # None
<1>0. /\ cache \in [PodUids -> Snapshot \union {None}] /\ got \in [PodUids -> Snapshot \union {None}]
      /\ worker \in [PodUids -> Works \union {"none", "idle", "report", "restart", "stamp", "unlist"}]
  BY DEF KubeletInv, CacheOK, WorkerOK
<1>1. CASE World \/ WatcherPolls \/ WatcherStops \/ LoopStops \/ LoopEnds \/ UNCHANGED vars
  BY <1>1 DEF World, Reassign, ContainerExits, Interrupt, WatcherPolls, WatcherStops, LoopStops, LoopEnds,
              vars, workerV, cacheV
<1>2. CASE LoopWorks
  <2>1. UNCHANGED cacheV
    BY <1>2 DEF LoopWorks, LoopReceivesUpdate, LoopHandlesPod, LoopReceivesEvent, LoopUnblocks
  <2>2. UNCHANGED got
    BY <1>2 DEF LoopWorks, LoopReceivesUpdate, LoopHandlesPod, LoopReceivesEvent, LoopUnblocks,
                UpdatePod, Send, workerV
  <2> QED
    BY <2>1, <2>2 DEF cacheV
<1>3. ASSUME NEW u \in PodUids, WorkerSteps(u)
      PROVE  /\ cache' = cache
             /\ \/ got'[v] = got[v]
                \/ got'[v] = None /\ worker'[v] = "stamp"
                \/ got'[v] = cache[v] /\ cache[v] # None
  BY <1>0, <1>3 DEF WorkerSteps, WorkerTakes, WorkerCreates, WorkerGetsStatus, WorkerGivesUp,
           WorkerReports, WorkerRestarts, WorkerStamps, WorkerKills, WorkerEnds, cacheV
<1>4. CASE PlegWorks \/ PlegStops
  <2>1. UNCHANGED got
    BY <1>4 DEF PlegWorks, PlegLists, PlegUpdatesCache, PlegFails, PlegSends, PlegDone, PlegStops, workerV
  <2>2. ASSUME NEW u \in PodUids, PlegUpdatesCache(u)
        PROVE  \/ cache'[v] = cache[v] \/ cache'[v] = None
               \/ current[v] # {} /\ cache'[v] = OfName(NameOf[v]) /\ UNCHANGED ctr
    BY <1>0, <2>2 DEF PlegUpdatesCache, env
  <2>3. ASSUME NEW u \in PodUids, PlegFails(u) PROVE cache'[v] = cache[v] \/ cache'[v] = None
    BY <1>0, <2>3 DEF PlegFails
  <2>4. CASE PlegLists \/ PlegSends \/ PlegDone \/ PlegStops
    BY <2>1, <2>4 DEF PlegLists, PlegSends, PlegDone, PlegStops, cacheV
  <2> QED
    BY <1>4, <2>1, <2>2, <2>3, <2>4 DEF PlegWorks
<1> QED
  BY <1>1, <1>2, <1>3, <1>4 DEF Next

(* computeApiStatus: "ended" is said of a status with no running container.*)
LEMMA ReportSources ==
    ASSUME KubeletInv, [Next]_vars, NEW v \in PodUids, apiStatus'[v] = "Exited"
    PROVE  \/ apiStatus[v] = "Exited"
           \/ /\ worker[v] = "report" /\ UNCHANGED ctr
              /\ \A s \in got[v] : s[2] # "running"
<1>0. apiStatus \in [PodUids -> {None, "Running", "Exited"}]
  BY DEF KubeletInv, EnvOK
<1>1. CASE World \/ WatcherPolls \/ WatcherStops \/ LoopStops \/ LoopEnds \/ UNCHANGED vars
  BY <1>1 DEF World, Reassign, ContainerExits, Interrupt, WatcherPolls, WatcherStops, LoopStops, LoopEnds,
              vars, env
<1>2. CASE LoopWorks
  BY <1>2 DEF LoopWorks, LoopReceivesUpdate, LoopHandlesPod, LoopReceivesEvent, LoopUnblocks, env
<1>3. ASSUME NEW u \in PodUids, WorkerReports(u)
      PROVE  \/ apiStatus[v] = "Exited"
             \/ /\ worker[v] = "report" /\ UNCHANGED ctr
                /\ \A s \in got[v] : s[2] # "running"
  <2>1. CASE v # u \/ UNCHANGED apiStatus
    BY <1>0, <1>3, <2>1 DEF WorkerReports
  <2>2. CASE v = u /\ apiStatus' = [apiStatus EXCEPT ![u] = Phase(u, got[u])]
    <3>1. Phase(u, got[u]) = "Exited"
      BY <1>0, <2>2
    <3>2. \A s \in got[u] : s[2] # "running"
      BY <3>1, NoneAssumption DEF Phase
    <3> QED
      BY <1>3, <2>2, <3>2 DEF WorkerReports
  <2> QED
    BY <1>3, <2>1, <2>2 DEF WorkerReports
<1>4. ASSUME NEW u \in PodUids, WorkerSteps(u), ~ WorkerReports(u) PROVE UNCHANGED apiStatus
  BY <1>4 DEF WorkerSteps, WorkerTakes, WorkerCreates, WorkerGetsStatus, WorkerGivesUp,
           WorkerRestarts, WorkerStamps, WorkerKills, WorkerEnds, env
<1>5. CASE PlegWorks \/ PlegStops
  BY <1>5 DEF PlegWorks, PlegLists, PlegUpdatesCache, PlegFails, PlegSends, PlegDone, PlegStops, env
<1> QED
  BY <1>1, <1>2, <1>3, <1>4, <1>5 DEF Next

(* No status says more than the runtime did, nor turns false later.        *)
LEMMA StatusInvPreserved ==
    ASSUME Once, KubeletInv, PollInv, CreateInv, StatusInv, [Next]_vars
    PROVE  StatusInv'
<1>1. ASSUME NEW v \in PodUids, Settled(v) PROVE Settled(v)'
  BY <1>1, SettledStays
<1>2. ASSUME NEW v \in PodUids, v \notin Always, Settled(v), NoneRuns(v) PROVE NoneRuns(v)'
  <2>1. worker[v] # "restart"
    BY <1>2 DEF StatusInv
  <2> QED
    BY <1>2, <2>1, NoneRunsStays
<1>3. ASSUME NEW v \in PodUids, NEW c \in Containers, ctr'[<<v, c>>] # "none" PROVE Settled(v)'
  <2>1. CASE ctr[<<v, c>>] # "none"
    BY <1>1, <2>1 DEF StatusInv
  <2>2. CASE WorkerCreates(v)
    <3>1. worker[v] = "create" /\ worker'[v] = "stamp" /\ podUpdates' = podUpdates
      BY <2>2 DEF WorkerCreates, KubeletInv, WorkerOK
    <3>2. AddsOver(v)'
      BY <3>1, AddsOverStays DEF CreateInv
    <3>3. ~ Queued(v, "create")
      BY <3>1 DEF CreateInv, CreateIsFirst, Queued
    <3> QED
      BY <3>1, <3>2, <3>3 DEF Settled, Queued
  <2> QED
    BY <1>3, <2>1, <2>2, ContainerSteps
<1>4. ASSUME NEW v \in PodUids, current'[v] # {} PROVE Settled(v)'
  <2>1. Settled(v)
    BY <1>4, CurrentSources DEF StatusInv
  <2> QED
    BY <1>1, <2>1
<1>5. ASSUME NEW v \in PodUids, NEW status, Truthful(v, status)
      PROVE  status # None =>
                /\ Settled(v)'
                /\ v \notin Always /\ (\A s \in status : s[2] # "running") => NoneRuns(v)'
  BY <1>1, <1>2, <1>5 DEF Truthful
<1>6. ASSUME NEW v \in PodUids PROVE Truthful(v, cache[v])'
  <2>1. CASE cache'[v] = cache[v] \/ cache'[v] = None
    BY <1>5, <2>1 DEF Truthful, StatusInv
  <2>2. CASE current[v] # {} /\ cache'[v] = OfName(NameOf[v]) /\ UNCHANGED ctr
    <3>1. Settled(v)'
      BY <1>1, <2>2 DEF StatusInv
    <3>2. ASSUME \A s \in OfName(NameOf[v]) : s[2] # "running" PROVE NoneRuns(v)'
      <4>1. ASSUME NEW c \in Containers, ctr[<<v, c>>] = "running" PROVE FALSE
        <5>1. <<v, c>> \in Cids /\ NameOf[<<v, c>>[1]] = NameOf[v] /\ ctr[<<v, c>>] # "none"
          BY <4>1 DEF Cids
        <5>2. <<<<v, c>>, ctr[<<v, c>>]>> \in OfName(NameOf[v])
          BY <5>1 DEF OfName
        <5> QED
          BY <3>2, <4>1, <5>2
      <4> QED
        BY <2>2, <4>1 DEF NoneRuns
    <3> QED
      BY <2>2, <3>1, <3>2 DEF Truthful
  <2> QED
    BY <2>1, <2>2, StatusSources
<1>7. ASSUME NEW v \in PodUids PROVE Truthful(v, got[v])'
  <2>1. CASE got'[v] = got[v] \/ got'[v] = None
    BY <1>5, <2>1 DEF Truthful, StatusInv
  <2>2. CASE got'[v] = cache[v]
    BY <1>5, <2>2 DEF Truthful, StatusInv
  <2> QED
    BY <2>1, <2>2, StatusSources
<1>8. ASSUME NEW v \in PodUids, worker'[v] = "report" PROVE got'[v] # None
  <2>1. CASE WorkerGetsStatus(v)
    BY <2>1 DEF WorkerGetsStatus, KubeletInv, WorkerOK
  <2>2. CASE worker[v] = "report"
    BY <1>8, <2>2, StatusSources DEF StatusInv
  <2> QED
    BY <1>8, <2>1, <2>2, WorkSources
<1>9. ASSUME NEW v \in PodUids, v \notin Always, apiStatus'[v] = "Exited"
      PROVE  Settled(v)' /\ NoneRuns(v)'
  <2>1. CASE apiStatus[v] = "Exited"
    BY <1>1, <1>2, <1>9, <2>1 DEF StatusInv
  <2>2. CASE /\ worker[v] = "report" /\ UNCHANGED ctr
             /\ \A s \in got[v] : s[2] # "running"
    <3>1. got[v] # None /\ Truthful(v, got[v])
      BY <2>2 DEF StatusInv
    <3>2. Settled(v) /\ NoneRuns(v)
      BY <1>9, <2>2, <3>1 DEF Truthful
    <3> QED
      BY <1>1, <1>2, <1>9, <3>2
  <2> QED
    BY <1>9, <2>1, <2>2, ReportSources
<1>10. ASSUME NEW v \in PodUids, v \notin Always
       PROVE  ~ Queued(v, "recreate")' /\ worker'[v] \notin {"recreate", "restart"}
              /\ blocked' # <<v, "recreate">>
  <2>1. ~ Queued(v, "recreate") /\ worker[v] \notin {"recreate", "restart"}
        /\ blocked # <<v, "recreate">>
    BY <1>10 DEF StatusInv
  <2>2. ~ Queued(v, "recreate")'
    BY <1>10, <2>1, WorkSources
  <2>3. "recreate" \in Works
    BY DEF Works
  <2> QED
    BY <1>10, <2>1, <2>2, <2>3, WorkSources
<1> QED
  BY <1>3, <1>4, <1>6, <1>7, <1>8, <1>9, <1>10 DEF StatusInv

(* computeApiStatus, the cache, the PLEG's two reads of the runtime: while *)
(* a pod comes to the node at most once, a pod that is not restarted is    *)
(* never reported as ended with a container still to run.                  *)
THEOREM ReportedEndIsFinal ==
    ASSUME Once
    PROVE  Spec => []ExitedIsFinal
<1>1. Init => PollInv /\ CreateInv /\ StatusInv
  <2> SUFFICES ASSUME Init PROVE CreateInv /\ StatusInv
    BY PollInvInit
  <2>1. \A u \in PodUids : podUpdates[u] = None /\ worker[u] = "none" /\ batch = None /\ blocked = None
    BY DEF Init
  <2>2. CreateInv
    BY <2>1 DEF Init, CreateInv, CreateIsFirst, InBatch, Queued
  <2>3. \A u \in PodUids : cache[u] = None /\ got[u] = None /\ apiStatus[u] # "Exited" /\ current[u] = {}
                              /\ \A c \in Containers : ctr[<<u, c>>] = "none"
    BY NoneAssumption DEF Init, Cids
  <2>4. \A u \in PodUids : None # <<u, "recreate">>
    BY NoneAssumption DEF Works
  <2>5. StatusInv
    BY <2>1, <2>3, <2>4 DEF StatusInv, Truthful, Queued
  <2> QED
    BY <2>2, <2>5
<1>2. KubeletInv /\ StatusInv => ExitedIsFinal
  <2>1. ASSUME KubeletInv, NEW u \in PodUids PROVE ContainersOf(u) \subseteq Containers
    BY <2>1, ScenarioAssumption DEF KubeletInv, EnvOK, ContainersOf
  <2> QED
    BY <2>1 DEF StatusInv, NoneRuns, ExitedIsFinal
<1>3. KubeletInv /\ PollInv /\ CreateInv /\ StatusInv /\ [Next]_vars => PollInv' /\ CreateInv' /\ StatusInv'
  BY PollInvPreserved, CreateInvPreserved, StatusInvPreserved
<1> QED
  BY <1>1, <1>2, <1>3, KubeletInvHolds, PTL DEF Spec
=============================================================================
