----------------------------- MODULE PilotProofs -----------------------------
(***************************************************************************)
(* What holds of pilot, its workers and the mesh handlers for every set of *)
(* services, pods and names, any number of updates and any number of       *)
(* failures.                                                               *)
(*                                                                         *)
(*   PilotTypeCorrect   the store and the goroutines' locals have the      *)
(*                      types the code declares                            *)
(*   UpdatesGone        updates leave nothing behind                       *)
(*   WeightsFollowed    shares of traffic are in the ratio of the weights  *)
(*                                                                         *)
(* and, where no two updated services select the same pod:                 *)
(*                                                                         *)
(*   MinimumKept        an update leaves its minimum of pods               *)
(*   FinishedReplaced   an update replaces every pod before it is finished *)
(*                                                                         *)
(* The argument: steps without a failure are written out (CleanSteps), and *)
(* PilotInv follows from them, part by part.                               *)
(***************************************************************************)
EXTENDS Pilot, PodRegistryProofs, SequenceTheorems, Integers

-----------------------------------------------------------------------------
(* Folds over finite sets                                                  *)

(* The element that a fold over a set takes next.                          *)
Picked(s) == CHOOSE y \in s : TRUE
(* The equation of a fold of g from b, on the sets in T.                   *)
FoldsOn(f, g, b, T) == \A s \in T : f[s] = IF s = {} THEN b ELSE g[<<Picked(s), f[s \ {Picked(s)}]>>]

(* f is the fold of g from b over every subset of S.                       *)
Folds(f, g, b, S) == FoldsOn(f, g, b, SUBSET S)

(* The sizes that an induction over the subsets of a finite set goes by. *)
LEMMA OneLess ==
    ASSUME NEW S, IsFiniteSet(S), NEW s \in SUBSET S, NEW x \in s
    PROVE  /\ IsFiniteSet(s) /\ Cardinality(s) \in Nat
           /\ s \ {x} \in SUBSET S /\ x \in S
           /\ Cardinality(s \ {x}) \in Nat /\ Cardinality(s \ {x}) < Cardinality(s)
<1>1. IsFiniteSet(s) /\ Cardinality(s) \in Nat
  BY FS_Subset, FS_CardinalityType
<1>2. Cardinality(s \ {x}) = Cardinality(s) - 1 /\ IsFiniteSet(s \ {x})
  BY <1>1, FS_RemoveElement
<1>3. Cardinality(s \ {x}) \in Nat
  BY <1>2, FS_CardinalityType
<1> QED
  BY <1>1, <1>2, <1>3

(* A set of subsets that, if it holds anything, holds one without any     *)
(* smaller.                                                                *)
LEMMA SmallestSubset ==
    ASSUME NEW S, IsFiniteSet(S), NEW Bad \in SUBSET (SUBSET S), Bad # {}
    PROVE  \E s \in Bad : \A t \in SUBSET S : Cardinality(t) < Cardinality(s) => t \notin Bad
<1> DEFINE Sizes == {Cardinality(s) : s \in Bad}
<1>1. \A s \in SUBSET S : Cardinality(s) \in Nat
  BY FS_Subset, FS_CardinalityType
<1>2. Sizes \subseteq Nat /\ Sizes # {}
  BY <1>1
<1>3. PICK n \in Sizes : \A m \in Sizes : n <= m
  <2> HIDE DEF Sizes
  <2> QED
    BY <1>2, LeastExists
<1>4. PICK s \in Bad : n = Cardinality(s)
  OBVIOUS
<1>5. ASSUME NEW t \in Bad PROVE Cardinality(s) <= Cardinality(t)
  BY <1>3, <1>4
<1>6. ASSUME NEW t \in Bad PROVE ~ (Cardinality(t) < Cardinality(s))
  <2>1. t \in SUBSET S /\ s \in SUBSET S
    OBVIOUS
  <2> HIDE DEF Sizes
  <2>2. Cardinality(t) \in Nat /\ Cardinality(s) \in Nat
    BY <1>1, <2>1
  <2> QED
    BY <1>5, <2>2
<1> QED
  BY <1>6

(* Such a fold exists over a finite set: were there a subset without one,  *)
(* a smallest would have one.                                              *)
LEMMA FoldExists ==
    ASSUME NEW V, NEW b \in V, NEW S, IsFiniteSet(S), NEW g \in [S \X V -> V]
    PROVE  \E f \in [SUBSET S -> V] : Folds(f, g, b, S)
<1> DEFINE Small(n) == {s \in SUBSET S : Cardinality(s) < n}
           Good(n) == \E f \in [Small(n) -> V] : FoldsOn(f, g, b, Small(n))
           Bad == {n \in Nat : ~ Good(n)}
<1>0. \A s \in SUBSET S : IsFiniteSet(s) /\ Cardinality(s) \in Nat
  BY FS_Subset, FS_CardinalityType
<1>00. ASSUME NEW s \in SUBSET S, s # {}
       PROVE  /\ s \ {Picked(s)} \in SUBSET S /\ Picked(s) \in S
              /\ Cardinality(s) \in Nat /\ Cardinality(s \ {Picked(s)}) \in Nat
              /\ Cardinality(s \ {Picked(s)}) < Cardinality(s)
  <2>1. Picked(s) \in s
    BY <1>00 DEF Picked
  <2> HIDE DEF Small, Good, Bad
  <2> QED
    BY <2>1, OneLess
<1>1. Good(0)
  <2>1. Small(0) = {}
    <3> SUFFICES ASSUME NEW s \in SUBSET S PROVE ~ (Cardinality(s) < 0)
      OBVIOUS
    <3>1. Cardinality(s) \in Nat
      BY <1>0, Zenon
    <3> QED
      BY <3>1
  <2>2. [s \in Small(0) |-> b] \in [Small(0) -> V]
    OBVIOUS
  <2> HIDE DEF Small
  <2>3. FoldsOn([s \in Small(0) |-> b], g, b, Small(0))
    BY <2>1 DEF Folds, FoldsOn
  <2> QED
    BY <2>2, <2>3
<1>2. ASSUME NEW n \in Nat, Good(n) PROVE Good(n + 1)
  <2>1. PICK f \in [Small(n) -> V] : FoldsOn(f, g, b, Small(n))
    BY <1>2
  <2> DEFINE h == [s \in Small(n + 1) |->
                     IF s = {} THEN b ELSE g[<<Picked(s), f[s \ {Picked(s)}]>>]]
  <2>2. ASSUME NEW s \in Small(n + 1), s # {}
        PROVE  s \ {Picked(s)} \in Small(n) /\ Picked(s) \in S
    <3>1. s \in SUBSET S /\ Cardinality(s) < n + 1
      OBVIOUS
    <3>2. /\ s \ {Picked(s)} \in SUBSET S /\ Picked(s) \in S
          /\ Cardinality(s) \in Nat /\ Cardinality(s \ {Picked(s)}) \in Nat
          /\ Cardinality(s \ {Picked(s)}) < Cardinality(s)
      BY <1>00, <2>2, <3>1
    <3> QED
      BY <3>1, <3>2
  <2>3. Small(n) \subseteq Small(n + 1)
    <3> SUFFICES ASSUME NEW s \in SUBSET S, Cardinality(s) < n PROVE Cardinality(s) < n + 1
      OBVIOUS
    <3>1. Cardinality(s) \in Nat
      BY <1>0, Zenon
    <3> QED
      BY <3>1
  <2> HIDE DEF Small
  <2>4. ASSUME NEW s \in Small(n) PROVE h[s] = f[s]
    BY <2>1, <2>3 DEF Folds, FoldsOn
  <2>5. h \in [Small(n + 1) -> V]
    <3> SUFFICES ASSUME NEW s \in Small(n + 1), s # {}
                 PROVE  g[<<Picked(s), f[s \ {Picked(s)}]>>] \in V
      OBVIOUS
    <3>1. f[s \ {Picked(s)}] \in V /\ Picked(s) \in S
      BY <2>1, <2>2
    <3> QED
      BY <3>1
  <2>6. FoldsOn(h, g, b, Small(n + 1))
    <3> SUFFICES ASSUME NEW s \in Small(n + 1)
                 PROVE  h[s] = IF s = {} THEN b ELSE g[<<Picked(s), h[s \ {Picked(s)}]>>]
      BY DEF Folds, FoldsOn
    <3>1. s # {} => h[s \ {Picked(s)}] = f[s \ {Picked(s)}]
      BY <2>2, <2>4
    <3> QED
      BY <3>1
  <2> QED
    BY <2>5, <2>6
<1>3. Bad = {}
  <2> SUFFICES ASSUME Bad # {} PROVE FALSE
    OBVIOUS
  <2>1. PICK n \in Bad : \A m \in Bad : n <= m
    <3>1. Bad \subseteq Nat
      OBVIOUS
    <3> HIDE DEF Bad
    <3> QED
      BY <3>1, LeastExists
  <2> HIDE DEF Good
  <2>2. n # 0 /\ n \in Nat
    BY <1>1
  <2>3. n - 1 \in Nat /\ Good(n - 1)
    BY <2>1, <2>2
  <2> QED
    BY <1>2, <2>1, <2>2, <2>3
<1>4. Cardinality(S) \in Nat /\ Small(Cardinality(S) + 1) = SUBSET S
  <2>1. Cardinality(S) \in Nat
    BY FS_CardinalityType
  <2>2. ASSUME NEW s \in SUBSET S PROVE Cardinality(s) < Cardinality(S) + 1
    <3>1. Cardinality(s) \in Nat /\ Cardinality(s) <= Cardinality(S)
      <4> HIDE DEF Good, Bad, Small
      <4> QED
        BY <1>0, FS_Subset
    <3> QED
      BY <2>1, <3>1
  <2> QED
    BY <2>1, <2>2
<1> HIDE DEF Small
<1>5. Good(Cardinality(S) + 1)
  <2> HIDE DEF Good
  <2> QED
    BY <1>3, <1>4
<1> QED
  BY <1>4, <1>5 DEF Folds

(* The step of calculate: the weight so far times one more size.           *)
Times(S, c) == [p \in S \X Nat |-> p[2] * c[p[1]]]

(* What the community modules' fold satisfies, beside a function f that    *)
(* folds g: an equation wherever the smaller set agrees with f.            *)
Tracks(e, f, g, b, S) ==
    \A s \in SUBSET S : e[s] = IF s = {} THEN b
                        ELSE IF e[s \ {Picked(s)}] = f[s \ {Picked(s)}]
                             THEN g[<<Picked(s), f[s \ {Picked(s)}]>>] ELSE e[s]

(* A function that tracks a fold is that fold.                             *)
LEMMA FoldsAlike ==
    ASSUME NEW S, NEW g, NEW b, NEW f, NEW e,
           IsFiniteSet(S), Folds(f, g, b, S), Tracks(e, f, g, b, S)
    PROVE  e[S] = f[S]
<1> DEFINE Bad == {s \in SUBSET S : e[s] # f[s]}
<1> SUFFICES ASSUME Bad # {} PROVE FALSE
  OBVIOUS
<1>1. PICK s \in Bad : \A t \in SUBSET S : Cardinality(t) < Cardinality(s) => t \notin Bad
  <2>1. Bad \in SUBSET (SUBSET S)
    OBVIOUS
  <2> HIDE DEF Bad
  <2> QED
    BY <2>1, SmallestSubset
<1>2. s # {}
  BY DEF Folds, FoldsOn, Tracks
<1>3. Picked(s) \in s
  BY <1>2 DEF Picked
<1>4. /\ s \ {Picked(s)} \in SUBSET S
      /\ Cardinality(s \ {Picked(s)}) < Cardinality(s)
  BY <1>3, OneLess
<1>5. e[s \ {Picked(s)}] = f[s \ {Picked(s)}]
  BY <1>1, <1>4
<1> QED
  BY <1>2, <1>5 DEF Folds, FoldsOn, Tracks

(* calculate (pilot.go): Scaled is the fold of Times.                      *)
LEMMA ScaledFolds ==
    ASSUME NEW S, IsFiniteSet(S), NEW w \in Nat, NEW c, \A j \in S : c[j] \in Nat
    PROVE  /\ Times(S, c) \in [S \X Nat -> Nat]
           /\ \E f \in [SUBSET S -> Nat] : Folds(f, Times(S, c), w, S) /\ f[S] = Scaled(w, c, S)
<1>1. Times(S, c) \in [S \X Nat -> Nat]
  BY DEF Times
<1>2. PICK f \in [SUBSET S -> Nat] : Folds(f, Times(S, c), w, S)
  BY <1>1, FoldExists
<1> DEFINE Unfolds(h) == h = [s \in SUBSET S |-> IF s = {} THEN w ELSE h[s \ {Picked(s)}] * c[Picked(s)]]
<1>3. ASSUME NEW s \in SUBSET S, s # {}
      PROVE  /\ Picked(s) \in S /\ s \ {Picked(s)} \in SUBSET S
             /\ Times(S, c)[<<Picked(s), f[s \ {Picked(s)}]>>] = f[s \ {Picked(s)}] * c[Picked(s)]
  <2>1. Picked(s) \in S
    BY <1>3 DEF Picked
  <2>2. f[s \ {Picked(s)}] \in Nat
    BY <1>2
  <2> QED
    BY <2>1, <2>2 DEF Times
<1>4. Unfolds(f)
  BY <1>2, <1>3 DEF Folds, FoldsOn
<1>5. PICK e : Unfolds(e) /\ Scaled(w, c, S) = e[S]
  <2>1. Scaled(w, c, S) = (CHOOSE h : Unfolds(h))[S]
    BY DEF Scaled, FoldSet, MapThenFoldSet, Picked
  <2> HIDE DEF Unfolds
  <2> QED
    BY <1>4, <2>1
<1>7. Tracks(e, f, Times(S, c), w, S)
  BY <1>3, <1>5 DEF Tracks
<1>8. e[S] = f[S]
  BY <1>2, <1>7, FoldsAlike
<1> QED
  BY <1>1, <1>2, <1>5, <1>8

(* calculate: a weight times sizes is a natural number.                    *)
LEMMA ScaledNat ==
    ASSUME NEW S, IsFiniteSet(S), NEW w \in Nat, NEW c, \A j \in S : c[j] \in Nat
    PROVE  Scaled(w, c, S) \in Nat
<1>1. PICK f \in [SUBSET S -> Nat] : f[S] = Scaled(w, c, S)
  BY ScaledFolds
<1> QED
  BY <1>1

-----------------------------------------------------------------------------
(* Types: pods and nodes                                                   *)

(* The positions of syncLoopIteration.                                     *)
Phases == {"pods", "services", "vss", "rus", "vs", "count", "read", "dead", "off"}
(* Its locals.                                                             *)
Locals == [pods : SUBSET (Names \X PodUids), services : SUBSET Svcs, todo : SUBSET VirtualService,
           vs : VirtualService \union {None}, counts : Seq(Nat), got : Seq(SUBSET Names),
           result : [Svcs -> (SUBSET EntryType) \union {None}]]
(* Between two virtual services it has counted and read nothing.           *)
NoVs == it.vs = None /\ it.counts = <<>> /\ it.got = <<>>
(* Within one: how far it is, and what its passes have established of the  *)
(* weights.                                                                *)
Reading ==
    LET split == it.vs.split IN
    /\ it.vs # None /\ split # <<>>
    /\ Len(it.counts) <= Len(split) /\ Len(it.got) < Len(split)
    /\ pc = "count" => ~ ByURL(it.vs) /\ Len(it.counts) < Len(split) /\ it.got = <<>>
    /\ pc = "read" => ByURL(it.vs) \/ Len(it.counts) = Len(split)
    /\ \A i \in 1 .. Len(it.counts) : split[i].weight # None
(* The loop's part of the type invariant, stronger than MsTypeOK: the next *)
(* subset to ask for exists.                                               *)
LoopTypes ==
    /\ pc \in Phases /\ it \in Locals
    /\ IF pc \in {"count", "read"} THEN Reading ELSE NoVs

(* The store's part.                                                       *)
MeshTypes ==
    /\ services \in SUBSET Svcs
    /\ subsets \in [SubNames -> (SUBSET Names) \union {None}]
    /\ vsKey \in [VsNames -> VsUids \union {None}] /\ vss \in [VsUids -> VirtualService \union {None}]
    /\ ruKey \in [RuNames -> RuUids \union {None}] /\ rus \in [RuUids -> RollingUpdate \union {None}]
    /\ mapping \in [Svcs -> (SUBSET EntryType) \union {None}]
(* The locals of rollingUpdateWorkerLoop.                                  *)
WorkerType == [pc : Labels, name : RuNames, svc : Svcs, min : Nat, pods : SUBSET (Names \X PodUids),
               left : SUBSET Names, batch : SUBSET Names, todo : SUBSET Names]
(* Those a worker can have: only deletions and additions leave something   *)
(* to do.                                                                  *)
Workers == {w \in WorkerType : IsWorker(w) /\ (w.pc \notin {"delete", "add"} => w.todo = {})}
(* The workers' part.                                                      *)
WorkerTypes == worker \in [RuUids -> {Off} \union Workers]
(* The users' part.                                                        *)
ScenarioTypes == scenario \in Scenarios /\ asks \subseteq scenario.asks
(* The type invariant, with what PodRegistry's proofs know of the pods.    *)
Types == RegistryInv /\ MeshTypes /\ LoopTypes /\ WorkerTypes /\ ScenarioTypes

(* A step that leaves the pods and nodes alone.                            *)
Elsewhere == UNCHANGED <<podVars, nodeVars, hosts, used>> /\ faults' \in 0 .. MaxFaults

(* What the requests of users are made of.                                 *)
LEMMA RequestFields ==
    ASSUME NEW a \in Request
    PROVE  /\ a.op = "AddSubset" => a.name \in SubNames /\ a.pods \in SUBSET Names
           /\ a.op = "DeleteSubset" => a.name \in SubNames
           /\ a.op = "AddVirtualService" => a.name \in VsNames /\ a.svc \in Svcs /\ a.split \in Seq(Weighing)
           /\ a.op = "DeleteVirtualService" => a.name \in VsNames
           /\ a.op = "AddRollingUpdate" => a.name \in RuNames /\ a.svc \in Svcs /\ a.min \in Nat
           /\ a.op = "DeleteRollingUpdate" => a.name \in RuNames
           /\ a.op \in {"AddPod", "DeletePod"} => a.name \in Names
           /\ a.op \in {"AddService", "DeleteService"} => a.svc \in Svcs
  BY DEF Request

(* What users have still to ask is a request.                              *)
LEMMA AskedRequests ==
    ASSUME ScenarioTypes, NEW a \in asks
    PROVE  a \in Request /\ a \in scenario.asks
  BY ScenarioAssumption DEF ScenarioTypes

(* The handlers of the mesh leave the pods and nodes alone.                *)
LEMMA MeshElsewhere ==
    ASSUME faults \in 0 .. MaxFaults, NEW k, NEW ok
    PROVE  /\ \A s : AddService(s) \/ DeleteService(s) => Elsewhere
           /\ \A n, ps : AddSubset(n, ps, k, ok) => Elsewhere
           /\ \A n : DeleteSubset(n, k, ok) => Elsewhere
           /\ \A n, s, split : AddVirtualService(n, s, split, k, ok) => Elsewhere
           /\ \A n : DeleteVirtualService(n, k, ok) => Elsewhere
           /\ \A n, s, min, busy : AddRollingUpdate(n, s, min, busy, k, ok) => Elsewhere
           /\ \A n, phase : UpdateRollingUpdateStatus(n, phase, k, ok) => Elsewhere
           /\ \A n : DeleteRollingUpdate(n, k, ok) => Elsewhere
           /\ \A m : SaveSidecarMapping(m, k, ok) => Elsewhere
           /\ \A g : Refused(g, k, ok) => Elsewhere
<1>1. \A total : Ends(ok, k, total) => faults' \in 0 .. MaxFaults
  BY EndsCounts
<1>2. \A s : AddService(s) \/ DeleteService(s) => Elsewhere
  BY DEF AddService, DeleteService, Elsewhere, vars, podVars, nodeVars
<1>3. \A g : Refused(g, k, ok) => Elsewhere
  BY DEF Refused, Elsewhere, vars, podVars, nodeVars
<1>4. \A n, ps : AddSubset(n, ps, k, ok) => Elsewhere
  BY <1>1 DEF AddSubset, Elsewhere
<1>5. \A n : DeleteSubset(n, k, ok) => Elsewhere
  BY <1>1 DEF DeleteSubset, Elsewhere
<1>6. \A n, s, split : AddVirtualService(n, s, split, k, ok) => Elsewhere
  BY <1>1 DEF AddVirtualService, Elsewhere
<1>7. \A n : DeleteVirtualService(n, k, ok) => Elsewhere
  BY <1>1 DEF DeleteVirtualService, Elsewhere
<1>8. \A n, s, min, busy : AddRollingUpdate(n, s, min, busy, k, ok) => Elsewhere
  BY <1>1 DEF AddRollingUpdate, Elsewhere
<1>9. \A n, phase : UpdateRollingUpdateStatus(n, phase, k, ok) => Elsewhere
  BY <1>1 DEF UpdateRollingUpdateStatus, Elsewhere
<1>10. \A n : DeleteRollingUpdate(n, k, ok) => Elsewhere
  BY <1>1 DEF DeleteRollingUpdate, Elsewhere
<1>11. \A m : SaveSidecarMapping(m, k, ok) => Elsewhere
  BY <1>1 DEF SaveSidecarMapping, Elsewhere
<1> QED
  BY <1>2, <1>3, <1>4, <1>5, <1>6, <1>7, <1>8, <1>9, <1>10, <1>11

(* The handlers of pods are those of PodRegistry.                          *)
LEMMA PodHandlers ==
    ASSUME NEW k \in 0 .. 2, NEW ok \in BOOLEAN, NEW nm \in Names
    PROVE  /\ AddsPod(nm, k, ok) => [Next]_vars
           /\ DeletePod(nm, k, ok) => [Next]_vars
           /\ RegistryInv /\ PodRuns(nm, k, ok) => [Next]_vars
<1>0. k \in 0 .. 4
  OBVIOUS
<1>1. ASSUME AddsPod(nm, k, ok) PROVE [Next]_vars
  <2>1. AddPod(nm, Min(UidsOf[nm] \ used), k, ok)
    BY <1>1 DEF AddsPod
  <2>2. Min(UidsOf[nm] \ used) \in PodUids
    BY <2>1 DEF AddPod
  <2> QED
    BY <1>0, <2>1, <2>2 DEF Next
<1>2. ASSUME DeletePod(nm, k, ok) PROVE [Next]_vars
  BY <1>0, <1>2 DEF Next
<1>3. ASSUME RegistryInv, PodRuns(nm, k, ok) PROVE [Next]_vars
  <2>1. podKey[nm] \in used \intersect PodUids
    BY <1>3 DEF PodRuns, RegistryInv, TypeOK, PodInv, FreshPodUids
  <2>2. PutPodStatus(nm, podKey[nm], k, ok)
    BY <1>3 DEF PodRuns
  <2> QED
    BY <1>0, <2>1, <2>2 DEF Next
<1> QED
  BY <1>1, <1>2, <1>3

(* A user's request is a step of PodRegistry, or elsewhere.                *)
LEMMA UsersElsewhere ==
    ASSUME Types, NEW k \in 0 .. 2, NEW ok \in BOOLEAN, Users(k, ok)
    PROVE  [Next]_vars \/ Elsewhere
<1>1. PICK a \in asks : Ask(a, k, ok)
  BY DEF Users
<1>2. a \in Request
  BY AskedRequests DEF Types
<1>3. faults \in 0 .. MaxFaults
  BY DEF Types, RegistryInv, TypeOK
<1>4. a.op \in {"AddPod", "DeletePod"} => a.name \in Names
  BY <1>2, RequestFields
<1>5. CASE a.op = "AddPod" /\ AddsPod(a.name, k, ok) /\ UNCHANGED meshVars
  BY <1>4, <1>5, PodHandlers
<1>6. CASE a.op = "DeletePod" /\ DeletePod(a.name, k, ok) /\ UNCHANGED meshVars
  BY <1>4, <1>6, PodHandlers
<1>7. CASE ~ (a.op = "AddPod" /\ AddsPod(a.name, k, ok) /\ UNCHANGED meshVars)
           /\ ~ (a.op = "DeletePod" /\ DeletePod(a.name, k, ok) /\ UNCHANGED meshVars)
  BY <1>1, <1>3, <1>7, MeshElsewhere DEF Ask
<1> QED
  BY <1>5, <1>6, <1>7

(* The loop writes the mapping at most.                                    *)
LEMMA LoopElsewhere ==
    ASSUME Types, NEW k \in 0 .. 2, NEW ok \in BOOLEAN, Loop(k, ok)
    PROVE  Elsewhere
<1>1. faults \in 0 .. MaxFaults
  BY DEF Types, RegistryInv, TypeOK
<1>2. ASSUME NEW next, NEW locals, Reads(ok, next, locals) PROVE Elsewhere
  BY <1>1, <1>2, EndsCounts DEF Reads, Elsewhere
<1>3. UNCHANGED storeVars => Elsewhere
  BY <1>1 DEF storeVars, vars, Elsewhere, podVars, nodeVars
<1>4. ASSUME NEW answers, NEW next, NEW locals, GetsSubset(answers, ok, next, locals) PROVE Elsewhere
  BY <1>2, <1>3, <1>4 DEF GetsSubset
<1>5. GetAllPods(ok) \/ GetAllServices(ok) \/ GetAllVirtualServices(ok) \/ GetAllRollingUpdates(ok) => Elsewhere
  BY <1>2 DEF GetAllPods, GetAllServices, GetAllVirtualServices, GetAllRollingUpdates
<1>6. CountSubset(ok) \/ ReadSubset(ok) => Elsewhere
  BY <1>4 DEF CountSubset, ReadSubset
<1>7. \A vs : TakeVirtualService(vs) => Elsewhere
  BY <1>3 DEF TakeVirtualService
<1>8. AddSidecarMapping(k, ok) => Elsewhere
  BY <1>1, MeshElsewhere DEF AddSidecarMapping
<1> QED
  BY <1>5, <1>6, <1>7, <1>8 DEF Loop

(* The types of a worker's locals.                                         *)
LEMMA WorkerFields ==
    ASSUME WorkerTypes, NEW r \in RuUids, Active(r)
    PROVE  /\ worker[r] \in Workers /\ worker[r] \in WorkerType /\ IsWorker(worker[r])
           /\ worker[r].svc \in Svcs /\ worker[r].name \in RuNames
           /\ worker[r].todo \subseteq Names /\ worker[r].batch \subseteq Names
           /\ worker[r].left \subseteq Names /\ worker[r].pods \subseteq Names \X PodUids
           /\ worker[r].min \in Nat /\ NamesOf(worker[r]) \subseteq Names
<1>1. worker[r] \in Workers
  BY DEF WorkerTypes, Active, Off
<1> QED
  BY <1>1 DEF Workers, WorkerType, NamesOf

(* Only a worker that runs takes steps.                                    *)
LEMMA WorkIsActive ==
    ASSUME NEW r \in RuUids, NEW k, NEW ok, Work(r, k, ok)
    PROVE  Active(r)
  BY DEF Work, Prepare, Batch, Finish, At, Active

(* A worker's request is a step of PodRegistry, or elsewhere.              *)
LEMMA WorkElsewhere ==
    ASSUME Types, NEW k \in 0 .. 2, NEW ok \in BOOLEAN, NEW r \in RuUids, Work(r, k, ok)
    PROVE  [Next]_vars \/ Elsewhere
<1>1. faults \in 0 .. MaxFaults
  BY DEF Types, RegistryInv, TypeOK
<1>2. \A nm \in worker[r].todo : nm \in Names
  BY WorkIsActive, WorkerFields DEF Types
<1>3. Prepare(r, k, ok) \/ Finish(r, k, ok) => Elsewhere
  BY <1>1, MeshElsewhere DEF Prepare, Finish
<1>4. ASSUME Batch(r, k, ok) PROVE [Next]_vars \/ Elsewhere
  <2>1. CASE \E nm \in worker[r].todo : DeletePod(nm, k, ok) \/ AddsPod(nm, k, ok)
    BY <1>2, <2>1, PodHandlers
  <2>2. CASE ~ \E nm \in worker[r].todo : DeletePod(nm, k, ok) \/ AddsPod(nm, k, ok)
    BY <1>1, <1>4, <2>2, MeshElsewhere DEF Batch
  <2> QED
    BY <2>1, <2>2
<1> QED
  BY <1>3, <1>4 DEF Work

(* Every step is a step of PodRegistry, or elsewhere.                      *)
LEMMA RegistrySteps ==
    ASSUME Types, [PilotNext]_allVars
    PROVE  [Next]_vars \/ Elsewhere
<1>1. faults \in 0 .. MaxFaults
  BY DEF Types, RegistryInv, TypeOK
<1>2. UNCHANGED storeVars => Elsewhere
  BY <1>1 DEF storeVars, vars, Elsewhere, podVars, nodeVars
<1>3. Crash => Elsewhere
  BY <1>1, FaultAssumption DEF Crash, Elsewhere
<1>4. Restart \/ UNCHANGED allVars => Elsewhere
  BY <1>2 DEF Restart, allVars
<1>5. ASSUME NEW k \in 0 .. 2, NEW ok \in BOOLEAN, NEW nm \in Names, PodRuns(nm, k, ok)
      PROVE  [Next]_vars
  BY <1>5, PodHandlers DEF Types
<1> QED
  BY <1>3, <1>4, <1>5, UsersElsewhere, LoopElsewhere, WorkElsewhere DEF PilotNext

(* So what PodRegistry's proofs know stays known.                          *)
LEMMA RegistryInvKept ==
    ASSUME Types, [PilotNext]_allVars
    PROVE  RegistryInv'
  BY RegistrySteps, RegistryInvStep, FailuresElsewhere DEF Types, Elsewhere

-----------------------------------------------------------------------------
(* Types: the store                                                        *)

(* The uid that a creation takes is one of the free ones.                  *)
LEMMA FreshUid ==
    ASSUME NEW uids, uids \subseteq Nat, NEW key, NEW objects, Fresh(uids, key, objects) # {}
    PROVE  Min(Fresh(uids, key, objects)) \in Fresh(uids, key, objects)
<1>1. Fresh(uids, key, objects) \subseteq Nat
  BY DEF Fresh
<1> HIDE DEF Fresh
<1> QED
  BY <1>1, MinIsMember

(* The names pilot makes are names of subsets and virtual services.        *)
LEMMA MadeNames ==
    ASSUME NEW s \in Svcs
    PROVE  Blocked(s) \in SubNames /\ Available(s) \in SubNames /\ RollingVs(s) \in VsNames
  BY DEF SubNames, VsNames

(* AddSubsetHandler, DeleteSubsetHandler: the store keeps its types.       *)
LEMMA SubsetTypes ==
    ASSUME MeshTypes, NEW n \in SubNames, NEW ps \in SUBSET Names, NEW k, NEW ok
    PROVE  AddSubset(n, ps, k, ok) \/ DeleteSubset(n, k, ok) => MeshTypes'
<1>1. ASSUME AddSubset(n, ps, k, ok) PROVE MeshTypes'
  BY <1>1 DEF AddSubset, MeshTypes
<1>2. ASSUME DeleteSubset(n, k, ok) PROVE MeshTypes'
  <2>1. subsets' \in [SubNames -> (SUBSET Names) \union {None}]
    BY <1>2 DEF DeleteSubset, MeshTypes
  <2> QED
    BY <1>2, <2>1 DEF DeleteSubset, MeshTypes
<1> QED
  BY <1>1, <1>2

(* AddVirtualServiceHandler, DeleteVirtualServiceHandler: likewise.        *)
LEMMA VsTypes ==
    ASSUME MeshTypes, NEW n \in VsNames, NEW s \in Svcs, NEW split \in Seq(Weighing), NEW k, NEW ok
    PROVE  AddVirtualService(n, s, split, k, ok) \/ DeleteVirtualService(n, k, ok) => MeshTypes'
<1>1. ASSUME AddVirtualService(n, s, split, k, ok) PROVE MeshTypes'
  <2> DEFINE v == Min(Fresh(VsUids, vsKey, vss))
  <2>1. v \in VsUids
    <3>1. v \in Fresh(VsUids, vsKey, vss)
      BY <1>1, FreshUid, UidAssumption DEF AddVirtualService
    <3> QED
      BY <3>1 DEF Fresh
  <2>2. [svc |-> s, split |-> split] \in VirtualService
    BY DEF VirtualService
  <2>3. /\ vsKey' = IF k >= 1 THEN [vsKey EXCEPT ![n] = v] ELSE vsKey
        /\ vss' = IF k >= 2 THEN [vss EXCEPT ![v] = [svc |-> s, split |-> split]] ELSE vss
        /\ UNCHANGED <<services, subsets, ruKey, rus, mapping>>
    BY <1>1 DEF AddVirtualService
  <2> HIDE DEF v
  <2> QED
    BY <2>1, <2>2, <2>3 DEF MeshTypes
<1>2. ASSUME DeleteVirtualService(n, k, ok) PROVE MeshTypes'
  BY <1>2 DEF DeleteVirtualService, MeshTypes
<1> QED
  BY <1>1, <1>2

(* The handlers of rolling updates: likewise.                              *)
LEMMA RuTypes ==
    ASSUME MeshTypes, NEW n \in RuNames, NEW k, NEW ok
    PROVE  /\ \A s \in Svcs, min \in Nat : \A busy : AddRollingUpdate(n, s, min, busy, k, ok) => MeshTypes'
           /\ \A phase \in {"Running", "Finished"} : UpdateRollingUpdateStatus(n, phase, k, ok) => MeshTypes'
           /\ DeleteRollingUpdate(n, k, ok) => MeshTypes'
<1>1. ASSUME NEW s \in Svcs, NEW min \in Nat, NEW busy, AddRollingUpdate(n, s, min, busy, k, ok)
      PROVE MeshTypes'
  <2> DEFINE r == Min(Fresh(RuUids \ busy, ruKey, rus))
             new == [name |-> n, svc |-> s, min |-> min, phase |-> "Pending"]
  <2>1. r \in RuUids
    <3>1. r \in Fresh(RuUids \ busy, ruKey, rus)
      BY <1>1, FreshUid, UidAssumption DEF AddRollingUpdate
    <3> QED
      BY <3>1 DEF Fresh
  <2>2. new \in RollingUpdate
    BY DEF RollingUpdate
  <2>3. /\ rus' = IF k >= 1 THEN [rus EXCEPT ![r] = new] ELSE rus
        /\ ruKey' = IF k >= 2 THEN [ruKey EXCEPT ![n] = r] ELSE ruKey
        /\ UNCHANGED <<services, subsets, vsKey, vss, mapping>>
    BY <1>1 DEF AddRollingUpdate
  <2> HIDE DEF r, new
  <2> QED
    BY <2>1, <2>2, <2>3 DEF MeshTypes
<1>2. ASSUME NEW phase \in {"Running", "Finished"}, UpdateRollingUpdateStatus(n, phase, k, ok)
      PROVE MeshTypes'
  <2>1. ruKey[n] \in RuUids /\ rus[ruKey[n]] \in RollingUpdate
    BY <1>2 DEF UpdateRollingUpdateStatus, RuKnown, MeshTypes
  <2>2. [rus[ruKey[n]] EXCEPT !.phase = phase] \in RollingUpdate
    BY <2>1 DEF RollingUpdate
  <2> QED
    BY <1>2, <2>1, <2>2 DEF UpdateRollingUpdateStatus, MeshTypes
<1>3. ASSUME DeleteRollingUpdate(n, k, ok) PROVE MeshTypes'
  BY <1>3 DEF DeleteRollingUpdate, MeshTypes
<1> QED
  BY <1>1, <1>2, <1>3

(* A step that leaves the mesh alone: likewise.                            *)
LEMMA MeshStays ==
    ASSUME MeshTypes, UNCHANGED meshVars
    PROVE  MeshTypes'
  BY DEF MeshTypes, meshVars

(* Requests of users: likewise.                                            *)
LEMMA UsersMeshTypes ==
    ASSUME Types, NEW k \in 0 .. 2, NEW ok \in BOOLEAN, Users(k, ok)
    PROVE  MeshTypes'
<1>1. PICK a \in asks : Ask(a, k, ok)
  BY DEF Users
<1>2. a \in Request
  BY AskedRequests DEF Types
<1>3. MeshTypes
  BY DEF Types
<1>4. CASE a.op = "AddSubset" /\ AddSubset(a.name, a.pods, k, ok)
  BY <1>2, <1>3, <1>4, RequestFields, SubsetTypes
<1>5. CASE a.op = "DeleteSubset" /\ DeleteSubset(a.name, k, ok)
  <2>1. a.name \in SubNames /\ {} \in SUBSET Names
    BY <1>2, <1>5, RequestFields
  <2> QED
    BY <1>3, <1>5, <2>1, SubsetTypes
<1>6. CASE a.op = "AddVirtualService" /\ AddVirtualService(a.name, a.svc, a.split, k, ok)
  BY <1>2, <1>3, <1>6, RequestFields, VsTypes
<1>7. CASE a.op = "DeleteVirtualService" /\ DeleteVirtualService(a.name, k, ok)
  BY <1>2, <1>3, <1>7, RequestFields DEF DeleteVirtualService, MeshTypes
<1>8. CASE a.op = "AddRollingUpdate" /\ AddRollingUpdate(a.name, a.svc, a.min, {r \in RuUids : Active(r)}, k, ok)
  BY <1>2, <1>3, <1>8, RequestFields, RuTypes
<1>9. CASE a.op = "DeleteRollingUpdate" /\ DeleteRollingUpdate(a.name, k, ok)
  BY <1>2, <1>3, <1>9, RequestFields, RuTypes
<1>10. CASE UNCHANGED meshVars
  BY <1>3, <1>10, MeshStays
<1>11. CASE a.op \in {"AddService", "DeleteService"} /\ (AddService(a.svc) \/ DeleteService(a.svc))
  BY <1>2, <1>3, <1>11, RequestFields DEF AddService, DeleteService, MeshTypes
<1> QED
  BY <1>1, <1>4, <1>5, <1>6, <1>7, <1>8, <1>9, <1>10, <1>11 DEF Ask

(* Requests of workers: likewise.                                          *)
LEMMA WorkMeshTypes ==
    ASSUME Types, NEW k \in 0 .. 2, NEW ok \in BOOLEAN, NEW r \in RuUids, Work(r, k, ok)
    PROVE  MeshTypes'
<1>1. MeshTypes
  BY DEF Types
<1>2. /\ worker[r].svc \in Svcs /\ worker[r].name \in RuNames
      /\ worker[r].batch \subseteq Names /\ NamesOf(worker[r]) \ worker[r].batch \subseteq Names
  BY WorkIsActive, WorkerFields DEF Types
<1> DEFINE w == worker[r]
           split == <<[subset |-> Available(w.svc), weight |-> 1], [subset |-> Blocked(w.svc), weight |-> 0]>>
<1>3. /\ Blocked(w.svc) \in SubNames /\ Available(w.svc) \in SubNames /\ RollingVs(w.svc) \in VsNames
  BY <1>2, MadeNames
<1>4. split \in Seq(Weighing)
  BY <1>3 DEF Weighing
<1>5. \A g : Refused(g, k, ok) => MeshTypes'
  BY <1>1, MeshStays DEF Refused, meshVars
<1>6. ASSUME NEW n \in {Blocked(w.svc), Available(w.svc)}, NEW ps \in SUBSET Names,
             AddSubset(n, ps, k, ok) \/ DeleteSubset(n, k, ok)
      PROVE  MeshTypes'
  BY <1>1, <1>3, <1>6, SubsetTypes
<1>7. DeleteSubset(Blocked(w.svc), k, ok) \/ DeleteSubset(Available(w.svc), k, ok) => MeshTypes'
  <2>1. {} \in SUBSET Names
    OBVIOUS
  <2> QED
    BY <1>6, <2>1
<1>8. AddVirtualService(RollingVs(w.svc), w.svc, split, k, ok) \/ DeleteVirtualService(RollingVs(w.svc), k, ok)
        => MeshTypes'
  <2> HIDE DEF split
  <2> QED
    BY <1>1, <1>2, <1>3, <1>4, VsTypes
<1>9. \A phase \in {"Running", "Finished"} : UpdateRollingUpdateStatus(w.name, phase, k, ok) => MeshTypes'
  BY <1>1, <1>2, RuTypes
<1>10. UNCHANGED meshVars => MeshTypes'
  BY <1>1, MeshStays
<1>11. Prepare(r, k, ok) => MeshTypes'
  <2>1. {} \in SUBSET Names
    OBVIOUS
  <2> QED
    BY <1>5, <1>6, <1>8, <1>9, <2>1 DEF Prepare
<1>12. Batch(r, k, ok) => MeshTypes'
  BY <1>2, <1>5, <1>6, <1>10 DEF Batch
<1>13. Finish(r, k, ok) => MeshTypes'
  BY <1>5, <1>7, <1>8, <1>9 DEF Finish
<1> QED
  BY <1>11, <1>12, <1>13 DEF Work

(* The mapping that an iteration saves is one.                             *)
LEMMA CompletedType ==
    ASSUME it \in Locals
    PROVE  Completed \in [Svcs -> (SUBSET EntryType) \union {None}]
<1>1. it.pods \subseteq Names \X PodUids /\ it.result \in [Svcs -> (SUBSET EntryType) \union {None}]
  BY DEF Locals
<1>2. ASSUME NEW s \in Svcs PROVE DefaultEntries(s, it.pods) \subseteq EntryType
  <2>1. \A p \in it.pods : Entry(None, p[2], 1) \in EntryType
    BY <1>1 DEF Entry, EntryType
  <2> QED
    BY <2>1 DEF DefaultEntries
<1> QED
  BY <1>1, <1>2 DEF Completed

(* The loop's only write: likewise.                                        *)
LEMMA LoopMeshTypes ==
    ASSUME Types, NEW k \in 0 .. 2, NEW ok \in BOOLEAN, Loop(k, ok)
    PROVE  MeshTypes'
<1>1. MeshTypes
  BY DEF Types
<1>2. UNCHANGED meshVars => MeshTypes'
  BY <1>1, MeshStays
<1>3. ASSUME AddSidecarMapping(k, ok) PROVE MeshTypes'
  BY <1>1, <1>3, CompletedType DEF AddSidecarMapping, SaveSidecarMapping, MeshTypes, Types, LoopTypes
<1>4. \A next, locals : Reads(ok, next, locals) => UNCHANGED meshVars
  BY DEF Reads
<1>5. \A answers, next, locals : GetsSubset(answers, ok, next, locals) => UNCHANGED meshVars
  BY <1>4 DEF GetsSubset, storeVars
<1>6. GetAllPods(ok) \/ GetAllServices(ok) \/ GetAllVirtualServices(ok) \/ GetAllRollingUpdates(ok)
        => UNCHANGED meshVars
  BY <1>4 DEF GetAllPods, GetAllServices, GetAllVirtualServices, GetAllRollingUpdates
<1>7. CountSubset(ok) \/ ReadSubset(ok) => UNCHANGED meshVars
  BY <1>5 DEF CountSubset, ReadSubset
<1>8. \A vs : TakeVirtualService(vs) => UNCHANGED meshVars
  BY DEF TakeVirtualService, storeVars
<1> QED
  BY <1>2, <1>3, <1>6, <1>7, <1>8 DEF Loop

(* Every step keeps the types of the store.                                *)
LEMMA MeshTypesKept ==
    ASSUME Types, [PilotNext]_allVars
    PROVE  MeshTypes'
<1>1. MeshTypes
  BY DEF Types
<1>2. \A k, ok, nm : PodRuns(nm, k, ok) => UNCHANGED meshVars
  BY DEF PodRuns
<1>3. Crash \/ Restart \/ UNCHANGED allVars => UNCHANGED meshVars
  BY DEF Crash, Restart, allVars, storeVars
<1> QED
  BY <1>1, <1>2, <1>3, MeshStays, UsersMeshTypes, LoopMeshTypes, WorkMeshTypes DEF PilotNext

-----------------------------------------------------------------------------
(* Types: the loop                                                         *)

(* What the listing finds are pods.                                        *)
LEMMA RunningPods == Running \subseteq Names \X PodUids
  BY DEF Running

(* The locals with which an iteration begins.                              *)
LEMMA FreshLocals == Fresh0 \in Locals /\ Fresh0.vs = None /\ Fresh0.counts = <<>> /\ Fresh0.got = <<>>
<1>1. NoEntries \in [Svcs -> (SUBSET EntryType) \union {None}]
  BY DEF NoEntries
<1> QED
  BY <1>1 DEF Fresh0, Locals

(* An iteration that is over, or about to begin.                           *)
LEMMA OverTypes ==
    ASSUME NEW next \in Phases \ {"count", "read"}, Goes(next, Fresh0)
    PROVE  LoopTypes'
  BY FreshLocals DEF Goes, LoopTypes, NoVs

(* A part of a virtual service's list.                                     *)
LEMMA SplitAt ==
    ASSUME NEW vs \in VirtualService, NEW i \in 1 .. Len(vs.split)
    PROVE  /\ vs.svc \in Svcs /\ vs.split \in Seq(Weighing) /\ i \in DOMAIN vs.split
           /\ vs.split[i].subset \in SubNames
           /\ vs.split[i].weight # None => vs.split[i].weight \in Nat
<1>1. vs.svc \in Svcs /\ vs.split \in Seq(Weighing)
  BY DEF VirtualService
<1>2. vs.split[i] \in Weighing /\ i \in DOMAIN vs.split
  BY <1>1
<1> QED
  BY <1>1, <1>2 DEF Weighing

(* An answer to GetSubsetByName is a set of pod names, of some size.       *)
LEMMA Answered ==
    ASSUME MeshTypes, it.vs \in VirtualService, NEW answers, Len(answers) \in Nat,
           Len(answers) < Len(it.vs.split), NextSubset(answers) # None
    PROVE  /\ NextSubset(answers) \in SUBSET Names
           /\ Cardinality(NextSubset(answers)) \in Nat
<1>1. Len(it.vs.split) \in Nat
  BY DEF VirtualService
<1>2. Len(answers) + 1 \in 1 .. Len(it.vs.split)
  BY <1>1
<1>3. it.vs.split[Len(answers) + 1].subset \in SubNames
  BY <1>2, SplitAt
<1>4. NextSubset(answers) \in SUBSET Names
  BY <1>3 DEF NextSubset, MeshTypes
<1> QED
  BY <1>4, NamesAssumption, FS_Subset, FS_CardinalityType

(* What an int32 keeps is a number,                                        *)
LEMMA Int32Type ==
    ASSUME NEW x \in Int
    PROVE  Int32(x) \in Int
<1>1. 2 * WeightLimit \in Nat \ {0}
  BY WeightLimitAssumption
<1>2. (x + WeightLimit) % (2 * WeightLimit) \in Int
  <2> DEFINE a == x + WeightLimit
             b == 2 * WeightLimit
  <2>1. a \in Int /\ b \in Nat \ {0}
    BY <1>1, WeightLimitAssumption
  <2> HIDE DEF a, b
  <2>2. a % b \in Int
    BY <2>1
  <2> QED
    BY <2>2 DEF a, b
<1> QED
  BY <1>2, WeightLimitAssumption DEF Int32

(* and the number itself if it has room.                                   *)
LEMMA Int32Keeps ==
    ASSUME NEW x \in Nat, x < WeightLimit
    PROVE  Int32(x) = x
<1> DEFINE a == x + WeightLimit
           b == 2 * WeightLimit
<1>1. a \in Nat /\ b \in Nat \ {0} /\ a < b
  BY WeightLimitAssumption
<1>2. a % b = a
  <2> HIDE DEF a, b
  <2> QED
    BY <1>1
<1> QED
  BY <1>2, WeightLimitAssumption DEF Int32

(* calculate: the weights it computes are numbers, negative ones if a      *)
(* product wraps.                                                          *)
LEMMA WeightTypes ==
    ASSUME NEW split \in Seq(Weighing), NEW counts \in Seq(Nat), Len(counts) <= Len(split),
           \A i \in 1 .. Len(counts) : split[i].weight # None,
           NEW i \in 1 .. Len(counts)
    PROVE  Calculate(split, counts)[i] \in Int
<1> DEFINE S == {j \in DOMAIN counts \ {i} : counts[j] # 0}
<1>1. DOMAIN counts = 1 .. Len(counts) /\ Len(counts) \in Nat /\ Len(split) \in Nat
  OBVIOUS
<1>2. IsFiniteSet(1 .. Len(counts))
  BY <1>1, FS_Interval
<1>3. IsFiniteSet(S)
  BY <1>1, <1>2, FS_Subset
<1>4. \A j \in S : counts[j] \in Nat
  OBVIOUS
<1>5. split[i] \in Weighing
  BY <1>1
<1>6. split[i].weight \in Nat
  BY <1>5 DEF Weighing
<1>7. Scaled(split[i].weight, counts, S) \in Nat
  <2> HIDE DEF S
  <2> QED
    BY <1>3, <1>4, <1>6, ScaledNat
<1>8. Calculate(split, counts)[i] = Int32(Scaled(split[i].weight, counts, S))
  BY <1>1 DEF Calculate, TimesOthers
<1> HIDE DEF S
<1> QED
  BY <1>7, <1>8, Int32Type

(* The entries of a virtual service are entries of a mapping.              *)
LEMMA EntriesTypes ==
    ASSUME NEW vs \in VirtualService, NEW counts \in Seq(Nat), NEW got \in Seq(SUBSET Names),
           NEW seen \in SUBSET (Names \X PodUids), Len(got) = Len(vs.split),
           ByURL(vs) \/ (/\ Len(counts) = Len(vs.split)
                         /\ \A i \in 1 .. Len(counts) : vs.split[i].weight # None)
    PROVE  EntriesOf(vs, counts, got, seen) \in SUBSET EntryType
<1> DEFINE weight(i) == IF ByURL(vs) THEN None ELSE Calculate(vs.split, counts)[i]
           E(i) == {Entry(vs.split[i].subset, PodNamed(vs.svc, nm, seen), weight(i)) : nm \in got[i]}
<1>1. EntriesOf(vs, counts, got, seen) = UNION {E(i) : i \in DOMAIN got}
  BY DEF EntriesOf
<1>2. vs.split \in Seq(Weighing)
  BY DEF VirtualService
<1>3. ASSUME NEW i \in DOMAIN got, NEW nm \in got[i]
      PROVE  Entry(vs.split[i].subset, PodNamed(vs.svc, nm, seen), weight(i)) \in EntryType
  <2>1. i \in 1 .. Len(vs.split)
    BY <1>3
  <2>2. vs.split[i].subset \in SubNames
    BY <2>1, SplitAt
  <2>3. PodNamed(vs.svc, nm, seen) \in PodUids \union {None}
    BY DEF PodNamed
  <2>4. weight(i) \in Int \union {None}
    <3>1. CASE ByURL(vs)
      BY <3>1
    <3>2. CASE ~ ByURL(vs)
      <4>1. Len(counts) <= Len(vs.split) /\ i \in 1 .. Len(counts)
        BY <1>2, <2>1, <3>2
      <4>2. Calculate(vs.split, counts)[i] \in Int
        BY <1>2, <3>2, <4>1, WeightTypes
      <4> QED
        BY <3>2, <4>2
    <3> QED
      BY <3>1, <3>2
  <2> HIDE DEF weight
  <2> QED
    BY <2>2, <2>3, <2>4 DEF Entry, EntryType
<1>4. ASSUME NEW e \in UNION {E(i) : i \in DOMAIN got} PROVE e \in EntryType
  BY <1>3, <1>4
<1> QED
  BY <1>1, <1>4

(* The four listings keep the types of the loop.                           *)
LEMMA ListingTypes ==
    ASSUME Types, NEW ok \in BOOLEAN,
           GetAllPods(ok) \/ GetAllServices(ok) \/ GetAllVirtualServices(ok) \/ GetAllRollingUpdates(ok)
    PROVE  LoopTypes'
<1>1. LoopTypes /\ MeshTypes
  BY DEF Types
<1>2. it \in Locals
  BY <1>1 DEF LoopTypes
<1>3. ASSUME NEW next \in Phases \ {"count", "read"}, NEW locals \in Locals, Reads(ok, next, locals),
             locals.vs = None, locals.counts = <<>>, locals.got = <<>>
      PROVE  LoopTypes'
  <2>1. CASE ok
    BY <1>3, <2>1 DEF Reads, Goes, LoopTypes, NoVs
  <2>2. CASE ~ ok
    BY <1>3, <2>2, OverTypes DEF Reads, Phases
  <2> QED
    BY <2>1, <2>2
<1>4. CASE GetAllPods(ok)
  <2> DEFINE l == [it EXCEPT !.pods = Running]
  <2>1. NoVs /\ Reads(ok, "services", l)
    BY <1>1, <1>4 DEF GetAllPods, LoopTypes
  <2>2. l \in Locals /\ l.vs = None /\ l.counts = <<>> /\ l.got = <<>>
    BY <1>2, <2>1, RunningPods DEF Locals, NoVs
  <2> HIDE DEF l
  <2> QED
    BY <1>3, <2>1, <2>2 DEF Phases
<1>5. CASE GetAllServices(ok)
  <2> DEFINE l == [it EXCEPT !.services = services]
  <2>1. NoVs /\ Reads(ok, "vss", l)
    BY <1>1, <1>5 DEF GetAllServices, LoopTypes
  <2>2. l \in Locals /\ l.vs = None /\ l.counts = <<>> /\ l.got = <<>>
    BY <1>1, <1>2, <2>1 DEF Locals, NoVs, MeshTypes
  <2> HIDE DEF l
  <2> QED
    BY <1>3, <2>1, <2>2 DEF Phases
<1>6. CASE GetAllVirtualServices(ok)
  <2> DEFINE todo == {vss[v] : v \in {u \in VsUids : vss[u] # None}}
             l == [it EXCEPT !.todo = todo]
  <2>1. NoVs /\ Reads(ok, "rus", l)
    BY <1>1, <1>6 DEF GetAllVirtualServices, LoopTypes
  <2>2. todo \in SUBSET VirtualService
    BY <1>1 DEF MeshTypes
  <2> HIDE DEF todo
  <2>3. l \in Locals /\ l.vs = None /\ l.counts = <<>> /\ l.got = <<>>
    BY <1>2, <2>1, <2>2 DEF Locals, NoVs
  <2> HIDE DEF l
  <2> QED
    BY <1>3, <2>1, <2>3 DEF Phases
<1>7. CASE GetAllRollingUpdates(ok)
  <2>1. NoVs /\ Reads(ok, "vs", it)
    BY <1>1, <1>7 DEF GetAllRollingUpdates, LoopTypes
  <2> QED
    BY <1>2, <1>3, <2>1 DEF Phases, NoVs
<1> QED
  BY <1>4, <1>5, <1>6, <1>7

(* Taking the next virtual service does: one without a subset panics, so   *)
(* there is a first to ask for.                                            *)
LEMMA TakingTypes ==
    ASSUME Types, NEW vs, TakeVirtualService(vs)
    PROVE  LoopTypes'
<1>1. it \in Locals /\ NoVs
  BY DEF Types, LoopTypes, TakeVirtualService
<1>2. vs \in VirtualService /\ vs # None /\ it.todo \subseteq VirtualService
  BY <1>1, MeshNoneAssumption DEF TakeVirtualService, Locals
<1>3. CASE Goes("dead", Fresh0)
  BY <1>3, OverTypes DEF Phases
<1>4. CASE ~ Panics(vs) /\ Goes(IF ByURL(vs) THEN "read" ELSE "count", [it EXCEPT !.todo = @ \ {vs}, !.vs = vs])
  <2>1. it' \in Locals /\ it'.vs = vs /\ it'.counts = <<>> /\ it'.got = <<>>
    BY <1>1, <1>2, <1>4 DEF Goes, Locals, NoVs
  <2>2. vs.split \in Seq(Weighing) /\ vs.split # <<>>
    BY <1>2, <1>4 DEF VirtualService, Panics
  <2>3. Len(vs.split) \in Nat /\ Len(vs.split) # 0
    BY <2>2
  <2>4. Len(it'.counts) = 0 /\ Len(it'.got) = 0
    BY <2>1
  <2>5. pc' \in {"count", "read"} /\ (pc' = "count" <=> ~ ByURL(vs))
    BY <1>4 DEF Goes
  <2>6. Reading'
    BY <1>2, <2>1, <2>2, <2>3, <2>4, <2>5 DEF Reading, ByURL
  <2> QED
    BY <2>1, <2>5, <2>6 DEF LoopTypes, Phases
<1> QED
  BY <1>3, <1>4 DEF TakeVirtualService

(* What CountSubset and ReadSubset begin with.                             *)
LEMMA ReadingFacts ==
    ASSUME LoopTypes, pc \in {"count", "read"}
    PROVE  /\ it \in Locals /\ Reading /\ it.vs \in VirtualService /\ it.vs.split \in Seq(Weighing)
           /\ it.counts \in Seq(Nat) /\ it.got \in Seq(SUBSET Names)
           /\ Len(it.counts) \in Nat /\ Len(it.got) \in Nat /\ Len(it.vs.split) \in Nat
<1>1. it \in Locals /\ Reading
  BY DEF LoopTypes
<1>2. it.vs \in VirtualService /\ it.counts \in Seq(Nat) /\ it.got \in Seq(SUBSET Names)
  BY <1>1 DEF Locals, Reading
<1>3. it.vs.split \in Seq(Weighing)
  BY <1>2 DEF VirtualService
<1> QED
  BY <1>1, <1>2, <1>3

(* The first pass does: a weight that is missing panics.                   *)
LEMMA CountingTypes ==
    ASSUME Types, NEW ok \in BOOLEAN, CountSubset(ok)
    PROVE  LoopTypes'
<1>1. LoopTypes /\ MeshTypes /\ pc = "count"
  BY DEF Types, CountSubset
<1>2. /\ it \in Locals /\ Reading /\ it.vs \in VirtualService /\ it.vs.split \in Seq(Weighing)
      /\ it.counts \in Seq(Nat) /\ Len(it.counts) \in Nat /\ Len(it.vs.split) \in Nat
  BY <1>1, ReadingFacts
<1>3. Len(it.counts) < Len(it.vs.split) /\ it.got = <<>> /\ ~ ByURL(it.vs) /\ it.vs # None /\ it.vs.split # <<>>
      /\ \A i \in 1 .. Len(it.counts) : it.vs.split[i].weight # None
  BY <1>1, <1>2 DEF Reading
<1> DEFINE n == Len(it.counts) + 1
           panics == ok /\ it.vs.split[n].weight = None
           next == IF panics THEN "dead" ELSE IF n = Len(it.vs.split) THEN "read" ELSE "count"
           counts == Append(it.counts, Cardinality(NextSubset(it.counts)))
           locals == IF panics THEN Fresh0 ELSE [it EXCEPT !.counts = counts]
<1>4. GetsSubset(it.counts, ok, next, locals)
  BY DEF CountSubset
<1>5. CASE Goes("pods", Fresh0)
  BY <1>5, OverTypes DEF Phases
<1>6. CASE ok /\ NextSubset(it.counts) # None /\ Goes(next, locals)
  <2>1. CASE panics
    BY <1>6, <2>1, OverTypes DEF Phases
  <2>2. CASE ~ panics
    <3>1. Cardinality(NextSubset(it.counts)) \in Nat
      BY <1>1, <1>2, <1>3, <1>6, Answered
    <3>2. counts \in Seq(Nat) /\ Len(counts) = Len(it.counts) + 1
      BY <1>2, <3>1
    <3> HIDE DEF counts
    <3>3. it' = [it EXCEPT !.counts = counts] /\ pc' = IF n = Len(it.vs.split) THEN "read" ELSE "count"
      BY <1>6, <2>2 DEF Goes
    <3>4. it' \in Locals /\ it'.vs = it.vs /\ it'.counts = counts /\ it'.got = <<>>
      BY <1>2, <1>3, <3>2, <3>3 DEF Locals
    <3>5. \A i \in 1 .. Len(counts) : it.vs.split[i].weight # None
      <4>1. it.vs.split[n].weight # None
        BY <1>6, <2>2
      <4> QED
        BY <1>2, <1>3, <3>2, <4>1
    <3>6. Len(it'.got) = 0 /\ Len(it.vs.split) # 0
      BY <1>2, <1>3, <3>4
    <3>7. Len(counts) <= Len(it.vs.split) /\ (pc' = "count" => Len(counts) < Len(it.vs.split))
          /\ (pc' = "read" => Len(counts) = Len(it.vs.split)) /\ pc' \in {"count", "read"}
      BY <1>2, <1>3, <3>2, <3>3
    <3>8. Reading'
      BY <1>2, <1>3, <3>4, <3>5, <3>6, <3>7 DEF Reading, ByURL
    <3> QED
      BY <3>4, <3>7, <3>8 DEF LoopTypes, Phases
  <2> QED
    BY <2>1, <2>2
<1> QED
  <2> HIDE DEF next, locals
  <2> QED
    BY <1>4, <1>5, <1>6 DEF GetsSubset, Reads

(* The second pass does.                                                   *)
LEMMA ReadTypes ==
    ASSUME Types, NEW ok \in BOOLEAN, ReadSubset(ok)
    PROVE  LoopTypes'
<1>1. LoopTypes /\ MeshTypes /\ pc = "read"
  BY DEF Types, ReadSubset
<1>2. /\ it \in Locals /\ Reading /\ it.vs \in VirtualService /\ it.vs.split \in Seq(Weighing)
      /\ it.counts \in Seq(Nat) /\ Len(it.counts) \in Nat /\ Len(it.vs.split) \in Nat
      /\ it.got \in Seq(SUBSET Names) /\ Len(it.got) \in Nat
  BY <1>1, ReadingFacts
<1>3. /\ Len(it.got) < Len(it.vs.split) /\ it.vs # None /\ it.vs.split # <<>>
      /\ Len(it.counts) <= Len(it.vs.split)
      /\ ByURL(it.vs) \/ Len(it.counts) = Len(it.vs.split)
      /\ \A i \in 1 .. Len(it.counts) : it.vs.split[i].weight # None
  BY <1>1, <1>2 DEF Reading
<1> DEFINE got == Append(it.got, NextSubset(it.got))
           entries == EntriesOf(it.vs, it.counts, got, it.pods)
           l1 == [it EXCEPT !.got = got]
           l2 == [it EXCEPT !.vs = None, !.counts = <<>>, !.got = <<>>, !.result = [@ EXCEPT ![it.vs.svc] = entries]]
<1>4. \/ Len(got) < Len(it.vs.split) /\ GetsSubset(it.got, ok, "read", l1)
      \/ ~ (Len(got) < Len(it.vs.split)) /\ GetsSubset(it.got, ok, "vs", l2)
  BY DEF ReadSubset
<1>5. CASE Goes("pods", Fresh0)
  BY <1>5, OverTypes DEF Phases
<1>6. ASSUME NextSubset(it.got) # None
      PROVE  got \in Seq(SUBSET Names) /\ Len(got) = Len(it.got) + 1
  <2>1. NextSubset(it.got) \in SUBSET Names
    BY <1>1, <1>2, <1>3, <1>6, Answered
  <2> QED
    BY <1>2, <2>1
<1> HIDE DEF got
<1>7. CASE NextSubset(it.got) # None /\ Len(got) < Len(it.vs.split) /\ Goes("read", l1)
  <2>1. it' \in Locals /\ it'.vs = it.vs /\ it'.counts = it.counts /\ it'.got = got /\ pc' = "read"
    BY <1>2, <1>6, <1>7 DEF Goes, Locals
  <2>2. Reading'
    BY <1>3, <1>7, <2>1 DEF Reading, ByURL
  <2> QED
    BY <2>1, <2>2 DEF LoopTypes, Phases
<1>8. CASE NextSubset(it.got) # None /\ ~ (Len(got) < Len(it.vs.split)) /\ Goes("vs", l2)
  <2>1. Len(got) = Len(it.vs.split) /\ got \in Seq(SUBSET Names)
    BY <1>2, <1>3, <1>6, <1>8
  <2>2. it.pods \in SUBSET (Names \X PodUids) /\ it.vs.svc \in Svcs
    BY <1>2 DEF Locals, VirtualService
  <2>3. entries \in SUBSET EntryType
    <3> HIDE DEF LoopTypes, Types
    <3>1. \/ ByURL(it.vs)
          \/ /\ Len(it.counts) = Len(it.vs.split)
             /\ \A i \in 1 .. Len(it.counts) : it.vs.split[i].weight # None
      BY <1>3
    <3> QED
      BY <1>2, <2>1, <2>2, <3>1, EntriesTypes
  <2> HIDE DEF entries
  <2> DEFINE result == [it.result EXCEPT ![it.vs.svc] = entries]
  <2>4. result \in [Svcs -> (SUBSET EntryType) \union {None}]
    BY <1>2, <2>2, <2>3 DEF Locals
  <2>5. it' = [it EXCEPT !.vs = None, !.counts = <<>>, !.got = <<>>, !.result = result] /\ pc' = "vs"
    BY <1>8 DEF Goes
  <2> HIDE DEF result
  <2>6. it' \in Locals /\ it'.vs = None /\ it'.counts = <<>> /\ it'.got = <<>>
    <3>1. <<>> \in Seq(Nat) /\ <<>> \in Seq(SUBSET Names)
      OBVIOUS
    <3>2. it'.vs = None /\ it'.counts = <<>> /\ it'.got = <<>>
      BY <1>2, <2>5 DEF Locals
    <3> QED
      BY <1>2, <2>4, <2>5, <3>1, <3>2, Zenon DEF Locals
  <2> QED
    BY <2>5, <2>6 DEF LoopTypes, Phases, NoVs
<1> QED
  <2> HIDE DEF l1, l2
  <2> QED
    BY <1>4, <1>5, <1>7, <1>8 DEF GetsSubset, Reads

(* Every step keeps the types of the loop.                                 *)
LEMMA LoopTypesKept ==
    ASSUME Types, [PilotNext]_allVars
    PROVE  LoopTypes'
<1>1. ASSUME UNCHANGED <<pc, it>> PROVE LoopTypes'
  BY <1>1 DEF Types, LoopTypes, Reading, NoVs, ByURL
<1>2. \A k, ok : Users(k, ok) => UNCHANGED <<pc, it>>
  BY DEF Users, pilotVars
<1>3. \A k, ok, nm : PodRuns(nm, k, ok) => UNCHANGED <<pc, it>>
  BY DEF PodRuns, pilotVars
<1>4. \A k, ok, r : Work(r, k, ok) => UNCHANGED <<pc, it>>
  BY DEF Work
<1>5. UNCHANGED allVars => UNCHANGED <<pc, it>>
  BY DEF allVars, pilotVars
<1>6. Crash => LoopTypes'
  BY OverTypes DEF Crash, Phases, Goes
<1>7. ASSUME Restart PROVE LoopTypes'
  BY <1>7 DEF Restart, Types, LoopTypes, NoVs, Phases
<1>8. \A k, ok : AddSidecarMapping(k, ok) => LoopTypes'
  BY OverTypes DEF AddSidecarMapping, Phases
<1>9. ASSUME NEW k, NEW ok \in BOOLEAN, Loop(k, ok) PROVE LoopTypes'
  BY <1>8, <1>9, ListingTypes, TakingTypes, CountingTypes, ReadTypes DEF Loop
<1> QED
  BY <1>1, <1>2, <1>3, <1>4, <1>5, <1>6, <1>7, <1>9 DEF PilotNext

-----------------------------------------------------------------------------
(* Types: workers and users; the type invariant                            *)

(* doRollingUpdate: a worker begins with the locals of one.                *)
LEMMA NewWorkerType ==
    ASSUME MeshTypes, it \in Locals, NEW r \in RuUids, Starts(r)
    PROVE  NewWorker(r) \in Workers
<1>1. rus[r] \in RollingUpdate
  BY DEF Starts, MeshTypes
<1> DEFINE ps == PodsOf(rus[r].svc)
           w == NewWorker(r)
<1>2. ps \subseteq Names \X PodUids
  BY DEF PodsOf, Locals
<1>3. {p[1] : p \in ps} \subseteq Names
  BY <1>2
<1>4. /\ rus[r].name \in RuNames /\ rus[r].svc \in Svcs /\ rus[r].min \in Nat
  BY <1>1 DEF RollingUpdate
<1>5. /\ w.pc = "status" /\ w.name = rus[r].name /\ w.svc = rus[r].svc /\ w.min = rus[r].min
      /\ w.pods = ps /\ w.left = {p[1] : p \in ps} /\ w.batch = {} /\ w.todo = {}
      /\ w = [pc |-> "status", name |-> rus[r].name, svc |-> rus[r].svc, min |-> rus[r].min,
              pods |-> ps, left |-> {p[1] : p \in ps}, batch |-> {}, todo |-> {}]
  BY DEF NewWorker
<1> HIDE DEF ps, w
<1>6. w \in WorkerType
  BY <1>2, <1>3, <1>4, <1>5 DEF WorkerType, Labels
<1>7. IsWorker(w)
  BY <1>2, <1>4, <1>5 DEF IsWorker, Labels, NamesOf
<1> QED
  BY <1>5, <1>6, <1>7 DEF Workers, w

(* A worker that moves on.                                                 *)
LEMMA MovedWorker ==
    ASSUME NEW w \in Workers, NEW label \in Labels, label \notin {"delete", "add"}, w.todo = {}
    PROVE  [w EXCEPT !.pc = label] \in Workers
<1>1. w \in WorkerType /\ IsWorker(w)
  BY DEF Workers
<1> DEFINE v == [w EXCEPT !.pc = label]
<1>2. /\ v \in WorkerType /\ v.pc = label /\ v.name = w.name /\ v.svc = w.svc /\ v.min = w.min
      /\ v.pods = w.pods /\ v.left = w.left /\ v.batch = w.batch /\ v.todo = w.todo
  BY <1>1 DEF WorkerType
<1> HIDE DEF v
<1>3. IsWorker(v)
  BY <1>1, <1>2 DEF IsWorker, NamesOf
<1>4. v \in Workers
  BY <1>2, <1>3 DEF Workers
<1> QED
  BY <1>4 DEF v

(* A worker at its deletions or additions.                                 *)
LEMMA BusyWorker ==
    ASSUME NEW w \in Workers, NEW label \in {"delete", "add"}, NEW todo \in SUBSET w.batch
    PROVE  [w EXCEPT !.pc = label, !.todo = todo] \in Workers
<1>1. w \in WorkerType /\ IsWorker(w)
  BY DEF Workers
<1> DEFINE v == [w EXCEPT !.pc = label, !.todo = todo]
<1>2. w.batch \subseteq Names /\ label \in Labels
  BY <1>1 DEF WorkerType, Labels
<1>3. /\ v \in WorkerType /\ v.pc = label /\ v.name = w.name /\ v.svc = w.svc /\ v.min = w.min
      /\ v.pods = w.pods /\ v.left = w.left /\ v.batch = w.batch /\ v.todo = todo
  BY <1>1, <1>2 DEF WorkerType
<1> HIDE DEF v
<1>4. IsWorker(v)
  BY <1>1, <1>2, <1>3 DEF IsWorker, NamesOf
<1>5. v \in Workers
  BY <1>3, <1>4 DEF Workers
<1> QED
  BY <1>5 DEF v

(* A worker at its next batch, or through.                                 *)
LEMMA BatchWorker ==
    ASSUME NEW w \in Workers, NEW n \in NextBatch(w), w.todo = {}
    PROVE  n \in Workers
<1>1. w \in WorkerType /\ IsWorker(w)
  BY DEF Workers
<1>2. CASE n = [w EXCEPT !.pc = "finished"]
  BY <1>2, MovedWorker DEF Labels
<1>3. ASSUME NEW b \in SUBSET w.left, n = [w EXCEPT !.pc = "blocked", !.batch = b, !.left = @ \ b]
      PROVE  n \in Workers
  <2>1. w.left \subseteq Names /\ b \subseteq Names /\ w.left \ b \subseteq Names
    BY <1>1 DEF WorkerType
  <2>2. /\ n \in WorkerType /\ n.pc = "blocked" /\ n.name = w.name /\ n.svc = w.svc /\ n.min = w.min
        /\ n.pods = w.pods /\ n.left = w.left \ b /\ n.batch = b /\ n.todo = w.todo
    BY <1>1, <1>3, <2>1 DEF WorkerType, Labels
  <2>3. IsWorker(n)
    BY <1>1, <2>2 DEF IsWorker, NamesOf, Labels
  <2> QED
    BY <2>2, <2>3 DEF Workers
<1>4. n = [w EXCEPT !.pc = "finished"]
      \/ \E b \in SUBSET w.left : n = [w EXCEPT !.pc = "blocked", !.batch = b, !.left = @ \ b]
  BY DEF NextBatch
<1> QED
  BY <1>2, <1>3, <1>4

(* A step to a worker's locals, or to none, keeps the workers' types.      *)
LEMMA BecomesTypes ==
    ASSUME WorkerTypes, NEW r \in RuUids, NEW w \in {Off} \union Workers, Becomes(r, w)
    PROVE  WorkerTypes'
  BY DEF WorkerTypes, Becomes

(* A worker's step keeps them.                                             *)
LEMMA WorkTypes ==
    ASSUME Types, NEW k \in 0 .. 2, NEW ok \in BOOLEAN, NEW r \in RuUids, Work(r, k, ok)
    PROVE  WorkerTypes'
<1> DEFINE w == worker[r]
<1>1. WorkerTypes /\ w \in Workers
  BY WorkIsActive, WorkerFields DEF Types
<1>2. \A n : n \in {Off} \union Workers /\ Becomes(r, n) => WorkerTypes'
  BY <1>1, BecomesTypes
<1>3. w.pc \notin {"delete", "add"} => w.todo = {}
  BY <1>1 DEF Workers
<1>4. ASSUME NEW label \in Labels \ {"delete", "add"}, w.pc \notin {"delete", "add"}
      PROVE  Moves(r, label) \in Workers
  BY <1>1, <1>3, <1>4, MovedWorker DEF Moves
<1>5. ASSUME NEW todo \in SUBSET w.batch, NEW label \in {"delete", "add"}
      PROVE  [w EXCEPT !.pc = label, !.todo = todo] \in Workers
  BY <1>1, BusyWorker
<1>6. w \in WorkerType /\ IsWorker(w)
  BY <1>1 DEF Workers
<1> HIDE DEF w
<1>7. ASSUME NEW n, n \in NextBatch(w), w.todo = {} PROVE n \in Workers
  BY <1>1, <1>7, BatchWorker
<1>8. Prepare(r, k, ok) => WorkerTypes'
  BY <1>2, <1>3, <1>4, <1>7 DEF Prepare, At, Labels, w
<1>9. Finish(r, k, ok) => WorkerTypes'
  BY <1>2, <1>4 DEF Finish, At, Labels, w
<1> DEFINE without(nm) == [w EXCEPT !.todo = @ \ {nm}]
           on == NextBatch([w EXCEPT !.todo = {}])
<1>10. ASSUME Batch(r, k, ok), w.pc = "blocked" PROVE WorkerTypes'
  <2>1. Becomes(r, Moves(r, "available"))
    BY <1>10 DEF Batch, At, w
  <2> QED
    BY <1>2, <1>4, <1>10, <2>1 DEF Labels
<1>11. ASSUME Batch(r, k, ok), w.pc = "available" PROVE WorkerTypes'
  <2>1. Becomes(r, [w EXCEPT !.pc = "delete", !.todo = w.batch])
    BY <1>11 DEF Batch, At, w
  <2> QED
    BY <1>2, <1>5, <2>1
<1>12. ASSUME NEW nm, w.pc \in {"delete", "add"} PROVE without(nm) \in Workers
  <2>1. without(nm) = [w EXCEPT !.pc = w.pc, !.todo = w.todo \ {nm}]
    BY <1>6 DEF WorkerType
  <2>2. w.todo \ {nm} \in SUBSET w.batch
    BY <1>6 DEF IsWorker
  <2> QED
    BY <1>5, <1>12, <2>1, <2>2
<1>13. ASSUME w.pc = "add", NEW n \in on PROVE n \in Workers
  <2>1. [w EXCEPT !.todo = {}] = [w EXCEPT !.pc = w.pc, !.todo = {}] /\ [w EXCEPT !.todo = {}].todo = {}
    BY <1>6 DEF WorkerType
  <2>2. [w EXCEPT !.todo = {}] \in Workers
    BY <1>5, <1>13, <2>1
  <2> QED
    BY <2>1, <2>2, <1>13, BatchWorker
<1>14. ASSUME Batch(r, k, ok), w.pc = "delete" PROVE WorkerTypes'
  <2>1. \E nm : Becomes(r, [w EXCEPT !.pc = "add", !.todo = w.batch]) \/ Becomes(r, without(nm))
    BY <1>14 DEF Batch, At, w
  <2>2. w.batch \in SUBSET w.batch /\ "add" \in {"delete", "add"}
    OBVIOUS
  <2>3. [w EXCEPT !.pc = "add", !.todo = w.batch] \in Workers
    BY <1>5, <2>2
  <2> DEFINE full == [w EXCEPT !.pc = "add", !.todo = w.batch]
  <2> HIDE DEF without, full
  <2> QED
    BY <1>2, <1>12, <1>14, <2>1, <2>3 DEF full
<1>15. ASSUME Batch(r, k, ok), w.pc = "add" PROVE WorkerTypes'
  <2>1. \E nm \in w.todo : IF w.todo = {nm} THEN \E n \in on : Becomes(r, n) ELSE Becomes(r, without(nm))
    BY <1>15 DEF Batch, At, w
  <2> HIDE DEF without, on
  <2> QED
    BY <1>2, <1>12, <1>13, <1>15, <2>1
<1>16. Batch(r, k, ok) => w.pc \in {"blocked", "available", "delete", "add"}
  BY DEF Batch, At, w
<1> QED
  BY <1>8, <1>9, <1>10, <1>11, <1>14, <1>15, <1>16 DEF Work

(* Every step keeps them.                                                  *)
LEMMA WorkerTypesKept ==
    ASSUME Types, [PilotNext]_allVars
    PROVE  WorkerTypes'
<1>1. WorkerTypes /\ MeshTypes /\ it \in Locals
  BY DEF Types, LoopTypes
<1>2. UNCHANGED worker => WorkerTypes'
  BY <1>1 DEF WorkerTypes
<1>3. WorkersDie \/ worker' = [r \in RuUids |-> Off] => WorkerTypes'
  BY DEF WorkersDie, WorkerTypes
<1>4. ASSUME NEW ok, GetAllRollingUpdates(ok) PROVE WorkerTypes'
  <2>1. \A r \in RuUids : Starts(r) => NewWorker(r) \in Workers
    BY <1>1, NewWorkerType
  <2> QED
    BY <1>1, <1>2, <1>4, <2>1 DEF GetAllRollingUpdates, WorkerTypes
<1>5. \A ok : GetAllPods(ok) \/ GetAllServices(ok) \/ GetAllVirtualServices(ok) \/ ReadSubset(ok)
        => UNCHANGED worker
  BY DEF GetAllPods, GetAllServices, GetAllVirtualServices, ReadSubset
<1>6. \A ok : CountSubset(ok) => UNCHANGED worker \/ WorkersDie
  BY DEF CountSubset
<1>7. \A vs : TakeVirtualService(vs) => UNCHANGED worker \/ WorkersDie
  BY DEF TakeVirtualService
<1>8. \A k, ok : AddSidecarMapping(k, ok) => UNCHANGED worker
  BY DEF AddSidecarMapping
<1>9. \A k, ok : Loop(k, ok) => WorkerTypes'
  BY <1>2, <1>3, <1>4, <1>5, <1>6, <1>7, <1>8 DEF Loop
<1>10. \A k, ok, nm : Users(k, ok) \/ PodRuns(nm, k, ok) => UNCHANGED worker
  BY DEF Users, PodRuns, pilotVars
<1>11. Restart \/ UNCHANGED allVars => UNCHANGED worker
  BY DEF Restart, allVars, pilotVars
<1>12. Crash => WorkerTypes'
  BY <1>3 DEF Crash
<1> QED
  BY <1>2, <1>9, <1>10, <1>11, <1>12, WorkTypes DEF PilotNext

(* What users may ask is decided at the start.                             *)
LEMMA ScenarioKept ==
    ASSUME Types, [PilotNext]_allVars
    PROVE  ScenarioTypes' /\ scenario' = scenario
<1>1. ASSUME scenario' = scenario, asks' \subseteq asks PROVE ScenarioTypes'
  BY <1>1 DEF Types, ScenarioTypes
<1>2. \A k, ok : Users(k, ok) => scenario' = scenario /\ asks' \subseteq asks
  BY DEF Users
<1>3. \A k, ok, nm : PodRuns(nm, k, ok) => UNCHANGED <<scenario, asks>>
  BY DEF PodRuns
<1>4. Crash \/ Restart \/ UNCHANGED allVars => UNCHANGED <<scenario, asks>>
  BY DEF Crash, Restart, allVars
<1>5. \A k, ok, r : Work(r, k, ok) => UNCHANGED <<scenario, asks>>
  BY DEF Work
<1>6. \A k, ok : Loop(k, ok) => UNCHANGED <<scenario, asks>>
  BY DEF Loop, GetAllPods, GetAllServices, GetAllVirtualServices, GetAllRollingUpdates, CountSubset,
         ReadSubset, TakeVirtualService, AddSidecarMapping, GetsSubset, Reads
<1> QED
  BY <1>1, <1>2, <1>3, <1>4, <1>5, <1>6 DEF PilotNext

(* The type invariant is inductive.                                        *)
LEMMA TypesKept == Types /\ [PilotNext]_allVars => Types'
  BY RegistryInvKept, MeshTypesKept, LoopTypesKept, WorkerTypesKept, ScenarioKept DEF Types

(* The pods at first have uids.                                            *)
LEMMA FirstUids ==
    ASSUME NEW sc \in Scenarios, NEW nm \in sc.pods
    PROVE  /\ nm \in Names /\ Min(UidsOf[nm]) \in UidsOf[nm] /\ Min(UidsOf[nm]) \in PodUids
           /\ Min(UidsOf[nm]) # None
<1>1. nm \in Names /\ UidsOf[nm] # {}
  BY ScenarioAssumption
<1>2. UidsOf[nm] \subseteq PodUids /\ UidsOf[nm] \subseteq Nat
  BY <1>1, UidsOfAssumption, UidAssumption
<1>3. Min(UidsOf[nm]) \in UidsOf[nm]
  BY <1>1, <1>2, MinIsMember
<1> QED
  BY <1>1, <1>2, <1>3, NoneAssumption

(* The pods at first: every name leads to its pod, every pod is led to.    *)
LEMMA FirstPods ==
    ASSUME PilotInit
    PROVE  /\ scenario \in Scenarios
           /\ \A nm \in Names : podKey[nm] = IF nm \in scenario.pods THEN Min(UidsOf[nm]) ELSE None
           /\ \A nm \in scenario.pods : nm \in Names /\ podKey[nm] \in PodUids /\ podKey[nm] \in UidsOf[nm]
                                        /\ podKey[nm] # None /\ pods[podKey[nm]] = [name |-> nm, status |-> podKey[nm]]
           /\ \A u \in PodUids : pods[u] # None => \E nm \in scenario.pods : podKey[nm] = u
           /\ \A nm, other \in scenario.pods : podKey[nm] = podKey[other] => nm = other
           /\ used = {podKey[nm] : nm \in scenario.pods}
<1>1. scenario \in Scenarios /\ used = {podKey[nm] : nm \in scenario.pods}
  BY DEF PilotInit
<1>2. \A nm \in Names : podKey[nm] = IF nm \in scenario.pods THEN Min(UidsOf[nm]) ELSE None
  BY DEF PilotInit
<1>3. \A nm \in scenario.pods : nm \in Names /\ podKey[nm] \in PodUids /\ podKey[nm] \in UidsOf[nm] /\ podKey[nm] # None
  BY <1>1, <1>2, FirstUids
<1>4. ASSUME NEW nm \in scenario.pods, NEW other \in scenario.pods, podKey[nm] = podKey[other]
      PROVE  nm = other
  BY <1>3, <1>4, UidsOfAssumption
<1>5. \A u \in PodUids : pods[u] =
         IF \E nm \in scenario.pods : podKey[nm] = u
         THEN [name |-> CHOOSE nm \in scenario.pods : podKey[nm] = u, status |-> u] ELSE None
  BY DEF PilotInit
<1>6. ASSUME NEW nm \in scenario.pods PROVE (CHOOSE n \in scenario.pods : podKey[n] = podKey[nm]) = nm
  BY <1>4
<1>7. \A nm \in scenario.pods : pods[podKey[nm]] = [name |-> nm, status |-> podKey[nm]]
  BY <1>3, <1>5, <1>6
<1> QED
  BY <1>1, <1>2, <1>3, <1>4, <1>5, <1>7

(* It holds at first.                                                      *)
LEMMA PilotInitTypes == PilotInit => Types
<1> SUFFICES ASSUME PilotInit PROVE Types
  OBVIOUS
<1>1. /\ scenario \in Scenarios
      /\ \A nm \in Names : podKey[nm] = IF nm \in scenario.pods THEN Min(UidsOf[nm]) ELSE None
      /\ \A nm \in scenario.pods : nm \in Names /\ podKey[nm] \in PodUids /\ podKey[nm] \in UidsOf[nm]
                                   /\ podKey[nm] # None /\ pods[podKey[nm]] = [name |-> nm, status |-> podKey[nm]]
      /\ \A u \in PodUids : pods[u] # None => \E nm \in scenario.pods : podKey[nm] = u
      /\ \A nm, other \in scenario.pods : podKey[nm] = podKey[other] => nm = other
      /\ used = {podKey[nm] : nm \in scenario.pods}
  BY FirstPods
<1>2. TypeOK
  <2>1. podKey \in [Names -> PodUids \union {None}]
    BY <1>1 DEF PilotInit
  <2>2. ASSUME NEW u \in PodUids PROVE pods[u] \in Pod \union {None}
    <3>1. CASE pods[u] = None
      BY <3>1
    <3>2. CASE pods[u] # None
      <4>1. PICK nm \in scenario.pods : podKey[nm] = u
        BY <1>1, <3>2
      <4>2. pods[u] = [name |-> nm, status |-> u] /\ nm \in Names
        BY <1>1, <4>1
      <4> QED
        BY <4>2 DEF Pod
    <3> QED
      BY <3>1, <3>2
  <2>3. pods \in [PodUids -> Pod \union {None}]
    BY <2>2 DEF PilotInit
  <2>4. used \subseteq PodUids
    <3>1. ASSUME NEW u \in used PROVE u \in PodUids
      <4>1. PICK nm \in scenario.pods : u = podKey[nm]
        BY <1>1
      <4> QED
        BY <1>1, <4>1
    <3> QED
      BY <3>1
  <2>5. hosts \in [NodeNames -> [HostKeys -> PodUids \union {None}]]
    BY DEF PilotInit
  <2>6. /\ nodeKey \in [NodeNames -> NodeUids \union {None}] /\ nodes \in [NodeUids -> NodeNames \union {None}]
        /\ nodePool = {} /\ faults \in 0 .. MaxFaults
    BY FaultAssumption DEF PilotInit
  <2> QED
    BY <2>1, <2>3, <2>4, <2>5, <2>6 DEF TypeOK
<1>3. OneHostPerPod /\ NodeInv
  <2>1. \A n \in NodeNames, h \in HostKeys : hosts[n][h] = None
    BY DEF PilotInit
  <2>2. (\A n \in NodeNames : nodeKey[n] = None) /\ \A w \in NodeUids : nodes[w] = None /\ w # None
    BY NoneAssumption DEF PilotInit
  <2> QED
    BY <2>1, <2>2 DEF OneHostPerPod, NodeInv, FreshNodeUids, NodeKeysResolve
<1>4. PodInv
  <2>1. FreshPodUids
    <3> SUFFICES ASSUME NEW u \in PodUids \ used
                 PROVE  /\ pods[u] = None
                        /\ \A nm \in Names : podKey[nm] # u
                        /\ \A n \in NodeNames, h \in HostKeys : hosts[n][h] # u
      BY DEF FreshPodUids
    <3>1. u # None
      BY NoneAssumption
    <3>2. pods[u] = None /\ \A nm \in Names : podKey[nm] # u
      BY <1>1, <3>1
    <3> QED
      BY <3>1, <3>2 DEF PilotInit
  <2>2. PodKeysNamed
    <3> SUFFICES ASSUME NEW nm \in Names, podKey[nm] # None
                 PROVE  /\ pods[podKey[nm]].name = nm
                        /\ \A other \in Names : podKey[other] = podKey[nm] => other = nm
      BY DEF PodKeysNamed
    <3>1. nm \in scenario.pods /\ \A other \in Names : podKey[other] = podKey[nm] => other \in scenario.pods
      BY <1>1
    <3>2. pods[podKey[nm]] = [name |-> nm, status |-> podKey[nm]]
      BY <1>1, <3>1
    <3> QED
      BY <1>1, <3>1, <3>2
  <2>3. HostKeysNamed
    BY DEF PilotInit, HostKeysNamed
  <2> QED
    BY <2>1, <2>2, <2>3 DEF PodInv
<1>5. MeshTypes
  BY <1>1, ScenarioAssumption DEF PilotInit, MeshInit, MeshTypes
<1>6. LoopTypes
  BY FreshLocals DEF PilotInit, LoopTypes, NoVs, Phases
<1>7. WorkerTypes /\ ScenarioTypes
  BY <1>1 DEF PilotInit, WorkerTypes, ScenarioTypes
<1> QED
  BY <1>2, <1>3, <1>4, <1>5, <1>6, <1>7 DEF Types, RegistryInv

(* It implies the types that the run checks.                               *)
LEMMA TypesImply == Types => MsTypeOK
<1> SUFFICES ASSUME Types PROVE MsTypeOK
  OBVIOUS
<1>1. TypeOK /\ MeshTypes /\ LoopTypes /\ WorkerTypes
  BY DEF Types, RegistryInv
<1>2. \A n \in SubNames : subsets[n] # None => subsets[n] \subseteq Names
  BY <1>1 DEF MeshTypes
<1>3. \A s \in Svcs : mapping[s] # None => mapping[s] \subseteq EntryType
  BY <1>1 DEF MeshTypes
<1>4. pc \in Phases /\ it.pods \subseteq Names \X PodUids /\ it.services \subseteq Svcs
  BY <1>1 DEF LoopTypes, Locals
<1>5. it.vs # None => Len(it.counts) <= Len(it.vs.split) /\ Len(it.got) < Len(it.vs.split)
  BY <1>1 DEF LoopTypes, NoVs, Reading
<1>6. \A r \in RuUids : worker[r] = Off \/ IsWorker(worker[r])
  BY <1>1 DEF WorkerTypes, Workers
<1> QED
  BY <1>1, <1>2, <1>3, <1>4, <1>5, <1>6 DEF MsTypeOK, MeshTypes, Phases

(* The type invariant holds.                                               *)
LEMMA TypesHold == PilotSpec => []Types
  BY PilotInitTypes, TypesKept, PTL DEF PilotSpec

(* pilot.go and the handlers it calls: the store's prefixes, the           *)
(* iteration's locals and every worker's locals have their types, whatever *)
(* fails; in particular the loop never asks for a subset beyond the list   *)
(* (getDestinations).                                                      *)
THEOREM PilotTypeCorrect == PilotSpec => []MsTypeOK
  BY TypesHold, TypesImply, PTL

-----------------------------------------------------------------------------
(* Steps without a failure                                                 *)

(* A request that ends without a failure ends with all its writes done and *)
(* the success answer.                                                     *)
LEMMA EndsClean ==
    ASSUME faults \in Nat, faults' = 0, NEW ok \in BOOLEAN, NEW k, NEW total, Ends(ok, k, total)
    PROVE  ok /\ k = total /\ faults = 0
  BY DEF Ends

(* What the handlers do without a failure: AddSubsetHandler,               *)
(* DeleteSubsetHandler,                                                    *)
SubsetSet(n, value) == subsets' = [subsets EXCEPT ![n] = value]
(* AddVirtualServiceHandler,                                               *)
VsAdded(n, s, split) ==
    /\ VsAccepted(n, s, split)
    /\ \E v \in Fresh(VsUids, vsKey, vss) :
          vsKey' = [vsKey EXCEPT ![n] = v] /\ vss' = [vss EXCEPT ![v] = [svc |-> s, split |-> split]]
(* DeleteVirtualServiceHandler,                                            *)
VsDeleted(n) ==
    vsKey[n] # None /\ vsKey' = [vsKey EXCEPT ![n] = None] /\ vss' = [vss EXCEPT ![vsKey[n]] = None]
(* AddRollingUpdateHandler,                                                *)
RuAdded(n, s, min, busy) ==
    /\ ruKey[n] = None
    /\ \E r \in Fresh(RuUids \ busy, ruKey, rus) :
          /\ rus' = [rus EXCEPT ![r] = [name |-> n, svc |-> s, min |-> min, phase |-> "Pending"]]
          /\ ruKey' = [ruKey EXCEPT ![n] = r]
(* UpdateRollingUpdateStatusHandler,                                       *)
RuStatus(n, phase) == RuKnown(n) /\ rus' = [rus EXCEPT ![ruKey[n]].phase = phase] /\ UNCHANGED ruKey
(* DeleteRollingUpdateHandler,                                             *)
RuDeleted(n) ==
    ruKey[n] # None /\ ruKey' = [ruKey EXCEPT ![n] = None] /\ rus' = [rus EXCEPT ![ruKey[n]] = None]
(* AddPodHandler,                                                          *)
PodAdded(nm) ==
    podKey[nm] = None /\ \E u \in PodUids \ used :
       podKey' = [podKey EXCEPT ![nm] = u] /\ used' = used \union {u}
(* DeletePodHandler.                                                       *)
PodDeleted(nm) == podKey[nm] # None /\ podKey' = [podKey EXCEPT ![nm] = None] /\ UNCHANGED used

(* What they leave alone.                                                  *)
KeptPods    == UNCHANGED <<podKey, used>>
KeptVss     == UNCHANGED <<vsKey, vss>>
KeptRus     == UNCHANGED <<ruKey, rus>>
KeptSubsets == UNCHANGED subsets
KeptStore   == KeptPods /\ KeptVss /\ KeptRus /\ KeptSubsets

(* The handlers of the mesh without a failure.                             *)
LEMMA CleanMesh ==
    ASSUME faults \in Nat, faults' = 0, NEW ok \in BOOLEAN, NEW k
    PROVE  /\ \A n, ps : AddSubset(n, ps, k, ok) =>
                ok /\ SubsetSet(n, ps) /\ KeptPods /\ KeptVss /\ KeptRus
           /\ \A n : DeleteSubset(n, k, ok) =>
                ok /\ SubsetSet(n, None) /\ KeptPods /\ KeptVss /\ KeptRus
           /\ \A n, s, split : AddVirtualService(n, s, split, k, ok) =>
                ok /\ VsAdded(n, s, split) /\ KeptPods /\ KeptRus /\ KeptSubsets
           /\ \A n : DeleteVirtualService(n, k, ok) =>
                ok /\ VsDeleted(n) /\ KeptPods /\ KeptRus /\ KeptSubsets
           /\ \A n, s, min, busy : AddRollingUpdate(n, s, min, busy, k, ok) =>
                ok /\ RuAdded(n, s, min, busy) /\ KeptPods /\ KeptVss /\ KeptSubsets
           /\ \A n, phase : UpdateRollingUpdateStatus(n, phase, k, ok) =>
                ok /\ RuStatus(n, phase) /\ KeptPods /\ KeptVss /\ KeptSubsets
           /\ \A n : DeleteRollingUpdate(n, k, ok) =>
                ok /\ RuDeleted(n) /\ KeptPods /\ KeptVss /\ KeptSubsets
           /\ \A g : Refused(g, k, ok) => ~ g /\ ~ ok /\ KeptStore
           /\ \A m : SaveSidecarMapping(m, k, ok) => ok /\ KeptStore
           /\ \A s : AddService(s) \/ DeleteService(s) => KeptStore
<1> USE DEF KeptPods, KeptVss, KeptRus, KeptSubsets
<1>0. \A total : Ends(ok, k, total) => ok /\ k = total
  BY EndsClean
<1>1. ASSUME NEW n, NEW ps, AddSubset(n, ps, k, ok)
      PROVE  ok /\ SubsetSet(n, ps) /\ KeptPods /\ KeptVss /\ KeptRus
  BY <1>0, <1>1 DEF AddSubset, SubsetSet, podVars
<1>2. ASSUME NEW n, DeleteSubset(n, k, ok)
      PROVE  ok /\ SubsetSet(n, None) /\ KeptPods /\ KeptVss /\ KeptRus
  BY <1>0, <1>2 DEF DeleteSubset, SubsetSet, podVars
<1>3. ASSUME NEW n, NEW s, NEW split, AddVirtualService(n, s, split, k, ok)
      PROVE  ok /\ VsAdded(n, s, split) /\ KeptPods /\ KeptRus /\ KeptSubsets
  <2>1. Min(Fresh(VsUids, vsKey, vss)) \in Fresh(VsUids, vsKey, vss)
    BY <1>3, FreshUid, UidAssumption DEF AddVirtualService
  <2> DEFINE v == Min(Fresh(VsUids, vsKey, vss))
  <2>2. ok /\ k = 2
    BY <1>0, <1>3 DEF AddVirtualService
  <2>3. /\ vsKey' = [vsKey EXCEPT ![n] = v] /\ vss' = [vss EXCEPT ![v] = [svc |-> s, split |-> split]]
        /\ VsAccepted(n, s, split) /\ KeptPods /\ KeptRus /\ KeptSubsets
    BY <1>3, <2>2 DEF AddVirtualService, podVars
  <2> HIDE DEF v
  <2>4. v \in Fresh(VsUids, vsKey, vss)
    BY <2>1 DEF v
  <2> QED
    BY <2>2, <2>3, <2>4 DEF VsAdded
<1>4. ASSUME NEW n, DeleteVirtualService(n, k, ok)
      PROVE  ok /\ VsDeleted(n) /\ KeptPods /\ KeptRus /\ KeptSubsets
  BY <1>0, <1>4 DEF DeleteVirtualService, VsDeleted, podVars
<1>5. ASSUME NEW n, NEW s, NEW min, NEW busy, AddRollingUpdate(n, s, min, busy, k, ok)
      PROVE  ok /\ RuAdded(n, s, min, busy) /\ KeptPods /\ KeptVss /\ KeptSubsets
  <2>1. Min(Fresh(RuUids \ busy, ruKey, rus)) \in Fresh(RuUids \ busy, ruKey, rus)
    BY <1>5, FreshUid, UidAssumption DEF AddRollingUpdate
  <2> DEFINE r == Min(Fresh(RuUids \ busy, ruKey, rus))
  <2>2. ok /\ k = 2
    BY <1>0, <1>5 DEF AddRollingUpdate
  <2>3. /\ rus' = [rus EXCEPT ![r] = [name |-> n, svc |-> s, min |-> min, phase |-> "Pending"]]
        /\ ruKey' = [ruKey EXCEPT ![n] = r]
        /\ ruKey[n] = None /\ KeptPods /\ KeptVss /\ KeptSubsets
    BY <1>5, <2>2 DEF AddRollingUpdate, podVars
  <2> HIDE DEF r
  <2>4. r \in Fresh(RuUids \ busy, ruKey, rus)
    BY <2>1 DEF r
  <2> QED
    BY <2>2, <2>3, <2>4 DEF RuAdded
<1>6. ASSUME NEW n, NEW phase, UpdateRollingUpdateStatus(n, phase, k, ok)
      PROVE  ok /\ RuStatus(n, phase) /\ KeptPods /\ KeptVss /\ KeptSubsets
  BY <1>0, <1>6 DEF UpdateRollingUpdateStatus, RuStatus, podVars
<1>7. ASSUME NEW n, DeleteRollingUpdate(n, k, ok)
      PROVE  ok /\ RuDeleted(n) /\ KeptPods /\ KeptVss /\ KeptSubsets
  BY <1>0, <1>7 DEF DeleteRollingUpdate, RuDeleted, podVars
<1>8. ASSUME NEW g, Refused(g, k, ok) PROVE ~ g /\ ~ ok /\ KeptStore
  BY <1>8 DEF Refused, KeptStore, vars, meshVars
<1>9. ASSUME NEW m, SaveSidecarMapping(m, k, ok) PROVE ok /\ KeptStore
  BY <1>0, <1>9 DEF SaveSidecarMapping, KeptStore, podVars
<1>10. ASSUME NEW s, AddService(s) \/ DeleteService(s) PROVE KeptStore
  BY <1>10 DEF AddService, DeleteService, KeptStore, vars
<1> QED
  BY <1>1, <1>2, <1>3, <1>4, <1>5, <1>6, <1>7, <1>8, <1>9, <1>10

(* The handlers of pods without a failure.                                 *)
LEMMA CleanPods ==
    ASSUME faults \in Nat, faults' = 0, NEW ok \in BOOLEAN, NEW k, NEW nm \in Names,
           UNCHANGED meshVars
    PROVE  /\ AddsPod(nm, k, ok) => ok /\ PodAdded(nm) /\ KeptVss /\ KeptRus /\ KeptSubsets
           /\ DeletePod(nm, k, ok) => ok /\ PodDeleted(nm) /\ KeptVss /\ KeptRus /\ KeptSubsets
<1> USE DEF KeptPods, KeptVss, KeptRus, KeptSubsets
<1>0. KeptVss /\ KeptRus /\ KeptSubsets
  BY DEF meshVars
<1>1. ASSUME AddsPod(nm, k, ok) PROVE ok /\ PodAdded(nm)
  <2>1. PICK u \in PodUids \ used : AddPod(nm, u, k, ok)
    BY <1>1 DEF AddsPod, AddPod
  <2>2. ok /\ k = 2
    BY <2>1, EndsClean DEF AddPod
  <2>3. podKey[nm] = None /\ podKey' = [podKey EXCEPT ![nm] = u] /\ used' = used \union {u}
    BY <2>1, <2>2 DEF AddPod, NameFree
  <2> QED
    BY <2>2, <2>3 DEF PodAdded
<1>2. ASSUME DeletePod(nm, k, ok) PROVE ok /\ PodDeleted(nm)
  <2>1. ok /\ k \in {1, 2}
    BY <1>2, EndsClean DEF DeletePod
  <2> QED
    BY <1>2, <2>1 DEF DeletePod, PodDeleted
<1> QED
  BY <1>0, <1>1, <1>2

(* What a user's request does when nothing fails.                          *)
UserStep(a) ==
    /\ UNCHANGED <<worker, it>>
    /\ asks' = asks \ {a}
    /\ "users" \notin spoilt' => ~ Meddles(a)
    /\ "unrolled" \notin spoilt' => a.op # "DeleteRollingUpdate"
    /\ spoilt \subseteq spoilt' /\ ("panic" \in spoilt' <=> "panic" \in spoilt)
    /\ \/ /\ a.op = "AddSubset" /\ SubsetSet(a.name, a.pods) /\ KeptPods /\ KeptVss /\ KeptRus
       \/ /\ a.op = "DeleteSubset" /\ SubsetSet(a.name, None) /\ KeptPods /\ KeptVss /\ KeptRus
       \/ /\ a.op = "AddVirtualService" /\ VsAdded(a.name, a.svc, a.split)
          /\ KeptPods /\ KeptRus /\ KeptSubsets
       \/ /\ a.op = "DeleteVirtualService" /\ VsDeleted(a.name)
          /\ KeptPods /\ KeptRus /\ KeptSubsets
       \/ /\ a.op = "AddRollingUpdate" /\ RuAdded(a.name, a.svc, a.min, {r \in RuUids : Active(r)})
          /\ KeptPods /\ KeptVss /\ KeptSubsets
       \/ /\ a.op = "DeleteRollingUpdate" /\ RuDeleted(a.name)
          /\ KeptPods /\ KeptVss /\ KeptSubsets
       \/ /\ a.op = "AddPod" /\ PodAdded(a.name) /\ KeptVss /\ KeptRus /\ KeptSubsets
       \/ /\ a.op = "DeletePod" /\ PodDeleted(a.name) /\ KeptVss /\ KeptRus /\ KeptSubsets
       \/ KeptStore

(* The virtual service that createRollingUpdateVirtualService makes.       *)
RollingSplit(s) == <<[subset |-> Available(s), weight |-> 1], [subset |-> Blocked(s), weight |-> 0]>>

(* What a worker's request does when nothing fails, by the label it is at. *)
FromStatus(r, w) ==
    \/ RuStatus(w.name, "Running") /\ worker'[r] = Moves(r, "blocked0") /\ KeptPods /\ KeptVss /\ KeptSubsets
    \/ ~ RuKnown(w.name) /\ worker'[r] = Off /\ KeptStore
FromBlocked0(r, w) ==
    SubsetSet(Blocked(w.svc), {}) /\ worker'[r] = Moves(r, "available0") /\ KeptPods /\ KeptVss /\ KeptRus
FromAvailable0(r, w) ==
    SubsetSet(Available(w.svc), {}) /\ worker'[r] = Moves(r, "vs") /\ KeptPods /\ KeptVss /\ KeptRus
FromVs(r, w) ==
    \/ /\ VsAdded(RollingVs(w.svc), w.svc, RollingSplit(w.svc)) /\ worker'[r] \in NextBatch(w)
       /\ KeptPods /\ KeptRus /\ KeptSubsets
    \/ worker'[r] = Off /\ KeptStore
FromBlocked(r, w) ==
    /\ SubsetSet(Blocked(w.svc), w.batch) \/ KeptSubsets
    /\ worker'[r] = Moves(r, "available") /\ KeptPods /\ KeptVss /\ KeptRus
FromAvailable(r, w) ==
    /\ SubsetSet(Available(w.svc), NamesOf(w) \ w.batch) \/ KeptSubsets
    /\ worker'[r] = [w EXCEPT !.pc = "delete", !.todo = w.batch] /\ KeptPods /\ KeptVss /\ KeptRus
FromDelete(r, w) ==
    \E nm \in w.todo :
        /\ PodDeleted(nm) \/ (podKey[nm] = None /\ KeptPods)
        /\ worker'[r] = IF w.todo = {nm} THEN [w EXCEPT !.pc = "add", !.todo = w.batch]
                        ELSE [w EXCEPT !.todo = @ \ {nm}]
        /\ KeptVss /\ KeptRus /\ KeptSubsets
FromAdd(r, w) ==
    \E nm \in w.todo :
        /\ PodAdded(nm) \/ (podKey[nm] # None /\ KeptPods)
        /\ IF w.todo = {nm} THEN worker'[r] \in NextBatch([w EXCEPT !.todo = {}])
           ELSE worker'[r] = [w EXCEPT !.todo = @ \ {nm}]
        /\ KeptVss /\ KeptRus /\ KeptSubsets
FromFinished(r, w) ==
    /\ RuStatus(w.name, "Finished") \/ (~ RuKnown(w.name) /\ KeptRus)
    /\ worker'[r] = Moves(r, "unVs") /\ KeptPods /\ KeptVss /\ KeptSubsets
FromUnVs(r, w) ==
    /\ VsDeleted(RollingVs(w.svc)) \/ (vsKey[RollingVs(w.svc)] = None /\ KeptVss)
    /\ worker'[r] = Moves(r, "unBlocked") /\ KeptPods /\ KeptRus /\ KeptSubsets
FromUnBlocked(r, w) ==
    /\ SubsetSet(Blocked(w.svc), None) \/ (subsets[Blocked(w.svc)] = None /\ KeptSubsets)
    /\ worker'[r] = Moves(r, "unAvailable") /\ KeptPods /\ KeptVss /\ KeptRus
FromUnAvailable(r, w) ==
    /\ SubsetSet(Available(w.svc), None) \/ (subsets[Available(w.svc)] = None /\ KeptSubsets)
    /\ worker'[r] = Off /\ KeptPods /\ KeptVss /\ KeptRus

(* A worker's request when nothing fails.                                  *)
WorkStep(r) ==
    LET w == worker[r] IN
    /\ Active(r) /\ UNCHANGED <<it, spoilt, asks>>
    /\ \A q \in RuUids : q # r => worker'[q] = worker[q]
    /\ \/ At(r, "status") /\ FromStatus(r, w)
       \/ At(r, "blocked0") /\ FromBlocked0(r, w)
       \/ At(r, "available0") /\ FromAvailable0(r, w)
       \/ At(r, "vs") /\ FromVs(r, w)
       \/ At(r, "blocked") /\ FromBlocked(r, w)
       \/ At(r, "available") /\ FromAvailable(r, w)
       \/ At(r, "delete") /\ FromDelete(r, w)
       \/ At(r, "add") /\ FromAdd(r, w)
       \/ At(r, "finished") /\ FromFinished(r, w)
       \/ At(r, "unVs") /\ FromUnVs(r, w)
       \/ At(r, "unBlocked") /\ FromUnBlocked(r, w)
       \/ At(r, "unAvailable") /\ FromUnAvailable(r, w)

(* What an iteration does when nothing fails: to the store, nothing.       *)
LoopStep ==
    /\ KeptStore /\ UNCHANGED asks
    /\ \/ UNCHANGED <<worker, spoilt>> /\ it'.pods \in {it.pods, {}, Running}
       \/ /\ it'.pods = it.pods /\ UNCHANGED spoilt
          /\ \A r \in RuUids : worker'[r] = IF Starts(r) THEN NewWorker(r) ELSE worker[r]
       \/ /\ it'.pods = {} /\ spoilt' = spoilt \union {"panic"}
          /\ \A r \in RuUids : worker'[r] = Off

(* A user's request without a failure is one of these.                     *)
LEMMA UserStepClean ==
    ASSUME Types, faults' = 0, NEW k \in 0 .. 2, NEW ok \in BOOLEAN, Users(k, ok)
    PROVE  faults = 0 /\ \E a \in asks : UserStep(a)
<1>1. PICK a \in asks :
        /\ Ask(a, k, ok)
        /\ asks' = asks \ {a}
        /\ spoilt' = spoilt \union {x \in {"users", "unrolled"} :
                        IF x = "users" THEN Meddles(a) ELSE a.op = "DeleteRollingUpdate"}
        /\ UNCHANGED <<scenario, pilotVars>>
  BY DEF Users
<1>2. a \in Request /\ faults \in Nat
  BY AskedRequests, FaultAssumption DEF Types, RegistryInv, TypeOK
<1>3. a.op \in {"AddPod", "DeletePod"} => a.name \in Names
  BY <1>2, RequestFields
<1>4. UNCHANGED <<worker, it>>
  BY <1>1 DEF pilotVars
<1>5. /\ "users" \notin spoilt' => ~ Meddles(a)
      /\ "unrolled" \notin spoilt' => a.op # "DeleteRollingUpdate"
      /\ spoilt \subseteq spoilt' /\ ("panic" \in spoilt' <=> "panic" \in spoilt)
  <2> DEFINE P(x) == IF x = "users" THEN Meddles(a) ELSE a.op = "DeleteRollingUpdate"
  <2>1. spoilt' = spoilt \union {x \in {"users", "unrolled"} : P(x)}
    BY <1>1
  <2>2. (P("users") <=> Meddles(a)) /\ (P("unrolled") <=> a.op = "DeleteRollingUpdate")
    OBVIOUS
  <2> HIDE DEF P
  <2> QED
    BY <2>1, <2>2
<1>6. \/ a.op = "AddSubset" /\ AddSubset(a.name, a.pods, k, ok)
      \/ a.op = "DeleteSubset" /\ DeleteSubset(a.name, k, ok)
      \/ a.op = "AddVirtualService" /\ AddVirtualService(a.name, a.svc, a.split, k, ok)
      \/ a.op = "DeleteVirtualService" /\ DeleteVirtualService(a.name, k, ok)
      \/ a.op = "AddRollingUpdate"
           /\ AddRollingUpdate(a.name, a.svc, a.min, {r \in RuUids : Active(r)}, k, ok)
      \/ a.op = "DeleteRollingUpdate" /\ DeleteRollingUpdate(a.name, k, ok)
      \/ a.op = "AddPod" /\ AddsPod(a.name, k, ok) /\ UNCHANGED meshVars
      \/ a.op = "DeletePod" /\ DeletePod(a.name, k, ok) /\ UNCHANGED meshVars
      \/ AddService(a.svc) \/ DeleteService(a.svc)
  BY <1>1 DEF Ask
<1>7. faults = 0
  <2>1. faults' = faults \/ faults' = faults + 1
    BY <1>6 DEF AddSubset, DeleteSubset, AddVirtualService, DeleteVirtualService, AddRollingUpdate,
         DeleteRollingUpdate, AddsPod, AddPod, DeletePod, AddService, DeleteService, Ends, vars
  <2> QED
    BY <1>2, <2>1
<1>8. UserStep(a)
  <2> DEFINE busy == {r \in RuUids : Active(r)}
  <2> HIDE DEF busy
  <2>1. CASE a.op = "AddSubset" /\ AddSubset(a.name, a.pods, k, ok)
    BY <1>1, <1>2, <1>4, <1>5, <2>1, CleanMesh DEF UserStep
  <2>2. CASE a.op = "DeleteSubset" /\ DeleteSubset(a.name, k, ok)
    BY <1>1, <1>2, <1>4, <1>5, <2>2, CleanMesh DEF UserStep
  <2>3. CASE a.op = "AddVirtualService" /\ AddVirtualService(a.name, a.svc, a.split, k, ok)
    BY <1>1, <1>2, <1>4, <1>5, <2>3, CleanMesh DEF UserStep
  <2>4. CASE a.op = "DeleteVirtualService" /\ DeleteVirtualService(a.name, k, ok)
    BY <1>1, <1>2, <1>4, <1>5, <2>4, CleanMesh DEF UserStep
  <2>5. CASE a.op = "AddRollingUpdate" /\ AddRollingUpdate(a.name, a.svc, a.min, busy, k, ok)
    BY <1>1, <1>2, <1>4, <1>5, <2>5, CleanMesh DEF UserStep, busy
  <2>6. CASE a.op = "DeleteRollingUpdate" /\ DeleteRollingUpdate(a.name, k, ok)
    BY <1>1, <1>2, <1>4, <1>5, <2>6, CleanMesh DEF UserStep
  <2>7. CASE a.op = "AddPod" /\ AddsPod(a.name, k, ok) /\ UNCHANGED meshVars
    BY <1>1, <1>2, <1>3, <1>4, <1>5, <2>7, CleanPods DEF UserStep
  <2>8. CASE a.op = "DeletePod" /\ DeletePod(a.name, k, ok) /\ UNCHANGED meshVars
    BY <1>1, <1>2, <1>3, <1>4, <1>5, <2>8, CleanPods DEF UserStep
  <2>9. CASE AddService(a.svc) \/ DeleteService(a.svc)
    BY <1>1, <1>2, <1>4, <1>5, <2>9, CleanMesh DEF UserStep
  <2> QED
    BY <1>6, <2>1, <2>2, <2>3, <2>4, <2>5, <2>6, <2>7, <2>8, <2>9 DEF busy
<1> QED
  BY <1>7, <1>8

(* A worker's step changes the locals of no other.                         *)
LEMMA OnlyWorker ==
    ASSUME WorkerTypes, NEW r \in RuUids, NEW v, Becomes(r, v)
    PROVE  worker'[r] = v /\ \A q \in RuUids : q # r => worker'[q] = worker[q]
  BY DEF WorkerTypes, Becomes

(* Before the first batch, without a failure.                              *)
LEMMA PrepareClean ==
    ASSUME Types, faults' = 0, NEW k \in 0 .. 2, NEW ok \in BOOLEAN, NEW r \in RuUids, Prepare(r, k, ok)
    PROVE  LET w == worker[r] IN
           /\ \A q \in RuUids : q # r => worker'[q] = worker[q]
           /\ \/ At(r, "status") /\ FromStatus(r, w)
              \/ At(r, "blocked0") /\ FromBlocked0(r, w)
              \/ At(r, "available0") /\ FromAvailable0(r, w)
              \/ At(r, "vs") /\ FromVs(r, w)
<1> DEFINE w == worker[r]
<1>1. faults \in Nat /\ \A v : Becomes(r, v) =>
         worker'[r] = v /\ \A q \in RuUids : q # r => worker'[q] = worker[q]
  BY OnlyWorker, FaultAssumption DEF Types, RegistryInv, TypeOK
<1>2. CASE At(r, "status")
  <2>1. /\ \/ UpdateRollingUpdateStatus(w.name, "Running", k, ok)
           \/ Refused(RuKnown(w.name), k, ok)
        /\ Becomes(r, IF ok THEN Moves(r, "blocked0") ELSE Off)
    BY <1>2 DEF Prepare, At
  <2> HIDE DEF w
  <2>2. FromStatus(r, w)
    BY <1>1, <2>1, CleanMesh DEF FromStatus
  <2> QED
    BY <1>1, <1>2, <2>1, <2>2 DEF w
<1>3. CASE At(r, "blocked0")
  <2>1. AddSubset(Blocked(w.svc), {}, k, ok) /\ Becomes(r, IF ok THEN Moves(r, "available0") ELSE Off)
    BY <1>3 DEF Prepare, At
  <2> HIDE DEF w
  <2>2. FromBlocked0(r, w)
    BY <1>1, <2>1, CleanMesh DEF FromBlocked0
  <2> QED
    BY <1>1, <1>3, <2>1, <2>2 DEF w
<1>4. CASE At(r, "available0")
  <2>1. AddSubset(Available(w.svc), {}, k, ok) /\ Becomes(r, IF ok THEN Moves(r, "vs") ELSE Off)
    BY <1>4 DEF Prepare, At
  <2> HIDE DEF w
  <2>2. FromAvailable0(r, w)
    BY <1>1, <2>1, CleanMesh DEF FromAvailable0
  <2> QED
    BY <1>1, <1>4, <2>1, <2>2 DEF w
<1>5. CASE At(r, "vs")
  <2>1. /\ \/ AddVirtualService(RollingVs(w.svc), w.svc, RollingSplit(w.svc), k, ok)
           \/ Refused(VsAccepted(RollingVs(w.svc), w.svc, RollingSplit(w.svc)), k, ok)
        /\ \/ ok /\ \E n \in NextBatch(w) : Becomes(r, n)
           \/ ~ ok /\ Becomes(r, Off)
    BY <1>5 DEF Prepare, At, RollingSplit
  <2> HIDE DEF w
  <2>2. FromVs(r, w) /\ \E v : Becomes(r, v)
    BY <1>1, <2>1, CleanMesh DEF FromVs
  <2> QED
    BY <1>1, <1>5, <2>2 DEF w
<1> QED
  BY <1>2, <1>3, <1>4, <1>5 DEF Prepare

(* A batch, without a failure: a refused request is ignored.               *)
LEMMA BatchClean ==
    ASSUME Types, faults' = 0, NEW k \in 0 .. 2, NEW ok \in BOOLEAN, NEW r \in RuUids, Batch(r, k, ok)
    PROVE  LET w == worker[r] IN
           /\ \A q \in RuUids : q # r => worker'[q] = worker[q]
           /\ \/ At(r, "blocked") /\ FromBlocked(r, w)
              \/ At(r, "available") /\ FromAvailable(r, w)
              \/ At(r, "delete") /\ FromDelete(r, w)
              \/ At(r, "add") /\ FromAdd(r, w)
<1> DEFINE w == worker[r]
           without(nm) == [w EXCEPT !.todo = @ \ {nm}]
           on == NextBatch([w EXCEPT !.todo = {}])
           full == [w EXCEPT !.pc = "add", !.todo = w.batch]
<1>1. faults \in Nat /\ \A v : Becomes(r, v) =>
         worker'[r] = v /\ \A q \in RuUids : q # r => worker'[q] = worker[q]
  BY OnlyWorker, FaultAssumption DEF Types, RegistryInv, TypeOK
<1>0. ASSUME Active(r), NEW nm \in w.todo PROVE nm \in Names
  BY <1>0, WorkerFields DEF Types
<1>2. CASE At(r, "blocked")
  <2>1. /\ AddSubset(Blocked(w.svc), w.batch, k, ok) \/ Refused(PodsKnown(w.batch), k, ok)
        /\ Becomes(r, Moves(r, "available"))
    BY <1>2 DEF Batch, At
  <2> HIDE DEF w
  <2>2. FromBlocked(r, w)
    BY <1>1, <2>1, CleanMesh DEF FromBlocked, KeptStore
  <2> QED
    BY <1>1, <1>2, <2>1, <2>2 DEF w
<1>3. CASE At(r, "available")
  <2>1. /\ \/ AddSubset(Available(w.svc), NamesOf(w) \ w.batch, k, ok)
           \/ Refused(PodsKnown(NamesOf(w) \ w.batch), k, ok)
        /\ Becomes(r, [w EXCEPT !.pc = "delete", !.todo = w.batch])
    BY <1>3 DEF Batch, At
  <2> HIDE DEF w
  <2>2. FromAvailable(r, w)
    BY <1>1, <2>1, CleanMesh DEF FromAvailable, KeptStore
  <2> QED
    BY <1>1, <1>3, <2>1, <2>2 DEF w
<1>4. CASE At(r, "delete")
  <2>1. PICK nm \in w.todo :
           /\ (DeletePod(nm, k, ok) /\ UNCHANGED meshVars) \/ Refused(podKey[nm] # None, k, ok)
           /\ Becomes(r, IF w.todo = {nm} THEN full ELSE without(nm))
    BY <1>4 DEF Batch, At
  <2>2. nm \in Names
    BY <1>0, <1>4 DEF At, Active
  <2>3. (PodDeleted(nm) \/ (podKey[nm] = None /\ KeptPods)) /\ KeptVss /\ KeptRus /\ KeptSubsets
    BY <1>1, <2>1, <2>2, CleanMesh, CleanPods DEF KeptStore
  <2>4. worker'[r] = IF w.todo = {nm} THEN full ELSE without(nm)
    BY <1>1, <2>1
  <2>5. FromDelete(r, w)
    BY <2>3, <2>4 DEF FromDelete
  <2> HIDE DEF w, full, without
  <2> QED
    BY <1>1, <1>4, <2>1, <2>5 DEF w
<1>5. CASE At(r, "add")
  <2>1. PICK nm \in w.todo :
           /\ (AddsPod(nm, k, ok) /\ UNCHANGED meshVars) \/ Refused(NameFree(nm), k, ok)
           /\ IF w.todo = {nm} THEN \E n \in on : Becomes(r, n) ELSE Becomes(r, without(nm))
    BY <1>5 DEF Batch, At
  <2>2. nm \in Names
    BY <1>0, <1>5 DEF At, Active
  <2>3. (PodAdded(nm) \/ (podKey[nm] # None /\ KeptPods)) /\ KeptVss /\ KeptRus /\ KeptSubsets
    BY <1>1, <2>1, <2>2, CleanMesh, CleanPods DEF KeptStore, NameFree
  <2> HIDE DEF on, without
  <2>4. IF w.todo = {nm} THEN worker'[r] \in on ELSE worker'[r] = without(nm)
    BY <1>1, <2>1
  <2>5. FromAdd(r, w)
    BY <2>3, <2>4 DEF FromAdd, on, without
  <2>6. \E v : Becomes(r, v)
    BY <2>1
  <2> HIDE DEF w
  <2> QED
    BY <1>1, <1>5, <2>5, <2>6 DEF w
<1> QED
  BY <1>2, <1>3, <1>4, <1>5 DEF Batch

(* After the last batch, without a failure.                                *)
LEMMA FinishClean ==
    ASSUME Types, faults' = 0, NEW k \in 0 .. 2, NEW ok \in BOOLEAN, NEW r \in RuUids, Finish(r, k, ok)
    PROVE  LET w == worker[r] IN
           /\ \A q \in RuUids : q # r => worker'[q] = worker[q]
           /\ \/ At(r, "finished") /\ FromFinished(r, w)
              \/ At(r, "unVs") /\ FromUnVs(r, w)
              \/ At(r, "unBlocked") /\ FromUnBlocked(r, w)
              \/ At(r, "unAvailable") /\ FromUnAvailable(r, w)
<1> DEFINE w == worker[r]
<1>1. faults \in Nat /\ \A v : Becomes(r, v) =>
         worker'[r] = v /\ \A q \in RuUids : q # r => worker'[q] = worker[q]
  BY OnlyWorker, FaultAssumption DEF Types, RegistryInv, TypeOK
<1>2. CASE At(r, "finished")
  <2>1. /\ \/ UpdateRollingUpdateStatus(w.name, "Finished", k, ok)
           \/ Refused(RuKnown(w.name), k, ok)
        /\ Becomes(r, Moves(r, "unVs"))
    BY <1>2 DEF Finish, At
  <2> HIDE DEF w
  <2>2. FromFinished(r, w)
    BY <1>1, <2>1, CleanMesh DEF FromFinished, KeptStore
  <2> QED
    BY <1>1, <1>2, <2>1, <2>2 DEF w
<1>3. CASE At(r, "unVs")
  <2>1. /\ DeleteVirtualService(RollingVs(w.svc), k, ok) \/ Refused(vsKey[RollingVs(w.svc)] # None, k, ok)
        /\ Becomes(r, Moves(r, "unBlocked"))
    BY <1>3 DEF Finish, At
  <2> HIDE DEF w
  <2>2. FromUnVs(r, w)
    BY <1>1, <2>1, CleanMesh DEF FromUnVs, KeptStore
  <2> QED
    BY <1>1, <1>3, <2>1, <2>2 DEF w
<1>4. CASE At(r, "unBlocked")
  <2>1. /\ DeleteSubset(Blocked(w.svc), k, ok) \/ Refused(subsets[Blocked(w.svc)] # None, k, ok)
        /\ Becomes(r, Moves(r, "unAvailable"))
    BY <1>4 DEF Finish, At
  <2> HIDE DEF w
  <2>2. FromUnBlocked(r, w)
    BY <1>1, <2>1, CleanMesh DEF FromUnBlocked, KeptStore
  <2> QED
    BY <1>1, <1>4, <2>1, <2>2 DEF w
<1>5. CASE At(r, "unAvailable")
  <2>1. /\ DeleteSubset(Available(w.svc), k, ok) \/ Refused(subsets[Available(w.svc)] # None, k, ok)
        /\ Becomes(r, Off)
    BY <1>5 DEF Finish, At
  <2> HIDE DEF w
  <2>2. FromUnAvailable(r, w)
    BY <1>1, <2>1, CleanMesh DEF FromUnAvailable, KeptStore
  <2> QED
    BY <1>1, <1>5, <2>1, <2>2 DEF w
<1> QED
  BY <1>2, <1>3, <1>4, <1>5 DEF Finish

(* A worker's step without a failure is one of these.                      *)
LEMMA WorkStepClean ==
    ASSUME Types, faults' = 0, NEW k \in 0 .. 2, NEW ok \in BOOLEAN, NEW r \in RuUids, Work(r, k, ok)
    PROVE  WorkStep(r)
<1>1. Active(r) /\ UNCHANGED <<it, spoilt, asks>>
  BY WorkIsActive DEF Work
<1> QED
  BY <1>1, PrepareClean, BatchClean, FinishClean DEF Work, WorkStep

(* The loop's.                                                             *)
LEMMA LoopStepClean ==
    ASSUME Types, faults' = 0, NEW k \in 0 .. 2, NEW ok \in BOOLEAN, Loop(k, ok)
    PROVE  LoopStep
<1>1. faults \in Nat /\ it \in Locals /\ WorkerTypes
  BY FaultAssumption DEF Types, RegistryInv, TypeOK, LoopTypes
<1>2. ASSUME NEW next, NEW locals, Reads(ok, next, locals)
      PROVE  KeptStore /\ UNCHANGED asks /\ ok /\ it' = locals
  <2>1. ok
    BY <1>1, <1>2, EndsClean DEF Reads
  <2> QED
    BY <1>2, <2>1 DEF Reads, KeptStore, KeptPods, KeptVss, KeptRus, KeptSubsets, podVars, meshVars, Goes
<1>3. ASSUME NEW answers, NEW next, NEW locals, GetsSubset(answers, ok, next, locals)
      PROVE  KeptStore /\ UNCHANGED asks /\ (it' = locals \/ it' = Fresh0) /\ (ok => it' = locals)
  <2>1. CASE Reads(ok, next, locals)
    BY <1>2, <2>1
  <2>2. CASE ~ ok /\ Goes("pods", Fresh0) /\ UNCHANGED <<storeVars, scenario, asks>>
    BY <2>2 DEF Goes, KeptStore, KeptPods, KeptVss, KeptRus, KeptSubsets, storeVars, vars, meshVars
  <2> QED
    BY <1>3, <2>1, <2>2 DEF GetsSubset
<1>4. Fresh0.pods = {}
  BY DEF Fresh0
<1>5. WorkersDie => spoilt' = spoilt \union {"panic"} /\ \A r \in RuUids : worker'[r] = Off
  BY DEF WorkersDie
<1>6. CASE GetAllPods(ok)
  <2>1. KeptStore /\ UNCHANGED asks /\ it' = [it EXCEPT !.pods = Running]
    BY <1>2, <1>6 DEF GetAllPods
  <2>2. it'.pods = Running
    BY <1>1, <2>1 DEF Locals
  <2> QED
    BY <1>6, <2>1, <2>2 DEF GetAllPods, LoopStep
<1>7. CASE GetAllServices(ok)
  <2>1. KeptStore /\ UNCHANGED asks /\ it' = [it EXCEPT !.services = services]
    BY <1>2, <1>7 DEF GetAllServices
  <2>2. it'.pods = it.pods
    BY <1>1, <2>1 DEF Locals
  <2> QED
    BY <1>7, <2>1, <2>2 DEF GetAllServices, LoopStep
<1>8. CASE GetAllVirtualServices(ok)
  <2> DEFINE todo == {vss[v] : v \in {u \in VsUids : vss[u] # None}}
  <2>1. KeptStore /\ UNCHANGED asks /\ it' = [it EXCEPT !.todo = todo]
    BY <1>2, <1>8 DEF GetAllVirtualServices
  <2> HIDE DEF todo
  <2>2. it'.pods = it.pods
    BY <1>1, <2>1 DEF Locals
  <2> QED
    BY <1>8, <2>1, <2>2 DEF GetAllVirtualServices, LoopStep
<1>9. CASE GetAllRollingUpdates(ok)
  <2>1. KeptStore /\ UNCHANGED asks /\ ok /\ it' = it
    BY <1>2, <1>9 DEF GetAllRollingUpdates
  <2>2. \A r \in RuUids : worker'[r] = IF Starts(r) THEN NewWorker(r) ELSE worker[r]
    BY <1>9, <2>1 DEF GetAllRollingUpdates
  <2> QED
    BY <1>9, <2>1, <2>2 DEF GetAllRollingUpdates, LoopStep
<1>10. ASSUME NEW vs, TakeVirtualService(vs) PROVE LoopStep
  <2>1. KeptStore /\ UNCHANGED asks
    BY <1>10 DEF TakeVirtualService, KeptStore, KeptPods, KeptVss, KeptRus, KeptSubsets, storeVars, vars, meshVars
  <2>2. CASE Goes("dead", Fresh0) /\ WorkersDie
    BY <1>4, <1>5, <2>1, <2>2 DEF Goes, LoopStep
  <2>3. CASE UNCHANGED <<worker, spoilt>> /\ it' = [it EXCEPT !.todo = @ \ {vs}, !.vs = vs]
    <3>1. it'.pods = it.pods
      BY <1>1, <2>3 DEF Locals
    <3> QED
      BY <2>1, <2>3, <3>1 DEF LoopStep
  <2> QED
    BY <1>10, <2>2, <2>3 DEF TakeVirtualService, Goes
<1>11. CASE CountSubset(ok)
  <2> DEFINE n == Len(it.counts) + 1
             panics == ok /\ it.vs.split[n].weight = None
             next == IF panics THEN "dead" ELSE IF n = Len(it.vs.split) THEN "read" ELSE "count"
             counts == Append(it.counts, Cardinality(NextSubset(it.counts)))
             locals == IF panics THEN Fresh0 ELSE [it EXCEPT !.counts = counts]
  <2>1. GetsSubset(it.counts, ok, next, locals) /\ IF panics THEN WorkersDie ELSE UNCHANGED <<worker, spoilt>>
    BY <1>11 DEF CountSubset
  <2>2. [it EXCEPT !.counts = counts].pods = it.pods
    BY <1>1 DEF Locals
  <2> HIDE DEF n, counts, next
  <2>3. KeptStore /\ UNCHANGED asks /\ (it' = locals \/ it' = Fresh0) /\ (ok => it' = locals)
    BY <1>3, <2>1
  <2>4. CASE panics
    BY <1>4, <1>5, <2>1, <2>3, <2>4 DEF LoopStep
  <2>5. CASE ~ panics
    BY <1>4, <2>1, <2>2, <2>3, <2>5 DEF LoopStep
  <2> QED
    BY <2>4, <2>5
<1>12. CASE ReadSubset(ok)
  <2> DEFINE got == Append(it.got, NextSubset(it.got))
             l1 == [it EXCEPT !.got = got]
             l2 == [it EXCEPT !.vs = None, !.counts = <<>>, !.got = <<>>,
                              !.result = [@ EXCEPT ![it.vs.svc] = EntriesOf(it.vs, it.counts, got, it.pods)]]
  <2>1. GetsSubset(it.got, ok, "read", l1) \/ GetsSubset(it.got, ok, "vs", l2)
    BY <1>12 DEF ReadSubset
  <2>2. l1.pods = it.pods /\ l2.pods = it.pods
    BY <1>1 DEF Locals
  <2> HIDE DEF l1, l2
  <2>3. KeptStore /\ UNCHANGED asks /\ (it' = l1 \/ it' = l2 \/ it' = Fresh0)
    BY <1>3, <2>1
  <2> QED
    BY <1>4, <1>12, <2>2, <2>3 DEF ReadSubset, LoopStep
<1>13. CASE AddSidecarMapping(k, ok)
  <2>1. KeptStore
    BY <1>1, <1>13, CleanMesh DEF AddSidecarMapping
  <2> QED
    BY <1>4, <1>13, <2>1 DEF AddSidecarMapping, Goes, LoopStep
<1> QED
  BY <1>6, <1>7, <1>8, <1>9, <1>10, <1>11, <1>12, <1>13 DEF Loop

(* Failures are never forgotten.                                           *)
LEMMA FaultsGrow ==
    ASSUME Types, [PilotNext]_allVars, faults' = 0
    PROVE  faults = 0
<1>0. faults \in Nat
  BY FaultAssumption DEF Types, RegistryInv, TypeOK
<1> DEFINE Grows == faults' = faults \/ faults' = faults + 1
<1>1. \A ok, k, total : Ends(ok, k, total) => Grows
  BY DEF Ends
<1>2. \A k, ok, g : Refused(g, k, ok) => Grows
  BY DEF Refused, vars
<1>3. \A ok, next, locals : Reads(ok, next, locals) => Grows
  BY <1>1 DEF Reads
<1>4. UNCHANGED storeVars => Grows
  BY DEF storeVars, vars
<1>5. \A answers, ok, next, locals : GetsSubset(answers, ok, next, locals) => Grows
  BY <1>3, <1>4 DEF GetsSubset
<1> HIDE DEF Grows
<1>6. \A k, ok : Loop(k, ok) => Grows
  BY <1>1, <1>3, <1>4, <1>5 DEF Loop, GetAllPods, GetAllServices, GetAllVirtualServices, GetAllRollingUpdates,
     CountSubset, ReadSubset, TakeVirtualService, AddSidecarMapping, SaveSidecarMapping
<1>7. \A k, ok, r : Work(r, k, ok) => Grows
  <2>1. \A k, ok, r : Prepare(r, k, ok) => Grows
    BY <1>1, <1>2 DEF Prepare, UpdateRollingUpdateStatus, AddSubset, AddVirtualService
  <2>2. \A k, ok, r : Batch(r, k, ok) => Grows
    <3>1. \A n, ps, k, ok : AddSubset(n, ps, k, ok) => Grows
      BY <1>1 DEF AddSubset
    <3>2. \A n, k, ok : DeletePod(n, k, ok) => Grows
      BY <1>1 DEF DeletePod
    <3>3. \A n, k, ok : AddsPod(n, k, ok) => Grows
      BY <1>1 DEF AddsPod, AddPod
    <3> QED
      BY <1>2, <3>1, <3>2, <3>3 DEF Batch
  <2>3. \A k, ok, r : Finish(r, k, ok) => Grows
    BY <1>1, <1>2 DEF Finish, UpdateRollingUpdateStatus, DeleteSubset, DeleteVirtualService
  <2> QED
    BY <2>1, <2>2, <2>3 DEF Work
<1>8. \A k \in 0 .. 2, ok \in BOOLEAN : Users(k, ok) => faults = 0
  BY UserStepClean
<1>9. \A k, ok, nm : PodRuns(nm, k, ok) => Grows
  BY <1>1 DEF PodRuns, PutPodStatus
<1>10. Crash \/ Restart \/ UNCHANGED allVars => Grows
  BY <1>4 DEF Crash, Restart, allVars, Grows
<1> QED
  BY <1>0, <1>6, <1>7, <1>8, <1>9, <1>10 DEF PilotNext, Grows

(* A step without a failure: a user's, a worker's, the loop's or another's. *)
LEMMA CleanSteps ==
    ASSUME Types, [PilotNext]_allVars, faults' = 0
    PROVE  \/ \E a \in asks : UserStep(a)
           \/ \E r \in RuUids : WorkStep(r)
           \/ LoopStep
           \/ KeptStore /\ UNCHANGED <<worker, it, spoilt, asks>>
<1>1. faults \in Nat
  BY FaultAssumption DEF Types, RegistryInv, TypeOK
<1>2. ~ Crash
  BY <1>1 DEF Crash
<1>3. \A k, ok, nm : PodRuns(nm, k, ok) => KeptStore /\ UNCHANGED <<worker, it, spoilt, asks>>
  BY DEF PodRuns, PutPodStatus, KeptStore, KeptPods, KeptVss, KeptRus, KeptSubsets, meshVars, pilotVars
<1>4. Restart \/ UNCHANGED allVars => KeptStore /\ UNCHANGED <<worker, it, spoilt, asks>>
  BY DEF Restart, allVars, storeVars, vars, KeptStore, KeptPods, KeptVss, KeptRus, KeptSubsets, meshVars, pilotVars
<1> QED
  BY <1>2, <1>3, <1>4, UserStepClean, WorkStepClean, LoopStepClean DEF PilotNext

-----------------------------------------------------------------------------
(* A worker's locals                                                       *)

(* The least of two numbers.                                               *)
LEMMA MinOfTwo ==
    ASSUME NEW x \in Int, NEW y \in Int
    PROVE  Min({x, y}) <= x /\ Min({x, y}) <= y
<1>1. \E z \in {x, y} : \A t \in {x, y} : z <= t
  <2>1. CASE x <= y
    BY <2>1
  <2>2. CASE ~ (x <= y)
    BY <2>2
  <2> QED
    BY <2>1, <2>2
<1> QED
  BY <1>1 DEF Min

(* A worker's pods are finitely many.                                      *)
LEMMA CountOfPods ==
    ASSUME NEW w \in Workers
    PROVE  /\ IsFiniteSet(NamesOf(w)) /\ IsFiniteSet(w.left) /\ IsFiniteSet(w.batch)
           /\ Cardinality(w.left) \in Nat /\ Cardinality(w.batch) \in Nat
<1>1. w.left \subseteq Names /\ w.batch \subseteq Names /\ NamesOf(w) \subseteq Names
  BY DEF Workers, WorkerType, NamesOf
<1> QED
  BY <1>1, NamesAssumption, FS_Subset, FS_CardinalityType

(* The next batch: no more than may be missing.                            *)
LEMMA NextBatchFields ==
    ASSUME NEW w \in Workers, w.todo = {}, NEW n \in NextBatch(w), UpdateNum(w) \in Int
    PROVE  /\ n.name = w.name /\ n.svc = w.svc /\ n.min = w.min /\ n.pods = w.pods /\ n.todo = {}
           /\ \/ n.pc = "finished" /\ w.left = {} /\ n.left = {} /\ n.batch = w.batch
              \/ /\ n.pc = "blocked" /\ n.batch \subseteq w.left /\ n.left = w.left \ n.batch
                 /\ Cardinality(n.batch) <= UpdateNum(w)
<1>1. w \in WorkerType /\ Cardinality(w.left) \in Nat
  BY CountOfPods DEF Workers
<1>2. CASE w.left = {}
  <2>1. n = [w EXCEPT !.pc = "finished"]
    BY <1>2 DEF NextBatch
  <2> QED
    BY <1>1, <1>2, <2>1 DEF WorkerType
<1>3. CASE w.left # {}
  <2>1. PICK b \in SUBSET w.left :
           /\ Cardinality(b) = Min({UpdateNum(w), Cardinality(w.left)})
           /\ n = [w EXCEPT !.pc = "blocked", !.batch = b, !.left = @ \ b]
    BY <1>3 DEF NextBatch
  <2>2. Cardinality(b) <= UpdateNum(w)
    BY <1>1, <2>1, MinOfTwo
  <2>3. /\ n.name = w.name /\ n.svc = w.svc /\ n.min = w.min /\ n.pods = w.pods /\ n.todo = {}
        /\ n.pc = "blocked" /\ n.batch = b /\ n.left = w.left \ b
    BY <1>1, <2>1 DEF WorkerType
  <2> QED
    BY <2>2, <2>3
<1> QED
  BY <1>2, <1>3

(* What a worker was started for.                                          *)
SameUpdate(v, w) == v.name = w.name /\ v.svc = w.svc /\ v.min = w.min /\ v.pods = w.pods

(* A worker's next label, and what its other locals become.                *)
LEMMA MovedFields ==
    ASSUME NEW w \in WorkerType, NEW v, NEW label, v = [w EXCEPT !.pc = label]
    PROVE  SameUpdate(v, w) /\ v.pc = label /\ v.left = w.left /\ v.batch = w.batch /\ v.todo = w.todo
  BY DEF WorkerType, SameUpdate

(* A worker with less left to do in its batch.                             *)
LEMMA OtherTodo ==
    ASSUME NEW w \in WorkerType, NEW v, NEW todo, v = [w EXCEPT !.todo = todo]
    PROVE  SameUpdate(v, w) /\ v.pc = w.pc /\ v.left = w.left /\ v.batch = w.batch /\ v.todo = todo
  BY DEF WorkerType, SameUpdate

(* The locals of a worker, for themselves.                                 *)
BatchSound(w) ==
    /\ \A p \in w.pods : <<w.svc, p[1]>> \in Backs
    /\ Cardinality(w.pods) > w.min
    /\ w.pc \in {"status", "blocked0", "available0", "vs"} => w.left = NamesOf(w) /\ w.batch = {}
    /\ w.pc \in {"finished", "unVs"} => w.left = {}
    /\ w.left \intersect w.batch = {}
    /\ Cardinality(w.batch) <= UpdateNum(w)

(* The names of a worker's batch that it deleted and has not added again.  *)
Missing(w) == CASE w.pc = "delete" -> w.batch \ w.todo
                [] w.pc = "add" -> w.todo
                [] OTHER -> {}

(* The names it is through with: it tried to delete the pod it listed.     *)
Replaced(w) ==
    (NamesOf(w) \ (w.left \union w.batch)) \union
    (CASE w.pc = "delete" -> w.batch \ w.todo
       [] w.pc \in {"add", "finished", "unVs", "unBlocked", "unAvailable"} -> w.batch
       [] OTHER -> {})

(* The locals stay sound while list and batch stay.                        *)
LEMMA SameSound ==
    ASSUME NEW w, NEW v, BatchSound(w), SameUpdate(v, w),
           v.left = w.left, v.batch = w.batch,
           v.pc \in {"status", "blocked0", "available0", "vs"} =>
               w.pc \in {"status", "blocked0", "available0", "vs"},
           v.pc \in {"finished", "unVs"} => w.pc \in {"finished", "unVs"}
    PROVE  BatchSound(v) /\ NamesOf(v) = NamesOf(w)
<1>1. NamesOf(v) = NamesOf(w) /\ UpdateNum(v) = UpdateNum(w)
  BY DEF NamesOf, UpdateNum, SameUpdate
<1> QED
  BY <1>1 DEF BatchSound, SameUpdate

(* They stay sound from batch to batch; nothing is missing in between.     *)
LEMMA NextSound ==
    ASSUME NEW w \in Workers, BatchSound(w), w.todo = {}, NEW n \in NextBatch(w), UpdateNum(w) \in Int
    PROVE  /\ BatchSound(n) /\ SameUpdate(n, w) /\ n.pc \in {"blocked", "finished"} /\ n.todo = {}
           /\ Missing(n) = {}
           /\ w.pc = "vs" => Replaced(n) \subseteq Replaced(w)
           /\ Replaced(n) \subseteq (NamesOf(w) \ w.left) \union w.batch
<1>1. /\ n.name = w.name /\ n.svc = w.svc /\ n.min = w.min /\ n.pods = w.pods /\ n.todo = {}
      /\ \/ n.pc = "finished" /\ w.left = {} /\ n.left = {} /\ n.batch = w.batch
         \/ /\ n.pc = "blocked" /\ n.batch \subseteq w.left /\ n.left = w.left \ n.batch
            /\ Cardinality(n.batch) <= UpdateNum(w)
  BY NextBatchFields
<1>2. NamesOf(n) = NamesOf(w) /\ UpdateNum(n) = UpdateNum(w)
  BY <1>1 DEF NamesOf, UpdateNum
<1>3. CASE n.pc = "finished" /\ w.left = {} /\ n.left = {} /\ n.batch = w.batch
  <2>1. Replaced(n) = (NamesOf(w) \ w.batch) \union w.batch
    BY <1>2, <1>3 DEF Replaced
  <2>2. w.pc = "vs" => NamesOf(w) = {} /\ w.batch = {}
    BY <1>3 DEF BatchSound
  <2>3. BatchSound(n)
    BY <1>1, <1>2, <1>3 DEF BatchSound
  <2> QED
    BY <1>1, <1>3, <2>1, <2>2, <2>3 DEF Missing, SameUpdate
<1>4. CASE /\ n.pc = "blocked" /\ n.batch \subseteq w.left /\ n.left = w.left \ n.batch
           /\ Cardinality(n.batch) <= UpdateNum(w)
  <2>1. Replaced(n) = NamesOf(w) \ w.left
    BY <1>2, <1>4 DEF Replaced
  <2>2. w.pc = "vs" => NamesOf(w) = w.left
    BY DEF BatchSound
  <2>3. BatchSound(n)
    BY <1>1, <1>2, <1>4 DEF BatchSound
  <2> QED
    BY <1>1, <1>4, <2>1, <2>2, <2>3 DEF Missing, SameUpdate
<1> QED
  BY <1>1, <1>3, <1>4

(* What a worker's step does to the pods, and to its own part of them.     *)
WorkerFlow(w, v) ==
    \/ v = Off /\ KeptPods /\ Missing(w) = {}
    \/ /\ SameUpdate(v, w) /\ BatchSound(v) /\ v.pc \in Labels
       /\ \/ KeptPods /\ Missing(w) = {} /\ Replaced(v) \subseteq Replaced(w)
          \/ \E nm \in w.batch : /\ PodDeleted(nm) \/ (podKey[nm] = None /\ KeptPods)
                /\ Missing(w) \union {nm} \subseteq Missing(v)
                /\ Replaced(v) \subseteq Replaced(w) \union {nm}
          \/ \E nm \in w.batch : /\ PodAdded(nm) \/ (podKey[nm] # None /\ KeptPods)
                /\ Missing(w) \subseteq Missing(v) \union {nm}
                /\ Replaced(v) \subseteq Replaced(w)

(* A worker's step is one of these: it deletes and adds names of its batch *)
(* only, each deletion noted in its locals.                                *)
LEMMA WorkFlows ==
    ASSUME Types, NEW r \in RuUids, WorkStep(r), BatchSound(worker[r]), UpdateNum(worker[r]) \in Int
    PROVE  WorkerFlow(worker[r], worker'[r])
<1> DEFINE w == worker[r]
           v == worker'[r]
<1> SUFFICES WorkerFlow(w, v)
  OBVIOUS
<1>0. w \in Workers /\ w \in WorkerType /\ w.todo \subseteq w.batch /\ Active(r)
  BY WorkerFields DEF WorkStep, Types, IsWorker
<1>1. /\ At(r, w.pc) /\ (w.pc \notin {"delete", "add"} => w.todo = {} /\ Missing(w) = {})
  BY <1>0 DEF Workers, Missing, At
<1>2. ASSUME NEW from \in {"status", "blocked0", "available0", "blocked", "finished", "unVs", "unBlocked"},
             NEW to \in Labels,
             <<from, to>> \in {<<"status", "blocked0">>, <<"blocked0", "available0">>,
                 <<"available0", "vs">>, <<"blocked", "available">>, <<"finished", "unVs">>,
                 <<"unVs", "unBlocked">>, <<"unBlocked", "unAvailable">>},
             w.pc = from, v = [w EXCEPT !.pc = to], KeptPods
      PROVE  WorkerFlow(w, v)
  <2>1. SameUpdate(v, w) /\ v.pc = to /\ v.left = w.left /\ v.batch = w.batch
    BY <1>0, <1>2, MovedFields
  <2> HIDE DEF w, v
  <2>2. BatchSound(v) /\ NamesOf(v) = NamesOf(w)
    <3>1. /\ v.pc \in {"status", "blocked0", "available0", "vs"} =>
               w.pc \in {"status", "blocked0", "available0", "vs"}
          /\ v.pc \in {"finished", "unVs"} => w.pc \in {"finished", "unVs"}
      BY <1>2, <2>1
    <3>2. BatchSound(w)
      BY DEF w
    <3> QED
      BY <2>1, <3>1, <3>2, SameSound
  <2>3. Replaced(v) = Replaced(w)
    BY <1>2, <2>1, <2>2 DEF Replaced
  <2> QED
    BY <1>1, <1>2, <2>1, <2>2, <2>3 DEF WorkerFlow
<1>3. CASE At(r, "status")
  BY <1>1, <1>2, <1>3 DEF WorkStep, FromStatus, At, Moves, KeptStore, WorkerFlow, Labels
<1>4. CASE At(r, "blocked0")
  BY <1>1, <1>2, <1>4 DEF WorkStep, FromBlocked0, At, Moves, Labels
<1>5. CASE At(r, "available0")
  BY <1>1, <1>2, <1>5 DEF WorkStep, FromAvailable0, At, Moves, Labels
<1>6. CASE At(r, "vs")
  <2>1. (v = Off \/ v \in NextBatch(w)) /\ KeptPods
    BY <1>6 DEF WorkStep, At, FromVs, KeptStore
  <2>2. w.pc = "vs"
    BY <1>6 DEF At
  <2> HIDE DEF w, v
  <2>3. CASE v = Off /\ KeptPods
    BY <1>1, <2>2, <2>3 DEF WorkerFlow
  <2>4. CASE v \in NextBatch(w) /\ KeptPods
    <3>1. /\ BatchSound(v) /\ SameUpdate(v, w) /\ v.pc \in {"blocked", "finished"}
          /\ Replaced(v) \subseteq Replaced(w)
      BY <1>0, <1>1, <2>2, <2>4, NextSound DEF w
    <3> QED
      BY <1>1, <2>2, <2>4, <3>1 DEF WorkerFlow, Labels
  <2> QED
    BY <2>1, <2>3, <2>4
<1>7. CASE At(r, "blocked")
  BY <1>1, <1>2, <1>7 DEF WorkStep, FromBlocked, At, Moves, Labels
<1>8. CASE At(r, "available")
  <2>1. v = [w EXCEPT !.pc = "delete", !.todo = w.batch] /\ KeptPods /\ w.pc = "available"
    BY <1>8 DEF WorkStep, At, FromAvailable
  <2> HIDE DEF w, v
  <2>2. SameUpdate(v, w) /\ v.pc = "delete" /\ v.left = w.left /\ v.batch = w.batch /\ v.todo = w.batch
    <3> DEFINE todo == w.batch
    <3>1. v = [w EXCEPT !.pc = "delete", !.todo = todo]
      BY <2>1
    <3> HIDE DEF todo
    <3>2. SameUpdate(v, w) /\ v.pc = "delete" /\ v.left = w.left /\ v.batch = w.batch /\ v.todo = todo
      BY <1>0, <3>1 DEF WorkerType, SameUpdate
    <3> QED
      BY <3>2 DEF todo
  <2>3. BatchSound(v) /\ NamesOf(v) = NamesOf(w)
    BY <2>1, <2>2, SameSound DEF w
  <2>4. Replaced(v) = Replaced(w)
    BY <2>1, <2>2, <2>3 DEF Replaced
  <2> QED
    BY <1>1, <2>1, <2>2, <2>3, <2>4 DEF WorkerFlow, Labels
<1>9. CASE At(r, "delete")
  <2>1. PICK nm \in w.todo :
          /\ PodDeleted(nm) \/ (podKey[nm] = None /\ KeptPods)
          /\ v = IF w.todo = {nm} THEN [w EXCEPT !.pc = "add", !.todo = w.batch]
                 ELSE [w EXCEPT !.todo = @ \ {nm}]
    BY <1>9 DEF WorkStep, At, FromDelete
  <2>2. /\ w.pc = "delete" /\ SameUpdate(v, w) /\ v.left = w.left /\ v.batch = w.batch
        /\ \/ v.pc = "add" /\ v.todo = w.batch /\ w.todo = {nm}
           \/ v.pc = "delete" /\ v.todo = w.todo \ {nm}
    <3>1. w.pc = "delete"
      BY <1>9 DEF At
    <3>2. CASE w.todo = {nm}
      <4> DEFINE todo == w.batch
      <4>1. v = [w EXCEPT !.pc = "add", !.todo = todo]
        BY <2>1, <3>2
      <4> HIDE DEF todo, w, v
      <4>2. SameUpdate(v, w) /\ v.pc = "add" /\ v.left = w.left /\ v.batch = w.batch /\ v.todo = todo
        BY <1>0, <4>1 DEF WorkerType, SameUpdate
      <4> QED
        BY <3>1, <3>2, <4>2 DEF todo
    <3>3. CASE w.todo # {nm}
      <4>1. v = [w EXCEPT !.todo = w.todo \ {nm}]
        BY <2>1, <3>3
      <4> QED
        BY <1>0, <3>1, <4>1, OtherTodo
    <3> QED
      BY <3>2, <3>3
  <2> HIDE DEF w, v
  <2>3. BatchSound(v) /\ NamesOf(v) = NamesOf(w) /\ v.pc \in Labels
    BY <2>2, SameSound DEF w, Labels
  <2>4. Replaced(v) \subseteq Replaced(w) \union {nm}
    BY <2>2, <2>3 DEF Replaced
  <2>5. Missing(w) \union {nm} \subseteq Missing(v)
    BY <1>0, <2>2 DEF Missing
  <2> QED
    BY <1>0, <2>1, <2>2, <2>3, <2>4, <2>5 DEF WorkerFlow
<1>10. CASE At(r, "add")
  <2>1. PICK nm \in w.todo :
          /\ PodAdded(nm) \/ (podKey[nm] # None /\ KeptPods)
          /\ IF w.todo = {nm} THEN v \in NextBatch([w EXCEPT !.todo = {}])
             ELSE v = [w EXCEPT !.todo = @ \ {nm}]
    BY <1>10 DEF WorkStep, At, FromAdd
  <2>2. w.pc = "add"
    BY <1>10 DEF At
  <2>3. CASE w.todo = {nm}
    <3> DEFINE x == [w EXCEPT !.todo = {}]
    <3>1. SameUpdate(x, w) /\ x.pc = w.pc /\ x.left = w.left /\ x.batch = w.batch /\ x.todo = {}
      BY <1>0, OtherTodo
    <3>2. x \in Workers
      <4>1. x = [w EXCEPT !.pc = "add", !.todo = {}]
        BY <1>0, <2>2 DEF WorkerType
      <4> QED
        BY <1>0, <4>1, BusyWorker
    <3>3. v \in NextBatch(x)
      BY <2>1, <2>3
    <3> HIDE DEF w, v, x
    <3>4. BatchSound(x) /\ NamesOf(x) = NamesOf(w)
      BY <3>1, SameSound DEF w
    <3>5. UpdateNum(x) \in Int
      BY <3>1 DEF UpdateNum, SameUpdate, w
    <3>6. /\ BatchSound(v) /\ SameUpdate(v, x) /\ v.pc \in {"blocked", "finished"}
          /\ Missing(v) = {} /\ Replaced(v) \subseteq (NamesOf(x) \ x.left) \union x.batch
      BY <3>1, <3>2, <3>3, <3>4, <3>5, NextSound
    <3>7. Replaced(v) \subseteq Replaced(w)
      BY <2>2, <3>1, <3>4, <3>6 DEF Replaced
    <3>8. Missing(w) \subseteq Missing(v) \union {nm}
      BY <2>2, <2>3 DEF Missing
    <3>9. SameUpdate(v, w) /\ v.pc \in Labels
      BY <3>1, <3>6 DEF SameUpdate, Labels
    <3> QED
      BY <1>0, <2>1, <3>6, <3>7, <3>8, <3>9 DEF WorkerFlow
  <2>4. CASE w.todo # {nm}
    <3>1. v = [w EXCEPT !.todo = w.todo \ {nm}]
      BY <2>1, <2>4
    <3>2. /\ SameUpdate(v, w) /\ v.pc = w.pc /\ v.left = w.left /\ v.batch = w.batch
          /\ v.todo = w.todo \ {nm}
      BY <1>0, <3>1, OtherTodo
    <3> HIDE DEF w, v
    <3>3. BatchSound(v) /\ NamesOf(v) = NamesOf(w) /\ v.pc \in Labels
      BY <2>2, <3>2, SameSound DEF w, Labels
    <3>4. Replaced(v) \subseteq Replaced(w)
      BY <2>2, <3>2, <3>3 DEF Replaced
    <3>5. Missing(w) \subseteq Missing(v) \union {nm}
      BY <2>2, <3>2 DEF Missing
    <3> QED
      BY <1>0, <2>1, <3>2, <3>3, <3>4, <3>5 DEF WorkerFlow
  <2> QED
    BY <2>3, <2>4
<1>11. CASE At(r, "finished")
  BY <1>1, <1>2, <1>11 DEF WorkStep, FromFinished, At, Moves, Labels
<1>12. CASE At(r, "unVs")
  BY <1>1, <1>2, <1>12 DEF WorkStep, FromUnVs, At, Moves, Labels
<1>13. CASE At(r, "unBlocked")
  BY <1>1, <1>2, <1>13 DEF WorkStep, FromUnBlocked, At, Moves, Labels
<1>14. CASE At(r, "unAvailable")
  BY <1>1, <1>14 DEF WorkStep, FromUnAvailable, At, WorkerFlow
<1> QED
  BY <1>3, <1>4, <1>5, <1>6, <1>7, <1>8, <1>9, <1>10, <1>11, <1>12, <1>13, <1>14 DEF WorkStep

-----------------------------------------------------------------------------
(* The store without a failure                                             *)

(* The store without failures: every key leads to its object, every object *)
(* is led to by its key.                                                   *)
VsSound ==
    /\ \A n \in VsNames : vsKey[n] # None =>
          vss[vsKey[n]] # None /\ \A m \in VsNames : vsKey[m] = vsKey[n] => m = n
    /\ \A v \in VsUids : vss[v] # None => \E n \in VsNames : vsKey[n] = v
RuSound ==
    /\ \A n \in RuNames : ruKey[n] # None => rus[ruKey[n]] # None /\ rus[ruKey[n]].name = n
    /\ \A r \in RuUids : rus[r] # None => ruKey[rus[r].name] = r
StoreSound == faults = 0 => OrphanPods = {} /\ DanglingNames = {} /\ VsSound /\ RuSound

(* The services that users ask to update.                                  *)
Updated == {a.svc : a \in {x \in scenario.asks : x.op = "AddRollingUpdate"}}

(* The names and the list that a worker makes.                             *)
LEMMA RollingTypes ==
    ASSUME NEW s \in Svcs
    PROVE  RollingVs(s) \in VsNames /\ RollingSplit(s) \in Seq(Weighing)
           /\ Blocked(s) \in SubNames /\ Available(s) \in SubNames
<1>1. RollingVs(s) \in VsNames /\ Blocked(s) \in SubNames /\ Available(s) \in SubNames
  BY DEF VsNames, SubNames
<1>2. /\ [subset |-> Available(s), weight |-> 1] \in Weighing
      /\ [subset |-> Blocked(s), weight |-> 0] \in Weighing
  BY <1>1 DEF Weighing
<1> QED
  BY <1>1, <1>2 DEF RollingSplit

(* What a step without a failure does to virtual services,                 *)
LEMMA VssSteps ==
    ASSUME Types, [PilotNext]_allVars, faults' = 0
    PROVE  \/ KeptVss
           \/ \E n \in VsNames, s \in Svcs, split \in Seq(Weighing) : VsAdded(n, s, split)
           \/ \E n \in VsNames : VsDeleted(n)
<1>1. CASE \E a \in asks : UserStep(a)
  <2>1. PICK a \in asks : UserStep(a)
    BY <1>1
  <2>2. a \in Request
    BY AskedRequests DEF Types
  <2> QED
    BY <2>1, <2>2, RequestFields DEF UserStep, KeptStore
<1>2. CASE \E r \in RuUids : WorkStep(r)
  <2>1. PICK r \in RuUids : WorkStep(r)
    BY <1>2
  <2> DEFINE s == worker[r].svc
  <2>2. \/ KeptVss \/ VsAdded(RollingVs(s), s, RollingSplit(s)) \/ VsDeleted(RollingVs(s))
    BY <2>1 DEF WorkStep, FromStatus, FromBlocked0, FromAvailable0, FromVs, FromBlocked, FromAvailable,
       FromDelete, FromAdd, FromFinished, FromUnVs, FromUnBlocked, FromUnAvailable, KeptStore
  <2>3. s \in Svcs
    BY <2>1, WorkerFields DEF WorkStep, Types
  <2> HIDE DEF s
  <2> QED
    BY <2>2, <2>3, RollingTypes
<1> QED
  BY <1>1, <1>2, CleanSteps DEF LoopStep, KeptStore

(* and to rolling updates: an addition was asked for.                      *)
LEMMA RusSteps ==
    ASSUME Types, [PilotNext]_allVars, faults' = 0
    PROVE  \/ KeptRus
           \/ \E n \in RuNames, s \in Svcs, min \in Nat, busy \in SUBSET RuUids : s \in Updated /\ RuAdded(n, s, min, busy)
           \/ \E n \in RuNames, phase \in {"Running", "Finished"} : RuStatus(n, phase)
           \/ \E n \in RuNames : RuDeleted(n)
<1>1. CASE \E a \in asks : UserStep(a)
  <2>1. PICK a \in asks : UserStep(a)
    BY <1>1
  <2>2. a \in Request /\ (a.op = "AddRollingUpdate" => a.svc \in Updated)
    BY AskedRequests DEF Types, Updated
  <2> DEFINE busy == {r \in RuUids : Active(r)}
  <2>3. busy \in SUBSET RuUids
    OBVIOUS
  <2>4. a.op = "AddRollingUpdate" => a.name \in RuNames /\ a.svc \in Svcs /\ a.min \in Nat
    BY <2>2, RequestFields
  <2>5. a.op = "DeleteRollingUpdate" => a.name \in RuNames
    BY <2>2, RequestFields
  <2>6. \/ KeptRus
        \/ a.op = "AddRollingUpdate" /\ RuAdded(a.name, a.svc, a.min, busy)
        \/ a.op = "DeleteRollingUpdate" /\ RuDeleted(a.name)
    BY <2>1 DEF UserStep, KeptStore
  <2> HIDE DEF busy
  <2> QED
    BY <2>2, <2>3, <2>4, <2>5, <2>6
<1>2. CASE \E r \in RuUids : WorkStep(r)
  <2>1. PICK r \in RuUids : WorkStep(r)
    BY <1>2
  <2> DEFINE n == worker[r].name
  <2>2. \/ KeptRus \/ RuStatus(n, "Running") \/ RuStatus(n, "Finished")
    BY <2>1 DEF WorkStep, FromStatus, FromBlocked0, FromAvailable0, FromVs, FromBlocked, FromAvailable,
       FromDelete, FromAdd, FromFinished, FromUnVs, FromUnBlocked, FromUnAvailable, KeptStore
  <2>3. n \in RuNames
    BY <2>1, WorkerFields DEF WorkStep, Types
  <2> QED
    BY <2>2, <2>3
<1> QED
  BY <1>1, <1>2, CleanSteps DEF LoopStep, KeptStore

(* Uids are numbers.                                                       *)
LEMMA UidsNotNone == None \notin VsUids /\ None \notin RuUids /\ None \notin PodUids
  BY UidAssumption, NoneAssumption

(* Adding and deleting virtual services keeps keys and objects together.   *)
LEMMA VsSoundKept ==
    ASSUME MeshTypes, VsSound,
           \/ KeptVss
           \/ \E n \in VsNames, s \in Svcs, split \in Seq(Weighing) : VsAdded(n, s, split)
           \/ \E n \in VsNames : VsDeleted(n)
    PROVE  VsSound'
<1>0. /\ vsKey \in [VsNames -> VsUids \union {None}] /\ vss \in [VsUids -> VirtualService \union {None}]
      /\ None \notin VsUids
  BY UidsNotNone DEF MeshTypes
<1>1. CASE KeptVss
  BY <1>1 DEF KeptVss, VsSound
<1>2. ASSUME NEW n \in VsNames, NEW s \in Svcs, NEW split \in Seq(Weighing), VsAdded(n, s, split)
      PROVE  VsSound'
  <2> DEFINE new == [svc |-> s, split |-> split]
  <2>1. PICK v \in Fresh(VsUids, vsKey, vss) :
           vsKey' = [vsKey EXCEPT ![n] = v] /\ vss' = [vss EXCEPT ![v] = new]
    BY <1>2 DEF VsAdded
  <2>2. new # None
    BY MeshNoneAssumption DEF VirtualService
  <2>3. v \in VsUids /\ vss[v] = None /\ \A m \in VsNames : vsKey[m] # v
    BY <1>0, <2>1 DEF Fresh
  <2> HIDE DEF new
  <2>4. vsKey[n] = None
    BY <1>2 DEF VsAdded, VsAccepted
  <2>5. /\ vsKey'[n] = v /\ vss'[v] = new
        /\ \A m \in VsNames : m # n => vsKey'[m] = vsKey[m]
        /\ \A u \in VsUids : u # v => vss'[u] = vss[u]
    BY <1>0, <2>1, <2>3
  <2> QED
    BY <1>0, <2>2, <2>3, <2>4, <2>5 DEF VsSound
<1>3. ASSUME NEW n \in VsNames, VsDeleted(n) PROVE VsSound'
  <2>1. vsKey[n] \in VsUids
    BY <1>0, <1>3 DEF VsDeleted
  <2>2. /\ vsKey'[n] = None /\ vss'[vsKey[n]] = None
        /\ \A m \in VsNames : m # n => vsKey'[m] = vsKey[m]
        /\ \A u \in VsUids : u # vsKey[n] => vss'[u] = vss[u]
    BY <1>0, <1>3, <2>1 DEF VsDeleted
  <2> QED
    BY <1>0, <2>1, <2>2 DEF VsSound
<1> QED
  BY <1>1, <1>2, <1>3

(* Adding, advancing and deleting updates does.                            *)
LEMMA RuSoundKept ==
    ASSUME MeshTypes, RuSound,
           \/ KeptRus
           \/ \E n \in RuNames, s \in Svcs, min \in Nat, busy \in SUBSET RuUids : s \in Updated /\ RuAdded(n, s, min, busy)
           \/ \E n \in RuNames, phase \in {"Running", "Finished"} : RuStatus(n, phase)
           \/ \E n \in RuNames : RuDeleted(n)
    PROVE  RuSound'
<1>0. /\ ruKey \in [RuNames -> RuUids \union {None}] /\ rus \in [RuUids -> RollingUpdate \union {None}]
      /\ None \notin RuUids /\ None \notin RollingUpdate
  BY UidsNotNone, MeshNoneAssumption DEF MeshTypes
<1>00. \A r \in RuUids : rus[r] # None => rus[r].name \in RuNames
  BY <1>0 DEF RollingUpdate
<1>1. CASE KeptRus
  BY <1>1 DEF KeptRus, RuSound
<1>2. ASSUME NEW n \in RuNames, NEW s \in Svcs, NEW min \in Nat, NEW busy \in SUBSET RuUids, RuAdded(n, s, min, busy)
      PROVE  RuSound'
  <2> DEFINE new == [name |-> n, svc |-> s, min |-> min, phase |-> "Pending"]
  <2>1. PICK r \in Fresh(RuUids \ busy, ruKey, rus) :
           ruKey' = [ruKey EXCEPT ![n] = r] /\ rus' = [rus EXCEPT ![r] = new]
    BY <1>2 DEF RuAdded
  <2>2. new # None /\ new.name = n
    BY <1>0 DEF RollingUpdate
  <2>3. r \in RuUids /\ rus[r] = None /\ \A m \in RuNames : ruKey[m] # r
    BY <1>0, <2>1 DEF Fresh
  <2> HIDE DEF new
  <2>4. ruKey[n] = None
    BY <1>2 DEF RuAdded
  <2>5. /\ ruKey'[n] = r /\ rus'[r] = new
        /\ \A m \in RuNames : m # n => ruKey'[m] = ruKey[m]
        /\ \A u \in RuUids : u # r => rus'[u] = rus[u]
    BY <1>0, <2>1, <2>3
  <2> QED
    BY <1>0, <1>00, <2>2, <2>3, <2>4, <2>5 DEF RuSound
<1>3. ASSUME NEW n \in RuNames, RuDeleted(n) PROVE RuSound'
  <2>1. ruKey[n] \in RuUids
    BY <1>0, <1>3 DEF RuDeleted
  <2>2. /\ ruKey'[n] = None /\ rus'[ruKey[n]] = None
        /\ \A m \in RuNames : m # n => ruKey'[m] = ruKey[m]
        /\ \A u \in RuUids : u # ruKey[n] => rus'[u] = rus[u]
    BY <1>0, <1>3, <2>1 DEF RuDeleted
  <2> QED
    BY <1>0, <1>00, <2>1, <2>2 DEF RuSound
<1>4. ASSUME NEW n \in RuNames, NEW phase \in {"Running", "Finished"}, RuStatus(n, phase)
      PROVE  RuSound'
  <2> DEFINE r == ruKey[n]
             new == [rus[r] EXCEPT !.phase = phase]
  <2>1. r \in RuUids /\ rus[r] # None /\ rus' = [rus EXCEPT ![r] = new] /\ ruKey' = ruKey
    BY <1>0, <1>4 DEF RuStatus, RuKnown
  <2>2. new # None /\ new.name = rus[r].name
    BY <1>0, <2>1 DEF RollingUpdate
  <2> HIDE DEF r, new
  <2>3. rus'[r] = new /\ \A u \in RuUids : u # r => rus'[u] = rus[u]
    BY <1>0, <2>1
  <2> QED
    BY <1>0, <1>00, <2>1, <2>2, <2>3 DEF RuSound
<1> QED
  BY <1>1, <1>2, <1>3, <1>4

(* The store is sound after every step.                                    *)
LEMMA StoreSoundKept == Types /\ StoreSound /\ [PilotNext]_allVars => StoreSound'
<1> SUFFICES ASSUME Types, StoreSound, [PilotNext]_allVars, faults' = 0
             PROVE  OrphanPods' = {} /\ DanglingNames' = {} /\ VsSound' /\ RuSound'
  BY DEF StoreSound
<1>1. faults = 0
  BY FaultsGrow
<1>2. OrphanPods = {} /\ DanglingNames = {} /\ VsSound /\ RuSound
  BY <1>1 DEF StoreSound
<1>3. OrphanPods' = {} /\ DanglingNames' = {}
  <2>1. CASE [Next]_vars
    BY <1>1, <1>2, <2>1, PodDebrisSteps DEF Types, RegistryInv
  <2>2. CASE Elsewhere
    BY <1>2, <2>2 DEF Elsewhere, podVars, OrphanPods, DanglingNames
  <2> QED
    BY <2>1, <2>2, RegistrySteps
<1> QED
  BY <1>2, <1>3, VssSteps, RusSteps, VsSoundKept, RuSoundKept DEF Types

(* It is sound at first.                                                   *)
LEMMA StoreSoundFirst == PilotInit => StoreSound
<1> SUFFICES ASSUME PilotInit PROVE OrphanPods = {} /\ DanglingNames = {} /\ VsSound /\ RuSound
  BY DEF StoreSound
<1>1. VsSound /\ RuSound
  BY DEF PilotInit, MeshInit, VsSound, RuSound
<1>2. /\ \A nm \in Names : podKey[nm] = IF nm \in scenario.pods THEN Min(UidsOf[nm]) ELSE None
      /\ \A nm \in scenario.pods : nm \in Names /\ pods[podKey[nm]] = [name |-> nm, status |-> podKey[nm]]
                                   /\ podKey[nm] \in PodUids
      /\ \A u \in PodUids : pods[u] # None => \E nm \in scenario.pods : podKey[nm] = u
  BY FirstPods
<1>3. DanglingNames = {}
  <2>1. ASSUME NEW nm \in Names, podKey[nm] # None PROVE pods[podKey[nm]] # None
    <3>1. nm \in scenario.pods
      BY <1>2, <2>1
    <3>2. pods[podKey[nm]] = [name |-> nm, status |-> podKey[nm]] /\ podKey[nm] \in PodUids
      BY <1>2, <3>1
    <3>3. [name |-> nm, status |-> podKey[nm]] \in [name : Names, status : PodUids \union {None}]
      BY <3>2
    <3> QED
      BY <3>2, <3>3, NoneAssumption
  <2> QED
    BY <2>1 DEF DanglingNames
<1>4. OrphanPods = {}
  <2>1. ASSUME NEW u \in PodUids, pods[u] # None PROVE podKey[pods[u].name] = u
    <3>1. PICK nm \in scenario.pods : podKey[nm] = u
      BY <1>2, <2>1
    <3>2. pods[u] = [name |-> nm, status |-> u]
      BY <1>2, <3>1
    <3> QED
      BY <3>1, <3>2
  <2> QED
    BY <2>1 DEF OrphanPods
<1> QED
  BY <1>1, <1>3, <1>4

-----------------------------------------------------------------------------
(* Whose updates and workers there are                                     *)

(* After a batch comes a batch or the end.                                 *)
LEMMA NextLabel ==
    ASSUME NEW w \in WorkerType, NEW n \in NextBatch(w)
    PROVE  n.pc \in {"blocked", "finished"} /\ SameUpdate(n, w)
<1>1. CASE w.left = {}
  BY <1>1 DEF NextBatch, WorkerType, SameUpdate
<1>2. CASE w.left # {}
  <2>1. PICK b \in SUBSET w.left : n = [w EXCEPT !.pc = "blocked", !.batch = b, !.left = @ \ b]
    BY <1>2 DEF NextBatch
  <2> QED
    BY <2>1 DEF WorkerType, SameUpdate
<1> QED
  BY <1>1, <1>2

(* What a worker's request does to the mesh, by its label before and after.*)
WorkMesh(r, w, v) ==
    \/ /\ w.pc = "status" /\ KeptVss /\ KeptSubsets
       /\ \/ RuStatus(w.name, "Running") /\ v.pc = "blocked0" /\ SameUpdate(v, w)
          \/ ~ RuKnown(w.name) /\ KeptRus /\ v = Off
    \/ /\ w.pc = "blocked0" /\ v.pc = "available0" /\ SameUpdate(v, w)
       /\ SubsetSet(Blocked(w.svc), {}) /\ KeptVss /\ KeptRus
    \/ /\ w.pc = "available0" /\ v.pc = "vs" /\ SameUpdate(v, w)
       /\ SubsetSet(Available(w.svc), {}) /\ KeptVss /\ KeptRus
    \/ /\ w.pc = "vs" /\ KeptRus /\ KeptSubsets
       /\ \/ VsAdded(RollingVs(w.svc), w.svc, RollingSplit(w.svc))
             /\ v.pc \in {"blocked", "finished"} /\ SameUpdate(v, w)
          \/ KeptVss /\ v = Off
    \/ /\ w.pc \in {"blocked", "available", "delete", "add"} /\ SameUpdate(v, w)
       /\ v.pc \in {"blocked", "available", "delete", "add", "finished"}
       /\ KeptVss /\ KeptRus
       /\ KeptSubsets \/ \E ps : SubsetSet(Blocked(w.svc), ps) \/ SubsetSet(Available(w.svc), ps)
    \/ /\ w.pc = "finished" /\ v.pc = "unVs" /\ SameUpdate(v, w) /\ KeptVss /\ KeptSubsets
       /\ RuStatus(w.name, "Finished") \/ (~ RuKnown(w.name) /\ KeptRus)
    \/ /\ w.pc = "unVs" /\ v.pc = "unBlocked" /\ SameUpdate(v, w) /\ KeptRus /\ KeptSubsets
       /\ VsDeleted(RollingVs(w.svc)) \/ (vsKey[RollingVs(w.svc)] = None /\ KeptVss)
    \/ /\ w.pc = "unBlocked" /\ v.pc = "unAvailable" /\ SameUpdate(v, w) /\ KeptVss /\ KeptRus
       /\ SubsetSet(Blocked(w.svc), None) \/ (subsets[Blocked(w.svc)] = None /\ KeptSubsets)
    \/ /\ w.pc = "unAvailable" /\ v = Off /\ KeptVss /\ KeptRus
       /\ SubsetSet(Available(w.svc), None) \/ (subsets[Available(w.svc)] = None /\ KeptSubsets)

(* A worker's step is one of these.                                        *)
LEMMA WorkMeshStep ==
    ASSUME Types, NEW r \in RuUids, WorkStep(r)
    PROVE  WorkMesh(r, worker[r], worker'[r])
<1> DEFINE w == worker[r]
           v == worker'[r]
<1> SUFFICES WorkMesh(r, w, v)
  OBVIOUS
<1>0. w \in WorkerType /\ w.todo \subseteq Names /\ At(r, w.pc) /\ Active(r)
  BY WorkerFields DEF WorkStep, Types, At
<1>1. ASSUME NEW to, v = Moves(r, to) PROVE v.pc = to /\ SameUpdate(v, w)
  <2>1. v = [w EXCEPT !.pc = to]
    BY <1>1 DEF Moves
  <2> QED
    BY <1>0, <2>1, MovedFields
<1>2. ASSUME NEW to, NEW todo, v = [w EXCEPT !.pc = to, !.todo = todo] PROVE v.pc = to /\ SameUpdate(v, w)
  BY <1>0, <1>2 DEF WorkerType, SameUpdate
<1>3. ASSUME NEW todo, v = [w EXCEPT !.todo = todo] PROVE v.pc = w.pc /\ SameUpdate(v, w)
  BY <1>0, <1>3, OtherTodo
<1>4. CASE At(r, "status")
  <2>1. FromStatus(r, w) /\ w.pc = "status"
    BY <1>4 DEF WorkStep, At
  <2> HIDE DEF w, v
  <2> QED
    BY <1>1, <2>1 DEF FromStatus, WorkMesh, KeptStore, v
<1>5. CASE At(r, "blocked0")
  <2>1. FromBlocked0(r, w) /\ w.pc = "blocked0"
    BY <1>5 DEF WorkStep, At
  <2> HIDE DEF w, v
  <2> QED
    BY <1>1, <2>1 DEF FromBlocked0, WorkMesh, v
<1>6. CASE At(r, "available0")
  <2>1. FromAvailable0(r, w) /\ w.pc = "available0"
    BY <1>6 DEF WorkStep, At
  <2> HIDE DEF w, v
  <2> QED
    BY <1>1, <2>1 DEF FromAvailable0, WorkMesh, v
<1>7. CASE At(r, "vs")
  <2>1. FromVs(r, w) /\ w.pc = "vs"
    BY <1>7 DEF WorkStep, At
  <2> HIDE DEF w, v
  <2>2. v \in NextBatch(w) => v.pc \in {"blocked", "finished"} /\ SameUpdate(v, w)
    BY <1>0, NextLabel
  <2> QED
    BY <2>1, <2>2 DEF FromVs, WorkMesh, KeptStore, v
<1>8. CASE At(r, "blocked")
  <2>1. FromBlocked(r, w) /\ w.pc = "blocked"
    BY <1>8 DEF WorkStep, At
  <2> HIDE DEF w, v
  <2>2. v.pc = "available" /\ SameUpdate(v, w) /\ KeptVss /\ KeptRus
        /\ (SubsetSet(Blocked(w.svc), w.batch) \/ KeptSubsets)
    BY <1>1, <2>1 DEF FromBlocked, v
  <2> QED
    BY <2>1, <2>2 DEF WorkMesh
<1>9. CASE At(r, "available")
  <2>1. FromAvailable(r, w) /\ w.pc = "available"
    BY <1>9 DEF WorkStep, At
  <2>2. v.pc = "delete" /\ SameUpdate(v, w)
    BY <1>2, <2>1 DEF FromAvailable
  <2>3. KeptVss /\ KeptRus /\ (SubsetSet(Available(w.svc), NamesOf(w) \ w.batch) \/ KeptSubsets)
    BY <2>1 DEF FromAvailable
  <2> HIDE DEF w, v
  <2> QED
    BY <2>1, <2>2, <2>3 DEF WorkMesh
<1>10. CASE At(r, "delete")
  <2>1. FromDelete(r, w) /\ w.pc = "delete"
    BY <1>10 DEF WorkStep, At
  <2>2. KeptVss /\ KeptRus /\ KeptSubsets
    BY <2>1 DEF FromDelete
  <2>3. PICK nm \in w.todo : v = IF w.todo = {nm} THEN [w EXCEPT !.pc = "add", !.todo = w.batch]
                                 ELSE [w EXCEPT !.todo = @ \ {nm}]
    BY <2>1 DEF FromDelete
  <2>4. v.pc \in {"delete", "add"} /\ SameUpdate(v, w)
    <3>1. CASE w.todo = {nm}
      BY <1>2, <2>3, <3>1
    <3>2. CASE w.todo # {nm}
      <4>1. v = [w EXCEPT !.todo = w.todo \ {nm}]
        BY <2>3, <3>2
      <4> QED
        BY <1>3, <2>1, <4>1
    <3> QED
      BY <3>1, <3>2
  <2> HIDE DEF w, v
  <2> QED
    BY <2>1, <2>2, <2>4 DEF WorkMesh
<1>11. CASE At(r, "add")
  <2>1. FromAdd(r, w) /\ w.pc = "add"
    BY <1>11 DEF WorkStep, At
  <2>2. KeptVss /\ KeptRus /\ KeptSubsets
    BY <2>1 DEF FromAdd
  <2>3. PICK nm \in w.todo : IF w.todo = {nm} THEN v \in NextBatch([w EXCEPT !.todo = {}])
                             ELSE v = [w EXCEPT !.todo = @ \ {nm}]
    BY <2>1 DEF FromAdd
  <2>4. v.pc \in {"blocked", "finished", "add"} /\ SameUpdate(v, w)
    <3>1. CASE w.todo = {nm}
      <4> DEFINE x == [w EXCEPT !.todo = {}]
      <4>1. x \in WorkerType /\ SameUpdate(x, w)
        BY <1>0 DEF WorkerType, SameUpdate
      <4>2. v \in NextBatch(x)
        BY <2>3, <3>1
      <4> HIDE DEF x, w, v
      <4> QED
        BY <4>1, <4>2, NextLabel DEF SameUpdate
    <3>2. CASE w.todo # {nm}
      <4>1. v = [w EXCEPT !.todo = w.todo \ {nm}]
        BY <2>3, <3>2
      <4> QED
        BY <1>3, <2>1, <4>1
    <3> QED
      BY <3>1, <3>2
  <2> HIDE DEF w, v
  <2> QED
    BY <2>1, <2>2, <2>4 DEF WorkMesh
<1>12. CASE At(r, "finished")
  <2>1. FromFinished(r, w) /\ w.pc = "finished"
    BY <1>12 DEF WorkStep, At
  <2> HIDE DEF w, v
  <2> QED
    BY <1>1, <2>1 DEF FromFinished, WorkMesh, v
<1>13. CASE At(r, "unVs")
  <2>1. FromUnVs(r, w) /\ w.pc = "unVs"
    BY <1>13 DEF WorkStep, At
  <2> HIDE DEF w, v
  <2> QED
    BY <1>1, <2>1 DEF FromUnVs, WorkMesh, v
<1>14. CASE At(r, "unBlocked")
  <2>1. FromUnBlocked(r, w) /\ w.pc = "unBlocked"
    BY <1>14 DEF WorkStep, At
  <2> HIDE DEF w, v
  <2> QED
    BY <1>1, <2>1 DEF FromUnBlocked, WorkMesh, v
<1>15. CASE At(r, "unAvailable")
  <2>1. FromUnAvailable(r, w) /\ w.pc = "unAvailable"
    BY <1>15 DEF WorkStep, At
  <2> HIDE DEF w, v
  <2> QED
    BY <2>1 DEF FromUnAvailable, WorkMesh, v
<1> QED
  BY <1>4, <1>5, <1>6, <1>7, <1>8, <1>9, <1>10, <1>11, <1>12, <1>13, <1>14, <1>15 DEF WorkStep

(* Updates and workers are of services that users asked to update.         *)
AskedInv == faults = 0 =>
    /\ \A r \in RuUids : rus[r] # None => rus[r].svc \in Updated
    /\ \A r \in RuUids : Active(r) => worker[r].svc \in Updated

(* A worker goes on with its own update, or is gone, or new.               *)
LEMMA WorkersFrom ==
    ASSUME Types, [PilotNext]_allVars, faults' = 0, NEW r \in RuUids, Active(r)'
    PROVE  \/ Active(r) /\ SameUpdate(worker'[r], worker[r])
           \/ Starts(r) /\ worker'[r] = NewWorker(r)
<1>1. worker'[r].pc # "off"
  BY DEF Active
<1>2. CASE \E a \in asks : UserStep(a)
  BY <1>1, <1>2 DEF UserStep, Active, SameUpdate
<1>3. CASE KeptStore /\ UNCHANGED <<worker, it, spoilt, asks>>
  BY <1>1, <1>3 DEF Active, SameUpdate
<1>4. CASE LoopStep
  BY <1>1, <1>4 DEF LoopStep, Off, Active, SameUpdate
<1>5. CASE \E q \in RuUids : WorkStep(q)
  <2>1. PICK q \in RuUids : WorkStep(q)
    BY <1>5
  <2>2. CASE q = r
    <3>1. WorkMesh(r, worker[r], worker'[r]) /\ Active(r)
      BY <2>1, <2>2, WorkMeshStep DEF WorkStep
    <3>2. worker'[r] # Off
      BY <1>1 DEF Off
    <3> QED
      BY <3>1, <3>2 DEF WorkMesh
  <2>3. CASE q # r
    BY <1>1, <2>1, <2>3 DEF WorkStep, Active, SameUpdate
  <2> QED
    BY <2>2, <2>3
<1> QED
  BY <1>2, <1>3, <1>4, <1>5, CleanSteps

(* The history only grows.                                                 *)
LEMMA SpoiltGrows ==
    ASSUME Types, [PilotNext]_allVars, faults' = 0
    PROVE  spoilt \subseteq spoilt'
  BY CleanSteps DEF UserStep, WorkStep, LoopStep

(* An update keeps its service.                                            *)
LEMMA RusFrom ==
    ASSUME Types, [PilotNext]_allVars, faults' = 0, NEW r \in RuUids, rus'[r] # None
    PROVE  \/ rus[r] # None /\ rus'[r].svc = rus[r].svc
           \/ rus'[r].svc \in Updated
<1>0. /\ ruKey \in [RuNames -> RuUids \union {None}] /\ rus \in [RuUids -> RollingUpdate \union {None}]
      /\ None \notin RuUids
  BY UidsNotNone DEF Types, MeshTypes
<1>1. CASE KeptRus
  BY <1>1 DEF KeptRus
<1>2. ASSUME NEW n \in RuNames, NEW s \in Updated, NEW min \in Nat, NEW busy, RuAdded(n, s, min, busy)
      PROVE  (rus[r] # None /\ rus'[r].svc = rus[r].svc) \/ rus'[r].svc \in Updated
  BY <1>0, <1>2 DEF RuAdded, Fresh
<1>3. ASSUME NEW n \in RuNames, RuDeleted(n)
      PROVE  (rus[r] # None /\ rus'[r].svc = rus[r].svc) \/ rus'[r].svc \in Updated
  BY <1>0, <1>3 DEF RuDeleted
<1>4. ASSUME NEW n \in RuNames, NEW phase, RuStatus(n, phase)
      PROVE  (rus[r] # None /\ rus'[r].svc = rus[r].svc) \/ rus'[r].svc \in Updated
  <2> DEFINE new == [rus[ruKey[n]] EXCEPT !.phase = phase]
  <2>1. ruKey[n] \in RuUids /\ rus[ruKey[n]] \in RollingUpdate /\ rus' = [rus EXCEPT ![ruKey[n]] = new]
    BY <1>0, <1>4 DEF RuStatus, RuKnown
  <2>2. new.svc = rus[ruKey[n]].svc /\ rus[ruKey[n]] # None
    BY <2>1, <1>4 DEF RollingUpdate, RuStatus, RuKnown
  <2> HIDE DEF new
  <2> QED
    BY <1>0, <2>1, <2>2
<1> QED
  BY <1>1, <1>2, <1>3, <1>4, RusSteps

(* It stays so.                                                            *)
LEMMA AskedInvKept == Types /\ AskedInv /\ [PilotNext]_allVars => AskedInv'
<1> SUFFICES ASSUME Types, AskedInv, [PilotNext]_allVars, faults' = 0
             PROVE  /\ \A r \in RuUids : rus'[r] # None => rus'[r].svc \in Updated'
                    /\ \A r \in RuUids : Active(r)' => worker'[r].svc \in Updated'
  BY DEF AskedInv
<1>1. faults = 0 /\ Updated' = Updated
  BY FaultsGrow, ScenarioKept DEF Updated
<1>2. ASSUME NEW r \in RuUids, rus'[r] # None PROVE rus'[r].svc \in Updated'
  BY <1>1, <1>2, RusFrom DEF AskedInv
<1>3. ASSUME NEW r \in RuUids, Active(r)' PROVE worker'[r].svc \in Updated'
  <2>1. CASE Active(r) /\ SameUpdate(worker'[r], worker[r])
    BY <1>1, <2>1 DEF AskedInv, SameUpdate
  <2>2. CASE Starts(r) /\ worker'[r] = NewWorker(r)
    <3>1. worker'[r].svc = rus[r].svc /\ rus[r] # None
      BY <2>2 DEF Starts, NewWorker
    <3> QED
      BY <1>1, <3>1 DEF AskedInv
  <2> QED
    BY <1>3, <2>1, <2>2, WorkersFrom
<1> QED
  BY <1>2, <1>3

(* A worker's update is as far as it.                                      *)
OwnPhase(r) == CASE At(r, "status") -> "Pending"
                 [] worker[r].pc \in {"unVs", "unBlocked", "unAvailable"} -> "Finished"
                 [] OTHER -> "Running"
(* The update of a worker, in the store.                                   *)
Owns(r) ==
    /\ rus[r] # None /\ rus[r].name = worker[r].name /\ rus[r].svc = worker[r].svc
    /\ rus[r].phase = OwnPhase(r)
(* While no update was deleted every worker's is there.                    *)
OwnUpdate ==
    faults = 0 /\ "unrolled" \notin spoilt => \A r \in RuUids : Active(r) => Owns(r)

(* Users who delete no update change none.                                 *)
LEMMA UserKeepsRus ==
    ASSUME MeshTypes, NEW a \in Request, UserStep(a), "unrolled" \notin spoilt'
    PROVE  \A r \in RuUids : rus[r] # None => rus'[r] = rus[r]
<1>1. KeptRus \/ \E n, s, min, busy : RuAdded(n, s, min, busy)
  BY DEF UserStep, KeptStore
<1>2. ASSUME NEW n, NEW s, NEW min, NEW busy, RuAdded(n, s, min, busy)
      PROVE  \A r \in RuUids : rus[r] # None => rus'[r] = rus[r]
  BY <1>2 DEF RuAdded, MeshTypes, Fresh
<1> QED
  BY <1>1, <1>2 DEF KeptRus

(* The status a worker writes goes to its own update.                      *)
LEMMA OwnStatus ==
    ASSUME MeshTypes, RuSound, NEW r \in RuUids, rus[r] # None, NEW phase \in {"Running", "Finished"}
    PROVE  /\ RuKnown(rus[r].name)
           /\ RuStatus(rus[r].name, phase) =>
                /\ rus'[r] # None /\ rus'[r].name = rus[r].name /\ rus'[r].svc = rus[r].svc
                /\ rus'[r].phase = phase
                /\ \A q \in RuUids : q # r => rus'[q] = rus[q]
<1> DEFINE n == rus[r].name
           new == [rus[r] EXCEPT !.phase = phase]
<1>1. /\ rus \in [RuUids -> RollingUpdate \union {None}] /\ rus[r] \in RollingUpdate
      /\ n \in RuNames /\ r # None /\ None \notin RollingUpdate
  BY UidsNotNone, MeshNoneAssumption DEF MeshTypes, RollingUpdate
<1>2. ruKey[n] = r
  BY DEF RuSound
<1>3. RuKnown(n)
  BY <1>1, <1>2 DEF RuKnown
<1>4. ASSUME RuStatus(n, phase)
      PROVE  /\ rus'[r] # None /\ rus'[r].name = rus[r].name /\ rus'[r].svc = rus[r].svc
             /\ rus'[r].phase = phase
             /\ \A q \in RuUids : q # r => rus'[q] = rus[q]
  <2>1. rus' = [rus EXCEPT ![r] = new]
    BY <1>2, <1>4 DEF RuStatus
  <2>2. new.name = rus[r].name /\ new.svc = rus[r].svc /\ new.phase = phase
    BY <1>1 DEF RollingUpdate
  <2>3. new # None
    BY <1>1 DEF RollingUpdate
  <2> HIDE DEF new
  <2> QED
    BY <1>1, <2>1, <2>2, <2>3
<1> QED
  BY <1>3, <1>4

(* A worker's step leaves its update its own, and the others alone.        *)
LEMMA WorkOwns ==
    ASSUME Types, RuSound, NEW r \in RuUids, WorkStep(r), Owns(r)
    PROVE  /\ Active(r)' => Owns(r)'
           /\ rus'[r] # None /\ rus'[r].svc = rus[r].svc
           /\ worker[r].pc # "finished" /\ worker[r].pc # "status" => rus'[r] = rus[r]
           /\ ~ (worker[r].pc = "status" /\ worker'[r] = Off)
           /\ \A q \in RuUids : q # r => rus'[q] = rus[q]
<1> DEFINE w == worker[r]
           v == worker'[r]
<1>1. WorkMesh(r, w, v) /\ Active(r)
  BY WorkMeshStep DEF WorkStep
<1>2. /\ rus[r] # None /\ rus[r].name = w.name /\ rus[r].svc = w.svc
      /\ rus[r].phase = CASE w.pc = "status" -> "Pending"
                          [] w.pc \in {"unVs", "unBlocked", "unAvailable"} -> "Finished"
                          [] OTHER -> "Running"
  BY DEF Owns, OwnPhase, At
<1>3. \A phase \in {"Running", "Finished"} :
         /\ RuKnown(w.name)
         /\ RuStatus(w.name, phase) =>
                /\ rus'[r] # None /\ rus'[r].name = rus[r].name /\ rus'[r].svc = rus[r].svc
                /\ rus'[r].phase = phase
                /\ \A q \in RuUids : q # r => rus'[q] = rus[q]
  BY <1>2, OwnStatus DEF Types
<1>4. Owns(r)' <=> /\ rus'[r] # None /\ rus'[r].name = v.name /\ rus'[r].svc = v.svc
                   /\ rus'[r].phase = CASE v.pc = "status" -> "Pending"
                          [] v.pc \in {"unVs", "unBlocked", "unAvailable"} -> "Finished"
                          [] OTHER -> "Running"
  BY DEF Owns, OwnPhase, At
<1>5. (Active(r)' <=> v.pc # "off") /\ (v = Off => v.pc = "off")
  BY DEF Active, Off
<1> HIDE DEF w, v
<1>6. CASE KeptRus /\ w.pc \notin {"status", "finished"}
  <2>1. rus' = rus
    BY <1>6 DEF KeptRus
  <2>2. v = Off \/ (SameUpdate(v, w) /\ v.pc # "status"
          /\ (v.pc \in {"unVs", "unBlocked", "unAvailable"} <=> w.pc \in {"unVs", "unBlocked", "unAvailable"}))
    BY <1>1, <1>6 DEF WorkMesh
  <2>3. Active(r)' => Owns(r)'
    BY <1>2, <1>4, <1>5, <1>6, <2>1, <2>2 DEF SameUpdate
  <2> QED
    BY <1>2, <1>6, <2>1, <2>3 DEF w, v
<1>7. CASE w.pc = "status" /\ RuStatus(w.name, "Running") /\ v.pc = "blocked0" /\ SameUpdate(v, w)
  <2>1. Owns(r)'
    BY <1>2, <1>3, <1>4, <1>7 DEF SameUpdate
  <2> QED
    BY <1>3, <1>5, <1>7, <2>1 DEF w, v
<1>8. CASE w.pc = "finished" /\ RuStatus(w.name, "Finished") /\ v.pc = "unVs" /\ SameUpdate(v, w)
  <2>1. Owns(r)'
    BY <1>2, <1>3, <1>4, <1>8 DEF SameUpdate
  <2> QED
    BY <1>3, <1>5, <1>8, <2>1 DEF w, v
<1>9. RuKnown(w.name)
  BY <1>3
<1> QED
  BY <1>1, <1>6, <1>7, <1>8, <1>9 DEF WorkMesh

(* Every worker keeps its own update.                                      *)
LEMMA OwnUpdateKept == Types /\ StoreSound /\ OwnUpdate /\ [PilotNext]_allVars => OwnUpdate'
<1> SUFFICES ASSUME Types, StoreSound, OwnUpdate, [PilotNext]_allVars, faults' = 0, "unrolled" \notin spoilt',
                    NEW r \in RuUids, Active(r)'
             PROVE  Owns(r)'
  BY DEF OwnUpdate
<1>1. faults = 0 /\ "unrolled" \notin spoilt /\ RuSound
  BY FaultsGrow, SpoiltGrows DEF StoreSound
<1>2. \A q \in RuUids : Active(q) => Owns(q)
  BY <1>1 DEF OwnUpdate
<1>3. CASE \E a \in asks : UserStep(a)
  <2>1. PICK a \in asks : UserStep(a)
    BY <1>3
  <2>2. worker' = worker /\ Active(r)
    BY <2>1 DEF UserStep, Active
  <2>3. rus'[r] = rus[r]
    BY <1>2, <2>1, <2>2, UserKeepsRus, AskedRequests DEF Types, Owns
  <2> QED
    BY <1>2, <2>2, <2>3 DEF Owns, OwnPhase, At
<1>4. CASE KeptStore /\ UNCHANGED <<worker, it, spoilt, asks>>
  BY <1>2, <1>4 DEF Owns, OwnPhase, At, KeptStore, KeptRus, Active
<1>5. CASE LoopStep
  <2>1. rus' = rus
    BY <1>5 DEF LoopStep, KeptStore, KeptRus
  <2>2. CASE worker'[r] = worker[r]
    BY <1>2, <2>1, <2>2 DEF Owns, OwnPhase, At, Active
  <2>3. CASE Starts(r) /\ worker'[r] = NewWorker(r)
    BY <2>1, <2>3 DEF Owns, OwnPhase, At, NewWorker, Starts
  <2> QED
    BY <1>5, <2>2, <2>3 DEF LoopStep, Active, Off
<1>6. CASE \E q \in RuUids : WorkStep(q)
  <2>1. PICK q \in RuUids : WorkStep(q)
    BY <1>6
  <2>2. Owns(q)
    BY <1>2, <2>1 DEF WorkStep
  <2>3. CASE q = r
    BY <1>1, <2>1, <2>2, <2>3, WorkOwns
  <2>4. CASE q # r
    <3>1. worker'[r] = worker[r] /\ rus'[r] = rus[r]
      BY <1>1, <2>1, <2>2, <2>4, WorkOwns DEF WorkStep
    <3> QED
      BY <1>2, <3>1 DEF Owns, OwnPhase, At, Active
  <2> QED
    BY <2>3, <2>4
<1> QED
  BY <1>3, <1>4, <1>5, <1>6, CleanSteps

-----------------------------------------------------------------------------
(* One worker at a time                                                    *)

(* Names made for different services differ.                               *)
LEMMA MadeNamesApart ==
    ASSUME NEW s, NEW t
    PROVE  /\ RollingVs(s) = RollingVs(t) <=> s = t
           /\ Blocked(s) = Blocked(t) <=> s = t
           /\ Available(s) = Available(t) <=> s = t
           /\ Blocked(s) # Available(t)
  BY DEF RollingVs, Blocked, Available

(* What an addition changes: one free name and uid,                        *)
LEMMA VsAddedFields ==
    ASSUME MeshTypes, NEW n \in VsNames, NEW s, NEW split, VsAdded(n, s, split)
    PROVE  vsKey[n] = None /\ \E v \in VsUids :
             /\ vss[v] = None /\ \A m \in VsNames : vsKey[m] # v
             /\ vsKey'[n] = v /\ \A m \in VsNames : m # n => vsKey'[m] = vsKey[m]
             /\ vss'[v] = [svc |-> s, split |-> split] /\ \A u \in VsUids : u # v => vss'[u] = vss[u]
<1> DEFINE new == [svc |-> s, split |-> split]
<1>1. PICK v \in Fresh(VsUids, vsKey, vss) :
           vsKey' = [vsKey EXCEPT ![n] = v] /\ vss' = [vss EXCEPT ![v] = new]
  BY DEF VsAdded
<1>2. /\ vsKey \in [VsNames -> VsUids \union {None}] /\ vss \in [VsUids -> VirtualService \union {None}]
  BY DEF MeshTypes
<1>3. v \in VsUids /\ vss[v] = None /\ \A m \in VsNames : vsKey[m] # v
  BY <1>1, <1>2 DEF Fresh
<1>4. vsKey[n] = None
  BY DEF VsAdded, VsAccepted
<1> HIDE DEF new
<1>5. /\ vsKey'[n] = v /\ \A m \in VsNames : m # n => vsKey'[m] = vsKey[m]
      /\ vss'[v] = new /\ \A u \in VsUids : u # v => vss'[u] = vss[u]
  BY <1>1, <1>2, <1>3
<1> QED
  BY <1>3, <1>4, <1>5 DEF new

(* what a deletion does,                                                   *)
LEMMA VsDeletedFields ==
    ASSUME MeshTypes, NEW n \in VsNames, VsDeleted(n)
    PROVE  /\ vsKey[n] \in VsUids
           /\ vsKey'[n] = None /\ \A m \in VsNames : m # n => vsKey'[m] = vsKey[m]
           /\ vss'[vsKey[n]] = None /\ \A u \in VsUids : u # vsKey[n] => vss'[u] = vss[u]
<1>1. /\ vsKey \in [VsNames -> VsUids \union {None}] /\ vss \in [VsUids -> VirtualService \union {None}]
  BY DEF MeshTypes
<1> QED
  BY <1>1 DEF VsDeleted

(* and what a write of a subset does.                                      *)
LEMMA SubsetFields ==
    ASSUME MeshTypes, NEW n \in SubNames, NEW value, SubsetSet(n, value)
    PROVE  subsets'[n] = value /\ \A m \in SubNames : m # n => subsets'[m] = subsets[m]
  BY DEF MeshTypes, SubsetSet

(* Users who leave the updates alone.                                      *)
LEMMA UsersApart ==
    ASSUME NEW a \in Request, UserStep(a), "users" \notin spoilt'
    PROVE  /\ \/ KeptVss
              \/ \E n \in UserVss, s \in Svcs, split \in Seq(Weighing) :
                    VsAdded(n, s, split) /\ \A i \in DOMAIN split : split[i].subset \in UserSubsets
              \/ \E n \in UserVss : VsDeleted(n)
           /\ KeptSubsets \/ \E n \in UserSubsets : \E value : SubsetSet(n, value)
           /\ KeptPods \/ \E nm \in Names : PodAdded(nm)
<1>1. ~ Meddles(a)
  BY DEF UserStep
<1>2. /\ a.op = "AddVirtualService" => a.name \in UserVss /\ \A i \in DOMAIN a.split : a.split[i].subset \in UserSubsets
      /\ a.op = "DeleteVirtualService" => a.name \in UserVss
      /\ a.op \in {"AddSubset", "DeleteSubset"} => a.name \in UserSubsets
      /\ a.op # "DeletePod"
  BY <1>1 DEF Meddles
<1>3. KeptPods \/ \E nm \in Names : PodAdded(nm)
  BY <1>2, RequestFields DEF UserStep, KeptStore
<1>4. KeptSubsets \/ \E n \in UserSubsets : \E value : SubsetSet(n, value)
  BY <1>2 DEF UserStep, KeptStore
<1>5. \/ KeptVss
      \/ \E n \in UserVss, s \in Svcs, split \in Seq(Weighing) :
                    VsAdded(n, s, split) /\ \A i \in DOMAIN split : split[i].subset \in UserSubsets
      \/ \E n \in UserVss : VsDeleted(n)
  <2>1. KeptVss \/ (a.op = "AddVirtualService" /\ VsAdded(a.name, a.svc, a.split))
        \/ (a.op = "DeleteVirtualService" /\ VsDeleted(a.name))
    BY DEF UserStep, KeptStore
  <2>2. a.op = "AddVirtualService" => a.svc \in Svcs /\ a.split \in Seq(Weighing)
    BY RequestFields
  <2> QED
    BY <1>2, <2>1, <2>2
<1> QED
  BY <1>3, <1>4, <1>5

(* They leave what pilot made for a service.                               *)
LEMMA UsersKeepRolling ==
    ASSUME MeshTypes, NEW a \in Request, UserStep(a), "users" \notin spoilt', NEW s \in Svcs
    PROVE  /\ vsKey'[RollingVs(s)] = vsKey[RollingVs(s)]
           /\ subsets'[Blocked(s)] = subsets[Blocked(s)] /\ subsets'[Available(s)] = subsets[Available(s)]
<1>1. /\ RollingVs(s) \in VsNames \ UserVss
      /\ Blocked(s) \in SubNames \ UserSubsets /\ Available(s) \in SubNames \ UserSubsets
      /\ UserVss \subseteq VsNames /\ UserSubsets \subseteq SubNames
  BY MadeNames, NamesAssumption DEF VsNames, SubNames
<1>2. vsKey'[RollingVs(s)] = vsKey[RollingVs(s)]
  <2>1. \A n \in UserVss : VsDeleted(n) => vsKey'[RollingVs(s)] = vsKey[RollingVs(s)]
    BY <1>1, VsDeletedFields
  <2>2. ASSUME NEW n \in UserVss, NEW t, NEW split, VsAdded(n, t, split)
        PROVE  vsKey'[RollingVs(s)] = vsKey[RollingVs(s)]
    <3> DEFINE m == RollingVs(s)
    <3>1. n \in VsNames /\ m \in VsNames /\ m # n
      BY <1>1
    <3>2. \A x \in VsNames : x # n => vsKey'[x] = vsKey[x]
      BY <2>2, <3>1, VsAddedFields
    <3> QED
      BY <3>1, <3>2
  <2> QED
    BY <2>1, <2>2, UsersApart DEF KeptVss
<1>3. ASSUME NEW n \in UserSubsets, NEW value, SubsetSet(n, value)
      PROVE  subsets'[Blocked(s)] = subsets[Blocked(s)] /\ subsets'[Available(s)] = subsets[Available(s)]
  BY <1>1, <1>3, SubsetFields
<1> QED
  BY <1>2, <1>3, UsersApart DEF KeptSubsets

(* One worker at a time owns the virtual service of a service, and takes   *)
(* its pods away.                                                          *)
OneUpdating ==
    Undisturbed =>
        /\ \A r \in RuUids : Updating(r) => vsKey[RollingVs(worker[r].svc)] # None
        /\ \A r, q \in RuUids : Updating(r) /\ Updating(q) /\ worker[r].svc = worker[q].svc => r = q

(* What is undisturbed was so before.                                      *)
LEMMA UndisturbedBefore ==
    ASSUME Types, [PilotNext]_allVars, Undisturbed'
    PROVE  Undisturbed /\ faults = 0 /\ faults' = 0 /\ "users" \notin spoilt'
<1>1. faults' = 0 /\ "users" \notin spoilt'
  BY DEF Undisturbed
<1> QED
  BY <1>1, FaultsGrow, SpoiltGrows DEF Undisturbed

(* Unless a worker moves, those that take pods away are those that did.    *)
LEMMA StillUpdating ==
    ASSUME Types, UNCHANGED worker \/ LoopStep, NEW r \in RuUids
    PROVE  /\ Updating(r)' => Updating(r) /\ worker'[r] = worker[r]
           /\ Updating(r) /\ "panic" \notin spoilt' => worker'[r] = worker[r]
<1>1. CASE UNCHANGED worker
  BY <1>1 DEF Updating
<1>2. CASE LoopStep
  <2>1. \/ worker'[r] = worker[r] \/ (Starts(r) /\ worker'[r] = NewWorker(r))
        \/ (worker'[r] = Off /\ "panic" \in spoilt')
    BY <1>2 DEF LoopStep
  <2>2. Updating(r) => ~ Starts(r)
    BY DEF Updating, Starts, Active
  <2>3. NewWorker(r).pc = "status" /\ Off.pc = "off"
    BY DEF NewWorker, Off
  <2> QED
    BY <2>1, <2>2, <2>3 DEF Updating
<1> QED
  BY <1>1, <1>2

(* AddVirtualServiceHandler refuses a name that is taken: the second       *)
(* worker of a service never gets past it.                                 *)
LEMMA OneUpdatingKept == Types /\ OneUpdating /\ [PilotNext]_allVars => OneUpdating'
<1> SUFFICES ASSUME Types, OneUpdating, [PilotNext]_allVars, Undisturbed'
             PROVE  /\ \A r \in RuUids : Updating(r)' => vsKey'[RollingVs(worker'[r].svc)] # None
                    /\ \A r, q \in RuUids : Updating(r)' /\ Updating(q)' /\ worker'[r].svc = worker'[q].svc => r = q
  BY DEF OneUpdating
<1>1. faults' = 0 /\ "users" \notin spoilt'
  BY UndisturbedBefore
<1>2. /\ \A r \in RuUids : Updating(r) => vsKey[RollingVs(worker[r].svc)] # None
      /\ \A r, q \in RuUids : Updating(r) /\ Updating(q) /\ worker[r].svc = worker[q].svc => r = q
  BY UndisturbedBefore DEF OneUpdating
<1>3. \A r \in RuUids : Updating(r) => worker[r].svc \in Svcs
  BY WorkerFields DEF Updating, Active, Types
<1>4. ASSUME UNCHANGED worker \/ LoopStep,
             \A s \in Svcs : vsKey[RollingVs(s)] # None => vsKey'[RollingVs(s)] # None
      PROVE  /\ \A r \in RuUids : Updating(r)' => vsKey'[RollingVs(worker'[r].svc)] # None
             /\ \A r, q \in RuUids : Updating(r)' /\ Updating(q)' /\ worker'[r].svc = worker'[q].svc => r = q
  BY <1>2, <1>3, <1>4, StillUpdating
<1>5. CASE \E a \in asks : UserStep(a)
  <2>1. PICK a \in asks : UserStep(a)
    BY <1>5
  <2>2. UNCHANGED worker /\ \A s \in Svcs : vsKey'[RollingVs(s)] = vsKey[RollingVs(s)]
    <3>1. UNCHANGED worker
      BY <2>1 DEF UserStep
    <3> QED
      BY <1>1, <2>1, <3>1, UsersKeepRolling, AskedRequests DEF Types
  <2> QED
    BY <1>4, <2>2
<1>6. CASE KeptStore /\ UNCHANGED <<worker, it, spoilt, asks>>
  BY <1>4, <1>6 DEF KeptStore, KeptVss
<1>7. CASE LoopStep
  BY <1>4, <1>7 DEF LoopStep, KeptStore, KeptVss
<1>8. CASE \E q \in RuUids : WorkStep(q)
  <2>1. PICK q \in RuUids : WorkStep(q)
    BY <1>8
  <2> DEFINE w == worker[q]
             v == worker'[q]
             n == RollingVs(w.svc)
  <2>2. WorkMesh(q, w, v) /\ w.svc \in Svcs /\ n \in VsNames
    BY <2>1, WorkMeshStep, WorkerFields, MadeNames DEF WorkStep, Types
  <2>3. \A r \in RuUids : r # q => worker'[r] = worker[r]
    BY <2>1 DEF WorkStep
  <2>4. /\ Updating(q) <=> w.pc \in {"blocked", "available", "delete", "add", "finished", "unVs"}
        /\ Updating(q)' <=> v.pc \in {"blocked", "available", "delete", "add", "finished", "unVs"}
    BY DEF Updating
  <2>5. \A r \in RuUids : r # q => (Updating(r)' <=> Updating(r))
    BY <2>3 DEF Updating
  <2>6. Off.pc = "off"
    BY DEF Off
  <2>7. \A r \in RuUids : Updating(r) => RollingVs(worker[r].svc) \in VsNames
    BY <1>3, MadeNames
  <2>8. \A r, u \in RuUids : RollingVs(worker[r].svc) = RollingVs(worker[u].svc) <=> worker[r].svc = worker[u].svc
    BY MadeNamesApart
  <2> HIDE DEF n
  <2>9. CASE KeptVss
    <3>1. Updating(q)' /\ w.pc # "vs" => Updating(q) /\ v.svc = w.svc
      <4> HIDE DEF w, v
      <4> QED
        BY <2>2, <2>4, <2>6 DEF WorkMesh, SameUpdate
    <3>2. w.pc = "vs" /\ Updating(q)' => VsAdded(n, w.svc, RollingSplit(w.svc))
      <4> HIDE DEF w, v
      <4> QED
        BY <2>2, <2>4, <2>6 DEF WorkMesh, n
    <3>3. ~ (w.pc = "vs" /\ Updating(q)')
      BY <2>2, <2>9, <3>2, VsAddedFields, UidsNotNone DEF KeptVss, Types
    <3> QED
      BY <1>2, <2>3, <2>5, <2>9, <3>1, <3>3 DEF KeptVss
  <2>10. CASE VsAdded(n, w.svc, RollingSplit(w.svc)) /\ SameUpdate(v, w)
    <3>1. /\ vsKey[n] = None /\ vsKey'[n] # None
          /\ \A m \in VsNames : m # n => vsKey'[m] = vsKey[m]
      <4> DEFINE split == RollingSplit(w.svc)
      <4>1. MeshTypes /\ None \notin VsUids
        BY UidsNotNone DEF Types
      <4>2. VsAdded(n, w.svc, split)
        BY <2>10
      <4> HIDE DEF w, v, split
      <4>3. vsKey[n] = None /\ \E u \in VsUids :
               vsKey'[n] = u /\ \A m \in VsNames : m # n => vsKey'[m] = vsKey[m]
        BY <2>2, <4>1, <4>2, VsAddedFields
      <4> QED
        BY <4>1, <4>3
    <3>2. \A r \in RuUids : Updating(r) => worker[r].svc # w.svc /\ RollingVs(worker[r].svc) # n
      BY <1>2, <3>1 DEF n
    <3>3. v.svc = w.svc
      BY <2>10 DEF SameUpdate
    <3>4. ASSUME NEW r \in RuUids, Updating(r)' PROVE vsKey'[RollingVs(worker'[r].svc)] # None
      <4>1. CASE r = q
        BY <3>1, <3>3, <4>1 DEF n
      <4>2. CASE r # q
        <5>1. Updating(r) /\ worker'[r] = worker[r]
          BY <2>3, <2>5, <3>4, <4>2
        <5> QED
          BY <1>2, <2>7, <3>1, <3>2, <5>1
      <4> QED
        BY <4>1, <4>2
    <3>5. ASSUME NEW r \in RuUids, NEW u \in RuUids, Updating(r)', Updating(u)',
                 worker'[r].svc = worker'[u].svc
          PROVE  r = u
      BY <1>2, <2>3, <2>5, <3>2, <3>3, <3>5
    <3> QED
      BY <3>4, <3>5
  <2>11. CASE VsDeleted(n) /\ w.pc = "unVs" /\ v.pc = "unBlocked"
    <3>1. \A m \in VsNames : m # n => vsKey'[m] = vsKey[m]
      BY <2>2, <2>11, VsDeletedFields DEF Types
    <3>2. Updating(q) /\ ~ Updating(q)'
      BY <2>4, <2>11
    <3>3. ASSUME NEW r \in RuUids, Updating(r)' PROVE vsKey'[RollingVs(worker'[r].svc)] # None
      <4>1. r # q /\ Updating(r) /\ worker'[r] = worker[r]
        BY <2>3, <2>5, <3>2, <3>3
      <4>2. RollingVs(worker[r].svc) # n
        BY <1>2, <2>8, <3>2, <4>1 DEF n
      <4> QED
        BY <1>2, <2>7, <3>1, <4>1, <4>2
    <3> QED
      BY <1>2, <2>3, <2>5, <3>2, <3>3
  <2>12. KeptVss \/ (VsAdded(n, w.svc, RollingSplit(w.svc)) /\ SameUpdate(v, w))
         \/ (VsDeleted(n) /\ w.pc = "unVs" /\ v.pc = "unBlocked")
    <3> HIDE DEF w, v
    <3> QED
      BY <2>2 DEF WorkMesh, n
  <2> QED
    BY <2>9, <2>10, <2>11, <2>12
<1> QED
  BY <1>1, <1>5, <1>6, <1>7, <1>8, CleanSteps

-----------------------------------------------------------------------------
(* Whose virtual services and subsets there are                            *)

(* Subsets that pilot made are weighed by nobody's virtual service but the *)
(* one pilot made for the service.                                         *)
SplitsApart ==
    Undisturbed => \A v \in VsUids : vss[v] # None => \A i \in DOMAIN vss[v].split :
        \/ vss[v].split[i].subset \in UserSubsets
        \/ \E s \in Svcs : vsKey[RollingVs(s)] = v /\ vss[v].split[i].subset \in {Blocked(s), Available(s)}

(* The subsets that pilot's virtual service weighs.                        *)
LEMMA RollingSplitNames ==
    ASSUME NEW s, NEW i \in DOMAIN RollingSplit(s)
    PROVE  RollingSplit(s)[i].subset \in {Blocked(s), Available(s)}
  BY DEF RollingSplit

(* Virtual services come and go under their own names.                     *)
LEMMA VssApart ==
    ASSUME Types, [PilotNext]_allVars, Undisturbed'
    PROVE  \/ KeptVss
           \/ \E n \in VsNames, s \in Svcs, split \in Seq(Weighing) :
                 /\ VsAdded(n, s, split)
                 /\ \/ \A i \in DOMAIN split : split[i].subset \in UserSubsets
                    \/ n = RollingVs(s) /\ \A i \in DOMAIN split : split[i].subset \in {Blocked(s), Available(s)}
           \/ \E n \in VsNames : VsDeleted(n)
<1>1. faults' = 0 /\ "users" \notin spoilt'
  BY UndisturbedBefore
<1>2. CASE \E a \in asks : UserStep(a)
  <2>1. PICK a \in asks : UserStep(a)
    BY <1>2
  <2>2. UserVss \subseteq VsNames
    BY DEF VsNames
  <2>3. \/ KeptVss
        \/ \E n \in UserVss, s \in Svcs, split \in Seq(Weighing) :
              VsAdded(n, s, split) /\ \A i \in DOMAIN split : split[i].subset \in UserSubsets
        \/ \E n \in UserVss : VsDeleted(n)
    BY <1>1, <2>1, UsersApart, AskedRequests DEF Types
  <2> QED
    BY <2>2, <2>3
<1>3. CASE \E r \in RuUids : WorkStep(r)
  <2>1. PICK r \in RuUids : WorkStep(r)
    BY <1>3
  <2> DEFINE s == worker[r].svc
             split == RollingSplit(s)
  <2>2. KeptVss \/ VsAdded(RollingVs(s), s, split) \/ VsDeleted(RollingVs(s))
    BY <2>1, WorkMeshStep DEF WorkMesh
  <2>3. s \in Svcs
    BY <2>1, WorkerFields DEF WorkStep, Types
  <2>4. \A i \in DOMAIN split : split[i].subset \in {Blocked(s), Available(s)}
    BY RollingSplitNames
  <2>5. RollingVs(s) \in VsNames /\ split \in Seq(Weighing)
    BY <2>3, RollingTypes
  <2> HIDE DEF s, split
  <2> QED
    BY <2>2, <2>3, <2>4, <2>5
<1> QED
  BY <1>1, <1>2, <1>3, CleanSteps DEF LoopStep, KeptStore

(* It stays so.                                                            *)
LEMMA SplitsApartKept == Types /\ SplitsApart /\ [PilotNext]_allVars => SplitsApart'
<1> SUFFICES ASSUME Types, SplitsApart, [PilotNext]_allVars, Undisturbed',
                    NEW v \in VsUids, vss'[v] # None, NEW i \in DOMAIN vss'[v].split
             PROVE  \/ vss'[v].split[i].subset \in UserSubsets
                    \/ \E s \in Svcs : vsKey'[RollingVs(s)] = v /\ vss'[v].split[i].subset \in {Blocked(s), Available(s)}
  BY DEF SplitsApart
<1>0. MeshTypes /\ None \notin VsUids /\ \A s \in Svcs : RollingVs(s) \in VsNames
  BY UidsNotNone, MadeNames DEF Types
<1>1. ASSUME vss'[v] = vss[v], \A s \in Svcs : vsKey[RollingVs(s)] = v => vsKey'[RollingVs(s)] = v
      PROVE  \/ vss'[v].split[i].subset \in UserSubsets
             \/ \E s \in Svcs : vsKey'[RollingVs(s)] = v /\ vss'[v].split[i].subset \in {Blocked(s), Available(s)}
  <2>1. vss[v] # None /\ i \in DOMAIN vss[v].split
    BY <1>1
  <2>2. \/ vss[v].split[i].subset \in UserSubsets
        \/ \E s \in Svcs : vsKey[RollingVs(s)] = v /\ vss[v].split[i].subset \in {Blocked(s), Available(s)}
    BY <2>1, UndisturbedBefore DEF SplitsApart
  <2> QED
    BY <1>1, <2>2
<1>2. CASE KeptVss
  BY <1>1, <1>2 DEF KeptVss
<1>3. ASSUME NEW n \in VsNames, VsDeleted(n)
      PROVE  \/ vss'[v].split[i].subset \in UserSubsets
             \/ \E s \in Svcs : vsKey'[RollingVs(s)] = v /\ vss'[v].split[i].subset \in {Blocked(s), Available(s)}
  <2>1. /\ vsKey[n] \in VsUids
        /\ vsKey'[n] = None /\ \A m \in VsNames : m # n => vsKey'[m] = vsKey[m]
        /\ vss'[vsKey[n]] = None /\ \A u \in VsUids : u # vsKey[n] => vss'[u] = vss[u]
    BY <1>0, <1>3, VsDeletedFields
  <2>2. v # vsKey[n]
    BY <2>1
  <2>3. vss'[v] = vss[v]
    BY <2>1, <2>2
  <2>4. \A s \in Svcs : vsKey[RollingVs(s)] = v => vsKey'[RollingVs(s)] = v
    BY <1>0, <2>1, <2>2
  <2> QED
    BY <1>1, <2>3, <2>4
<1>4. ASSUME NEW n \in VsNames, NEW t \in Svcs, NEW split \in Seq(Weighing), VsAdded(n, t, split),
             \/ \A j \in DOMAIN split : split[j].subset \in UserSubsets
             \/ n = RollingVs(t) /\ \A j \in DOMAIN split : split[j].subset \in {Blocked(t), Available(t)}
      PROVE  \/ vss'[v].split[i].subset \in UserSubsets
             \/ \E s \in Svcs : vsKey'[RollingVs(s)] = v /\ vss'[v].split[i].subset \in {Blocked(s), Available(s)}
  <2>1. vsKey[n] = None
    BY <1>0, <1>4, VsAddedFields
  <2>2. PICK u \in VsUids :
             /\ vss[u] = None /\ \A m \in VsNames : vsKey[m] # u
             /\ vsKey'[n] = u /\ \A m \in VsNames : m # n => vsKey'[m] = vsKey[m]
             /\ vss'[u] = [svc |-> t, split |-> split] /\ \A x \in VsUids : x # u => vss'[x] = vss[x]
    BY <1>0, <1>4, VsAddedFields
  <2>3. CASE v = u
    <3>1. vss'[v].split = split /\ i \in DOMAIN split
      BY <2>2, <2>3
    <3> QED
      BY <1>4, <2>2, <2>3, <3>1
  <2>4. CASE v # u
    <3>1. \A s \in Svcs : vsKey[RollingVs(s)] = v => vsKey'[RollingVs(s)] = v
      BY <1>0, <2>1, <2>2
    <3> QED
      BY <1>1, <2>2, <2>4, <3>1
  <2> QED
    BY <2>3, <2>4
<1> QED
  BY <1>2, <1>3, <1>4, VssApart

(* Pilot's virtual services and subsets belong to updates under way; if no *)
(* update was deleted, or ended by a failure, the subsets to one not over. *)
OwnedVss ==
    Undisturbed /\ "panic" \notin spoilt =>
        \A s \in Svcs : vsKey[RollingVs(s)] # None => \E r \in RuUids : Updating(r) /\ worker[r].svc = s

(* It stays so: the worker deletes the virtual service as it stops         *)
(* updating.                                                               *)
LEMMA OwnedVssKept == Types /\ OwnedVss /\ [PilotNext]_allVars => OwnedVss'
<1> SUFFICES ASSUME Types, OwnedVss, [PilotNext]_allVars, Undisturbed', "panic" \notin spoilt',
                    NEW s \in Svcs, vsKey'[RollingVs(s)] # None
             PROVE  \E r \in RuUids : Updating(r)' /\ worker'[r].svc = s
  BY DEF OwnedVss
<1>1. faults' = 0 /\ "users" \notin spoilt' /\ "panic" \notin spoilt
  BY UndisturbedBefore, SpoiltGrows
<1>2. vsKey[RollingVs(s)] # None => \E r \in RuUids : Updating(r) /\ worker[r].svc = s
  BY <1>1, UndisturbedBefore DEF OwnedVss
<1>3. ASSUME UNCHANGED worker \/ LoopStep, vsKey'[RollingVs(s)] = vsKey[RollingVs(s)]
      PROVE  \E r \in RuUids : Updating(r)' /\ worker'[r].svc = s
  <2>1. PICK r \in RuUids : Updating(r) /\ worker[r].svc = s
    BY <1>2, <1>3
  <2>2. worker'[r] = worker[r]
    BY <1>3, <2>1, StillUpdating
  <2> QED
    BY <2>1, <2>2 DEF Updating
<1>4. CASE \E a \in asks : UserStep(a)
  <2>1. PICK a \in asks : UserStep(a)
    BY <1>4
  <2>2. UNCHANGED worker
    BY <2>1 DEF UserStep
  <2>3. vsKey'[RollingVs(s)] = vsKey[RollingVs(s)]
    BY <1>1, <2>1, UsersKeepRolling, AskedRequests DEF Types
  <2> QED
    BY <1>3, <2>2, <2>3
<1>5. CASE KeptStore /\ UNCHANGED <<worker, it, spoilt, asks>>
  BY <1>3, <1>5 DEF KeptStore, KeptVss
<1>6. CASE LoopStep
  BY <1>3, <1>6 DEF LoopStep, KeptStore, KeptVss
<1>7. CASE \E q \in RuUids : WorkStep(q)
  <2>1. PICK q \in RuUids : WorkStep(q)
    BY <1>7
  <2> DEFINE w == worker[q]
             v == worker'[q]
             n == RollingVs(w.svc)
  <2>2. WorkMesh(q, w, v) /\ w.svc \in Svcs /\ n \in VsNames /\ MeshTypes /\ RollingVs(s) \in VsNames
    BY <2>1, WorkMeshStep, WorkerFields, MadeNames DEF WorkStep, Types
  <2>3. \A r \in RuUids : r # q => worker'[r] = worker[r]
    BY <2>1 DEF WorkStep
  <2>4. /\ Updating(q) <=> w.pc \in {"blocked", "available", "delete", "add", "finished", "unVs"}
        /\ Updating(q)' <=> v.pc \in {"blocked", "available", "delete", "add", "finished", "unVs"}
    BY DEF Updating
  <2>5. \A r \in RuUids : r # q /\ Updating(r) => Updating(r)' /\ worker'[r].svc = worker[r].svc
    BY <2>3 DEF Updating
  <2>6. n = RollingVs(s) <=> w.svc = s
    BY MadeNamesApart
  <2>7. CASE w.svc # s
    <3>1. vsKey'[RollingVs(s)] = vsKey[RollingVs(s)]
      <4>1. KeptVss \/ (\E split : VsAdded(n, w.svc, split)) \/ VsDeleted(n)
        BY <2>2 DEF WorkMesh
      <4> HIDE DEF n, w, v
      <4>2. ASSUME NEW split, VsAdded(n, w.svc, split) PROVE vsKey'[RollingVs(s)] = vsKey[RollingVs(s)]
        <5>1. \A m \in VsNames : m # n => vsKey'[m] = vsKey[m]
          BY <2>2, <4>2, VsAddedFields
        <5> QED
          BY <2>2, <2>6, <2>7, <5>1
      <4> QED
        BY <2>2, <2>6, <2>7, <4>1, <4>2, VsDeletedFields DEF KeptVss
    <3>2. PICK r \in RuUids : Updating(r) /\ worker[r].svc = s
      BY <1>2, <3>1
    <3> QED
      BY <2>5, <2>7, <3>2
  <2>8. CASE w.svc = s
    <3> HIDE DEF w, v, n
    <3>1. Updating(q)' /\ v.svc = s => \E r \in RuUids : Updating(r)' /\ worker'[r].svc = s
      BY DEF v
    <3>4. ~ VsDeleted(n)
      BY <2>2, <2>6, <2>8, VsDeletedFields
    <3>2. CASE KeptVss /\ ~ (Updating(q)' /\ v.svc = s)
      <4>1. PICK r \in RuUids : Updating(r) /\ worker[r].svc = s
        BY <1>2, <3>2 DEF KeptVss
      <4>2. ~ Updating(q)
        <5>1. vsKey[n] # None
          BY <2>6, <2>8, <3>2 DEF KeptVss
        <5> QED
          BY <2>2, <2>4, <2>8, <3>2, <3>4, <5>1 DEF WorkMesh, SameUpdate, n
      <4> QED
        BY <2>5, <4>1, <4>2
    <3>3. CASE w.pc = "vs" /\ v.pc \in {"blocked", "finished"} /\ SameUpdate(v, w)
      BY <2>4, <2>8, <3>1, <3>3 DEF SameUpdate
    <3>5. KeptVss \/ (w.pc = "vs" /\ v.pc \in {"blocked", "finished"} /\ SameUpdate(v, w)) \/ VsDeleted(n)
      BY <2>2 DEF WorkMesh, n
    <3> QED
      BY <3>1, <3>2, <3>3, <3>4, <3>5
  <2> QED
    BY <2>7, <2>8
<1> QED
  BY <1>1, <1>4, <1>5, <1>6, <1>7, CleanSteps

(* The labels at which a worker has its subset, and its update not gone.   *)
BlockedLabels   == {"available0", "vs", "blocked", "available", "delete", "add",
                    "finished", "unVs", "unBlocked"}
AvailableLabels == (BlockedLabels \ {"available0"}) \union {"unAvailable"}
(* An update that may have its subsets: cut short, or its worker at such a *)
(* label.                                                                  *)
Holds(r, s, labels) ==
    /\ rus[r] # None /\ rus[r].svc = s
    /\ (~ Active(r) /\ rus[r].phase = "Running") \/ worker[r].pc \in labels

(* Pilot's subsets are held by an update of their service.                 *)
OwnedSubsets ==
    Undisturbed /\ "panic" \notin spoilt /\ "unrolled" \notin spoilt => \A s \in Svcs :
        /\ subsets[Blocked(s)] # None => \E r \in RuUids : Holds(r, s, BlockedLabels)
        /\ subsets[Available(s)] # None => \E r \in RuUids : Holds(r, s, AvailableLabels)

(* An update that is left alone holds what it held,                        *)
LEMMA HoldsOn ==
    ASSUME NEW r, NEW s, NEW labels, Holds(r, s, labels), worker'[r] = worker[r], rus'[r] = rus[r]
    PROVE  Holds(r, s, labels)'
  BY DEF Holds, Active

(* so it does in every step that is not its worker's.                      *)
LEMMA HoldsElsewhere ==
    ASSUME Types, [PilotNext]_allVars, Undisturbed', "panic" \notin spoilt', "unrolled" \notin spoilt',
           OwnUpdate, RuSound, NEW r \in RuUids, NEW s, NEW labels, "off" \notin labels,
           Holds(r, s, labels), ~ WorkStep(r)
    PROVE  Holds(r, s, labels)'
<1>1. faults' = 0 /\ faults = 0 /\ "unrolled" \notin spoilt
  BY UndisturbedBefore, SpoiltGrows
<1>2. CASE \E a \in asks : UserStep(a)
  <2>1. PICK a \in asks : UserStep(a)
    BY <1>2
  <2>2. worker'[r] = worker[r]
    BY <2>1 DEF UserStep
  <2>3. rus'[r] = rus[r]
    BY <2>1, UserKeepsRus, AskedRequests DEF Types, Holds
  <2> QED
    BY <2>2, <2>3, HoldsOn
<1>3. CASE KeptStore /\ UNCHANGED <<worker, it, spoilt, asks>>
  BY <1>3, HoldsOn DEF KeptStore, KeptRus
<1>4. CASE LoopStep
  <2>1. rus'[r] = rus[r]
    BY <1>4 DEF LoopStep, KeptStore, KeptRus
  <2>2. ~ Starts(r)
    BY DEF Holds, Starts, Active
  <2>3. worker'[r] = worker[r]
    BY <1>4, <2>2 DEF LoopStep
  <2> QED
    BY <2>1, <2>3, HoldsOn
<1>5. CASE \E q \in RuUids : WorkStep(q)
  <2>1. PICK q \in RuUids : WorkStep(q)
    BY <1>5
  <2>2. q # r /\ Owns(q)
    BY <1>1, <2>1 DEF OwnUpdate, WorkStep
  <2>3. worker'[r] = worker[r]
    BY <2>1, <2>2 DEF WorkStep
  <2>4. rus'[r] = rus[r]
    BY <2>1, <2>2, WorkOwns
  <2> QED
    BY <2>3, <2>4, HoldsOn
<1> QED
  BY <1>1, <1>2, <1>3, <1>4, <1>5, CleanSteps

(* A worker's own step from a label at which it has its subset.            *)
LEMMA WorkHolds ==
    ASSUME Types, RuSound, NEW q \in RuUids, WorkStep(q), Owns(q), NEW s, s = worker[q].svc
    PROVE  /\ worker[q].pc \in BlockedLabels \union {"blocked0"} /\ subsets'[Blocked(s)] # None
                => Holds(q, s, BlockedLabels)'
           /\ worker[q].pc \in AvailableLabels \union {"available0"} /\ subsets'[Available(s)] # None
                => Holds(q, s, AvailableLabels)'
<1> DEFINE w == worker[q]
           v == worker'[q]
<1>1. WorkMesh(q, w, v) /\ s = w.svc /\ Blocked(s) \in SubNames /\ Available(s) \in SubNames /\ MeshTypes
  BY WorkMeshStep, WorkerFields, MadeNames DEF WorkStep, Types
<1>2. /\ rus'[q] # None /\ rus'[q].svc = s
      /\ w.pc # "finished" /\ w.pc # "status" => rus'[q] = rus[q]
      /\ w.pc = "vs" => rus[q].phase = "Running"
  BY WorkOwns DEF Owns, OwnPhase, At
<1>3. ASSUME NEW labels PROVE Holds(q, s, labels)' <=>
         /\ rus'[q] # None /\ rus'[q].svc = s
         /\ (v.pc = "off" /\ rus'[q].phase = "Running") \/ v.pc \in labels
  BY DEF Holds, Active
<1>4. Off.pc = "off"
  BY DEF Off
<1>5. w.pc = "unBlocked" => subsets'[Blocked(s)] = None
  <2> HIDE DEF w, v
  <2>1. w.pc = "unBlocked" =>
           SubsetSet(Blocked(w.svc), None) \/ (subsets[Blocked(w.svc)] = None /\ KeptSubsets)
    BY <1>1 DEF WorkMesh
  <2> QED
    BY <1>1, <2>1, SubsetFields DEF KeptSubsets
<1>6. w.pc = "unAvailable" => subsets'[Available(s)] = None
  <2> HIDE DEF w, v
  <2>1. w.pc = "unAvailable" =>
           SubsetSet(Available(w.svc), None) \/ (subsets[Available(w.svc)] = None /\ KeptSubsets)
    BY <1>1 DEF WorkMesh
  <2> QED
    BY <1>1, <2>1, SubsetFields DEF KeptSubsets
<1> HIDE DEF w, v
<1>7. ASSUME w.pc \in BlockedLabels \union {"blocked0"}, subsets'[Blocked(s)] # None
      PROVE  Holds(q, s, BlockedLabels)'
  <2>1. v.pc \in BlockedLabels \/ (w.pc = "vs" /\ v = Off)
    BY <1>1, <1>5, <1>7 DEF WorkMesh, BlockedLabels
  <2> QED
    BY <1>2, <1>3, <1>4, <2>1
<1>8. ASSUME w.pc \in AvailableLabels \union {"available0"}, subsets'[Available(s)] # None
      PROVE  Holds(q, s, AvailableLabels)'
  <2>1. v.pc \in AvailableLabels \/ (w.pc = "vs" /\ v = Off)
    BY <1>1, <1>6, <1>8 DEF WorkMesh, BlockedLabels, AvailableLabels
  <2> QED
    BY <1>2, <1>3, <1>4, <2>1
<1> QED
  BY <1>7, <1>8 DEF w

(* Which labels write which subsets.                                       *)
LEMMA WorkSubsets ==
    ASSUME Types, NEW q \in RuUids, WorkStep(q), NEW s \in Svcs
    PROVE  /\ subsets'[Blocked(s)] # None => subsets[Blocked(s)] # None
              \/ (worker[q].svc = s /\ worker[q].pc \in BlockedLabels \union {"blocked0"})
           /\ subsets'[Available(s)] # None => subsets[Available(s)] # None
              \/ (worker[q].svc = s /\ worker[q].pc \in AvailableLabels \union {"available0"})
<1> DEFINE w == worker[q]
           v == worker'[q]
           bs == Blocked(s)
           as == Available(s)
           bw == Blocked(w.svc)
           aw == Available(w.svc)
<1>1. /\ WorkMesh(q, w, v) /\ MeshTypes
      /\ bs \in SubNames /\ as \in SubNames /\ bw \in SubNames /\ aw \in SubNames
  BY WorkMeshStep, WorkerFields, MadeNames DEF WorkStep, Types
<1>2. /\ bs = bw <=> w.svc = s
      /\ as = aw <=> w.svc = s
      /\ bs # aw /\ as # bw
  BY MadeNamesApart
<1>3. \/ KeptSubsets
      \/ w.pc \in {"blocked0", "blocked", "available", "delete", "add"} /\ \E ps : SubsetSet(bw, ps)
      \/ w.pc \in {"available0", "blocked", "available", "delete", "add"} /\ \E ps : SubsetSet(aw, ps)
      \/ SubsetSet(bw, None) \/ SubsetSet(aw, None)
  <2> HIDE DEF w, v
  <2> QED
    BY <1>1 DEF WorkMesh
<1> HIDE DEF bs, as, bw, aw, w, v
<1>4. ASSUME NEW n \in {bw, aw}, NEW value, SubsetSet(n, value)
      PROVE  subsets'[n] = value /\ \A m \in {bs, as} : m # n => subsets'[m] = subsets[m]
  BY <1>1, <1>4, SubsetFields
<1>5. CASE KeptSubsets
  BY <1>5 DEF KeptSubsets, bs, as
<1>6. CASE w.pc \in {"blocked0", "blocked", "available", "delete", "add"} /\ \E ps : SubsetSet(bw, ps)
  BY <1>2, <1>4, <1>6 DEF BlockedLabels, AvailableLabels, bs, as, w
<1>7. CASE w.pc \in {"available0", "blocked", "available", "delete", "add"} /\ \E ps : SubsetSet(aw, ps)
  BY <1>2, <1>4, <1>7 DEF BlockedLabels, AvailableLabels, bs, as, w
<1>8. CASE SubsetSet(bw, None) \/ SubsetSet(aw, None)
  BY <1>2, <1>4, <1>8 DEF bs, as
<1> QED
  BY <1>3, <1>5, <1>6, <1>7, <1>8

(* Pilot's subsets stay held.                                              *)
LEMMA OwnedSubsetsKept ==
    Types /\ StoreSound /\ OwnUpdate /\ OwnedSubsets /\ [PilotNext]_allVars => OwnedSubsets'
<1> SUFFICES ASSUME Types, StoreSound, OwnUpdate, OwnedSubsets, [PilotNext]_allVars,
                    Undisturbed', "panic" \notin spoilt', "unrolled" \notin spoilt', NEW s \in Svcs
             PROVE  /\ subsets'[Blocked(s)] # None => \E r \in RuUids : Holds(r, s, BlockedLabels)'
                    /\ subsets'[Available(s)] # None => \E r \in RuUids : Holds(r, s, AvailableLabels)'
  BY DEF OwnedSubsets
<1>1. /\ faults' = 0 /\ faults = 0 /\ "users" \notin spoilt' /\ Undisturbed
      /\ "panic" \notin spoilt /\ "unrolled" \notin spoilt /\ RuSound
  BY UndisturbedBefore, SpoiltGrows DEF StoreSound
<1>2. /\ subsets[Blocked(s)] # None => \E r \in RuUids : Holds(r, s, BlockedLabels)
      /\ subsets[Available(s)] # None => \E r \in RuUids : Holds(r, s, AvailableLabels)
  BY <1>1 DEF OwnedSubsets
<1>3. "off" \notin BlockedLabels /\ "off" \notin AvailableLabels
  BY DEF BlockedLabels, AvailableLabels
<1>4. CASE ~ \E q \in RuUids : WorkStep(q)
  <2>1. subsets'[Blocked(s)] = subsets[Blocked(s)] /\ subsets'[Available(s)] = subsets[Available(s)]
    <3>1. ASSUME NEW a \in asks, UserStep(a)
          PROVE  subsets'[Blocked(s)] = subsets[Blocked(s)] /\ subsets'[Available(s)] = subsets[Available(s)]
      BY <1>1, <3>1, UsersKeepRolling, AskedRequests DEF Types
    <3> QED
      BY <1>1, <1>4, <3>1, CleanSteps DEF LoopStep, KeptStore, KeptSubsets
  <2>2. \A r \in RuUids : /\ Holds(r, s, BlockedLabels) => Holds(r, s, BlockedLabels)'
                          /\ Holds(r, s, AvailableLabels) => Holds(r, s, AvailableLabels)'
    BY <1>1, <1>3, <1>4, HoldsElsewhere
  <2> QED
    BY <1>2, <2>1, <2>2
<1>5. CASE \E q \in RuUids : WorkStep(q)
  <2>1. PICK q \in RuUids : WorkStep(q)
    BY <1>5
  <2>2. Owns(q) /\ worker[q].pc # "off"
    BY <1>1, <2>1 DEF OwnUpdate, WorkStep, Active
  <2>3. ASSUME NEW r \in RuUids, NEW labels, "off" \notin labels, Holds(r, s, labels)
        PROVE  r = q \/ Holds(r, s, labels)'
    <3>1. CASE WorkStep(r) /\ r # q
      <4>1. worker'[r] = worker[r] /\ rus'[r] = rus[r]
        BY <1>1, <2>1, <2>2, <3>1, WorkOwns DEF WorkStep
      <4> QED
        BY <2>3, <4>1, HoldsOn
    <3>2. CASE ~ WorkStep(r)
      BY <1>1, <2>3, <3>2, HoldsElsewhere
    <3> QED
      BY <3>1, <3>2
  <2>4. \A labels : Holds(q, s, labels) => worker[q].svc = s /\ worker[q].pc \in labels
    BY <2>2 DEF Holds, Owns, Active
  <2>5. subsets'[Blocked(s)] # None => \E r \in RuUids : Holds(r, s, BlockedLabels)'
    <3>1. CASE worker[q].svc = s /\ worker[q].pc \in BlockedLabels \union {"blocked0"}
      BY <1>1, <2>1, <2>2, <3>1, WorkHolds
    <3>2. CASE ~ (worker[q].svc = s /\ worker[q].pc \in BlockedLabels \union {"blocked0"})
      BY <1>2, <1>3, <2>1, <2>3, <2>4, <3>2, WorkSubsets
    <3> QED
      BY <3>1, <3>2
  <2>6. subsets'[Available(s)] # None => \E r \in RuUids : Holds(r, s, AvailableLabels)'
    <3>1. CASE worker[q].svc = s /\ worker[q].pc \in AvailableLabels \union {"available0"}
      BY <1>1, <2>1, <2>2, <3>1, WorkHolds
    <3>2. CASE ~ (worker[q].svc = s /\ worker[q].pc \in AvailableLabels \union {"available0"})
      BY <1>2, <1>3, <2>1, <2>3, <2>4, <3>2, WorkSubsets
    <3> QED
      BY <3>1, <3>2
  <2> QED
    BY <2>5, <2>6
<1> QED
  BY <1>4, <1>5

-----------------------------------------------------------------------------
(* The pods of workers                                                     *)

(* A list of pods names each once; a name without a pod is between a       *)
(* worker's deletion and its addition.                                     *)
Keyed(ps) == \A p, q \in ps : p[1] = q[1] => p = q
Accounted(nm) == podKey[nm] # None \/ \E r \in RuUids : nm \in Missing(worker[r])
(* A pod on a list: its uid has been used, its name is accounted for.      *)
Known(p) == p[2] \in used /\ Accounted(p[1])
(* So are all pods on the iteration's list and on workers' lists.          *)
ListsTrue ==
    Undisturbed =>
        /\ Keyed(it.pods) /\ \A p \in it.pods : Known(p)
        /\ \A r \in RuUids : Active(r) => Keyed(worker[r].pods) /\ \A p \in worker[r].pods : Known(p)

(* A worker is through with pods that are gone.                            *)
Batches ==
    Undisturbed => \A r \in RuUids : Active(r) =>
        /\ BatchSound(worker[r])
        /\ \A p \in worker[r].pods : p[1] \in Replaced(worker[r]) => podKey[p[1]] # p[2]

(* A list names as many pods as it has.                                    *)
LEMMA KeyedPods ==
    ASSUME NEW ps \in SUBSET (Names \X PodUids), Keyed(ps)
    PROVE  /\ IsFiniteSet(ps) /\ IsFiniteSet({p[1] : p \in ps}) /\ Cardinality(ps) \in Nat
           /\ Cardinality({p[1] : p \in ps}) = Cardinality(ps)
<1> DEFINE ns == {p[1] : p \in ps}
           f == [p \in ps |-> p[1]]
<1>1. f \in Injection(ps, Names)
  BY DEF Injection, IsInjective, Keyed
<1>2. IsFiniteSet(ps)
  BY <1>1, NamesAssumption, FS_Injection
<1>3. f \in Bijection(ps, ns)
  BY DEF Bijection, Injection, Surjection, IsInjective, Keyed
<1>4. IsFiniteSet(ns) /\ Cardinality(ns) = Cardinality(ps)
  BY <1>2, <1>3, FS_Bijection DEF ExistsBijection
<1> QED
  BY <1>2, <1>4, FS_CardinalityType

(* What a step without a failure does to pods.                             *)
LEMMA PodsSteps ==
    ASSUME Types, [PilotNext]_allVars, faults' = 0
    PROVE  KeptPods \/ \E nm \in Names : PodAdded(nm) \/ PodDeleted(nm)
<1>1. CASE \E a \in asks : UserStep(a)
  <2>1. PICK a \in asks : UserStep(a)
    BY <1>1
  <2> QED
    BY <2>1, AskedRequests, RequestFields DEF UserStep, KeptStore, Types
<1>2. CASE \E r \in RuUids : WorkStep(r)
  <2>1. PICK r \in RuUids : WorkStep(r)
    BY <1>2
  <2>2. \A nm \in worker[r].todo : nm \in Names
    BY <2>1, WorkerFields DEF WorkStep, Types
  <2>3. \/ KeptPods \/ \E nm \in worker[r].todo : PodAdded(nm) \/ PodDeleted(nm)
    BY <2>1 DEF WorkStep, FromStatus, FromBlocked0, FromAvailable0, FromVs, FromBlocked, FromAvailable,
       FromDelete, FromAdd, FromFinished, FromUnVs, FromUnBlocked, FromUnAvailable, KeptStore
  <2> QED
    BY <2>2, <2>3
<1> QED
  BY <1>1, <1>2, CleanSteps DEF LoopStep, KeptStore

(* A uid that was drawn comes to no name again.                            *)
LEMMA UidsGoOnce ==
    ASSUME Types, [PilotNext]_allVars, faults' = 0
    PROVE  /\ used \subseteq used'
           /\ \A nm \in Names, u \in PodUids \intersect used : podKey[nm] # u => podKey'[nm] # u
<1>1. podKey \in [Names -> PodUids \union {None}] /\ None \notin PodUids
  BY UidsNotNone DEF Types, RegistryInv, TypeOK
<1>2. CASE KeptPods
  BY <1>2 DEF KeptPods
<1>3. ASSUME NEW nm \in Names, PodAdded(nm)
      PROVE  /\ used \subseteq used'
             /\ \A n \in Names, u \in PodUids \intersect used : podKey[n] # u => podKey'[n] # u
  BY <1>1, <1>3 DEF PodAdded
<1>4. ASSUME NEW nm \in Names, PodDeleted(nm)
      PROVE  /\ used \subseteq used'
             /\ \A n \in Names, u \in PodUids \intersect used : podKey[n] # u => podKey'[n] # u
  BY <1>1, <1>4 DEF PodDeleted
<1> QED
  BY <1>2, <1>3, <1>4, PodsSteps

(* A worker's pods can be counted.                                         *)
LEMMA WorkerCounts ==
    ASSUME Types, ListsTrue, Undisturbed, NEW r \in RuUids, Active(r)
    PROVE  UpdateNum(worker[r]) \in Int
<1> DEFINE ps == worker[r].pods
<1>1. ps \in SUBSET (Names \X PodUids) /\ Keyed(ps) /\ worker[r].min \in Nat
  BY WorkerFields DEF Types, ListsTrue
<1>2. Cardinality(ps) \in Nat
  <2> HIDE DEF ps
  <2> QED
    BY <1>1, KeyedPods
<1> QED
  BY <1>1, <1>2 DEF UpdateNum

(* A name stays accounted for: whoever takes its pod away notes it.        *)
LEMMA AccountedKept ==
    ASSUME Types, ListsTrue, Batches, [PilotNext]_allVars, Undisturbed', NEW nm \in Names, Accounted(nm)
    PROVE  Accounted(nm)' \/ (it'.pods = {} /\ \A r \in RuUids : worker'[r] = Off)
<1>0. /\ podKey \in [Names -> PodUids \union {None}] /\ None \notin PodUids
      /\ faults' = 0 /\ "users" \notin spoilt' /\ Undisturbed
  BY UidsNotNone, UndisturbedBefore DEF Types, RegistryInv, TypeOK
<1>1. ASSUME NEW n \in Names, PodAdded(n) PROVE podKey[nm] # None \/ n = nm => podKey'[nm] # None
  BY <1>0, <1>1 DEF PodAdded
<1>2. ASSUME NEW n \in Names, PodDeleted(n) PROVE podKey[nm] # None /\ n # nm => podKey'[nm] # None
  BY <1>0, <1>2 DEF PodDeleted
<1>3. KeptPods => podKey'[nm] = podKey[nm]
  BY DEF KeptPods
<1>4. \A r \in RuUids : worker'[r] = worker[r] => (nm \in Missing(worker[r]) => nm \in Missing(worker'[r]))
  OBVIOUS
<1>5. Accounted(nm)' <=> podKey'[nm] # None \/ \E r \in RuUids : nm \in Missing(worker'[r])
  BY DEF Accounted
<1>6. CASE \E a \in asks : UserStep(a)
  <2>1. PICK a \in asks : UserStep(a)
    BY <1>6
  <2>2. KeptPods \/ \E n \in Names : PodAdded(n)
    BY <1>0, <2>1, UsersApart, AskedRequests DEF Types
  <2>3. worker' = worker
    BY <2>1 DEF UserStep
  <2> QED
    BY <1>1, <1>3, <1>5, <2>2, <2>3 DEF Accounted
<1>7. CASE KeptStore /\ UNCHANGED <<worker, it, spoilt, asks>>
  BY <1>3, <1>5, <1>7 DEF Accounted, KeptStore
<1>8. CASE LoopStep
  <2>1. \A r \in RuUids : Starts(r) => Missing(worker[r]) = {}
    BY DEF Starts, Active, Missing
  <2>2. \/ it'.pods = {} /\ \A r \in RuUids : worker'[r] = Off
        \/ \A r \in RuUids : worker'[r] = worker[r] \/ Starts(r)
    BY <1>8 DEF LoopStep
  <2>3. podKey'[nm] = podKey[nm]
    BY <1>3, <1>8 DEF LoopStep, KeptStore
  <2> QED
    BY <1>5, <2>1, <2>2, <2>3 DEF Accounted
<1>9. CASE \E q \in RuUids : WorkStep(q)
  <2>1. PICK q \in RuUids : WorkStep(q)
    BY <1>9
  <2> DEFINE w == worker[q]
             v == worker'[q]
  <2>2. Active(q) /\ \A r \in RuUids : r # q => worker'[r] = worker[r]
    BY <2>1 DEF WorkStep
  <2>3. WorkerFlow(w, v)
    BY <1>0, <2>1, <2>2, WorkFlows, WorkerCounts DEF Batches
  <2>4. w.batch \subseteq Names
    BY <2>2, WorkerFields DEF Types
  <2>5. \A r \in RuUids : r # q /\ nm \in Missing(worker[r]) => Accounted(nm)'
    BY <1>5, <2>2
  <2>6. nm \in Missing(v) => Accounted(nm)'
    BY <1>5
  <2> HIDE DEF w, v
  <2>7. podKey[nm] # None \/ nm \in Missing(w) => Accounted(nm)'
    BY <1>1, <1>2, <1>3, <1>5, <2>3, <2>4, <2>6 DEF WorkerFlow
  <2> QED
    BY <2>5, <2>7 DEF Accounted, w
<1> QED
  BY <1>0, <1>6, <1>7, <1>8, <1>9, CleanSteps

(* What the listing finds running is what the name keys lead to.           *)
LEMMA RunningTrue ==
    ASSUME Types, StoreSound, faults = 0
    PROVE  Keyed(Running) /\ \A p \in Running : Known(p)
<1>1. /\ RegistryInv /\ OrphanPods = {} /\ None \notin PodUids
  BY UidsNotNone DEF Types, StoreSound
<1>2. ASSUME NEW p \in Running PROVE p[1] \in Names /\ p[2] \in PodUids /\ podKey[p[1]] = p[2]
  <2>1. p \in Names \X PodUids /\ pods[p[2]] # None /\ pods[p[2]].name = p[1]
    BY <1>2 DEF Running
  <2>2. p[2] \in PodUids /\ podKey[pods[p[2]].name] = p[2]
    BY <1>1, <2>1 DEF OrphanPods
  <2> QED
    BY <2>1, <2>2
<1>3. ASSUME NEW p \in Running, NEW q \in Running, p[1] = q[1] PROVE p = q
  <2>1. p \in Names \X PodUids /\ q \in Names \X PodUids /\ p[2] = q[2]
    BY <1>2, <1>3 DEF Running
  <2> QED
    BY <1>3, <2>1
<1>4. ASSUME NEW p \in Running PROVE Known(p)
  <2>1. p[2] \in used
    BY <1>1, <1>2 DEF RegistryInv, PodInv, FreshPodUids
  <2> QED
    BY <1>1, <1>2, <2>1 DEF Known, Accounted
<1> QED
  BY <1>3, <1>4 DEF Keyed

(* A pod on a list stays known.                                            *)
LEMMA KnownKept ==
    ASSUME Types, ListsTrue, Batches, [PilotNext]_allVars, Undisturbed',
           ~ (it'.pods = {} /\ \A r \in RuUids : worker'[r] = Off),
           NEW p \in Names \X PodUids, Known(p)
    PROVE  Known(p)'
<1>1. p[1] \in Names /\ faults' = 0
  BY UndisturbedBefore
<1>2. Accounted(p[1])'
  <2> DEFINE nm == p[1]
  <2>1. nm \in Names /\ Accounted(nm)
    BY <1>1 DEF Known
  <2> HIDE DEF nm
  <2>2. Accounted(nm)'
    BY <2>1, AccountedKept
  <2> QED
    BY <2>2 DEF nm, Accounted
<1>3. p[2] \in used'
  BY <1>1, UidsGoOnce DEF Known
<1> QED
  BY <1>2, <1>3 DEF Known

(* The lists stay true.                                                    *)
LEMMA ListsTrueKept ==
    Types /\ StoreSound /\ ListsTrue /\ Batches /\ [PilotNext]_allVars => ListsTrue'
<1> SUFFICES ASSUME Types, StoreSound, ListsTrue, Batches, [PilotNext]_allVars, Undisturbed'
             PROVE  /\ Keyed(it'.pods) /\ \A p \in it'.pods : Known(p)'
                    /\ \A r \in RuUids : Active(r)' =>
                          Keyed(worker'[r].pods) /\ \A p \in worker'[r].pods : Known(p)'
  BY DEF ListsTrue, Keyed
<1>1. Undisturbed /\ faults = 0 /\ faults' = 0 /\ it.pods \subseteq Names \X PodUids
  BY UndisturbedBefore DEF Types, LoopTypes, Locals
<1>2. CASE it'.pods = {} /\ \A r \in RuUids : worker'[r] = Off
  BY <1>2 DEF Keyed, Active, Off
<1>3. CASE ~ (it'.pods = {} /\ \A r \in RuUids : worker'[r] = Off)
  <2>1. \A p \in Names \X PodUids : Known(p) => Known(p)'
    BY <1>3, KnownKept
  <2>2. Keyed(it.pods) /\ \A p \in it.pods : Known(p)
    BY <1>1 DEF ListsTrue
  <2>3. it'.pods \in {it.pods, {}, Running}
    BY <1>1, CleanSteps DEF UserStep, WorkStep, LoopStep
  <2>4. Running \subseteq Names \X PodUids
    BY DEF Running
  <2>5. Keyed(it'.pods) /\ \A p \in it'.pods : Known(p)'
    <3>1. CASE it'.pods = it.pods
      BY <1>1, <2>1, <2>2, <3>1
    <3>2. CASE it'.pods = {}
      BY <3>2 DEF Keyed
    <3>3. CASE it'.pods = Running
      BY <1>1, <2>1, <2>4, <3>3, RunningTrue
    <3> QED
      BY <2>3, <3>1, <3>2, <3>3
  <2>6. ASSUME NEW r \in RuUids, Active(r)'
        PROVE  Keyed(worker'[r].pods) /\ \A p \in worker'[r].pods : Known(p)'
    <3>1. CASE Active(r) /\ SameUpdate(worker'[r], worker[r])
      <4>1. worker'[r].pods = worker[r].pods /\ worker[r].pods \subseteq Names \X PodUids
        BY <3>1, WorkerFields DEF SameUpdate, Types
      <4>2. Keyed(worker[r].pods) /\ \A p \in worker[r].pods : Known(p)
        BY <1>1, <3>1 DEF ListsTrue
      <4> QED
        BY <2>1, <4>1, <4>2
    <3>2. CASE worker'[r] = NewWorker(r)
      <4>1. worker'[r].pods \subseteq it.pods
        BY <3>2 DEF NewWorker, PodsOf
      <4> QED
        BY <1>1, <2>1, <2>2, <4>1 DEF Keyed
    <3> QED
      BY <1>1, <2>6, <3>1, <3>2, WorkersFrom
  <2> QED
    BY <2>5, <2>6
<1> QED
  BY <1>2, <1>3

(* doRollingUpdate: a worker begins soundly, having replaced nothing.      *)
LEMMA NewWorkerSound ==
    ASSUME Types, Keyed(it.pods), NEW r \in RuUids, Starts(r)
    PROVE  BatchSound(NewWorker(r)) /\ Replaced(NewWorker(r)) = {}
<1> DEFINE ps == PodsOf(rus[r].svc)
           w == NewWorker(r)
<1>1. /\ w.pc = "status" /\ w.svc = rus[r].svc /\ w.min = rus[r].min /\ w.pods = ps
      /\ w.left = {p[1] : p \in ps} /\ w.batch = {} /\ NamesOf(w) = {p[1] : p \in ps}
  BY DEF NewWorker, NamesOf
<1>2. ps \in SUBSET (Names \X PodUids) /\ Keyed(ps) /\ \A p \in ps : <<rus[r].svc, p[1]>> \in Backs
  BY DEF PodsOf, Keyed, Types, LoopTypes, Locals
<1>3. Cardinality(ps) > rus[r].min /\ rus[r].min \in Nat
  <2>1. rus[r] \in RollingUpdate
    BY DEF Starts, Types, MeshTypes
  <2> QED
    BY <2>1 DEF Starts, RollingUpdate
<1> HIDE DEF ps
<1>4. Cardinality(ps) \in Nat /\ Cardinality({}) = 0
  BY <1>2, KeyedPods, FS_EmptySet
<1> HIDE DEF w
<1>5. BatchSound(w)
  BY <1>1, <1>2, <1>3, <1>4 DEF BatchSound, UpdateNum
<1>6. Replaced(w) = {}
  BY <1>1 DEF Replaced
<1> QED
  BY <1>5, <1>6 DEF w

(* Workers stay sound, and the pods they are through with stay gone: their *)
(* uids are not drawn again.                                               *)
LEMMA BatchesKept ==
    Types /\ ListsTrue /\ Batches /\ [PilotNext]_allVars => Batches'
<1> SUFFICES ASSUME Types, ListsTrue, Batches, [PilotNext]_allVars, Undisturbed',
                    NEW r \in RuUids, Active(r)'
             PROVE  /\ BatchSound(worker'[r])
                    /\ \A p \in worker'[r].pods : p[1] \in Replaced(worker'[r]) => podKey'[p[1]] # p[2]
  BY DEF Batches, BatchSound, Replaced, NamesOf, UpdateNum
<1> DEFINE w == worker[r]
           v == worker'[r]
<1>1. Undisturbed /\ faults' = 0 /\ None \notin PodUids
  BY UndisturbedBefore, UidsNotNone
<1>2. ASSUME Active(r)
      PROVE  /\ w.pods \subseteq Names \X PodUids /\ BatchSound(w) /\ w.batch \subseteq Names
             /\ \A p \in w.pods : p[1] \in Replaced(w) => podKey[p[1]] # p[2]
             /\ \A p \in w.pods : p[2] \in used
  BY <1>1, <1>2, WorkerFields DEF Types, ListsTrue, Batches, Known
<1>3. ASSUME NEW p \in Names \X PodUids, p[2] \in used, podKey[p[1]] # p[2] PROVE podKey'[p[1]] # p[2]
  BY <1>1, <1>3, UidsGoOnce
<1>4. CASE Active(r) /\ v = w
  BY <1>2, <1>3, <1>4
<1>5. CASE Starts(r) /\ v = NewWorker(r)
  BY <1>1, <1>5, NewWorkerSound DEF ListsTrue
<1>6. CASE WorkStep(r)
  <2>1. Active(r) /\ v # Off
    BY <1>6 DEF WorkStep, Active, Off
  <2>2. WorkerFlow(w, v)
    BY <1>1, <1>2, <1>6, <2>1, WorkFlows, WorkerCounts
  <2> HIDE DEF w, v
  <2>3. /\ BatchSound(v) /\ v.pods = w.pods
        /\ \/ Replaced(v) \subseteq Replaced(w)
           \/ \E nm \in w.batch : /\ PodDeleted(nm) \/ (podKey[nm] = None /\ KeptPods)
                                  /\ Replaced(v) \subseteq Replaced(w) \union {nm}
    BY <2>1, <2>2 DEF WorkerFlow, SameUpdate
  <2>4. ASSUME NEW p \in v.pods, p[1] \in Replaced(v) PROVE podKey'[p[1]] # p[2]
    <3>1. p \in Names \X PodUids /\ p[2] \in used /\ p \in w.pods
      BY <1>2, <2>1, <2>3
    <3>2. CASE p[1] \in Replaced(w)
      BY <1>2, <1>3, <2>1, <3>1, <3>2
    <3>3. CASE p[1] \notin Replaced(w)
      <4>1. p[1] \in Names /\ podKey \in [Names -> PodUids \union {None}]
        BY <3>1 DEF Types, RegistryInv, TypeOK
      <4>2. PodDeleted(p[1]) \/ (podKey[p[1]] = None /\ KeptPods)
        BY <2>3, <2>4, <3>3
      <4>3. podKey'[p[1]] = None /\ p[2] \in PodUids
        BY <3>1, <4>1, <4>2 DEF PodDeleted, KeptPods
      <4> QED
        BY <1>1, <4>3
    <3> QED
      BY <3>2, <3>3
  <2> QED
    BY <2>3, <2>4 DEF v
<1>7. (Active(r) /\ v = w) \/ (Starts(r) /\ v = NewWorker(r)) \/ WorkStep(r)
  <2>1. CASE \E q \in RuUids : WorkStep(q)
    BY <2>1 DEF WorkStep, Active
  <2>2. CASE (\E a \in asks : UserStep(a)) \/ (KeptStore /\ UNCHANGED <<worker, it, spoilt, asks>>)
    BY <2>2 DEF UserStep, Active
  <2>3. CASE LoopStep
    BY <2>3 DEF LoopStep, Active, Off
  <2> QED
    BY <1>1, <2>1, <2>2, <2>3, CleanSteps
<1> QED
  BY <1>4, <1>5, <1>6, <1>7

-----------------------------------------------------------------------------
(* The invariant and what follows from it                                  *)

(* The inductive invariant of the safety properties.                       *)
PilotInv ==
    /\ Types /\ StoreSound
    /\ AskedInv /\ OwnUpdate /\ OneUpdating
    /\ SplitsApart /\ OwnedVss /\ OwnedSubsets
    /\ ListsTrue /\ Batches

(* It holds at first,                                                      *)
LEMMA PilotInvFirst == PilotInit => PilotInv
<1> SUFFICES ASSUME PilotInit PROVE PilotInv
  OBVIOUS
<1>1. Types /\ StoreSound
  BY PilotInitTypes, StoreSoundFirst
<1>2. /\ \A r \in RuUids : worker[r] = Off /\ rus[r] = None
      /\ \A v \in VsUids : vss[v] = None
      /\ it.pods = {}
      /\ \A s \in Svcs : vsKey[RollingVs(s)] = None
      /\ \A s \in Svcs : subsets[Blocked(s)] = None /\ subsets[Available(s)] = None
  BY MadeNames DEF PilotInit, MeshInit, Fresh0
<1>3. \A r \in RuUids : ~ Active(r) /\ ~ Updating(r)
  BY <1>2 DEF Active, Updating, Off
<1>4. AskedInv /\ OwnUpdate /\ OneUpdating
  BY <1>2, <1>3 DEF AskedInv, OwnUpdate, OneUpdating
<1>5. SplitsApart /\ OwnedVss /\ OwnedSubsets
  BY <1>2 DEF SplitsApart, OwnedVss, OwnedSubsets
<1>6. ListsTrue /\ Batches
  BY <1>2, <1>3 DEF ListsTrue, Batches, Keyed
<1> QED
  BY <1>1, <1>4, <1>5, <1>6 DEF PilotInv

(* and always.                                                             *)
LEMMA PilotInvHolds == PilotSpec => []PilotInv
<1>1. PilotInv /\ [PilotNext]_allVars => PilotInv'
  BY TypesKept, StoreSoundKept, AskedInvKept, OwnUpdateKept, OneUpdatingKept, SplitsApartKept,
     OwnedVssKept, OwnedSubsetsKept, ListsTrueKept, BatchesKept DEF PilotInv
<1> QED
  BY <1>1, PilotInvFirst, PTL DEF PilotSpec

(* No two services that are updated select the same pod.                   *)
ServicesApart ==
    \A s, t \in Updated : s # t => \A nm \in Names : <<s, nm>> \in Backs => <<t, nm>> \notin Backs

(* A name of an updating worker that has no pod is in its own batch.       *)
LEMMA MissingIsOwn ==
    ASSUME PilotInv, ServicesApart, Undisturbed, NEW r \in RuUids, Updating(r),
           NEW nm \in NamesOf(worker[r]), podKey[nm] = None
    PROVE  nm \in Missing(worker[r]) /\ nm \in worker[r].batch
<1> DEFINE w == worker[r]
<1>0. Types /\ Active(r) /\ faults = 0 /\ nm \in Names
  <2>1. Types /\ Active(r) /\ faults = 0
    BY DEF PilotInv, Updating, Active, Undisturbed
  <2> QED
    BY <2>1, WorkerFields DEF Types
<1>1. PICK p \in w.pods : p[1] = nm
  BY DEF NamesOf
<1>2. Known(p) /\ <<w.svc, nm>> \in Backs
  BY <1>0, <1>1 DEF PilotInv, ListsTrue, Batches, BatchSound
<1>3. PICK q \in RuUids : nm \in Missing(worker[q])
  BY <1>1, <1>2 DEF Known, Accounted
<1>4. worker[q].pc \in {"delete", "add"}
  BY <1>3 DEF Missing
<1>5. Active(q) /\ Updating(q)
  BY <1>4 DEF Active, Updating
<1>6. nm \in worker[q].batch
  <2>1. IsWorker(worker[q])
    BY <1>0, <1>5, WorkerFields DEF Types
  <2> QED
    BY <1>3, <2>1 DEF Missing, IsWorker
<1>7. <<worker[q].svc, nm>> \in Backs
  <2>1. BatchSound(worker[q]) /\ IsWorker(worker[q])
    BY <1>0, <1>5, WorkerFields DEF Types, PilotInv, Batches
  <2>2. PICK x \in worker[q].pods : x[1] = nm
    BY <1>6, <2>1 DEF IsWorker, NamesOf
  <2> QED
    BY <2>1, <2>2 DEF BatchSound
<1>8. worker[q].svc = w.svc
  BY <1>0, <1>2, <1>5, <1>7 DEF PilotInv, AskedInv, ServicesApart
<1>9. q = r
  BY <1>5, <1>8 DEF PilotInv, OneUpdating
<1> QED
  BY <1>3, <1>6, <1>9

(* At most a batch is missing, which is as many as the minimum leaves.     *)
LEMMA MinimumFollows == PilotInv /\ ServicesApart => MinimumAlive
<1> SUFFICES ASSUME PilotInv, ServicesApart, Undisturbed, NEW r \in RuUids, Updating(r)
             PROVE  Cardinality({nm \in NamesOf(worker[r]) : podKey[nm] # None}) >= worker[r].min
  BY DEF MinimumAlive
<1> DEFINE w == worker[r]
           ns == NamesOf(w)
           alive == {nm \in ns : podKey[nm] # None}
<1>1. Types /\ Active(r)
  BY DEF PilotInv, Updating, Active
<1>2. w \in Workers /\ w.min \in Nat /\ w.pods \in SUBSET (Names \X PodUids)
  BY <1>1, WorkerFields DEF Types
<1>3. BatchSound(w) /\ Keyed(w.pods)
  BY <1>1 DEF PilotInv, Batches, ListsTrue
<1>4. IsFiniteSet(ns) /\ Cardinality(ns) = Cardinality(w.pods) /\ Cardinality(w.pods) \in Nat
  <2> HIDE DEF w
  <2> QED
    BY <1>2, <1>3, KeyedPods DEF NamesOf
<1>5. ns \ alive \subseteq w.batch
  BY MissingIsOwn
<1>6. IsFiniteSet(w.batch) /\ Cardinality(w.batch) \in Nat /\ Cardinality(w.batch) <= Cardinality(w.pods) - w.min
  BY <1>2, <1>3, CountOfPods DEF BatchSound, UpdateNum
<1> HIDE DEF w, ns, alive
<1>7. alive \subseteq ns
  BY DEF alive
<1>8. /\ IsFiniteSet(ns \ alive) /\ Cardinality(ns \ alive) <= Cardinality(w.batch)
      /\ Cardinality(ns \ alive) = Cardinality(ns) - Cardinality(alive)
      /\ Cardinality(alive) \in Nat /\ Cardinality(ns \ alive) \in Nat
  <2>1. IsFiniteSet(alive) /\ IsFiniteSet(ns \ alive)
    BY <1>4, <1>7, FS_Subset
  <2>2. ns \intersect alive = alive
    BY <1>7
  <2> QED
    <3>1. Cardinality(ns \ alive) = Cardinality(ns) - Cardinality(ns \intersect alive)
      BY <1>4, <2>1, FS_Difference
    <3>2. Cardinality(ns \ alive) <= Cardinality(w.batch)
      BY <1>5, <1>6, FS_Subset
    <3> QED
      BY <2>1, <2>2, <3>1, <3>2, FS_CardinalityType
<1>9. Cardinality(alive) >= w.min
  BY <1>2, <1>4, <1>6, <1>8
<1> QED
  BY <1>9 DEF alive, ns, w

(* With nothing left and no batch open every listed pod is replaced.       *)
LEMMA FinishedFollows == PilotInv /\ ServicesApart => FinishedReplacesAll
<1> SUFFICES ASSUME PilotInv, ServicesApart, Undisturbed, NEW r \in RuUids, At(r, "finished"),
                    NEW p \in worker[r].pods
             PROVE  podKey[p[1]] # p[2] /\ podKey[p[1]] # None
  BY DEF FinishedReplacesAll
<1> DEFINE w == worker[r]
<1>1. Types /\ Active(r) /\ Updating(r) /\ w.pc = "finished" /\ p[1] \in NamesOf(w)
  BY DEF PilotInv, Updating, Active, At, NamesOf
<1>2. p[1] \in Replaced(w)
  <2>1. w.left = {}
    BY <1>1 DEF PilotInv, Batches, BatchSound
  <2> QED
    BY <1>1, <2>1 DEF Replaced
<1>3. podKey[p[1]] # p[2]
  BY <1>1, <1>2 DEF PilotInv, Batches
<1>4. Missing(w) = {}
  BY <1>1 DEF Missing
<1>5. podKey[p[1]] # None
  BY <1>1, <1>4, MissingIsOwn
<1> QED
  BY <1>3, <1>5

(* Without a worker nobody holds anything.                                 *)
LEMMA NothingFollows == PilotInv => UpdatesLeaveNothing
<1> SUFFICES ASSUME PilotInv, Undisturbed, "panic" \notin spoilt, NoneActive, NEW s \in Svcs
             PROVE  /\ vsKey[RollingVs(s)] = None
                    /\ \A v \in VsUids : vss[v] # None => \A i \in DOMAIN vss[v].split :
                           vss[v].split[i].subset \notin {Blocked(s), Available(s)}
                    /\ NoneStuck /\ "unrolled" \notin spoilt =>
                          subsets[Blocked(s)] = None /\ subsets[Available(s)] = None
  BY DEF UpdatesLeaveNothing
<1>1. \A r \in RuUids : ~ Active(r) /\ ~ Updating(r) /\ worker[r].pc = "off"
  BY DEF NoneActive, Active, Updating
<1>2. \A t \in Svcs : vsKey[RollingVs(t)] = None
  BY <1>1 DEF PilotInv, OwnedVss
<1>3. ASSUME NEW v \in VsUids, vss[v] # None, NEW i \in DOMAIN vss[v].split
      PROVE  vss[v].split[i].subset \notin {Blocked(s), Available(s)}
  <2>1. vss[v].split[i].subset \in UserSubsets
    BY <1>2, <1>3, UidsNotNone DEF PilotInv, SplitsApart
  <2> QED
    BY <2>1, NamesAssumption
<1>4. ASSUME NoneStuck, "unrolled" \notin spoilt
      PROVE  subsets[Blocked(s)] = None /\ subsets[Available(s)] = None
  <2>1. \A r \in RuUids : ~ Holds(r, s, BlockedLabels) /\ ~ Holds(r, s, AvailableLabels)
    BY <1>1, <1>4 DEF Holds, NoneStuck, BlockedLabels, AvailableLabels
  <2> QED
    BY <1>4, <2>1 DEF PilotInv, OwnedSubsets
<1> QED
  BY <1>2, <1>3, <1>4

(* rollingUpdateWorkerLoop: of services that share no pod, one update at a *)
(* time takes pods away, and leaves the minimum it was asked to leave;     *)
(* however many updates of a service there are.                            *)
THEOREM MinimumKept == PilotSpec => [](ServicesApart => MinimumAlive)
  BY PilotInvHolds, MinimumFollows, PTL

(* rollingUpdateWorkerLoop: when it reports "Finished" every pod it listed *)
(* has been replaced by a new one of its name.                             *)
THEOREM FinishedReplaced == PilotSpec => [](ServicesApart => FinishedReplacesAll)
  BY PilotInvHolds, FinishedFollows, PTL

(* deleteRollingUpdateVirtualService and what follows it: once the updates *)
(* are over their virtual services are gone, and their subsets if none was *)
(* cut short.                                                              *)
THEOREM UpdatesGone == PilotSpec => []UpdatesLeaveNothing
  BY PilotInvHolds, NothingFollows, PTL

-----------------------------------------------------------------------------
(* Sizes multiplied                                                        *)

(* The naturals up to a number, one after the other.                       *)
LEMMA UpToAll ==
    ASSUME NEW n \in Nat, NEW Good, 0 \in Good, \A m \in 0 .. n - 1 : m \in Good => m + 1 \in Good
    PROVE  \A m \in 0 .. n : m \in Good
<1> DEFINE Bad == {m \in 0 .. n : m \notin Good}
<1> SUFFICES ASSUME Bad # {} PROVE FALSE
  OBVIOUS
<1>1. PICK m \in Bad : \A k \in Bad : m <= k
  <2>1. Bad \subseteq Nat
    OBVIOUS
  <2> HIDE DEF Bad
  <2> QED
    BY <2>1, LeastExists
<1>2. m # 0 /\ m - 1 \in 0 .. n - 1 /\ m - 1 \notin Bad
  BY <1>1
<1> QED
  BY <1>1, <1>2

(* The product of the sizes.                                               *)
Product(c, S) == Scaled(1, c, S)

(* A fold over the naturals.                                               *)
FoldOf(b, S, g, f) ==
    IsFiniteSet(S) /\ b \in Nat /\ g \in [S \X Nat -> Nat] /\ f \in [SUBSET S -> Nat] /\ Folds(f, g, b, S)
(* The order of two elements makes no difference,                          *)
Commutes(g, S) == \A x, y \in S, v \in Nat : g[<<x, g[<<y, v>>]>>] = g[<<y, g[<<x, v>>]>>]
(* the last may be any,                                                    *)
Turns(S, g, f) == \A s \in SUBSET S : \A x \in s : f[s] = g[<<x, f[s \ {x}]>>]
(* and one step does what the other does.                                  *)
Extends(g, T, h) == \A x \in T, v \in Nat : h[<<x, v>>] = g[<<x, v>>]

(* Of a step that commutes, any element may be the last: a smallest set    *)
(* where one may not is impossible.                                        *)
LEMMA FoldTurns ==
    ASSUME NEW b, NEW S, NEW g, NEW f, FoldOf(b, S, g, f), Commutes(g, S)
    PROVE  Turns(S, g, f)
<1> DEFINE Bad == {s \in SUBSET S : \E x \in s : f[s] # g[<<x, f[s \ {x}]>>]}
<1> SUFFICES ASSUME Bad # {} PROVE FALSE
  BY DEF Turns
<1>0. IsFiniteSet(S) /\ f \in [SUBSET S -> Nat] /\ Folds(f, g, b, S)
  BY DEF FoldOf
<1>1. PICK s \in Bad : \A t \in SUBSET S : Cardinality(t) < Cardinality(s) => t \notin Bad
  <2>1. Bad \in SUBSET (SUBSET S)
    OBVIOUS
  <2> HIDE DEF Bad
  <2> QED
    BY <1>0, <2>1, SmallestSubset
<1>2. PICK x \in s : f[s] # g[<<x, f[s \ {x}]>>]
  OBVIOUS
<1> DEFINE y == Picked(s)
           r == (s \ {x}) \ {y}
<1>3. y \in s
  BY <1>2 DEF Picked
<1>4. f[s] = g[<<y, f[s \ {y}]>>]
  BY <1>0, <1>2 DEF Folds, FoldsOn
<1>5. x # y
  BY <1>2, <1>4
<1>6. /\ s \ {x} \in SUBSET S /\ x \in S /\ Cardinality(s \ {x}) < Cardinality(s)
      /\ s \ {y} \in SUBSET S /\ y \in S /\ Cardinality(s \ {y}) < Cardinality(s)
  <2> HIDE DEF y
  <2>1. s \in SUBSET S
    OBVIOUS
  <2> QED
    BY <1>0, <1>3, <2>1, OneLess
<1>7. s \ {x} \notin Bad /\ s \ {y} \notin Bad
  <2> HIDE DEF Bad
  <2> QED
    BY <1>1, <1>6
<1> HIDE DEF y
<1>8. f[s \ {x}] = g[<<y, f[r]>>]
  BY <1>3, <1>5, <1>6, <1>7
<1>9. f[s \ {y}] = g[<<x, f[r]>>]
  <2>1. (s \ {y}) \ {x} = r
    OBVIOUS
  <2> HIDE DEF r
  <2> QED
    BY <1>5, <1>6, <1>7, <2>1
<1>10. f[r] \in Nat
  BY <1>0, <1>6
<1> HIDE DEF r, Bad
<1>11. g[<<x, g[<<y, f[r]>>]>>] = g[<<y, g[<<x, f[r]>>]>>]
  BY <1>6, <1>10 DEF Commutes
<1> QED
  BY <1>2, <1>4, <1>8, <1>9, <1>11

(* Folds of steps that agree on a set agree on it.                         *)
LEMMA FoldExtends ==
    ASSUME NEW b, NEW S, NEW g, NEW f, FoldOf(b, S, g, f),
           NEW T, NEW h, NEW e, FoldOf(b, T, h, e), T \subseteq S, Extends(g, T, h)
    PROVE  e[T] = f[T]
<1> DEFINE Bad == {s \in SUBSET T : e[s] # f[s]}
<1> SUFFICES ASSUME Bad # {} PROVE FALSE
  OBVIOUS
<1>0. /\ IsFiniteSet(T) /\ Folds(e, h, b, T) /\ e \in [SUBSET T -> Nat]
      /\ Folds(f, g, b, S)
  BY DEF FoldOf
<1>1. PICK s \in Bad : \A t \in SUBSET T : Cardinality(t) < Cardinality(s) => t \notin Bad
  <2>1. Bad \in SUBSET (SUBSET T)
    OBVIOUS
  <2> HIDE DEF Bad
  <2> QED
    BY <1>0, <2>1, SmallestSubset
<1>2. s # {}
  BY <1>0 DEF Folds, FoldsOn
<1>3. Picked(s) \in s
  BY <1>2 DEF Picked
<1>4. /\ s \ {Picked(s)} \in SUBSET T /\ Picked(s) \in T
      /\ Cardinality(s \ {Picked(s)}) < Cardinality(s)
  BY <1>0, <1>3, OneLess
<1>5. e[s \ {Picked(s)}] = f[s \ {Picked(s)}]
  BY <1>1, <1>4
<1>6. /\ e[s] = h[<<Picked(s), e[s \ {Picked(s)}]>>]
      /\ f[s] = g[<<Picked(s), f[s \ {Picked(s)}]>>]
  BY <1>0, <1>2 DEF Folds, FoldsOn
<1>7. e[s \ {Picked(s)}] \in Nat
  BY <1>0, <1>4
<1> QED
  BY <1>4, <1>5, <1>6, <1>7 DEF Extends

(* Multiplication commutes.                                                *)
LEMMA TimesCommutes ==
    ASSUME NEW S, NEW c, \A j \in S : c[j] \in Nat
    PROVE  Commutes(Times(S, c), S)
<1> SUFFICES ASSUME NEW x \in S, NEW y \in S, NEW v \in Nat
             PROVE  Times(S, c)[<<x, Times(S, c)[<<y, v>>]>>] = Times(S, c)[<<y, Times(S, c)[<<x, v>>]>>]
  BY DEF Commutes
<1>1. v * c[x] \in Nat /\ v * c[y] \in Nat /\ (v * c[x]) * c[y] = (v * c[y]) * c[x]
  BY SMT
<1>2. \A u \in Nat, z \in S : Times(S, c)[<<z, u>>] = u * c[z]
  BY DEF Times
<1> QED
  BY <1>1, <1>2

(* One factor more.                                                        *)
LEMMA ScaledNext ==
    ASSUME NEW S, IsFiniteSet(S), NEW w \in Nat, NEW c, \A j \in S : c[j] \in Nat, NEW x \in S
    PROVE  Scaled(w, c, S) = Scaled(w, c, S \ {x}) * c[x]
<1> DEFINE T == S \ {x}
           g == Times(S, c)
           h == Times(T, c)
<1>1. IsFiniteSet(T) /\ T \in SUBSET S
  BY FS_RemoveElement
<1>2. /\ g \in [S \X Nat -> Nat]
      /\ \E f \in [SUBSET S -> Nat] : Folds(f, g, w, S) /\ f[S] = Scaled(w, c, S)
  BY ScaledFolds
<1>3. /\ h \in [T \X Nat -> Nat]
      /\ \E e \in [SUBSET T -> Nat] : Folds(e, h, w, T) /\ e[T] = Scaled(w, c, T)
  BY <1>1, ScaledFolds
<1>4. Commutes(g, S)
  BY TimesCommutes
<1>5. \A y \in T, v \in Nat : h[<<y, v>>] = g[<<y, v>>]
  BY DEF Times
<1>6. \A v \in Nat : g[<<x, v>>] = v * c[x]
  BY DEF Times
<1>7. PICK f \in [SUBSET S -> Nat] : Folds(f, g, w, S) /\ f[S] = Scaled(w, c, S)
  BY <1>2
<1>8. PICK e \in [SUBSET T -> Nat] : Folds(e, h, w, T) /\ e[T] = Scaled(w, c, T)
  BY <1>3
<1>9. f[S] = g[<<x, f[T]>>]
  <2> HIDE DEF g, h
  <2>1. FoldOf(w, S, g, f)
    BY <1>2, <1>7 DEF FoldOf
  <2>2. Turns(S, g, f)
    BY <1>4, <2>1, FoldTurns
  <2> QED
    BY <2>2 DEF Turns
<1>10. e[T] = f[T]
  <2> HIDE DEF T, g, h
  <2>1. FoldOf(w, S, g, f) /\ FoldOf(w, T, h, e)
    BY <1>1, <1>2, <1>3, <1>7, <1>8 DEF FoldOf
  <2>2. Extends(g, T, h) /\ T \subseteq S
    BY <1>1, <1>5 DEF Extends
  <2> QED
    BY <2>1, <2>2, FoldExtends
<1> QED
  BY <1>1, <1>6, <1>7, <1>8, <1>9, <1>10

(* calculate: the weight times the product, which is positive if all sizes *)
(* are.                                                                    *)
LEMMA ScaledProduct ==
    ASSUME NEW S, IsFiniteSet(S), NEW w \in Nat, NEW c, \A j \in S : c[j] \in Nat
    PROVE  /\ Product(c, S) \in Nat /\ Scaled(w, c, S) = w * Product(c, S)
           /\ (\A j \in S : c[j] > 0) => Product(c, S) > 0
<1> DEFINE Sound(s) == Scaled(w, c, s) = w * Product(c, s) /\ ((\A j \in s : c[j] > 0) => Product(c, s) > 0)
           Bad == {s \in SUBSET S : ~ Sound(s)}
<1>0. \A s \in SUBSET S : IsFiniteSet(s) /\ Product(c, s) \in Nat /\ Scaled(w, c, s) \in Nat
  BY FS_Subset, ScaledNat DEF Product
<1> SUFFICES ASSUME Bad # {} PROVE FALSE
  BY <1>0
<1>1. PICK s \in Bad : \A t \in SUBSET S : Cardinality(t) < Cardinality(s) => t \notin Bad
  <2>1. Bad \in SUBSET (SUBSET S)
    OBVIOUS
  <2> HIDE DEF Bad
  <2> QED
    BY <2>1, SmallestSubset
<1>2. s \in SUBSET S /\ ~ Sound(s)
  OBVIOUS
<1>3. \A v \in Nat : Scaled(v, c, {}) = v
  <2>1. \A j \in {} : c[j] \in Nat
    OBVIOUS
  <2>2. ASSUME NEW v \in Nat PROVE Scaled(v, c, {}) = v
    <3>1. PICK f \in [SUBSET {} -> Nat] : Folds(f, Times({}, c), v, {}) /\ f[{}] = Scaled(v, c, {})
      BY <2>1, FS_EmptySet, ScaledFolds
    <3> QED
      BY <3>1 DEF Folds, FoldsOn
  <2> QED
    BY <2>2
<1>4. s # {}
  BY <1>2, <1>3 DEF Product
<1>5. PICK x \in s : TRUE
  BY <1>4
<1> DEFINE t == s \ {x}
<1>6. t \in SUBSET S /\ Sound(t)
  <2>1. t \in SUBSET S /\ Cardinality(t) < Cardinality(s)
    BY <1>2, <1>5, OneLess
  <2> QED
    BY <1>1, <2>1
<1>7. Scaled(w, c, s) = Scaled(w, c, t) * c[x] /\ Product(c, s) = Product(c, t) * c[x] /\ c[x] \in Nat
  <2>1. IsFiniteSet(s) /\ \A j \in s : c[j] \in Nat
    BY <1>0, <1>2
  <2> QED
    BY <2>1, <1>5, ScaledNext DEF Product
<1>8. Product(c, t) \in Nat
  BY <1>0, <1>6
<1> DEFINE p == Product(c, t)
           y == c[x]
<1>9. Scaled(w, c, s) = w * Product(c, s)
  <2>1. Scaled(w, c, s) = (w * p) * y /\ Product(c, s) = p * y /\ p \in Nat /\ y \in Nat
    BY <1>6, <1>7, <1>8
  <2> HIDE DEF p, y
  <2>2. (w * p) * y = w * (p * y)
    BY <2>1, SMT
  <2> QED
    BY <2>1, <2>2
<1>10. ASSUME \A j \in s : c[j] > 0 PROVE Product(c, s) > 0
  <2>1. p > 0 /\ y > 0 /\ Product(c, s) = p * y /\ p \in Nat /\ y \in Nat
    BY <1>5, <1>6, <1>7, <1>8, <1>10
  <2> HIDE DEF p, y
  <2>2. p * y > 0
    BY <2>1, SMT
  <2> QED
    BY <2>1, <2>2
<1> QED
  BY <1>2, <1>9, <1>10

-----------------------------------------------------------------------------
(* Weights added up                                                        *)

(* Entries in the order that they are drawn in.                            *)
Weighed(es) == Len(es) \in Nat /\ DOMAIN es = 1 .. Len(es) /\ \A j \in 1 .. Len(es) : es[j].weight \in Nat

(* The step of WeightUpTo.                                                 *)
Plus(es, S) == [p \in S \X Nat |-> p[2] + es[p[1]].weight]

(* getDestinationWithWeight (envoy.go): WeightUpTo is its fold.            *)
LEMMA SumFolds ==
    ASSUME NEW es, Weighed(es), NEW n \in 0 .. Len(es)
    PROVE  \E f : FoldOf(0, 1 .. n, Plus(es, 1 .. n), f) /\ f[1 .. n] = WeightUpTo(es, n)
<1> DEFINE S == 1 .. n
           g == Plus(es, S)
<1>0. IsFiniteSet(S) /\ \A j \in S : es[j].weight \in Nat
  BY FS_Interval DEF Weighed
<1>1. g \in [S \X Nat -> Nat]
  BY <1>0 DEF Plus
<1>2. PICK f \in [SUBSET S -> Nat] : Folds(f, g, 0, S)
  <2> HIDE DEF S, g
  <2> QED
    BY <1>0, <1>1, FoldExists
<1> DEFINE Unfolds(h) == h = [s \in SUBSET S |-> IF s = {} THEN 0 ELSE h[s \ {Picked(s)}] + es[Picked(s)].weight]
<1>3. ASSUME NEW s \in SUBSET S, s # {}
      PROVE  /\ Picked(s) \in S /\ s \ {Picked(s)} \in SUBSET S
             /\ g[<<Picked(s), f[s \ {Picked(s)}]>>] = f[s \ {Picked(s)}] + es[Picked(s)].weight
  <2> HIDE DEF S
  <2>1. Picked(s) \in S
    BY <1>3 DEF Picked
  <2>2. f[s \ {Picked(s)}] \in Nat
    BY <1>2
  <2> QED
    BY <2>1, <2>2 DEF Plus
<1>4. Unfolds(f)
  <2> HIDE DEF S, g
  <2> QED
    BY <1>2, <1>3 DEF Folds, FoldsOn
<1>5. PICK e : Unfolds(e) /\ WeightUpTo(es, n) = e[S]
  <2>1. WeightUpTo(es, n) = (CHOOSE h : Unfolds(h))[S]
    BY DEF WeightUpTo, FoldSet, MapThenFoldSet, Picked
  <2> HIDE DEF Unfolds, S
  <2> QED
    BY <1>4, <2>1
<1> HIDE DEF S, g
<1>7. Tracks(e, f, g, 0, S)
  BY <1>3, <1>5 DEF Tracks
<1>8. e[S] = f[S]
  BY <1>0, <1>2, <1>7, FoldsAlike
<1>9. FoldOf(0, S, g, f)
  BY <1>0, <1>1, <1>2 DEF FoldOf
<1> QED
  BY <1>5, <1>8, <1>9 DEF S, g

(* One weight more.                                                        *)
LEMMA WeightUpToNext ==
    ASSUME NEW es, Weighed(es), NEW n \in 0 .. Len(es) - 1
    PROVE  /\ WeightUpTo(es, n) \in Nat /\ es[n + 1].weight \in Nat
           /\ WeightUpTo(es, n + 1) = WeightUpTo(es, n) + es[n + 1].weight
<1> DEFINE S == 1 .. n + 1
           T == 1 .. n
           g == Plus(es, S)
           h == Plus(es, T)
<1>0. n \in Nat /\ n \in 0 .. Len(es) /\ n + 1 \in 0 .. Len(es) /\ n + 1 \in 1 .. Len(es)
  BY DEF Weighed
<1>1. PICK f : FoldOf(0, S, g, f) /\ f[S] = WeightUpTo(es, n + 1)
  BY <1>0, SumFolds
<1>2. PICK e : FoldOf(0, T, h, e) /\ e[T] = WeightUpTo(es, n)
  BY <1>0, SumFolds
<1>3. T \subseteq S /\ S \ {n + 1} = T /\ n + 1 \in S
  BY <1>0
<1>4. \A j \in S : es[j].weight \in Nat
  BY <1>0 DEF Weighed
<1> HIDE DEF S, T
<1>5. /\ \A x \in S, v \in Nat : g[<<x, v>>] = v + es[x].weight
      /\ \A x \in T, v \in Nat : h[<<x, v>>] = v + es[x].weight
  BY DEF Plus
<1> HIDE DEF g, h
<1>6. Commutes(g, S)
  <2> SUFFICES ASSUME NEW x \in S, NEW y \in S, NEW v \in Nat
               PROVE  g[<<x, g[<<y, v>>]>>] = g[<<y, g[<<x, v>>]>>]
    BY DEF Commutes
  <2>1. g[<<y, v>>] = v + es[y].weight /\ g[<<x, v>>] = v + es[x].weight
    BY <1>5
  <2>2. es[x].weight \in Nat /\ es[y].weight \in Nat
    BY <1>4
  <2>3. v + es[y].weight \in Nat /\ v + es[x].weight \in Nat
    BY <2>2
  <2>4. /\ g[<<x, g[<<y, v>>]>>] = (v + es[y].weight) + es[x].weight
        /\ g[<<y, g[<<x, v>>]>>] = (v + es[x].weight) + es[y].weight
    BY <1>5, <2>1, <2>3
  <2> QED
    BY <2>2, <2>4
<1>7. Extends(g, T, h)
  BY <1>3, <1>5 DEF Extends
<1>8. f[S] = g[<<n + 1, f[T]>>]
  <2>1. Turns(S, g, f)
    BY <1>1, <1>6, FoldTurns
  <2>2. S \in SUBSET S
    OBVIOUS
  <2> QED
    BY <1>3, <2>1, <2>2 DEF Turns
<1>9. e[T] = f[T]
  BY <1>1, <1>2, <1>3, <1>7, FoldExtends
<1>10. f[T] \in Nat
  BY <1>1, <1>3 DEF FoldOf
<1> QED
  BY <1>1, <1>2, <1>3, <1>4, <1>5, <1>8, <1>9, <1>10

(* Of no entries it is zero,                                               *)
LEMMA WeightUpToNone ==
    ASSUME NEW es, Weighed(es)
    PROVE  WeightUpTo(es, 0) = 0
<1>1. 0 \in 0 .. Len(es) /\ 1 .. 0 = {}
  BY DEF Weighed
<1>2. PICK f : FoldOf(0, 1 .. 0, Plus(es, 1 .. 0), f) /\ f[1 .. 0] = WeightUpTo(es, 0)
  BY <1>1, SumFolds
<1> QED
  BY <1>1, <1>2 DEF FoldOf, Folds, FoldsOn

(* and it never falls.                                                     *)
LEMMA WeightUpToGrows ==
    ASSUME NEW es, Weighed(es)
    PROVE  \A n \in 0 .. Len(es) : /\ WeightUpTo(es, n) \in Nat
                                   /\ \A m \in 0 .. n : WeightUpTo(es, m) <= WeightUpTo(es, n)
<1> DEFINE W(n) == WeightUpTo(es, n)
           Good == {n \in Nat : W(n) \in Nat /\ \A m \in 0 .. n : W(m) \in Nat /\ W(m) <= W(n)}
<1>1. Len(es) \in Nat /\ W(0) = 0
  BY WeightUpToNone DEF Weighed
<1>2. \A n \in 0 .. Len(es) - 1 : W(n) \in Nat /\ es[n + 1].weight \in Nat /\ W(n + 1) = W(n) + es[n + 1].weight
  BY WeightUpToNext
<1> HIDE DEF W
<1>3. 0 \in Good
  BY <1>1
<1>4. ASSUME NEW n \in 0 .. Len(es) - 1, n \in Good PROVE n + 1 \in Good
  <2>1. W(n) \in Nat /\ W(n + 1) \in Nat /\ W(n) <= W(n + 1)
    BY <1>2
  <2>2. ASSUME NEW m \in 0 .. n + 1 PROVE W(m) \in Nat /\ W(m) <= W(n + 1)
    <3>1. CASE m = n + 1
      BY <2>1, <3>1
    <3>2. CASE m \in 0 .. n
      BY <1>4, <2>1, <3>2
    <3>3. m = n + 1 \/ m \in 0 .. n
      BY <1>1
    <3> QED
      BY <3>1, <3>2, <3>3
  <2> QED
    BY <1>1, <2>1, <2>2
<1>5. \A n \in 0 .. Len(es) : n \in Good
  <2> HIDE DEF Good
  <2> QED
    BY <1>1, <1>3, <1>4, UpToAll
<1> QED
  BY <1>5 DEF W

(* The draws from one weight's sum to the next are the entry's.            *)
LEMMA DrawnEntry ==
    ASSUME NEW es, Weighed(es), NEW n \in 0 .. Len(es) - 1,
           NEW d \in WeightUpTo(es, n) .. WeightUpTo(es, n + 1) - 1
    PROVE  Destination(es, d) = es[n + 1]
<1> DEFINE W(m) == WeightUpTo(es, m)
           Above == {i \in DOMAIN es : d < W(i)}
<1>1. /\ Len(es) \in Nat /\ DOMAIN es = 1 .. Len(es) /\ n + 1 \in 1 .. Len(es)
      /\ \A i \in 0 .. n : W(i) \in Nat /\ W(i) <= W(n)
      /\ W(n) \in Nat /\ W(n + 1) \in Nat
  <2>1. Len(es) \in Nat /\ DOMAIN es = 1 .. Len(es) /\ n + 1 \in 1 .. Len(es) /\ n \in 0 .. Len(es) /\ n + 1 \in 0 .. Len(es)
    BY DEF Weighed
  <2>2. \A i \in 0 .. n : i \in 0 .. Len(es)
    BY <2>1
  <2> QED
    BY <2>1, <2>2, WeightUpToGrows
<1> HIDE DEF W
<1>2. d \in Nat /\ W(n) <= d /\ d < W(n + 1)
  BY <1>1 DEF W
<1>3. n + 1 \in Above
  BY <1>1, <1>2
<1>4. ASSUME NEW i \in Above PROVE n + 1 <= i
  <2>1. i \in 1 .. Len(es) /\ d < W(i)
    BY <1>1
  <2>2. ~ (i \in 0 .. n)
    BY <1>1, <1>2, <2>1
  <2> QED
    BY <1>1, <2>1, <2>2
<1>5. Above \subseteq Nat
  BY <1>1
<1> HIDE DEF Above
<1>6. Min(Above) = n + 1
  <2>1. Min(Above) \in Above
    BY <1>3, <1>5, MinIsMember
  <2>2. Min(Above) <= n + 1
    BY <1>3, <1>5, LeastExists DEF Min
  <2>3. n + 1 <= Min(Above)
    BY <1>4, <2>1
  <2>4. n + 1 \in Nat
    BY <1>1
  <2>5. Min(Above) \in Nat
    BY <1>5, <2>1
  <2> QED
    BY <2>2, <2>3, <2>4, <2>5
<1> QED
  BY <1>6 DEF Destination, Above, W

-----------------------------------------------------------------------------
(* Draws                                                                   *)

(* The draws that lead to a subset, and its entries.                       *)
Draws(es, x)  == {d \in 0 .. WeightUpTo(es, Len(es)) - 1 : Destination(es, d).subset = x}
Listed(es, x) == {i \in 1 .. Len(es) : es[i].subset = x}

(* The draws of a subset whose entries weigh the same.                     *)
LEMMA DrawnSubset ==
    ASSUME NEW es, Weighed(es), NEW x, NEW w \in Nat, \A i \in Listed(es, x) : es[i].weight = w
    PROVE  Cardinality(Draws(es, x)) = w * Cardinality(Listed(es, x))
<1> DEFINE W(m) == WeightUpTo(es, m)
           Hits(m) == {d \in 0 .. W(m) - 1 : Destination(es, d).subset = x}
           Places(m) == {i \in 1 .. m : es[i].subset = x}
           Good == {m \in Nat : Cardinality(Hits(m)) = w * Cardinality(Places(m))}
<1>1. Len(es) \in Nat /\ \A i \in 1 .. Len(es) : es[i].subset = x => es[i].weight = w
  BY DEF Weighed, Listed
<1>2. \A m \in 0 .. Len(es) - 1 :
         /\ W(m) \in Nat /\ es[m + 1].weight \in Nat /\ W(m + 1) = W(m) + es[m + 1].weight
         /\ \A d \in W(m) .. W(m + 1) - 1 : Destination(es, d) = es[m + 1]
  BY WeightUpToNext, DrawnEntry
<1>3. W(0) = 0
  BY WeightUpToNone
<1> HIDE DEF W
<1>4. 0 \in Good
  <2>1. Hits(0) = {} /\ Places(0) = {}
    BY <1>3
  <2> HIDE DEF Hits, Places
  <2>2. Cardinality(Hits(0)) = 0 /\ Cardinality(Places(0)) = 0
    BY <2>1, FS_EmptySet
  <2>3. w * 0 = 0
    BY SMT
  <2> QED
    BY <2>2, <2>3
<1>5. ASSUME NEW m \in 0 .. Len(es) - 1, m \in Good PROVE m + 1 \in Good
  <2> DEFINE u == es[m + 1].weight
             New == {d \in W(m) .. W(m + 1) - 1 : Destination(es, d).subset = x}
             hits == Hits(m)
             places == Places(m)
  <2>0. m \in Nat /\ m + 1 \in Nat /\ m + 1 \in 1 .. Len(es)
    BY <1>1
  <2>1. W(m) \in Nat /\ u \in Nat /\ W(m + 1) = W(m) + u
    BY <1>2
  <2>2. /\ IsFiniteSet(hits) /\ Cardinality(hits) \in Nat
        /\ IsFiniteSet(places) /\ Cardinality(places) \in Nat
        /\ Cardinality(hits) = w * Cardinality(places)
    <3>1. hits \in SUBSET (0 .. W(m) - 1) /\ places \in SUBSET (1 .. m)
      OBVIOUS
    <3>2. IsFiniteSet(0 .. W(m) - 1) /\ IsFiniteSet(1 .. m)
      BY <2>0, <2>1, FS_Interval
    <3>3. Cardinality(hits) = w * Cardinality(places)
      BY <1>5
    <3> HIDE DEF hits, places
    <3> QED
      BY <3>1, <3>2, <3>3, FS_Subset, FS_CardinalityType
  <2>3. Hits(m + 1) = hits \union New /\ hits \intersect New = {}
    <3>1. 0 .. W(m + 1) - 1 = (0 .. W(m) - 1) \union (W(m) .. W(m + 1) - 1)
      BY <2>1
    <3>2. (0 .. W(m) - 1) \intersect (W(m) .. W(m + 1) - 1) = {}
      BY <2>1
    <3> QED
      BY <3>1, <3>2
  <2>4. Places(m + 1) = IF es[m + 1].subset = x THEN places \union {m + 1} ELSE places
    <3>1. 1 .. m + 1 = (1 .. m) \union {m + 1}
      BY <2>0
    <3> QED
      BY <3>1
  <2>5. CASE es[m + 1].subset = x
    <3>1. u = w
      BY <1>1, <2>0, <2>5
    <3>2. New = W(m) .. W(m + 1) - 1
      BY <1>2, <2>5
    <3>3. IsFiniteSet(New) /\ Cardinality(New) = w
      <4>1. W(m) \in Int /\ W(m + 1) - 1 \in Int
        BY <2>1
      <4>2. Cardinality(New) = IF W(m) > W(m + 1) - 1 THEN 0 ELSE (W(m + 1) - 1) - W(m) + 1
        BY <3>2, <4>1, FS_Interval
      <4>3. IsFiniteSet(New)
        BY <3>2, <4>1, FS_Interval
      <4> HIDE DEF New
      <4> QED
        BY <2>1, <3>1, <4>2, <4>3
    <3>4. m + 1 \notin places
      BY <2>0
    <3> HIDE DEF New, hits, places, Hits, Places
    <3>5. Cardinality(Hits(m + 1)) = Cardinality(hits) + w
      <4>1. Cardinality(hits \intersect New) = 0
        BY <2>3, FS_EmptySet
      <4>2. Cardinality(hits \union New) = Cardinality(hits) + Cardinality(New) - Cardinality(hits \intersect New)
        BY <2>2, <3>3, FS_Union
      <4>3. Cardinality(Hits(m + 1)) = Cardinality(hits) + Cardinality(New) - Cardinality(hits \intersect New)
        BY <2>3, <4>2
      <4>4. Cardinality(hits) \in Nat
        BY <2>2
      <4> QED
        BY <3>3, <4>1, <4>3, <4>4
    <3>6. Cardinality(Places(m + 1)) = Cardinality(places) + 1
      BY <2>2, <2>4, <2>5, <3>4, FS_AddElement
    <3>7. w * (Cardinality(places) + 1) = w * Cardinality(places) + w
      <4> DEFINE c == Cardinality(places)
      <4>1. c \in Nat
        BY <2>2
      <4> HIDE DEF c
      <4>2. w * (c + 1) = w * c + w
        BY <4>1, SMT
      <4> QED
        BY <4>2 DEF c
    <3> QED
      BY <2>0, <2>2, <3>5, <3>6, <3>7
  <2>6. CASE es[m + 1].subset # x
    <3>1. New = {}
      BY <1>2, <2>6
    <3>2. Hits(m + 1) = hits /\ Places(m + 1) = places
      <4> HIDE DEF Hits, Places, hits, places, New
      <4> QED
        BY <2>3, <2>4, <2>6, <3>1
    <3> HIDE DEF New, hits, places, Hits, Places
    <3> QED
      BY <2>0, <2>2, <3>2
  <2> QED
    BY <2>5, <2>6
<1>6. Len(es) \in Good
  <2> HIDE DEF Good
  <2>1. \A m \in 0 .. Len(es) : m \in Good
    BY <1>1, <1>4, <1>5, UpToAll
  <2> QED
    BY <1>1, <2>1
<1> QED
  BY <1>6 DEF W, Draws, Listed

(* A finite set as a sequence.                                             *)
LEMMA SequenceOf ==
    ASSUME NEW S, IsFiniteSet(S)
    PROVE  LET es == SetToSeq(S) IN
           /\ Len(es) = Cardinality(S) /\ Len(es) \in Nat /\ DOMAIN es = 1 .. Len(es)
           /\ es \in Bijection(1 .. Len(es), S)
<1> DEFINE n == Cardinality(S)
           es == SetToSeq(S)
<1>1. n \in Nat /\ ExistsBijection(1 .. n, S)
  BY FS_CardinalityType
<1>2. \E f \in [1 .. n -> S] : IsInjective(f)
  BY <1>1 DEF ExistsBijection, Bijection, Injection, IsInjective
<1>3. es \in [1 .. n -> S] /\ IsInjective(es)
  BY <1>2 DEF SetToSeq
<1>4. es \in Seq(S) /\ Len(es) = n
  <2> HIDE DEF es
  <2>1. es \in Seq(S)
    BY <1>1, <1>3, IsASeq
  <2>2. DOMAIN es = 1 .. n /\ DOMAIN es = 1 .. Len(es) /\ Len(es) \in Nat
    BY <1>3, <2>1, LenProperties
  <2> QED
    BY <1>1, <2>1, <2>2
<1> HIDE DEF es
<1>5. es \in Injection(1 .. n, S)
  BY <1>3 DEF Injection, IsInjective
<1>6. es \in Surjection(1 .. n, S)
  <2>1. Cardinality(1 .. n) = n
    BY <1>1, FS_Interval
  <2> QED
    BY <1>5, <2>1, FS_Injection
<1> QED
  BY <1>1, <1>3, <1>4, <1>5, <1>6 DEF Bijection, es

-----------------------------------------------------------------------------
(* Shares                                                                  *)

(* A subset's share: its weight times the sizes of all that have any.      *)
NatOn(c, S) == \A j \in S : c[j] \in Nat
(* calculate: weight times the other sizes times its own is weight times   *)
(* all sizes.                                                              *)
LEMMA ScaledShare ==
    ASSUME NEW S, IsFiniteSet(S), NEW c, NatOn(c, S), NEW x \in S, NEW w \in Nat
    PROVE  Scaled(w, c, S \ {x}) * c[x] = w * Product(c, S)
<1>1. \A j \in S : c[j] \in Nat
  BY DEF NatOn
<1>2. Scaled(w, c, S) = Scaled(w, c, S \ {x}) * c[x]
  BY <1>1, ScaledNext
<1>3. Scaled(w, c, S) = w * Product(c, S)
  BY <1>1, ScaledProduct
<1> QED
  BY <1>2, <1>3

(* The entries that an iteration computes for a virtual service by weight. *)
LEMMA EntriesShared ==
    ASSUME NEW vs, NEW counts, NEW got, NEW seen,
           vs \in VirtualService, ~ ByURL(vs),
           Len(counts) = Len(vs.split), counts \in Seq(Nat),
           got \in Seq(SUBSET Names), Len(got) = Len(vs.split),
           \A i \in 1 .. Len(vs.split) : vs.split[i].weight \in Nat,
           NEW entries, entries = EntriesOf(vs, counts, got, seen),
           SameAndRunning(vs, counts, entries), Fit(vs, counts, entries)
    PROVE  SharesFollow(vs, entries)
<1> DEFINE n == Len(vs.split)
           sub(i) == vs.split[i].subset
           weight(i) == Calculate(vs.split, counts)[i]
           filled == {j \in 1 .. n : counts[j] # 0}
           P == Product(counts, filled)
           In(i) == {e \in entries : e.subset = sub(i)}
<1>1. /\ n \in Nat /\ DOMAIN vs.split = 1 .. n
      /\ DOMAIN counts = 1 .. n /\ \A i \in 1 .. n : counts[i] \in Nat
      /\ DOMAIN got = 1 .. n /\ \A i \in 1 .. n : got[i] \subseteq Names
  <2>1. vs.split \in Seq(Weighing)
    BY DEF VirtualService
  <2>2. n \in Nat /\ DOMAIN vs.split = 1 .. n
    BY <2>1, LenProperties
  <2>3. DOMAIN counts = 1 .. n /\ counts \in [1 .. n -> Nat]
    BY LenProperties
  <2>4. DOMAIN got = 1 .. n /\ got \in [1 .. n -> SUBSET Names]
    BY LenProperties
  <2> QED
    BY <2>2, <2>3, <2>4
<1>2. /\ \A e \in entries : e.pod # None
      /\ \A i, j \in 1 .. n : sub(i) = sub(j) => i = j
      /\ \A i \in 1 .. n : counts[i] = Cardinality(In(i))
  BY <1>1 DEF SameAndRunning
<1>3. filled \in SUBSET (1 .. n) /\ IsFiniteSet(filled) /\ \A j \in filled : counts[j] \in Nat
  <2>1. filled \in SUBSET (1 .. n) /\ \A j \in filled : counts[j] \in Nat
    BY <1>1
  <2>2. IsFiniteSet(1 .. n)
    BY <1>1, FS_Interval
  <2> HIDE DEF filled, n
  <2> QED
    BY <2>1, <2>2, FS_Subset
<1>4. ASSUME NEW i \in 1 .. n
      PROVE  /\ weight(i) \in Nat
             /\ weight(i) = Scaled(vs.split[i].weight, counts, filled \ {i})
  <2> DEFINE S == filled \ {i}
  <2>1. IsFiniteSet(S) /\ \A j \in S : counts[j] \in Nat
    BY <1>3, FS_RemoveElement
  <2>2. vs.split[i].weight \in Nat
    OBVIOUS
  <2> HIDE DEF S, filled
  <2>3. Scaled(vs.split[i].weight, counts, S) \in Nat
    BY <2>1, <2>2, ScaledNat
  <2>4. TimesOthers(vs.split, counts, i) = Scaled(vs.split[i].weight, counts, S)
    <3>1. {j \in DOMAIN counts \ {i} : counts[j] # 0} = S
      BY <1>1 DEF S, filled
    <3> QED
      BY <3>1 DEF TimesOthers
  <2>5. TimesOthers(vs.split, counts, i) < WeightLimit
    BY <1>1 DEF Fit
  <2>6. weight(i) = Int32(TimesOthers(vs.split, counts, i))
    BY <1>1 DEF Calculate
  <2> QED
    BY <2>3, <2>4, <2>5, <2>6, Int32Keeps DEF S
<1>5. \A i \in 1 .. n : weight(i) \in Nat
  BY <1>4
<1>6. entries = UNION {{Entry(sub(i), PodNamed(vs.svc, nm, seen), weight(i)) : nm \in got[i]} : i \in 1 .. n}
  BY <1>1 DEF EntriesOf
<1>7. ASSUME NEW e \in entries
      PROVE  \E i \in 1 .. n : e.subset = sub(i) /\ e.weight = weight(i)
  <2>1. PICK i \in 1 .. n : e \in {Entry(sub(i), PodNamed(vs.svc, nm, seen), weight(i)) : nm \in got[i]}
    BY <1>6
  <2> HIDE DEF sub, weight
  <2> QED
    BY <2>1 DEF Entry
<1>8. IsFiniteSet(entries)
  <2> DEFINE Pairs == {p \in (1 .. n) \X Names : p[2] \in got[p[1]]}
             f == [p \in Pairs |-> Entry(sub(p[1]), PodNamed(vs.svc, p[2], seen), weight(p[1]))]
  <2>1. IsFiniteSet(Pairs)
    <3>1. IsFiniteSet(1 .. n) /\ IsFiniteSet(Names)
      BY <1>1, NamesAssumption, FS_Interval
    <3>2. Pairs \in SUBSET ((1 .. n) \X Names)
      OBVIOUS
    <3> HIDE DEF Pairs, n
    <3>3. IsFiniteSet((1 .. n) \X Names)
      BY <3>1, FS_Product
    <3> QED
      BY <3>2, <3>3, FS_Subset
  <2>2. f \in Surjection(Pairs, entries)
    <3>1. \A p \in Pairs : f[p] \in entries
      BY <1>6
    <3>2. ASSUME NEW e \in entries PROVE \E p \in Pairs : f[p] = e
      <4>1. PICK i \in 1 .. n : e \in {Entry(sub(i), PodNamed(vs.svc, nm, seen), weight(i)) : nm \in got[i]}
        BY <1>6
      <4>2. PICK nm \in got[i] : e = Entry(sub(i), PodNamed(vs.svc, nm, seen), weight(i))
        BY <4>1
      <4>3. <<i, nm>> \in Pairs
        BY <1>1, <4>2
      <4>4. f[<<i, nm>>] = e
        BY <4>2, <4>3
      <4> QED
        BY <4>3, <4>4
    <3> HIDE DEF Pairs
    <3>3. f \in [Pairs -> entries]
      BY <3>1
    <3> HIDE DEF f
    <3> QED
      BY <3>2, <3>3 DEF Surjection
  <2> HIDE DEF Pairs, f
  <2> QED
    BY <2>1, <2>2, FS_Surjection
<1> DEFINE es == SetToSeq(entries)
<1>9. /\ Endpoints(entries) = es
      /\ Len(es) \in Nat /\ DOMAIN es = 1 .. Len(es) /\ es \in Bijection(1 .. Len(es), entries)
  <2>1. {e \in entries : e.pod # None} = entries
    BY <1>2
  <2> QED
    BY <1>8, <2>1, SequenceOf DEF Endpoints
<1> HIDE DEF es, weight, sub
<1>10. \A j \in 1 .. Len(es) : es[j] \in entries
  BY <1>9 DEF Bijection, Injection
<1>11. Weighed(es)
  BY <1>5, <1>7, <1>9, <1>10 DEF Weighed
<1>12. ASSUME NEW i \in 1 .. n PROVE Share(entries, sub(i)) = weight(i) * Cardinality(In(i))
  <2> DEFINE w == weight(i)
             x == sub(i)
             Places == Listed(es, x)
  <2>1. w \in Nat /\ \A k \in Places : es[k].weight = w
    BY <1>2, <1>5, <1>7, <1>10 DEF Listed
  <2>2. Share(entries, x) = w * Cardinality(Places)
    <3>1. Share(entries, x) = Cardinality(Draws(es, x))
      <4>1. WeightUpTo(es, Len(es)) \in Nat
        BY <1>9, <1>11, WeightUpToGrows
      <4>2. WeightUpTo(es, Len(es)) < WeightLimit
        BY <1>9 DEF Fit
      <4>3. Int32(WeightUpTo(es, Len(es))) = WeightUpTo(es, Len(es))
        BY <4>1, <4>2, Int32Keeps
      <4> HIDE DEF x
      <4> QED
        BY <1>9, <4>3 DEF Share, Draws
    <3> HIDE DEF w, x
    <3> QED
      BY <1>11, <2>1, <3>1, DrawnSubset
  <2>3. Cardinality(Places) = Cardinality(In(i))
    <3> DEFINE f == [k \in Places |-> es[k]]
    <3>1. f \in Bijection(Places, In(i))
      <4>1. \A k \in Places : f[k] \in In(i)
        BY <1>10 DEF Listed
      <4>2. \A k, l \in Places : f[k] = f[l] => k = l
        BY <1>9 DEF Listed, Bijection, Injection, IsInjective
      <4>3. ASSUME NEW e \in In(i) PROVE \E k \in Places : f[k] = e
        <5>1. PICK k \in 1 .. Len(es) : es[k] = e
          BY <1>9 DEF Bijection, Surjection
        <5> QED
          BY <5>1 DEF Listed
      <4>4. f \in [Places -> In(i)]
        BY <4>1
      <4> HIDE DEF f, Places, In
      <4> QED
        BY <4>2, <4>3, <4>4 DEF Bijection, Injection, Surjection, IsInjective
    <3>2. IsFiniteSet(Places)
      <4>0. IsFiniteSet(1 .. Len(es))
        BY <1>9, FS_Interval
      <4>1. Places \in SUBSET (1 .. Len(es))
        BY DEF Listed
      <4> HIDE DEF Places
      <4> QED
        BY <4>0, <4>1, FS_Subset
    <3> HIDE DEF Places, In, f
    <3> QED
      BY <3>1, <3>2, FS_Bijection DEF ExistsBijection
  <2> QED
    BY <2>2, <2>3
<1>13. P \in Nat /\ P > 0
  <2>1. \A j \in filled : counts[j] > 0
    BY <1>1
  <2> HIDE DEF filled
  <2> QED
    BY <1>3, <2>1, ScaledProduct
<1>14. ASSUME NEW i \in 1 .. n, Cardinality(In(i)) > 0
       PROVE  Share(entries, sub(i)) = vs.split[i].weight * P
  <2> DEFINE a == vs.split[i].weight
  <2>1. counts[i] = Cardinality(In(i)) /\ i \in filled
    BY <1>1, <1>2, <1>14
  <2>2. a \in Nat /\ weight(i) = Scaled(a, counts, filled \ {i})
    BY <1>4
  <2> HIDE DEF filled, In, a
  <2>3. IsFiniteSet(filled) /\ NatOn(counts, filled)
    BY <1>3 DEF NatOn
  <2>4. Scaled(a, counts, filled \ {i}) * counts[i] = a * P
    BY <2>1, <2>2, <2>3, ScaledShare
  <2> QED
    BY <1>12, <2>1, <2>2, <2>4 DEF a
<1>15. ASSUME NEW i \in 1 .. n, NEW j \in 1 .. n, Cardinality(In(i)) > 0, Cardinality(In(j)) > 0
       PROVE  /\ Share(entries, sub(i)) * vs.split[j].weight = Share(entries, sub(j)) * vs.split[i].weight
              /\ vs.split[i].weight > 0 => Share(entries, sub(i)) > 0
  <2> DEFINE a == vs.split[i].weight
             b == vs.split[j].weight
  <2>1. a \in Nat /\ b \in Nat
    OBVIOUS
  <2>2. Share(entries, sub(i)) = a * P /\ Share(entries, sub(j)) = b * P
    BY <1>14, <1>15
  <2> HIDE DEF P, a, b
  <2>3. (a * P) * b = (b * P) * a /\ (a > 0 => a * P > 0)
    BY <1>13, <2>1, SMT
  <2> QED
    BY <2>2, <2>3 DEF a, b
<1> QED
  <2> HIDE DEF P, filled, n
  <2> QED
    BY <1>1, <1>15 DEF SharesFollow, In, sub

(* The step that completes the entries of a virtual service.               *)
LEMMA WeightsStep == Types /\ [PilotNext]_allVars =>
    (pc = "read" /\ pc' = "vs" /\ ~ ByURL(it.vs) =>
          LET entries == it'.result[it.vs.svc]
          IN  SameAndRunning(it.vs, it.counts, entries) /\ Fit(it.vs, it.counts, entries)
                => SharesFollow(it.vs, entries))
<1> SUFFICES ASSUME Types, [PilotNext]_allVars, pc = "read", pc' = "vs", ~ ByURL(it.vs),
                    SameAndRunning(it.vs, it.counts, it'.result[it.vs.svc]),
                    Fit(it.vs, it.counts, it'.result[it.vs.svc])
             PROVE  SharesFollow(it.vs, it'.result[it.vs.svc])
  OBVIOUS
<1>1. PICK ok \in BOOLEAN : ReadSubset(ok)
  <2>1. \A k, ok, r : Users(k, ok) \/ Work(r, k, ok) => pc' = pc
    BY DEF Users, Work, pilotVars
  <2>2. \A k, ok, nm : PodRuns(nm, k, ok) => pc' = pc
    BY DEF PodRuns, pilotVars
  <2>3. ~ Crash /\ ~ Restart /\ ~ UNCHANGED allVars
    BY DEF Crash, Restart, allVars, pilotVars
  <2>4. \A k, ok : Loop(k, ok) => ReadSubset(ok)
    BY DEF Loop, GetAllPods, GetAllServices, GetAllVirtualServices, GetAllRollingUpdates, CountSubset,
       TakeVirtualService, AddSidecarMapping
  <2> QED
    BY <2>1, <2>2, <2>3, <2>4 DEF PilotNext
<1> DEFINE vs == it.vs
           got == Append(it.got, NextSubset(it.got))
           entries == EntriesOf(vs, it.counts, got, it.pods)
<1>2. /\ vs \in VirtualService /\ it \in Locals /\ it.vs # None
      /\ it.counts \in Seq(Nat) /\ Len(it.counts) = Len(vs.split)
      /\ it.got \in Seq(SUBSET Names) /\ Len(it.got) < Len(vs.split) /\ Len(vs.split) \in Nat
      /\ \A i \in 1 .. Len(it.counts) : vs.split[i].weight # None
      /\ it.result \in [Svcs -> (SUBSET EntryType) \union {None}]
  <2>1. it \in Locals /\ Reading
    BY DEF Types, LoopTypes
  <2>2. vs \in VirtualService
    BY <2>1 DEF Locals, Reading
  <2>3. Len(vs.split) \in Nat
    BY <2>2, LenProperties DEF VirtualService
  <2> QED
    BY <2>1, <2>2, <2>3 DEF Locals, Reading
<1>3. /\ Len(got) = Len(vs.split) /\ NextSubset(it.got) # None
      /\ it' = [it EXCEPT !.vs = None, !.counts = <<>>, !.got = <<>>,
                          !.result = [@ EXCEPT ![it.vs.svc] = entries]]
  <2>1. CASE Len(got) < Len(vs.split)
    BY <1>1, <2>1 DEF ReadSubset, GetsSubset, Reads, Goes
  <2>2. CASE ~ (Len(got) < Len(vs.split))
    <3>1. /\ NextSubset(it.got) # None
          /\ it' = [it EXCEPT !.vs = None, !.counts = <<>>, !.got = <<>>,
                              !.result = [@ EXCEPT ![it.vs.svc] = entries]]
      BY <1>1, <2>2 DEF ReadSubset, GetsSubset, Reads, Goes
    <3>2. Len(got) = Len(it.got) + 1 /\ Len(it.got) \in Nat
      BY <1>2, LenProperties
    <3> QED
      BY <1>2, <2>2, <3>1, <3>2
  <2> QED
    BY <2>1, <2>2
<1>4. it'.result[it.vs.svc] = entries
  <2>1. vs.svc \in Svcs
    BY <1>2 DEF VirtualService
  <2> HIDE DEF entries
  <2> QED
    BY <1>2, <1>3, <2>1 DEF Locals
<1>5. got \in Seq(SUBSET Names)
  <2>1. NextSubset(it.got) \in SUBSET Names
    <3>1. Len(it.got) + 1 \in 1 .. Len(vs.split)
      BY <1>2, LenProperties
    <3>2. vs.split[Len(it.got) + 1] \in Weighing
      BY <1>2, <3>1 DEF VirtualService
    <3>3. vs.split[Len(it.got) + 1].subset \in SubNames
      BY <3>2 DEF Weighing
    <3> QED
      BY <1>3, <3>3 DEF NextSubset, Types, MeshTypes
  <2> QED
    BY <1>2, <2>1
<1>6. \A i \in 1 .. Len(vs.split) : vs.split[i].weight \in Nat
  <2>1. \A i \in 1 .. Len(vs.split) : vs.split[i] \in Weighing
    BY <1>2 DEF VirtualService
  <2> QED
    BY <1>2, <2>1 DEF Weighing
<1> HIDE DEF vs, got, entries
<1> QED
  BY <1>2, <1>3, <1>4, <1>5, <1>6, EntriesShared DEF vs, entries

(* calculate (pilot.go) and getDestinationWithWeight (envoy.go) together:  *)
(* of the draws Envoy makes, the subsets of a virtual service by weight    *)
(* get shares in the ratio of their weights, whatever their sizes and      *)
(* number, when the subsets were the same in both passes, none is listed   *)
(* twice, their pods run and no product or sum leaves the int32.           *)
THEOREM WeightsFollowed == PilotSpec => WeightsFollowSubsets
  BY TypesHold, WeightsStep, PTL DEF PilotSpec, WeightsFollowSubsets
=============================================================================
