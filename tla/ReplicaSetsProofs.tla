-------------------------- MODULE ReplicaSetsProofs --------------------------
(* Proofs about ReplicaSets: the records of replica sets and scalers and   *)
(* the state of the two loops are well typed; failures leave a bounded     *)
(* debris; the autoscaler stays within bounds; and syncReplicaSet never    *)
(* runs more pods than were asked for.  For any number of sets, scalers,   *)
(* pods, users' requests and failures.                                     *)
EXTENDS ReplicaSets, PodRegistryProofs, Integers

(* Max, Min (FiniteSetsExt) of two numbers are one of them.                *)
LEMMA OfTwo ==
    ASSUME NEW a \in Int, NEW b \in Int
    PROVE  /\ Min({a, b}) \in {a, b} /\ Min({a, b}) <= a /\ Min({a, b}) <= b
           /\ Max({a, b}) \in {a, b} /\ Max({a, b}) >= a /\ Max({a, b}) >= b
<1>1. \E x \in {a, b} : \A y \in {a, b} : x =< y
  OBVIOUS
<1>2. \E x \in {a, b} : \A y \in {a, b} : x >= y
  OBVIOUS
<1>3. Min({a, b}) \in {a, b} /\ \A y \in {a, b} : Min({a, b}) =< y
  BY <1>1 DEF Min
<1>4. Max({a, b}) \in {a, b} /\ \A y \in {a, b} : Max({a, b}) >= y
  BY <1>2 DEF Max
<1> QED
  BY <1>3, <1>4

(* A finite set of numbers has a largest one, and Max is it.               *)
LEMMA MaxIsLargest ==
    ASSUME NEW S, IsFiniteSet(S), S \subseteq Nat, S # {}
    PROVE  Max(S) \in S /\ \A y \in S : y <= Max(S)
<1> DEFINE Topped(T) == \E x \in T : \A y \in T : x >= y
           Bad == {n \in Nat : \E T \in SUBSET S : T # {} /\ ~Topped(T) /\ Cardinality(T) = n}
<1>1. ASSUME NEW T \in SUBSET S, T # {}, ~Topped(T) PROVE FALSE
  <2>1. IsFiniteSet(T) /\ Cardinality(T) \in Nat
    BY FS_Subset, FS_CardinalityType
  <2>2. Bad \subseteq Nat /\ Bad # {}
    BY <1>1, <2>1
  <2>3. PICK n \in Bad : \A m \in Bad : n <= m
    <3> HIDE DEF Bad
    <3> QED
      BY <2>2, LeastExists
  <2>4. PICK U \in SUBSET S : U # {} /\ ~Topped(U) /\ Cardinality(U) = n
    BY <2>3
  <2>5. PICK x \in U : TRUE
    BY <2>4
  <2>6. /\ IsFiniteSet(U) /\ Cardinality(U) \in Nat
        /\ Cardinality(U \ {x}) = Cardinality(U) - 1
    BY FS_Subset, FS_CardinalityType, FS_RemoveElement
  <2>7. U \ {x} # {}
    <3> SUFFICES ASSUME U = {x} PROVE FALSE
      OBVIOUS
    <3> QED
      BY <2>4, <2>5
  <2>8. Topped(U \ {x})
    <3> SUFFICES ASSUME ~Topped(U \ {x}) PROVE FALSE
      OBVIOUS
    <3>1. Cardinality(U \ {x}) \in Bad
      BY <2>6, <2>7, FS_CardinalityType, FS_Subset
    <3> HIDE DEF Bad
    <3>2. n <= Cardinality(U \ {x})
      BY <2>3, <3>1
    <3> QED
      BY <2>4, <2>6, <3>2
  <2>9. PICK z \in U \ {x} : \A y \in U \ {x} : z >= y
    BY <2>8
  <2>10. x \in Nat /\ z \in Nat /\ \A y \in U : y \in Nat
    OBVIOUS
  <2> QED
    BY <2>4, <2>9, <2>10
<1>2. Topped(S)
  BY <1>1
<1>3. Max(S) \in S /\ \A y \in S : Max(S) >= y
  BY <1>2 DEF Max
<1> QED
  BY <1>3

-----------------------------------------------------------------------------
(* Records kept in two halves: a name key that holds a uid, and the record *)
(* under the uid.  Replica sets and scalers are stored alike, and so are   *)
(* the three ways in which a handler changes them.                         *)

Loose(key, rec) == {u \in DOMAIN rec : rec[u] # None /\ key[rec[u].name] # u}
Empty(key, rec) == {nm \in DOMAIN key : key[nm] # None /\ rec[key[nm]] = None}

(* What is not drawn yet is nowhere; a name key leads to a record of its   *)
(* name, if to any, and to no other's.                                     *)
Sound(key, rec, taken) ==
    /\ \A u \in DOMAIN rec : u \notin taken =>
          rec[u] = None /\ \A nm \in DOMAIN key : key[nm] # u
    /\ \A nm \in DOMAIN key : key[nm] # None =>
          /\ rec[key[nm]] # None => rec[key[nm]].name = nm
          /\ \A other \in DOMAIN key : key[other] = key[nm] => other = nm

Kept(N, U, R, key, rec, taken) ==
    /\ None \notin U /\ \A r \in R : r # None /\ r.name \in N
    /\ key \in [N -> U \union {None}] /\ rec \in [U -> R \union {None}]
    /\ Sound(key, rec, taken)

(* A write that happens if the handler gets there.                         *)
Put(f, x, y, reached) == IF reached THEN [f EXCEPT ![x] = y] ELSE f

(* AddReplicaSetHandler, AddScalingHandler: the key, then the record.      *)
LEMMA PutNew ==
    ASSUME NEW N, NEW U, NEW R, NEW key, NEW rec, NEW taken, Kept(N, U, R, key, rec, taken),
           NEW nm \in N, NEW u \in U, u \notin taken, NEW v \in R, v.name = nm,
           NEW c1 \in BOOLEAN, NEW c2 \in BOOLEAN, c2 => c1
    PROVE  LET key2 == Put(key, nm, u, c1)
               rec2 == Put(rec, u, v, c2)
           IN  /\ Kept(N, U, R, key2, rec2, taken \union {u})
               /\ Loose(key2, rec2) \subseteq Loose(key, rec) \union {key[nm]}
               /\ ~c1 \/ key[nm] = None => Loose(key2, rec2) \subseteq Loose(key, rec)
               /\ Empty(key2, rec2) \subseteq Empty(key, rec) \union {nm}
               /\ ~c1 \/ c2 => Empty(key2, rec2) \subseteq Empty(key, rec)
<1> DEFINE key2 == Put(key, nm, u, c1)
           rec2 == Put(rec, u, v, c2)
<1>0. /\ None \notin U /\ \A r \in R : r # None /\ r.name \in N
      /\ key \in [N -> U \union {None}] /\ rec \in [U -> R \union {None}]
      /\ Sound(key, rec, taken)
  BY DEF Kept
<1>1. key2 \in [N -> U \union {None}] /\ rec2 \in [U -> R \union {None}]
  BY <1>0 DEF Put
<1>2. /\ \A a \in N : key2[a] = IF a = nm /\ c1 THEN u ELSE key[a]
      /\ \A w \in U : rec2[w] = IF w = u /\ c2 THEN v ELSE rec[w]
  BY <1>0 DEF Put
<1> HIDE DEF key2, rec2
<1>3. rec[u] = None /\ \A a \in N : key[a] # u
  BY <1>0 DEF Sound
<1>4. Sound(key2, rec2, taken \union {u})
  <2>1. ASSUME NEW w \in U, w \notin taken \union {u}
        PROVE  rec2[w] = None /\ \A a \in N : key2[a] # w
    BY <1>0, <1>2, <2>1 DEF Sound
  <2>2. ASSUME NEW a \in N, key2[a] # None
        PROVE  /\ rec2[key2[a]] # None => rec2[key2[a]].name = a
               /\ \A b \in N : key2[b] = key2[a] => b = a
    BY <1>0, <1>2, <1>3, <2>2 DEF Sound
  <2> QED
    BY <1>1, <2>1, <2>2 DEF Sound
<1>5. ASSUME NEW w \in Loose(key2, rec2)
      PROVE  /\ w \in Loose(key, rec) \/ (c1 /\ w = key[nm])
  <2>1. w \in U /\ rec2[w] # None /\ key2[rec2[w].name] # w
    BY <1>1 DEF Loose
  <2>2. CASE w = u
    BY <1>0, <1>2, <1>3, <2>1, <2>2
  <2>3. CASE w # u
    <3>1. rec2[w] = rec[w] /\ rec[w] # None /\ rec[w].name \in N
      BY <1>0, <1>2, <2>1, <2>3
    <3> QED
      BY <1>0, <1>2, <2>1, <3>1 DEF Loose
  <2> QED
    BY <2>2, <2>3
<1>6. None \notin Loose(key2, rec2)
  BY <1>0, <1>1 DEF Loose
<1>7. ASSUME NEW a \in Empty(key2, rec2)
      PROVE  a \in Empty(key, rec) \/ (c1 /\ ~c2 /\ a = nm)
  <2>1. a \in N /\ key2[a] # None /\ rec2[key2[a]] = None
    BY <1>1 DEF Empty
  <2>2. CASE a = nm /\ c1
    BY <1>0, <1>2, <2>1, <2>2
  <2>3. CASE ~(a = nm /\ c1)
    BY <1>0, <1>2, <1>3, <2>1, <2>3 DEF Empty
  <2> QED
    BY <2>2, <2>3
<1>8. Kept(N, U, R, key2, rec2, taken \union {u})
  BY <1>0, <1>1, <1>4 DEF Kept
<1>9. /\ Loose(key2, rec2) \subseteq Loose(key, rec) \union {key[nm]}
      /\ ~c1 \/ key[nm] = None => Loose(key2, rec2) \subseteq Loose(key, rec)
  BY <1>5, <1>6, Zenon
<1>10. /\ Empty(key2, rec2) \subseteq Empty(key, rec) \union {nm}
       /\ ~c1 \/ c2 => Empty(key2, rec2) \subseteq Empty(key, rec)
  BY <1>7, Zenon
<1> QED
  BY <1>8, <1>9, <1>10, Zenon DEF key2, rec2

(* UpdateReplicaSetHandler: the record again, under its name.              *)
LEMMA PutAgain ==
    ASSUME NEW N, NEW U, NEW R, NEW key, NEW rec, NEW taken, Kept(N, U, R, key, rec, taken),
           NEW u \in U, rec[u] # None, NEW v \in R, v.name = rec[u].name, NEW c \in BOOLEAN
    PROVE  LET rec2 == Put(rec, u, v, c)
           IN  /\ Kept(N, U, R, key, rec2, taken)
               /\ Loose(key, rec2) = Loose(key, rec)
               /\ Empty(key, rec2) = Empty(key, rec)
<1> DEFINE rec2 == Put(rec, u, v, c)
<1>0. /\ None \notin U /\ \A r \in R : r # None /\ r.name \in N
      /\ key \in [N -> U \union {None}] /\ rec \in [U -> R \union {None}]
      /\ Sound(key, rec, taken)
  BY DEF Kept
<1>1. rec2 \in [U -> R \union {None}]
  BY <1>0 DEF Put
<1>2. \A w \in U : rec2[w] = IF w = u /\ c THEN v ELSE rec[w]
  BY <1>0 DEF Put
<1> HIDE DEF rec2
<1>3. Sound(key, rec2, taken)
  <2>1. ASSUME NEW w \in U, w \notin taken
        PROVE  rec2[w] = None /\ \A a \in N : key[a] # w
    BY <1>0, <1>2, <2>1 DEF Sound
  <2>2. ASSUME NEW a \in N, key[a] # None
        PROVE  /\ rec2[key[a]] # None => rec2[key[a]].name = a
               /\ \A b \in N : key[b] = key[a] => b = a
    BY <1>0, <1>2, <2>2 DEF Sound
  <2> QED
    BY <1>0, <1>1, <2>1, <2>2 DEF Sound
<1>4. Loose(key, rec2) = Loose(key, rec)
  BY <1>0, <1>1, <1>2 DEF Loose
<1>5. Empty(key, rec2) = Empty(key, rec)
  BY <1>0, <1>1, <1>2 DEF Empty
<1>6. Kept(N, U, R, key, rec2, taken)
  BY <1>0, <1>1, <1>3 DEF Kept
<1> QED
  BY <1>4, <1>5, <1>6 DEF rec2

(* DeleteReplicaSetHandler, DeleteScalingHandler: the key, the record, or  *)
(* both.                                                                   *)
LEMMA TakeAway ==
    ASSUME NEW N, NEW U, NEW R, NEW key, NEW rec, NEW taken, Kept(N, U, R, key, rec, taken),
           NEW nm \in N, key[nm] # None, NEW c1 \in BOOLEAN, NEW c2 \in BOOLEAN
    PROVE  LET key2 == Put(key, nm, None, c1)
               rec2 == Put(rec, key[nm], None, c2)
           IN  /\ Kept(N, U, R, key2, rec2, taken)
               /\ Loose(key2, rec2) \subseteq Loose(key, rec) \union {key[nm]}
               /\ ~c1 \/ c2 \/ rec[key[nm]] = None => Loose(key2, rec2) \subseteq Loose(key, rec)
               /\ Empty(key2, rec2) \subseteq Empty(key, rec) \union {nm}
               /\ c1 \/ ~c2 => Empty(key2, rec2) \subseteq Empty(key, rec)
<1> DEFINE key2 == Put(key, nm, None, c1)
           rec2 == Put(rec, key[nm], None, c2)
<1>0. /\ None \notin U /\ \A r \in R : r # None /\ r.name \in N
      /\ key \in [N -> U \union {None}] /\ rec \in [U -> R \union {None}]
      /\ Sound(key, rec, taken)
  BY DEF Kept
<1> DEFINE u == key[nm]
<1>1. key2 \in [N -> U \union {None}] /\ rec2 \in [U -> R \union {None}]
  BY <1>0 DEF Put
<1>2. /\ \A a \in N : key2[a] = IF a = nm /\ c1 THEN None ELSE key[a]
      /\ \A w \in U : rec2[w] = IF w = u /\ c2 THEN None ELSE rec[w]
      /\ u \in U
  BY <1>0 DEF Put
<1>3. \A a \in N : key[a] = u => a = nm
  BY <1>0 DEF Sound
<1> HIDE DEF u, key2, rec2
<1>4. Sound(key2, rec2, taken)
  <2>1. ASSUME NEW w \in U, w \notin taken
        PROVE  rec2[w] = None /\ \A a \in N : key2[a] # w
    BY <1>0, <1>2, <2>1 DEF Sound
  <2>2. ASSUME NEW a \in N, key2[a] # None
        PROVE  /\ rec2[key2[a]] # None => rec2[key2[a]].name = a
               /\ \A b \in N : key2[b] = key2[a] => b = a
    BY <1>0, <1>2, <2>2 DEF Sound
  <2> QED
    BY <1>0, <1>1, <2>1, <2>2 DEF Sound
<1>5. ASSUME NEW w \in Loose(key2, rec2)
      PROVE  \/ w \in Loose(key, rec)
             \/ w = u /\ c1 /\ ~c2 /\ rec[u] # None
  <2>1. w \in U /\ rec2[w] # None /\ key2[rec2[w].name] # w
    BY <1>1 DEF Loose
  <2>2. rec[w] = rec2[w] /\ rec[w].name \in N /\ ~(w = u /\ c2)
    BY <1>0, <1>2, <2>1
  <2>3. CASE key[rec[w].name] # w
    BY <1>0, <2>1, <2>2, <2>3 DEF Loose
  <2>4. CASE key[rec[w].name] = w
    BY <1>0, <1>2, <2>1, <2>2, <2>4 DEF u
  <2> QED
    BY <2>3, <2>4
<1>6. ASSUME NEW a \in Empty(key2, rec2)
      PROVE  a \in Empty(key, rec) \/ (a = nm /\ ~c1 /\ c2)
  <2>1. a \in N /\ key2[a] # None /\ rec2[key2[a]] = None
    BY <1>1 DEF Empty
  <2>2. key2[a] = key[a] /\ ~(a = nm /\ c1)
    BY <1>0, <1>2, <2>1
  <2> QED
    BY <1>0, <1>2, <1>3, <2>1, <2>2 DEF Empty
<1>7. Kept(N, U, R, key2, rec2, taken)
  BY <1>0, <1>1, <1>4 DEF Kept
<1>8. /\ Loose(key2, rec2) \subseteq Loose(key, rec) \union {key[nm]}
      /\ ~c1 \/ c2 \/ rec[key[nm]] = None => Loose(key2, rec2) \subseteq Loose(key, rec)
  BY <1>5, Zenon DEF u
<1>9. /\ Empty(key2, rec2) \subseteq Empty(key, rec) \union {nm}
      /\ c1 \/ ~c2 => Empty(key2, rec2) \subseteq Empty(key, rec)
  BY <1>6, Zenon
<1> QED
  BY <1>7, <1>8, <1>9, Zenon DEF key2, rec2

-----------------------------------------------------------------------------
(* The handlers of replica sets and scalers.                               *)

RsRecords ==
    /\ Kept(RsNames, RsUids, ReplicaSet, rsKey, replicaSets, drawn)
    /\ Kept(HpaNames, HpaUids, Hpa, hpaKey, hpas, drawn)
    /\ drawn \subseteq RsUids \union HpaUids

(* What a step adds to the debris, and what failures pay for it.           *)
DebrisShrinks ==
    /\ OrphanSets' \subseteq OrphanSets /\ DanglingSets' \subseteq DanglingSets
    /\ OrphanHpas' \subseteq OrphanHpas /\ DanglingHpas' \subseteq DanglingHpas

DebrisGrows(x) ==
    \/ /\ OrphanSets' \subseteq OrphanSets \union {x} /\ DanglingSets' \subseteq DanglingSets
       /\ OrphanHpas' \subseteq OrphanHpas /\ DanglingHpas' \subseteq DanglingHpas
    \/ /\ OrphanSets' \subseteq OrphanSets /\ DanglingSets' \subseteq DanglingSets \union {x}
       /\ OrphanHpas' \subseteq OrphanHpas /\ DanglingHpas' \subseteq DanglingHpas
    \/ /\ OrphanSets' \subseteq OrphanSets /\ DanglingSets' \subseteq DanglingSets
       /\ OrphanHpas' \subseteq OrphanHpas \union {x} /\ DanglingHpas' \subseteq DanglingHpas
    \/ /\ OrphanSets' \subseteq OrphanSets /\ DanglingSets' \subseteq DanglingSets
       /\ OrphanHpas' \subseteq OrphanHpas /\ DanglingHpas' \subseteq DanglingHpas \union {x}

DebrisGrowsByTwo(x, y) ==
    /\ OrphanSets' \subseteq OrphanSets /\ DanglingSets' \subseteq DanglingSets
    /\ OrphanHpas' \subseteq OrphanHpas \union {x} /\ DanglingHpas' \subseteq DanglingHpas \union {y}

DebrisPaid ==
    \/ faults' >= faults /\ DebrisShrinks
    \/ faults' >= faults + 1 /\ \E x : DebrisGrows(x)
    \/ faults' >= faults + 2 /\ \E x, y : DebrisGrowsByTwo(x, y)

(* Where the stored sets of the next state come from.                      *)
FromSpec(spec, r) ==
    r.selector = spec.selector /\ r.template = spec.template /\ r.replicas = spec.replicas

SetsFrom ==
    \A u \in RsUids : replicaSets'[u] # None =>
        \/ replicaSets'[u] = replicaSets[u]
        \/ replicaSets[u] = None /\ \E spec \in RsSpecs : FromSpec(spec, replicaSets'[u])

(* A step of a handler of replica sets or scalers, to everything else: the *)
(* failures it counts.                                                     *)
RecordStep ==
    /\ UNCHANGED registry
    /\ faults' \in 0 .. MaxFaults /\ faults' >= faults
    /\ RsRecords'
    /\ DebrisPaid

LEMMA DebrisOfHalves ==
    RsRecords =>
        /\ OrphanSets = Loose(rsKey, replicaSets) /\ DanglingSets = Empty(rsKey, replicaSets)
        /\ OrphanHpas = Loose(hpaKey, hpas) /\ DanglingHpas = Empty(hpaKey, hpas)
  BY DEF RsRecords, Kept, Loose, Empty, OrphanSets, DanglingSets, OrphanHpas, DanglingHpas

LEMMA DebrisOfHalvesNext ==
    RsRecords' =>
        /\ OrphanSets' = Loose(rsKey', replicaSets') /\ DanglingSets' = Empty(rsKey', replicaSets')
        /\ OrphanHpas' = Loose(hpaKey', hpas') /\ DanglingHpas' = Empty(hpaKey', hpas')
  BY DEF RsRecords, Kept, Loose, Empty, OrphanSets, DanglingSets, OrphanHpas, DanglingHpas

(* The other kind of records is not touched, and a uid drawn is none of    *)
(* theirs to draw again.                                                   *)
LEMMA DrawnMore ==
    ASSUME NEW N, NEW U, NEW R, NEW key, NEW rec, NEW taken, NEW more,
           Kept(N, U, R, key, rec, taken), taken \subseteq more
    PROVE  Kept(N, U, R, key, rec, more)
  BY DEF Kept, Sound

LEMMA EndsCost ==
    ASSUME NEW ok, NEW k, NEW total, Ends(ok, k, total), faults \in 0 .. MaxFaults
    PROVE  /\ faults' \in 0 .. MaxFaults /\ faults' >= faults
           /\ k = total \/ faults' >= faults + 1
  BY FaultAssumption DEF Ends

LEMMA AddReplicaSetStep ==
    ASSUME RsRecords, faults \in 0 .. MaxFaults,
           NEW nm \in RsNames, NEW spec \in RsSpecs, NEW u \in RsUids,
           NEW k \in 0 .. 2, NEW ok \in BOOLEAN, AddReplicaSet(nm, spec, u, k, ok)
    PROVE  RecordStep /\ SetsFrom
<1> DEFINE v == [name |-> nm, selector |-> spec.selector, template |-> spec.template,
                 replicas |-> spec.replicas]
           c1 == k >= 1
           c2 == k >= 2
<1>1. v \in ReplicaSet /\ v.name = nm /\ FromSpec(spec, v)
  BY RsAssumption DEF ReplicaSet, FromSpec
<1>2. /\ rsKey' = Put(rsKey, nm, u, c1) /\ replicaSets' = Put(replicaSets, u, v, c2)
      /\ rsKey[nm] = None /\ u \notin drawn /\ drawn' = drawn \union {u}
      /\ UNCHANGED registry /\ hpaKey' = hpaKey /\ hpas' = hpas
      /\ Ends(ok, k, 2)
  BY DEF AddReplicaSet, RsNameFree, Put
<1>3. /\ faults' \in 0 .. MaxFaults /\ faults' >= faults
      /\ k = 2 \/ faults' >= faults + 1
  BY <1>2, EndsCost
<1>4. c1 \in BOOLEAN /\ c2 \in BOOLEAN /\ (c2 => c1) /\ (k = 2 => c2)
  OBVIOUS
<1>5. Kept(RsNames, RsUids, ReplicaSet, rsKey, replicaSets, drawn)
  BY DEF RsRecords
<1> HIDE DEF v, c1, c2
<1>6. /\ Kept(RsNames, RsUids, ReplicaSet, rsKey', replicaSets', drawn')
      /\ rsKey[nm] = None => Loose(rsKey', replicaSets') \subseteq Loose(rsKey, replicaSets)
      /\ Empty(rsKey', replicaSets') \subseteq Empty(rsKey, replicaSets) \union {nm}
      /\ c2 => Empty(rsKey', replicaSets') \subseteq Empty(rsKey, replicaSets)
  BY <1>1, <1>2, <1>4, <1>5, PutNew
<1>7. RsRecords'
  BY <1>2, <1>6, DrawnMore DEF RsRecords
<1>8. /\ OrphanHpas' = OrphanHpas /\ DanglingHpas' = DanglingHpas
  BY <1>2 DEF OrphanHpas, DanglingHpas
<1>9. DebrisPaid
  BY <1>2, <1>3, <1>4, <1>6, <1>7, <1>8, DebrisOfHalves, DebrisOfHalvesNext
     DEF DebrisPaid, DebrisShrinks, DebrisGrows
<1>10. SetsFrom
  <2>1. replicaSets \in [RsUids -> ReplicaSet \union {None}] /\ replicaSets[u] = None
    BY <1>2, <1>5 DEF Kept, Sound
  <2>2. \A w \in RsUids : replicaSets'[w] = IF w = u /\ c2 THEN v ELSE replicaSets[w]
    BY <1>2, <2>1 DEF Put
  <2> QED
    BY <1>1, <2>1, <2>2 DEF SetsFrom
<1> QED
  BY <1>2, <1>3, <1>7, <1>9, <1>10 DEF RecordStep

LEMMA UpdateReplicaSetStep ==
    ASSUME RsRecords, faults \in 0 .. MaxFaults,
           NEW nm \in RsNames, NEW n \in Nat,
           NEW k \in 0 .. 2, NEW ok \in BOOLEAN, UpdateReplicaSet(nm, n, k, ok)
    PROVE  /\ RecordStep
           /\ \A u \in RsUids : replicaSets'[u] # None =>
                 \/ replicaSets'[u] = replicaSets[u]
                 \/ /\ replicaSets[u] # None /\ replicaSets[u].name = nm
                    /\ replicaSets'[u] = [replicaSets[u] EXCEPT !.replicas = n]
<1> DEFINE u == rsKey[nm]
           v == [replicaSets[u] EXCEPT !.replicas = n]
           c == k >= 1
<1>1. Kept(RsNames, RsUids, ReplicaSet, rsKey, replicaSets, drawn)
  BY DEF RsRecords
<1>2. /\ u \in RsUids /\ replicaSets[u] # None /\ replicaSets[u].name = nm
      /\ replicaSets \in [RsUids -> ReplicaSet \union {None}]
  BY <1>1 DEF UpdateReplicaSet, Kept, Sound
<1>3. /\ replicaSets' = Put(replicaSets, u, v, c)
      /\ rsKey' = rsKey /\ drawn' = drawn
      /\ UNCHANGED registry /\ hpaKey' = hpaKey /\ hpas' = hpas
      /\ Ends(ok, k, 1)
  BY <1>2 DEF UpdateReplicaSet, Put
<1>4. v \in ReplicaSet /\ v.name = replicaSets[u].name
  <2>1. replicaSets[u] \in ReplicaSet
    BY <1>2
  <2>2. v = [name |-> replicaSets[u].name, selector |-> replicaSets[u].selector,
             template |-> replicaSets[u].template, replicas |-> n]
    BY <2>1 DEF ReplicaSet
  <2> QED
    BY <2>1, <2>2 DEF ReplicaSet
<1>5. /\ faults' \in 0 .. MaxFaults /\ faults' >= faults /\ c \in BOOLEAN
  BY <1>3, EndsCost
<1>6. \A w \in RsUids : replicaSets'[w] = IF w = u /\ c THEN v ELSE replicaSets[w]
  BY <1>2, <1>3 DEF Put
<1>7. \A w \in RsUids : replicaSets'[w] # None =>
         \/ replicaSets'[w] = replicaSets[w]
         \/ /\ replicaSets[w] # None /\ replicaSets[w].name = nm
            /\ replicaSets'[w] = [replicaSets[w] EXCEPT !.replicas = n]
  BY <1>2, <1>6
<1> HIDE DEF u, v, c
<1>8. /\ Kept(RsNames, RsUids, ReplicaSet, rsKey, replicaSets', drawn)
      /\ Loose(rsKey, replicaSets') = Loose(rsKey, replicaSets)
      /\ Empty(rsKey, replicaSets') = Empty(rsKey, replicaSets)
  BY <1>1, <1>2, <1>3, <1>4, <1>5, PutAgain
<1>9. RsRecords'
  BY <1>3, <1>8 DEF RsRecords
<1>10. DebrisShrinks
  <2>1. /\ OrphanHpas' = OrphanHpas /\ DanglingHpas' = DanglingHpas
    BY <1>3 DEF OrphanHpas, DanglingHpas
  <2> QED
    BY <1>3, <1>8, <1>9, <2>1, DebrisOfHalves, DebrisOfHalvesNext DEF DebrisShrinks
<1> QED
  BY <1>3, <1>5, <1>7, <1>9, <1>10 DEF RecordStep, DebrisPaid

LEMMA DeleteReplicaSetStep ==
    ASSUME RsRecords, faults \in 0 .. MaxFaults,
           NEW nm \in RsNames, NEW k \in 0 .. 2, NEW ok \in BOOLEAN, DeleteReplicaSet(nm, k, ok)
    PROVE  RecordStep /\ SetsFrom
<1> DEFINE c1 == k >= 1
           c2 == k >= 2
<1>1. Kept(RsNames, RsUids, ReplicaSet, rsKey, replicaSets, drawn)
  BY DEF RsRecords
<1>2. /\ rsKey' = Put(rsKey, nm, None, c1) /\ replicaSets' = Put(replicaSets, rsKey[nm], None, c2)
      /\ rsKey[nm] # None /\ drawn' = drawn
      /\ UNCHANGED registry /\ hpaKey' = hpaKey /\ hpas' = hpas
      /\ Ends(ok, k, 2)
  BY DEF DeleteReplicaSet, Put
<1>3. /\ faults' \in 0 .. MaxFaults /\ faults' >= faults
      /\ k = 2 \/ faults' >= faults + 1
  BY <1>2, EndsCost
<1>4. c1 \in BOOLEAN /\ c2 \in BOOLEAN /\ (c2 => c1) /\ (k = 2 => c2)
  OBVIOUS
<1> HIDE DEF c1, c2
<1>5. /\ Kept(RsNames, RsUids, ReplicaSet, rsKey', replicaSets', drawn)
      /\ Loose(rsKey', replicaSets') \subseteq Loose(rsKey, replicaSets) \union {rsKey[nm]}
      /\ ~c1 \/ c2 \/ replicaSets[rsKey[nm]] = None
            => Loose(rsKey', replicaSets') \subseteq Loose(rsKey, replicaSets)
      /\ c1 \/ ~c2 => Empty(rsKey', replicaSets') \subseteq Empty(rsKey, replicaSets)
  BY <1>1, <1>2, <1>4, TakeAway
<1>6. RsRecords'
  BY <1>2, <1>5 DEF RsRecords
<1>7. /\ OrphanHpas' = OrphanHpas /\ DanglingHpas' = DanglingHpas
  BY <1>2 DEF OrphanHpas, DanglingHpas
<1>8. DebrisPaid
  BY <1>3, <1>4, <1>5, <1>6, <1>7, DebrisOfHalves, DebrisOfHalvesNext
     DEF DebrisPaid, DebrisShrinks, DebrisGrows
<1>9. SetsFrom
  <2>1. replicaSets \in [RsUids -> ReplicaSet \union {None}]
    BY <1>1 DEF Kept
  <2>2. \A w \in RsUids : replicaSets'[w] = None \/ replicaSets'[w] = replicaSets[w]
    BY <1>2, <2>1 DEF Put
  <2> QED
    BY <2>2 DEF SetsFrom
<1> QED
  BY <1>2, <1>3, <1>6, <1>8, <1>9 DEF RecordStep

LEMMA AddScalingStep ==
    ASSUME RsRecords, faults \in 0 .. MaxFaults,
           NEW nm \in HpaNames, NEW spec \in HpaSpecs, NEW u \in HpaUids,
           NEW k \in 0 .. 2, NEW ok \in BOOLEAN, AddScaling(nm, spec, u, k, ok)
    PROVE  RecordStep /\ UNCHANGED replicaSets
<1> DEFINE v == [name |-> nm, spec |-> spec]
           c1 == k >= 1
           c2 == k >= 2
<1>1. v \in Hpa /\ v.name = nm
  BY DEF Hpa
<1>2. /\ hpaKey' = Put(hpaKey, nm, u, c1) /\ hpas' = Put(hpas, u, v, c2)
      /\ u \notin drawn /\ drawn' = drawn \union {u}
      /\ UNCHANGED registry /\ rsKey' = rsKey /\ replicaSets' = replicaSets
  BY DEF AddScaling, Put
<1>3. /\ faults' \in 0 .. MaxFaults /\ faults' >= faults
      /\ \/ hpaKey[nm] = None /\ (k = 2 \/ faults' >= faults + 1)
         \/ faults' >= faults + 1 /\ (k = 2 \/ faults' >= faults + 2)
  <2>1. CASE hpaKey[nm] = None /\ Ends(ok, k, 2)
    BY <2>1, EndsCost
  <2>2. CASE ReadErrors /\ (ok <=> k = 2) /\ faults' = (faults + IF ok THEN 1 ELSE 2)
               /\ faults' <= MaxFaults
    BY <2>2, FaultAssumption
  <2> QED
    BY <2>1, <2>2 DEF AddScaling
<1>4. c1 \in BOOLEAN /\ c2 \in BOOLEAN /\ (c2 => c1) /\ (k = 2 => c2)
  OBVIOUS
<1>5. Kept(HpaNames, HpaUids, Hpa, hpaKey, hpas, drawn)
  BY DEF RsRecords
<1> HIDE DEF v, c1, c2
<1>6. /\ Kept(HpaNames, HpaUids, Hpa, hpaKey', hpas', drawn')
      /\ Loose(hpaKey', hpas') \subseteq Loose(hpaKey, hpas) \union {hpaKey[nm]}
      /\ hpaKey[nm] = None => Loose(hpaKey', hpas') \subseteq Loose(hpaKey, hpas)
      /\ Empty(hpaKey', hpas') \subseteq Empty(hpaKey, hpas) \union {nm}
      /\ c2 => Empty(hpaKey', hpas') \subseteq Empty(hpaKey, hpas)
  BY <1>1, <1>2, <1>4, <1>5, PutNew
<1>7. RsRecords'
  BY <1>2, <1>6, DrawnMore DEF RsRecords
<1>8. /\ OrphanSets' = OrphanSets /\ DanglingSets' = DanglingSets
  BY <1>2 DEF OrphanSets, DanglingSets
<1>9. /\ OrphanHpas' \subseteq OrphanHpas \union {hpaKey[nm]}
      /\ hpaKey[nm] = None => OrphanHpas' \subseteq OrphanHpas
      /\ DanglingHpas' \subseteq DanglingHpas \union {nm}
      /\ k = 2 => DanglingHpas' \subseteq DanglingHpas
  BY <1>4, <1>6, <1>7, DebrisOfHalves, DebrisOfHalvesNext
<1>10. DebrisPaid
  <2>1. CASE hpaKey[nm] = None /\ (k = 2 \/ faults' >= faults + 1)
    BY <1>3, <1>8, <1>9, <2>1 DEF DebrisPaid, DebrisShrinks, DebrisGrows
  <2>2. CASE faults' >= faults + 1 /\ k = 2
    BY <1>8, <1>9, <2>2 DEF DebrisPaid, DebrisGrows
  <2>3. CASE faults' >= faults + 2
    BY <1>8, <1>9, <2>3 DEF DebrisPaid, DebrisGrowsByTwo
  <2> QED
    BY <1>3, <2>1, <2>2, <2>3
<1> QED
  BY <1>2, <1>3, <1>7, <1>10 DEF RecordStep

LEMMA DeleteScalingStep ==
    ASSUME RsRecords, faults \in 0 .. MaxFaults,
           NEW nm \in HpaNames, NEW k \in 0 .. 2, NEW ok \in BOOLEAN, DeleteScaling(nm, k, ok)
    PROVE  RecordStep /\ UNCHANGED replicaSets
<1>1. Kept(HpaNames, HpaUids, Hpa, hpaKey, hpas, drawn)
  BY DEF RsRecords
<1>2. PICK c1 \in BOOLEAN, c2 \in BOOLEAN :
         /\ hpaKey' = Put(hpaKey, nm, None, c1) /\ hpas' = Put(hpas, hpaKey[nm], None, c2)
         /\ faults' \in 0 .. MaxFaults /\ faults' >= faults
         /\ \/ c1 /\ (c2 \/ hpas[hpaKey[nm]] = None)
            \/ faults' >= faults + 1
  <2>1. CASE /\ Ends(ok, k, IF hpas[hpaKey[nm]] = None THEN 1 ELSE 2)
             /\ hpaKey' = IF k >= 1 THEN [hpaKey EXCEPT ![nm] = None] ELSE hpaKey
             /\ hpas' = IF k >= 2 THEN [hpas EXCEPT ![hpaKey[nm]] = None] ELSE hpas
    <3> DEFINE d1 == k >= 1
               d2 == k >= 2
    <3>1. /\ faults' \in 0 .. MaxFaults /\ faults' >= faults
          /\ k = (IF hpas[hpaKey[nm]] = None THEN 1 ELSE 2) \/ faults' >= faults + 1
      BY <2>1, EndsCost
    <3>2. /\ d1 \in BOOLEAN /\ d2 \in BOOLEAN
          /\ hpaKey' = Put(hpaKey, nm, None, d1) /\ hpas' = Put(hpas, hpaKey[nm], None, d2)
      BY <2>1 DEF Put
    <3>3. (d1 /\ (d2 \/ hpas[hpaKey[nm]] = None)) \/ faults' >= faults + 1
      BY <3>1
    <3> HIDE DEF d1, d2
    <3> QED
      BY <3>1, <3>2, <3>3
  <2>2. CASE /\ faults < MaxFaults /\ faults' = faults + 1
             /\ hpas' = [hpas EXCEPT ![hpaKey[nm]] = None]
             /\ UNCHANGED hpaKey
    <3>1. /\ hpaKey' = Put(hpaKey, nm, None, FALSE)
          /\ hpas' = Put(hpas, hpaKey[nm], None, TRUE)
      BY <2>2 DEF Put
    <3>2. faults' \in 0 .. MaxFaults /\ faults' >= faults /\ faults' >= faults + 1
      BY <2>2, FaultAssumption
    <3> QED
      BY <3>1, <3>2
  <2> QED
    BY <2>1, <2>2 DEF DeleteScaling
<1>3. /\ hpaKey[nm] # None /\ drawn' = drawn
      /\ UNCHANGED registry /\ rsKey' = rsKey /\ replicaSets' = replicaSets
  BY DEF DeleteScaling
<1>4. /\ Kept(HpaNames, HpaUids, Hpa, hpaKey', hpas', drawn)
      /\ Loose(hpaKey', hpas') \subseteq Loose(hpaKey, hpas) \union {hpaKey[nm]}
      /\ ~c1 \/ c2 \/ hpas[hpaKey[nm]] = None
            => Loose(hpaKey', hpas') \subseteq Loose(hpaKey, hpas)
      /\ Empty(hpaKey', hpas') \subseteq Empty(hpaKey, hpas) \union {nm}
      /\ c1 \/ ~c2 => Empty(hpaKey', hpas') \subseteq Empty(hpaKey, hpas)
  BY <1>1, <1>2, <1>3, TakeAway
<1>5. RsRecords'
  BY <1>3, <1>4 DEF RsRecords
<1>6. /\ OrphanSets' = OrphanSets /\ DanglingSets' = DanglingSets
  BY <1>3 DEF OrphanSets, DanglingSets
<1>7. DebrisPaid
  <2>1. CASE c1 /\ (c2 \/ hpas[hpaKey[nm]] = None)
    BY <1>2, <1>4, <1>5, <1>6, <2>1, DebrisOfHalves, DebrisOfHalvesNext
       DEF DebrisPaid, DebrisShrinks
  <2>2. CASE faults' >= faults + 1 /\ c1
    BY <1>4, <1>5, <1>6, <2>2, DebrisOfHalves, DebrisOfHalvesNext DEF DebrisPaid, DebrisGrows
  <2>3. CASE faults' >= faults + 1 /\ ~c1
    BY <1>4, <1>5, <1>6, <2>3, DebrisOfHalves, DebrisOfHalvesNext DEF DebrisPaid, DebrisGrows
  <2> QED
    BY <1>2, <2>1, <2>2, <2>3
<1> QED
  BY <1>2, <1>3, <1>5, <1>7 DEF RecordStep

-----------------------------------------------------------------------------
(* What each step is to the pod registry, and to the records of sets and   *)
(* scalers.                                                                *)

RsInv == RegistryInv /\ RsTypeOK /\ RsRecords /\ used \subseteq PodUids

(* A request about other records, or one that is lost: failures counted.   *)
RequestsFail ==
    /\ UNCHANGED <<podVars, nodeVars, hosts, used>>
    /\ faults' \in 0 .. MaxFaults /\ faults' >= faults

Rescaled(u, n) ==
    replicaSets[u] # None /\ replicaSets'[u] = [replicaSets[u] EXCEPT !.replicas = n]

SetsChange ==
    \A u \in RsUids : replicaSets'[u] # None =>
        \/ replicaSets'[u] = replicaSets[u]
        \/ replicaSets[u] = None /\ \E spec \in RsSpecs : FromSpec(spec, replicaSets'[u])
        \/ \E n \in Replicas : Rescaled(u, n)
        \/ hc = "update" /\ Rescaled(u, scaling[2]) /\ replicaSets[u].name = scaling[1]

(* A step to the records of sets and scalers and to the pods.              *)
HandlerStep ==
    \/ RecordStep /\ SetsChange
    \/ UNCHANGED rsVars /\ ([Next]_vars \/ (UNCHANGED registry /\ RequestsFail))

LEMMA RequestStep ==
    ASSUME faults \in 0 .. MaxFaults, UNCHANGED registry,
           faults' = faults \/ (faults < MaxFaults /\ faults' = faults + 1)
    PROVE  UNCHANGED registry /\ RequestsFail
  BY FaultAssumption DEF RequestsFail, registry

LEMMA UsersSteps == ASSUME RsInv, Users PROVE HandlerStep
<1>0. RsRecords /\ faults \in 0 .. MaxFaults
  BY DEF RsInv, RegistryInv, TypeOK
<1>1. ASSUME NEW ok \in BOOLEAN, NEW k \in 0 .. 2, NEW nm \in RsNames, NEW spec \in RsSpecs,
             NEW u \in RsUids, AddReplicaSet(nm, spec, u, k, ok)
      PROVE  HandlerStep
  BY <1>0, <1>1, AddReplicaSetStep DEF HandlerStep, SetsFrom, SetsChange
<1>2. ASSUME NEW ok \in BOOLEAN, NEW k \in 0 .. 2, NEW nm \in RsNames, NEW n \in Replicas,
             UpdateReplicaSet(nm, n, k, ok)
      PROVE  HandlerStep
  <2>1. n \in Nat
    BY RsAssumption
  <2>2. /\ RecordStep
        /\ \A u \in RsUids : replicaSets'[u] # None =>
              replicaSets'[u] = replicaSets[u] \/ Rescaled(u, n)
    BY <1>0, <1>2, <2>1, UpdateReplicaSetStep DEF Rescaled
  <2> QED
    BY <2>2 DEF HandlerStep, SetsChange
<1>3. ASSUME NEW ok \in BOOLEAN, NEW k \in 0 .. 2, NEW nm \in RsNames, DeleteReplicaSet(nm, k, ok)
      PROVE  HandlerStep
  BY <1>0, <1>3, DeleteReplicaSetStep DEF HandlerStep, SetsFrom, SetsChange
<1>4. ASSUME NEW ok \in BOOLEAN, NEW k \in 0 .. 2, NEW nm \in HpaNames, NEW spec \in HpaSpecs,
             NEW u \in HpaUids, AddScaling(nm, spec, u, k, ok)
      PROVE  HandlerStep
  BY <1>0, <1>4, AddScalingStep DEF HandlerStep, SetsChange
<1>5. ASSUME NEW ok \in BOOLEAN, NEW k \in 0 .. 2, NEW nm \in HpaNames, DeleteScaling(nm, k, ok)
      PROVE  HandlerStep
  BY <1>0, <1>5, DeleteScalingStep DEF HandlerStep, SetsChange
<1>6. ASSUME NEW ok \in BOOLEAN, NEW k \in 0 .. 2, NEW nm \in Names, DeletePod(nm, k, ok),
             UNCHANGED rsVars
      PROVE  HandlerStep
  <2>1. k \in 0 .. 4
    OBVIOUS
  <2>2. Next
    BY <1>6, <2>1, Zenon DEF Next
  <2> QED
    BY <1>6, <2>2 DEF HandlerStep
<1> QED
  BY <1>1, <1>2, <1>3, <1>4, <1>5, <1>6 DEF Users

LEMMA ReportSteps == ASSUME RsInv, NEW u \in PodUids, ReportPhase(u) PROVE HandlerStep
<1>1. pods[u].name \in Names /\ u \in used
  BY DEF ReportPhase, RsInv, RegistryInv, TypeOK, Pod, PodInv, FreshPodUids
<1>2. PutPodStatus(pods[u].name, u, 1, TRUE) /\ UNCHANGED rsVars
  BY DEF ReportPhase
<1>3. Next
  <2>1. 1 \in 0 .. 4 /\ TRUE \in BOOLEAN /\ u \in used \intersect PodUids
    BY <1>1
  <2> QED
    BY <1>1, <1>2, <2>1, Zenon DEF Next
<1> QED
  BY <1>2, <1>3 DEF HandlerStep

LEMMA NewUidIsNew == ASSUME used \subseteq PodUids, used # PodUids PROVE NewUid \in PodUids \ used
<1>1. \E u \in PodUids \ used : TRUE
  OBVIOUS
<1> QED
  BY <1>1 DEF NewUid

LEMMA SyncSteps == ASSUME RsInv, SyncReplicaSet PROVE HandlerStep
<1>0. faults \in 0 .. MaxFaults
  BY DEF RsInv, RegistryInv, TypeOK
<1>1. CASE ListReplicaSets \/ ListPods
  BY <1>0, <1>1, RequestStep DEF ListReplicaSets, ListPods, ListFails, HandlerStep
<1>2. CASE CheckReplicaSet \/ NextReplicaSet \/ PassEnds
  BY <1>2 DEF CheckReplicaSet, NextReplicaSet, PassEnds, HandlerStep
<1>3. CASE DeleteExcess
  <2>1. UNCHANGED rsVars
    BY <1>3 DEF DeleteExcess
  <2>2. PICK u \in doomed : \/ \E ok \in BOOLEAN, k \in 0 .. 2 : DeletePod(NameOf[u], k, ok)
                            \/ UNCHANGED vars
    BY <1>3 DEF DeleteExcess
  <2>3. NameOf[u] \in Names
    BY NameOfAssumption DEF RsInv, RsTypeOK
  <2>4. ASSUME NEW ok \in BOOLEAN, NEW k \in 0 .. 2, DeletePod(NameOf[u], k, ok) PROVE Next
    <3>1. k \in 0 .. 4
      OBVIOUS
    <3> QED
      BY <2>3, <2>4, <3>1, Zenon DEF Next
  <2> QED
    BY <2>1, <2>2, <2>4 DEF HandlerStep
<1>4. CASE AddReplica
  <2>1. NewUid \in PodUids /\ UNCHANGED rsVars
    BY <1>4, NewUidIsNew DEF AddReplica, RsInv
  <2>2. PICK ok \in BOOLEAN, k \in 0 .. 2 : AddPod(NameOf[NewUid], NewUid, k, ok)
    BY <1>4 DEF AddReplica
  <2>3. NameOf[NewUid] \in Names /\ k \in 0 .. 4
    BY <2>1, NameOfAssumption
  <2>4. Next
    BY <2>1, <2>2, <2>3, Zenon DEF Next
  <2> QED
    BY <2>1, <2>4 DEF HandlerStep
<1> QED
  BY <1>1, <1>2, <1>3, <1>4 DEF SyncReplicaSet

LEMMA WriteScalingSteps == ASSUME RsInv, WriteScaling PROVE HandlerStep
<1>0. RsRecords /\ faults \in 0 .. MaxFaults /\ hc = "update"
  BY DEF RsInv, RegistryInv, TypeOK, WriteScaling
<1>1. scaling[1] \in RsNames /\ scaling[2] \in Nat
  BY <1>0 DEF RsInv, RsTypeOK
<1>2. ASSUME NEW ok \in BOOLEAN, NEW k \in 0 .. 1,
             UpdateReplicaSet(scaling[1], scaling[2], k, ok)
      PROVE  HandlerStep
  <2>1. k \in 0 .. 2
    OBVIOUS
  <2>2. /\ RecordStep
        /\ \A u \in RsUids : replicaSets'[u] # None =>
              \/ replicaSets'[u] = replicaSets[u]
              \/ Rescaled(u, scaling[2]) /\ replicaSets[u].name = scaling[1]
    BY <1>0, <1>1, <1>2, <2>1, UpdateReplicaSetStep DEF Rescaled
  <2> QED
    BY <1>0, <2>2 DEF HandlerStep, SetsChange
<1> QED
  BY <1>2 DEF WriteScaling, HandlerStep

LEMMA AutoscaleSteps == ASSUME RsInv, Autoscale \/ ManagerRestarts PROVE HandlerStep
<1>0. faults \in 0 .. MaxFaults
  BY DEF RsInv, RegistryInv, TypeOK
<1>1. CASE ListScalers \/ ListScaledPods \/ ManagerRestarts
  BY <1>0, <1>1, RequestStep DEF ListScalers, ListScaledPods, ListFails, ManagerRestarts, HandlerStep
<1>2. CASE Scale \/ ScalerListEnds \/ Panic
  BY <1>2 DEF Scale, ScalerListEnds, Panic, HandlerStep
<1>3. CASE WriteScaling
  BY <1>3, WriteScalingSteps
<1> QED
  BY <1>1, <1>2, <1>3 DEF Autoscale

LEMMA HandlerSteps == ASSUME RsInv, [RsNext]_rsSystem PROVE HandlerStep
<1>1. CASE UNCHANGED rsSystem
  BY <1>1 DEF rsSystem, HandlerStep
<1> QED
  BY <1>1, UsersSteps, ReportSteps, SyncSteps, AutoscaleSteps DEF RsNext

(* The pods' records under sets and scalers.                               *)
LEMMA RegistryStepsHere == HandlerStep => [Next]_vars \/ RequestsFail
  BY DEF HandlerStep, RecordStep, RequestsFail, registry

LEMMA RecordsStep == RsRecords /\ HandlerStep => RsRecords'
  BY DEF HandlerStep, RecordStep, RsRecords, rsVars

LEMMA UsedStep == ASSUME RsInv, [RsNext]_rsSystem PROVE used' \subseteq PodUids
<1>0. used \subseteq PodUids
  BY DEF RsInv
<1>1. CASE Users
  <2>1. \A nm, spec, u, k, ok : AddReplicaSet(nm, spec, u, k, ok) => used' = used
    BY DEF AddReplicaSet, registry
  <2>2. \A nm, n, k, ok : UpdateReplicaSet(nm, n, k, ok) => used' = used
    BY DEF UpdateReplicaSet, registry
  <2>3. \A nm, k, ok : DeleteReplicaSet(nm, k, ok) => used' = used
    BY DEF DeleteReplicaSet, registry
  <2>4. \A nm, spec, u, k, ok : AddScaling(nm, spec, u, k, ok) => used' = used
    BY DEF AddScaling, registry
  <2>5. \A nm, k, ok : DeleteScaling(nm, k, ok) => used' = used
    BY DEF DeleteScaling, registry
  <2>6. \A nm, k, ok : DeletePod(nm, k, ok) => used' = used
    BY DEF DeletePod
  <2> QED
    BY <1>0, <1>1, <2>1, <2>2, <2>3, <2>4, <2>5, <2>6 DEF Users
<1>2. ASSUME NEW u \in PodUids, ReportPhase(u) PROVE used' = used
  BY <1>2 DEF ReportPhase, PutPodStatus
<1>3. CASE SyncReplicaSet
  <2>1. CASE AddReplica
    <3>1. NewUid \in PodUids
      BY <2>1, NewUidIsNew DEF AddReplica, RsInv
    <3>2. used' = used \union {NewUid}
      BY <2>1 DEF AddReplica, AddPod
    <3> QED
      BY <1>0, <3>1, <3>2
  <2>2. CASE DeleteExcess
    BY <1>0, <2>2 DEF DeleteExcess, DeletePod, vars
  <2> QED
    BY <1>0, <1>3, <2>1, <2>2 DEF SyncReplicaSet, ListReplicaSets, ListPods, CheckReplicaSet,
       NextReplicaSet, PassEnds, vars, registry
<1>4. CASE Autoscale \/ ManagerRestarts
  BY <1>0, <1>4 DEF Autoscale, ListScalers, ListScaledPods, Scale, ScalerListEnds, WriteScaling,
     UpdateReplicaSet, Panic, ManagerRestarts, vars, registry
<1>5. CASE UNCHANGED rsSystem
  BY <1>0, <1>5 DEF rsSystem, vars
<1> QED
  BY <1>0, <1>1, <1>2, <1>3, <1>4, <1>5 DEF RsNext

-----------------------------------------------------------------------------
(* The type invariant.                                                     *)

RecordsTyped ==
    /\ rsKey \in [RsNames -> RsUids \union {None}]
    /\ replicaSets \in [RsUids -> ReplicaSet \union {None}]
    /\ hpaKey \in [HpaNames -> HpaUids \union {None}]
    /\ hpas \in [HpaUids -> Hpa \union {None}]
    /\ drawn \in SUBSET (RsUids \union HpaUids)

InfoTyped ==
    /\ labels \in [PodUids -> SUBSET Labels] /\ failed \in SUBSET PodUids
    /\ turns \in 0 .. MaxTurns /\ reports \in 0 .. MaxReports

SyncTyped ==
    /\ rc \in {"sets", "pods", "check", "work", "down"}
    /\ reps \subseteq ReplicaSet
    /\ allPods \subseteq [uid : PodUids, labels : SUBSET Labels, failed : BOOLEAN]
    /\ rep \in ReplicaSet \union {None} /\ (rc = "work" => rep # None)
    /\ doomed \in SUBSET PodUids /\ toStart \in Nat

ScaleTyped ==
    /\ hc \in {"scalers", "pods", "scale", "update", "down"}
    /\ scalers \subseteq Hpa /\ seenPods \in SUBSET SUBSET Labels
    /\ scaling \in (RsNames \X Nat) \union {None} /\ (scaling # None <=> hc = "update")

LEMMA RsTypeParts == RsTypeOK <=> RecordsTyped /\ InfoTyped /\ SyncTyped /\ ScaleTyped
  BY DEF RsTypeOK, RecordsTyped, InfoTyped, SyncTyped, ScaleTyped

LEMMA RecordsAreTyped == RsRecords => RecordsTyped
  BY DEF RsRecords, RecordsTyped, Kept

LEMMA ListedPodsTyped ==
    ASSUME InfoTyped
    PROVE  PodsListed \subseteq [uid : PodUids, labels : SUBSET Labels, failed : BOOLEAN]
<1> SUFFICES ASSUME NEW p \in PodsListed
             PROVE  p \in [uid : PodUids, labels : SUBSET Labels, failed : BOOLEAN]
  OBVIOUS
<1>1. PICK u \in PodUids : p = [uid |-> u, labels |-> labels[u], failed |-> u \in failed]
  BY DEF PodsListed
<1>2. labels[u] \in SUBSET Labels /\ (u \in failed) \in BOOLEAN
  BY DEF InfoTyped
<1> QED
  BY <1>1, <1>2

(* oneReplicaSetCheck counts the pods that match and have not failed.      *)
LEMMA MissingIsNat == ASSUME NEW r \in ReplicaSet, IsFiniteSet(allPods) PROVE Missing(r) \in Nat
<1>1. Counted(Matching(r)) \subseteq allPods
  BY DEF Counted, Matching
<1>2. Cardinality(Counted(Matching(r))) \in Nat
  BY <1>1, FS_Subset, FS_CardinalityType
<1>3. r.replicas \in Nat
  BY DEF ReplicaSet
<1> QED
  BY <1>2, <1>3 DEF Missing

LEMMA AddReplicaLabels ==
    ASSUME RsTypeOK, used \subseteq PodUids, AddReplica
    PROVE  /\ rep \in ReplicaSet /\ NewUid \in PodUids \ used
           /\ labels' \in [PodUids -> SUBSET Labels]
           /\ \A u \in PodUids : labels'[u] = IF u = NewUid THEN rep.template ELSE labels[u]
<1>1. NewUid \in PodUids \ used
  BY NewUidIsNew DEF AddReplica
<1>2. rep \in ReplicaSet /\ rep.template \in SUBSET Labels
  BY DEF AddReplica, RsTypeOK, ReplicaSet
<1> HIDE DEF NewUid
<1> QED
  BY <1>1, <1>2 DEF AddReplica, RsTypeOK

LEMMA InfoTypedStep == ASSUME RsInv, [RsNext]_rsSystem PROVE InfoTyped'
<1> USE DEF podInfo
<1>0. InfoTyped /\ RsTypeOK /\ used \subseteq PodUids /\ MaxTurns \in Nat /\ MaxReports \in Nat
  BY RsTypeParts, RsAssumption DEF RsInv
<1>1. CASE Users
  <2>1. turns < MaxTurns /\ turns' = turns + 1 /\ UNCHANGED podInfo
    BY <1>1 DEF Users
  <2> QED
    BY <1>0, <2>1 DEF InfoTyped
<1>2. ASSUME NEW u \in PodUids, ReportPhase(u) PROVE InfoTyped'
  <2>1. /\ reports < MaxReports /\ reports' = reports + 1 /\ UNCHANGED <<labels, turns>>
        /\ failed' = IF u \in failed THEN failed \ {u} ELSE failed \union {u}
    BY <1>2 DEF ReportPhase
  <2> QED
    BY <1>0, <2>1 DEF InfoTyped
<1>3. CASE AddReplica
  <2>1. UNCHANGED <<failed, reports, turns>>
    BY <1>3 DEF AddReplica
  <2> QED
    BY <1>0, <1>3, <2>1, AddReplicaLabels DEF InfoTyped
<1>4. CASE \/ ListReplicaSets \/ ListPods \/ CheckReplicaSet \/ DeleteExcess \/ NextReplicaSet
           \/ PassEnds \/ ListScalers \/ ListScaledPods \/ Scale \/ ScalerListEnds \/ Panic
           \/ ManagerRestarts \/ UNCHANGED rsSystem
  <2>1. UNCHANGED <<podInfo, turns>>
    BY <1>4 DEF ListReplicaSets, ListPods, CheckReplicaSet, DeleteExcess, NextReplicaSet, PassEnds,
       ListScalers, ListScaledPods, Scale, ScalerListEnds, Panic, ManagerRestarts, rsSystem
  <2> QED
    BY <1>0, <2>1 DEF InfoTyped
<1>5. CASE WriteScaling
  <2>1. UNCHANGED podInfo /\ (turns' = turns \/ (turns < MaxTurns /\ turns' = turns + 1))
    BY <1>5 DEF WriteScaling
  <2> QED
    BY <1>0, <2>1 DEF InfoTyped
<1> QED
  BY <1>1, <1>2, <1>3, <1>4, <1>5 DEF RsNext, SyncReplicaSet, Autoscale

(* The controller's lists are finite, whatever the number of uids there    *)
(* could be: pods are added one at a time.                                 *)
PodsFinite == IsFiniteSet({u \in PodUids : pods[u] # None}) /\ IsFiniteSet(allPods)

LEMMA SyncTypedStep == ASSUME RsInv, PodsFinite, [RsNext]_rsSystem PROVE SyncTyped'
<1>0. SyncTyped /\ InfoTyped /\ RecordsTyped /\ None \notin ReplicaSet
  BY RsTypeParts, RsNoneAssumption DEF RsInv
<1>1. CASE ListReplicaSets
  <2>1. Sets \subseteq ReplicaSet
    BY <1>0 DEF Sets, RecordsTyped
  <2>2. reps' \subseteq ReplicaSet /\ rc' = "pods" /\ UNCHANGED <<allPods, rep, doomed, toStart>>
    BY <1>1, <2>1 DEF ListReplicaSets
  <2> QED
    BY <1>0, <2>2 DEF SyncTyped
<1>2. CASE ListPods
  <2>1. /\ rc' = "check" /\ UNCHANGED <<reps, rep, doomed, toStart>>
        /\ allPods' = PodsListed \/ allPods' = {}
    BY <1>2 DEF ListPods
  <2> QED
    BY <1>0, <2>1, ListedPodsTyped DEF SyncTyped
<1>3. CASE CheckReplicaSet
  <2>1. PICK r \in reps, D \in SUBSET allPods :
           doomed' = {p.uid : p \in D} /\ toStart' = Missing(r) /\ rep' = r /\ reps' = reps \ {r}
    BY <1>3 DEF CheckReplicaSet
  <2>2. r \in ReplicaSet /\ toStart' \in Nat
    BY <1>0, <2>1, MissingIsNat DEF SyncTyped, PodsFinite
  <2>3. doomed' \in SUBSET PodUids
    BY <1>0, <2>1 DEF SyncTyped
  <2>4. rc' = "work" /\ allPods' = allPods
    BY <1>3 DEF CheckReplicaSet
  <2> QED
    BY <1>0, <2>1, <2>2, <2>3, <2>4 DEF SyncTyped
<1>4. CASE DeleteExcess
  <2>1. doomed' \subseteq doomed /\ UNCHANGED <<rc, reps, allPods, rep, toStart>>
    BY <1>4 DEF DeleteExcess
  <2> QED
    BY <1>0, <2>1 DEF SyncTyped
<1>5. CASE AddReplica
  <2>1. /\ toStart > 0 /\ toStart' = toStart - 1
        /\ UNCHANGED <<rc, reps, allPods, rep, doomed>>
    BY <1>5 DEF AddReplica
  <2> QED
    BY <1>0, <2>1 DEF SyncTyped
<1>6. CASE NextReplicaSet
  BY <1>0, <1>6 DEF NextReplicaSet, SyncTyped
<1>7. CASE PassEnds
  BY <1>0, <1>7 DEF PassEnds, SyncTyped
<1>8. CASE Panic
  BY <1>0, <1>8 DEF Panic, SyncTyped
<1>9. CASE ManagerRestarts
  BY <1>0, <1>9 DEF ManagerRestarts, SyncTyped
<1>10. CASE UNCHANGED rcVars
  BY <1>0, <1>10 DEF rcVars, SyncTyped
<1>11. Users \/ (\E u \in PodUids : ReportPhase(u)) \/ ListScalers \/ ListScaledPods \/ Scale
         \/ ScalerListEnds \/ WriteScaling \/ UNCHANGED rsSystem => UNCHANGED rcVars
  BY DEF Users, ReportPhase, ListScalers, ListScaledPods, Scale, ScalerListEnds, WriteScaling,
     rsSystem
<1> QED
  BY <1>1, <1>2, <1>3, <1>4, <1>5, <1>6, <1>7, <1>8, <1>9, <1>10, <1>11
     DEF RsNext, SyncReplicaSet, Autoscale

(* genRepNumFromCPU, genRepNumFromMemory: the step a policy allows is a    *)
(* number, and unless the type is unknown no larger than what is asked.    *)
LEMMA AllowedStep ==
    ASSUME NEW policy \in Policy, policy # None, NEW d \in Nat, NEW cur \in Nat
    PROVE  /\ Allowed(policy, d, cur) \in Nat
           /\ policy.type = "other" \/ Allowed(policy, d, cur) <= d
           /\ policy.type = "other" => Allowed(policy, d, cur) = 1
<1>1. policy.type \in {"Pods", "Percent", "other"} /\ policy.value \in Nat
  BY DEF Policy
<1>2. policy.value * cur \in Nat
  BY <1>1
<1> DEFINE m == policy.value * cur
           q == m \div 100
<1>3. q \in Nat
  <2>1. m \in Nat
    BY <1>2
  <2> HIDE DEF m
  <2> QED
    BY <2>1
<1>4. Allowed(policy, d, cur) = IF policy.type = "Percent" THEN Min({d, q})
                                ELSE IF policy.type = "Pods" THEN Min({d, policy.value})
                                ELSE 1
  BY DEF Allowed
<1> HIDE DEF q
<1>5. /\ Min({d, q}) \in {d, q} /\ Min({d, q}) <= d
      /\ Min({d, policy.value}) \in {d, policy.value} /\ Min({d, policy.value}) <= d
  <2>1. d \in Int /\ q \in Int /\ policy.value \in Int
    BY <1>1, <1>3
  <2>2. Min({d, q}) \in {d, q} /\ Min({d, q}) <= d
    BY <2>1, OfTwo
  <2>3. Min({d, policy.value}) \in {d, policy.value} /\ Min({d, policy.value}) <= d
    BY <2>1, OfTwo
  <2> QED
    BY <2>2, <2>3
<1> QED
  BY <1>1, <1>3, <1>4, <1>5

(* What a scaler may make of the present number: nothing else, a number    *)
(* above it up to the upper bound, or one below it down to the lower.      *)
LEMMA OutcomeBounds ==
    ASSUME NEW h \in HpaSpecs, NEW cur \in Nat, NEW n \in Outcomes(h, cur)
    PROVE  /\ n \in Nat
           /\ \/ n = cur
              \/ /\ h.up # None /\ n <= h.max /\ (n >= cur \/ n = h.max)
                 /\ cur = 0 => n = 0 \/ (n <= 1 /\ h.up.type = "other")
              \/ n >= h.min /\ (n <= cur \/ n = h.min)
<1>1. /\ h.min \in Nat /\ h.min >= 1 /\ h.max \in Nat /\ h.up \in Policy /\ h.down \in Policy
  BY HpaAssumption
<1>2. CASE n = cur
  BY <1>2
<1>3. CASE h.up # None /\ n \in Raised(h, cur)
  <2>1. PICK d \in (IF cur = 0 THEN {0} ELSE 1 .. h.max) :
           n = Min({cur + Allowed(h.up, d, cur), h.max})
    BY <1>3 DEF Raised
  <2> DEFINE a == Allowed(h.up, d, cur)
  <2>2. d \in Nat /\ (cur = 0 => d = 0)
    BY <1>1, <2>1
  <2>3. /\ a \in Nat
        /\ h.up.type = "other" \/ a <= d
        /\ h.up.type = "other" => a = 1
    BY <1>1, <1>3, <2>2, AllowedStep
  <2>4. n = Min({cur + a, h.max})
    BY <2>1
  <2> HIDE DEF a
  <2>5. cur + a \in Nat /\ cur + a \in Int /\ h.max \in Int
    BY <1>1, <2>3
  <2>6. n \in {cur + a, h.max} /\ n <= cur + a /\ n <= h.max
    BY <2>4, <2>5, OfTwo
  <2>8. cur = 0 => n = 0 \/ (n <= 1 /\ h.up.type = "other")
    BY <1>1, <2>2, <2>3, <2>5, <2>6
  <2> QED
    BY <1>1, <1>3, <2>3, <2>5, <2>6, <2>8
<1>4. CASE h.down # None /\ n \in Lowered(h, cur)
  <2>1. PICK d \in (IF cur = 0 THEN {0} ELSE 1 .. cur) :
           n = Max({cur - Allowed(h.down, d, cur), h.min})
    BY <1>4 DEF Lowered
  <2> DEFINE a == Allowed(h.down, d, cur)
  <2>2. d \in Nat
    BY <2>1
  <2>3. a \in Nat
    BY <1>1, <1>4, <2>2, AllowedStep
  <2>4. n = Max({cur - a, h.min})
    BY <2>1
  <2> HIDE DEF a
  <2>5. cur - a \in Int /\ h.min \in Int
    BY <1>1, <2>3
  <2>6. n \in {cur - a, h.min} /\ n >= h.min
    BY <2>4, <2>5, OfTwo
  <2> QED
    BY <1>1, <2>3, <2>5, <2>6
<1> QED
  BY <1>2, <1>3, <1>4 DEF Outcomes

LEMMA ScaleTypedStep == ASSUME RsInv, [RsNext]_rsSystem PROVE ScaleTyped'
<1>0. ScaleTyped /\ InfoTyped /\ RecordsTyped /\ None \notin RsNames \X Nat
  BY RsTypeParts, RsNoneAssumption DEF RsInv
<1>1. CASE ListScalers
  <2>1. scalers' \subseteq Hpa
    BY <1>0, <1>1 DEF ListScalers, RecordsTyped
  <2>2. /\ hc = "scalers" /\ hc' \in {"scalers", "pods"}
        /\ UNCHANGED <<seenPods, scaling>>
    BY <1>1 DEF ListScalers
  <2> QED
    BY <1>0, <2>1, <2>2 DEF ScaleTyped
<1>2. CASE ListScaledPods
  <2>1. \A p \in PodsListed : p.labels \in SUBSET Labels
    BY <1>0, ListedPodsTyped
  <2>2. seenPods' \in SUBSET SUBSET Labels
    BY <1>2, <2>1 DEF ListScaledPods
  <2> QED
    BY <1>0, <1>2, <2>2 DEF ListScaledPods, ScaleTyped
<1>3. CASE Scale
  <2>1. PICK h \in scalers :
           /\ scalers' = scalers \ {h}
           /\ \/ /\ \E r \in Targets(h) :
                      \E n \in Outcomes(h.spec, r.replicas) \ {0, r.replicas} :
                         scaling' = <<r.name, n>>
                 /\ hc' = "update"
              \/ UNCHANGED scaling /\ hc' = "scale"
    BY <1>3 DEF Scale
  <2>2. hc = "scale" /\ seenPods' = seenPods
    BY <1>3 DEF Scale
  <2>3. ASSUME NEW r \in Targets(h), NEW n \in Outcomes(h.spec, r.replicas)
        PROVE  <<r.name, n>> \in RsNames \X Nat
    <3>1. r \in ReplicaSet
      BY <1>0 DEF Targets, Sets, RecordsTyped
    <3>2. r.replicas \in Nat /\ r.name \in RsNames /\ h.spec \in HpaSpecs
      BY <1>0, <3>1 DEF ReplicaSet, ScaleTyped, Hpa
    <3>3. n \in Nat
      BY <3>2, OutcomeBounds
    <3> QED
      BY <3>2, <3>3
  <2>4. CASE UNCHANGED scaling /\ hc' = "scale"
    BY <1>0, <2>1, <2>2, <2>4 DEF ScaleTyped
  <2>5. CASE /\ \E r \in Targets(h) :
                   \E n \in Outcomes(h.spec, r.replicas) \ {0, r.replicas} :
                      scaling' = <<r.name, n>>
             /\ hc' = "update"
    <3>1. scaling' \in RsNames \X Nat
      BY <2>3, <2>5
    <3> QED
      BY <1>0, <2>1, <2>2, <2>5, <3>1 DEF ScaleTyped
  <2> QED
    BY <2>1, <2>4, <2>5
<1>4. CASE ScalerListEnds
  BY <1>0, <1>4 DEF ScalerListEnds, ScaleTyped
<1>5. CASE WriteScaling
  BY <1>0, <1>5 DEF WriteScaling, ScaleTyped
<1>6. CASE Panic
  BY <1>0, <1>6 DEF Panic, ScaleTyped
<1>7. CASE ManagerRestarts
  BY <1>0, <1>7 DEF ManagerRestarts, ScaleTyped
<1>8. CASE UNCHANGED hcVars
  BY <1>0, <1>8 DEF hcVars, ScaleTyped
<1>9. Users \/ (\E u \in PodUids : ReportPhase(u)) \/ SyncReplicaSet \/ UNCHANGED rsSystem
        => UNCHANGED hcVars
  BY DEF Users, ReportPhase, SyncReplicaSet, ListReplicaSets, ListPods, CheckReplicaSet,
     DeleteExcess, AddReplica, NextReplicaSet, PassEnds, rsSystem
<1> QED
  BY <1>1, <1>2, <1>3, <1>4, <1>5, <1>6, <1>7, <1>8, <1>9 DEF RsNext, Autoscale

Stored == {u \in PodUids : pods[u] # None}

(* AddPodHandler is the only one that stores a pod that was not there, and *)
(* it stores one.                                                          *)
LEMMA StoredGrowsByOne ==
    ASSUME TypeOK, [Next]_vars \/ RequestsFail
    PROVE  \E u : Stored' \subseteq Stored \union {u}
<1>0. pods \in [PodUids -> Pod \union {None}]
  BY DEF TypeOK
<1>1. ASSUME NEW nm \in Names, NEW u \in PodUids, NEW k \in 0 .. 4, NEW ok \in BOOLEAN,
             AddPod(nm, u, k, ok)
      PROVE  Stored' \subseteq Stored \union {u}
  BY <1>0, <1>1 DEF AddPod, Stored
<1>2. ASSUME NEW nm \in Names, NEW k \in 0 .. 4, NEW ok \in BOOLEAN, DeletePod(nm, k, ok)
      PROVE  Stored' \subseteq Stored
  BY <1>0, <1>2 DEF DeletePod, Stored
<1>3. ASSUME NEW nm \in Names, NEW from \in PodUids, NEW k \in 0 .. 4, NEW ok \in BOOLEAN,
             PutPodStatus(nm, from, k, ok)
      PROVE  Stored' \subseteq Stored
  BY <1>0, <1>3 DEF PutPodStatus, Stored
<1>4. UNCHANGED pods => Stored' \subseteq Stored
  BY DEF Stored
<1>5. \A ok, k, w, readable : RegisterNode(w, readable, k, ok) => UNCHANGED pods
  BY DEF RegisterNode, podVars
<1>6. \A n, ok, k : UnregisterNode(n, k, ok) => UNCHANGED pods
  BY DEF UnregisterNode, podVars
<1>7. \A u, n, gone, set, ok : SchedulePod(u, n, gone, set, ok) => UNCHANGED pods
  BY DEF SchedulePod, podVars
<1>8. \A n, unread, kept : GetPodsByNode(n, unread, kept) => UNCHANGED pods
  BY DEF GetPodsByNode, podVars
<1>9. RequestsFail \/ UNCHANGED vars => UNCHANGED pods
  BY DEF RequestsFail, podVars, vars
<1>10. Stored' \subseteq Stored => \E u : Stored' \subseteq Stored \union {u}
  OBVIOUS
<1> HIDE DEF Stored
<1> QED
  BY <1>1, <1>2, <1>3, <1>4, <1>5, <1>6, <1>7, <1>8, <1>9, <1>10 DEF Next

LEMMA PodsListedFinite ==
    ASSUME IsFiniteSet(Stored)
    PROVE  IsFiniteSet(PodsListed)
<1> DEFINE f == [u \in Stored |-> [uid |-> u, labels |-> labels[u], failed |-> u \in failed]]
<1>1. PodsListed = {f[u] : u \in Stored}
  BY DEF PodsListed, Stored
<1>2. f \in Surjection(Stored, PodsListed)
  <2>1. f \in [Stored -> PodsListed]
    BY <1>1
  <2>2. \A p \in PodsListed : \E u \in Stored : f[u] = p
    BY <1>1
  <2> HIDE DEF f
  <2> QED
    BY <2>1, <2>2 DEF Surjection
<1> QED
  BY <1>2, FS_Surjection

LEMMA PodsFiniteStep == ASSUME RsInv, PodsFinite, [RsNext]_rsSystem PROVE PodsFinite'
<1>1. IsFiniteSet(Stored)
  BY DEF PodsFinite, Stored
<1>2. PICK u : Stored' \subseteq Stored \union {u}
  BY StoredGrowsByOne, HandlerSteps, RegistryStepsHere DEF RsInv, RegistryInv
<1>3. IsFiniteSet(Stored')
  BY <1>1, <1>2, OneMore
<1>4. allPods' \in {allPods, PodsListed, {}}
  <2>1. ListPods \/ PassEnds \/ ManagerRestarts => allPods' \in {allPods, PodsListed, {}}
    BY DEF ListPods, PassEnds, ManagerRestarts
  <2>2. \/ Users \/ (\E v \in PodUids : ReportPhase(v)) \/ ListReplicaSets \/ CheckReplicaSet
        \/ DeleteExcess \/ AddReplica \/ NextReplicaSet \/ ListScalers \/ ListScaledPods
        \/ Scale \/ ScalerListEnds \/ WriteScaling \/ Panic \/ UNCHANGED rsSystem
        => allPods' = allPods
    BY DEF Users, ReportPhase, ListReplicaSets, CheckReplicaSet, DeleteExcess, AddReplica,
       NextReplicaSet, ListScalers, ListScaledPods, Scale, ScalerListEnds, WriteScaling, Panic,
       rcVars, rsSystem
  <2> QED
    BY <2>1, <2>2 DEF RsNext, SyncReplicaSet, Autoscale
<1>5. IsFiniteSet(allPods')
  BY <1>1, <1>4, PodsListedFinite, FS_EmptySet DEF PodsFinite
<1> QED
  BY <1>3, <1>5 DEF PodsFinite, Stored

LEMMA RsInvStep == RsInv /\ PodsFinite /\ [RsNext]_rsSystem => RsInv' /\ PodsFinite'
<1> SUFFICES ASSUME RsInv, PodsFinite, [RsNext]_rsSystem PROVE RsInv' /\ PodsFinite'
  OBVIOUS
<1>1. HandlerStep /\ ([Next]_vars \/ RequestsFail)
  BY HandlerSteps, RegistryStepsHere
<1>2. RegistryInv'
  <2>1. CASE RequestsFail
    BY <2>1, FailuresElsewhere DEF RequestsFail, RsInv
  <2> QED
    BY <1>1, <2>1, RegistryInvStep DEF RsInv
<1>3. RsRecords'
  BY <1>1, RecordsStep DEF RsInv
<1>4. RecordsTyped'
  BY <1>3 DEF RsRecords, RecordsTyped, Kept
<1>5. RsTypeOK'
  BY <1>4, InfoTypedStep, SyncTypedStep, ScaleTypedStep
     DEF RsTypeOK, RecordsTyped, InfoTyped, SyncTyped, ScaleTyped
<1> QED
  BY <1>2, <1>3, <1>5, UsedStep, PodsFiniteStep DEF RsInv

LEMMA RsInvInitially == RsInit => RsInv /\ PodsFinite
<1> SUFFICES ASSUME RsInit PROVE RsInv /\ PodsFinite
  OBVIOUS
<1>1. RegistryInv /\ used \subseteq PodUids
  BY RegistryInvInitially DEF RsInit, Init
<1>2. RsTypeOK
  BY RsAssumption, RsNoneAssumption DEF RsInit, RsTypeOK
<1>3. /\ \A r \in ReplicaSet : r # None /\ r.name \in RsNames
      /\ \A h \in Hpa : h # None /\ h.name \in HpaNames
      /\ None \notin RsUids /\ None \notin HpaUids
  BY RsNoneAssumption DEF ReplicaSet, Hpa
<1>4. Sound(rsKey, replicaSets, drawn) /\ Sound(hpaKey, hpas, drawn)
  BY <1>3 DEF RsInit, Sound
<1>5. RsRecords
  BY <1>2, <1>3, <1>4 DEF RsRecords, RsTypeOK, Kept
<1>6. {u \in PodUids : pods[u] # None} = {} /\ allPods = {}
  BY DEF RsInit, Init
<1>7. PodsFinite
  BY <1>6, FS_EmptySet DEF PodsFinite
<1> QED
  BY <1>1, <1>2, <1>5, <1>7 DEF RsInv

LEMMA RsInvHolds == RsSpec => [](RsInv /\ PodsFinite)
  BY RsInvInitially, RsInvStep, PTL DEF RsSpec

(* routine.go, replicaset/controller.go, horizonal.go: the records of sets *)
(* and scalers and what both loops hold are always of their types; no loop *)
(* works on a set that is not there, or writes a negative number.          *)
THEOREM RsTypeCorrect == RsSpec => []RsTypeOK
  BY RsInvHolds, PTL DEF RsInv

(* The controllers over the pod registry implement it: all that users,     *)
(* kubelets and loops do to the pods is one of its handlers, or nothing    *)
(* but a failure elsewhere.                                                *)
THEOREM ReplicaSetsImplementRegistry ==
    RsSpec => Init /\ [][Next \/ RequestsFail]_vars
<1>1. RsInit => Init
  BY DEF RsInit
<1>2. RsInv /\ [RsNext]_rsSystem => [Next \/ RequestsFail]_vars
  BY HandlerSteps, RegistryStepsHere
<1> QED
  BY <1>1, <1>2, RsInvHolds, PTL DEF RsSpec

-----------------------------------------------------------------------------
(* Debris: the bound is inductive once the debris is known to be finite.   *)

RsDebrisInv ==
    /\ IsFiniteSet(OrphanSets) /\ IsFiniteSet(DanglingSets)
    /\ IsFiniteSet(OrphanHpas) /\ IsFiniteSet(DanglingHpas)
    /\ RsDebrisBounded

(* The sizes of the four kinds after a step, given by how far each of them *)
(* grew.                                                                   *)
LEMMA DebrisSizes ==
    ASSUME RsDebrisInv, faults \in Nat, faults' \in Nat,
           NEW x1, NEW x2, NEW x3, NEW x4,
           OrphanSets' \subseteq OrphanSets \union {x1},
           DanglingSets' \subseteq DanglingSets \union {x2},
           OrphanHpas' \subseteq OrphanHpas \union {x3},
           DanglingHpas' \subseteq DanglingHpas \union {x4},
           NEW n1 \in {0, 1}, NEW n2 \in {0, 1}, NEW n3 \in {0, 1}, NEW n4 \in {0, 1},
           n1 = 0 => OrphanSets' \subseteq OrphanSets,
           n2 = 0 => DanglingSets' \subseteq DanglingSets,
           n3 = 0 => OrphanHpas' \subseteq OrphanHpas,
           n4 = 0 => DanglingHpas' \subseteq DanglingHpas,
           faults' >= faults + n1 + n2 + n3 + n4
    PROVE  RsDebrisInv'
<1>1. ASSUME NEW S, IsFiniteSet(S), NEW T, NEW x, T \subseteq S \union {x}, NEW n \in {0, 1},
             n = 0 => T \subseteq S
      PROVE  /\ IsFiniteSet(T) /\ Cardinality(S) \in Nat /\ Cardinality(T) \in Nat
             /\ Cardinality(T) <= Cardinality(S) + n
  <2>1. CASE n = 0
    BY <1>1, <2>1, NoMore
  <2>2. CASE n = 1
    BY <1>1, <2>2, OneMore
  <2> QED
    BY <2>1, <2>2
<1>2. /\ IsFiniteSet(OrphanSets') /\ Cardinality(OrphanSets) \in Nat
      /\ Cardinality(OrphanSets') \in Nat /\ Cardinality(OrphanSets') <= Cardinality(OrphanSets) + n1
  BY <1>1 DEF RsDebrisInv
<1>3. /\ IsFiniteSet(DanglingSets') /\ Cardinality(DanglingSets) \in Nat
      /\ Cardinality(DanglingSets') \in Nat
      /\ Cardinality(DanglingSets') <= Cardinality(DanglingSets) + n2
  BY <1>1 DEF RsDebrisInv
<1>4. /\ IsFiniteSet(OrphanHpas') /\ Cardinality(OrphanHpas) \in Nat
      /\ Cardinality(OrphanHpas') \in Nat /\ Cardinality(OrphanHpas') <= Cardinality(OrphanHpas) + n3
  BY <1>1 DEF RsDebrisInv
<1>5. /\ IsFiniteSet(DanglingHpas') /\ Cardinality(DanglingHpas) \in Nat
      /\ Cardinality(DanglingHpas') \in Nat
      /\ Cardinality(DanglingHpas') <= Cardinality(DanglingHpas) + n4
  BY <1>1 DEF RsDebrisInv
<1>6. RsDebrisBounded'
  BY <1>2, <1>3, <1>4, <1>5 DEF RsDebrisInv, RsDebrisBounded
<1> QED
  BY <1>2, <1>3, <1>4, <1>5, <1>6 DEF RsDebrisInv

LEMMA RsDebrisStep ==
    ASSUME RsDebrisInv, faults \in Nat, faults' \in Nat, DebrisPaid PROVE RsDebrisInv'
<1>1. CASE faults' >= faults /\ DebrisShrinks
  BY <1>1, DebrisSizes DEF DebrisShrinks
<1>2. ASSUME NEW x, faults' >= faults + 1, DebrisGrows(x) PROVE RsDebrisInv'
  <2>1. CASE /\ OrphanSets' \subseteq OrphanSets \union {x} /\ DanglingSets' \subseteq DanglingSets
             /\ OrphanHpas' \subseteq OrphanHpas /\ DanglingHpas' \subseteq DanglingHpas
    <3>1. /\ OrphanSets' \subseteq OrphanSets \union {x}
          /\ DanglingSets' \subseteq DanglingSets \union {x}
          /\ OrphanHpas' \subseteq OrphanHpas \union {x}
          /\ DanglingHpas' \subseteq DanglingHpas \union {x}
          /\ faults' >= faults + 1 + 0 + 0 + 0
      BY <1>2, <2>1
    <3> QED
      BY <2>1, <3>1, DebrisSizes
  <2>2. CASE /\ OrphanSets' \subseteq OrphanSets /\ DanglingSets' \subseteq DanglingSets \union {x}
             /\ OrphanHpas' \subseteq OrphanHpas /\ DanglingHpas' \subseteq DanglingHpas
    <3>1. /\ OrphanSets' \subseteq OrphanSets \union {x}
          /\ DanglingSets' \subseteq DanglingSets \union {x}
          /\ OrphanHpas' \subseteq OrphanHpas \union {x}
          /\ DanglingHpas' \subseteq DanglingHpas \union {x}
          /\ faults' >= faults + 0 + 1 + 0 + 0
      BY <1>2, <2>2
    <3> QED
      BY <2>2, <3>1, DebrisSizes
  <2>3. CASE /\ OrphanSets' \subseteq OrphanSets /\ DanglingSets' \subseteq DanglingSets
             /\ OrphanHpas' \subseteq OrphanHpas \union {x} /\ DanglingHpas' \subseteq DanglingHpas
    <3>1. /\ OrphanSets' \subseteq OrphanSets \union {x}
          /\ DanglingSets' \subseteq DanglingSets \union {x}
          /\ OrphanHpas' \subseteq OrphanHpas \union {x}
          /\ DanglingHpas' \subseteq DanglingHpas \union {x}
          /\ faults' >= faults + 0 + 0 + 1 + 0
      BY <1>2, <2>3
    <3> QED
      BY <2>3, <3>1, DebrisSizes
  <2>4. CASE /\ OrphanSets' \subseteq OrphanSets /\ DanglingSets' \subseteq DanglingSets
             /\ OrphanHpas' \subseteq OrphanHpas /\ DanglingHpas' \subseteq DanglingHpas \union {x}
    <3>1. /\ OrphanSets' \subseteq OrphanSets \union {x}
          /\ DanglingSets' \subseteq DanglingSets \union {x}
          /\ OrphanHpas' \subseteq OrphanHpas \union {x}
          /\ DanglingHpas' \subseteq DanglingHpas \union {x}
          /\ faults' >= faults + 0 + 0 + 0 + 1
      BY <1>2, <2>4
    <3> QED
      BY <2>4, <3>1, DebrisSizes
  <2> QED
    BY <1>2, <2>1, <2>2, <2>3, <2>4 DEF DebrisGrows
<1>3. ASSUME NEW x, NEW y, faults' >= faults + 2, DebrisGrowsByTwo(x, y) PROVE RsDebrisInv'
  <2>1. /\ OrphanSets' \subseteq OrphanSets \union {x}
        /\ DanglingSets' \subseteq DanglingSets \union {x}
        /\ OrphanHpas' \subseteq OrphanHpas \union {x}
        /\ DanglingHpas' \subseteq DanglingHpas \union {y}
        /\ faults' >= faults + 0 + 0 + 1 + 1
        /\ OrphanSets' \subseteq OrphanSets /\ DanglingSets' \subseteq DanglingSets
    BY <1>3 DEF DebrisGrowsByTwo
  <2> QED
    BY <2>1, DebrisSizes
<1> QED
  BY <1>1, <1>2, <1>3 DEF DebrisPaid

(* Failures are only ever counted up.                                      *)
LEMMA FaultsGrow == ASSUME faults \in Nat, HandlerStep PROVE faults' >= faults
<1>1. \A ok, k, total : Ends(ok, k, total) => faults' >= faults
  BY DEF Ends
<1>2. \A ok, k, nm, u : AddPod(nm, u, k, ok) => faults' >= faults
  BY <1>1 DEF AddPod
<1>3. \A ok, k, nm : DeletePod(nm, k, ok) => faults' >= faults
  BY <1>1 DEF DeletePod
<1>4. \A ok, k, nm, from : PutPodStatus(nm, from, k, ok) => faults' >= faults
  BY <1>1 DEF PutPodStatus
<1>5. \A ok, k, w, readable : RegisterNode(w, readable, k, ok) => faults' >= faults
  BY <1>1 DEF RegisterNode
<1>6. \A n, ok, k : UnregisterNode(n, k, ok) => faults' >= faults
  BY <1>1 DEF UnregisterNode
<1>7. \A u, n, gone, set, ok : SchedulePod(u, n, gone, set, ok) => faults' >= faults
  BY <1>1 DEF SchedulePod
<1>8. \A n, unread, kept : GetPodsByNode(n, unread, kept) => faults' >= faults
  BY DEF GetPodsByNode
<1>9. RequestsFail \/ UNCHANGED vars => faults' >= faults
  BY DEF RequestsFail, vars
<1>10. RecordStep => faults' >= faults
  BY DEF RecordStep
<1> QED
  BY <1>2, <1>3, <1>4, <1>5, <1>6, <1>7, <1>8, <1>9, <1>10 DEF Next, HandlerStep

LEMMA RsDebrisInvHolds == RsSpec => []RsDebrisInv
<1>1. RsInit => RsDebrisInv
  <2> SUFFICES ASSUME RsInit PROVE RsDebrisInv
    OBVIOUS
  <2>1. OrphanSets = {} /\ DanglingSets = {} /\ OrphanHpas = {} /\ DanglingHpas = {} /\ faults = 0
    BY DEF RsInit, Init, OrphanSets, DanglingSets, OrphanHpas, DanglingHpas
  <2>2. IsFiniteSet({}) /\ Cardinality({}) = 0
    BY FS_EmptySet
  <2> QED
    BY <2>1, <2>2 DEF RsDebrisInv, RsDebrisBounded
<1>2. RsInv /\ RsInv' /\ RsDebrisInv /\ [RsNext]_rsSystem => RsDebrisInv'
  <2> SUFFICES ASSUME RsInv, RsInv', RsDebrisInv, [RsNext]_rsSystem PROVE RsDebrisInv'
    OBVIOUS
  <2>1. faults \in Nat /\ faults' \in Nat
    BY FaultAssumption DEF RsInv, RegistryInv, TypeOK
  <2>2. HandlerStep
    BY HandlerSteps
  <2>3. CASE RecordStep
    BY <2>1, <2>3, RsDebrisStep DEF RecordStep
  <2>4. CASE UNCHANGED rsVars /\ ([Next]_vars \/ RequestsFail)
    <3>1. faults' >= faults
      BY <2>1, <2>2, FaultsGrow
    <3>2. DebrisShrinks
      BY <2>4 DEF rsVars, DebrisShrinks, OrphanSets, DanglingSets, OrphanHpas, DanglingHpas
    <3> QED
      BY <2>1, <3>1, <3>2, RsDebrisStep DEF DebrisPaid
  <2> QED
    BY <2>2, <2>3, <2>4 DEF HandlerStep
<1> QED
  BY <1>1, <1>2, RsInvHolds, PTL DEF RsSpec

(* Every handler of replica sets and scalers: each failing call or crash   *)
(* leaves at most one record without its other half, a name key of a       *)
(* scaler that is misread and overwritten included.                        *)
THEOREM RsDebrisIsBounded == RsSpec => []RsDebrisBounded
<1>1. RsDebrisInv => RsDebrisBounded
  BY DEF RsDebrisInv
<1> QED
  BY <1>1, RsDebrisInvHolds, PTL

-----------------------------------------------------------------------------
(* The numbers of replicas.                                                *)

LEMMA RescaledFields ==
    ASSUME RecordsTyped, NEW u \in RsUids, NEW n \in Nat, Rescaled(u, n)
    PROVE  /\ replicaSets'[u].name = replicaSets[u].name
           /\ replicaSets'[u].selector = replicaSets[u].selector
           /\ replicaSets'[u].template = replicaSets[u].template
           /\ replicaSets'[u].replicas = n
<1>1. replicaSets[u] \in ReplicaSet
  BY DEF Rescaled, RecordsTyped
<1> QED
  BY <1>1 DEF Rescaled, ReplicaSet

(* The step a scaler takes, as the replica sets see it.                    *)
LEMMA ScalingFrom ==
    ASSUME RsInv, [RsNext]_rsSystem, hc' = "update"
    PROVE  \/ hc = "update" /\ scaling' = scaling
           \/ \E h \in HpaSpecs, u \in RsUids :
                 /\ replicaSets[u] # None /\ replicaSets[u].name = h.target
                 /\ \E n \in Outcomes(h, replicaSets[u].replicas) \ {0, replicaSets[u].replicas} :
                       scaling' = <<replicaSets[u].name, n>>
<1>1. CASE Scale
  <2>1. PICK h \in scalers : \E r \in Targets(h) :
           \E n \in Outcomes(h.spec, r.replicas) \ {0, r.replicas} : scaling' = <<r.name, n>>
    BY <1>1 DEF Scale
  <2>2. PICK r \in Targets(h) :
           \E n \in Outcomes(h.spec, r.replicas) \ {0, r.replicas} : scaling' = <<r.name, n>>
    BY <2>1
  <2>3. PICK u \in RsUids : r = replicaSets[u] /\ replicaSets[u] # None
    BY <2>2 DEF Targets, Sets
  <2>4. h.spec \in HpaSpecs /\ r.name = h.spec.target
    BY <2>2 DEF Targets, RsInv, RsTypeOK, Hpa
  <2> QED
    BY <2>2, <2>3, <2>4
<1>2. ListScalers \/ ListScaledPods \/ ScalerListEnds \/ WriteScaling \/ Panic \/ ManagerRestarts
        => hc' # "update"
  BY DEF ListScalers, ListScaledPods, ScalerListEnds, WriteScaling, Panic, ManagerRestarts
<1>3. Users \/ (\E u \in PodUids : ReportPhase(u)) \/ SyncReplicaSet \/ UNCHANGED rsSystem
        => hc' = hc /\ scaling' = scaling
  BY DEF Users, ReportPhase, SyncReplicaSet, ListReplicaSets, ListPods, CheckReplicaSet,
     DeleteExcess, AddReplica, NextReplicaSet, PassEnds, rsSystem, hcVars
<1> QED
  BY <1>1, <1>2, <1>3 DEF RsNext, Autoscale

(* Users' numbers lie within the bounds of the scalers, or are 0; scalers  *)
(* of one target agree on them.  Otherwise a scaler may leave a set it     *)
(* found outside its bounds still outside, a step nearer.  (From 0 a       *)
(* policy of an unknown type takes the set to 1.)                          *)
UserNumbers == Replicas \union {spec.replicas : spec \in RsSpecs}

(* A number within the bounds of a scaler of the set's name.               *)
Within(nm, n) == \E h \in HpaSpecs : h.target = nm /\ n \in h.min .. h.max

ScalersFit ==
    \A h \in HpaSpecs :
        /\ h.min <= h.max
        /\ \A n \in UserNumbers :
              \/ n \in h.min .. h.max
              \/ n = 0 /\ (h.up # None /\ h.up.type = "other" => h.min = 1)
        /\ \A g \in HpaSpecs : g.target = h.target => g.min = h.min /\ g.max = h.max

NumbersInv ==
    /\ \A u \in RsUids : replicaSets[u] # None =>
          \/ replicaSets[u].replicas \in UserNumbers
          \/ Within(replicaSets[u].name, replicaSets[u].replicas)
    /\ hc = "update" => Within(scaling[1], scaling[2])

LEMMA OutcomeWithin ==
    ASSUME ScalersFit, NEW h \in HpaSpecs, NEW cur \in Nat, NEW n \in Outcomes(h, cur), n # 0, n # cur,
           cur \in UserNumbers \/ Within(h.target, cur)
    PROVE  n \in h.min .. h.max
<1>1. /\ h.min \in Nat /\ h.min >= 1 /\ h.max \in Nat /\ h.min <= h.max
  BY HpaAssumption DEF ScalersFit
<1>2. \/ cur \in h.min .. h.max
      \/ cur = 0 /\ (h.up # None /\ h.up.type = "other" => h.min = 1)
  <2>1. CASE cur \in UserNumbers
    BY <2>1 DEF ScalersFit
  <2>2. CASE Within(h.target, cur)
    BY <2>2 DEF ScalersFit, Within
  <2> QED
    BY <2>1, <2>2
<1>3. n \in Nat
  BY OutcomeBounds
<1>4. CASE /\ h.up # None /\ n <= h.max /\ (n >= cur \/ n = h.max)
           /\ cur = 0 => n = 0 \/ (n <= 1 /\ h.up.type = "other")
  BY <1>1, <1>2, <1>3, <1>4
<1>5. CASE n >= h.min /\ (n <= cur \/ n = h.min)
  BY <1>1, <1>2, <1>3, <1>5
<1> QED
  BY <1>4, <1>5, OutcomeBounds

LEMMA NumbersStep ==
    ASSUME ScalersFit, RsInv, NumbersInv, [RsNext]_rsSystem
    PROVE  NumbersInv'
<1>0. RecordsTyped /\ HandlerStep
  BY HandlerSteps, RsTypeParts DEF RsInv
<1>1. ASSUME NEW u \in RsUids, replicaSets'[u] # None
      PROVE  \/ replicaSets'[u].replicas \in UserNumbers
             \/ Within(replicaSets'[u].name, replicaSets'[u].replicas)
  <2>1. CASE replicaSets'[u] = replicaSets[u]
    BY <1>1, <2>1 DEF NumbersInv
  <2>2. ASSUME NEW spec \in RsSpecs, FromSpec(spec, replicaSets'[u])
        PROVE  replicaSets'[u].replicas \in UserNumbers
    BY <2>2 DEF FromSpec, UserNumbers
  <2>3. ASSUME NEW n \in Replicas, Rescaled(u, n) PROVE replicaSets'[u].replicas \in UserNumbers
    BY <1>0, <2>3, RescaledFields, RsAssumption DEF UserNumbers
  <2>4. CASE hc = "update" /\ Rescaled(u, scaling[2]) /\ replicaSets[u].name = scaling[1]
    <3>1. scaling[2] \in Nat
      BY <2>4 DEF RsInv, RsTypeOK
    <3>2. Within(scaling[1], scaling[2])
      BY <2>4 DEF NumbersInv
    <3>3. replicaSets'[u].name = scaling[1] /\ replicaSets'[u].replicas = scaling[2]
      BY <1>0, <2>4, <3>1, RescaledFields
    <3> QED
      BY <3>2, <3>3
  <2>5. \/ replicaSets'[u] = replicaSets[u]
        \/ \E spec \in RsSpecs : FromSpec(spec, replicaSets'[u])
        \/ \E n \in Replicas : Rescaled(u, n)
        \/ hc = "update" /\ Rescaled(u, scaling[2]) /\ replicaSets[u].name = scaling[1]
    BY <1>0, <1>1 DEF HandlerStep, SetsChange, rsVars
  <2> QED
    BY <2>1, <2>2, <2>3, <2>4, <2>5
<1>2. ASSUME hc' = "update" PROVE Within(scaling'[1], scaling'[2])
  <2>1. CASE hc = "update" /\ scaling' = scaling
    BY <2>1 DEF NumbersInv
  <2>2. ASSUME NEW h \in HpaSpecs, NEW u \in RsUids,
               replicaSets[u] # None, replicaSets[u].name = h.target,
               NEW n \in Outcomes(h, replicaSets[u].replicas) \ {0, replicaSets[u].replicas},
               scaling' = <<replicaSets[u].name, n>>
        PROVE  Within(scaling'[1], scaling'[2])
    <3>1. replicaSets[u].replicas \in Nat
      BY <1>0, <2>2 DEF RecordsTyped, ReplicaSet
    <3>2. \/ replicaSets[u].replicas \in UserNumbers
          \/ Within(h.target, replicaSets[u].replicas)
      BY <2>2 DEF NumbersInv
    <3>3. n \in h.min .. h.max
      BY <2>2, <3>1, <3>2, OutcomeWithin
    <3> QED
      BY <2>2, <3>3 DEF Within
  <2> QED
    BY <1>2, <2>1, <2>2, ScalingFrom
<1>3. UserNumbers' = UserNumbers /\ \A nm, n : Within(nm, n)' <=> Within(nm, n)
  BY DEF UserNumbers, Within
<1> QED
  BY <1>1, <1>2, <1>3 DEF NumbersInv, Within, UserNumbers

(* Run of the HPA, changeRpsPodNum: whatever old number a scaler read and  *)
(* whatever set bears the name by the time it writes, the number it writes *)
(* is within its bounds, if what users ask for is.                         *)
THEOREM ReplicasWithinBounds == ASSUME ScalersFit PROVE RsSpec => []ReplicasInBounds
<1>1. RsInit => NumbersInv
  BY DEF RsInit, NumbersInv
<1>2. RsInv /\ NumbersInv /\ [RsNext]_rsSystem => NumbersInv'
  BY NumbersStep
<1>3. NumbersInv => ReplicasInBounds
  BY DEF NumbersInv, ReplicasInBounds, Within, UserNumbers, Sets
<1> QED
  BY <1>1, <1>2, <1>3, RsInvHolds, PTL DEF RsSpec

-----------------------------------------------------------------------------
(* The numbers of pods.                                                    *)

(* No set's template makes pods for another set's selector, and no two     *)
(* stored sets have one selector: each set's pods are its own.             *)
Selectors == {spec.selector : spec \in RsSpecs}

SelectorsApart ==
    \A s, t \in RsSpecs : t.selector \subseteq s.template => t.selector = s.selector

OneSetPerSelector ==
    \A u1, u2 \in RsUids :
        replicaSets[u1] # None /\ replicaSets[u2] # None
          /\ replicaSets[u1].selector = replicaSets[u2].selector => u1 = u2

NumbersFinite == IsFiniteSet(Wanted)

(* Nobody asks for more replicas than the largest number wanted, and the   *)
(* loops' copies of a set are copies of one that was stored.               *)
Asked(r) ==
    /\ r.replicas <= Max(Wanted)
    /\ \E spec \in RsSpecs : r.selector = spec.selector /\ r.template = spec.template

AskedInv ==
    /\ \A u \in RsUids : replicaSets[u] # None => Asked(replicaSets[u])
    /\ \A r \in reps : Asked(r)
    /\ rep # None => Asked(rep)
    /\ hc = "update" => scaling[2] <= Max(Wanted)

LEMMA WantedBound ==
    ASSUME NumbersFinite, NEW n \in Wanted
    PROVE  n \in Nat /\ Max(Wanted) \in Nat /\ n <= Max(Wanted)
<1>1. Wanted \subseteq Nat
  BY RsAssumption, HpaAssumption DEF Wanted
<1>2. Wanted # {}
  OBVIOUS
<1>3. Max(Wanted) \in Wanted /\ \A y \in Wanted : y <= Max(Wanted)
  <2> HIDE DEF Wanted
  <2> QED
    BY <1>1, <1>2, MaxIsLargest DEF NumbersFinite
<1> QED
  BY <1>1, <1>3

LEMMA OutcomeAsked ==
    ASSUME NumbersFinite, NEW h \in HpaSpecs, NEW cur \in Nat, cur <= Max(Wanted),
           NEW n \in Outcomes(h, cur)
    PROVE  n <= Max(Wanted)
<1>1. h.min \in Wanted /\ h.max \in Wanted
  BY DEF Wanted
<1>2. /\ h.min \in Nat /\ h.min <= Max(Wanted) /\ h.max \in Nat /\ h.max <= Max(Wanted)
      /\ Max(Wanted) \in Nat
  BY <1>1, WantedBound
<1>3. n \in Nat /\ (n = cur \/ n <= h.max \/ n <= cur \/ n = h.min)
  BY OutcomeBounds
<1> QED
  BY <1>2, <1>3

(* Where the controller's copies come from.                                *)
LEMMA CopiesFrom ==
    ASSUME [RsNext]_rsSystem
    PROVE  /\ \A r \in reps' : r \in reps \/ \E u \in RsUids : replicaSets[u] # None /\ r = replicaSets[u]
           /\ rep' \in {rep, None} \/ rep' \in reps
<1> DEFINE Goal == /\ \A r \in reps' : \/ r \in reps
                                       \/ \E u \in RsUids : replicaSets[u] # None /\ r = replicaSets[u]
                   /\ rep' \in {rep, None} \/ rep' \in reps
<1>1. CASE ListReplicaSets
  BY <1>1 DEF ListReplicaSets, Sets
<1>2. CASE CheckReplicaSet
  BY <1>2 DEF CheckReplicaSet
<1>3. ListPods \/ DeleteExcess \/ AddReplica \/ NextReplicaSet \/ PassEnds \/ ManagerRestarts \/ Panic
        => reps' \in {reps, {}} /\ rep' \in {rep, None}
  BY DEF ListPods, DeleteExcess, AddReplica, NextReplicaSet, PassEnds, ManagerRestarts, Panic
<1>4. Users \/ (\E u \in PodUids : ReportPhase(u)) \/ ListScalers \/ ListScaledPods \/ Scale
         \/ ScalerListEnds \/ WriteScaling \/ UNCHANGED rsSystem => reps' = reps /\ rep' = rep
  BY DEF Users, ReportPhase, ListScalers, ListScaledPods, Scale, ScalerListEnds, WriteScaling,
     rsSystem, rcVars
<1>5. (reps' \in {reps, {}} /\ rep' \in {rep, None}) => Goal
  OBVIOUS
<1> HIDE DEF Goal
<1>6. ListReplicaSets \/ CheckReplicaSet => Goal
  BY <1>1, <1>2 DEF Goal
<1>7. Goal
  BY <1>3, <1>4, <1>5, <1>6 DEF RsNext, SyncReplicaSet, Autoscale
<1> QED
  BY <1>7 DEF Goal

LEMMA AskedStep ==
    ASSUME NumbersFinite, RsInv, AskedInv, [RsNext]_rsSystem
    PROVE  AskedInv'
<1>0. RecordsTyped /\ HandlerStep
  BY HandlerSteps, RsTypeParts DEF RsInv
<1>1. ASSUME NEW u \in RsUids, replicaSets'[u] # None PROVE Asked(replicaSets'[u])
  <2>1. CASE replicaSets'[u] = replicaSets[u]
    BY <1>1, <2>1 DEF AskedInv
  <2>2. ASSUME NEW spec \in RsSpecs, FromSpec(spec, replicaSets'[u]) PROVE Asked(replicaSets'[u])
    <3>1. spec.replicas \in Wanted
      BY DEF Wanted
    <3> QED
      BY <2>2, <3>1, WantedBound DEF FromSpec, Asked
  <2>3. ASSUME NEW n \in Nat, n <= Max(Wanted), Rescaled(u, n) PROVE Asked(replicaSets'[u])
    <3>1. Asked(replicaSets[u])
      BY <2>3 DEF Rescaled, AskedInv
    <3> QED
      BY <1>0, <2>3, <3>1, RescaledFields DEF Asked
  <2>4. ASSUME NEW n \in Replicas PROVE n \in Nat /\ n <= Max(Wanted)
    <3>1. n \in Wanted
      BY DEF Wanted
    <3> QED
      BY <3>1, WantedBound
  <2>5. hc = "update" => scaling[2] \in Nat /\ scaling[2] <= Max(Wanted)
    BY DEF RsInv, RsTypeOK, AskedInv
  <2>6. \/ replicaSets'[u] = replicaSets[u]
        \/ \E spec \in RsSpecs : FromSpec(spec, replicaSets'[u])
        \/ \E n \in Replicas : Rescaled(u, n)
        \/ hc = "update" /\ Rescaled(u, scaling[2])
    BY <1>0, <1>1 DEF HandlerStep, SetsChange, rsVars
  <2> QED
    BY <2>1, <2>2, <2>3, <2>4, <2>5, <2>6
<1>2. ASSUME hc' = "update" PROVE scaling'[2] <= Max(Wanted)
  <2>1. CASE hc = "update" /\ scaling' = scaling
    BY <2>1 DEF AskedInv
  <2>2. ASSUME NEW h \in HpaSpecs, NEW u \in RsUids, replicaSets[u] # None,
               NEW n \in Outcomes(h, replicaSets[u].replicas),
               scaling' = <<replicaSets[u].name, n>>
        PROVE  scaling'[2] <= Max(Wanted)
    <3>1. replicaSets[u].replicas \in Nat /\ replicaSets[u].replicas <= Max(Wanted)
      BY <1>0, <2>2 DEF RecordsTyped, ReplicaSet, AskedInv, Asked
    <3> QED
      BY <2>2, <3>1, OutcomeAsked
  <2> QED
    BY <1>2, <2>1, <2>2, ScalingFrom
<1>3. \A r \in reps' : Asked(r)
  BY CopiesFrom DEF AskedInv
<1>4. rep' # None => Asked(rep')
  BY CopiesFrom DEF AskedInv
<1> QED
  BY <1>1, <1>2, <1>3, <1>4 DEF AskedInv, Asked, Wanted

-----------------------------------------------------------------------------
(* While nothing failed, the controller's pass is right about the pods of  *)
(* every set it has still to look at: what is alive was listed, and what   *)
(* is alive and still to be started is no more than was wanted.            *)

AliveOf(S) == {u \in PodUids : /\ pods[u] # None /\ u \notin failed
                               /\ labels[u] # {} /\ S \subseteq labels[u]}

MatchingOf(S) == {p \in allPods : p.labels # {} /\ S \subseteq p.labels}

(* How many pods the pass will still add for a selector.                   *)
Expected(S) == IF rc = "work" /\ rep.selector = S THEN toStart ELSE 0

PodsKnown ==
    /\ failed = {}
    /\ \A p \in allPods : ~p.failed
    /\ \A u \in PodUids : pods[u] # None => \E spec \in RsSpecs : labels[u] = spec.template

PassesApart ==
    /\ \A a, b \in reps : a.selector = b.selector => a = b
    /\ rc = "work" => \A r \in reps : r.selector # rep.selector

AliveListed ==
    rc \in {"check", "work"} =>
        \A r \in reps : \A u \in AliveOf(r.selector) : \E p \in MatchingOf(r.selector) : p.uid = u

FewEnough == \A S \in Selectors : Cardinality(AliveOf(S)) + Expected(S) <= Max(Wanted)

QuietInv == faults = 0 /\ reports = 0 => PodsKnown /\ PassesApart /\ AliveListed /\ FewEnough

(* The pods of one set do not match the selector of another.               *)
LEMMA TemplatesApart ==
    ASSUME SelectorsApart, NEW a, NEW b, Asked(a), Asked(b), a.selector \subseteq b.template
    PROVE  a.selector = b.selector
  BY DEF SelectorsApart, Asked

LEMMA AliveFinite == ASSUME PodsFinite, NEW S PROVE IsFiniteSet(AliveOf(S))
<1>1. AliveOf(S) \subseteq Stored /\ IsFiniteSet(Stored)
  BY DEF AliveOf, PodsFinite, Stored
<1> QED
  BY <1>1, FS_Subset

(* Only the controller adds pods, and only failing kubelets bring any back.*)
LEMMA PodsOnlyGo ==
    ASSUME RsInv, [RsNext]_rsSystem, reports = 0, reports' = 0, ~AddReplica
    PROVE  /\ labels' = labels /\ failed' = failed
           /\ \A u \in PodUids : pods'[u] # None => pods[u] # None
<1> DEFINE NoneNew == \A u \in PodUids : pods'[u] # None => pods[u] # None
<1>0. pods \in [PodUids -> Pod \union {None}]
  BY DEF RsInv, RegistryInv, TypeOK
<1>1. \A nm, k, ok : DeletePod(nm, k, ok) => NoneNew
  BY <1>0 DEF DeletePod
<1>2. UNCHANGED pods => NoneNew
  OBVIOUS
<1> HIDE DEF NoneNew
<1>3. CASE Users
  <2>1. \A nm, spec, u, k, ok : AddReplicaSet(nm, spec, u, k, ok) => UNCHANGED pods
    BY DEF AddReplicaSet, registry, podVars
  <2>2. \A nm, n, k, ok : UpdateReplicaSet(nm, n, k, ok) => UNCHANGED pods
    BY DEF UpdateReplicaSet, registry, podVars
  <2>3. \A nm, k, ok : DeleteReplicaSet(nm, k, ok) => UNCHANGED pods
    BY DEF DeleteReplicaSet, registry, podVars
  <2>4. \A nm, spec, u, k, ok : AddScaling(nm, spec, u, k, ok) => UNCHANGED pods
    BY DEF AddScaling, registry, podVars
  <2>5. \A nm, k, ok : DeleteScaling(nm, k, ok) => UNCHANGED pods
    BY DEF DeleteScaling, registry, podVars
  <2>6. NoneNew
    BY <1>1, <1>2, <1>3, <2>1, <2>2, <2>3, <2>4, <2>5 DEF Users
  <2> QED
    BY <1>3, <2>6 DEF Users, podInfo, NoneNew
<1>4. ASSUME NEW u \in PodUids, ReportPhase(u) PROVE FALSE
  BY <1>4 DEF ReportPhase
<1>5. CASE DeleteExcess
  BY <1>1, <1>2, <1>5 DEF DeleteExcess, podInfo, vars, NoneNew
<1>6. CASE WriteScaling
  <2>1. \A nm, n, k, ok : UpdateReplicaSet(nm, n, k, ok) => UNCHANGED pods
    BY DEF UpdateReplicaSet, registry, podVars
  <2>2. NoneNew
    BY <1>2, <1>6, <2>1 DEF WriteScaling, vars
  <2> QED
    BY <1>6, <2>2 DEF WriteScaling, podInfo, NoneNew
<1>7. CASE \/ ListReplicaSets \/ ListPods \/ CheckReplicaSet \/ NextReplicaSet \/ PassEnds
           \/ ListScalers \/ ListScaledPods \/ Scale \/ ScalerListEnds \/ Panic
           \/ ManagerRestarts \/ UNCHANGED rsSystem
  <2>1. UNCHANGED <<pods, labels, failed>>
    BY <1>7 DEF ListReplicaSets, ListPods, CheckReplicaSet, NextReplicaSet, PassEnds, ListScalers,
       ListScaledPods, Scale, ScalerListEnds, Panic, ManagerRestarts, rsSystem, vars, registry,
       podVars, podInfo
  <2> QED
    BY <2>1
<1> QED
  BY <1>3, <1>4, <1>5, <1>6, <1>7 DEF RsNext, SyncReplicaSet, Autoscale

LEMMA AliveOnlyGo ==
    ASSUME RsInv, [RsNext]_rsSystem, reports = 0, reports' = 0, ~AddReplica, NEW S
    PROVE  AliveOf(S)' \subseteq AliveOf(S)
  BY PodsOnlyGo DEF AliveOf

LEMMA AliveAdded ==
    ASSUME RsInv, AddReplica, NEW S
    PROVE  /\ failed' = failed
           /\ \A u \in PodUids : pods'[u] # None =>
                 \/ u = NewUid /\ labels'[u] = rep.template
                 \/ pods[u] # None /\ labels'[u] = labels[u]
           /\ AliveOf(S)' \subseteq AliveOf(S) \union {NewUid}
           /\ ~(S \subseteq rep.template) => AliveOf(S)' \subseteq AliveOf(S)
<1>1. /\ NewUid \in PodUids
      /\ \A u \in PodUids : labels'[u] = IF u = NewUid THEN rep.template ELSE labels[u]
  BY AddReplicaLabels DEF RsInv
<1>2. failed' = failed
  BY DEF AddReplica
<1>3. pods \in [PodUids -> Pod \union {None}]
  BY DEF RsInv, RegistryInv, TypeOK
<1> DEFINE n == NewUid
<1>4. \A u \in PodUids : u # n => pods'[u] = pods[u]
  <2>1. PICK ok \in BOOLEAN, k \in 0 .. 2 : AddPod(NameOf[n], n, k, ok)
    BY DEF AddReplica
  <2> HIDE DEF n
  <2> QED
    BY <1>3, <2>1 DEF AddPod
<1> HIDE DEF n
<1>5. \A u \in PodUids : labels'[u] = IF u = n THEN rep.template ELSE labels[u]
  BY <1>1 DEF n
<1>6. \A u \in PodUids : pods'[u] # None =>
         \/ u = n /\ labels'[u] = rep.template
         \/ pods[u] # None /\ labels'[u] = labels[u]
  BY <1>4, <1>5
<1>7. \A u \in PodUids : u \in AliveOf(S)' =>
         u \in AliveOf(S) \/ (u = n /\ S \subseteq rep.template)
  BY <1>2, <1>6 DEF AliveOf
<1>8. AliveOf(S)' \subseteq PodUids
  BY DEF AliveOf
<1> QED
  BY <1>2, <1>6, <1>7, <1>8 DEF n

(* What a step that is not the controller's does to its locals: nothing,   *)
(* or it ends the process.                                                 *)
LEMMA OthersLeavePass ==
    ASSUME [RsNext]_rsSystem, faults \in Nat, faults' = faults,
           ~ListReplicaSets, ~ListPods, ~CheckReplicaSet, ~AddReplica
    PROVE  /\ allPods' = allPods \/ (allPods' = {} /\ rc' = "sets")
           /\ reps' = reps /\ rep' \in {rep, None}
           /\ \/ rc' = rc /\ rep' = rep /\ toStart' = toStart
              \/ rc = "work" /\ rc' = "check"
              \/ rc' \in {"sets", "down"}
<1>1. CASE DeleteExcess \/ NextReplicaSet \/ PassEnds \/ Panic
  BY <1>1 DEF DeleteExcess, NextReplicaSet, PassEnds, Panic
<1>2. ~ManagerRestarts
  BY DEF ManagerRestarts
<1>3. Users \/ (\E u \in PodUids : ReportPhase(u)) \/ ListScalers \/ ListScaledPods \/ Scale
         \/ ScalerListEnds \/ WriteScaling \/ UNCHANGED rsSystem => UNCHANGED rcVars
  BY DEF Users, ReportPhase, ListScalers, ListScaledPods, Scale, ScalerListEnds, WriteScaling,
     rsSystem
<1>4. CASE UNCHANGED rcVars
  BY <1>4 DEF rcVars
<1> QED
  BY <1>1, <1>2, <1>3, <1>4 DEF RsNext, SyncReplicaSet, Autoscale

LEMMA PodsKnownStep ==
    ASSUME RsInv, AskedInv, PodsKnown, [RsNext]_rsSystem,
           faults \in Nat, faults' = faults, reports = 0, reports' = 0
    PROVE  PodsKnown'
<1> DEFINE Known == \A u \in PodUids : pods'[u] # None =>
                       \E spec \in RsSpecs : labels'[u] = spec.template
<1>1. CASE AddReplica
  <2>1. rep # None
    BY <1>1 DEF AddReplica, RsInv, RsTypeOK
  <2>2. \E spec \in RsSpecs : rep.template = spec.template
    BY <2>1 DEF AskedInv, Asked
  <2>3. Known
    BY <1>1, <2>2, AliveAdded DEF PodsKnown
  <2>4. failed' = failed /\ allPods' = allPods
    BY <1>1 DEF AddReplica
  <2> QED
    BY <2>3, <2>4 DEF PodsKnown
<1>2. CASE ~AddReplica
  <2>1. labels' = labels /\ failed' = failed /\ \A u \in PodUids : pods'[u] # None => pods[u] # None
    BY <1>2, PodsOnlyGo
  <2>2. CASE ListPods
    <3>1. ASSUME NEW p \in PodsListed PROVE ~p.failed
      <4>1. PICK u \in PodUids : p = [uid |-> u, labels |-> labels[u], failed |-> u \in failed]
        BY DEF PodsListed
      <4>2. p.failed = (u \in failed)
        BY <4>1
      <4>3. ~(u \in failed)
        BY DEF PodsKnown
      <4> QED
        BY <4>2, <4>3, Zenon
    <3>2. \A p \in allPods' : ~p.failed
      BY <2>2, <3>1 DEF ListPods
    <3> QED
      BY <2>1, <3>2 DEF PodsKnown
  <2>3. CASE ~ListPods
    <3>1. allPods' \in {allPods, {}}
      BY <1>2, <2>3, OthersLeavePass DEF ListReplicaSets, CheckReplicaSet
    <3> QED
      BY <2>1, <3>1 DEF PodsKnown
  <2> QED
    BY <2>2, <2>3
<1> QED
  BY <1>1, <1>2

LEMMA PassesApartStep ==
    ASSUME OneSetPerSelector, PassesApart, [RsNext]_rsSystem, faults \in Nat, faults' = faults
    PROVE  PassesApart'
<1>1. CASE ListReplicaSets
  <2>1. rc' = "pods" /\ (reps' = Sets \/ reps' = {})
    BY <1>1 DEF ListReplicaSets
  <2>2. \A a, b \in Sets : a.selector = b.selector => a = b
    BY DEF Sets, OneSetPerSelector
  <2> QED
    BY <2>1, <2>2 DEF PassesApart
<1>2. CASE ListPods
  BY <1>2 DEF ListPods, PassesApart
<1>3. CASE CheckReplicaSet
  BY <1>3 DEF CheckReplicaSet, PassesApart
<1>4. CASE AddReplica
  BY <1>4 DEF AddReplica, PassesApart
<1>5. CASE ~ListReplicaSets /\ ~ListPods /\ ~CheckReplicaSet /\ ~AddReplica
  BY <1>5, OthersLeavePass DEF PassesApart
<1> QED
  BY <1>1, <1>2, <1>3, <1>4, <1>5

(* Stated of one selector of the list: what is alive of it was listed.     *)
LEMMA AliveListedStep ==
    ASSUME SelectorsApart, RsInv, AskedInv, PodsKnown, PassesApart, AliveListed, [RsNext]_rsSystem,
           faults \in Nat, faults' = faults, reports = 0, reports' = 0
    PROVE  AliveListed'
<1> SUFFICES ASSUME rc' \in {"check", "work"}, NEW r \in reps', NEW u \in AliveOf(r.selector)'
             PROVE  \E p \in MatchingOf(r.selector)' : p.uid = u
  BY DEF AliveListed
<1> DEFINE S == r.selector
<1>1. CASE ListPods
  <2>1. ~AddReplica /\ ~ListFails
    BY <1>1 DEF ListPods, AddReplica, ListFails
  <2>2. allPods' = PodsListed
    BY <1>1, <2>1 DEF ListPods
  <2>3. u \in AliveOf(S)
    BY <2>1, AliveOnlyGo
  <2>4. u \in PodUids /\ pods[u] # None /\ labels[u] # {} /\ S \subseteq labels[u]
    BY <2>3 DEF AliveOf
  <2> DEFINE p == [uid |-> u, labels |-> labels[u], failed |-> u \in failed]
  <2>5. p \in PodsListed
    BY <2>4 DEF PodsListed
  <2>6. p.uid = u /\ p.labels = labels[u]
    OBVIOUS
  <2> HIDE DEF p
  <2>7. p \in MatchingOf(S)'
    BY <2>2, <2>4, <2>5, <2>6 DEF MatchingOf
  <2> QED
    BY <2>6, <2>7
<1>2. CASE CheckReplicaSet
  <2>1. rc = "check" /\ r \in reps /\ allPods' = allPods /\ ~AddReplica
    BY <1>2 DEF CheckReplicaSet, AddReplica
  <2>2. u \in AliveOf(S)
    BY <2>1, AliveOnlyGo
  <2> QED
    BY <2>1, <2>2 DEF AliveListed, MatchingOf
<1>3. CASE AddReplica
  <2>1. rc = "work" /\ reps' = reps /\ allPods' = allPods /\ rep # None
    BY <1>3 DEF AddReplica, RsInv, RsTypeOK
  <2>2. r \in reps /\ r.selector # rep.selector /\ Asked(r) /\ Asked(rep)
    BY <2>1 DEF PassesApart, AskedInv
  <2>3. ~(S \subseteq rep.template)
    BY <2>2, TemplatesApart
  <2>4. u \in AliveOf(S)
    BY <1>3, <2>3, AliveAdded
  <2> QED
    BY <2>1, <2>2, <2>4 DEF AliveListed, MatchingOf
<1>4. CASE ~ListReplicaSets /\ ~ListPods /\ ~CheckReplicaSet /\ ~AddReplica
  <2>1. reps' = reps /\ allPods' = allPods /\ rc \in {"check", "work"}
    BY <1>4, OthersLeavePass
  <2>2. u \in AliveOf(S)
    BY <1>4, AliveOnlyGo
  <2> QED
    BY <2>1, <2>2 DEF AliveListed, MatchingOf
<1>5. ~ListReplicaSets
  BY DEF ListReplicaSets
<1> QED
  BY <1>1, <1>2, <1>3, <1>4, <1>5

(* oneReplicaSetCheck: what the pass is about to add makes up for what was *)
(* listed, and so at most for what is alive.                               *)
LEMMA MissingMakesUp ==
    ASSUME RsInv, PodsFinite, AskedInv, NumbersFinite, PodsKnown, AliveListed, rc = "check",
           NEW r \in reps, Cardinality(AliveOf(r.selector)) <= Max(Wanted)
    PROVE  Cardinality(AliveOf(r.selector)) + Missing(r) <= Max(Wanted)
<1> DEFINE S == r.selector
           M == MatchingOf(S)
           f == [p \in M |-> p.uid]
           T == {p.uid : p \in M}
<1>1. Matching(r) = M /\ Counted(Matching(r)) = M
  BY DEF Matching, MatchingOf, Counted, PodsKnown
<1>2. IsFiniteSet(M) /\ Cardinality(M) \in Nat
  <2>1. M \subseteq allPods
    BY DEF MatchingOf
  <2> QED
    BY <2>1, FS_Subset, FS_CardinalityType DEF PodsFinite
<1>3. IsFiniteSet(T) /\ Cardinality(T) <= Cardinality(M) /\ Cardinality(T) \in Nat
  <2>1. f \in [M -> T] /\ \A t \in T : \E p \in M : f[p] = t
    OBVIOUS
  <2> HIDE DEF f, T, M
  <2>2. f \in Surjection(M, T)
    BY <2>1 DEF Surjection
  <2> QED
    BY <1>2, <2>2, FS_Surjection, FS_CardinalityType
<1>4. AliveOf(S) \subseteq T
  BY DEF AliveListed
<1>5. Cardinality(AliveOf(S)) <= Cardinality(T) /\ Cardinality(AliveOf(S)) \in Nat
  <2> HIDE DEF T
  <2> QED
    BY <1>3, <1>4, FS_Subset, FS_CardinalityType
<1>6. r.replicas \in Nat /\ r.replicas <= Max(Wanted)
  BY DEF RsInv, RsTypeOK, ReplicaSet, AskedInv, Asked
<1>7. Max(Wanted) \in Nat
  <2>1. PICK spec \in RsSpecs : TRUE
    BY DEF AskedInv, Asked
  <2>2. spec.replicas \in Wanted
    BY DEF Wanted
  <2> QED
    BY <2>2, WantedBound
<1>8. Missing(r) = IF Cardinality(M) < r.replicas THEN r.replicas - Cardinality(M) ELSE 0
  BY <1>1 DEF Missing
<1> HIDE DEF M, T, f
<1> QED
  BY <1>2, <1>3, <1>5, <1>6, <1>7, <1>8

(* A selector's pods, and those the pass will add, after a step.           *)
LEMMA FewEnoughOf ==
    ASSUME SelectorsApart, NumbersFinite, RsInv, PodsFinite, AskedInv,
           PodsKnown, AliveListed, FewEnough, [RsNext]_rsSystem,
           faults \in Nat, faults' = faults, reports = 0, reports' = 0,
           NEW S \in Selectors
    PROVE  Cardinality(AliveOf(S)') + Expected(S)' <= Max(Wanted)
<1> DEFINE m == Max(Wanted)
           A == AliveOf(S)
           B == AliveOf(S)'
<1>1. IsFiniteSet(A) /\ Cardinality(A) \in Nat
  BY AliveFinite, FS_CardinalityType
<1>2. toStart \in Nat /\ Expected(S) \in Nat /\ Cardinality(A) + Expected(S) <= m
  BY DEF RsInv, RsTypeOK, Expected, FewEnough
<1>3. m \in Nat
  <2>1. PICK spec \in RsSpecs : spec.selector = S
    BY DEF Selectors
  <2>2. spec.replicas \in Wanted
    BY DEF Wanted
  <2> QED
    BY <2>2, WantedBound
<1>4. B \subseteq A => Cardinality(B) \in Nat /\ Cardinality(B) <= Cardinality(A)
  <2> HIDE DEF A, B
  <2> QED
    BY <1>1, NoMore
<1> HIDE DEF m, A, B
<1>5. CASE AddReplica
  <2>1. /\ rc = "work" /\ rc' = "work" /\ rep' = rep
        /\ toStart > 0 /\ toStart' = toStart - 1 /\ rep # None
    BY <1>5 DEF AddReplica, RsInv, RsTypeOK
  <2>2. CASE S = rep.selector
    <3>1. Expected(S) = toStart /\ Expected(S)' = toStart - 1
      BY <2>1, <2>2 DEF Expected
    <3>2. Cardinality(B) \in Nat /\ Cardinality(B) <= Cardinality(A) + 1
      <4>1. B \subseteq A \union {NewUid}
        BY <1>5, AliveAdded DEF A, B
      <4> QED
        BY <1>1, <4>1, OneMore
    <3> QED
      BY <1>1, <1>2, <1>3, <2>1, <3>1, <3>2 DEF B, m
  <2>3. CASE S # rep.selector
    <3>1. Expected(S)' = 0
      BY <2>1, <2>3 DEF Expected
    <3>2. ~(S \subseteq rep.template)
      BY <2>1, <2>3 DEF AskedInv, Asked, SelectorsApart, Selectors
    <3>3. B \subseteq A
      BY <1>5, <3>2, AliveAdded DEF A, B
    <3> QED
      BY <1>1, <1>2, <1>3, <1>4, <3>1, <3>3 DEF B, m
  <2> QED
    BY <2>2, <2>3
<1>6. CASE CheckReplicaSet
  <2>1. PICK r \in reps : rep' = r /\ toStart' = Missing(r) /\ rc = "check" /\ rc' = "work"
    BY <1>6 DEF CheckReplicaSet
  <2>2. B \subseteq A
    BY <1>6, AliveOnlyGo DEF A, B, CheckReplicaSet, AddReplica
  <2>3. Missing(r) \in Nat
    BY MissingIsNat DEF PodsFinite, RsInv, RsTypeOK
  <2>4. CASE S = r.selector
    <3>1. Expected(S)' = Missing(r)
      BY <2>1, <2>4 DEF Expected
    <3>2. Cardinality(A) <= m
      BY <1>1, <1>2, <1>3
    <3>3. Cardinality(A) + Missing(r) <= m
      BY <2>1, <2>4, <3>2, MissingMakesUp DEF A, m
    <3> QED
      BY <1>1, <1>3, <1>4, <2>2, <2>3, <3>1, <3>3 DEF B, m
  <2>5. CASE S # r.selector
    <3>1. Expected(S)' = 0
      BY <2>1, <2>5 DEF Expected
    <3> QED
      BY <1>1, <1>2, <1>3, <1>4, <2>2, <3>1 DEF B, m
  <2> QED
    BY <2>4, <2>5
<1>7. CASE ~AddReplica /\ ~CheckReplicaSet
  <2>1. B \subseteq A
    BY <1>7, AliveOnlyGo DEF A, B
  <2>2. Expected(S)' = 0 \/ Expected(S)' = Expected(S)
    <3>1. CASE ListReplicaSets \/ ListPods
      BY <3>1 DEF ListReplicaSets, ListPods, Expected
    <3>2. CASE ~ListReplicaSets /\ ~ListPods
      BY <1>7, <3>2, OthersLeavePass DEF Expected
    <3> QED
      BY <3>1, <3>2
  <2> QED
    BY <1>1, <1>2, <1>3, <1>4, <2>1, <2>2 DEF B, m
<1> QED
  BY <1>5, <1>6, <1>7

LEMMA FewEnoughStep ==
    ASSUME SelectorsApart, NumbersFinite, RsInv, PodsFinite, AskedInv,
           PodsKnown, AliveListed, FewEnough, [RsNext]_rsSystem,
           faults \in Nat, faults' = faults, reports = 0, reports' = 0
    PROVE  FewEnough'
  BY FewEnoughOf DEF FewEnough, Selectors, Wanted

(* Reports of kubelets are only ever counted up.                           *)
LEMMA ReportsGrow ==
    ASSUME reports \in Nat, [RsNext]_rsSystem
    PROVE  reports' >= reports
<1>1. CASE \E u \in PodUids : ReportPhase(u)
  BY <1>1 DEF ReportPhase
<1>2. Users \/ SyncReplicaSet \/ Autoscale \/ ManagerRestarts \/ UNCHANGED rsSystem
        => UNCHANGED reports
  BY DEF Users, SyncReplicaSet, ListReplicaSets, ListPods, CheckReplicaSet, DeleteExcess, AddReplica,
     NextReplicaSet, PassEnds, Autoscale, ListScalers, ListScaledPods, Scale, ScalerListEnds,
     WriteScaling, Panic, ManagerRestarts, rsSystem, podInfo
<1> QED
  BY <1>1, <1>2 DEF RsNext

LEMMA QuietStep ==
    ASSUME SelectorsApart, NumbersFinite, faults = 0 => OneSetPerSelector,
           RsInv, PodsFinite, AskedInv, QuietInv, [RsNext]_rsSystem
    PROVE  QuietInv'
<1> SUFFICES ASSUME faults' = 0, reports' = 0
             PROVE  (PodsKnown /\ PassesApart /\ AliveListed /\ FewEnough)'
  BY DEF QuietInv
<1>1. faults \in Nat /\ reports \in Nat
  BY FaultAssumption, RsAssumption DEF RsInv, RegistryInv, TypeOK, RsTypeOK
<1>2. faults = 0 /\ reports = 0
  <2>1. faults' >= faults
    BY <1>1, HandlerSteps, FaultsGrow
  <2>2. reports' >= reports
    BY <1>1, ReportsGrow
  <2> QED
    BY <1>1, <2>1, <2>2
<1>3. PodsKnown /\ PassesApart /\ AliveListed /\ FewEnough /\ OneSetPerSelector /\ faults' = faults
  BY <1>2 DEF QuietInv
<1>4. PodsKnown'
  BY <1>1, <1>2, <1>3, PodsKnownStep
<1>5. PassesApart'
  BY <1>1, <1>3, PassesApartStep
<1>6. AliveListed'
  BY <1>1, <1>2, <1>3, AliveListedStep
<1>7. FewEnough'
  BY <1>1, <1>2, <1>3, FewEnoughStep
<1> QED
  BY <1>4, <1>5, <1>6, <1>7

(* syncReplicaSet over its old lists: as long as no call failed and no     *)
(* failed pod came back, and no two sets with one selector were stored, a  *)
(* set never has more pods running than anybody ever wanted of one, while  *)
(* sets are replaced, rescaled and deleted behind the controller's back.   *)
THEOREM NoExcess ==
    ASSUME SelectorsApart, NumbersFinite
    PROVE  RsSpec /\ [](faults = 0 => OneSetPerSelector) => []NoExcessPods
<1>1. RsInit => AskedInv /\ QuietInv
  <2> SUFFICES ASSUME RsInit PROVE AskedInv /\ QuietInv
    OBVIOUS
  <2>1. AskedInv
    BY DEF RsInit, AskedInv
  <2>2. /\ PodsKnown /\ PassesApart /\ AliveListed
        /\ \A S : AliveOf(S) = {} /\ Expected(S) = 0
    BY DEF RsInit, Init, PodsKnown, PassesApart, AliveListed, AliveOf, Expected
  <2>3. \A spec \in RsSpecs : Max(Wanted) \in Nat
    <3>1. \A spec \in RsSpecs : spec.replicas \in Wanted
      BY DEF Wanted
    <3> QED
      BY <3>1, WantedBound
  <2>4. FewEnough
    BY <2>2, <2>3, FS_EmptySet DEF FewEnough, Selectors
  <2> QED
    BY <2>1, <2>2, <2>4 DEF QuietInv
<1>2. RsInv /\ PodsFinite /\ AskedInv /\ QuietInv /\ (faults = 0 => OneSetPerSelector)
        /\ [RsNext]_rsSystem => AskedInv' /\ QuietInv'
  BY AskedStep, QuietStep
<1>3. RsInv /\ PodsFinite /\ AskedInv /\ QuietInv => NoExcessPods
  <2> SUFFICES ASSUME RsInv, PodsFinite, AskedInv, FewEnough, NEW r \in Sets
               PROVE  Cardinality(Alive(r)) <= Max(Wanted)
    BY DEF QuietInv, NoExcessPods
  <2>1. Asked(r)
    BY DEF Sets, AskedInv
  <2>2. r.selector \in Selectors /\ Alive(r) = AliveOf(r.selector)
    BY <2>1 DEF Asked, Selectors, Alive, AliveOf
  <2>3. Cardinality(AliveOf(r.selector)) \in Nat
    BY AliveFinite, FS_CardinalityType
  <2>4. Expected(r.selector) \in Nat
    BY DEF RsInv, RsTypeOK, Expected
  <2>5. PICK spec \in RsSpecs : spec.replicas \in Wanted
    BY <2>1 DEF Asked, Wanted
  <2>6. Max(Wanted) \in Nat
    BY <2>5, WantedBound
  <2> QED
    BY <2>2, <2>3, <2>4, <2>6 DEF FewEnough
<1> QED
  BY <1>1, <1>2, <1>3, RsInvHolds, PTL DEF RsSpec

(* The same of sets that follow each other under one name: without failing *)
(* calls the old set is gone before AddReplicaSet lets the new one in, so  *)
(* nothing need be assumed of what is stored.                              *)
THEOREM NoExcessOfOneName ==
    ASSUME SelectorsApart, NumbersFinite, \A a, b \in RsNames : a = b
    PROVE  RsSpec => []NoExcessPods
<1>1. RsInv /\ RsDebrisInv => (faults = 0 => OneSetPerSelector)
  <2> SUFFICES ASSUME RsInv, RsDebrisInv, faults = 0,
                      NEW u1 \in RsUids, NEW u2 \in RsUids,
                      replicaSets[u1] # None, replicaSets[u2] # None
               PROVE  u1 = u2
    BY DEF OneSetPerSelector
  <2>1. OrphanSets = {}
    <3>1. /\ Cardinality(OrphanSets) \in Nat /\ Cardinality(DanglingSets) \in Nat
          /\ Cardinality(OrphanHpas) \in Nat /\ Cardinality(DanglingHpas) \in Nat
      BY FS_CardinalityType DEF RsDebrisInv
    <3>2. Cardinality(OrphanSets) = 0
      BY <3>1 DEF RsDebrisInv, RsDebrisBounded
    <3> QED
      BY <3>2, FS_EmptySet DEF RsDebrisInv
  <2>2. rsKey[replicaSets[u1].name] = u1 /\ rsKey[replicaSets[u2].name] = u2
    BY <2>1 DEF OrphanSets
  <2>3. replicaSets[u1].name \in RsNames /\ replicaSets[u2].name \in RsNames
    BY RsTypeParts DEF RsInv, RecordsTyped, ReplicaSet
  <2> QED
    BY <2>2, <2>3
<1> QED
  BY <1>1, RsInvHolds, RsDebrisInvHolds, NoExcess, PTL
=============================================================================
