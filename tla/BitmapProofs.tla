---------------------------- MODULE BitmapProofs ----------------------------
(* Proofs about Bitmap: for every size, the byte-wise search and the       *)
(* arithmetic of alloc.go implement the pool that hands out the first free *)
(* slot.                                                                   *)
EXTENDS Bitmap, TLAPS

(* idx*8+i numbers the bits: taken apart again it gives byte and bit.      *)
LEMMA SlotOfBit ==
    ASSUME NEW x \in Index, NEW i \in Bits
    PROVE  /\ SlotOf(x, i) \in 0 .. Size - 1
           /\ SlotOf(x, i) \div 8 = x
           /\ SlotOf(x, i) % 8 = i
  BY BytesAssumption DEF SlotOf, Index, Bits, Size

LEMMA BitOfSlot ==
    ASSUME NEW n \in 0 .. Size - 1
    PROVE  /\ n \div 8 \in Index
           /\ n % 8 \in Bits
           /\ SlotOf(n \div 8, n % 8) = n
  BY BytesAssumption DEF SlotOf, Index, Bits, Size

(* Slots are ordered by byte first, then by bit.                           *)
LEMMA SlotOrder ==
    ASSUME NEW x \in Index, NEW y \in Index, NEW i \in Bits, NEW j \in Bits,
           x < y \/ (x = y /\ i <= j)
    PROVE  SlotOf(x, i) <= SlotOf(y, j)
  BY BytesAssumption DEF SlotOf, Index, Bits

LEMMA TypeOKInductive == /\ Init => TypeOK
                         /\ TypeOK /\ [Next]_vars => TypeOK'
<1>1. Init => TypeOK
  BY DEF Init, TypeOK, Bits
<1>2. ASSUME TypeOK, AllocInternal PROVE TypeOK'
  <2>1. CASE \E x \in Open : \E i \in Bits \ bitmap[x] :
                /\ bitmap' = [bitmap EXCEPT ![x] = @ \union {i}]
                /\ outcome' = SlotOf(x, i)
    BY <1>2, <2>1, SlotOfBit DEF TypeOK, Open
  <2>2. CASE outcome' = Refused /\ UNCHANGED bitmap
    BY <1>2, <2>2 DEF TypeOK
  <2> QED
    BY <1>2, <2>1, <2>2 DEF AllocInternal
<1>3. ASSUME TypeOK, NEW n \in Requests, FreeInternal(n) PROVE TypeOK'
  BY <1>3 DEF TypeOK, FreeInternal
<1>4. ASSUME TypeOK, UNCHANGED vars PROVE TypeOK'
  BY <1>4 DEF TypeOK, vars
<1> QED
  BY <1>1, <1>2, <1>3, <1>4 DEF Next

(* What alloc.go keeps and returns is of the declared types.               *)
THEOREM TypeCorrect == Spec => []TypeOK
  BY TypeOKInductive, PTL DEF Spec

(* Setting or clearing one bit adds or removes exactly its slot.           *)
LEMMA TakenAfterSet ==
    ASSUME TypeOK, NEW x \in Index, NEW i \in Bits,
           bitmap' = [bitmap EXCEPT ![x] = @ \union {i}]
    PROVE  Taken' = Taken \union {SlotOf(x, i)}
<1>1. ASSUME NEW n \in 0 .. Size - 1
      PROVE  n \in Taken' <=> n \in Taken \/ n = SlotOf(x, i)
  <2>1. n \div 8 \in Index /\ n % 8 \in Bits /\ SlotOf(n \div 8, n % 8) = n
    BY BitOfSlot
  <2>2. n = SlotOf(x, i) <=> n \div 8 = x /\ n % 8 = i
    BY <2>1, SlotOfBit
  <2> QED
    BY <2>1, <2>2 DEF Taken, TypeOK
<1> QED
  BY <1>1, SlotOfBit DEF Taken

LEMMA TakenAfterClear ==
    ASSUME TypeOK, NEW n \in 0 .. Size - 1,
           bitmap' = [bitmap EXCEPT ![n \div 8] = @ \ {n % 8}]
    PROVE  Taken' = Taken \ {n}
<1>1. ASSUME NEW m \in 0 .. Size - 1
      PROVE  m \in Taken' <=> m \in Taken /\ m # n
  <2>1. /\ m \div 8 \in Index /\ m % 8 \in Bits
        /\ n \div 8 \in Index /\ n % 8 \in Bits
    BY BitOfSlot
  <2>2. m = n <=> m \div 8 = n \div 8 /\ m % 8 = n % 8
    BY BitOfSlot
  <2> QED
    BY <2>1, <2>2 DEF Taken, TypeOK
<1> QED
  BY <1>1 DEF Taken

(* AllocIP, allocInternal: the first zero bit of the first byte that has   *)
(* one is the first free slot.                                             *)
LEMMA AllocImplements == TypeOK /\ AllocInternal => P!Alloc
<1> SUFFICES ASSUME TypeOK, AllocInternal PROVE P!Alloc
  OBVIOUS
<1>1. ASSUME NEW x \in Open, \A y \in Open : x <= y,
             NEW i \in Bits \ bitmap[x], \A j \in Bits \ bitmap[x] : i <= j,
             bitmap' = [bitmap EXCEPT ![x] = @ \union {i}],
             outcome' = SlotOf(x, i)
      PROVE  P!Alloc
  <2> DEFINE n == SlotOf(x, i)
  <2>1. x \in Index /\ i \in Bits
    BY DEF Open
  <2>2. n \in 0 .. Size - 1 /\ n \div 8 = x /\ n % 8 = i
    BY <2>1, SlotOfBit
  <2>3. n \in P!Slots \ Taken
    BY <2>2 DEF P!Slots, Taken
  <2>4. ASSUME NEW m \in P!Slots \ Taken PROVE n <= m
    <3> DEFINE y == m \div 8
               j == m % 8
    <3>1. m \in 0 .. Size - 1
      BY DEF P!Slots
    <3>2. y \in Index /\ j \in Bits /\ SlotOf(y, j) = m
      BY <3>1, BitOfSlot
    <3>3. j \notin bitmap[y]
      BY <3>1 DEF Taken, P!Slots
    <3>4. y \in Open
      BY <3>2, <3>3 DEF Open
    <3> HIDE DEF y, j
    <3>5. x < y \/ (x = y /\ i <= j)
      BY <1>1, <2>1, <3>2, <3>3, <3>4 DEF Index
    <3> QED
      BY <2>1, <3>2, <3>5, SlotOrder
  <2>5. Taken' = Taken \union {n}
    BY <1>1, <2>1, TakenAfterSet
  <2> QED
    BY <1>1, <2>3, <2>4, <2>5 DEF P!Alloc
<1>2. ASSUME Open = {}, outcome' = Refused, UNCHANGED bitmap
      PROVE  P!Alloc
  <2>1. P!Slots \subseteq Taken
    <3> SUFFICES ASSUME NEW m \in 0 .. Size - 1 PROVE m \in Taken
      BY DEF P!Slots
    <3>1. m \div 8 \in Index /\ m % 8 \in Bits
      BY BitOfSlot
    <3>2. bitmap[m \div 8] = Bits
      BY <1>2, <3>1 DEF Open
    <3> QED
      BY <3>1, <3>2 DEF Taken
  <2>2. Taken' = Taken
    BY <1>2 DEF Taken
  <2> QED
    BY <1>2, <2>1, <2>2 DEF P!Alloc
<1> QED
  BY <1>1, <1>2 DEF AllocInternal

(* FreeIP, freeInternal: exactly the taken slots are given back.           *)
LEMMA FreeImplements ==
    ASSUME TypeOK, NEW n \in Requests, FreeInternal(n)
    PROVE  P!Release(n)
<1>1. ASSUME InRange(n), n % 8 \in bitmap[n \div 8],
             bitmap' = [bitmap EXCEPT ![n \div 8] = @ \ {n % 8}], outcome' = Done
      PROVE  P!Release(n)
  <2>1. n \in 0 .. Size - 1
    BY <1>1, RequestsAssumption, BytesAssumption DEF InRange, Size
  <2>2. n \in Taken
    BY <1>1, <2>1 DEF Taken
  <2> QED
    BY <1>1, <2>1, <2>2, TakenAfterClear DEF P!Release
<1>2. ASSUME InRange(n) => n % 8 \notin bitmap[n \div 8], outcome' = Refused, UNCHANGED bitmap
      PROVE  P!Release(n)
  <2>1. n \notin Taken
    BY <1>2, RequestsAssumption, BytesAssumption DEF Taken, InRange, Size
  <2>2. Taken' = Taken
    BY <1>2 DEF Taken
  <2> QED
    BY <1>2, <2>1, <2>2 DEF P!Release
<1> QED
  BY <1>1, <1>2 DEF FreeInternal

(* alloc.go: for every pool size, the bitmap implements the pool.          *)
THEOREM BitmapImplementsPool == Spec => ImplementsPool
<1>1. Init => P!Init
  <2> SUFFICES ASSUME Init, NEW n \in 0 .. Size - 1 PROVE n % 8 \notin bitmap[n \div 8]
    BY DEF Init, P!Init, Taken
  <2> QED
    BY BitOfSlot DEF Init
<1>2. TypeOK /\ [Next]_vars => [P!Next]_P!vars
  <2> SUFFICES ASSUME TypeOK, [Next]_vars PROVE [P!Next]_P!vars
    OBVIOUS
  <2>1. CASE AllocInternal
    BY <2>1, AllocImplements DEF P!Next
  <2>2. ASSUME NEW n \in Requests, FreeInternal(n) PROVE P!Next
    BY <2>2, FreeImplements DEF P!Next
  <2>3. CASE UNCHANGED vars
    BY <2>3 DEF vars, P!vars, Taken
  <2> QED
    BY <2>1, <2>2, <2>3 DEF Next
<1> QED
  BY <1>1, <1>2, TypeCorrect, PTL DEF Spec, ImplementsPool, P!Spec
=============================================================================
