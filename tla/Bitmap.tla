------------------------------- MODULE Bitmap -------------------------------
(***************************************************************************)
(* The bitmap allocators of pkg/kubeapiserver/utils/alloc.go: AllocIP and  *)
(* FreeIP (pool of 256) and allocInternal and freeInternal behind          *)
(* AllocNode and FreeNode (pool of 64), which are the same code.           *)
(*                                                                         *)
(* A byte is the set of its bits that are 1: 0xff is 0..7, b & (1<<i) # 0  *)
(* is i \in b, b | (1<<i) is b \union {i}, b &^ (1<<i) is b \ {i}.  The    *)
(* name "100.0.0.<n>" or "node-<n>" is its number.                         *)
(***************************************************************************)
EXTENDS Integers, FiniteSetsExt

CONSTANTS Bytes,     \* length of the bitmap: size/8
          Requests,  \* the slot numbers callers ask to release
          Refused, Done

ASSUME BytesAssumption == Bytes \in Nat \ {0}
ASSUME OutcomeAssumption == Refused \notin Int /\ Done \notin Int /\ Refused # Done
ASSUME RequestsAssumption == Requests \subseteq Int

VARIABLES bitmap, outcome

vars == <<bitmap, outcome>>

Bits == 0 .. 7
Index == 0 .. Bytes - 1
Size == 8 * Bytes

Init ==
    /\ bitmap = [x \in Index |-> {}]     \* make([]byte, size/8)
    /\ outcome = Done

(* The outer loop skips the bytes that are 0xff.                           *)
Open == {x \in Index : bitmap[x] # Bits}

(* Mutant of SlotOf: the bit's number forgets the bytes before it.         *)
SlotOfByte(x, i) == x + i

SlotOf(x, i) == x * 8 + i

(* AllocIP, allocInternal: the first byte that is not full, its first zero *)
(* bit.                                                                    *)
AllocInternal ==
    \/ \E x \in Open :
        /\ \A y \in Open : x <= y
        /\ \E i \in Bits \ bitmap[x] :
            /\ \A j \in Bits \ bitmap[x] : i <= j
            /\ bitmap' = [bitmap EXCEPT ![x] = @ \union {i}]
            /\ outcome' = SlotOf(x, i)
    \/ /\ Open = {}
       /\ outcome' = Refused
       /\ UNCHANGED bitmap

InRange(n) == 0 <= n /\ n < Size

(* FreeIP, freeInternal: refuses a number outside the pool and a bit that  *)
(* is not set.                                                             *)
FreeInternal(n) ==
    \/ /\ InRange(n)
       /\ n % 8 \in bitmap[n \div 8]
       /\ bitmap' = [bitmap EXCEPT ![n \div 8] = @ \ {n % 8}]
       /\ outcome' = Done
    \/ /\ InRange(n) => n % 8 \notin bitmap[n \div 8]
       /\ outcome' = Refused
       /\ UNCHANGED bitmap

Next == AllocInternal \/ \E n \in Requests : FreeInternal(n)

Spec == Init /\ [][Next]_vars

-----------------------------------------------------------------------------
TypeOK ==
    /\ bitmap \in [Index -> SUBSET Bits]
    /\ outcome \in (0 .. Size - 1) \union {Refused, Done}

(* The pool a bitmap stands for.                                           *)
Taken == {n \in 0 .. Size - 1 : n % 8 \in bitmap[n \div 8]}

P == INSTANCE Pool WITH taken <- Taken

(* alloc.go as a whole: callers see a pool that hands out the first free   *)
(* slot, never one that is taken, refuses only when none is left, and      *)
(* takes back exactly the slots it handed out.                             *)
ImplementsPool == P!Spec
=============================================================================
