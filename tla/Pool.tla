-------------------------------- MODULE Pool --------------------------------
(***************************************************************************)
(* What a caller of pkg/kubeapiserver/utils/alloc.go may rely on: a pool   *)
(* of Size numbered slots, each taken or free; an allocation hands out the *)
(* first free slot or is refused, a release gives a taken slot back or is  *)
(* refused.  PodRegistry and ServiceRegistry keep their bitmaps this way.  *)
(***************************************************************************)
EXTENDS Integers

CONSTANTS Size,      \* IPPoolSize (256) or NodePoolSize (64)
          Requests,  \* the slot numbers callers ask to release
          Refused,   \* the outcome of a call that returns an error
          Done       \* the outcome of a release that returns nil

VARIABLES taken,     \* the slots handed out
          outcome    \* what the last call returned

vars == <<taken, outcome>>

Slots == 0 .. Size - 1

Init == taken = {} /\ outcome = Done

Alloc ==
    \/ \E n \in Slots \ taken :
        /\ \A m \in Slots \ taken : n <= m
        /\ taken' = taken \union {n}
        /\ outcome' = n
    \/ /\ Slots \subseteq taken
       /\ outcome' = Refused
       /\ UNCHANGED taken

Release(n) ==
    \/ /\ n \in taken
       /\ taken' = taken \ {n}
       /\ outcome' = Done
    \/ /\ n \notin taken
       /\ outcome' = Refused
       /\ UNCHANGED taken

Next == Alloc \/ \E n \in Requests : Release(n)

Spec == Init /\ [][Next]_vars
=============================================================================
