--------------------------- MODULE MCPodRegistry ---------------------------
(* A small registry for TLC: two pod names, so that one can be freed and   *)
(* taken again; enough uids for a pod and a node to be replaced; two node  *)
(* names, so that a pod can move.                                          *)
EXTENDS PodRegistry, TLC

CONSTANTS nm1, nm2, u1, u2, u3, w1, w2, w3

MCHostKey == nm1 :> "ns_nm1" @@ nm2 :> "ns_nm2"
MCHostKeys == {"ns_nm1", "ns_nm2"}

(* Uids are drawn at random: any renaming of them gives the same run.      *)
Symmetry == Permutations({u1, u2, u3}) \union Permutations({w1, w2, w3})
=============================================================================
