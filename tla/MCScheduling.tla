---------------------------- MODULE MCScheduling ----------------------------
(* Two pod names and two uids, so that a name is freed and taken again     *)
(* while the scheduler holds the old uid; two kubelets, which bear two     *)
(* names at once or the same name one after the other.                     *)
EXTENDS Scheduling, TLC

CONSTANTS nm1, nm2, u1, u2, w1, w2

MCHostKey == nm1 :> "ns_nm1" @@ nm2 :> "ns_nm2"
MCHostKeys == {"ns_nm1", "ns_nm2"}
MCAffine == {<<u1, w1>>, <<u1, w2>>, <<u2, w2>>}
=============================================================================
