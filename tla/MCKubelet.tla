------------------------------ MODULE MCKubelet ------------------------------
(* One pod with one or two containers, or two pods of one name (a pod      *)
(* deleted and created again) with one container each.                     *)
EXTENDS Kubelet, TLC

CONSTANTS u1, u2, c1, c2, nm

MCNameOf == [u \in PodUids |-> nm]

Scene(containers, t, e, f, interrupt) ==
    [containers |-> containers, turns |-> t, exits |-> e, faults |-> f, interrupt |-> interrupt]

One == u1 :> {c1}
Two == u1 :> {c1, c2}

(* The safety run: one pod in every adversity, or two of one name.         *)
OneOrPair == {Scene(u1 :> {c1, c2} @@ u2 :> {}, 2, 2, 1, TRUE),
              Scene(u1 :> {c1} @@ u2 :> {c1}, 2, 0, 0, FALSE)}

(* With fair goroutines, and where properties fail.                        *)
LiveScene     == {Scene(Two, 2, 1, 0, TRUE)}
RestartScene  == {Scene(Two, 1, 1, 0, FALSE)}
StatusScene   == {Scene(One, 1, 1, 0, FALSE)}
ShutdownScene == {Scene(One, 2, 0, 0, TRUE)}
ReturnScene   == {Scene(One, 3, 0, 0, FALSE)}
DeadlockScene == {Scene(One, 3, 0, 0, TRUE)}
=============================================================================
