----------------------------- MODULE MCKubeproxy -----------------------------
(* A service, its successor of the same name, one of another name, and one *)
(* of the first's name in another namespace; two pods that run one after   *)
(* the other with one address, exposing different ports; a DNS object with *)
(* two hosts on two services and one with one of the two hosts.            *)
EXTENDS Kubeproxy, TLC

CONSTANTS a, a2, b, c, p1, p2, d1, d2, ns_a, ns_b, other_a, hostIP

MCNameOf == a :> ns_a @@ a2 :> ns_a @@ b :> ns_b @@ c :> other_a
MCShortName == ns_a :> "a" @@ ns_b :> "b" @@ other_a :> "a"

Port(port, target, nodePort) == [port |-> port, target |-> target, node |-> nodePort]
WebPorts == <<Port(80, 8080, 30080), Port(81, 8081, 30081)>>
MCPortsOf == [s \in Services |-> IF s \in {a, a2} THEN WebPorts ELSE <<Port(80, 8080, None)>>]

(* Two ports of one target.                                                *)
SharedPortsOf == [s \in Services |-> <<Port(80, 8080, None), Port(81, 8080, None)>>]

MCPodIP == [p \in Pods |-> "10.0.0.1"]
MCExposes == p1 :> {8080, 8081} @@ p2 :> {8080}
MCSelected == Services \X Pods

Rule(host, backends) == [host |-> host, backends |-> backends]
MCRulesOf == d1 :> <<Rule("a.com", {ns_a}), Rule("b.com", {ns_b})>>
             @@ d2 :> <<Rule("a.com", {ns_a})>>

Scene(objects, faultsMax, startsMax) ==
    [objects |-> objects, faults |-> faultsMax, starts |-> startsMax]

(* Endpoints that change under a failure and a successor; restarts; names  *)
(* and hosts that conflict.                                                *)
MCScenarios == {Scene({a, a2, p1, p2}, 0, 1), Scene({a, p1, p2}, 1, 2), Scene({a, a2, p1}, 0, 2),
                Scene({a, b, d1}, 1, 1), Scene({a, a2, d1, d2}, 0, 2), Scene({a, b, d1}, 0, 2),
                Scene({a, c}, 0, 2)}

(* Where properties fail.                                                  *)
RecreateScene == {Scene({a, a2}, 0, 1)}
DNSScene      == {Scene({a, d2}, 0, 1)}
BackendScene  == {Scene({a, b, a2, d2}, 0, 1)}
PortsScene    == {Scene({a, p1}, 0, 1)}
KillScene     == {Scene({a, b}, 0, 2)}
=============================================================================
