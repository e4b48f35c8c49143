---------------------------- MODULE MCReplicaSets ---------------------------
(* One set that can be replaced by one with other labels, scaled to zero   *)
(* and back by its scaler.  Pods enough for every pass of the controller.  *)
EXTENDS ReplicaSets, TLC

CONSTANTS web, hpa, r1, r2, h1

MCPodUids == 1 .. 7
MCNameOf  == [u \in MCPodUids |-> u]  \* the names are numbers too
MCHostKey == [nm \in MCPodUids |-> "key"]

Set(selector, template, n) == [selector |-> selector, template |-> template, replicas |-> n]
Step(type, n) == [type |-> type, value |-> n]
Scaler(min, max, up, down) ==
    [target |-> web, min |-> min, max |-> max, up |-> up, down |-> down]

MCRsSpecs  == {Set({"web"}, {"web", "v1"}, 2), Set({"db"}, {"db"}, 1)}
Lacking    == Scaler(1, 2, None, Step("Pods", 1))  \* a scaler without a scaleUp policy
MCHpaSpecs == {Scaler(1, 2, Step("Percent", 100), Step("Pods", 1)), Lacking}
NoScaleUp  == {Lacking}

(* A scaler whose lower bound the set is below.                            *)
HighMin == {Scaler(3, 4, Step("Pods", 1), Step("Pods", 1))}
OneWeb  == {Set({"web"}, {"web"}, 1)}
=============================================================================
