------------------------------- MODULE MCPilot -------------------------------
(* Three pods of service a, one of which b selects too; two rolling        *)
(* updates, two subsets, a canary by weights and one by URL.               *)
EXTENDS Pilot, TLC

CONSTANTS a, b, p1, p2, p3, v1, v2, canary, ru1, ru2

MCUidsOf  == p1 :> {1, 2, 3} @@ p2 :> {4, 5, 6} @@ p3 :> {7, 8}
MCHostKey == [nm \in Names |-> "key"]
MCBacks == {<<a, p1>>, <<a, p2>>, <<a, p3>>, <<b, p2>>}

Weighted(x, y) == <<[subset |-> v1, weight |-> x], [subset |-> v2, weight |-> y]>>

RollOf(s, name, min) == [op |-> "AddRollingUpdate", name |-> name, svc |-> s, min |-> min]
Roll(name, min)   == RollOf(a, name, min)
Unroll(name)      == [op |-> "DeleteRollingUpdate", name |-> name]
Subset(name, ps)  == [op |-> "AddSubset", name |-> name, pods |-> ps]
Unset(name)       == [op |-> "DeleteSubset", name |-> name]
Canary(split)     == [op |-> "AddVirtualService", name |-> canary, svc |-> a, split |-> split]
NoCanary          == [op |-> "DeleteVirtualService", name |-> canary]
Create(nm)        == [op |-> "AddPod", name |-> nm]
Erase(nm)         == [op |-> "DeletePod", name |-> nm]
Serve(s)          == [op |-> "AddService", svc |-> s]
Withdraw(s)       == [op |-> "DeleteService", svc |-> s]

Scene(ps, ss, requests, fault, n) ==
    [pods |-> ps, services |-> ss, asks |-> requests, fault |-> fault, rounds |-> n]

TwoUpdates  == Scene({p1, p2}, {a}, {Roll(ru1, 1), Roll(ru2, 0)}, "never", 0)
LateUpdate  == Scene({p1}, {a}, {Roll(ru1, 0), Roll(ru2, 0)}, "never", 1)
UnevenBatch == Scene({p1, p2, p3}, {a}, {Roll(ru1, 1)}, "never", 1)
SlowUpdate  == Scene({p1, p2}, {a}, {Roll(ru1, 1)}, "never", 3)
Meddling    == Scene({p1, p2}, {a}, {Roll(ru1, 1), Erase(p1),
                     [op |-> "DeleteVirtualService", name |-> RollingVs(a)]}, "never", 0)
TakenBack   == Scene({p1, p2}, {a}, {Roll(ru1, 1), Roll(ru2, 0), Unroll(ru2)}, "never", 0)
PanicsAmid  == Scene({p1, p2}, {a}, {Roll(ru1, 1), Canary(<<>>)}, "never", 1)
CutUpdate   == Scene({p1, p2}, {a}, {Roll(ru1, 1), Unroll(ru1)}, "any", 1)
CanaryGrows == Scene({p1, p2, p3}, {a, b}, {Subset(v1, {p1, p2}), Subset(v1, {p2}), Subset(v2, {p3}),
                     Canary(Weighted(1, 2)), NoCanary, Erase(p1), Create(p1)}, "never", 0)
CanaryByURL == Scene({p1, p2}, {a}, {Subset(v1, {p1}), Subset(v2, {}), Canary(Weighted(None, None)),
                     NoCanary, Unset(v1), Create(p3)}, "any", 0)
Services2   == Scene({p2}, {a}, {Serve(b), Withdraw(a), Subset(v1, {p2}), Subset(v2, {}),
                     Canary(Weighted(3, 1)), Erase(p2)}, "any", 0)

Malformed   == Scene({p1}, {a}, {Subset(v1, {p1}), Subset(v2, {}), Canary(Weighted(1, None)), NoCanary,
                     Canary(<<>>)}, "never", 0)

MCScenarios == {TwoUpdates, LateUpdate, Meddling, UnevenBatch, SlowUpdate, TakenBack,
                PanicsAmid, CutUpdate, CanaryGrows, CanaryByURL,
                Services2, Malformed}

(* Where properties fail.                                                  *)
RestartScene == {Scene({p1, p2}, {a}, {Roll(ru1, 1)}, "restart", 2)}
PanicScene   == {Scene({p1}, {a}, {Withdraw(a), Subset(v1, {p1}), Canary(<<[subset |-> v1, weight |-> 1]>>)}, "never", 2)}
OthersScene  == {Scene({p2}, {a, b}, {Unset(v1), Subset(v1, {}), Canary(<<[subset |-> v1, weight |-> 1]>>), Erase(p2)}, "never", 2)}
SharedScene  == {Scene({p1, p2}, {a, b}, {Roll(ru1, 1), RollOf(b, ru2, 0)}, "never", 0)}
UpdateScene  == {Scene({p1, p2}, {a}, {Roll(ru1, 1)}, "never", 2)}
=============================================================================
