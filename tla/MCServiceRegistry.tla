------------------------- MODULE MCServiceRegistry -------------------------
(* Two service names and three uids: a name can be freed and taken again,  *)
(* and an orphan can meet a new service.  Two node ports that may conflict *)
(* and two IPs, so that the pool runs out.  DNS specs that overlap in one  *)
(* host of two, and one that needs a service.                              *)
EXTENDS ServiceRegistry, TLC

CONSTANTS svc1, svc2, s1, s2, s3, dns1, dns2, d1, d2, d3

MCSvcSpecs == {[ports |-> {80}, nodePorts |-> {}],
               [ports |-> {80}, nodePorts |-> {30080}]}

MCDNSSpecs == {[hosts |-> {"a.com", "b.com"}, backends |-> {}],
               [hosts |-> {"b.com"}, backends |-> {<<svc1, 80>>}]}

MCHosts == {"a.com", "b.com"}

Symmetry == Permutations({s1, s2, s3}) \union Permutations({d1, d2, d3})
=============================================================================
