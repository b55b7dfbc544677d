---------------------------- MODULE MCCheckNetwork ----------------------------
EXTENDS CheckNetwork

CONSTANTS k1, k2, k3

Configured(hub, passive, c1, c2, client) ==
  [role \in Start!Roles |->
     CASE role = "hub" -> hub [] role = "hub-passive" -> passive
       [] role = "c1" -> c1 [] role = "c2" -> c2 [] role = "c1-client-1" -> client
       [] role = "c2-client-1" -> NoPath]

(* Three clusters, the client of c1 named by its own field or not; the      *)
(* passive hub in the place of the client; the hub on c1; c2 not configured *)
SomeConfigs ==
  {Configured(k1, NoPath, k2, k3, NoPath), Configured(k1, NoPath, k2, k3, k2),
   Configured(k2, NoPath, k2, k3, NoPath), Configured(k1, NoPath, k2, NoPath, NoPath)}

World(sub1, sub2, host, faults) ==
  [skip |-> {}, hostNet |-> host, faults |-> faults,
   submariner |-> [c \in Bases |-> IF c = "c1" THEN sub1 ELSE sub2]]

(* Every path of the Ceph check, and on each a fault of each kind that only *)
(* one check can find; then the ways to skip checks.                        *)
Shapes ==
  {World("none", "none", {}, {}), World("none", "none", Bases, {}),
   World("plain", "globalnet", {}, {}), World("globalnet", "globalnet", {"c2"}, {})}

OneFault ==
  {<<"reach", "ceph", "c1">>, <<"reach", "provider", "c1">>, <<"reach", "s3", "c2">>,
   <<"noProxy", "ceph", k3>>, <<"noProxy", "provider", k2>>, <<"noProxy", "s3", k1>>}

Both == World("plain", "globalnet", {}, {})

SomeWorlds ==
  Shapes
  \cup {[w EXCEPT !.faults = {f}] : w \in Shapes \ {World("none", "none", {}, {})}, f \in OneFault}
  \cup {[Both EXCEPT !.skip = s, !.faults = {<<"reach", "s3", "c1">>}] :
           s \in {{"provider"}, {"ceph", "s3"}, Checks}}

=============================================================================
