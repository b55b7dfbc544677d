--------------------------- MODULE MCProviderCheck ---------------------------
(* Provider servers and noProxy lists for ProviderCheck, with addresses of  *)
(* three bits.                                                              *)
EXTENDS ProviderCheck

(* Hosts are the same on both clusters: only one side's list is asked *)
HostOf(c, n) ==
  CASE n = "exported"    -> Name(<<"api", "c", "com">>)
    [] n = "lb"          -> Address(<<0, 0, 0>>, "short")
    [] n = "svc"         -> Name(<<"lb", "c", "com">>)
    [] n = "node1"       -> Address(<<0, 1, 0>>, "short")
    [] n = "node2"       -> Address(<<0, 1, 1>>, "short")
    [] n = "clusterIP"   -> Address(<<1, 0, 0>>, "short")
    [] n = "clusterset"  -> Name(<<"m1", "clusterset", "local">>)
    [] n = "serviceCIDR" -> Cidr(<<1, 0, 0>>, 2)
    [] n = "clusterCIDR" -> Cidr(<<1, 1, 0>>, 2)

(* All of it; the service range only at its base, one node, a domain above, *)
(* and the load balancer's address in another spelling; the service range   *)
(* in two halves, names a level too deep                                    *)
Lists ==
  { {Cidr(<<0, 0, 0>>, 0), Domain(<<"com">>), Name(<<"clusterset", "local">>)},
    {Cidr(<<1, 0, 0>>, 3), Cidr(<<1, 1, 0>>, 2), Address(<<0, 1, 0>>, "short"), Name(<<"c", "com">>),
     Address(<<0, 0, 0>>, "long")},
    {Cidr(<<1, 0, 0>>, 3), Cidr(<<1, 0, 1>>, 3), Cidr(<<1, 0, 0>>, 1),
     Cidr(<<0, 1, 0>>, 2), Domain(<<"lb", "c", "com">>)} }

Plain ==
  [exported |-> FALSE, lb |-> "none", type |-> "LoadBalancer", ready |-> TRUE,
   nodes |-> <<"node1", "node2">>, globalNet |-> FALSE, export |-> TRUE, named |-> TRUE]

With(t) == [Plain EXCEPT !.type = t]
Exported == [Plain EXCEPT !.exported = TRUE]
Both     == [With("NodePort") EXCEPT !.lb = "assigned"]
GlobalNet == [With("ClusterIP") EXCEPT !.globalNet = TRUE]

(* Every shape of the objects that the code tells apart *)
Shapes ==
  {Exported, Both} \cup
  {[Plain EXCEPT !.lb = lb, !.ready = b] : lb \in {"none", "pending", "assigned"}, b \in BOOLEAN} \cup
  {[With(t) EXCEPT !.ready = b] : t \in {"NodePort", "ClusterIP"}, b \in BOOLEAN} \cup
  {With("ExternalName"), [With("NodePort") EXCEPT !.nodes = <<>>]} \cup
  {[GlobalNet EXCEPT !.export = e, !.named = n] : e, n \in BOOLEAN}

Every == Bases \X Endpoints

Network(o1, o2, lost, mute, proxied, list) ==
  [objects |-> [c \in Bases |-> IF c = "c1" THEN o1 ELSE o2],
   reach |-> Every \ lost, serves |-> Every \ (lost \cup mute),
   proxied |-> proxied, noProxy |-> [c \in Bases |-> list]]

(* c1 in every shape and c2 without endpoint, each against a peer without   *)
(* proxy, those with an endpoint against the lists too, and one against the *)
(* wildcard; one endpoint that does not answer, or not over gRPC; and both  *)
(* with an endpoint, which makes two pods.                                  *)
None == With("ExternalName")

AllWorlds ==
  {Network(o, None, {}, {}, {"c1"}, {}) : o \in Shapes} \cup
  {Network(o, None, {}, {}, {"c2"}, l) : o \in {Both, With("ClusterIP"), GlobalNet}, l \in Lists} \cup
  {Network(Exported, None, {}, {}, {"c2"}, {Wildcard})} \cup
  {Network(Both, None, {<<"c1", e>>}, {}, {}, {}) : e \in {"lb", "node2"}} \cup
  {Network(GlobalNet, None, {}, {<<"c1", "clusterset">>}, {}, {}),
   Network(With("ClusterIP"), None, {<<"c1", "clusterIP">>}, {}, {}, {}),
   Network(Exported, Exported, {}, {}, {"c1"}, {Domain(<<"com">>)})}

=============================================================================
