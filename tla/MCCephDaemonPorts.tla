-------------------------- MODULE MCCephDaemonPorts --------------------------
(* Two mons, of which one may not parse, and one OSD on each base cluster.  *)
EXTENDS CephDaemonPorts

CephPods == Bases \X {"ceph", "ceph-mcs"}

Plain ==
  [hostNet |-> FALSE, submariner |-> "plain", named |-> TRUE, mcs |-> "absent",
   mons |-> <<"mon-a", "mon-b">>, osds |-> <<"osd-0">>, toolbox |-> TRUE]

Global  == [Plain EXCEPT !.submariner = "globalnet", !.mcs = "matches"]
OnHost  == [Plain EXCEPT !.hostNet = TRUE]
Without == [Plain EXCEPT !.submariner = "none"]

Names == {"mon-a", "mon-b", "osd-0", "serviceCIDR", "clusterCIDR"}
Every == Bases \X Names

Network(o1, o2) ==
  [objects |-> [c \in Bases |-> IF c = "c1" THEN o1 ELSE o2],
   parsed |-> Every, exported |-> Every, reach |-> Every, covered |-> Every,
   proxied |-> {}]

(* One thing is wrong, whichever it is *)
Faults(w) ==
  {[w EXCEPT !.exported = @ \ {<<"c1", d>>}] : d \in {"mon-a", "osd-0"}} \cup
  {[w EXCEPT !.reach = @ \ {<<"c1", d>>}] : d \in {"mon-b", "osd-0"}} \cup
  {[w EXCEPT !.covered = @ \ {<<"c1", n>>}, !.proxied = {"c2"}] :
     n \in {"serviceCIDR", "clusterCIDR", "mon-b"}} \cup
  {[w EXCEPT !.parsed = @ \ X] : X \in {{<<"c1", "mon-a">>}, {"c1"} \X Names}}

(* c1 on either path, in good order or with one fault, c2 not a subject;    *)
(* c1 with each state of its objects; both subjects, with all of it good.   *)
AllWorlds ==
  UNION {Faults(Network(o, OnHost)) : o \in {Plain, Global}} \cup
  {Network(o, Without) :
     o \in {Plain, Without, [Plain EXCEPT !.named = FALSE], [Plain EXCEPT !.toolbox = FALSE],
            [Plain EXCEPT !.mons = <<>>], [Plain EXCEPT !.osds = <<>>]} \cup
           {[Global EXCEPT !.mcs = m] : m \in {"disabled", "noID", "otherID", "matches"}}} \cup
  {Network(OnHost, OnHost), Network(OnHost, Without),
   Network([Plain EXCEPT !.osds = <<>>], [Global EXCEPT !.osds = <<>>]),
   [Network([Plain EXCEPT !.osds = <<>>], [Plain EXCEPT !.osds = <<>>]) EXCEPT
      !.proxied = {"c1"}, !.covered = @ \ {<<"c2", "clusterCIDR">>}]}

=============================================================================
