----------------------------- MODULE ProviderCheck -----------------------------
(***************************************************************************)
(* CheckOCSProvider (pkg/check/provider.go): for c1, then for c2, find the *)
(* endpoints of the provider server from the cluster's own objects, look   *)
(* their hosts up in the peer's noProxy list, and probe them from one test *)
(* pod in the peer.  The pod dr-check-provider-<peer> is the slot <peer>.  *)
(*                                                                         *)
(* A step is one call with the assignments up to the next one.             *)
(***************************************************************************)
EXTENDS PodServer, NoProxy, SequencesExt

CONSTANTS
  Worlds,    (* the states of the clusters and the network to consider     *)
  Host(_, _), (* <cluster, endpoint or CIDR> -> its host, as NoProxy has it *)
  Labels,    (* the labels of host names                                     *)
  Widths,    (* the numbers of bits of the IP families' addresses            *)
  Spellings  (* the ways to write an address                                 *)

Bases == {"c1", "c2"}
Peer(c) == IF c = "c1" THEN "c2" ELSE "c1"

ASSUME SlotsAssumption == Slots = Bases

Endpoints == {"exported", "lb", "svc", "node1", "node2", "clusterIP", "clusterset"}
Ranges    == {"serviceCIDR", "clusterCIDR"}

(* What hosts and noProxy entries can be *)
IPs     == UNION {{Address(b, s) : b \in Addresses(w), s \in Spellings} \cup Cidrs(w) :
                    w \in Widths}
Names   == [kind : {"name"}, labels : Seq(Labels) \ {<<>>}]
Domains == [kind : {"domain"}, labels : Seq(Labels) \ {<<>>}]

ASSUME HostsAssumption ==
  /\ Widths \subseteq Nat
  /\ \A c \in Bases, n \in Endpoints \cup Ranges : Host(c, n) \in IPs \cup Names

(* What each base cluster's objects say, besides the network:               *)
(*   exported   the StorageCluster has the exported-address annotation      *)
(*   lb         ocs-provider-server-load-balancer                           *)
(*   type, ready  ocs-provider-server: its type, and whether it has its     *)
(*              address, NodePort or ClusterIP                              *)
(*   nodes      the storage nodes with an internal address                  *)
(*   globalNet  Submariner.GlobalNet of the Cluster object                  *)
(*   export, named  the ServiceExport; a ManagedCluster on the hub matches  *)
ServiceTypes == {"LoadBalancer", "NodePort", "ClusterIP", "ExternalName"}
Objects ==
  [exported : BOOLEAN, lb : {"none", "pending", "assigned"}, type : ServiceTypes,
   ready : BOOLEAN, nodes : {<<>>, <<"node1">>, <<"node1", "node2">>},
   globalNet : BOOLEAN, export : BOOLEAN, named : BOOLEAN]

(* reach, serves: the <<cluster, endpoint>> that answer curl and grpcurl    *)
(* from the peer; proxied, noProxy: the proxy of each cluster               *)
ASSUME WorldsAssumption ==
  \A w \in Worlds : /\ w.objects \in [Bases -> Objects]
                    /\ w.serves \subseteq w.reach
                    /\ w.proxied \subseteq Bases
                    /\ \A c \in Bases :
                         w.noProxy[c] \subseteq IPs \cup Names \cup Domains \cup {Wildcard}

VARIABLES
  world,      (* fixed while the runs last                                   *)
  pc,         (* run -> the call it is about to make                         *)
  cl,         (* run -> the cluster whose provider is checked                *)
  cancelled,  (* run -> SIGINT has cancelled its context                     *)
  endpoints,  (* run -> the endpoints found and not yet probed, in order     *)
  lookups,    (* run -> the CIDRs to look up besides the endpoints' hosts    *)
  grpcurl,    (* run -> peers where grpcurl was installed                    *)
  deferred,   (* run -> the slot whose deferred DeleteTestPod is still owed  *)
  unread,     (* run -> clusters whose annotation could not be read: a       *)
              (* console warning outside the report                          *)
  results     (* run -> the CheckResults                                     *)

runVars == <<pc, cl, cancelled, endpoints, lookups, grpcurl, deferred, unread, results>>
vars == <<serverVars, world, runVars>>

-----------------------------------------------------------------------------
Result(check, c, at, status) == [check |-> check, cl |-> c, at |-> at, status |-> status]

Report(r, xs) == results' = [results EXCEPT ![r] = @ \cup xs]
Goto(r, label) == pc' = [pc EXCEPT ![r] = label]
Self(r) == world.objects[cl[r]]
At(r, label) == pc[r] = label
Answered(r, label) == pc[r] = label /\ ~cancelled[r]

Init ==
  /\ ServerInit
  /\ world \in Worlds
  /\ pc = [r \in Runs |-> "annotation"]
  /\ cl = [r \in Runs |-> "c1"]
  /\ cancelled = [r \in Runs |-> FALSE]
  /\ endpoints = [r \in Runs |-> <<>>]
  /\ lookups = [r \in Runs |-> {}]
  /\ grpcurl = [r \in Runs |-> {}]
  /\ deferred = [r \in Runs |-> {}]
  /\ unread = [r \in Runs |-> {}]
  /\ results = [r \in Runs |-> {}]

(* Mutant: the first direction that fails ends the check *)
StopAfterFailure(r) ==
  IF cl[r] = "c1" /\ ~ \E x \in results[r] : x.status = "FAIL"
  THEN cl' = [cl EXCEPT ![r] = "c2"] /\ Goto(r, "annotation")
  ELSE UNCHANGED cl /\ Goto(r, "return")

(* checkProviderServices returns: the other direction, or the check is over *)
NextDirection(r) ==
  IF cl[r] = "c1"
  THEN cl' = [cl EXCEPT ![r] = "c2"] /\ Goto(r, "annotation")
  ELSE UNCHANGED cl /\ Goto(r, "return")

(* CheckEndpointNoProxy for the peer: one result for each host *)
NoProxyResults(c, names) ==
  IF Peer(c) \notin world.proxied THEN {}
  ELSE {Result("noproxy", c, n,
          IF isHostCoveredByNoProxy(Host(c, n), world.noProxy[Peer(c)])
            THEN "PASS" ELSE "FAIL") : n \in names}

(* More of the discovery follows, with these findings so far *)
Continue(r, eps, cidrs, xs, next) ==
  /\ endpoints' = [endpoints EXCEPT ![r] = @ \o eps]
  /\ lookups' = [lookups EXCEPT ![r] = @ \cup cidrs]
  /\ Report(r, xs)
  /\ Goto(r, next)
  /\ UNCHANGED cl

(* Mutant: only the endpoints' own hosts are looked up *)
DiscoveredNoCidrs(r, eps, cidrs, xs) ==
  LET found == endpoints[r] \o eps
  IN  /\ endpoints' = [endpoints EXCEPT ![r] = found]
      /\ lookups' = [lookups EXCEPT ![r] = {}]
      /\ Report(r, xs \cup NoProxyResults(cl[r], ToSet(found)))
      /\ IF found = <<>> THEN NextDirection(r) ELSE Goto(r, "deploy") /\ UNCHANGED cl

(* Mutant: a pod although there is nothing to probe *)
DiscoveredAlwaysDeploys(r, eps, cidrs, xs) ==
  LET found == endpoints[r] \o eps
  IN  /\ endpoints' = [endpoints EXCEPT ![r] = found]
      /\ lookups' = [lookups EXCEPT ![r] = {}]
      /\ Report(r, xs \cup NoProxyResults(cl[r], lookups[r] \cup cidrs \cup ToSet(found)))
      /\ Goto(r, "deploy") /\ UNCHANGED cl

(* The discovery of this direction is over: the noProxy results, and the    *)
(* pod only if there is an endpoint to probe.                               *)
Discovered(r, eps, cidrs, xs) ==
  LET found == endpoints[r] \o eps
  IN  /\ endpoints' = [endpoints EXCEPT ![r] = found]
      /\ lookups' = [lookups EXCEPT ![r] = {}]
      /\ Report(r, xs \cup NoProxyResults(cl[r], lookups[r] \cup cidrs \cup ToSet(found)))
      /\ IF found = <<>> THEN NextDirection(r) ELSE Goto(r, "deploy") /\ UNCHANGED cl

Fails(r, check) == {Result(check, cl[r], "any", "FAIL")}
Warns(r, check) == {Result(check, cl[r], "any", "WARN")}

discoveryUnchanged == <<serverVars, world, cancelled, grpcurl, deferred>>

-----------------------------------------------------------------------------
(* getExportedAddress: the exported address alone, or on with the services. *)
(* An error counts as "no annotation".                                      *)
ExportedAddress(r) ==
  /\ \/ /\ Answered(r, "annotation")
        /\ IF Self(r).exported THEN Discovered(r, <<"exported">>, {}, {})
                               ELSE Continue(r, <<>>, {}, {}, "lb")
        /\ UNCHANGED unread
     \/ /\ At(r, "annotation")
        /\ Continue(r, <<>>, {}, {}, "lb")
        /\ unread' = [unread EXCEPT ![r] = @ \cup {cl[r]}]
  /\ UNCHANGED discoveryUnchanged

(* checkProviderLB *)
ProviderLB(r) ==
  /\ \/ /\ Answered(r, "lb")
        /\ \/ Self(r).lb = "none"     /\ Continue(r, <<>>, {}, {}, "service")
           \/ Self(r).lb = "pending"  /\ Continue(r, <<>>, {}, Warns(r, "lb"), "service")
           \/ Self(r).lb = "assigned" /\ Continue(r, <<"lb">>, {}, {}, "service")
     \/ At(r, "lb") /\ Continue(r, <<>>, {}, Fails(r, "lb"), "service")
  /\ UNCHANGED <<discoveryUnchanged, unread>>

(* checkProviderService where the service alone decides: a load balancer,   *)
(* an unexpected type, no NodePort, no ClusterIP                            *)
ProviderServiceAlone(r) ==
  /\ \/ /\ Answered(r, "service")
        /\ \/ /\ Self(r).type = "LoadBalancer"
              /\ IF Self(r).ready THEN Discovered(r, <<"svc">>, {}, {})
                                  ELSE Discovered(r, <<>>, {}, Warns(r, "svc"))
           \/ /\ Self(r).type = "ExternalName"
              /\ Discovered(r, <<>>, {}, Warns(r, "svc"))
           \/ /\ Self(r).type = "NodePort" /\ ~Self(r).ready
              /\ Discovered(r, <<>>, {}, Fails(r, "svc"))
           \/ /\ Self(r).type = "ClusterIP" /\ ~Self(r).globalNet /\ ~Self(r).ready
              /\ Discovered(r, <<>>, {}, Fails(r, "svc"))
     \/ At(r, "service") /\ Discovered(r, <<>>, {}, Fails(r, "svc"))
  /\ UNCHANGED <<discoveryUnchanged, unread>>

(* checkProviderService where further calls are needed *)
ProviderServiceMore(r) ==
  /\ Answered(r, "service")
  /\ \/ /\ Self(r).type = "ClusterIP" /\ Self(r).globalNet
        /\ Continue(r, <<>>, {}, {}, "export")
     \/ /\ Self(r).type = "NodePort" /\ Self(r).ready
        /\ Continue(r, <<>>, {}, {}, "serviceCIDR")
     \/ /\ Self(r).type = "ClusterIP" /\ ~Self(r).globalNet /\ Self(r).ready
        /\ Continue(r, <<>>, {}, {}, "serviceCIDR")
  /\ UNCHANGED <<discoveryUnchanged, unread>>

(* getServiceCIDR: an error is a WARN *)
ServiceCIDR(r) ==
  /\ LET next == IF Self(r).type = "NodePort" THEN "nodes" ELSE "clusterCIDR"
     IN  \/ /\ Answered(r, "serviceCIDR")
            /\ Continue(r, <<>>, {"serviceCIDR"}, {}, next)
         \/ /\ At(r, "serviceCIDR")
            /\ Continue(r, <<>>, {}, Warns(r, "serviceCIDR"), next)
  /\ UNCHANGED <<discoveryUnchanged, unread>>

(* getStorageNodeIPs; no node is an error *)
StorageNodes(r) ==
  /\ \/ /\ Answered(r, "nodes")
        /\ Self(r).nodes # <<>>
        /\ Discovered(r, Self(r).nodes, {}, {})
     \/ At(r, "nodes") /\ Discovered(r, <<>>, {}, Fails(r, "nodes"))
  /\ UNCHANGED <<discoveryUnchanged, unread>>

(* getClusterCIDR: an error is a WARN, the ClusterIP is probed in any case *)
ClusterCIDR(r) ==
  /\ \/ /\ Answered(r, "clusterCIDR")
        /\ Discovered(r, <<"clusterIP">>, {"clusterCIDR"}, {})
     \/ /\ At(r, "clusterCIDR")
        /\ Discovered(r, <<"clusterIP">>, {}, Warns(r, "clusterCIDR"))
  /\ UNCHANGED <<discoveryUnchanged, unread>>

(* checkServiceExport *)
ServiceExport(r) ==
  /\ \/ /\ Answered(r, "export")
        /\ Self(r).export
        /\ Continue(r, <<>>, {}, {Result("export", cl[r], "any", "PASS")}, "name")
     \/ At(r, "export") /\ Continue(r, <<>>, {}, Fails(r, "export"), "name")
  /\ UNCHANGED <<discoveryUnchanged, unread>>

(* discoverManagedClusterName, on the hub *)
ManagedName(r) ==
  /\ \/ /\ Answered(r, "name")
        /\ Self(r).named
        /\ Discovered(r, <<"clusterset">>, {}, {})
     \/ At(r, "name") /\ Discovered(r, <<>>, {}, Fails(r, "name"))
  /\ UNCHANGED <<discoveryUnchanged, unread>>

-----------------------------------------------------------------------------
(* testProviderReachability *)

podUnchanged == <<world, cancelled, lookups, unread>>

Deploys(r) ==
  /\ Answered(r, "deploy")
  /\ DeployTestPod(r, Peer(cl[r]))
  /\ deferred' = [deferred EXCEPT ![r] = @ \cup {Peer(cl[r])}]
  /\ Goto(r, "wait")
  /\ UNCHANGED <<podUnchanged, cl, endpoints, grpcurl, results>>

(* Mutant: the deletion is deferred before the error is looked at *)
DeployFailureDeferred(r) ==
  /\ At(r, "deploy")
  /\ DeployRefused
  /\ deferred' = [deferred EXCEPT ![r] = @ \cup {Peer(cl[r])}]
  /\ endpoints' = [endpoints EXCEPT ![r] = <<>>]
  /\ Report(r, Fails(r, "deploy"))
  /\ Goto(r, "cleanup")
  /\ UNCHANGED <<podUnchanged, cl, grpcurl>>

DeployFails(r) ==
  /\ \/ Answered(r, "deploy") /\ DeployUnanswered(r, Peer(cl[r]))
     \/ At(r, "deploy") /\ DeployRefused
  /\ endpoints' = [endpoints EXCEPT ![r] = <<>>]
  /\ Report(r, Fails(r, "deploy"))
  /\ NextDirection(r)
  /\ UNCHANGED <<podUnchanged, grpcurl, deferred>>

(* WaitForPodReady, then installGrpcurl: the download ends in time or not   *)
PodIsReady(r) ==
  /\ Answered(r, "wait")
  /\ PodReady(Peer(cl[r]))
  /\ Goto(r, "grpcurl")
  /\ UNCHANGED <<serverVars, podUnchanged, cl, endpoints, grpcurl, deferred, results>>

(* Mutant: the wait has no timeout *)
WaitOnlyInterrupted(r) ==
  /\ At(r, "wait")
  /\ cancelled[r]
  /\ endpoints' = [endpoints EXCEPT ![r] = <<>>]
  /\ Report(r, Fails(r, "wait"))
  /\ Goto(r, "cleanup")
  /\ UNCHANGED <<serverVars, podUnchanged, cl, grpcurl, deferred>>

WaitFails(r) ==
  /\ At(r, "wait")
  /\ endpoints' = [endpoints EXCEPT ![r] = <<>>]
  /\ Report(r, Fails(r, "wait"))
  /\ Goto(r, "cleanup")
  /\ UNCHANGED <<serverVars, podUnchanged, cl, grpcurl, deferred>>

CanExec(r) == ~cancelled[r] /\ Executable(Peer(cl[r]))

InstallGrpcurl(r) ==
  /\ At(r, "grpcurl")
  /\ \/ /\ CanExec(r)
        /\ grpcurl' = [grpcurl EXCEPT ![r] = @ \cup {Peer(cl[r])}]
     \/ UNCHANGED grpcurl
  /\ Goto(r, "curl")
  /\ UNCHANGED <<serverVars, podUnchanged, cl, endpoints, deferred, results>>

(* Mutant: the first endpoint that does not answer ends the loop *)
BreakOnFailure(r) ==
  /\ endpoints' = [endpoints EXCEPT ![r] = Tail(@)]
  /\ Goto(r, IF /\ Len(endpoints[r]) > 1
                /\ Result("curl", cl[r], Head(endpoints[r]), "FAIL") \notin results'[r]
             THEN "curl" ELSE "cleanup")

(* On to the next endpoint, or out of the loop and of the function *)
NextEndpoint(r) ==
  /\ endpoints' = [endpoints EXCEPT ![r] = Tail(@)]
  /\ Goto(r, IF Len(endpoints[r]) > 1 THEN "curl" ELSE "cleanup")

(* testProviderEndpoint: a PASS is an answer to curl in the pod; the exec,  *)
(* curl and their timeouts can fail at any time.  The DNS lookup after a    *)
(* failure only words the message.  testProviderGrpc follows a PASS if      *)
(* grpcurl was installed.                                                   *)
TestEndpoint(r) ==
  /\ At(r, "curl")
  /\ LET e == Head(endpoints[r]) IN
     \/ /\ CanExec(r)
        /\ <<cl[r], e>> \in world.reach
        /\ Report(r, {Result("curl", cl[r], e, "PASS")})
        /\ IF Peer(cl[r]) \in grpcurl[r]
             THEN Goto(r, "grpc") /\ UNCHANGED endpoints
             ELSE NextEndpoint(r)
     \/ /\ Report(r, {Result("curl", cl[r], e, "FAIL")})
        /\ NextEndpoint(r)
  /\ UNCHANGED <<serverVars, podUnchanged, cl, grpcurl, deferred>>

(* An answer without reflection, or with another service, is a PASS too *)
TestGrpc(r) ==
  /\ At(r, "grpc")
  /\ LET e == Head(endpoints[r]) IN
     \E status \in {"PASS", "FAIL"} :
       /\ status = "PASS" => CanExec(r) /\ <<cl[r], e>> \in world.serves
       /\ Report(r, {Result("grpc", cl[r], e, status)})
  /\ NextEndpoint(r)
  /\ UNCHANGED <<serverVars, podUnchanged, cl, grpcurl, deferred>>

(* Mutant: the deletion is forgotten between the directions *)
CleanUpNever(r) ==
  /\ At(r, "cleanup")
  /\ NextDirection(r)
  /\ UNCHANGED <<serverVars, podUnchanged, deferred, endpoints, grpcurl, results>>

(* testProviderReachability returns: its deferred deletion, before the      *)
(* other direction starts; the error is dropped.                            *)
CleanUp(r) ==
  /\ At(r, "cleanup")
  /\ \/ DeleteTestPod(r, Peer(cl[r]))
     \/ DeleteFailed(r, Peer(cl[r]))
  /\ deferred' = [deferred EXCEPT ![r] = @ \ {Peer(cl[r])}]
  /\ NextDirection(r)
  /\ UNCHANGED <<podUnchanged, endpoints, grpcurl, results>>

(* CheckOCSProvider hands both directions' results to its caller *)
Return(r) ==
  /\ At(r, "return")
  /\ Goto(r, "returned")
  /\ UNCHANGED <<serverVars, podUnchanged, cl, endpoints, grpcurl, deferred, results>>

-----------------------------------------------------------------------------
Ended(r) == pc[r] \in {"returned", "killed"}

(* The first SIGINT *)
Interrupt(r) ==
  /\ ~Ended(r)
  /\ ~cancelled[r]
  /\ cancelled' = [cancelled EXCEPT ![r] = TRUE]
  /\ UNCHANGED <<serverVars, world, pc, cl, endpoints, lookups, grpcurl, deferred,
                 unread, results>>

(* SIGTERM, SIGKILL, a lost machine: no deferred call runs *)
Kill(r) ==
  /\ ~Ended(r)
  /\ Goto(r, "killed")
  /\ UNCHANGED <<serverVars, world, cl, cancelled, endpoints, lookups, grpcurl,
                 deferred, unread, results>>

Cluster(s) == ServerStep(s) /\ UNCHANGED <<world, runVars>>

Discovery(r) ==
  \/ ExportedAddress(r)
  \/ ProviderLB(r)
  \/ ProviderServiceAlone(r)
  \/ ProviderServiceMore(r)
  \/ ServiceCIDR(r)
  \/ StorageNodes(r)
  \/ ClusterCIDR(r)
  \/ ServiceExport(r)
  \/ ManagedName(r)

Reachability(r) ==
  \/ Deploys(r)
  \/ DeployFails(r)
  \/ PodIsReady(r)
  \/ WaitFails(r)
  \/ InstallGrpcurl(r)
  \/ TestEndpoint(r)
  \/ TestGrpc(r)
  \/ CleanUp(r)

RunStep(r) == Discovery(r) \/ Reachability(r) \/ Return(r)

Next ==
  \/ \E r \in Runs : RunStep(r)
  \/ \E r \in Runs : Interrupt(r)
  \/ \E r \in Runs : Kill(r)
  \/ \E s \in Slots : Cluster(s)

Spec == Init /\ [][Next]_vars

(* Every call is answered at last: the wait and the execs have timeouts,    *)
(* the plain calls are assumed to be answered.                              *)
FairSpec == Spec /\ \A r \in Runs : WF_vars(RunStep(r))

-----------------------------------------------------------------------------
(* Types, and that the pod steps stand between a Create and its Delete *)
TypeOK ==
  /\ ServerTypeOK
  /\ world \in Worlds
  /\ pc \in [Runs -> {"annotation", "lb", "service", "serviceCIDR", "nodes",
                      "clusterCIDR", "export", "name", "deploy", "wait", "grpcurl",
                      "curl", "grpc", "cleanup", "return", "returned", "killed"}]
  /\ cl \in [Runs -> Bases]
  /\ cancelled \in [Runs -> BOOLEAN]
  /\ \A r \in Runs :
       /\ ToSet(endpoints[r]) \subseteq Endpoints
       /\ lookups[r] \subseteq Ranges
       /\ grpcurl[r] \subseteq Bases /\ unread[r] \subseteq Bases
       /\ pc[r] \in {"wait", "grpcurl", "curl", "grpc", "cleanup"}
            => deferred[r] = {Peer(cl[r])}
       /\ pc[r] \in {"deploy", "wait", "grpcurl", "curl", "grpc"} => endpoints[r] # <<>>

(* What a cluster's objects advertise to the peer, read off the objects     *)
(* rather than off the steps above                                          *)
Advertised(c) ==
  LET o == world.objects[c] IN
  IF o.exported THEN {"exported"}
  ELSE {e \in Endpoints :
          \/ e = "lb" /\ o.lb = "assigned"
          \/ e = "svc" /\ o.type = "LoadBalancer" /\ o.ready
          \/ e \in ToSet(o.nodes) /\ o.type = "NodePort" /\ o.ready
          \/ e = "clusterIP" /\ o.type = "ClusterIP" /\ ~o.globalNet /\ o.ready
          \/ e = "clusterset" /\ o.type = "ClusterIP" /\ o.globalNet}

(* The ranges that must be in the peer's noProxy besides the endpoints' own *)
(* hosts (docs/network-configuration.md, NodePort and ClusterIP)            *)
RoutedCidrs(c) ==
  LET o == world.objects[c] IN
  IF o.exported THEN {}
  ELSE {n \in Ranges :
          \/ o.type = "NodePort" /\ n = "serviceCIDR"
          \/ o.type = "ClusterIP" /\ ~o.globalNet}

ResultsOf(r, c) == {x \in results[r] : x.cl = c}
Clean(r, c) == \A x \in ResultsOf(r, c) : x.status = "PASS"

(* A direction without complaint is right, whatever the service types:      *)
(* every endpoint the cluster advertises answers from the peer, also over   *)
(* gRPC if grpcurl could be installed; and if the peer has a proxy, every   *)
(* connection to those endpoints and ranges bypasses it.  The one error     *)
(* that leaves no result is the annotation's (unread).                      *)
CleanDirectionIsTrue ==
  \A r \in Runs, c \in Bases :
    pc[r] = "returned" /\ Clean(r, c) /\ c \notin unread[r] =>
      /\ Advertised(c) # {}
      /\ \A e \in Advertised(c) :
           /\ <<c, e>> \in world.reach
           /\ Peer(c) \in grpcurl[r] => <<c, e>> \in world.serves
      /\ Peer(c) \in world.proxied =>
           \A n \in Advertised(c) \cup RoutedCidrs(c) :
             Bypasses(Host(c, n), world.noProxy[Peer(c)])

(* No way through the discovery ends a direction without a result: pending  *)
(* addresses, unexpected types, empty node lists and errors of the calls,   *)
(* in the first direction or the second.                                    *)
NoSilentDirection ==
  \A r \in Runs : pc[r] = "returned" => \A c \in Bases : ResultsOf(r, c) # {}

(* A noProxy PASS is the truth about the connections: every address of a    *)
(* range is held by one entry, no bit of the prefix missed.  A FAIL is the  *)
(* truth but for the entries that isHostCoveredByNoProxy does not recognize *)
(* (proxy.go:135 compares texts): any other entry that holds the host makes *)
(* the result a PASS.                                                       *)
NoProxyVerdictsAreExact ==
  \A r \in Runs : \A x \in results[r] : x.check = "noproxy" =>
    LET host == Host(x.cl, x.at)
        list == world.noProxy[Peer(x.cl)]
    IN  /\ x.status = "PASS" => Bypasses(host, list)
        /\ x.status # "PASS" => \A e \in list : EntryHolds(e, host) => Overlooked(e, host)

(* One endpoint's failure hides nothing of the others: a direction that got *)
(* its pod, and whose discovery left no complaint, has a curl result for    *)
(* every endpoint advertised; gRPC is asked exactly where curl was answered *)
(* and grpcurl installed.                                                   *)
EveryEndpointAccounted ==
  \A r \in Runs, c \in Bases : pc[r] = "returned" =>
    LET at(check) == {x.at : x \in {y \in ResultsOf(r, c) : y.check = check}}
        answered  == {x.at : x \in {y \in ResultsOf(r, c) :
                                      y.check = "curl" /\ y.status = "PASS"}}
        podless   == at("deploy") \cup at("wait") # {}
        found     == at("lb") \cup at("svc") \cup at("nodes") \cup at("name") = {}
    IN  /\ found /\ ~podless /\ c \notin unread[r] => at("curl") = Advertised(c)
        /\ podless => at("curl") = {}
        /\ at("grpc") = IF Peer(c) \in grpcurl[r] THEN answered ELSE {}

(* A run never has two test pods at once, and none in the end: when the     *)
(* second direction looks for its endpoints, and when the check has         *)
(* returned, a living pod of the run is one it could not know of.           *)
OnePodAtATime ==
  \A r \in Runs : pc[r] # "killed" =>
    \A s \in Slots : Owns(r, s) =>
      \/ <<r, s>> \in orphaned
      \/ s = Peer(cl[r]) /\ pc[r] \in {"wait", "grpcurl", "curl", "grpc", "cleanup"}

(* A run ends, whatever the clusters do. *)
Terminates == \A r \in Runs : <>Ended(r)

(* The pod discipline all checks share, implemented by this one. *)
Discipline == INSTANCE TestPods WITH
  held <- deferred,
  run <- [r \in Runs |-> IF Ended(r) THEN pc[r] ELSE "active"]

ImplementsTestPods == Discipline!Spec

=============================================================================
