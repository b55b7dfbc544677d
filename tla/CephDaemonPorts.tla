---------------------------- MODULE CephDaemonPorts ----------------------------
(***************************************************************************)
(* CheckCephDaemonPorts (pkg/check/ceph_daemon.go): read hostNetwork of    *)
(* both base clusters; with it on both, hand over to checkCephHostNetwork  *)
(* (HostNetworkCheck); else checkCephSubmariner for each cluster without   *)
(* it, first c1 then c2: the ClusterIP or the GlobalNet path of            *)
(* ceph_daemon_submariner.go, from one test pod in the peer.  The pods     *)
(* dr-check-ceph-<peer> and dr-check-ceph-mcs-<peer> are the slots         *)
(* <<peer, "ceph">> and <<peer, "ceph-mcs">>.                              *)
(*                                                                         *)
(* A step is one call with the assignments up to the next one.             *)
(***************************************************************************)
EXTENDS PodServer, SequencesExt

CONSTANT Worlds  (* the states of the clusters and the network to consider *)

Bases == {"c1", "c2"}
Peer(c) == IF c = "c1" THEN "c2" ELSE "c1"

ASSUME SlotsAssumption == Slots = Bases \X {"ceph", "ceph-mcs"}

(* For each base cluster:                                                   *)
(*   hostNet     hostNetwork of its CephCluster                             *)
(*   submariner  what DetectSubmariner has put into its Cluster object      *)
(*   named       a ManagedCluster on the hub has its API server             *)
(*   mcs         multiClusterService of its StorageCluster                  *)
(*   mons, osds  the daemons listed, in order                               *)
(*   toolbox     a toolbox pod runs                                         *)
(* and on daemons <<cluster, daemon>>, or for covered also a range:         *)
(*   parsed      its address has the form host:port                         *)
(*   exported    it has a Submariner service with an external IP and a port *)
(*   reach       the peer can connect to it, by the path it is tested on    *)
(*   covered     the peer's noProxy list covers it                          *)
(* proxied: clusters whose object has Proxy.Configured                      *)
Objects ==
  [hostNet : BOOLEAN, submariner : {"none", "plain", "globalnet"}, named : BOOLEAN,
   mcs : {"absent", "disabled", "noID", "otherID", "matches"},
   mons : Seq(STRING), osds : Seq(STRING), toolbox : BOOLEAN]

ASSUME WorldsAssumption ==
  \A w \in Worlds : /\ \A c \in Bases : w.objects[c] \in Objects
                    /\ w.proxied \subseteq Bases

(* No daemon is listed twice: Rook names mons and OSDs apart, and the ids   *)
(* of either are keys.                                                      *)
ASSUME DaemonsAssumption ==
  \A w \in Worlds, c \in Bases : IsInjective(w.objects[c].mons \o w.objects[c].osds)

VARIABLES
  world,      (* fixed while the runs last                                   *)
  pc,         (* run -> the call it is about to make                         *)
  cl,         (* run -> the cluster whose daemons are checked                *)
  cancelled,  (* run -> SIGINT has cancelled its context                     *)
  endpoints,  (* run -> the daemons still to look up or to probe, in order   *)
  resolved,   (* run -> the daemons whose Submariner service was found       *)
  ranges,     (* run -> the CIDRs gatherCephCIDRs has collected so far       *)
  deferred,   (* run -> the slot whose deferred DeleteTestPod is still owed  *)
  unread,     (* run -> clusters with a range that could not be read: a      *)
              (* console warning outside the report                          *)
  results     (* run -> the CheckResults                                     *)

runVars == <<pc, cl, cancelled, endpoints, resolved, ranges, deferred, unread, results>>
vars == <<serverVars, world, runVars>>

-----------------------------------------------------------------------------
Result(check, c, at, status) == [check |-> check, cl |-> c, at |-> at, status |-> status]

Report(r, xs) == results' = [results EXCEPT ![r] = @ \cup xs]
Goto(r, label) == pc' = [pc EXCEPT ![r] = label]
Self(r) == world.objects[cl[r]]
At(r, label) == pc[r] = label
Answered(r, label) == pc[r] = label /\ ~cancelled[r]
Fails(r, check) == {Result(check, cl[r], "any", "FAIL")}

Init ==
  /\ ServerInit
  /\ world \in Worlds
  /\ pc = [r \in Runs |-> "hostNetwork"]
  /\ cl = [r \in Runs |-> "c1"]
  /\ cancelled = [r \in Runs |-> FALSE]
  /\ endpoints = [r \in Runs |-> <<>>]
  /\ resolved = [r \in Runs |-> <<>>]
  /\ ranges = [r \in Runs |-> {}]
  /\ deferred = [r \in Runs |-> {}]
  /\ unread = [r \in Runs |-> {}]
  /\ results = [r \in Runs |-> {}]

(* checkCephSubmariner is called for this cluster, and does not return nil  *)
(* at once                                                                  *)
IsSubject(c) == ~world.objects[c].hostNet /\ world.objects[c].submariner # "none"

StartSubject(r, c) == cl' = [cl EXCEPT ![r] = c] /\ Goto(r, "name")

(* checkCephSubmariner returns: the other cluster's turn, or the end *)
NextSubject(r) ==
  IF cl[r] = "c1" /\ IsSubject("c2") THEN StartSubject(r, "c2")
                                     ELSE UNCHANGED cl /\ Goto(r, "return")

(* CheckEndpointNoProxy for the peer: one result for each host *)
NoProxyResults(c, names) ==
  {Result("noproxy", c, n, IF <<c, n>> \in world.covered THEN "PASS" ELSE "FAIL") :
     n \in {m \in names : Peer(c) \in world.proxied}}

podVars == <<serverVars, deferred>>
fixed   == <<world, cancelled>>

-----------------------------------------------------------------------------
(* isHostNetworkEnabled of c1, then of c2; an error is the only result.     *)
HostNetwork(r) ==
  /\ Answered(r, "hostNetwork")
  /\ IF cl[r] = "c1" THEN cl' = [cl EXCEPT ![r] = "c2"] /\ UNCHANGED pc
     ELSE CASE IsSubject("c1") -> StartSubject(r, "c1")
            [] ~IsSubject("c1") /\ IsSubject("c2") -> StartSubject(r, "c2")
            [] \A c \in Bases : world.objects[c].hostNet ->
                 UNCHANGED cl /\ Goto(r, "handed over")
            [] OTHER -> UNCHANGED cl /\ Goto(r, "return")
  /\ UNCHANGED <<podVars, fixed, endpoints, resolved, ranges, unread, results>>

HostNetworkFails(r) ==
  /\ At(r, "hostNetwork")
  /\ Report(r, Fails(r, "hostNetwork"))
  /\ Goto(r, "return")
  /\ UNCHANGED <<podVars, fixed, cl, endpoints, resolved, ranges, unread>>

(* discoverManagedClusterName, on the hub, on either path *)
ManagedName(r) ==
  /\ \/ /\ Answered(r, "name")
        /\ Self(r).named
        /\ Goto(r, IF Self(r).submariner = "globalnet" THEN "mcs" ELSE "serviceCIDR")
        /\ UNCHANGED <<cl, results>>
     \/ /\ At(r, "name")
        /\ Report(r, Fails(r, "name"))
        /\ NextSubject(r)
  /\ UNCHANGED <<podVars, fixed, endpoints, resolved, ranges, unread>>

(* checkMultiClusterService; the discovery follows whatever it says *)
MultiClusterService(r) ==
  /\ \/ /\ Answered(r, "mcs")
        /\ Report(r, {Result("mcs", cl[r], "any",
                        IF Self(r).mcs = "matches" THEN "PASS" ELSE "WARN")})
     \/ At(r, "mcs") /\ Report(r, Fails(r, "mcs"))
  /\ Goto(r, "mons")
  /\ UNCHANGED <<podVars, fixed, cl, endpoints, resolved, ranges, unread>>

(* gatherCephCIDRs: getServiceCIDR and getClusterCIDR, whose errors are     *)
(* console warnings; the noProxy results follow the second.                 *)
GatherCephCIDRs(r, range) ==
  /\ \E got \in {{}, {range}} :
       /\ \/ Answered(r, range) /\ got # {} /\ UNCHANGED unread
          \/ /\ At(r, range) /\ got = {}
             /\ unread' = [unread EXCEPT ![r] = @ \cup {cl[r]}]
       /\ \/ /\ range = "serviceCIDR"
             /\ ranges' = [ranges EXCEPT ![r] = got]
             /\ Goto(r, "clusterCIDR")
             /\ UNCHANGED results
          \/ /\ range = "clusterCIDR"
             /\ ranges' = [ranges EXCEPT ![r] = {}]
             /\ Report(r, NoProxyResults(cl[r], ranges[r] \cup got))
             /\ Goto(r, "mons")
  /\ UNCHANGED <<podVars, fixed, cl, endpoints, resolved>>

-----------------------------------------------------------------------------
(* discoverDaemonEndpoints *)

(* The loops over the daemons listed, which skip what does not parse *)
Parsed(c, daemons) ==
  LET first[n \in 0..Len(daemons)] ==
        IF n = 0 THEN <<>>
        ELSE IF <<c, daemons[n]>> \in world.parsed THEN Append(first[n - 1], daemons[n])
                                                   ELSE first[n - 1]
  IN  first[Len(daemons)]

(* The mons' ConfigMap: entries that do not parse are skipped; its data     *)
(* must not be empty.                                                       *)
DiscoverMons(r) ==
  /\ Answered(r, "mons")
  /\ Self(r).mons # <<>>
  /\ endpoints' = [endpoints EXCEPT ![r] = Parsed(cl[r], Self(r).mons)]
  /\ resolved' = [resolved EXCEPT ![r] = <<>>]
  /\ Goto(r, "osds")
  /\ UNCHANGED <<podVars, fixed, cl, ranges, unread, results>>

(* Mutant: a cluster where nothing parses has nothing to test *)
DiscoverNothing(r) ==
  /\ Answered(r, "osds")
  /\ Self(r).toolbox
  /\ LET all == endpoints[r] \o Parsed(cl[r], Self(r).osds) IN
       /\ endpoints' = [endpoints EXCEPT ![r] = all]
       /\ IF all = <<>> THEN NextSubject(r)
          ELSE /\ Goto(r, IF Self(r).submariner = "globalnet" THEN "service" ELSE "deploy")
               /\ UNCHANGED cl
  /\ UNCHANGED <<podVars, fixed, resolved, ranges, unread, results>>

(* The OSDs, from `ceph osd dump` in the toolbox, and the OSD pods' nodes   *)
DiscoverOSDs(r) ==
  /\ Answered(r, "osds")
  /\ Self(r).toolbox
  /\ LET all == endpoints[r] \o Parsed(cl[r], Self(r).osds) IN
       /\ all # <<>>
       /\ endpoints' = [endpoints EXCEPT ![r] = all]
  /\ Goto(r, IF Self(r).submariner = "globalnet" THEN "service" ELSE "deploy")
  /\ UNCHANGED <<podVars, fixed, cl, resolved, ranges, unread, results>>

(* Any of their calls fails, or nothing is left to test *)
DiscoverFails(r) ==
  /\ At(r, "mons") \/ At(r, "osds")
  /\ endpoints' = [endpoints EXCEPT ![r] = <<>>]
  /\ Report(r, Fails(r, "discover"))
  /\ NextSubject(r)
  /\ UNCHANGED <<podVars, fixed, resolved, ranges, unread>>

(* Mutant: a daemon without service ends the loop *)
BreakOnMissing(r, known, failed) ==
  /\ resolved' = [resolved EXCEPT ![r] = known]
  /\ IF Len(endpoints[r]) > 1 /\ failed = {}
       THEN /\ Report(r, failed)
            /\ endpoints' = [endpoints EXCEPT ![r] = Tail(@)]
            /\ UNCHANGED <<pc, cl>>
       ELSE /\ Report(r, failed \cup NoProxyResults(cl[r], ToSet(known)))
            /\ endpoints' = [endpoints EXCEPT ![r] = known]
            /\ IF known = <<>> THEN NextSubject(r) ELSE Goto(r, "deploy") /\ UNCHANGED cl

(* `continue`, or the end of the loop's body: the next daemon.  After the   *)
(* last one the noProxy results for the IPs found, and a pod if there are   *)
(* any.                                                                     *)
NextDaemon(r, known, failed) ==
  /\ resolved' = [resolved EXCEPT ![r] = known]
  /\ IF Len(endpoints[r]) > 1
       THEN /\ Report(r, failed)
            /\ endpoints' = [endpoints EXCEPT ![r] = Tail(@)]
            /\ UNCHANGED <<pc, cl>>
       ELSE /\ Report(r, failed \cup NoProxyResults(cl[r], ToSet(known)))
            /\ endpoints' = [endpoints EXCEPT ![r] = known]
            /\ IF known = <<>> THEN NextSubject(r) ELSE Goto(r, "deploy") /\ UNCHANGED cl

(* findSubmarinerService and submarinerServiceEndpoint of one daemon *)
SubmarinerService(r) ==
  /\ LET d == Head(endpoints[r]) IN
     \/ /\ Answered(r, "service")
        /\ <<cl[r], d>> \in world.exported
        /\ NextDaemon(r, Append(resolved[r], d), {})
     \/ /\ At(r, "service")
        /\ NextDaemon(r, resolved[r], {Result("daemon", cl[r], d, "FAIL")})
  /\ UNCHANGED <<podVars, fixed, ranges, unread>>

-----------------------------------------------------------------------------
(* The test pod in the peer, and the probes from it *)

PodOf(r) == <<Peer(cl[r]), IF Self(r).submariner = "globalnet" THEN "ceph-mcs" ELSE "ceph">>

podUnchanged == <<fixed, resolved, ranges, unread>>

Deploys(r) ==
  /\ Answered(r, "deploy")
  /\ DeployTestPod(r, PodOf(r))
  /\ deferred' = [deferred EXCEPT ![r] = @ \cup {PodOf(r)}]
  /\ Goto(r, "wait")
  /\ UNCHANGED <<podUnchanged, cl, endpoints, results>>

(* Mutant: the deletion is deferred before the error is looked at *)
DeployFailureDeferred(r) ==
  /\ At(r, "deploy")
  /\ DeployRefused
  /\ deferred' = [deferred EXCEPT ![r] = @ \cup {PodOf(r)}]
  /\ endpoints' = [endpoints EXCEPT ![r] = <<>>]
  /\ Report(r, Fails(r, "pod"))
  /\ Goto(r, "cleanup")
  /\ UNCHANGED <<podUnchanged, cl>>

DeployFails(r) ==
  /\ \/ Answered(r, "deploy") /\ DeployUnanswered(r, PodOf(r))
     \/ At(r, "deploy") /\ DeployRefused
  /\ endpoints' = [endpoints EXCEPT ![r] = <<>>]
  /\ Report(r, Fails(r, "pod"))
  /\ NextSubject(r)
  /\ UNCHANGED <<podUnchanged, deferred>>

PodIsReady(r) ==
  /\ Answered(r, "wait")
  /\ PodReady(PodOf(r))
  /\ Goto(r, "probe")
  /\ UNCHANGED <<podVars, podUnchanged, cl, endpoints, results>>

(* Mutant: the wait has no timeout *)
WaitOnlyInterrupted(r) ==
  /\ At(r, "wait")
  /\ cancelled[r]
  /\ endpoints' = [endpoints EXCEPT ![r] = <<>>]
  /\ Report(r, Fails(r, "pod"))
  /\ Goto(r, "cleanup")
  /\ UNCHANGED <<podVars, podUnchanged, cl>>

WaitFails(r) ==
  /\ At(r, "wait")
  /\ endpoints' = [endpoints EXCEPT ![r] = <<>>]
  /\ Report(r, Fails(r, "pod"))
  /\ Goto(r, "cleanup")
  /\ UNCHANGED <<podVars, podUnchanged, cl>>

CanConnect(r, d) ==
  ~cancelled[r] /\ Executable(PodOf(r)) /\ <<cl[r], d>> \in world.reach

(* Mutant: one probe too many *)
ProbeTooFar(r) ==
  /\ At(r, "probe")
  /\ endpoints' = [endpoints EXCEPT ![r] = Tail(@)]
  /\ IF endpoints[r] = <<>> THEN Goto(r, "cleanup") ELSE UNCHANGED pc
  /\ UNCHANGED <<podVars, podUnchanged, cl, results>>

(* testDaemonTCP through exec, with its timeouts; then the next daemon *)
Probe(r) ==
  /\ At(r, "probe")
  /\ \E status \in {"PASS", "FAIL"} :
       /\ status = "PASS" => CanConnect(r, Head(endpoints[r]))
       /\ Report(r, {Result("daemon", cl[r], Head(endpoints[r]), status)})
  /\ endpoints' = [endpoints EXCEPT ![r] = Tail(@)]
  /\ IF Len(endpoints[r]) = 1 THEN Goto(r, "cleanup") ELSE UNCHANGED pc
  /\ UNCHANGED <<podVars, podUnchanged, cl>>

(* The function of the path returns: its deferred deletion, before the      *)
(* other cluster's turn; the error is dropped.                              *)
CleanUp(r) ==
  /\ At(r, "cleanup")
  /\ DeleteTestPod(r, PodOf(r)) \/ DeleteFailed(r, PodOf(r))
  /\ deferred' = [deferred EXCEPT ![r] = @ \ {PodOf(r)}]
  /\ NextSubject(r)
  /\ UNCHANGED <<podUnchanged, endpoints, results>>

Return(r) ==
  /\ At(r, "return")
  /\ Goto(r, "returned")
  /\ UNCHANGED <<podVars, podUnchanged, cl, endpoints, results>>

-----------------------------------------------------------------------------
Ended(r) == pc[r] \in {"handed over", "returned", "killed"}

(* The first SIGINT *)
Interrupt(r) ==
  /\ ~Ended(r)
  /\ ~cancelled[r]
  /\ cancelled' = [cancelled EXCEPT ![r] = TRUE]
  /\ UNCHANGED <<podVars, world, pc, cl, endpoints, resolved, ranges, unread, results>>

(* SIGTERM, SIGKILL, a lost machine: no deferred call runs *)
Kill(r) ==
  /\ ~Ended(r)
  /\ Goto(r, "killed")
  /\ UNCHANGED <<podVars, fixed, cl, endpoints, resolved, ranges, unread, results>>

Cluster(s) == ServerStep(s) /\ UNCHANGED <<world, runVars>>

RunStep(r) ==
  \/ HostNetwork(r)
  \/ HostNetworkFails(r)
  \/ ManagedName(r)
  \/ MultiClusterService(r)
  \/ \E range \in {"serviceCIDR", "clusterCIDR"} : GatherCephCIDRs(r, range)
  \/ DiscoverMons(r)
  \/ DiscoverOSDs(r)
  \/ DiscoverFails(r)
  \/ SubmarinerService(r)
  \/ Deploys(r)
  \/ DeployFails(r)
  \/ PodIsReady(r)
  \/ WaitFails(r)
  \/ Probe(r)
  \/ CleanUp(r)
  \/ Return(r)

Next ==
  \/ \E r \in Runs : RunStep(r)
  \/ \E r \in Runs : Interrupt(r)
  \/ \E r \in Runs : Kill(r)
  \/ \E s \in Slots : Cluster(s)

Spec == Init /\ [][Next]_vars

(* Every call is answered at last: the wait and the execs have timeouts,    *)
(* the plain calls are assumed to be answered.                              *)
FairSpec == Spec /\ \A r \in Runs : WF_vars(RunStep(r))

-----------------------------------------------------------------------------
(* Types, and that the loops stand where their sequences say *)
TypeOK ==
  /\ ServerTypeOK
  /\ world \in Worlds
  /\ pc \in [Runs -> {"hostNetwork", "name", "mcs", "serviceCIDR", "clusterCIDR", "mons",
                      "osds", "service", "deploy", "wait", "probe", "cleanup", "return",
                      "returned", "handed over", "killed"}]
  /\ cl \in [Runs -> Bases]
  /\ cancelled \in [Runs -> BOOLEAN]
  /\ \A r \in Runs :
       /\ ranges[r] \subseteq {"serviceCIDR", "clusterCIDR"} /\ unread[r] \subseteq Bases
       /\ pc[r] \in {"wait", "probe", "cleanup"} => deferred[r] = {PodOf(r)}
       /\ pc[r] \in {"service", "deploy", "wait", "probe"} => endpoints[r] # <<>>

ResultsOf(r, c) == {x \in results[r] : x.cl = c}
Clean(r, c) == \A x \in ResultsOf(r, c) : x.status = "PASS"

DaemonsOf(c) ==
  {d \in ToSet(world.objects[c].mons) \cup ToSet(world.objects[c].osds) :
     <<c, d>> \in world.parsed}

(* A subject without complaint is right: it has daemons, the peer connects  *)
(* to every one whose address can be parsed, with GlobalNet each has its    *)
(* Submariner service and multiClusterService names the cluster; and if the *)
(* peer has a proxy, its noProxy list covers what is connected to.  The     *)
(* errors that leave no result are those of gatherCephCIDRs (unread).       *)
CleanReportIsTrue ==
  \A r \in Runs, c \in Bases :
    /\ pc[r] = "returned" /\ IsSubject(c) /\ Clean(r, c)
    /\ ~ \E x \in results[r] : x.check = "hostNetwork"
    =>
      LET o == world.objects[c]
          hosts == IF o.submariner = "globalnet" THEN DaemonsOf(c)
                   ELSE {"serviceCIDR", "clusterCIDR"}
      IN  /\ DaemonsOf(c) # {} /\ o.named
          /\ {c} \X DaemonsOf(c) \subseteq world.reach
          /\ o.submariner = "globalnet" =>
               o.mcs = "matches" /\ {c} \X DaemonsOf(c) \subseteq world.exported
          /\ Peer(c) \in world.proxied /\ c \notin unread[r] =>
               {c} \X hosts \subseteq world.covered

(* No failure hides a daemon or the other cluster: each subject has either  *)
(* a FAIL that names the step where its check ended, or one result for      *)
(* every daemon, by the lookup of its service or by the probe.              *)
EveryDaemonAccounted ==
  \A r \in Runs : pc[r] = "returned" =>
    \/ \E x \in results[r] : results[r] = {x} /\ x.check = "hostNetwork"
    \/ \A c \in Bases : IsSubject(c) =>
         LET of(check) == {x \in ResultsOf(r, c) : x.check = check}
             tested == {x.at : x \in of("daemon")}
         IN  /\ \A d \in DaemonsOf(c) : \A x, y \in of("daemon") :
                  x.at = d /\ y.at = d => x = y
             /\ CASE of("name") \cup of("discover") # {} -> tested = {}
                  [] of("pod") # {} -> tested \subseteq DaemonsOf(c)
                  [] OTHER -> tested = DaemonsOf(c) /\ tested # {}

(* A run ends, whatever the clusters do. *)
Terminates == \A r \in Runs : <>Ended(r)

(* The pod discipline all checks share, implemented by this one. *)
Discipline == INSTANCE TestPods WITH
  held <- deferred,
  run <- [r \in Runs |-> IF pc[r] \in {"returned", "killed"} THEN pc[r] ELSE "active"]

ImplementsTestPods == Discipline!Spec

(* docs/network-configuration.md:24: "When hostNetwork: true is set on the  *)
(* CephCluster CR ... Every storage node on c1 must be able to reach every  *)
(* storage node on c2": a check that ends has tested, or failed to test,    *)
(* the daemons of each cluster with hostNetwork.                            *)
HostNetworkTested ==
  \A r \in Runs : pc[r] = "returned" =>
    \/ \E x \in results[r] : x.check = "hostNetwork"
    \/ \A c \in Bases : world.objects[c].hostNet => ResultsOf(r, c) # {}

=============================================================================
