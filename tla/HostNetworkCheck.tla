--------------------------- MODULE HostNetworkCheck ---------------------------
(***************************************************************************)
(* checkCephHostNetwork (pkg/check/ceph_daemon.go), deployPodsOnAllNodes   *)
(* and cleanupPods (ceph_daemon_discovery.go): with hostNetwork on both    *)
(* base clusters, deploy one test pod per storage node of c1, then of c2,  *)
(* and open a TCP connection from every node to every mon and OSD of the   *)
(* peer.  The pod dr-check-hostnet-<cluster>-<i> of the i-th node is the   *)
(* slot <<cluster, i>>.                                                    *)
(***************************************************************************)
EXTENDS PodServer, Integers, FiniteSets, Sequences

CONSTANT Worlds  (* the states of the clusters' networks to consider *)

Bases == {"c1", "c2"}
Peer(c) == IF c = "c1" THEN "c2" ELSE "c1"
NodesOf(c) == {s \in Slots : s[1] = c}

ASSUME NodesAssumption ==
  \A s \in Slots : s = <<s[1], s[2]>> /\ s[1] \in Bases /\ s[2] \in Nat

(* endpoints: the mons and OSDs of a cluster that the tool can parse an     *)
(* address of, numbered in the order it lists them; open: the <<slot,       *)
(* endpoint>> where the node of the slot can connect to the peer's endpoint *)
ASSUME WorldsAssumption ==
  \A w \in Worlds :
    /\ \A c \in Bases : w.endpoints[c] \subseteq Nat
    /\ w.open \subseteq Slots \X Nat

VARIABLES
  world,      (* the network, fixed while the runs last                   *)
  pc,         (* run -> where it is in Program                            *)
  run,        (* run -> "active", "returned" or "killed"                  *)
  cancelled,  (* run -> SIGINT has cancelled its context                  *)
  podNames,   (* run -> the pods DeployTestPod returned, not yet deleted  *)
  waiting,    (* run -> pods deployPodsOnAllNodes has still to wait for   *)
  deferred,   (* run -> clusters whose cleanupPods is deferred            *)
  probes,     (* run -> <<slot, endpoint>> still to probe from a cluster  *)
  results     (* run -> the CheckResults                                  *)

runVars == <<pc, run, cancelled, podNames, waiting, deferred, probes, results>>
vars == <<serverVars, world, runVars>>

-----------------------------------------------------------------------------
(* What checkCephHostNetwork does, in order *)
Program ==
  << <<"daemons", "c1">>, <<"daemons", "c2">>, <<"nodes", "c1">>, <<"nodes", "c2">>,
     <<"deploy", "c1">>, <<"wait", "c1">>, <<"deploy", "c2">>, <<"wait", "c2">>,
     <<"probe", "c1">>, <<"probe", "c2">>, <<"return", "all">> >>

At(r, step, c) == run[r] = "active" /\ Program[pc[r]] = <<step, c>>

Proceed(r) == pc' = [pc EXCEPT ![r] = @ + 1]
Finish(r)  == pc' = [pc EXCEPT ![r] = Len(Program)]

Result(check, at, status) == [check |-> check, at |-> at, status |-> status]
Report(r, x) == results' = [results EXCEPT ![r] = @ \cup {x}]

(* An error of any call is one FAIL, the only result there will be *)
Fail(r, check, c) == Report(r, Result(check, <<c>>, "FAIL")) /\ Finish(r)

Init ==
  /\ ServerInit
  /\ world \in Worlds
  /\ pc = [r \in Runs |-> 1]
  /\ run = [r \in Runs |-> "active"]
  /\ cancelled = [r \in Runs |-> FALSE]
  /\ podNames = [r \in Runs |-> {}]
  /\ waiting = [r \in Runs |-> {}]
  /\ deferred = [r \in Runs |-> {}]
  /\ probes = [r \in Runs |-> {}]
  /\ results = [r \in Runs |-> {}]

-----------------------------------------------------------------------------
(* Mutant: no endpoint at all is not an error *)
DiscoverNone(r, c) ==
  /\ At(r, "daemons", c)
  /\ ~cancelled[r]
  /\ Proceed(r)
  /\ UNCHANGED <<serverVars, world, run, cancelled, podNames, waiting, deferred, probes, results>>

(* discoverDaemonEndpoints: both the mons' ConfigMap and `ceph osd dump`    *)
(* answer, with at least one endpoint between them                          *)
DiscoverDaemons(r, c) ==
  /\ At(r, "daemons", c)
  /\ ~cancelled[r]
  /\ world.endpoints[c] # {}
  /\ Proceed(r)
  /\ UNCHANGED <<serverVars, world, run, cancelled, podNames, waiting, deferred, probes, results>>

(* getStorageNodeIPs: at least one labelled node with an internal address *)
ListNodes(r, c) ==
  /\ At(r, "nodes", c)
  /\ ~cancelled[r]
  /\ NodesOf(c) # {}
  /\ Proceed(r)
  /\ UNCHANGED <<serverVars, world, run, cancelled, podNames, waiting, deferred, probes, results>>

ReadFails(r, c) ==
  /\ \E step \in {"daemons", "nodes"} : At(r, step, c) /\ Fail(r, step, c)
  /\ UNCHANGED <<serverVars, world, run, cancelled, podNames, waiting, deferred, probes>>

-----------------------------------------------------------------------------
(* deployPodsOnAllNodes: all the Creates in node order, then all the waits  *)
(* in the order of a Go map; the first error ends it, and the caller        *)
(* returns before its `defer cleanupPods`.                                  *)

NextNode(r, c) ==
  CHOOSE s \in NodesOf(c) \ podNames[r] : \A u \in NodesOf(c) \ podNames[r] : s[2] <= u[2]

Deploys(r, c) ==
  /\ At(r, "deploy", c)
  /\ ~cancelled[r]
  /\ LET s == NextNode(r, c) IN
       /\ DeployTestPod(r, s)
       /\ podNames' = [podNames EXCEPT ![r] = @ \cup {s}]
       /\ IF NodesOf(c) \subseteq podNames'[r]
            THEN Proceed(r) /\ waiting' = [waiting EXCEPT ![r] = NodesOf(c)]
            ELSE UNCHANGED <<pc, waiting>>
  /\ UNCHANGED <<world, run, cancelled, deferred, probes, results>>

(* Mutant: the name is recorded before the error is looked at *)
DeployFailureRecorded(r, c) ==
  /\ At(r, "deploy", c)
  /\ DeployRefused
  /\ podNames' = [podNames EXCEPT ![r] = @ \cup {NextNode(r, c)}]
  /\ Fail(r, "deploy", c)
  /\ UNCHANGED <<world, run, cancelled, waiting, deferred, probes>>

DeployFails(r, c) ==
  /\ At(r, "deploy", c)
  /\ \/ ~cancelled[r] /\ DeployUnanswered(r, NextNode(r, c))
     \/ DeployRefused
  /\ Fail(r, "deploy", c)
  /\ UNCHANGED <<world, run, cancelled, podNames, waiting, deferred, probes>>

ProbesFrom(c) == NodesOf(c) \X world.endpoints[Peer(c)]

(* Mutant: both clusters' clean-ups are deferred after c2's deployment *)
DeferredTogether(r, c) ==
  /\ At(r, "wait", c)
  /\ ~cancelled[r]
  /\ \E s \in waiting[r] :
       /\ PodReady(s)
       /\ waiting' = [waiting EXCEPT ![r] = @ \ {s}]
  /\ IF waiting'[r] = {}
       THEN /\ Proceed(r)
            /\ deferred' = [deferred EXCEPT ![r] = IF c = "c2" THEN Bases ELSE {}]
            /\ probes' = [probes EXCEPT ![r] = IF c = "c2" THEN ProbesFrom("c1") ELSE {}]
       ELSE UNCHANGED <<pc, deferred, probes>>
  /\ UNCHANGED <<serverVars, world, run, cancelled, podNames, results>>

(* The last wait returns the pods to the caller, which defers their         *)
(* clean-up, and goes on to the peer or to the probes.                      *)
PodIsReady(r, c) ==
  /\ At(r, "wait", c)
  /\ ~cancelled[r]
  /\ \E s \in waiting[r] :
       /\ PodReady(s)
       /\ waiting' = [waiting EXCEPT ![r] = @ \ {s}]
  /\ IF waiting'[r] = {}
       THEN /\ Proceed(r)
            /\ deferred' = [deferred EXCEPT ![r] = @ \cup {c}]
            /\ probes' = [probes EXCEPT ![r] = IF c = "c2" THEN ProbesFrom("c1") ELSE {}]
       ELSE UNCHANGED <<pc, deferred, probes>>
  /\ UNCHANGED <<serverVars, world, run, cancelled, podNames, results>>

(* Mutant: a pod that is not ready in time ends the check without a FAIL *)
WaitFailsSilently(r, c) ==
  /\ At(r, "wait", c)
  /\ Finish(r)
  /\ UNCHANGED <<serverVars, world, run, cancelled, podNames, waiting, deferred, probes, results>>

(* Mutant: no podTimeout *)
WaitOnlyInterrupted(r, c) ==
  /\ At(r, "wait", c)
  /\ cancelled[r]
  /\ Fail(r, "deploy", c)
  /\ UNCHANGED <<serverVars, world, run, cancelled, podNames, waiting, deferred, probes>>

WaitFails(r, c) ==
  /\ At(r, "wait", c)
  /\ Fail(r, "deploy", c)
  /\ UNCHANGED <<serverVars, world, run, cancelled, podNames, waiting, deferred, probes>>

-----------------------------------------------------------------------------
(* The nodes in order and for each the peer's endpoints in order *)
FirstProbe(S) ==
  CHOOSE p \in S : \A q \in S : p[1][2] < q[1][2] \/ (p[1] = q[1] /\ p[2] <= q[2])

CanConnect(r, p) == ~cancelled[r] /\ Executable(p[1]) /\ p \in world.open

(* Mutant: the first endpoint out of reach ends the check *)
ProbeFailureReturns(r, c) ==
  /\ At(r, "probe", c)
  /\ LET p == FirstProbe(probes[r]) IN Report(r, Result("port", <<p[1], p[2]>>, "FAIL"))
  /\ Finish(r)
  /\ UNCHANGED <<serverVars, world, run, cancelled, podNames, waiting, deferred, probes>>

(* testDaemonTCP through exec, with its timeouts *)
Probe(r, c) ==
  /\ At(r, "probe", c)
  /\ LET p == FirstProbe(probes[r]) IN
       /\ \E status \in {"PASS", "FAIL"} :
            /\ status = "PASS" => CanConnect(r, p)
            /\ Report(r, Result("port", <<p[1], p[2]>>, status))
       /\ IF probes[r] = {p}
            THEN /\ Proceed(r)
                 /\ probes' = [probes EXCEPT ![r] =
                                 IF c = "c1" THEN ProbesFrom("c2") ELSE {}]
            ELSE /\ probes' = [probes EXCEPT ![r] = @ \ {p}]
                 /\ UNCHANGED pc
  /\ UNCHANGED <<serverVars, world, run, cancelled, podNames, waiting, deferred>>

-----------------------------------------------------------------------------
(* The function returns: the deferred cleanupPods last in, first out; each  *)
(* deletes its pods in the order of a Go map and drops the errors.          *)
CleanUp(r) ==
  /\ At(r, "return", "all")
  /\ deferred[r] # {}
  /\ LET c == IF "c2" \in deferred[r] THEN "c2" ELSE "c1"
         mine == podNames[r] \cap NodesOf(c)
     IN  \E s \in mine :
           /\ DeleteTestPod(r, s) \/ DeleteFailed(r, s)
           /\ podNames' = [podNames EXCEPT ![r] = @ \ {s}]
           /\ deferred' = [deferred EXCEPT ![r] = IF mine = {s} THEN @ \ {c} ELSE @]
  /\ UNCHANGED <<world, pc, run, cancelled, waiting, probes, results>>

Return(r) ==
  /\ At(r, "return", "all")
  /\ deferred[r] = {}
  /\ run' = [run EXCEPT ![r] = "returned"]
  /\ UNCHANGED <<serverVars, world, pc, cancelled, podNames, waiting, deferred, probes, results>>

(* The first SIGINT *)
Interrupt(r) ==
  /\ run[r] = "active"
  /\ ~cancelled[r]
  /\ cancelled' = [cancelled EXCEPT ![r] = TRUE]
  /\ UNCHANGED <<serverVars, world, pc, run, podNames, waiting, deferred, probes, results>>

(* SIGTERM, SIGKILL, a lost machine: no deferred call runs *)
Kill(r) ==
  /\ run[r] = "active"
  /\ run' = [run EXCEPT ![r] = "killed"]
  /\ UNCHANGED <<serverVars, world, pc, cancelled, podNames, waiting, deferred, probes, results>>

Cluster(s) == ServerStep(s) /\ UNCHANGED <<world, runVars>>

RunStep(r) ==
  \/ \E c \in Bases :
       \/ DiscoverDaemons(r, c)
       \/ ListNodes(r, c)
       \/ ReadFails(r, c)
       \/ Deploys(r, c)
       \/ DeployFails(r, c)
       \/ PodIsReady(r, c)
       \/ WaitFails(r, c)
       \/ Probe(r, c)
  \/ CleanUp(r)
  \/ Return(r)

Next ==
  \/ \E r \in Runs : RunStep(r)
  \/ \E r \in Runs : Interrupt(r)
  \/ \E r \in Runs : Kill(r)
  \/ \E s \in Slots : Cluster(s)

Spec == Init /\ [][Next]_vars

(* Every call is answered at last: the waits and execs have timeouts, the   *)
(* plain calls are assumed to be answered.                                  *)
FairSpec == Spec /\ \A r \in Runs : WF_vars(RunStep(r))

-----------------------------------------------------------------------------
(* Types, and that the loops stand where their sets say *)
TypeOK ==
  /\ ServerTypeOK
  /\ world \in Worlds
  /\ pc \in [Runs -> DOMAIN Program]
  /\ run \in [Runs -> {"active", "returned", "killed"}]
  /\ cancelled \in [Runs -> BOOLEAN]
  /\ podNames \in [Runs -> SUBSET Slots]
  /\ waiting \in [Runs -> SUBSET Slots]
  /\ deferred \in [Runs -> SUBSET Bases]
  /\ \A r \in Runs : probes[r] \subseteq Slots \X Nat
  /\ \A r \in Runs : \A c \in Bases :
       /\ At(r, "wait", c) => waiting[r] # {}
       /\ At(r, "probe", c) => probes[r] # {}
       /\ c \in deferred[r] => podNames[r] \cap NodesOf(c) # {}

Failed(r) == \E x \in results[r] : x.status = "FAIL"

(* A report without FAIL is right: every storage node listed connects to    *)
(* every endpoint listed of the peer, in both directions.                   *)
CleanReportIsTrue ==
  \A r \in Runs : run[r] = "returned" /\ ~Failed(r) =>
    \A c \in Bases : ProbesFrom(c) \subseteq world.open

(* The pods of a cluster outlive a check that returned only if that         *)
(* cluster's own deployment failed, or the run could not know of them: the  *)
(* failure of c2's deployment still cleans up c1's pods.                    *)
LeftoversOfFailedDeploy ==
  \A r \in Runs : run[r] = "returned" =>
    \A s \in Slots : Owns(r, s) =>
      \/ <<r, s>> \in orphaned
      \/ Result("deploy", <<s[1]>>, "FAIL") \in results[r]

(* Both clusters are probed from when a check ends without FAIL of a call:  *)
(* no failure of one probe ends the loops.                                  *)
ProbesAllOrNone ==
  \A r \in Runs : run[r] = "returned" =>
    \/ \E x \in results[r] : results[r] = {x} /\ x.check \in {"daemons", "nodes", "deploy"}
    \/ {x.at : x \in results[r]} = ProbesFrom("c1") \cup ProbesFrom("c2")

(* A run ends, whatever the clusters do. *)
Terminates == \A r \in Runs : <>(run[r] # "active")

(* The pod discipline all checks share, implemented by this one. *)
Discipline == INSTANCE TestPods WITH held <- podNames

ImplementsTestPods == Discipline!Spec

(* cleanupPods announces "Cleaning up test pods on <cluster>"               *)
(* (ceph_daemon_discovery.go), and deployPodsOnAllNodes hands the pods it   *)
(* made to its caller together with the error: when the check has returned, *)
(* a living pod of its own is one it could not know of.                     *)
NothingLeftBehind ==
  \A r \in Runs : run[r] = "returned" =>
    \A s \in Slots : Owns(r, s) => <<r, s>> \in orphaned

=============================================================================
