# A TLA+ verification of dr-network-check

`dr-network-check check-network` tests whether the clusters of a Data Foundation
disaster-recovery setup can reach each other. It is one sequential Go process
(about 2200 lines) that talks to up to six clusters. What makes it hard is not
its own concurrency but what it shares: it creates **test pods** under fixed names
on production clusters, runs commands in them, must remove them whatever happens,
and must not call a network good that it did not test.

## 1. Inventory

| Part | Code | State it keeps | Operations |
|---|---|---|---|
| Test pods | `pkg/check/pod.go` | none of its own: the pods on the clusters | `DeployTestPod`, `WaitForPodReady` (2 s polls, 120 s), `ExecInPod` (10 s), `DeleteTestPod` by name |
| S3 route check | `pkg/check/s3route.go` | routes, target list, results, deferred deletions | discover on c1 and c2, then per target: noProxy lookup, pod, one `curl` per route |
| Ceph check, host network | `pkg/check/ceph_daemon.go`, `ceph_daemon_discovery.go` | endpoints, nodes, `podNames` maps, results | discover mons and OSDs, one pod per storage node, a TCP connect per node and peer endpoint |
| Ceph check, Submariner | `ceph_daemon_submariner.go` | endpoints, Submariner services | ClusterIP and GlobalNet variants, `multiClusterService`, noProxy of CIDRs and IPs |
| Provider check | `pkg/check/provider.go` | endpoints, noProxy hosts | exported address, LoadBalancer, NodePort, ClusterIP; one pod on the peer, `curl` and `grpcurl` |
| Proxy / noProxy | `pkg/check/proxy.go` | `Cluster.Proxy` | `FetchProxyConfig`, `CheckEndpointNoProxy`, host and CIDR matching |
| Submariner detection | `pkg/check/multicluster.go` | `Cluster.Submariner` | `DetectSubmariner`, managed cluster name |
| Configuration, clusters | `pkg/config`, `pkg/cluster` | `Config`, the `Cluster` objects | `Validate`, effective clients, `NewClusters`, `All` |
| Command and report | `pkg/cmd/check_network.go`, `pkg/check/result.go` | `CheckReport` | the order of the checks, skip flags, exit status |
| Console, init, build | the rest | none | printing, writing a template |

**How they interact.** `runCheckNetwork` builds the cluster objects, fetches each
cluster's proxy into its object, detects Submariner, then runs the three checks
one after the other; each returns a list of results. The checks share the cluster
objects (whose `Proxy` and `Submariner` were written before) and, through the API
servers, the pods, also with other runs of the tool.

**What is hard.** A failure of any call between two others; a Create or Delete
whose answer is lost; SIGINT, which cancels the context of every call except the
deferred deletions; a kill, which runs no deferred call; pods that end, are
drained or never start; asynchronous deletion; two runs, or a run and leftovers,
under the same names; several roles on one cluster; and every early return or
`continue` after which a report without FAIL may be read as "tested and good".

**What makes each part correct.**

* *Test pods*: a run deletes only pods it owns; a pod name works as a lock; what
  is left behind is accounted for.
* *S3 and Ceph checks*: a clean report is true and complete; one failure hides
  nothing of the others; no known pod survives the return; the check ends.
* *Clusters*: each cluster is asked once; what a check reads is what was fetched.
* *Provider check*: endpoints probed are the endpoints there are; no way through the
  discovery ends a direction without a result; one pod at a time.
* *noProxy*: a covered CIDR is covered address for address; what is called uncovered
  is not covered by another entry.
* *Command*: exit status 0 means tested and good, a SIGINT is not a success.

## 2. Modules

| Module | Models | Kind |
|---|---|---|
| `PodServer` | the pods on the API servers and what each call of `pod.go` does to them | shared server state and actions |
| `TestPods` | what every check promises about its pods, in any order of calls | abstract specification |
| `TestPodsProofs` | its inductive invariant and five theorems | TLAPS |
| `S3RouteCheck` | `CheckS3Routes` with its helpers, any number of runs | component, implements `TestPods` |
| `S3RouteCheckProofs` | its types, that it implements `TestPods`, its report (complete and true) and its leftovers | TLAPS |
| `HostNetworkCheck` | `checkCephHostNetwork`, `deployPodsOnAllNodes`, `cleanupPods` | component, implements `TestPods` |
| `HostNetworkCheckProofs` | its types, that it implements `TestPods`, its report, all or none of the probes, and its leftovers | TLAPS |
| `CephDaemonPorts` | `CheckCephDaemonPorts`: the dispatch on hostNetwork, `checkCephSubmariner` with both its paths, the discovery of daemons | component, implements `TestPods` |
| `CephDaemonPortsProofs` | its types, that it implements `TestPods`, its report (complete and true) | TLAPS |
| `ProviderCheck` | `CheckOCSProvider` with its helpers | component, implements `TestPods`, EXTENDS `NoProxy` |
| `ProviderCheckProofs` | its types, that it implements `TestPods`, its report (no silent direction, complete and true) and its noProxy verdicts | TLAPS |
| `NoProxy` | `isHostCoveredByNoProxy`, `cidrContains`, and the reference they are measured by | pure operators |
| `NoProxyProofs` | that the matching is right | TLAPS |
| `Clusters` | configuration, cluster objects, duplicate removal, proxy fetch | component |
| `ClustersProofs` | its invariants for every configuration | TLAPS |
| `CheckNetwork` | `runCheckNetwork` from the configuration to the exit status | composes `Clusters` with the checks |
| `CheckNetworkProofs` | its types, SIGINT, and what exit status 0 means | TLAPS |
| `MC...` | constants for TLC | instances |

### PodServer and TestPods

A *slot* is one pod name on one cluster. `pods[s]` holds the pod there with its
phase and a ghost `owner`, the run whose Create made it. A call that is answered is one
step, because the run is blocked until the answer. A Create is acknowledged
(`DeployTestPod`), refused (`DeployRefused`), or given up by its client
(`DeployUnanswered`): it is then in `sent`, and the server acts on it at any later time
or never (`LateCreate`), also when the run has long returned or was killed. A SIGINT
while a Create is on the wire is `DeployUnanswered` with the check's `Interrupt` after
it, a kill then is the same with `Kill`: between the two the run does nothing else. So a
pod may appear after SIGINT, and no property denies it. A Delete
reaches the server (`DeleteTestPod`, with no effect on an absent or terminating
pod) or not (`DeleteFailed`). `orphaned` remembers the pods a run could not know
of; `taken` remembers deletions of a pod by anybody but its owner. Between the
calls pods start, end (they run `sleep 3600`), disappear after termination, or are
deleted from outside.

`TestPods` adds the discipline: `held[r]` are the pods whose deletion run `r` owes.
A pod is owed from the step in which `DeployTestPod` returned it, is cleaned up
once, and a kill stops everything. In the code this is the `defer` below the error
return. The order of the calls is open; it is the checks' own.

### S3RouteCheck

`pc` is the call a run makes next; `target` is the loop index (the n-th target's pod
is `dr-check-s3-test-<n-1>`, so the index is the slot), `todo` the routes left in
this turn, `deferred` the deletions registered. `world` is the network: which
routes exist, which answer from which target, which targets have a proxy and what
it covers. `Deploys` and `DeployFails` contain the noProxy results, which the code
computes before the pod; `NextTarget` is the end of the loop body and both
`continue`s; `CleanUp` runs the deferred deletions last in, first out, after SIGINT
too. A probe passes only if the route answers; it may fail at any time. A cluster
has at most one Route named `s3` in `openshift-storage`, so a route is named by its
cluster.

### HostNetworkCheck

`Program` is the sequence of the function; `podNames` are the pods deployed and not
yet deleted, `deferred` the clusters whose `cleanupPods` is registered, which
happens only after the last wait. The waits and the deletions of one cluster take
any order (Go map iteration). A deployment error ends the check with one FAIL.
The module starts where `CheckCephDaemonPorts` has found hostNetwork on both clusters.

### CephDaemonPorts

`pc` is the next call, `cl` the cluster whose daemons are checked. `HostNetwork` is
asked of c1, then of c2, and the last answer dispatches: to `HostNetworkCheck`
(`"handed over"`), or to each cluster that `IsSubject`, c1 before c2 (`NextSubject` is
every return of `checkCephSubmariner`). The ClusterIP path reads the two ranges,
reports their noProxy results, discovers and deploys; the GlobalNet path reads
`multiClusterService`, discovers, looks up one Submariner service per daemon
(`NextDaemon` is the end of the loop body and both `continue`s), and only then has
noProxy results and a pod. `endpoints` is what is left of the loop, `resolved` the
daemons with a service. The pods of the two paths have different names, hence
the slots are `<<peer, "ceph">>` and `<<peer, "ceph-mcs">>`. Which addresses parse, answer,
or are covered by noProxy is the `world`. `Parsed` is the loop that drops, keeping the order,
the daemons whose address does not parse.

### ProviderCheck and NoProxy

`cl` is the cluster whose provider is looked at, `Peer(cl)` the one that must reach it.
Each `Get` is an action: the exported address, the load balancer, the service, and then
what its type needs. `Continue` adds to `endpoints` and `lookups`, `Discovered` ends the
discovery with the noProxy results and goes for a pod if there is an endpoint, else to
`NextDirection`, which is each return of `checkProviderServices`. `TestEndpoint` and
`TestGrpc` are the two execs of a turn. `Host` gives endpoints and ranges their names,
addresses and CIDRs, so that noProxy verdicts are those of the code's own matching; `Widths` and
`Labels` say which addresses and names there can be, `Spellings` how an address can be written.

In `NoProxy` an address has its bits, a function from bit positions to {0, 1}, and its
spelling (`fd00::1` and `fd00:0:0::1` are one address in two); a name is the
sequence of its labels; `Wildcard` is the entry `*`. `EntryCovers` is one turn of the loop of
`isHostCoveredByNoProxy`, which compares texts: entry and host are equal with their
spelling, and `*` equals nothing. The reference, `Bypasses`, is about connections: an entry
holds every address of the host in whatever spelling, or is the name or a domain above it, or is
the wildcard. The entries that the reference accepts and the comparison of texts misses are
`Overlooked`: `*`, and a single address in another text than the host's.

### CheckNetwork

`Start == INSTANCE Clusters` has the configuration and the proxies; then come
`Detect`/`DetectFails` for c1 and c2, and per check `Skip` or `RunCheck`. The parts
communicate through the cluster objects, and so do the actions: `LooksAt(check)` is what
a check looks at given `proxy` and `submariner` *as written*, `world.faults` what is
wrong. A check is one step that does what the runs of its own module establish: with no complaint,
nothing it looked at is wrong, unless a console warning says that something was not
looked at (`muted`); with its context cancelled it fails. So the module asks what the
command adds: the order of the parts, the objects they share, the skip flags, the
report, the exit status. `interrupted` remembers the step in which SIGINT came.

### Clusters

`config` is what the user gave, for six roles. `Object(role)` is the object the field
of `Clusters` points to, named for the role that made it: a client whose path is its
base's shares the base's object. `FirstOfPath` is both `seen` loops, in two orders.
`FetchProxyConfig` fills one object per path or fails with a console warning.

## 3. Runs

| Run | Instance | Shows |
|---|---|---|
| `testpods` | 3 runs, 1 name | the discipline is enough for all its promises, with kills, lost answers and outside deletions |
| `s3_worlds` | 1 run, 2 targets, all 625 networks | reports true and complete, no known pod left, SIGINT or not |
| `s3_two_runs` | 2 runs, 1 target, with fairness | a route reached was reached from the run's own pod; refinement of `TestPods`; every run ends; names come free |
| `s3_both_routes` | 1 run, 1 target | **violation**: a missing route is not reported |
| `hostnet` | 1 run, nodes 2 + 1, 0 to 2 endpoints | true and complete reports, leak confined to a failed deployment, refinement, termination |
| `hostnet_leak` | the same | **violation**: pods left behind by a deployment that failed half way |
| `clusters` | all configurations over 5 kubeconfigs | one fetch per cluster, S3 targets, proxies known |
| `clusters_alias` | the same with 3 | **violation**: a proxy read that nobody fetched |
| `provider` | 1 run, 33 worlds: every shape of the objects, noProxy lists over 3-bit addresses in 2 spellings, the wildcard | no silent direction, clean ones true, every endpoint accounted for, noProxy verdicts right but for the overlooked entries, one pod at a time, refinement, termination |
| `ceph_ports` | 1 run, 3 daemons a cluster, 32 worlds | both Submariner paths true and complete, refinement, termination |
| `ceph_mixed` | the same | **violation**: a cluster with hostNetwork is not tested if the other has none |
| `check_network` | 4 configurations, 25 worlds | what exit status 0 means; SIGINT reaches it; the command ends |

**Bounds.** Pod names are independent in every action, so one name is enough for the
discipline and three runs give a killed run, its leftover and two contenders. Two
targets give every order of success, `continue` and last turn; both base clusters
are present. Two nodes on one cluster give a deployment that fails half way and a
partial wait; the other cluster has one, which keeps the two directions apart.
`hostnet` takes the networks that are fully open or miss one connection: a clean
report is refuted by one missing connection. Five kubeconfigs are the most that
`RolesApart` needs with all roles present but one shared by the clients; every
coincidence of roles occurs.

In `provider` c1 takes every combination of objects the code tells apart, mostly with
a c2 that has no endpoint, because the two directions share nothing but the results,
the pod's lifetime and SIGINT; one world has a pod in each. One endpoint at a time does not
answer, or not over gRPC. Three bits are enough for a range covered entirely, only
at its base, or only in two halves (`Widths = {3}`; the proofs have any widths, spellings and labels). One list has the load
balancer's address in another spelling, one world the wildcard. In `ceph_ports` one thing is wrong at a time (a service, a
connection, a range, an address that does not parse, or all of them), since a clean report
is refuted by one. In `check_network` each of the six kinds of fault that only one check can
find is alone in a world with each path of the Ceph check. In all three, any call
may fail at any time, on top of what the world says. Deadlock checking is off: the programs end.

**Fairness.** `FairSpec` has weak fairness of each run's own steps. The code is
sequential and every wait and exec has a timeout; the plain API calls have none, so
fairness assumes that they are answered at last. In particular the deferred Delete
with `context.Background()` can hang for ever on a dead API server, which the tool
does not handle. `s3_two_runs` also has fairness of the removal of terminating pods,
which Kubernetes does. `ProviderCheck` and `CephDaemonPorts` have the same fairness of the run's
steps; `CheckNetwork` has it for the process, whose only loops are over finite lists. There
is no fairness for pods that start, for SIGINT or for
kills.

**Findings.** (1) `checkCephHostNetwork` leaks the pods of a deployment that failed
half way, and the fixed names then block the next run. (2) A base cluster without
S3 route passes silently if the other has one, against the documentation. (3) With
one kubeconfig in two roles, a check may read the zero `Proxy` of an object that
`All()` dropped, and skips its noProxy checks. (4) With hostNetwork on one base cluster
only, its daemons are tested on no path, without a result. One more
has no run of its own: a host that the peer's noProxy list covers by `*`, or by its address in
another spelling, is reported as FAIL, because `isHostCoveredByNoProxy` compares texts
(`docs/network-configuration.md:82` has a FAIL only for what is not covered).
`NoProxyVerdictsAreExact` names these entries (`Overlooked`) and shows that there are no others.

**What exit status 0 means** (`ExitZeroIsTrue`): if the report has no WARN, the console no
warning, and no two roles share a cluster, then nothing is wrong that the run was
asked to check. Each condition is needed: a WARN does not change the status; a failed proxy
fetch or a range that could not be read is on the console only; and of findings (2) to (4),
(3) is excluded by the roles and (2) and (4) are not in what "wrong" covers. A FAIL for a
host that `*` covers is one too many and does not touch it.

## 4. Proofs

`tlapm M.tla` for `TestPodsProofs`, `ClustersProofs`, `NoProxyProofs`, `S3RouteCheckProofs`,
`HostNetworkCheckProofs`, `ProviderCheckProofs`, `CephDaemonPortsProofs` and `CheckNetworkProofs`
checks every theorem for all values of the constants. Every invariant of a passing run is stated
by a theorem.

*TestPods*, from `Nobody \notin Runs`: the inductive invariant is `TypeOK` with
`HeldIsOwn`, `OnlyOwnPodsDeleted` and `LeftoverAccounted`. `OnlyOwnPodsDeleted` is not
inductive alone: a delete by name is harmless only because a run that owes it owns the
pod, which is `HeldIsOwn`; and that needs the record `taken` to be permanent (`TakenGrows`)
and a Create to need a free name (`NewPodOwns`). `NameIsExclusive` follows: a pod has one
owner.

*Clusters*, from `NoPath \notin Paths`: `IInv` says that fetched and pending objects are
together what `All()` returned, and that what was fetched without error is right. The
theorems rest on facts about `FirstOfPath` that hold in every state: it keeps exactly one
role per path (`AllDistinct`, `AllCovers`, `S3Distinct`, `S3Covers`), and with the roles on
different clusters the objects that the checks consult are among those that `All()` returns
(`ApartConsulted`).

*NoProxy*, with no assumption, for addresses of any width and spelling and names of any length: a
host that the code calls covered bypasses the proxy for every connection (`CoveredHostsBypass`);
and if an entry holds a host that the code calls uncovered, that entry is `*` or a single
address in another text (`OnlyOverlookedAreMissed`), so no CIDR, domain or name is ever missed.
The converse without that exception is false of the code, as said above. The
step that matters is `CidrContainsIsInclusion`: comparing two prefix lengths and one
base address is the same as inclusion of the address sets; its proof flips the bit
after a prefix that is too short. `EntryIsRight` does this for each kind of entry and host.

*The four checks*, for any number of runs and whatever the clusters are like: each implements
`TestPods` (`ImplementsDiscipline`), so `OnlyOwnPodsDeleted` holds of it (`DeletesAreOwn`). A
step map alone does not do: that the `return` owes nothing and that a probe runs only while
the deletion is owed depends on the path that led there, and a target or node that the loop is
at must be one of the list. The inductive invariants say at each call which clean-up is owed;
`StepRefines` then maps every step, and `SameDiscipline` identifies the instance that TLC
checks with the one that carries the theorems of `TestPodsProofs`. Assumed are
`NobodyAssumption` and the shape of the slots (`SlotsAssumption`, `TargetsAssumption` with the
hub always a target, `NodesAssumption`). From `LeftoverAccounted` of the discipline follow

* `OnePodOnly` (provider) and `PodsEndWithTheirTurn` (Submariner paths): a living pod is the one of
  the present direction or path, while it is in use; between two and in the end there is none;
* `NothingLeft` (S3): a run that returned owes nothing, as its last step needs no clean-up left;
* `LeftoversAreOfFailedDeploy` (host network): `Owed` says at each position of the program
  which cluster's `cleanupPods` is registered, and that a pod without one is of a cluster
  with a deployment FAIL.

`WaitForPodReady` and `ExecInPod` take a name, too. The action property `ProbesFromOwnPod`
(`ProbesAreOwn`) says that what answers to it is nevertheless the run's own pod, whoever else creates and
deletes under that name: only a probe can add the result (`PassIsAProbe`), a run that probes has the
clean-up of this target in `deferred` (an invariant of `pc`, in `TypeInv`), and what is owed is
owned, which is `HeldIsOwn` of the discipline.

*Reports*, for any number of targets, nodes, endpoints and daemons. The properties speak of the
end of a run, and almost none is inductive; the invariants say at every call where each thing that
must have a result is: still to come, in the hands of this turn, or with its result.

* S3: `Progress` says that what the loop has behind it is in order unless the run complains
  already (`CleanReportsAreTrue`); `Account` says that a target behind the loop has its failure
  or a result for every route, the one that the loop is at has the routes of `todo` to come, and
  one ahead has nothing (`TargetsAreAccounted`).
* Host network: `BadResult` and `FailedStays` say that a complaint stays
  (`CleanReportsAreTrue`); `LoopInv` says that before the loops there is no result, inside them
  there are those of the probes done, and behind them there is a single FAIL or all of them
  (`ProbesAreAllOrNone`). The lemma `LeastNumber` shows that a next probe exists as long as
  there is one to do.
* Provider: `DataInv` has the types and says that no result claims more than was seen;
  `AccountInv` says what the discovery has looked at before each call (`Sought`), that a
  direction which is over has found a complaint, a missing pod or curl results (`Final`), and that
  gRPC goes hand in hand with curl (`Paired`). From it follow `NoDirectionIsSilent`,
  `EndpointsAreAccounted` and `CleanDirectionsAreTrue`. `VerdictsAreExact` carries both
  theorems of `NoProxyProofs` into the check. `HostsAssumption` and `WorldsAssumption` type
  the hosts, the objects and the noProxy lists.
* Submariner paths: `AccountInv` has a stage for each part of a turn (`Early`, `Looking`,
  `Probing`, `Done`): daemons to come, daemons resolved, and daemons with a result are
  disjoint and together all daemons. This is where `DaemonsAssumption` is needed: no daemon is
  listed twice, since Rook keeps mons and OSDs by their id. With two equal entries the code
  would report one daemon twice. From it follow `DaemonsAreAccounted` and `CleanReportsAreTrue`.
  What the recursive function `Parsed` returns is proved by induction on the length of the list:
  `NatSetInduction` states induction for a *set* of numbers, from the existence of a least
  element, because the theorems of the library with an operator as parameter cannot be
  instantiated with these provers.

*CheckNetwork*, for every configuration and set of worlds, from `NoPath \notin Paths` and the
typing of the worlds. Its start implements `Clusters` (`ImplementsStart`), so the theorems of
`ClustersProofs` hold of it. `InterruptInv` says where a SIGINT has left the run: the step it came
in is not over, or a FAIL is in the report, which only grows (`InterruptedIsNotSuccess`).
`TrustInv` says of every check behind the run that it was skipped, found nothing wrong, or left a
complaint in the report or on the console; with the objects of the roles apart and fetched
(`ApartConsulted`), `ExitZeroIsTrusted` follows. That a check does what `RunCheck` says is an
abstraction: its content is the `CleanReportsAreTrue` and `CleanDirectionsAreTrue` theorems of
the check's own module, not a step-by-step composition.

Only model-checked: all liveness (that the checks and the command end, that names come free),
since fairness and ENABLED are beyond TLAPS. The runs that expect a violation are counterexamples
on small instances and need no proof.

## 5. Not modelled, and the plan

Planned, in this order:

1. `ProbesFromOwnPod` for the other checks, whose slots the discipline protects in the same way.
2. A model with a clock for the 3600 s life of a pod against the number of probes.

Left out of the modelled components:

* ports, among them the `int32` conversion in `parseExportedAddress`, and how an address is
  cut into host and port: whether it parses is an input of `CephDaemonPorts`. One daemon
  whose address does not parse is skipped without a word, in the model as in the code;
* `CheckNetwork` takes the promise of each check from the check's own run instead of
  composing their steps, and `CephDaemonPorts` hands over to `HostNetworkCheck` where
  its call stands: the product of their states is out of TLC's reach;
* domain suffixes are matched label by label; a noProxy entry that is a piece of an IP address
  in text form, one with a port, and `*.domain` are not considered;
* a Delete that the server acts on after its client gave up: `DeleteFailed` never reaches it;
* the DNS lookup after a failed probe, which only words the message.

Out of scope: printed text and hints, flag and YAML parsing, TLS and HTTP details of `curl`,
Kubernetes' own behaviour beyond what the calls show.
