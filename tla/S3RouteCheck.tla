----------------------------- MODULE S3RouteCheck -----------------------------
(***************************************************************************)
(* CheckS3Routes (pkg/check/s3route.go) and the pods it works with: find   *)
(* the S3 route of each base cluster, then, from one test pod in each      *)
(* target cluster, probe every route found.  Any number of runs of the     *)
(* tool do this at once; the pod name dr-check-s3-test-<n> of the n-th     *)
(* target is the same in all of them, so the slot IS the target's index.   *)
(*                                                                         *)
(* A step is one call to a cluster with the assignments up to the next.    *)
(***************************************************************************)
EXTENDS PodServer, Integers, FiniteSets

CONSTANT Worlds  (* the states of the clusters' networks to consider *)

(* The targets are numbered in the order of the list the check builds, and *)
(* the hub is always the first.                                            *)
ASSUME TargetsAssumption ==
  IsFiniteSet(Slots) /\ Slots = 1..Cardinality(Slots) /\ 1 \in Slots

Targets == Slots
Bases == {"c1", "c2"}  (* a route is known by the cluster it is in *)

(* routes: the base clusters with a route named s3 and a host; reach: the   *)
(* <<target, route>> that answer; proxied: targets whose Cluster object has *)
(* Proxy.Configured; covered: <<target, route>> the noProxy list covers.    *)
ASSUME WorldsAssumption ==
  Worlds \subseteq [routes : SUBSET Bases, proxied : SUBSET Targets,
                    reach : SUBSET (Targets \X Bases),
                    covered : SUBSET (Targets \X Bases)]

VARIABLES
  world,      (* the network, fixed while the runs last                      *)
  pc,         (* run -> the call it is about to make                         *)
  cancelled,  (* run -> SIGINT has cancelled its context                     *)
  found,      (* run -> allRoutes                                            *)
  target,     (* run -> the target of the current turn of the loop           *)
  todo,       (* run -> routes still to probe in this turn                   *)
  deferred,   (* run -> targets whose deferred DeleteTestPod is still to run *)
  results     (* run -> the CheckResults                                     *)

runVars == <<pc, cancelled, found, target, todo, deferred, results>>
vars == <<serverVars, world, runVars>>

-----------------------------------------------------------------------------
Result(check, t, route, status) ==
  [check |-> check, target |-> t, route |-> route, status |-> status]

Report(r, rs) == results' = [results EXCEPT ![r] = @ \cup rs]
Goto(r, label) == pc' = [pc EXCEPT ![r] = label]

(* The deferred calls of one function run last in, first out, and a later   *)
(* target's is registered later.                                            *)
NextDeferred(r) == CHOOSE t \in deferred[r] : \A u \in deferred[r] : u <= t

Init ==
  /\ ServerInit
  /\ world \in Worlds
  /\ pc = [r \in Runs |-> "discover-c1"]
  /\ cancelled = [r \in Runs |-> FALSE]
  /\ found = [r \in Runs |-> {}]
  /\ target = [r \in Runs |-> 1]
  /\ todo = [r \in Runs |-> {}]
  /\ deferred = [r \in Runs |-> {}]
  /\ results = [r \in Runs |-> {}]

-----------------------------------------------------------------------------
(* DiscoverS3Routes: the answer, or an error that ends the check *)

DiscoverFails(r, c) ==
  /\ pc[r] = IF c = "c1" THEN "discover-c1" ELSE "discover-c2"
  /\ Report(r, {Result("discover", 0, c, "FAIL")})
  /\ Goto(r, "return")
  /\ UNCHANGED <<serverVars, world, cancelled, found, target, todo, deferred>>

DiscoverC1(r) ==
  /\ pc[r] = "discover-c1"
  /\ ~cancelled[r]
  /\ found' = [found EXCEPT ![r] = world.routes \cap {"c1"}]
  /\ Goto(r, "discover-c2")
  /\ UNCHANGED <<serverVars, world, cancelled, target, todo, deferred, results>>

DiscoverC2(r) ==
  /\ pc[r] = "discover-c2"
  /\ ~cancelled[r]
  /\ found' = [found EXCEPT ![r] = @ \cup (world.routes \cap {"c2"})]
  /\ IF found'[r] = {}
       THEN /\ Report(r, {Result("discover", 0, "any", "WARN")})
            /\ Goto(r, "return")
       ELSE /\ Goto(r, "deploy")
            /\ UNCHANGED results
  /\ UNCHANGED <<serverVars, world, cancelled, target, todo, deferred>>

-----------------------------------------------------------------------------
(* One turn of the loop over the targets *)

(* CheckEndpointNoProxy for the target and every route found *)
NoProxyResults(r) ==
  LET t == target[r] IN
  {Result("noproxy", t, c, IF <<t, c>> \in world.covered THEN "PASS" ELSE "FAIL") :
     c \in {d \in found[r] : t \in world.proxied}}

(* Mutant: the loop runs once too often *)
NextTargetTooFar(r) ==
  /\ target' = [target EXCEPT ![r] = @ + 1]
  /\ Goto(r, IF target[r] \in Targets THEN "deploy" ELSE "return")

(* `continue`, the end of the loop's body, or the end of the loop *)
NextTarget(r) ==
  /\ target' = [target EXCEPT ![r] = @ + 1]
  /\ Goto(r, IF target[r] + 1 \in Targets THEN "deploy" ELSE "return")

Deploys(r) ==
  /\ pc[r] = "deploy"
  /\ ~cancelled[r]
  /\ DeployTestPod(r, target[r])
  /\ deferred' = [deferred EXCEPT ![r] = @ \cup {target[r]}]
  /\ Report(r, NoProxyResults(r))
  /\ Goto(r, "wait")
  /\ UNCHANGED <<world, cancelled, found, target, todo>>

(* Mutant: the first deployment that fails ends the check *)
DeployFailureReturns(r) ==
  /\ pc[r] = "deploy"
  /\ DeployRefused
  /\ Report(r, NoProxyResults(r) \cup {Result("deploy", target[r], "any", "FAIL")})
  /\ Goto(r, "return")
  /\ UNCHANGED <<world, cancelled, found, target, todo, deferred>>

(* Mutant: the deletion is deferred before the error is looked at *)
DeployFailureDeferred(r) ==
  /\ pc[r] = "deploy"
  /\ DeployRefused
  /\ deferred' = [deferred EXCEPT ![r] = @ \cup {target[r]}]
  /\ Report(r, NoProxyResults(r) \cup {Result("deploy", target[r], "any", "FAIL")})
  /\ NextTarget(r)
  /\ UNCHANGED <<world, cancelled, found, todo>>

(* Mutant: a pod that exists already is good enough to probe from *)
DeployFailureReuses(r) ==
  /\ pc[r] = "deploy"
  /\ DeployRefused
  /\ IF ~cancelled[r] /\ ~IsFree(target[r])
       THEN /\ Report(r, NoProxyResults(r))
            /\ Goto(r, "wait")
            /\ UNCHANGED target
       ELSE /\ Report(r, NoProxyResults(r) \cup {Result("deploy", target[r], "any", "FAIL")})
            /\ NextTarget(r)
  /\ UNCHANGED <<world, cancelled, found, todo, deferred>>

(* DeployTestPod returns an error.  A context that is cancelled before the  *)
(* call sends nothing; one that is cancelled during the call leaves the     *)
(* Create on its way.                                                       *)
DeployFails(r) ==
  /\ pc[r] = "deploy"
  /\ \/ ~cancelled[r] /\ DeployUnanswered(r, target[r])
     \/ DeployRefused
  /\ Report(r, NoProxyResults(r) \cup {Result("deploy", target[r], "any", "FAIL")})
  /\ NextTarget(r)
  /\ UNCHANGED <<world, cancelled, found, todo, deferred>>

(* WaitForPodReady: the pod is Running at a poll ... *)
PodIsReady(r) ==
  /\ pc[r] = "wait"
  /\ ~cancelled[r]
  /\ PodReady(target[r])
  /\ todo' = [todo EXCEPT ![r] = found[r]]
  /\ Goto(r, "probe")
  /\ UNCHANGED <<serverVars, world, cancelled, found, target, deferred, results>>

(* Mutant: a pod that is not ready is skipped without a result *)
WaitFailsSilently(r) ==
  /\ pc[r] = "wait"
  /\ NextTarget(r)
  /\ UNCHANGED <<serverVars, world, cancelled, found, todo, deferred, results>>

(* Mutant: no podTimeout *)
WaitOnlyInterrupted(r) ==
  /\ pc[r] = "wait"
  /\ cancelled[r]
  /\ Report(r, {Result("wait", target[r], "any", "FAIL")})
  /\ NextTarget(r)
  /\ UNCHANGED <<serverVars, world, cancelled, found, todo, deferred>>

(* ... or podTimeout passes, or the context is cancelled *)
WaitFails(r) ==
  /\ pc[r] = "wait"
  /\ Report(r, {Result("wait", target[r], "any", "FAIL")})
  /\ NextTarget(r)
  /\ UNCHANGED <<serverVars, world, cancelled, found, todo, deferred>>

(* testS3Reachability: a PASS is an answer of the route to curl in the pod; *)
(* the exec, the curl or execTimeout can fail at any time.                  *)
CanAnswer(r, c) ==
  /\ ~cancelled[r]
  /\ Executable(target[r])
  /\ <<target[r], c>> \in world.reach

Probe(r, c) ==
  /\ pc[r] = "probe"
  /\ c \in todo[r]
  /\ c = "c2" => "c1" \notin todo[r]
  /\ \E status \in {"PASS", "FAIL"} :
       /\ status = "PASS" => CanAnswer(r, c)
       /\ Report(r, {Result("reach", target[r], c, status)})
  /\ todo' = [todo EXCEPT ![r] = @ \ {c}]
  /\ IF todo'[r] = {} THEN NextTarget(r) ELSE UNCHANGED <<pc, target>>
  /\ UNCHANGED <<serverVars, world, cancelled, found, deferred>>

-----------------------------------------------------------------------------
(* Mutant: the deferred deletion uses the check's context *)
CleanUpWithContext(r) ==
  /\ pc[r] = "return"
  /\ deferred[r] # {}
  /\ LET t == NextDeferred(r) IN
       /\ IF cancelled[r] THEN UNCHANGED serverVars ELSE DeleteTestPod(r, t)
       /\ deferred' = [deferred EXCEPT ![r] = @ \ {t}]
  /\ UNCHANGED <<world, pc, cancelled, found, target, todo, results>>

(* The function returns: one deferred deletion, with context.Background()  *)
(* and its error dropped, then the next, then the caller has the results.  *)
CleanUp(r) ==
  /\ pc[r] = "return"
  /\ deferred[r] # {}
  /\ LET t == NextDeferred(r) IN
       /\ DeleteTestPod(r, t) \/ DeleteFailed(r, t)
       /\ deferred' = [deferred EXCEPT ![r] = @ \ {t}]
  /\ UNCHANGED <<world, pc, cancelled, found, target, todo, results>>

(* Mutant: os.Exit before the deferred calls have run *)
ExitEarly(r) ==
  /\ pc[r] = "return"
  /\ Goto(r, "returned")
  /\ UNCHANGED <<serverVars, world, cancelled, found, target, todo, deferred, results>>

Return(r) ==
  /\ pc[r] = "return"
  /\ deferred[r] = {}
  /\ Goto(r, "returned")
  /\ UNCHANGED <<serverVars, world, cancelled, found, target, todo, deferred, results>>

Ended(r) == pc[r] \in {"returned", "killed"}

(* The first SIGINT; signal.NotifyContext swallows the others *)
Interrupt(r) ==
  /\ ~Ended(r)
  /\ ~cancelled[r]
  /\ cancelled' = [cancelled EXCEPT ![r] = TRUE]
  /\ UNCHANGED <<serverVars, world, pc, found, target, todo, deferred, results>>

(* SIGTERM, SIGKILL, a lost machine: no deferred call runs *)
Kill(r) ==
  /\ ~Ended(r)
  /\ Goto(r, "killed")
  /\ UNCHANGED <<serverVars, world, cancelled, found, target, todo, deferred, results>>

Cluster(t) == ServerStep(t) /\ UNCHANGED <<world, runVars>>

(* The run's own steps *)
RunStep(r) ==
  \/ \E c \in Bases : DiscoverFails(r, c)
  \/ DiscoverC1(r)
  \/ DiscoverC2(r)
  \/ Deploys(r)
  \/ DeployFails(r)
  \/ PodIsReady(r)
  \/ WaitFails(r)
  \/ \E c \in Bases : Probe(r, c)
  \/ CleanUp(r)
  \/ Return(r)

Next ==
  \/ \E r \in Runs : RunStep(r)
  \/ \E r \in Runs : Interrupt(r)
  \/ \E r \in Runs : Kill(r)
  \/ \E t \in Targets : Cluster(t)

Spec == Init /\ [][Next]_vars

(* Every call is answered at last (each wait and exec has a timeout, and    *)
(* the plain calls are assumed to be answered), and a pod that terminates   *)
(* is gone at last.  No fairness for pods that start: WaitForPodReady has a *)
(* timeout.                                                                 *)
Fairness ==
  /\ \A r \in Runs : WF_vars(RunStep(r))
  /\ \A t \in Targets : WF_vars(PodGone(t) /\ UNCHANGED <<world, runVars>>)

FairSpec == Spec /\ Fairness

-----------------------------------------------------------------------------
ResultTypes ==
  [check : {"discover", "noproxy", "deploy", "wait", "reach"}, target : Nat,
   route : Bases \cup {"any"}, status : {"PASS", "WARN", "FAIL"}]

(* Types of the variables, and the places where the loop's variables matter *)
TypeOK ==
  /\ ServerTypeOK
  /\ world \in Worlds
  /\ pc \in [Runs -> {"discover-c1", "discover-c2", "deploy", "wait", "probe",
                      "return", "returned", "killed"}]
  /\ cancelled \in [Runs -> BOOLEAN]
  /\ found \in [Runs -> SUBSET Bases]
  /\ target \in [Runs -> Nat]
  /\ todo \in [Runs -> SUBSET Bases]
  /\ deferred \in [Runs -> SUBSET Targets]
  /\ \A r \in Runs : results[r] \subseteq ResultTypes
  /\ \A r \in Runs : pc[r] \in {"deploy", "wait", "probe"} => target[r] \in Targets

(* What the results of a run say *)
Complains(r) == \E x \in results[r] : x.status # "PASS"
ListedRoutes(r) ==
  pc[r] = "returned" /\ ~ \E x \in results[r] : x.check = "discover"

(* A report without a complaint is right: every route there is answers from *)
(* every target, and where a target has a proxy its noProxy list covers it. *)
(* The failures that a `continue` skips must have left a FAIL behind.       *)
CleanReportIsTrue ==
  \A r \in Runs : pc[r] = "returned" /\ ~Complains(r) =>
    \A t \in Targets, c \in world.routes :
      /\ <<t, c>> \in world.reach
      /\ t \in world.proxied => <<t, c>> \in world.covered

(* The failure of one target hides nothing of another: each has either its  *)
(* deploy or wait failure, or a result for every route found; and the       *)
(* noProxy results do not depend on the pod.                                *)
EveryTargetAccounted ==
  \A r \in Runs : ListedRoutes(r) =>
    \A t \in Targets :
      LET of(check) == {x.route : x \in {y \in results[r] : y.check = check /\ y.target = t}}
      IN  /\ of("deploy") = {} /\ of("wait") = {} => of("reach") = found[r]
          /\ of("deploy") # {} \/ of("wait") # {} => of("reach") = {}
          /\ t \in world.proxied => of("noproxy") = found[r]

(* When the check has returned, a living pod of its own is one it was never *)
(* told of, or one whose Delete failed: interrupted or not, after whatever  *)
(* failed (the deferred calls use context.Background()).                    *)
NothingLeftBehind ==
  \A r \in Runs : pc[r] = "returned" =>
    \A t \in Targets : Owns(r, t) => <<r, t>> \in orphaned

(* WaitForPodReady and ExecInPod find the pod by its name alone.  A route   *)
(* reported as reached was reached from the run's own pod all the same, not *)
(* from another run's or a leftover, unless a pod of that name was deleted  *)
(* from outside.                                                            *)
ProbesFromOwnPod ==
  [][\A r \in Runs, t \in Targets, c \in Bases :
       Result("reach", t, c, "PASS") \in results'[r] \ results[r]
         => pods[t].owner = r \/ OutsideTouched(t)]_vars

(* A run ends, whatever the clusters do (pods that never start included). *)
Terminates == \A r \in Runs : <>Ended(r)

(* Some time after a run returned its pod names are free for the next run, *)
(* or hold pods of others, or a pod the run could not know of.             *)
NamesReleased ==
  \A r \in Runs : pc[r] = "returned" ~>
    \A t \in Targets : pods[t].owner = r => <<r, t>> \in orphaned

(* The pod discipline all checks share, implemented by this one: a deferred *)
(* deletion stands for a pod that DeployTestPod returned, and runs once.    *)
Discipline == INSTANCE TestPods WITH
  held <- deferred,
  run <- [r \in Runs |-> IF Ended(r) THEN pc[r] ELSE "active"]

ImplementsTestPods == Discipline!Spec

(* docs/network-configuration.md, S3 routes: "The following clusters need   *)
(* access to S3 routes on **both** c1 and c2".  A report that does not      *)
(* complain has probed both base clusters' routes from every target.        *)
BothRoutesProbed ==
  \A r \in Runs : pc[r] = "returned" /\ ~Complains(r) =>
    \A t \in Targets, c \in Bases : Result("reach", t, c, "PASS") \in results[r]

=============================================================================
