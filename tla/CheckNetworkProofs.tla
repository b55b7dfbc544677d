-------------------------- MODULE CheckNetworkProofs --------------------------
(***************************************************************************)
(* What the exit status of check-network says, proved for any set of        *)
(* kubeconfig paths, any configuration and any state of the clusters.  The  *)
(* start of the command is Clusters, whose theorems carry over; the rest is *)
(* that each part of the run leaves its trace in the report, and that the   *)
(* report forgets nothing.                                                  *)
(***************************************************************************)
EXTENDS CheckNetwork, TLAPS

StartP == INSTANCE ClustersProofs

-----------------------------------------------------------------------------
(* What ClustersProofs proves of the start *)

LEMMA SameNames ==
  /\ Start!Roles = StartP!Roles
  /\ \A role : Start!Path(role) = StartP!Path(role)
  /\ \A role : Start!Object(role) = StartP!Object(role)
  /\ Start!S3Targets = StartP!S3Targets
  /\ Start!Consulted = StartP!Consulted
  /\ Start!All = StartP!All
<1>1. Start!Roles = StartP!Roles /\ Start!AllOrder = StartP!AllOrder
      /\ Start!S3Order = StartP!S3Order
  BY DEF Start!Roles, Start!AllOrder, Start!S3Order,
         StartP!Roles, StartP!AllOrder, StartP!S3Order
<1>2. \A role : Start!Path(role) = StartP!Path(role)
  BY DEF Start!Path, Start!Base, Start!Clients, StartP!Path, StartP!Base, StartP!Clients
<1>3. \A role : Start!Object(role) = StartP!Object(role)
  BY <1>2 DEF Start!Object, Start!Base, Start!Clients,
              StartP!Object, StartP!Base, StartP!Clients
<1>4. /\ Start!FirstOfPath(Start!AllOrder) = StartP!FirstOfPath(StartP!AllOrder)
      /\ Start!FirstOfPath(Start!S3Order) = StartP!FirstOfPath(StartP!S3Order)
  BY <1>1, <1>2 DEF Start!FirstOfPath, StartP!FirstOfPath
<1>5. Start!All = StartP!All /\ Start!S3Targets = StartP!S3Targets
  BY <1>3, <1>4 DEF Start!All, Start!S3Targets, StartP!All, StartP!S3Targets
<1>6. QED
  BY <1>1, <1>2, <1>3, <1>5 DEF Start!Consulted, StartP!Consulted

LEMMA SameNext == Start!Next => StartP!Next
<1>1. Start!ReadConfig => StartP!ReadConfig
  BY DEF Start!ReadConfig, Start!Valid, StartP!ReadConfig, StartP!Valid
<1>2. Start!NewClusters => StartP!NewClusters
  BY SameNames DEF Start!NewClusters, StartP!NewClusters
<1>3. ASSUME NEW o \in Start!Roles, Start!FetchProxyConfig(o)
      PROVE  StartP!FetchProxyConfig(o)
  BY <1>3, SameNames DEF Start!FetchProxyConfig, Start!Position, Start!AllOrder,
                         StartP!FetchProxyConfig, StartP!Position, StartP!AllOrder
<1>4. Start!StartChecks => StartP!StartChecks
  BY DEF Start!StartChecks, StartP!StartChecks
<1>5. QED
  BY <1>1, <1>2, <1>3, <1>4, SameNames DEF Start!Next, StartP!Next

(* The command, up to its checks, is the start as Clusters describes it:    *)
(* nothing after it writes a Cluster object's Proxy again.                  *)
LEMMA StartStep == [Next]_vars => [StartP!Next]_(StartP!vars)
<1> SUFFICES ASSUME [Next]_vars  PROVE [StartP!Next]_(StartP!vars)
  OBVIOUS
<1>1. CASE StartUp
  BY <1>1, SameNext DEF StartUp
<1>2. CASE UNCHANGED startVars
  BY <1>2 DEF startVars, StartP!vars
<1>3. QED
  BY <1>1, <1>2 DEF Next, RunStep, Detect, DetectFails, Skip, RunCheck, Exit, Interrupt, vars

LEMMA ImplementsStart == Spec => StartP!Spec
<1>1. Init => StartP!Init
  BY SameNames DEF Init, Start!Init, StartP!Init
<1>2. QED
  BY <1>1, StartStep, PTL DEF Spec, StartP!Spec

(* The types of the start, and that its objects have the proxies there are *)
Known == Start!TypeOK /\ Start!ProxyKnownIfApart

LEMMA StartIsKnown == Spec => []Known
<1>1. StartP!TypeOK => Start!TypeOK
  BY SameNames DEF StartP!TypeOK, Start!TypeOK
<1>2. StartP!ProxyKnownIfApart => Start!ProxyKnownIfApart
  <2>1. StartP!RolesApart <=> Start!RolesApart
    BY SameNames DEF StartP!RolesApart, Start!RolesApart, StartP!Clients, Start!Clients,
                     StartP!Base, Start!Base
  <2>2. StartP!ProxyKnown => Start!ProxyKnown
    BY SameNames DEF StartP!ProxyKnown, Start!ProxyKnown
  <2>3. QED
    BY <2>1, <2>2 DEF StartP!ProxyKnownIfApart, Start!ProxyKnownIfApart
<1>3. StartP!Spec => []StartP!TypeOK
  BY NoPathAssumption, StartP!TypeCorrect
<1>4. StartP!Spec => []StartP!ProxyKnownIfApart
  BY NoPathAssumption, StartP!ProxiesAreKnown
<1>5. QED
  BY <1>1, <1>2, <1>3, <1>4, ImplementsStart, PTL DEF Known

-----------------------------------------------------------------------------
(* The types that are not the start's, and the phase at the steps after it *)

Later == {"detect c1", "detect c2", "exit", "exit 0"} \cup Checks

TypeInv ==
  /\ world \in Worlds
  /\ step \in {"start", "exit 1"} \cup Later
  /\ step \in Later => phase = "check"
  /\ submariner \in [Bases -> {"none", "plain", "globalnet"}]
  /\ \A c \in Bases : submariner[c] \in {"none", world.submariner[c]}
  /\ muted \subseteq Checks
  /\ report \subseteq ({"detect"} \cup (Checks \ world.skip)) \X {"PASS", "WARN", "FAIL"}

LEMMA InitType == Init => TypeInv
BY DEF Init, TypeInv, Later, Checks

LEMMA StepType == TypeInv /\ [Next]_vars => TypeInv'
<1> SUFFICES ASSUME TypeInv, [Next]_vars  PROVE TypeInv'
  OBVIOUS
<1> USE DEF TypeInv, Later
<1>1. CASE StartUp
  <2>1. /\ (step' = "detect c1" /\ phase' = "check") \/ step' \in {"start", "exit 1"}
        /\ UNCHANGED <<world, submariner, muted, report>>
    BY <1>1 DEF StartUp
  <2>2. QED
    BY <2>1 DEF Checks
<1>2. ASSUME NEW c \in Bases, Detect(c)  PROVE TypeInv'
  <2>1. step \in Later /\ step' \in {"detect c2", "ceph"} /\ phase' = phase
    BY <1>2 DEF Detect, Detecting, AfterDetect, startVars
  <2>2. UNCHANGED <<world, muted, report>>
        /\ submariner' = [submariner EXCEPT ![c] = world.submariner[c]]
    BY <1>2 DEF Detect
  <2>3. world.submariner \in [Bases -> {"none", "plain", "globalnet"}]
    BY WorldsAssumption
  <2>4. QED
    BY <2>1, <2>2, <2>3 DEF Checks
<1>3. ASSUME NEW c \in Bases, DetectFails(c)  PROVE TypeInv'
  <2>1. step \in Later /\ step' \in {"detect c2", "ceph"} /\ phase' = phase
    BY <1>3 DEF DetectFails, Detecting, AfterDetect, startVars
  <2>2. UNCHANGED <<world, submariner, muted>> /\ report' = report \cup {<<"detect", "FAIL">>}
    BY <1>3 DEF DetectFails, Add
  <2>3. report' \subseteq ({"detect"} \cup (Checks \ world.skip)) \X {"PASS", "WARN", "FAIL"}
    <3>1. <<"detect", "FAIL">> \in ({"detect"} \cup (Checks \ world.skip)) \X {"PASS", "WARN", "FAIL"}
      OBVIOUS
    <3>2. QED
      BY <2>2, <3>1
  <2>4. QED
    BY <2>1, <2>2, <2>3 DEF Checks
<1>4. ASSUME NEW check \in Checks, Skip(check)  PROVE TypeInv'
  <2>1. step \in Later /\ step' \in {"s3", "provider", "exit"} /\ phase' = phase
    BY <1>4 DEF Skip, AfterCheck, startVars
  <2>2. UNCHANGED <<world, submariner, muted, report>>
    BY <1>4 DEF Skip
  <2>3. QED
    BY <2>1, <2>2 DEF Checks
<1>5. ASSUME NEW check \in Checks, RunCheck(check)  PROVE TypeInv'
  <2>1. step \in Later /\ step' \in {"s3", "provider", "exit"} /\ phase' = phase
    BY <1>5 DEF RunCheck, AfterCheck, startVars
  <2>2. UNCHANGED <<world, submariner>> /\ muted' \subseteq muted \cup {check}
        /\ check \notin world.skip
    BY <1>5 DEF RunCheck
  <2>3. \/ report' = report
        \/ \E status \in {"PASS", "WARN", "FAIL"} : report' = report \cup {<<check, status>>}
    BY <1>5 DEF RunCheck, Add
  <2>4. report' \subseteq ({"detect"} \cup (Checks \ world.skip)) \X {"PASS", "WARN", "FAIL"}
    <3> DEFINE R == ({"detect"} \cup (Checks \ world.skip)) \X {"PASS", "WARN", "FAIL"}
    <3>1. report \subseteq R
      OBVIOUS
    <3>2. \A status \in {"PASS", "WARN", "FAIL"} : <<check, status>> \in R
      BY <2>2
    <3> HIDE DEF R
    <3>3. report' \subseteq R
      BY <2>3, <3>1, <3>2
    <3>4. QED
      BY <3>3 DEF R
  <2>5. QED
    BY <2>1, <2>2, <2>4 DEF Checks
<1>6. CASE Exit
  <2>1. step \in Later /\ step' \in {"exit 0", "exit 1"} /\ phase' = phase
    BY <1>6 DEF Exit, startVars
  <2>2. QED
    BY <1>6, <2>1 DEF Exit
<1>7. CASE Interrupt
  BY <1>7 DEF Interrupt, startVars
<1>8. CASE UNCHANGED vars
  BY <1>8 DEF vars, startVars, runVars
<1>9. QED
  BY <1>1, <1>2, <1>3, <1>4, <1>5, <1>6, <1>7, <1>8 DEF Next, RunStep

LEMMA TypeInductive == Spec => []TypeInv
BY InitType, StepType, PTL DEF Spec

(* Types; an object says "no Submariner" or what its cluster has, and the   *)
(* report says nothing of a check that was skipped (check_network.go:65).  *)
THEOREM TypeCorrect == Spec => []TypeOK
<1>1. TypeInv /\ Start!TypeOK => TypeOK
  BY DEF TypeInv, TypeOK, Later, Checks
<1>2. QED
  BY <1>1, TypeInductive, StartIsKnown, PTL DEF Known

-----------------------------------------------------------------------------
(* The report only grows, so a failure in it is there at the end *)

Complains == HasFailures \/ Warned

LEMMA ReportGrows ==
  ASSUME NEW xs, Add(xs)
  PROVE  /\ HasFailures => HasFailures'
         /\ Complains => Complains'
BY DEF Add, HasFailures, Warned, Complains

LEMMA BadResult ==
  ASSUME NEW what, Add({<<what, "FAIL">>}) \/ Add({<<what, "WARN">>})
  PROVE  Complains' /\ (Add({<<what, "FAIL">>}) => HasFailures')
<1>1. Add({<<what, "FAIL">>}) => <<what, "FAIL">> \in report'
  BY DEF Add
<1>2. Add({<<what, "WARN">>}) => <<what, "WARN">> \in report'
  BY DEF Add
<1>3. <<what, "FAIL">>[2] = "FAIL" /\ <<what, "WARN">>[2] = "WARN"
  OBVIOUS
<1>4. QED
  BY <1>1, <1>2, <1>3 DEF HasFailures, Warned, Complains

(* Where the SIGINT left the run.  The step that it came in is not over, or *)
(* that step or a later one has put a FAIL in the report; a run that ends   *)
(* before its checks start ends with 1.                                     *)
InterruptInv ==
  /\ interrupted \in {"start", "detect c1"} =>
       step \in {"start", "detect c1", "exit 1"} \/ HasFailures
  /\ interrupted = "detect c2" => step = "detect c2" \/ HasFailures
  /\ \A k \in Checks : interrupted = k => step = k \/ k \in world.skip \/ HasFailures
  /\ step = "exit 0" => ~HasFailures

LEMMA InitInterrupt == Init => InterruptInv
BY DEF Init, InterruptInv, Checks

LEMMA StepInterrupt == TypeInv /\ InterruptInv /\ [Next]_vars => InterruptInv'
<1> SUFFICES ASSUME TypeInv, InterruptInv, [Next]_vars  PROVE InterruptInv'
  OBVIOUS
<1> USE DEF InterruptInv
<1>1. CASE StartUp
  <2>1. /\ step = "start" /\ step' \in {"start", "detect c1", "exit 1"}
        /\ UNCHANGED <<world, interrupted, report>>
    BY <1>1 DEF StartUp
  <2>2. QED
    BY <2>1 DEF HasFailures, Checks
<1>2. ASSUME NEW c \in Bases, Detect(c)  PROVE InterruptInv'
  <2>1. interrupted' = "never" /\ step' # "exit 0"
    BY <1>2 DEF Detect, AfterDetect
  <2>2. QED
    BY <2>1 DEF Checks
<1>3. ASSUME NEW c \in Bases, DetectFails(c)  PROVE InterruptInv'
  <2>1. HasFailures' /\ step' # "exit 0"
    BY <1>3, BadResult DEF DetectFails, AfterDetect
  <2>2. QED
    BY <2>1
<1>4. ASSUME NEW check \in Checks, Skip(check)  PROVE InterruptInv'
  <2>1. /\ step = check /\ check \in world.skip /\ step' # "exit 0"
        /\ UNCHANGED <<world, interrupted, report>>
    BY <1>4 DEF Skip, AfterCheck
  <2>2. HasFailures' <=> HasFailures
    BY <2>1 DEF HasFailures
  <2>3. QED
    BY <2>1, <2>2 DEF Checks
<1>5. ASSUME NEW check \in Checks, RunCheck(check)  PROVE InterruptInv'
  <2>1. step = check /\ step' # "exit 0" /\ UNCHANGED <<world, interrupted>>
    BY <1>5 DEF RunCheck, AfterCheck
  <2>2. interrupted = "never" \/ HasFailures'
    BY <1>5, BadResult DEF RunCheck
  <2>3. QED
    BY <2>1, <2>2 DEF Checks
<1>6. CASE Exit
  <2>1. /\ step = "exit" /\ step' = IF HasFailures THEN "exit 1" ELSE "exit 0"
        /\ UNCHANGED <<world, interrupted, report>>
    BY <1>6 DEF Exit
  <2>2. HasFailures' <=> HasFailures
    BY <2>1 DEF HasFailures
  <2>3. QED
    BY <2>1, <2>2 DEF Checks
<1>7. CASE Interrupt
  <2>1. interrupted' = step /\ step # "exit 0" /\ UNCHANGED <<world, step, report>>
    BY <1>7 DEF Interrupt, Exited
  <2>2. QED
    BY <2>1 DEF HasFailures
<1>8. CASE UNCHANGED vars
  BY <1>8 DEF vars, runVars, HasFailures
<1>9. QED
  BY <1>1, <1>2, <1>3, <1>4, <1>5, <1>6, <1>7, <1>8 DEF Next, RunStep

LEMMA InterruptInductive == Spec => []InterruptInv
BY InitInterrupt, StepInterrupt, TypeInductive, PTL DEF Spec

(* A run that SIGINT stopped before its work was done does not exit with 0, *)
(* although NewClusters and FetchProxyConfig lose the error of a cancelled  *)
(* context (check_network.go:49).                                          *)
THEOREM InterruptedIsNotSuccess == Spec => []InterruptReachesExit
<1>1. InterruptInv => InterruptReachesExit
  BY DEF InterruptInv, InterruptReachesExit, Checks
<1>2. QED
  BY <1>1, InterruptInductive, PTL

-----------------------------------------------------------------------------
(* Exit status 0.  Behind the run, each base cluster was detected for what  *)
(* it is or the report has a FAIL, and each check that was asked for found  *)
(* nothing wrong or has left a complaint, in the report or on the console.  *)

Detected(c) == HasFailures \/ submariner[c] = world.submariner[c]

Checked(check) ==
  check \in world.skip \/ check \in muted \/ Complains \/ LooksAt(check) \cap world.faults = {}

TrustInv ==
  /\ step \in {"detect c2", "exit", "exit 0"} \cup Checks => Detected("c1")
  /\ step \in {"exit", "exit 0"} \cup Checks => Detected("c2")
  /\ step \in {"s3", "provider", "exit", "exit 0"} => Checked("ceph")
  /\ step \in {"provider", "exit", "exit 0"} => Checked("s3")
  /\ step \in {"exit", "exit 0"} => Checked("provider")

LEMMA InitTrust == Init => TrustInv
BY DEF Init, TrustInv, Checks

(* What a check looks at depends on the objects, which are complete by then *)
LEMMA SameObjects ==
  ASSUME UNCHANGED <<startVars, world, submariner>>, NEW check
  PROVE  LooksAt(check)' = LooksAt(check)
<1>1. \A o : Start!Path(o)' = Start!Path(o)
  BY DEF startVars, Start!Path
<1>2. \A o : Start!Object(o)' = Start!Object(o)
  BY <1>1 DEF startVars, Start!Object
<1>3. Start!S3Targets' = Start!S3Targets
  BY <1>1, <1>2 DEF Start!S3Targets, Start!FirstOfPath
<1>4. \A k, objects : NoProxyOf(k, objects)' = NoProxyOf(k, objects)
  BY <1>1 DEF NoProxyOf, startVars
<1>5. Subjects' = Subjects
  BY DEF Subjects
<1>6. QED
  BY <1>3, <1>4, <1>5 DEF LooksAt

(* A step that leaves the objects alone takes nothing back *)
LEMMA Keeps ==
  ASSUME UNCHANGED <<startVars, world, submariner>>, muted \subseteq muted',
         report \subseteq report'
  PROVE  /\ \A c : Detected(c) => Detected(c)'
         /\ \A check : Checked(check) => Checked(check)'
<1>1. (HasFailures => HasFailures') /\ (Complains => Complains')
  BY DEF HasFailures, Warned, Complains
<1>2. \A check : LooksAt(check)' = LooksAt(check)
  BY SameObjects
<1>3. QED
  BY <1>1, <1>2 DEF Detected, Checked

(* A check that is not skipped does what Checked says *)
LEMMA RunChecks ==
  ASSUME TypeInv, NEW check \in Checks, RunCheck(check)
  PROVE  Checked(check)'
<1>1. LooksAt(check)' = LooksAt(check) /\ UNCHANGED world
  BY SameObjects DEF RunCheck
<1>2. CASE LooksAt(check) \cap world.faults = {} \/ muted' = muted \cup {check}
  BY <1>1, <1>2 DEF Checked
<1>3. CASE check = "ceph" /\ world.hostNet # Bases /\ Subjects = {}
  <2>1. NoProxyOf("ceph", {Peer(c) : c \in {}}) = {}
    BY DEF NoProxyOf
  <2>2. LooksAt(check) = {}
    BY <1>3, <2>1 DEF LooksAt
  <2>3. QED
    BY <1>1, <2>2 DEF Checked
<1>4. CASE Add({<<check, "WARN">>}) \/ Add({<<check, "FAIL">>})
  BY <1>4, BadResult DEF Checked
<1>5. QED
  BY <1>2, <1>3, <1>4 DEF RunCheck

LEMMA StepTrust == TypeInv /\ TrustInv /\ [Next]_vars => TrustInv'
<1> SUFFICES ASSUME TypeInv, TrustInv, [Next]_vars  PROVE TrustInv'
  OBVIOUS
<1> USE DEF TrustInv
<1>1. CASE StartUp
  <2>1. step' \in {"start", "detect c1", "exit 1"}
    BY <1>1 DEF StartUp
  <2>2. QED
    BY <2>1 DEF Checks
<1>2. ASSUME NEW c \in Bases, Detect(c)  PROVE TrustInv'
  <2>1. step' = (IF c = "c1" THEN "detect c2" ELSE "ceph") /\ (c = "c2" => step = "detect c2")
    BY <1>2 DEF Detect, Detecting, AfterDetect, Bases
  <2>2. submariner' = [submariner EXCEPT ![c] = world.submariner[c]]
        /\ UNCHANGED <<world, report>>
    BY <1>2 DEF Detect
  <2>3. \A b \in Bases : Detected(b) \/ b = c => Detected(b)'
    BY <2>2 DEF TypeInv, Detected, HasFailures
  <2>4. QED
    BY <1>2, <2>1, <2>3 DEF Bases, Checks
<1>3. ASSUME NEW c \in Bases, DetectFails(c)  PROVE TrustInv'
  <2>1. HasFailures'
    BY <1>3, BadResult DEF DetectFails
  <2>2. QED
    BY <2>1 DEF Detected, Checked, Complains
<1>4. ASSUME NEW check \in Checks, Skip(check)  PROVE TrustInv'
  <2>1. /\ step = check /\ check \in world.skip
        /\ UNCHANGED <<startVars, world, submariner, muted, report>>
    BY <1>4 DEF Skip
  <2>2. /\ Checked(check)'
        /\ \A c : Detected(c) => Detected(c)'
        /\ \A k : Checked(k) => Checked(k)'
    BY <2>1, Keeps DEF Checked
  <2>3. \/ check = "ceph" /\ step' = "s3"
        \/ check = "s3" /\ step' = "provider"
        \/ check = "provider" /\ step' = "exit"
    BY <1>4 DEF Skip, AfterCheck, Checks
  <2>4. QED
    BY <2>1, <2>2, <2>3 DEF Checks
<1>5. ASSUME NEW check \in Checks, RunCheck(check)  PROVE TrustInv'
  <2>1. /\ step = check /\ muted \subseteq muted' /\ report \subseteq report'
        /\ UNCHANGED <<startVars, world, submariner>>
    BY <1>5 DEF RunCheck, Add
  <2>2. /\ Checked(check)'
        /\ \A c : Detected(c) => Detected(c)'
        /\ \A k : Checked(k) => Checked(k)'
    BY <1>5, <2>1, Keeps, RunChecks
  <2>3. \/ check = "ceph" /\ step' = "s3"
        \/ check = "s3" /\ step' = "provider"
        \/ check = "provider" /\ step' = "exit"
    BY <1>5 DEF RunCheck, AfterCheck, Checks
  <2>4. QED
    BY <2>1, <2>2, <2>3 DEF Checks
<1>6. CASE Exit
  <2>1. /\ step = "exit" /\ step' \in {"exit 0", "exit 1"}
        /\ UNCHANGED <<startVars, world, submariner, muted, report>>
    BY <1>6 DEF Exit
  <2>2. (\A c : Detected(c) => Detected(c)') /\ (\A k : Checked(k) => Checked(k)')
    BY <2>1, Keeps
  <2>3. QED
    BY <2>1, <2>2 DEF Checks
<1>7. CASE Interrupt \/ UNCHANGED vars
  <2>1. UNCHANGED <<startVars, world, step, submariner, muted, report>>
    BY <1>7 DEF Interrupt, vars, runVars
  <2>2. (\A c : Detected(c) => Detected(c)') /\ (\A k : Checked(k) => Checked(k)')
    BY <2>1, Keeps
  <2>3. QED
    BY <2>1, <2>2
<1>8. QED
  BY <1>1, <1>2, <1>3, <1>4, <1>5, <1>6, <1>7 DEF Next, RunStep

LEMMA TrustInductive == Spec => []TrustInv
BY InitTrust, StepTrust, TypeInductive, PTL DEF Spec

LEMMA SameFunction ==
  ASSUME NEW S, NEW V, NEW g \in [S -> V], NEW h \in [S -> V], \A x \in S : g[x] = h[x]
  PROVE  g = h
OBVIOUS

(* An S3 target has the kubeconfig of every hub and client there is *)
LEMMA TargetOfUser ==
  ASSUME NEW role \in {"hub", "hub-passive", "c1-client-1", "c2-client-1"},
         Start!Path(role) \in Paths
  PROVE  \E o \in Start!S3Targets : Start!Path(o) = Start!Path(role)
<1>1. {StartP!Path(o) : o \in StartP!S3Targets} =
        {StartP!Path(user) : user \in {"hub", "hub-passive"} \cup StartP!Clients} \ {NoPath}
  BY NoPathAssumption, StartP!S3OncePerPath
<1>2. StartP!Path(role) \in
        {StartP!Path(user) : user \in {"hub", "hub-passive"} \cup StartP!Clients} \ {NoPath}
  BY SameNames, NoPathAssumption DEF StartP!Clients
<1>3. QED
  BY <1>1, <1>2, SameNames

(* The noProxy list of a cluster with a proxy is looked at, if one of the   *)
(* objects of a check is the cluster's.                                     *)
LEMMA LooksAtNoProxy ==
  ASSUME Known, phase = "check", warned = {}, Start!RolesApart,
         NEW objects, objects \subseteq Start!Consulted,
         NEW o \in objects, Start!Path(o) \in proxied, NEW check
  PROVE  <<"noProxy", check, Start!Path(o)>> \in NoProxyOf(check, objects)
<1>1. proxy[o]
  BY DEF Known, Start!ProxyKnownIfApart, Start!ProxyKnown
<1>2. QED
  BY <1>1 DEF NoProxyOf

(* Exit status 0 can be trusted (check_network.go:88), in every             *)
(* configuration whose roles are different clusters: no warning anywhere    *)
(* means that nothing is wrong of what the run was asked to check.          *)
THEOREM ExitZeroIsTrusted == Spec => []ExitZeroIsTrue
<1>1. TypeInv /\ InterruptInv /\ TrustInv /\ Known => ExitZeroIsTrue
  <2>0. SUFFICES ASSUME TypeInv, InterruptInv, TrustInv, Known, step = "exit 0", ~Warned,
                          warned = {}, muted = {}, Start!RolesApart, NEW f \in Wrong
                 PROVE  FALSE
    BY DEF ExitZeroIsTrue
  <2> DEFINE daemons == IF world.hostNet = Bases THEN Bases
                        ELSE {c \in Bases \ world.hostNet : world.submariner[c] # "none"}
             peers == IF world.hostNet = Bases THEN {} ELSE {Peer(c) : c \in daemons}
             used(roles) == {Start!Path(role) : role \in roles} \cap proxied
             users == {"hub", "hub-passive", "c1-client-1", "c2-client-1"}
  <2>1. phase = "check" /\ ~Complains /\ submariner = world.submariner
    <3>1. phase = "check" /\ ~HasFailures
      BY <2>0 DEF TypeInv, Later, InterruptInv
    <3>2. submariner["c1"] = world.submariner["c1"] /\ submariner["c2"] = world.submariner["c2"]
      BY <2>0, <3>1 DEF TrustInv, Detected
    <3>3. world.submariner \in [Bases -> {"none", "plain", "globalnet"}]
      BY <2>0, WorldsAssumption DEF TypeInv
    <3>4. \A c \in Bases : submariner[c] = world.submariner[c]
      BY <3>2 DEF Bases
    <3>5. submariner \in [Bases -> {"none", "plain", "globalnet"}]
      BY <2>0 DEF TypeInv
    <3>6. submariner = world.submariner
      BY <3>3, <3>4, <3>5, SameFunction
    <3>7. QED
      BY <2>0, <3>1, <3>6 DEF Complains
  <2>2. \A check \in Checks : check \in world.skip \/ LooksAt(check) \cap world.faults = {}
    BY <2>0, <2>1 DEF TrustInv, Checked, Checks
  <2>3. /\ f \in world.faults /\ f[2] \notin world.skip
        /\ \/ f \in {"reach"} \X {"s3", "provider"} \X Bases
           \/ f \in {"reach"} \X {"ceph"} \X daemons
           \/ f \in {"noProxy"} \X {"s3"} \X used(users)
           \/ f \in {"noProxy"} \X {"provider"} \X used(Bases)
           \/ f \in {"noProxy"} \X {"ceph"} \X used(peers)
    BY <2>0 DEF Wrong
  <2>4. \A check \in Checks : f[2] = check => f \notin LooksAt(check)
    BY <2>2, <2>3
  <2>5. proxied \subseteq Paths
    BY <2>0 DEF Known, Start!TypeOK
  <2>6. CASE f \in {"reach"} \X {"s3", "provider"} \X Bases
    <3>0. \E a \in {"reach"}, b \in {"s3", "provider"}, c \in Bases : f = <<a, b, c>>
      BY <2>6
    <3>1. PICK check \in {"s3", "provider"}, c \in Bases : f = <<"reach", check, c>>
      BY <3>0
    <3>2. f \in LooksAt(check)
      <4>1. CASE check = "s3"
        BY <3>1, <4>1 DEF LooksAt
      <4>2. CASE check = "provider"
        BY <3>1, <4>2, <2>1 DEF LooksAt
      <4>3. QED
        BY <4>1, <4>2
    <3>3. QED
      BY <2>4, <3>1, <3>2 DEF Checks
  <2>7. CASE f \in {"reach"} \X {"ceph"} \X daemons
    <3>0. \E a \in {"reach"}, b \in {"ceph"}, c \in daemons : f = <<a, b, c>>
      BY <2>7
    <3>1. PICK c \in daemons : f = <<"reach", "ceph", c>>
      BY <3>0
    <3>2. world.hostNet # Bases => c \in Subjects
      BY <2>1, <3>1 DEF Subjects
    <3>3. f \in LooksAt("ceph")
      BY <3>1, <3>2 DEF LooksAt
    <3>4. QED
      BY <2>4, <3>1, <3>3 DEF Checks
  <2>8. CASE f \in {"noProxy"} \X {"s3"} \X used(users)
    <3>0. \E a \in {"noProxy"}, b \in {"s3"}, c \in used(users) : f = <<a, b, c>>
      BY <2>8
    <3>1. PICK role \in users : f = <<"noProxy", "s3", Start!Path(role)>>
                                /\ Start!Path(role) \in proxied
      BY <3>0
    <3>2. PICK o \in Start!S3Targets : Start!Path(o) = Start!Path(role)
      BY <2>5, <3>1, TargetOfUser
    <3>3. f \in NoProxyOf("s3", Start!S3Targets)
      BY <2>0, <2>1, <3>1, <3>2, LooksAtNoProxy DEF Start!Consulted
    <3>4. f \in LooksAt("s3")
      BY <3>3 DEF LooksAt
    <3>5. QED
      BY <2>4, <3>1, <3>4 DEF Checks
  <2>9. CASE f \in {"noProxy"} \X {"provider"} \X used(Bases)
    <3>0. \E a \in {"noProxy"}, b \in {"provider"}, c \in used(Bases) : f = <<a, b, c>>
      BY <2>9
    <3>1. PICK c \in Bases : f = <<"noProxy", "provider", Start!Path(c)>>
                             /\ Start!Path(c) \in proxied
      BY <3>0
    <3>2. f \in NoProxyOf("provider", Bases)
      BY <2>0, <2>1, <3>1, LooksAtNoProxy DEF Start!Consulted, Bases
    <3>3. f \in LooksAt("provider")
      BY <3>2 DEF LooksAt
    <3>4. QED
      BY <2>4, <3>1, <3>3 DEF Checks
  <2>10. CASE f \in {"noProxy"} \X {"ceph"} \X used(peers)
    <3>0. \E a \in {"noProxy"}, b \in {"ceph"}, c \in used(peers) : f = <<a, b, c>>
      BY <2>10
    <3>1. PICK o \in peers : f = <<"noProxy", "ceph", Start!Path(o)>>
                             /\ Start!Path(o) \in proxied
      BY <3>0
    <3>2. world.hostNet # Bases /\ peers = {Peer(c) : c \in Subjects}
      BY <2>1, <3>1 DEF Subjects
    <3>3. peers \subseteq Start!Consulted
      BY <3>2 DEF Peer, Start!Consulted
    <3> HIDE DEF peers
    <3>4. f \in NoProxyOf("ceph", {Peer(c) : c \in Subjects})
      BY <2>0, <2>1, <3>1, <3>2, <3>3, LooksAtNoProxy
    <3>5. f \in LooksAt("ceph")
      BY <3>2, <3>4 DEF LooksAt
    <3>6. QED
      BY <2>4, <3>1, <3>5 DEF Checks
  <2>11. QED
    BY <2>3, <2>6, <2>7, <2>8, <2>9, <2>10
<1>2. QED
  BY <1>1, TypeInductive, InterruptInductive, TrustInductive, StartIsKnown, PTL

=============================================================================
