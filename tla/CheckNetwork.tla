----------------------------- MODULE CheckNetwork -----------------------------
(***************************************************************************)
(* runCheckNetwork (pkg/cmd/check_network.go) from the configuration to    *)
(* the exit status: Clusters up to the proxy fetch, then DetectSubmariner  *)
(* (pkg/check/multicluster.go) for c1 and c2, the checks that are not      *)
(* skipped, and CheckReport (pkg/check/result.go).                         *)
(*                                                                         *)
(* What the command passes from one part to the next is in the Cluster     *)
(* objects: their Proxy and Submariner.  A check is one step here.  It     *)
(* promises what CephDaemonPorts, S3RouteCheck and ProviderCheck establish *)
(* for it, relative to the objects it reads: with no complaint, nothing it *)
(* looks at is wrong.                                                      *)
(***************************************************************************)
EXTENDS Integers, FiniteSets

CONSTANTS
  Paths,    (* kubeconfig paths                                             *)
  NoPath,   (* the empty string: not configured                             *)
  Configs,  (* the configurations to consider: role -> path                 *)
  Worlds    (* the options and the states of the clusters to consider       *)

Bases == {"c1", "c2"}
Peer(c) == IF c = "c1" THEN "c2" ELSE "c1"
Checks == {"ceph", "s3", "provider"}

VARIABLES
  config, proxied, phase, pending, fetched, warned, proxy,  (* see Clusters *)
  world,        (* fixed while the run lasts                                *)
  step,         (* how far runCheckNetwork is, once the checks start        *)
  interrupted,  (* the step SIGINT came in, or "never"                      *)
  submariner,   (* base cluster -> Submariner of its object                 *)
  muted,        (* checks that gave a warning on the console only           *)
  report        (* <<what reported, status>>                                *)

startVars == <<config, proxied, phase, pending, fetched, warned, proxy>>
runVars   == <<step, interrupted, submariner, muted, report>>
vars      == <<startVars, world, runVars>>

Start == INSTANCE Clusters

ASSUME NoPathAssumption == NoPath \notin Paths

(*   skip        the checks the configuration skips                         *)
(*   hostNet     base clusters with hostNetwork                             *)
(*   submariner  what each base cluster has                                 *)
(*   faults      <<"reach", check, c>>: an endpoint of base cluster c that  *)
(*               the check is about does not answer where it should;        *)
(*               <<"noProxy", check, p>>: the noProxy list of the cluster   *)
(*               at path p lacks a host of the check                        *)
ASSUME WorldsAssumption ==
  \A w \in Worlds :
    /\ w.skip \subseteq Checks /\ w.hostNet \subseteq Bases
    /\ w.submariner \in [Bases -> {"none", "plain", "globalnet"}]
    /\ w.faults \subseteq ({"reach"} \X Checks \X Bases) \cup ({"noProxy"} \X Checks \X Paths)

-----------------------------------------------------------------------------
Init ==
  /\ config \in Configs
  /\ Start!Init
  /\ world \in Worlds
  /\ step = "start"
  /\ interrupted = "never"
  /\ submariner = [c \in Bases |-> "none"]
  /\ muted = {}
  /\ report = {}

(* Mutant: what is added replaces what is there *)
AddReplaces(xs) == report' = xs

(* CheckReport.Add *)
Add(xs) == report' = report \cup xs

(* The start, where a context that is cancelled makes every fetch fail *)
StartUp ==
  /\ step = "start"
  /\ Start!Next
  /\ interrupted # "never" => warned' = warned \cup (pending \ pending')
  /\ step' = IF phase' = "check" THEN "detect c1" ELSE IF phase' = "fatal" THEN "exit 1" ELSE "start"
  /\ UNCHANGED <<world, interrupted, submariner, muted, report>>

Detecting(c) == step = IF c = "c1" THEN "detect c1" ELSE "detect c2"

AfterDetect(c) == step' = IF c = "c1" THEN "detect c2" ELSE "ceph"

(* DetectSubmariner: no Submariner CR or CRD is no result and no Submariner *)
Detect(c) ==
  /\ Detecting(c)
  /\ interrupted = "never"
  /\ submariner' = [submariner EXCEPT ![c] = world.submariner[c]]
  /\ AfterDetect(c)
  /\ UNCHANGED <<startVars, world, interrupted, muted, report>>

(* Mutant: any error counts as "not installed" *)
DetectFailsSilently(c) ==
  /\ Detecting(c)
  /\ AfterDetect(c)
  /\ UNCHANGED <<startVars, world, interrupted, submariner, muted, report>>

(* Mutant: a detection that fails is tried again *)
DetectRetries(c) ==
  /\ Detecting(c)
  /\ UNCHANGED vars

(* Any other error is a FAIL, and the object says "no Submariner" *)
DetectFails(c) ==
  /\ Detecting(c)
  /\ Add({<<"detect", "FAIL">>})
  /\ AfterDetect(c)
  /\ UNCHANGED <<startVars, world, interrupted, submariner, muted>>

-----------------------------------------------------------------------------
(* What the checks look at, given the Cluster objects as they are           *)

NoProxyOf(check, objects) ==
  {<<"noProxy", check, Start!Path(o)>> : o \in {q \in objects : proxy[q]}}

(* checkCephSubmariner does its work only if the object has Submariner *)
Subjects == {c \in Bases \ world.hostNet : submariner[c] # "none"}

LooksAt(check) ==
  CASE check = "s3" ->
         ({"reach"} \X {"s3"} \X Bases) \cup NoProxyOf("s3", Start!S3Targets)
    [] check = "ceph" ->
         IF world.hostNet = Bases THEN {"reach"} \X {"ceph"} \X Bases
         ELSE ({"reach"} \X {"ceph"} \X Subjects)
                \cup NoProxyOf("ceph", {Peer(c) : c \in Subjects})
    [] check = "provider" ->  (* another endpoint, if GlobalNet was not seen *)
         {<<"reach", "provider", c>> :
            c \in {b \in Bases : submariner[b] = "globalnet" <=> world.submariner[b] = "globalnet"}}
           \cup NoProxyOf("provider", Bases)

AfterCheck(check) ==
  step' = CASE check = "ceph" -> "s3" [] check = "s3" -> "provider" [] OTHER -> "exit"

(* Mutant: the flag is looked at after the check *)
RunsThoughSkipped(check) ==
  /\ step = check
  /\ \E status \in {"PASS", "FAIL"} : Add({<<check, status>>})
  /\ AfterCheck(check)
  /\ UNCHANGED <<startVars, world, interrupted, submariner, muted>>

Skip(check) ==
  /\ step = check
  /\ check \in world.skip
  /\ AfterCheck(check)
  /\ UNCHANGED <<startVars, world, interrupted, submariner, muted, report>>

(* A check that is not skipped, by the worst of its results:                *)
(*   PASS only if nothing it looks at is wrong, or a console warning says   *)
(*        that something was not looked at;                                 *)
(*   none only from the Ceph check, with no cluster to test;                *)
(*   FAIL for sure if the context was cancelled before: its calls fail.     *)
RunCheck(check) ==
  /\ step = check
  /\ check \notin world.skip
  /\ \/ /\ interrupted = "never"
        /\ check = "ceph" => world.hostNet = Bases \/ Subjects # {}
        /\ \/ LooksAt(check) \cap world.faults = {} /\ UNCHANGED muted
           \/ check # "s3" /\ muted' = muted \cup {check}
        /\ Add({<<check, "PASS">>})
     \/ /\ interrupted = "never"
        /\ check = "ceph" /\ world.hostNet # Bases /\ Subjects = {}
        /\ UNCHANGED <<muted, report>>
     \/ /\ interrupted = "never"
        /\ Add({<<check, "WARN">>})
        /\ UNCHANGED muted
     \/ /\ Add({<<check, "FAIL">>})
        /\ UNCHANGED muted
  /\ AfterCheck(check)
  /\ UNCHANGED <<startVars, world, interrupted, submariner>>

HasFailures == \E x \in report : x[2] = "FAIL"

(* The report is printed, and the status is 1 if it has failures *)
Exit ==
  /\ step = "exit"
  /\ step' = IF HasFailures THEN "exit 1" ELSE "exit 0"
  /\ UNCHANGED <<startVars, world, interrupted, submariner, muted, report>>

Exited == step \in {"exit 0", "exit 1"}

(* signal.NotifyContext: later SIGINTs change nothing *)
Interrupt ==
  /\ phase \in {"build", "fetch", "check"}
  /\ ~Exited
  /\ interrupted = "never"
  /\ interrupted' = step
  /\ UNCHANGED <<startVars, world, step, submariner, muted, report>>

RunStep ==
  \/ StartUp
  \/ \E c \in Bases : Detect(c) \/ DetectFails(c)
  \/ \E check \in Checks : Skip(check) \/ RunCheck(check)
  \/ Exit

Next == RunStep \/ Interrupt

Spec == Init /\ [][Next]_vars

(* The process is scheduled, and every call is answered at last *)
FairSpec == Spec /\ WF_vars(RunStep)

-----------------------------------------------------------------------------
(* Types, and that the objects say nothing that is not so, nor the report   *)
(* anything of a check that was skipped                                     *)
TypeOK ==
  /\ Start!TypeOK
  /\ world \in Worlds
  /\ step \in {"start", "detect c1", "detect c2", "exit", "exit 0", "exit 1"} \cup Checks
  /\ \A c \in Bases : submariner[c] \in {"none", world.submariner[c]}
  /\ muted \subseteq Checks
  /\ report \subseteq ({"detect"} \cup (Checks \ world.skip)) \X {"PASS", "WARN", "FAIL"}

(* Everything that is wrong for a check that was asked for, whatever the    *)
(* objects say: the hubs and clients reach the S3 routes, the peers the     *)
(* providers, and the daemons unless they are on neither path.              *)
Wrong ==
  LET daemons == IF world.hostNet = Bases THEN Bases
                 ELSE {c \in Bases \ world.hostNet : world.submariner[c] # "none"}
      peers == IF world.hostNet = Bases THEN {} ELSE {Peer(c) : c \in daemons}
      used(roles) == {Start!Path(role) : role \in roles} \cap proxied
      users == {"hub", "hub-passive", "c1-client-1", "c2-client-1"}
  IN  {f \in world.faults : f[2] \notin world.skip} \cap
        ( ({"reach"} \X {"s3", "provider"} \X Bases)
          \cup ({"reach"} \X {"ceph"} \X daemons)
          \cup ({"noProxy"} \X {"s3"} \X used(users))
          \cup ({"noProxy"} \X {"provider"} \X used(Bases))
          \cup ({"noProxy"} \X {"ceph"} \X used(peers)) )

Warned == \E x \in report : x[2] = "WARN"

(* Exit status 0 can be trusted: with no warning in the report or on the    *)
(* console, and the roles on different clusters, nothing is wrong that the  *)
(* run was asked to check.  This takes the order of All(), the choice of    *)
(* objects, a detection that reports its failure, and a report that forgets *)
(* nothing.                                                                 *)
ExitZeroIsTrue ==
  step = "exit 0" /\ ~Warned /\ warned = {} /\ muted = {}
    /\ Start!RolesApart
  => Wrong = {}

(* A run interrupted before its work was done does not end as a success,    *)
(* although the fetches before the detection lose their errors and a check  *)
(* that is skipped makes no call that could fail.  (In a check, the step    *)
(* stands for the calls after the SIGINT.)                                  *)
InterruptReachesExit ==
  step = "exit 0" =>
    /\ interrupted \notin {"start", "detect c1", "detect c2"}
    /\ interrupted \in Checks => interrupted \in world.skip

(* The command ends, with one status or the other. *)
Exits == <>Exited

=============================================================================
