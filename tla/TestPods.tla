------------------------------- MODULE TestPods -------------------------------
(***************************************************************************)
(* What every check of dr-network-check promises about its test pods: it   *)
(* cleans up a pod only after DeployTestPod returned it, and once.  In the  *)
(* code this is the `defer` that stands below the error return of           *)
(* DeployTestPod.  The order of the calls is left open: S3RouteCheck,       *)
(* HostNetworkCheck, CephDaemonPorts and ProviderCheck fix it, and are      *)
(* shown to implement this specification.                                   *)
(***************************************************************************)
EXTENDS PodServer

VARIABLES
  held,  (* run -> slots whose clean-up the run still owes                  *)
  run    (* run -> "active", "returned" or "killed"                         *)

vars == <<serverVars, held, run>>

Init ==
  /\ ServerInit
  /\ held = [r \in Runs |-> {}]
  /\ run = [r \in Runs |-> "active"]

-----------------------------------------------------------------------------
(* Mutants of the discipline *)

(* The clean-up is registered before the error of DeployTestPod is looked at *)
DeferBeforeError(r, s) ==
  /\ run[r] = "active"
  /\ DeployTestPod(r, s) \/ DeployRefused
  /\ held' = [held EXCEPT ![r] = @ \cup {s}]
  /\ UNCHANGED run

(* The clean-up is forgotten *)
DeployWithoutDefer(r, s) ==
  /\ run[r] = "active"
  /\ DeployTestPod(r, s)
  /\ UNCHANGED <<held, run>>

(* The same clean-up runs a second time *)
CleanUpAgain(r, s) ==
  /\ run[r] = "active"
  /\ s \in held[r]
  /\ DeleteTestPod(r, s)
  /\ UNCHANGED <<held, run>>

-----------------------------------------------------------------------------
Deploy(r, s) ==
  /\ run[r] = "active"
  /\ DeployTestPod(r, s)
  /\ held' = [held EXCEPT ![r] = @ \cup {s}]
  /\ UNCHANGED run

DeployLost(r, s) ==
  /\ run[r] = "active"
  /\ DeployUnanswered(r, s)
  /\ UNCHANGED <<held, run>>

CleanUp(r, s) ==
  /\ run[r] = "active"
  /\ s \in held[r]
  /\ DeleteTestPod(r, s) \/ DeleteFailed(r, s)
  /\ held' = [held EXCEPT ![r] = @ \ {s}]
  /\ UNCHANGED run

(* The check returns; nothing is said here about what it still owes *)
Return(r) ==
  /\ run[r] = "active"
  /\ run' = [run EXCEPT ![r] = "returned"]
  /\ UNCHANGED <<serverVars, held>>

(* SIGKILL, SIGTERM or a lost machine: only os.Interrupt is caught, so no   *)
(* deferred call runs.                                                      *)
Kill(r) ==
  /\ run[r] = "active"
  /\ run' = [run EXCEPT ![r] = "killed"]
  /\ UNCHANGED <<serverVars, held>>

Cluster(s) ==
  /\ ServerStep(s)
  /\ UNCHANGED <<held, run>>

Next ==
  \/ \E r \in Runs, s \in Slots : Deploy(r, s)
  \/ \E r \in Runs, s \in Slots : DeployLost(r, s)
  \/ \E r \in Runs, s \in Slots : CleanUp(r, s)
  \/ \E r \in Runs : Return(r)
  \/ \E r \in Runs : Kill(r)
  \/ \E s \in Slots : Cluster(s)

Spec == Init /\ [][Next]_vars

-----------------------------------------------------------------------------
TypeOK ==
  /\ ServerTypeOK
  /\ held \in [Runs -> SUBSET Slots]
  /\ run \in [Runs -> {"active", "returned", "killed"}]

(* A run that owes a clean-up owns the living pod there, unless somebody    *)
(* outside the tool deleted a pod of that name: so the by-name delete that  *)
(* the deferred call will send is the right one (pod.go DeleteTestPod).     *)
HeldIsOwn ==
  \A r \in Runs : \A s \in held[r] : Owns(r, s) \/ OutsideTouched(s)

(* Fixed names and deletes by name are safe together: a run deletes another *)
(* run's pod only where an outside deletion broke the tie between name and  *)
(* owner first.                                                             *)
OnlyOwnPodsDeleted ==
  \A t \in taken : t[3] \in Runs => OutsideTouched(t[2])

(* The pod's name is a lock: no two runs, nor a run and the leftovers of a  *)
(* killed one, hold it together (absent outside deletions).                 *)
NameIsExclusive ==
  \A r1, r2 \in Runs : r1 # r2 =>
    \A s \in held[r1] \cap held[r2] : OutsideTouched(s)

(* A living pod is owed a clean-up by its owner, or the owner could not     *)
(* know of it: an unanswered Create, a failed Delete.                       *)
LeftoverAccounted ==
  \A r \in Runs : \A s \in Slots :
    Owns(r, s) => s \in held[r] \/ <<r, s>> \in orphaned

=============================================================================
