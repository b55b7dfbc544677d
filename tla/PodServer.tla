------------------------------ MODULE PodServer ------------------------------
(***************************************************************************)
(* The test pods of dr-network-check as the clusters' API servers hold     *)
(* them, and what the calls of pkg/check/pod.go do to them.                *)
(*                                                                         *)
(* A slot is one <cluster, namespace, pod name>.  The tool computes its    *)
(* pod names from the cluster's name and a counter, never from a run id,   *)
(* so two runs of the tool, or a run and the leftovers of an earlier one,  *)
(* compete for the same slots, and every call addresses a pod by name.     *)
(*                                                                         *)
(* A call that is answered is one step, since the run is blocked until the *)
(* answer arrives.  A Create that its client gives up, because the         *)
(* connection broke or SIGINT cancelled its context while it was on the    *)
(* wire, stays in `sent`: the server may act on it at any later time, or   *)
(* never, and nobody is told.                                              *)
(***************************************************************************)

CONSTANTS
  Runs,    (* invocations of check-network, concurrent or one after another *)
  Slots,   (* the pod names in use, each in its cluster                     *)
  Nobody   (* not a run: the owner of an empty slot, any actor but the tool *)

ASSUME NobodyAssumption == Nobody \notin Runs

VARIABLES
  pods,      (* slot -> the pod there, with the run whose Create made it    *)
  orphaned,  (* <<run, slot>>: the run was never told of its pod, or its    *)
             (* Delete did not reach the server                             *)
  sent,      (* <<run, slot>>: a Create on its way that its client gave up  *)
  taken      (* <<owner, slot, by>>: the owner's pod deleted by another     *)

serverVars == <<pods, orphaned, sent, taken>>

-----------------------------------------------------------------------------
(* A pod lives from Create to Delete.  "ended" is Succeeded or Failed: the  *)
(* pod runs `sleep 3600` with RestartPolicyNever, so it ends by itself, and *)
(* its object stays.  "terminating" has a deletion timestamp: the name is   *)
(* still taken until the grace period is over.                              *)
Living == {"pending", "running", "ended"}
Phases == Living \cup {"terminating", "absent"}

NoPod == [owner |-> Nobody, phase |-> "absent"]

Pods == [owner : Runs \cup {Nobody}, phase : Phases]

IsFree(s)  == pods[s].phase = "absent"
Lives(s)   == pods[s].phase \in Living
Owns(r, s) == pods[s].owner = r /\ Lives(s)

(* WaitForPodReady polls for the phase Running of whatever pod has the name *)
PodReady(s) == pods[s].phase = "running"

(* ExecInPod reaches a container that runs: also during the grace period    *)
Executable(s) == pods[s].phase \in {"running", "terminating"}

ServerInit ==
  /\ pods = [s \in Slots |-> NoPod]
  /\ orphaned = {}
  /\ sent = {}
  /\ taken = {}

-----------------------------------------------------------------------------
(* Calls of the tool *)

(* Mutant: an existing pod of that name is taken over, as an Apply would *)
NewPodAdopts(r, s) ==
  /\ pods' = [pods EXCEPT ![s] = [owner |-> r, phase |-> "pending"]]
  /\ UNCHANGED taken

NewPod(r, s) ==
  /\ IsFree(s)
  /\ pods' = [pods EXCEPT ![s] = [owner |-> r, phase |-> "pending"]]
  /\ UNCHANGED taken

(* DeployTestPod returns the pod. *)
DeployTestPod(r, s) ==
  /\ NewPod(r, s)
  /\ UNCHANGED <<orphaned, sent>>

(* DeployTestPod returns an error for a request that was sent: no answer    *)
(* came, or the context was cancelled before it came.  The latter is this   *)
(* step and the check's Interrupt after it: between them the run does       *)
(* nothing.  A machine lost during the call is this step and the Kill.      *)
DeployUnanswered(r, s) ==
  /\ sent' = sent \cup {<<r, s>>}
  /\ UNCHANGED <<pods, orphaned, taken>>

(* DeployTestPod returns an error and nothing was created: AlreadyExists,   *)
(* Forbidden, a network error, a context cancelled before the call.         *)
DeployRefused == UNCHANGED serverVars

(* DeleteTestPod deletes by name, whoever's pod has the name: NotFound and  *)
(* a second deletion change nothing.                                        *)
DeleteTestPod(r, s) ==
  /\ pods' = IF Lives(s) THEN [pods EXCEPT ![s].phase = "terminating"] ELSE pods
  /\ taken' = IF Lives(s) /\ pods[s].owner # r
                THEN taken \cup {<<pods[s].owner, s, r>>} ELSE taken
  /\ UNCHANGED <<orphaned, sent>>

(* The Delete call fails before the server acts.  The callers drop the error *)
DeleteFailed(r, s) ==
  /\ orphaned' = orphaned \cup {<<r, s>>}
  /\ UNCHANGED <<pods, sent, taken>>

-----------------------------------------------------------------------------
(* What the cluster and its administrators do meanwhile *)

PodStarts(s) ==
  /\ pods[s].phase = "pending"
  /\ pods' = [pods EXCEPT ![s].phase = "running"]
  /\ UNCHANGED <<orphaned, sent, taken>>

PodEnds(s) ==
  /\ pods[s].phase = "running"
  /\ pods' = [pods EXCEPT ![s].phase = "ended"]
  /\ UNCHANGED <<orphaned, sent, taken>>

(* Mutant: the name is free again, with the owner's record left behind *)
PodGoneKeepsOwner(s) ==
  /\ pods[s].phase = "terminating"
  /\ pods' = [pods EXCEPT ![s].phase = "absent"]
  /\ UNCHANGED <<orphaned, sent, taken>>

PodGone(s) ==
  /\ pods[s].phase = "terminating"
  /\ pods' = [pods EXCEPT ![s] = NoPod]
  /\ UNCHANGED <<orphaned, sent, taken>>

(* A drain, an eviction or `oc delete pod`: not the tool *)
OutsideDelete(s) ==
  /\ Lives(s)
  /\ pods' = [pods EXCEPT ![s].phase = "terminating"]
  /\ taken' = taken \cup {<<pods[s].owner, s, Nobody>>}
  /\ UNCHANGED <<orphaned, sent>>

(* A Create that was given up arrives: it makes its pod if the name is free *)
(* by then, whatever has become of the run, and is refused otherwise.       *)
LateCreate(r, s) ==
  /\ <<r, s>> \in sent
  /\ sent' = sent \ {<<r, s>>}
  /\ \/ NewPod(r, s) /\ orphaned' = orphaned \cup {<<r, s>>}
     \/ ~IsFree(s) /\ UNCHANGED <<pods, orphaned, taken>>

ServerStep(s) ==
  \/ PodStarts(s)
  \/ PodEnds(s)
  \/ PodGone(s)
  \/ OutsideDelete(s)
  \/ \E r \in Runs : LateCreate(r, s)

OutsideTouched(s) == \E t \in taken : t[2] = s /\ t[3] = Nobody

ServerTypeOK ==
  /\ pods \in [Slots -> Pods]
  /\ \A s \in Slots : IsFree(s) <=> pods[s].owner = Nobody
  /\ orphaned \subseteq Runs \X Slots
  /\ sent \subseteq Runs \X Slots
  /\ taken \subseteq Runs \X Slots \X (Runs \cup {Nobody})

=============================================================================
