-------------------------- MODULE CephDaemonPortsProofs --------------------------
(***************************************************************************)
(* CheckCephDaemonPorts keeps the pod discipline of TestPods on both its   *)
(* Submariner paths, and its report is complete and true, for any number   *)
(* of runs and daemons and whatever the clusters are like.                 *)
(*   IInv        types, and which pod a run owes: the name of a test pod   *)
(*               depends on the path, hence on the objects of the cluster, *)
(*               which do not change while a run lasts                     *)
(*   DataInv     types of the rest, and no result says more than was seen  *)
(*   AccountInv  where each daemon of the cluster in turn is: to come,     *)
(*               found, or with its result, and what is said of it then    *)
(***************************************************************************)
EXTENDS CephDaemonPorts, SequenceTheorems, WellFoundedInduction, TLAPS

Pod == INSTANCE TestPodsProofs WITH
  held <- deferred,
  run <- [r \in Runs |-> IF pc[r] \in {"returned", "killed"} THEN pc[r] ELSE "active"]

PodCalls  == {"wait", "probe", "cleanup"}
FreeCalls == {"hostNetwork", "name", "mcs", "serviceCIDR", "clusterCIDR", "mons", "osds",
              "service", "deploy", "return", "handed over"}
Labels == PodCalls \cup FreeCalls \cup {"returned", "killed"}

IInv ==
  /\ pc \in [Runs -> Labels]
  /\ cl \in [Runs -> Bases]
  /\ deferred \in [Runs -> SUBSET Slots]
  /\ \A r \in Runs : /\ deferred[r] \subseteq {PodOf(r)}
                     /\ pc[r] \in PodCalls => deferred[r] = {PodOf(r)}
                     /\ pc[r] \in FreeCalls \cup {"returned"} => deferred[r] = {}

(* What a step does to the control of a run: on to another call, or to the  *)
(* other cluster                                                            *)
Moves(r, to) ==
  /\ \E l \in to : pc' = [pc EXCEPT ![r] = l]
  /\ cl' = cl

Turns(r) ==
  \E l \in FreeCalls, c \in Bases :
    pc' = [pc EXCEPT ![r] = l] /\ cl' \in {cl, [cl EXCEPT ![r] = c]}

-----------------------------------------------------------------------------
LEMMA PodIsSlot == \A r : PodOf(r) \in Slots
BY SlotsAssumption DEF PodOf, Peer, Bases

LEMMA TurnIsNextSubject ==
  ASSUME NEW r \in Runs, NextSubject(r)  PROVE Turns(r)
BY DEF NextSubject, StartSubject, Turns, Goto, FreeCalls, Bases

(* The calls before the Create *)
FreeStep(r) ==
  \/ HostNetwork(r)
  \/ HostNetworkFails(r)
  \/ ManagedName(r)
  \/ MultiClusterService(r)
  \/ \E range \in {"serviceCIDR", "clusterCIDR"} : GatherCephCIDRs(r, range)
  \/ DiscoverMons(r)
  \/ DiscoverOSDs(r)
  \/ DiscoverFails(r)
  \/ SubmarinerService(r)

(* They touch no pod, and go on with another free call *)
LEMMA FreeStepStutters ==
  ASSUME NEW r \in Runs, IInv, FreeStep(r)
  PROVE  /\ UNCHANGED <<serverVars, deferred, world>>
         /\ pc[r] \in FreeCalls
         /\ Turns(r)
<1>1. ASSUME NEW l \in FreeCalls, Goto(r, l), UNCHANGED cl
      PROVE  Turns(r)
  BY <1>1 DEF Goto, Turns, Bases
<1>2. CASE HostNetwork(r)
  <2>1. pc' = pc => pc' = [pc EXCEPT ![r] = "hostNetwork"]
    BY <1>2 DEF HostNetwork, Answered, IInv
  <2>2. Turns(r)
    BY <1>2, <2>1, <1>1 DEF HostNetwork, StartSubject, Turns, Goto, Answered, FreeCalls, Bases
  <2>3. QED
    BY <1>2, <2>2 DEF HostNetwork, podVars, fixed, Answered, FreeCalls
<1>3. CASE HostNetworkFails(r)
  BY <1>1, <1>3 DEF HostNetworkFails, podVars, fixed, At, FreeCalls
<1>4. CASE ManagedName(r)
  BY <1>1, <1>4, TurnIsNextSubject DEF ManagedName, podVars, fixed, Answered, At, FreeCalls
<1>5. CASE MultiClusterService(r)
  BY <1>1, <1>5 DEF MultiClusterService, podVars, fixed, Answered, At, FreeCalls
<1>6. ASSUME NEW range \in {"serviceCIDR", "clusterCIDR"}, GatherCephCIDRs(r, range)
      PROVE  /\ UNCHANGED <<serverVars, deferred, world>>
             /\ pc[r] \in FreeCalls
             /\ Turns(r)
  BY <1>1, <1>6 DEF GatherCephCIDRs, podVars, fixed, Answered, At, FreeCalls
<1>7. CASE DiscoverMons(r)
  BY <1>1, <1>7 DEF DiscoverMons, podVars, fixed, Answered, FreeCalls
<1>8. CASE DiscoverOSDs(r)
  BY <1>1, <1>8 DEF DiscoverOSDs, podVars, fixed, Answered, FreeCalls
<1>9. CASE DiscoverFails(r)
  BY <1>9, TurnIsNextSubject DEF DiscoverFails, podVars, fixed, At, FreeCalls
<1>10. CASE SubmarinerService(r)
  <2>1. ASSUME NEW known, NEW failed, NextDaemon(r, known, failed), pc[r] = "service"
        PROVE  Turns(r)
    <3>1. pc' = pc => pc' = [pc EXCEPT ![r] = "service"]
      BY <2>1 DEF IInv
    <3>2. QED
      BY <1>1, <2>1, <3>1, TurnIsNextSubject DEF NextDaemon, Goto, FreeCalls
  <2>2. QED
    BY <1>10, <2>1 DEF SubmarinerService, podVars, fixed, Answered, At, FreeCalls
<1>11. QED
  BY <1>2, <1>3, <1>4, <1>5, <1>6, <1>7, <1>8, <1>9, <1>10 DEF FreeStep

LEMMA InitIInv == Init => IInv
BY DEF Init, IInv, Labels, FreeCalls, PodCalls, Bases

(* A run that turns to the other cluster owes nothing any more *)
LEMMA StepIInv == IInv /\ [Next]_vars => IInv'
<1> SUFFICES ASSUME IInv, [Next]_vars  PROVE IInv'
  OBVIOUS
<1>1. world' = world
  BY DEF Next, RunStep, vars, runVars, podUnchanged, fixed, Cluster, Interrupt, Kill,
       HostNetwork, HostNetworkFails, ManagedName, MultiClusterService, GatherCephCIDRs,
       DiscoverMons, DiscoverOSDs, DiscoverFails, SubmarinerService, Deploys, DeployFails,
       PodIsReady, WaitFails, Probe, CleanUp, Return
<1>2. ASSUME NEW r \in Runs, Turns(r), deferred' = [deferred EXCEPT ![r] = {}]
      PROVE  IInv'
  <2>1. /\ pc' \in [Runs -> Labels] /\ cl' \in [Runs -> Bases]
        /\ deferred' \in [Runs -> SUBSET Slots]
        /\ deferred'[r] = {} /\ pc'[r] \in FreeCalls
    BY <1>2 DEF IInv, Turns, Labels
  <2>2. \A q \in Runs \ {r} : pc'[q] = pc[q] /\ cl'[q] = cl[q] /\ deferred'[q] = deferred[q]
    BY <1>2 DEF IInv, Turns
  <2>3. \A q \in Runs \ {r} : PodOf(q)' = PodOf(q)
    BY <1>1, <2>2 DEF PodOf, Self
  <2>4. QED
    BY <2>1, <2>2, <2>3 DEF IInv, PodCalls, FreeCalls
<1>3. ASSUME cl' = cl, NEW q \in Runs  PROVE PodOf(q)' = PodOf(q)
  BY <1>1, <1>3 DEF PodOf, Self
<1>4. ASSUME NEW r \in Runs, Moves(r, PodCalls), pc[r] \in PodCalls, deferred' = deferred
      PROVE  IInv'
  BY <1>3, <1>4 DEF IInv, Moves, Labels, PodCalls, FreeCalls
<1>5. ASSUME NEW r \in Runs, FreeStep(r)  PROVE IInv'
  <2>1. deferred' = [deferred EXCEPT ![r] = {}]
    BY <1>5, FreeStepStutters DEF IInv
  <2>2. QED
    BY <1>2, <1>5, <2>1, FreeStepStutters
<1>6. ASSUME NEW r \in Runs, Deploys(r)  PROVE IInv'
  <2>1. /\ pc[r] = "deploy" /\ cl' = cl /\ pc' = [pc EXCEPT ![r] = "wait"]
        /\ deferred' = [deferred EXCEPT ![r] = @ \cup {PodOf(r)}]
    BY <1>6 DEF Deploys, Answered, Goto
  <2>2. deferred[r] = {}
    BY <2>1 DEF IInv, FreeCalls
  <2>3. /\ pc' \in [Runs -> Labels] /\ cl' \in [Runs -> Bases]
        /\ deferred' \in [Runs -> SUBSET Slots]
    BY <2>1, PodIsSlot DEF IInv, Labels, PodCalls
  <2>4. pc'[r] = "wait" /\ deferred'[r] = {PodOf(r)}
    BY <2>1, <2>2 DEF IInv
  <2>5. \A q \in Runs \ {r} : pc'[q] = pc[q] /\ deferred'[q] = deferred[q]
    BY <2>1 DEF IInv
  <2>6. \A q \in Runs : PodOf(q)' = PodOf(q)
    BY <1>3, <2>1
  <2>7. QED
    BY <2>3, <2>4, <2>5, <2>6 DEF IInv, PodCalls, FreeCalls
<1>7. ASSUME NEW r \in Runs, DeployFails(r)  PROVE IInv'
  <2>1. Turns(r) /\ deferred' = deferred /\ pc[r] = "deploy"
    BY <1>7, TurnIsNextSubject DEF DeployFails, Answered, At
  <2>2. deferred' = [deferred EXCEPT ![r] = {}]
    BY <2>1 DEF IInv, FreeCalls
  <2>3. QED
    BY <1>2, <2>1, <2>2
<1>8. ASSUME NEW r \in Runs, PodIsReady(r) \/ WaitFails(r) \/ Probe(r)  PROVE IInv'
  <2>1. pc[r] \in PodCalls /\ deferred' = deferred /\ cl' = cl
    BY <1>8 DEF PodIsReady, WaitFails, Probe, podVars, Answered, At, PodCalls
  <2>2. pc' = pc => pc' = [pc EXCEPT ![r] = pc[r]]
    BY DEF IInv
  <2>3. Moves(r, PodCalls)
    BY <1>8, <2>1, <2>2 DEF PodIsReady, WaitFails, Probe, Goto, Moves, PodCalls
  <2>4. QED
    BY <1>4, <2>1, <2>3
<1>9. ASSUME NEW r \in Runs, CleanUp(r)  PROVE IInv'
  <2>1. /\ Turns(r) /\ pc[r] = "cleanup"
        /\ deferred' = [deferred EXCEPT ![r] = @ \ {PodOf(r)}]
    BY <1>9, TurnIsNextSubject DEF CleanUp, At
  <2>2. deferred' = [deferred EXCEPT ![r] = {}]
    BY <2>1 DEF IInv
  <2>3. QED
    BY <1>2, <2>1, <2>2
<1>10. ASSUME NEW r \in Runs, Return(r) \/ Kill(r)  PROVE IInv'
  <2>1. /\ cl' = cl /\ deferred' = deferred
        /\ \E l \in {"returned", "killed"} : pc' = [pc EXCEPT ![r] = l]
    BY <1>10 DEF Return, Kill, Goto, podVars
  <2>2. pc'[r] = "killed" \/ deferred[r] = {}
    BY <1>10, <2>1 DEF Return, Kill, At, Goto, IInv, FreeCalls
  <2>3. QED
    BY <1>3, <2>1, <2>2 DEF IInv, Labels, PodCalls, FreeCalls
<1>11. ASSUME UNCHANGED <<pc, cl, deferred>>  PROVE IInv'
  BY <1>3, <1>11 DEF IInv
<1>12. ASSUME NEW r \in Runs, Interrupt(r)  PROVE IInv'
  BY <1>11, <1>12 DEF Interrupt, podVars
<1>13. ASSUME NEW s \in Slots, Cluster(s)  PROVE IInv'
  BY <1>11, <1>13 DEF Cluster, runVars
<1>14. CASE UNCHANGED vars
  BY <1>11, <1>14 DEF vars, runVars
<1>15. QED
  BY <1>5, <1>6, <1>7, <1>8, <1>9, <1>10, <1>12, <1>13, <1>14 DEF Next, RunStep, FreeStep

LEMMA Inductive == Spec => []IInv
BY InitIInv, StepIInv, PTL DEF Spec

-----------------------------------------------------------------------------
(* The refinement *)

LEMMA StepRefines == IInv /\ [Next]_vars => [Discipline!Next]_(Discipline!vars)
<1> SUFFICES ASSUME IInv, [Next]_vars  PROVE [Discipline!Next]_(Discipline!vars)
  OBVIOUS
<1> DEFINE run == [r \in Runs |-> IF pc[r] \in {"returned", "killed"} THEN pc[r] ELSE "active"]
           Running == PodCalls \cup FreeCalls
<1>1. ASSUME NEW r \in Runs, pc[r] \in Running,
             \E l \in Running : pc' = [pc EXCEPT ![r] = l]
      PROVE  run' = run /\ run[r] = "active"
  BY <1>1 DEF IInv, PodCalls, FreeCalls
<1>2. ASSUME NEW r \in Runs, pc[r] \in Running, Turns(r)
      PROVE  run' = run /\ run[r] = "active"
  BY <1>1, <1>2 DEF Turns
<1>3. ASSUME UNCHANGED <<serverVars, deferred>>, run' = run
      PROVE  UNCHANGED Discipline!vars
  BY <1>3 DEF Discipline!vars, Discipline!serverVars, serverVars
<1>4. ASSUME NEW r \in Runs, FreeStep(r)
      PROVE  UNCHANGED Discipline!vars
  BY <1>2, <1>3, <1>4, FreeStepStutters
<1>5. ASSUME NEW r \in Runs, Deploys(r)
      PROVE  Discipline!Deploy(r, PodOf(r))
  BY <1>1, <1>5 DEF Deploys, Answered, Goto, DeployTestPod, NewPod, IsFree,
       Discipline!Deploy, Discipline!DeployTestPod, Discipline!NewPod, Discipline!IsFree,
       PodCalls, FreeCalls
<1>6. ASSUME NEW r \in Runs, DeployFails(r)
      PROVE  Discipline!DeployLost(r, PodOf(r)) \/ UNCHANGED Discipline!vars
  <2>1. pc[r] = "deploy" /\ Turns(r) /\ deferred' = deferred
    BY <1>6, TurnIsNextSubject DEF DeployFails, Answered, At
  <2>2. run' = run /\ run[r] = "active"
    BY <1>2, <2>1 DEF FreeCalls
  <2>3. CASE DeployUnanswered(r, PodOf(r))
    BY <2>1, <2>2, <2>3 DEF DeployUnanswered, Discipline!DeployLost, Discipline!DeployUnanswered
  <2>4. CASE DeployRefused
    BY <1>3, <2>1, <2>2, <2>4 DEF DeployRefused
  <2>5. QED
    BY <1>6, <2>3, <2>4 DEF DeployFails
<1>7. ASSUME NEW r \in Runs, PodIsReady(r) \/ WaitFails(r) \/ Probe(r)
      PROVE  UNCHANGED Discipline!vars
  <2>1. pc[r] \in PodCalls /\ UNCHANGED <<serverVars, deferred>>
    BY <1>7 DEF PodIsReady, WaitFails, Probe, podVars, Answered, At, PodCalls
  <2>2. pc' = pc \/ \E l \in PodCalls : pc' = [pc EXCEPT ![r] = l]
    BY <1>7 DEF PodIsReady, WaitFails, Probe, Goto, PodCalls
  <2>3. QED
    BY <1>1, <1>3, <2>1, <2>2
<1>8. ASSUME NEW r \in Runs, CleanUp(r)
      PROVE  Discipline!CleanUp(r, PodOf(r))
  <2>1. pc[r] = "cleanup" /\ Turns(r) /\ PodOf(r) \in deferred[r]
    BY <1>8, TurnIsNextSubject DEF CleanUp, At, IInv, PodCalls
  <2>2. run' = run /\ run[r] = "active"
    BY <1>2, <2>1 DEF PodCalls
  <2>3. QED
    BY <1>8, <2>1, <2>2 DEF CleanUp, DeleteTestPod, DeleteFailed, Lives, Living,
         Discipline!CleanUp, Discipline!DeleteTestPod, Discipline!DeleteFailed,
         Discipline!Lives, Discipline!Living
<1>9. ASSUME NEW r \in Runs, Return(r)
      PROVE  Discipline!Return(r)
  BY <1>9 DEF Return, At, Goto, IInv, podVars, serverVars, Discipline!Return,
       Discipline!serverVars
<1>10. ASSUME NEW r \in Runs, Interrupt(r)
       PROVE  UNCHANGED Discipline!vars
  BY <1>3, <1>10 DEF Interrupt, podVars
<1>11. ASSUME NEW r \in Runs, Kill(r)
       PROVE  Discipline!Kill(r)
  BY <1>11 DEF Kill, Goto, IInv, Ended, podVars, serverVars, Discipline!Kill,
       Discipline!serverVars
<1>12. ASSUME NEW s \in Slots, Cluster(s)
       PROVE  Discipline!Cluster(s)
  BY <1>12 DEF Cluster, runVars, ServerStep, PodStarts, PodEnds, PodGone,
       OutsideDelete, LateCreate, NewPod, IsFree, NoPod, Lives, Living,
       Discipline!Cluster, Discipline!ServerStep, Discipline!PodStarts, Discipline!PodEnds,
       Discipline!PodGone, Discipline!OutsideDelete, Discipline!LateCreate, Discipline!NewPod,
       Discipline!IsFree, Discipline!NoPod, Discipline!Lives, Discipline!Living
<1>13. CASE UNCHANGED vars
  BY <1>3, <1>13 DEF vars, runVars
<1>14. QED
  BY <1>4, <1>5, <1>6, <1>7, <1>8, <1>9, <1>10, <1>11, <1>12, <1>13, PodIsSlot
  DEF Next, RunStep, FreeStep, Discipline!Next

(* The Ceph check implements the discipline that all checks share, on the   *)
(* ClusterIP and the GlobalNet path (ceph_daemon_submariner.go:36, 139).    *)
THEOREM ImplementsDiscipline == Spec => ImplementsTestPods
<1>1. Init => Discipline!Init
  BY DEF Init, ServerInit, NoPod, Discipline!Init, Discipline!ServerInit, Discipline!NoPod
<1>2. QED
  BY <1>1, StepRefines, Inductive, PTL DEF Spec, ImplementsTestPods, Discipline!Spec

-----------------------------------------------------------------------------
(* What TestPodsProofs proves of the discipline *)

LEMMA SameDiscipline == ImplementsTestPods => Pod!Spec
<1>1. Discipline!Init => Pod!Init
  BY DEF Discipline!Init, Discipline!ServerInit, Discipline!NoPod,
       Pod!Init, Pod!ServerInit, Pod!NoPod
<1>2. ASSUME NEW r \in Runs, NEW s \in Slots
      PROVE  /\ Discipline!Deploy(r, s) => Pod!Deploy(r, s)
             /\ Discipline!DeployLost(r, s) => Pod!DeployLost(r, s)
             /\ Discipline!CleanUp(r, s) => Pod!CleanUp(r, s)
  BY DEF Discipline!Deploy, Discipline!DeployTestPod, Discipline!NewPod, Discipline!IsFree,
       Discipline!DeployLost, Discipline!DeployUnanswered,
       Discipline!CleanUp, Discipline!DeleteTestPod, Discipline!DeleteFailed,
       Discipline!Lives, Discipline!Living,
       Pod!Deploy, Pod!DeployTestPod, Pod!NewPod, Pod!IsFree, Pod!DeployLost,
       Pod!DeployUnanswered, Pod!CleanUp, Pod!DeleteTestPod, Pod!DeleteFailed, Pod!Lives,
       Pod!Living
<1>3. ASSUME NEW r \in Runs
      PROVE  /\ Discipline!Return(r) => Pod!Return(r)
             /\ Discipline!Kill(r) => Pod!Kill(r)
  BY DEF Discipline!Return, Discipline!Kill, Discipline!serverVars,
       Pod!Return, Pod!Kill, Pod!serverVars
<1>4. ASSUME NEW s \in Slots
      PROVE  Discipline!Cluster(s) => Pod!Cluster(s)
  BY DEF Discipline!Cluster, Discipline!ServerStep, Discipline!PodStarts,
       Discipline!PodEnds, Discipline!PodGone, Discipline!OutsideDelete,
       Discipline!LateCreate, Discipline!NewPod, Discipline!IsFree,
       Discipline!NoPod, Discipline!Lives, Discipline!Living,
       Pod!Cluster, Pod!ServerStep, Pod!PodStarts, Pod!PodEnds, Pod!PodGone,
       Pod!OutsideDelete, Pod!LateCreate, Pod!NewPod, Pod!IsFree,
       Pod!NoPod, Pod!Lives, Pod!Living
<1>5. [Discipline!Next]_(Discipline!vars) => [Pod!Next]_(Pod!vars)
  BY <1>2, <1>3, <1>4 DEF Discipline!Next, Discipline!vars, Discipline!serverVars,
       Pod!Next, Pod!vars, Pod!serverVars
<1>6. QED
  BY <1>1, <1>5, PTL DEF ImplementsTestPods, Discipline!Spec, Pod!Spec

(* No run deletes another run's pod, unless a pod of that name was deleted  *)
(* from outside before: with fixed names and deletes by name (pod.go:125).  *)
THEOREM DeletesAreOwn == Spec => []Pod!OnlyOwnPodsDeleted
<1>1. Pod!Spec => []Pod!OnlyOwnPodsDeleted
  BY NobodyAssumption, Pod!DeletesAreOwn
<1>2. QED
  BY <1>1, ImplementsDiscipline, SameDiscipline, PTL

(* A pod is gone with the turn it was made in: when the other cluster is    *)
(* checked, when the check hands over and when it has returned, a living    *)
(* pod of the run is one whose Create or Delete it had no answer of         *)
(* (ceph_daemon_submariner.go: the deferred Delete of each path).           *)
NoPodOutlivesItsTurn ==
  \A r \in Runs : pc[r] # "killed" =>
    \A s \in Slots : Owns(r, s) =>
      \/ <<r, s>> \in orphaned
      \/ s = PodOf(r) /\ pc[r] \in {"wait", "probe", "cleanup"}

(* When a path has returned its pod is gone, whatever failed: a living pod  *)
(* of a run is the one of its present turn, or one it could not know of.    *)
THEOREM PodsEndWithTheirTurn == Spec => []NoPodOutlivesItsTurn
<1>1. IInv /\ Pod!LeftoverAccounted => NoPodOutlivesItsTurn
  BY DEF IInv, Pod!LeftoverAccounted, Pod!Owns, Pod!Lives, Pod!Living, NoPodOutlivesItsTurn,
       Owns, Lives, Living, Labels, PodCalls, FreeCalls
<1>2. Pod!Spec => []Pod!LeftoverAccounted
  BY NobodyAssumption, Pod!LeftoversAreAccounted
<1>3. QED
  BY <1>1, <1>2, Inductive, ImplementsDiscipline, SameDiscipline, PTL

-----------------------------------------------------------------------------
(* What the loops that parse addresses make of the daemons listed.  The     *)
(* induction is over the daemons that a loop has behind it.                 *)

(* Induction on a set of numbers, by its smallest number missing *)
LEMMA NatSetInduction ==
  ASSUME NEW S, 0 \in S, \A n \in Nat : n \in S => n + 1 \in S
  PROVE  Nat \subseteq S
<1>0. SUFFICES ASSUME Nat \ S # {}  PROVE FALSE
  OBVIOUS
<1>1. PICK n \in Nat \ S : \A m \in Nat \ S : <<m, n>> \notin OpToRel(<, Nat)
  BY <1>0, WFMin, NatLessThanWellFounded
<1>2. n # 0 /\ n - 1 \in Nat
  OBVIOUS
<1>3. <<n - 1, n>> \in OpToRel(<, Nat)
  BY <1>2 DEF OpToRel
<1>4. n - 1 \in S
  BY <1>1, <1>2, <1>3
<1>5. QED
  BY <1>2, <1>4

(* A loop over the first n elements of s that skips those not in W *)
Loop(f, n, s, c, W) ==
  f = [i \in 0..n |-> IF i = 0 THEN <<>>
                      ELSE IF <<c, s[i]>> \in W THEN Append(f[i - 1], s[i])
                                                ELSE f[i - 1]]

LEMMA LoopExists ==
  ASSUME NEW s, NEW c, NEW W  PROVE \A n \in Nat : \E f : Loop(f, n, s, c, W)
<1> DEFINE S == {n \in Nat : \E f : Loop(f, n, s, c, W)}
<1>1. 0 \in S
  <2>1. Loop([i \in 0..0 |-> <<>>], 0, s, c, W)
    BY DEF Loop
  <2>2. QED
    BY <2>1
<1>2. ASSUME NEW n \in Nat, n \in S  PROVE n + 1 \in S
  <2>1. PICK f : Loop(f, n, s, c, W)
    BY <1>2
  <2>2. PICK last : last = IF <<c, s[n + 1]>> \in W THEN Append(f[n], s[n + 1]) ELSE f[n]
    OBVIOUS
  <2>3. PICK g : g = [i \in 0 .. n + 1 |-> IF i = n + 1 THEN last ELSE f[i]]
    OBVIOUS
  <2>4. DOMAIN g = 0 .. n + 1 /\ g[n + 1] = last /\ \A i \in 0..n : g[i] = f[i]
    BY <2>3
  <2>5. \A i \in 0..n : f[i] = IF i = 0 THEN <<>>
                               ELSE IF <<c, s[i]>> \in W THEN Append(f[i - 1], s[i])
                                                         ELSE f[i - 1]
    BY <2>1 DEF Loop
  <2>6. ASSUME NEW i \in 0 .. n + 1
        PROVE  g[i] = IF i = 0 THEN <<>>
                      ELSE IF <<c, s[i]>> \in W THEN Append(g[i - 1], s[i])
                                                ELSE g[i - 1]
    <3>1. CASE i = n + 1
      BY <2>2, <2>4, <3>1
    <3>2. CASE i # n + 1
      <4>1. i \in 0..n /\ (i # 0 => i - 1 \in 0..n)
        BY <3>2
      <4>2. QED
        BY <2>4, <2>5, <4>1
    <3>3. QED
      BY <3>1, <3>2
  <2>7. Loop(g, n + 1, s, c, W)
    BY <2>3, <2>4, <2>6 DEF Loop
  <2>8. QED
    BY <2>7
<1>3. Nat \subseteq S
  <2> HIDE DEF S
  <2>1. QED
    BY <1>1, <1>2, NatSetInduction
<1>4. QED
  BY <1>3

LEMMA IndicesOf ==
  ASSUME NEW D, NEW s \in Seq(D)
  PROVE  /\ Len(s) \in Nat /\ DOMAIN s = 1..Len(s)
         /\ \A i \in 1..Len(s) : s[i] \in D /\ s[i] \in ToSet(s)
         /\ \A d : d \in ToSet(s) <=> \E i \in 1..Len(s) : s[i] = d
         /\ ToSet(s) \subseteq D
         /\ IsInjective(s) <=> \A i, j \in 1..Len(s) : s[i] = s[j] => i = j
<1>1. Len(s) \in Nat /\ DOMAIN s = 1..Len(s) /\ \A i \in 1..Len(s) : s[i] \in D
  BY LenProperties
<1>2. QED
  BY <1>1 DEF ToSet, IsInjective

LEMMA AppendKeeps ==
  ASSUME NEW D, NEW t \in Seq(D), NEW d \in D
  PROVE  /\ Append(t, d) \in Seq(D) /\ ToSet(Append(t, d)) = ToSet(t) \cup {d}
         /\ Append(t, d) # <<>>
         /\ IsInjective(t) /\ d \notin ToSet(t) => IsInjective(Append(t, d))
<1>1. PICK a \in Seq(D) : a = Append(t, d)
  BY AppendProperties
<1>2. /\ Len(a) = Len(t) + 1 /\ a[Len(t) + 1] = d
      /\ \A i \in 1..Len(t) : a[i] = t[i]
  BY <1>1, AppendProperties
<1>3. /\ Len(t) \in Nat /\ \A i \in 1..Len(t) : t[i] \in D /\ t[i] \in ToSet(t)
      /\ \A e : e \in ToSet(t) <=> \E i \in 1..Len(t) : t[i] = e
      /\ IsInjective(t) <=> \A i, j \in 1..Len(t) : t[i] = t[j] => i = j
  BY IndicesOf
<1>4. /\ \A e : e \in ToSet(a) <=> \E i \in 1..Len(a) : a[i] = e
      /\ IsInjective(a) <=> \A i, j \in 1..Len(a) : a[i] = a[j] => i = j
  BY IndicesOf
<1>5. \A i \in 1..Len(a) : i \in 1..Len(t) \/ i = Len(t) + 1
  BY <1>2, <1>3
<1>6. \A e : e \in ToSet(a) <=> e \in ToSet(t) \/ e = d
  <2>1. Len(t) + 1 \in 1..Len(a) /\ \A i \in 1..Len(t) : i \in 1..Len(a)
    BY <1>2, <1>3
  <2>2. QED
    BY <1>2, <1>3, <1>4, <1>5, <2>1
<1>7. IsInjective(t) /\ d \notin ToSet(t) => IsInjective(a)
  BY <1>2, <1>3, <1>4, <1>5
<1>8. a # <<>>
  BY <1>2, <1>3
<1>9. QED
  BY <1>1, <1>6, <1>7, <1>8

LEMMA LoopKeeps ==
  ASSUME NEW D, NEW s \in Seq(D), NEW c, NEW W, NEW f, Loop(f, Len(s), s, c, W)
  PROVE  \A n \in 0..Len(s) :
           /\ f[n] \in Seq(D)
           /\ \A d : d \in ToSet(f[n]) <=> \E i \in 1..n : s[i] = d /\ <<c, d>> \in W
           /\ IsInjective(s) => IsInjective(f[n])
<1> DEFINE Kept(n) == /\ f[n] \in Seq(D)
                      /\ \A d : d \in ToSet(f[n]) <=> \E i \in 1..n : s[i] = d /\ <<c, d>> \in W
                      /\ IsInjective(s) => IsInjective(f[n])
           S == {n \in Nat : n <= Len(s) => Kept(n)}
<1>1. \A n \in 0..Len(s) : f[n] = IF n = 0 THEN <<>>
                                  ELSE IF <<c, s[n]>> \in W THEN Append(f[n - 1], s[n])
                                                            ELSE f[n - 1]
  BY DEF Loop
<1>2. /\ Len(s) \in Nat /\ \A i \in 1..Len(s) : s[i] \in D
      /\ IsInjective(s) <=> \A i, j \in 1..Len(s) : s[i] = s[j] => i = j
  BY IndicesOf
<1>3. 0 \in S
  <2>1. f[0] = <<>>
    <3>1. 0 \in 0..Len(s)
      BY <1>2
    <3>2. QED
      BY <3>1 DEF Loop
  <2>2. <<>> \in Seq(D) /\ ToSet(<<>>) = {} /\ IsInjective(<<>>)
    BY DEF ToSet, IsInjective
  <2>3. Kept(0)
    BY <2>1, <2>2
  <2>4. QED
    BY <2>3
<1>4. ASSUME NEW n \in Nat, n \in S  PROVE n + 1 \in S
  <2>0. SUFFICES ASSUME n + 1 <= Len(s)  PROVE Kept(n + 1)
    OBVIOUS
  <2>1. Kept(n)
    BY <1>2, <1>4, <2>0
  <2>2. n + 1 \in 1..Len(s) /\ n \in 0..Len(s) /\ s[n + 1] \in D
    BY <1>2, <2>0
  <2>3. f[n + 1] = IF <<c, s[n + 1]>> \in W THEN Append(f[n], s[n + 1]) ELSE f[n]
    BY <1>1, <2>2
  <2>4. \A i : i \in 1 .. n + 1 <=> i \in 1..n \/ i = n + 1
    OBVIOUS
  <2>5. CASE <<c, s[n + 1]>> \notin W
    <3>1. f[n + 1] = f[n]
      BY <2>3, <2>5
    <3>2. \A d : d \in ToSet(f[n + 1]) <=> \E i \in 1 .. n + 1 : s[i] = d /\ <<c, d>> \in W
      BY <2>1, <2>4, <2>5, <3>1
    <3>3. QED
      BY <2>1, <3>1, <3>2
  <2>6. CASE <<c, s[n + 1]>> \in W
    <3>1. PICK t \in Seq(D) : t = f[n]
      BY <2>1
    <3>2. PICK e \in D : e = s[n + 1]
      BY <2>2
    <3>3. f[n + 1] = Append(t, e)
      BY <2>3, <2>6, <3>1, <3>2
    <3>4. /\ Append(t, e) \in Seq(D) /\ ToSet(Append(t, e)) = ToSet(t) \cup {e}
          /\ IsInjective(t) /\ e \notin ToSet(t) => IsInjective(Append(t, e))
      BY AppendKeeps
    <3>5. \A d : d \in ToSet(f[n + 1]) <=> \E i \in 1 .. n + 1 : s[i] = d /\ <<c, d>> \in W
      BY <2>1, <2>4, <2>6, <3>1, <3>2, <3>3, <3>4
    <3>6. ASSUME IsInjective(s)  PROVE IsInjective(f[n + 1])
      <4>1. e \notin ToSet(t)
        <5>1. \A i \in 1..n : i \in 1..Len(s) /\ i # n + 1
          BY <2>2
        <5>2. \A i \in 1..n : s[i] # s[n + 1]
          BY <1>2, <2>2, <3>6, <5>1
        <5>3. QED
          BY <2>1, <3>1, <3>2, <5>2
      <4>2. QED
        BY <2>1, <3>1, <3>3, <3>4, <3>6, <4>1
    <3>7. QED
      BY <3>3, <3>4, <3>5, <3>6
  <2>7. QED
    BY <2>5, <2>6
<1>5. Nat \subseteq S
  <2> HIDE DEF S
  <2>1. QED
    BY <1>3, <1>4, NatSetInduction
<1>6. QED
  BY <1>2, <1>5

(* The parser's loops lose nothing that parses, and repeat nothing *)
LEMMA ParsedKeeps ==
  ASSUME NEW D, NEW s \in Seq(D), NEW c
  PROVE  /\ Parsed(c, s) \in Seq(D)
         /\ ToSet(Parsed(c, s)) = {d \in ToSet(s) : <<c, d>> \in world.parsed}
         /\ IsInjective(s) => IsInjective(Parsed(c, s))
<1>1. PICK W : W = world.parsed
  OBVIOUS
<1>2. \E f : Loop(f, Len(s), s, c, W)
  BY LoopExists, LenProperties
<1>3. PICK f : Loop(f, Len(s), s, c, W) /\ Parsed(c, s) = f[Len(s)]
  BY <1>1, <1>2 DEF Loop, Parsed
<1>4. Len(s) \in 0..Len(s)
  BY LenProperties
<1>5. /\ f[Len(s)] \in Seq(D)
      /\ \A d : d \in ToSet(f[Len(s)]) <=>
                  \E i \in 1..Len(s) : s[i] = d /\ <<c, d>> \in W
      /\ IsInjective(s) => IsInjective(f[Len(s)])
  BY <1>3, <1>4, LoopKeeps
<1>6. \A d : d \in ToSet(f[Len(s)]) <=> d \in ToSet(s) /\ <<c, d>> \in W
  BY <1>5, IndicesOf
<1>7. QED
  BY <1>1, <1>3, <1>5, <1>6

-----------------------------------------------------------------------------
(* The report.  While a cluster is the subject, each of its daemons has its *)
(* result or is still in one of the sequences, in one of them once; and no  *)
(* result says more than was seen.                                          *)

Says(X, check, c)   == \E x \in X : x.check = check /\ x.cl = c
Has(X, check, c, n) == \E x \in X : x.check = check /\ x.cl = c /\ x.at = n
Tested(X, c)        == {x.at : x \in {y \in X : y.check = "daemon" /\ y.cl = c}}
Lacks(X, c, d)      == \E x \in X : /\ x.check = "daemon" /\ x.cl = c /\ x.at = d
                                    /\ x.status = "FAIL"
Fresh(X, c)         == \A x \in X : x.cl # c
Once(X, c)          == \A x, y \in X : /\ x.check = "daemon" /\ x.cl = c
                                       /\ y.check = "daemon" /\ y.cl = c /\ x.at = y.at
                                       => x = y
Stopped(X, c)       == Says(X, "name", c) \/ Says(X, "discover", c)
GlobalNet(c)        == world.objects[c].submariner = "globalnet"

Honest(x) ==
  /\ x.check \in {"name", "discover", "pod"} => x.status # "PASS"
  /\ x.status = "PASS" =>
       /\ x.check = "mcs" => world.objects[x.cl].mcs = "matches"
       /\ x.check = "noproxy" => <<x.cl, x.at>> \in world.covered
       /\ x.check = "daemon" =>
            /\ <<x.cl, x.at>> \in world.reach
            /\ GlobalNet(x.cl) => <<x.cl, x.at>> \in world.exported

(* The peer's noProxy list was asked about what is connected to *)
Asked(r, c) ==
  \/ Peer(c) \notin world.proxied \/ c \in unread[r]
  \/ IF GlobalNet(c)
       THEN \A d \in DaemonsOf(c) : Has(results[r], "noproxy", c, d) \/ Lacks(results[r], c, d)
       ELSE \A n \in {"serviceCIDR", "clusterCIDR"} : Has(results[r], "noproxy", c, n)

(* A cluster's turn that is over *)
Done(r, c) ==
  LET X == results[r] IN
  /\ Once(X, c)
  /\ Stopped(X, c) => Tested(X, c) = {}
  /\ Tested(X, c) \subseteq DaemonsOf(c)
  /\ \/ Stopped(X, c) \/ Says(X, "pod", c)
     \/ Tested(X, c) = DaemonsOf(c) /\ Tested(X, c) # {}
  /\ Stopped(X, c) \/ /\ world.objects[c].named
                      /\ GlobalNet(c) => Says(X, "mcs", c)
                      /\ Asked(r, c)

(* Before the daemons are known: nothing is said that ends the turn *)
Early(r, c) ==
  LET X == results[r] IN
  /\ ~Stopped(X, c) /\ ~Says(X, "pod", c) /\ Tested(X, c) = {}
  /\ world.objects[c].named
  /\ IF GlobalNet(c) THEN Says(X, "mcs", c) ELSE Asked(r, c)

(* The lookups: what is to come, what was found, and what has failed        *)
Looking(r, c) ==
  LET X == results[r]
      E == ToSet(endpoints[r])
      K == ToSet(resolved[r])
  IN  /\ ~Stopped(X, c) /\ ~Says(X, "pod", c) /\ Once(X, c)
      /\ world.objects[c].named /\ GlobalNet(c) /\ Says(X, "mcs", c)
      /\ IsInjective(endpoints[r]) /\ IsInjective(resolved[r])
      /\ E \cap K = {} /\ (E \cup K) \cap Tested(X, c) = {}
      /\ E \cup K \cup Tested(X, c) = DaemonsOf(c)
      /\ {c} \X K \subseteq world.exported
      /\ \A d \in Tested(X, c) : Lacks(X, c, d)
      /\ endpoints[r] # <<>>

(* The probes: what is to come, and what has its result *)
Probing(r, c) ==
  LET X == results[r]
      E == ToSet(endpoints[r])
  IN  /\ ~Stopped(X, c) /\ ~Says(X, "pod", c) /\ Once(X, c)
      /\ world.objects[c].named
      /\ GlobalNet(c) => Says(X, "mcs", c) /\ {c} \X E \subseteq world.exported
      /\ Asked(r, c)
      /\ IsInjective(endpoints[r])
      /\ E \cap Tested(X, c) = {}
      /\ E \cup Tested(X, c) = DaemonsOf(c)
      /\ endpoints[r] # <<>>

Stage(r, c) ==
  /\ pc[r] \in {"name", "mcs", "serviceCIDR", "clusterCIDR"} => Fresh(results[r], c)
  /\ pc[r] \in {"mcs", "serviceCIDR", "clusterCIDR"} => world.objects[c].named
  /\ pc[r] = "mcs" => GlobalNet(c)
  /\ pc[r] \in {"serviceCIDR", "clusterCIDR"} => ~GlobalNet(c)
  /\ pc[r] = "clusterCIDR" => c \in unread[r] \/ "serviceCIDR" \in ranges[r]
  /\ pc[r] \in {"mons", "osds"} => Early(r, c)
  /\ pc[r] = "osds" => /\ endpoints[r] = Parsed(c, world.objects[c].mons)
                       /\ resolved[r] = <<>>
  /\ pc[r] = "service" => Looking(r, c)
  /\ pc[r] \in {"deploy", "wait", "probe"} => Probing(r, c)
  /\ pc[r] = "cleanup" => Done(r, c)

Turn == {"name", "mcs", "serviceCIDR", "clusterCIDR", "mons", "osds", "service", "deploy",
         "wait", "probe", "cleanup"}

Refused(r) == \E x \in results[r] : results[r] = {x} /\ x.check = "hostNetwork"

Account(r) ==
  /\ pc[r] = "hostNetwork" => results[r] = {}
  /\ pc[r] \in Turn => /\ Stage(r, cl[r])
                       /\ cl[r] = "c1" => Fresh(results[r], "c2")
                       /\ cl[r] = "c2" /\ IsSubject("c1") => Done(r, "c1")
  /\ pc[r] \in {"return", "returned"} =>
       Refused(r) \/ \A c \in Bases : IsSubject(c) => Done(r, c)

AccountInv == \A r \in Runs : Account(r)

Cidrs == {"serviceCIDR", "clusterCIDR"}

DataInv ==
  /\ world \in Worlds
  /\ cancelled \in [Runs -> BOOLEAN]
  /\ ranges \in [Runs -> SUBSET Cidrs]
  /\ unread \in [Runs -> SUBSET Bases]
  /\ endpoints \in [Runs -> Seq(STRING)]
  /\ resolved \in [Runs -> Seq(STRING)]
  /\ results = [r \in Runs |-> results[r]]
  /\ \A r \in Runs : \A x \in results[r] : Honest(x)

LEMMA AccountIsComplete == IInv /\ AccountInv => EveryDaemonAccounted
<1> SUFFICES ASSUME IInv, AccountInv, NEW r \in Runs, pc[r] = "returned", ~Refused(r),
                    NEW c \in Bases, IsSubject(c)
             PROVE  LET of(check) == {x \in ResultsOf(r, c) : x.check = check}
                        tested == {x.at : x \in of("daemon")}
                    IN  /\ \A d \in DaemonsOf(c) : \A x, y \in of("daemon") :
                             x.at = d /\ y.at = d => x = y
                        /\ CASE of("name") \cup of("discover") # {} -> tested = {}
                             [] of("pod") # {} -> tested \subseteq DaemonsOf(c)
                             [] OTHER -> tested = DaemonsOf(c) /\ tested # {}
  BY DEF EveryDaemonAccounted, Refused
<1> DEFINE of(check) == {x \in ResultsOf(r, c) : x.check = check}
           tested == {x.at : x \in of("daemon")}
<1>1. Done(r, c)
  BY DEF AccountInv, Account, Turn
<1>2. /\ \A check : of(check) # {} <=> Says(results[r], check, c)
      /\ \A x : x \in of("daemon") <=> x \in results[r] /\ x.check = "daemon" /\ x.cl = c
  BY DEF Says, ResultsOf
<1>3. tested = Tested(results[r], c)
  BY DEF Tested, ResultsOf
<1>4. \A x, y \in of("daemon") : x.at = y.at => x = y
  BY <1>1, <1>2 DEF Done, Once
<1> HIDE DEF of, tested
<1>5. of("name") \cup of("discover") # {} <=> Stopped(results[r], c)
  BY <1>2 DEF Stopped
<1>6. (CASE of("name") \cup of("discover") # {} -> tested = {}
         [] of("pod") # {} -> tested \subseteq DaemonsOf(c)
         [] OTHER -> tested = DaemonsOf(c) /\ tested # {})
  <2>1. /\ Stopped(results[r], c) => tested = {}
        /\ tested \subseteq DaemonsOf(c)
        /\ \/ Stopped(results[r], c) \/ of("pod") # {}
           \/ tested = DaemonsOf(c) /\ tested # {}
    BY <1>1, <1>2, <1>3 DEF Done
  <2>2. QED
    BY <1>5, <2>1
<1>7. QED
  BY <1>4, <1>6 DEF of, tested

LEMMA AccountIsTrue == IInv /\ DataInv /\ AccountInv => CleanReportIsTrue
<1>0. SUFFICES ASSUME IInv, DataInv, AccountInv, NEW r \in Runs, NEW c \in Bases,
                      pc[r] = "returned", IsSubject(c), Clean(r, c),
                      ~ \E x \in results[r] : x.check = "hostNetwork"
               PROVE  LET o == world.objects[c]
                          hosts == IF o.submariner = "globalnet" THEN DaemonsOf(c)
                                   ELSE {"serviceCIDR", "clusterCIDR"}
                      IN  /\ DaemonsOf(c) # {} /\ o.named
                          /\ {c} \X DaemonsOf(c) \subseteq world.reach
                          /\ o.submariner = "globalnet" =>
                               o.mcs = "matches" /\ {c} \X DaemonsOf(c) \subseteq world.exported
                          /\ Peer(c) \in world.proxied /\ c \notin unread[r] =>
                               {c} \X hosts \subseteq world.covered
  BY DEF CleanReportIsTrue
<1>1. \A x \in results[r] : x.cl = c => x.status = "PASS"
  BY <1>0 DEF Clean, ResultsOf
<1>2. \A x \in results[r] : Honest(x)
  BY <1>0 DEF DataInv
<1>3. ~Stopped(results[r], c) /\ ~Says(results[r], "pod", c)
  BY <1>1, <1>2 DEF Stopped, Says, Honest
<1>4. ~Refused(r)
  BY <1>0 DEF Refused
<1>5. Done(r, c)
  BY <1>0, <1>4 DEF AccountInv, Account, Turn
<1>6. /\ Tested(results[r], c) = DaemonsOf(c) /\ DaemonsOf(c) # {}
      /\ world.objects[c].named
      /\ GlobalNet(c) => Says(results[r], "mcs", c)
      /\ Asked(r, c)
  BY <1>3, <1>5 DEF Done
<1>7. \A d \in DaemonsOf(c) : /\ <<c, d>> \in world.reach
                              /\ GlobalNet(c) => <<c, d>> \in world.exported
                              /\ ~Lacks(results[r], c, d)
  <2>1. TAKE d \in DaemonsOf(c)
  <2>2. PICK x \in results[r] : x.check = "daemon" /\ x.cl = c /\ x.at = d
    BY <1>6 DEF Tested
  <2>3. ~Lacks(results[r], c, d)
    BY <1>1 DEF Lacks
  <2>4. QED
    BY <1>1, <1>2, <2>2, <2>3 DEF Honest
<1>8. GlobalNet(c) => world.objects[c].mcs = "matches"
  BY <1>1, <1>2, <1>6 DEF Says, Honest
<1>9. ASSUME Peer(c) \in world.proxied, c \notin unread[r],
             NEW n \in IF GlobalNet(c) THEN DaemonsOf(c) ELSE {"serviceCIDR", "clusterCIDR"}
      PROVE  <<c, n>> \in world.covered
  <2>1. Has(results[r], "noproxy", c, n)
    BY <1>6, <1>7, <1>9 DEF Asked
  <2>2. QED
    BY <1>1, <1>2, <2>1 DEF Has, Honest
<1>10. QED
  BY <1>6, <1>7, <1>8, <1>9 DEF GlobalNet

(* A step of run r that says nothing of the other runs, nor of the other    *)
(* cluster                                                                  *)
Local(r) ==
  /\ world' = world
  /\ \A q \in Runs \ {r} :
       /\ pc'[q] = pc[q] /\ cl'[q] = cl[q] /\ results'[q] = results[q]
       /\ endpoints'[q] = endpoints[q] /\ resolved'[q] = resolved[q]
       /\ ranges'[q] = ranges[q] /\ unread'[q] = unread[q]
  /\ results[r] \subseteq results'[r] /\ unread[r] \subseteq unread'[r]
  /\ \A x \in results'[r] : x \in results[r] \/ x.cl = cl[r]
  /\ \A d \in Bases : d # cl[r] => (d \in unread'[r] <=> d \in unread[r])

LEMMA SameWorld ==
  ASSUME world' = world, NEW c
  PROVE  /\ DaemonsOf(c)' = DaemonsOf(c)
         /\ GlobalNet(c)' <=> GlobalNet(c)
         /\ IsSubject(c)' <=> IsSubject(c)
         /\ \A s : Parsed(c, s)' = Parsed(c, s)
BY DEF DaemonsOf, GlobalNet, IsSubject, Parsed

LEMMA SameDone ==
  ASSUME NEW q, NEW c, world' = world, results'[q] = results[q], unread'[q] = unread[q]
  PROVE  Done(q, c)' <=> Done(q, c)
<1>1. DaemonsOf(c)' = DaemonsOf(c) /\ (GlobalNet(c)' <=> GlobalNet(c))
  BY SameWorld
<1>2. Asked(q, c)' <=> Asked(q, c)
  BY <1>1 DEF Asked
<1>3. QED
  BY <1>1, <1>2 DEF Done

LEMMA AccountKept ==
  ASSUME NEW q, world' = world, pc'[q] = pc[q], cl'[q] = cl[q],
         results'[q] = results[q], unread'[q] = unread[q],
         endpoints'[q] = endpoints[q], resolved'[q] = resolved[q], ranges'[q] = ranges[q],
         Account(q)
  PROVE  Account(q)'
<1>1. \A c : /\ DaemonsOf(c)' = DaemonsOf(c)
             /\ GlobalNet(c)' <=> GlobalNet(c)
             /\ IsSubject(c)' <=> IsSubject(c)
             /\ \A s : Parsed(c, s)' = Parsed(c, s)
             /\ Done(q, c)' <=> Done(q, c)
  BY SameWorld, SameDone
<1>2. \A c : Asked(q, c)' <=> Asked(q, c)
  BY <1>1 DEF Asked
<1>3. \A c : /\ Early(q, c)' <=> Early(q, c)
             /\ Looking(q, c)' <=> Looking(q, c)
             /\ Probing(q, c)' <=> Probing(q, c)
  BY <1>1, <1>2 DEF Early, Looking, Probing
<1>4. \A c : Stage(q, c) => Stage(q, c)'
  BY <1>1, <1>3 DEF Stage
<1>5. Refused(q) => Refused(q)'
  BY DEF Refused
<1>6. QED
  BY <1>1, <1>4, <1>5 DEF Account

(* The turn of the one cluster leaves what was said of the other *)
LEMMA OtherTurn ==
  ASSUME NEW r \in Runs, Local(r), NEW d \in Bases, d # cl[r]
  PROVE  /\ Fresh(results[r], d) => Fresh(results'[r], d)
         /\ Done(r, d) => Done(r, d)'
<1>1. \A x : x.cl = d => (x \in results'[r] <=> x \in results[r])
  BY DEF Local
<1>2. /\ \A check : Says(results'[r], check, d) <=> Says(results[r], check, d)
      /\ \A check, n : Has(results'[r], check, d, n) <=> Has(results[r], check, d, n)
      /\ \A n : Lacks(results'[r], d, n) <=> Lacks(results[r], d, n)
  BY <1>1 DEF Says, Has, Lacks
<1>3. /\ Tested(results'[r], d) = Tested(results[r], d)
      /\ Stopped(results'[r], d) <=> Stopped(results[r], d)
      /\ Once(results[r], d) => Once(results'[r], d)
  BY <1>1, <1>2 DEF Tested, Stopped, Once
<1>4. /\ DaemonsOf(d)' = DaemonsOf(d)
      /\ GlobalNet(d)' <=> GlobalNet(d)
      /\ d \in unread'[r] <=> d \in unread[r]
      /\ world' = world
  BY SameWorld DEF Local
<1>5. Asked(r, d) => Asked(r, d)'
  BY <1>2, <1>4 DEF Asked
<1>6. Done(r, d) => Done(r, d)'
  BY <1>2, <1>3, <1>4, <1>5 DEF Done
<1>7. QED
  BY <1>1, <1>6 DEF Fresh

LEMMA OtherRuns ==
  ASSUME NEW r \in Runs, Local(r), AccountInv, Account(r)'
  PROVE  AccountInv'
<1>1. \A q \in Runs \ {r} : Account(q)'
  BY AccountKept DEF Local, AccountInv
<1>2. QED
  BY <1>1 DEF AccountInv

LEMMA StaysInTurn ==
  ASSUME NEW r \in Runs, IInv, AccountInv, Local(r), pc[r] \in Turn, pc'[r] \in Turn,
         NEW c \in Bases, c = cl[r], cl'[r] = c, Stage(r, c)'
  PROVE  AccountInv'
<1>1. /\ c = "c1" => Fresh(results[r], "c2")
      /\ c = "c2" /\ IsSubject("c1") => Done(r, "c1")
  BY DEF AccountInv, Account
<1>2. /\ c = "c1" => Fresh(results'[r], "c2")
      /\ c = "c2" /\ IsSubject("c1") => Done(r, "c1")'
  BY <1>1, OtherTurn DEF Bases
<1>3. IsSubject("c1")' <=> IsSubject("c1")
  BY SameWorld DEF Local
<1>4. Account(r)'
  BY <1>2, <1>3 DEF Account, Turn
<1>5. QED
  BY <1>4, OtherRuns

LEMMA TurnEnds ==
  ASSUME NEW r \in Runs, IInv, AccountInv, Local(r), pc[r] \in Turn, NextSubject(r),
         NEW c \in Bases, c = cl[r], Done(r, c)'
  PROVE  AccountInv'
<1>1. /\ c = "c1" => Fresh(results[r], "c2")
      /\ c = "c2" /\ IsSubject("c1") => Done(r, "c1")
  BY DEF AccountInv, Account
<1>2. /\ c = "c1" => Fresh(results'[r], "c2")
      /\ c = "c2" /\ IsSubject("c1") => Done(r, "c1")'
  BY <1>1, OtherTurn DEF Bases
<1>3. \A d : IsSubject(d)' <=> IsSubject(d)
  BY SameWorld DEF Local
<1>4. CASE c = "c1" /\ IsSubject("c2")
  <2>1. pc'[r] = "name" /\ cl'[r] = "c2"
    BY <1>4 DEF NextSubject, StartSubject, Goto, IInv
  <2>2. Stage(r, "c2")'
    BY <1>2, <1>4, <2>1 DEF Stage
  <2>3. Account(r)'
    BY <1>4, <2>1, <2>2 DEF Account
  <2>4. QED
    BY <2>3, OtherRuns
<1>5. CASE ~(c = "c1" /\ IsSubject("c2"))
  <2>1. pc'[r] = "return"
    BY <1>5 DEF NextSubject, Goto, IInv
  <2>2. \A d \in Bases : IsSubject(d)' => Done(r, d)'
    BY <1>2, <1>3, <1>5 DEF Bases
  <2>3. Account(r)'
    BY <2>1, <2>2 DEF Account, Turn
  <2>4. QED
    BY <2>3, OtherRuns
<1>6. QED
  BY <1>4, <1>5

LEMMA Identities ==
  ASSUME IInv, DataInv, NEW r \in Runs
  PROVE  /\ pc = [pc EXCEPT ![r] = pc[r]]
         /\ endpoints = [endpoints EXCEPT ![r] = endpoints[r]]
         /\ resolved = [resolved EXCEPT ![r] = resolved[r]]
         /\ ranges = [ranges EXCEPT ![r] = ranges[r]]
         /\ results = [results EXCEPT ![r] = @ \cup {}]
BY DEF IInv, DataInv

(* What a step of a run changes, in one form for all of them *)
Changes(r, xs, es, ks, gs) ==
  /\ UNCHANGED <<world, cancelled>>
  /\ Turns(r) \/ Moves(r, Labels)
  /\ results' = [results EXCEPT ![r] = @ \cup xs]
  /\ endpoints' = [endpoints EXCEPT ![r] = es]
  /\ resolved' = [resolved EXCEPT ![r] = ks]
  /\ ranges' = [ranges EXCEPT ![r] = gs]
  /\ unread' \in {unread, [unread EXCEPT ![r] = @ \cup {cl[r]}]}

LEMMA Effect ==
  ASSUME IInv, DataInv, NEW r \in Runs, NEW xs, NEW es \in Seq(STRING),
         NEW ks \in Seq(STRING), NEW gs \in SUBSET Cidrs,
         Changes(r, xs, es, ks, gs),
         \A x \in xs : x.cl = cl[r] /\ Honest(x)
  PROVE  /\ DataInv' /\ Local(r)
         /\ results'[r] = results[r] \cup xs
         /\ endpoints'[r] = es /\ resolved'[r] = ks /\ ranges'[r] = gs
<1>1. /\ results'[r] = results[r] \cup xs
      /\ endpoints'[r] = es /\ resolved'[r] = ks /\ ranges'[r] = gs
      /\ \A q \in Runs \ {r} :
           /\ results'[q] = results[q]
           /\ endpoints'[q] = endpoints[q] /\ resolved'[q] = resolved[q]
           /\ ranges'[q] = ranges[q] /\ unread'[q] = unread[q]
  BY DEF DataInv, Changes
<1>2. \A q \in Runs \ {r} : pc'[q] = pc[q] /\ cl'[q] = cl[q]
  BY DEF IInv, Turns, Moves, Changes
<1>3. \/ unread'[r] = unread[r]
      \/ unread'[r] = unread[r] \cup {cl[r]}
  BY DEF DataInv, Changes
<1>4. Local(r)
  BY <1>1, <1>2, <1>3 DEF Local, Changes
<1>5. \A x : Honest(x)' <=> Honest(x)
  BY DEF Honest, GlobalNet, Changes
<1>6. \A q \in Runs : \A x \in results'[q] : Honest(x)'
  BY <1>1, <1>5 DEF DataInv
<1>7. results' = [q \in Runs |-> results'[q]]
  BY DEF DataInv, Changes
<1>8. /\ world' \in Worlds /\ cancelled' \in [Runs -> BOOLEAN]
      /\ ranges' \in [Runs -> SUBSET Cidrs]
      /\ endpoints' \in [Runs -> Seq(STRING)] /\ resolved' \in [Runs -> Seq(STRING)]
      /\ unread' \in [Runs -> SUBSET Bases]
  <2>1. unread \in [Runs -> SUBSET Bases] /\ cl[r] \in Bases
    BY DEF DataInv, IInv
  <2>2. unread' \in [Runs -> SUBSET Bases]
    BY <2>1 DEF Changes
  <2>3. QED
    BY <2>2 DEF DataInv, Changes
<1>9. DataInv'
  BY <1>6, <1>7, <1>8 DEF DataInv
<1>10. QED
  BY <1>1, <1>4, <1>9

-----------------------------------------------------------------------------
(* The sequences a step works on *)

LEMMA HeadTailKeeps ==
  ASSUME NEW D, NEW s \in Seq(D), s # <<>>, IsInjective(s)
  PROVE  /\ Head(s) \in D /\ Tail(s) \in Seq(D)
         /\ ToSet(s) = {Head(s)} \cup ToSet(Tail(s))
         /\ Head(s) \notin ToSet(Tail(s)) /\ IsInjective(Tail(s))
         /\ Len(s) \in Nat /\ (Len(s) > 1 \/ Len(s) = 1)
         /\ Len(s) = 1 => Tail(s) = <<>>
         /\ Len(s) > 1 => Tail(s) # <<>>
<1>1. PICK d \in D, t \in Seq(D) : d = Head(s) /\ t = Tail(s)
  BY HeadTailProperties
<1>2. /\ Len(t) = Len(s) - 1 /\ \A i \in 1..Len(t) : t[i] = s[i + 1]
      /\ d = s[1] /\ Len(s) \in Nat /\ Len(s) # 0
  BY <1>1, HeadTailProperties, EmptySeq
<1>3. /\ \A e : e \in ToSet(s) <=> \E i \in 1..Len(s) : s[i] = e
      /\ \A i, j \in 1..Len(s) : s[i] = s[j] => i = j
  BY IndicesOf
<1>4. /\ Len(t) \in Nat
      /\ \A e : e \in ToSet(t) <=> \E i \in 1..Len(t) : t[i] = e
      /\ IsInjective(t) <=> \A i, j \in 1..Len(t) : t[i] = t[j] => i = j
  BY IndicesOf
<1>5. /\ 1 \in 1..Len(s)
      /\ \A i \in 1..Len(t) : i + 1 \in 1..Len(s) /\ i + 1 # 1
      /\ \A i \in 1..Len(s) : i = 1 \/ (i - 1 \in 1..Len(t) /\ t[i - 1] = s[i])
  BY <1>2, <1>4
<1>6. d \notin ToSet(t)
  BY <1>2, <1>3, <1>4, <1>5
<1>7. IsInjective(t)
  <2>1. ASSUME NEW i \in 1..Len(t), NEW j \in 1..Len(t), t[i] = t[j]  PROVE i = j
    <3>1. i + 1 = j + 1
      BY <1>2, <1>3, <1>5, <2>1
    <3>2. QED
      BY <3>1
  <2>2. QED
    BY <1>4, <2>1
<1>8. \A e : e \in ToSet(s) <=> e = d \/ e \in ToSet(t)
  BY <1>2, <1>3, <1>4, <1>5
<1>9. /\ Len(s) = 1 => t = <<>>
      /\ Len(s) > 1 => t # <<>>
  BY <1>2, EmptySeq
<1>10. QED
  BY <1>1, <1>2, <1>6, <1>7, <1>8, <1>9

LEMMA ConcatKeeps ==
  ASSUME NEW D, NEW s \in Seq(D), NEW t \in Seq(D)
  PROVE  /\ s \o t \in Seq(D) /\ ToSet(s \o t) = ToSet(s) \cup ToSet(t)
         /\ IsInjective(s \o t) <=>
              IsInjective(s) /\ IsInjective(t) /\ ToSet(s) \cap ToSet(t) = {}
<1>1. PICK u \in Seq(D) : u = s \o t
  BY ConcatProperties
<1>2. /\ Len(u) = Len(s) + Len(t)
      /\ \A i \in 1..Len(u) : u[i] = IF i <= Len(s) THEN s[i] ELSE t[i - Len(s)]
  BY <1>1, ConcatProperties
<1>3. /\ Len(s) \in Nat
      /\ \A e : e \in ToSet(s) <=> \E i \in 1..Len(s) : s[i] = e
      /\ IsInjective(s) <=> \A i, j \in 1..Len(s) : s[i] = s[j] => i = j
  BY IndicesOf
<1>4. /\ Len(t) \in Nat
      /\ \A e : e \in ToSet(t) <=> \E i \in 1..Len(t) : t[i] = e
      /\ IsInjective(t) <=> \A i, j \in 1..Len(t) : t[i] = t[j] => i = j
  BY IndicesOf
<1>5. /\ \A e : e \in ToSet(u) <=> \E i \in 1..Len(u) : u[i] = e
      /\ IsInjective(u) <=> \A i, j \in 1..Len(u) : u[i] = u[j] => i = j
  BY IndicesOf
<1>6. /\ \A i \in 1..Len(s) : i \in 1..Len(u) /\ u[i] = s[i]
      /\ \A i \in 1..Len(t) : Len(s) + i \in 1..Len(u) /\ u[Len(s) + i] = t[i]
      /\ \A i \in 1..Len(u) : \/ i \in 1..Len(s) /\ u[i] = s[i]
                              \/ i - Len(s) \in 1..Len(t) /\ u[i] = t[i - Len(s)]
  BY <1>2, <1>3, <1>4
<1>7. \A e : e \in ToSet(u) <=> e \in ToSet(s) \/ e \in ToSet(t)
  <2>1. ASSUME NEW e \in ToSet(u)  PROVE e \in ToSet(s) \/ e \in ToSet(t)
    <3>1. PICK i \in 1..Len(u) : u[i] = e
      BY <1>5, <2>1
    <3>2. CASE i \in 1..Len(s) /\ u[i] = s[i]
      BY <1>3, <3>1, <3>2
    <3>3. CASE i - Len(s) \in 1..Len(t) /\ u[i] = t[i - Len(s)]
      BY <1>4, <3>1, <3>3
    <3>4. QED
      BY <1>6, <3>2, <3>3
  <2>2. ASSUME NEW e \in ToSet(s)  PROVE e \in ToSet(u)
    BY <1>3, <1>5, <1>6, <2>2
  <2>3. ASSUME NEW e \in ToSet(t)  PROVE e \in ToSet(u)
    BY <1>4, <1>5, <1>6, <2>3
  <2>4. QED
    BY <2>1, <2>2, <2>3
<1>8. ASSUME IsInjective(u)
      PROVE  IsInjective(s) /\ IsInjective(t) /\ ToSet(s) \cap ToSet(t) = {}
  <2>1. IsInjective(s)
    BY <1>3, <1>5, <1>6, <1>8
  <2>2. ASSUME NEW i \in 1..Len(t), NEW j \in 1..Len(t), t[i] = t[j]  PROVE i = j
    <3>1. Len(s) + i = Len(s) + j
      <4>1. /\ Len(s) + i \in 1..Len(u) /\ u[Len(s) + i] = t[i]
            /\ Len(s) + j \in 1..Len(u) /\ u[Len(s) + j] = t[j]
        BY <1>6
      <4>2. \A k, l \in 1..Len(u) : u[k] = u[l] => k = l
        BY <1>5, <1>8
      <4>3. QED
        BY <2>2, <4>1, <4>2
    <3>2. QED
      BY <1>3, <3>1
  <2>3. ASSUME NEW i \in 1..Len(s), NEW j \in 1..Len(t), s[i] = t[j]  PROVE FALSE
    <3>1. i = Len(s) + j
      BY <1>5, <1>6, <1>8, <2>3
    <3>2. QED
      BY <1>3, <3>1
  <2>4. QED
    BY <1>3, <1>4, <2>1, <2>2, <2>3
<1>9. ASSUME IsInjective(s), IsInjective(t), ToSet(s) \cap ToSet(t) = {}
      PROVE  IsInjective(u)
  <2>1. ASSUME NEW i \in 1..Len(u), NEW j \in 1..Len(u), u[i] = u[j]  PROVE i = j
    <3>1. CASE i \in 1..Len(s) /\ u[i] = s[i]
      <4>1. j \in 1..Len(s) /\ u[j] = s[j]
        BY <1>3, <1>4, <1>6, <1>9, <2>1, <3>1
      <4>2. QED
        BY <1>3, <1>9, <2>1, <3>1, <4>1
    <3>2. CASE i - Len(s) \in 1..Len(t) /\ u[i] = t[i - Len(s)]
      <4>1. j - Len(s) \in 1..Len(t) /\ u[j] = t[j - Len(s)]
        BY <1>3, <1>4, <1>6, <1>9, <2>1, <3>2
      <4>2. i - Len(s) = j - Len(s)
        BY <1>4, <1>9, <2>1, <3>2, <4>1
      <4>3. QED
        BY <1>3, <4>2
    <3>3. QED
      BY <1>6, <3>1, <3>2
  <2>2. QED
    BY <1>5, <2>1
<1>10. QED
  BY <1>1, <1>7, <1>8, <1>9

(* The results a step adds *)

LEMMA SaidTogether ==
  ASSUME NEW X, NEW Y, NEW c
  PROVE  /\ \A check : Says(X \cup Y, check, c) <=> Says(X, check, c) \/ Says(Y, check, c)
         /\ \A check, n :
              Has(X \cup Y, check, c, n) <=> Has(X, check, c, n) \/ Has(Y, check, c, n)
         /\ \A d : Lacks(X \cup Y, c, d) <=> Lacks(X, c, d) \/ Lacks(Y, c, d)
         /\ Tested(X \cup Y, c) = Tested(X, c) \cup Tested(Y, c)
         /\ Stopped(X \cup Y, c) <=> Stopped(X, c) \/ Stopped(Y, c)
BY DEF Says, Has, Lacks, Tested, Stopped

LEMMA ResultFields ==
  ASSUME NEW check, NEW c, NEW n, NEW status, NEW x, x = Result(check, c, n, status)
  PROVE  x.check = check /\ x.cl = c /\ x.at = n /\ x.status = status
BY DEF Result

Single(Y, check, c, n, status) == Y = {Result(check, c, n, status)}

LEMMA OneResult ==
  ASSUME NEW check, NEW c, NEW n, NEW status, NEW Y, Single(Y, check, c, n, status)
  PROVE  /\ \A x \in Y : x.cl = c
         /\ \A k : Says(Y, k, c) <=> k = check
         /\ Stopped(Y, c) <=> check \in {"name", "discover"}
         /\ Tested(Y, c) = IF check = "daemon" THEN {n} ELSE {}
         /\ \A d : Lacks(Y, c, d) <=> check = "daemon" /\ d = n /\ status = "FAIL"
         /\ \A X : /\ Once(X, c)
                   /\ check = "daemon" => n \notin Tested(X, c)
                   => Once(X \cup Y, c)
<1>1. \A x : x \in Y <=> x = Result(check, c, n, status)
  BY DEF Single
<1>2. PICK y : /\ y = Result(check, c, n, status)
               /\ y.check = check /\ y.cl = c /\ y.at = n /\ y.status = status
  BY ResultFields
<1>3. /\ \A x \in Y : x.cl = c
      /\ \A k : Says(Y, k, c) <=> k = check
      /\ \A d : Lacks(Y, c, d) <=> check = "daemon" /\ d = n /\ status = "FAIL"
  BY <1>1, <1>2 DEF Says, Lacks
<1>4. Stopped(Y, c) <=> check \in {"name", "discover"}
  BY <1>3 DEF Stopped
<1>5. Tested(Y, c) = IF check = "daemon" THEN {n} ELSE {}
  BY <1>1, <1>2 DEF Tested
<1>6. ASSUME NEW X, Once(X, c), check = "daemon" => n \notin Tested(X, c)
      PROVE  Once(X \cup Y, c)
  BY <1>1, <1>2, <1>6 DEF Once, Tested
<1>7. QED
  BY <1>3, <1>4, <1>5, <1>6

LEMMA NoProxySays ==
  ASSUME NEW c, NEW names, NEW Y, Y = NoProxyResults(c, names)
  PROVE  /\ \A x \in Y : x.cl = c /\ Honest(x)
         /\ \A k : Says(Y, k, c) => k = "noproxy"
         /\ ~Stopped(Y, c)
         /\ Tested(Y, c) = {}
         /\ Peer(c) \in world.proxied => \A n \in names : Has(Y, "noproxy", c, n)
         /\ \A X : Once(X, c) => Once(X \cup Y, c)
<1>1. \A x \in Y : \E n \in names :
        /\ x = Result("noproxy", c, n, IF <<c, n>> \in world.covered THEN "PASS" ELSE "FAIL")
        /\ Peer(c) \in world.proxied
  BY DEF NoProxyResults
<1>2. \A x \in Y : /\ x.cl = c /\ x.check = "noproxy"
                   /\ x.status = "PASS" => <<x.cl, x.at>> \in world.covered
  <2>1. TAKE x \in Y
  <2>2. PICK n : n \in names /\ x = Result("noproxy", c, n,
                   IF <<c, n>> \in world.covered THEN "PASS" ELSE "FAIL")
    BY <1>1
  <2>3. /\ x.check = "noproxy" /\ x.cl = c /\ x.at = n
        /\ x.status = IF <<c, n>> \in world.covered THEN "PASS" ELSE "FAIL"
    BY <2>2, ResultFields
  <2>4. QED
    BY <2>3
<1>3. \A x \in Y : x.cl = c /\ Honest(x)
  BY <1>2 DEF Honest
<1>4. \A k : Says(Y, k, c) => k = "noproxy"
  BY <1>2 DEF Says
<1>5. ~Stopped(Y, c) /\ Tested(Y, c) = {}
  BY <1>2 DEF Stopped, Says, Tested
<1>6. Peer(c) \in world.proxied => \A n \in names : Has(Y, "noproxy", c, n)
  <2>1. ASSUME Peer(c) \in world.proxied, NEW n \in names  PROVE Has(Y, "noproxy", c, n)
    <3>1. PICK y : y = Result("noproxy", c, n,
                              IF <<c, n>> \in world.covered THEN "PASS" ELSE "FAIL")
      OBVIOUS
    <3>2. y \in Y
      BY <2>1, <3>1 DEF NoProxyResults
    <3>3. y.check = "noproxy" /\ y.cl = c /\ y.at = n
      BY <3>1, ResultFields
    <3>4. QED
      BY <3>2, <3>3 DEF Has
  <2>2. QED
    BY <2>1
<1>7. \A X : Once(X, c) => Once(X \cup Y, c)
  BY <1>2 DEF Once
<1>8. QED
  BY <1>3, <1>4, <1>5, <1>6, <1>7

LEMMA Silent ==
  ASSUME IInv, DataInv, NEW r \in Runs, NEW es \in Seq(STRING), NEW ks \in Seq(STRING),
         NEW gs \in SUBSET Cidrs, Changes(r, {}, es, ks, gs)
  PROVE  /\ DataInv' /\ Local(r)
         /\ results'[r] = results[r]
         /\ endpoints'[r] = es /\ resolved'[r] = ks /\ ranges'[r] = gs
<1>1. PICK xs : xs = {}
  OBVIOUS
<1>2. Changes(r, xs, es, ks, gs)
  BY <1>1
<1>3. \A x \in xs : x.cl = cl[r] /\ Honest(x)
  BY <1>1
<1>4. /\ DataInv' /\ Local(r)
      /\ results'[r] = results[r] \cup xs
      /\ endpoints'[r] = es /\ resolved'[r] = ks /\ ranges'[r] = gs
  BY <1>2, <1>3, Effect
<1>5. QED
  BY <1>1, <1>4

LEMMA Typed ==
  ASSUME IInv, DataInv, NEW r \in Runs
  PROVE  /\ cl[r] \in Bases
         /\ endpoints[r] \in Seq(STRING) /\ resolved[r] \in Seq(STRING)
         /\ ranges[r] \in SUBSET Cidrs /\ unread[r] \in SUBSET Bases
BY DEF IInv, DataInv

LEMMA AskedStays ==
  ASSUME NEW r \in Runs, NEW c \in Bases, world' = world,
         results[r] \subseteq results'[r], unread[r] \subseteq unread'[r], Asked(r, c)
  PROVE  Asked(r, c)'
<1>1. /\ \A n : Has(results[r], "noproxy", c, n) => Has(results'[r], "noproxy", c, n)
      /\ \A d : Lacks(results[r], c, d) => Lacks(results'[r], c, d)
  BY DEF Has, Lacks
<1>2. DaemonsOf(c)' = DaemonsOf(c) /\ (GlobalNet(c)' <=> GlobalNet(c))
  BY SameWorld
<1>3. QED
  BY <1>1, <1>2 DEF Asked

LEMMA FreshSays ==
  ASSUME NEW X, NEW c, Fresh(X, c)
  PROVE  /\ \A check : ~Says(X, check, c)
         /\ ~Stopped(X, c) /\ Tested(X, c) = {} /\ Once(X, c)
BY DEF Fresh, Says, Stopped, Tested, Once

(* One more result, of a step and not of a daemon *)
Adds(Z, X, check, c, n, status) == Z = X \cup {Result(check, c, n, status)}

LEMMA StepSays ==
  ASSUME NEW X, NEW c, NEW check, NEW n, NEW status, NEW Z,
         Adds(Z, X, check, c, n, status), check # "daemon"
  PROVE  /\ Tested(Z, c) = Tested(X, c)
         /\ Once(X, c) => Once(Z, c)
         /\ \A k : Says(Z, k, c) <=> Says(X, k, c) \/ k = check
         /\ Stopped(Z, c) <=> Stopped(X, c) \/ check \in {"name", "discover"}
<1>1. PICK Y : Single(Y, check, c, n, status)
  BY DEF Single
<1>2. /\ \A k : Says(Y, k, c) <=> k = check
      /\ Stopped(Y, c) <=> check \in {"name", "discover"}
      /\ Tested(Y, c) = {}
      /\ Once(X, c) => Once(X \cup Y, c)
  BY <1>1, OneResult
<1>3. /\ \A k : Says(X \cup Y, k, c) <=> Says(X, k, c) \/ Says(Y, k, c)
      /\ Tested(X \cup Y, c) = Tested(X, c) \cup Tested(Y, c)
      /\ Stopped(X \cup Y, c) <=> Stopped(X, c) \/ Stopped(Y, c)
  BY SaidTogether
<1>4. Z = X \cup Y
  BY <1>1 DEF Adds, Single
<1>5. QED
  BY <1>2, <1>3, <1>4

(* The results of CheckEndpointNoProxy *)
AddsNoProxy(Z, X, c, names) == Z = X \cup NoProxyResults(c, names)

LEMMA NoProxyAdds ==
  ASSUME NEW X, NEW c, NEW names, NEW Z, AddsNoProxy(Z, X, c, names)
  PROVE  /\ Tested(Z, c) = Tested(X, c)
         /\ Once(X, c) => Once(Z, c)
         /\ \A k : k # "noproxy" => (Says(Z, k, c) <=> Says(X, k, c))
         /\ Stopped(Z, c) <=> Stopped(X, c)
         /\ \A d : Lacks(X, c, d) => Lacks(Z, c, d)
         /\ Peer(c) \in world.proxied => \A n \in names : Has(Z, "noproxy", c, n)
<1>1. PICK Y : Y = NoProxyResults(c, names)
  OBVIOUS
<1>2. /\ \A k : Says(Y, k, c) => k = "noproxy"
      /\ ~Stopped(Y, c) /\ Tested(Y, c) = {}
      /\ Peer(c) \in world.proxied => \A n \in names : Has(Y, "noproxy", c, n)
      /\ Once(X, c) => Once(X \cup Y, c)
  BY <1>1, NoProxySays
<1>3. /\ \A k : Says(X \cup Y, k, c) <=> Says(X, k, c) \/ Says(Y, k, c)
      /\ \A k, n : Has(X \cup Y, k, c, n) <=> Has(X, k, c, n) \/ Has(Y, k, c, n)
      /\ \A d : Lacks(X \cup Y, c, d) <=> Lacks(X, c, d) \/ Lacks(Y, c, d)
      /\ Tested(X \cup Y, c) = Tested(X, c) \cup Tested(Y, c)
      /\ Stopped(X \cup Y, c) <=> Stopped(X, c) \/ Stopped(Y, c)
  BY SaidTogether
<1>4. Z = X \cup Y
  BY <1>1 DEF AddsNoProxy
<1>5. QED
  BY <1>2, <1>3, <1>4

LEMMA NoDaemons == <<>> \in Seq(STRING)
BY EmptySeq

(* A FAIL of a step is never held against the code that made it *)
LEMMA FailsAreHonest ==
  ASSUME NEW r \in Runs, NEW check \in {"hostNetwork", "name", "mcs", "discover", "pod"},
         NEW Y, Y = Fails(r, check)
  PROVE  /\ \A x \in Y : x.cl = cl[r] /\ Honest(x) /\ x.check = check
         /\ Single(Y, check, cl[r], "any", "FAIL")
<1>1. \A x \in Y : x.check = check /\ x.cl = cl[r] /\ x.status = "FAIL"
  BY ResultFields DEF Fails
<1>2. QED
  BY <1>1 DEF Fails, Honest, Single

-----------------------------------------------------------------------------
(* Every step keeps both invariants *)

LEMMA HostNetworkKeeps ==
  ASSUME IInv, DataInv, AccountInv, NEW r \in Runs, HostNetwork(r)
  PROVE  DataInv' /\ AccountInv'
<1>1. /\ Changes(r, {}, endpoints[r], resolved[r], ranges[r])
      /\ pc[r] = "hostNetwork"
  BY Identities, FreeStepStutters DEF HostNetwork, Changes, FreeStep, fixed, Answered
<1>2. DataInv' /\ Local(r) /\ results'[r] = results[r]
  BY <1>1, Typed, Silent
<1>3. \A c : Fresh(results'[r], c)
  BY <1>1, <1>2 DEF AccountInv, Account, Fresh
<1>4. \A c : IsSubject(c)' <=> IsSubject(c)
  BY <1>2, SameWorld DEF Local
<1>5. ASSUME NEW c \in Bases, StartSubject(r, c), c = "c2" => ~IsSubject("c1")
      PROVE  Account(r)'
  <2>1. pc'[r] = "name" /\ cl'[r] = c
    BY <1>5 DEF StartSubject, Goto, IInv
  <2>2. Stage(r, c)'
    BY <1>3, <2>1 DEF Stage
  <2>3. QED
    BY <1>3, <1>4, <1>5, <2>1, <2>2 DEF Account
<1>6. CASE cl[r] = "c1"
  <2>1. pc'[r] = "hostNetwork" /\ results'[r] = {}
    BY <1>1, <1>2, <1>6 DEF HostNetwork, AccountInv, Account
  <2>2. Account(r)'
    BY <2>1 DEF Account, Turn
  <2>3. QED
    BY <1>2, <2>2, OtherRuns
<1>7. CASE cl[r] # "c1"
  <2>1. \/ \E c \in Bases : StartSubject(r, c) /\ (c = "c2" => ~IsSubject("c1"))
        \/ Goto(r, "handed over")
        \/ Goto(r, "return") /\ ~IsSubject("c1") /\ ~IsSubject("c2")
    <3>1. \/ IsSubject("c1") /\ StartSubject(r, "c1")
          \/ ~IsSubject("c1") /\ IsSubject("c2") /\ StartSubject(r, "c2")
          \/ Goto(r, "handed over")
          \/ Goto(r, "return") /\ ~IsSubject("c1") /\ ~IsSubject("c2")
      BY <1>7 DEF HostNetwork
    <3>2. "c1" \in Bases /\ "c2" \in Bases /\ "c1" # "c2"
      BY DEF Bases
    <3>3. QED
      BY <3>1, <3>2
  <2>2. ASSUME Goto(r, "handed over")  PROVE Account(r)'
    BY <2>2 DEF Goto, Account, Turn, IInv
  <2>3. ASSUME Goto(r, "return"), ~IsSubject("c1"), ~IsSubject("c2")  PROVE Account(r)'
    BY <1>4, <2>3 DEF Goto, Account, Turn, IInv, Bases
  <2>4. Account(r)'
    BY <1>5, <2>1, <2>2, <2>3
  <2>5. QED
    BY <1>2, <2>4, OtherRuns
<1>8. QED
  BY <1>6, <1>7

LEMMA HostNetworkFailsKeeps ==
  ASSUME IInv, DataInv, AccountInv, NEW r \in Runs, HostNetworkFails(r)
  PROVE  DataInv' /\ AccountInv'
<1>1. PICK xs : xs = Fails(r, "hostNetwork")
  OBVIOUS
<1>2. /\ Changes(r, xs, endpoints[r], resolved[r], ranges[r])
      /\ pc[r] = "hostNetwork" /\ Goto(r, "return")
  BY <1>1, Identities, FreeStepStutters
  DEF HostNetworkFails, Changes, FreeStep, fixed, At, Report
<1>3. \A x \in xs : x.cl = cl[r] /\ Honest(x) /\ x.check = "hostNetwork"
  BY <1>1, FailsAreHonest
<1>4. DataInv' /\ Local(r) /\ results'[r] = results[r] \cup xs
  BY <1>2, <1>3, Typed, Effect
<1>5. results[r] = {}
  BY <1>2 DEF AccountInv, Account
<1>6. Refused(r)'
  BY <1>1, <1>3, <1>4, <1>5 DEF Refused, Fails
<1>7. Account(r)'
  BY <1>2, <1>6 DEF Goto, Account, Turn, IInv
<1>8. QED
  BY <1>4, <1>7, OtherRuns

LEMMA ManagedNameKeeps ==
  ASSUME IInv, DataInv, AccountInv, NEW r \in Runs, ManagedName(r)
  PROVE  DataInv' /\ AccountInv'
<1>1. PICK c \in Bases : c = cl[r]
  BY DEF IInv
<1>2. /\ pc[r] = "name" /\ Turns(r)
      /\ UNCHANGED <<world, cancelled, endpoints, resolved, ranges, unread>>
  BY FreeStepStutters DEF ManagedName, FreeStep, Answered, At, fixed
<1>3. Fresh(results[r], c)
  BY <1>1, <1>2 DEF AccountInv, Account, Turn, Stage
<1>4. ASSUME Self(r).named, cl' = cl, results' = results,
             Goto(r, IF Self(r).submariner = "globalnet" THEN "mcs" ELSE "serviceCIDR")
      PROVE  DataInv' /\ AccountInv'
  <2>1. Changes(r, {}, endpoints[r], resolved[r], ranges[r])
    BY <1>2, <1>4, Identities DEF Changes
  <2>2. DataInv' /\ Local(r) /\ results'[r] = results[r]
    BY <2>1, Typed, Silent
  <2>3. /\ pc'[r] = IF GlobalNet(c) THEN "mcs" ELSE "serviceCIDR"
        /\ cl'[r] = c /\ world.objects[c].named
    BY <1>1, <1>4 DEF Goto, IInv, Self, GlobalNet
  <2>4. Stage(r, c)'
    BY <1>2, <1>3, <2>2, <2>3 DEF Stage, GlobalNet
  <2>5. QED
    BY <1>1, <1>2, <2>2, <2>3, <2>4, StaysInTurn DEF Turn
<1>5. ASSUME Report(r, Fails(r, "name")), NextSubject(r)
      PROVE  DataInv' /\ AccountInv'
  <2>1. PICK xs : xs = Fails(r, "name")
    OBVIOUS
  <2>2. Changes(r, xs, endpoints[r], resolved[r], ranges[r])
    BY <1>2, <1>5, <2>1, Identities DEF Changes, Report
  <2>3. /\ \A x \in xs : x.cl = cl[r] /\ Honest(x)
        /\ Single(xs, "name", c, "any", "FAIL")
    BY <1>1, <2>1, FailsAreHonest
  <2>4. DataInv' /\ Local(r) /\ results'[r] = results[r] \cup xs
    BY <2>2, <2>3, Typed, Effect
  <2>5. PICK X, Z : X = results[r] /\ Z = results'[r]
    OBVIOUS
  <2>6. Stopped(Z, c) /\ Tested(Z, c) = Tested(X, c) /\ (Once(X, c) => Once(Z, c))
    <3>1. Adds(Z, X, "name", c, "any", "FAIL")
      BY <2>3, <2>4, <2>5 DEF Single, Adds
    <3>2. QED
      BY <3>1, StepSays
  <2>7. Once(X, c) /\ Tested(X, c) = {}
    BY <1>3, <2>5, FreshSays
  <2>8. Done(r, c)'
    BY <2>5, <2>6, <2>7 DEF Done
  <2>9. QED
    BY <1>1, <1>2, <1>5, <2>4, <2>8, TurnEnds DEF Turn
<1>6. QED
  BY <1>4, <1>5 DEF ManagedName

LEMMA MultiClusterServiceKeeps ==
  ASSUME IInv, DataInv, AccountInv, NEW r \in Runs, MultiClusterService(r)
  PROVE  DataInv' /\ AccountInv'
<1>1. PICK c \in Bases : c = cl[r]
  BY DEF IInv
<1>2. /\ pc[r] = "mcs" /\ Turns(r) /\ Goto(r, "mons") /\ cl' = cl
      /\ UNCHANGED <<world, cancelled, endpoints, resolved, ranges, unread>>
  BY FreeStepStutters DEF MultiClusterService, FreeStep, Answered, At, fixed
<1>3. Fresh(results[r], c) /\ world.objects[c].named /\ GlobalNet(c)
  BY <1>1, <1>2 DEF AccountInv, Account, Turn, Stage
<1>4. PICK status : /\ status = "PASS" => world.objects[c].mcs = "matches"
                    /\ Report(r, {Result("mcs", c, "any", status)})
  <2>1. CASE Report(r, {Result("mcs", cl[r], "any",
                          IF Self(r).mcs = "matches" THEN "PASS" ELSE "WARN")})
    BY <1>1, <2>1 DEF Self
  <2>2. CASE Report(r, Fails(r, "mcs"))
    BY <1>1, <2>2 DEF Fails
  <2>3. QED
    BY <2>1, <2>2 DEF MultiClusterService
<1>5. PICK xs : xs = {Result("mcs", c, "any", status)}
  OBVIOUS
<1>6. Changes(r, xs, endpoints[r], resolved[r], ranges[r])
  BY <1>2, <1>4, <1>5, Identities DEF Changes, Report
<1>7. \A x \in xs : x.cl = cl[r] /\ Honest(x)
  <2>1. \A x \in xs : x.check = "mcs" /\ x.cl = c /\ x.status = status
    BY <1>5, ResultFields
  <2>2. QED
    BY <1>1, <1>4, <2>1 DEF Honest
<1>8. DataInv' /\ Local(r) /\ results'[r] = results[r] \cup xs
  BY <1>6, <1>7, Typed, Effect
<1>9. PICK X, Z : X = results[r] /\ Z = results'[r]
  OBVIOUS
<1>10. /\ Tested(Z, c) = Tested(X, c)
       /\ \A k : Says(Z, k, c) <=> Says(X, k, c) \/ k = "mcs"
       /\ Stopped(Z, c) <=> Stopped(X, c)
  <2>1. Adds(Z, X, "mcs", c, "any", status)
    BY <1>5, <1>8, <1>9 DEF Adds
  <2>2. QED
    BY <2>1, StepSays
<1>11. Tested(X, c) = {} /\ ~Stopped(X, c) /\ ~Says(X, "pod", c)
  BY <1>3, <1>9, FreshSays
<1>12. pc'[r] = "mons" /\ cl'[r] = c
  BY <1>1, <1>2 DEF Goto, IInv
<1>13. GlobalNet(c)' <=> GlobalNet(c)
  BY <1>2, SameWorld
<1>14. Early(r, c)'
  BY <1>2, <1>3, <1>9, <1>10, <1>11, <1>13 DEF Early
<1>15. Stage(r, c)'
  BY <1>12, <1>14 DEF Stage
<1>16. QED
  BY <1>1, <1>2, <1>8, <1>12, <1>15, StaysInTurn DEF Turn

LEMMA GatherCephCIDRsKeeps ==
  ASSUME IInv, DataInv, AccountInv, NEW r \in Runs,
         NEW range \in {"serviceCIDR", "clusterCIDR"}, GatherCephCIDRs(r, range)
  PROVE  DataInv' /\ AccountInv'
<1>1. PICK c \in Bases : c = cl[r]
  BY DEF IInv
<1>2. /\ pc[r] = range /\ Turns(r) /\ cl' = cl
      /\ UNCHANGED <<world, cancelled, endpoints, resolved>>
  BY FreeStepStutters DEF GatherCephCIDRs, FreeStep, Answered, At, fixed
<1>3. /\ Fresh(results[r], c) /\ world.objects[c].named /\ ~GlobalNet(c)
      /\ pc[r] = "clusterCIDR" => c \in unread[r] \/ "serviceCIDR" \in ranges[r]
  BY <1>1, <1>2 DEF AccountInv, Account, Turn, Stage
<1>4. PICK got \in {{}, {range}} :
        /\ \/ got # {} /\ UNCHANGED unread
           \/ got = {} /\ unread' = [unread EXCEPT ![r] = @ \cup {c}]
        /\ \/ /\ range = "serviceCIDR"
              /\ ranges' = [ranges EXCEPT ![r] = got]
              /\ Goto(r, "clusterCIDR")
              /\ UNCHANGED results
           \/ /\ range = "clusterCIDR"
              /\ ranges' = [ranges EXCEPT ![r] = {}]
              /\ Report(r, NoProxyResults(c, ranges[r] \cup got))
              /\ Goto(r, "mons")
  BY <1>1 DEF GatherCephCIDRs
<1>5. /\ unread' \in {unread, [unread EXCEPT ![r] = @ \cup {cl[r]}]}
      /\ got \in SUBSET Cidrs
      /\ c \in unread'[r] \/ range \in got
  BY <1>1, <1>4 DEF DataInv, Cidrs
<1>6. world' = world /\ (GlobalNet(c)' <=> GlobalNet(c)) /\ cl'[r] = c
  BY <1>1, <1>2, SameWorld DEF IInv
<1>7. CASE range = "serviceCIDR"
  <2>1. Changes(r, {}, endpoints[r], resolved[r], got)
    BY <1>2, <1>4, <1>5, <1>7, Identities DEF Changes
  <2>2. DataInv' /\ Local(r) /\ results'[r] = results[r] /\ ranges'[r] = got
    BY <1>5, <2>1, Typed, Silent
  <2>3. pc'[r] = "clusterCIDR"
    BY <1>4, <1>7 DEF Goto, IInv
  <2>4. Stage(r, c)'
    BY <1>3, <1>5, <1>6, <1>7, <2>2, <2>3 DEF Stage
  <2>5. QED
    BY <1>1, <1>2, <1>6, <1>7, <2>2, <2>3, <2>4, StaysInTurn DEF Turn
<1>8. CASE range = "clusterCIDR"
  <2>1. PICK names : names = ranges[r] \cup got
    OBVIOUS
  <2>2. PICK xs : xs = NoProxyResults(c, names)
    OBVIOUS
  <2>3. PICK none \in SUBSET Cidrs : none = {}
    OBVIOUS
  <2>4. Changes(r, xs, endpoints[r], resolved[r], none)
    BY <1>2, <1>4, <1>5, <1>8, <2>1, <2>2, <2>3, Identities DEF Changes, Report
  <2>5. \A x \in xs : x.cl = c /\ Honest(x)
    BY <2>2, NoProxySays
  <2>6. DataInv' /\ Local(r) /\ results'[r] = results[r] \cup xs
    BY <1>1, <2>4, <2>5, Typed, Effect
  <2>7. PICK X, Z : X = results[r] /\ Z = results'[r] /\ AddsNoProxy(Z, X, c, names)
    BY <2>2, <2>6 DEF AddsNoProxy
  <2>8. Tested(X, c) = {} /\ ~Stopped(X, c) /\ ~Says(X, "pod", c)
    BY <1>3, <2>7, FreshSays
  <2>9. /\ Tested(Z, c) = Tested(X, c)
        /\ \A k : k # "noproxy" => (Says(Z, k, c) <=> Says(X, k, c))
        /\ Stopped(Z, c) <=> Stopped(X, c)
        /\ Peer(c) \in world.proxied => \A n \in names : Has(Z, "noproxy", c, n)
    BY <2>7, NoProxyAdds
  <2>10. Asked(r, c)'
    <3>1. c \in unread'[r] \/ names = {"serviceCIDR", "clusterCIDR"}
      BY <1>2, <1>3, <1>4, <1>5, <1>8, <2>1 DEF DataInv, Cidrs
    <3>2. Z = results'[r]
      BY <2>7
    <3>3. QED
      BY <1>3, <1>6, <2>9, <3>1, <3>2 DEF Asked
  <2>11. Early(r, c)'
    BY <1>3, <1>6, <2>7, <2>8, <2>9, <2>10 DEF Early
  <2>12. pc'[r] = "mons"
    BY <1>4, <1>8 DEF Goto, IInv
  <2>13. Stage(r, c)'
    BY <2>11, <2>12 DEF Stage
  <2>14. QED
    BY <1>1, <1>2, <1>6, <1>8, <2>6, <2>12, <2>13, StaysInTurn DEF Turn
<1>9. QED
  BY <1>7, <1>8

LEMMA DiscoverMonsKeeps ==
  ASSUME IInv, DataInv, AccountInv, NEW r \in Runs, DiscoverMons(r)
  PROVE  DataInv' /\ AccountInv'
<1>1. PICK c \in Bases : c = cl[r]
  BY DEF IInv
<1>2. /\ pc[r] = "mons" /\ Turns(r) /\ cl' = cl /\ Goto(r, "osds")
      /\ UNCHANGED <<world, cancelled, ranges, unread, results>>
  BY FreeStepStutters DEF DiscoverMons, FreeStep, Answered, fixed
<1>3. Early(r, c)
  BY <1>1, <1>2 DEF AccountInv, Account, Turn, Stage
<1>4. PICK es \in Seq(STRING) : es = Parsed(c, world.objects[c].mons)
  <2>1. world.objects[c].mons \in Seq(STRING)
    BY WorldsAssumption DEF DataInv, Objects
  <2>2. QED
    BY <2>1, ParsedKeeps
<1>5. PICK ks \in Seq(STRING) : ks = <<>>
  BY NoDaemons
<1>6. Changes(r, {}, es, ks, ranges[r])
  BY <1>1, <1>2, <1>4, <1>5, Identities DEF Changes, DiscoverMons, Self
<1>7. /\ DataInv' /\ Local(r) /\ results'[r] = results[r]
      /\ endpoints'[r] = es /\ resolved'[r] = ks
  BY <1>6, Typed, Silent
<1>8. /\ pc'[r] = "osds" /\ cl'[r] = c /\ world' = world
      /\ GlobalNet(c)' <=> GlobalNet(c)
      /\ \A s : Parsed(c, s)' = Parsed(c, s)
  BY <1>1, <1>2, SameWorld DEF Goto, IInv
<1>9. Early(r, c)'
  <2>1. Asked(r, c) => Asked(r, c)'
    BY <1>7, <1>8, AskedStays DEF Local
  <2>2. QED
    BY <1>3, <1>7, <1>8, <2>1 DEF Early
<1>10. endpoints'[r] = Parsed(c, world.objects[c].mons)'
  BY <1>2, <1>4, <1>7 DEF Parsed
<1>11. Stage(r, c)'
  BY <1>5, <1>7, <1>8, <1>9, <1>10 DEF Stage
<1>12. QED
  BY <1>1, <1>2, <1>7, <1>8, <1>11, StaysInTurn DEF Turn

LEMMA DiscoverFailsKeeps ==
  ASSUME IInv, DataInv, AccountInv, NEW r \in Runs, DiscoverFails(r)
  PROVE  DataInv' /\ AccountInv'
<1>1. PICK c \in Bases : c = cl[r]
  BY DEF IInv
<1>2. /\ pc[r] \in {"mons", "osds"} /\ Turns(r) /\ NextSubject(r)
      /\ UNCHANGED <<world, cancelled, resolved, ranges, unread>>
  BY FreeStepStutters DEF DiscoverFails, FreeStep, At, fixed
<1>3. Early(r, c)
  BY <1>1, <1>2 DEF AccountInv, Account, Turn, Stage
<1>4. PICK xs : xs = Fails(r, "discover")
  OBVIOUS
<1>5. PICK es \in Seq(STRING) : es = <<>>
  BY NoDaemons
<1>6. Changes(r, xs, es, resolved[r], ranges[r])
  BY <1>2, <1>4, <1>5, Identities DEF Changes, DiscoverFails, Report
<1>7. /\ \A x \in xs : x.cl = cl[r] /\ Honest(x)
      /\ Single(xs, "discover", c, "any", "FAIL")
  BY <1>1, <1>4, FailsAreHonest
<1>8. DataInv' /\ Local(r) /\ results'[r] = results[r] \cup xs
  BY <1>6, <1>7, Typed, Effect
<1>9. PICK X, Z : X = results[r] /\ Z = results'[r]
  OBVIOUS
<1>10. /\ Tested(Z, c) = Tested(X, c)
       /\ Once(X, c) => Once(Z, c)
       /\ Stopped(Z, c)
  <2>1. Adds(Z, X, "discover", c, "any", "FAIL")
    BY <1>7, <1>8, <1>9 DEF Single, Adds
  <2>2. QED
    BY <2>1, StepSays
<1>11. Tested(X, c) = {} /\ Once(X, c)
  BY <1>3, <1>9 DEF Early, Once, Tested
<1>12. Done(r, c)'
  BY <1>9, <1>10, <1>11 DEF Done
<1>13. QED
  BY <1>1, <1>2, <1>8, <1>12, TurnEnds DEF Turn

LEMMA AllDaemons ==
  ASSUME DataInv, NEW c \in Bases, NEW all,
         all = Parsed(c, world.objects[c].mons) \o Parsed(c, world.objects[c].osds)
  PROVE  all \in Seq(STRING) /\ IsInjective(all) /\ ToSet(all) = DaemonsOf(c)
<1>1. PICK m \in Seq(STRING), o \in Seq(STRING) :
        m = world.objects[c].mons /\ o = world.objects[c].osds
  BY WorldsAssumption DEF DataInv, Objects
<1>2. IsInjective(m \o o)
  BY <1>1, DaemonsAssumption DEF DataInv
<1>3. IsInjective(m) /\ IsInjective(o) /\ ToSet(m) \cap ToSet(o) = {}
  BY <1>2, ConcatKeeps
<1>4. PICK p, q : p = Parsed(c, m) /\ q = Parsed(c, o)
  OBVIOUS
<1>5. /\ p \in Seq(STRING) /\ q \in Seq(STRING)
      /\ ToSet(p) = {d \in ToSet(m) : <<c, d>> \in world.parsed}
      /\ ToSet(q) = {d \in ToSet(o) : <<c, d>> \in world.parsed}
      /\ IsInjective(p) /\ IsInjective(q)
  BY <1>3, <1>4, ParsedKeeps
<1>6. ToSet(p) \cap ToSet(q) = {}
  BY <1>3, <1>5
<1>7. /\ p \o q \in Seq(STRING) /\ IsInjective(p \o q)
      /\ ToSet(p \o q) = ToSet(p) \cup ToSet(q)
  BY <1>5, <1>6, ConcatKeeps
<1>8. ToSet(p) \cup ToSet(q) = DaemonsOf(c)
  BY <1>1, <1>5 DEF DaemonsOf
<1>9. all = p \o q
  BY <1>1, <1>4
<1>10. QED
  BY <1>7, <1>8, <1>9

LEMMA DiscoverOSDsKeeps ==
  ASSUME IInv, DataInv, AccountInv, NEW r \in Runs, DiscoverOSDs(r)
  PROVE  DataInv' /\ AccountInv'
<1>1. PICK c \in Bases : c = cl[r]
  BY DEF IInv
<1>2. /\ pc[r] = "osds" /\ Turns(r) /\ cl' = cl
      /\ UNCHANGED <<world, cancelled, resolved, ranges, unread, results>>
  BY FreeStepStutters DEF DiscoverOSDs, FreeStep, Answered, fixed
<1>3. /\ Early(r, c) /\ resolved[r] = <<>>
      /\ endpoints[r] = Parsed(c, world.objects[c].mons)
  BY <1>1, <1>2 DEF AccountInv, Account, Turn, Stage
<1>4. PICK all : /\ all = endpoints[r] \o Parsed(c, world.objects[c].osds) /\ all # <<>>
                 /\ endpoints' = [endpoints EXCEPT ![r] = all]
  BY <1>1 DEF DiscoverOSDs, Self
<1>5. all \in Seq(STRING) /\ IsInjective(all) /\ ToSet(all) = DaemonsOf(c)
  BY <1>3, <1>4, AllDaemons
<1>6. Changes(r, {}, all, resolved[r], ranges[r])
  BY <1>2, <1>4, Identities DEF Changes
<1>7. /\ DataInv' /\ Local(r) /\ results'[r] = results[r]
      /\ endpoints'[r] = all /\ resolved'[r] = <<>>
  BY <1>3, <1>5, <1>6, Typed, Silent
<1>8. /\ pc'[r] = IF GlobalNet(c) THEN "service" ELSE "deploy"
      /\ cl'[r] = c
  BY <1>1, <1>2 DEF DiscoverOSDs, Goto, IInv, Self, GlobalNet
<1>9. world' = world /\ (GlobalNet(c)' <=> GlobalNet(c)) /\ DaemonsOf(c)' = DaemonsOf(c)
  BY <1>2, SameWorld
<1>10. PICK X : X = results[r] /\ X = results'[r]
  BY <1>7
<1>11. /\ ~Stopped(X, c) /\ ~Says(X, "pod", c) /\ Tested(X, c) = {}
       /\ world.objects[c].named
       /\ IF GlobalNet(c) THEN Says(X, "mcs", c) ELSE Asked(r, c)
  BY <1>3, <1>10 DEF Early
<1>12. Once(X, c)
  BY <1>11 DEF Once, Tested
<1>13. GlobalNet(c) => Looking(r, c)'
  <2>1. ToSet(<<>>) = {} /\ IsInjective(<<>>)
    BY DEF ToSet, IsInjective
  <2>2. QED
    BY <1>4, <1>5, <1>7, <1>9, <1>10, <1>11, <1>12, <2>1 DEF Looking
<1>14. ~GlobalNet(c) => Probing(r, c)'
  <2>1. Asked(r, c) => Asked(r, c)'
    BY <1>7, AskedStays DEF Local
  <2>2. QED
    BY <1>4, <1>5, <1>7, <1>9, <1>10, <1>11, <1>12, <2>1 DEF Probing
<1>15. Stage(r, c)'
  BY <1>8, <1>13, <1>14 DEF Stage
<1>16. QED
  BY <1>1, <1>2, <1>7, <1>8, <1>15, StaysInTurn DEF Turn

(* One more result of a daemon *)
LEMMA DaemonSays ==
  ASSUME NEW X, NEW c, NEW n, NEW status, NEW Z, Adds(Z, X, "daemon", c, n, status)
  PROVE  /\ Tested(Z, c) = Tested(X, c) \cup {n}
         /\ Once(X, c) /\ n \notin Tested(X, c) => Once(Z, c)
         /\ \A k : k # "daemon" => (Says(Z, k, c) <=> Says(X, k, c))
         /\ Stopped(Z, c) <=> Stopped(X, c)
         /\ \A d : Lacks(Z, c, d) <=> Lacks(X, c, d) \/ (d = n /\ status = "FAIL")
<1>1. PICK Y : Single(Y, "daemon", c, n, status)
  BY DEF Single
<1>2. /\ \A k : Says(Y, k, c) <=> k = "daemon"
      /\ ~Stopped(Y, c)
      /\ Tested(Y, c) = {n}
      /\ \A d : Lacks(Y, c, d) <=> d = n /\ status = "FAIL"
      /\ Once(X, c) /\ n \notin Tested(X, c) => Once(X \cup Y, c)
  BY <1>1, OneResult
<1>3. /\ \A k : Says(X \cup Y, k, c) <=> Says(X, k, c) \/ Says(Y, k, c)
      /\ \A d : Lacks(X \cup Y, c, d) <=> Lacks(X, c, d) \/ Lacks(Y, c, d)
      /\ Tested(X \cup Y, c) = Tested(X, c) \cup Tested(Y, c)
      /\ Stopped(X \cup Y, c) <=> Stopped(X, c) \/ Stopped(Y, c)
  BY SaidTogether
<1>4. Z = X \cup Y
  BY <1>1 DEF Adds, Single
<1>5. QED
  BY <1>2, <1>3, <1>4

(* What the lookups have made of the daemons: E is to come, known was found *)
Sorted(W, c, E, known) ==
  /\ ~Stopped(W, c) /\ ~Says(W, "pod", c) /\ Once(W, c) /\ Says(W, "mcs", c)
  /\ IsInjective(known)
  /\ E \cap ToSet(known) = {} /\ (E \cup ToSet(known)) \cap Tested(W, c) = {}
  /\ E \cup ToSet(known) \cup Tested(W, c) = DaemonsOf(c)
  /\ {c} \X ToSet(known) \subseteq world.exported
  /\ \A d \in Tested(W, c) : Lacks(W, c, d)

(* A lookup: what is known after it, and the FAIL if there is no service *)
Lookup(r, c, known, failed) ==
  /\ GlobalNet(c) /\ world.objects[c].named /\ DaemonsOf(c) # {}
  /\ endpoints[r] # <<>> /\ IsInjective(endpoints[r])
  /\ \A x \in failed : x.cl = c /\ Honest(x)
  /\ Sorted(results[r] \cup failed, c, ToSet(Tail(endpoints[r])), known)

LEMMA NextDaemonKeeps ==
  ASSUME IInv, DataInv, AccountInv, NEW r \in Runs, pc[r] = "service", Turns(r),
         UNCHANGED <<world, cancelled, ranges, unread>>,
         NEW c \in Bases, c = cl[r], NEW known \in Seq(STRING), NEW failed,
         NextDaemon(r, known, failed), Lookup(r, c, known, failed)
  PROVE  DataInv' /\ AccountInv'
<1>1. PICK tail \in Seq(STRING) : tail = Tail(endpoints[r])
  BY Typed, HeadTailProperties DEF Lookup
<1>2. /\ IsInjective(tail) /\ Len(endpoints[r]) \in Nat
      /\ Len(endpoints[r]) > 1 \/ Len(endpoints[r]) = 1
      /\ Len(endpoints[r]) = 1 => tail = <<>>
      /\ Len(endpoints[r]) > 1 => tail # <<>>
  BY <1>1, Typed, HeadTailKeeps DEF Lookup
<1>3. PICK W : /\ W = results[r] \cup failed
               /\ Sorted(W, c, ToSet(tail), known)
  BY <1>1 DEF Lookup
<1>4. /\ GlobalNet(c) /\ world.objects[c].named /\ DaemonsOf(c) # {}
      /\ \A x \in failed : x.cl = cl[r] /\ Honest(x)
  BY DEF Lookup
<1>5. /\ world' = world /\ DaemonsOf(c)' = DaemonsOf(c)
      /\ GlobalNet(c)' <=> GlobalNet(c)
      /\ unread'[r] = unread[r]
  BY SameWorld
<1>6. CASE Len(endpoints[r]) > 1
  <2>1. Changes(r, failed, tail, known, ranges[r]) /\ UNCHANGED <<pc, cl>>
    <3>1. /\ results' = [results EXCEPT ![r] = @ \cup failed]
          /\ endpoints' = [endpoints EXCEPT ![r] = tail]
          /\ resolved' = [resolved EXCEPT ![r] = known]
          /\ UNCHANGED <<pc, cl>>
      BY <1>1, <1>6 DEF NextDaemon, Report
    <3>2. QED
      BY <3>1, Identities DEF Changes
  <2>2. /\ DataInv' /\ Local(r) /\ results'[r] = results[r] \cup failed
        /\ endpoints'[r] = tail /\ resolved'[r] = known
    BY <1>4, <2>1, Typed, Effect
  <2>3. tail # <<>>
    BY <1>2, <1>6
  <2>4. Looking(r, c)'
    <3>1. results'[r] = W
      BY <1>3, <2>2
    <3>2. /\ ~Stopped(W, c) /\ ~Says(W, "pod", c) /\ Once(W, c) /\ Says(W, "mcs", c)
          /\ IsInjective(known)
          /\ ToSet(tail) \cap ToSet(known) = {}
          /\ (ToSet(tail) \cup ToSet(known)) \cap Tested(W, c) = {}
          /\ ToSet(tail) \cup ToSet(known) \cup Tested(W, c) = DaemonsOf(c)
          /\ {c} \X ToSet(known) \subseteq world.exported
          /\ \A d \in Tested(W, c) : Lacks(W, c, d)
      BY <1>3 DEF Sorted
    <3>3. QED
      BY <1>2, <1>4, <1>5, <2>2, <2>3, <3>1, <3>2 DEF Looking
  <2>5. Stage(r, c)'
    BY <2>1, <2>4 DEF Stage
  <2>6. QED
    BY <2>1, <2>2, <2>5, StaysInTurn DEF Turn
<1>7. CASE Len(endpoints[r]) = 1
  <2>1. ToSet(tail) = {}
    BY <1>2, <1>7 DEF ToSet
  <2>2. PICK K : K = ToSet(known)
    OBVIOUS
  <2>3. PICK np : np = NoProxyResults(c, K)
    OBVIOUS
  <2>4. PICK xs : xs = failed \cup np
    OBVIOUS
  <2>5. /\ Changes(r, xs, known, known, ranges[r])
        /\ IF known = <<>> THEN NextSubject(r) ELSE Goto(r, "deploy") /\ UNCHANGED cl
    BY <1>7, <2>2, <2>3, <2>4, Identities DEF NextDaemon, Changes, Report
  <2>6. \A x \in xs : x.cl = cl[r] /\ Honest(x)
    BY <1>4, <2>3, <2>4, NoProxySays
  <2>7. /\ DataInv' /\ Local(r) /\ results'[r] = results[r] \cup xs
        /\ endpoints'[r] = known
    BY <2>5, <2>6, Typed, Effect
  <2>8. PICK Z : Z = results'[r] /\ AddsNoProxy(Z, W, c, K)
    BY <1>3, <2>3, <2>4, <2>7 DEF AddsNoProxy
  <2>9. /\ Tested(Z, c) = Tested(W, c)
        /\ Once(W, c) => Once(Z, c)
        /\ \A k : k # "noproxy" => (Says(Z, k, c) <=> Says(W, k, c))
        /\ Stopped(Z, c) <=> Stopped(W, c)
        /\ \A d : Lacks(W, c, d) => Lacks(Z, c, d)
        /\ Peer(c) \in world.proxied => \A n \in K : Has(Z, "noproxy", c, n)
    <3>1. AddsNoProxy(Z, W, c, K)
      BY <2>8
    <3>2. Tested(Z, c) = Tested(W, c) /\ (Once(W, c) => Once(Z, c))
      BY <3>1, NoProxyAdds
    <3>3. /\ \A k : k # "noproxy" => (Says(Z, k, c) <=> Says(W, k, c))
          /\ Stopped(Z, c) <=> Stopped(W, c)
      BY <3>1, NoProxyAdds
    <3>4. /\ \A d : Lacks(W, c, d) => Lacks(Z, c, d)
          /\ Peer(c) \in world.proxied => \A n \in K : Has(Z, "noproxy", c, n)
      BY <3>1, NoProxyAdds
    <3>5. QED
      BY <3>2, <3>3, <3>4
  <2>10. /\ ~Stopped(Z, c) /\ ~Says(Z, "pod", c) /\ Once(Z, c) /\ Says(Z, "mcs", c)
         /\ IsInjective(known)
         /\ K \cap Tested(Z, c) = {} /\ K \cup Tested(Z, c) = DaemonsOf(c)
         /\ {c} \X K \subseteq world.exported
         /\ \A d \in Tested(Z, c) : Lacks(Z, c, d)
    BY <1>3, <2>1, <2>2, <2>9 DEF Sorted
  <2>11. Asked(r, c)'
    <3>1. Peer(c) \in world.proxied =>
            \A d \in DaemonsOf(c) : Has(Z, "noproxy", c, d) \/ Lacks(Z, c, d)
      BY <2>9, <2>10
    <3>2. QED
      BY <1>5, <1>4, <2>8, <3>1 DEF Asked
  <2>12. CASE known = <<>>
    <3>1. K = {}
      BY <2>2, <2>12 DEF ToSet
    <3>2. Done(r, c)'
      BY <1>5, <1>4, <2>8, <2>10, <2>11, <3>1 DEF Done
    <3>3. QED
      BY <2>5, <2>7, <2>12, <3>2, TurnEnds DEF Turn
  <2>13. CASE known # <<>>
    <3>1. pc'[r] = "deploy" /\ cl'[r] = c
      BY <2>5, <2>13 DEF Goto, IInv
    <3>2. Probing(r, c)'
      BY <1>5, <1>4, <2>2, <2>7, <2>8, <2>10, <2>11, <2>13 DEF Probing
    <3>3. Stage(r, c)'
      BY <3>1, <3>2 DEF Stage
    <3>4. QED
      BY <2>7, <3>1, <3>3, StaysInTurn DEF Turn
  <2>14. QED
    BY <2>12, <2>13
<1>8. QED
  BY <1>2, <1>6, <1>7

LEMMA SubmarinerServiceKeeps ==
  ASSUME IInv, DataInv, AccountInv, NEW r \in Runs, SubmarinerService(r)
  PROVE  DataInv' /\ AccountInv'
<1>1. PICK c \in Bases : c = cl[r]
  BY DEF IInv
<1>2. /\ pc[r] = "service" /\ Turns(r)
      /\ UNCHANGED <<world, cancelled, ranges, unread>>
  BY FreeStepStutters DEF SubmarinerService, FreeStep, Answered, At, fixed
<1>3. PICK X, K : /\ X = results[r] /\ K = ToSet(resolved[r])
  OBVIOUS
<1>4. /\ ~Stopped(X, c) /\ ~Says(X, "pod", c) /\ Once(X, c) /\ Says(X, "mcs", c)
      /\ world.objects[c].named /\ GlobalNet(c)
      /\ IsInjective(endpoints[r]) /\ endpoints[r] # <<>> /\ IsInjective(resolved[r])
      /\ {c} \X K \subseteq world.exported
      /\ \A e \in Tested(X, c) : Lacks(X, c, e)
  BY <1>1, <1>2, <1>3 DEF AccountInv, Account, Turn, Stage, Looking
<1>5. PICK d, E : /\ d = Head(endpoints[r]) /\ E = ToSet(Tail(endpoints[r]))
                  /\ ToSet(endpoints[r]) = {d} \cup E /\ d \notin E /\ d \in STRING
  BY <1>4, Typed, HeadTailKeeps
<1>6. /\ d \notin K /\ d \notin Tested(X, c) /\ E \cap K = {}
      /\ (E \cup K) \cap Tested(X, c) = {}
      /\ {d} \cup E \cup K \cup Tested(X, c) = DaemonsOf(c)
  <2>1. LET T == ToSet(endpoints[r]) IN
        /\ T \cap K = {} /\ (T \cup K) \cap Tested(X, c) = {}
        /\ T \cup K \cup Tested(X, c) = DaemonsOf(c)
    BY <1>1, <1>2, <1>3 DEF AccountInv, Account, Turn, Stage, Looking
  <2>2. QED
    BY <1>5, <2>1
<1>7. DaemonsOf(c) # {}
  BY <1>6
<1>8. ASSUME <<c, d>> \in world.exported, NextDaemon(r, Append(resolved[r], d), {})
      PROVE  DataInv' /\ AccountInv'
  <2>1. PICK s \in Seq(STRING) : s = resolved[r]
    BY Typed
  <2>2. PICK known \in Seq(STRING) : /\ known = Append(resolved[r], d)
                                     /\ ToSet(known) = K \cup {d} /\ IsInjective(known)
    <3>1. /\ Append(s, d) \in Seq(STRING) /\ ToSet(Append(s, d)) = ToSet(s) \cup {d}
          /\ IsInjective(s) /\ d \notin ToSet(s) => IsInjective(Append(s, d))
      BY <1>5, AppendKeeps
    <3>2. QED
      BY <1>3, <1>4, <1>6, <2>1, <3>1
  <2>3. PICK failed : failed = {}
    OBVIOUS
  <2>4. Sorted(X, c, E, known)
    <3>1. E \cap (K \cup {d}) = {} /\ (E \cup K \cup {d}) \cap Tested(X, c) = {}
      BY <1>5, <1>6
    <3>2. E \cup K \cup {d} \cup Tested(X, c) = DaemonsOf(c)
      BY <1>6
    <3>3. {c} \X (K \cup {d}) \subseteq world.exported
      BY <1>4, <1>8
    <3>4. E \cap ToSet(known) = {} /\ (E \cup ToSet(known)) \cap Tested(X, c) = {}
      BY <2>2, <3>1
    <3>5. E \cup ToSet(known) \cup Tested(X, c) = DaemonsOf(c)
      BY <2>2, <3>2
    <3>6. {c} \X ToSet(known) \subseteq world.exported
      BY <2>2, <3>3
    <3>7. QED
      BY <1>4, <2>2, <3>4, <3>5, <3>6 DEF Sorted
  <2>5. results[r] \cup failed = X
    BY <1>3, <2>3
  <2>6. Lookup(r, c, known, failed)
    BY <1>4, <1>5, <1>7, <2>3, <2>4, <2>5 DEF Lookup
  <2>7. NextDaemon(r, known, failed)
    BY <1>8, <2>2, <2>3
  <2>8. QED
    BY <1>1, <1>2, <2>6, <2>7, NextDaemonKeeps
<1>9. ASSUME NextDaemon(r, resolved[r], {Result("daemon", cl[r], d, "FAIL")})
      PROVE  DataInv' /\ AccountInv'
  <2>1. PICK known \in Seq(STRING) : known = resolved[r]
    BY Typed
  <2>2. PICK failed : failed = {Result("daemon", c, d, "FAIL")}
    OBVIOUS
  <2>3. PICK W : W = results[r] \cup failed
    OBVIOUS
  <2>4. Adds(W, X, "daemon", c, d, "FAIL")
    BY <1>3, <2>2, <2>3 DEF Adds
  <2>5. /\ Tested(W, c) = Tested(X, c) \cup {d}
        /\ Once(X, c) /\ d \notin Tested(X, c) => Once(W, c)
        /\ \A k : k # "daemon" => (Says(W, k, c) <=> Says(X, k, c))
        /\ Stopped(W, c) <=> Stopped(X, c)
        /\ \A e : Lacks(W, c, e) <=> Lacks(X, c, e) \/ (e = d /\ "FAIL" = "FAIL")
    BY <2>4, DaemonSays
  <2>6. Sorted(W, c, E, known)
    <3>1. /\ ~Stopped(W, c) /\ ~Says(W, "pod", c) /\ Once(W, c) /\ Says(W, "mcs", c)
      BY <1>4, <1>6, <2>5
    <3>2. /\ (E \cup K) \cap Tested(W, c) = {}
          /\ E \cup K \cup Tested(W, c) = DaemonsOf(c)
      BY <1>5, <1>6, <2>5
    <3>3. \A e \in Tested(W, c) : Lacks(W, c, e)
      BY <1>4, <2>5
    <3>4. QED
      BY <1>3, <1>4, <1>6, <2>1, <3>1, <3>2, <3>3 DEF Sorted
  <2>7. \A x \in failed : x.cl = c /\ Honest(x)
    <3>1. \A x \in failed : x.check = "daemon" /\ x.cl = c /\ x.status = "FAIL"
      BY <2>2, ResultFields
    <3>2. QED
      BY <3>1 DEF Honest
  <2>8. Lookup(r, c, known, failed)
    BY <1>4, <1>5, <1>7, <2>3, <2>6, <2>7 DEF Lookup
  <2>9. NextDaemon(r, known, failed)
    BY <1>1, <1>9, <2>1, <2>2
  <2>10. QED
    BY <1>1, <1>2, <2>8, <2>9, NextDaemonKeeps
<1>10. QED
  BY <1>1, <1>5, <1>8, <1>9 DEF SubmarinerService

(* On to the next call before the probes, with nothing tested meanwhile *)
LEMMA ProbingStays ==
  ASSUME IInv, DataInv, AccountInv, NEW r \in Runs, pc[r] \in {"deploy", "wait"},
         UNCHANGED <<world, cancelled, cl, endpoints, resolved, ranges, unread, results>>,
         NEW l \in {"wait", "probe"}, Goto(r, l)
  PROVE  DataInv' /\ AccountInv'
<1>1. PICK c \in Bases : c = cl[r]
  BY DEF IInv
<1>2. Probing(r, c)
  BY <1>1 DEF AccountInv, Account, Turn, Stage
<1>3. Moves(r, Labels)
  BY DEF Moves, Goto, Labels, PodCalls
<1>4. Changes(r, {}, endpoints[r], resolved[r], ranges[r])
  BY <1>3, Identities DEF Changes
<1>5. /\ DataInv' /\ Local(r) /\ results'[r] = results[r] /\ endpoints'[r] = endpoints[r]
  BY <1>4, Typed, Silent
<1>6. pc'[r] = l /\ cl'[r] = c
  BY <1>1 DEF Goto, IInv
<1>7. DaemonsOf(c)' = DaemonsOf(c) /\ (GlobalNet(c)' <=> GlobalNet(c))
  BY SameWorld
<1>8. Asked(r, c) => Asked(r, c)'
  BY <1>5, AskedStays DEF Local
<1>9. Probing(r, c)'
  BY <1>2, <1>5, <1>7, <1>8 DEF Probing
<1>10. Stage(r, c)'
  BY <1>6, <1>9 DEF Stage
<1>11. QED
  BY <1>1, <1>5, <1>6, <1>10, StaysInTurn DEF Turn

LEMMA DeploysKeeps ==
  ASSUME IInv, DataInv, AccountInv, NEW r \in Runs, Deploys(r)
  PROVE  DataInv' /\ AccountInv'
BY ProbingStays DEF Deploys, Answered, podUnchanged, fixed

LEMMA PodIsReadyKeeps ==
  ASSUME IInv, DataInv, AccountInv, NEW r \in Runs, PodIsReady(r)
  PROVE  DataInv' /\ AccountInv'
BY ProbingStays DEF PodIsReady, Answered, podUnchanged, fixed

(* The pod was not to be had: whatever the lookups said, the turn is over *)
LEMMA PodFails ==
  ASSUME IInv, DataInv, AccountInv, NEW r \in Runs, pc[r] \in {"deploy", "wait"},
         NEW c \in Bases, c = cl[r],
         UNCHANGED <<world, cancelled, resolved, ranges, unread>>,
         endpoints' = [endpoints EXCEPT ![r] = <<>>], Report(r, Fails(r, "pod")),
         Turns(r) \/ Moves(r, Labels)
  PROVE  DataInv' /\ Local(r) /\ Done(r, c)'
<1>1. PICK xs : xs = Fails(r, "pod")
  OBVIOUS
<1>2. PICK es \in Seq(STRING) : es = <<>>
  BY NoDaemons
<1>3. Changes(r, xs, es, resolved[r], ranges[r])
  BY <1>1, <1>2, Identities DEF Changes, Report
<1>4. /\ \A x \in xs : x.cl = cl[r] /\ Honest(x)
      /\ Single(xs, "pod", c, "any", "FAIL")
  BY <1>1, FailsAreHonest
<1>5. DataInv' /\ Local(r) /\ results'[r] = results[r] \cup xs
  BY <1>3, <1>4, Typed, Effect
<1>6. PICK X, Z : X = results[r] /\ Z = results'[r]
  OBVIOUS
<1>7. /\ Tested(Z, c) = Tested(X, c)
      /\ Once(X, c) => Once(Z, c)
      /\ \A k : Says(Z, k, c) <=> Says(X, k, c) \/ k = "pod"
      /\ Stopped(Z, c) <=> Stopped(X, c)
  <2>1. Adds(Z, X, "pod", c, "any", "FAIL")
    BY <1>4, <1>5, <1>6 DEF Single, Adds
  <2>2. QED
    BY <2>1, StepSays
<1>8. Probing(r, c)
  BY DEF AccountInv, Account, Turn, Stage
<1>9. /\ ~Stopped(X, c) /\ Once(X, c) /\ world.objects[c].named
      /\ GlobalNet(c) => Says(X, "mcs", c)
      /\ Asked(r, c) /\ Tested(X, c) \subseteq DaemonsOf(c)
  BY <1>6, <1>8 DEF Probing
<1>10. DaemonsOf(c)' = DaemonsOf(c) /\ (GlobalNet(c)' <=> GlobalNet(c))
  BY SameWorld
<1>11. Asked(r, c)'
  BY <1>5, <1>9, AskedStays DEF Local
<1>12. Done(r, c)'
  BY <1>6, <1>7, <1>9, <1>10, <1>11 DEF Done
<1>13. QED
  BY <1>5, <1>12

LEMMA DeployFailsKeeps ==
  ASSUME IInv, DataInv, AccountInv, NEW r \in Runs, DeployFails(r)
  PROVE  DataInv' /\ AccountInv'
<1>1. PICK c \in Bases : c = cl[r]
  BY DEF IInv
<1>2. /\ pc[r] = "deploy" /\ NextSubject(r) /\ Turns(r)
      /\ UNCHANGED <<world, cancelled, resolved, ranges, unread>>
      /\ endpoints' = [endpoints EXCEPT ![r] = <<>>] /\ Report(r, Fails(r, "pod"))
  BY TurnIsNextSubject DEF DeployFails, Answered, At, podUnchanged, fixed
<1>3. DataInv' /\ Local(r) /\ Done(r, c)'
  BY <1>1, <1>2, PodFails
<1>4. QED
  BY <1>1, <1>2, <1>3, TurnEnds DEF Turn

LEMMA WaitFailsKeeps ==
  ASSUME IInv, DataInv, AccountInv, NEW r \in Runs, WaitFails(r)
  PROVE  DataInv' /\ AccountInv'
<1>1. PICK c \in Bases : c = cl[r]
  BY DEF IInv
<1>2. /\ pc[r] = "wait" /\ Goto(r, "cleanup") /\ cl' = cl
      /\ UNCHANGED <<world, cancelled, resolved, ranges, unread>>
      /\ endpoints' = [endpoints EXCEPT ![r] = <<>>] /\ Report(r, Fails(r, "pod"))
  BY DEF WaitFails, At, podUnchanged, fixed
<1>3. Moves(r, Labels)
  BY <1>2 DEF Moves, Goto, Labels, PodCalls
<1>4. DataInv' /\ Local(r) /\ Done(r, c)'
  BY <1>1, <1>2, <1>3, PodFails
<1>5. pc'[r] = "cleanup" /\ cl'[r] = c
  BY <1>1, <1>2 DEF Goto, IInv
<1>6. Stage(r, c)'
  BY <1>4, <1>5 DEF Stage
<1>7. QED
  BY <1>1, <1>2, <1>4, <1>5, <1>6, StaysInTurn DEF Turn

LEMMA ProbeKeeps ==
  ASSUME IInv, DataInv, AccountInv, NEW r \in Runs, Probe(r)
  PROVE  DataInv' /\ AccountInv'
<1>1. PICK c \in Bases : c = cl[r]
  BY DEF IInv
<1>2. /\ pc[r] = "probe" /\ cl' = cl
      /\ UNCHANGED <<world, cancelled, resolved, ranges, unread>>
  BY DEF Probe, At, podUnchanged, fixed
<1>3. PICK X : X = results[r]
  OBVIOUS
<1>4. /\ ~Stopped(X, c) /\ ~Says(X, "pod", c) /\ Once(X, c) /\ Asked(r, c)
      /\ world.objects[c].named
      /\ GlobalNet(c) => Says(X, "mcs", c) /\ {c} \X ToSet(endpoints[r]) \subseteq world.exported
      /\ IsInjective(endpoints[r]) /\ endpoints[r] # <<>>
      /\ ToSet(endpoints[r]) \cap Tested(X, c) = {}
      /\ ToSet(endpoints[r]) \cup Tested(X, c) = DaemonsOf(c)
  BY <1>1, <1>2, <1>3 DEF AccountInv, Account, Turn, Stage, Probing
<1>5. PICK d \in STRING, tail \in Seq(STRING) :
        /\ d = Head(endpoints[r]) /\ tail = Tail(endpoints[r])
        /\ ToSet(endpoints[r]) = {d} \cup ToSet(tail) /\ d \notin ToSet(tail)
        /\ IsInjective(tail) /\ Len(endpoints[r]) \in Nat
        /\ Len(endpoints[r]) > 1 \/ Len(endpoints[r]) = 1
        /\ Len(endpoints[r]) = 1 => tail = <<>>
        /\ Len(endpoints[r]) > 1 => tail # <<>>
  <2>1. PICK s \in Seq(STRING) : s = endpoints[r] /\ s # <<>> /\ IsInjective(s)
    BY <1>4, Typed
  <2>2. /\ Head(s) \in STRING /\ Tail(s) \in Seq(STRING)
        /\ ToSet(s) = {Head(s)} \cup ToSet(Tail(s))
        /\ Head(s) \notin ToSet(Tail(s)) /\ IsInjective(Tail(s))
        /\ Len(s) \in Nat /\ (Len(s) > 1 \/ Len(s) = 1)
        /\ Len(s) = 1 => Tail(s) = <<>>
        /\ Len(s) > 1 => Tail(s) # <<>>
    BY <2>1, HeadTailKeeps
  <2>3. QED
    BY <2>1, <2>2
<1>6. PICK E : E = ToSet(tail)
  OBVIOUS
<1>7. /\ d \notin Tested(X, c) /\ E \cap (Tested(X, c) \cup {d}) = {}
      /\ E \cup Tested(X, c) \cup {d} = DaemonsOf(c)
      /\ GlobalNet(c) => <<c, d>> \in world.exported /\ {c} \X E \subseteq world.exported
  <2>1. ToSet(endpoints[r]) = {d} \cup E /\ d \notin E
    BY <1>5, <1>6
  <2>2. GlobalNet(c) => <<c, d>> \in world.exported /\ {c} \X E \subseteq world.exported
    BY <1>4, <2>1
  <2>3. QED
    BY <1>4, <2>1, <2>2
<1>8. PICK status, xs :
        /\ xs = {Result("daemon", c, d, status)} /\ Report(r, xs)
        /\ status = "PASS" => <<c, d>> \in world.reach
  BY <1>1, <1>5 DEF Probe, CanConnect
<1>9. Moves(r, Labels)
  <2>1. pc' = pc \/ Goto(r, "cleanup")
    BY DEF Probe
  <2>2. pc = [pc EXCEPT ![r] = "probe"]
    BY <1>2, Identities
  <2>3. QED
    BY <1>2, <2>1, <2>2 DEF Moves, Goto, Labels, PodCalls
<1>10. Changes(r, xs, tail, resolved[r], ranges[r])
  <2>1. endpoints' = [endpoints EXCEPT ![r] = tail]
    BY <1>5 DEF Probe
  <2>2. QED
    BY <1>2, <1>8, <1>9, <2>1, Identities DEF Changes, Report
<1>11. \A x \in xs : x.cl = cl[r] /\ Honest(x)
  <2>1. \A x \in xs : /\ x.check = "daemon" /\ x.cl = c /\ x.at = d
                      /\ x.status = status
    BY <1>8, ResultFields
  <2>2. QED
    BY <1>1, <1>7, <1>8, <2>1 DEF Honest
<1>12. /\ DataInv' /\ Local(r) /\ results'[r] = results[r] \cup xs
       /\ endpoints'[r] = tail
  BY <1>10, <1>11, Typed, Effect
<1>13. PICK Z : Z = results'[r] /\ Adds(Z, X, "daemon", c, d, status)
  BY <1>3, <1>8, <1>12 DEF Adds
<1>14. /\ Tested(Z, c) = Tested(X, c) \cup {d}
       /\ Once(X, c) /\ d \notin Tested(X, c) => Once(Z, c)
       /\ \A k : k # "daemon" => (Says(Z, k, c) <=> Says(X, k, c))
       /\ Stopped(Z, c) <=> Stopped(X, c)
  BY <1>13, DaemonSays
<1>15. /\ ~Stopped(Z, c) /\ ~Says(Z, "pod", c) /\ Once(Z, c)
       /\ GlobalNet(c) => Says(Z, "mcs", c)
       /\ E \cap Tested(Z, c) = {} /\ E \cup Tested(Z, c) = DaemonsOf(c)
  BY <1>4, <1>7, <1>14
<1>16. /\ DaemonsOf(c)' = DaemonsOf(c) /\ world' = world
       /\ GlobalNet(c)' <=> GlobalNet(c)
  BY <1>2, SameWorld
<1>17. Asked(r, c)'
  BY <1>4, <1>12, AskedStays DEF Local
<1>18. CASE Len(endpoints[r]) = 1
  <2>1. E = {}
    BY <1>5, <1>6, <1>18 DEF ToSet
  <2>2. Tested(Z, c) = DaemonsOf(c) /\ Tested(Z, c) # {}
    BY <1>14, <1>15, <2>1
  <2>3. Done(r, c)'
    BY <1>4, <1>13, <1>15, <1>16, <1>17, <2>2 DEF Done
  <2>4. pc'[r] = "cleanup" /\ cl'[r] = c
    BY <1>1, <1>2, <1>18 DEF Probe, Goto, IInv
  <2>5. Stage(r, c)'
    BY <2>3, <2>4 DEF Stage
  <2>6. QED
    BY <1>1, <1>2, <1>12, <2>4, <2>5, StaysInTurn DEF Turn
<1>19. CASE Len(endpoints[r]) > 1
  <2>1. tail # <<>>
    BY <1>5, <1>19
  <2>2. Probing(r, c)'
    <3>1. IsInjective(tail) /\ Z = results'[r] /\ endpoints'[r] = tail
      BY <1>5, <1>12, <1>13
    <3>2. GlobalNet(c) => {c} \X E \subseteq world.exported
      BY <1>7
    <3>3. QED
      BY <1>4, <1>6, <1>15, <1>16, <1>17, <2>1, <3>1, <3>2 DEF Probing
  <2>3. pc'[r] = "probe" /\ cl'[r] = c
    <3>1. Len(endpoints[r]) # 1
      BY <1>5, <1>19
    <3>2. pc' = pc
      BY <3>1 DEF Probe
    <3>3. QED
      BY <1>1, <1>2, <3>2
  <2>4. Stage(r, c)'
    BY <2>2, <2>3 DEF Stage
  <2>5. QED
    BY <1>1, <1>2, <1>12, <2>3, <2>4, StaysInTurn DEF Turn
<1>20. QED
  BY <1>5, <1>18, <1>19

LEMMA CleanUpKeeps ==
  ASSUME IInv, DataInv, AccountInv, NEW r \in Runs, CleanUp(r)
  PROVE  DataInv' /\ AccountInv'
<1>1. PICK c \in Bases : c = cl[r]
  BY DEF IInv
<1>2. /\ pc[r] = "cleanup" /\ NextSubject(r) /\ Turns(r)
      /\ UNCHANGED <<world, cancelled, endpoints, resolved, ranges, unread, results>>
  BY TurnIsNextSubject DEF CleanUp, At, podUnchanged, fixed
<1>3. Changes(r, {}, endpoints[r], resolved[r], ranges[r])
  BY <1>2, Identities DEF Changes
<1>4. DataInv' /\ Local(r)
  BY <1>3, Typed, Silent
<1>5. Done(r, c)
  BY <1>1, <1>2 DEF AccountInv, Account, Turn, Stage
<1>6. Done(r, c)'
  BY <1>2, <1>5, SameDone
<1>7. QED
  BY <1>1, <1>2, <1>4, <1>6, TurnEnds DEF Turn

LEMMA ReturnKeeps ==
  ASSUME IInv, DataInv, AccountInv, NEW r \in Runs, Return(r)
  PROVE  DataInv' /\ AccountInv'
<1>1. /\ pc[r] = "return" /\ Goto(r, "returned") /\ cl' = cl
      /\ UNCHANGED <<world, cancelled, endpoints, resolved, ranges, unread, results>>
  BY DEF Return, At, podUnchanged, fixed
<1>2. Moves(r, Labels)
  BY <1>1 DEF Moves, Goto, Labels
<1>3. Changes(r, {}, endpoints[r], resolved[r], ranges[r])
  BY <1>1, <1>2, Identities DEF Changes
<1>4. DataInv' /\ Local(r)
  BY <1>3, Typed, Silent
<1>5. Refused(r) \/ \A c \in Bases : IsSubject(c) => Done(r, c)
  BY <1>1 DEF AccountInv, Account
<1>6. /\ Refused(r) => Refused(r)'
      /\ \A c \in Bases : (IsSubject(c)' <=> IsSubject(c)) /\ (Done(r, c)' <=> Done(r, c))
  BY <1>1, SameWorld, SameDone DEF Refused
<1>7. pc'[r] = "returned"
  BY <1>1 DEF Goto, IInv
<1>8. Account(r)'
  BY <1>5, <1>6, <1>7 DEF Account, Turn
<1>9. QED
  BY <1>4, <1>8, OtherRuns

(* Steps that touch no report: of the clusters, a signal, a kill *)
LEMMA QuietKeeps ==
  ASSUME DataInv, AccountInv, UNCHANGED <<world, endpoints, resolved, ranges, unread, results>>,
         cancelled' \in [Runs -> BOOLEAN],
         \A q \in Runs : (pc'[q] = pc[q] /\ cl'[q] = cl[q]) \/ pc'[q] = "killed"
  PROVE  DataInv' /\ AccountInv'
<1>1. \A x : Honest(x)' <=> Honest(x)
  BY DEF Honest, GlobalNet
<1>2. DataInv'
  BY <1>1 DEF DataInv
<1>3. ASSUME NEW q \in Runs, pc'[q] = pc[q], cl'[q] = cl[q]  PROVE Account(q)'
  BY <1>3, AccountKept DEF AccountInv
<1>4. ASSUME NEW q \in Runs, pc'[q] = "killed"  PROVE Account(q)'
  BY <1>4 DEF Account, Turn
<1>5. QED
  BY <1>2, <1>3, <1>4 DEF AccountInv

LEMMA InitReport == Init => DataInv /\ AccountInv
<1> SUFFICES ASSUME Init  PROVE DataInv /\ AccountInv
  OBVIOUS
<1>1. <<>> \in Seq(STRING)
  BY NoDaemons
<1>2. DataInv
  BY <1>1 DEF Init, DataInv
<1>3. AccountInv
  BY DEF Init, AccountInv, Account, Turn
<1>4. QED
  BY <1>2, <1>3

LEMMA StepReport ==
  IInv /\ DataInv /\ AccountInv /\ [Next]_vars => DataInv' /\ AccountInv'
<1> SUFFICES ASSUME IInv, DataInv, AccountInv, [Next]_vars  PROVE DataInv' /\ AccountInv'
  OBVIOUS
<1>1. ASSUME NEW r \in Runs, RunStep(r)  PROVE DataInv' /\ AccountInv'
  BY <1>1, HostNetworkKeeps, HostNetworkFailsKeeps, ManagedNameKeeps,
     MultiClusterServiceKeeps, GatherCephCIDRsKeeps, DiscoverMonsKeeps, DiscoverOSDsKeeps,
     DiscoverFailsKeeps, SubmarinerServiceKeeps, DeploysKeeps, DeployFailsKeeps,
     PodIsReadyKeeps, WaitFailsKeeps, ProbeKeeps, CleanUpKeeps, ReturnKeeps
  DEF RunStep
<1>2. ASSUME NEW r \in Runs, Interrupt(r)  PROVE DataInv' /\ AccountInv'
  <2>1. cancelled' \in [Runs -> BOOLEAN]
    BY <1>2 DEF Interrupt, DataInv
  <2>2. QED
    BY <1>2, <2>1, QuietKeeps DEF Interrupt
<1>3. ASSUME NEW r \in Runs, Kill(r)  PROVE DataInv' /\ AccountInv'
  <2>1. /\ cl' = cl /\ UNCHANGED <<world, endpoints, resolved, ranges, unread, results>>
        /\ cancelled' = cancelled /\ pc' = [pc EXCEPT ![r] = "killed"]
    BY <1>3 DEF Kill, Goto, fixed
  <2>2. \A q \in Runs : (pc'[q] = pc[q] /\ cl'[q] = cl[q]) \/ pc'[q] = "killed"
    BY <2>1 DEF IInv
  <2>3. cancelled' \in [Runs -> BOOLEAN]
    BY <2>1 DEF DataInv
  <2>4. QED
    BY <2>1, <2>2, <2>3, QuietKeeps
<1>4. ASSUME UNCHANGED <<world, runVars>>  PROVE DataInv' /\ AccountInv'
  <2>1. cancelled' \in [Runs -> BOOLEAN]
    BY <1>4 DEF DataInv, runVars
  <2>2. QED
    BY <1>4, <2>1, QuietKeeps DEF runVars
<1>5. ASSUME NEW s \in Slots, Cluster(s)  PROVE DataInv' /\ AccountInv'
  BY <1>4, <1>5 DEF Cluster
<1>6. CASE UNCHANGED vars
  BY <1>4, <1>6 DEF vars
<1>7. QED
  BY <1>1, <1>2, <1>3, <1>5, <1>6 DEF Next

LEMMA ReportInductive == Spec => [](DataInv /\ AccountInv)
BY InitReport, StepReport, Inductive, PTL DEF Spec

-----------------------------------------------------------------------------
(* Types, with the server's from the discipline; and wherever a run looks   *)
(* up a service, or creates, awaits or uses a pod, it has a daemon left     *)
(* (ceph_daemon_submariner.go:69, 155, 190).                                *)
THEOREM TypeCorrect == Spec => []TypeOK
<1>1. Pod!TypeOK => ServerTypeOK
  BY DEF Pod!TypeOK, Pod!ServerTypeOK, Pod!Pods, Pod!Phases, Pod!Living, Pod!IsFree,
       ServerTypeOK, Pods, Phases, Living, IsFree
<1>2. ASSUME IInv, AccountInv, NEW r \in Runs,
             pc[r] \in {"service", "deploy", "wait", "probe"}
      PROVE  endpoints[r] # <<>>
  BY <1>2 DEF AccountInv, Account, Turn, Stage, Looking, Probing
<1>3. IInv /\ DataInv /\ AccountInv /\ ServerTypeOK => TypeOK
  BY <1>2 DEF IInv, DataInv, TypeOK, Labels, PodCalls, FreeCalls, Cidrs
<1>4. Pod!Spec => []Pod!TypeOK
  BY NobodyAssumption, Pod!TypeCorrect
<1>5. QED
  BY <1>1, <1>3, <1>4, Inductive, ReportInductive, ImplementsDiscipline, SameDiscipline, PTL

(* No failure on either path (ceph_daemon_submariner.go:36, 139) hides a    *)
(* daemon or the other cluster, for any number of daemons: each has exactly *)
(* one result, or a FAIL names the step where the check of its cluster      *)
(* ended.                                                                   *)
THEOREM DaemonsAreAccounted == Spec => []EveryDaemonAccounted
BY AccountIsComplete, Inductive, ReportInductive, PTL

(* A cluster that checkCephSubmariner passes without complaint is right:    *)
(* every daemon is reached from the peer and, with GlobalNet, exported      *)
(* under the right cluster ID; and the peer's noProxy list covers what is   *)
(* connected to, unless a range could not be read.                          *)
THEOREM CleanReportsAreTrue == Spec => []CleanReportIsTrue
BY AccountIsTrue, Inductive, ReportInductive, PTL

=============================================================================
