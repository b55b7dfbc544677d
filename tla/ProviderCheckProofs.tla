-------------------------- MODULE ProviderCheckProofs --------------------------
(***************************************************************************)
(* CheckOCSProvider keeps the pod discipline of TestPods, for any number   *)
(* of runs and whatever the clusters are like; so the theorems about       *)
(* TestPods are theorems about it.  And its report is right: a host that   *)
(* it finds in the noProxy list bypasses the proxy, and one that it misses *)
(* is held by no entry it recognizes; no direction ends without a result,  *)
(* every endpoint is accounted for, and a direction without a complaint    *)
(* works.  Three inductive invariants, each resting on the one before:     *)
(*   IInv        which clean-up is owed at each call: the one of the       *)
(*               peer's pod between the Create and the Delete              *)
(*   DataInv     the types, and that no result says more than was seen     *)
(*   AccountInv  what has been found, asked and said at each call of the   *)
(*               direction under way, and of the one that is over          *)
(***************************************************************************)
EXTENDS ProviderCheck, SequenceTheorems, TLAPS

Pod == INSTANCE TestPodsProofs WITH
  held <- deferred,
  run <- [r \in Runs |-> IF Ended(r) THEN pc[r] ELSE "active"]

PodCalls  == {"wait", "grpcurl", "curl", "grpc", "cleanup"}
FreeCalls == {"annotation", "lb", "service", "serviceCIDR", "nodes", "clusterCIDR",
              "export", "name", "deploy", "return"}
Calls == PodCalls \cup FreeCalls \cup {"returned", "killed"}

IInv ==
  /\ pc \in [Runs -> Calls]
  /\ cl \in [Runs -> Bases]
  /\ deferred \in [Runs -> SUBSET Slots]
  /\ \A r \in Runs : /\ deferred[r] \subseteq {Peer(cl[r])}
                     /\ pc[r] \in PodCalls => deferred[r] = {Peer(cl[r])}
                     /\ pc[r] \in FreeCalls \cup {"returned"} => deferred[r] = {}

(* What a step of the discovery or of a loop does to the control of a run *)
Moves(r, from, to) ==
  /\ pc[r] \in from
  /\ \E l \in to : pc' = [pc EXCEPT ![r] = l]
  /\ cl' = cl

(* NextDirection: the second direction's first call, or the return *)
Turns(r) ==
  \/ cl[r] = "c1" /\ cl' = [cl EXCEPT ![r] = "c2"] /\ pc' = [pc EXCEPT ![r] = "annotation"]
  \/ cl' = cl /\ pc' = [pc EXCEPT ![r] = "return"]

-----------------------------------------------------------------------------
LEMMA PeerIsSlot == \A c : Peer(c) \in Slots
BY SlotsAssumption DEF Peer, Bases

LEMMA TurnIsNextDirection ==
  ASSUME NEW r \in Runs, NextDirection(r)  PROVE Turns(r)
BY DEF NextDirection, Turns, Goto

(* The discovery touches no pod, and goes on with another free call *)
LEMMA DiscoveryStep ==
  ASSUME NEW r \in Runs, Discovery(r)
  PROVE  /\ UNCHANGED <<serverVars, deferred>>
         /\ pc[r] \in FreeCalls
         /\ Turns(r) \/ Moves(r, FreeCalls, FreeCalls)
<1>1. ASSUME NEW eps, NEW cidrs, NEW xs, Discovered(r, eps, cidrs, xs), pc[r] \in FreeCalls
      PROVE  Turns(r) \/ Moves(r, FreeCalls, FreeCalls)
  BY <1>1, TurnIsNextDirection DEF Discovered, Moves, Goto, FreeCalls
<1>2. ASSUME NEW eps, NEW cidrs, NEW xs, NEW next \in FreeCalls,
             Continue(r, eps, cidrs, xs, next), pc[r] \in FreeCalls
      PROVE  Moves(r, FreeCalls, FreeCalls)
  BY <1>2 DEF Continue, Moves, Goto
<1>3. CASE ExportedAddress(r)
  BY <1>1, <1>2, <1>3 DEF ExportedAddress, discoveryUnchanged, Answered, At, FreeCalls
<1>4. CASE ProviderLB(r)
  BY <1>2, <1>4 DEF ProviderLB, discoveryUnchanged, Answered, At, FreeCalls
<1>5. CASE ProviderServiceAlone(r)
  BY <1>1, <1>5 DEF ProviderServiceAlone, discoveryUnchanged, Answered, At, FreeCalls
<1>6. CASE ProviderServiceMore(r)
  BY <1>2, <1>6 DEF ProviderServiceMore, discoveryUnchanged, Answered, At, FreeCalls
<1>7. CASE ServiceCIDR(r)
  BY <1>2, <1>7 DEF ServiceCIDR, discoveryUnchanged, Answered, At, FreeCalls
<1>8. CASE StorageNodes(r)
  BY <1>1, <1>8 DEF StorageNodes, discoveryUnchanged, Answered, At, FreeCalls
<1>9. CASE ClusterCIDR(r)
  BY <1>1, <1>9 DEF ClusterCIDR, discoveryUnchanged, Answered, At, FreeCalls
<1>10. CASE ServiceExport(r)
  BY <1>2, <1>10 DEF ServiceExport, discoveryUnchanged, Answered, At, FreeCalls
<1>11. CASE ManagedName(r)
  BY <1>1, <1>11 DEF ManagedName, discoveryUnchanged, Answered, At, FreeCalls
<1>12. QED
  BY <1>3, <1>4, <1>5, <1>6, <1>7, <1>8, <1>9, <1>10, <1>11 DEF Discovery

LEMMA InitIInv == Init => IInv
BY DEF Init, IInv, Calls, FreeCalls, PodCalls, Bases

(* A run that turns owes nothing any more, or not after this step *)
LEMMA StepIInv == IInv /\ [Next]_vars => IInv'
<1> SUFFICES ASSUME IInv, [Next]_vars  PROVE IInv'
  OBVIOUS
<1>1. ASSUME NEW r \in Runs, Turns(r), deferred' = [deferred EXCEPT ![r] = {}]
      PROVE  IInv'
  BY <1>1 DEF IInv, Turns, Calls, PodCalls, FreeCalls, Bases
<1>2. ASSUME NEW r \in Runs, Moves(r, FreeCalls, FreeCalls), deferred' = deferred
      PROVE  IInv'
  BY <1>2 DEF IInv, Moves, Calls, PodCalls, FreeCalls
<1>3. ASSUME NEW r \in Runs, Moves(r, PodCalls, PodCalls), deferred' = deferred
      PROVE  IInv'
  BY <1>3 DEF IInv, Moves, Calls, PodCalls, FreeCalls
<1>4. ASSUME NEW r \in Runs, Discovery(r)  PROVE IInv'
  <2>1. deferred' = deferred /\ pc[r] \in FreeCalls
    BY <1>4, DiscoveryStep
  <2>2. deferred' = [deferred EXCEPT ![r] = {}]
    BY <2>1 DEF IInv
  <2>3. QED
    BY <1>1, <1>2, <1>4, <2>1, <2>2, DiscoveryStep
<1>5. ASSUME NEW r \in Runs, Reachability(r)  PROVE IInv'
  <2>1. CASE Deploys(r)
    BY <2>1, PeerIsSlot DEF Deploys, Answered, Goto, IInv, Calls, PodCalls, FreeCalls
  <2>2. CASE DeployFails(r)
    <3>1. Turns(r) /\ deferred' = deferred /\ pc[r] = "deploy"
      BY <2>2, TurnIsNextDirection DEF DeployFails, Answered, At
    <3>2. deferred' = [deferred EXCEPT ![r] = {}]
      BY <3>1 DEF IInv, FreeCalls
    <3>3. QED
      BY <1>1, <3>1, <3>2
  <2>3. CASE PodIsReady(r)
    BY <1>3, <2>3 DEF PodIsReady, Answered, Goto, Moves, PodCalls
  <2>4. CASE WaitFails(r)
    BY <1>3, <2>4 DEF WaitFails, At, Goto, Moves, PodCalls
  <2>5. CASE InstallGrpcurl(r)
    BY <1>3, <2>5 DEF InstallGrpcurl, At, Goto, Moves, PodCalls
  <2>6. CASE TestEndpoint(r)
    BY <1>3, <2>6 DEF TestEndpoint, NextEndpoint, At, Goto, Moves, PodCalls
  <2>7. CASE TestGrpc(r)
    BY <1>3, <2>7 DEF TestGrpc, NextEndpoint, At, Goto, Moves, PodCalls
  <2>8. CASE CleanUp(r)
    <3>1. /\ Turns(r) /\ pc[r] = "cleanup"
          /\ deferred' = [deferred EXCEPT ![r] = @ \ {Peer(cl[r])}]
      BY <2>8, TurnIsNextDirection DEF CleanUp, At
    <3>2. deferred' = [deferred EXCEPT ![r] = {}]
      BY <3>1 DEF IInv
    <3>3. QED
      BY <1>1, <3>1, <3>2
  <2>9. QED
    BY <1>5, <2>1, <2>2, <2>3, <2>4, <2>5, <2>6, <2>7, <2>8 DEF Reachability
<1>6. ASSUME NEW r \in Runs, Return(r)  PROVE IInv'
  BY <1>6 DEF Return, At, Goto, IInv, Calls, PodCalls, FreeCalls
<1>7. ASSUME NEW r \in Runs, Interrupt(r)  PROVE IInv'
  BY <1>7 DEF Interrupt, IInv
<1>8. ASSUME NEW r \in Runs, Kill(r)  PROVE IInv'
  BY <1>8 DEF Kill, Goto, IInv, Calls, PodCalls, FreeCalls
<1>9. ASSUME NEW s \in Slots, Cluster(s)  PROVE IInv'
  BY <1>9 DEF Cluster, runVars, IInv
<1>10. CASE UNCHANGED vars
  BY <1>10 DEF vars, runVars, IInv
<1>11. QED
  BY <1>4, <1>5, <1>6, <1>7, <1>8, <1>9, <1>10 DEF Next, RunStep

LEMMA Inductive == Spec => []IInv
BY InitIInv, StepIInv, PTL DEF Spec

-----------------------------------------------------------------------------
(* The refinement.  A Create that is answered is a Deploy, and owes its     *)
(* clean-up in the same step; every other step of a run between its Create  *)
(* and its Delete stutters.                                                 *)

LEMMA StepRefines == IInv /\ [Next]_vars => [Discipline!Next]_(Discipline!vars)
<1> SUFFICES ASSUME IInv, [Next]_vars  PROVE [Discipline!Next]_(Discipline!vars)
  OBVIOUS
<1> DEFINE run == [r \in Runs |-> IF Ended(r) THEN pc[r] ELSE "active"]
           Running == PodCalls \cup FreeCalls
<1>1. ASSUME NEW r \in Runs, pc[r] \in Running,
             \E l \in Running : pc' = [pc EXCEPT ![r] = l]
      PROVE  run' = run /\ run[r] = "active"
  BY <1>1 DEF IInv, Ended, PodCalls, FreeCalls
<1>2. ASSUME NEW r \in Runs, pc[r] \in Running, Turns(r)
      PROVE  run' = run /\ run[r] = "active"
  BY <1>1, <1>2 DEF Turns, FreeCalls
<1>3. ASSUME UNCHANGED <<serverVars, deferred>>, run' = run
      PROVE  UNCHANGED Discipline!vars
  BY <1>3 DEF Discipline!vars, Discipline!serverVars, serverVars
<1>4. ASSUME NEW r \in Runs, Discovery(r)
      PROVE  UNCHANGED Discipline!vars
  BY <1>1, <1>2, <1>3, <1>4, DiscoveryStep DEF Moves
<1>5. ASSUME NEW r \in Runs, Deploys(r)
      PROVE  Discipline!Deploy(r, Peer(cl[r]))
  BY <1>1, <1>5 DEF Deploys, Answered, Goto, DeployTestPod, NewPod, IsFree,
       Discipline!Deploy, Discipline!DeployTestPod, Discipline!NewPod, Discipline!IsFree,
       PodCalls, FreeCalls
<1>6. ASSUME NEW r \in Runs, DeployFails(r)
      PROVE  Discipline!DeployLost(r, Peer(cl[r])) \/ UNCHANGED Discipline!vars
  <2>1. pc[r] = "deploy" /\ Turns(r) /\ deferred' = deferred
    BY <1>6, TurnIsNextDirection DEF DeployFails, Answered, At
  <2>2. run' = run /\ run[r] = "active"
    BY <1>2, <2>1 DEF FreeCalls
  <2>3. CASE DeployUnanswered(r, Peer(cl[r]))
    BY <2>1, <2>2, <2>3 DEF DeployUnanswered, Discipline!DeployLost, Discipline!DeployUnanswered
  <2>4. CASE DeployRefused
    BY <1>3, <2>1, <2>2, <2>4 DEF DeployRefused
  <2>5. QED
    BY <1>6, <2>3, <2>4 DEF DeployFails
<1>7. ASSUME NEW r \in Runs,
             PodIsReady(r) \/ WaitFails(r) \/ InstallGrpcurl(r) \/ TestEndpoint(r) \/ TestGrpc(r)
      PROVE  UNCHANGED Discipline!vars
  <2>1. /\ pc[r] \in PodCalls /\ UNCHANGED <<serverVars, deferred>>
        /\ \E l \in PodCalls : pc' = [pc EXCEPT ![r] = l]
    BY <1>7 DEF PodIsReady, WaitFails, InstallGrpcurl, TestEndpoint, TestGrpc,
         NextEndpoint, Answered, At, Goto, PodCalls
  <2>2. QED
    BY <1>1, <1>3, <2>1
<1>8. ASSUME NEW r \in Runs, CleanUp(r)
      PROVE  Discipline!CleanUp(r, Peer(cl[r]))
  <2>1. pc[r] = "cleanup" /\ Turns(r) /\ Peer(cl[r]) \in deferred[r]
    BY <1>8, TurnIsNextDirection DEF CleanUp, At, IInv, PodCalls
  <2>2. run' = run /\ run[r] = "active"
    BY <1>2, <2>1 DEF PodCalls
  <2>3. QED
    BY <1>8, <2>1, <2>2 DEF CleanUp, DeleteTestPod, DeleteFailed, Lives, Living,
         Discipline!CleanUp, Discipline!DeleteTestPod, Discipline!DeleteFailed,
         Discipline!Lives, Discipline!Living
<1>9. ASSUME NEW r \in Runs, Return(r)
      PROVE  Discipline!Return(r)
  BY <1>9 DEF Return, At, Goto, IInv, Ended, serverVars, Discipline!Return,
       Discipline!serverVars
<1>10. ASSUME NEW r \in Runs, Interrupt(r)
       PROVE  UNCHANGED Discipline!vars
  BY <1>3, <1>10 DEF Interrupt, Ended
<1>11. ASSUME NEW r \in Runs, Kill(r)
       PROVE  Discipline!Kill(r)
  BY <1>11 DEF Kill, Goto, IInv, Ended, serverVars, Discipline!Kill, Discipline!serverVars
<1>12. ASSUME NEW s \in Slots, Cluster(s)
       PROVE  Discipline!Cluster(s)
  BY <1>12 DEF Cluster, runVars, Ended, ServerStep, PodStarts, PodEnds, PodGone,
       OutsideDelete, LateCreate, NewPod, IsFree, NoPod, Lives, Living,
       Discipline!Cluster, Discipline!ServerStep, Discipline!PodStarts, Discipline!PodEnds,
       Discipline!PodGone, Discipline!OutsideDelete, Discipline!LateCreate, Discipline!NewPod,
       Discipline!IsFree, Discipline!NoPod, Discipline!Lives, Discipline!Living
<1>13. CASE UNCHANGED vars
  BY <1>3, <1>13 DEF vars, runVars, Ended
<1>14. QED
  BY <1>4, <1>5, <1>6, <1>7, <1>8, <1>9, <1>10, <1>11, <1>12, <1>13, PeerIsSlot
  DEF Next, RunStep, Reachability, Discipline!Next

(* The provider check implements the discipline that all checks share: its  *)
(* deferred deletion (provider.go:422) is owed from the step in which       *)
(* DeployTestPod returned the pod, and paid once, in either direction.      *)
THEOREM ImplementsDiscipline == Spec => ImplementsTestPods
<1>1. Init => Discipline!Init
  BY DEF Init, ServerInit, NoPod, Ended, Discipline!Init, Discipline!ServerInit,
       Discipline!NoPod
<1>2. QED
  BY <1>1, StepRefines, Inductive, PTL DEF Spec, ImplementsTestPods, Discipline!Spec

-----------------------------------------------------------------------------
(* What TestPodsProofs proves of the discipline *)

LEMMA SameDiscipline == ImplementsTestPods => Pod!Spec
<1>1. Discipline!Init => Pod!Init
  BY DEF Discipline!Init, Discipline!ServerInit, Discipline!NoPod,
       Pod!Init, Pod!ServerInit, Pod!NoPod
<1>2. ASSUME NEW r \in Runs, NEW s \in Slots
      PROVE  /\ Discipline!Deploy(r, s) => Pod!Deploy(r, s)
             /\ Discipline!DeployLost(r, s) => Pod!DeployLost(r, s)
             /\ Discipline!CleanUp(r, s) => Pod!CleanUp(r, s)
  BY DEF Discipline!Deploy, Discipline!DeployTestPod, Discipline!NewPod, Discipline!IsFree,
       Discipline!DeployLost, Discipline!DeployUnanswered,
       Discipline!CleanUp, Discipline!DeleteTestPod, Discipline!DeleteFailed,
       Discipline!Lives, Discipline!Living,
       Pod!Deploy, Pod!DeployTestPod, Pod!NewPod, Pod!IsFree, Pod!DeployLost,
       Pod!DeployUnanswered, Pod!CleanUp, Pod!DeleteTestPod, Pod!DeleteFailed, Pod!Lives,
       Pod!Living
<1>3. ASSUME NEW r \in Runs
      PROVE  /\ Discipline!Return(r) => Pod!Return(r)
             /\ Discipline!Kill(r) => Pod!Kill(r)
  BY DEF Discipline!Return, Discipline!Kill, Discipline!serverVars,
       Pod!Return, Pod!Kill, Pod!serverVars
<1>4. ASSUME NEW s \in Slots
      PROVE  Discipline!Cluster(s) => Pod!Cluster(s)
  BY DEF Discipline!Cluster, Discipline!ServerStep, Discipline!PodStarts,
       Discipline!PodEnds, Discipline!PodGone, Discipline!OutsideDelete,
       Discipline!LateCreate, Discipline!NewPod, Discipline!IsFree,
       Discipline!NoPod, Discipline!Lives, Discipline!Living,
       Pod!Cluster, Pod!ServerStep, Pod!PodStarts, Pod!PodEnds, Pod!PodGone,
       Pod!OutsideDelete, Pod!LateCreate, Pod!NewPod, Pod!IsFree,
       Pod!NoPod, Pod!Lives, Pod!Living
<1>5. [Discipline!Next]_(Discipline!vars) => [Pod!Next]_(Pod!vars)
  BY <1>2, <1>3, <1>4 DEF Discipline!Next, Discipline!vars, Discipline!serverVars,
       Pod!Next, Pod!vars, Pod!serverVars
<1>6. QED
  BY <1>1, <1>5, PTL DEF ImplementsTestPods, Discipline!Spec, Pod!Spec

(* No run deletes another run's pod, unless a pod of that name was deleted  *)
(* from outside before: with fixed names and deletes by name (pod.go:125).  *)
THEOREM DeletesAreOwn == Spec => []Pod!OnlyOwnPodsDeleted
<1>1. Pod!Spec => []Pod!OnlyOwnPodsDeleted
  BY NobodyAssumption, Pod!DeletesAreOwn
<1>2. QED
  BY <1>1, ImplementsDiscipline, SameDiscipline, PTL

(* Between the directions and at the end the pod is gone: a living pod of a *)
(* run is the one it works with, or one it could not know of.               *)
THEOREM OnePodOnly == Spec => []OnePodAtATime
<1>1. IInv /\ Pod!LeftoverAccounted => OnePodAtATime
  BY DEF IInv, Pod!LeftoverAccounted, Pod!Owns, Pod!Lives, Pod!Living, OnePodAtATime,
       Owns, Lives, Living, Calls, PodCalls, FreeCalls
<1>2. Pod!Spec => []Pod!LeftoverAccounted
  BY NobodyAssumption, Pod!LeftoversAreAccounted
<1>3. QED
  BY <1>1, <1>2, Inductive, ImplementsDiscipline, SameDiscipline, PTL

-----------------------------------------------------------------------------
(* Types, and that no result says more than was seen.  The endpoints are    *)
(* used up exactly where a direction or its loop ends.                      *)

Places  == Endpoints \cup Ranges \cup {"any"}
Refusals == {"lb", "svc", "nodes", "name", "serviceCIDR", "clusterCIDR", "deploy", "wait"}
Verdicts == [check : Refusals \cup {"export", "noproxy", "curl", "grpc"}, cl : Bases,
             at : Places, status : {"PASS", "WARN", "FAIL"}]

Honest(x) ==
  /\ x.check \in Refusals => x.status # "PASS"
  /\ x.check = "curl" /\ x.status = "PASS" => <<x.cl, x.at>> \in world.reach
  /\ x.check = "grpc" /\ x.status = "PASS" => <<x.cl, x.at>> \in world.serves
  /\ x.check = "noproxy" =>
       /\ x.at \in Endpoints \cup Ranges
       /\ x.status = "PASS" <=>
            isHostCoveredByNoProxy(Host(x.cl, x.at), world.noProxy[Peer(x.cl)])

Sound(r, xs) == \A x \in xs : x \in Verdicts /\ Honest(x) /\ x.cl = cl[r]

Probing == {"deploy", "wait", "grpcurl", "curl", "grpc"}
Finding == {"annotation", "lb", "service", "serviceCIDR", "nodes", "clusterCIDR", "export",
            "name"}

Queue(r) ==
  /\ endpoints[r] \in Seq(Endpoints)
  /\ pc[r] \in Probing => endpoints[r] # <<>>
  /\ pc[r] \in {"annotation", "lb", "cleanup"} => endpoints[r] = <<>>

DataInv ==
  /\ world \in Worlds
  /\ cancelled \in [Runs -> BOOLEAN]
  /\ lookups \in [Runs -> SUBSET Ranges]
  /\ grpcurl \in [Runs -> SUBSET Bases]
  /\ unread \in [Runs -> SUBSET Bases]
  /\ endpoints = [r \in Runs |-> endpoints[r]]
  /\ results = [r \in Runs |-> results[r]]
  /\ \A r \in Runs : Queue(r) /\ \A x \in results[r] : x \in Verdicts /\ Honest(x)

LEMMA ConcatIsUnion ==
  ASSUME NEW s \in Seq(Endpoints), NEW t \in Seq(Endpoints)
  PROVE  /\ s \o t \in Seq(Endpoints)
         /\ ToSet(s \o t) = ToSet(s) \cup ToSet(t)
         /\ s \o t = <<>> <=> s = <<>> /\ t = <<>>
<1>1. /\ s \o t \in Seq(Endpoints) /\ Len(s \o t) = Len(s) + Len(t)
      /\ \A i \in 1 .. Len(s) + Len(t) : (s \o t)[i] = IF i <= Len(s) THEN s[i] ELSE t[i - Len(s)]
  BY ConcatProperties
<1>2. /\ DOMAIN s = 1..Len(s) /\ DOMAIN t = 1..Len(t) /\ DOMAIN (s \o t) = 1 .. Len(s \o t)
      /\ Len(s) \in Nat /\ Len(t) \in Nat
  BY <1>1, LenProperties
<1>3. ToSet(s \o t) \subseteq ToSet(s) \cup ToSet(t)
  BY <1>1, <1>2 DEF ToSet
<1>4. ToSet(s) \subseteq ToSet(s \o t)
  BY <1>1, <1>2 DEF ToSet
<1>5. ASSUME NEW i \in 1..Len(t)  PROVE t[i] \in ToSet(s \o t)
  <2>1. Len(s) + i \in 1 .. Len(s) + Len(t) /\ (s \o t)[Len(s) + i] = t[i]
    BY <1>1, <1>2
  <2>2. QED
    BY <1>1, <1>2, <2>1 DEF ToSet
<1>6. s \o t = <<>> <=> s = <<>> /\ t = <<>>
  BY ConcatEqualIffEmpty, ConcatEmptySeq, EmptySeq
<1>7. QED
  BY <1>1, <1>2, <1>3, <1>4, <1>5, <1>6 DEF ToSet

LEMMA HeadAndTail ==
  ASSUME NEW s \in Seq(Endpoints), s # <<>>
  PROVE  /\ Head(s) \in Endpoints /\ Tail(s) \in Seq(Endpoints)
         /\ ToSet(s) = {Head(s)} \cup ToSet(Tail(s))
         /\ Tail(s) # <<>> <=> Len(s) > 1
<1>1. /\ Head(s) \in Endpoints /\ Tail(s) \in Seq(Endpoints) /\ Len(Tail(s)) = Len(s) - 1
      /\ \A i \in 1 .. Len(Tail(s)) : Tail(s)[i] = s[i + 1]
  BY HeadTailProperties
<1>2. /\ DOMAIN s = 1..Len(s) /\ DOMAIN Tail(s) = 1..Len(Tail(s)) /\ Len(s) \in Nat \ {0}
      /\ Head(s) = s[1]
  BY <1>1, LenProperties, EmptySeq
<1>3. ToSet(s) \subseteq {Head(s)} \cup ToSet(Tail(s))
  <2>1. SUFFICES ASSUME NEW i \in 1..Len(s), i # 1  PROVE s[i] \in ToSet(Tail(s))
    BY <1>2 DEF ToSet
  <2>2. i - 1 \in 1 .. Len(Tail(s)) /\ Tail(s)[i - 1] = s[i]
    BY <1>1, <1>2, <2>1
  <2>3. QED
    BY <1>2, <2>2 DEF ToSet
<1>4. {Head(s)} \cup ToSet(Tail(s)) \subseteq ToSet(s)
  BY <1>1, <1>2 DEF ToSet
<1>5. Tail(s) # <<>> <=> Len(s) > 1
  <2>1. Tail(s) = <<>> <=> Len(Tail(s)) = 0
    BY <1>1, EmptySeq
  <2>2. QED
    BY <1>1, <1>2, <2>1
<1>6. QED
  BY <1>1, <1>3, <1>4, <1>5

LEMMA OneEndpoint ==
  ASSUME NEW e \in Endpoints
  PROVE  <<e>> \in Seq(Endpoints) /\ ToSet(<<e>>) = {e} /\ <<e>> # <<>>
BY DEF ToSet

LEMMA NoEndpoint == <<>> \in Seq(Endpoints) /\ ToSet(<<>>) = {}
BY DEF ToSet

LEMMA ReportGrows ==
  ASSUME DataInv, NEW r \in Runs, NEW xs, Report(r, xs)
  PROVE  /\ results'[r] = results[r] \cup xs
         /\ \A q \in Runs \ {r} : results'[q] = results[q]
         /\ results' = [q \in Runs |-> results'[q]]
BY DEF Report, DataInv

LEMMA NothingReported ==
  ASSUME DataInv, NEW r \in Runs, UNCHANGED results  PROVE Report(r, {})
BY DEF Report, DataInv

(* What a step of one run has to show *)
LEMMA StepOfRun ==
  ASSUME DataInv, NEW r \in Runs, NEW xs, Report(r, xs), Sound(r, xs),
         UNCHANGED <<world, cancelled>>,
         lookups' \in [Runs -> SUBSET Ranges], grpcurl' \in [Runs -> SUBSET Bases],
         unread' \in [Runs -> SUBSET Bases],
         NEW s \in Seq(Endpoints), endpoints' = [endpoints EXCEPT ![r] = s],
         NEW l, pc' = [pc EXCEPT ![r] = l], IInv,
         l \in Probing => s # <<>>, l \in {"annotation", "lb", "cleanup"} => s = <<>>
  PROVE  DataInv'
<1>1. /\ endpoints'[r] = s /\ pc'[r] = l
      /\ \A q \in Runs \ {r} : endpoints'[q] = endpoints[q] /\ pc'[q] = pc[q]
      /\ endpoints' = [q \in Runs |-> endpoints'[q]]
  BY DEF DataInv, IInv
<1>2. \A q \in Runs : Queue(q)'
  BY <1>1 DEF DataInv, Queue
<1>3. \A x : Honest(x)' <=> Honest(x)
  BY DEF Honest
<1>4. \A q \in Runs : \A x \in results'[q] : x \in Verdicts /\ Honest(x)
  BY ReportGrows DEF DataInv, Sound
<1>5. QED
  BY <1>1, <1>2, <1>3, <1>4, ReportGrows DEF DataInv

LEMMA TurnGoes ==
  ASSUME IInv, NEW r \in Runs, NextDirection(r)
  PROVE  \E l \in {"annotation", "return"} : pc' = [pc EXCEPT ![r] = l]
BY DEF NextDirection, Goto

(* The results of CheckEndpointNoProxy are what isHostCoveredByNoProxy said *)
LEMMA NoProxySound ==
  ASSUME IInv, NEW r \in Runs, NEW names \in SUBSET (Endpoints \cup Ranges)
  PROVE  Sound(r, NoProxyResults(cl[r], names))
<1> DEFINE R(n) == Result("noproxy", cl[r], n,
                     IF isHostCoveredByNoProxy(Host(cl[r], n), world.noProxy[Peer(cl[r])])
                       THEN "PASS" ELSE "FAIL")
<1>1. ASSUME NEW n \in names  PROVE R(n) \in Verdicts /\ Honest(R(n)) /\ R(n).cl = cl[r]
  BY DEF IInv, Result, Verdicts, Places, Honest, Refusals
<1>2. \A x \in NoProxyResults(cl[r], names) : \E n \in names : x = R(n)
  BY DEF NoProxyResults
<1> HIDE DEF R
<1>3. QED
  BY <1>1, <1>2 DEF Sound

LEMMA RefusalSound ==
  ASSUME IInv, NEW r \in Runs, NEW check \in Refusals
  PROVE  Sound(r, Fails(r, check)) /\ Sound(r, Warns(r, check))
BY DEF IInv, Sound, Fails, Warns, Result, Verdicts, Places, Honest, Refusals

LEMMA ContinueData ==
  ASSUME IInv, DataInv, NEW r \in Runs, pc[r] \in Finding, NEW eps \in Seq(Endpoints),
         NEW cidrs \in SUBSET Ranges, NEW xs, NEW next \in Finding,
         Continue(r, eps, cidrs, xs, next), Sound(r, xs),
         next = "lb" => pc[r] = "annotation" /\ eps = <<>>, next # "annotation",
         unread' \in [Runs -> SUBSET Bases], UNCHANGED discoveryUnchanged
  PROVE  DataInv'
<1> DEFINE s == endpoints[r] \o eps
<1>1. s \in Seq(Endpoints) /\ (next = "lb" => s = <<>>)
  BY ConcatIsUnion DEF DataInv, Queue
<1>2. /\ endpoints' = [endpoints EXCEPT ![r] = s] /\ pc' = [pc EXCEPT ![r] = next]
      /\ Report(r, xs) /\ UNCHANGED <<world, cancelled, grpcurl>>
      /\ lookups' \in [Runs -> SUBSET Ranges] /\ grpcurl \in [Runs -> SUBSET Bases]
  BY DEF Continue, Goto, discoveryUnchanged, DataInv
<1> HIDE DEF s
<1>3. QED
  BY <1>1, <1>2, StepOfRun DEF Probing, Finding

LEMMA DiscoveredData ==
  ASSUME IInv, DataInv, NEW r \in Runs, pc[r] \in Finding, NEW eps \in Seq(Endpoints),
         NEW cidrs \in SUBSET Ranges, NEW xs, Discovered(r, eps, cidrs, xs), Sound(r, xs),
         unread' \in [Runs -> SUBSET Bases], UNCHANGED discoveryUnchanged
  PROVE  DataInv'
<1> DEFINE s == endpoints[r] \o eps
           ys == xs \cup NoProxyResults(cl[r], lookups[r] \cup cidrs \cup ToSet(s))
<1>1. s \in Seq(Endpoints)
  BY ConcatIsUnion DEF DataInv, Queue
<1>2. lookups[r] \cup cidrs \cup ToSet(s) \in SUBSET (Endpoints \cup Ranges)
  <2>1. ToSet(s) \subseteq Endpoints
    BY <1>1, LenProperties DEF ToSet
  <2>2. QED
    BY <2>1 DEF DataInv
<1>3. Sound(r, ys)
  BY <1>2, NoProxySound DEF Sound
<1>4. /\ endpoints' = [endpoints EXCEPT ![r] = s] /\ Report(r, ys)
      /\ UNCHANGED <<world, cancelled, grpcurl>>
      /\ lookups' \in [Runs -> SUBSET Ranges] /\ grpcurl \in [Runs -> SUBSET Bases]
  BY DEF Discovered, discoveryUnchanged, DataInv
<1>5. \/ s = <<>> /\ \E l \in {"annotation", "return"} : pc' = [pc EXCEPT ![r] = l]
      \/ s # <<>> /\ pc' = [pc EXCEPT ![r] = "deploy"]
  BY TurnGoes DEF Discovered, Goto
<1> HIDE DEF s, ys
<1>6. QED
  BY <1>1, <1>3, <1>4, <1>5, StepOfRun DEF Probing

LEMMA ObjectsOfSelf ==
  ASSUME IInv, DataInv, NEW r \in Runs
  PROVE  /\ Self(r) \in Objects /\ cl[r] \in Bases
         /\ Self(r).nodes \in Seq(Endpoints)
<1>1. world.objects \in [Bases -> Objects] /\ cl[r] \in Bases
  BY WorldsAssumption DEF DataInv, IInv
<1>2. Self(r) \in Objects
  BY <1>1 DEF Self
<1>3. <<"node1", "node2">> \in Seq(Endpoints) /\ <<"node1">> \in Seq(Endpoints)
  BY DEF Endpoints
<1>4. QED
  BY <1>1, <1>2, <1>3, NoEndpoint DEF Objects

LEMMA EmptySound == \A r : Sound(r, {})
BY DEF Sound

LEMMA ExportSound ==
  ASSUME IInv, NEW r \in Runs
  PROVE  Sound(r, {Result("export", cl[r], "any", "PASS")})
BY DEF IInv, Sound, Result, Verdicts, Places, Honest, Refusals

LEMMA DiscoveryData ==
  ASSUME IInv, DataInv, NEW r \in Runs, Discovery(r)  PROVE DataInv'
<1> USE EmptySound, NoEndpoint
<1>0. \A e \in Endpoints : <<e>> \in Seq(Endpoints)
  BY OneEndpoint
<1>1. \A check \in Refusals : Sound(r, Fails(r, check)) /\ Sound(r, Warns(r, check))
  BY RefusalSound
<1>2. unread \in [Runs -> SUBSET Bases] /\ cl[r] \in Bases
  BY DEF DataInv, IInv
<1>3. CASE ExportedAddress(r)
  <2>1. pc[r] = "annotation" /\ UNCHANGED discoveryUnchanged
    BY <1>3 DEF ExportedAddress, Answered, At
  <2>2. unread' \in [Runs -> SUBSET Bases]
    BY <1>2, <1>3 DEF ExportedAddress
  <2>3. \/ Discovered(r, <<"exported">>, {}, {}) \/ Continue(r, <<>>, {}, {}, "lb")
    BY <1>3 DEF ExportedAddress
  <2>4. QED
    BY <1>0, <2>1, <2>2, <2>3, DiscoveredData, ContinueData DEF Finding, Endpoints
<1>4. CASE ProviderLB(r)
  <2>1. pc[r] = "lb" /\ UNCHANGED discoveryUnchanged /\ unread' = unread
    BY <1>4 DEF ProviderLB, Answered, At
  <2>2. \E eps \in {<<>>, <<"lb">>}, xs \in {{}, Warns(r, "lb"), Fails(r, "lb")} :
          Continue(r, eps, {}, xs, "service")
    BY <1>4 DEF ProviderLB
  <2>3. <<"lb">> \in Seq(Endpoints)
    BY <1>0 DEF Endpoints
  <2>4. QED
    BY <1>1, <1>2, <2>1, <2>2, <2>3, ContinueData DEF Finding, Refusals
<1>5. CASE ProviderServiceAlone(r)
  <2>1. pc[r] = "service" /\ UNCHANGED discoveryUnchanged /\ unread' = unread
    BY <1>5 DEF ProviderServiceAlone, Answered, At
  <2>2. \E eps \in {<<>>, <<"svc">>}, xs \in {{}, Warns(r, "svc"), Fails(r, "svc")} :
          Discovered(r, eps, {}, xs)
    BY <1>5 DEF ProviderServiceAlone
  <2>3. <<"svc">> \in Seq(Endpoints)
    BY <1>0 DEF Endpoints
  <2>4. QED
    BY <1>1, <1>2, <2>1, <2>2, <2>3, DiscoveredData DEF Finding, Refusals
<1>6. CASE ProviderServiceMore(r)
  <2>1. pc[r] = "service" /\ UNCHANGED discoveryUnchanged /\ unread' = unread
    BY <1>6 DEF ProviderServiceMore, Answered, At
  <2>2. \E next \in {"export", "serviceCIDR"} : Continue(r, <<>>, {}, {}, next)
    BY <1>6 DEF ProviderServiceMore
  <2>3. QED
    BY <1>2, <2>1, <2>2, ContinueData DEF Finding
<1>7. CASE ServiceCIDR(r)
  <2>1. pc[r] = "serviceCIDR" /\ UNCHANGED discoveryUnchanged /\ unread' = unread
    BY <1>7 DEF ServiceCIDR, Answered, At
  <2>2. PICK cidrs \in {{}, {"serviceCIDR"}}, xs \in {{}, Warns(r, "serviceCIDR")},
             next \in {"nodes", "clusterCIDR"} : Continue(r, <<>>, cidrs, xs, next)
    BY <1>7 DEF ServiceCIDR
  <2>3. /\ cidrs \in SUBSET Ranges /\ next \in Finding /\ pc[r] \in Finding
        /\ next # "lb" /\ next # "annotation"
    BY <2>1 DEF Finding, Ranges
  <2>4. Sound(r, xs)
    BY <1>1 DEF Refusals
  <2>5. QED
    BY <1>2, <2>1, <2>2, <2>3, <2>4, ContinueData
<1>8. CASE StorageNodes(r)
  <2>1. pc[r] = "nodes" /\ UNCHANGED discoveryUnchanged /\ unread' = unread
    BY <1>8 DEF StorageNodes, Answered, At
  <2>2. \E eps \in {<<>>, Self(r).nodes}, xs \in {{}, Fails(r, "nodes")} :
          Discovered(r, eps, {}, xs)
    BY <1>8 DEF StorageNodes
  <2>3. QED
    BY <1>1, <1>2, <2>1, <2>2, ObjectsOfSelf, DiscoveredData DEF Finding, Refusals
<1>9. CASE ClusterCIDR(r)
  <2>1. pc[r] = "clusterCIDR" /\ UNCHANGED discoveryUnchanged /\ unread' = unread
    BY <1>9 DEF ClusterCIDR, Answered, At
  <2>2. \E cidrs \in {{}, {"clusterCIDR"}}, xs \in {{}, Warns(r, "clusterCIDR")} :
          Discovered(r, <<"clusterIP">>, cidrs, xs)
    BY <1>9 DEF ClusterCIDR
  <2>3. <<"clusterIP">> \in Seq(Endpoints)
    BY <1>0 DEF Endpoints
  <2>4. QED
    BY <1>1, <1>2, <2>1, <2>2, <2>3, DiscoveredData DEF Finding, Refusals, Ranges
<1>10. CASE ServiceExport(r)
  <2>1. pc[r] = "export" /\ UNCHANGED discoveryUnchanged /\ unread' = unread
    BY <1>10 DEF ServiceExport, Answered, At
  <2>2. \E xs \in {{Result("export", cl[r], "any", "PASS")}, Fails(r, "export")} :
          Continue(r, <<>>, {}, xs, "name")
    BY <1>10 DEF ServiceExport
  <2>3. Sound(r, Fails(r, "export"))
    BY DEF IInv, Sound, Fails, Result, Verdicts, Places, Honest, Refusals
  <2>4. QED
    BY <1>2, <2>1, <2>2, <2>3, ExportSound, ContinueData DEF Finding
<1>11. CASE ManagedName(r)
  <2>1. pc[r] = "name" /\ UNCHANGED discoveryUnchanged /\ unread' = unread
    BY <1>11 DEF ManagedName, Answered, At
  <2>2. \E eps \in {<<>>, <<"clusterset">>}, xs \in {{}, Fails(r, "name")} :
          Discovered(r, eps, {}, xs)
    BY <1>11 DEF ManagedName
  <2>3. <<"clusterset">> \in Seq(Endpoints)
    BY <1>0 DEF Endpoints
  <2>4. QED
    BY <1>1, <1>2, <2>1, <2>2, <2>3, DiscoveredData DEF Finding, Refusals
<1>12. QED
  BY <1>3, <1>4, <1>5, <1>6, <1>7, <1>8, <1>9, <1>10, <1>11 DEF Discovery

(* The next endpoint, or the clean-up when there is none *)
LEMMA NextEndpointGoes ==
  ASSUME IInv, DataInv, NEW r \in Runs, pc[r] \in Probing, NextEndpoint(r)
  PROVE  \E s \in Seq(Endpoints), l \in {"curl", "cleanup"} :
           /\ s = Tail(endpoints[r])
           /\ endpoints' = [endpoints EXCEPT ![r] = s] /\ pc' = [pc EXCEPT ![r] = l]
           /\ l = "cleanup" <=> s = <<>>
<1>1. /\ Tail(endpoints[r]) \in Seq(Endpoints)
      /\ Tail(endpoints[r]) # <<>> <=> Len(endpoints[r]) > 1
  BY HeadAndTail DEF DataInv, Queue
<1>2. /\ endpoints' = [endpoints EXCEPT ![r] = Tail(endpoints[r])]
      /\ pc' = [pc EXCEPT ![r] = IF Len(endpoints[r]) > 1 THEN "curl" ELSE "cleanup"]
  BY DEF NextEndpoint, Goto
<1>3. QED
  BY <1>1, <1>2

LEMMA InitData == Init => DataInv
BY NoEndpoint DEF Init, DataInv, Queue, Probing, Bases, Ranges

LEMMA ReachabilityData ==
  ASSUME IInv, DataInv, NEW r \in Runs, Reachability(r)  PROVE DataInv'
<1>1. /\ lookups \in [Runs -> SUBSET Ranges] /\ grpcurl \in [Runs -> SUBSET Bases]
      /\ unread \in [Runs -> SUBSET Bases] /\ cl[r] \in Bases /\ Peer(cl[r]) \in Bases
      /\ endpoints[r] \in Seq(Endpoints) /\ endpoints = [endpoints EXCEPT ![r] = endpoints[r]]
  BY DEF DataInv, Queue, IInv, Peer, Bases
<1>2. pc[r] \in Probing => endpoints[r] # <<>> /\ Head(endpoints[r]) \in Endpoints
  BY HeadAndTail DEF DataInv, Queue
<1>3. ASSUME UNCHANGED <<podUnchanged, endpoints, results>>, pc[r] \in Probing,
             grpcurl' \in [Runs -> SUBSET Bases],
             NEW l \in Probing, pc' = [pc EXCEPT ![r] = l]
      PROVE  DataInv'
  <2>1. Report(r, {}) /\ UNCHANGED <<world, cancelled, lookups, unread>>
    BY <1>3, NothingReported DEF podUnchanged
  <2>2. endpoints' = [endpoints EXCEPT ![r] = endpoints[r]] /\ endpoints[r] # <<>>
    BY <1>1, <1>2, <1>3
  <2>3. l \notin {"annotation", "lb", "cleanup"}
    BY <1>3 DEF Probing
  <2>4. QED
    BY <1>1, <1>3, <2>1, <2>2, <2>3, EmptySound, StepOfRun
<1>4. ASSUME NEW x, Report(r, {x}), x \in Verdicts, Honest(x), x.cl = cl[r],
             UNCHANGED <<podUnchanged, grpcurl>>, pc[r] \in Probing, NextEndpoint(r)
      PROVE  DataInv'
  <2>1. UNCHANGED <<world, cancelled, lookups, unread>> /\ Sound(r, {x})
    BY <1>4 DEF podUnchanged, Sound
  <2>2. PICK s \in Seq(Endpoints), l \in {"curl", "cleanup"} :
          /\ endpoints' = [endpoints EXCEPT ![r] = s] /\ pc' = [pc EXCEPT ![r] = l]
          /\ l = "cleanup" <=> s = <<>>
    BY <1>4, NextEndpointGoes
  <2>3. /\ l \in Probing => s # <<>>
        /\ l \in {"annotation", "lb", "cleanup"} => s = <<>>
    <3>1. l # "cleanup" => s # <<>>
      BY <2>2
    <3>2. l \in {"curl", "cleanup"} /\ (l = "cleanup" => s = <<>>)
      BY <2>2
    <3>3. QED
      BY <3>1, <3>2 DEF Probing
  <2>4. QED
    BY <1>1, <1>4, <2>1, <2>2, <2>3, StepOfRun
<1>5. CASE Deploys(r)
  BY <1>1, <1>3, <1>5 DEF Deploys, Answered, Goto, Probing
<1>6. CASE DeployFails(r)
  <2>1. /\ UNCHANGED <<world, cancelled, lookups, unread, grpcurl>>
        /\ endpoints' = [endpoints EXCEPT ![r] = <<>>] /\ Report(r, Fails(r, "deploy"))
        /\ \E l \in {"annotation", "return"} : pc' = [pc EXCEPT ![r] = l]
    BY <1>6, TurnGoes DEF DeployFails, podUnchanged
  <2>2. Sound(r, Fails(r, "deploy"))
    BY RefusalSound DEF Refusals
  <2>3. QED
    BY <1>1, <2>1, <2>2, NoEndpoint, StepOfRun DEF Probing
<1>7. CASE PodIsReady(r)
  BY <1>1, <1>3, <1>7 DEF PodIsReady, Answered, Goto, Probing
<1>8. CASE WaitFails(r)
  <2>1. /\ UNCHANGED <<world, cancelled, lookups, unread, grpcurl>>
        /\ endpoints' = [endpoints EXCEPT ![r] = <<>>] /\ Report(r, Fails(r, "wait"))
        /\ pc' = [pc EXCEPT ![r] = "cleanup"]
    BY <1>8 DEF WaitFails, podUnchanged, Goto
  <2>2. Sound(r, Fails(r, "wait"))
    BY RefusalSound DEF Refusals
  <2>3. QED
    BY <1>1, <2>1, <2>2, NoEndpoint, StepOfRun DEF Probing
<1>9. CASE InstallGrpcurl(r)
  <2>1. grpcurl' \in [Runs -> SUBSET Bases]
    BY <1>1, <1>9 DEF InstallGrpcurl
  <2>2. QED
    BY <1>3, <1>9, <2>1 DEF InstallGrpcurl, At, Goto, Probing
<1>10. CASE TestEndpoint(r)
  <2> DEFINE x(status) == Result("curl", cl[r], Head(endpoints[r]), status)
  <2>1. pc[r] \in Probing /\ Head(endpoints[r]) \in Endpoints
    BY <1>2, <1>10 DEF TestEndpoint, At, Probing
  <2>2. \A status \in {"PASS", "FAIL"} : x(status) \in Verdicts /\ x(status).cl = cl[r]
    BY <1>1, <2>1 DEF Result, Verdicts, Places
  <2>3. /\ Honest(x("FAIL"))
        /\ <<cl[r], Head(endpoints[r])>> \in world.reach => Honest(x("PASS"))
    BY DEF Result, Honest, Refusals
  <2>4. UNCHANGED <<podUnchanged, grpcurl>> /\ UNCHANGED <<world, cancelled, lookups, unread>>
    BY <1>10 DEF TestEndpoint, podUnchanged
  <2>5. \E status \in {"PASS", "FAIL"} :
          /\ Report(r, {x(status)}) /\ Honest(x(status))
          /\ NextEndpoint(r) \/ (pc' = [pc EXCEPT ![r] = "grpc"] /\ UNCHANGED endpoints)
    BY <1>10, <2>3 DEF TestEndpoint, Goto
  <2> HIDE DEF x
  <2>6. PICK status \in {"PASS", "FAIL"} :
          /\ Report(r, {x(status)}) /\ Honest(x(status))
          /\ NextEndpoint(r) \/ (pc' = [pc EXCEPT ![r] = "grpc"] /\ UNCHANGED endpoints)
    BY <2>5
  <2>7. CASE NextEndpoint(r)
    BY <1>4, <2>1, <2>2, <2>4, <2>6, <2>7
  <2>8. CASE pc' = [pc EXCEPT ![r] = "grpc"] /\ UNCHANGED endpoints
    <3>1. endpoints' = [endpoints EXCEPT ![r] = endpoints[r]] /\ endpoints[r] # <<>>
      BY <1>1, <1>2, <2>1, <2>8
    <3>2. Sound(r, {x(status)})
      BY <2>2, <2>6 DEF Sound
    <3>3. QED
      BY <1>1, <2>4, <2>6, <2>8, <3>1, <3>2, StepOfRun
  <2>9. QED
    BY <2>6, <2>7, <2>8
<1>11. CASE TestGrpc(r)
  <2> DEFINE x(status) == Result("grpc", cl[r], Head(endpoints[r]), status)
  <2>1. pc[r] \in Probing /\ Head(endpoints[r]) \in Endpoints
    BY <1>2, <1>11 DEF TestGrpc, At, Probing
  <2>2. \A status \in {"PASS", "FAIL"} : x(status) \in Verdicts /\ x(status).cl = cl[r]
    BY <1>1, <2>1 DEF Result, Verdicts, Places
  <2>3. \A status \in {"PASS", "FAIL"} :
          (status = "PASS" => <<cl[r], Head(endpoints[r])>> \in world.serves)
             => Honest(x(status))
    BY DEF Result, Honest, Refusals
  <2>4. /\ UNCHANGED <<podUnchanged, grpcurl>> /\ NextEndpoint(r)
        /\ \E status \in {"PASS", "FAIL"} : Report(r, {x(status)}) /\ Honest(x(status))
    BY <1>11, <2>3 DEF TestGrpc
  <2> HIDE DEF x
  <2>5. QED
    BY <1>4, <2>1, <2>2, <2>4
<1>12. CASE CleanUp(r)
  <2>1. /\ UNCHANGED <<world, cancelled, lookups, unread, grpcurl, endpoints>>
        /\ \E l \in {"annotation", "return"} : pc' = [pc EXCEPT ![r] = l]
        /\ pc[r] = "cleanup" /\ Report(r, {})
    BY <1>12, TurnGoes, NothingReported DEF CleanUp, podUnchanged, At
  <2>2. endpoints' = [endpoints EXCEPT ![r] = <<>>]
    BY <1>1, <2>1 DEF DataInv, Queue
  <2>3. QED
    BY <1>1, <2>1, <2>2, NoEndpoint, EmptySound, StepOfRun DEF Probing
<1>13. QED
  BY <1>5, <1>6, <1>7, <1>8, <1>9, <1>10, <1>11, <1>12 DEF Reachability

LEMMA StepData == IInv /\ DataInv /\ [Next]_vars => DataInv'
<1> SUFFICES ASSUME IInv, DataInv, [Next]_vars  PROVE DataInv'
  OBVIOUS
<1>1. ASSUME UNCHANGED <<world, endpoints, lookups, grpcurl, unread, results>>,
             cancelled' \in [Runs -> BOOLEAN],
             \A q \in Runs : pc'[q] = pc[q] \/ pc'[q] \in {"returned", "killed"}
      PROVE  DataInv'
  BY <1>1 DEF DataInv, Queue, Honest, Probing
<1>2. ASSUME NEW r \in Runs, Return(r)  PROVE DataInv'
  BY <1>1, <1>2 DEF Return, podUnchanged, Goto, IInv, DataInv
<1>3. ASSUME NEW r \in Runs, Interrupt(r)  PROVE DataInv'
  BY <1>1, <1>3 DEF Interrupt, DataInv
<1>4. ASSUME NEW r \in Runs, Kill(r)  PROVE DataInv'
  BY <1>1, <1>4 DEF Kill, Goto, IInv, DataInv
<1>5. ASSUME NEW s \in Slots, Cluster(s)  PROVE DataInv'
  BY <1>1, <1>5 DEF Cluster, runVars, DataInv
<1>6. CASE UNCHANGED vars
  BY <1>1, <1>6 DEF vars, runVars, DataInv
<1>7. QED
  BY <1>2, <1>3, <1>4, <1>5, <1>6, DiscoveryData, ReachabilityData DEF Next, RunStep

LEMMA DataInductive == Spec => []DataInv
BY InitData, StepData, Inductive, PTL DEF Spec

(* Types, with the server's from the discipline; and a run has an endpoint  *)
(* left wherever it creates, awaits or uses a pod (provider.go:94, 439).    *)
THEOREM TypeCorrect == Spec => []TypeOK
<1>1. Pod!TypeOK => ServerTypeOK
  BY DEF Pod!TypeOK, Pod!ServerTypeOK, Pod!Pods, Pod!Phases, Pod!Living, Pod!IsFree,
       ServerTypeOK, Pods, Phases, Living, IsFree
<1>2. ASSUME DataInv, NEW r \in Runs
      PROVE  ToSet(endpoints[r]) \subseteq Endpoints
  BY <1>2, LenProperties DEF DataInv, Queue, ToSet
<1>3. IInv /\ DataInv /\ ServerTypeOK => TypeOK
  BY <1>2 DEF IInv, DataInv, Queue, TypeOK, Calls, PodCalls, FreeCalls, Probing
<1>4. Pod!Spec => []Pod!TypeOK
  BY NobodyAssumption, Pod!TypeCorrect
<1>5. QED
  BY <1>1, <1>3, <1>4, Inductive, DataInductive, ImplementsDiscipline, SameDiscipline, PTL

-----------------------------------------------------------------------------
(* The matching of NoProxyProofs, for the hosts and lists of this check *)

NP == INSTANCE NoProxyProofs

LEMMA SameMatching ==
  ASSUME NEW h, NEW entries
  PROVE  /\ isHostCoveredByNoProxy(h, entries) <=> NP!isHostCoveredByNoProxy(h, entries)
         /\ Bypasses(h, entries) <=> NP!Bypasses(h, entries)
         /\ \A e : EntryHolds(e, h) <=> NP!EntryHolds(e, h)
<1>1. \A e : EntryCovers(e, h) <=> NP!EntryCovers(e, h)
  BY DEF EntryCovers, IPNetContains, cidrContains, ProperSuffix,
         NP!EntryCovers, NP!IPNetContains, NP!cidrContains, NP!ProperSuffix
<1>2. \A k : AddressesOf(k) = NP!AddressesOf(k)
  BY DEF AddressesOf, IPNetContains, NP!AddressesOf, NP!IPNetContains
<1>3. \A e : EntryHolds(e, h) <=> NP!EntryHolds(e, h)
  BY <1>2 DEF EntryHolds, Above, NP!EntryHolds, NP!Above
<1>4. QED
  BY <1>1, <1>3 DEF isHostCoveredByNoProxy, Bypasses, NP!isHostCoveredByNoProxy, NP!Bypasses

LEMMA SameKinds ==
  /\ IPs \subseteq NP!IPs /\ Names \subseteq NP!Names /\ Domains \subseteq NP!Domains
<1>1. ASSUME NEW h \in IPs  PROVE h \in NP!IPs
  <2>1. PICK w \in Widths :
          h \in {Address(b, s) : b \in Addresses(w), s \in Spellings} \cup Cidrs(w)
    BY DEF IPs
  <2>2. w \in Nat
    BY HostsAssumption
  <2>3. h \in {NP!Address(b, s) : b \in NP!Addresses(w), s \in Spellings} \cup NP!Cidrs(w)
    BY <2>1 DEF Address, Addresses, Cidrs, Cidr, NP!Address, NP!Addresses, NP!Cidrs, NP!Cidr
  <2>4. QED
    BY <2>2, <2>3 DEF NP!IPs
<1>2. ASSUME NEW h \in Names  PROVE h \in NP!Names
  <2>1. h = NP!Name(h.labels) /\ h.labels \in Seq(Labels) \ {<<>>}
    BY DEF Names, NP!Name
  <2>2. QED
    BY <2>1 DEF NP!Names
<1>3. ASSUME NEW h \in Domains  PROVE h \in NP!Domains
  <2>1. h = NP!Domain(h.labels) /\ h.labels \in Seq(Labels) \ {<<>>}
    BY DEF Domains, NP!Domain
  <2>2. QED
    BY <2>1 DEF NP!Domains
<1>4. QED
  BY <1>1, <1>2, <1>3

LEMMA ListsAreTyped ==
  ASSUME DataInv, NEW c \in Bases, NEW n \in Endpoints \cup Ranges
  PROVE  /\ world.noProxy[Peer(c)] \in SUBSET NP!Entries
         /\ Host(c, n) \in NP!Hosts
<1>1. world.noProxy[Peer(c)] \subseteq IPs \cup Names \cup Domains \cup {Wildcard}
  BY WorldsAssumption DEF DataInv, Peer, Bases
<1>2. Wildcard = NP!Wildcard
  BY DEF Wildcard, NP!Wildcard
<1>3. QED
  BY <1>1, <1>2, SameKinds, HostsAssumption DEF NP!Entries, NP!Hosts

LEMMA CoveredIsBypassed ==
  ASSUME DataInv, NEW c \in Bases, NEW n \in Endpoints \cup Ranges,
         isHostCoveredByNoProxy(Host(c, n), world.noProxy[Peer(c)])
  PROVE  Bypasses(Host(c, n), world.noProxy[Peer(c)])
<1> DEFINE h == Host(c, n)
           list == world.noProxy[Peer(c)]
<1>1. list \in SUBSET NP!Entries /\ h \in NP!Hosts
  BY ListsAreTyped
<1>2. NP!isHostCoveredByNoProxy(h, list)
  BY SameMatching
<1> HIDE DEF h, list
<1>3. NP!Bypasses(h, list)
  BY <1>1, <1>2, NP!CoveredHostsBypass
<1>4. QED
  BY <1>3, SameMatching DEF h, list

LEMMA MissedIsOverlooked ==
  ASSUME DataInv, NEW c \in Bases, NEW n \in Endpoints \cup Ranges,
         ~isHostCoveredByNoProxy(Host(c, n), world.noProxy[Peer(c)]),
         NEW e \in world.noProxy[Peer(c)], EntryHolds(e, Host(c, n))
  PROVE  Overlooked(e, Host(c, n))
<1> DEFINE h == Host(c, n)
           list == world.noProxy[Peer(c)]
<1>1. list \in SUBSET NP!Entries /\ h \in NP!Hosts
  BY ListsAreTyped
<1>2. ~NP!isHostCoveredByNoProxy(h, list) /\ NP!EntryHolds(e, h)
  BY SameMatching
<1> HIDE DEF h
<1>3. NP!Overlooked(e, h)
  BY <1>1, <1>2, NP!OnlyOverlookedAreMissed
<1>4. QED
  BY <1>3 DEF NP!Overlooked, Overlooked, h

(* Every noProxy PASS of the report is the truth about the peer's           *)
(* connections, and every FAIL but for the entries that proxy.go:135 does   *)
(* not recognize, for lists, hosts and ranges of any size.                  *)
THEOREM VerdictsAreExact == Spec => []NoProxyVerdictsAreExact
<1>1. DataInv => NoProxyVerdictsAreExact
  <2> SUFFICES ASSUME DataInv, NEW r \in Runs, NEW x \in results[r], x.check = "noproxy"
               PROVE  LET host == Host(x.cl, x.at)
                          list == world.noProxy[Peer(x.cl)]
                      IN  /\ x.status = "PASS" => Bypasses(host, list)
                          /\ x.status # "PASS" =>
                               \A e \in list : EntryHolds(e, host) => Overlooked(e, host)
    BY DEF NoProxyVerdictsAreExact
  <2>1. /\ x.cl \in Bases /\ x.at \in Endpoints \cup Ranges
        /\ x.status = "PASS" <=>
             isHostCoveredByNoProxy(Host(x.cl, x.at), world.noProxy[Peer(x.cl)])
    BY DEF DataInv, Honest, Verdicts
  <2>2. QED
    BY <2>1, CoveredIsBypassed, MissedIsOverlooked
<1>2. QED
  BY <1>1, DataInductive, PTL

-----------------------------------------------------------------------------
(* The report.  While a direction is being discovered, the endpoints found  *)
(* are those advertised so far, or something is said of the one missing;    *)
(* from the pod on, the endpoints are those with a curl result and those    *)
(* still to come.                                                           *)

Says(X, check, c)   == \E x \in X : x.check = check /\ x.cl = c
Has(X, check, c, n) == \E x \in X : x.check = check /\ x.cl = c /\ x.at = n
Passed(X, c, n)     == \E x \in X : /\ x.check = "curl" /\ x.cl = c /\ x.at = n
                                    /\ x.status = "PASS"

Complained(X, c) == \E check \in {"lb", "svc", "nodes", "name"} : Says(X, check, c)
Podless(X, c)    == Says(X, "deploy", c) \/ Says(X, "wait", c)
Unprobed(X, c)   == ~Podless(X, c) /\ ~Says(X, "curl", c) /\ ~Says(X, "grpc", c)

(* The peer's noProxy list was asked about all it has to hold *)
Looked(r, c) ==
  \/ Peer(c) \notin world.proxied
  \/ Complained(results[r], c) \/ c \in unread[r]
  \/ Says(results[r], "serviceCIDR", c) \/ Says(results[r], "clusterCIDR", c)
  \/ \A n \in Advertised(c) \cup RoutedCidrs(c) : Has(results[r], "noproxy", c, n)

(* With those in E, the endpoints are the advertised ones *)
Reached(r, c, E) ==
  \/ Podless(results[r], c) \/ Complained(results[r], c) \/ c \in unread[r]
  \/ \A n \in Places : Has(results[r], "curl", c, n) \/ n \in E <=> n \in Advertised(c)

(* With those in E, gRPC was asked where curl was answered *)
Paired(r, c, E) ==
  \A n \in Places : Has(results[r], "grpc", c, n) \/ n \in E <=>
                      Peer(c) \in grpcurl[r] /\ Passed(results[r], c, n)

(* A direction that is over *)
Final(r, c) ==
  /\ Looked(r, c) /\ Reached(r, c, {}) /\ Paired(r, c, {})
  /\ Podless(results[r], c) => ~Says(results[r], "curl", c)
  /\ Podless(results[r], c) \/ Complained(results[r], c) \/ Says(results[r], "curl", c)

Sought(r, c) ==
  LET o == world.objects[c] IN
  /\ Unprobed(results[r], c)
  /\ pc[r] # "annotation" => c \in unread[r] \/ ~o.exported
  /\ pc[r] \in Finding \ {"annotation", "lb"} =>
       \/ Complained(results[r], c)
       \/ ToSet(endpoints[r]) = {e \in {"lb"} : o.lb = "assigned"}
  /\ pc[r] \in {"serviceCIDR", "nodes", "clusterCIDR"} =>
       o.ready /\ (o.type = "NodePort" \/ (o.type = "ClusterIP" /\ ~o.globalNet))
  /\ pc[r] = "nodes" => o.type = "NodePort"
  /\ pc[r] = "clusterCIDR" => o.type = "ClusterIP"
  /\ pc[r] \in {"nodes", "clusterCIDR"} =>
       "serviceCIDR" \in lookups[r] \/ Says(results[r], "serviceCIDR", c)
  /\ pc[r] \in {"export", "name"} => o.type = "ClusterIP" /\ o.globalNet

(* A direction with its endpoints found, and before the loop is done *)
Probed(r, c) ==
  /\ Looked(r, c) /\ Reached(r, c, ToSet(endpoints[r])) /\ ~Podless(results[r], c)
  /\ pc[r] \in {"deploy", "wait", "grpcurl"} => Unprobed(results[r], c)
  /\ pc[r] = "curl" => Paired(r, c, {})
  /\ pc[r] = "grpc" => Paired(r, c, {Head(endpoints[r])})

Stage(r, c) ==
  /\ pc[r] \in Finding => Sought(r, c)
  /\ pc[r] \in Probing => Probed(r, c)
  /\ pc[r] \in {"cleanup", "return", "returned"} => Final(r, c)

Account(r) ==
  /\ Stage(r, cl[r])
  /\ cl[r] = "c1" => Unprobed(results[r], "c2") /\ pc[r] \notin {"return", "returned"}
  /\ cl[r] = "c2" => Final(r, "c1")

AccountInv == \A r \in Runs : Account(r)

LEMMA AdvertisedIsPlaces ==
  ASSUME NEW c  PROVE Advertised(c) \subseteq Endpoints /\ Endpoints \subseteq Places
BY DEF Advertised, Places, Endpoints

LEMMA BothFinal ==
  ASSUME IInv, AccountInv, NEW r \in Runs, pc[r] = "returned", NEW c \in Bases
  PROVE  Final(r, c)
BY DEF AccountInv, Account, Stage, IInv, Bases

(* Every direction of a finished check has said something (provider.go:40): *)
(* no `return` of the discovery leaves the list of results empty.           *)
LEMMA AccountIsLoud == IInv /\ AccountInv => NoSilentDirection
<1> SUFFICES ASSUME IInv, AccountInv, NEW r \in Runs, pc[r] = "returned", NEW c \in Bases
             PROVE  ResultsOf(r, c) # {}
  BY DEF NoSilentDirection
<1>1. Podless(results[r], c) \/ Complained(results[r], c) \/ Says(results[r], "curl", c)
  BY BothFinal DEF Final
<1>2. \E check : Says(results[r], check, c)
  BY <1>1 DEF Podless, Complained
<1>3. QED
  BY <1>2 DEF Says, ResultsOf

LEMMA AccountIsComplete == IInv /\ DataInv /\ AccountInv => EveryEndpointAccounted
<1> SUFFICES ASSUME IInv, DataInv, AccountInv, NEW r \in Runs, NEW c \in Bases,
                    pc[r] = "returned"
             PROVE  LET at(check) == {x.at : x \in {y \in ResultsOf(r, c) : y.check = check}}
                        answered  == {x.at : x \in {y \in ResultsOf(r, c) :
                                                  y.check = "curl" /\ y.status = "PASS"}}
                        podless   == at("deploy") \cup at("wait") # {}
                        found     == at("lb") \cup at("svc") \cup at("nodes") \cup at("name") = {}
                    IN  /\ found /\ ~podless /\ c \notin unread[r] => at("curl") = Advertised(c)
                        /\ podless => at("curl") = {}
                        /\ at("grpc") = IF Peer(c) \in grpcurl[r] THEN answered ELSE {}
  BY DEF EveryEndpointAccounted
<1> DEFINE at(check) == {x.at : x \in {y \in ResultsOf(r, c) : y.check = check}}
           answered  == {x.at : x \in {y \in ResultsOf(r, c) :
                                     y.check = "curl" /\ y.status = "PASS"}}
           podless   == at("deploy") \cup at("wait") # {}
           found     == at("lb") \cup at("svc") \cup at("nodes") \cup at("name") = {}
<1>1. /\ \A check : at(check) = {} <=> ~Says(results[r], check, c)
      /\ \A check, n : n \in at(check) <=> Has(results[r], check, c, n)
  BY DEF Says, Has, ResultsOf
<1>2. \A n : n \in answered <=> Passed(results[r], c, n)
  BY DEF Passed, ResultsOf
<1>3. \A check : at(check) \subseteq Places /\ answered \subseteq Places
  BY DEF DataInv, Verdicts, ResultsOf
<1>4. Final(r, c)
  BY BothFinal
<1> HIDE DEF at, answered
<1>5. /\ podless <=> Podless(results[r], c)
      /\ found <=> ~Complained(results[r], c)
  BY <1>1 DEF Podless, Complained
<1>6. ASSUME found, ~podless, c \notin unread[r]  PROVE at("curl") = Advertised(c)
  <2>1. \A n \in Places : Has(results[r], "curl", c, n) <=> n \in Advertised(c)
    BY <1>4, <1>5, <1>6 DEF Final, Reached
  <2>2. QED
    BY <1>1, <1>3, <2>1, AdvertisedIsPlaces
<1>7. podless => at("curl") = {}
  BY <1>1, <1>4, <1>5 DEF Final
<1>8. at("grpc") = IF Peer(c) \in grpcurl[r] THEN answered ELSE {}
  <2>1. \A n \in Places : Has(results[r], "grpc", c, n) <=>
                            Peer(c) \in grpcurl[r] /\ Passed(results[r], c, n)
    BY <1>4 DEF Final, Paired
  <2>2. \A n : n \in at("grpc") <=> Peer(c) \in grpcurl[r] /\ n \in answered
    BY <1>1, <1>2, <1>3, <2>1
  <2>3. QED
    BY <2>2
<1>9. QED
  BY <1>6, <1>7, <1>8 DEF at, answered

LEMMA AccountIsTrue == IInv /\ DataInv /\ AccountInv => CleanDirectionIsTrue
<1>0. SUFFICES ASSUME IInv, DataInv, AccountInv, NEW r \in Runs, NEW c \in Bases,
                      pc[r] = "returned", Clean(r, c), c \notin unread[r]
               PROVE  /\ Advertised(c) # {}
                      /\ \A e \in Advertised(c) :
                           /\ <<c, e>> \in world.reach
                           /\ Peer(c) \in grpcurl[r] => <<c, e>> \in world.serves
                      /\ Peer(c) \in world.proxied =>
                           \A n \in Advertised(c) \cup RoutedCidrs(c) :
                             Bypasses(Host(c, n), world.noProxy[Peer(c)])
  BY DEF CleanDirectionIsTrue
<1>1. \A x \in results[r] : x.cl = c => x.status = "PASS"
  BY <1>0 DEF Clean, ResultsOf
<1>2. \A x \in results[r] : x \in Verdicts /\ Honest(x)
  BY <1>0 DEF DataInv
<1>3. \A check \in Refusals : ~Says(results[r], check, c)
  BY <1>1, <1>2 DEF Says, Honest
<1>4. ~Podless(results[r], c) /\ ~Complained(results[r], c)
  BY <1>3 DEF Podless, Complained, Refusals
<1>5. Final(r, c)
  BY <1>0, BothFinal
<1>6. \A n \in Places : Has(results[r], "curl", c, n) <=> n \in Advertised(c)
  BY <1>0, <1>4, <1>5 DEF Final, Reached
<1>7. Advertised(c) # {}
  <2>1. Says(results[r], "curl", c)
    BY <1>4, <1>5 DEF Final
  <2>2. PICK x \in results[r] : x.check = "curl" /\ x.cl = c
    BY <2>1 DEF Says
  <2>3. x.at \in Places /\ Has(results[r], "curl", c, x.at)
    BY <1>2, <2>2 DEF Verdicts, Has
  <2>4. QED
    BY <1>6, <2>3
<1>8. ASSUME NEW e \in Advertised(c)
      PROVE  /\ <<c, e>> \in world.reach
             /\ Peer(c) \in grpcurl[r] => <<c, e>> \in world.serves
  <2>1. e \in Places /\ Has(results[r], "curl", c, e)
    BY <1>6, AdvertisedIsPlaces
  <2>2. Passed(results[r], c, e) /\ <<c, e>> \in world.reach
    BY <1>1, <1>2, <2>1 DEF Has, Passed, Honest
  <2>3. ASSUME Peer(c) \in grpcurl[r]  PROVE <<c, e>> \in world.serves
    <3>1. Has(results[r], "grpc", c, e)
      BY <1>5, <2>1, <2>2, <2>3 DEF Final, Paired
    <3>2. QED
      BY <1>1, <1>2, <3>1 DEF Has, Honest
  <2>4. QED
    BY <2>2, <2>3
<1>9. ASSUME Peer(c) \in world.proxied, NEW n \in Advertised(c) \cup RoutedCidrs(c)
      PROVE  Bypasses(Host(c, n), world.noProxy[Peer(c)])
  <2>1. Has(results[r], "noproxy", c, n)
    BY <1>0, <1>3, <1>4, <1>5, <1>9 DEF Final, Looked, Refusals
  <2>2. isHostCoveredByNoProxy(Host(c, n), world.noProxy[Peer(c)])
    BY <1>1, <1>2, <2>1 DEF Has, Honest
  <2>3. n \in Endpoints \cup Ranges
    BY AdvertisedIsPlaces DEF RoutedCidrs
  <2>4. QED
    BY <1>0, <2>2, <2>3, CoveredIsBypassed
<1>10. QED
  BY <1>7, <1>8, <1>9

(* A step of run r that says nothing of the other runs, nor of the other    *)
(* direction                                                                *)
Local(r) ==
  /\ world' = world
  /\ \A q \in Runs \ {r} :
       /\ pc'[q] = pc[q] /\ cl'[q] = cl[q] /\ results'[q] = results[q]
       /\ endpoints'[q] = endpoints[q] /\ lookups'[q] = lookups[q]
       /\ grpcurl'[q] = grpcurl[q] /\ unread'[q] = unread[q]
  /\ results[r] \subseteq results'[r]
  /\ \A x \in results'[r] : x \in results[r] \/ x.cl = cl[r]
  /\ \A d \in Bases : d # cl[r] => /\ d \in unread'[r] <=> d \in unread[r]
                                   /\ Peer(d) \in grpcurl'[r] <=> Peer(d) \in grpcurl[r]

LEMMA SameAdvertised ==
  ASSUME world' = world, NEW c
  PROVE  Advertised(c)' = Advertised(c) /\ RoutedCidrs(c)' = RoutedCidrs(c)
BY DEF Advertised, RoutedCidrs

LEMMA AccountKept ==
  ASSUME NEW q, Account(q), world' = world, pc'[q] = pc[q], cl'[q] = cl[q],
         results'[q] = results[q], endpoints'[q] = endpoints[q], lookups'[q] = lookups[q],
         grpcurl'[q] = grpcurl[q], unread'[q] = unread[q]
  PROVE  Account(q)'
<1>1. \A c : Advertised(c)' = Advertised(c) /\ RoutedCidrs(c)' = RoutedCidrs(c)
  BY SameAdvertised
<1>2. \A c, E : /\ Reached(q, c, E)' <=> Reached(q, c, E)
                /\ Paired(q, c, E)' <=> Paired(q, c, E)
                /\ Looked(q, c)' <=> Looked(q, c)
  BY <1>1 DEF Reached, Paired, Looked
<1>3. \A c : Final(q, c)' <=> Final(q, c)
  BY <1>2 DEF Final
<1>4. \A c : Sought(q, c)' <=> Sought(q, c)
  BY DEF Sought
<1>5. \A c : Probed(q, c)' <=> Probed(q, c)
  BY <1>2 DEF Probed
<1>6. \A c : Stage(q, c)' <=> Stage(q, c)
  BY <1>3, <1>4, <1>5 DEF Stage
<1>7. QED
  BY <1>3, <1>6 DEF Account

LEMMA OtherDirection ==
  ASSUME NEW r, Local(r), NEW d \in Bases, d # cl[r]
  PROVE  /\ Unprobed(results[r], d) => Unprobed(results[r], d)'
         /\ Final(r, d) => Final(r, d)'
<1>1. \A check, n : /\ Says(results'[r], check, d) <=> Says(results[r], check, d)
                    /\ Has(results'[r], check, d, n) <=> Has(results[r], check, d, n)
                    /\ Passed(results'[r], d, n) <=> Passed(results[r], d, n)
  BY DEF Local, Says, Has, Passed
<1>2. /\ Complained(results'[r], d) <=> Complained(results[r], d)
      /\ Podless(results'[r], d) <=> Podless(results[r], d)
  BY <1>1 DEF Complained, Podless
<1>3. /\ d \in unread'[r] <=> d \in unread[r]
      /\ Peer(d) \in grpcurl'[r] <=> Peer(d) \in grpcurl[r]
      /\ world' = world
  BY DEF Local
<1>4. Advertised(d)' = Advertised(d) /\ RoutedCidrs(d)' = RoutedCidrs(d)
  BY <1>3, SameAdvertised
<1>5. /\ Reached(r, d, {})' <=> Reached(r, d, {})
      /\ Paired(r, d, {})' <=> Paired(r, d, {})
      /\ Looked(r, d)' <=> Looked(r, d)
  BY <1>1, <1>2, <1>3, <1>4 DEF Reached, Paired, Looked
<1>6. QED
  BY <1>1, <1>2, <1>5 DEF Final, Unprobed

(* A step within the direction has to account for that direction only *)
LEMMA StaysInDirection ==
  ASSUME AccountInv, NEW r \in Runs, Local(r), cl'[r] = cl[r], NEW c \in Bases, c = cl[r],
         pc'[r] \notin {"return", "returned"}, Stage(r, c)'
  PROVE  AccountInv'
<1>1. \A q \in Runs \ {r} : Account(q)'
  BY AccountKept DEF AccountInv, Local
<1>2. Account(r)'
  <2>1. Account(r)
    BY DEF AccountInv
  <2>2. Stage(r, cl[r])'
    BY DEF Stage
  <2>3. c = "c1" => Unprobed(results[r], "c2")'
    BY <2>1, OtherDirection DEF Account, Bases
  <2>4. c = "c2" => Final(r, "c1")'
    BY <2>1, OtherDirection DEF Account, Bases
  <2>5. QED
    BY <2>2, <2>3, <2>4 DEF Account
<1>3. QED
  BY <1>1, <1>2 DEF AccountInv

(* The end of a direction: the other one starts from nothing, or both are   *)
(* accounted for                                                            *)
LEMMA DirectionEnds ==
  ASSUME IInv, AccountInv, NEW r \in Runs, Local(r), NextDirection(r),
         NEW c \in Bases, c = cl[r], Final(r, c)'
  PROVE  AccountInv'
<1>1. \A q \in Runs \ {r} : Account(q)'
  BY AccountKept DEF AccountInv, Local
<1>2. Account(r)
  BY DEF AccountInv
<1>3. CASE c = "c1"
  <2>1. pc'[r] = "annotation" /\ cl'[r] = "c2"
    BY <1>3 DEF NextDirection, Goto, IInv
  <2>2. Unprobed(results[r], "c2")'
    BY <1>2, <1>3, OtherDirection DEF Account, Bases
  <2>3. Sought(r, "c2")'
    BY <2>1, <2>2 DEF Sought, Finding
  <2>4. Stage(r, "c2")'
    BY <2>1, <2>3 DEF Stage, Probing
  <2>5. Stage(r, cl[r])'
    BY <2>1, <2>4 DEF Stage
  <2>6. QED
    BY <1>1, <1>3, <2>1, <2>5 DEF AccountInv, Account
<1>4. CASE c = "c2"
  <2>1. pc'[r] = "return" /\ cl'[r] = "c2"
    BY <1>4 DEF NextDirection, Goto, IInv
  <2>2. Final(r, "c1")'
    BY <1>2, <1>4, OtherDirection DEF Account, Bases
  <2>3. Stage(r, "c2")'
    BY <1>4, <2>1 DEF Stage, Finding, Probing
  <2>4. Stage(r, cl[r])'
    BY <2>1, <2>3 DEF Stage
  <2>5. QED
    BY <1>1, <2>1, <2>2, <2>4 DEF AccountInv, Account
<1>5. QED
  BY <1>3, <1>4 DEF Bases

LEMMA LocalStep ==
  ASSUME IInv, DataInv, NEW r \in Runs, NEW xs, Report(r, xs), Sound(r, xs), world' = world,
         \A q \in Runs \ {r} : /\ pc'[q] = pc[q] /\ cl'[q] = cl[q]
                               /\ endpoints'[q] = endpoints[q] /\ lookups'[q] = lookups[q]
                               /\ grpcurl'[q] = grpcurl[q] /\ unread'[q] = unread[q],
         \A d \in Bases : d # cl[r] => /\ d \in unread'[r] <=> d \in unread[r]
                                       /\ Peer(d) \in grpcurl'[r] <=> Peer(d) \in grpcurl[r]
  PROVE  Local(r)
BY ReportGrows DEF Local, Sound

LEMMA SaysMore ==
  ASSUME NEW X, NEW xs
  PROVE  \A check, c, n :
           /\ Says(X \cup xs, check, c) <=> Says(X, check, c) \/ Says(xs, check, c)
           /\ Has(X \cup xs, check, c, n) <=> Has(X, check, c, n) \/ Has(xs, check, c, n)
           /\ Passed(X \cup xs, c, n) <=> Passed(X, c, n) \/ Passed(xs, c, n)
BY DEF Says, Has, Passed

LEMMA PassedIsSaid ==
  ASSUME NEW X, NEW check, NEW c, NEW n
  PROVE  /\ Has(X, check, c, n) => Says(X, check, c)
         /\ Passed(X, c, n) => Has(X, "curl", c, n)
BY DEF Has, Says, Passed

LEMMA NoProxyHas ==
  ASSUME NEW c, NEW names
  PROVE  /\ \A check : Says(NoProxyResults(c, names), check, c) => check = "noproxy"
         /\ Peer(c) \in world.proxied =>
              \A n \in names : Has(NoProxyResults(c, names), "noproxy", c, n)
<1> DEFINE R(n) == Result("noproxy", c, n,
                     IF isHostCoveredByNoProxy(Host(c, n), world.noProxy[Peer(c)])
                       THEN "PASS" ELSE "FAIL")
<1>1. /\ \A x \in NoProxyResults(c, names) : \E n \in names : x = R(n)
      /\ Peer(c) \in world.proxied => \A n \in names : R(n) \in NoProxyResults(c, names)
  BY DEF NoProxyResults
<1>2. \A n : R(n).check = "noproxy" /\ R(n).cl = c /\ R(n).at = n
  BY DEF Result
<1> HIDE DEF R
<1>3. QED
  BY <1>1, <1>2 DEF Says, Has

LEMMA ContinueAccount ==
  ASSUME IInv, DataInv, AccountInv, NEW r \in Runs, pc[r] \in Finding,
         NEW eps \in Seq(Endpoints), NEW cidrs, NEW xs, NEW next \in Finding,
         Continue(r, eps, cidrs, xs, next), Sound(r, xs), UNCHANGED discoveryUnchanged,
         NEW c \in Bases, c = cl[r], next # "annotation",
         \/ UNCHANGED unread
         \/ unread' = [unread EXCEPT ![r] = @ \cup {c}],
         Unprobed(xs, c), Sought(r, c)'
  PROVE  AccountInv'
<1>1. /\ Report(r, xs) /\ world' = world /\ grpcurl' = grpcurl /\ cl' = cl
      /\ pc'[r] = next
      /\ \A q \in Runs \ {r} : /\ pc'[q] = pc[q] /\ endpoints'[q] = endpoints[q]
                               /\ lookups'[q] = lookups[q] /\ unread'[q] = unread[q]
      /\ \A d \in Bases : d # c => (d \in unread'[r] <=> d \in unread[r])
  BY DEF Continue, Goto, discoveryUnchanged, IInv, DataInv
<1>2. Local(r)
  BY <1>1, LocalStep
<1>3. Stage(r, c)'
  BY <1>1 DEF Stage, Finding, Probing
<1>4. QED
  BY <1>1, <1>2, <1>3, StaysInDirection DEF Finding

LEMMA DiscoveredAccount ==
  ASSUME IInv, DataInv, AccountInv, NEW r \in Runs, pc[r] \in Finding,
         NEW eps \in Seq(Endpoints), NEW cidrs \in SUBSET Ranges, NEW xs,
         Discovered(r, eps, cidrs, xs), Sound(r, xs), UNCHANGED discoveryUnchanged,
         UNCHANGED unread, NEW c \in Bases, c = cl[r], Unprobed(xs, c),
         NEW Y, Y = results[r] \cup xs,
         \/ Complained(Y, c) \/ c \in unread[r]
         \/ ToSet(endpoints[r] \o eps) = Advertised(c),
         \/ Complained(Y, c) \/ endpoints[r] \o eps # <<>>,
         \/ Complained(Y, c) \/ c \in unread[r]
         \/ Says(Y, "serviceCIDR", c) \/ Says(Y, "clusterCIDR", c)
         \/ RoutedCidrs(c) \subseteq lookups[r] \cup cidrs
  PROVE  AccountInv'
<1> DEFINE s == endpoints[r] \o eps
           names == lookups[r] \cup cidrs \cup ToSet(s)
           N == NoProxyResults(c, names)
           E == ToSet(s)
<1>1. s \in Seq(Endpoints) /\ ToSet(s) \subseteq Endpoints
  <2>1. s \in Seq(Endpoints)
    BY ConcatIsUnion DEF DataInv, Queue
  <2>2. QED
    BY <2>1, LenProperties DEF ToSet
<1>2. /\ endpoints' = [endpoints EXCEPT ![r] = s] /\ Report(r, xs \cup N)
      /\ world' = world /\ grpcurl' = grpcurl /\ unread' = unread
      /\ lookups' = [lookups EXCEPT ![r] = {}]
  BY DEF Discovered, discoveryUnchanged
<1>3. Sound(r, xs \cup N)
  <2>1. names \in SUBSET (Endpoints \cup Ranges)
    BY <1>1 DEF DataInv
  <2>2. QED
    BY <2>1, NoProxySound DEF Sound
<1>4. \/ s = <<>> /\ NextDirection(r)
      \/ s # <<>> /\ Goto(r, "deploy") /\ cl' = cl
  BY DEF Discovered
<1>5. Local(r)
  <2>1. \A q \in Runs \ {r} : pc'[q] = pc[q] /\ cl'[q] = cl[q]
    BY <1>4 DEF NextDirection, Goto, IInv
  <2>2. \A q \in Runs \ {r} : endpoints'[q] = endpoints[q] /\ lookups'[q] = lookups[q]
    BY <1>2 DEF DataInv
  <2> HIDE DEF s, names, N
  <2>3. QED
    BY <1>2, <1>3, <2>1, <2>2, LocalStep
<1>6. results'[r] = Y \cup N
  <2> HIDE DEF N
  <2>1. results'[r] = results[r] \cup (xs \cup N)
    BY <1>2, ReportGrows
  <2>2. QED
    BY <2>1
<1>7. \A check, n : /\ Says(results'[r], check, c) <=> Says(Y, check, c) \/ Says(N, check, c)
                    /\ Has(results'[r], check, c, n) <=> Has(Y, check, c, n) \/ Has(N, check, c, n)
  <2> HIDE DEF N
  <2>1. ASSUME NEW check
        PROVE  Says(Y \cup N, check, c) <=> Says(Y, check, c) \/ Says(N, check, c)
    BY Zenon DEF Says
  <2>2. ASSUME NEW check, NEW n
        PROVE  Has(Y \cup N, check, c, n) <=> Has(Y, check, c, n) \/ Has(N, check, c, n)
    BY Zenon DEF Has
  <2>3. QED
    BY <1>6, <2>1, <2>2
<1>8. \A check : Says(N, check, c) => check = "noproxy"
  BY NoProxyHas
<1>9. Unprobed(results[r], c)
  BY DEF AccountInv, Account, Stage, Sought
<1>10. Unprobed(results[r], c)'
  <2>1. \A check : Says(Y, check, c) <=> Says(results[r], check, c) \/ Says(xs, check, c)
    BY SaysMore
  <2>2. QED
    BY <1>7, <1>8, <1>9, <2>1 DEF Unprobed, Podless
<1>11. /\ ~Podless(results'[r], c) /\ ~Says(results'[r], "curl", c)
       /\ \A n : ~Has(results'[r], "curl", c, n) /\ ~Has(results'[r], "grpc", c, n)
       /\ \A n : ~Passed(results'[r], c, n)
  BY <1>10, PassedIsSaid DEF Unprobed
<1>12. Complained(Y, c) => Complained(results'[r], c)
  BY <1>7 DEF Complained
<1>13. Advertised(c)' = Advertised(c) /\ RoutedCidrs(c)' = RoutedCidrs(c) /\ world' = world
  BY <1>2, SameAdvertised
<1>14. Looked(r, c)'
  <2>1. ASSUME Peer(c) \in world.proxied, E = Advertised(c),
               RoutedCidrs(c) \subseteq lookups[r] \cup cidrs,
               NEW n \in Advertised(c) \cup RoutedCidrs(c)
        PROVE  Has(results'[r], "noproxy", c, n)
    <3>1. n \in names
      BY <2>1
    <3>2. QED
      BY <1>7, <2>1, <3>1, NoProxyHas
  <2>2. \/ Complained(results'[r], c) \/ c \in unread'[r]
        \/ Says(results'[r], "serviceCIDR", c) \/ Says(results'[r], "clusterCIDR", c)
        \/ E = Advertised(c) /\ RoutedCidrs(c) \subseteq lookups[r] \cup cidrs
    BY <1>2, <1>7, <1>12
  <2> HIDE DEF s, names, N, E
  <2>3. QED
    BY <1>13, <2>1, <2>2 DEF Looked
<1>15. endpoints'[r] = s
  BY <1>2 DEF DataInv
<1> HIDE DEF s, names, N
<1>16. CASE s = <<>> /\ NextDirection(r)
  <2>1. Complained(results'[r], c)
    BY <1>12, <1>16 DEF s
  <2>2. Final(r, c)'
    BY <1>11, <1>14, <2>1 DEF Final, Reached, Paired
  <2>3. QED
    BY <1>5, <1>16, <2>2, DirectionEnds
<1>17. CASE Goto(r, "deploy") /\ cl' = cl
  <2>1. pc'[r] = "deploy"
    BY <1>17 DEF Goto, IInv
  <2>2. PICK S : S = ToSet(s)
    OBVIOUS
  <2>3. \/ Complained(results'[r], c) \/ c \in unread'[r]
        \/ \A n \in Places : Has(results'[r], "curl", c, n) \/ n \in S <=> n \in Advertised(c)
    BY <1>2, <1>11, <1>12, <2>2 DEF s
  <2>4. Reached(r, c, ToSet(endpoints[r]))'
    BY <1>13, <1>15, <2>2, <2>3 DEF Reached
  <2>5. Probed(r, c)'
    BY <1>10, <1>11, <1>14, <2>1, <2>4 DEF Probed
  <2>6. Stage(r, c)'
    BY <2>1, <2>5 DEF Stage, Finding
  <2>7. QED
    BY <1>5, <1>17, <2>1, <2>6, StaysInDirection
<1>18. QED
  BY <1>4, <1>16, <1>17

LEMMA OneSays ==
  ASSUME NEW check, NEW c, NEW n, NEW status
  PROVE  LET xs == {Result(check, c, n, status)}
         IN  /\ \A k : Says(xs, k, c) <=> k = check
             /\ \A k, m : Has(xs, k, c, m) <=> k = check /\ m = n
             /\ \A m : Passed(xs, c, m) <=> check = "curl" /\ m = n /\ status = "PASS"
BY DEF Says, Has, Passed, Result

LEMMA NothingSaid ==
  \A c : Unprobed({}, c) /\ ~Complained({}, c) /\ \A k : ~Says({}, k, c)
BY DEF Unprobed, Podless, Complained, Says

LEMMA RefusalSays ==
  ASSUME NEW r, NEW check
  PROVE  /\ \A k : Says(Fails(r, check), k, cl[r]) <=> k = check
         /\ \A k : Says(Warns(r, check), k, cl[r]) <=> k = check
BY DEF Says, Fails, Warns, Result

LbPart(c) == {e \in {"lb"} : world.objects[c].lb = "assigned"}

(* What is advertised, by the type of the service *)
LEMMA AdvertisedByType ==
  ASSUME NEW c \in Bases, NEW o, o = world.objects[c], ~o.exported, o.nodes \in Seq(Endpoints)
  PROVE  /\ o.type = "LoadBalancer" /\ o.ready =>
              Advertised(c) = LbPart(c) \cup {"svc"} /\ RoutedCidrs(c) = {}
         /\ o.type = "NodePort" /\ o.ready =>
              Advertised(c) = LbPart(c) \cup ToSet(o.nodes) /\ RoutedCidrs(c) = {"serviceCIDR"}
         /\ o.type = "ClusterIP" /\ ~o.globalNet /\ o.ready =>
              Advertised(c) = LbPart(c) \cup {"clusterIP"} /\ RoutedCidrs(c) = Ranges
         /\ o.type = "ClusterIP" /\ o.globalNet =>
              Advertised(c) = LbPart(c) \cup {"clusterset"} /\ RoutedCidrs(c) = {}
<1>1. ToSet(o.nodes) \subseteq Endpoints
  BY LenProperties DEF ToSet
<1>2. /\ Advertised(c) = {e \in Endpoints :
            \/ e = "lb" /\ o.lb = "assigned"
            \/ e = "svc" /\ o.type = "LoadBalancer" /\ o.ready
            \/ e \in ToSet(o.nodes) /\ o.type = "NodePort" /\ o.ready
            \/ e = "clusterIP" /\ o.type = "ClusterIP" /\ ~o.globalNet /\ o.ready
            \/ e = "clusterset" /\ o.type = "ClusterIP" /\ o.globalNet}
      /\ RoutedCidrs(c) = {n \in Ranges : \/ o.type = "NodePort" /\ n = "serviceCIDR"
                                          \/ o.type = "ClusterIP" /\ ~o.globalNet}
      /\ LbPart(c) = {e \in {"lb"} : o.lb = "assigned"}
  BY DEF Advertised, RoutedCidrs, LbPart
<1>3. {"lb", "svc", "clusterIP", "clusterset"} \subseteq Endpoints
  BY DEF Endpoints
<1>4. ASSUME o.type = "LoadBalancer", o.ready
      PROVE  Advertised(c) = LbPart(c) \cup {"svc"} /\ RoutedCidrs(c) = {}
  BY <1>2, <1>3, <1>4
<1>5. ASSUME o.type = "NodePort", o.ready
      PROVE  Advertised(c) = LbPart(c) \cup ToSet(o.nodes) /\ RoutedCidrs(c) = {"serviceCIDR"}
  BY <1>1, <1>2, <1>3, <1>5 DEF Ranges
<1>6. ASSUME o.type = "ClusterIP", ~o.globalNet, o.ready
      PROVE  Advertised(c) = LbPart(c) \cup {"clusterIP"} /\ RoutedCidrs(c) = Ranges
  BY <1>2, <1>3, <1>6
<1>7. ASSUME o.type = "ClusterIP", o.globalNet
      PROVE  Advertised(c) = LbPart(c) \cup {"clusterset"} /\ RoutedCidrs(c) = {}
  BY <1>2, <1>3, <1>7
<1>8. QED
  BY <1>4, <1>5, <1>6, <1>7

LEMMA AfterContinue ==
  ASSUME IInv, DataInv, AccountInv, NEW r \in Runs, pc[r] \in Finding,
         NEW eps \in Seq(Endpoints), NEW cidrs, NEW xs, NEW next,
         Continue(r, eps, cidrs, xs, next), NEW c, c = cl[r], Unprobed(xs, c)
  PROVE  /\ pc'[r] = next /\ lookups'[r] = lookups[r] \cup cidrs
         /\ ToSet(endpoints'[r]) = ToSet(endpoints[r]) \cup ToSet(eps)
         /\ Unprobed(results'[r], c)
         /\ \A check : Says(results'[r], check, c) <=> \/ Says(results[r], check, c)
                                                       \/ Says(xs, check, c)
         /\ Complained(results'[r], c) <=> Complained(results[r], c) \/ Complained(xs, c)
<1>1. /\ pc'[r] = next /\ lookups'[r] = lookups[r] \cup cidrs
      /\ endpoints'[r] = endpoints[r] \o eps /\ results'[r] = results[r] \cup xs
  BY ReportGrows DEF Continue, Goto, IInv, DataInv
<1>2. ToSet(endpoints'[r]) = ToSet(endpoints[r]) \cup ToSet(eps)
  BY <1>1, ConcatIsUnion DEF DataInv, Queue
<1>3. \A check : Says(results'[r], check, c) <=> \/ Says(results[r], check, c)
                                                 \/ Says(xs, check, c)
  BY <1>1, SaysMore
<1>4. Unprobed(results[r], c)
  BY DEF AccountInv, Account, Stage, Sought
<1>5. QED
  BY <1>1, <1>2, <1>3, <1>4 DEF Unprobed, Podless, Complained

LEMMA DiscoveryAccount ==
  ASSUME IInv, DataInv, AccountInv, NEW r \in Runs, Discovery(r)  PROVE AccountInv'
<1>1. PICK c \in Bases : c = cl[r]
  BY ObjectsOfSelf
<1>2. PICK o \in Objects : o = Self(r) /\ o = world.objects[c] /\ o.nodes \in Seq(Endpoints)
  BY <1>1, ObjectsOfSelf DEF Self
<1>3. \A check \in Refusals : /\ Sound(r, Fails(r, check)) /\ Sound(r, Warns(r, check))
                              /\ \A k : /\ Says(Fails(r, check), k, c) <=> k = check
                                        /\ Says(Warns(r, check), k, c) <=> k = check
  BY <1>1, RefusalSound, RefusalSays
<1>4. \A check \in Refusals \ {"deploy", "wait"} :
        Unprobed(Fails(r, check), c) /\ Unprobed(Warns(r, check), c)
  BY <1>3 DEF Unprobed, Podless, Refusals
<1>5. \A check \in {"lb", "svc", "nodes", "name"} :
        Complained(Fails(r, check), c) /\ Complained(Warns(r, check), c)
  BY <1>3 DEF Complained, Refusals
<1>6. Sound(r, {}) /\ Unprobed({}, c) /\ ~Complained({}, c) /\ \A k : ~Says({}, k, c)
  BY EmptySound, NothingSaid
<1>7. pc[r] \in Finding => Sought(r, c)
  BY <1>1 DEF AccountInv, Account, Stage
<1>8. ASSUME pc[r] \in Finding, NEW eps \in Seq(Endpoints), NEW cidrs, NEW xs,
             NEW next \in Finding, Continue(r, eps, cidrs, xs, next), Sound(r, xs),
             UNCHANGED discoveryUnchanged, UNCHANGED unread, Unprobed(xs, c),
             next # "annotation", Sought(r, c)'
      PROVE  AccountInv'
  BY <1>1, <1>8, ContinueAccount
<1>9. ASSUME pc[r] \in Finding, NEW eps \in Seq(Endpoints), NEW cidrs \in SUBSET Ranges, NEW xs,
             Discovered(r, eps, cidrs, xs), Sound(r, xs), UNCHANGED discoveryUnchanged,
             UNCHANGED unread, Unprobed(xs, c),
             \/ Complained(xs, c)
             \/ /\ eps # <<>>
                /\ \/ Complained(results[r], c) \/ c \in unread[r]
                   \/ /\ ToSet(endpoints[r]) \cup ToSet(eps) = Advertised(c)
                      /\ \/ RoutedCidrs(c) \subseteq lookups[r] \cup cidrs
                         \/ Says(results[r], "serviceCIDR", c) \/ Says(xs, "clusterCIDR", c)
      PROVE  AccountInv'
  <2>1. PICK Y : Y = results[r] \cup xs
    OBVIOUS
  <2>2. /\ \A k : Says(Y, k, c) <=> Says(results[r], k, c) \/ Says(xs, k, c)
        /\ Complained(Y, c) <=> Complained(results[r], c) \/ Complained(xs, c)
    BY <2>1, SaysMore DEF Complained
  <2>3. /\ ToSet(endpoints[r] \o eps) = ToSet(endpoints[r]) \cup ToSet(eps)
        /\ eps # <<>> => endpoints[r] \o eps # <<>>
    BY <1>9, ConcatIsUnion DEF DataInv, Queue
  <2>4. /\ \/ Complained(Y, c) \/ c \in unread[r]
           \/ ToSet(endpoints[r] \o eps) = Advertised(c)
        /\ Complained(Y, c) \/ endpoints[r] \o eps # <<>>
        /\ \/ Complained(Y, c) \/ c \in unread[r]
           \/ Says(Y, "serviceCIDR", c) \/ Says(Y, "clusterCIDR", c)
           \/ RoutedCidrs(c) \subseteq lookups[r] \cup cidrs
    BY <1>9, <2>2, <2>3
  <2>5. QED
    BY <1>1, <1>9, <2>1, <2>4, DiscoveredAccount
<1>10. /\ pc[r] \in Finding \ {"annotation"} => c \in unread[r] \/ ~o.exported
       /\ pc[r] \in Finding \ {"annotation", "lb"} =>
            Complained(results[r], c) \/ ToSet(endpoints[r]) = LbPart(c)
       /\ pc[r] \in {"annotation", "lb"} => endpoints[r] = <<>> /\ ToSet(endpoints[r]) = {}
  BY <1>2, <1>7, NoEndpoint DEF Sought, LbPart, DataInv, Queue
<1>11. ASSUME pc[r] \in Finding, NEW cidrs, NEW xs, NEW next,
             Continue(r, <<>>, cidrs, xs, next), Unprobed(xs, c)
      PROVE  /\ pc'[r] = next /\ lookups'[r] = lookups[r] \cup cidrs
             /\ ToSet(endpoints'[r]) = ToSet(endpoints[r])
             /\ Unprobed(results'[r], c)
             /\ \A check : Says(results'[r], check, c) <=> \/ Says(results[r], check, c)
                                                           \/ Says(xs, check, c)
             /\ Complained(results'[r], c) <=> Complained(results[r], c) \/ Complained(xs, c)
  <2>1. PICK eps \in Seq(Endpoints) : eps = <<>> /\ ToSet(eps) = {}
    BY NoEndpoint
  <2>2. Continue(r, eps, cidrs, xs, next)
    BY <1>11, <2>1
  <2>3. /\ pc'[r] = next /\ lookups'[r] = lookups[r] \cup cidrs
        /\ ToSet(endpoints'[r]) = ToSet(endpoints[r]) \cup ToSet(eps)
        /\ Unprobed(results'[r], c)
        /\ \A check : Says(results'[r], check, c) <=> \/ Says(results[r], check, c)
                                                      \/ Says(xs, check, c)
        /\ Complained(results'[r], c) <=> Complained(results[r], c) \/ Complained(xs, c)
    BY <1>11, <1>1, <2>2, AfterContinue
  <2>4. QED
    BY <2>1, <2>3
<1>12. CASE ExportedAddress(r)
  <2>1. pc[r] = "annotation" /\ pc[r] \in Finding /\ UNCHANGED discoveryUnchanged
    BY <1>12 DEF ExportedAddress, Answered, At, Finding
  <2>2. /\ <<"exported">> \in Seq(Endpoints) /\ ToSet(<<"exported">>) = {"exported"}
        /\ <<"exported">> # <<>>
    BY OneEndpoint DEF Endpoints
  <2>3. CASE o.exported /\ Discovered(r, <<"exported">>, {}, {}) /\ UNCHANGED unread
    <3>1. Advertised(c) = {"exported"} /\ RoutedCidrs(c) = {}
      BY <1>2, <2>3 DEF Advertised, RoutedCidrs
    <3>2. QED
      BY <1>6, <1>9, <1>10, <2>1, <2>2, <2>3, <3>1
  <2>4. CASE /\ Continue(r, <<>>, {}, {}, "lb")
             /\ \/ ~o.exported /\ UNCHANGED unread
                \/ unread' = [unread EXCEPT ![r] = @ \cup {c}]
    <3>1. pc'[r] = "lb" /\ Unprobed(results'[r], c)
      BY <1>11, <1>6, <2>1, <2>4
    <3>2. c \in unread'[r] \/ ~o.exported
      BY <2>4 DEF DataInv
    <3>3. world'.objects[c] = o
      BY <1>2, <2>1 DEF discoveryUnchanged
    <3>4. Sought(r, c)'
      BY <3>1, <3>2, <3>3 DEF Sought, Finding
    <3>5. QED
      BY <1>1, <1>6, <2>1, <2>4, <3>4, NoEndpoint, ContinueAccount DEF Finding
  <2>5. QED
    BY <1>1, <1>2, <1>12, <2>3, <2>4 DEF ExportedAddress
<1>13. CASE ProviderLB(r)
  <2>1. /\ pc[r] = "lb" /\ pc[r] \in Finding
        /\ UNCHANGED discoveryUnchanged /\ UNCHANGED unread
    BY <1>13 DEF ProviderLB, Answered, At, Finding
  <2>2. PICK eps \in {<<>>, <<"lb">>}, xs \in {{}, Warns(r, "lb"), Fails(r, "lb")} :
          /\ Continue(r, eps, {}, xs, "service")
          /\ xs # {} \/ ToSet(eps) = LbPart(c)
    <3>1. ToSet(<<"lb">>) = {"lb"} /\ ToSet(<<>>) = {}
      BY OneEndpoint, NoEndpoint DEF Endpoints
    <3>2. \/ Continue(r, <<>>, {}, {}, "service") /\ o.lb = "none"
          \/ Continue(r, <<"lb">>, {}, {}, "service") /\ o.lb = "assigned"
          \/ Continue(r, <<>>, {}, Warns(r, "lb"), "service")
          \/ Continue(r, <<>>, {}, Fails(r, "lb"), "service")
      BY <1>2, <1>13 DEF ProviderLB
    <3>3. /\ o.lb = "none" => LbPart(c) = {}
          /\ o.lb = "assigned" => LbPart(c) = {"lb"}
      BY <1>2 DEF LbPart
    <3>4. Warns(r, "lb") # {} /\ Fails(r, "lb") # {}
      BY DEF Warns, Fails
    <3>5. QED
      BY <3>1, <3>2, <3>3, <3>4
  <2>3. eps \in Seq(Endpoints)
    BY NoEndpoint, OneEndpoint DEF Endpoints
  <2>4. Sound(r, xs) /\ Unprobed(xs, c) /\ (xs # {} => Complained(xs, c))
    BY <1>3, <1>4, <1>5, <1>6 DEF Refusals
  <2>5. /\ pc'[r] = "service" /\ Unprobed(results'[r], c)
        /\ ToSet(endpoints'[r]) = ToSet(endpoints[r]) \cup ToSet(eps)
        /\ Complained(results'[r], c) <=> Complained(results[r], c) \/ Complained(xs, c)
    BY <1>1, <2>1, <2>2, <2>3, <2>4, AfterContinue
  <2>6. Complained(results'[r], c) \/ ToSet(endpoints'[r]) = LbPart(c)
    BY <1>10, <2>1, <2>2, <2>4, <2>5
  <2>7. world' = world
    BY <2>1 DEF discoveryUnchanged
  <2>8. Sought(r, c)'
    BY <1>2, <1>10, <2>1, <2>5, <2>6, <2>7 DEF Sought, LbPart, Finding
  <2>9. QED
    BY <1>8, <2>1, <2>2, <2>3, <2>4, <2>8 DEF Finding
<1>14. CASE ProviderServiceAlone(r)
  <2>1. /\ pc[r] = "service" /\ pc[r] \in Finding
        /\ UNCHANGED discoveryUnchanged /\ UNCHANGED unread
    BY <1>14 DEF ProviderServiceAlone, Answered, At, Finding
  <2>2. \/ Discovered(r, <<"svc">>, {}, {}) /\ o.type = "LoadBalancer" /\ o.ready
        \/ Discovered(r, <<>>, {}, Warns(r, "svc"))
        \/ Discovered(r, <<>>, {}, Fails(r, "svc"))
    BY <1>2, <1>14 DEF ProviderServiceAlone
  <2>3. CASE Discovered(r, <<"svc">>, {}, {}) /\ o.type = "LoadBalancer" /\ o.ready
    <3>1. ~o.exported => Advertised(c) = LbPart(c) \cup {"svc"} /\ RoutedCidrs(c) = {}
      BY <1>2, <2>3, AdvertisedByType
    <3>2. <<"svc">> \in Seq(Endpoints) /\ ToSet(<<"svc">>) = {"svc"} /\ <<"svc">> # <<>>
      BY OneEndpoint DEF Endpoints
    <3>3. QED
      BY <1>6, <1>9, <1>10, <2>1, <2>3, <3>1, <3>2
  <2>4. CASE Discovered(r, <<>>, {}, Warns(r, "svc")) \/ Discovered(r, <<>>, {}, Fails(r, "svc"))
    BY <1>3, <1>4, <1>5, <1>9, <2>1, <2>4, NoEndpoint DEF Refusals
  <2>5. QED
    BY <2>2, <2>3, <2>4
<1>15. CASE ProviderServiceMore(r)
  <2>1. /\ pc[r] = "service" /\ pc[r] \in Finding
        /\ UNCHANGED discoveryUnchanged /\ UNCHANGED unread /\ world' = world
    BY <1>15 DEF ProviderServiceMore, Answered, Finding, discoveryUnchanged
  <2>2. PICK next \in {"export", "serviceCIDR"} :
          /\ Continue(r, <<>>, {}, {}, next)
          /\ next = "export" => o.type = "ClusterIP" /\ o.globalNet
          /\ next = "serviceCIDR" =>
               o.ready /\ (o.type = "NodePort" \/ (o.type = "ClusterIP" /\ ~o.globalNet))
    BY <1>2, <1>15 DEF ProviderServiceMore
  <2>3. /\ pc'[r] = next /\ Unprobed(results'[r], c)
        /\ ToSet(endpoints'[r]) = ToSet(endpoints[r])
        /\ Complained(results'[r], c) <=> Complained(results[r], c)
    BY <1>11, <1>6, <2>1, <2>2
  <2>4. Sought(r, c)'
    BY <1>2, <1>10, <2>1, <2>2, <2>3 DEF Sought, LbPart, Finding
  <2>5. QED
    BY <1>6, <1>8, <2>1, <2>2, <2>4, NoEndpoint DEF Finding
<1>16. CASE ServiceCIDR(r)
  <2>1. /\ pc[r] = "serviceCIDR" /\ pc[r] \in Finding
        /\ UNCHANGED discoveryUnchanged /\ UNCHANGED unread /\ world' = world
    BY <1>16 DEF ServiceCIDR, Answered, At, Finding, discoveryUnchanged
  <2>2. PICK cidrs \in {{}, {"serviceCIDR"}}, xs \in {{}, Warns(r, "serviceCIDR")},
             next \in {"nodes", "clusterCIDR"} :
          /\ Continue(r, <<>>, cidrs, xs, next)
          /\ cidrs = {"serviceCIDR"} \/ xs = Warns(r, "serviceCIDR")
          /\ next = IF o.type = "NodePort" THEN "nodes" ELSE "clusterCIDR"
    BY <1>2, <1>16 DEF ServiceCIDR
  <2>3. Sound(r, xs) /\ Unprobed(xs, c)
    BY <1>3, <1>4, <1>6 DEF Refusals
  <2>4. /\ pc'[r] = next /\ Unprobed(results'[r], c) /\ lookups'[r] = lookups[r] \cup cidrs
        /\ ToSet(endpoints'[r]) = ToSet(endpoints[r])
        /\ \A check : Says(results'[r], check, c) <=> \/ Says(results[r], check, c)
                                                      \/ Says(xs, check, c)
        /\ Complained(results[r], c) => Complained(results'[r], c)
    BY <1>11, <2>1, <2>2, <2>3
  <2>5. "serviceCIDR" \in lookups'[r] \/ Says(results'[r], "serviceCIDR", c)
    BY <1>3, <2>2, <2>4 DEF Refusals
  <2>6. o.ready /\ (o.type = "NodePort" \/ (o.type = "ClusterIP" /\ ~o.globalNet))
    BY <1>2, <1>7, <2>1 DEF Sought
  <2>7. Sought(r, c)'
    BY <1>2, <1>10, <2>1, <2>2, <2>4, <2>5, <2>6 DEF Sought, LbPart, Finding
  <2>8. QED
    BY <1>8, <2>1, <2>2, <2>3, <2>7, NoEndpoint DEF Finding
<1>17. CASE StorageNodes(r)
  <2>1. /\ pc[r] = "nodes" /\ pc[r] \in Finding
        /\ UNCHANGED discoveryUnchanged /\ UNCHANGED unread
    BY <1>17 DEF StorageNodes, Answered, At, Finding
  <2>2. \/ Discovered(r, o.nodes, {}, {}) /\ o.nodes # <<>>
        \/ Discovered(r, <<>>, {}, Fails(r, "nodes"))
    BY <1>2, <1>17 DEF StorageNodes
  <2>3. CASE Discovered(r, o.nodes, {}, {}) /\ o.nodes # <<>>
    <3>1. /\ o.type = "NodePort" /\ o.ready
          /\ "serviceCIDR" \in lookups[r] \/ Says(results[r], "serviceCIDR", c)
      BY <1>2, <1>7, <2>1 DEF Sought
    <3>2. ~o.exported => /\ Advertised(c) = LbPart(c) \cup ToSet(o.nodes)
                         /\ RoutedCidrs(c) = {"serviceCIDR"}
      BY <1>2, <3>1, AdvertisedByType
    <3>3. QED
      BY <1>2, <1>6, <1>9, <1>10, <2>1, <2>3, <3>1, <3>2
  <2>4. CASE Discovered(r, <<>>, {}, Fails(r, "nodes"))
    BY <1>3, <1>4, <1>5, <1>9, <2>1, <2>4, NoEndpoint DEF Refusals
  <2>5. QED
    BY <2>2, <2>3, <2>4
<1>18. CASE ClusterCIDR(r)
  <2>1. /\ pc[r] = "clusterCIDR" /\ pc[r] \in Finding
        /\ UNCHANGED discoveryUnchanged /\ UNCHANGED unread
    BY <1>18 DEF ClusterCIDR, Answered, At, Finding
  <2>2. PICK cidrs \in {{}, {"clusterCIDR"}}, xs \in {{}, Warns(r, "clusterCIDR")} :
          /\ Discovered(r, <<"clusterIP">>, cidrs, xs)
          /\ cidrs = {"clusterCIDR"} \/ xs = Warns(r, "clusterCIDR")
    BY <1>18 DEF ClusterCIDR
  <2>3. Sound(r, xs) /\ Unprobed(xs, c) /\ cidrs \in SUBSET Ranges
    BY <1>3, <1>4, <1>6 DEF Refusals, Ranges
  <2>4. /\ o.type = "ClusterIP" /\ ~o.globalNet /\ o.ready
        /\ "serviceCIDR" \in lookups[r] \/ Says(results[r], "serviceCIDR", c)
    BY <1>2, <1>7, <2>1 DEF Sought
  <2>5. ~o.exported => Advertised(c) = LbPart(c) \cup {"clusterIP"} /\ RoutedCidrs(c) = Ranges
    BY <1>2, <2>4, AdvertisedByType
  <2>6. /\ <<"clusterIP">> \in Seq(Endpoints) /\ ToSet(<<"clusterIP">>) = {"clusterIP"}
        /\ <<"clusterIP">> # <<>>
    BY OneEndpoint DEF Endpoints
  <2>7. \/ Ranges \subseteq lookups[r] \cup cidrs
        \/ Says(results[r], "serviceCIDR", c) \/ Says(xs, "clusterCIDR", c)
    BY <1>3, <2>2, <2>4 DEF Ranges, Refusals
  <2>8. QED
    BY <1>9, <1>10, <2>1, <2>2, <2>3, <2>5, <2>6, <2>7
<1>19. CASE ServiceExport(r)
  <2>1. /\ pc[r] = "export" /\ pc[r] \in Finding
        /\ UNCHANGED discoveryUnchanged /\ UNCHANGED unread /\ world' = world
    BY <1>19 DEF ServiceExport, Answered, At, Finding, discoveryUnchanged
  <2>2. PICK xs \in {{Result("export", c, "any", "PASS")}, Fails(r, "export")} :
          Continue(r, <<>>, {}, xs, "name")
    BY <1>1, <1>19 DEF ServiceExport
  <2>3. Sound(r, xs)
    <3>1. Sound(r, Fails(r, "export"))
      BY DEF IInv, Sound, Fails, Result, Verdicts, Places, Honest, Refusals
    <3>2. QED
      BY <1>1, <2>2, <3>1, ExportSound
  <2>4. Unprobed(xs, c)
    <3>1. \A k : Says(xs, k, c) => k = "export"
      <4>1. \E status : xs = {Result("export", c, "any", status)}
        BY <1>1, <2>2 DEF Fails
      <4>2. PICK status : xs = {Result("export", c, "any", status)}
        BY <4>1
      <4>3. \A k : Says({Result("export", c, "any", status)}, k, c) <=> k = "export"
        BY OneSays
      <4>4. QED
        BY <4>2, <4>3
    <3>2. QED
      BY <3>1 DEF Unprobed, Podless
  <2>5. /\ pc'[r] = "name" /\ Unprobed(results'[r], c)
        /\ ToSet(endpoints'[r]) = ToSet(endpoints[r])
        /\ Complained(results[r], c) => Complained(results'[r], c)
    BY <1>11, <2>1, <2>2, <2>4
  <2>6. o.type = "ClusterIP" /\ o.globalNet
    BY <1>2, <1>7, <2>1 DEF Sought
  <2>7. Sought(r, c)'
    BY <1>2, <1>10, <2>1, <2>5, <2>6 DEF Sought, LbPart, Finding
  <2>8. QED
    BY <1>8, <2>1, <2>2, <2>3, <2>4, <2>7, NoEndpoint DEF Finding
<1>20. CASE ManagedName(r)
  <2>1. /\ pc[r] = "name" /\ pc[r] \in Finding
        /\ UNCHANGED discoveryUnchanged /\ UNCHANGED unread
    BY <1>20 DEF ManagedName, Answered, At, Finding
  <2>2. \/ Discovered(r, <<"clusterset">>, {}, {})
        \/ Discovered(r, <<>>, {}, Fails(r, "name"))
    BY <1>20 DEF ManagedName
  <2>3. CASE Discovered(r, <<"clusterset">>, {}, {})
    <3>1. o.type = "ClusterIP" /\ o.globalNet
      BY <1>2, <1>7, <2>1 DEF Sought
    <3>2. ~o.exported => Advertised(c) = LbPart(c) \cup {"clusterset"} /\ RoutedCidrs(c) = {}
      BY <1>2, <3>1, AdvertisedByType
    <3>3. /\ <<"clusterset">> \in Seq(Endpoints) /\ ToSet(<<"clusterset">>) = {"clusterset"}
          /\ <<"clusterset">> # <<>>
      BY OneEndpoint DEF Endpoints
    <3>4. QED
      BY <1>6, <1>9, <1>10, <2>1, <2>3, <3>2, <3>3
  <2>4. CASE Discovered(r, <<>>, {}, Fails(r, "name"))
    BY <1>3, <1>4, <1>5, <1>9, <2>1, <2>4, NoEndpoint DEF Refusals
  <2>5. QED
    BY <2>2, <2>3, <2>4
<1>21. QED
  BY <1>12, <1>13, <1>14, <1>15, <1>16, <1>17, <1>18, <1>19, <1>20 DEF Discovery

LEMMA LookedGrows ==
  ASSUME NEW r, NEW c, Looked(r, c), results[r] \subseteq results'[r],
         unread'[r] = unread[r], world' = world
  PROVE  Looked(r, c)'
<1>1. \A check, n : /\ Says(results[r], check, c) => Says(results'[r], check, c)
                    /\ Has(results[r], check, c, n) => Has(results'[r], check, c, n)
  BY DEF Says, Has
<1>2. Complained(results[r], c) => Complained(results'[r], c)
  BY <1>1 DEF Complained
<1>3. Advertised(c)' = Advertised(c) /\ RoutedCidrs(c)' = RoutedCidrs(c)
  BY SameAdvertised
<1>4. QED
  BY <1>1, <1>2, <1>3 DEF Looked

(* The endpoint of this turn is accounted for *)
LEMMA LoopGoesOn ==
  ASSUME IInv, DataInv, AccountInv, NEW r \in Runs, pc[r] \in Probing, NextEndpoint(r),
         Local(r), cl' = cl, NEW c \in Bases, c = cl[r], NEW S, S = ToSet(Tail(endpoints[r])),
         Looked(r, c)', Reached(r, c, S)', Paired(r, c, {})',
         ~Podless(results'[r], c), Says(results'[r], "curl", c)
  PROVE  AccountInv'
<1>1. PICK s \in Seq(Endpoints), l \in {"curl", "cleanup"} :
        /\ s = Tail(endpoints[r])
        /\ endpoints' = [endpoints EXCEPT ![r] = s] /\ pc' = [pc EXCEPT ![r] = l]
        /\ l = "cleanup" <=> s = <<>>
  BY NextEndpointGoes
<1>2. endpoints'[r] = s /\ pc'[r] = l /\ S = ToSet(s)
  BY <1>1 DEF DataInv, IInv
<1>3. CASE l = "curl"
  <2>1. Reached(r, c, ToSet(endpoints[r]))'
    BY <1>2 DEF Reached
  <2>2. Probed(r, c)'
    BY <1>2, <1>3, <2>1 DEF Probed
  <2>3. Stage(r, c)'
    BY <1>2, <1>3, <2>2 DEF Stage, Finding
  <2>4. QED
    BY <1>2, <1>3, <2>3, StaysInDirection
<1>4. CASE l = "cleanup"
  <2>1. S = {}
    BY <1>1, <1>2, <1>4, NoEndpoint
  <2>2. Reached(r, c, {})'
    BY <2>1 DEF Reached
  <2>3. Stage(r, c)'
    BY <1>2, <1>4, <2>2 DEF Stage, Final, Finding, Probing
  <2>4. QED
    BY <1>2, <1>4, <2>3, StaysInDirection
<1>5. QED
  BY <1>3, <1>4

(* A direction whose pod did not come: nothing was probed *)
LEMMA PodlessIsFinal ==
  ASSUME NEW r, NEW c, NEW xs, Unprobed(results[r], c), Looked(r, c)',
         results'[r] = results[r] \cup xs, NEW check \in {"deploy", "wait"},
         \A k : Says(xs, k, c) <=> k = check
  PROVE  Final(r, c)'
<1>1. \A k : Says(results'[r], k, c) <=> Says(results[r], k, c) \/ k = check
  BY SaysMore
<1>2. /\ Podless(results'[r], c) /\ ~Says(results'[r], "curl", c) /\ ~Says(results'[r], "grpc", c)
  BY <1>1 DEF Unprobed, Podless
<1>3. \A n : ~Has(results'[r], "grpc", c, n) /\ ~Passed(results'[r], c, n)
  BY <1>2, PassedIsSaid
<1>4. Reached(r, c, {})' /\ Paired(r, c, {})'
  BY <1>2, <1>3 DEF Reached, Paired
<1>5. QED
  BY <1>2, <1>4 DEF Final

LEMMA ReachabilityAccount ==
  ASSUME IInv, DataInv, AccountInv, NEW r \in Runs, Reachability(r)  PROVE AccountInv'
<1>1. PICK c \in Bases : c = cl[r]
  BY ObjectsOfSelf
<1>2. /\ pc[r] \in Probing => Probed(r, c)
      /\ pc[r] = "cleanup" => Final(r, c)
  BY <1>1 DEF AccountInv, Account, Stage
<1>3. PICK h : h = Head(endpoints[r])
  OBVIOUS
<1>4. PICK S : S = ToSet(Tail(endpoints[r]))
  OBVIOUS
<1>5. pc[r] \in Probing => h \in Places /\ ToSet(endpoints[r]) = {h} \cup S
  BY <1>3, <1>4, HeadAndTail DEF DataInv, Queue, Places
<1>6. ASSUME NEW xs, Report(r, xs), Sound(r, xs), UNCHANGED <<world, lookups, unread>>,
             \A q \in Runs \ {r} :
               pc'[q] = pc[q] /\ cl'[q] = cl[q] /\ endpoints'[q] = endpoints[q],
             grpcurl' \in {grpcurl, [grpcurl EXCEPT ![r] = @ \cup {Peer(c)}]},
             pc[r] \in Probing
      PROVE  Local(r) /\ results'[r] = results[r] \cup xs /\ Looked(r, c)'
  <2>1. \A q \in Runs \ {r} : grpcurl'[q] = grpcurl[q]
    BY <1>6 DEF DataInv
  <2>2. \A d \in Bases : d # c => (Peer(d) \in grpcurl'[r] <=> Peer(d) \in grpcurl[r])
    BY <1>6 DEF DataInv, Peer, Bases
  <2>3. Local(r)
    BY <1>1, <1>6, <2>1, <2>2, LocalStep
  <2>4. results'[r] = results[r] \cup xs
    BY <1>6, ReportGrows
  <2>5. QED
    BY <1>2, <1>6, <2>3, <2>4, LookedGrows DEF Probed
<1>7. ASSUME UNCHANGED <<world, lookups, unread, cl, endpoints, results, grpcurl>>,
             NEW l \in {"wait", "grpcurl"}, pc' = [pc EXCEPT ![r] = l],
             pc[r] \in {"deploy", "wait"}
      PROVE  AccountInv'
  <2>1. Local(r) /\ Looked(r, c)'
    BY <1>6, <1>7, NothingReported, EmptySound DEF IInv, Probing
  <2>2. pc'[r] = l
    BY <1>7 DEF IInv
  <2>3. /\ Unprobed(results[r], c) /\ ~Podless(results[r], c)
        /\ Reached(r, c, ToSet(endpoints[r]))
    BY <1>2, <1>7 DEF Probed, Probing
  <2>4. Reached(r, c, ToSet(endpoints[r]))'
    BY <1>7, <2>3, SameAdvertised DEF Reached
  <2>5. Probed(r, c)'
    BY <1>7, <2>1, <2>2, <2>3, <2>4 DEF Probed
  <2>6. Stage(r, c)'
    BY <1>7, <2>2, <2>5 DEF Stage, Finding
  <2>7. QED
    BY <1>1, <1>7, <2>1, <2>2, <2>6, StaysInDirection
<1>8. CASE Deploys(r)
  BY <1>7, <1>8 DEF Deploys, Answered, Goto, podUnchanged
<1>9. CASE DeployFails(r)
  <2>1. /\ UNCHANGED <<world, lookups, unread, grpcurl>> /\ Report(r, Fails(r, "deploy"))
        /\ endpoints' = [endpoints EXCEPT ![r] = <<>>] /\ NextDirection(r)
        /\ pc[r] = "deploy"
    BY <1>9 DEF DeployFails, podUnchanged, Answered, At
  <2>2. /\ Sound(r, Fails(r, "deploy"))
        /\ \A k : Says(Fails(r, "deploy"), k, c) <=> k = "deploy"
    BY <1>1, RefusalSound, RefusalSays DEF Refusals
  <2>3. \A q \in Runs \ {r} : pc'[q] = pc[q] /\ cl'[q] = cl[q] /\ endpoints'[q] = endpoints[q]
    BY <2>1 DEF NextDirection, Goto, IInv, DataInv
  <2>4. /\ Local(r) /\ results'[r] = results[r] \cup Fails(r, "deploy") /\ Looked(r, c)'
    BY <1>6, <2>1, <2>2, <2>3 DEF Probing
  <2>5. Unprobed(results[r], c)
    BY <1>2, <2>1 DEF Probed, Probing
  <2>6. Final(r, c)'
    BY <2>2, <2>4, <2>5, PodlessIsFinal
  <2>7. QED
    BY <1>1, <2>1, <2>4, <2>6, DirectionEnds
<1>10. CASE PodIsReady(r)
  BY <1>7, <1>10 DEF PodIsReady, Answered, Goto, podUnchanged
<1>11. CASE WaitFails(r)
  <2>1. /\ UNCHANGED <<world, lookups, unread, grpcurl, cl>> /\ Report(r, Fails(r, "wait"))
        /\ endpoints' = [endpoints EXCEPT ![r] = <<>>] /\ pc' = [pc EXCEPT ![r] = "cleanup"]
        /\ pc[r] = "wait"
    BY <1>11 DEF WaitFails, podUnchanged, At, Goto
  <2>2. /\ Sound(r, Fails(r, "wait"))
        /\ \A k : Says(Fails(r, "wait"), k, c) <=> k = "wait"
    BY <1>1, RefusalSound, RefusalSays DEF Refusals
  <2>3. /\ \A q \in Runs \ {r} : pc'[q] = pc[q] /\ endpoints'[q] = endpoints[q]
        /\ pc'[r] = "cleanup"
    BY <2>1 DEF IInv, DataInv
  <2>4. /\ Local(r) /\ results'[r] = results[r] \cup Fails(r, "wait") /\ Looked(r, c)'
    BY <1>6, <2>1, <2>2, <2>3 DEF Probing
  <2>5. Unprobed(results[r], c)
    BY <1>2, <2>1 DEF Probed, Probing
  <2>6. Final(r, c)'
    BY <2>2, <2>4, <2>5, PodlessIsFinal
  <2>7. Stage(r, c)'
    BY <2>3, <2>6 DEF Stage, Finding, Probing
  <2>8. QED
    BY <1>1, <2>1, <2>3, <2>4, <2>7, StaysInDirection
<1>12. CASE InstallGrpcurl(r)
  <2>1. /\ UNCHANGED <<world, lookups, unread, cl, endpoints, results>>
        /\ pc' = [pc EXCEPT ![r] = "curl"] /\ pc[r] = "grpcurl"
        /\ grpcurl' \in {grpcurl, [grpcurl EXCEPT ![r] = @ \cup {Peer(c)}]}
    BY <1>1, <1>12 DEF InstallGrpcurl, podUnchanged, At, Goto
  <2>2. /\ \A q \in Runs \ {r} : pc'[q] = pc[q]
        /\ pc'[r] = "curl"
    BY <2>1 DEF IInv
  <2>3. Local(r) /\ Looked(r, c)'
    BY <1>6, <2>1, <2>2, NothingReported, EmptySound DEF Probing
  <2>4. /\ Unprobed(results[r], c) /\ Reached(r, c, ToSet(endpoints[r]))
    BY <1>2, <2>1 DEF Probed, Probing
  <2>5. Reached(r, c, ToSet(endpoints[r]))'
    BY <2>1, <2>4, SameAdvertised DEF Reached
  <2>6. Paired(r, c, {})'
    BY <2>1, <2>4, PassedIsSaid DEF Paired, Unprobed
  <2>7. Probed(r, c)'
    BY <2>1, <2>2, <2>3, <2>4, <2>5, <2>6 DEF Probed, Unprobed
  <2>8. Stage(r, c)'
    BY <2>2, <2>7 DEF Stage, Finding
  <2>9. QED
    BY <1>1, <2>1, <2>2, <2>3, <2>8, StaysInDirection
<1>13. ASSUME NEW check \in {"curl", "grpc"}, NEW status \in {"PASS", "FAIL"}, NEW xs,
              xs = {Result(check, c, h, status)},
              Report(r, xs), Sound(r, xs), pc[r] = check,
              UNCHANGED <<world, lookups, unread, cl, grpcurl>>,
              \A q \in Runs \ {r} : pc'[q] = pc[q] /\ endpoints'[q] = endpoints[q]
       PROVE  /\ Local(r) /\ Looked(r, c)' /\ ~Podless(results'[r], c)
              /\ \A k, m : Has(results'[r], k, c, m) <=>
                             Has(results[r], k, c, m) \/ (k = check /\ m = h)
              /\ \A m : Passed(results'[r], c, m) <=>
                          \/ Passed(results[r], c, m)
                          \/ check = "curl" /\ m = h /\ status = "PASS"
  <2>1. /\ Local(r) /\ results'[r] = results[r] \cup xs /\ Looked(r, c)'
    BY <1>6, <1>13 DEF Probing
  <2>2. /\ \A k : Says(xs, k, c) <=> k = check
        /\ \A k, m : Has(xs, k, c, m) <=> k = check /\ m = h
        /\ \A m : Passed(xs, c, m) <=> check = "curl" /\ m = h /\ status = "PASS"
    BY <1>13 DEF Says, Has, Passed, Result
  <2>3. \A k, m : /\ Says(results'[r], k, c) <=> Says(results[r], k, c) \/ Says(xs, k, c)
                  /\ Has(results'[r], k, c, m) <=> Has(results[r], k, c, m) \/ Has(xs, k, c, m)
                  /\ Passed(results'[r], c, m) <=> Passed(results[r], c, m) \/ Passed(xs, c, m)
    BY <2>1, SaysMore
  <2>4. ~Podless(results[r], c)
    BY <1>2, <1>13 DEF Probed, Probing
  <2>5. \A k : Says(results'[r], k, c) <=> Says(results[r], k, c) \/ k = check
    BY <2>2, <2>3
  <2>6. ~Podless(results'[r], c)
    BY <1>13, <2>4, <2>5 DEF Podless
  <2>7. \A k, m : Has(results'[r], k, c, m) <=>
                    Has(results[r], k, c, m) \/ (k = check /\ m = h)
    BY <2>2, <2>3
  <2>8. \A m : Passed(results'[r], c, m) <=>
                 \/ Passed(results[r], c, m)
                 \/ check = "curl" /\ m = h /\ status = "PASS"
    BY <2>2, <2>3
  <2>9. QED
    BY <2>1, <2>6, <2>7, <2>8
<1>14. pc[r] \in {"curl", "grpc"} =>
         /\ h \in Places /\ ToSet(endpoints[r]) = {h} \cup S
         /\ \/ Complained(results[r], c) \/ c \in unread[r]
            \/ \A n \in Places : Has(results[r], "curl", c, n) \/ n \in {h} \cup S
                                 <=> n \in Advertised(c)
  BY <1>2, <1>5 DEF Probed, Probing, Reached
<1>15. CASE TestEndpoint(r)
  <2>1. /\ UNCHANGED <<world, lookups, unread, cl, grpcurl>> /\ pc[r] = "curl"
        /\ Paired(r, c, {})
    BY <1>2, <1>15 DEF TestEndpoint, podUnchanged, At, Probed, Probing
  <2>2. PICK status \in {"PASS", "FAIL"} :
          /\ Report(r, {Result("curl", c, h, status)})
          /\ status = "PASS" => <<c, h>> \in world.reach
          /\ \/ NextEndpoint(r) /\ (status = "PASS" => Peer(c) \notin grpcurl[r])
             \/ /\ status = "PASS" /\ Peer(c) \in grpcurl[r]
                /\ pc' = [pc EXCEPT ![r] = "grpc"] /\ UNCHANGED endpoints
    BY <1>1, <1>3, <1>15 DEF TestEndpoint, Goto
  <2>3. PICK xs : xs = {Result("curl", c, h, status)}
    OBVIOUS
  <2>4. Sound(r, xs)
    <3>1. Result("curl", c, h, status) \in Verdicts
      BY <1>14, <2>1 DEF Result, Verdicts
    <3>2. Honest(Result("curl", c, h, status))
      BY <2>2 DEF Result, Honest, Refusals
    <3>3. Result("curl", c, h, status).cl = cl[r]
      BY <1>1 DEF Result
    <3>4. QED
      BY <2>3, <3>1, <3>2, <3>3 DEF Sound
  <2>5. \A q \in Runs \ {r} : pc'[q] = pc[q] /\ endpoints'[q] = endpoints[q]
    BY <2>2 DEF NextEndpoint, Goto, IInv, DataInv
  <2>6. /\ Local(r) /\ Looked(r, c)' /\ ~Podless(results'[r], c)
        /\ \A k, m : Has(results'[r], k, c, m) <=>
                       Has(results[r], k, c, m) \/ (k = "curl" /\ m = h)
        /\ \A m : Passed(results'[r], c, m) <=>
                    Passed(results[r], c, m) \/ (m = h /\ status = "PASS")
    BY <1>13, <2>1, <2>2, <2>3, <2>4, <2>5
  <2>7. Complained(results[r], c) => Complained(results'[r], c)
    BY <2>6 DEF Local, Complained, Says
  <2>8. Advertised(c)' = Advertised(c)
    BY <2>1, SameAdvertised
  <2>9. CASE NextEndpoint(r) /\ (status = "PASS" => Peer(c) \notin grpcurl[r])
    <3>1. Reached(r, c, S)'
      BY <1>14, <2>1, <2>6, <2>7, <2>8 DEF Reached
    <3>2. Paired(r, c, {})'
      BY <2>1, <2>6, <2>9 DEF Paired
    <3>3. Says(results'[r], "curl", c)
      BY <2>6, PassedIsSaid
    <3>4. QED
      BY <1>1, <1>4, <2>1, <2>6, <2>9, <3>1, <3>2, <3>3, LoopGoesOn DEF Probing
  <2>10. CASE /\ status = "PASS" /\ Peer(c) \in grpcurl[r]
              /\ pc' = [pc EXCEPT ![r] = "grpc"] /\ UNCHANGED endpoints
    <3>1. pc'[r] = "grpc" /\ endpoints'[r] = endpoints[r]
      BY <2>10 DEF IInv
    <3>2. Reached(r, c, ToSet(endpoints[r]))'
      BY <1>14, <2>1, <2>6, <2>7, <2>8, <3>1 DEF Reached
    <3>3. Paired(r, c, {h})'
      BY <2>1, <2>6, <2>10 DEF Paired
    <3>4. Paired(r, c, {Head(endpoints[r])})'
      BY <1>3, <3>1, <3>3 DEF Paired
    <3>5. Probed(r, c)'
      BY <2>6, <3>1, <3>2, <3>4 DEF Probed
    <3>6. Stage(r, c)'
      BY <3>1, <3>5 DEF Stage, Finding
    <3>7. QED
      BY <1>1, <2>1, <2>6, <3>1, <3>6, StaysInDirection
  <2>11. QED
    BY <2>2, <2>9, <2>10
<1>16. CASE TestGrpc(r)
  <2>1. /\ UNCHANGED <<world, lookups, unread, cl, grpcurl>> /\ pc[r] = "grpc"
        /\ NextEndpoint(r) /\ Paired(r, c, {h})
    BY <1>2, <1>3, <1>16 DEF TestGrpc, podUnchanged, At, Probed, Probing
  <2>2. PICK status \in {"PASS", "FAIL"} :
          /\ Report(r, {Result("grpc", c, h, status)})
          /\ status = "PASS" => <<c, h>> \in world.serves
    BY <1>1, <1>3, <1>16 DEF TestGrpc
  <2>3. PICK xs : xs = {Result("grpc", c, h, status)}
    OBVIOUS
  <2>4. Sound(r, xs)
    <3>1. Result("grpc", c, h, status) \in Verdicts
      BY <1>14, <2>1 DEF Result, Verdicts
    <3>2. Honest(Result("grpc", c, h, status))
      BY <2>2 DEF Result, Honest, Refusals
    <3>3. Result("grpc", c, h, status).cl = cl[r]
      BY <1>1 DEF Result
    <3>4. QED
      BY <2>3, <3>1, <3>2, <3>3 DEF Sound
  <2>5. \A q \in Runs \ {r} : pc'[q] = pc[q] /\ endpoints'[q] = endpoints[q]
    BY <2>1 DEF NextEndpoint, Goto, IInv, DataInv
  <2>6. /\ Local(r) /\ Looked(r, c)' /\ ~Podless(results'[r], c)
        /\ \A k, m : Has(results'[r], k, c, m) <=>
                       Has(results[r], k, c, m) \/ (k = "grpc" /\ m = h)
        /\ \A m : Passed(results'[r], c, m) <=> Passed(results[r], c, m)
    BY <1>13, <2>1, <2>2, <2>3, <2>4, <2>5
  <2>7. Complained(results[r], c) => Complained(results'[r], c)
    BY <2>6 DEF Local, Complained, Says
  <2>8. Advertised(c)' = Advertised(c)
    BY <2>1, SameAdvertised
  <2>9. Has(results[r], "curl", c, h)
    BY <1>14, <2>1, PassedIsSaid DEF Paired
  <2>10. Reached(r, c, S)'
    BY <1>14, <2>1, <2>6, <2>7, <2>8, <2>9 DEF Reached
  <2>11. Paired(r, c, {})'
    BY <2>1, <2>6 DEF Paired
  <2>12. Says(results'[r], "curl", c)
    BY <2>6, <2>9, PassedIsSaid
  <2>13. QED
    BY <1>1, <1>4, <2>1, <2>6, <2>10, <2>11, <2>12, LoopGoesOn DEF Probing
<1>17. CASE CleanUp(r)
  <2>1. /\ UNCHANGED <<world, lookups, unread, grpcurl, endpoints, results>>
        /\ NextDirection(r) /\ pc[r] = "cleanup"
    BY <1>17 DEF CleanUp, podUnchanged, At
  <2>2. \A q \in Runs \ {r} : pc'[q] = pc[q] /\ cl'[q] = cl[q]
    BY <2>1 DEF NextDirection, Goto, IInv
  <2>3. Local(r)
    BY <2>1, <2>2, NothingReported, EmptySound, LocalStep
  <2>4. Final(r, c)
    BY <1>2, <2>1
  <2>5. Advertised(c)' = Advertised(c) /\ RoutedCidrs(c)' = RoutedCidrs(c)
    BY <2>1, SameAdvertised
  <2>6. Final(r, c)'
    BY <2>1, <2>4, <2>5 DEF Final, Looked, Reached, Paired
  <2>7. QED
    BY <1>1, <2>1, <2>3, <2>6, DirectionEnds
<1>18. QED
  BY <1>8, <1>9, <1>10, <1>11, <1>12, <1>15, <1>16, <1>17 DEF Reachability

LEMMA InitAccount == Init => AccountInv
<1>1. ASSUME Init, NEW r \in Runs  PROVE Account(r)
  <2>1. pc[r] = "annotation" /\ cl[r] = "c1" /\ results[r] = {}
    BY <1>1 DEF Init
  <2>2. Unprobed(results[r], "c1") /\ Unprobed(results[r], "c2")
    BY <2>1, NothingSaid
  <2>3. Sought(r, "c1")
    BY <2>1, <2>2 DEF Sought
  <2>4. QED
    BY <2>1, <2>2, <2>3 DEF Account, Stage, Probing
<1>2. QED
  BY <1>1 DEF AccountInv

(* A run that returns, or is killed, keeps what the finished directions say *)
LEMMA AccountOfEnd ==
  ASSUME IInv, AccountInv, NEW r \in Runs,
         UNCHANGED <<world, cl, endpoints, lookups, grpcurl, unread, results>>,
         \/ pc[r] = "return" /\ pc' = [pc EXCEPT ![r] = "returned"]
         \/ pc' = [pc EXCEPT ![r] = "killed"]
  PROVE  AccountInv'
<1>1. \A q \in Runs \ {r} : pc'[q] = pc[q]
  BY DEF IInv
<1>2. \A q \in Runs \ {r} : Account(q)'
  BY <1>1, AccountKept DEF AccountInv
<1>3. \A c : Advertised(c)' = Advertised(c) /\ RoutedCidrs(c)' = RoutedCidrs(c)
  BY SameAdvertised
<1>4. \A c : Final(r, c) => Final(r, c)'
  BY <1>3 DEF Final, Looked, Reached, Paired
<1>5. Account(r)
  BY DEF AccountInv
<1>6. \/ pc[r] = "return" /\ pc'[r] = "returned"
      \/ pc'[r] = "killed"
  BY DEF IInv
<1>7. Stage(r, cl[r])'
  <2>1. CASE pc[r] = "return" /\ pc'[r] = "returned"
    <3>1. PICK c : c = cl[r]
      OBVIOUS
    <3>2. Final(r, c)'
      BY <1>4, <1>5, <2>1, <3>1 DEF Account, Stage
    <3>3. Stage(r, c)'
      BY <2>1, <3>2 DEF Stage, Finding, Probing
    <3>4. QED
      BY <3>1, <3>3 DEF Stage
  <2>2. CASE pc'[r] = "killed"
    BY <2>2 DEF Stage, Finding, Probing
  <2>3. QED
    BY <1>6, <2>1, <2>2
<1>8. cl[r] = "c1" => Unprobed(results[r], "c2")' /\ pc'[r] \notin {"return", "returned"}
  BY <1>5, <1>6 DEF Account, Unprobed, Podless, Says
<1>9. cl[r] = "c2" => Final(r, "c1")'
  BY <1>4, <1>5 DEF Account
<1>10. Account(r)'
  BY <1>7, <1>8, <1>9 DEF Account
<1>11. QED
  BY <1>2, <1>10 DEF AccountInv

LEMMA StepAccount == IInv /\ DataInv /\ AccountInv /\ [Next]_vars => AccountInv'
<1>0. SUFFICES ASSUME IInv, DataInv, AccountInv, [Next]_vars  PROVE AccountInv'
  OBVIOUS
<1>1. ASSUME UNCHANGED <<world, pc, cl, endpoints, lookups, grpcurl, unread, results>>
      PROVE  AccountInv'
  BY <1>0, <1>1, AccountKept DEF AccountInv
<1>2. ASSUME NEW r \in Runs, Return(r)  PROVE AccountInv'
  BY <1>0, <1>2, AccountOfEnd DEF Return, podUnchanged, At, Goto
<1>3. ASSUME NEW r \in Runs, Interrupt(r)  PROVE AccountInv'
  BY <1>1, <1>3 DEF Interrupt
<1>4. ASSUME NEW r \in Runs, Kill(r)  PROVE AccountInv'
  BY <1>0, <1>4, AccountOfEnd DEF Kill, Goto
<1>5. ASSUME NEW s \in Slots, Cluster(s)  PROVE AccountInv'
  BY <1>1, <1>5 DEF Cluster, runVars
<1>6. CASE UNCHANGED vars
  BY <1>1, <1>6 DEF vars, runVars
<1>7. ASSUME NEW r \in Runs, RunStep(r)  PROVE AccountInv'
  BY <1>0, <1>2, <1>7, DiscoveryAccount, ReachabilityAccount DEF RunStep
<1>8. QED
  BY <1>0, <1>3, <1>4, <1>5, <1>6, <1>7 DEF Next

LEMMA AccountInductive == Spec => []AccountInv
BY InitAccount, StepAccount, Inductive, DataInductive, PTL DEF Spec

(* No way through the discovery and the probes of CheckOCSProvider          *)
(* (provider.go:40) leaves a direction of the report empty: pending         *)
(* addresses, unexpected service types, empty node lists, errors of any     *)
(* call, for any number of runs and any state of the clusters.              *)
THEOREM NoDirectionIsSilent == Spec => []NoSilentDirection
BY AccountIsLoud, Inductive, AccountInductive, PTL

(* One endpoint's failure hides nothing of the others (provider.go:437):    *)
(* every advertised endpoint has its curl result, and gRPC is asked exactly *)
(* where curl was answered and grpcurl installed, in both directions.       *)
THEOREM EndpointsAreAccounted == Spec => []EveryEndpointAccounted
BY AccountIsComplete, Inductive, DataInductive, AccountInductive, PTL

(* A direction without FAIL or WARN is right: its endpoints answer from the *)
(* peer, and every connection to them bypasses the peer's proxy, whatever   *)
(* the service types, the noProxy lists and the order of the steps.         *)
THEOREM CleanDirectionsAreTrue == Spec => []CleanDirectionIsTrue
BY AccountIsTrue, Inductive, DataInductive, AccountInductive, PTL

=============================================================================
