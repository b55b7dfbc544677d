------------------------- MODULE HostNetworkCheckProofs -------------------------
(***************************************************************************)
(* checkCephHostNetwork follows the pod discipline, and what it leaves     *)
(* behind is what deployPodsOnAllNodes keeps to itself when it fails; for  *)
(* any number of runs, nodes and endpoints.  The program is a list of      *)
(* steps, so the invariants are by position in it: Placed says which       *)
(* cluster's pods can be there, Owed which clean-up is deferred.           *)
(***************************************************************************)
EXTENDS HostNetworkCheck, WellFoundedInduction, TLAPS

Pod == INSTANCE TestPodsProofs WITH held <- podNames

Positions == 1..11

TypeInv ==
  /\ pc \in [Runs -> Positions]
  /\ run \in [Runs -> {"active", "returned", "killed"}]
  /\ podNames \in [Runs -> SUBSET Slots]
  /\ deferred \in [Runs -> SUBSET Bases]
  /\ results = [r \in Runs |-> results[r]]

Placed(r) ==
  /\ pc[r] < 5 => podNames[r] = {}
  /\ pc[r] \in 4..5 => NodesOf("c1") # {}
  /\ pc[r] = 5 => ~ (NodesOf("c1") \subseteq podNames[r])
  /\ pc[r] \in 5..7 => NodesOf("c2") # {}
  /\ pc[r] < 7 => podNames[r] \subseteq NodesOf("c1")
  /\ pc[r] = 7 => ~ (NodesOf("c2") \subseteq podNames[r])

Owed(r) ==
  /\ pc[r] \in 7..10 => "c1" \in deferred[r]
  /\ pc[r] \in 9..10 => "c2" \in deferred[r]
  /\ pc[r] = 11 => \A s \in podNames[r] :
       s[1] \in deferred[r] \/ Result("deploy", <<s[1]>>, "FAIL") \in results[r]
  /\ run[r] = "returned" => pc[r] = 11 /\ deferred[r] = {}

IInv == TypeInv /\ \A r \in Runs : Placed(r) /\ Owed(r)

-----------------------------------------------------------------------------
(* Where the steps stand in the program *)
LEMMA Where ==
  ASSUME TypeInv, NEW r \in Runs, NEW c \in Bases
  PROVE  /\ At(r, "daemons", c) => pc[r] = (IF c = "c1" THEN 1 ELSE 2)
         /\ At(r, "nodes", c) => pc[r] = (IF c = "c1" THEN 3 ELSE 4)
         /\ At(r, "deploy", c) => pc[r] = (IF c = "c1" THEN 5 ELSE 7)
         /\ At(r, "wait", c) => pc[r] = (IF c = "c1" THEN 6 ELSE 8)
         /\ At(r, "probe", c) => pc[r] = (IF c = "c1" THEN 9 ELSE 10)
         /\ At(r, "return", "all") => pc[r] = 11
<1>1. pc[r] \in 1..11
  BY DEF TypeInv, Positions
<1>2. QED
  BY <1>1 DEF At, Program, Bases

LEMMA LastPosition == Len(Program) = 11
BY DEF Program

LEMMA Apart == /\ \A c \in Bases : NodesOf(c) \subseteq Slots
               /\ \A s \in Slots : s \in NodesOf(s[1]) /\ s[1] \in Bases /\ s[2] \in Nat
               /\ NodesOf("c1") \cap NodesOf("c2") = {}
BY NodesAssumption DEF NodesOf

(* The node that is deployed next is one of the cluster's without a pod *)
LEMMA NextNodeIn ==
  ASSUME IInv, NEW r \in Runs, NEW c \in Bases, At(r, "deploy", c)
  PROVE  NextNode(r, c) \in NodesOf(c) \ podNames[r]
<1> DEFINE S == NodesOf(c) \ podNames[r]
           T == {s[2] : s \in S}
<1>1. S # {} /\ S \subseteq Slots
  <2>1. c = "c1" => pc[r] = 5
    BY Where DEF IInv
  <2>2. c = "c2" => pc[r] = 7
    BY Where DEF IInv
  <2>3. ~ (NodesOf(c) \subseteq podNames[r])
    BY <2>1, <2>2 DEF IInv, Placed, Bases
  <2>4. QED
    BY <2>3, Apart
<1>2. T \subseteq Nat /\ T # {}
  BY <1>1, Apart
<1>3. PICK x \in T : \A y \in T : ~ (<<y, x>> \in OpToRel(<, Nat))
  <2> HIDE DEF T
  <2>1. QED
    BY <1>2, NatLessThanWellFounded, WFMin
<1>4. \A y \in T : x <= y
  <2> HIDE DEF T
  <2>1. ASSUME NEW y \in T  PROVE ~ (y < x)
    BY <1>2, <1>3, <2>1 DEF OpToRel
  <2>2. QED
    BY <1>2, <2>1
<1>5. PICK s \in S : s[2] = x
  OBVIOUS
<1>6. \A u \in S : s[2] <= u[2]
  BY <1>4, <1>5
<1>7. QED
  BY <1>6 DEF NextNode

LEMMA InitIInv == Init => IInv
BY DEF Init, IInv, TypeInv, Placed, Owed, Positions

-----------------------------------------------------------------------------
(* What a step does to the position: one further, or the end *)
LEMMA ProceedTo ==
  ASSUME TypeInv, NEW r \in Runs, pc[r] < 11, Proceed(r)
  PROVE  pc' \in [Runs -> Positions] /\ pc'[r] = pc[r] + 1
BY DEF TypeInv, Proceed, Positions

LEMMA FinishAt ==
  ASSUME TypeInv, NEW r \in Runs, Finish(r)
  PROVE  pc' \in [Runs -> Positions] /\ pc'[r] = 11
BY LastPosition DEF TypeInv, Finish, Positions

LEMMA ReportKeeps ==
  ASSUME TypeInv, NEW r \in Runs, NEW x, Report(r, x)
  PROVE  /\ results' = [q \in Runs |-> results'[q]]
         /\ results[r] \subseteq results'[r] /\ x \in results'[r]
         /\ \A q \in Runs \ {r} : results'[q] = results[q]
BY DEF TypeInv, Report

LEMMA StepIInv == IInv /\ [Next]_vars => IInv'
<1> SUFFICES ASSUME IInv, [Next]_vars  PROVE IInv'
  OBVIOUS
<1> DEFINE Others(r) ==
      \A q \in Runs \ {r} : /\ pc'[q] = pc[q] /\ run'[q] = run[q]
                            /\ podNames'[q] = podNames[q] /\ deferred'[q] = deferred[q]
                            /\ results'[q] = results[q]
<1>0. TypeInv /\ \A r \in Runs : Placed(r) /\ Owed(r)
  BY DEF IInv
<1>1. ASSUME NEW r \in Runs, Others(r), TypeInv', Placed(r)', Owed(r)'
      PROVE  IInv'
  BY <1>1 DEF IInv, Placed, Owed
<1>2. ASSUME NEW r \in Runs, NEW c \in Bases, DiscoverDaemons(r, c) \/ ListNodes(r, c)
      PROVE  IInv'
  <2>1. /\ c = "c1" /\ DiscoverDaemons(r, c) => pc[r] = 1
        /\ c = "c2" /\ DiscoverDaemons(r, c) => pc[r] = 2
        /\ c = "c1" /\ ListNodes(r, c) => pc[r] = 3 /\ NodesOf("c1") # {}
        /\ c = "c2" /\ ListNodes(r, c) => pc[r] = 4 /\ NodesOf("c2") # {}
    BY <1>0, Where DEF DiscoverDaemons, ListNodes
  <2>2. /\ pc[r] \in 1..4 /\ Proceed(r) /\ UNCHANGED <<run, podNames, deferred, results>>
        /\ pc[r] = 3 => NodesOf("c1") # {}
        /\ pc[r] = 4 => NodesOf("c2") # {}
    BY <1>2, <2>1 DEF DiscoverDaemons, ListNodes, Bases
  <2>3. pc' \in [Runs -> Positions] /\ pc'[r] = pc[r] + 1
    BY <1>0, <2>2, ProceedTo
  <2>4. Others(r) /\ TypeInv'
    BY <1>0, <2>2, <2>3 DEF TypeInv, Proceed
  <2>5. Placed(r)'
    BY <1>0, <2>2, <2>3 DEF Placed
  <2>6. Owed(r)'
    BY <1>0, <2>2, <2>3 DEF Owed
  <2>7. QED
    BY <1>1, <2>4, <2>5, <2>6
<1>3. ASSUME NEW r \in Runs, NEW step \in {"daemons", "nodes", "deploy", "wait"},
             NEW c \in Bases, At(r, step, c),
             Fail(r, IF step = "wait" THEN "deploy" ELSE step, c),
             UNCHANGED <<run, podNames, deferred>>
      PROVE  IInv'
  <2>1. pc' \in [Runs -> Positions] /\ pc'[r] = 11 /\ run[r] = "active"
    BY <1>0, <1>3, FinishAt DEF Fail, At
  <2>2. /\ results' = [q \in Runs |-> results'[q]]
        /\ \A q \in Runs \ {r} : results'[q] = results[q]
        /\ step \in {"deploy", "wait"} => Result("deploy", <<c>>, "FAIL") \in results'[r]
    BY <1>0, <1>3, ReportKeeps DEF Fail
  <2>3. Others(r) /\ TypeInv'
    BY <1>0, <1>3, <2>1, <2>2 DEF TypeInv, Fail, Finish
  <2>4. ASSUME NEW s \in podNames[r]
        PROVE  s[1] \in deferred[r] \/ Result("deploy", <<s[1]>>, "FAIL") \in results'[r]
    <3>1. step \in {"deploy", "wait"}
      <4>1. step \in {"daemons", "nodes"} => pc[r] < 5
        BY <1>0, <1>3, Where
      <4>2. QED
        BY <1>0, <4>1 DEF Placed
    <3>2. CASE s[1] = c
      BY <2>2, <3>1, <3>2
    <3>3. CASE s[1] # c /\ c = "c1"
      <4>1. pc[r] < 7
        BY <1>0, <1>3, <3>1, <3>3, Where
      <4>2. QED
        BY <1>0, <3>3, <4>1 DEF Placed, NodesOf
    <3>4. CASE s[1] # c /\ c = "c2"
      <4>1. pc[r] \in 7..8
        BY <1>0, <1>3, <3>1, <3>4, Where
      <4>2. s[1] = "c1"
        BY <1>0, <3>4, Apart DEF TypeInv, Bases
      <4>3. QED
        BY <1>0, <4>1, <4>2 DEF Owed
    <3>5. QED
      BY <3>2, <3>3, <3>4 DEF Bases
  <2>5. Placed(r)' /\ Owed(r)'
    BY <1>0, <1>3, <2>1, <2>4 DEF Placed, Owed
  <2>6. QED
    BY <1>1, <2>3, <2>5
<1>4. ASSUME NEW r \in Runs, NEW c \in Bases, Deploys(r, c)  PROVE IInv'
  <2> DEFINE s == NextNode(r, c)
  <2>1. /\ s \in NodesOf(c) \ podNames[r] /\ s \in Slots
        /\ podNames' = [podNames EXCEPT ![r] = @ \cup {s}]
        /\ podNames'[r] = podNames[r] \cup {s}
    BY <1>0, <1>4, NextNodeIn, Apart DEF Deploys, IInv, TypeInv
  <2>2. /\ pc[r] = (IF c = "c1" THEN 5 ELSE 7) /\ run[r] = "active"
        /\ UNCHANGED <<run, deferred, results>>
    BY <1>0, <1>4, Where DEF Deploys, At
  <2>3. CASE NodesOf(c) \subseteq podNames'[r] /\ Proceed(r)
    <3>1. pc' \in [Runs -> Positions] /\ pc'[r] = pc[r] + 1
      BY <1>0, <2>2, <2>3, ProceedTo
    <3>2. Others(r) /\ TypeInv'
      BY <1>0, <2>1, <2>2, <2>3, <3>1 DEF TypeInv, Proceed
    <3>3. Placed(r)'
      BY <1>0, <2>1, <2>2, <3>1 DEF Placed, Bases
    <3>4. Owed(r)'
      BY <1>0, <2>2, <3>1 DEF Owed, Bases
    <3>5. QED
      BY <1>1, <3>2, <3>3, <3>4
  <2>4. CASE ~ (NodesOf(c) \subseteq podNames'[r]) /\ UNCHANGED pc
    <3>1. Others(r) /\ TypeInv'
      BY <1>0, <2>1, <2>2, <2>4 DEF TypeInv
    <3>2. Placed(r)'
      BY <1>0, <2>1, <2>2, <2>4 DEF Placed, Bases
    <3>3. Owed(r)'
      BY <1>0, <2>2, <2>4 DEF Owed, Bases
    <3>4. QED
      BY <1>1, <3>1, <3>2, <3>3
  <2>5. QED
    BY <1>4, <2>3, <2>4 DEF Deploys
<1>5. ASSUME NEW r \in Runs, NEW c \in Bases, PodIsReady(r, c)  PROVE IInv'
  <2>1. /\ pc[r] = (IF c = "c1" THEN 6 ELSE 8) /\ run[r] = "active"
        /\ UNCHANGED <<run, podNames, results>>
    BY <1>0, <1>5, Where DEF PodIsReady, At
  <2>2. CASE Proceed(r) /\ deferred' = [deferred EXCEPT ![r] = @ \cup {c}]
    <3>1. pc' \in [Runs -> Positions] /\ pc'[r] = pc[r] + 1
      BY <1>0, <2>1, <2>2, ProceedTo
    <3>2. Others(r) /\ TypeInv' /\ deferred'[r] = deferred[r] \cup {c}
      BY <1>0, <2>1, <2>2, <3>1 DEF TypeInv, Proceed
    <3>3. Placed(r)'
      BY <1>0, <2>1, <3>1, Apart DEF Placed, Bases
    <3>4. Owed(r)'
      BY <1>0, <2>1, <3>1, <3>2 DEF Owed, Bases
    <3>5. QED
      BY <1>1, <3>2, <3>3, <3>4
  <2>3. CASE UNCHANGED <<pc, deferred>>
    BY <1>0, <2>1, <2>3 DEF IInv, TypeInv, Placed, Owed
  <2>4. QED
    BY <1>5, <2>2, <2>3 DEF PodIsReady
<1>6. ASSUME NEW r \in Runs, NEW c \in Bases, Probe(r, c)  PROVE IInv'
  <2>1. /\ pc[r] \in 9..10 /\ run[r] = "active"
        /\ UNCHANGED <<run, podNames, deferred>>
        /\ Proceed(r) \/ UNCHANGED pc
        /\ \E x : Report(r, x)
    BY <1>0, <1>6, Where DEF Probe, At
  <2>2. /\ results' = [q \in Runs |-> results'[q]]
        /\ results[r] \subseteq results'[r]
        /\ \A q \in Runs \ {r} : results'[q] = results[q]
    BY <1>0, <2>1, ReportKeeps
  <2>3. pc' \in [Runs -> Positions] /\ pc'[r] \in {pc[r], pc[r] + 1}
    BY <1>0, <2>1, ProceedTo DEF TypeInv
  <2>4. Others(r) /\ TypeInv'
    BY <1>0, <2>1, <2>2, <2>3 DEF TypeInv, Proceed
  <2>5. Placed(r)'
    BY <1>0, <2>1, <2>3 DEF Placed
  <2>6. Owed(r)'
    <3>1. \A s \in podNames[r] : s[1] \in Bases
      BY <1>0, Apart DEF TypeInv
    <3>2. pc[r] = 10 => "c1" \in deferred[r] /\ "c2" \in deferred[r]
      BY <1>0 DEF Owed
    <3>3. QED
      BY <1>0, <2>1, <2>3, <3>1, <3>2 DEF Owed, Bases
  <2>7. QED
    BY <1>1, <2>4, <2>5, <2>6
<1>7. ASSUME NEW r \in Runs, CleanUp(r)  PROVE IInv'
  <2> DEFINE c == IF "c2" \in deferred[r] THEN "c2" ELSE "c1"
             mine == podNames[r] \cap NodesOf(c)
  <2>1. PICK s \in mine : /\ podNames' = [podNames EXCEPT ![r] = @ \ {s}]
                          /\ deferred' = [deferred EXCEPT ![r] =
                                            IF mine = {s} THEN @ \ {c} ELSE @]
    BY <1>7 DEF CleanUp
  <2>2. pc[r] = 11 /\ run[r] = "active" /\ UNCHANGED <<pc, run, results>>
    BY <1>0, <1>7, Where DEF CleanUp, At, Bases
  <2>3. /\ podNames'[r] = podNames[r] \ {s}
        /\ deferred'[r] = IF mine = {s} THEN deferred[r] \ {c} ELSE deferred[r]
    BY <1>0, <2>1 DEF TypeInv
  <2>4. Others(r) /\ TypeInv'
    BY <1>0, <2>1, <2>2 DEF TypeInv
  <2>5. Placed(r)'
    BY <2>2 DEF Placed
  <2>6. \A u \in podNames'[r] : u[1] \in deferred[r] => u[1] \in deferred'[r]
    <3>1. ASSUME NEW u \in podNames'[r], u[1] = c, mine = {s}  PROVE FALSE
      BY <1>0, <2>3, <3>1, Apart DEF TypeInv
    <3>2. QED
      BY <2>3, <3>1
  <2>7. Owed(r)'
    BY <1>0, <2>2, <2>3, <2>6 DEF Owed
  <2>8. QED
    BY <1>1, <2>4, <2>5, <2>7
<1>8. ASSUME NEW r \in Runs, Return(r)  PROVE IInv'
  <2>1. pc[r] = 11 /\ deferred[r] = {} /\ UNCHANGED <<pc, podNames, deferred, results>>
    BY <1>0, <1>8, Where DEF Return, Bases
  <2>2. Others(r) /\ TypeInv'
    BY <1>0, <1>8, <2>1 DEF TypeInv, Return
  <2>3. Placed(r)' /\ Owed(r)'
    BY <1>0, <2>1 DEF Placed, Owed
  <2>4. QED
    BY <1>1, <2>2, <2>3
<1>9. ASSUME NEW r \in Runs, Kill(r)  PROVE IInv'
  <2>1. run'[r] = "killed" /\ UNCHANGED <<pc, podNames, deferred, results>>
    BY <1>0, <1>9 DEF Kill, TypeInv
  <2>2. Others(r) /\ TypeInv'
    BY <1>0, <1>9, <2>1 DEF TypeInv, Kill
  <2>3. Placed(r)' /\ Owed(r)'
    BY <1>0, <2>1 DEF Placed, Owed
  <2>4. QED
    BY <1>1, <2>2, <2>3
<1>10. ASSUME UNCHANGED <<pc, run, podNames, deferred, results>>  PROVE IInv'
  BY <1>10 DEF IInv, TypeInv, Placed, Owed
<1>11. ASSUME NEW r \in Runs, NEW c \in Bases,
              ReadFails(r, c) \/ DeployFails(r, c) \/ WaitFails(r, c)
       PROVE  IInv'
  BY <1>3, <1>11 DEF ReadFails, DeployFails, WaitFails
<1>12. QED
  BY <1>2, <1>4, <1>5, <1>6, <1>7, <1>8, <1>9, <1>10, <1>11
  DEF Next, RunStep, Interrupt, Cluster, runVars, vars

LEMMA Inductive == Spec => []IInv
BY InitIInv, StepIInv, PTL DEF Spec

-----------------------------------------------------------------------------
(* The refinement: the clean-up of a pod is owed from its Create on, long   *)
(* before the deferred cleanupPods that pays it is registered.              *)

LEMMA StepRefines == IInv /\ [Next]_vars => [Discipline!Next]_(Discipline!vars)
<1> SUFFICES ASSUME IInv, [Next]_vars  PROVE [Discipline!Next]_(Discipline!vars)
  OBVIOUS
<1>1. ASSUME UNCHANGED <<serverVars, run, podNames>>
      PROVE  UNCHANGED Discipline!vars
  BY <1>1 DEF Discipline!vars, Discipline!serverVars, serverVars
<1>2. ASSUME NEW r \in Runs, NEW c \in Bases,
             DiscoverDaemons(r, c) \/ ListNodes(r, c) \/ ReadFails(r, c) \/ PodIsReady(r, c)
               \/ WaitFails(r, c) \/ Probe(r, c)
      PROVE  UNCHANGED Discipline!vars
  BY <1>1, <1>2 DEF DiscoverDaemons, ListNodes, ReadFails, PodIsReady, WaitFails, Probe
<1>3. ASSUME NEW r \in Runs, NEW c \in Bases, Deploys(r, c)
      PROVE  \E s \in Slots : Discipline!Deploy(r, s)
  <2>1. NextNode(r, c) \in Slots /\ run[r] = "active"
    BY <1>3, NextNodeIn, Apart DEF Deploys, At
  <2>2. Discipline!Deploy(r, NextNode(r, c))
    BY <1>3, <2>1 DEF Deploys, DeployTestPod, NewPod, IsFree,
         Discipline!Deploy, Discipline!DeployTestPod, Discipline!NewPod, Discipline!IsFree
  <2>3. QED
    BY <2>1, <2>2
<1>4. ASSUME NEW r \in Runs, NEW c \in Bases, DeployFails(r, c)
      PROVE  (\E s \in Slots : Discipline!DeployLost(r, s)) \/ UNCHANGED Discipline!vars
  <2>1. /\ NextNode(r, c) \in Slots /\ run[r] = "active"
        /\ UNCHANGED <<run, podNames>>
    BY <1>4, NextNodeIn, Apart DEF DeployFails, At
  <2>2. CASE DeployUnanswered(r, NextNode(r, c))
    BY <2>1, <2>2 DEF DeployUnanswered, Discipline!DeployLost, Discipline!DeployUnanswered
  <2>3. CASE DeployRefused
    BY <1>1, <2>1, <2>3 DEF DeployRefused
  <2>4. QED
    BY <1>4, <2>2, <2>3 DEF DeployFails
<1>5. ASSUME NEW r \in Runs, CleanUp(r)
      PROVE  \E s \in Slots : Discipline!CleanUp(r, s)
  <2>1. PICK s \in podNames[r] :
          /\ DeleteTestPod(r, s) \/ DeleteFailed(r, s)
          /\ podNames' = [podNames EXCEPT ![r] = @ \ {s}]
    BY <1>5 DEF CleanUp
  <2>2. s \in Slots /\ run[r] = "active" /\ UNCHANGED run
    BY <1>5 DEF CleanUp, At, IInv, TypeInv
  <2>3. Discipline!CleanUp(r, s)
    BY <2>1, <2>2 DEF DeleteTestPod, DeleteFailed, Lives, Living,
         Discipline!CleanUp, Discipline!DeleteTestPod, Discipline!DeleteFailed,
         Discipline!Lives, Discipline!Living
  <2>4. QED
    BY <2>2, <2>3
<1>6. ASSUME NEW r \in Runs, Return(r)
      PROVE  Discipline!Return(r)
  BY <1>6 DEF Return, At, serverVars, Discipline!Return, Discipline!serverVars
<1>7. ASSUME NEW r \in Runs, Kill(r)
      PROVE  Discipline!Kill(r)
  BY <1>7 DEF Kill, serverVars, Discipline!Kill, Discipline!serverVars
<1>8. ASSUME NEW r \in Runs, Interrupt(r)
      PROVE  UNCHANGED Discipline!vars
  BY <1>1, <1>8 DEF Interrupt
<1>9. ASSUME NEW s \in Slots, Cluster(s)
      PROVE  Discipline!Cluster(s)
  BY <1>9 DEF Cluster, runVars, ServerStep, PodStarts, PodEnds, PodGone,
       OutsideDelete, LateCreate, NewPod, IsFree, NoPod, Lives, Living,
       Discipline!Cluster, Discipline!ServerStep, Discipline!PodStarts, Discipline!PodEnds,
       Discipline!PodGone, Discipline!OutsideDelete, Discipline!LateCreate, Discipline!NewPod,
       Discipline!IsFree, Discipline!NoPod, Discipline!Lives, Discipline!Living
<1>10. CASE UNCHANGED vars
  BY <1>1, <1>10 DEF vars, runVars
<1>11. QED
  BY <1>2, <1>3, <1>4, <1>5, <1>6, <1>7, <1>8, <1>9, <1>10
  DEF Next, RunStep, Discipline!Next

(* The host-network check implements the discipline that all checks share:  *)
(* it deletes each pod that DeployTestPod returned at most once, and none   *)
(* before (ceph_daemon_discovery.go, cleanupPods).                          *)
THEOREM ImplementsDiscipline == Spec => ImplementsTestPods
<1>1. Init => Discipline!Init
  BY DEF Init, ServerInit, NoPod, Discipline!Init, Discipline!ServerInit, Discipline!NoPod
<1>2. QED
  BY <1>1, StepRefines, Inductive, PTL DEF Spec, ImplementsTestPods, Discipline!Spec

-----------------------------------------------------------------------------
(* What TestPodsProofs proves of the discipline *)

LEMMA SameDiscipline == ImplementsTestPods => Pod!Spec
<1>1. Discipline!Init => Pod!Init
  BY DEF Discipline!Init, Discipline!ServerInit, Discipline!NoPod,
       Pod!Init, Pod!ServerInit, Pod!NoPod
<1>2. ASSUME NEW r \in Runs, NEW s \in Slots
      PROVE  /\ Discipline!Deploy(r, s) => Pod!Deploy(r, s)
             /\ Discipline!DeployLost(r, s) => Pod!DeployLost(r, s)
             /\ Discipline!CleanUp(r, s) => Pod!CleanUp(r, s)
  BY DEF Discipline!Deploy, Discipline!DeployTestPod, Discipline!NewPod, Discipline!IsFree,
       Discipline!DeployLost, Discipline!DeployUnanswered,
       Discipline!CleanUp, Discipline!DeleteTestPod, Discipline!DeleteFailed,
       Discipline!Lives, Discipline!Living,
       Pod!Deploy, Pod!DeployTestPod, Pod!NewPod, Pod!IsFree, Pod!DeployLost,
       Pod!DeployUnanswered, Pod!CleanUp, Pod!DeleteTestPod, Pod!DeleteFailed, Pod!Lives,
       Pod!Living
<1>3. ASSUME NEW r \in Runs
      PROVE  /\ Discipline!Return(r) => Pod!Return(r)
             /\ Discipline!Kill(r) => Pod!Kill(r)
  BY DEF Discipline!Return, Discipline!Kill, Discipline!serverVars,
       Pod!Return, Pod!Kill, Pod!serverVars
<1>4. ASSUME NEW s \in Slots
      PROVE  Discipline!Cluster(s) => Pod!Cluster(s)
  BY DEF Discipline!Cluster, Discipline!ServerStep, Discipline!PodStarts,
       Discipline!PodEnds, Discipline!PodGone, Discipline!OutsideDelete,
       Discipline!LateCreate, Discipline!NewPod, Discipline!IsFree,
       Discipline!NoPod, Discipline!Lives, Discipline!Living,
       Pod!Cluster, Pod!ServerStep, Pod!PodStarts, Pod!PodEnds, Pod!PodGone,
       Pod!OutsideDelete, Pod!LateCreate, Pod!NewPod, Pod!IsFree,
       Pod!NoPod, Pod!Lives, Pod!Living
<1>5. [Discipline!Next]_(Discipline!vars) => [Pod!Next]_(Pod!vars)
  BY <1>2, <1>3, <1>4 DEF Discipline!Next, Discipline!vars, Discipline!serverVars,
       Pod!Next, Pod!vars, Pod!serverVars
<1>6. QED
  BY <1>1, <1>5, PTL DEF ImplementsTestPods, Discipline!Spec, Pod!Spec

(* No run deletes another run's pod, unless a pod of that name was deleted  *)
(* from outside before: with fixed names and deletes by name (pod.go:125).  *)
THEOREM DeletesAreOwn == Spec => []Pod!OnlyOwnPodsDeleted
<1>1. Pod!Spec => []Pod!OnlyOwnPodsDeleted
  BY NobodyAssumption, Pod!DeletesAreOwn
<1>2. QED
  BY <1>1, ImplementsDiscipline, SameDiscipline, PTL

(* The pods of a cluster outlive a check that returned only if that         *)
(* cluster's own deployment failed, or the run could not know of them: for  *)
(* any number of nodes, whichever Create or wait is the one that failed.    *)
THEOREM LeftoversAreOfFailedDeploy == Spec => []LeftoversOfFailedDeploy
<1>1. IInv /\ Pod!LeftoverAccounted => LeftoversOfFailedDeploy
  <2> SUFFICES ASSUME IInv, Pod!LeftoverAccounted, NEW r \in Runs, run[r] = "returned",
                      NEW s \in Slots, Owns(r, s), <<r, s>> \notin orphaned
               PROVE  Result("deploy", <<s[1]>>, "FAIL") \in results[r]
    BY DEF LeftoversOfFailedDeploy
  <2>1. s \in podNames[r]
    BY DEF Pod!LeftoverAccounted, Pod!Owns, Pod!Lives, Pod!Living, Owns, Lives, Living
  <2>2. QED
    BY <2>1 DEF IInv, Owed
<1>2. Pod!Spec => []Pod!LeftoverAccounted
  BY NobodyAssumption, Pod!LeftoversAreAccounted
<1>3. QED
  BY <1>1, <1>2, Inductive, ImplementsDiscipline, SameDiscipline, PTL

-----------------------------------------------------------------------------
(* The report.  What the loops have behind them is open, unless there is a  *)
(* FAIL; and a check that ends before the loops leaves a FAIL.              *)

Open(S) == S \subseteq world.open

Progress(r) ==
  /\ pc[r] = 9 => Open(ProbesFrom("c1") \ probes[r])
  /\ pc[r] = 10 => Open(ProbesFrom("c1")) /\ Open(ProbesFrom("c2") \ probes[r])
  /\ pc[r] = 11 => Open(ProbesFrom("c1")) /\ Open(ProbesFrom("c2"))

ReportInv ==
  /\ probes = [r \in Runs |-> probes[r]]
  /\ \A r \in Runs : Failed(r) \/ Progress(r)

LEMMA FailedStays ==
  ASSUME TypeInv, NEW r \in Runs, NEW x, Report(r, x)
  PROVE  /\ \A q \in Runs : Failed(q) => Failed(q)'
         /\ x.status = "FAIL" => Failed(r)'
BY ReportKeeps DEF Failed

LEMMA InitReport == Init => ReportInv
BY DEF Init, ReportInv, Progress

LEMMA StepReport == IInv /\ ReportInv /\ [Next]_vars => ReportInv'
<1> SUFFICES ASSUME TypeInv, IInv, ReportInv, [Next]_vars  PROVE ReportInv'
  BY DEF IInv
<1> DEFINE Steps(r) ==
      /\ UNCHANGED world
      /\ probes' = [q \in Runs |-> probes'[q]]
      /\ \A q \in Runs \ {r} : pc'[q] = pc[q] /\ probes'[q] = probes[q]
      /\ \A q \in Runs : Failed(q) => Failed(q)'
<1>1. ASSUME NEW r \in Runs, Steps(r),
             ~Failed(r)' /\ ~Failed(r) /\ Progress(r) => Progress(r)'
      PROVE  ReportInv'
  BY <1>1 DEF ReportInv, Progress, Open, ProbesFrom
<1>2. ASSUME NEW r \in Runs, NEW c \in Bases,
             DiscoverDaemons(r, c) \/ ListNodes(r, c) \/ Deploys(r, c)
      PROVE  ReportInv'
  <2>1. /\ pc[r] < 8 /\ UNCHANGED <<world, probes, results>>
        /\ Proceed(r) \/ UNCHANGED pc
    BY <1>2, Where DEF DiscoverDaemons, ListNodes, Deploys
  <2>2. pc'[r] \in {pc[r], pc[r] + 1} /\ pc[r] \in Positions
    <3>1. pc[r] \in Positions /\ pc[r] < 11
      BY <2>1 DEF TypeInv, Positions
    <3>2. QED
      BY <2>1, <3>1, ProceedTo
  <2>3. Steps(r)
    BY <2>1 DEF Proceed, TypeInv, Failed, ReportInv
  <2>4. Progress(r)'
    BY <2>1, <2>2 DEF Progress, Positions
  <2>5. QED
    BY <1>1, <2>3, <2>4
<1>3. ASSUME NEW r \in Runs, NEW c \in Bases, NEW check, Fail(r, check, c),
             UNCHANGED <<world, probes>>
      PROVE  ReportInv'
  <2>1. Result(check, <<c>>, "FAIL").status = "FAIL"
    BY DEF Result
  <2>2. Failed(r)' /\ \A q \in Runs : Failed(q) => Failed(q)'
    BY <1>3, <2>1, FailedStays DEF Fail
  <2>3. Steps(r)
    BY <1>3, <2>2 DEF Fail, Finish, TypeInv, ReportInv
  <2>4. QED
    BY <1>1, <2>2, <2>3
<1>4. ASSUME NEW r \in Runs, NEW c \in Bases, PodIsReady(r, c)  PROVE ReportInv'
  <2>1. /\ pc[r] = (IF c = "c1" THEN 6 ELSE 8) /\ UNCHANGED <<world, results>>
    BY <1>4, Where DEF PodIsReady
  <2>2. CASE /\ Proceed(r)
             /\ probes' = [probes EXCEPT ![r] = IF c = "c2" THEN ProbesFrom("c1") ELSE {}]
    <3>1. pc'[r] = pc[r] + 1
      BY <2>1, <2>2, ProceedTo
    <3>2. Steps(r) /\ (c = "c2" => probes'[r] = ProbesFrom("c1"))
      BY <2>1, <2>2 DEF Proceed, TypeInv, Failed, ReportInv
    <3>3. Progress(r)'
      BY <2>1, <3>1, <3>2 DEF Progress, Open, ProbesFrom, Bases
    <3>4. QED
      BY <1>1, <3>2, <3>3
  <2>3. CASE UNCHANGED <<pc, probes>>
    BY <2>1, <2>3 DEF ReportInv, Failed, Progress, Open, ProbesFrom
  <2>4. QED
    BY <1>4, <2>2, <2>3 DEF PodIsReady
<1>5. ASSUME NEW r \in Runs, NEW c \in Bases, Probe(r, c)  PROVE ReportInv'
  <2> DEFINE p == FirstProbe(probes[r])
  <2>1. PICK status \in {"PASS", "FAIL"} :
          /\ status = "PASS" => CanConnect(r, p)
          /\ Report(r, Result("port", <<p[1], p[2]>>, status))
    BY <1>5 DEF Probe
  <2>2. \A q \in Runs : Failed(q) => Failed(q)'
    BY <2>1, FailedStays
  <2>3. /\ pc[r] = (IF c = "c1" THEN 9 ELSE 10) /\ UNCHANGED world
    BY <1>5, Where DEF Probe
  <2>4. ASSUME ~Failed(r)'  PROVE p \in world.open
    <3>1. Result("port", <<p[1], p[2]>>, status).status = status
      BY DEF Result
    <3>2. status = "PASS"
      BY <2>1, <2>4, <3>1, FailedStays
    <3>3. QED
      BY <2>1, <3>2 DEF CanConnect
  <2>5. CASE /\ probes[r] = {p} /\ Proceed(r)
             /\ probes' = [probes EXCEPT ![r] = IF c = "c1" THEN ProbesFrom("c2") ELSE {}]
    <3>1. pc'[r] = pc[r] + 1
      BY <2>3, <2>5, ProceedTo
    <3>2. Steps(r) /\ (c = "c1" => probes'[r] = ProbesFrom("c2"))
      BY <2>2, <2>3, <2>5 DEF Proceed, TypeInv, ReportInv
    <3>3. ASSUME ~Failed(r)', Progress(r)  PROVE Progress(r)'
      <4>1. Open(ProbesFrom(c))
        BY <2>3, <2>4, <2>5, <3>3 DEF Progress, Open, Bases
      <4>2. QED
        BY <2>3, <3>1, <3>2, <3>3, <4>1 DEF Progress, Open, ProbesFrom, Bases
    <3>4. QED
      BY <1>1, <3>2, <3>3
  <2>6. CASE probes' = [probes EXCEPT ![r] = @ \ {p}] /\ UNCHANGED pc
    <3>1. Steps(r) /\ probes'[r] = probes[r] \ {p}
      BY <2>2, <2>3, <2>6 DEF ReportInv
    <3>2. ASSUME ~Failed(r)', Progress(r)  PROVE Progress(r)'
      BY <2>3, <2>4, <2>6, <3>1, <3>2 DEF Progress, Open, ProbesFrom
    <3>3. QED
      BY <1>1, <3>1, <3>2
  <2>7. QED
    BY <1>5, <2>5, <2>6 DEF Probe
<1>6. ASSUME UNCHANGED <<world, pc, probes, results>>  PROVE ReportInv'
  BY <1>6 DEF ReportInv, Failed, Progress, Open, ProbesFrom
<1>7. ASSUME NEW r \in Runs, NEW c \in Bases,
             ReadFails(r, c) \/ DeployFails(r, c) \/ WaitFails(r, c)
      PROVE  ReportInv'
  BY <1>3, <1>7 DEF ReadFails, DeployFails, WaitFails
<1>8. QED
  BY <1>2, <1>4, <1>5, <1>6, <1>7
  DEF Next, RunStep, CleanUp, Return, Interrupt, Kill, Cluster, runVars, vars

(* A report without FAIL is right, for any number of nodes and endpoints:   *)
(* every listed node connects to every listed endpoint of the peer, in both *)
(* directions; a call that fails, or a node left out, leaves a FAIL.        *)
THEOREM CleanReportsAreTrue == Spec => []CleanReportIsTrue
<1>1. IInv /\ ReportInv => CleanReportIsTrue
  BY DEF IInv, Owed, ReportInv, Progress, Open, CleanReportIsTrue, Bases
<1>2. Spec => []ReportInv
  BY InitReport, StepReport, Inductive, PTL DEF Spec
<1>3. QED
  BY <1>1, <1>2, Inductive, PTL

-----------------------------------------------------------------------------
(* The loops: each set that a loop works on is not empty while it does, and *)
(* the results are those of the probes that the loops have behind them.     *)

LEMMA LeastNumber ==
  ASSUME NEW T \in SUBSET Nat, T # {}
  PROVE  \E x \in T : \A y \in T : x <= y
<1>1. PICK x \in T : \A y \in T : ~ (<<y, x>> \in OpToRel(<, Nat))
  BY NatLessThanWellFounded, WFMin
<1>2. ASSUME NEW y \in T  PROVE ~ (y < x)
  BY <1>1, <1>2 DEF OpToRel
<1>3. QED
  BY <1>2

(* The probe that is next is there: among the probes from one cluster there *)
(* is a first, by its node and then by its endpoint.                        *)
LEMMA FirstProbeIn ==
  ASSUME NEW c \in Bases, NEW S \in SUBSET (NodesOf(c) \X Nat), S # {}
  PROVE  FirstProbe(S) \in S
<1>1. \A q \in S : /\ q[1] \in NodesOf(c) /\ q[1] = <<c, q[1][2]>>
                   /\ q[1][2] \in Nat /\ q[2] \in Nat
  BY NodesAssumption DEF NodesOf
<1>2. PICK x \in {q[1][2] : q \in S} : \A y \in {q[1][2] : q \in S} : x <= y
  <2> DEFINE T == {q[1][2] : q \in S}
  <2>1. T \in SUBSET Nat /\ T # {}
    BY <1>1
  <2> HIDE DEF T
  <2>2. \E x \in T : \A y \in T : x <= y
    BY <2>1, LeastNumber
  <2>3. QED
    BY <2>2 DEF T
<1> DEFINE R == {q \in S : q[1][2] = x}
<1>3. PICK y \in {q[2] : q \in R} : \A z \in {q[2] : q \in R} : y <= z
  <2> DEFINE T == {q[2] : q \in R}
  <2>1. T \in SUBSET Nat /\ T # {}
    BY <1>1, <1>2
  <2> HIDE DEF T
  <2>2. \E z \in T : \A u \in T : z <= u
    BY <2>1, LeastNumber
  <2>3. QED
    BY <2>2 DEF T
<1>4. PICK p \in R : p[2] = y
  OBVIOUS
<1>5. ASSUME NEW q \in S  PROVE p[1][2] < q[1][2] \/ (p[1] = q[1] /\ p[2] <= q[2])
  <2>1. x <= q[1][2] /\ x \in Nat /\ q[1][2] \in Nat /\ p[1][2] = x
    BY <1>1, <1>2
  <2>2. CASE q[1][2] = x
    <3>1. p[1] = q[1]
      BY <1>1, <2>1, <2>2
    <3>2. p[2] <= q[2]
      BY <1>3, <1>4, <2>2
    <3>3. QED
      BY <3>1, <3>2
  <2>3. QED
    BY <2>1, <2>2
<1>6. QED
  BY <1>5 DEF FirstProbe

LoopType ==
  /\ world \in Worlds
  /\ cancelled \in [Runs -> BOOLEAN]
  /\ waiting \in [Runs -> SUBSET Slots]
  /\ probes = [r \in Runs |-> probes[r]]

(* What the calls before the loops have established *)
Listed(r) ==
  /\ pc[r] \in 2..10 => world.endpoints["c1"] # {}
  /\ pc[r] \in 3..10 => world.endpoints["c2"] # {}
  /\ pc[r] \in 4..10 => NodesOf("c1") # {}
  /\ pc[r] \in 5..10 => NodesOf("c2") # {}
  /\ pc[r] = 6 => NodesOf("c1") \subseteq podNames[r]
  /\ pc[r] = 8 => NodesOf("c2") \subseteq podNames[r]
  /\ pc[r] \in {6, 8} => waiting[r] # {}
  /\ \A c \in deferred[r] : podNames[r] \cap NodesOf(c) # {}

Ats(r) == {x.at : x \in results[r]}

Probed(r) ==
  /\ pc[r] < 9 => results[r] = {} /\ probes[r] = {}
  /\ pc[r] = 9 => /\ probes[r] \subseteq ProbesFrom("c1") /\ probes[r] # {}
                  /\ Ats(r) = ProbesFrom("c1") \ probes[r]
  /\ pc[r] = 10 => /\ probes[r] \subseteq ProbesFrom("c2") /\ probes[r] # {}
                   /\ Ats(r) = ProbesFrom("c1") \cup (ProbesFrom("c2") \ probes[r])
  /\ pc[r] = 11 =>
       /\ probes[r] = {}
       /\ \/ \E x \in results[r] : results[r] = {x} /\ x.check \in {"daemons", "nodes", "deploy"}
          \/ Ats(r) = ProbesFrom("c1") \cup ProbesFrom("c2")

LoopInv == LoopType /\ \A r \in Runs : Listed(r) /\ Probed(r)

LEMMA InitLoop == Init => LoopInv
BY DEF Init, LoopInv, LoopType, Listed, Probed

(* Both directions have something to probe once everything is listed *)
LEMMA ProbesAre ==
  ASSUME world \in Worlds, NEW c \in Bases
  PROVE  /\ ProbesFrom(c) \subseteq NodesOf(c) \X Nat
         /\ NodesOf(c) # {} /\ world.endpoints[Peer(c)] # {} => ProbesFrom(c) # {}
<1>1. world.endpoints[Peer(c)] \subseteq Nat
  BY WorldsAssumption DEF Bases, Peer
<1>2. ASSUME NEW A, NEW B, B \subseteq Nat
      PROVE  A \X B \subseteq A \X Nat /\ (A # {} /\ B # {} => A \X B # {})
  <2>1. A \X B \subseteq A \X Nat
    BY <1>2
  <2>2. ASSUME NEW a \in A, NEW b \in B  PROVE <<a, b>> \in A \X B
    OBVIOUS
  <2>3. QED
    BY <2>1, <2>2
<1>3. QED
  BY <1>1, <1>2 DEF ProbesFrom

LEMMA Peers == Peer("c1") = "c2" /\ Peer("c2") = "c1"
BY DEF Peer

LEMMA LoopKept ==
  ASSUME NEW q \in Runs, UNCHANGED world, Listed(q), Probed(q),
         pc'[q] = pc[q], podNames'[q] = podNames[q], deferred'[q] = deferred[q],
         waiting'[q] = waiting[q], probes'[q] = probes[q], results'[q] = results[q]
  PROVE  Listed(q)' /\ Probed(q)'
BY DEF Listed, Probed, Ats, ProbesFrom

LEMMA StepLoop == IInv /\ LoopInv /\ [Next]_vars => LoopInv'
<1> SUFFICES ASSUME IInv, LoopInv, [Next]_vars  PROVE LoopInv'
  OBVIOUS
<1>0. /\ TypeInv /\ LoopType
      /\ \A r \in Runs : Placed(r) /\ Owed(r) /\ Listed(r) /\ Probed(r) /\ pc[r] \in 1..11
  BY DEF IInv, LoopInv, TypeInv, Positions
<1> DEFINE Others(r) ==
      /\ UNCHANGED world
      /\ \A q \in Runs \ {r} :
           /\ pc'[q] = pc[q] /\ podNames'[q] = podNames[q] /\ deferred'[q] = deferred[q]
           /\ waiting'[q] = waiting[q] /\ probes'[q] = probes[q] /\ results'[q] = results[q]
<1>1. ASSUME NEW r \in Runs, Others(r), LoopType', Listed(r)', Probed(r)'  PROVE LoopInv'
  BY <1>0, <1>1, LoopKept DEF LoopInv
<1>2. ASSUME NEW r \in Runs, NEW c \in Bases, DiscoverDaemons(r, c) \/ ListNodes(r, c)
      PROVE  LoopInv'
  <2>1. /\ c = "c1" /\ DiscoverDaemons(r, c) => pc[r] = 1 /\ world.endpoints["c1"] # {}
        /\ c = "c2" /\ DiscoverDaemons(r, c) => pc[r] = 2 /\ world.endpoints["c2"] # {}
        /\ c = "c1" /\ ListNodes(r, c) => pc[r] = 3 /\ NodesOf("c1") # {}
        /\ c = "c2" /\ ListNodes(r, c) => pc[r] = 4 /\ NodesOf("c2") # {}
    BY <1>0, Where DEF DiscoverDaemons, ListNodes
  <2>2. /\ pc[r] \in 1..4 /\ Proceed(r)
        /\ UNCHANGED <<world, cancelled, podNames, waiting, deferred, probes, results>>
        /\ pc[r] = 1 => world.endpoints["c1"] # {}
        /\ pc[r] = 2 => world.endpoints["c2"] # {}
        /\ pc[r] = 3 => NodesOf("c1") # {}
        /\ pc[r] = 4 => NodesOf("c2") # {}
    BY <1>2, <2>1 DEF DiscoverDaemons, ListNodes, Bases
  <2>3. pc'[r] = pc[r] + 1
    BY <1>0, <2>2, ProceedTo
  <2>4. Others(r) /\ LoopType'
    BY <1>0, <2>2 DEF Proceed, TypeInv, LoopType
  <2>5. Listed(r)'
    BY <1>0, <2>2, <2>3 DEF Listed
  <2>6. Probed(r)'
    BY <1>0, <2>2, <2>3 DEF Probed
  <2>7. QED
    BY <1>1, <2>4, <2>5, <2>6
<1>3. ASSUME NEW r \in Runs, NEW step \in {"daemons", "nodes", "deploy", "wait"},
             NEW c \in Bases, At(r, step, c),
             Fail(r, IF step = "wait" THEN "deploy" ELSE step, c),
             UNCHANGED <<world, cancelled, podNames, waiting, deferred, probes>>
      PROVE  LoopInv'
  <2> DEFINE x == Result(IF step = "wait" THEN "deploy" ELSE step, <<c>>, "FAIL")
  <2>1. pc'[r] = 11 /\ pc[r] < 9
    BY <1>0, <1>3, FinishAt, Where DEF Fail
  <2>2. results'[r] = {x} /\ \A q \in Runs \ {r} : results'[q] = results[q]
    BY <1>0, <1>3, <2>1 DEF Fail, Report, TypeInv, Probed
  <2>3. Others(r) /\ LoopType'
    BY <1>0, <1>3, <2>2 DEF Fail, Finish, TypeInv, LoopType
  <2>4. Listed(r)'
    BY <1>0, <1>3, <2>1 DEF Listed
  <2>5. Probed(r)'
    <3>1. x.check \in {"daemons", "nodes", "deploy"}
      BY DEF Result
    <3>2. \E y \in results'[r] : results'[r] = {y} /\ y.check \in {"daemons", "nodes", "deploy"}
      <4> HIDE DEF x
      <4>1. QED
        BY <2>2, <3>1
    <3>3. probes'[r] = {}
      BY <1>0, <1>3, <2>1 DEF Probed
    <3>4. QED
      BY <2>1, <3>2, <3>3 DEF Probed
  <2>6. QED
    BY <1>1, <2>3, <2>4, <2>5
<1>4. ASSUME NEW r \in Runs, NEW c \in Bases, Deploys(r, c)  PROVE LoopInv'
  <2> DEFINE s == NextNode(r, c)
  <2>1. /\ podNames'[r] = podNames[r] \cup {s} /\ s \in Slots
        /\ \A q \in Runs \ {r} : podNames'[q] = podNames[q]
    BY <1>0, <1>4, NextNodeIn, Apart DEF Deploys, TypeInv
  <2>2. /\ pc[r] = (IF c = "c1" THEN 5 ELSE 7)
        /\ UNCHANGED <<world, cancelled, deferred, probes, results>>
    BY <1>0, <1>4, Where DEF Deploys
  <2>3. CASE /\ NodesOf(c) \subseteq podNames'[r]
             /\ Proceed(r) /\ waiting' = [waiting EXCEPT ![r] = NodesOf(c)]
    <3>1. pc'[r] = pc[r] + 1
      BY <1>0, <2>2, <2>3, ProceedTo
    <3>2. Others(r) /\ LoopType' /\ waiting'[r] = NodesOf(c)
      BY <1>0, <2>1, <2>2, <2>3, Apart DEF Proceed, TypeInv, LoopType
    <3>3. Listed(r)'
      BY <1>0, <2>1, <2>2, <2>3, <3>1, <3>2 DEF Listed, Bases
    <3>4. Probed(r)'
      BY <1>0, <2>2, <3>1 DEF Probed
    <3>5. QED
      BY <1>1, <3>2, <3>3, <3>4
  <2>4. CASE UNCHANGED <<pc, waiting>>
    <3>1. Others(r) /\ LoopType'
      BY <1>0, <2>1, <2>2, <2>4 DEF LoopType
    <3>2. Listed(r)'
      BY <1>0, <2>1, <2>2, <2>4 DEF Listed, Bases
    <3>3. Probed(r)'
      BY <1>0, <2>2, <2>4 DEF Probed
    <3>4. QED
      BY <1>1, <3>1, <3>2, <3>3
  <2>5. QED
    BY <1>4, <2>3, <2>4 DEF Deploys
<1>5. ASSUME NEW r \in Runs, NEW c \in Bases, PodIsReady(r, c)  PROVE LoopInv'
  <2>1. /\ pc[r] = (IF c = "c1" THEN 6 ELSE 8)
        /\ UNCHANGED <<world, cancelled, podNames, results>>
    BY <1>0, <1>5, Where DEF PodIsReady
  <2>2. waiting' \in [Runs -> SUBSET Slots] /\ \A q \in Runs \ {r} : waiting'[q] = waiting[q]
    BY <1>0, <1>5 DEF PodIsReady, LoopType
  <2>3. CASE /\ Proceed(r) /\ deferred' = [deferred EXCEPT ![r] = @ \cup {c}]
             /\ probes' = [probes EXCEPT ![r] = IF c = "c2" THEN ProbesFrom("c1") ELSE {}]
    <3>1. pc'[r] = pc[r] + 1
      BY <1>0, <2>1, <2>3, ProceedTo
    <3>2. /\ deferred'[r] = deferred[r] \cup {c}
          /\ probes'[r] = IF c = "c2" THEN ProbesFrom("c1") ELSE {}
          /\ Others(r) /\ LoopType'
      BY <1>0, <2>1, <2>2, <2>3 DEF Proceed, TypeInv, LoopType
    <3>3. NodesOf(c) # {} /\ NodesOf(c) \subseteq podNames[r]
      BY <1>0, <2>1 DEF Listed, Bases
    <3>4. Listed(r)'
      BY <1>0, <2>1, <3>1, <3>2, <3>3 DEF Listed, Bases
    <3>5. Probed(r)'
      <4>1. CASE c = "c1"
        BY <1>0, <2>1, <3>1, <3>2, <4>1 DEF Probed
      <4>2. CASE c = "c2"
        <5>1. ProbesFrom("c1") # {}
          BY <1>0, <2>1, <4>2, ProbesAre, Peers DEF LoopType, Listed, Bases
        <5>2. Ats(r)' = {} /\ ProbesFrom("c1")' = ProbesFrom("c1")
          BY <1>0, <2>1, <4>2 DEF Ats, Probed, ProbesFrom
        <5>3. QED
          BY <2>1, <3>1, <3>2, <4>2, <5>1, <5>2 DEF Probed
      <4>3. QED
        BY <4>1, <4>2 DEF Bases
    <3>6. QED
      BY <1>1, <3>2, <3>4, <3>5
  <2>4. CASE waiting'[r] # {} /\ UNCHANGED <<pc, deferred, probes>>
    <3>1. Others(r) /\ LoopType'
      BY <1>0, <2>1, <2>2, <2>4 DEF LoopType
    <3>2. Listed(r)'
      BY <1>0, <2>1, <2>4 DEF Listed
    <3>3. Probed(r)'
      BY <1>0, <2>1, <2>4 DEF Probed
    <3>4. QED
      BY <1>1, <3>1, <3>2, <3>3
  <2>5. QED
    BY <1>5, <2>3, <2>4 DEF PodIsReady
<1>6. ASSUME NEW r \in Runs, NEW c \in Bases, Probe(r, c)  PROVE LoopInv'
  <2> DEFINE p == FirstProbe(probes[r])
  <2>1. PICK status \in {"PASS", "FAIL"} : Report(r, Result("port", <<p[1], p[2]>>, status))
    BY <1>6 DEF Probe
  <2>2. /\ pc[r] = (IF c = "c1" THEN 9 ELSE 10)
        /\ UNCHANGED <<world, cancelled, podNames, waiting, deferred>>
    BY <1>0, <1>6, Where DEF Probe
  <2>3. probes[r] \subseteq ProbesFrom(c) /\ probes[r] # {}
    BY <1>0, <2>2 DEF Probed, Bases
  <2>4. p \in probes[r] /\ p \in ProbesFrom(c) /\ <<p[1], p[2]>> = p
    <3>1. ProbesFrom(c) \subseteq NodesOf(c) \X Nat
      BY <1>0, ProbesAre DEF LoopType
    <3>2. p \in probes[r]
      BY <2>3, <3>1, FirstProbeIn
    <3>3. p \in NodesOf(c) \X Nat
      BY <2>3, <3>1, <3>2
    <3> HIDE DEF p
    <3>4. QED
      BY <2>3, <3>2, <3>3
  <2> HIDE DEF p
  <2>5. Ats(r)' = Ats(r) \cup {p} /\ \A q \in Runs \ {r} : results'[q] = results[q]
    <3>1. results'[r] = results[r] \cup {Result("port", p, status)}
          /\ \A q \in Runs \ {r} : results'[q] = results[q]
      BY <1>0, <2>1, <2>4 DEF Report, TypeInv
    <3>2. Result("port", p, status).at = p
      BY DEF Result
    <3>3. QED
      BY <3>1, <3>2 DEF Ats
  <2>6. \A d : ProbesFrom(d)' = ProbesFrom(d)
    BY <2>2 DEF ProbesFrom
  <2>7. CASE /\ probes[r] = {p} /\ Proceed(r)
             /\ probes' = [probes EXCEPT ![r] = IF c = "c1" THEN ProbesFrom("c2") ELSE {}]
    <3>1. pc'[r] = pc[r] + 1
      BY <1>0, <2>2, <2>7, ProceedTo
    <3>2. /\ probes'[r] = IF c = "c1" THEN ProbesFrom("c2") ELSE {}
          /\ Others(r) /\ LoopType'
      BY <1>0, <2>2, <2>5, <2>7 DEF Proceed, TypeInv, LoopType
    <3>3. Listed(r)'
      BY <1>0, <2>2, <3>1 DEF Listed, Bases
    <3>4. CASE c = "c1"
      <4>1. ProbesFrom("c2") # {}
        BY <1>0, <2>2, <3>4, ProbesAre, Peers DEF LoopType, Listed, Bases
      <4>2. Ats(r)' = ProbesFrom("c1")
        BY <1>0, <2>2, <2>3, <2>4, <2>5, <2>7, <3>4 DEF Probed
      <4>3. Probed(r)'
        BY <2>2, <2>6, <3>1, <3>2, <3>4, <4>1, <4>2 DEF Probed
      <4>4. QED
        BY <1>1, <3>2, <3>3, <4>3
    <3>5. CASE c = "c2"
      <4>1. Ats(r)' = ProbesFrom("c1") \cup ProbesFrom("c2")
        BY <1>0, <2>2, <2>3, <2>4, <2>5, <2>7, <3>5 DEF Probed
      <4>2. Probed(r)'
        BY <2>2, <2>6, <3>1, <3>2, <3>5, <4>1 DEF Probed
      <4>3. QED
        BY <1>1, <3>2, <3>3, <4>2
    <3>6. QED
      BY <3>4, <3>5 DEF Bases
  <2>8. CASE /\ probes[r] # {p} /\ probes' = [probes EXCEPT ![r] = @ \ {p}]
             /\ UNCHANGED pc
    <3>1. probes'[r] = probes[r] \ {p} /\ Others(r) /\ LoopType'
      BY <1>0, <2>2, <2>5, <2>8 DEF LoopType
    <3>2. Listed(r)'
      BY <1>0, <2>2, <2>8 DEF Listed
    <3>3. probes'[r] # {} /\ probes'[r] \subseteq ProbesFrom(c)
      BY <2>3, <2>4, <2>8, <3>1
    <3>4. Probed(r)'
      <4>1. CASE c = "c1"
        BY <1>0, <2>2, <2>4, <2>5, <2>6, <2>8, <3>1, <3>3, <4>1 DEF Probed
      <4>2. CASE c = "c2"
        BY <1>0, <2>2, <2>4, <2>5, <2>6, <2>8, <3>1, <3>3, <4>2 DEF Probed
      <4>3. QED
        BY <4>1, <4>2 DEF Bases
    <3>5. QED
      BY <1>1, <3>1, <3>2, <3>4
  <2>9. QED
    BY <1>6, <2>7, <2>8 DEF Probe, p
<1>7. ASSUME NEW r \in Runs, CleanUp(r)  PROVE LoopInv'
  <2> DEFINE c == IF "c2" \in deferred[r] THEN "c2" ELSE "c1"
             mine == podNames[r] \cap NodesOf(c)
  <2>1. PICK s \in mine : /\ podNames' = [podNames EXCEPT ![r] = @ \ {s}]
                          /\ deferred' = [deferred EXCEPT ![r] =
                                            IF mine = {s} THEN @ \ {c} ELSE @]
    BY <1>7 DEF CleanUp
  <2>2. pc[r] = 11 /\ UNCHANGED <<world, pc, cancelled, waiting, probes, results>>
    BY <1>0, <1>7, Where DEF CleanUp, Bases
  <2>3. /\ podNames'[r] = podNames[r] \ {s}
        /\ deferred'[r] = IF mine = {s} THEN deferred[r] \ {c} ELSE deferred[r]
    BY <1>0, <2>1 DEF TypeInv
  <2>4. Others(r) /\ LoopType'
    BY <1>0, <2>1, <2>2 DEF TypeInv, LoopType
  <2>5. \A d \in deferred'[r] : podNames'[r] \cap NodesOf(d) # {}
    <3>1. ASSUME NEW d \in deferred'[r], d # c  PROVE podNames'[r] \cap NodesOf(d) # {}
      <4>1. podNames[r] \cap NodesOf(d) # {}
        BY <1>0, <2>3, <3>1 DEF Listed
      <4>2. s \notin NodesOf(d)
        BY <3>1 DEF NodesOf
      <4>3. QED
        BY <2>3, <4>1, <4>2
    <3>2. c \in deferred'[r] => mine # {s}
      BY <2>3
    <3>3. QED
      BY <2>3, <3>1, <3>2
  <2>6. Listed(r)'
    BY <1>0, <2>2, <2>5 DEF Listed
  <2>7. Probed(r)'
    BY <1>0, <2>2 DEF Probed, Ats, ProbesFrom
  <2>8. QED
    BY <1>1, <2>4, <2>6, <2>7
<1>8. ASSUME UNCHANGED <<world, pc, podNames, deferred, waiting, probes, results>>,
             cancelled' \in [Runs -> BOOLEAN]
      PROVE  LoopInv'
  BY <1>0, <1>8, LoopKept DEF LoopInv, LoopType
<1>9. ASSUME NEW r \in Runs, Return(r) \/ Kill(r) \/ Interrupt(r)  PROVE LoopInv'
  <2>1. UNCHANGED <<world, pc, podNames, deferred, waiting, probes, results>>
        /\ cancelled' \in [Runs -> BOOLEAN]
    BY <1>0, <1>9 DEF Return, Kill, Interrupt, LoopType
  <2>2. QED
    BY <1>8, <2>1
<1>10. ASSUME NEW r \in Runs, NEW c \in Bases,
              ReadFails(r, c) \/ DeployFails(r, c) \/ WaitFails(r, c)
       PROVE  LoopInv'
  BY <1>3, <1>10 DEF ReadFails, DeployFails, WaitFails
<1>11. ASSUME NEW s \in Slots, Cluster(s)  PROVE LoopInv'
  BY <1>0, <1>8, <1>11 DEF Cluster, runVars, LoopType
<1>12. CASE UNCHANGED vars
  BY <1>0, <1>8, <1>12 DEF vars, runVars, LoopType
<1>13. QED
  BY <1>2, <1>4, <1>5, <1>6, <1>7, <1>9, <1>10, <1>11, <1>12 DEF Next, RunStep

LEMMA LoopInductive == Spec => []LoopInv
BY InitLoop, StepLoop, Inductive, PTL DEF Spec

(* Types, with the server's from the discipline, and no step of the program *)
(* has an empty set to work on: no wait without a pod, no probe of nothing, *)
(* no clean-up of a cluster without a pod (ceph_daemon_discovery.go:308).   *)
THEOREM TypeCorrect == Spec => []TypeOK
<1>1. Pod!TypeOK => ServerTypeOK
  BY DEF Pod!TypeOK, Pod!ServerTypeOK, Pod!Pods, Pod!Phases, Pod!Living, Pod!IsFree,
       ServerTypeOK, Pods, Phases, Living, IsFree
<1>2. IInv /\ LoopInv /\ ServerTypeOK => TypeOK
  <2> SUFFICES ASSUME IInv, LoopInv, ServerTypeOK  PROVE TypeOK
    OBVIOUS
  <2>1. DOMAIN Program = Positions
    BY DEF Program, Positions
  <2>2. ASSUME NEW r \in Runs  PROVE probes[r] \subseteq Slots \X Nat
    <3>1. /\ ProbesFrom("c1") \subseteq NodesOf("c1") \X Nat
          /\ ProbesFrom("c2") \subseteq NodesOf("c2") \X Nat
      BY ProbesAre DEF LoopInv, LoopType, Bases
    <3>2. NodesOf("c1") \subseteq Slots /\ NodesOf("c2") \subseteq Slots
      BY Apart DEF Bases
    <3>3. probes[r] = {} \/ probes[r] \subseteq ProbesFrom("c1")
          \/ probes[r] \subseteq ProbesFrom("c2")
      BY DEF LoopInv, Probed, IInv, TypeInv, Positions
    <3>4. QED
      BY <3>1, <3>2, <3>3
  <2>3. ASSUME NEW r \in Runs, NEW c \in Bases
        PROVE  /\ At(r, "wait", c) => waiting[r] # {}
               /\ At(r, "probe", c) => probes[r] # {}
               /\ c \in deferred[r] => podNames[r] \cap NodesOf(c) # {}
    BY Where DEF IInv, LoopInv, Listed, Probed, Bases
  <2>4. QED
    BY <2>1, <2>2, <2>3 DEF IInv, TypeInv, LoopInv, LoopType, TypeOK
<1>3. Pod!Spec => []Pod!TypeOK
  BY NobodyAssumption, Pod!TypeCorrect
<1>4. QED
  BY <1>1, <1>2, <1>3, Inductive, LoopInductive, ImplementsDiscipline, SameDiscipline, PTL

(* A check that returns has one result, of the call that failed, or one for *)
(* every node and every endpoint of its peer: no failure of a probe ends    *)
(* the loops of checkCephHostNetwork (ceph_daemon.go:134).                  *)
THEOREM ProbesAreAllOrNone == Spec => []ProbesAllOrNone
<1>1. IInv /\ LoopInv => ProbesAllOrNone
  BY DEF IInv, Owed, LoopInv, Probed, Ats, ProbesAllOrNone
<1>2. QED
  BY <1>1, Inductive, LoopInductive, PTL

=============================================================================
