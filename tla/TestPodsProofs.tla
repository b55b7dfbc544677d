---------------------------- MODULE TestPodsProofs ----------------------------
(***************************************************************************)
(* The pod discipline of TestPods, proved for any number of runs and pod   *)
(* names.  The inductive invariant is the conjunction of three of the      *)
(* properties with the types: HeldIsOwn carries the argument, since a name *)
(* held by a run can only lose its pod to the run itself or to an outside  *)
(* deletion, which `taken` records for ever.                               *)
(***************************************************************************)
EXTENDS TestPods, TLAPS

Safe == HeldIsOwn /\ OnlyOwnPodsDeleted /\ LeftoverAccounted

IInv == TypeOK /\ Safe

-----------------------------------------------------------------------------
(* The ways a server step can change the pods, with their type *)

LEMMA InitTypeOK == Init => TypeOK
BY NobodyAssumption
DEF Init, ServerInit, TypeOK, ServerTypeOK, Pods, NoPod, Phases, Living, IsFree

LEMMA NewPodType ==
  ASSUME ServerTypeOK, NEW r \in Runs, NEW s \in Slots, NewPod(r, s),
         orphaned' \subseteq Runs \X Slots, sent' \subseteq Runs \X Slots
  PROVE  ServerTypeOK'
BY NobodyAssumption
DEF ServerTypeOK, NewPod, Pods, Phases, Living, IsFree

LEMMA DeleteType ==
  ASSUME ServerTypeOK, NEW r \in Runs, NEW s \in Slots, DeleteTestPod(r, s)
  PROVE  ServerTypeOK'
<1>1. CASE Lives(s)
  <2>1. pods[s].owner \in Runs
    BY <1>1 DEF ServerTypeOK, Lives, Living, IsFree, Pods
  <2>2. QED
    BY <1>1, <2>1 DEF ServerTypeOK, DeleteTestPod, Lives, Pods, Phases, Living, IsFree
<1>2. CASE ~Lives(s)
  BY <1>2 DEF ServerTypeOK, DeleteTestPod, Lives, Pods, Phases, Living, IsFree
<1>3. QED
  BY <1>1, <1>2

LEMMA ServerStepType ==
  ASSUME ServerTypeOK, NEW s \in Slots, ServerStep(s)
  PROVE  ServerTypeOK'
<1>1. CASE PodStarts(s)
  BY <1>1 DEF ServerTypeOK, PodStarts, Pods, Phases, Living, IsFree
<1>2. CASE PodEnds(s)
  BY <1>2 DEF ServerTypeOK, PodEnds, Pods, Phases, Living, IsFree
<1>3. CASE PodGone(s)
  BY <1>3 DEF ServerTypeOK, PodGone, NoPod, Pods, Phases, Living, IsFree
<1>4. CASE OutsideDelete(s)
  <2>1. pods[s].owner \in Runs
    BY <1>4 DEF ServerTypeOK, OutsideDelete, Lives, Living, IsFree, Pods
  <2>2. QED
    BY <1>4, <2>1 DEF ServerTypeOK, OutsideDelete, Lives, Pods, Phases, Living, IsFree
<1>5. ASSUME NEW r \in Runs, LateCreate(r, s)  PROVE ServerTypeOK'
  <2>1. /\ sent' \subseteq Runs \X Slots
        /\ orphaned' \subseteq Runs \X Slots
    BY <1>5 DEF ServerTypeOK, LateCreate
  <2>2. CASE NewPod(r, s)
    BY <2>1, <2>2, NewPodType
  <2>3. CASE UNCHANGED <<pods, orphaned, taken>>
    BY <2>1, <2>3 DEF ServerTypeOK, IsFree
  <2>4. QED
    BY <1>5, <2>2, <2>3 DEF LateCreate
<1>6. QED
  BY <1>1, <1>2, <1>3, <1>4, <1>5 DEF ServerStep

LEMMA StepTypeOK == TypeOK /\ [Next]_vars => TypeOK'
<1> SUFFICES ASSUME TypeOK, [Next]_vars PROVE TypeOK'
  OBVIOUS
<1> USE DEF TypeOK
<1>1. ASSUME NEW r \in Runs, NEW s \in Slots, Deploy(r, s) PROVE TypeOK'
  <2>1. ServerTypeOK'
    BY <1>1, NewPodType DEF Deploy, DeployTestPod, ServerTypeOK
  <2>2. QED
    BY <1>1, <2>1 DEF Deploy
<1>2. ASSUME NEW r \in Runs, NEW s \in Slots, DeployLost(r, s) PROVE TypeOK'
  <2>1. ServerTypeOK'
    BY <1>2 DEF DeployLost, DeployUnanswered, ServerTypeOK, IsFree
  <2>2. QED
    BY <1>2, <2>1 DEF DeployLost
<1>3. ASSUME NEW r \in Runs, NEW s \in Slots, CleanUp(r, s) PROVE TypeOK'
  <2>1. CASE DeleteTestPod(r, s)
    BY <1>3, <2>1, DeleteType DEF CleanUp
  <2>2. CASE DeleteFailed(r, s)
    BY <1>3, <2>2 DEF CleanUp, DeleteFailed, ServerTypeOK, IsFree
  <2>3. QED
    BY <1>3, <2>1, <2>2 DEF CleanUp
<1>4. ASSUME NEW r \in Runs, Return(r) PROVE TypeOK'
  BY <1>4 DEF Return, serverVars, ServerTypeOK, IsFree
<1>5. ASSUME NEW r \in Runs, Kill(r) PROVE TypeOK'
  BY <1>5 DEF Kill, serverVars, ServerTypeOK, IsFree
<1>6. ASSUME NEW s \in Slots, Cluster(s) PROVE TypeOK'
  BY <1>6, ServerStepType DEF Cluster
<1>7. CASE UNCHANGED vars
  BY <1>7 DEF vars, serverVars, ServerTypeOK, IsFree
<1>8. QED
  BY <1>1, <1>2, <1>3, <1>4, <1>5, <1>6, <1>7 DEF Next

(* Types: pods, ownership, what is owed and what was taken, in every run *)
THEOREM TypeCorrect == Spec => []TypeOK
<1>1. QED
  BY InitTypeOK, StepTypeOK, PTL DEF Spec

-----------------------------------------------------------------------------
(* An outside deletion stays on record, and an owner lost is on record too *)

LEMMA TakenGrows ==
  ASSUME [Next]_vars PROVE taken \subseteq taken'
BY DEF Next, vars, serverVars, Deploy, DeployTestPod, NewPod, DeployLost,
       DeployUnanswered, CleanUp, DeleteTestPod, DeleteFailed, Return, Kill, Cluster,
       ServerStep, PodStarts, PodEnds, PodGone, OutsideDelete, LateCreate

LEMMA TouchedStays ==
  ASSUME [Next]_vars, NEW s \in Slots, OutsideTouched(s) PROVE OutsideTouched(s)'
BY TakenGrows DEF OutsideTouched

LEMMA InitSafe == Init => Safe
BY NobodyAssumption
DEF Init, ServerInit, Safe, HeldIsOwn, OnlyOwnPodsDeleted, LeftoverAccounted, Owns, Lives,
    Living, NoPod

(* A new pod takes a free name, so nobody owned it before *)
LEMMA NewPodOwns ==
  ASSUME TypeOK, NEW r \in Runs, NEW s \in Slots, NewPod(r, s),
         NEW q \in Runs, NEW t \in Slots
  PROVE  /\ Owns(q, t) => Owns(q, t)'
         /\ Owns(q, t)' => Owns(q, t) \/ <<q, t>> = <<r, s>>
         /\ Owns(r, s)'
BY DEF TypeOK, ServerTypeOK, Pods, NewPod, IsFree, Owns, Lives, Living

(* A server step keeps every living pod but the one an outside deletion      *)
(* takes, and the pod it may add is one its run is never told of.            *)
LEMMA ServerStepOwns ==
  ASSUME TypeOK, NEW s \in Slots, ServerStep(s), NEW r \in Runs, NEW t \in Slots
  PROVE  /\ Owns(r, t)' => Owns(r, t) \/ <<r, t>> \in orphaned'
         /\ Owns(r, t) => Owns(r, t)' \/ OutsideTouched(t)'
<1>1. CASE PodStarts(s)
  BY <1>1 DEF TypeOK, ServerTypeOK, Pods, PodStarts, Owns, Lives, Living
<1>2. CASE PodEnds(s)
  BY <1>2 DEF TypeOK, ServerTypeOK, Pods, PodEnds, Owns, Lives, Living
<1>3. CASE PodGone(s)
  BY <1>3 DEF TypeOK, ServerTypeOK, Pods, PodGone, NoPod, Owns, Lives, Living
<1>4. CASE OutsideDelete(s)
  <2>1. Owns(r, t)' => Owns(r, t)
    BY <1>4 DEF TypeOK, ServerTypeOK, Pods, OutsideDelete, Owns, Lives, Living
  <2>2. CASE t = s
    <3>1. <<pods[s].owner, s, Nobody>> \in taken'
      BY <1>4 DEF OutsideDelete
    <3>2. QED
      BY <2>1, <2>2, <3>1 DEF OutsideTouched
  <2>3. CASE t # s
    BY <1>4, <2>1, <2>3 DEF TypeOK, ServerTypeOK, Pods, OutsideDelete, Owns, Lives
  <2>4. QED
    BY <2>2, <2>3
<1>5. ASSUME NEW q \in Runs, LateCreate(q, s)
      PROVE  /\ Owns(r, t)' => Owns(r, t) \/ <<r, t>> \in orphaned'
             /\ Owns(r, t) => Owns(r, t)'
  <2>1. CASE NewPod(q, s) /\ orphaned' = orphaned \cup {<<q, s>>}
    BY <2>1, NewPodOwns
  <2>2. CASE UNCHANGED <<pods, orphaned, taken>>
    BY <2>2 DEF Owns, Lives
  <2>3. QED
    BY <1>5, <2>1, <2>2 DEF LateCreate
<1>6. QED
  BY <1>1, <1>2, <1>3, <1>4, <1>5 DEF ServerStep

(* A clean-up ends the run's own pod, or that of a name touched from outside *)
LEMMA CleanUpOwns ==
  ASSUME IInv, NEW r \in Runs, NEW s \in Slots, CleanUp(r, s), DeleteTestPod(r, s),
         NEW q \in Runs, NEW t \in Slots
  PROVE  /\ Owns(q, t)' => Owns(q, t) /\ t # s
         /\ Owns(q, t) => Owns(q, t)' \/ <<q, t>> = <<r, s>> \/ OutsideTouched(t)
<1> USE DEF IInv, TypeOK, ServerTypeOK, Pods, DeleteTestPod, Owns, Lives, Living
<1>1. Owns(q, t)' => Owns(q, t) /\ t # s
  OBVIOUS
<1>2. CASE t # s
  BY <1>1, <1>2
<1>3. CASE t = s
  <2>1. Owns(r, s) \/ OutsideTouched(s)
    BY DEF CleanUp, Safe, HeldIsOwn
  <2>2. QED
    BY <1>1, <1>3, <2>1
<1>4. QED
  BY <1>2, <1>3

-----------------------------------------------------------------------------
LEMMA StepSafe == IInv /\ [Next]_vars => Safe'
<1> SUFFICES ASSUME IInv, [Next]_vars PROVE Safe'
  OBVIOUS
<1> USE DEF IInv, Safe
<1>1. ASSUME NEW r \in Runs, NEW s \in Slots, Deploy(r, s) PROVE Safe'
  <2> NewPod(r, s) /\ UNCHANGED taken
    BY <1>1 DEF Deploy, DeployTestPod, NewPod
  <2>1. HeldIsOwn'
    BY <1>1, NewPodOwns, TouchedStays DEF Deploy, TypeOK, HeldIsOwn
  <2>2. OnlyOwnPodsDeleted'
    BY DEF OnlyOwnPodsDeleted, OutsideTouched
  <2>3. LeftoverAccounted'
    BY <1>1, NewPodOwns DEF Deploy, DeployTestPod, TypeOK, LeftoverAccounted
  <2>4. QED
    BY <2>1, <2>2, <2>3
<1>2. ASSUME NEW r \in Runs, NEW s \in Slots, DeployLost(r, s) PROVE Safe'
  BY <1>2 DEF DeployLost, DeployUnanswered, HeldIsOwn, OnlyOwnPodsDeleted,
              LeftoverAccounted, Owns, Lives, OutsideTouched
<1>3. ASSUME NEW r \in Runs, NEW s \in Slots, CleanUp(r, s) PROVE Safe'
  <2>1. CASE DeleteTestPod(r, s)
    <3>1. HeldIsOwn'
      BY <1>3, <2>1, CleanUpOwns, TouchedStays DEF CleanUp, TypeOK, HeldIsOwn
    <3>2. OnlyOwnPodsDeleted'
      <4>1. Lives(s) /\ pods[s].owner # r => OutsideTouched(s)
        BY <1>3 DEF CleanUp, HeldIsOwn, Owns
      <4>2. QED
        BY <2>1, <4>1, TouchedStays
        DEF DeleteTestPod, OnlyOwnPodsDeleted, TypeOK, ServerTypeOK, OutsideTouched
    <3>3. LeftoverAccounted'
      BY <1>3, <2>1, CleanUpOwns DEF CleanUp, DeleteTestPod, TypeOK, LeftoverAccounted
    <3>4. QED
      BY <3>1, <3>2, <3>3
  <2>2. CASE DeleteFailed(r, s)
    <3> UNCHANGED <<pods, taken>> /\ held' = [held EXCEPT ![r] = @ \ {s}]
      BY <1>3, <2>2 DEF CleanUp, DeleteFailed
    <3>1. HeldIsOwn' /\ OnlyOwnPodsDeleted'
      BY DEF TypeOK, HeldIsOwn, OnlyOwnPodsDeleted, Owns, Lives, OutsideTouched
    <3>2. LeftoverAccounted'
      BY <2>2 DEF DeleteFailed, TypeOK, LeftoverAccounted, Owns, Lives
    <3>3. QED
      BY <3>1, <3>2
  <2>3. QED
    BY <1>3, <2>1, <2>2 DEF CleanUp
<1>4. ASSUME UNCHANGED <<serverVars, held>> PROVE Safe'
  BY <1>4 DEF serverVars, HeldIsOwn, OnlyOwnPodsDeleted, LeftoverAccounted, Owns, Lives,
              OutsideTouched
<1>5. ASSUME NEW s \in Slots, Cluster(s) PROVE Safe'
  <2> ServerStep(s) /\ UNCHANGED held /\ orphaned \subseteq orphaned'
    BY <1>5 DEF Cluster, ServerStep, PodStarts, PodEnds, PodGone, OutsideDelete, LateCreate
  <2>1. HeldIsOwn'
    BY ServerStepOwns, TouchedStays DEF TypeOK, HeldIsOwn
  <2>2. OnlyOwnPodsDeleted'
    <3>1. \A t \in taken' \ taken : t[3] \notin Runs
      <4>1. OutsideDelete(s) \/ taken' = taken
        BY DEF ServerStep, PodStarts, PodEnds, PodGone, LateCreate, NewPod
      <4>2. QED
        BY <4>1, NobodyAssumption DEF OutsideDelete
    <3>2. QED
      BY <3>1, TouchedStays DEF OnlyOwnPodsDeleted, TypeOK, ServerTypeOK
  <2>3. LeftoverAccounted'
    BY ServerStepOwns DEF LeftoverAccounted
  <2>4. QED
    BY <2>1, <2>2, <2>3
<1>6. QED
  BY <1>1, <1>2, <1>3, <1>4, <1>5 DEF Next, Return, Kill, vars

LEMMA Inductive == Spec => []IInv
<1>1. Init => IInv
  BY InitTypeOK, InitSafe DEF IInv
<1>2. IInv /\ [Next]_vars => IInv'
  BY StepTypeOK, StepSafe DEF IInv
<1>3. QED
  BY <1>1, <1>2, PTL DEF Spec

(* The deferred deletion of a run will hit the run's own pod, unless a pod  *)
(* of that name was deleted from outside.                                   *)
THEOREM HeldPodsAreOwn == Spec => []HeldIsOwn
<1>1. IInv => HeldIsOwn
  BY DEF IInv, Safe
<1>2. QED
  BY <1>1, Inductive, PTL

(* Deletes by name hit another run's pod only after an outside deletion. *)
THEOREM DeletesAreOwn == Spec => []OnlyOwnPodsDeleted
<1>1. IInv => OnlyOwnPodsDeleted
  BY DEF IInv, Safe
<1>2. QED
  BY <1>1, Inductive, PTL

(* A living pod is owed a deletion, or its run could not know of it. *)
THEOREM LeftoversAreAccounted == Spec => []LeftoverAccounted
<1>1. IInv => LeftoverAccounted
  BY DEF IInv, Safe
<1>2. QED
  BY <1>1, Inductive, PTL

(* Two runs never hold one pod name, absent outside deletions: the pod has  *)
(* one owner, and both would own it.                                        *)
THEOREM NamesAreExclusive == Spec => []NameIsExclusive
<1>1. IInv => NameIsExclusive
  BY DEF IInv, Safe, HeldIsOwn, NameIsExclusive, Owns
<1>2. QED
  BY <1>1, Inductive, PTL

=============================================================================
