--------------------------- MODULE S3RouteCheckProofs ---------------------------
(***************************************************************************)
(* What CheckS3Routes reports and what it leaves behind, for any number of *)
(* runs and of targets.  TypeInv is inductive alone and is enough for the  *)
(* refinement of TestPods; Progress adds what the report says of the       *)
(* targets that the loop has behind it, and of the one it is at.           *)
(***************************************************************************)
EXTENDS S3RouteCheck, FiniteSetTheorems, WellFoundedInduction, TLAPS

Pod == INSTANCE TestPodsProofs WITH
  held <- deferred,
  run <- [r \in Runs |-> IF Ended(r) THEN pc[r] ELSE "active"]

Running == {"discover-c1", "discover-c2", "deploy", "wait", "probe", "return"}
Labels == Running \cup {"returned", "killed"}
InLoop == {"deploy", "wait", "probe"}

TypeInv ==
  /\ world \in Worlds
  /\ pc \in [Runs -> Labels]
  /\ cancelled \in [Runs -> BOOLEAN]
  /\ found \in [Runs -> SUBSET Bases]
  /\ target \in [Runs -> Nat]
  /\ todo \in [Runs -> SUBSET Bases]
  /\ deferred \in [Runs -> SUBSET Targets]
  /\ results \in [Runs -> SUBSET ResultTypes]
  /\ \A r \in Runs : /\ pc[r] \in InLoop => target[r] \in Targets
                     /\ pc[r] \in {"discover-c1", "discover-c2"} => target[r] = 1
                     /\ pc[r] \in {"wait", "probe"} => target[r] \in deferred[r]
                     /\ pc[r] = "returned" => deferred[r] = {}

-----------------------------------------------------------------------------
LEMMA TargetsAreNat == \E n \in Nat : Targets = 1..n
BY TargetsAssumption, FS_CardinalityType DEF Targets

(* The deferred call that runs next is there: a set of targets has a last  *)
LEMMA LastDeferred ==
  ASSUME NEW D \in SUBSET Targets, D # {}
  PROVE  \E t \in D : \A u \in D : u <= t
<1>1. PICK n \in Nat : Targets = 1..n
  BY TargetsAreNat
<1> DEFINE T == {n - u : u \in D}
<1>2. T \subseteq Nat /\ T # {}
  BY <1>1
<1>3. PICK x \in T : \A y \in T : ~ (<<y, x>> \in OpToRel(<, Nat))
  <2> HIDE DEF T
  <2>1. QED
    BY <1>2, NatLessThanWellFounded, WFMin
<1>4. \A y \in T : ~ (y < x)
  BY <1>2, <1>3 DEF OpToRel
<1>5. PICK t \in D : x = n - t
  OBVIOUS
<1>6. \A u \in D : ~ (n - u < n - t)
  BY <1>4, <1>5
<1>7. QED
  BY <1>1, <1>6

LEMMA NextDeferredIn ==
  ASSUME NEW r \in Runs, deferred[r] \in SUBSET Targets, deferred[r] # {}
  PROVE  NextDeferred(r) \in deferred[r]
BY LastDeferred DEF NextDeferred

(* The loop goes on with a target there is, or it has seen the last one *)
LEMMA TurnOfLoop ==
  ASSUME TypeInv, NEW r \in Runs, pc[r] \in InLoop, NextTarget(r)
  PROVE  /\ target' = [target EXCEPT ![r] = @ + 1]
         /\ \/ pc' = [pc EXCEPT ![r] = "deploy"] /\ target[r] + 1 \in Targets
            \/ pc' = [pc EXCEPT ![r] = "return"] /\ \A t \in Targets : t < target[r] + 1
<1>1. PICK n \in Nat : Targets = 1..n
  BY TargetsAreNat
<1>2. target[r] \in 1..n
  BY <1>1 DEF TypeInv
<1>3. target[r] + 1 \notin Targets => \A t \in Targets : t < target[r] + 1
  BY <1>1, <1>2
<1>4. QED
  BY <1>3 DEF NextTarget, Goto

LEMMA ReportTypes ==
  ASSUME TypeInv, NEW r \in Runs, NEW rs \in SUBSET ResultTypes, Report(r, rs)
  PROVE  results' \in [Runs -> SUBSET ResultTypes]
BY DEF Report, TypeInv

LEMMA ResultIsTyped ==
  ASSUME NEW check \in {"discover", "noproxy", "deploy", "wait", "reach"}, NEW t \in Nat,
         NEW route \in Bases \cup {"any"}, NEW status \in {"PASS", "WARN", "FAIL"}
  PROVE  Result(check, t, route, status) \in ResultTypes
BY DEF Result, ResultTypes

LEMMA NoProxyResultsTyped ==
  ASSUME TypeInv, NEW r \in Runs
  PROVE  NoProxyResults(r) \in SUBSET ResultTypes
<1>1. target[r] \in Nat /\ found[r] \subseteq Bases
  BY DEF TypeInv
<1>2. QED
  BY <1>1, ResultIsTyped DEF NoProxyResults

LEMMA InitTypeInv == Init => TypeInv
BY DEF Init, TypeInv, Labels, Running, InLoop

LEMMA StepTypeInv == TypeInv /\ [Next]_vars => TypeInv'
<1> SUFFICES ASSUME TypeInv, [Next]_vars  PROVE TypeInv'
  OBVIOUS
<1> USE DEF Labels, Running, InLoop
<1>1. ASSUME NEW r \in Runs, NEW c \in Bases, DiscoverFails(r, c)  PROVE TypeInv'
  <2>1. results' \in [Runs -> SUBSET ResultTypes]
    BY <1>1, ReportTypes, ResultIsTyped DEF DiscoverFails
  <2>2. QED
    BY <1>1, <2>1 DEF TypeInv, DiscoverFails, Goto
<1>2. ASSUME NEW r \in Runs, DiscoverC1(r)  PROVE TypeInv'
  BY <1>2 DEF TypeInv, DiscoverC1, Goto, Bases
<1>3. ASSUME NEW r \in Runs, DiscoverC2(r)  PROVE TypeInv'
  <2>1. results' \in [Runs -> SUBSET ResultTypes]
    BY <1>3, ReportTypes, ResultIsTyped DEF DiscoverC2, TypeInv
  <2>2. found' \in [Runs -> SUBSET Bases]
    BY <1>3 DEF TypeInv, DiscoverC2, Bases
  <2>3. \/ pc' = [pc EXCEPT ![r] = "return"]
        \/ pc' = [pc EXCEPT ![r] = "deploy"]
    BY <1>3 DEF DiscoverC2, Goto
  <2>4. pc[r] = "discover-c2" /\ UNCHANGED <<world, cancelled, target, todo, deferred>>
    BY <1>3 DEF DiscoverC2
  <2>5. QED
    BY <2>1, <2>2, <2>3, <2>4, TargetsAssumption DEF TypeInv, Targets
<1>4. ASSUME NEW r \in Runs, Deploys(r)  PROVE TypeInv'
  <2>1. results' \in [Runs -> SUBSET ResultTypes]
    BY <1>4, ReportTypes, NoProxyResultsTyped DEF Deploys
  <2>2. QED
    BY <1>4, <2>1 DEF TypeInv, Deploys, Goto
<1>5. ASSUME NEW r \in Runs, pc[r] \in InLoop, NextTarget(r),
             results' \in [Runs -> SUBSET ResultTypes], todo' \in [Runs -> SUBSET Bases],
             UNCHANGED <<world, cancelled, found, deferred>>
      PROVE  TypeInv'
  <2>1. target' \in [Runs -> Nat]
    BY <1>5, TurnOfLoop DEF TypeInv
  <2>2. QED
    BY <1>5, <2>1, TurnOfLoop DEF TypeInv
<1>6. ASSUME NEW r \in Runs, DeployFails(r)  PROVE TypeInv'
  <2>1. results' \in [Runs -> SUBSET ResultTypes]
    <3>1. Result("deploy", target[r], "any", "FAIL") \in ResultTypes
      BY ResultIsTyped DEF TypeInv
    <3>2. QED
      BY <1>6, <3>1, ReportTypes, NoProxyResultsTyped DEF DeployFails
  <2>2. QED
    BY <1>5, <1>6, <2>1 DEF DeployFails, TypeInv
<1>7. ASSUME NEW r \in Runs, PodIsReady(r)  PROVE TypeInv'
  BY <1>7 DEF TypeInv, PodIsReady, Goto
<1>8. ASSUME NEW r \in Runs, WaitFails(r)  PROVE TypeInv'
  <2>1. results' \in [Runs -> SUBSET ResultTypes]
    <3>1. Result("wait", target[r], "any", "FAIL") \in ResultTypes
      BY ResultIsTyped DEF TypeInv
    <3>2. QED
      BY <1>8, <3>1, ReportTypes DEF WaitFails
  <2>2. QED
    BY <1>5, <1>8, <2>1 DEF WaitFails, TypeInv
<1>9. ASSUME NEW r \in Runs, NEW c \in Bases, Probe(r, c)  PROVE TypeInv'
  <2>1. results' \in [Runs -> SUBSET ResultTypes]
    <3>1. \A status \in {"PASS", "FAIL"} : Result("reach", target[r], c, status) \in ResultTypes
      BY ResultIsTyped DEF TypeInv
    <3>2. QED
      BY <1>9, <3>1, ReportTypes DEF Probe
  <2>2. todo' \in [Runs -> SUBSET Bases] /\ pc[r] \in InLoop
    BY <1>9 DEF Probe, TypeInv
  <2>3. CASE NextTarget(r)
    BY <1>5, <1>9, <2>1, <2>2, <2>3 DEF Probe
  <2>4. CASE UNCHANGED <<pc, target>>
    BY <1>9, <2>1, <2>2, <2>4 DEF Probe, TypeInv
  <2>5. QED
    BY <1>9, <2>3, <2>4 DEF Probe
<1>10. ASSUME NEW r \in Runs, CleanUp(r)  PROVE TypeInv'
  BY <1>10 DEF TypeInv, CleanUp
<1>11. ASSUME NEW r \in Runs, Return(r)  PROVE TypeInv'
  BY <1>11 DEF TypeInv, Return, Goto
<1>12. ASSUME NEW r \in Runs, Interrupt(r)  PROVE TypeInv'
  BY <1>12 DEF TypeInv, Interrupt
<1>13. ASSUME NEW r \in Runs, Kill(r)  PROVE TypeInv'
  BY <1>13 DEF TypeInv, Kill, Goto
<1>14. ASSUME NEW t \in Targets, Cluster(t)  PROVE TypeInv'
  BY <1>14 DEF TypeInv, Cluster, runVars
<1>15. CASE UNCHANGED vars
  BY <1>15 DEF TypeInv, vars, runVars
<1>16. QED
  BY <1>1, <1>2, <1>3, <1>4, <1>6, <1>7, <1>8, <1>9, <1>10, <1>11, <1>12, <1>13, <1>14, <1>15
  DEF Next, RunStep

LEMMA TypeInductive == Spec => []TypeInv
BY InitTypeInv, StepTypeInv, PTL DEF Spec

-----------------------------------------------------------------------------
(* The refinement: a Create that is answered owes its clean-up in the same  *)
(* step, the deferred deletions pay, and all other calls stutter.           *)

LEMMA StepRefines == TypeInv /\ [Next]_vars => [Discipline!Next]_(Discipline!vars)
<1> SUFFICES ASSUME TypeInv, [Next]_vars  PROVE [Discipline!Next]_(Discipline!vars)
  OBVIOUS
<1> DEFINE run == [r \in Runs |-> IF Ended(r) THEN pc[r] ELSE "active"]
<1>1. ASSUME NEW r \in Runs, pc[r] \in Running,
             \E l \in Running : pc' = [pc EXCEPT ![r] = l]
      PROVE  run' = run /\ run[r] = "active"
  BY <1>1 DEF TypeInv, Ended, Running
<1>2. ASSUME NEW r \in Runs, pc[r] \in InLoop, NextTarget(r)
      PROVE  run' = run /\ run[r] = "active"
  BY <1>1, <1>2 DEF NextTarget, Goto, Running, InLoop
<1>3. ASSUME UNCHANGED <<serverVars, deferred>>, run' = run
      PROVE  UNCHANGED Discipline!vars
  BY <1>3 DEF Discipline!vars, Discipline!serverVars, serverVars
<1>4. ASSUME NEW r \in Runs,
             (\E c \in Bases : DiscoverFails(r, c)) \/ DiscoverC1(r) \/ DiscoverC2(r)
               \/ PodIsReady(r)
      PROVE  UNCHANGED Discipline!vars
  <2>1. /\ pc[r] \in Running /\ UNCHANGED <<serverVars, deferred>>
        /\ \E l \in Running : pc' = [pc EXCEPT ![r] = l]
    BY <1>4 DEF DiscoverFails, DiscoverC1, DiscoverC2, PodIsReady, Goto, Running, Bases
  <2>2. QED
    BY <1>1, <1>3, <2>1
<1>5. ASSUME NEW r \in Runs, Deploys(r)
      PROVE  target[r] \in Slots /\ Discipline!Deploy(r, target[r])
  <2>1. target[r] \in Slots
    BY <1>5 DEF Deploys, TypeInv, InLoop, Targets
  <2>2. run' = run /\ run[r] = "active"
    BY <1>1, <1>5 DEF Deploys, Goto, Running
  <2>3. QED
    BY <1>5, <2>1, <2>2 DEF Deploys, DeployTestPod, NewPod, IsFree,
         Discipline!Deploy, Discipline!DeployTestPod, Discipline!NewPod, Discipline!IsFree
<1>6. ASSUME NEW r \in Runs, DeployFails(r)
      PROVE  \/ target[r] \in Slots /\ Discipline!DeployLost(r, target[r])
             \/ UNCHANGED Discipline!vars
  <2>1. pc[r] = "deploy" /\ NextTarget(r) /\ UNCHANGED deferred
    BY <1>6 DEF DeployFails
  <2>2. /\ run' = run /\ run[r] = "active"
        /\ target[r] \in Slots
    BY <1>2, <2>1 DEF InLoop, TypeInv, Targets
  <2>3. CASE DeployUnanswered(r, target[r])
    BY <2>1, <2>2, <2>3 DEF DeployUnanswered, Discipline!DeployLost, Discipline!DeployUnanswered
  <2>4. CASE DeployRefused
    BY <1>3, <2>1, <2>2, <2>4 DEF DeployRefused
  <2>5. QED
    BY <1>6, <2>3, <2>4 DEF DeployFails
<1>7. ASSUME NEW r \in Runs, WaitFails(r)
      PROVE  UNCHANGED Discipline!vars
  BY <1>2, <1>3, <1>7 DEF WaitFails, InLoop
<1>8. ASSUME NEW r \in Runs, NEW c \in Bases, Probe(r, c)
      PROVE  UNCHANGED Discipline!vars
  <2>1. /\ pc[r] \in InLoop /\ UNCHANGED <<serverVars, deferred>>
        /\ NextTarget(r) \/ UNCHANGED pc
    BY <1>8 DEF Probe, InLoop
  <2>2. run' = run
    BY <1>2, <2>1 DEF Ended
  <2>3. QED
    BY <1>3, <2>1, <2>2
<1>9. ASSUME NEW r \in Runs, CleanUp(r)
      PROVE  \E s \in Slots : Discipline!CleanUp(r, s)
  <2>1. /\ NextDeferred(r) \in Slots /\ NextDeferred(r) \in deferred[r]
        /\ run' = run /\ run[r] = "active"
    BY <1>9, NextDeferredIn DEF CleanUp, TypeInv, Targets, Ended
  <2>2. Discipline!CleanUp(r, NextDeferred(r))
    BY <1>9, <2>1 DEF CleanUp, DeleteTestPod, DeleteFailed, Lives, Living,
         Discipline!CleanUp, Discipline!DeleteTestPod, Discipline!DeleteFailed,
         Discipline!Lives, Discipline!Living
  <2>3. QED
    BY <2>1, <2>2
<1>10. ASSUME NEW r \in Runs, Return(r)
       PROVE  Discipline!Return(r)
  BY <1>10 DEF Return, Goto, TypeInv, Ended, serverVars, Discipline!Return,
       Discipline!serverVars
<1>11. ASSUME NEW r \in Runs, Interrupt(r)
       PROVE  UNCHANGED Discipline!vars
  BY <1>3, <1>11 DEF Interrupt, Ended
<1>12. ASSUME NEW r \in Runs, Kill(r)
       PROVE  Discipline!Kill(r)
  BY <1>12 DEF Kill, Goto, TypeInv, Ended, serverVars, Discipline!Kill, Discipline!serverVars
<1>13. ASSUME NEW s \in Slots, Cluster(s)
       PROVE  Discipline!Cluster(s)
  BY <1>13 DEF Cluster, runVars, Ended, ServerStep, PodStarts, PodEnds, PodGone,
       OutsideDelete, LateCreate, NewPod, IsFree, NoPod, Lives, Living,
       Discipline!Cluster, Discipline!ServerStep, Discipline!PodStarts, Discipline!PodEnds,
       Discipline!PodGone, Discipline!OutsideDelete, Discipline!LateCreate, Discipline!NewPod,
       Discipline!IsFree, Discipline!NoPod, Discipline!Lives, Discipline!Living
<1>14. CASE UNCHANGED vars
  BY <1>3, <1>14 DEF vars, runVars, Ended
<1>15. QED
  BY <1>4, <1>5, <1>6, <1>7, <1>8, <1>9, <1>10, <1>11, <1>12, <1>13, <1>14
  DEF Next, RunStep, Discipline!Next, Targets

(* The S3 check implements the discipline that all checks share: deletions  *)
(* deferred target by target (s3route.go:152), run when it returns.         *)
THEOREM ImplementsDiscipline == Spec => ImplementsTestPods
<1>1. Init => Discipline!Init
  BY DEF Init, ServerInit, NoPod, Ended, Discipline!Init, Discipline!ServerInit,
       Discipline!NoPod
<1>2. QED
  BY <1>1, StepRefines, TypeInductive, PTL DEF Spec, ImplementsTestPods, Discipline!Spec

-----------------------------------------------------------------------------
(* What TestPodsProofs proves of the discipline *)

LEMMA SameDiscipline == ImplementsTestPods => Pod!Spec
<1>1. Discipline!Init => Pod!Init
  BY DEF Discipline!Init, Discipline!ServerInit, Discipline!NoPod,
       Pod!Init, Pod!ServerInit, Pod!NoPod
<1>2. ASSUME NEW r \in Runs, NEW s \in Slots
      PROVE  /\ Discipline!Deploy(r, s) => Pod!Deploy(r, s)
             /\ Discipline!DeployLost(r, s) => Pod!DeployLost(r, s)
             /\ Discipline!CleanUp(r, s) => Pod!CleanUp(r, s)
  BY DEF Discipline!Deploy, Discipline!DeployTestPod, Discipline!NewPod, Discipline!IsFree,
       Discipline!DeployLost, Discipline!DeployUnanswered,
       Discipline!CleanUp, Discipline!DeleteTestPod, Discipline!DeleteFailed,
       Discipline!Lives, Discipline!Living,
       Pod!Deploy, Pod!DeployTestPod, Pod!NewPod, Pod!IsFree, Pod!DeployLost,
       Pod!DeployUnanswered, Pod!CleanUp, Pod!DeleteTestPod, Pod!DeleteFailed, Pod!Lives,
       Pod!Living
<1>3. ASSUME NEW r \in Runs
      PROVE  /\ Discipline!Return(r) => Pod!Return(r)
             /\ Discipline!Kill(r) => Pod!Kill(r)
  BY DEF Discipline!Return, Discipline!Kill, Discipline!serverVars,
       Pod!Return, Pod!Kill, Pod!serverVars
<1>4. ASSUME NEW s \in Slots
      PROVE  Discipline!Cluster(s) => Pod!Cluster(s)
  BY DEF Discipline!Cluster, Discipline!ServerStep, Discipline!PodStarts,
       Discipline!PodEnds, Discipline!PodGone, Discipline!OutsideDelete,
       Discipline!LateCreate, Discipline!NewPod, Discipline!IsFree,
       Discipline!NoPod, Discipline!Lives, Discipline!Living,
       Pod!Cluster, Pod!ServerStep, Pod!PodStarts, Pod!PodEnds, Pod!PodGone,
       Pod!OutsideDelete, Pod!LateCreate, Pod!NewPod, Pod!IsFree,
       Pod!NoPod, Pod!Lives, Pod!Living
<1>5. [Discipline!Next]_(Discipline!vars) => [Pod!Next]_(Pod!vars)
  BY <1>2, <1>3, <1>4 DEF Discipline!Next, Discipline!vars, Discipline!serverVars,
       Pod!Next, Pod!vars, Pod!serverVars
<1>6. QED
  BY <1>1, <1>5, PTL DEF ImplementsTestPods, Discipline!Spec, Pod!Spec

(* Types, with the server's from the discipline: the loop is never at a     *)
(* target that is not in the list.                                          *)
THEOREM TypeCorrect == Spec => []TypeOK
<1>1. Pod!TypeOK => ServerTypeOK
  BY DEF Pod!TypeOK, Pod!ServerTypeOK, Pod!Pods, Pod!Phases, Pod!Living, Pod!IsFree,
       ServerTypeOK, Pods, Phases, Living, IsFree
<1>2. TypeInv /\ ServerTypeOK => TypeOK
  BY DEF TypeInv, TypeOK, Labels, Running, InLoop
<1>3. Pod!Spec => []Pod!TypeOK
  BY NobodyAssumption, Pod!TypeCorrect
<1>4. QED
  BY <1>1, <1>2, <1>3, TypeInductive, ImplementsDiscipline, SameDiscipline, PTL

(* No run deletes another run's pod, unless a pod of that name was deleted  *)
(* from outside before: with fixed names and deletes by name (pod.go:125).  *)
THEOREM DeletesAreOwn == Spec => []Pod!OnlyOwnPodsDeleted
<1>1. Pod!Spec => []Pod!OnlyOwnPodsDeleted
  BY NobodyAssumption, Pod!DeletesAreOwn
<1>2. QED
  BY <1>1, ImplementsDiscipline, SameDiscipline, PTL

(* When the check has returned, its living pods are those it could not know *)
(* of: every deferred deletion has run by then, after whatever failure.     *)
THEOREM NothingLeft == Spec => []NothingLeftBehind
<1>1. TypeInv /\ Pod!LeftoverAccounted => NothingLeftBehind
  BY DEF TypeInv, Pod!LeftoverAccounted, Pod!Owns, Pod!Lives, Pod!Living,
       NothingLeftBehind, Owns, Lives, Living, Targets
<1>2. Pod!Spec => []Pod!LeftoverAccounted
  BY NobodyAssumption, Pod!LeftoversAreAccounted
<1>3. QED
  BY <1>1, <1>2, TypeInductive, ImplementsDiscipline, SameDiscipline, PTL

(* Only a probe adds a result about reachability, and to its own report *)
LEMMA PassIsAProbe ==
  ASSUME TypeInv, Next, NEW r \in Runs, NEW t, NEW c,
         Result("reach", t, c, "PASS") \in results'[r] \ results[r]
  PROVE  \E d \in Bases : Probe(r, d)
<1> DEFINE x == Result("reach", t, c, "PASS")
<1>1. results'[r] # results[r] /\ x.check = "reach"
  BY DEF Result
<1>2. ASSUME NEW q \in Runs, NEW rs, Report(q, rs), \A y \in rs : y.check # "reach"
      PROVE  FALSE
  BY <1>1, <1>2 DEF Report, TypeInv
<1>3. ASSUME NEW q \in Runs, NEW d \in Bases, DiscoverFails(q, d)  PROVE FALSE
  BY <1>2, <1>3 DEF DiscoverFails, Result
<1>4. ASSUME NEW q \in Runs, DiscoverC2(q)  PROVE FALSE
  BY <1>1, <1>2, <1>4 DEF DiscoverC2, Result
<1>5. ASSUME NEW q \in Runs, NEW y \in NoProxyResults(q)  PROVE y.check # "reach"
  <2>1. PICK d, status : y = Result("noproxy", target[q], d, status)
    BY DEF NoProxyResults
  <2>2. QED
    BY <2>1 DEF Result
<1>6. ASSUME NEW q \in Runs, Deploys(q)  PROVE FALSE
  BY <1>2, <1>5, <1>6 DEF Deploys
<1>7. ASSUME NEW q \in Runs, DeployFails(q)  PROVE FALSE
  <2> DEFINE rs == NoProxyResults(q) \cup {Result("deploy", target[q], "any", "FAIL")}
  <2>1. \A y \in rs : y.check # "reach"
    BY <1>5 DEF Result
  <2>2. Report(q, rs)
    BY <1>7 DEF DeployFails
  <2> HIDE DEF rs
  <2>3. QED
    BY <1>2, <2>1, <2>2
<1>8. ASSUME NEW q \in Runs, WaitFails(q)  PROVE FALSE
  BY <1>2, <1>8 DEF WaitFails, Result
<1>9. results' # results
  BY <1>1
<1>10. PICK q \in Runs : \E d \in Bases : Probe(q, d)
  BY <1>3, <1>4, <1>6, <1>7, <1>8, <1>9
  DEF Next, RunStep, DiscoverC1, PodIsReady, CleanUp, Return, Interrupt, Kill, Cluster, runVars
<1>11. q = r
  BY <1>1, <1>10 DEF Probe, Report, TypeInv
<1>12. QED
  BY <1>10, <1>11

(* A probe that passes is the run's own pod's: the pod found by name (the   *)
(* exec of s3route.go:190) is the one whose deletion the run has deferred.  *)
THEOREM ProbesAreOwn == Spec => ProbesFromOwnPod
<1> DEFINE Own == \A r \in Runs, t \in Targets, c \in Bases :
                    Result("reach", t, c, "PASS") \in results'[r] \ results[r]
                      => pods[t].owner = r \/ OutsideTouched(t)
<1>1. TypeInv /\ Pod!HeldIsOwn /\ [Next]_vars => [Own]_vars
  <2> SUFFICES ASSUME TypeInv, Pod!HeldIsOwn, Next, NEW r \in Runs, NEW t \in Targets,
                      NEW c \in Bases,
                      Result("reach", t, c, "PASS") \in results'[r] \ results[r]
               PROVE  pods[t].owner = r \/ OutsideTouched(t)
    OBVIOUS
  <2>1. PICK d \in Bases : Probe(r, d)
    BY PassIsAProbe
  <2>2. t = target[r] /\ t \in deferred[r]
    <3>1. PICK status : Report(r, {Result("reach", target[r], d, status)})
      BY <2>1 DEF Probe
    <3>2. Result("reach", t, c, "PASS") = Result("reach", target[r], d, status)
      BY <3>1 DEF Report, TypeInv
    <3>3. t = target[r]
      BY <3>2 DEF Result
    <3>4. QED
      BY <2>1, <3>3 DEF Probe, TypeInv
  <2>3. QED
    BY <2>2 DEF Pod!HeldIsOwn, Pod!Owns, Pod!OutsideTouched, OutsideTouched
<1>2. Pod!Spec => []Pod!HeldIsOwn
  BY NobodyAssumption, Pod!HeldPodsAreOwn
<1>3. QED
  BY <1>1, <1>2, TypeInductive, ImplementsDiscipline, SameDiscipline, PTL
  DEF Spec, ProbesFromOwnPod

-----------------------------------------------------------------------------
(* The report.  Once a run complains it will always; a run that does not    *)
(* has seen every route there is, and every target it has behind it was     *)
(* found in order.                                                          *)

Covered(t) == t \in world.proxied => \A c \in world.routes : <<t, c>> \in world.covered
Reached(t, routes) == \A c \in routes : <<t, c>> \in world.reach
InOrder(t) == Covered(t) /\ Reached(t, world.routes)

Progress(r) ==
  /\ pc[r] = "discover-c2" => found[r] = world.routes \cap {"c1"}
  /\ pc[r] \in InLoop => /\ found[r] = world.routes
                         /\ \A t \in Targets : t < target[r] => InOrder(t)
  /\ pc[r] \in {"wait", "probe"} => Covered(target[r])
  /\ pc[r] = "probe" => Reached(target[r], world.routes \ todo[r])
  /\ pc[r] \in {"return", "returned"} => \A t \in Targets : InOrder(t)

ReportInv == \A r \in Runs : Complains(r) \/ Progress(r)

LEMMA RoutesInBases == TypeInv => world.routes \subseteq Bases
BY WorldsAssumption DEF TypeInv

LEMMA ReportGrows ==
  ASSUME TypeInv, NEW r \in Runs, NEW rs, Report(r, rs)
  PROVE  /\ \A q \in Runs : Complains(q) => Complains(q)'
         /\ (\E x \in rs : x.status # "PASS") => Complains(r)'
<1>1. results'[r] = results[r] \cup rs /\ \A q \in Runs \ {r} : results'[q] = results[q]
  BY DEF Report, TypeInv
<1>2. QED
  BY <1>1 DEF Complains

LEMMA BadResult ==
  ASSUME TypeInv, NEW r \in Runs, NEW rs, Report(r, rs), NEW check, NEW t, NEW route,
         NEW status, status # "PASS", Result(check, t, route, status) \in rs
  PROVE  Complains(r)'
<1>1. Result(check, t, route, status).status # "PASS"
  BY DEF Result
<1>2. QED
  BY <1>1, ReportGrows

(* The end of a turn whose target is in order *)
LEMMA TurnProgress ==
  ASSUME TypeInv, NEW r \in Runs, pc[r] \in InLoop, NextTarget(r),
         UNCHANGED <<world, found>>, Progress(r), InOrder(target[r])
  PROVE  Progress(r)'
<1>1. \A t \in Targets : t < target[r] + 1 => InOrder(t)
  <2>1. PICK n \in Nat : Targets = 1..n
    BY TargetsAreNat
  <2>2. \A t \in Targets : t < target[r] + 1 => t < target[r] \/ t = target[r]
    BY <2>1 DEF TypeInv
  <2>3. QED
    BY <2>2 DEF Progress
<1>2. target'[r] = target[r] + 1
  BY TurnOfLoop DEF TypeInv
<1>3. CASE pc' = [pc EXCEPT ![r] = "deploy"]
  <2>1. pc'[r] = "deploy" /\ found[r] = world.routes
    BY <1>3 DEF TypeInv, Progress
  <2>2. QED
    BY <1>1, <1>2, <2>1 DEF Progress, InLoop, InOrder, Covered, Reached
<1>4. CASE pc' = [pc EXCEPT ![r] = "return"] /\ \A t \in Targets : t < target[r] + 1
  <2>1. pc'[r] = "return"
    BY <1>4 DEF TypeInv
  <2>2. QED
    BY <1>1, <1>4, <2>1 DEF Progress, InLoop, InOrder, Covered, Reached
<1>5. QED
  BY <1>3, <1>4, TurnOfLoop

(* A run's progress is its own *)
LEMMA OthersKeep ==
  ASSUME TypeInv, NEW r \in Runs, NEW q \in Runs, q # r, UNCHANGED world,
         pc'[q] = pc[q], found'[q] = found[q], target'[q] = target[q], todo'[q] = todo[q],
         Progress(q)
  PROVE  Progress(q)'
BY DEF Progress, InOrder, Covered, Reached

LEMMA DeployProgress ==
  ASSUME TypeInv, NEW r \in Runs, Progress(r), pc[r] = "deploy", NEW rs,
         NoProxyResults(r) \subseteq rs, \A x \in rs : x.status = "PASS"
  PROVE  Covered(target[r])
<1>1. found[r] = world.routes
  BY DEF Progress, InLoop
<1>2. ASSUME NEW c \in world.routes, target[r] \in world.proxied
      PROVE  <<target[r], c>> \in world.covered
  <2> DEFINE x == Result("noproxy", target[r], c,
                         IF <<target[r], c>> \in world.covered THEN "PASS" ELSE "FAIL")
  <2>1. x \in NoProxyResults(r)
    BY <1>1, <1>2 DEF NoProxyResults
  <2>2. x.status = "PASS"
    BY <2>1
  <2>3. QED
    BY <2>2 DEF Result
<1>3. QED
  BY <1>2 DEF Covered

LEMMA InitReport == Init => ReportInv
BY DEF Init, ReportInv, Progress, InLoop

LEMMA StepReport == TypeInv /\ ReportInv /\ [Next]_vars => ReportInv'
<1> SUFFICES ASSUME TypeInv, ReportInv, [Next]_vars  PROVE ReportInv'
  OBVIOUS
<1> DEFINE Steps(r) ==
      /\ UNCHANGED world
      /\ \A q \in Runs \ {r} : /\ pc'[q] = pc[q] /\ found'[q] = found[q]
                              /\ target'[q] = target[q] /\ todo'[q] = todo[q]
      /\ \A q \in Runs : Complains(q) => Complains(q)'
<1>1. ASSUME NEW r \in Runs, Steps(r),
             ~Complains(r)' /\ ~Complains(r) /\ Progress(r) => Progress(r)'
      PROVE  ReportInv'
  BY <1>1, OthersKeep DEF ReportInv
<1>3. ASSUME NEW r \in Runs, NEW c \in Bases, DiscoverFails(r, c)  PROVE ReportInv'
  <2>1. Complains(r)' /\ \A q \in Runs : Complains(q) => Complains(q)'
    BY <1>3, ReportGrows, BadResult DEF DiscoverFails
  <2>2. Steps(r)
    BY <1>3, <2>1 DEF DiscoverFails, Goto, TypeInv
  <2>3. QED
    BY <1>1, <2>1, <2>2
<1>4. ASSUME NEW r \in Runs, DiscoverC1(r)  PROVE ReportInv'
  <2>1. Steps(r)
    BY <1>4 DEF DiscoverC1, Goto, TypeInv, Complains
  <2>2. Progress(r)'
    BY <1>4 DEF DiscoverC1, Goto, TypeInv, Progress, InLoop
  <2>3. QED
    BY <1>1, <2>1, <2>2
<1>5. ASSUME NEW r \in Runs, DiscoverC2(r)  PROVE ReportInv'
  <2>1. CASE Report(r, {Result("discover", 0, "any", "WARN")})
    <3>1. Complains(r)' /\ \A q \in Runs : Complains(q) => Complains(q)'
      BY <2>1, ReportGrows, BadResult
    <3>2. Steps(r)
      BY <1>5, <3>1 DEF DiscoverC2, Goto, TypeInv
    <3>3. QED
      BY <1>1, <3>1, <3>2
  <2>2. CASE Goto(r, "deploy") /\ UNCHANGED results
    <3>1. Steps(r)
      BY <1>5, <2>2 DEF DiscoverC2, Goto, TypeInv, Complains
    <3>2. ASSUME Progress(r)  PROVE Progress(r)'
      <4>1. found'[r] = world'.routes
        BY <1>5, <3>2, RoutesInBases DEF DiscoverC2, Progress, TypeInv, Bases
      <4>2. pc'[r] = "deploy" /\ target'[r] = 1
        BY <1>5, <2>2 DEF DiscoverC2, Goto, TypeInv
      <4>3. \A t \in Targets : ~ (t < 1)
        BY TargetsAreNat
      <4>4. QED
        BY <4>1, <4>2, <4>3 DEF Progress, InLoop
    <3>3. QED
      BY <1>1, <3>1, <3>2
  <2>3. QED
    BY <1>5, <2>1, <2>2 DEF DiscoverC2
<1>6. ASSUME NEW r \in Runs, Deploys(r)  PROVE ReportInv'
  <2>1. \A q \in Runs : Complains(q) => Complains(q)'
    BY <1>6, ReportGrows DEF Deploys
  <2>2. Steps(r)
    BY <1>6, <2>1 DEF Deploys, Goto, TypeInv
  <2>3. ASSUME ~Complains(r)', Progress(r)  PROVE Progress(r)'
    <3>1. \A x \in NoProxyResults(r) : x.status = "PASS"
      BY <1>6, <2>3, ReportGrows DEF Deploys
    <3>2. Covered(target[r])
      BY <1>6, <2>3, <3>1, DeployProgress DEF Deploys
    <3>3. pc'[r] = "wait"
      BY <1>6 DEF Deploys, Goto, TypeInv
    <3>4. QED
      BY <1>6, <2>3, <3>2, <3>3 DEF Deploys, Progress, InLoop, InOrder, Covered, Reached
  <2>4. QED
    BY <1>1, <2>2, <2>3
<1>7. ASSUME NEW r \in Runs, DeployFails(r) \/ WaitFails(r)  PROVE ReportInv'
  <2>1. Complains(r)' /\ \A q \in Runs : Complains(q) => Complains(q)'
    <3>1. CASE DeployFails(r)
      <4>1. Report(r, NoProxyResults(r) \cup {Result("deploy", target[r], "any", "FAIL")})
        BY <3>1 DEF DeployFails
      <4>2. QED
        BY <4>1, ReportGrows, BadResult
    <3>2. CASE WaitFails(r)
      <4>1. Report(r, {Result("wait", target[r], "any", "FAIL")})
        BY <3>2 DEF WaitFails
      <4>2. QED
        BY <4>1, ReportGrows, BadResult
    <3>3. QED
      BY <1>7, <3>1, <3>2
  <2>2. pc[r] \in InLoop /\ NextTarget(r) /\ UNCHANGED <<world, found, todo>>
    BY <1>7 DEF DeployFails, WaitFails, InLoop
  <2>3. Steps(r)
    BY <2>1, <2>2 DEF NextTarget, Goto, TypeInv
  <2>4. QED
    BY <1>1, <2>1, <2>3
<1>8. ASSUME NEW r \in Runs, PodIsReady(r)  PROVE ReportInv'
  <2>1. Steps(r)
    BY <1>8 DEF PodIsReady, Goto, TypeInv, Complains
  <2>2. pc'[r] = "probe" /\ todo'[r] = found[r]
    BY <1>8 DEF PodIsReady, Goto, TypeInv
  <2>3. ASSUME Progress(r)  PROVE Progress(r)'
    BY <1>8, <2>2, <2>3 DEF PodIsReady, Progress, InLoop, InOrder, Covered, Reached
  <2>4. QED
    BY <1>1, <2>1, <2>3
<1>9. ASSUME NEW r \in Runs, NEW c \in Bases, Probe(r, c)  PROVE ReportInv'
  <2>1. PICK status \in {"PASS", "FAIL"} :
          /\ status = "PASS" => CanAnswer(r, c)
          /\ Report(r, {Result("reach", target[r], c, status)})
    BY <1>9 DEF Probe
  <2>2. \A q \in Runs : Complains(q) => Complains(q)'
    BY <2>1, ReportGrows
  <2>3. Steps(r)
    BY <1>9, <2>2 DEF Probe, NextTarget, Goto, TypeInv
  <2>4. ASSUME ~Complains(r)', Progress(r)  PROVE Progress(r)'
    <3>1. status = "PASS"
      BY <2>1, <2>4, BadResult
    <3>2. Reached(target[r], world.routes \ todo'[r])
      <4>1. todo'[r] = todo[r] \ {c}
        BY <1>9 DEF Probe, TypeInv
      <4>2. Reached(target[r], world.routes \ todo[r])
        BY <1>9, <2>4 DEF Probe, Progress
      <4>3. QED
        BY <2>1, <3>1, <4>1, <4>2 DEF CanAnswer, Reached
    <3>3. Covered(target[r])
      BY <1>9, <2>4 DEF Probe, Progress
    <3>4. CASE todo'[r] = {} /\ NextTarget(r)
      <4>1. pc[r] \in InLoop /\ UNCHANGED <<world, found>>
        BY <1>9 DEF Probe, InLoop
      <4>2. InOrder(target[r])
        BY <3>2, <3>3, <3>4 DEF InOrder, Reached
      <4>3. QED
        BY <2>4, <3>4, <4>1, <4>2, TurnProgress
    <3>5. CASE UNCHANGED <<pc, target>>
      BY <1>9, <2>4, <3>2, <3>3, <3>5 DEF Probe, Progress, InLoop, InOrder, Covered, Reached
    <3>6. QED
      BY <1>9, <3>4, <3>5 DEF Probe
  <2>5. QED
    BY <1>1, <2>3, <2>4
<1>10. ASSUME UNCHANGED <<world, pc, found, target, todo, results>>  PROVE ReportInv'
  BY <1>10 DEF ReportInv, Complains, Progress, InOrder, Covered, Reached
<1>11. ASSUME NEW r \in Runs, Return(r)  PROVE ReportInv'
  <2>1. Steps(r)
    BY <1>11 DEF Return, Goto, TypeInv, Complains
  <2>2. pc'[r] = "returned"
    BY <1>11 DEF Return, Goto, TypeInv
  <2>3. ASSUME Progress(r)  PROVE Progress(r)'
    BY <1>11, <2>2, <2>3 DEF Return, Progress, InLoop, InOrder, Covered, Reached
  <2>4. QED
    BY <1>1, <2>1, <2>3
<1>12. ASSUME NEW r \in Runs, Kill(r)  PROVE ReportInv'
  <2>1. Steps(r)
    BY <1>12 DEF Kill, Goto, TypeInv, Complains
  <2>2. pc'[r] = "killed"
    BY <1>12 DEF Kill, Goto, TypeInv
  <2>3. QED
    BY <1>1, <2>1, <2>2 DEF Progress, InLoop
<1>13. QED
  BY <1>3, <1>4, <1>5, <1>6, <1>7, <1>8, <1>9, <1>10, <1>11, <1>12
  DEF Next, RunStep, CleanUp, Interrupt, Cluster, runVars, vars

(* A report without a complaint is right, for any number of targets: every  *)
(* route there is answered from every target, and is in the noProxy list of *)
(* every target with a proxy; no `continue` of the loop (s3route.go:149,    *)
(* 162) skips a target without leaving a FAIL.                              *)
THEOREM CleanReportsAreTrue == Spec => []CleanReportIsTrue
<1>1. TypeInv /\ ReportInv => CleanReportIsTrue
  BY DEF TypeInv, ReportInv, Progress, InOrder, Covered, Reached, CleanReportIsTrue
<1>2. Spec => []ReportInv
  BY InitReport, StepReport, TypeInductive, PTL DEF Spec
<1>3. QED
  BY <1>1, <1>2, TypeInductive, PTL

-----------------------------------------------------------------------------
(* The report again, target by target: a target behind the loop has its     *)
(* failure or a result for every route, one ahead of it has nothing yet.    *)

Holds(rs, check, t, c) == \E x \in rs : x.check = check /\ x.target = t /\ x.route = c
Has(r, check, t, c) == Holds(results[r], check, t, c)

Discovered(r) == \E x \in results[r] : x.check = "discover"
FailedAt(r, t) == \E c : Has(r, "deploy", t, c) \/ Has(r, "wait", t, c)
Untouched(r, t) == \A check, c : ~Has(r, check, t, c)
Complete(r, check, t) == \A c : Has(r, check, t, c) <=> c \in found[r]

Accounted(r, t) ==
  /\ ~FailedAt(r, t) => Complete(r, "reach", t)
  /\ FailedAt(r, t) => \A c : ~Has(r, "reach", t, c)
  /\ t \in world.proxied => Complete(r, "noproxy", t)

Sorted(r, n) == \A t \in Targets : /\ t < n => Accounted(r, t)
                                   /\ t > n => Untouched(r, t)

(* The target whose pod has been created: what its probes have answered *)
UnderWay(r, t) ==
  /\ ~FailedAt(r, t)
  /\ t \in world.proxied => Complete(r, "noproxy", t)
  /\ pc[r] = "wait" => \A c : ~Has(r, "reach", t, c)
  /\ pc[r] = "probe" => /\ todo[r] \subseteq found[r]
                        /\ \A c : Has(r, "reach", t, c) <=> c \in found[r] \ todo[r]

Account(r) ==
  /\ pc[r] \in {"discover-c1", "discover-c2"} => results[r] = {}
  /\ pc[r] \in InLoop => Sorted(r, target[r])
  /\ pc[r] = "deploy" => Untouched(r, target[r])
  /\ pc[r] \in {"wait", "probe"} => UnderWay(r, target[r])
  /\ pc[r] \in {"return", "returned"} => Discovered(r) \/ \A t \in Targets : Accounted(r, t)

AccountInv == \A r \in Runs : Account(r)

LEMMA HasGrows ==
  ASSUME TypeInv, NEW r \in Runs, NEW rs, Report(r, rs)
  PROVE  /\ \A check, t, c : Has(r, check, t, c)' <=> Has(r, check, t, c) \/ Holds(rs, check, t, c)
         /\ \A q \in Runs \ {r} : results'[q] = results[q]
<1>1. results'[r] = results[r] \cup rs /\ \A q \in Runs \ {r} : results'[q] = results[q]
  BY DEF Report, TypeInv
<1>2. QED
  BY <1>1 DEF Has, Holds

LEMMA OneHolds ==
  ASSUME NEW check, NEW t, NEW c, NEW status
  PROVE  \A k, u, d : Holds({Result(check, t, c, status)}, k, u, d) <=> k = check /\ u = t /\ d = c
BY DEF Holds, Result

LEMMA NoProxyHolds ==
  ASSUME NEW r
  PROVE  \A k, u, d : Holds(NoProxyResults(r), k, u, d) <=>
           /\ k = "noproxy" /\ u = target[r]
           /\ d \in found[r] /\ target[r] \in world.proxied
<1> DEFINE R(d) == Result("noproxy", target[r], d,
                          IF <<target[r], d>> \in world.covered THEN "PASS" ELSE "FAIL")
           S == {d \in found[r] : target[r] \in world.proxied}
<1>1. NoProxyResults(r) = {R(d) : d \in S}
  BY DEF NoProxyResults
<1>2. \A d : R(d).check = "noproxy" /\ R(d).target = target[r] /\ R(d).route = d
  BY DEF Result
<1> HIDE DEF R
<1>3. QED
  BY <1>1, <1>2 DEF Holds

LEMMA HoldsUnion ==
  ASSUME NEW rs, NEW qs
  PROVE  \A k, u, d : Holds(rs \cup qs, k, u, d) <=> Holds(rs, k, u, d) \/ Holds(qs, k, u, d)
BY DEF Holds

(* What a run has reported changes by its own steps only *)
LEMMA AccountKept ==
  ASSUME NEW q \in Runs, UNCHANGED world, Account(q),
         pc'[q] = pc[q], found'[q] = found[q], target'[q] = target[q], todo'[q] = todo[q],
         results'[q] = results[q]
  PROVE  Account(q)'
BY DEF Account, Sorted, Accounted, UnderWay, Untouched, Complete, FailedAt, Discovered, Has

(* A step that adds nothing about a target leaves it as it is *)
LEMMA TargetKept ==
  ASSUME NEW r \in Runs, NEW t, UNCHANGED world, found'[r] = found[r],
         \A check, c : Has(r, check, t, c)' <=> Has(r, check, t, c)
  PROVE  (Accounted(r, t) => Accounted(r, t)') /\ (Untouched(r, t) => Untouched(r, t)')
BY DEF Accounted, Untouched, Complete, FailedAt

(* The turn ends, with the target of the turn accounted for *)
LEMMA TurnAccount ==
  ASSUME TypeInv, NEW r \in Runs, pc[r] \in InLoop, NextTarget(r), Account(r),
         UNCHANGED <<world, found>>, NEW rs, Report(r, rs),
         NEW n \in Nat, n = target[r], \A k, t, c : Holds(rs, k, t, c) => t = n,
         Accounted(r, n)'
  PROVE  Account(r)'
<1>0. Targets \subseteq Nat
  BY TargetsAreNat
<1>1. \A t \in Targets : /\ t < n => Accounted(r, t)'
                         /\ t > n => Untouched(r, t)'
  <2>1. \A t \in Targets : t # n => \A k, c : Has(r, k, t, c)' <=> Has(r, k, t, c)
    BY HasGrows
  <2>2. Sorted(r, n)
    BY DEF Account
  <2>3. \A t \in Targets : t # n => (t < n => Accounted(r, t)) /\ (t > n => Untouched(r, t))
    BY <2>2 DEF Sorted
  <2>4. \A t \in Targets : (t < n \/ t > n) => t # n
    BY <1>0
  <2>5. QED
    BY <2>1, <2>3, <2>4, TargetKept
<1>2. target'[r] = n + 1
  BY TurnOfLoop DEF TypeInv
<1>3. CASE pc' = [pc EXCEPT ![r] = "deploy"] /\ n + 1 \in Targets
  <2>1. pc'[r] = "deploy"
    BY <1>3 DEF TypeInv
  <2>2. \A t \in Targets : /\ t < n + 1 => Accounted(r, t)'
                           /\ t > n + 1 => Untouched(r, t)'
    BY <1>0, <1>1
  <2>3. Untouched(r, n + 1)'
    BY <1>0, <1>1, <1>3
  <2>4. Untouched(r, target[r])'
    <3>1. Untouched(r, target[r])' <=> Untouched(r, n + 1)'
      BY <1>2 DEF Untouched, Has
    <3>2. QED
      BY <2>3, <3>1
  <2>5. Sorted(r, target[r])'
    BY <1>2, <2>2 DEF Sorted
  <2>6. QED
    BY <2>1, <2>4, <2>5 DEF Account, InLoop
<1>4. CASE pc' = [pc EXCEPT ![r] = "return"] /\ \A t \in Targets : t < n + 1
  <2>1. pc'[r] = "return"
    BY <1>4 DEF TypeInv
  <2>2. \A t \in Targets : t < n \/ t = n
    BY <1>0, <1>4
  <2>3. \A t \in Targets : Accounted(r, t)'
    BY <1>1, <2>2
  <2>4. QED
    BY <2>1, <2>3 DEF Account, InLoop
<1>5. QED
  BY <1>3, <1>4, TurnOfLoop

LEMMA InitAccount == Init => AccountInv
BY DEF Init, AccountInv, Account, InLoop

LEMMA StepAccount == TypeInv /\ AccountInv /\ [Next]_vars => AccountInv'
<1> SUFFICES ASSUME TypeInv, AccountInv, [Next]_vars  PROVE AccountInv'
  OBVIOUS
<1> DEFINE Steps(r) ==
      /\ UNCHANGED world
      /\ \A q \in Runs \ {r} : /\ pc'[q] = pc[q] /\ found'[q] = found[q]
                              /\ target'[q] = target[q] /\ todo'[q] = todo[q]
                              /\ results'[q] = results[q]
<1>1. ASSUME NEW r \in Runs, Steps(r), Account(r)'  PROVE AccountInv'
  BY <1>1, AccountKept DEF AccountInv
<1>2. \A r \in Runs : Account(r) /\ (pc[r] \in InLoop => target[r] \in Nat)
  BY TargetsAreNat DEF AccountInv, TypeInv
<1>3. ASSUME NEW r \in Runs, NEW c \in Bases, DiscoverFails(r, c)  PROVE AccountInv'
  <2>1. Steps(r) /\ pc'[r] = "return"
    BY <1>3, HasGrows DEF DiscoverFails, Goto, TypeInv
  <2>2. Discovered(r)'
    <3>1. Result("discover", 0, c, "FAIL") \in results'[r]
      BY <1>3 DEF DiscoverFails, Report, TypeInv
    <3>2. QED
      BY <3>1 DEF Discovered, Result
  <2>3. Account(r)'
    BY <2>1, <2>2 DEF Account, InLoop
  <2>4. QED
    BY <1>1, <2>1, <2>3
<1>4. ASSUME NEW r \in Runs, DiscoverC1(r)  PROVE AccountInv'
  <2>1. Steps(r) /\ pc'[r] = "discover-c2" /\ results'[r] = results[r]
    BY <1>4 DEF DiscoverC1, Goto, TypeInv
  <2>2. results[r] = {}
    BY <1>2, <1>4 DEF DiscoverC1, Account
  <2>3. Account(r)'
    BY <2>1, <2>2 DEF Account, InLoop
  <2>4. QED
    BY <1>1, <2>1, <2>3
<1>5. ASSUME NEW r \in Runs, DiscoverC2(r)  PROVE AccountInv'
  <2>1. CASE Report(r, {Result("discover", 0, "any", "WARN")}) /\ Goto(r, "return")
    <3>1. Steps(r) /\ pc'[r] = "return"
      BY <1>5, <2>1, HasGrows DEF DiscoverC2, Goto, TypeInv
    <3>2. Discovered(r)'
      <4>1. Result("discover", 0, "any", "WARN") \in results'[r]
        BY <2>1 DEF Report, TypeInv
      <4>2. QED
        BY <4>1 DEF Discovered, Result
    <3>3. Account(r)'
      BY <3>1, <3>2 DEF Account, InLoop
    <3>4. QED
      BY <1>1, <3>1, <3>3
  <2>2. CASE Goto(r, "deploy") /\ UNCHANGED results
    <3>1. Steps(r) /\ pc'[r] = "deploy" /\ target'[r] = 1
      BY <1>5, <2>2 DEF DiscoverC2, Goto, TypeInv
    <3>2. results'[r] = {}
      BY <1>2, <1>5, <2>2 DEF DiscoverC2, Account
    <3>3. \A t : Untouched(r, t)'
      BY <3>2 DEF Untouched, Has, Holds
    <3>4. Untouched(r, target[r])'
      BY <3>2 DEF Untouched, Has, Holds
    <3>5. Sorted(r, target[r])'
      <4>1. \A t \in Targets : ~ (t < 1)
        BY TargetsAreNat
      <4>2. QED
        BY <3>1, <3>3, <4>1 DEF Sorted
    <3>6. Account(r)'
      BY <3>1, <3>4, <3>5 DEF Account, InLoop
    <3>7. QED
      BY <1>1, <3>1, <3>6
  <2>3. QED
    BY <1>5, <2>1, <2>2 DEF DiscoverC2
<1>6. ASSUME NEW r \in Runs, Deploys(r)  PROVE AccountInv'
  <2> DEFINE n == target[r]
  <2>1. Steps(r) /\ pc'[r] = "wait" /\ target'[r] = n /\ found'[r] = found[r]
    BY <1>6, HasGrows DEF Deploys, Goto, TypeInv
  <2>2. Untouched(r, n) /\ Sorted(r, n)
    BY <1>2, <1>6 DEF Deploys, Account, InLoop
  <2>3. \A k, t, c : Has(r, k, t, c)' <=>
          \/ Has(r, k, t, c)
          \/ k = "noproxy" /\ t = n /\ c \in found[r] /\ n \in world.proxied
    BY <1>6, HasGrows, NoProxyHolds DEF Deploys
  <2>4. PICK m : m = n
    OBVIOUS
  <2>5. UnderWay(r, m)'
    <3>1. \A k, c : Has(r, k, m, c)' <=>
            k = "noproxy" /\ c \in found[r] /\ m \in world.proxied
      BY <2>2, <2>3, <2>4 DEF Untouched
    <3>2. QED
      BY <2>1, <3>1 DEF UnderWay, FailedAt, Complete
  <2>6. Sorted(r, m)'
    <3>1. m \in Nat /\ Targets \subseteq Nat
      BY <1>2, <1>6, <2>4, TargetsAreNat DEF Deploys, InLoop
    <3>2. \A t \in Targets : t < m \/ t > m => t # m
      BY <3>1
    <3>3. \A t \in Targets : t # m => \A k, c : Has(r, k, t, c)' <=> Has(r, k, t, c)
      BY <2>3, <2>4
    <3>4. \A t \in Targets : t # m => (Accounted(r, t) => Accounted(r, t)')
                                      /\ (Untouched(r, t) => Untouched(r, t)')
      BY <2>1, <3>3, TargetKept
    <3>5. Sorted(r, m)
      BY <2>2, <2>4
    <3>6. QED
      BY <3>2, <3>4, <3>5 DEF Sorted
  <2>7. UnderWay(r, target[r])' /\ Sorted(r, target[r])'
    BY <2>1, <2>4, <2>5, <2>6
  <2>8. Account(r)'
    BY <2>1, <2>7 DEF Account, InLoop
  <2>9. QED
    BY <1>1, <2>1, <2>8
<1>7. ASSUME NEW r \in Runs, DeployFails(r)  PROVE AccountInv'
  <2> DEFINE rs == NoProxyResults(r) \cup {Result("deploy", target[r], "any", "FAIL")}
  <2>1. /\ pc[r] = "deploy" /\ Report(r, rs) /\ NextTarget(r)
        /\ UNCHANGED <<world, found, todo>>
    BY <1>7 DEF DeployFails
  <2>2. PICK n \in Nat : n = target[r]
    BY <1>2, <2>1 DEF InLoop
  <2>3. \A k, t, c : Holds(rs, k, t, c) <=>
          \/ k = "noproxy" /\ t = n /\ c \in found[r] /\ n \in world.proxied
          \/ k = "deploy" /\ t = n /\ c = "any"
    <3> DEFINE one == {Result("deploy", target[r], "any", "FAIL")}
    <3>1. \A k, t, c : Holds(one, k, t, c) <=> k = "deploy" /\ t = n /\ c = "any"
      BY <2>2, OneHolds
    <3>2. \A k, t, c : Holds(NoProxyResults(r), k, t, c) <=>
            k = "noproxy" /\ t = n /\ c \in found[r] /\ n \in world.proxied
      BY <2>2, NoProxyHolds
    <3>3. rs = NoProxyResults(r) \cup one
      OBVIOUS
    <3>4. \A k, t, c : Holds(NoProxyResults(r) \cup one, k, t, c) <=>
            Holds(NoProxyResults(r), k, t, c) \/ Holds(one, k, t, c)
      <4> HIDE DEF one
      <4>1. QED
        BY HoldsUnion
    <3> HIDE DEF rs, one
    <3>5. QED
      BY <3>1, <3>2, <3>3, <3>4
  <2> HIDE DEF rs
  <2>4. \A k, c : Has(r, k, n, c)' <=>
          \/ k = "noproxy" /\ c \in found[r] /\ n \in world.proxied
          \/ k = "deploy" /\ c = "any"
    <3>1. Untouched(r, n)
      BY <1>2, <2>1, <2>2 DEF Account
    <3>2. QED
      BY <2>1, <2>3, <3>1, HasGrows DEF Untouched
  <2>5. Accounted(r, n)'
    BY <2>1, <2>4 DEF Accounted, FailedAt, Complete
  <2>6. Account(r)'
    BY <1>2, <2>1, <2>2, <2>3, <2>5, TurnAccount DEF InLoop
  <2>7. Steps(r)
    BY <2>1, HasGrows DEF NextTarget, Goto, TypeInv
  <2>8. QED
    BY <1>1, <2>6, <2>7
<1>8. ASSUME NEW r \in Runs, WaitFails(r)  PROVE AccountInv'
  <2> DEFINE rs == {Result("wait", target[r], "any", "FAIL")}
  <2>1. /\ pc[r] = "wait" /\ Report(r, rs) /\ NextTarget(r)
        /\ UNCHANGED <<world, found, todo>>
    BY <1>8 DEF WaitFails
  <2>2. PICK n \in Nat : n = target[r]
    BY <1>2, <2>1 DEF InLoop
  <2>3. \A k, t, c : Holds(rs, k, t, c) <=> k = "wait" /\ t = n /\ c = "any"
    BY <2>2, OneHolds
  <2> HIDE DEF rs
  <2>4. \A k, c : Has(r, k, n, c)' <=> Has(r, k, n, c) \/ (k = "wait" /\ c = "any")
    BY <2>1, <2>3, HasGrows
  <2>5. UnderWay(r, n) /\ \A c : ~Has(r, "reach", n, c)
    BY <1>2, <2>1, <2>2 DEF Account, UnderWay
  <2>6. Accounted(r, n)'
    BY <2>1, <2>4, <2>5 DEF Accounted, UnderWay, FailedAt, Complete
  <2>7. Account(r)'
    BY <1>2, <2>1, <2>2, <2>3, <2>6, TurnAccount DEF InLoop
  <2>8. Steps(r)
    BY <2>1, HasGrows DEF NextTarget, Goto, TypeInv
  <2>9. QED
    BY <1>1, <2>7, <2>8
<1>9. ASSUME NEW r \in Runs, PodIsReady(r)  PROVE AccountInv'
  <2>1. /\ pc[r] = "wait" /\ pc'[r] = "probe" /\ todo'[r] = found[r]
        /\ UNCHANGED <<world, found, target, results>> /\ Steps(r)
    BY <1>9 DEF PodIsReady, Goto, TypeInv
  <2>2. UnderWay(r, target[r]) /\ Sorted(r, target[r])
    BY <1>2, <2>1 DEF Account, InLoop
  <2>3. UnderWay(r, target[r])'
    BY <2>1, <2>2 DEF UnderWay, FailedAt, Complete, Has
  <2>4. Sorted(r, target[r])'
    BY <2>1, <2>2 DEF Sorted, Accounted, Untouched, FailedAt, Complete, Has
  <2>5. Account(r)'
    BY <2>1, <2>3, <2>4 DEF Account, InLoop
  <2>6. QED
    BY <1>1, <2>1, <2>5
<1>10. ASSUME NEW r \in Runs, NEW c \in Bases, Probe(r, c)  PROVE AccountInv'
  <2>1. PICK status \in {"PASS", "FAIL"} : Report(r, {Result("reach", target[r], c, status)})
    BY <1>10 DEF Probe
  <2>2. /\ pc[r] = "probe" /\ c \in todo[r] /\ todo'[r] = todo[r] \ {c}
        /\ UNCHANGED <<world, found>>
    BY <1>10 DEF Probe, TypeInv
  <2>3. PICK n \in Nat : n = target[r]
    BY <1>2, <2>2 DEF InLoop
  <2> DEFINE rs == {Result("reach", target[r], c, status)}
  <2>4. \A k, t, d : Holds(rs, k, t, d) <=> k = "reach" /\ t = n /\ d = c
    BY <2>3, OneHolds
  <2>5. Report(r, rs)
    BY <2>1
  <2> HIDE DEF rs
  <2>6. \A k, t, d : Has(r, k, t, d)' <=> Has(r, k, t, d) \/ (k = "reach" /\ t = n /\ d = c)
    BY <2>4, <2>5, HasGrows
  <2>7. UnderWay(r, n) /\ Sorted(r, n)
    BY <1>2, <2>2, <2>3 DEF Account, InLoop
  <2>8. /\ ~FailedAt(r, n)'
        /\ n \in world.proxied => Complete(r, "noproxy", n)'
        /\ todo'[r] \subseteq found[r]
        /\ \A d : Has(r, "reach", n, d)' <=> d \in found[r] \ todo'[r]
    BY <2>2, <2>6, <2>7 DEF UnderWay, FailedAt, Complete
  <2>9. Steps(r)
    BY <1>10, <2>1, HasGrows DEF Probe, NextTarget, Goto, TypeInv
  <2>10. CASE todo'[r] = {} /\ NextTarget(r)
    <3>1. Accounted(r, n)'
      BY <2>2, <2>8, <2>10 DEF Accounted, FailedAt, Complete
    <3>2. Account(r)'
      BY <1>2, <2>2, <2>3, <2>4, <2>5, <2>10, <3>1, TurnAccount DEF InLoop
    <3>3. QED
      BY <1>1, <2>9, <3>2
  <2>11. CASE UNCHANGED <<pc, target>>
    <3>1. UnderWay(r, n)'
      BY <2>2, <2>8, <2>11 DEF UnderWay
    <3>2. Sorted(r, n)'
      <4>1. \A t \in Targets : t < n \/ t > n => t # n
        BY TargetsAreNat
      <4>2. \A t \in Targets : t # n => (Accounted(r, t) => Accounted(r, t)')
                                        /\ (Untouched(r, t) => Untouched(r, t)')
        BY <2>2, <2>6, TargetKept
      <4>3. QED
        BY <2>7, <4>1, <4>2 DEF Sorted
    <3>3. UnderWay(r, target[r])' /\ Sorted(r, target[r])'
      BY <2>3, <2>11, <3>1, <3>2
    <3>4. Account(r)'
      BY <2>2, <2>11, <3>3 DEF Account, InLoop
    <3>5. QED
      BY <1>1, <2>9, <3>4
  <2>12. QED
    BY <1>10, <2>10, <2>11 DEF Probe
<1>11. ASSUME UNCHANGED <<world, pc, found, target, todo, results>>  PROVE AccountInv'
  BY <1>11, AccountKept DEF AccountInv
<1>12. ASSUME NEW r \in Runs, Return(r)  PROVE AccountInv'
  <2>1. /\ pc[r] = "return" /\ pc'[r] = "returned" /\ UNCHANGED <<found, results>> /\ Steps(r)
    BY <1>12 DEF Return, Goto, TypeInv
  <2>2. Account(r)'
    BY <1>2, <2>1 DEF Account, Accounted, FailedAt, Complete, Discovered, Has, InLoop
  <2>3. QED
    BY <1>1, <2>1, <2>2
<1>13. ASSUME NEW r \in Runs, Kill(r)  PROVE AccountInv'
  <2>1. pc'[r] = "killed" /\ Steps(r)
    BY <1>13 DEF Kill, Goto, TypeInv
  <2>2. Account(r)'
    BY <2>1 DEF Account, InLoop
  <2>3. QED
    BY <1>1, <2>1, <2>2
<1>14. QED
  BY <1>3, <1>4, <1>5, <1>6, <1>7, <1>8, <1>9, <1>10, <1>11, <1>12, <1>13
  DEF Next, RunStep, CleanUp, Interrupt, Cluster, runVars, vars

(* One target's failure hides nothing of another (s3route.go:149): in the   *)
(* report of a run that found the routes, each target has its failure or a  *)
(* result for every route, and the noProxy results whatever its pod did.    *)
THEOREM TargetsAreAccounted == Spec => []EveryTargetAccounted
<1>1. TypeInv /\ AccountInv => EveryTargetAccounted
  <2>0. SUFFICES ASSUME AccountInv, NEW r \in Runs, ListedRoutes(r), NEW t \in Targets
                 PROVE  LET of(check) == {x.route : x \in {y \in results[r] :
                                            y.check = check /\ y.target = t}}
                        IN  /\ of("deploy") = {} /\ of("wait") = {} => of("reach") = found[r]
                            /\ of("deploy") # {} \/ of("wait") # {} => of("reach") = {}
                            /\ t \in world.proxied => of("noproxy") = found[r]
    BY DEF EveryTargetAccounted
  <2> DEFINE of(check) == {x.route : x \in {y \in results[r] : y.check = check /\ y.target = t}}
  <2>1. \A check, c : c \in of(check) <=> Has(r, check, t, c)
    BY DEF Has, Holds
  <2>2. Accounted(r, t)
    BY <2>0 DEF AccountInv, Account, ListedRoutes, Discovered
  <2> HIDE DEF of
  <2>3. of("deploy") = {} /\ of("wait") = {} <=> ~FailedAt(r, t)
    BY <2>1 DEF FailedAt
  <2>4. \A check : Complete(r, check, t) => of(check) = found[r]
    BY <2>1 DEF Complete
  <2>5. /\ of("deploy") = {} /\ of("wait") = {} => of("reach") = found[r]
        /\ of("deploy") # {} \/ of("wait") # {} => of("reach") = {}
        /\ t \in world.proxied => of("noproxy") = found[r]
    BY <2>1, <2>2, <2>3, <2>4 DEF Accounted
  <2>6. QED
    BY <2>5 DEF of
<1>2. Spec => []AccountInv
  BY InitAccount, StepAccount, TypeInductive, PTL DEF Spec
<1>3. QED
  BY <1>1, <1>2, TypeInductive, PTL

=============================================================================
