---------------------------- MODULE ClustersProofs ----------------------------
(***************************************************************************)
(* What is known of the clusters' proxies, proved for any set of kubeconfig *)
(* paths and any configuration.  The arithmetic is in the two orders of six *)
(* and four roles: which role of a path comes first.                        *)
(***************************************************************************)
EXTENDS Clusters, TLAPS

IInv ==
  /\ TypeOK
  /\ phase \in {"build", "fetch", "check"} => Valid
  /\ phase \in {"read", "build"} => pending = {} /\ fetched = {}
  /\ phase \in {"fetch", "check"} => pending \cup fetched = All
  /\ phase = "check" => pending = {}
  /\ \A o \in fetched \ warned : proxy[o] <=> Path(o) \in proxied

-----------------------------------------------------------------------------
LEMMA RolesAre ==
  Roles = {"hub", "hub-passive", "c1", "c2", "c1-client-1", "c2-client-1"}
BY DEF Roles, AllOrder

LEMMA Orders ==
  /\ Len(AllOrder) = 6
  /\ Len(S3Order) = 4
  /\ AllOrder[1] = "hub" /\ AllOrder[2] = "hub-passive" /\ AllOrder[3] = "c1"
  /\ AllOrder[4] = "c2" /\ AllOrder[5] = "c1-client-1" /\ AllOrder[6] = "c2-client-1"
  /\ S3Order[1] = "hub" /\ S3Order[2] = "c1-client-1"
  /\ S3Order[3] = "c2-client-1" /\ S3Order[4] = "hub-passive"
BY DEF AllOrder, S3Order

(* The object of a field has the kubeconfig of the field's role *)
LEMMA ObjectPath ==
  ASSUME NEW role \in Roles
  PROVE  Object(role) \in Roles /\ Path(Object(role)) = Path(role)
BY RolesAre DEF Object, Path, Base, Clients

LEMMA PathType ==
  ASSUME config \in [Roles -> Paths \cup {NoPath}], NEW role \in Roles
  PROVE  /\ Path(role) \in Paths \cup {NoPath}
         /\ Valid /\ role # "hub-passive" => Path(role) \in Paths
BY RolesAre DEF Path, Base, Clients, Valid

(* Two roles that stay in All() have different paths *)
LEMMA AllDistinct ==
  ASSUME NEW a \in FirstOfPath(AllOrder), NEW b \in FirstOfPath(AllOrder), Path(a) = Path(b)
  PROVE  a = b
<1>1. PICK i \in 1..6 : a = AllOrder[i] /\ \A j \in 1..6 : j < i => Path(AllOrder[j]) # Path(a)
  BY Orders DEF FirstOfPath
<1>2. PICK k \in 1..6 : b = AllOrder[k] /\ \A j \in 1..6 : j < k => Path(AllOrder[j]) # Path(b)
  BY Orders DEF FirstOfPath
<1>3. ~(i < k) /\ ~(k < i)
  BY <1>1, <1>2
<1>4. QED
  BY <1>1, <1>2, <1>3

LEMMA S3Distinct ==
  ASSUME NEW a \in FirstOfPath(S3Order), NEW b \in FirstOfPath(S3Order), Path(a) = Path(b)
  PROVE  a = b
<1>1. PICK i \in 1..4 : a = S3Order[i] /\ \A j \in 1..4 : j < i => Path(S3Order[j]) # Path(a)
  BY Orders DEF FirstOfPath
<1>2. PICK k \in 1..4 : b = S3Order[k] /\ \A j \in 1..4 : j < k => Path(S3Order[j]) # Path(b)
  BY Orders DEF FirstOfPath
<1>3. ~(i < k) /\ ~(k < i)
  BY <1>1, <1>2
<1>4. QED
  BY <1>1, <1>2, <1>3

(* A role of an order stays if no role before it has its path *)
LEMMA AllFirst ==
  ASSUME NEW i \in 1..6, Path(AllOrder[i]) # NoPath,
         \A j \in 1..6 : j < i => Path(AllOrder[j]) # Path(AllOrder[i])
  PROVE  AllOrder[i] \in FirstOfPath(AllOrder)
BY Orders DEF FirstOfPath

LEMMA S3First ==
  ASSUME NEW i \in 1..4, Path(S3Order[i]) # NoPath,
         \A j \in 1..4 : j < i => Path(S3Order[j]) # Path(S3Order[i])
  PROVE  S3Order[i] \in FirstOfPath(S3Order)
BY Orders DEF FirstOfPath

(* Every path in use has a first role, found by looking at the six in turn *)
LEMMA AllCovers ==
  ASSUME NEW p, p # NoPath, NEW n \in 1..6, Path(AllOrder[n]) = p
  PROVE  \E a \in FirstOfPath(AllOrder) : Path(a) = p
<1> DEFINE Is(i) == Path(AllOrder[i]) = p
<1>1. CASE Is(1)
  BY <1>1, AllFirst
<1>2. CASE ~Is(1) /\ Is(2)
  BY <1>2, AllFirst
<1>3. CASE ~Is(1) /\ ~Is(2) /\ Is(3)
  BY <1>3, AllFirst
<1>4. CASE ~Is(1) /\ ~Is(2) /\ ~Is(3) /\ Is(4)
  BY <1>4, AllFirst
<1>5. CASE ~Is(1) /\ ~Is(2) /\ ~Is(3) /\ ~Is(4) /\ Is(5)
  BY <1>5, AllFirst
<1>6. CASE ~Is(1) /\ ~Is(2) /\ ~Is(3) /\ ~Is(4) /\ ~Is(5) /\ Is(6)
  BY <1>6, AllFirst
<1>7. Is(1) \/ Is(2) \/ Is(3) \/ Is(4) \/ Is(5) \/ Is(6)
  OBVIOUS
<1>8. QED
  BY <1>1, <1>2, <1>3, <1>4, <1>5, <1>6, <1>7

LEMMA S3Covers ==
  ASSUME NEW p, p # NoPath, NEW n \in 1..4, Path(S3Order[n]) = p
  PROVE  \E a \in FirstOfPath(S3Order) : Path(a) = p
<1> DEFINE Is(i) == Path(S3Order[i]) = p
<1>1. CASE Is(1)
  BY <1>1, S3First
<1>2. CASE ~Is(1) /\ Is(2)
  BY <1>2, S3First
<1>3. CASE ~Is(1) /\ ~Is(2) /\ Is(3)
  BY <1>3, S3First
<1>4. CASE ~Is(1) /\ ~Is(2) /\ ~Is(3) /\ Is(4)
  BY <1>4, S3First
<1>5. Is(1) \/ Is(2) \/ Is(3) \/ Is(4)
  OBVIOUS
<1>6. QED
  BY <1>1, <1>2, <1>3, <1>4, <1>5

LEMMA StaysIsRole ==
  /\ \A a \in FirstOfPath(AllOrder) : a \in Roles /\ Path(a) # NoPath
  /\ \A a \in FirstOfPath(S3Order) :
       /\ a \in {"hub", "hub-passive"} \cup Clients
       /\ a \in Roles
       /\ Path(a) # NoPath
<1>1. \A a \in FirstOfPath(AllOrder) : a \in Roles /\ Path(a) # NoPath
  BY Orders DEF FirstOfPath, Roles
<1>2. ASSUME NEW a \in FirstOfPath(S3Order)
      PROVE  a \in {"hub", "hub-passive", "c1-client-1", "c2-client-1"} /\ Path(a) # NoPath
  <2>1. PICK i \in 1..4 : a = S3Order[i] /\ Path(a) # NoPath
    BY Orders DEF FirstOfPath
  <2>2. i = 1 \/ i = 2 \/ i = 3 \/ i = 4
    OBVIOUS
  <2>3. QED
    BY <2>1, <2>2, Orders
<1>3. QED
  BY <1>1, <1>2, RolesAre DEF Clients

-----------------------------------------------------------------------------
(* All() and the S3 targets, for any configuration that Validate accepts *)

LEMMA AllOncePerPath ==
  ASSUME NEW p \in UsedPaths
  PROVE  \E o \in All : Path(o) = p /\ \A q \in All : Path(q) = p => q = o
<1>1. PICK n \in 1..6 : Path(AllOrder[n]) = p /\ p # NoPath
  BY DEF UsedPaths, Roles
<1>2. PICK a \in FirstOfPath(AllOrder) : Path(a) = p
  BY <1>1, AllCovers
<1>3. Object(a) \in All /\ Path(Object(a)) = p
  BY <1>2, StaysIsRole, ObjectPath DEF All
<1>4. ASSUME NEW q \in All, Path(q) = p PROVE q = Object(a)
  <2>1. PICK b \in FirstOfPath(AllOrder) : q = Object(b)
    BY DEF All
  <2>2. Path(b) = p
    BY <2>1, <1>4, StaysIsRole, ObjectPath
  <2>3. QED
    BY <1>2, <2>1, <2>2, AllDistinct
<1>5. QED
  BY <1>3, <1>4

LEMMA S3OncePerPath ==
  /\ {Path(o) : o \in S3Targets} =
       {Path(role) : role \in {"hub", "hub-passive"} \cup Clients} \ {NoPath}
  /\ \A o, q \in S3Targets : Path(o) = Path(q) => o = q
<1>1. ASSUME NEW o \in S3Targets
      PROVE  \E a \in FirstOfPath(S3Order) : o = Object(a) /\ Path(o) = Path(a)
  BY StaysIsRole, ObjectPath DEF S3Targets
<1>2. ASSUME NEW o \in S3Targets
      PROVE  Path(o) \in {Path(role) : role \in {"hub", "hub-passive"} \cup Clients} \ {NoPath}
  BY <1>1, StaysIsRole
<1>3. ASSUME NEW role \in {"hub", "hub-passive"} \cup Clients, Path(role) # NoPath
      PROVE  \E o \in S3Targets : Path(o) = Path(role)
  <2>1. PICK n \in 1..4 : role = S3Order[n]
    BY Orders DEF Clients
  <2>2. PICK a \in FirstOfPath(S3Order) : Path(a) = Path(role)
    BY <1>3, <2>1, S3Covers
  <2>3. QED
    BY <2>2, StaysIsRole, ObjectPath DEF S3Targets
<1>4. ASSUME NEW o \in S3Targets, NEW q \in S3Targets, Path(o) = Path(q) PROVE o = q
  BY <1>1, <1>4, S3Distinct
<1>5. QED
  BY <1>2, <1>3, <1>4

(* With the roles apart, what a check consults is what All() fetches *)
LEMMA ApartConsulted ==
  ASSUME config \in [Roles -> Paths \cup {NoPath}], Valid, RolesApart
  PROVE  Consulted \subseteq All
<1> USE NoPathAssumption
<1> DEFINE Four == {"hub", "hub-passive", "c1", "c2"}
<1>1. \A a, b \in Four : Path(a) = Path(b) => a = b
  BY DEF RolesApart
<1>2. \A role \in Clients : \A a \in Four : Path(role) = Path(a) => a = Base(role)
  BY DEF RolesApart
<1>3. Path("hub") # NoPath /\ Path("c1") # NoPath /\ Path("c2") # NoPath
  BY RolesAre DEF Path, Clients, Valid
<1>4. "hub" \in FirstOfPath(AllOrder)
  BY <1>3, Orders, AllFirst
<1>5. "c1" \in FirstOfPath(AllOrder)
  <2>1. \A j \in 1..6 : j < 3 => Path(AllOrder[j]) # Path(AllOrder[3])
    BY <1>1, Orders
  <2>2. QED
    BY <1>3, <2>1, Orders, AllFirst
<1>6. "c2" \in FirstOfPath(AllOrder)
  <2>1. \A j \in 1..6 : j < 4 => Path(AllOrder[j]) # Path(AllOrder[4])
    BY <1>1, Orders
  <2>2. QED
    BY <1>3, <2>1, Orders, AllFirst
<1>7. Object("c1") = "c1" /\ Object("c2") = "c2" /\ Object("hub") = "hub"
      /\ Object("hub-passive") = "hub-passive"
  BY DEF Object, Clients
<1>8. ASSUME NEW a \in FirstOfPath(S3Order) PROVE Object(a) \in All
  <2>0. Path(a) # NoPath /\ a \in {"hub", "hub-passive", "c1-client-1", "c2-client-1"}
    BY StaysIsRole DEF Clients
  <2>1. CASE a = "hub"
    BY <2>1, <1>4 DEF All
  <2>2. CASE a = "hub-passive"
    <3>1. \A j \in 1..6 : j < 2 => Path(AllOrder[j]) # Path(AllOrder[2])
      BY <1>1, Orders
    <3>2. "hub-passive" \in FirstOfPath(AllOrder)
      BY <2>0, <2>2, <3>1, Orders, AllFirst
    <3>3. QED
      BY <2>2, <3>2 DEF All
  <2>3. CASE a = "c1-client-1"
    <3>1. CASE Path(a) = Path("c1")
      <4>1. Object(a) = "c1"
        BY <2>3, <3>1 DEF Object, Path, Clients, Base
      <4>2. QED
        BY <4>1, <1>5, <1>7 DEF All
    <3>2. CASE Path(a) # Path("c1")
      <4>1. \A b \in Four : Path(a) # Path(b)
        BY <1>2, <2>3, <3>2 DEF Clients, Base
      <4>2. \A j \in 1..6 : j < 5 => Path(AllOrder[j]) # Path(AllOrder[5])
        BY <4>1, <2>3, Orders
      <4>3. a \in FirstOfPath(AllOrder)
        BY <2>0, <2>3, <4>2, Orders, AllFirst
      <4>4. QED
        BY <4>3 DEF All
    <3>3. QED
      BY <3>1, <3>2
  <2>4. CASE a = "c2-client-1"
    <3>1. CASE Path(a) = Path("c2")
      <4>1. Object(a) = "c2"
        BY <2>4, <3>1 DEF Object, Path, Clients, Base
      <4>2. QED
        BY <4>1, <1>6, <1>7 DEF All
    <3>2. CASE Path(a) # Path("c2")
      <4>1. \A b \in Four : Path(a) # Path(b)
        BY <1>2, <2>4, <3>2 DEF Clients, Base
      <4>2. Path(a) # Path("c1-client-1")
        <5>1. PICK i \in 1..4 : a = S3Order[i]
                                /\ \A j \in 1..4 : j < i => Path(S3Order[j]) # Path(a)
          BY Orders DEF FirstOfPath
        <5>2. i = 3
          <6>1. i = 1 \/ i = 2 \/ i = 3 \/ i = 4
            OBVIOUS
          <6>2. QED
            BY <6>1, <5>1, <2>4, Orders
        <5>3. QED
          BY <5>1, <5>2, Orders
      <4>3. \A j \in 1..6 : j < 6 => Path(AllOrder[j]) # Path(AllOrder[6])
        BY <4>1, <4>2, <2>4, Orders
      <4>4. a \in FirstOfPath(AllOrder)
        BY <2>0, <2>4, <4>3, Orders, AllFirst
      <4>5. QED
        BY <4>4 DEF All
    <3>3. QED
      BY <3>1, <3>2
  <2>5. QED
    BY <2>0, <2>1, <2>2, <2>3, <2>4
<1>9. QED
  BY <1>5, <1>6, <1>7, <1>8 DEF Consulted, S3Targets, All

-----------------------------------------------------------------------------
LEMMA ConsultedRoles == Consulted \subseteq Roles
BY StaysIsRole, ObjectPath, RolesAre DEF Consulted, S3Targets

LEMMA AllRoles == All \subseteq Roles
BY StaysIsRole, ObjectPath DEF All

(* Every object that is fetched or consulted has a kubeconfig *)
LEMMA ObjectsHavePath ==
  ASSUME config \in [Roles -> Paths \cup {NoPath}],
         NEW o \in All \cup Consulted, Valid
  PROVE  Path(o) \in Paths
<1>1. CASE o \in All \cup S3Targets
  BY <1>1, StaysIsRole, ObjectPath, PathType, AllRoles DEF All, S3Targets
<1>2. CASE o \in {"c1", "c2"}
  BY <1>2, PathType, RolesAre
<1>3. QED
  BY <1>1, <1>2 DEF Consulted

LEMMA InitIInv == Init => IInv
BY DEF Init, IInv, TypeOK

(* What the steps leave alone: everything that depends on the configuration *)
LEMMA ConfigFixed ==
  ASSUME UNCHANGED config
  PROVE  /\ Valid' <=> Valid
         /\ All' = All
         /\ Consulted' = Consulted
         /\ \A o : Path(o)' = Path(o)
<1>1. \A o : Path(o)' = Path(o)
  BY DEF Path
<1>2. \A o : Object(o)' = Object(o)
  BY <1>1 DEF Object
<1>3. FirstOfPath(AllOrder)' = FirstOfPath(AllOrder) /\ FirstOfPath(S3Order)' = FirstOfPath(S3Order)
  BY <1>1 DEF FirstOfPath
<1>4. QED
  BY <1>1, <1>2, <1>3 DEF Valid, All, Consulted, S3Targets

LEMMA StepIInv == IInv /\ [Next]_vars => IInv'
<1> SUFFICES ASSUME IInv, [Next]_vars PROVE IInv'
  OBVIOUS
<1> USE DEF IInv, TypeOK
<1>1. CASE ReadConfig
  BY <1>1, ConfigFixed DEF ReadConfig
<1>2. CASE NewClusters
  <2>1. UNCHANGED <<config, proxied, fetched, warned, proxy>> /\ Valid
    BY <1>2 DEF NewClusters
  <2>2. CASE phase' = "fetch" /\ pending' = All
    <3>1. fetched' = {} /\ pending' \subseteq Roles
      BY <1>2, <2>1, <2>2, AllRoles DEF NewClusters
    <3>2. \A o \in pending' \cup fetched' \cup Consulted : Path(o) \in Paths
      BY <2>1, <2>2, <3>1, ObjectsHavePath
    <3>3. QED
      BY <2>1, <2>2, <3>1, <3>2, ConfigFixed
  <2>3. CASE phase' = "fatal" /\ UNCHANGED pending
    BY <2>1, <2>3, ConfigFixed
  <2>4. QED
    BY <1>2, <2>2, <2>3 DEF NewClusters
<1>3. ASSUME NEW o \in Roles, FetchProxyConfig(o) PROVE IInv'
  <2> UNCHANGED <<config, proxied, phase>> /\ phase = "fetch" /\ o \in pending
      /\ pending' = pending \ {o} /\ fetched' = fetched \cup {o}
    BY <1>3 DEF FetchProxyConfig
  <2>1. CASE proxy' = [proxy EXCEPT ![o] = Path(o) \in proxied] /\ UNCHANGED warned
    <3>1. proxy' \in [Roles -> BOOLEAN]
      BY <2>1
    <3>2. \A q \in fetched' \ warned' : proxy'[q] <=> Path(q) \in proxied
      BY <2>1
    <3>3. QED
      BY <2>1, <3>1, <3>2, ConfigFixed
  <2>2. CASE warned' = warned \cup {o} /\ UNCHANGED proxy
    BY <2>2, ConfigFixed
  <2>3. QED
    BY <1>3, <2>1, <2>2 DEF FetchProxyConfig
<1>4. CASE StartChecks
  BY <1>4, ConfigFixed DEF StartChecks
<1>5. CASE UNCHANGED vars
  BY <1>5, ConfigFixed DEF vars
<1>6. QED
  BY <1>1, <1>2, <1>3, <1>4, <1>5 DEF Next

LEMMA Inductive == Spec => []IInv
<1>1. QED
  BY InitIInv, StepIInv, PTL DEF Spec

(* Types, and no check is given an object without a kubeconfig *)
THEOREM TypeCorrect == Spec => []TypeOK
<1>1. IInv => TypeOK
  BY DEF IInv
<1>2. QED
  BY <1>1, Inductive, PTL

(* However the roles share kubeconfigs, each cluster is asked once *)
THEOREM FetchedOnce == Spec => []OneFetchPerPath
<1>1. IInv => OneFetchPerPath
  <2>1. SUFFICES ASSUME IInv, phase = "check", NEW p \in UsedPaths
                 PROVE  \E o \in fetched : Path(o) = p /\ \A q \in fetched : Path(q) = p => q = o
    BY DEF OneFetchPerPath
  <2>2. fetched = All
    BY <2>1 DEF IInv
  <2>3. QED
    BY <2>2, AllOncePerPath
<1>2. QED
  BY <1>1, Inductive, PTL

(* The S3 pods are one to a cluster, on the clusters the documentation names *)
THEOREM S3TargetsAreClusters == Spec => []S3TargetsOncePerPath
<1>1. S3TargetsOncePerPath
  BY S3OncePerPath DEF S3TargetsOncePerPath
<1>2. QED
  BY <1>1, PTL

(* While the roles are different clusters, a check reads the proxy there is *)
THEOREM ProxiesAreKnown == Spec => []ProxyKnownIfApart
<1>1. IInv => ProxyKnownIfApart
  <2>1. SUFFICES ASSUME IInv, RolesApart, phase = "check", NEW o \in Consulted \ warned
                 PROVE  proxy[o] <=> Path(o) \in proxied
    BY DEF ProxyKnownIfApart, ProxyKnown
  <2>2. fetched = All /\ Consulted \subseteq All
    BY <2>1, ApartConsulted DEF IInv, TypeOK
  <2>3. QED
    BY <2>1, <2>2 DEF IInv
<1>2. QED
  BY <1>1, Inductive, PTL

=============================================================================
