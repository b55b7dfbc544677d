------------------------------- MODULE Clusters -------------------------------
(***************************************************************************)
(* From the configuration to the Cluster objects the checks work with:     *)
(* config.Validate and EffectiveC<n>Client (pkg/config/config.go),         *)
(* NewClusters and Clusters.All (pkg/cluster/client.go), the loop of       *)
(* runCheckNetwork that calls FetchProxyConfig (pkg/check/proxy.go), and   *)
(* the target list of CheckS3Routes (pkg/check/s3route.go).                *)
(*                                                                         *)
(* Two roles may name one kubeconfig.  All() and the S3 targets each keep  *)
(* the first object of a kubeconfig path, in orders of their own, while    *)
(* FetchProxyConfig fills the Proxy of one object only.                    *)
(***************************************************************************)
EXTENDS Naturals, Sequences

CONSTANTS
  Paths,   (* kubeconfig paths                 *)
  NoPath   (* the empty string: not configured *)

ASSUME NoPathAssumption == NoPath \notin Paths

AllOrder == <<"hub", "hub-passive", "c1", "c2", "c1-client-1", "c2-client-1">>
S3Order  == <<"hub", "c1-client-1", "c2-client-1", "hub-passive">>
Roles    == {AllOrder[i] : i \in 1..6}

VARIABLES
  config,   (* role -> the kubeconfig path the user gave, or NoPath         *)
  proxied,  (* the paths whose cluster has a cluster-wide proxy             *)
  phase,    (* how far runCheckNetwork is                                   *)
  pending,  (* objects of All() whose Proxy is still to be fetched          *)
  fetched,  (* objects FetchProxyConfig was called for                      *)
  warned,   (* those it returned an error for: a console warning            *)
  proxy     (* object -> Proxy.Configured, FALSE in a new object            *)

vars == <<config, proxied, phase, pending, fetched, warned, proxy>>

-----------------------------------------------------------------------------
(* Mutant: the second base cluster may be left out *)
ValidWithoutC2 == \A role \in {"hub", "c1"} : config[role] # NoPath

Valid == \A role \in {"hub", "c1", "c2"} : config[role] # NoPath

Base(role) == IF role = "c1-client-1" THEN "c1" ELSE "c2"
Clients == {"c1-client-1", "c2-client-1"}

(* EffectiveC1Client and EffectiveC2Client; the other roles as configured *)
Path(role) ==
  IF role \in Clients /\ config[role] = NoPath THEN config[Base(role)] ELSE config[role]

(* Mutant: a client has always an object of its own *)
OwnObject(role) == role

(* The object in the field of Clusters, named for the role it was made for: *)
(* a client with the path of its base is the base's object.                 *)
Object(role) ==
  IF role \in Clients /\ Path(role) = config[Base(role)] THEN Base(role) ELSE role

(* Mutant: duplicates are told by the object, not by its path *)
FirstOfObject(order) ==
  {order[i] : i \in {k \in 1..Len(order) :
     /\ Path(order[k]) # NoPath
     /\ \A j \in 1..Len(order) : j < k => Object(order[j]) # Object(order[k])}}

(* Mutant: the last of a path stays *)
LastOfPath(order) ==
  {order[i] : i \in {k \in 1..Len(order) :
     /\ Path(order[k]) # NoPath
     /\ \A j \in 1..Len(order) : k < j => Path(order[j]) # Path(order[k])}}

(* The `seen` loops: the first role of each path stays *)
FirstOfPath(order) ==
  {order[i] : i \in {k \in 1..Len(order) :
     /\ Path(order[k]) # NoPath
     /\ \A j \in 1..Len(order) : j < k => Path(order[j]) # Path(order[k])}}

All       == {Object(role) : role \in FirstOfPath(AllOrder)}
S3Targets == {Object(role) : role \in FirstOfPath(S3Order)}

(* The objects whose Proxy a check reads: the S3 targets, and either base   *)
(* cluster as the peer of the other in the provider and Submariner checks   *)
Consulted == S3Targets \cup {"c1", "c2"}

-----------------------------------------------------------------------------
Init ==
  /\ config \in [Roles -> Paths \cup {NoPath}]
  /\ proxied \in SUBSET Paths
  /\ phase = "read"
  /\ pending = {}
  /\ fetched = {}
  /\ warned = {}
  /\ proxy = [o \in Roles |-> FALSE]

(* ReadConfig: Validate passes, or runCheckNetwork ends with console.Fatal *)
ReadConfig ==
  /\ phase = "read"
  /\ phase' = IF Valid THEN "build" ELSE "fatal"
  /\ UNCHANGED <<config, proxied, pending, fetched, warned, proxy>>

(* NewClusters makes every object, or the first NewCluster error is fatal *)
NewClusters ==
  /\ phase = "build"
  /\ \/ phase' = "fetch" /\ pending' = All
     \/ phase' = "fatal" /\ UNCHANGED pending
  /\ UNCHANGED <<config, proxied, fetched, warned, proxy>>

Position(o) == CHOOSE i \in 1..6 : AllOrder[i] = o

(* FetchProxyConfig for the next object of All(): the cluster's proxy       *)
(* (NotFound leaves the object as it is, which says the same as no proxy),  *)
(* or an error, after which the object looks as if there were no proxy.     *)
FetchProxyConfig(o) ==
  /\ phase = "fetch"
  /\ o \in pending
  /\ \A q \in pending : Position(o) <= Position(q)
  /\ pending' = pending \ {o}
  /\ fetched' = fetched \cup {o}
  /\ \/ /\ proxy' = [proxy EXCEPT ![o] = Path(o) \in proxied]
        /\ UNCHANGED warned
     \/ /\ warned' = warned \cup {o}
        /\ UNCHANGED proxy
  /\ UNCHANGED <<config, proxied, phase>>

StartChecks ==
  /\ phase = "fetch"
  /\ pending = {}
  /\ phase' = "check"
  /\ UNCHANGED <<config, proxied, pending, fetched, warned, proxy>>

Next ==
  \/ ReadConfig
  \/ NewClusters
  \/ \E o \in Roles : FetchProxyConfig(o)
  \/ StartChecks

Spec == Init /\ [][Next]_vars

-----------------------------------------------------------------------------
(* Types, and every object that is fetched or asked has a kubeconfig *)
TypeOK ==
  /\ config \in [Roles -> Paths \cup {NoPath}]
  /\ proxied \subseteq Paths
  /\ phase \in {"read", "build", "fetch", "check", "fatal"}
  /\ pending \subseteq Roles
  /\ fetched \subseteq Roles
  /\ warned \subseteq fetched
  /\ proxy \in [Roles -> BOOLEAN]
  /\ phase \in {"fetch", "check"} =>
       \A o \in pending \cup fetched \cup Consulted : Path(o) \in Paths

UsedPaths == {Path(role) : role \in Roles} \ {NoPath}

(* Whatever roles share a kubeconfig, each cluster is asked for its proxy   *)
(* exactly once (Clusters.All).                                             *)
OneFetchPerPath ==
  phase = "check" => \A p \in UsedPaths : \E o \in fetched :
    Path(o) = p /\ \A q \in fetched : Path(q) = p => q = o

(* CheckS3Routes probes from the hub, the passive hub and the clients, and  *)
(* from no cluster twice, so that no two of its pods meet on one cluster.   *)
S3TargetsOncePerPath ==
  phase = "check" =>
    /\ {Path(o) : o \in S3Targets} =
         {Path(role) : role \in {"hub", "hub-passive"} \cup Clients} \ {NoPath}
    /\ \A o, q \in S3Targets : Path(o) = Path(q) => o = q

(* Hubs and base clusters are four clusters, and a client is its own base   *)
(* or none of the four; the clients may be one cluster.                     *)
RolesApart ==
  LET Four == {"hub", "hub-passive", "c1", "c2"} IN
  /\ \A a, b \in Four : Path(a) = Path(b) => a = b
  /\ \A role \in Clients : \A a \in Four : Path(role) = Path(a) => a = Base(role)

(* The Proxy a check reads says what the cluster has, unless the fetch for  *)
(* this cluster failed.                                                     *)
ProxyKnown ==
  phase = "check" => \A o \in Consulted \ warned : proxy[o] <=> Path(o) \in proxied

(* The order of All() and the checks' choice of objects agree as long as    *)
(* the roles are different clusters.                                        *)
ProxyKnownIfApart == RolesApart => ProxyKnown

(* README.md: "Ensures all endpoints are properly configured in the cluster *)
(* proxy settings".  Also when one kubeconfig has several roles, which      *)
(* All() and CheckS3Routes provide for with their `seen` maps.              *)
ProxyAlwaysKnown == warned = {} => ProxyKnown

=============================================================================
