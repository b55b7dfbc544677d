--------------------------- MODULE MCS3RouteCheck ---------------------------
(* Networks for S3RouteCheck on a small instance. *)
EXTENDS S3RouteCheck, TLC

(* Every network there is: which routes exist, which answer, who has a      *)
(* proxy and what its noProxy list covers.  What nobody asks (a route that  *)
(* does not exist, the noProxy list of a target without proxy) is left out. *)
AllWorlds ==
  {w \in [routes : SUBSET Bases, proxied : SUBSET Targets,
          reach : SUBSET (Targets \X Bases), covered : SUBSET (Targets \X Bases)] :
     /\ w.reach \subseteq Targets \X w.routes
     /\ w.covered \subseteq w.proxied \X w.routes}

(* Both routes answer; the target has a proxy and its noProxy list a gap *)
OneWorld ==
  {[routes |-> Bases, proxied |-> {1}, reach |-> Targets \X Bases,
    covered |-> {<<1, "c1">>}]}

=============================================================================
