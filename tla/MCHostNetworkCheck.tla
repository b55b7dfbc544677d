------------------------- MODULE MCHostNetworkCheck -------------------------
(* Two storage nodes on c1, one on c2. *)
EXTENDS HostNetworkCheck

HostPods == {<<"c1", 1>>, <<"c1", 2>>, <<"c2", 1>>}

(* One endpoint on c1, none to two on c2; every connection is open, or all  *)
(* but one, whichever it is.                                                *)
Pairs(n) == ({<<"c1", 1>>, <<"c1", 2>>} \X (1..n)) \cup {<< <<"c2", 1>>, 1>>}

AllWorlds ==
  UNION {
    {[endpoints |-> [c \in Bases |-> IF c = "c1" THEN {1} ELSE 1..n],
      open |-> Pairs(n) \ {p}] : p \in Pairs(n) \cup {<< <<"none", 0>>, 0>>}} :
    n \in 0..2}

=============================================================================
