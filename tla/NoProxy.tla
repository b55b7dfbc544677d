------------------------------- MODULE NoProxy -------------------------------
(***************************************************************************)
(* The matching of pkg/check/proxy.go: is a host (a name, an IP address or *)
(* a CIDR) covered by the entries of a cluster's noProxy list?             *)
(*                                                                         *)
(* An address has its bits, a function from the bit positions, the most    *)
(* significant first, to {0, 1} (the IP families differ in its domain),    *)
(* and its spelling: fd00::1 and fd00:0:0::1 are one address in two        *)
(* spellings.  A name is the sequence of its labels, in lower case.        *)
(***************************************************************************)
EXTENDS Integers, Sequences

Address(b, s) == [kind |-> "address", bits |-> b, spelling |-> s]
Cidr(b, n)    == [kind |-> "cidr", bits |-> b, ones |-> n]
Name(l)       == [kind |-> "name", labels |-> l]
Domain(l)     == [kind |-> "domain", labels |-> l]  (* with a leading dot *)
Wildcard      == [kind |-> "any"]                   (* the entry * alone  *)

Addresses(width) == [1..width -> {0, 1}]
Cidrs(width)     == {Cidr(b, n) : b \in Addresses(width), n \in 0..width}

-----------------------------------------------------------------------------
(* net.IPNet.Contains: the families agree, and so do the bits under the mask *)
IPNetContains(net, a) ==
  /\ DOMAIN a = DOMAIN net.bits
  /\ \A i \in 1..net.ones : a[i] = net.bits[i]

(* Mutant: the base is inside, whatever the size *)
BaseInside(outer, inner) == IPNetContains(outer, inner.bits)

cidrContains(outer, inner) ==
  IPNetContains(outer, inner.bits) /\ outer.ones <= inner.ones

ProperSuffix(name, end) ==
  /\ Len(end) < Len(name)
  /\ SubSeq(name, Len(name) - Len(end) + 1, Len(name)) = end

(* One turn of the loop.  The host's text equals the entry's, spelling and  *)
(* all; or the entry is a CIDR; or it is a domain, with or without its      *)
(* leading dot, and the host a name below it.  The entry * is no host's     *)
(* text and no name's end.                                                  *)
EntryCovers(e, host) ==
  \/ e = host
  \/ e.kind = "cidr" /\ host.kind = "address" /\ IPNetContains(e, host.bits)
  \/ e.kind = "cidr" /\ host.kind = "cidr" /\ cidrContains(e, host)
  \/ /\ e.kind \in {"name", "domain"}
     /\ host.kind = "name"
     /\ ProperSuffix(host.labels, e.labels)

isHostCoveredByNoProxy(host, entries) == \E e \in entries : EntryCovers(e, host)

-----------------------------------------------------------------------------
(* The reference: what a noProxy list means for a connection.  A client     *)
(* opens connections to single addresses or names and bypasses the proxy if *)
(* an entry holds the address, however it is spelled, or is the name or a   *)
(* domain above it; the wildcard holds every host.                          *)

AddressesOf(h) == {a \in [DOMAIN h.bits -> {0, 1}] :
                     IF h.kind = "cidr" THEN IPNetContains(h, a) ELSE a = h.bits}

Above(l, name) == \E i \in 1..Len(name) : l = SubSeq(name, i, Len(name))

EntryHolds(e, h) ==
  \/ e.kind = "any"
  \/ /\ h.kind = "name"
     /\ \/ e.kind = "name" /\ Above(e.labels, h.labels)
        \/ e.kind = "domain" /\ Above(e.labels, Tail(h.labels))
  \/ /\ h.kind # "name"
     /\ e.kind \in {"cidr", "address"}
     /\ AddressesOf(h) \subseteq AddressesOf(e)

(* Every connection to the host bypasses the proxy, by one entry *)
Bypasses(h, entries) == \E e \in entries : EntryHolds(e, h)

(* The entries that may hold a host and that the comparison of texts does   *)
(* not recognize: *, and a single address that is spelled otherwise or      *)
(* whose host is the range of that address alone.                           *)
Overlooked(e, h) ==
  \/ e.kind = "any"
  \/ e.kind = "address" /\ e # h

=============================================================================
