----------------------------- MODULE NoProxyProofs -----------------------------
(***************************************************************************)
(* The matching of NoProxy is right for addresses of any width and names   *)
(* of any length: a host is covered exactly if one entry makes every       *)
(* connection to it bypass the proxy and is not Overlooked, that is         *)
(* neither the wildcard nor an address in another text than the host's.    *)
(***************************************************************************)
EXTENDS NoProxy, SequenceTheorems, TLAPS

CONSTANTS
  Labels,    (* the labels of names          *)
  Spellings  (* the ways to write an address *)

(* The entries and hosts, with addresses of any family and names of at      *)
(* least one label                                                          *)
IPs == UNION {{Address(b, s) : b \in Addresses(w), s \in Spellings} \cup Cidrs(w) : w \in Nat}

Names   == {Name(l) : l \in Seq(Labels) \ {<<>>}}
Domains == {Domain(l) : l \in Seq(Labels) \ {<<>>}}

Entries == IPs \cup Names \cup Domains \cup {Wildcard}
Hosts   == IPs \cup Names

-----------------------------------------------------------------------------
(* A prefix holds every address of another exactly if the families are the  *)
(* same, it is no longer, and it holds the other's base (cidrContains of    *)
(* proxy.go:169).                                                           *)
LEMMA CidrContainsIsInclusion ==
  ASSUME NEW v \in Nat, NEW w \in Nat,
         NEW outer \in Cidrs(v), NEW inner \in Cidrs(w)
  PROVE  cidrContains(outer, inner) <=> AddressesOf(inner) \subseteq AddressesOf(outer)
<1>1. /\ outer.kind = "cidr" /\ outer.ones \in 0..v
      /\ outer.bits \in [1..v -> {0, 1}] /\ DOMAIN outer.bits = 1..v
      /\ inner.kind = "cidr" /\ inner.ones \in 0..w
      /\ inner.bits \in [1..w -> {0, 1}] /\ DOMAIN inner.bits = 1..w
  BY DEF Cidrs, Cidr, Addresses
<1>2. /\ AddressesOf(outer) = {a \in [1..v -> {0, 1}] : IPNetContains(outer, a)}
      /\ AddressesOf(inner) = {a \in [1..w -> {0, 1}] : IPNetContains(inner, a)}
  BY <1>1 DEF AddressesOf
<1>3. ASSUME cidrContains(outer, inner), NEW a \in AddressesOf(inner)
      PROVE  a \in AddressesOf(outer)
  <2>1. 1..v = 1..w
    BY <1>1, <1>3 DEF cidrContains, IPNetContains
  <2>2. \A i \in 1..outer.ones : a[i] = inner.bits[i] /\ inner.bits[i] = outer.bits[i]
    BY <1>1, <1>2, <1>3 DEF cidrContains, IPNetContains
  <2>. QED
    BY <1>1, <1>2, <1>3, <2>1, <2>2 DEF IPNetContains
<1>4. ASSUME AddressesOf(inner) \subseteq AddressesOf(outer)
      PROVE  cidrContains(outer, inner)
  <2>1. inner.bits \in AddressesOf(inner)
    BY <1>1, <1>2 DEF IPNetContains
  <2>2. IPNetContains(outer, inner.bits)
    BY <1>2, <1>4, <2>1
  <2>3. ASSUME inner.ones < outer.ones  PROVE FALSE
    <3>. DEFINE j == inner.ones + 1
                other == [inner.bits EXCEPT ![j] = 1 - @]
    <3>1. 1..v = 1..w /\ j \in 1..w /\ j \in 1..outer.ones
      BY <1>1, <2>2, <2>3 DEF IPNetContains
    <3>2. /\ other \in [1..w -> {0, 1}]
          /\ other[j] = 1 - inner.bits[j]
          /\ \A i \in 1..inner.ones : other[i] = inner.bits[i]
      BY <1>1, <3>1
    <3>3. other \in AddressesOf(inner)
      BY <1>1, <1>2, <3>2 DEF IPNetContains
    <3>4. IPNetContains(outer, other)
      BY <1>2, <1>4, <3>3
    <3>5. other[j] = outer.bits[j] /\ inner.bits[j] = outer.bits[j]
      BY <2>2, <3>1, <3>4 DEF IPNetContains
    <3>6. inner.bits[j] \in {0, 1}
      BY <1>1, <3>1
    <3>. QED
      BY <3>2, <3>5, <3>6
  <2>. QED
    BY <1>1, <2>2, <2>3 DEF cidrContains
<1>. QED
  BY <1>3, <1>4

(* A single address is held by a prefix exactly if the bits under the mask  *)
(* agree.                                                                   *)
LEMMA AddressIsHeld ==
  ASSUME NEW v \in Nat, NEW w \in Nat, NEW b \in Addresses(w), NEW s
  PROVE  \A e \in Cidrs(v) :
           IPNetContains(e, b) <=> AddressesOf(Address(b, s)) \subseteq AddressesOf(e)
<1>1. b \in [1..w -> {0, 1}] /\ DOMAIN b = 1..w
  BY DEF Addresses
<1>2. AddressesOf(Address(b, s)) = {b}
  BY <1>1 DEF AddressesOf, Address
<1>3. SUFFICES ASSUME NEW e \in Cidrs(v)
               PROVE  IPNetContains(e, b) <=> AddressesOf(Address(b, s)) \subseteq AddressesOf(e)
  OBVIOUS
<1>4. /\ e.kind = "cidr" /\ DOMAIN e.bits = 1..v
      /\ AddressesOf(e) = {a \in [1..v -> {0, 1}] : IPNetContains(e, a)}
  BY DEF Cidrs, Cidr, Addresses, AddressesOf
<1>5. IPNetContains(e, b) => 1..w = 1..v
  BY <1>1, <1>4 DEF IPNetContains
<1>. QED
  BY <1>1, <1>2, <1>4, <1>5

(* Below a domain or equal to it (the comparisons of isHostCoveredByNoProxy *)
(* on the texts): exactly the names that end with its labels.               *)
LEMMA SuffixIsAbove ==
  ASSUME NEW l \in Seq(Labels), l # <<>>, NEW n \in Seq(Labels), n # <<>>
  PROVE  /\ Above(l, n) <=> l = n \/ ProperSuffix(n, l)
         /\ Above(l, Tail(n)) <=> ProperSuffix(n, l)
<1>1. /\ Len(l) \in Nat \ {0} /\ Len(n) \in Nat \ {0}
      /\ Len(Tail(n)) = Len(n) - 1 /\ Tail(n) = SubSeq(n, 2, Len(n))
      /\ SubSeq(n, 1, Len(n)) = n
  BY HeadTailProperties, TailIsSubSeq, SubSeqFull, EmptySeq
<1>2. ASSUME NEW i \in 1..Len(n)
      PROVE  Len(SubSeq(n, i, Len(n))) = Len(n) - i + 1
  BY <1>1, SubSeqProperties
<1>3. ASSUME NEW i \in 1..Len(Tail(n))
      PROVE  SubSeq(Tail(n), i, Len(Tail(n))) = SubSeq(n, i + 1, Len(n))
  <2>1. Tail(n) \in Seq(Labels) /\ 2 \in 1..Len(n) /\ Len(n) \in 1..Len(n)
    BY <1>1, <1>3, HeadTailProperties
  <2>2. i \in 1..(Len(n) - 2 + 1) /\ Len(n) - 1 \in 1..(Len(n) - 2 + 1)
    BY <1>1, <1>3
  <2>3. SubSeq(SubSeq(n, 2, Len(n)), i, Len(n) - 1) = SubSeq(n, 2 + i - 1, 2 + (Len(n) - 1) - 1)
    BY <2>1, <2>2, SubSeqOfSubSeq
  <2>4. 2 + i - 1 = i + 1 /\ 2 + (Len(n) - 1) - 1 = Len(n)
    BY <1>1, <1>3
  <2>. QED
    BY <1>1, <2>3, <2>4
<1>4. Above(l, Tail(n)) <=> \E i \in 2..Len(n) : l = SubSeq(n, i, Len(n))
  <2>1. Above(l, Tail(n)) <=> \E i \in 1..Len(Tail(n)) : l = SubSeq(n, i + 1, Len(n))
    BY <1>3 DEF Above
  <2>2. ASSUME NEW i \in 2..Len(n)
        PROVE  i - 1 \in 1..Len(Tail(n)) /\ (i - 1) + 1 = i
    BY <1>1, <2>2
  <2>3. ASSUME NEW i \in 1..Len(Tail(n))
        PROVE  i + 1 \in 2..Len(n)
    BY <1>1, <2>3
  <2>. QED
    BY <2>1, <2>2, <2>3
<1>5. (\E i \in 2..Len(n) : l = SubSeq(n, i, Len(n))) <=> ProperSuffix(n, l)
  <2>1. ASSUME NEW i \in 2..Len(n), l = SubSeq(n, i, Len(n))
        PROVE  ProperSuffix(n, l)
    BY <1>1, <1>2, <2>1 DEF ProperSuffix
  <2>2. ASSUME ProperSuffix(n, l)
        PROVE  \E i \in 2..Len(n) : l = SubSeq(n, i, Len(n))
    <3>1. Len(n) - Len(l) + 1 \in 2..Len(n)
      BY <1>1, <2>2 DEF ProperSuffix
    <3>. QED
      BY <2>2, <3>1 DEF ProperSuffix
  <2>. QED
    BY <2>1, <2>2
<1>6. Above(l, n) <=> l = n \/ \E i \in 2..Len(n) : l = SubSeq(n, i, Len(n))
  <2>1. 1..Len(n) = {1} \cup (2..Len(n))
    BY <1>1
  <2>. QED
    BY <1>1, <2>1 DEF Above
<1>. QED
  BY <1>4, <1>5, <1>6

-----------------------------------------------------------------------------
(* One turn of the loop says of an entry exactly what it means, but for the *)
(* entries that are overlooked.                                             *)
LEMMA EntryIsRight ==
  ASSUME NEW e \in Entries, NEW h \in Hosts
  PROVE  EntryCovers(e, h) <=> EntryHolds(e, h) /\ ~Overlooked(e, h)
<1>0. CASE e = Wildcard
  BY <1>0 DEF Wildcard, Hosts, IPs, Names, Address, Cidrs, Cidr, Name, EntryCovers, Overlooked
<1>1. CASE h \in Names
  <2>1. PICK n \in Seq(Labels) \ {<<>>} : h = Name(n)
    BY <1>1 DEF Names
  <2>2. CASE e \in Names \cup Domains
    <3>1. PICK l \in Seq(Labels) \ {<<>>} : e = Name(l) \/ e = Domain(l)
      BY <2>2 DEF Names, Domains
    <3>0. ~Overlooked(e, h)
      BY <3>1 DEF Overlooked, Name, Domain
    <3>2. CASE e = Name(l)
      <4>1. EntryCovers(e, h) <=> l = n \/ ProperSuffix(n, l)
        BY <2>1, <3>2 DEF EntryCovers, Name
      <4>2. EntryHolds(e, h) <=> Above(l, n)
        BY <2>1, <3>2 DEF EntryHolds, Name
      <4>. QED
        BY <3>0, <4>1, <4>2, SuffixIsAbove
    <3>3. CASE e = Domain(l)
      <4>1. EntryCovers(e, h) <=> ProperSuffix(n, l)
        BY <2>1, <3>3 DEF EntryCovers, Name, Domain
      <4>2. EntryHolds(e, h) <=> Above(l, Tail(n))
        BY <2>1, <3>3 DEF EntryHolds, Name, Domain
      <4>. QED
        BY <3>0, <4>1, <4>2, SuffixIsAbove
    <3>. QED
      BY <3>1, <3>2, <3>3
  <2>3. CASE e \in IPs
    BY <2>1, <2>3 DEF IPs, Address, Cidrs, Cidr, Name, EntryCovers, EntryHolds
  <2>. QED
    BY <1>0, <2>2, <2>3 DEF Entries
<1>2. CASE h \in IPs
  <2>1. PICK w \in Nat :
          h \in {Address(b, s) : b \in Addresses(w), s \in Spellings} \cup Cidrs(w)
    BY <1>2 DEF IPs
  <2>2. CASE e \in Names \cup Domains
    BY <2>1, <2>2 DEF Names, Domains, Name, Domain, Address, Cidrs, Cidr, EntryCovers, EntryHolds
  <2>3. ASSUME NEW v \in Nat, e \in Cidrs(v)
        PROVE  EntryCovers(e, h) <=> EntryHolds(e, h) /\ ~Overlooked(e, h)
    <3>1. e.kind = "cidr" /\ ~Overlooked(e, h)
      BY <2>3 DEF Cidrs, Cidr, Overlooked
    <3>2. CASE h \in Cidrs(w)
      <4>1. h.kind = "cidr"
        BY <3>2 DEF Cidrs, Cidr
      <4>2. EntryHolds(e, h) <=> AddressesOf(h) \subseteq AddressesOf(e)
        BY <3>1, <4>1 DEF EntryHolds
      <4>3. cidrContains(e, h) <=> AddressesOf(h) \subseteq AddressesOf(e)
        BY <2>3, <3>2, CidrContainsIsInclusion
      <4>. QED
        BY <2>3, <3>1, <3>2, <4>1, <4>2, <4>3 DEF EntryCovers
    <3>3. ASSUME NEW b \in Addresses(w), NEW s \in Spellings, h = Address(b, s)
          PROVE  EntryCovers(e, h) <=> EntryHolds(e, h)
      <4>1. h.kind = "address" /\ h.bits = b
        BY <3>3 DEF Address
      <4>2. IPNetContains(e, b) <=> AddressesOf(Address(b, s)) \subseteq AddressesOf(e)
        BY <2>3, AddressIsHeld
      <4>. QED
        BY <3>1, <3>3, <4>1, <4>2 DEF EntryCovers, EntryHolds
    <3>. QED
      BY <2>1, <3>1, <3>2, <3>3
  <2>4. ASSUME NEW v \in Nat, NEW d \in Addresses(v), NEW q \in Spellings, e = Address(d, q)
        PROVE  EntryCovers(e, h) <=> EntryHolds(e, h) /\ ~Overlooked(e, h)
    <3>1. e.kind = "address" /\ (Overlooked(e, h) <=> e # h)
      BY <2>4 DEF Address, Overlooked
    <3>2. EntryCovers(e, h) <=> e = h
      BY <3>1 DEF EntryCovers
    <3>3. e = h => EntryHolds(e, h)
      BY <3>1 DEF EntryHolds
    <3>. QED
      BY <3>1, <3>2, <3>3
  <2>. QED
    BY <1>0, <2>2, <2>3, <2>4 DEF Entries, IPs
<1>. QED
  BY <1>1, <1>2 DEF Hosts

(* A host reported to be in noProxy bypasses the proxy, whatever the list,  *)
(* the width of the addresses and the depth of the names.                   *)
THEOREM CoveredHostsBypass ==
  ASSUME NEW entries \in SUBSET Entries, NEW h \in Hosts,
         isHostCoveredByNoProxy(h, entries)
  PROVE  Bypasses(h, entries)
BY EntryIsRight DEF isHostCoveredByNoProxy, Bypasses

(* A host reported to be missing from noProxy is held by no entry but those *)
(* the comparison of texts overlooks (proxy.go:135): the wildcard, and an   *)
(* address in another text.                                                 *)
THEOREM OnlyOverlookedAreMissed ==
  ASSUME NEW entries \in SUBSET Entries, NEW h \in Hosts,
         ~isHostCoveredByNoProxy(h, entries), NEW e \in entries, EntryHolds(e, h)
  PROVE  Overlooked(e, h)
BY EntryIsRight DEF isHostCoveredByNoProxy

=============================================================================
