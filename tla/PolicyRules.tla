----------------------------- MODULE PolicyRules -----------------------------
(***************************************************************************)
(* The pure part of internal/policy: merging lists, matching names, and    *)
(* allowed-ips.  A name is a sequence of tokens, of which "." and "*" are  *)
(* two; a network is a width and the bits of its prefix, an address one    *)
(* whose prefix is as long as the width.  Width4 and Width6 stand for 32   *)
(* and 128, Mapped for the 96 bits of ::ffff:0:0.                          *)
(***************************************************************************)
EXTENDS Integers, SequencesExt

CONSTANTS
  Width4, Width6, Mapped,
  LowerOf        \* strings.ToLower, token by token

ASSUME WidthAssumption ==
  /\ Width4 \in Nat \ {0} /\ Width6 \in Nat /\ Mapped \in Seq({0, 1})
  /\ Len(Mapped) + Width4 = Width6 /\ Len(Mapped) >= 2

(* No letter is lowered to a dot or a star, and these two stay. *)
ASSUME LowerAssumption == \A t \in DOMAIN LowerOf : {t, LowerOf[t]} \cap {".", "*"} = {}

IsList(s) == s \in Seq(ToSet(s))

(* Mutant: what the decoder left in the struct, which is the base's list only
   if the document has no such key. *)
KeepDecoded(base, over) == IF over = <<>> THEN base ELSE over

(* unionDedup: base first, without duplicates and empty strings. *)
UnionDedup(base, over) ==
  LET s == base \o over
      out[n \in 0..Len(s)] ==
        IF n = 0 THEN <<>>
        ELSE IF s[n] = <<>> \/ s[n] \in ToSet(out[n - 1]) THEN out[n - 1]
        ELSE Append(out[n - 1], s[n])
  IN  out[Len(s)]

-----------------------------------------------------------------------------
Lower(name) == [i \in DOMAIN name |-> IF name[i] \in DOMAIN LowerOf THEN LowerOf[name[i]] ELSE name[i]]

HasPrefix(s, p) == IsPrefix(p, s)
HasSuffix(s, p) == IsSuffix(p, s)
CutPrefix(s, p) == SubSeq(s, Len(p) + 1, Len(s))
TrimSuffix(s, p) == IF HasSuffix(s, p) THEN SubSeq(s, 1, Len(s) - Len(p)) ELSE s

(* Mutant: the dot before the suffix is forgotten. *)
MatchTail(pattern, domain) ==
  IF HasPrefix(pattern, <<"*", ".">>)
  THEN HasSuffix(domain, CutPrefix(pattern, <<"*", ".">>))
  ELSE pattern = domain

MatchDomain(pattern, domain) ==
  IF HasPrefix(pattern, <<"*", ".">>)
  THEN HasSuffix(domain, <<".">> \o CutPrefix(pattern, <<"*", ".">>))
  ELSE pattern = domain

AllowsDomain(endpoints, domain) ==
  LET d == Lower(TrimSuffix(domain, <<".">>))
  IN  \E pattern \in ToSet(endpoints) : MatchDomain(Lower(pattern), d)

(* validateEndpoint: no scheme, port or path, no "*" but a leading "*.". *)
ValidEndpoint(e) ==
  /\ e \notin {<<>>, <<"*">>, <<"*", ".">>}
  /\ ToSet(e) \cap {"/", ":"} = {}
  /\ "*" \notin ToSet(IF HasPrefix(e, <<"*", ".">>) THEN CutPrefix(e, <<"*", ".">>) ELSE e)

-----------------------------------------------------------------------------
(* net.IP.To4, for an address or the base of a network: an IPv4-mapped one
   is the IPv4 one. *)
To4(n) ==
  IF n.width = Width6 /\ IsPrefix(Mapped, n.bits)
  THEN [width |-> Width4, bits |-> CutPrefix(n.bits, Mapped)]
  ELSE n

(* Mutant: the mapped form is kept as it is written. *)
KeepMapped(n) == n

(* canonicalizeIPNet.  (A prefix shorter than the mapped one has lost bits of
   ::ffff when ParseCIDR masked it, so To4 refuses it.) *)
Canonicalize(n) == To4(n)

(* net.ParseCIDR and net.ParseIP accept it. *)
IsNet(n) == n.width \in {Width4, Width6} /\ n.bits \in Seq({0, 1}) /\ Len(n.bits) <= n.width

(* parseAllowedIPs: every entry is a network or host, and none is a /0. *)
ValidNets(entries) == \A n \in ToSet(entries) : IsNet(n) /\ Canonicalize(n).bits # <<>>
ParseNets(entries) == [i \in DOMAIN entries |-> Canonicalize(entries[i])]

Covers(n, a) == n.width = a.width /\ IsPrefix(n.bits, a.bits)

(* Mutant: the address is compared as it was recorded. *)
NetContainsRaw(n, a) == Covers(To4(n), a)

(* net.IPNet.Contains takes both to their IPv4 form first. *)
NetContains(n, a) == Covers(To4(n), To4(a))

AllowsIP(nets, a) == \E n \in ToSet(nets) : NetContains(n, a)

(* Setup's split of AllowedIPNets into allow4cidr and allow6cidr. *)
StaticSets(nets) ==
  [v4 |-> {n \in ToSet(nets) : To4(n).width = Width4},
   v6 |-> {n \in ToSet(nets) : To4(n).width = Width6}]

(* The rules "ip daddr @allow4cidr", "ip6 daddr @allow6cidr": the family is
   the packet's, and a mapped destination leaves as IPv4. *)
FilterAccepts(nets, a) ==
  LET wire == To4(a)
  IN  \E n \in (IF wire.width = Width4 THEN StaticSets(nets).v4 ELSE StaticSets(nets).v6) :
        Covers(n, wire)
=============================================================================
