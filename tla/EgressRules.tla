----------------------------- MODULE EgressRules -----------------------------
(***************************************************************************)
(* The output chain that nftFirewall.Setup installs for a block-mode run,  *)
(* as an ordered list of rules with first-match semantics, and the static  *)
(* half of the policy it is populated from.  A destination is one address; *)
(* what the rules can tell apart about it is which of the sets below it    *)
(* belongs to.                                                             *)
(***************************************************************************)
EXTENDS Integers, Sequences

CONSTANTS
  IPs,          \* every destination address of the instance
  LoIPs,        \* destinations the kernel routes through the "lo" device
  LoopbackIPs,  \* 127.0.0.0/8 and ::1, what net.IP.IsLoopback recognises
  StaticIPs,    \* covered by the operator's allowed-ips CIDRs
  Proxy,        \* the run's DNS proxy address, 127.53.x.y
  DockerDNS,    \* 127.0.0.11
  Canary        \* the self-probe destination, 192.0.2.1

(* All loopback addresses go through lo; the converse fails for the host's
   own addresses.  The proxy listens on loopback. *)
ASSUME AddressAssumption ==
  /\ LoopbackIPs \subseteq LoIPs /\ LoIPs \subseteq IPs /\ StaticIPs \subseteq IPs
  /\ Proxy \in LoopbackIPs /\ DockerDNS \in LoopbackIPs
  /\ Canary \in IPs \ LoIPs
  /\ Proxy # DockerDNS

(* A packet of the host: whether its socket is in the build cgroup, whether
   conntrack knows its flow, its destination, and whether port 53 is its
   destination port or its port before a nat rule rewrote it. *)
Packet == [scoped : BOOLEAN, est : BOOLEAN, dst : IPs, dport53 : BOOLEAN, orig53 : BOOLEAN]

(* What a rule does with a packet: its verdict if it matches. *)
Rule(match, verdict) == IF match THEN verdict ELSE "continue"

(* The matches of dnsRules: DNS to the proxy; DNS to any other address on
   loopback; DNS whose port a nat rule rewrote; Docker's embedded resolver. *)
ProxyDns(p)  == p.dst = Proxy /\ p.dport53
LoDns(p)     == p.dst \in LoIPs /\ p.dport53
NatDns(p)    == p.dst \in LoIPs /\ p.orig53
DockerDns(p) == p.dst \in LoIPs /\ p.dst = DockerDNS

(* Mutant: loopback is opened before Docker's resolver is closed. *)
RulesLoFirst(live, p) ==
  << Rule(p.est,             "accept"),
     Rule(ProxyDns(p),       "accept"),
     Rule(LoDns(p),          "drop"),
     Rule(NatDns(p),         "drop"),
     Rule(p.dst \in LoIPs,   "accept"),
     Rule(DockerDns(p),      "drop"),
     Rule(p.dst \in live,    "accept"),
     Rule(p.dst \in StaticIPs, "accept"),
     Rule(p.dst = Canary,    "drop"),
     Rule(TRUE,              "drop") >>

(* Setup's chain, in the order of the script.  live is the set of addresses
   with an unexpired element in allow4 / allow6; the canary's rule counts. *)
Rules(live, p) ==
  << Rule(p.est,             "accept"),
     Rule(ProxyDns(p),       "accept"),
     Rule(LoDns(p),          "drop"),
     Rule(NatDns(p),         "drop"),
     Rule(DockerDns(p),      "drop"),
     Rule(p.dst \in LoIPs,   "accept"),
     Rule(p.dst \in live,    "accept"),
     Rule(p.dst \in StaticIPs, "accept"),
     Rule(p.dst = Canary,    "drop"),
     Rule(TRUE,              "drop") >>

(* The first rule that matches decides. *)
Verdict(rules) ==
  rules[CHOOSE i \in DOMAIN rules :
          rules[i] # "continue" /\ \A j \in 1..(i - 1) : rules[j] = "continue"]

(* Every rule carries the build cgroup's match; the chain policy is accept. *)
Accepts(live, p) == p.scoped => Verdict(Rules(live, p)) = "accept"

(* A TCP SYN of the build towards ip, not to port 53. *)
Syn(ip) == [scoped |-> TRUE, est |-> FALSE, dst |-> ip, dport53 |-> FALSE, orig53 |-> FALSE]

-----------------------------------------------------------------------------
(* Reference: what the comments on dnsRules and Setup promise a packet that
   opens a new flow, stated without the order of the rules. *)
IsDns(p) == p.dport53 \/ p.orig53

MayOpen(live, p) ==
  IF p.dst \in LoIPs
  THEN \/ p.dst = Proxy /\ p.dport53
       \/ ~ IsDns(p) /\ p.dst # DockerDNS
  ELSE p.dst \in live \cup StaticIPs

(* Policy.allowsIP: the addresses a connection without a domain may reach
   without being flagged. *)
AllowsRawIP(ip) == ip \in LoopbackIPs \cup StaticIPs
=============================================================================
