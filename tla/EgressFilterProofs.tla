-------------------------- MODULE EgressFilterProofs --------------------------
(***************************************************************************)
(* What block mode guarantees, for any number of queries in flight, any    *)
(* addresses, names and TTLs, and any bound on the clock.                  *)
(***************************************************************************)
EXTENDS EgressFilter, TLAPS

Action == {"accept", "drop", "continue"}

(* A rule list has one first match. *)
LEMMA FirstMatch ==
  ASSUME NEW rules \in Seq(Action), NEW i \in 1..Len(rules),
         rules[i] # "continue", \A j \in 1..(i - 1) : rules[j] = "continue"
  PROVE  Verdict(rules) = rules[i]
<1> DEFINE First(k) == rules[k] # "continue" /\ \A j \in 1..(k - 1) : rules[j] = "continue"
<1>1. ASSUME NEW k \in 1..Len(rules), First(k) PROVE k = i
  <2>1. ~ (k < i)  BY <1>1
  <2>2. ~ (i < k)  BY <1>1
  <2> QED BY <2>1, <2>2
<1>2. First(i)  OBVIOUS
<1>3. DOMAIN rules = 1..Len(rules)
  OBVIOUS
<1>4. (CHOOSE k \in DOMAIN rules : First(k)) = i
  BY <1>1, <1>2, <1>3
<1> QED BY <1>4 DEF Verdict

LEMMA TenActions ==
  ASSUME NEW a \in Action, NEW b \in Action, NEW c \in Action, NEW d \in Action,
         NEW e \in Action, NEW f \in Action, NEW g \in Action, NEW h \in Action,
         NEW i \in Action, NEW j \in Action
  PROVE  LET r == <<a, b, c, d, e, f, g, h, i, j>> IN r \in Seq(Action) /\ Len(r) = 10
OBVIOUS

(* The rules as a list of actions, for a packet of the build that opens a flow. *)
LEMMA RuleList ==
  ASSUME NEW live, NEW p \in Packet, p.scoped, ~ p.est
  PROVE  LET r == Rules(live, p) IN
         /\ r \in Seq(Action) /\ Len(r) = 10
         /\ r[1] = "continue" /\ r[2] = Rule(ProxyDns(p), "accept")
         /\ r[3] = Rule(LoDns(p), "drop") /\ r[4] = Rule(NatDns(p), "drop")
         /\ r[5] = Rule(DockerDns(p), "drop") /\ r[6] = Rule(p.dst \in LoIPs, "accept")
         /\ r[7] = Rule(p.dst \in live, "accept") /\ r[8] = Rule(p.dst \in StaticIPs, "accept")
         /\ r[9] = Rule(p.dst = Canary, "drop") /\ r[10] = "drop"
         /\ Accepts(live, p) <=> Verdict(r) = "accept"
<1>1. Rule(p.est, "accept") = "continue" /\ Rule(TRUE, "drop") = "drop"
  BY DEF Rule
<1>2. Rules(live, p) \in Seq(Action) /\ Len(Rules(live, p)) = 10
  <2>1. /\ Rule(p.est, "accept") \in Action /\ Rule(ProxyDns(p), "accept") \in Action
        /\ Rule(LoDns(p), "drop") \in Action /\ Rule(NatDns(p), "drop") \in Action
        /\ Rule(DockerDns(p), "drop") \in Action /\ Rule(p.dst \in LoIPs, "accept") \in Action
        /\ Rule(p.dst \in live, "accept") \in Action
        /\ Rule(p.dst \in StaticIPs, "accept") \in Action
        /\ Rule(p.dst = Canary, "drop") \in Action /\ Rule(TRUE, "drop") \in Action
    BY DEF Rule, Action
  <2> HIDE DEF Rule
  <2> QED BY <2>1, TenActions DEF Rules
<1> QED BY <1>1, <1>2 DEF Rules, Accepts

(* Off the host a packet is accepted exactly when an allow set holds its
   destination: none of the loopback rules matches it. *)
LEMMA OffHost ==
  ASSUME NEW live, NEW p \in Packet, p.scoped, ~ p.est, p.dst \notin LoIPs
  PROVE  Accepts(live, p) <=> p.dst \in live \cup StaticIPs
<1> DEFINE r == Rules(live, p)
<1>1. /\ r \in Seq(Action) /\ Len(r) = 10
      /\ r[7] = Rule(p.dst \in live, "accept") /\ r[8] = Rule(p.dst \in StaticIPs, "accept")
      /\ r[9] = Rule(p.dst = Canary, "drop") /\ r[10] = "drop"
      /\ Accepts(live, p) <=> Verdict(r) = "accept"
  BY RuleList
<1>2. \A j \in 1..6 : r[j] = "continue"
  BY RuleList, AddressAssumption DEF Rule, ProxyDns, LoDns, NatDns, DockerDns
<1> HIDE DEF r
<1>3. CASE p.dst \in live
  <2>1. Verdict(r) = r[7]  BY <1>1, <1>2, <1>3, FirstMatch DEF Rule
  <2> QED BY <1>1, <1>3, <2>1 DEF Rule
<1>4. CASE p.dst \notin live /\ p.dst \in StaticIPs
  <2>1. Verdict(r) = r[8]  BY <1>1, <1>2, <1>4, FirstMatch DEF Rule
  <2> QED BY <1>1, <1>4, <2>1 DEF Rule
<1>5. CASE p.dst \notin live /\ p.dst \notin StaticIPs /\ p.dst = Canary
  <2>1. r[9] = "drop" /\ \A j \in 1..(9 - 1) : r[j] = "continue"
    BY <1>1, <1>2, <1>5 DEF Rule
  <2>2. r \in Seq(Action) /\ 9 \in 1..Len(r) /\ r[9] # "continue"
    BY <1>1, <2>1
  <2>3. Verdict(r) = r[9]  BY ONLY <2>1, <2>2, FirstMatch
  <2> QED BY <1>1, <1>5, <2>1, <2>3
<1>6. CASE p.dst \notin live /\ p.dst \notin StaticIPs /\ p.dst # Canary
  <2>1. \A j \in 1..(10 - 1) : r[j] = "continue"
    BY <1>1, <1>2, <1>6 DEF Rule
  <2>2. Verdict(r) = r[10]  BY <1>1, <2>1, FirstMatch
  <2> QED BY <1>1, <1>6, <2>2
<1> QED BY <1>3, <1>4, <1>5, <1>6

(* On the host the proxy's port is open, other DNS and Docker's resolver are
   closed, and the rest is open, whatever the allow sets hold. *)
LEMMA OnHost ==
  ASSUME NEW live, NEW p \in Packet, p.scoped, ~ p.est, p.dst \in LoIPs
  PROVE  Accepts(live, p) <=> \/ p.dst = Proxy /\ p.dport53
                              \/ ~ IsDns(p) /\ p.dst # DockerDNS
<1> DEFINE r == Rules(live, p)
<1>1. /\ r \in Seq(Action) /\ Len(r) = 10
      /\ r[1] = "continue" /\ r[2] = Rule(ProxyDns(p), "accept")
      /\ r[3] = Rule(LoDns(p), "drop") /\ r[4] = Rule(NatDns(p), "drop")
      /\ r[5] = Rule(DockerDns(p), "drop") /\ r[6] = Rule(p.dst \in LoIPs, "accept")
      /\ Accepts(live, p) <=> Verdict(r) = "accept"
  BY RuleList
<1> HIDE DEF r
<1> USE DEF Rule, ProxyDns, LoDns, NatDns, DockerDns, IsDns
<1>2. CASE p.dst = Proxy /\ p.dport53
  <2>1. Verdict(r) = r[2]  BY <1>1, <1>2, FirstMatch
  <2> QED BY <1>1, <1>2, <2>1
<1>3. CASE p.dst # Proxy /\ p.dport53
  <2>1. \A j \in 1..(3 - 1) : r[j] = "continue"  BY <1>1, <1>3
  <2>2. Verdict(r) = r[3]  BY <1>1, <1>3, <2>1, FirstMatch
  <2> QED BY <1>1, <1>3, <2>2
<1>4. CASE ~ p.dport53 /\ p.orig53
  <2>1. \A j \in 1..(4 - 1) : r[j] = "continue"  BY <1>1, <1>4
  <2>2. Verdict(r) = r[4]  BY <1>1, <1>4, <2>1, FirstMatch
  <2> QED BY <1>1, <1>4, <2>2
<1>5. CASE ~ p.dport53 /\ ~ p.orig53 /\ p.dst = DockerDNS
  <2>1. \A j \in 1..(5 - 1) : r[j] = "continue"  BY <1>1, <1>5
  <2>2. Verdict(r) = r[5]  BY <1>1, <1>5, <2>1, FirstMatch
  <2> QED BY <1>1, <1>5, <2>2
<1>6. CASE ~ p.dport53 /\ ~ p.orig53 /\ p.dst # DockerDNS
  <2>1. \A j \in 1..(6 - 1) : r[j] = "continue"  BY <1>1, <1>6
  <2>2. r[6] = "accept"  BY <1>1
  <2>3. Verdict(r) = r[6]  BY <1>1, <2>1, <2>2, FirstMatch
  <2> QED BY <1>6, <1>1, <2>2, <2>3
<1> QED BY <1>2, <1>3, <1>4, <1>5, <1>6

(* The chain does what the comments on dnsRules and Setup say, for every
   packet and every content of the allow sets. *)
THEOREM RulesConfineHolds == Spec => []RulesConfine
<1>1. RulesConfine
  <2> SUFFICES ASSUME NEW p \in Packet
               PROVE  /\ ~ p.scoped => Accepts(Live, p)
                      /\ p.scoped /\ ~ p.est => (Accepts(Live, p) <=> MayOpen(Live, p))
    BY DEF RulesConfine
  <2>1. ~ p.scoped => Accepts(Live, p)
    BY DEF Accepts
  <2>2. ASSUME p.scoped, ~ p.est, p.dst \in LoIPs PROVE Accepts(Live, p) <=> MayOpen(Live, p)
    BY <2>2, OnHost DEF MayOpen
  <2>3. ASSUME p.scoped, ~ p.est, p.dst \notin LoIPs PROVE Accepts(Live, p) <=> MayOpen(Live, p)
    BY <2>3, OffHost DEF MayOpen
  <2> QED BY <2>1, <2>2, <2>3
<1> QED BY <1>1, PTL

(* A SYN off the host is such a packet. *)
LEMMA SynOffHost ==
  ASSUME NEW live, NEW ip \in IPs \ LoIPs
  PROVE  Accepts(live, Syn(ip)) <=> ip \in live \cup StaticIPs
<1>1. Syn(ip) \in Packet /\ Syn(ip).scoped /\ ~ Syn(ip).est /\ Syn(ip).dst = ip
  BY DEF Syn, Packet
<1> QED BY <1>1, OffHost
-----------------------------------------------------------------------------
LEMMA ClampRange == ASSUME NEW t \in Nat PROVE Clamp(t) \in MinTTL..MaxTTL
  BY FilterAssumption DEF Clamp

(* Type correctness, in both modes. *)
THEOREM TypeCorrect == Spec => []TypeOK
<1> USE FilterAssumption
<1>0. MinTTL \in MinTTL..MaxTTL
  OBVIOUS
<1>1. Init => TypeOK
  <2> SUFFICES ASSUME Init PROVE TypeOK
    OBVIOUS
  <2>1. now \in 0..MaxTime /\ phase \in Phases /\ fwLock \in Handlers \cup {Main, Nobody}
    BY DEF Init, Phases
  <2>4. upDone \in BOOLEAN /\ pending \subseteq [ip : IPs, admitted : BOOLEAN] /\ vouched \subseteq IPs
    BY Zenon DEF Init
  <2>2. /\ pc \in [Handlers -> Steps] /\ query \in [Handlers -> Domains \cup {NoDomain}]
        /\ todo \in [Handlers -> SUBSET IPs] /\ answer \in [Handlers -> SUBSET IPs]
        /\ ttl \in [Handlers -> MinTTL..MaxTTL] /\ failed \in [Handlers -> BOOLEAN]
        /\ due \in [Handlers -> Nat]
    BY <1>0 DEF Init, Steps
  <2>3. ipDomain \in [IPs -> Domains \cup {NoDomain}] /\ expiry \in [IPs -> Nat]
    BY DEF Init
  <2> QED BY <2>1, <2>2, <2>3, <2>4 DEF TypeOK
<1>2. TypeOK /\ [Next]_vars => TypeOK'
  <2> SUFFICES ASSUME TypeOK, [Next]_vars PROVE TypeOK'
    OBVIOUS
  <2> USE DEF TypeOK, Phases, Steps
  <2>1. CASE SetupBegin  BY <2>1 DEF SetupBegin, handlerVars
  <2>2. CASE SetupDone  BY <2>2 DEF SetupDone, handlerVars
  <2>3. CASE SetupFails  BY <2>3 DEF SetupFails, handlerVars
  <2>4. ASSUME NEW f \in {"up", "rollback"}, Stop(f) PROVE TypeOK'
    BY <2>4 DEF Stop, handlerVars
  <2>5. CASE UdpStopped \/ StopDone  BY <2>5 DEF UdpStopped, StopDone, handlerVars
  <2>6. CASE Teardown  BY <2>6 DEF Teardown, handlerVars
  <2>7. ASSUME NEW h \in Handlers, NEW d \in Domains, NEW one \in BOOLEAN, Receive(h, d, one)
        PROVE  TypeOK'
    BY <2>7 DEF Receive
  <2>8. ASSUME NEW h \in Handlers, HandlerStep(h) PROVE TypeOK'
    <3>1. CASE ExchangeFails(h)  BY <3>1 DEF ExchangeFails
    <3>2. CASE Truncated(h)  BY <3>2 DEF Truncated
    <3>3. ASSUME NEW ips \in SUBSET AnswerIPs, NEW t \in TTLs, Answered(h, ips, t)
          PROVE  TypeOK'
      <4>1. Clamp(t) \in MinTTL..MaxTTL  BY ClampRange
      <4>2. now + MinTTL \in Nat  OBVIOUS
      <4> QED BY <3>3, <4>1, <4>2 DEF Answered
    <3>4. ASSUME NEW ip \in IPs, Record(h, ip) PROVE TypeOK'
      <4>1. query[h] \in Domains \cup {NoDomain} /\ todo[h] \ {ip} \in SUBSET IPs  OBVIOUS
      <4>2. AfterRecord(query[h], todo[h] \ {ip}) \in Steps  BY DEF AfterRecord
      <4> QED BY <3>4, <4>1, <4>2 DEF Record
    <3>5. CASE Lock(h)  BY <3>5 DEF Lock
    <3>6. CASE Insert(h)  BY <3>6 DEF Insert
    <3>7. CASE InsertFails(h)  BY <3>7 DEF InsertFails
    <3>8. CASE Reply(h)  BY <1>0, <3>8 DEF Reply
    <3> QED BY <2>8, <3>1, <3>2, <3>3, <3>4, <3>5, <3>6, <3>7, <3>8 DEF HandlerStep
  <2>9. ASSUME NEW ip \in Dests, Connect(ip) PROVE TypeOK'
    <3>1. Admitted(ip) \in BOOLEAN  BY DEF Admitted
    <3>2. [ip |-> ip, admitted |-> Admitted(ip)] \in [ip : IPs, admitted : BOOLEAN]
      BY <3>1
    <3> QED BY <2>9, <3>2 DEF Connect, handlerVars
  <2>10. ASSUME NEW e \in pending, Drain(e) PROVE TypeOK'
    BY <2>10 DEF Drain, handlerVars
  <2>11. CASE Tick  BY <2>11 DEF Tick, handlerVars
  <2>12. CASE Finished \/ UNCHANGED vars  BY <2>12 DEF Finished, vars, handlerVars
  <2> QED BY <2>1, <2>2, <2>3, <2>4, <2>5, <2>6, <2>7, <2>8, <2>9, <2>10, <2>11, <2>12 DEF Next
<1> QED BY <1>1, <1>2, PTL DEF Spec
-----------------------------------------------------------------------------
(* nftFirewall.mu is held by the goroutine that runs nft, or by Setup; a server
   that was shut down has no goroutine left. *)
LockInv ==
  /\ \A h \in Handlers : pc[h] = "insert" <=> fwLock = h
  /\ phase = "installing" <=> fwLock = Main
  /\ \A h \in Handlers :
       \/ phase \in {"teardown", "down"}
       \/ phase = "stoppingTcp" /\ h \notin TcpHandlers
       => pc[h] = "idle"

LEMMA LockStep ==
  ASSUME TypeOK, LockInv, [Next]_vars PROVE LockInv'
<1> USE FilterAssumption DEF TypeOK, LockInv, Phases, Steps
<1>1. CASE SetupBegin  BY <1>1 DEF SetupBegin, handlerVars
<1>2. CASE SetupDone  BY <1>2 DEF SetupDone, handlerVars
<1>3. CASE SetupFails  BY <1>3 DEF SetupFails, handlerVars
<1>4. ASSUME NEW f \in {"up", "rollback"}, Stop(f) PROVE LockInv'
  BY <1>4 DEF Stop, handlerVars
<1>5. CASE UdpStopped \/ StopDone  BY <1>5 DEF UdpStopped, StopDone, Drained, handlerVars
<1>6. CASE Teardown  BY <1>6 DEF Teardown, handlerVars
<1>7. ASSUME NEW h \in Handlers, NEW d \in Domains, NEW one \in BOOLEAN, Receive(h, d, one)
      PROVE  LockInv'
  BY <1>7 DEF Receive, Serves
<1>8. ASSUME NEW h \in Handlers, HandlerStep(h) PROVE LockInv'
  <2>1. CASE ExchangeFails(h)  BY <2>1 DEF ExchangeFails
  <2>2. CASE Truncated(h)  BY <2>2 DEF Truncated
  <2>3. ASSUME NEW ips \in SUBSET AnswerIPs, NEW t \in TTLs, Answered(h, ips, t)
        PROVE  LockInv'
    BY <2>3 DEF Answered
  <2>4. ASSUME NEW ip \in IPs, Record(h, ip) PROVE LockInv'
    <3>1. AfterRecord(query[h], todo[h] \ {ip}) \in {"record", "lock", "reply"}
      BY DEF AfterRecord
    <3> QED BY <2>4, <3>1 DEF Record
  <2>5. CASE Lock(h)  BY <2>5 DEF Lock
  <2>6. CASE Insert(h)  BY <2>6 DEF Insert
  <2>7. CASE InsertFails(h)  BY <2>7 DEF InsertFails
  <2>8. CASE Reply(h)  BY <2>8 DEF Reply
  <2> QED BY <1>8, <2>1, <2>2, <2>3, <2>4, <2>5, <2>6, <2>7, <2>8 DEF HandlerStep
<1>9. CASE (\E ip \in Dests : Connect(ip)) \/ (\E e \in pending : Drain(e)) \/ Tick
           \/ Finished \/ UNCHANGED vars
  <2>1. UNCHANGED <<phase, fwLock, pc>>
    BY <1>9 DEF Connect, Drain, Tick, Finished, vars, handlerVars
  <2> QED BY <2>1
<1> QED BY <1>1, <1>2, <1>3, <1>4, <1>5, <1>6, <1>7, <1>8, <1>9 DEF Next

(* No goroutine reaches the firewall once Teardown may run, and the mutex is
   held exactly while its holder runs nft. *)
THEOREM QuietTeardownHolds == Spec => []QuietTeardown
<1>1. Init => LockInv
  BY FilterAssumption DEF Init, LockInv
<1>2. TypeOK /\ LockInv /\ [Next]_vars => LockInv'
  BY LockStep
<1>3. TypeOK /\ LockInv => QuietTeardown
  BY FilterAssumption DEF TypeOK, LockInv, QuietTeardown
<1> QED BY <1>1, <1>2, <1>3, TypeCorrect, PTL DEF Spec
-----------------------------------------------------------------------------
(* What recordAnswers has done, in either mode: a query that is being served
   has a name, and the addresses of its answer it has passed are labelled. *)
LabelInv ==
  \A h \in Handlers :
    /\ pc[h] # "idle" => query[h] \in Domains
    /\ pc[h] \in {"idle", "udp", "tcp"} => answer[h] = {}
    /\ pc[h] # "record" => todo[h] = {}
    /\ \A ip \in answer[h] \ todo[h] : ipDomain[ip] # NoDomain

LEMMA LabelHandlerStep ==
  ASSUME TypeOK, LabelInv, NEW h \in Handlers, HandlerStep(h) PROVE LabelInv'
<1> USE FilterAssumption DEF TypeOK, LabelInv
<1>1. CASE ExchangeFails(h)  BY <1>1 DEF ExchangeFails
<1>2. CASE Truncated(h)  BY <1>2 DEF Truncated
<1>3. ASSUME NEW ips \in SUBSET AnswerIPs, NEW t \in TTLs, Answered(h, ips, t)
      PROVE  LabelInv'
  BY <1>3 DEF Answered
<1>4. ASSUME NEW ip \in IPs, Record(h, ip) PROVE LabelInv'
  <2>1. query[h] \in Domains /\ query[h] # NoDomain  BY <1>4 DEF Record
  <2>2. IF todo[h] \ {ip} # {} THEN pc'[h] = "record" ELSE pc'[h] \in {"lock", "reply"}
    BY <1>4 DEF Record, AfterRecord
  <2> QED BY <1>4, <2>1, <2>2 DEF Record
<1>5. CASE Lock(h)  BY <1>5 DEF Lock
<1>6. CASE Insert(h)  BY <1>6 DEF Insert
<1>7. CASE InsertFails(h)  BY <1>7 DEF InsertFails
<1>8. CASE Reply(h)  BY <1>8 DEF Reply
<1> QED BY <1>1, <1>2, <1>3, <1>4, <1>5, <1>6, <1>7, <1>8 DEF HandlerStep

(* In both modes an address reaches the build only after it was labelled. *)
THEOREM AnswerLabelledHolds == Spec => []AnswerLabelled
<1>1. Init => LabelInv
  BY FilterAssumption DEF Init, LabelInv
<1>2. TypeOK /\ LabelInv /\ [Next]_vars => LabelInv'
  <2> SUFFICES ASSUME TypeOK, LabelInv, [Next]_vars PROVE LabelInv'
    OBVIOUS
  <2>1. ASSUME NEW h \in Handlers, HandlerStep(h) PROVE LabelInv'
    BY <2>1, LabelHandlerStep
  <2>2. ASSUME NEW h \in Handlers, NEW d \in Domains, NEW one \in BOOLEAN, Receive(h, d, one)
        PROVE  LabelInv'
    BY <2>2, FilterAssumption DEF Receive, LabelInv, TypeOK
  <2>3. CASE UNCHANGED <<handlerVars, ipDomain>>
    BY <2>3 DEF LabelInv, handlerVars
  <2>4. CASE SetupBegin \/ SetupDone \/ SetupFails \/ Stop("up") \/ Stop("rollback")
             \/ UdpStopped \/ StopDone \/ Teardown \/ (\E ip \in Dests : Connect(ip))
             \/ (\E e \in pending : Drain(e)) \/ Tick \/ Finished \/ UNCHANGED vars
    <3>1. UNCHANGED <<handlerVars, ipDomain>>
      BY <2>4 DEF SetupBegin, SetupDone, SetupFails, Stop, UdpStopped, StopDone, Teardown, Connect,
                Drain, Tick, Finished, vars
    <3> QED BY <2>3, <3>1
  <2> QED BY <2>1, <2>2, <2>4 DEF Next
<1>3. TypeOK /\ LabelInv => AnswerLabelled
  BY FilterAssumption DEF TypeOK, LabelInv, AnswerLabelled
<1> QED BY <1>1, <1>2, <1>3, TypeCorrect, PTL DEF Spec
-----------------------------------------------------------------------------
(* What handle has established about the query of h, by its position: only an
   allowlisted name is forwarded, so every address of the answer is vouched
   for; recorded addresses carry an allowlisted label; and after a successful
   insert the window lasts at least until due. *)
HandlerInv(h) ==
  /\ pc[h] \in {"udp", "tcp", "record", "lock", "insert"} => query[h] \in Allowlisted
  /\ pc[h] \in {"idle", "udp", "tcp"} => answer[h] = {}
  /\ pc[h] # "record" => todo[h] = {}
  /\ answer[h] \subseteq vouched
  /\ \A ip \in answer[h] \ todo[h] : ipDomain[ip] \in Allowlisted
  /\ due[h] <= now + MinTTL
  /\ pc[h] = "reply" /\ ~ failed[h] => \A ip \in answer[h] : expiry[ip] >= due[h]

AddressInv ==
  /\ \A ip \in IPs : ipDomain[ip] \in Allowlisted \cup {NoDomain}
  /\ \A ip \in IPs : expiry[ip] # 0 =>
       ip \in vouched /\ expiry[ip] <= now + MaxTTL /\ ipDomain[ip] \in Allowlisted

(* The filter is in place while the build runs, and what it let through off
   the host is allowed-ips or labelled with an allowlisted name. *)
BuildInv ==
  /\ phase = "up" => upDone
  /\ \A e \in pending : e.admitted /\ e.ip \notin LoIPs =>
       e.ip \in StaticIPs \/ ipDomain[e.ip] \in Allowlisted

BlockInv == (\A h \in Handlers : HandlerInv(h)) /\ AddressInv /\ BuildInv

LEMMA BlockInit == Blocking /\ Init => BlockInv
  BY FilterAssumption DEF Init, BlockInv, HandlerInv, AddressInv, BuildInv

(* One goroutine's step in block mode. *)
LEMMA BlockHandlerStep ==
  ASSUME Blocking, TypeOK, LockInv, BlockInv, NEW h \in Handlers, HandlerStep(h)
  PROVE  BlockInv'
<1> USE FilterAssumption DEF TypeOK, BlockInv, HandlerInv, AddressInv, BuildInv
<1>1. CASE ExchangeFails(h)  BY <1>1 DEF ExchangeFails
<1>2. CASE Truncated(h)  BY <1>2 DEF Truncated
<1>3. ASSUME NEW ips \in SUBSET AnswerIPs, NEW t \in TTLs, Answered(h, ips, t)
      PROVE  BlockInv'
  BY <1>3 DEF Answered
<1>4. ASSUME NEW ip \in IPs, Record(h, ip) PROVE BlockInv'
  <2>1. query[h] \in Allowlisted  BY <1>4 DEF Record
  <2>2. pc'[h] = IF todo[h] \ {ip} # {} THEN "record" ELSE "lock"
    BY <1>4, <2>1 DEF Record, AfterRecord
  <2>3. AddressInv' /\ BuildInv'
    BY <1>4, <2>1 DEF Record
  <2>4. ASSUME NEW g \in Handlers PROVE HandlerInv(g)'
    <3>1. CASE g = h  BY <1>4, <2>1, <2>2, <3>1 DEF Record
    <3>2. CASE g # h  BY <1>4, <2>1, <3>2 DEF Record
    <3> QED BY <3>1, <3>2
  <2> QED BY <2>3, <2>4
<1>5. CASE Lock(h)  BY <1>5 DEF Lock
<1>6. CASE Insert(h)
  <2>1. AddressInv' /\ BuildInv'
    BY <1>6 DEF Insert
  <2>2. ASSUME NEW g \in Handlers PROVE HandlerInv(g)'
    <3>1. \A ip \in IPs : expiry'[ip] = expiry[ip] \/ expiry'[ip] >= now + MinTTL
      BY <1>6 DEF Insert
    <3>2. CASE g = h  BY <1>6, <3>2 DEF Insert
    <3>3. CASE g # h  BY <1>6, <3>1, <3>3 DEF Insert
    <3> QED BY <3>2, <3>3
  <2> QED BY <2>1, <2>2
<1>7. CASE InsertFails(h)  BY <1>7 DEF InsertFails
<1>8. CASE Reply(h)  BY <1>8 DEF Reply
<1> QED BY <1>1, <1>2, <1>3, <1>4, <1>5, <1>6, <1>7, <1>8 DEF HandlerStep

LEMMA BlockStep ==
  ASSUME Blocking, TypeOK, LockInv, BlockInv, [Next]_vars PROVE BlockInv'
<1> USE FilterAssumption DEF TypeOK, BlockInv, HandlerInv, AddressInv, BuildInv
<1>1. CASE SetupBegin  BY <1>1 DEF SetupBegin, handlerVars
<1>2. CASE SetupDone  BY <1>2 DEF SetupDone, handlerVars
<1>3. CASE SetupFails  BY <1>3 DEF SetupFails, handlerVars
<1>4. ASSUME NEW f \in {"up", "rollback"}, Stop(f) PROVE BlockInv'
  BY <1>4 DEF Stop, handlerVars
<1>5. CASE UdpStopped \/ StopDone  BY <1>5 DEF UdpStopped, StopDone, handlerVars
<1>6. CASE Teardown
  <2>1. \A h \in Handlers : pc[h] = "idle"  BY <1>6 DEF Teardown, LockInv
  <2> QED BY <1>6, <2>1 DEF Teardown, handlerVars
<1>7. ASSUME NEW h \in Handlers, NEW d \in Domains, NEW one \in BOOLEAN, Receive(h, d, one)
      PROVE  BlockInv'
  BY <1>7 DEF Receive, Forwards
<1>8. ASSUME NEW h \in Handlers, HandlerStep(h) PROVE BlockInv'
  BY <1>8, BlockHandlerStep
<1>9. ASSUME NEW ip \in Dests, Connect(ip) PROVE BlockInv'
  <2>1. upDone  BY <1>9 DEF Connect, BuildAlive
  <2>2. ip \notin LoIPs /\ Admitted(ip) => ip \in StaticIPs \/ ipDomain[ip] \in Allowlisted
    BY <2>1, SynOffHost DEF Admitted, Live
  <2>3. \A e \in pending' : e \in pending \/ (e.ip = ip /\ e.admitted = Admitted(ip))
    BY <1>9 DEF Connect
  <2> HIDE DEF TypeOK
  <2>4. UNCHANGED <<now, phase, upDone, handlerVars, ipDomain, expiry, vouched>>
    BY <1>9 DEF Connect
  <2> QED BY <2>2, <2>3, <2>4 DEF handlerVars
<1>10. ASSUME NEW e \in pending, Drain(e) PROVE BlockInv'
  BY <1>10 DEF Drain, handlerVars
<1>11. CASE Tick  BY <1>11 DEF Tick, handlerVars
<1>12. CASE Finished \/ UNCHANGED vars  BY <1>12 DEF Finished, vars, handlerVars
<1> QED BY <1>1, <1>2, <1>3, <1>4, <1>5, <1>6, <1>7, <1>8, <1>9, <1>10, <1>11, <1>12 DEF Next

(* Everything block mode establishes, at every step of every run. *)
LEMMA BlockCorrect == Spec => [](TypeOK /\ LockInv /\ (Blocking => BlockInv))
<1>1. Init => LockInv /\ (Blocking => BlockInv)
  BY BlockInit, FilterAssumption DEF Init, LockInv
<1>2. TypeOK /\ LockInv /\ (Blocking => BlockInv) /\ [Next]_vars
      => LockInv' /\ (Blocking => BlockInv)'
  BY LockStep, BlockStep
<1> QED BY <1>1, <1>2, TypeCorrect, PTL DEF Spec

(* An element of the allow set was vouched for and expires within MaxTTL. *)
THEOREM WindowsBoundedHolds == Spec => []WindowsBounded
<1>1. (Blocking => BlockInv) => WindowsBounded
  BY DEF BlockInv, AddressInv, WindowsBounded
<1> QED BY <1>1, BlockCorrect, PTL

(* No address is in the allow set without an allowlisted label. *)
THEOREM LiveIsLabelledHolds == Spec => []LiveIsLabelled
<1>1. (Blocking => BlockInv) => LiveIsLabelled
  BY DEF BlockInv, AddressInv, LiveIsLabelled
<1> QED BY <1>1, BlockCorrect, PTL

(* An answer reaches the build after its addresses are open. *)
THEOREM AnswerUsableHolds == Spec => []AnswerUsable
<1>1. (Blocking => BlockInv) => AnswerUsable
  BY DEF BlockInv, HandlerInv, AnswerUsable
<1> QED BY <1>1, BlockCorrect, PTL

(* Off the host, what the report calls blocked was dropped. *)
THEOREM FlaggedWasDroppedHolds == Spec => []FlaggedWasDropped
<1>1. TypeOK /\ (Blocking => BlockInv) => FlaggedWasDropped
  <2> SUFFICES ASSUME TypeOK, Blocking, BlockInv, NEW e \in pending, e.ip \notin LoIPs, e.admitted
               PROVE  ~ Flags(e.ip, ipDomain[e.ip])
    BY DEF FlaggedWasDropped
  <2>1. e.ip \in StaticIPs \/ ipDomain[e.ip] \in Allowlisted
    BY DEF BlockInv, BuildInv
  <2> QED BY <2>1, FilterAssumption DEF BlockInv, AddressInv, TypeOK, Flags, AllowsRawIP
<1> QED BY <1>1, BlockCorrect, PTL
-----------------------------------------------------------------------------
(* Every step of a block-mode run is a step of the contract or a stutter. *)
LEMMA ContractStep ==
  ASSUME Blocking, TypeOK, BlockInv, [Next]_vars
  PROVE  [Contract!Next]_(Contract!vars)
<1> USE FilterAssumption DEF TypeOK, Contract!vars, Contract!Next
<1>1. CASE SetupBegin \/ SetupDone \/ SetupFails \/ UdpStopped \/ StopDone \/ Finished
           \/ UNCHANGED vars
  BY <1>1 DEF SetupBegin, SetupDone, SetupFails, UdpStopped, StopDone, Finished, vars
<1>2. ASSUME NEW f \in {"up", "rollback"}, Stop(f) PROVE UNCHANGED Contract!vars
  BY <1>2 DEF Stop
<1>3. CASE Teardown  BY <1>3 DEF Teardown, Contract!Withdraw
<1>4. ASSUME NEW h \in Handlers, NEW d \in Domains, NEW one \in BOOLEAN, Receive(h, d, one)
      PROVE  UNCHANGED Contract!vars
  BY <1>4 DEF Receive
<1>5. ASSUME NEW h \in Handlers, HandlerStep(h) PROVE [Contract!Next]_(Contract!vars)
  <2>1. CASE ExchangeFails(h) \/ Truncated(h) \/ Lock(h) \/ InsertFails(h) \/ Reply(h)
    BY <2>1 DEF ExchangeFails, Truncated, Lock, InsertFails, Reply
  <2>2. ASSUME NEW ips \in SUBSET AnswerIPs, NEW t \in TTLs, Answered(h, ips, t)
        PROVE  Contract!Vouch
    BY <2>2 DEF Answered, Contract!Vouch
  <2>3. ASSUME NEW ip \in IPs, Record(h, ip) PROVE UNCHANGED Contract!vars
    BY <2>3 DEF Record
  <2>4. ASSUME Insert(h) PROVE \E t \in 0..MaxTTL : Contract!Grant(t)
    <3>1. ttl[h] \in 0..MaxTTL  OBVIOUS
    <3>2. answer[h] \subseteq vouched  BY DEF BlockInv, HandlerInv
    <3>3. Contract!Grant(ttl[h])  BY <2>4, <3>1, <3>2 DEF Insert, Contract!Grant
    <3> QED BY <3>1, <3>3
  <2> QED BY <1>5, <2>1, <2>2, <2>3, <2>4 DEF HandlerStep
<1>6. ASSUME NEW ip \in Dests, Connect(ip)
      PROVE  \E e \in [ip : IPs, admitted : BOOLEAN] : Contract!Attempt(e)
  <2> DEFINE e == [ip |-> ip, admitted |-> Admitted(ip)]
  <2>1. Admitted(ip) \in BOOLEAN  BY DEF Admitted
  <2>2. e \in [ip : IPs, admitted : BOOLEAN]  BY <2>1
  <2>3. upDone  BY <1>6 DEF Connect, BuildAlive, BlockInv, BuildInv
  <2>4. ip \notin LoIPs => (Admitted(ip) <=> Contract!Open(ip))
    BY <2>3, SynOffHost DEF Admitted, Live, Contract!Open
  <2>5. e.ip = ip /\ e.admitted = Admitted(ip)  OBVIOUS
  <2>6. pending' = pending \cup {e} /\ UNCHANGED <<now, vouched, expiry>>
    BY <1>6 DEF Connect
  <2> HIDE DEF e
  <2>7. Contract!Attempt(e)  BY <2>4, <2>5, <2>6 DEF Contract!Attempt
  <2> QED BY <2>2, <2>7
<1>7. ASSUME NEW e \in pending, Drain(e)
      PROVE  \E f \in [ip : IPs, admitted : BOOLEAN] : Contract!Report(f)
  BY <1>7 DEF Drain, Contract!Report
<1>8. CASE Tick  BY <1>8 DEF Tick, Contract!Tick
<1> QED BY <1>1, <1>2, <1>3, <1>4, <1>5, <1>6, <1>7, <1>8 DEF Next

(* The enforcer of a block-mode run implements its contract: what gets off the
   host is exactly what is listed or was vouched for and is still open. *)
THEOREM ContractImplemented == ASSUME Blocking PROVE Spec => ImplementsContract
<1>1. Init => Contract!Init
  BY DEF Init, Contract!Init
<1>2. TypeOK /\ LockInv /\ (Blocking => BlockInv) /\ [Next]_vars => [Contract!Next]_(Contract!vars)
  BY ContractStep
<1> QED BY <1>1, <1>2, BlockCorrect, PTL DEF Spec, ImplementsContract, Contract!Spec
-----------------------------------------------------------------------------
(* The guards: handler h has a step of its own, whatever upstream and nft do. *)
HandlerCan(h) ==
  \/ pc[h] \in {"udp", "tcp", "insert", "reply"}
  \/ pc[h] = "record" /\ todo[h] # {}
  \/ pc[h] = "lock" /\ (Blocking => fwLock = Nobody)

(* Somebody who holds the firewall's lock can always give it back. *)
LockComesBack == phase = "installing" \/ \E g \in Handlers : fwLock = g /\ pc[g] = "insert"

(* Nobody waits for somebody who waits: a query can go on or waits for a lock
   whose holder can go on; Shutdown waits for queries of which one can go on;
   Teardown finds the lock free. *)
NeverStuck ==
  /\ \A h \in Handlers :
       pc[h] # "idle" => HandlerCan(h) \/ (pc[h] = "lock" /\ LockComesBack)
  /\ phase \in {"stopping", "stoppingTcp"} => Drained(Handlers) \/ \E h \in Handlers : HandlerCan(h)
  /\ phase = "teardown" => Drained(Handlers) /\ fwLock = Nobody

(* A handler that records has an address left to record. *)
TodoInv == \A h \in Handlers : pc[h] = "record" => todo[h] # {}

(* How far a handler is from its reply, and the enforcer from being down. *)
StepsLeft ==
  [s \in Steps |-> CASE s = "udp" -> 6 [] s = "tcp" -> 5 [] s = "record" -> 4
                     [] s = "lock" -> 3 [] s = "insert" -> 2 [] s = "reply" -> 1
                     [] s = "idle" -> 0]
PhasesLeft ==
  [p \in Phases |-> CASE p = "starting" -> 7 [] p = "installing" -> 6 [] p = "rollback" -> 5
                      [] p = "up" -> 5 [] p = "stopping" -> 4 [] p = "stoppingTcp" -> 3
                      [] p = "teardown" -> 2 [] p = "down" -> 1]

(* A step of a query leaves fewer steps, or fewer of the addresses it has to
   record; a listener that was told to stop takes no query; and the enforcer never goes back. *)
NearerReply(h) ==
  \/ pc'[h] = pc[h] /\ todo'[h] = todo[h]
  \/ pc'[h] = pc[h] /\ todo'[h] \subseteq todo[h] /\ todo'[h] # todo[h]
  \/ StepsLeft[pc'[h]] < StepsLeft[pc[h]]
NearerTheEnd ==
  /\ \A h \in Handlers :
       pc[h] # "idle" \/ ~ Serves(h) => NearerReply(h)
  /\ phase' = phase \/ PhasesLeft[phase'] < PhasesLeft[phase]

(* Of AfterRecord, whatever is left. *)
LEMMA AfterRecordIs ==
  ASSUME NEW d, NEW left
  PROVE  /\ left # {} => AfterRecord(d, left) = "record"
         /\ left = {} => AfterRecord(d, left) \in {"lock", "reply"}
BY DEF AfterRecord

LEMMA TodoStep ==
  ASSUME TypeOK, TodoInv, [Next]_vars PROVE TodoInv'
<1> USE DEF TypeOK, TodoInv
<1>1. ASSUME NEW h \in Handlers, HandlerStep(h) PROVE TodoInv'
  <2>1. CASE ExchangeFails(h)  BY <2>1 DEF ExchangeFails
  <2>2. CASE Truncated(h)  BY <2>2 DEF Truncated
  <2>3. ASSUME NEW ips \in SUBSET AnswerIPs, NEW t \in TTLs, Answered(h, ips, t)
        PROVE  TodoInv'
    BY <2>3 DEF Answered
  <2>4. ASSUME NEW ip \in IPs, Record(h, ip) PROVE TodoInv'
    <3>1. todo[h] \ {ip} = {} => AfterRecord(query[h], todo[h] \ {ip}) # "record"
      BY AfterRecordIs
    <3> QED BY <2>4, <3>1 DEF Record
  <2>5. CASE Lock(h)  BY <2>5 DEF Lock
  <2>6. CASE Insert(h)  BY <2>6 DEF Insert
  <2>7. CASE InsertFails(h)  BY <2>7 DEF InsertFails
  <2>8. CASE Reply(h)  BY <2>8 DEF Reply
  <2> QED BY <1>1, <2>1, <2>2, <2>3, <2>4, <2>5, <2>6, <2>7, <2>8 DEF HandlerStep
<1>2. ASSUME NEW h \in Handlers, NEW d \in Domains, NEW one \in BOOLEAN, Receive(h, d, one)
      PROVE  TodoInv'
  BY <1>2 DEF Receive
<1>3. CASE SetupBegin \/ SetupDone \/ SetupFails \/ Stop("up") \/ Stop("rollback")
           \/ UdpStopped \/ StopDone \/ Teardown \/ (\E ip \in Dests : Connect(ip))
           \/ (\E e \in pending : Drain(e)) \/ Tick \/ Finished \/ UNCHANGED vars
  <2>1. UNCHANGED <<pc, todo>>
    BY <1>3 DEF SetupBegin, SetupDone, SetupFails, Stop, UdpStopped, StopDone, Teardown, Connect,
                Drain, Tick, Finished, vars, handlerVars
  <2> QED BY <2>1
<1> QED BY <1>1, <1>2, <1>3 DEF Next

(* A query whose step waits can only wait for the lock, and its holder is inside
   nft: SetupDone or SetupFails, Insert or InsertFails releases it. *)
THEOREM NeverStuckHolds == Spec => []NeverStuck
<1>1. Init => TodoInv
  BY DEF Init, TodoInv
<1>2. TypeOK /\ LockInv /\ TodoInv => NeverStuck
  <2> SUFFICES ASSUME TypeOK, LockInv, TodoInv PROVE NeverStuck
    OBVIOUS
  <2>1. ASSUME NEW h \in Handlers, pc[h] # "idle"
        PROVE  HandlerCan(h) \/ (pc[h] = "lock" /\ LockComesBack)
    <3>1. CASE pc[h] = "lock" /\ fwLock # Nobody
      <4>1. fwLock = Main \/ fwLock \in Handlers
        BY <3>1 DEF TypeOK
      <4> QED BY <3>1, <4>1 DEF LockInv, LockComesBack
    <3>2. CASE pc[h] = "lock" /\ fwLock = Nobody
      BY <3>2 DEF HandlerCan
    <3>3. CASE pc[h] = "record"
      BY <3>3 DEF HandlerCan, TodoInv
    <3>4. pc[h] \in Steps
      BY DEF TypeOK
    <3> QED BY <2>1, <3>1, <3>2, <3>3, <3>4 DEF HandlerCan, Steps
  <2>2. ASSUME phase \in {"stopping", "stoppingTcp"}
        PROVE  Drained(Handlers) \/ \E h \in Handlers : HandlerCan(h)
    <3> SUFFICES ASSUME NEW h \in Handlers, pc[h] # "idle", ~ HandlerCan(h)
                 PROVE  \E g \in Handlers : HandlerCan(g)
      BY DEF Drained
    <3>1. PICK g \in Handlers : pc[g] = "insert"
      BY <2>1, <2>2 DEF LockComesBack
    <3> QED BY <3>1 DEF HandlerCan
  <2>3. ASSUME phase = "teardown" PROVE Drained(Handlers) /\ fwLock = Nobody
    BY <2>3, FilterAssumption DEF TypeOK, LockInv, Drained
  <2> QED BY <2>1, <2>2, <2>3 DEF NeverStuck
<1>3. TypeOK /\ TodoInv /\ [Next]_vars => TodoInv'
  BY TodoStep
<1> QED BY <1>1, <1>2, <1>3, BlockCorrect, PTL DEF Spec

LEMMA StepsLeftIs ==
  /\ StepsLeft["udp"] = 6 /\ StepsLeft["tcp"] = 5 /\ StepsLeft["record"] = 4
  /\ StepsLeft["lock"] = 3 /\ StepsLeft["insert"] = 2 /\ StepsLeft["reply"] = 1
  /\ StepsLeft["idle"] = 0
BY DEF StepsLeft, Steps

LEMMA PhasesLeftIs ==
  /\ PhasesLeft["starting"] = 7 /\ PhasesLeft["installing"] = 6 /\ PhasesLeft["rollback"] = 5
  /\ PhasesLeft["up"] = 5 /\ PhasesLeft["stopping"] = 4 /\ PhasesLeft["stoppingTcp"] = 3
  /\ PhasesLeft["teardown"] = 2
  /\ PhasesLeft["down"] = 1
BY DEF PhasesLeft, Phases

(* The step of a query is nearer its reply and leaves the other queries alone. *)
LEMMA HandlerNearer ==
  ASSUME TypeOK, NEW h \in Handlers, HandlerStep(h)
  PROVE  (\A g \in Handlers : NearerReply(g)) /\ phase' = phase
<1> USE StepsLeftIs DEF TypeOK, NearerReply
<1>1. CASE ExchangeFails(h)  BY <1>1 DEF ExchangeFails
<1>2. CASE Truncated(h)  BY <1>2 DEF Truncated
<1>3. ASSUME NEW ips \in SUBSET AnswerIPs, NEW t \in TTLs, Answered(h, ips, t)
      PROVE  (\A g \in Handlers : NearerReply(g)) /\ phase' = phase
  BY <1>3 DEF Answered
<1>4. ASSUME NEW ip \in IPs, Record(h, ip)
      PROVE  (\A g \in Handlers : NearerReply(g)) /\ phase' = phase
  <2>1. /\ pc[h] = "record" /\ phase' = phase
        /\ todo'[h] = todo[h] \ {ip} /\ pc'[h] = AfterRecord(query[h], todo[h] \ {ip})
        /\ \A g \in Handlers : g # h => pc'[g] = pc[g] /\ todo'[g] = todo[g]
    BY <1>4 DEF Record
  <2>2. ip \in todo[h]
    BY <1>4 DEF Record
  <2>3. pc'[h] = "record" \/ pc'[h] \in {"lock", "reply"}
    BY <2>1, AfterRecordIs
  <2>4. NearerReply(h)
    BY <2>1, <2>2, <2>3
  <2> QED BY <2>1, <2>4
<1>5. CASE Lock(h)  BY <1>5 DEF Lock
<1>6. CASE Insert(h)  BY <1>6 DEF Insert
<1>7. CASE InsertFails(h)  BY <1>7 DEF InsertFails
<1>8. CASE Reply(h)  BY <1>8 DEF Reply
<1> QED BY <1>1, <1>2, <1>3, <1>4, <1>5, <1>6, <1>7, <1>8 DEF HandlerStep

(* A query is over after at most six steps and one for each address of its
   answer, and Stop leads to Teardown through phases that never come back: with
   NeverStuck, all that QueryAnswered and StopCompletes need besides a fair
   scheduler. *)
THEOREM NearerTheEndHolds == Spec => [][NearerTheEnd]_vars
<1>1. TypeOK /\ [Next]_vars => NearerTheEnd
  <2> SUFFICES ASSUME TypeOK, [Next]_vars PROVE NearerTheEnd
    OBVIOUS
  <2> USE DEF TypeOK
  <2>1. ASSUME NEW h \in Handlers, HandlerStep(h) PROVE NearerTheEnd
    BY <2>1, HandlerNearer DEF NearerTheEnd
  <2>2. ASSUME NEW h \in Handlers, NEW d \in Domains, NEW one \in BOOLEAN, Receive(h, d, one)
        PROVE  NearerTheEnd
    BY <2>2 DEF Receive, NearerTheEnd, NearerReply
  <2>3. ASSUME UNCHANGED <<pc, todo>>,
               phase' = phase \/ PhasesLeft[phase'] < PhasesLeft[phase]
        PROVE  NearerTheEnd
    BY <2>3 DEF NearerTheEnd, NearerReply
  <2>4. CASE SetupBegin \/ SetupDone \/ SetupFails \/ Stop("up") \/ Stop("rollback")
             \/ UdpStopped \/ StopDone \/ Teardown
    <3>1. UNCHANGED <<pc, todo>>
      BY <2>4 DEF SetupBegin, SetupDone, SetupFails, Stop, UdpStopped, StopDone, Teardown, handlerVars
    <3>2. PhasesLeft[phase'] < PhasesLeft[phase]
      BY <2>4, PhasesLeftIs
         DEF SetupBegin, SetupDone, SetupFails, Stop, UdpStopped, StopDone, Teardown
    <3> QED BY <2>3, <3>1, <3>2
  <2>5. CASE (\E ip \in Dests : Connect(ip)) \/ (\E e \in pending : Drain(e))
             \/ Tick \/ Finished \/ UNCHANGED vars
    <3>1. UNCHANGED <<pc, todo, phase>>
      BY <2>5 DEF Connect, Drain, Tick, Finished, vars, handlerVars
    <3> QED BY <2>3, <3>1
  <2> QED BY <2>1, <2>2, <2>4, <2>5 DEF Next
<1> QED BY <1>1, TypeCorrect, PTL DEF Spec
=============================================================================
