----------------------------- MODULE EgressFilter -----------------------------
(***************************************************************************)
(* The enforcer of one run: the forwarding DNS proxy with one goroutine    *)
(* per query, the nftables filter whose allow set the proxy feeds, the     *)
(* build that connects, and the monitor that labels each connection with   *)
(* the proxy's ip -> domain map when it drains the event.                  *)
(*                                                                         *)
(* Time is a bounded clock; an element of the allow set carries the moment *)
(* it expires.  The upstream resolver, the build and any other process     *)
(* that queries the proxy are the environment: they may do anything.       *)
(***************************************************************************)
EXTENDS EgressRules, FiniteSets

CONSTANTS
  Handlers,        \* goroutines serving queries
  TcpHandlers,     \* those of the TCP listener; the others are of the UDP one
  Domains,         \* query names
  Allowlisted,     \* those Policy.AllowsDomain accepts
  NoDomain,        \* "" : no label
  AnswerIPs,       \* addresses upstream answers contain
  Dests,           \* addresses the build connects to
  TTLs,            \* record TTLs upstream answers carry
  MinTTL, MaxTTL,  \* minAllowTTL, maxAllowTTL
  MaxTime,         \* bound on the clock
  MaxPending,      \* bound on the connection events between kernel and monitor
  Blocking,        \* Policy.IsBlocking
  BlockRawIP,      \* Policy.Egress.BlockRawIP
  Main, Nobody     \* lock holders that are not handlers

ASSUME FilterAssumption ==
  /\ Allowlisted \subseteq Domains /\ NoDomain \notin Domains
  /\ AnswerIPs \subseteq IPs /\ Dests \subseteq IPs /\ TTLs \subseteq Nat
  /\ MinTTL \in Nat \ {0} /\ MaxTTL \in Nat /\ MinTTL <= MaxTTL
  /\ MaxTime \in Nat /\ MaxPending \in Nat
  /\ Blocking \in BOOLEAN /\ BlockRawIP \in BOOLEAN
  /\ TcpHandlers \subseteq Handlers
  /\ Main \notin Handlers /\ Nobody \notin Handlers /\ Main # Nobody

VARIABLES
  now,       \* the clock
  phase,     \* progress of Enforcer.Start and of the stop function it returns
  upDone,    \* nftFirewall.upDone: the table is installed
  fwLock,    \* holder of nftFirewall.mu
  pc,        \* where each handler is
  query,     \* the name it serves
  todo,      \* answered addresses it has not recorded yet
  answer,    \* the addresses its reply carries
  ttl,       \* the clamped TTL recordAnswers returns
  failed,    \* AllowIPs returned an error for this query
  ipDomain,  \* DNSProxy.ipDomain
  expiry,    \* allow4 / allow6: when each element expires; 0 is no element
  pending,   \* connection events not drained yet, with what became of the SYN
  due,       \* history: MinTTL after upstream answered this query
  vouched    \* history: addresses upstream answered for an allowlisted name

handlerVars == <<pc, query, todo, answer, ttl, failed, due>>
vars == <<now, phase, upDone, fwLock, handlerVars, ipDomain, expiry, pending, vouched>>

Phases == {"starting", "installing", "rollback", "up", "stopping", "stoppingTcp", "teardown",
           "down"}
Steps  == {"idle", "udp", "tcp", "record", "lock", "insert", "reply"}

(* Mutant: sets without "flags timeout". *)
LiveForever == {ip \in IPs : expiry[ip] # 0}

(* The addresses with an unexpired element. *)
Live == {ip \in IPs : now < expiry[ip]}

(* Whether a SYN of the build to ip leaves the host; without a table (audit
   mode) nothing is filtered. *)
Admitted(ip) == ~ upDone \/ Accepts(Live, Syn(ip))

(* Mutants: one of the two bounds is missing. *)
ClampNoFloor(t) == IF t > MaxTTL THEN MaxTTL ELSE t
ClampNoCeiling(t) == IF t < MinTTL THEN MinTTL ELSE t

(* recordAnswers: the minimum record TTL, clamped. *)
Clamp(t) == IF t < MinTTL THEN MinTTL ELSE IF t > MaxTTL THEN MaxTTL ELSE t

Init ==
  /\ now = 0
  /\ phase = "starting"
  /\ upDone = FALSE
  /\ fwLock = Nobody
  /\ pc = [h \in Handlers |-> "idle"]
  /\ query = [h \in Handlers |-> NoDomain]
  /\ todo = [h \in Handlers |-> {}]
  /\ answer = [h \in Handlers |-> {}]
  /\ ttl = [h \in Handlers |-> MinTTL]
  /\ failed = [h \in Handlers |-> FALSE]
  /\ due = [h \in Handlers |-> 0]
  /\ ipDomain = [ip \in IPs |-> NoDomain]
  /\ expiry = [ip \in IPs |-> 0]
  /\ pending = {}
  /\ vouched = {}

-----------------------------------------------------------------------------
(* Enforcer.Start, after dns.Start: Setup runs nft while it holds the lock.
   Both listeners already serve, so queries of other processes can come in. *)
SetupBegin ==
  /\ phase = "starting" /\ fwLock = Nobody
  /\ phase' = "installing"
  /\ fwLock' = Main
  /\ UNCHANGED <<now, upDone, handlerVars, ipDomain, expiry, pending, vouched>>

(* The script is one nft transaction.  The no-op firewall never fails. *)
SetupDone ==
  /\ phase = "installing"
  /\ phase' = "up"
  /\ upDone' = Blocking
  /\ fwLock' = Nobody
  /\ UNCHANGED <<now, handlerVars, ipDomain, expiry, pending, vouched>>

SetupFails ==
  /\ Blocking
  /\ phase = "installing"
  /\ phase' = "rollback"
  /\ fwLock' = Nobody
  /\ UNCHANGED <<now, upDone, handlerVars, ipDomain, expiry, pending, vouched>>

(* dns.Stop, called by the stop function and by the rollback of Start: Shutdown
   of the UDP server, then of the TCP server, which serves until its turn comes.
   (The stop function runs when KillBuild has reaped the build.) *)
Stop(from) ==
  /\ phase = from
  /\ phase' = "stopping"
  /\ UNCHANGED <<now, upDone, fwLock, handlerVars, ipDomain, expiry, pending, vouched>>

(* Mutant: Shutdown does not wait for the handlers. *)
NoDrain(served) == TRUE

(* A server's Shutdown returns once its handlers are done. *)
Drained(served) == \A h \in served : pc[h] = "idle"

UdpStopped ==
  /\ phase = "stopping"
  /\ Drained(Handlers \ TcpHandlers)
  /\ phase' = "stoppingTcp"
  /\ UNCHANGED <<now, upDone, fwLock, handlerVars, ipDomain, expiry, pending, vouched>>

StopDone ==
  /\ phase = "stoppingTcp"
  /\ Drained(TcpHandlers)
  /\ phase' = "teardown"
  /\ UNCHANGED <<now, upDone, fwLock, handlerVars, ipDomain, expiry, pending, vouched>>

(* Teardown under the lock: kill the build, then delete the table with its
   sets (RunLifecycle splits this step). *)
Teardown ==
  /\ phase = "teardown" /\ fwLock = Nobody
  /\ phase' = "down"
  /\ upDone' = FALSE
  /\ expiry' = [ip \in IPs |-> 0]
  /\ UNCHANGED <<now, fwLock, handlerVars, ipDomain, pending, vouched>>

-----------------------------------------------------------------------------
(* Mutant: block mode forwards every name. *)
ForwardsAny(d, one) == one

(* handle forwards a query with exactly one question and, in block mode, an
   allowlisted name. *)
Forwards(d, one) == one /\ (Blocking => d \in Allowlisted)

(* The listener of h takes new queries. *)
Serves(h) ==
  \/ phase \in {"starting", "installing", "up", "rollback"}
  \/ phase = "stopping" /\ h \in TcpHandlers

(* DNSProxy.handle.  A refusal and a SERVFAIL are replies without an address. *)
Receive(h, d, one) ==
  /\ pc[h] = "idle" /\ Serves(h)
  /\ pc' = [pc EXCEPT ![h] = IF Forwards(d, one) THEN "udp" ELSE "reply"]
  /\ query' = [query EXCEPT ![h] = d]
  /\ UNCHANGED <<now, phase, upDone, fwLock, todo, answer, ttl, failed, due, ipDomain, expiry,
                 pending, vouched>>

(* The UDP answer is truncated: ask again over TCP. *)
Truncated(h) ==
  /\ pc[h] = "udp"
  /\ pc' = [pc EXCEPT ![h] = "tcp"]
  /\ UNCHANGED <<now, phase, upDone, fwLock, query, todo, answer, ttl, failed, due, ipDomain,
                 expiry, pending, vouched>>

(* No response within the client's 5 seconds, or an error. *)
ExchangeFails(h) ==
  /\ pc[h] \in {"udp", "tcp"}
  /\ pc' = [pc EXCEPT ![h] = "reply"]
  /\ UNCHANGED <<now, phase, upDone, fwLock, query, todo, answer, ttl, failed, due, ipDomain,
                 expiry, pending, vouched>>

(* Upstream answers with the addresses ips; t is their minimum TTL. *)
Answered(h, ips, t) ==
  /\ pc[h] \in {"udp", "tcp"}
  /\ pc' = [pc EXCEPT ![h] = IF ips = {} THEN "reply" ELSE "record"]
  /\ todo' = [todo EXCEPT ![h] = ips]
  /\ answer' = [answer EXCEPT ![h] = ips]
  /\ ttl' = [ttl EXCEPT ![h] = Clamp(t)]
  /\ due' = [due EXCEPT ![h] = now + MinTTL]
  /\ vouched' = IF query[h] \in Allowlisted THEN vouched \cup ips ELSE vouched
  /\ UNCHANGED <<now, phase, upDone, fwLock, query, failed, ipDomain, expiry, pending>>

(* Mutant: the callback and the reply do not wait for the remaining records. *)
AfterFirstRecord(d, left) == IF d \in Allowlisted THEN "lock" ELSE "reply"

(* Where handle goes on with addresses left to record. *)
AfterRecord(d, left) ==
  IF left # {} THEN "record" ELSE IF d \in Allowlisted THEN "lock" ELSE "reply"

(* recordAnswers takes the map's lock once per address; the callback runs
   after the last one, for allowlisted names only. *)
Record(h, ip) ==
  /\ pc[h] = "record" /\ ip \in todo[h]
  /\ ipDomain' = [ipDomain EXCEPT ![ip] = query[h]]
  /\ todo' = [todo EXCEPT ![h] = @ \ {ip}]
  /\ pc' = [pc EXCEPT ![h] = AfterRecord(query[h], todo[h] \ {ip})]
  /\ UNCHANGED <<now, phase, upDone, fwLock, query, answer, ttl, failed, due, expiry, pending,
                 vouched>>

(* onResolved -> AllowIPs: waits for the lock.  The no-op firewall of audit
   mode has none. *)
Lock(h) ==
  /\ pc[h] = "lock"
  /\ IF Blocking
     THEN /\ fwLock = Nobody
          /\ fwLock' = h
          /\ pc' = [pc EXCEPT ![h] = "insert"]
     ELSE /\ pc' = [pc EXCEPT ![h] = "reply"]
          /\ UNCHANGED fwLock
  /\ UNCHANGED <<now, phase, upDone, query, todo, answer, ttl, failed, due, ipDomain, expiry,
                 pending, vouched>>

(* nft adds all the elements in one transaction; adding an element again
   sets its timeout anew. *)
Insert(h) ==
  /\ pc[h] = "insert" /\ upDone
  /\ expiry' = [ip \in IPs |-> IF ip \in answer[h] THEN now + ttl[h] ELSE expiry[ip]]
  /\ fwLock' = Nobody
  /\ pc' = [pc EXCEPT ![h] = "reply"]
  /\ UNCHANGED <<now, phase, upDone, query, todo, answer, ttl, failed, due, ipDomain, pending,
                 vouched>>

(* Mutant: the error return keeps the lock. *)
InsertFailsLocked(h) ==
  /\ pc[h] = "insert"
  /\ failed' = [failed EXCEPT ![h] = TRUE]
  /\ pc' = [pc EXCEPT ![h] = "reply"]
  /\ UNCHANGED <<now, phase, upDone, fwLock, query, todo, answer, ttl, due, ipDomain, expiry,
                 pending, vouched>>

(* No table, or nft fails (a full set, for one): logged, nothing inserted. *)
InsertFails(h) ==
  /\ pc[h] = "insert"
  /\ fwLock' = Nobody
  /\ failed' = [failed EXCEPT ![h] = TRUE]
  /\ pc' = [pc EXCEPT ![h] = "reply"]
  /\ UNCHANGED <<now, phase, upDone, query, todo, answer, ttl, due, ipDomain, expiry, pending,
                 vouched>>

(* WriteMsg; the goroutine ends. *)
Reply(h) ==
  /\ pc[h] = "reply"
  /\ pc' = [pc EXCEPT ![h] = "idle"]
  /\ query' = [query EXCEPT ![h] = NoDomain]
  /\ todo' = [todo EXCEPT ![h] = {}]
  /\ answer' = [answer EXCEPT ![h] = {}]
  /\ ttl' = [ttl EXCEPT ![h] = MinTTL]
  /\ failed' = [failed EXCEPT ![h] = FALSE]
  /\ due' = [due EXCEPT ![h] = 0]
  /\ UNCHANGED <<now, phase, upDone, fwLock, ipDomain, expiry, pending, vouched>>

-----------------------------------------------------------------------------
(* The build runs after a successful Start; KillBuild has reaped it before the
   stop function is called. *)
BuildAlive == phase = "up"

(* connect(2): the kprobe emits the event, the filter sees the SYN.  (An
   established flow stays open when its element expires.) *)
Connect(ip) ==
  /\ BuildAlive
  /\ Cardinality(pending) < MaxPending
  /\ pending' = pending \cup {[ip |-> ip, admitted |-> Admitted(ip)]}
  /\ UNCHANGED <<now, phase, upDone, fwLock, handlerVars, ipDomain, expiry, vouched>>

(* drainConns labels the event with DomainForIP as of now and evaluates it. *)
Drain(e) ==
  /\ e \in pending
  /\ pending' = pending \ {e}
  /\ UNCHANGED <<now, phase, upDone, fwLock, handlerVars, ipDomain, expiry, vouched>>

(* Mutant: allowed-ips and loopback are forgotten. *)
FlagsAnyRawIP(ip, d) == IF d = NoDomain THEN BlockRawIP ELSE d \notin Allowlisted

(* EvalConnection returns a violation for an event to ip labelled d; the
   monitor sets its Blocked field to IsBlocking. *)
Flags(ip, d) ==
  IF d = NoDomain THEN BlockRawIP /\ ~ AllowsRawIP(ip) ELSE d \notin Allowlisted

Tick ==
  /\ now < MaxTime
  /\ now' = now + 1
  /\ UNCHANGED <<phase, upDone, fwLock, handlerVars, ipDomain, expiry, pending, vouched>>

(* The run is over. *)
Finished ==
  /\ phase = "down" /\ pending = {}
  /\ UNCHANGED vars

HandlerStep(h) ==
  \/ ExchangeFails(h) \/ Truncated(h)
  \/ \E ips \in SUBSET AnswerIPs, t \in TTLs : Answered(h, ips, t)
  \/ \E ip \in IPs : Record(h, ip)
  \/ Lock(h) \/ Insert(h) \/ InsertFails(h) \/ Reply(h)

Next ==
  \/ SetupBegin \/ SetupDone \/ SetupFails \/ Stop("up") \/ Stop("rollback")
  \/ UdpStopped \/ StopDone \/ Teardown
  \/ \E h \in Handlers, d \in Domains, one \in BOOLEAN : Receive(h, d, one)
  \/ \E h \in Handlers : HandlerStep(h)
  \/ \E ip \in Dests : Connect(ip)
  \/ \E e \in pending : Drain(e)
  \/ Tick
  \/ Finished

Spec == Init /\ [][Next]_vars

(* A goroutine that can run does; an exchange ends within the client's
   timeout; nft returns; Go's mutex hands itself over to a waiter (strong
   fairness); the stop function, once called, is carried through. *)
Fairness ==
  /\ \A h \in Handlers : WF_vars(HandlerStep(h)) /\ SF_vars(Lock(h))
  /\ WF_vars(SetupDone) /\ WF_vars(Stop("rollback"))
  /\ WF_vars(UdpStopped) /\ WF_vars(StopDone) /\ WF_vars(Teardown)

FairSpec == Spec /\ Fairness

-----------------------------------------------------------------------------
TypeOK ==
  /\ now \in 0..MaxTime
  /\ phase \in Phases
  /\ upDone \in BOOLEAN
  /\ fwLock \in Handlers \cup {Main, Nobody}
  /\ pc \in [Handlers -> Steps]
  /\ query \in [Handlers -> Domains \cup {NoDomain}]
  /\ todo \in [Handlers -> SUBSET IPs]
  /\ answer \in [Handlers -> SUBSET IPs]
  /\ ttl \in [Handlers -> MinTTL..MaxTTL]
  /\ failed \in [Handlers -> BOOLEAN]
  /\ due \in [Handlers -> Nat]
  /\ ipDomain \in [IPs -> Domains \cup {NoDomain}]
  /\ expiry \in [IPs -> Nat]
  /\ pending \subseteq [ip : IPs, admitted : BOOLEAN]
  /\ vouched \subseteq IPs

(* The order of the rules: in every state, a packet of the build that opens a
   flow is accepted exactly when the comments on dnsRules and Setup say so.
   DNS goes to the proxy or nowhere on loopback, whatever the allow sets
   hold, and nothing outside the build cgroup is touched. *)
RulesConfine ==
  \A p \in Packet :
    /\ ~ p.scoped => Accepts(Live, p)
    /\ p.scoped /\ ~ p.est => (Accepts(Live, p) <=> MayOpen(Live, p))

(* "A stale or rebinding IP does not stay permitted for the whole run": an
   element never outlives MaxTTL from now, and one exists only for an address
   that upstream returned for an allowlisted name. *)
WindowsBounded ==
  Blocking => \A ip \in IPs : expiry[ip] # 0 => ip \in vouched /\ expiry[ip] <= now + MaxTTL

(* recordAnswers comes before WriteMsg: an address the build learns from the
   proxy, in either mode, has a domain label before the build can use it. *)
AnswerLabelled ==
  \A h \in Handlers : pc[h] \in {"lock", "insert", "reply"} =>
    \A ip \in answer[h] : ipDomain[ip] # NoDomain

(* recordAnswers comes before AllowIPs: in block mode an address in the allow
   set is always labelled, with an allowlisted name, also while other queries
   for the same address are being recorded. *)
LiveIsLabelled ==
  Blocking => \A ip \in IPs : expiry[ip] # 0 => ipDomain[ip] \in Allowlisted

(* onResolved comes before WriteMsg: by the time the build can read an answer
   for an allowlisted name, its addresses are open for at least MinTTL counted
   from upstream's answer, or nft failed. *)
AnswerUsable ==
  \A h \in Handlers :
    Blocking /\ pc[h] = "reply" /\ ~ failed[h] =>
      \A ip \in answer[h] : expiry[ip] >= due[h]

(* event.Violation.Blocked for destinations that leave the host: however long
   the event waited in the pipeline and whatever was resolved meanwhile, a
   connection flagged in block mode is one the filter dropped. *)
FlaggedWasDropped ==
  Blocking => \A e \in pending :
    e.ip \notin LoIPs /\ Flags(e.ip, ipDomain[e.ip]) => ~ e.admitted

(* The run of a block-mode enforcer is a run of its contract: every connection
   that gets off the host goes to an allowed-ips address or to one upstream
   returned for an allowlisted name and whose window is still open, and no
   connection to such an address is dropped. *)
Contract == INSTANCE EgressContract WITH window <- expiry, log <- pending
ImplementsContract == Contract!Spec

(* The drain of dns.Stop: once Teardown may run no goroutine can still be
   holding or waiting for the firewall, so nothing is inserted into a table
   that is going away; and the lock is held exactly by the step that uses it. *)
QuietTeardown ==
  /\ phase \in {"teardown", "down"} => fwLock = Nobody /\ \A h \in Handlers : pc[h] = "idle"
  /\ \A h \in Handlers : pc[h] = "insert" <=> fwLock = h

(* Every query is answered, and a stop always completes: the proxy's drain
   waits for handlers that wait for the firewall's lock, never the reverse. *)
QueryAnswered == \A h \in Handlers : pc[h] # "idle" ~> pc[h] = "idle"
StopCompletes == phase \in {"rollback", "stopping", "stoppingTcp"} ~> phase = "down"
=============================================================================
