\* Liveness under the scheduler's fairness (no symmetry), and the order of the rules.
SPECIFICATION FairSpec
CONSTANTS
  IPs = {web, host, office, raw, proxy, docker, canary}
  LoIPs = {host, proxy, docker}
  LoopbackIPs = {proxy, docker}
  StaticIPs = {office}
  Proxy = proxy
  DockerDNS = docker
  Canary = canary
  Handlers = {h1, h2}
  TcpHandlers = {h2}
  Domains = {good, bad}
  Allowlisted = {good}
  NoDomain = none
  AnswerIPs = {web, host}
  Dests = {}
  TTLs = {0, 9}
  MinTTL = 1
  MaxTTL = 2
  MaxTime = 1
  MaxPending = 1
  Blocking = TRUE
  BlockRawIP = TRUE
  Main = main
  Nobody = nobody
INVARIANT RulesConfine
PROPERTIES
  QueryAnswered
  StopCompletes
