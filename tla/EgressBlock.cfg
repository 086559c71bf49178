\* Block mode: two concurrent queries, answers that name a remote address and
\* the host's own, attempts to them, to an allowed-ips address and to a raw one.
SPECIFICATION Spec
CONSTANTS
  IPs = {web, host, office, raw, proxy, docker, canary}
  LoIPs = {host, proxy, docker}
  LoopbackIPs = {proxy, docker}
  StaticIPs = {office}
  Proxy = proxy
  DockerDNS = docker
  Canary = canary
  Handlers = {h1, h2}
  TcpHandlers = {h2}
  Domains = {good, bad}
  Allowlisted = {good}
  NoDomain = none
  AnswerIPs = {web, host}
  Dests = {web, office, host}
  TTLs = {0, 9}
  MinTTL = 1
  MaxTTL = 2
  MaxTime = 2
  MaxPending = 1
  Blocking = TRUE
  BlockRawIP = TRUE
  Main = main
  Nobody = nobody
INVARIANTS
  WindowsBounded
  LiveIsLabelled
  AnswerUsable
  AnswerLabelled
  FlaggedWasDropped
  QuietTeardown
PROPERTY ImplementsContract
