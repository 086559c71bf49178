# Egret in TLA+

Egret runs one command of a CI job, records what it does with eBPF, and in
block mode confines its network access to a policy. This directory holds TLA+
models of Egret's own logic, TLC configurations that check them on small
instances, and TLAPS proofs that every invariant these check holds for every
value of the constants the named assumptions admit (three of them under a
hypothesis, see The proofs). `PROJECT.json` maps every definition to the lines it models.

    tlc -config EgressBlock.cfg MCEgress.tla     # a run: see the table below
    tlapm EgressFilterProofs.tla                 # the proofs

## The system

`egret run -- <command>` is one process per run. It builds its parts in order,
starts the command through a trampoline, waits, and takes the parts down:

    executeRun (cli/run_linux.go)
      |- applyDisableSudo      writes a sudoers drop-in            [optional]
      |- enforcer.New          build cgroup (all modes), nftables object (block)
      |- Enforcer.Start        DNS proxy, then the nftables table
      |- runSelfProbe          does the cgroup match work here?    [block]
      |- collector.New         loads and attaches the eBPF probes
      |- monitor.New/Start     drains events, labels, judges, stores
      |- runCommand            trampoline -> build
      |- KillBuild, Close, Wait, Finish, report.Write
      `- deferred: resolv.conf, stop DNS, teardown table, close cgroup, drop-in

| Component | State | Operations | Interacts with |
|---|---|---|---|
| DNS proxy (`enforcer/dns.go`) | `ipDomain` map, two servers, one goroutine per query | Start, Stop, handle, recordAnswers, DomainForIP | calls the enforcer's onResolved; read by the monitor; serves the build |
| Egress filter (`enforcer/firewall_linux.go`) | nftables table with timed allow sets, `upDone`, a mutex | Setup, AllowIPs, Teardown, ProbeDropCount | called by the proxy's goroutines and by the main one |
| Enforcer (`enforcer/enforcer.go`) | owns the three, a run id | New, Start (with rollback), stop, KillBuild | glue |
| Build cgroup (`enforcer/cgroup_linux.go`) | a directory and its processes | create, Kill, Close | the filter matches on it, the probes are scoped to it |
| eBPF probes (`bpf/`) | rings, drop counters, scope map | emit or count a drop | the collector reads the rings |
| Collector (`collector/`) | readers, channels, watcher | read, SetScope, Dropped, Close | feeds the monitor |
| Monitor (`monitor/`) | the session, caps | drain, store, addViolation, Finish | reads DomainForIP, evaluates the policy |
| Trampolines (`cli/exec_guarded_linux.go`, `resolver_linux.go`) | the child before it is the build | pin resolver, drop privileges, exec | started inside the cgroup |
| Policy (`policy/`) | immutable after loading; EvalFile reads the disk | parse, extends, Eval* | asked by proxy, filter, monitor |
| Report (`report/`) | files | write | after the run |
| GitHub publisher (`github/`, `cli/github.go`) | none of its own: comments, issues, check runs, a branch and a pull request at GitHub | check, comment, dashboard | commands of the action's job, beside other jobs |
| Policy generation (`audit/`, `cli/audit.go`) | none; a branch and a pull request at GitHub | analyze, emit, open-pr | reads a report, uses the publisher |
| SARIF, ingest | none | format, post | after the run |
| Action wrapper (`entrypoint.sh`, `action.yml`) | exit codes, files | install, verify, run | starts egret |

What is hard in it: queries served concurrently while set-up, the build, the
event pipeline and the teardown go on; events judged long after they happened;
buffers at every stage that may be full; a shutdown in which four kinds of
goroutine wait for each other and a signal may come at any point; set-up in
ten steps each of which may fail, with cleanups that may fail too; the death of
Egret with a live build; several runs on one host; paths judged on a disk that
has changed since; and jobs that find and then edit documents others edit, too.
`PROJECT.json` lists these hazards with their lines and the properties that cover them.

## The modules

| Module | What it is | Checked by | Proved in |
|---|---|---|---|
| `EgressRules` | the nftables output chain as an ordered rule list, first match | `RulesConfine`, through EgressFilter | `EgressFilterProofs` (SynOffHost) |
| `EgressFilter` | DNS proxy + filter + build connections + labelling by the monitor, block and audit mode | `MCEgress` | `EgressFilterProofs` |
| `EgressContract` | abstract: what block mode promises about connections off the host | refined by EgressFilter | `EgressFilterProofs` |
| `EventPipeline` | probe -> ring -> reader -> channel -> monitor -> report, and Close | `MCPipeline` | `EventPipelineProofs` |
| `EventContract` | abstract: what a report may say of the events that were seen | refined by EventPipeline | `EventPipelineProofs` |
| `RunLifecycle` | executeRun: set-up, launch, reap, report, cleanups, signals, crash, several runs | `MCLifecycle` | `RunLifecycleProofs` |
| `CgroupKill` | buildCgroup.Kill against a forking build | itself | `CgroupKillProofs` |
| `PolicyRules` | pure operators: list union, name matching, allowed-ips and its two readers | through PolicyLoad | `PolicyLoadProofs` |
| `PolicyLoad` | LoadWithResolver: extends chain, confinement, overlay, Validate, --mode | `MCPolicy` | `PolicyLoadProofs` |
| `ReportWrite` | report.Write as root beside a build that owns part of the paths | through ActionRun | `ActionRunProofs` |
| `ActionRun` | entrypoint.sh: install, verify, copy, run, count, verdict; extends ReportWrite | `MCAction` | `ActionRunProofs` |
| `FileRules` | EvalFile and EvalProcess: forms of a path on a disk that changes between a write and its judgement | `MCFiles` | `FileRulesProofs` |
| `StickyUpsert` | check run, sticky comment, dashboard issue: list, find, edit or create | through GithubPublish | `GithubPublishProofs` |
| `FilePull` | audit --open-pr: branch, file, pull request, one request at a time | through GithubPublish | `GithubPublishProofs` |
| `GithubPublish` | both on one repository, whose issues list its pull requests | `MCPublish` | `GithubPublishProofs` |

The `MC` modules give the constants values TLC needs.
FileRules stands beside EventPipeline: `pending` is what the pipeline carries, in
any order, and EventPipeline says what may be lost on the way. GithubPublish
starts where ActionRun ends.
The modules overlap in one place on purpose: EgressFilter treats teardown as one
step after the drain of the DNS servers, RunLifecycle splits it (kill, delete,
close) and leaves DNS out. They are not composed: the firewall's table of
RunLifecycle is the `upDone` of EgressFilter, `Reap` is where `BuildReturns` of
EventPipeline happens, and `Kills` is CgroupKill's `KillAtOnce`.

### EgressRules and EgressFilter

A packet is what the rules can tell apart: in the build cgroup or not,
established or not, destination, port 53 now or before NAT. `Rules` lists the
rules in the order of `Setup`'s script; `Verdict` is the first match. `MayOpen`
states what the comments on `dnsRules` and `Setup` promise without any order,
and `RulesConfine` says that the two agree.

A handler goroutine is `pc[h]`: `Receive` (question count, allowlist),
`udp`/`tcp` (upstream, TCP after truncation), `Record` one address at a time
(the map's lock is taken per record), `Lock`/`Insert`/`InsertFails` (AllowIPs
under the firewall's mutex), `Reply`. The main goroutine is `phase`: Setup runs
under the same mutex while queries already come in; `Stop` is the stop function
or the rollback, which shuts the UDP server down and then the TCP server:
`UdpStopped` and `StopDone` are the two Shutdowns returning after the last
handler of each, and the TCP listener serves new queries until then
(`TcpHandlers`). The build connects at any time between a successful Start and
the stop function, before which KillBuild has reaped it; its events wait in `pending` and are judged (`Flags`) with the labels as they are
when the monitor drains them.

Assumptions about code outside `src/`: an nft script is one transaction; adding
an element that exists sets its timeout anew (firewall_linux.go:178-179 relies
on it); upstream may answer anything; miekg/dns's Shutdown waits for handlers.
Setup never fails in audit mode (no-op firewall). The error Shutdown returns if
a server has not begun to serve is not modelled.

### EventPipeline

Events of a kind are numbered. `ring`, `record`, `chan`, `item`, `stored` are
the places an event can be in; `dropped`, `undecoded`, `overflow` count those
that are lost. `main` is executeRun's progress through Close, Wait, Dropped and
Finish. `CleanReport` is a report without violations and without any coverage
finding of Finish. What cannot be read from the counters (`err`) is a finding
too. The watcher is one goroutine that closes all readers, after a signal or
after Close has joined them.

EventContract forgets the places: an event is on its `way`, `kept` or `lost`.
`OnTheWay` maps ring, channel and both hands to the one set `way`, `Missed` the
three counters to `lost`; Read, Send, Receive and the steps of Close are then not
seen, except that a record which does not decode and an event over the cap are
`Lose`, Store is `Keep` (of the least number on the way) and Finish `Conclude`.

### RunLifecycle

`run[r]` is one egret process with its child: `pc` is the next step of
executeRun, `todo` its deferred cleanups in the order they will run, `child`,
`guards`, `stray` and `place` are the command, the trampoline's progress,
processes it left, and where it is: in its cgroup, on the host because it had to
be started there, or on the host because it left (`BuildLeaves`). `tables`, `dirs`, `dropIn` are the
host. Every step that can fail has a failing alternative. Faults beyond that
are named in `Faults`:

| Fault | What happens |
|---|---|
| `signal` | SIGINT/SIGTERM at any moment: the context is cancelled |
| `crash` | Egret dies at any moment, its cleanups do not run |
| `sticky` | nft or rmdir fails during the cleanup |
| `nftCut` | the context kills nft after it committed the table |
| `partialWrite` | the sudoers drop-in is created but its write fails |
| `partialScope` | SetScope fails after some of the three maps |

`Kills` is the atomic `cgroup.kill` (kernel 5.14), which takes the members of the
cgroup and nobody else; what the loop for older kernels achieves is CgroupKill's
question. In audit mode the build is root and can move itself to another cgroup
(CHANGELOG.md:29-30): `BuildLeaves` moves all of it, which leaves the most of it
alive and able to overwrite the report. In block mode it has no such right, its
guards have taken root from it. Hence `ReportIsEgrets` speaks of block mode and
of audit builds that were started in their cgroup and stay there. What else a
root build could do (unload the probes, kill Egret, change its files) is not
modelled: audit mode promises nothing against it.

### CgroupKill

`Fork`, `Die` and `FreezeTakes` belong to the build and the kernel, the rest is
the loop. `final` records that the kill was atomic or that the last list was
read with the cgroup frozen: then, and only then, nothing can be left
(`KillIsComplete`). Without it the loop gives up after its passes with
processes alive, as its comment says.

### PolicyRules and PolicyLoad

`chain` holds the documents in the order they are read, each the base of the
one before it; `left` counts those not laid over the result `pol` yet, so the
recursion of parsePolicy is one action downwards (`Parse`, `ResolveLocal`,
`ResolveRemote`, `ReadFails`) and one upwards (`Overlay`). `Validate` and
`ModeFlag` end it; without `--config`, `NoConfig` starts from the defaults. Any
document can be behind any reference. A path is the sequence of its components
after all symlinks are resolved, next to what it reads; names are sequences of
tokens, networks sequences of bits with 2 and 4 bits standing for 32 and 128.
Two of the scalars and two of the lists are kept, the others merge alike.

The properties compare this with reference definitions that do not follow the
code: a scalar is that of the nearest document that sets it (`Nearest`), lists
are the union over the chain, a name passes if some document lists it
(`Listed`), no entry covers an address family, and the filter's two static sets
accept an address exactly if `AllowsIP` does.

### ReportWrite and ActionRun

`entry[d][n]` is what a name is in a directory: nothing, a file, a directory or
a link. Every system call of openDirNoFollow is an action, and between any two
of them the build, as long as it is `alive`, may change entries of directories
that are not root's. `out` is the report directory once it is open, `tmp` the
temporary file, `todo` the outputs left. `Dies` ends Egret anywhere.

A link that root placed is followed by one openat, in which the kernel resolves
the link's whole target. If that target goes on through a directory others can
write, they decide where it leads; safewrite_unix.go:81-86 states this as a known
limitation. `Via` names such links and the entry their targets pass through, and
`Opens` resolves it as it is at the moment of the call (one such entry for a link,
and the call as one step: what a component of the target is changed to during the
call is what it was changed to before it). `NeverSteered` holds for paths without such
a link (`Direct`), and only for those: without `Direct` TLC finds the limitation.

ActionRun runs the job: `step` is the next part of the script. An input is
chosen where the script reads it. A binary is named by its origin, so that a
digest is the binary; the install step hashes it twice, to verify it
(`VerifyChecksum`) and to record what the run step will compare
(`PublishDigest`), and a process that an earlier step left can swap it in between:
`EgretIsVerified` says that the recorded binary runs, and that it is the
verified one unless that happened. `SHA256SUMS` lists one binary, and a signature verifies
only over the sums of the release. Egret is its report writer and an exit
code that is 0 only if the report was written (what RunLifecycle's
`ExitZeroIsEarned` shows). The candidate directories are tried until one works
or none is left; their number does not matter. The one that works is sticky (/tmp,
/var/tmp) or root's alone (/opt, /usr/local/lib), as `JobAssumption` admits; TLC's
instance is the weaker, sticky one. Somebody may instead call egret
himself (`CallDirectly`), with a report directory in the workspace, which the
build can change.

### FileRules

`link` and `files` are the part of the disk the build changes; directories stay.
A *place* is the sequence of the components of a real path; a *path* may have
`..` in it and be relative. `Walk` is the kernel's resolution, which decides
where a write really goes (`place`, in the event for the properties only): the
end of `Trail`, which has the place reached after each component. `Clean`,
`EvalSymlinks`, `Resolved` and `CanonicalForms` are the code's, evaluated when
the event is judged and from Egret's working directory. `calm` records that no
link has changed since the event. `Guarded(place)` is the reference: the place
is at or below one where the kernel finds a protected path, or would make it.

What EvalFile promises is less than its comment says, and the exceptions in
`Faithful` are each necessary: a relative path cannot be anchored, since the
event does not carry the directory of the process (docs say so); a link changed
between the write and the judgement (the comment's own residue); `..` after a
link, which `Clean` undoes by its text and the kernel does not; and a link whose
target is gone by then. The protected paths have such limits, too: one that is
relative and leads through no link (`Anchored`), or is a link to nothing
(`Dangles`), has no place to guard. A write that *reads* as one below a protected
path is flagged without any of these.

### StickyUpsert, FilePull and GithubPublish

Every HTTP request is an action, and its effect and its answer are one step: a
request whose answer is lost is one that succeeded and a job that fails next.
`job[j]` is the command a job runs, `page` the page it asks for, `found` the
first match. `knew` and `blind` are history: what Egret had written when the
listing began, and whether the listing moved under it or was cut by the page
cap; `OneDocument` says that nothing but these makes a second document.
`work[j]` is one `audit --open-pr`, `phase` its next request. `alone` is history
too: nobody else has moved the branch or the pull request. GitHub is external:
a digest that is not the file's is refused, a second pull request for a branch is
refused, and whether it closes a pull request whose branch was reset, or makes a
commit that changes nothing, is left open.

## The runs

| Run | Bounds | What it shows |
|---|---|---|
| `egress_block` | 2 queries, one over UDP and one over TCP, 2 names, answers over a remote and an own address, TTLs below and above the clamps, clock 0..2, 1 pending event; 3.4M states | windows, labels, usability of answers, labels before replies, flagged means dropped, quiet teardown, and the refinement of EgressContract |
| `policy_load` | 49 documents that decode and 2 others, chains of 3 and a fourth refused, all addresses of 2 and 4 bits; 1.7M states | confinement, the merge, names and networks |
| `egress_live` | 2 queries, no connections | RulesConfine for all 112 packets in every state; queries are answered and stop completes |
| `pipeline` | 4 exec events, 1 connection, ring 1, channel 2, store 2 | accounting, completeness of a clean report, that every breach is counted, over a full store and a full list of violations (1), that the run ends, and the refinement of EventContract; 520k states |
| `pipeline_interrupted` | 2 exec events | finding: a clean report of an interrupted run with events missing |
| `lifecycle_one` | 1 run, all options, all faults but partialScope (below), builds that leave their cgroup; 9.9k states | confinement, restoration, sudo, report, exit code, coverage, and that a signal ends the run |
| `lifecycle_two` | 2 runs with one id, audit or block, crash; 3.1M states | runs do not touch each other's table and cgroup |
| `lifecycle_sudo` | 2 runs with --disable-sudo | finding: the shared drop-in |
| `action_job` | one job, 2 binaries and the source build, 1 directory the build makes, 2 paths below links and writable directories, one of them through a link of root's that goes on through such a directory; 5.6M states | where root writes, what a report is worth, which binary runs, what exit status 0 means |
| `kill_loop` | 4 pids, 3 passes | Kill is complete when it can be |
| `file_rules` | 6 directories, 2 links with 4 targets, 13 paths written, 4 executed, 8 protected, 1 event between write and judgement; 813k states | what is flagged is what was below a protected path, with the exceptions above |
| `publish` | 2 jobs, pages of 2 and at most 2 of them, 2 acts of other people, 1 lost request; 2 audits, 1 commit, 1 merge or close, 1 lost request; an audit beside a dashboard; 1.35M states | one document, which is found again and fits; the pull request carries what the run suggested |

Why these bounds are enough to be of use: two handlers are the least that can
interleave on one address, and each rule of the labels and windows is about one
address and at most two queries; with a clock of three values an element can be
added, refreshed, expire and be added again. The pipeline's buffers hold 7
events at most, so 4 reach every full buffer with the stages before it waiting.
Two runs with the same id are the worst case of any number: only runs with one
id share a name. The passes of Kill are all alike; the proof covers any number.
Three documents are the least in which a document has a base and is one, and
the fourth is the first refused; the documents hold every kind of reference, of
entry and of scalar. A link in a writable directory, a directory the build made
below it, and a link in a directory of root's are all that openDirComponent can
tell apart. Events do not influence each other's judgement, so FileRules needs
one at a time; the links lead into, out of and over the protected directory. Two
pages of two are the least with a full first page, a short last one and a
listing longer than the cap; two jobs are the least that can both find nothing.

Every bound is a constant in a guard (`Max...`). Deadlock is checked, except in
`publish`, whose jobs end.

Fairness: goroutines that can run do run (weak fairness per goroutine); Go's
mutex hands over to a waiter after 1 ms of starvation, hence strong fairness for
`Lock`; an upstream exchange ends because the client has a timeout; nft is
assumed to return. Nothing is assumed of the build: a build that never ends is
a behaviour, and only the context's kill (`ContextKills`) is fair.

## The proofs

`EgressFilterProofs` proves for any number of handlers, addresses, names, TTLs
and any clock bound, from `FilterAssumption` and `AddressAssumption`:

- `TypeCorrect`, `QuietTeardownHolds`: the latter from `LockInv`, which ties the
  lock's holder to `pc` and `phase`, and says that the handlers of a server that
  has shut down are idle, from `teardown` on all.
- `WindowsBoundedHolds`, `LiveIsLabelledHolds`, `AnswerUsableHolds`,
  `FlaggedWasDroppedHolds`: from `BlockInv`. None of these is inductive alone.
  `HandlerInv` carries what a handler knows at each step: in block mode a
  handler past `Receive` with addresses serves an allowlisted name, the
  addresses it has recorded are labelled, and its answer is vouched for.
  `AddressInv` and `BuildInv` then tie the allow set, the labels and the pending
  events together. A flagged connection was dropped because an address once
  open keeps an allowlisted label for the rest of the run.
- `AnswerLabelledHolds`: in both modes, from what `LabelHandlerStep` says a
  handler past `Record` has done.
- `RulesConfineHolds`: for every packet and every content of the sets, from
  `FirstMatch` and one lemma per group of rules.
- `ContractImplemented`: with `Blocking`, Init maps to the contract's Init and
  each step to one of its steps or a stutter; `SynOffHost` (the rule list
  accepts a SYN off the host exactly for members of the allow sets) is what
  makes a connection an `Attempt`.
- `NeverStuckHolds` and `NearerTheEndHolds`, in both modes: what `QueryAnswered` and
  `StopCompletes` rest on besides fairness. By `LockInv` and `TodoInv` a query that
  cannot go on waits for the lock, whose holder is inside nft; a query's steps go
  one way only (`StepsLeft`), and so do the enforcer's phases (`PhasesLeft`).

`CgroupKillProofs` proves `KillIsComplete` for any set of pids and any number of
passes: after a list read in the frozen cgroup, what is alive stays within what
is listed (`FrozenListCovers`), until the pass has killed it all.

`PolicyLoadProofs` proves, for any documents, names, `MaxDepth` and widths of
addresses:

- `ReadsConfinedHolds`, and `DepthBoundedHolds`, which no run checks. `ChainInv`
  says that the directory of every document read is below `Root`; `PrefixTrans` and
  `FrontBelow` carry this over one reference, remote ones keep the directory.
- `LoadedIsMergeHolds`, from `MergeInv`: what has been laid over the defaults so far
  is the merge of the documents from number `left + 1` on. `UnionDedupIs` says what
  the list union computes; its loop is a recursive function.
- `NamesOfTheChainHolds`: `MatchIsListed` shows that the matching by prefix, suffix
  and length is the reference by tokens.
- `NoWholeFamilyHolds`, `FilterMatchesPolicyHolds`: from `NetsInv`. `Outside` makes
  the address no entry of the list covers. `WidthAssumption` needs a prefix of
  mapped addresses of at least 2 bits (it has 96).

`EventPipelineProofs` proves for any kinds of events and any capacities:

- `AccountedHolds`. `FlowInv` adds to the balance that a goroutine holds an event
  exactly between taking it and passing it on; each step is about one kind
  (`KindStep`). `CloseInv` is why nothing stays in a ring unless a signal came:
  Close detaches before it flushes, a flushed reader goes only when its ring is
  empty, and the watcher is woken only after the readers have gone.
- `BreachesCountedHolds`, from `BreachInv`: the violations listed and those over the
  cap are together as many as the breaking events among those that came through
  the pipeline. It needs `OrderInv`, that the five places an event passes
  (`Stages`) are each ahead of those behind it, so that no event is judged
  twice, and `FlowInv` and `CloseInv` for the events that are still on the way.
- `CleanIsCompleteHolds`, from `ReportInv`: the counts Close takes are final
  (`Frozen`), nothing that breaks the policy is stored without a violation
  (`NoneBad`), and a drain goroutine ends only behind its reader (`Ended`).
- `EventContractImplemented`: all four invariants are needed. `OrderInv` makes the
  item the least on the way and a head that leaves the ring leave the way
  (`WayOf`), `CloseInv` empties the way of a run nobody interrupted, `ReportInv`
  ties the verdict to the counters, and all three together say that nothing moves
  once the report is written (`OverUnseen`).
- `NeverStuckHolds` and `NearerTheEnd`: what `Ends` rests on besides fairness. By
  `PhaseInv` Close flushes every reader before it joins them and closes `done` before
  it waits for the watcher, so somebody can always go on; and with the probes
  detached each step lowers `Rest` or the `Work` of a kind and raises neither.

`RunLifecycleProofs` proves for any number of runs and ids and every fault:

- `RunsIndependentHolds`, `BuildConfinedHolds`, from `LifecycleInv`, which has two
  halves. `Sound` is about one run: what it has set up when it is at a step of block
  mode, that nothing of its build is alive outside wait and reap unless Egret is
  dead, and that its cgroup is released once (`OneClose`). `HostInv` is about the
  host: only a directory or table that did not exist becomes a run's own, and the
  claim lasts until Close, or as long as a build outlives its Egret in it; so no
  other run can release or reuse it.
- `ReportIsEgretsHolds`, `ExitZeroIsEarnedHolds`, `CoverageHonestHolds`, from
  `OutcomeInv`: `ChildInv` has the build's life, `ReportInv` the report and exit code,
  `ScopeInv` what SetScope has widened. CoverageHonest assumes that SetScope does not
  fail half-way (below, it is false otherwise).
- `SudoRevokedHolds`, from `DropInInv`, while one run at a time asks for
  `--disable-sudo` (`OneSudo`): with two the property is false, which
  `lifecycle_sudo` shows.
- `HostRestoredHolds`, from `RestoreInv`: what a run has on the host is pending in its
  cleanups (`Restored`). It is for runs that are `Apart`, with ids of their own and
  the drop-in of none beside another run. The property says that names are free,
  and a name or drop-in that another run uses is not. A single run is always
  apart.

`FileRulesProofs` proves `ProtectedWriteFlaggedHolds`, `FlaggedWriteIsProtectedHolds`
and `DisallowedExecFlaggedHolds` for any disk, links, protected paths and number of
events in flight. `RulesInv` says little: what is on the disk has its place, and a
calm event's place is where its path still leads (`SameTrail`: a walk depends on
the links alone). The rest is about the operators. `TrailSteps` and `CleanedSteps`
give the two recursive functions step by step; `WalkReal` and `RealWalk` say that
the kernel's walk ends where no link is, and that a real place leads to itself;
`CleanWalk` that a path whose dots are lexical leads where its clean form does;
`RealForm` and `FormsOnly` that the canonical forms are the real place and what the
path reads, and nothing else except for `GoneFromRoot`. `GuardedFlagged` and
`FlaggedGuarded` are the two directions.

`ActionRunProofs` proves for any directories, paths and binaries, with whatever the
build does to the directories that are its own:

- `EgretIsVerifiedHolds`, from `VerifiedInv`: what each step of the install leaves
  true of the binary.
- `NeverSteeredHolds`: `EntryInv` says that no directory outside root's own has one of
  root's in it, `WalkInv` that a walk which has one of root's open is where root's
  own layout leads, so that no planted entry brought it there; a walk that a link
  in `Via` has led away is on no `Direct` path.
- `ReportWholeHolds`: `WriteInv` says which outputs are whole and which are still to
  come, as long as nobody else can write there; `QuietInv` that a walk begun after
  the build's death is on the path as it is.
- `VerdictIsEarnedHolds`, an action property: `SafeInv` and `OutcomeInv` say that the
  report the script counts is the one this Egret wrote. `JobAssumption` describes
  the runner: the report goes to a name of the action's own in a sticky directory,
  reached through root's directories.

`GithubPublishProofs` proves for any jobs, files, texts, page sizes and whatever
other people do:

- `PullCarriesSuggestionHolds`: `PullInv` says request by request what a job that is
  alone with the branch has made of it (`Made`); `JobStep` reduces a step to the job
  that takes it, since whoever moves the branch leaves nobody else alone.
- `ConcurrentRunsConvergeHolds`, from `ConvergeInv`: a branch that one audit reset
  under another always has a job left that can write to it, and one written to has
  its pull request or a job about to open it (`Attended`).
- `OneDocumentHolds`, `TextUsableHolds`, from `StickyInv`. `Seeks` is what a job may rely
  on while it lists: unless the listing moved under it, no document it could have
  known is on the pages it has read. `ListingGrows` and `ListingShrinks` say when an
  insertion or removal moves a page.

The type invariants of EgressFilter, PolicyLoad and RunLifecycle are theorems
(`TypeCorrect`, `LoadTypeCorrect`, `LifecycleTypeCorrect`); those of the others are
parts of the inductive invariants. Runs check properties only.

A loop of the code (over components, tokens, list entries) is a recursive function
here. What it computes is proved by a least counterexample (`EveryNumber`,
`AllNumbers`, from the library's `WFMin`): the induction theorems of the library take
an operator, which no installed prover can instantiate.

Only model-checked: the liveness properties (`QueryAnswered`, `StopCompletes`,
`Ends`, `EndsOnSignal`) and the two findings, which are counterexamples. Fairness and
ENABLED are out of the provers' reach. For the first three properties the rest is proved
(`NeverStuckHolds` with `NearerTheEnd` or `NearerTheEndHolds`): the guards of some step
hold as long as there is something to wait for, and a measure falls. Those
theorems write the guards out instead of ENABLED, and no run lists them. A run of
RunLifecycle takes a step at a time and waits only for its build, so there is
nothing of this kind to prove for `EndsOnSignal`.

## Findings

Where the code does something a document or comment denies, with a run each
(details and quotes in `PROJECT.json`): events left in the rings by a signal; one
sudoers drop-in for all runs.

Seen as well and not given a run:

- `Violation.Blocked` is "true if enforcement actually dropped it"
  (event.go:81); monitor.go:201 sets it in block mode for every flagged
  connection that is not to loopback, also for one to the host's own other
  addresses, which `oifname "lo" accept` lets through (firewall_linux.go:99).
  Hence `FlaggedWasDropped` speaks of connections off the host.
- entrypoint.sh:329 runs the copied binary as root to ask its version, :345
  compares its sha256. `EgretIsVerified` is about the run of the build.
- `egret audit --open-pr` prints "opened/updated PR owner/repo#0" when there was
  nothing to pull: findOpenPR returns 0 and no error. The reset of the branch may
  make GitHub close the pull request it means to update, and a rerun that fails
  after the reset leaves the branch empty.
- A dashboard beyond the page cap (1000 open issues) is made anew each time, and
  a listing that moves while it is read may miss a document (`blind`).
- The comment of `match` (policy.go:546) speaks of a leading `*`; there is no such
  pattern. A disallowed name longer than 15 bytes never matches, because comm is
  cut there. The pattern "/" protects nothing. `~` is Egret's own home, and
  expandHome cuts it off wherever the first name goes on: `~x` is the home with `x` glued
  to it (`Tilde`).
- A file of the root directory that is gone when it is judged is compared by its
  bare name (`GoneFromRoot`): its parent "/" is cut to "", which EvalSymlinks takes
  for "." (policy.go:511-514), so `/out` is flagged by a relative pattern `out`.
- nft killed by the context after its commit leaves a table that Teardown skips
  (`nftCut`), a failed write of the drop-in leaves the file (`partialWrite`):
  HostRestored excepts both as residue.
- SetScope that fails after some of its maps (`partialScope`) hides a coverage
  gap: with it in `Faults`, CoverageHonest fails. That is the only fault the
  theorem excludes.
- Kill on kernels before 5.14 can leave processes behind, as its comment says.
- An endpoint written with a final dot passes validateEndpoint and matches no
  name, because AllowsDomain cuts the dot of the name only.
- UpsertStickyComment's comment speaks of "the token's own bot identity"; the
  code takes any comment of a Bot that has the marker.

## Not modelled

- GitHub's base URL and its validation, headers, the size cap of answers.
- The link count and owner of the job summary file; ActionRun's step being
  cancelled from outside.
- Ingest (one best-effort POST), SARIF and Markdown (formatting), stubs of other platforms, generated code.
- The system calls of the trampoline: each is a step that succeeds or fails.
- The fields of events other than a path, and the probes' filters on them.

## Plan

Done: all modules above with their runs; the invariant of every run as a theorem;
the contracts of EgressFilter and EventPipeline with their refinements.

Left:

1. A contract for RunLifecycle (what a run promises its host) as an abstract
   specification, with the refinement proved from `OutcomeInv` and `RestoreInv`.
2. The text of reports, as far as a property is about it (escaping).
