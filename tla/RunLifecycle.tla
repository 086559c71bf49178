----------------------------- MODULE RunLifecycle -----------------------------
(***************************************************************************)
(* executeRun of `egret run`: the steps that set a run up, each of which   *)
(* may fail; the build, started through a trampoline; the cleanups it      *)
(* defers; a signal or the death of Egret at any moment; several runs on   *)
(* one host.  DNS, filtering and the event pipeline are in their own       *)
(* modules; here a run's nftables table is there or it is not.             *)
(***************************************************************************)
EXTENDS Integers, Sequences, FiniteSets

CONSTANTS
  Runs,     \* egret processes on the host
  Ids,      \* run ids newRunID may draw
  Options,  \* [block, sudoOff]: the policy's mode and --disable-sudo
  Faults    \* what happens besides steps that fail: a subset of AllFaults

AllFaults == {"signal", "crash", "sticky", "nftCut", "partialWrite", "partialScope"}

ASSUME LifecycleAssumption ==
  /\ Options \subseteq [block : BOOLEAN, sudoOff : BOOLEAN]
  /\ Faults \subseteq AllFaults

VARIABLES
  run,     \* the state of each run, a record
  tables,  \* per run id, whose rules the table of that name holds; {} is no table
  dirs,    \* build cgroups: << base, run id >>
  dropIn   \* the sudoers drop-in, one fixed path

vars == <<run, tables, dirs, dropIn>>

Bases  == {"top", "own"}                    \* where newBuildCgroup tries
Probes == {"network", "process", "file"}
Guards == 5   \* resolver, runtime directory, no_new_privs, capabilities, ids

(* Mutant: the cgroup is not released. *)
UndoKeepsCgroup == <<"kill", "delete">>

(* What ends a started Enforcer, also when Start fails: Teardown (kill, then
   delete the table), then buildCgroup.Close. *)
Undo == <<"kill", "delete", "close">>

InitRun(opts, id, matches) ==
  [ pc |-> "start", block |-> opts.block, sudoOff |-> opts.sudoOff, id |-> id,
    matches |-> opts.block /\ matches,  \* "socket cgroupv2" matches here; asked in block mode
    signalled |-> FALSE,  \* the context is cancelled
    todo |-> <<>>,        \* deferred cleanups, next one first
    upDone |-> FALSE, cg |-> "none", resolv |-> FALSE,
    child |-> "none",     \* none, trampoline, build, gone
    guards |-> 0,         \* steps of the trampoline done
    stray |-> "none",     \* a process the build left: none, group, session
    place |-> "none",     \* the command started in the cgroup or on the host; or left
    code |-> "none",      \* runCommand's exit code: none, zero, other
    widened |-> {},       \* probes whose scope SetScope(0) cleared
    inScope |-> FALSE, report |-> "none", exit |-> "none",
    residue |-> FALSE,    \* history: nft or rmdir failed at the end, or a write half-way
    cut |-> FALSE ]       \* history: nft was killed after it committed

Init ==
  /\ run \in [Runs -> {InitRun(o, i, m) : o \in Options, i \in Ids, m \in BOOLEAN}]
  /\ tables = [i \in Ids |-> {}]
  /\ dirs = {}
  /\ dropIn = "absent"

-----------------------------------------------------------------------------
At(r, pc) == run[r].pc = pc
Becomes(r, state) == run' = [run EXCEPT ![r] = state]
GoesTo(r, pc) == Becomes(r, [run[r] EXCEPT !.pc = pc])
Returns(r, cleanups) ==
  Becomes(r, [run[r] EXCEPT !.pc = "cleanup", !.exit = "other", !.todo = cleanups \o @])
Ended(r) == run[r].pc \in {"exited", "crashed"}

BuildCode(r) == run[r].child = "build" \/ run[r].stray # "none"

(* No user for the build, or --disable-sudo in audit mode. *)
Refuse(r) ==
  /\ At(r, "start") /\ (run[r].block \/ run[r].sudoOff)
  /\ Returns(r, <<>>)
  /\ UNCHANGED <<tables, dirs, dropIn>>

Start(r) ==
  /\ At(r, "start") /\ (run[r].sudoOff => run[r].block)
  /\ GoesTo(r, IF run[r].sudoOff THEN "sudo" ELSE "new")
  /\ UNCHANGED <<tables, dirs, dropIn>>

(* applyDisableSudo: os.WriteFile; its error returns at once, also when the
   file is there by then. *)
WriteDropIn(r) ==
  /\ At(r, "sudo")
  /\ \/ GoesTo(r, "visudo") /\ dropIn' = "unvalidated"
     \/ Returns(r, <<>>) /\ UNCHANGED dropIn
     \/ /\ "partialWrite" \in Faults
        /\ Becomes(r, [run[r] EXCEPT !.pc = "cleanup", !.exit = "other", !.residue = TRUE])
        /\ dropIn' = "unvalidated"
  /\ UNCHANGED <<tables, dirs>>

(* Mutant: "defer cleanup()", which removes the file on success too. *)
VisudoRemoves(r) ==
  /\ At(r, "visudo")
  /\ GoesTo(r, "new") \/ Returns(r, <<>>)
  /\ dropIn' = "absent"
  /\ UNCHANGED <<tables, dirs>>

Visudo(r) ==
  /\ At(r, "visudo")
  /\ \/ /\ Becomes(r, [run[r] EXCEPT !.pc = "new", !.todo = <<"restore">> \o @])
        /\ dropIn' = "valid"
     \/ Returns(r, <<>>) /\ dropIn' = "absent"
  /\ UNCHANGED <<tables, dirs>>

(* Mutant: MkdirAll, which takes a directory that exists. *)
MkdirAny(r, base) == TRUE

Mkdir(r, base) == << base, run[r].id >> \notin dirs

(* enforcer.New: the build cgroup, at the top or under Egret's own; block mode
   cannot do without. *)
New(r) ==
  /\ At(r, "new")
  /\ \/ \E base \in Bases :
          /\ Mkdir(r, base)
          /\ Becomes(r, [run[r] EXCEPT !.pc = "dns", !.cg = base])
          /\ dirs' = dirs \union {<< base, run[r].id >>}
     \/ /\ IF run[r].block THEN Returns(r, <<>>) ELSE GoesTo(r, "dns")
        /\ UNCHANGED dirs
  /\ UNCHANGED <<tables, dropIn>>

(* DNSProxy.Start, the first half of Enforcer.Start; it looks at the context. *)
StartDns(r) ==
  /\ At(r, "dns")
  /\ \/ ~ run[r].signalled /\ GoesTo(r, "setup")
     \/ Returns(r, Undo)
  /\ UNCHANGED <<tables, dirs, dropIn>>

(* Mutant: "add table", which takes a table that exists. *)
CreateAny(r) == TRUE

(* "create table" fails on a table that exists. *)
Create(r) == tables[run[r].id] = {}

(* nftFirewall.Setup runs nft under the run's context; audit mode has no filter. *)
Setup(r) ==
  /\ At(r, "setup")
  /\ \/ /\ ~ run[r].block
        /\ Becomes(r, [run[r] EXCEPT !.pc = "collector", !.todo = Undo \o @])
        /\ UNCHANGED tables
     \/ /\ run[r].block /\ Create(r) /\ ~ run[r].signalled
        /\ tables' = [tables EXCEPT ![run[r].id] = @ \union {r}]
        /\ Becomes(r, [run[r] EXCEPT !.pc = "probe", !.upDone = TRUE, !.todo = Undo \o @])
     \/ run[r].block /\ Returns(r, Undo) /\ UNCHANGED tables
     \/ /\ run[r].block /\ Create(r) /\ run[r].signalled /\ "nftCut" \in Faults
        /\ tables' = [tables EXCEPT ![run[r].id] = @ \union {r}]
        /\ Becomes(r, [run[r] EXCEPT !.pc = "cleanup", !.exit = "other",
                                     !.todo = Undo \o @, !.cut = TRUE])
  /\ UNCHANGED <<dirs, dropIn>>

(* Mutant: that the probe's packet was sent is enough. *)
ProbeSent(r) == ~ run[r].signalled

(* runSelfProbe: the canary's drop counter moved. *)
ProbePasses(r) == run[r].matches /\ ~ run[r].signalled

SelfProbe(r) ==
  /\ At(r, "probe")
  /\ \/ ProbePasses(r) /\ GoesTo(r, "collector")
     \/ Returns(r, <<>>)
  /\ UNCHANGED <<tables, dirs, dropIn>>

NewCollector(r) ==
  /\ At(r, "collector")
  /\ GoesTo(r, "resolv") \/ Returns(r, <<>>)
  /\ UNCHANGED <<tables, dirs, dropIn>>

(* writeRunResolvConf; audit mode goes on without. *)
WriteResolvConf(r) ==
  /\ At(r, "resolv")
  /\ \/ Becomes(r, [run[r] EXCEPT !.pc = "launch1", !.resolv = TRUE, !.todo = <<"unresolv">> \o @])
     \/ IF run[r].block THEN Returns(r, <<>>) ELSE GoesTo(r, "launch1")
  /\ UNCHANGED <<tables, dirs, dropIn>>

-----------------------------------------------------------------------------
Launches == {"launch1", "launch2", "launch3"}
HasCgroup(r) == run[r].cg # "none"

(* Mutant: a start outside the cgroup always counts as unscoped. *)
InScopeNever(r) == HasCgroup(r) /\ ~ At(r, "launch3")

(* What runCommand returns when this attempt starts. *)
InScope(r) == HasCgroup(r) /\ (At(r, "launch3") => run[r].widened # Probes)

(* runCommand: exec.Cmd.Start, which fails once the context is cancelled. *)
Launch(r) ==
  /\ run[r].pc \in Launches /\ ~ run[r].signalled
  /\ Becomes(r, [run[r] EXCEPT
       !.pc = "wait",
       !.place = IF HasCgroup(r) /\ ~ At(r, "launch3") THEN "cgroup" ELSE "host",
       !.child = IF run[r].block \/ (At(r, "launch1") /\ run[r].resolv)
                 THEN "trampoline" ELSE "build",
       !.inScope = InScope(r)])
  /\ UNCHANGED <<tables, dirs, dropIn>>

(* Audit mode tries again: without the mount namespace, then outside the
   cgroup.  Otherwise exit code 127. *)
LaunchFails(r) ==
  /\ run[r].pc \in Launches
  /\ IF run[r].block \/ At(r, "launch3")
     THEN Becomes(r, [run[r] EXCEPT !.pc = "reap", !.code = "other", !.inScope = HasCgroup(r)])
     ELSE GoesTo(r, IF At(r, "launch1") THEN "launch2" ELSE "unscope")
  /\ UNCHANGED <<tables, dirs, dropIn>>

(* Before the last attempt the probes widen to the host, map by map. *)
Unscope(r) ==
  /\ At(r, "unscope")
  /\ \E done \in SUBSET Probes :
       /\ done \in {{}, Probes} \/ "partialScope" \in Faults
       /\ ~ HasCgroup(r) => done = {}
       /\ Becomes(r, [run[r] EXCEPT !.pc = "launch3", !.widened = done])
  /\ UNCHANGED <<tables, dirs, dropIn>>

MayExec(r) == run[r].block => run[r].guards = Guards

MoreGuards(r) == run[r].guards < (IF run[r].block THEN Guards ELSE 1)

(* execGuarded step by step; __exec-pinned does the first step if it can. *)
Trampoline(r) ==
  /\ run[r].child = "trampoline"
  /\ \/ MoreGuards(r) /\ Becomes(r, [run[r] EXCEPT !.guards = @ + 1])
     \/ MayExec(r) /\ Becomes(r, [run[r] EXCEPT !.child = "build"])
     \/ Becomes(r, [run[r] EXCEPT !.child = "gone", !.code = "other"])
  /\ UNCHANGED <<tables, dirs, dropIn>>

BuildForks(r) ==
  /\ run[r].child = "build" /\ run[r].stray = "none"
  /\ \E s \in {"group", "session"} : Becomes(r, [run[r] EXCEPT !.stray = s])
  /\ UNCHANGED <<tables, dirs, dropIn>>

(* An audit build is root, so it may move itself to another cgroup; all of it
   does here, which leaves the most of it alive. *)
BuildLeaves(r) ==
  /\ ~ run[r].block /\ BuildCode(r) /\ run[r].place = "cgroup"
  /\ Becomes(r, [run[r] EXCEPT !.place = "left"])
  /\ UNCHANGED <<tables, dirs, dropIn>>

BuildEnds(r) ==
  /\ \/ /\ run[r].child = "build"
        /\ \E c \in {"zero", "other"} : Becomes(r, [run[r] EXCEPT !.child = "gone", !.code = c])
     \/ run[r].stray # "none" /\ Becomes(r, [run[r] EXCEPT !.stray = "none"])
  /\ UNCHANGED <<tables, dirs, dropIn>>

(* The build may write wherever its user may, the report included. *)
BuildOverwrites(r) ==
  /\ BuildCode(r) /\ run[r].report = "written"
  /\ Becomes(r, [run[r] EXCEPT !.report = "forged"])
  /\ UNCHANGED <<tables, dirs, dropIn>>

(* Mutant: exec.Command in place of exec.CommandContext. *)
ContextKillsNever(r) == FALSE /\ UNCHANGED vars

(* exec.CommandContext: a cancelled context kills the child, not its children. *)
ContextKills(r) ==
  /\ At(r, "wait") /\ run[r].signalled /\ run[r].child \in {"trampoline", "build"}
  /\ Becomes(r, [run[r] EXCEPT !.child = "gone", !.code = "other"])
  /\ UNCHANGED <<tables, dirs, dropIn>>

(* Wait returns; audit mode kills what is left of the process group. *)
Wait(r) ==
  /\ At(r, "wait") /\ run[r].child = "gone"
  /\ Becomes(r, [run[r] EXCEPT !.pc = "reap",
                  !.stray = IF ~ run[r].block /\ @ = "group" THEN "none" ELSE @])
  /\ UNCHANGED <<tables, dirs, dropIn>>

-----------------------------------------------------------------------------
(* buildCgroup.Kill through cgroup.kill, which is atomic (CgroupKill has the
   other way) and misses a build that has left, with r in the state next. *)
Kills(r, next) ==
  LET Member(q) == HasCgroup(r) /\ run[q].place = "cgroup"
                   /\ run[q].cg = run[r].cg /\ run[q].id = run[r].id
  IN  run' = [q \in Runs |->
        LET s == IF q = r THEN next ELSE run[q] IN
        IF Member(q)
        THEN [s EXCEPT !.stray = "none", !.child = "gone",
                       !.code = IF s.child = "gone" THEN @ ELSE "other"]
        ELSE s]

(* Mutant: the report is written without reaping the build. *)
ReapNothing(r) == At(r, "reap") /\ GoesTo(r, "report") /\ UNCHANGED <<tables, dirs, dropIn>>

(* KillBuild; then Close, Wait and Finish of collector and monitor. *)
Reap(r) ==
  /\ At(r, "reap")
  /\ Kills(r, [run[r] EXCEPT !.pc = "report"])
  /\ UNCHANGED <<tables, dirs, dropIn>>

(* Mutant: the build's own exit code, whether or not the report was written. *)
ExitIgnoringReport(r, written) == run[r].code

(* A report that was not written is fatal. *)
ExitCode(r, written) == IF written THEN run[r].code ELSE "other"

WriteReport(r) ==
  /\ At(r, "report")
  /\ \E written \in BOOLEAN :
       Becomes(r, [run[r] EXCEPT !.pc = "cleanup", !.exit = ExitCode(r, written),
                                 !.report = IF written THEN "written" ELSE "failed"])
  /\ UNCHANGED <<tables, dirs, dropIn>>

Cleanup(r, what) == At(r, "cleanup") /\ run[r].todo # <<>> /\ Head(run[r].todo) = what
Popped(r) == [run[r] EXCEPT !.todo = Tail(@)]

(* nftFirewall.Teardown: first the processes ... *)
TeardownKills(r) ==
  /\ Cleanup(r, "kill")
  /\ IF run[r].block THEN Kills(r, Popped(r)) ELSE Becomes(r, Popped(r))
  /\ UNCHANGED <<tables, dirs, dropIn>>

Deletes(r) == run[r].upDone

(* ... then the table, if Setup returned without an error. *)
TeardownDeletes(r) ==
  /\ Cleanup(r, "delete")
  /\ \/ /\ Deletes(r)
        /\ tables' = [tables EXCEPT ![run[r].id] = {}]
        /\ Becomes(r, [Popped(r) EXCEPT !.upDone = FALSE])
     \/ /\ Deletes(r) /\ "sticky" \in Faults
        /\ Becomes(r, [Popped(r) EXCEPT !.upDone = FALSE, !.residue = TRUE])
        /\ UNCHANGED tables
     \/ ~ Deletes(r) /\ Becomes(r, Popped(r)) /\ UNCHANGED tables
  /\ UNCHANGED <<dirs, dropIn>>

(* buildCgroup.Close: Kill, then rmdir with retries. *)
CloseCgroup(r) ==
  /\ Cleanup(r, "close")
  /\ \/ /\ Kills(r, Popped(r))
        /\ dirs' = dirs \ {<< run[r].cg, run[r].id >>}
     \/ /\ HasCgroup(r) /\ "sticky" \in Faults
        /\ Kills(r, [Popped(r) EXCEPT !.residue = TRUE])
        /\ UNCHANGED dirs
  /\ UNCHANGED <<tables, dropIn>>

RemoveResolvConf(r) ==
  /\ Cleanup(r, "unresolv")
  /\ Becomes(r, [Popped(r) EXCEPT !.resolv = FALSE])
  /\ UNCHANGED <<tables, dirs, dropIn>>

RestoreSudo(r) ==
  /\ Cleanup(r, "restore")
  /\ Becomes(r, Popped(r)) /\ dropIn' = "absent"
  /\ UNCHANGED <<tables, dirs>>

Exit(r) ==
  /\ At(r, "cleanup") /\ run[r].todo = <<>>
  /\ GoesTo(r, "exited")
  /\ UNCHANGED <<tables, dirs, dropIn>>

-----------------------------------------------------------------------------
(* SIGINT or SIGTERM; the context stays cancelled. *)
Signal(r) ==
  /\ "signal" \in Faults /\ ~ Ended(r) /\ ~ run[r].signalled
  /\ Becomes(r, [run[r] EXCEPT !.signalled = TRUE])
  /\ UNCHANGED <<tables, dirs, dropIn>>

(* Egret dies (SIGKILL, OOM, panic); its children live on. *)
Crash(r) ==
  /\ "crash" \in Faults /\ ~ Ended(r)
  /\ GoesTo(r, "crashed")
  /\ UNCHANGED <<tables, dirs, dropIn>>

Finished == (\A r \in Runs : Ended(r)) /\ UNCHANGED vars

Prepare(r) ==
  \/ Refuse(r) \/ Start(r) \/ WriteDropIn(r) \/ Visudo(r) \/ New(r) \/ StartDns(r)
  \/ Setup(r) \/ SelfProbe(r) \/ NewCollector(r) \/ WriteResolvConf(r)
Command(r) == Launch(r) \/ LaunchFails(r) \/ Unscope(r) \/ Wait(r) \/ Reap(r) \/ WriteReport(r)
Defers(r) ==
  \/ TeardownKills(r) \/ TeardownDeletes(r) \/ CloseCgroup(r)
  \/ RemoveResolvConf(r) \/ RestoreSudo(r) \/ Exit(r)
EgretStep(r) == Prepare(r) \/ Command(r) \/ Defers(r)
BuildStep(r) ==
  Trampoline(r) \/ BuildForks(r) \/ BuildLeaves(r) \/ BuildEnds(r) \/ BuildOverwrites(r)

Next ==
  \/ \E r \in Runs : EgretStep(r) \/ BuildStep(r) \/ ContextKills(r) \/ Signal(r) \/ Crash(r)
  \/ Finished

Spec == Init /\ [][Next]_vars

(* Egret's goroutines are scheduled; the build owes nothing. *)
FairSpec == Spec /\ \A r \in Runs : WF_vars(EgretStep(r)) /\ WF_vars(ContextKills(r))

-----------------------------------------------------------------------------
RunType ==
  [ pc : {"start", "sudo", "visudo", "new", "dns", "setup", "probe", "collector", "resolv",
          "launch1", "launch2", "unscope", "launch3", "wait", "reap", "report", "cleanup",
          "exited", "crashed"},
    block : BOOLEAN, sudoOff : BOOLEAN, id : Ids, matches : BOOLEAN, signalled : BOOLEAN,
    todo : Seq({"kill", "delete", "close", "unresolv", "restore"}),
    upDone : BOOLEAN, cg : Bases \union {"none"}, resolv : BOOLEAN,
    child : {"none", "trampoline", "build", "gone"}, guards : 0..Guards,
    stray : {"none", "group", "session"}, place : {"none", "cgroup", "host", "left"},
    code : {"none", "zero", "other"}, widened : SUBSET Probes, inScope : BOOLEAN,
    report : {"none", "written", "failed", "forged"}, exit : {"none", "zero", "other"},
    residue : BOOLEAN, cut : BOOLEAN ]

TypeOK ==
  /\ run \in [Runs -> RunType]
  /\ tables \in [Ids -> SUBSET Runs]
  /\ dirs \subseteq Bases \X Ids
  /\ dropIn \in {"absent", "unvalidated", "valid"}

(* In block mode no instruction of the build runs outside a filter that works:
   its cgroup exists, its table is installed and matches, and the trampoline
   finished.  This holds through every failure, signal, crash of Egret and
   other run on the host, and until the last process is dead. *)
BuildConfined ==
  \A r \in Runs : run[r].block /\ BuildCode(r) =>
    /\ r \in tables[run[r].id] /\ run[r].matches
    /\ run[r].place = "cgroup" /\ << run[r].cg, run[r].id >> \in dirs
    /\ run[r].guards = Guards

(* A run whose own tools work leaves the host as it was, wherever it stopped,
   and no process in its cgroup. *)
HostRestored ==
  \A r \in Runs : At(r, "exited") /\ ~ run[r].residue /\ ~ run[r].cut =>
    /\ r \notin tables[run[r].id]
    /\ << run[r].cg, run[r].id >> \notin dirs
    /\ ~ run[r].resolv
    /\ run[r].place = "cgroup" => ~ BuildCode(r)
    /\ dropIn = "absent"

(* "the build never runs with the sudo the operator asked to remove"
   (disable_sudo_linux.go): also not after Egret died. *)
SudoRevoked ==
  \A r \in Runs : run[r].sudoOff /\ BuildCode(r) => dropIn # "absent"

(* What the consumers of report.json read is what Egret wrote: always in block
   mode, and in audit mode, which is no boundary against a build that leaves its
   cgroup (CHANGELOG.md), as long as the build ran in the cgroup and stayed
   there.  Nothing of such a build is alive once the report is there. *)
ReportIsEgrets ==
  \A r \in Runs : run[r].report = "forged" => ~ run[r].block /\ run[r].place # "cgroup"

(* Exit code zero is a claim: the build ran to its end, returned zero, and
   there is a report of it. *)
ExitZeroIsEarned ==
  \A r \in Runs : run[r].exit = "zero" =>
    run[r].code = "zero" /\ run[r].child = "gone" /\ run[r].report \in {"written", "forged"}

(* Monitor.Finish: a scoped run without an exec is flagged. *)
Sees(r, probe) == ~ HasCgroup(r) \/ probe \in run[r].widened \/ run[r].place = "cgroup"
Flagged(r) == run[r].inScope /\ ~ Sees(r, "process")

(* A report that is not flagged comes from probes that all saw the build,
   whichever fallback started it, unless it left its cgroup later. *)
CoverageHonest ==
  \A r \in Runs : run[r].report = "written" /\ run[r].place \in {"cgroup", "host"} /\ ~ Flagged(r) =>
    \A p \in Probes : Sees(r, p)

(* Two runs that drew the same id still share neither cgroup nor table. *)
Owns(r) ==
  /\ HasCgroup(r) /\ ~ Ended(r)
  /\ At(r, "cleanup") => \E i \in DOMAIN run[r].todo : run[r].todo[i] = "close"

RunsIndependent ==
  \A r, q \in Runs : r # q =>
    /\ Owns(r) /\ Owns(q) => << run[r].cg, run[r].id >> # << run[q].cg, run[q].id >>
    /\ run[r].upDone => tables[run[r].id] = {r}

(* A signal ends the run, wherever it hits and whatever the build does. *)
EndsOnSignal == \A r \in Runs : run[r].signalled ~> Ended(r)
=============================================================================
