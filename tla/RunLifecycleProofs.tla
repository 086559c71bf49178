-------------------------- MODULE RunLifecycleProofs --------------------------
(***************************************************************************)
(* Runs on one host do not touch what belongs to another, and in block mode *)
(* no code of a build runs unconfined; the exit code, the report and the    *)
(* coverage it claims are earned, for any number of runs, ids and faults,   *)
(* and the sudo a run removed and the host are restored while no other run  *)
(* is in the way.                                                           *)
(***************************************************************************)
EXTENDS RunLifecycle, SequenceTheorems, TLAPS

Cleanups == {"kill", "delete", "close", "unresolv", "restore"}

HasClose(todo) == \E i \in DOMAIN todo : todo[i] = "close"
OneClose(todo) == \A i, j \in DOMAIN todo : todo[i] = "close" /\ todo[j] = "close" => i = j

(* The cgroup is released once, and by the Undo that Enforcer.Start pushes. *)
TodoInv(s) ==
  /\ s.pc \in {"start", "sudo", "visudo", "new", "dns", "setup"} => ~ HasClose(s.todo)
  /\ OneClose(s.todo)

Live(s) == s.child \in {"trampoline", "build"} \/ s.stray # "none"
Code(s) == s.child = "build" \/ s.stray # "none"

(* What a run in block mode has done when it is at a step, and that nothing of
   its build is alive outside the steps between launch and reap, or its death. *)
BlockInv(s) ==
  s.block =>
    /\ s.pc \notin {"launch2", "unscope", "launch3"}
    /\ s.pc \in {"dns", "setup", "probe", "collector", "resolv", "launch1", "wait", "reap"} => s.cg # "none"
    /\ s.pc \in {"probe", "collector", "resolv", "launch1", "wait", "reap"} => s.upDone
    /\ s.pc \in {"collector", "resolv", "launch1", "wait", "reap"} => s.matches
    /\ Live(s) => /\ s.pc \in {"wait", "reap", "crashed"} /\ s.upDone /\ s.matches
                  /\ s.cg # "none" /\ s.place = "cgroup"
    /\ s.child = "trampoline" => s.stray = "none"
    /\ Code(s) => s.guards = Guards

(* A record with the fields the invariant speaks of. *)
Fields == {"pc", "block", "id", "matches", "todo", "upDone", "cg", "child", "guards",
           "stray", "place"}

Typed(s) ==
  /\ s = [f \in DOMAIN s |-> s[f]] /\ Fields \subseteq DOMAIN s
  /\ s.id \in Ids /\ s.todo \in Seq(Cleanups)

Sound(s) == Typed(s) /\ TodoInv(s) /\ BlockInv(s)

(* The run has its cgroup still to release, or died with a live build in it. *)
Claim(s) ==
  /\ s.cg # "none"
  /\ \/ s.pc \notin {"exited", "crashed"} /\ (s.pc = "cleanup" => HasClose(s.todo))
     \/ s.block /\ Live(s)

HostInv ==
  /\ \A r \in Runs : Claim(run[r]) => << run[r].cg, run[r].id >> \in dirs
  /\ \A r, q \in Runs : r # q /\ Claim(run[r]) /\ Claim(run[q]) =>
       << run[r].cg, run[r].id >> # << run[q].cg, run[q].id >>
  /\ \A r \in Runs : run[r].upDone => tables[run[r].id] = {r}

LifecycleInv ==
  /\ run = [r \in Runs |-> run[r]] /\ tables = [i \in Ids |-> tables[i]]
  /\ \A r \in Runs : Sound(run[r])
  /\ HostInv

-----------------------------------------------------------------------------
(* The deferred cleanups as a stack. *)
LEMMA PopTodo ==
  ASSUME NEW t \in Seq(Cleanups), t # <<>>
  PROVE  /\ Tail(t) \in Seq(Cleanups)
         /\ HasClose(Tail(t)) => HasClose(t)
         /\ OneClose(t) => OneClose(Tail(t))
         /\ OneClose(t) /\ Head(t) = "close" => ~ HasClose(Tail(t))
<1>1. /\ Tail(t) \in Seq(Cleanups) /\ Head(t) = t[1]
      /\ Len(t) \in Nat /\ Len(t) > 0
      /\ DOMAIN t = 1..Len(t) /\ DOMAIN Tail(t) = 1..(Len(t) - 1)
      /\ \A i \in 1..(Len(t) - 1) : Tail(t)[i] = t[i + 1]
  OBVIOUS
<1>2. ASSUME NEW i \in DOMAIN Tail(t)
      PROVE  i + 1 \in DOMAIN t /\ i + 1 # 1 /\ Tail(t)[i] = t[i + 1]
  BY <1>1
<1>3. HasClose(Tail(t)) => HasClose(t)
  BY <1>2 DEF HasClose
<1>4. OneClose(t) => OneClose(Tail(t))
  BY <1>1, <1>2 DEF OneClose
<1>5. ASSUME OneClose(t), Head(t) = "close", HasClose(Tail(t)) PROVE FALSE
  <2>1. PICK i \in DOMAIN Tail(t) : Tail(t)[i] = "close"
    BY <1>5 DEF HasClose
  <2>2. 1 \in DOMAIN t /\ t[1] = "close"
    BY <1>1, <1>5
  <2> QED BY <1>2, <1>5, <2>1, <2>2 DEF OneClose
<1> QED BY <1>1, <1>3, <1>4, <1>5

(* One cleanup that is not the cgroup's is deferred. *)
LEMMA PushTodo ==
  ASSUME NEW t \in Seq(Cleanups), NEW c \in Cleanups \ {"close"}
  PROVE  /\ <<c>> \o t \in Seq(Cleanups)
         /\ HasClose(<<c>> \o t) <=> HasClose(t)
         /\ OneClose(t) => OneClose(<<c>> \o t)
<1> DEFINE u == <<c>> \o t
<1>1. /\ <<c>> \in Seq(Cleanups) /\ Len(<<c>>) = 1 /\ <<c>>[1] = c
      /\ Len(t) \in Nat /\ DOMAIN t = 1..Len(t)
  OBVIOUS
<1>2. /\ u \in Seq(Cleanups) /\ Len(u) = 1 + Len(t)
      /\ \A i \in 1..(1 + Len(t)) : u[i] = IF i <= 1 THEN <<c>>[i] ELSE t[i - 1]
  BY <1>1, ConcatProperties
<1> HIDE DEF u
<1>3. DOMAIN u = 1..(1 + Len(t)) /\ u[1] # "close"
  BY <1>1, <1>2
<1>4. ASSUME NEW i \in DOMAIN u, i # 1 PROVE i - 1 \in DOMAIN t /\ u[i] = t[i - 1]
  BY <1>1, <1>2, <1>3, <1>4
<1>5. ASSUME NEW i \in DOMAIN t PROVE i + 1 \in DOMAIN u /\ u[i + 1] = t[i]
  <2>1. i \in Nat /\ i >= 1 /\ i <= Len(t)
    BY <1>1
  <2>2. i + 1 \in 1..(1 + Len(t)) /\ ~ (i + 1 <= 1) /\ i + 1 - 1 = i
    BY <1>1, <2>1
  <2> QED BY <1>2, <1>3, <2>2
<1>6. HasClose(u) <=> HasClose(t)
  BY <1>3, <1>4, <1>5 DEF HasClose
<1>7. OneClose(t) => OneClose(u)
  <2> SUFFICES ASSUME OneClose(t), NEW i \in DOMAIN u, NEW j \in DOMAIN u,
                      u[i] = "close", u[j] = "close"
               PROVE  i = j
    BY DEF OneClose
  <2>1. i - 1 \in DOMAIN t /\ t[i - 1] = "close" /\ j - 1 \in DOMAIN t /\ t[j - 1] = "close"
    BY <1>3, <1>4
  <2>2. i - 1 = j - 1
    BY <2>1 DEF OneClose
  <2>3. i \in Int /\ j \in Int
    BY <1>1, <1>3
  <2> QED BY <2>2, <2>3
<1> QED BY <1>2, <1>6, <1>7 DEF u

LEMMA PushUndo ==
  ASSUME NEW t \in Seq(Cleanups)
  PROVE  /\ Undo \o t \in Seq(Cleanups)
         /\ HasClose(Undo \o t)
         /\ ~ HasClose(t) => OneClose(Undo \o t)
<1> DEFINE u == Undo \o t
<1>1. /\ Undo \in Seq(Cleanups) /\ Len(Undo) = 3
      /\ Undo[1] = "kill" /\ Undo[2] = "delete" /\ Undo[3] = "close"
      /\ Len(t) \in Nat /\ DOMAIN t = 1..Len(t)
  BY DEF Undo, Cleanups
<1>2. /\ u \in Seq(Cleanups) /\ Len(u) = 3 + Len(t)
      /\ \A i \in 1..(3 + Len(t)) : u[i] = IF i <= 3 THEN Undo[i] ELSE t[i - 3]
  <2>1. /\ u \in Seq(Cleanups) /\ Len(u) = Len(Undo) + Len(t)
        /\ \A i \in 1..(Len(Undo) + Len(t)) :
             u[i] = IF i <= Len(Undo) THEN Undo[i] ELSE t[i - Len(Undo)]
    BY <1>1, ConcatProperties
  <2> HIDE DEF u
  <2> QED BY <1>1, <2>1
<1> HIDE DEF u
<1>3. DOMAIN u = 1..(3 + Len(t)) /\ u[3] = "close"
  BY <1>1, <1>2
<1>4. ASSUME ~ HasClose(t), NEW i \in DOMAIN u, u[i] = "close" PROVE i = 3
  <2>1. i > 3 => i - 3 \in DOMAIN t /\ u[i] = t[i - 3]
    BY <1>1, <1>2, <1>3
  <2>2. ~ (i > 3)
    BY <1>4, <2>1 DEF HasClose
  <2>3. i \in {1, 2, 3}
    BY <1>1, <1>3, <2>2
  <2> QED BY <1>1, <1>2, <1>4, <2>3
<1>5. HasClose(u)
  BY <1>1, <1>3 DEF HasClose
<1> QED BY <1>2, <1>4, <1>5 DEF u, OneClose

LEMMA NoCleanups ==
  ASSUME NEW t \in Seq(Cleanups) PROVE <<>> \o t = t
OBVIOUS

-----------------------------------------------------------------------------
LEMMA Facts ==
  ASSUME LifecycleInv, NEW r \in Runs
  PROVE  Typed(run[r]) /\ TodoInv(run[r]) /\ BlockInv(run[r])
BY DEF LifecycleInv, Sound

(* What a run may become without a claim on anything it had no claim on. *)
Keeps(s, t) ==
  Sound(t) /\ t.id = s.id /\ t.cg = s.cg /\ (Claim(t) => Claim(s))

(* Steps of any number of runs at once that claim nothing new: what is left to
   show is about tables and cgroups. *)
LEMMA AnyStep ==
  ASSUME LifecycleInv, run' = [q \in Runs |-> run'[q]], tables' = [i \in Ids |-> tables'[i]],
         \A q \in Runs : /\ Keeps(run[q], run'[q])
                         /\ run'[q].upDone => tables'[run'[q].id] = {q}
                         /\ Claim(run'[q]) => << run'[q].cg, run'[q].id >> \in dirs'
  PROVE  LifecycleInv'
<1>1. \A q \in Runs : /\ Claim(run[q])' => Claim(run[q])
                      /\ << run[q].cg, run[q].id >>' = << run[q].cg, run[q].id >>
  BY DEF Keeps
<1>2. HostInv'
  <2>1. \A q \in Runs : Claim(run[q])' => << run[q].cg, run[q].id >>' \in dirs'
    OBVIOUS
  <2>2. \A q, o \in Runs : q # o /\ Claim(run[q])' /\ Claim(run[o])' =>
          << run[q].cg, run[q].id >>' # << run[o].cg, run[o].id >>'
    BY <1>1 DEF HostInv, LifecycleInv
  <2> QED BY <2>1, <2>2 DEF HostInv
<1>3. \A q \in Runs : Sound(run[q])'
  BY DEF Keeps
<1>4. (run = [r \in Runs |-> run[r]])' /\ (tables = [i \in Ids |-> tables[i]])'
  OBVIOUS
<1> QED BY <1>2, <1>3, <1>4 DEF LifecycleInv

(* Only runs change, and none gets a table. *)
LEMMA QuietStep ==
  ASSUME LifecycleInv, run' = [q \in Runs |-> run'[q]], tables' = tables, dirs' = dirs,
         \A q \in Runs : Keeps(run[q], run'[q]) /\ (run'[q].upDone => run[q].upDone)
  PROVE  LifecycleInv'
<1>1. tables' = [i \in Ids |-> tables'[i]]
  BY DEF LifecycleInv
<1>2. \A q \in Runs : run'[q].upDone => tables'[run'[q].id] = {q}
  BY DEF LifecycleInv, HostInv, Keeps
<1>3. \A q \in Runs : Claim(run'[q]) => << run'[q].cg, run'[q].id >> \in dirs'
  BY DEF LifecycleInv, HostInv, Keeps
<1> QED BY <1>1, <1>2, <1>3, AnyStep

LEMMA Others ==
  ASSUME LifecycleInv, NEW r \in Runs, NEW s, Becomes(r, s)
  PROVE  /\ run' = [q \in Runs |-> run'[q]] /\ run'[r] = s
         /\ \A q \in Runs \ {r} : run'[q] = run[q] /\ Keeps(run[q], run'[q])
<1>1. run = [q \in Runs |-> run[q]]
  BY DEF LifecycleInv
<1> QED BY <1>1 DEF Becomes, LifecycleInv, Keeps

(* One run changes, and nothing it shares with others. *)
LEMMA LocalStep ==
  ASSUME LifecycleInv, NEW r \in Runs, NEW s, Becomes(r, s), tables' = tables, dirs' = dirs,
         Keeps(run[r], s), s.upDone => run[r].upDone
  PROVE  LifecycleInv'
<1>1. \A q \in Runs : Keeps(run[q], run'[q]) /\ (run'[q].upDone => run[q].upDone)
  BY Others
<1> QED BY <1>1, Others, QuietStep

-----------------------------------------------------------------------------
(* executeRun returns with an error, before or after the Enforcer started. *)
LEMMA ReturnStep ==
  ASSUME LifecycleInv, NEW r \in Runs, Returns(r, <<>>), tables' = tables, dirs' = dirs,
         run[r].pc \in {"start", "sudo", "visudo", "new", "probe", "collector", "resolv"}
  PROVE  LifecycleInv'
<1>1. Typed(run[r]) /\ TodoInv(run[r]) /\ BlockInv(run[r])
  BY Facts
<1> DEFINE s == [run[r] EXCEPT !.pc = "cleanup", !.exit = "other", !.todo = <<>> \o @]
<1>2. s.todo = run[r].todo
  BY <1>1, NoCleanups DEF Typed, Fields
<1>3. Keeps(run[r], s) /\ s.upDone = run[r].upDone
  BY <1>1, <1>2 DEF Keeps, Sound, Typed, Fields, TodoInv, BlockInv, Live, Code, Claim
<1> QED BY <1>3, LocalStep DEF Returns

(* It returns while the Enforcer starts, which is rolled back. *)
LEMMA RollbackStep ==
  ASSUME LifecycleInv, NEW r \in Runs, Returns(r, Undo), tables' = tables, dirs' = dirs,
         run[r].pc \in {"dns", "setup"}
  PROVE  LifecycleInv'
<1>1. Typed(run[r]) /\ TodoInv(run[r]) /\ BlockInv(run[r])
  BY Facts
<1> DEFINE s == [run[r] EXCEPT !.pc = "cleanup", !.exit = "other", !.todo = Undo \o @]
<1>2. s.todo = Undo \o run[r].todo
  BY <1>1 DEF Typed, Fields
<1>3. s.todo \in Seq(Cleanups) /\ OneClose(s.todo)
  BY <1>1, <1>2, PushUndo DEF TodoInv, Typed
<1>4. Keeps(run[r], s) /\ s.upDone = run[r].upDone
  BY <1>1, <1>3 DEF Keeps, Sound, Typed, Fields, TodoInv, BlockInv, Live, Code, Claim
<1> QED BY <1>4, LocalStep DEF Returns

-----------------------------------------------------------------------------
(* Set-up, up to the cgroup. *)
LEMMA EarlySteps ==
  ASSUME LifecycleInv, NEW r \in Runs,
         Refuse(r) \/ Start(r) \/ WriteDropIn(r) \/ Visudo(r) \/ StartDns(r)
  PROVE  LifecycleInv'
<1>1. Typed(run[r]) /\ TodoInv(run[r]) /\ BlockInv(run[r])
  BY Facts
<1>2. CASE Refuse(r)
  BY <1>2, ReturnStep DEF Refuse, At
<1>3. CASE Start(r)
  <2> DEFINE s == [run[r] EXCEPT !.pc = IF run[r].sudoOff THEN "sudo" ELSE "new"]
  <2>1. run[r].pc = "start" /\ Becomes(r, s) /\ tables' = tables /\ dirs' = dirs
    BY <1>3 DEF Start, At, GoesTo
  <2>2. Keeps(run[r], s) /\ s.upDone = run[r].upDone
    BY <1>1, <2>1 DEF Keeps, Sound, Typed, Fields, TodoInv, BlockInv, Live, Code, Claim
  <2> QED BY <2>1, <2>2, LocalStep
<1>4. CASE WriteDropIn(r)
  <2>1. run[r].pc = "sudo" /\ tables' = tables /\ dirs' = dirs
    BY <1>4 DEF WriteDropIn, At
  <2>2. CASE Returns(r, <<>>)
    BY <2>1, <2>2, ReturnStep
  <2>3. ASSUME NEW s, Becomes(r, s),
               \/ s = [run[r] EXCEPT !.pc = "visudo"]
               \/ s = [run[r] EXCEPT !.pc = "cleanup", !.exit = "other", !.residue = TRUE]
        PROVE  LifecycleInv'
    <3>1. Keeps(run[r], s) /\ s.upDone = run[r].upDone
      BY <1>1, <2>1, <2>3, ZenonT(60) DEF Keeps, Sound, Typed, Fields, TodoInv, BlockInv, Live, Code, Claim
    <3> QED BY <2>1, <2>3, <3>1, LocalStep
  <2> QED BY <1>4, <2>2, <2>3 DEF WriteDropIn, GoesTo
<1>5. CASE Visudo(r)
  <2>1. run[r].pc = "visudo" /\ tables' = tables /\ dirs' = dirs
    BY <1>5 DEF Visudo, At
  <2>2. CASE Returns(r, <<>>)
    BY <2>1, <2>2, ReturnStep
  <2> DEFINE s == [run[r] EXCEPT !.pc = "new", !.todo = <<"restore">> \o @]
  <2>3. CASE Becomes(r, s)
    <3>1. s.todo = <<"restore">> \o run[r].todo
      BY <1>1 DEF Typed, Fields
    <3>2. s.todo \in Seq(Cleanups) /\ OneClose(s.todo) /\ (HasClose(s.todo) <=> HasClose(run[r].todo))
      BY <1>1, <3>1, PushTodo DEF TodoInv, Typed, Cleanups
    <3>3. Keeps(run[r], s) /\ s.upDone = run[r].upDone
      BY <1>1, <2>1, <3>2 DEF Keeps, Sound, Typed, Fields, TodoInv, BlockInv, Live, Code, Claim
    <3> QED BY <2>1, <2>3, <3>3, LocalStep
  <2> QED BY <1>5, <2>2, <2>3 DEF Visudo
<1>6. CASE StartDns(r)
  <2>1. run[r].pc = "dns" /\ tables' = tables /\ dirs' = dirs
    BY <1>6 DEF StartDns, At
  <2>2. CASE Returns(r, Undo)
    BY <2>1, <2>2, RollbackStep
  <2> DEFINE s == [run[r] EXCEPT !.pc = "setup"]
  <2>3. CASE Becomes(r, s)
    <3>1. Keeps(run[r], s) /\ s.upDone = run[r].upDone
      BY <1>1, <2>1 DEF Keeps, Sound, Typed, Fields, TodoInv, BlockInv, Live, Code, Claim
    <3> QED BY <2>1, <2>3, <3>1, LocalStep
  <2> QED BY <1>6, <2>2, <2>3 DEF StartDns, GoesTo
<1> QED BY <1>2, <1>3, <1>4, <1>5, <1>6

(* enforcer.New: only a directory that did not exist becomes a run's own. *)
LEMMA NewStep ==
  ASSUME LifecycleInv, NEW r \in Runs, New(r)
  PROVE  LifecycleInv'
<1>1. Typed(run[r]) /\ TodoInv(run[r]) /\ BlockInv(run[r])
  BY Facts
<1>2. run[r].pc = "new" /\ tables' = tables
  BY DEF New, At
<1>3. ASSUME NEW base \in Bases, Mkdir(r, base),
             Becomes(r, [run[r] EXCEPT !.pc = "dns", !.cg = base]),
             dirs' = dirs \union {<< base, run[r].id >>}
      PROVE  LifecycleInv'
  <2> DEFINE s == [run[r] EXCEPT !.pc = "dns", !.cg = base]
  <2>1. base # "none"
    BY DEF Bases
  <2>2. /\ Sound(s) /\ s.id = run[r].id /\ s.upDone = run[r].upDone /\ s.cg = base
    BY <1>1, <1>2, <2>1 DEF Sound, Typed, Fields, TodoInv, BlockInv, Live, Code
  <2> HIDE DEF s
  <2>3. /\ run' = [q \in Runs |-> run'[q]] /\ run'[r] = s
        /\ \A q \in Runs \ {r} : run'[q] = run[q] /\ Keeps(run[q], run'[q])
    <3>1. Becomes(r, s)
      BY <1>3 DEF s
    <3> QED BY <3>1, Others
  <2>4. \A q \in Runs \ {r} : Claim(run[q]) => << run[q].cg, run[q].id >> # << base, run[r].id >>
    BY <1>3 DEF Mkdir, LifecycleInv, HostInv
  <2>5. \A q \in Runs : Claim(run'[q]) => << run'[q].cg, run'[q].id >> \in dirs'
    BY <1>3, <2>2, <2>3 DEF LifecycleInv, HostInv
  <2>6. \A q, o \in Runs : q # o /\ Claim(run'[q]) /\ Claim(run'[o]) =>
          << run'[q].cg, run'[q].id >> # << run'[o].cg, run'[o].id >>
    BY <2>2, <2>3, <2>4 DEF LifecycleInv, HostInv
  <2>7. \A q \in Runs : run'[q].upDone => tables'[run'[q].id] = {q}
    BY <1>2, <2>2, <2>3 DEF LifecycleInv, HostInv
  <2>8. \A q \in Runs : Sound(run'[q])
    BY <2>2, <2>3 DEF Keeps
  <2>9. tables' = [i \in Ids |-> tables'[i]]
    BY <1>2 DEF LifecycleInv
  <2>10. HostInv'
    BY <2>5, <2>6, <2>7 DEF HostInv
  <2>11. (\A q \in Runs : Sound(run[q]))' /\ (run = [q \in Runs |-> run[q]])'
         /\ (tables = [i \in Ids |-> tables[i]])'
    BY <2>3, <2>8, <2>9
  <2> QED BY <2>10, <2>11 DEF LifecycleInv
<1>4. CASE Returns(r, <<>>) /\ dirs' = dirs
  BY <1>2, <1>4, ReturnStep
<1>5. CASE ~ run[r].block /\ Becomes(r, [run[r] EXCEPT !.pc = "dns"]) /\ dirs' = dirs
  <2> DEFINE s == [run[r] EXCEPT !.pc = "dns"]
  <2>1. Keeps(run[r], s) /\ s.upDone = run[r].upDone
    BY <1>1, <1>2, <1>5 DEF Keeps, Sound, Typed, Fields, TodoInv, BlockInv, Live, Code, Claim
  <2> QED BY <1>2, <1>5, <2>1, LocalStep
<1> QED BY <1>3, <1>4, <1>5 DEF New, GoesTo

(* nftFirewall.Setup: only a table that did not exist becomes a run's own. *)
LEMMA SetupStep ==
  ASSUME LifecycleInv, NEW r \in Runs, Setup(r)
  PROVE  LifecycleInv'
<1>1. Typed(run[r]) /\ TodoInv(run[r]) /\ BlockInv(run[r])
  BY Facts
<1>2. run[r].pc = "setup" /\ dirs' = dirs
  BY DEF Setup, At
<1>3. CASE Returns(r, Undo) /\ tables' = tables
  BY <1>2, <1>3, RollbackStep
<1>4. ASSUME NEW s, Becomes(r, s),
             \/ /\ ~ run[r].block /\ tables' = tables
                /\ s = [run[r] EXCEPT !.pc = "collector", !.todo = Undo \o @]
             \/ /\ run[r].block /\ Create(r)
                /\ tables' = [tables EXCEPT ![run[r].id] = @ \union {r}]
                /\ \/ s = [run[r] EXCEPT !.pc = "probe", !.upDone = TRUE, !.todo = Undo \o @]
                   \/ s = [run[r] EXCEPT !.pc = "cleanup", !.exit = "other",
                                         !.todo = Undo \o @, !.cut = TRUE]
      PROVE  LifecycleInv'
  <2>1. s.todo = Undo \o run[r].todo
    BY <1>1, <1>4 DEF Typed, Fields
  <2>2. s.todo \in Seq(Cleanups) /\ OneClose(s.todo) /\ HasClose(s.todo)
    BY <1>1, <1>2, <2>1, PushUndo DEF TodoInv, Typed
  <2>3. Keeps(run[r], s)
    <3>1. Typed(s) /\ s.id = run[r].id /\ s.cg = run[r].cg /\ s.pc \in {"collector", "probe", "cleanup"}
      BY <1>1, <1>4, <2>2 DEF Typed, Fields
    <3>2. TodoInv(s)
      BY <2>2, <3>1 DEF TodoInv
    <3>3. BlockInv(s)
      BY <1>1, <1>2, <1>4 DEF Typed, Fields, BlockInv, Live, Code
    <3>4. Claim(s) => Claim(run[r])
      BY <1>2, <3>1 DEF Claim
    <3> QED BY <3>1, <3>2, <3>3, <3>4 DEF Keeps, Sound
  <2>4. /\ run' = [q \in Runs |-> run'[q]] /\ run'[r] = s
        /\ \A q \in Runs \ {r} : run'[q] = run[q] /\ Keeps(run[q], run'[q])
    BY <1>4, Others
  <2>5. \A q \in Runs : Keeps(run[q], run'[q])
    BY <2>3, <2>4
  <2>6. \A q \in Runs : Claim(run'[q]) => << run'[q].cg, run'[q].id >> \in dirs'
    BY <1>2, <2>5 DEF Keeps, LifecycleInv, HostInv
  <2>7. CASE ~ run[r].block
    <3>1. tables' = tables /\ s.upDone = run[r].upDone
      BY <1>1, <1>4, <2>7 DEF Typed, Fields
    <3> QED BY <1>2, <1>4, <2>3, <3>1, LocalStep
  <2>8. CASE run[r].block
    <3>1. /\ tables[run[r].id] = {} /\ run[r].id \in Ids
          /\ tables' = [tables EXCEPT ![run[r].id] = @ \union {r}]
      BY <1>1, <1>4, <2>8 DEF Create, Typed
    <3>2. /\ tables' = [i \in Ids |-> tables'[i]] /\ tables'[run[r].id] = {r}
          /\ \A i \in Ids \ {run[r].id} : tables'[i] = tables[i]
      BY <3>1 DEF LifecycleInv
    <3>3. s.id = run[r].id
      BY <2>3 DEF Keeps
    <3>4. \A q \in Runs \ {r} : run[q].upDone => run[q].id \in Ids \ {run[r].id}
      <4> TAKE q \in Runs \ {r}
      <4>1. run[q].id \in Ids
        BY Facts DEF Typed
      <4>2. run[q].upDone => tables[run[q].id] = {q}
        BY DEF LifecycleInv, HostInv
      <4> QED BY <3>1, <4>1, <4>2
    <3>5. \A q \in Runs : run'[q].upDone => tables'[run'[q].id] = {q}
      BY <2>4, <3>2, <3>3, <3>4 DEF LifecycleInv, HostInv
    <3> QED BY <2>4, <2>5, <2>6, <3>2, <3>5, AnyStep
  <2> QED BY <2>7, <2>8
<1> QED BY <1>3, <1>4 DEF Setup

(* The rest of the set-up. *)
LEMMA LateSteps ==
  ASSUME LifecycleInv, NEW r \in Runs, SelfProbe(r) \/ NewCollector(r) \/ WriteResolvConf(r)
  PROVE  LifecycleInv'
<1>1. Typed(run[r]) /\ TodoInv(run[r]) /\ BlockInv(run[r])
  BY Facts
<1>2. /\ run[r].pc \in {"probe", "collector", "resolv"} /\ tables' = tables /\ dirs' = dirs
      /\ run[r].pc = "resolv" <=> WriteResolvConf(r)
  BY DEF SelfProbe, NewCollector, WriteResolvConf, At
<1>3. CASE Returns(r, <<>>)
  BY <1>2, <1>3, ReturnStep
<1>4. ASSUME NEW s, Becomes(r, s),
             \/ SelfProbe(r) /\ ProbePasses(r) /\ s = [run[r] EXCEPT !.pc = "collector"]
             \/ NewCollector(r) /\ s = [run[r] EXCEPT !.pc = "resolv"]
             \/ WriteResolvConf(r) /\ s = [run[r] EXCEPT !.pc = "launch1"]
      PROVE  LifecycleInv'
  <2>1. /\ SelfProbe(r) => run[r].pc = "probe"
        /\ NewCollector(r) => run[r].pc = "collector"
        /\ WriteResolvConf(r) => run[r].pc = "resolv"
    BY DEF SelfProbe, NewCollector, WriteResolvConf, At
  <2>2. Keeps(run[r], s) /\ s.upDone = run[r].upDone
    BY <1>1, <1>4, <2>1 DEF Keeps, Sound, Typed, Fields, TodoInv, BlockInv, Live, Code, Claim, ProbePasses
  <2> QED BY <1>2, <1>4, <2>2, LocalStep
<1> DEFINE t == [run[r] EXCEPT !.pc = "launch1", !.resolv = TRUE, !.todo = <<"unresolv">> \o @]
<1>5. CASE WriteResolvConf(r) /\ Becomes(r, t)
  <2>1. run[r].pc = "resolv"
    BY <1>5 DEF WriteResolvConf, At
  <2>2. t.todo = <<"unresolv">> \o run[r].todo
    BY <1>1 DEF Typed, Fields
  <2>3. t.todo \in Seq(Cleanups) /\ OneClose(t.todo) /\ (HasClose(t.todo) <=> HasClose(run[r].todo))
    BY <1>1, <2>2, PushTodo DEF TodoInv, Typed, Cleanups
  <2>4. Keeps(run[r], t) /\ t.upDone = run[r].upDone
    BY <1>1, <2>1, <2>3 DEF Keeps, Sound, Typed, Fields, TodoInv, BlockInv, Live, Code, Claim
  <2> QED BY <1>2, <1>5, <2>4, LocalStep
<1> QED BY <1>3, <1>4, <1>5 DEF SelfProbe, NewCollector, WriteResolvConf, GoesTo

-----------------------------------------------------------------------------
(* runCommand and what the child and the host do to it, except Reap. *)
LEMMA CommandSteps ==
  ASSUME LifecycleInv, NEW r \in Runs,
         Launch(r) \/ LaunchFails(r) \/ Unscope(r) \/ Wait(r) \/ WriteReport(r)
  PROVE  LifecycleInv'
<1>1. Typed(run[r]) /\ TodoInv(run[r]) /\ BlockInv(run[r])
  BY Facts
<1>2. tables' = tables /\ dirs' = dirs
  BY DEF Launch, LaunchFails, Unscope, Wait, WriteReport
<1> USE DEF Keeps, Sound, Typed, Fields, TodoInv, BlockInv, Live, Code, Claim
<1>3. CASE Launch(r)
  <2> DEFINE s == [run[r] EXCEPT
                     !.pc = "wait",
                     !.place = IF HasCgroup(r) /\ ~ At(r, "launch3") THEN "cgroup" ELSE "host",
                     !.child = IF run[r].block \/ (At(r, "launch1") /\ run[r].resolv)
                               THEN "trampoline" ELSE "build",
                     !.inScope = InScope(r)]
  <2>1. run[r].pc \in Launches /\ Becomes(r, s)
    BY <1>3 DEF Launch
  <2>2. /\ Typed(s) /\ s.pc = "wait" /\ s.todo = run[r].todo /\ s.block = run[r].block
        /\ s.id = run[r].id /\ s.cg = run[r].cg /\ s.upDone = run[r].upDone
        /\ s.matches = run[r].matches /\ s.stray = run[r].stray /\ s.guards = run[r].guards
        /\ s.block => s.child = "trampoline"
        /\ s.block /\ s.cg # "none" /\ run[r].pc = "launch1" => s.place = "cgroup"
    BY <1>1 DEF HasCgroup, At
  <2> HIDE DEF s
  <2>3. run[r].block => run[r].pc = "launch1"
    BY <1>1, <2>1 DEF Launches
  <2>4. TodoInv(s)
    BY <1>1, <2>2
  <2>5. BlockInv(s)
    BY <1>1, <2>2, <2>3
  <2>6. Claim(s) => Claim(run[r])
    BY <2>1, <2>2, <2>3 DEF Launches
  <2>7. Keeps(run[r], s)
    BY <2>2, <2>4, <2>5, <2>6
  <2> QED BY <1>2, <2>1, <2>2, <2>7, LocalStep
<1>4. CASE LaunchFails(r)
  <2>1. PICK s : /\ run[r].pc \in Launches /\ Becomes(r, s)
                 /\ \/ /\ run[r].block \/ At(r, "launch3")
                       /\ s = [run[r] EXCEPT !.pc = "reap", !.code = "other", !.inScope = HasCgroup(r)]
                    \/ /\ ~ run[r].block
                       /\ s = [run[r] EXCEPT !.pc = IF At(r, "launch1") THEN "launch2" ELSE "unscope"]
    BY <1>4 DEF LaunchFails, GoesTo
  <2>2. Keeps(run[r], s) /\ s.upDone = run[r].upDone
    BY <1>1, <2>1 DEF Launches, At
  <2> QED BY <1>2, <2>1, <2>2, LocalStep
<1>5. CASE Unscope(r)
  <2>1. PICK done : Becomes(r, [run[r] EXCEPT !.pc = "launch3", !.widened = done])
    BY <1>5 DEF Unscope
  <2> DEFINE s == [run[r] EXCEPT !.pc = "launch3", !.widened = done]
  <2>2. run[r].pc = "unscope"
    BY <1>5 DEF Unscope, At
  <2>3. Keeps(run[r], s) /\ s.upDone = run[r].upDone
    BY <1>1, <2>2
  <2> QED BY <1>2, <2>1, <2>3, LocalStep
<1>6. CASE Wait(r)
  <2> DEFINE s == [run[r] EXCEPT !.pc = "reap",
                     !.stray = IF ~ run[r].block /\ @ = "group" THEN "none" ELSE @]
  <2>1. run[r].pc = "wait" /\ Becomes(r, s)
    BY <1>6 DEF Wait, At
  <2>2. Keeps(run[r], s) /\ s.upDone = run[r].upDone
    BY <1>1, <2>1
  <2> QED BY <1>2, <2>1, <2>2, LocalStep, ZenonT(60)
<1>7. CASE WriteReport(r)
  <2>1. PICK e, w : Becomes(r, [run[r] EXCEPT !.pc = "cleanup", !.exit = e, !.report = w])
    BY <1>7 DEF WriteReport
  <2> DEFINE s == [run[r] EXCEPT !.pc = "cleanup", !.exit = e, !.report = w]
  <2>2. run[r].pc = "report"
    BY <1>7 DEF WriteReport, At
  <2>3. Keeps(run[r], s) /\ s.upDone = run[r].upDone
    BY <1>1, <2>2
  <2> QED BY <1>2, <2>1, <2>3, LocalStep
<1> QED BY <1>3, <1>4, <1>5, <1>6, <1>7

(* A build in audit mode that leaves the cgroup changes its place and no more. *)
BuildMoves(r) == Trampoline(r) \/ BuildForks(r) \/ BuildEnds(r) \/ BuildOverwrites(r)

LEMMA LeaveStep ==
  ASSUME LifecycleInv, NEW r \in Runs, BuildLeaves(r)
  PROVE  LifecycleInv'
<1> DEFINE s == [run[r] EXCEPT !.place = "left"]
<1>1. Typed(run[r]) /\ TodoInv(run[r]) /\ BlockInv(run[r])
  BY Facts
<1>2. ~ run[r].block /\ Becomes(r, s) /\ tables' = tables /\ dirs' = dirs
  BY DEF BuildLeaves
<1>3. /\ Typed(s) /\ s.todo = run[r].todo /\ s.block = run[r].block
      /\ s.id = run[r].id /\ s.cg = run[r].cg /\ s.upDone = run[r].upDone
      /\ s.matches = run[r].matches /\ s.pc = run[r].pc
  BY <1>1 DEF Typed, Fields
<1> HIDE DEF s
<1>4. TodoInv(s) /\ BlockInv(s) /\ (Claim(s) => Claim(run[r]))
  BY <1>1, <1>2, <1>3 DEF TodoInv, BlockInv, Claim
<1>5. Keeps(run[r], s)
  BY <1>3, <1>4 DEF Keeps, Sound
<1> QED BY <1>2, <1>3, <1>5, LocalStep

(* The child, what it leaves, signals and the death of Egret. *)
LEMMA BuildSteps ==
  ASSUME LifecycleInv, NEW r \in Runs,
         BuildMoves(r) \/ ContextKills(r) \/ Signal(r) \/ Crash(r)
  PROVE  LifecycleInv'
<1>1. Typed(run[r]) /\ TodoInv(run[r]) /\ BlockInv(run[r])
  BY Facts
<1>2. tables' = tables /\ dirs' = dirs
  BY DEF BuildMoves, Trampoline, BuildForks, BuildEnds, BuildOverwrites, ContextKills, Signal, Crash
<1>3. PICK s :
        /\ Becomes(r, s)
        /\ \/ run[r].child = "trampoline" /\ MoreGuards(r) /\ s = [run[r] EXCEPT !.guards = @ + 1]
           \/ run[r].child = "trampoline" /\ MayExec(r) /\ s = [run[r] EXCEPT !.child = "build"]
           \/ \E c : s = [run[r] EXCEPT !.child = "gone", !.code = c]
           \/ run[r].child = "build" /\ \E y : s = [run[r] EXCEPT !.stray = y]
           \/ s = [run[r] EXCEPT !.stray = "none"]
           \/ s = [run[r] EXCEPT !.report = "forged"]
           \/ s = [run[r] EXCEPT !.signalled = TRUE]
           \/ ~ Ended(r) /\ s = [run[r] EXCEPT !.pc = "crashed"]
  BY DEF BuildMoves, Trampoline, BuildForks, BuildEnds, BuildOverwrites, ContextKills, Signal, Crash, GoesTo
<1>4. ~ Ended(r) \/ s.pc = run[r].pc
  BY <1>1, <1>3 DEF Typed, Fields
<1>5. /\ Typed(s) /\ s.todo = run[r].todo /\ s.block = run[r].block
      /\ s.id = run[r].id /\ s.cg = run[r].cg /\ s.upDone = run[r].upDone
      /\ s.matches = run[r].matches /\ s.place = run[r].place
      /\ s.pc \in {run[r].pc, "crashed"}
  BY <1>1, <1>3, ZenonT(60) DEF Typed, Fields
<1>6. /\ run[r].block /\ Live(s) => Live(run[r])
      /\ run[r].block /\ s.child = "trampoline" => s.stray = "none"
      /\ run[r].block /\ Code(s) => s.guards = Guards
  BY <1>1, <1>3 DEF Typed, Fields, BlockInv, Live, Code, MayExec
<1>7. TodoInv(s)
  BY <1>1, <1>5 DEF TodoInv
<1>8. BlockInv(s)
  BY <1>1, <1>5, <1>6 DEF BlockInv
<1>9. Claim(s) => Claim(run[r])
  BY <1>4, <1>5, <1>6 DEF Claim, Ended
<1>10. Keeps(run[r], s)
  BY <1>5, <1>7, <1>8, <1>9 DEF Keeps, Sound
<1> QED BY <1>2, <1>3, <1>5, <1>10, LocalStep

(* Kill clears the cgroup: after it nothing of this run is alive in block mode,
   and other runs at most lose processes. *)
LEMMA KillsClear ==
  ASSUME LifecycleInv, NEW r \in Runs, NEW next, Kills(r, next),
         run[r].pc \in {"reap", "cleanup"},
         Typed(next), next.pc \in {"report", "cleanup"}, TodoInv(next),
         next.pc = "report" => run[r].pc = "reap",
         HasClose(next.todo) /\ run[r].pc = "cleanup" => HasClose(run[r].todo),
         \A f \in Fields \ {"pc", "todo"} : next[f] = run[r][f]
  PROVE  /\ run' = [q \in Runs |-> run'[q]]
         /\ \A q \in Runs : Keeps(run[q], run'[q]) /\ run'[q].upDone = run[q].upDone
         /\ run'[r].pc = next.pc /\ run'[r].todo = next.todo
<1> DEFINE Hit(q) == HasCgroup(r) /\ run[q].place = "cgroup"
                     /\ run[q].cg = run[r].cg /\ run[q].id = run[r].id
           Old(q) == IF q = r THEN next ELSE run[q]
           Killed(s) == [s EXCEPT !.stray = "none", !.child = "gone",
                                  !.code = IF s.child = "gone" THEN @ ELSE "other"]
<1>1. run' = [q \in Runs |-> IF Hit(q) THEN Killed(Old(q)) ELSE Old(q)]
  BY DEF Kills
<1>2. /\ next.block = run[r].block /\ next.id = run[r].id /\ next.matches = run[r].matches
      /\ next.upDone = run[r].upDone /\ next.cg = run[r].cg /\ next.child = run[r].child
      /\ next.guards = run[r].guards /\ next.stray = run[r].stray /\ next.place = run[r].place
  BY DEF Fields
<1>3. ASSUME NEW s, Typed(s)
      PROVE  /\ Typed(Killed(s)) /\ ~ Live(Killed(s)) /\ ~ Code(Killed(s))
             /\ Killed(s).child # "trampoline"
             /\ Killed(s).pc = s.pc /\ Killed(s).todo = s.todo /\ Killed(s).block = s.block
             /\ Killed(s).id = s.id /\ Killed(s).cg = s.cg /\ Killed(s).upDone = s.upDone
             /\ Killed(s).matches = s.matches /\ Killed(s).guards = s.guards
  BY <1>3 DEF Typed, Fields, Live, Code
<1> HIDE DEF Killed
<1>4. ASSUME NEW q \in Runs
      PROVE  Keeps(run[q], run'[q]) /\ run'[q].upDone = run[q].upDone
  <2>1. Typed(run[q]) /\ TodoInv(run[q]) /\ BlockInv(run[q]) /\ BlockInv(run[r])
    BY Facts
  <2>2. Typed(Old(q)) /\ TodoInv(Old(q))
    BY <2>1
  <2>3. CASE q # r /\ ~ Hit(q)
    <3>1. run'[q] = run[q]
      BY <1>1, <2>3
    <3> QED BY <2>1, <3>1 DEF Keeps, Sound
  <2>4. CASE q # r /\ Hit(q)
    <3>1. run'[q] = Killed(run[q])
      BY <1>1, <2>4
    <3>2. TodoInv(run'[q]) /\ BlockInv(run'[q]) /\ (Claim(run'[q]) => Claim(run[q]))
      BY <1>3, <2>1, <3>1 DEF TodoInv, BlockInv, Claim
    <3> QED BY <1>3, <2>1, <3>1, <3>2 DEF Keeps, Sound
  <2>5. CASE q = r /\ Hit(q)
    <3>1. run'[q] = Killed(next)
      BY <1>1, <2>5
    <3>2. TodoInv(run'[q]) /\ BlockInv(run'[q])
      BY <1>3, <3>1 DEF TodoInv, BlockInv
    <3>3. Claim(run'[q]) => Claim(run[q])
      BY <1>2, <1>3, <2>5, <3>1 DEF Claim
    <3> QED BY <1>2, <1>3, <2>5, <3>1, <3>2, <3>3 DEF Keeps, Sound
  <2>6. CASE q = r /\ ~ Hit(q)
    <3>1. run'[q] = next
      BY <1>1, <2>6
    <3>2. next.block => ~ Live(next)
      BY <1>2, <2>1, <2>6 DEF BlockInv, Live, HasCgroup
    <3>3. BlockInv(next)
      BY <1>2, <3>2 DEF BlockInv, Live, Code
    <3>4. Claim(next) => Claim(run[r])
      BY <1>2, <3>2 DEF Claim
    <3> QED BY <1>2, <2>6, <3>1, <3>3, <3>4 DEF Keeps, Sound
  <2> QED BY <2>3, <2>4, <2>5, <2>6
<1>5. run'[r].pc = next.pc /\ run'[r].todo = next.todo
  BY <1>1, <1>3
<1>6. run' = [q \in Runs |-> run'[q]]
  BY <1>1
<1> QED BY <1>4, <1>5, <1>6

-----------------------------------------------------------------------------
LEMMA ReapStep ==
  ASSUME LifecycleInv, NEW r \in Runs, Reap(r)
  PROVE  LifecycleInv'
<1>1. Typed(run[r]) /\ TodoInv(run[r])
  BY Facts
<1> DEFINE next == [run[r] EXCEPT !.pc = "report"]
<1>2. run[r].pc = "reap" /\ Kills(r, next) /\ tables' = tables /\ dirs' = dirs
  BY DEF Reap, At
<1>3. /\ Typed(next) /\ TodoInv(next) /\ next.pc = "report"
      /\ \A f \in Fields \ {"pc", "todo"} : next[f] = run[r][f]
  BY <1>1 DEF Typed, Fields, TodoInv
<1> HIDE DEF next
<1>4. /\ run' = [q \in Runs |-> run'[q]]
      /\ \A q \in Runs : Keeps(run[q], run'[q]) /\ run'[q].upDone = run[q].upDone
  BY <1>2, <1>3, KillsClear
<1> QED BY <1>2, <1>4, QuietStep

(* What the deferred cleanup at the head of the list leaves of it. *)
LEMMA PoppedFacts ==
  ASSUME LifecycleInv, NEW r \in Runs, NEW c, Cleanup(r, c)
  PROVE  /\ run[r].pc = "cleanup" /\ Popped(r).pc = "cleanup"
         /\ Popped(r).todo = Tail(run[r].todo)
         /\ Typed(Popped(r)) /\ TodoInv(Popped(r))
         /\ HasClose(Popped(r).todo) => HasClose(run[r].todo)
         /\ c = "close" => HasClose(run[r].todo) /\ ~ HasClose(Popped(r).todo)
         /\ \A f \in Fields \ {"todo"} : Popped(r)[f] = run[r][f]
<1>1. Typed(run[r]) /\ TodoInv(run[r])
  BY Facts
<1>2. run[r].pc = "cleanup" /\ run[r].todo # <<>> /\ Head(run[r].todo) = c
  BY DEF Cleanup, At
<1>3. /\ Popped(r).todo = Tail(run[r].todo)
      /\ \A f \in Fields \ {"todo"} : Popped(r)[f] = run[r][f]
  BY <1>1 DEF Typed, Fields, Popped
<1>4. /\ Tail(run[r].todo) \in Seq(Cleanups) /\ OneClose(Tail(run[r].todo))
      /\ HasClose(Tail(run[r].todo)) => HasClose(run[r].todo)
      /\ c = "close" => ~ HasClose(Tail(run[r].todo))
  BY <1>1, <1>2, PopTodo DEF Typed, TodoInv
<1>5. c = "close" => HasClose(run[r].todo)
  <2>1. 1 \in DOMAIN run[r].todo /\ run[r].todo[1] = Head(run[r].todo)
    BY <1>1, <1>2 DEF Typed
  <2> QED BY <1>2, <2>1 DEF HasClose
<1>6. Popped(r).pc = "cleanup"
  BY <1>2, <1>3 DEF Fields
<1>7. Typed(Popped(r))
  BY <1>1, <1>3, <1>4 DEF Typed, Fields, Popped
<1>8. TodoInv(Popped(r))
  BY <1>3, <1>4, <1>6 DEF TodoInv
<1> QED BY <1>2, <1>3, <1>4, <1>5, <1>6, <1>7, <1>8

(* A cleanup that touches nothing of the run but what the invariant ignores. *)
LEMMA PopStep ==
  ASSUME LifecycleInv, NEW r \in Runs, NEW c, Cleanup(r, c), NEW s, Becomes(r, s),
         s \in {Popped(r), [Popped(r) EXCEPT !.resolv = FALSE],
                [Popped(r) EXCEPT !.upDone = FALSE],
                [Popped(r) EXCEPT !.upDone = FALSE, !.residue = TRUE]}
  PROVE  /\ Keeps(run[r], s)
         /\ s.upDone => s = Popped(r) \/ s = [Popped(r) EXCEPT !.resolv = FALSE]
         /\ s.upDone => run[r].upDone
<1>1. /\ run[r].pc = "cleanup" /\ Popped(r).pc = "cleanup"
      /\ Typed(Popped(r)) /\ TodoInv(Popped(r))
      /\ HasClose(Popped(r).todo) => HasClose(run[r].todo)
      /\ \A f \in Fields \ {"todo"} : Popped(r)[f] = run[r][f]
  BY PoppedFacts
<1>2. BlockInv(run[r])
  BY Facts
<1>3. /\ Typed(s) /\ s.pc = "cleanup" /\ s.todo = Popped(r).todo /\ s.cg = run[r].cg
      /\ s.block = run[r].block /\ s.id = run[r].id /\ s.child = run[r].child
      /\ s.stray = run[r].stray /\ s.guards = run[r].guards
  BY <1>1 DEF Typed, Fields
<1>4. s.upDone => run[r].upDone /\ (s = Popped(r) \/ s = [Popped(r) EXCEPT !.resolv = FALSE])
  BY <1>1 DEF Typed, Fields
<1>5. TodoInv(s)
  BY <1>1, <1>3 DEF TodoInv
<1>6. BlockInv(s) /\ (Claim(s) => Claim(run[r]))
  BY <1>1, <1>2, <1>3 DEF BlockInv, Live, Code, Claim
<1> QED BY <1>3, <1>4, <1>5, <1>6 DEF Keeps, Sound

LEMMA PlainCleanupSteps ==
  ASSUME LifecycleInv, NEW r \in Runs,
         TeardownKills(r) \/ RemoveResolvConf(r) \/ RestoreSudo(r) \/ Exit(r)
  PROVE  LifecycleInv'
<1>1. tables' = tables /\ dirs' = dirs
  BY DEF TeardownKills, RemoveResolvConf, RestoreSudo, Exit
<1>2. ASSUME NEW c, Cleanup(r, c), Becomes(r, Popped(r)) PROVE LifecycleInv'
  <2>1. Keeps(run[r], Popped(r)) /\ (Popped(r).upDone => run[r].upDone)
    BY <1>2, PopStep
  <2> QED BY <1>1, <1>2, <2>1, LocalStep
<1>3. CASE TeardownKills(r)
  <2>1. CASE Kills(r, Popped(r))
    <3>1. /\ run' = [q \in Runs |-> run'[q]]
          /\ \A q \in Runs : Keeps(run[q], run'[q]) /\ run'[q].upDone = run[q].upDone
      <4>1. /\ run[r].pc = "cleanup" /\ Popped(r).pc = "cleanup"
            /\ Typed(Popped(r)) /\ TodoInv(Popped(r))
            /\ HasClose(Popped(r).todo) => HasClose(run[r].todo)
            /\ \A f \in Fields \ {"todo"} : Popped(r)[f] = run[r][f]
        BY <1>3, PoppedFacts DEF TeardownKills
      <4> QED BY <2>1, <4>1, KillsClear
    <3> QED BY <1>1, <3>1, QuietStep
  <2>2. CASE Becomes(r, Popped(r))
    BY <1>2, <1>3, <2>2 DEF TeardownKills
  <2> QED BY <1>3, <2>1, <2>2 DEF TeardownKills
<1>4. CASE RemoveResolvConf(r)
  <2> DEFINE s == [Popped(r) EXCEPT !.resolv = FALSE]
  <2>1. Cleanup(r, "unresolv") /\ Becomes(r, s)
    BY <1>4 DEF RemoveResolvConf
  <2>2. Keeps(run[r], s) /\ (s.upDone => run[r].upDone)
    BY <2>1, PopStep
  <2> QED BY <1>1, <2>1, <2>2, LocalStep
<1>5. CASE RestoreSudo(r)
  BY <1>2, <1>5 DEF RestoreSudo
<1>6. CASE Exit(r)
  <2> DEFINE s == [run[r] EXCEPT !.pc = "exited"]
  <2>1. run[r].pc = "cleanup" /\ Becomes(r, s)
    BY <1>6 DEF Exit, At, GoesTo
  <2>2. Typed(run[r]) /\ TodoInv(run[r]) /\ BlockInv(run[r])
    BY Facts
  <2>3. Keeps(run[r], s) /\ s.upDone = run[r].upDone
    BY <2>1, <2>2 DEF Keeps, Sound, Typed, Fields, TodoInv, BlockInv, Live, Code, Claim
  <2> QED BY <1>1, <2>1, <2>3, LocalStep
<1> QED BY <1>3, <1>4, <1>5, <1>6

(* nftFirewall.Teardown deletes only a table that Setup of this run has made. *)
LEMMA DeleteStep ==
  ASSUME LifecycleInv, NEW r \in Runs, TeardownDeletes(r)
  PROVE  LifecycleInv'
<1>1. Cleanup(r, "delete") /\ dirs' = dirs
  BY DEF TeardownDeletes
<1>2. ASSUME NEW s, Becomes(r, s), tables' = tables,
             s \in {Popped(r), [Popped(r) EXCEPT !.upDone = FALSE, !.residue = TRUE]}
      PROVE  LifecycleInv'
  <2>1. Keeps(run[r], s) /\ (s.upDone => run[r].upDone)
    BY <1>1, <1>2, PopStep
  <2> QED BY <1>1, <1>2, <2>1, LocalStep
<1> DEFINE s == [Popped(r) EXCEPT !.upDone = FALSE]
<1>3. ASSUME Deletes(r), Becomes(r, s), tables' = [tables EXCEPT ![run[r].id] = {}]
      PROVE  LifecycleInv'
  <2>1. Keeps(run[r], s)
    BY <1>1, <1>3, PopStep
  <2>2. ~ s.upDone
    BY <1>1, PoppedFacts DEF Typed, Fields
  <2> HIDE DEF s
  <2>3. /\ run' = [q \in Runs |-> run'[q]] /\ run'[r] = s
        /\ \A q \in Runs \ {r} : run'[q] = run[q] /\ Keeps(run[q], run'[q])
    BY <1>3, Others
  <2>4. \A q \in Runs : Keeps(run[q], run'[q])
    BY <2>1, <2>3
  <2>5. run[r].id \in Ids /\ tables[run[r].id] = {r}
    BY <1>3, Facts DEF Deletes, LifecycleInv, HostInv, Typed
  <2>6. /\ tables' = [i \in Ids |-> tables'[i]]
        /\ \A i \in Ids \ {run[r].id} : tables'[i] = tables[i]
    BY <1>3, <2>5 DEF LifecycleInv
  <2>7. ASSUME NEW q \in Runs, run'[q].upDone PROVE tables'[run'[q].id] = {q}
    <3>1. q # r /\ run'[q] = run[q]
      BY <2>2, <2>3, <2>7
    <3>2. run[q].id \in Ids
      BY Facts DEF Typed
    <3>3. tables[run[q].id] = {q}
      BY <2>7, <3>1 DEF LifecycleInv, HostInv
    <3>4. run[q].id # run[r].id
      BY <2>5, <3>1, <3>3
    <3> QED BY <2>6, <3>1, <3>2, <3>3, <3>4
  <2>8. \A q \in Runs : Claim(run'[q]) => << run'[q].cg, run'[q].id >> \in dirs'
    BY <1>1, <2>4 DEF Keeps, LifecycleInv, HostInv
  <2> QED BY <2>3, <2>4, <2>6, <2>7, <2>8, AnyStep
<1> QED BY <1>2, <1>3 DEF TeardownDeletes

(* buildCgroup.Close removes only the directory of this run. *)
LEMMA CloseStep ==
  ASSUME LifecycleInv, NEW r \in Runs, CloseCgroup(r)
  PROVE  LifecycleInv'
<1>1. Cleanup(r, "close") /\ tables' = tables
  BY DEF CloseCgroup
<1>2. /\ run[r].pc = "cleanup" /\ HasClose(run[r].todo) /\ ~ HasClose(Popped(r).todo)
      /\ Popped(r).pc = "cleanup" /\ Typed(Popped(r)) /\ TodoInv(Popped(r))
      /\ \A f \in Fields \ {"todo"} : Popped(r)[f] = run[r][f]
  BY <1>1, PoppedFacts
<1>3. PICK next : /\ Kills(r, next)
                  /\ \/ next = Popped(r) /\ dirs' = dirs \ {<< run[r].cg, run[r].id >>}
                     \/ next = [Popped(r) EXCEPT !.residue = TRUE] /\ dirs' = dirs
  BY DEF CloseCgroup
<1>4. /\ Typed(next) /\ next.todo = Popped(r).todo /\ next.pc = "cleanup"
      /\ \A f \in Fields \ {"pc", "todo"} : next[f] = run[r][f]
  BY <1>2, <1>3 DEF Typed, Fields
<1>5. TodoInv(next)
  BY <1>2, <1>4 DEF TodoInv
<1>6. /\ run' = [q \in Runs |-> run'[q]]
      /\ \A q \in Runs : Keeps(run[q], run'[q]) /\ run'[q].upDone = run[q].upDone
      /\ run'[r].pc = "cleanup" /\ run'[r].todo = Popped(r).todo
  BY <1>2, <1>3, <1>4, <1>5, KillsClear
<1>7. ~ Claim(run'[r])
  BY <1>2, <1>6 DEF Keeps, Sound, BlockInv, Claim
<1>8. ASSUME NEW q \in Runs, Claim(run'[q]) PROVE << run'[q].cg, run'[q].id >> \in dirs'
  <2>1. /\ q # r /\ Claim(run[q]) /\ run'[q].cg = run[q].cg /\ run'[q].id = run[q].id
    BY <1>6, <1>7, <1>8 DEF Keeps
  <2>2. << run[q].cg, run[q].id >> \in dirs
    BY <2>1 DEF LifecycleInv, HostInv
  <2>3. << run[q].cg, run[q].id >> # << run[r].cg, run[r].id >>
    <3>1. run[r].cg # "none" => Claim(run[r])
      BY <1>2 DEF Claim
    <3>2. run[q].cg # "none"
      BY <2>1 DEF Claim
    <3> QED BY <2>1, <3>1, <3>2 DEF LifecycleInv, HostInv
  <2> QED BY <1>3, <2>1, <2>2, <2>3
<1>9. tables' = [i \in Ids |-> tables'[i]]
  BY <1>1 DEF LifecycleInv
<1>10. \A q \in Runs : run'[q].upDone => tables'[run'[q].id] = {q}
  BY <1>1, <1>6 DEF Keeps, LifecycleInv, HostInv
<1> QED BY <1>6, <1>8, <1>9, <1>10, AnyStep

-----------------------------------------------------------------------------
LEMMA LifecycleStep == LifecycleInv /\ [Next]_vars => LifecycleInv'
<1> SUFFICES ASSUME LifecycleInv, [Next]_vars PROVE LifecycleInv'
  OBVIOUS
<1>1. ASSUME NEW r \in Runs, Prepare(r) PROVE LifecycleInv'
  BY <1>1, EarlySteps, NewStep, SetupStep, LateSteps DEF Prepare
<1>2. ASSUME NEW r \in Runs, Command(r) PROVE LifecycleInv'
  BY <1>2, CommandSteps, ReapStep DEF Command
<1>3. ASSUME NEW r \in Runs, Defers(r) PROVE LifecycleInv'
  BY <1>3, PlainCleanupSteps, DeleteStep, CloseStep DEF Defers
<1>4. ASSUME NEW r \in Runs, BuildStep(r) \/ ContextKills(r) \/ Signal(r) \/ Crash(r)
      PROVE  LifecycleInv'
  BY <1>4, BuildSteps, LeaveStep DEF BuildStep, BuildMoves
<1>5. CASE UNCHANGED vars
  BY <1>5 DEF vars, LifecycleInv, Sound, HostInv
<1> QED BY <1>1, <1>2, <1>3, <1>4, <1>5 DEF Next, EgretStep, Finished

LEMMA LifecycleBegins == Init => LifecycleInv
<1> SUFFICES ASSUME Init PROVE LifecycleInv
  OBVIOUS
<1>1. ASSUME NEW r \in Runs
      PROVE  Sound(run[r]) /\ run[r].cg = "none" /\ ~ run[r].upDone
  <2>1. PICK o \in Options, i \in Ids, m \in BOOLEAN : run[r] = InitRun(o, i, m)
    BY DEF Init
  <2>2. /\ run[r].cg = "none" /\ ~ run[r].upDone /\ run[r].id \in Ids
        /\ run[r].pc = "start" /\ run[r].todo = <<>>
        /\ run[r].child = "none" /\ run[r].stray = "none"
    BY <2>1 DEF InitRun
  <2>3. Fields \subseteq DOMAIN run[r]
    BY <2>1 DEF InitRun, Fields
  <2>4. run[r] = [f \in DOMAIN run[r] |-> run[r][f]]
    BY <2>1 DEF InitRun
  <2>5. Typed(run[r])
    BY <2>2, <2>3, <2>4 DEF Typed
  <2>6. ~ HasClose(<<>>) /\ OneClose(<<>>)
    BY DEF HasClose, OneClose
  <2>7. TodoInv(run[r]) /\ BlockInv(run[r])
    BY <2>2, <2>6 DEF TodoInv, BlockInv, Live, Code
  <2> QED BY <2>2, <2>7, <2>5 DEF Sound
<1>2. HostInv
  BY <1>1 DEF HostInv, Claim
<1> QED BY <1>1, <1>2 DEF Init, LifecycleInv

(* Two runs share neither a cgroup nor a table, although os.Mkdir and "create
   table" are all that keeps them apart, for any number of runs with any ids. *)
THEOREM RunsIndependentHolds == Spec => []RunsIndependent
<1>1. LifecycleInv => RunsIndependent
  <2> SUFFICES ASSUME LifecycleInv, NEW r \in Runs, NEW q \in Runs, r # q
               PROVE  /\ Owns(r) /\ Owns(q) => << run[r].cg, run[r].id >> # << run[q].cg, run[q].id >>
                      /\ run[r].upDone => tables[run[r].id] = {r}
    BY DEF RunsIndependent
  <2>1. ASSUME NEW o \in Runs, Owns(o) PROVE Claim(run[o])
    <3>1. run[o].cg # "none" /\ run[o].pc \notin {"exited", "crashed"}
      BY <2>1 DEF Owns, HasCgroup, Ended
    <3>2. run[o].pc = "cleanup" => HasClose(run[o].todo)
      BY <2>1 DEF Owns, At, HasClose
    <3> QED BY <3>1, <3>2 DEF Claim
  <2> QED BY <2>1 DEF LifecycleInv, HostInv
<1> QED BY <1>1, LifecycleBegins, LifecycleStep, PTL DEF Spec

(* executeRun in block mode: no instruction of any build runs outside its
   cgroup, its table and a filter that matches, whatever fails, is signalled or
   dies, in this run or another. *)
THEOREM BuildConfinedHolds == Spec => []BuildConfined
<1>1. LifecycleInv => BuildConfined
  <2> SUFFICES ASSUME LifecycleInv, NEW r \in Runs, run[r].block, BuildCode(r)
               PROVE  /\ r \in tables[run[r].id] /\ run[r].matches
                      /\ run[r].place = "cgroup" /\ << run[r].cg, run[r].id >> \in dirs
                      /\ run[r].guards = Guards
    BY DEF BuildConfined
  <2>1. Live(run[r]) /\ Code(run[r]) /\ BlockInv(run[r])
    BY Facts DEF BuildCode, Live, Code
  <2>2. run[r].upDone /\ run[r].matches /\ run[r].place = "cgroup" /\ run[r].guards = Guards
        /\ Claim(run[r])
    BY <2>1 DEF BlockInv, Claim
  <2> QED BY <2>2 DEF LifecycleInv, HostInv
<1> QED BY <1>1, LifecycleBegins, LifecycleStep, PTL DEF Spec

-----------------------------------------------------------------------------
(* What a run leaves behind: the clean-ups still to come. *)
Pending(todo) == {todo[i] : i \in DOMAIN todo}

Preparing == {"start", "sudo", "visudo", "new", "dns", "setup", "probe", "collector", "resolv"}
Early == Preparing \union Launches \union {"unscope"}
Commands == {"wait", "reap", "report"}
Over == {"cleanup", "exited", "crashed"}


(* Nothing has been started yet, or somewhere; what KillBuild reaches is dead
   from there on. *)
ChildInv(s) ==
  /\ s.pc \in Early => s.child = "none" /\ s.stray = "none" /\ s.place = "none" /\ s.code = "none"
  /\ s.pc \in {"start", "sudo", "visudo", "new"} => s.cg = "none"
  /\ Live(s) => s.place # "none"
  /\ s.place = "cgroup" => s.cg # "none"
  /\ s.place = "cgroup" /\ Live(s) => s.pc \in {"wait", "reap", "crashed"} /\ s.report = "none"

(* Block mode starts nothing without its cgroup, or outside, and lets nothing out. *)
FilterInv(s) ==
  s.block =>
    /\ s.pc \notin {"launch2", "unscope", "launch3"}
    /\ s.pc \in {"dns", "setup", "probe", "collector", "resolv", "launch1"} => s.cg # "none"
    /\ s.place \notin {"host", "left"}

(* The report and the exit code are the last things a run makes, together. *)
ReportInv(s) ==
  /\ s.pc \in Early \union Commands => s.report = "none" /\ s.exit = "none"
  /\ s.report = "forged" => ~ s.block /\ s.place # "cgroup"
  /\ s.code = "zero" => s.child = "gone"
  /\ s.exit = "zero" => s.code = "zero" /\ s.report \in {"written", "forged"}

(* What the probes see of a start outside the cgroup is what was widened. *)
ScopeInv(s) ==
  /\ s.pc \in Early \ {"launch3"} => s.widened = {}
  /\ "partialScope" \notin Faults => s.widened \in {{}, Probes}
  /\ s.place = "host" /\ s.cg # "none" => (s.inScope <=> s.widened # Probes)

(* Each thing that is to be undone has its cleanup pending. *)
CleanupInv(s) ==
  /\ s.upDone => "delete" \in Pending(s.todo)
  /\ s.resolv => "unresolv" \in Pending(s.todo)
  /\ s.pc = "exited" => s.todo = <<>>

(* --disable-sudo is for block mode only. *)
SudoInv(s) ==
  /\ s.pc \in {"sudo", "visudo"} \/ "restore" \in Pending(s.todo) => s.sudoOff
  /\ s.sudoOff /\ (s.pc \notin {"start"} \union Over \/ Live(s)) => s.block

RunInv(s) ==
  /\ s \in RunType
  /\ ChildInv(s) /\ FilterInv(s) /\ ReportInv(s) /\ ScopeInv(s) /\ CleanupInv(s) /\ SudoInv(s)

OutcomeInv == TypeOK /\ \A r \in Runs : RunInv(run[r])

(* The drop-in is there while a run that asked for it is preparing, running or
   has left code alive, if it is the only one that asked. *)
OneSudo == \A r, q \in Runs : run[r].sudoOff /\ run[q].sudoOff => r = q

Undone == {"start", "sudo", "visudo", "cleanup", "exited"}
Relies(s) == s.sudoOff /\ s.pc \notin Undone /\ (s.pc = "crashed" => Live(s))

DropInInv == OneSudo => \A r \in Runs : Relies(run[r]) => dropIn # "absent"

(* No other run has the same id, and none that asked for --disable-sudo has
   another run beside it: then what a run has on the host is its own, and is
   pending in its cleanups. *)
Apart == \A r, q \in Runs : r # q => run[r].id # run[q].id /\ ~ run[r].sudoOff

Restored(r, s, rules, groups, sudoers) ==
  ~ s.residue =>
    /\ ~ s.cut /\ r \in rules[s.id] => s.upDone
    /\ << s.cg, s.id >> \in groups =>
         s.pc \in {"dns", "setup", "crashed"} \/ "close" \in Pending(s.todo)
    /\ sudoers # "absent" =>
         s.pc \in {"visudo", "crashed"} \/ "restore" \in Pending(s.todo)

RestoreInv == Apart => \A r \in Runs : Restored(r, run[r], tables, dirs, dropIn)

-----------------------------------------------------------------------------
(* The deferred cleanups as a stack. *)
LEMMA Popping ==
  ASSUME NEW t \in Seq(Cleanups), t # <<>>
  PROVE  Tail(t) \in Seq(Cleanups) /\ Pending(t) = {Head(t)} \union Pending(Tail(t))
<1>1. /\ Tail(t) \in Seq(Cleanups) /\ Head(t) = t[1]
      /\ Len(t) \in Nat /\ Len(t) > 0
      /\ DOMAIN t = 1..Len(t) /\ DOMAIN Tail(t) = 1..(Len(t) - 1)
      /\ \A i \in 1..(Len(t) - 1) : Tail(t)[i] = t[i + 1]
  OBVIOUS
<1>2. ASSUME NEW i \in DOMAIN t, i # 1 PROVE t[i] \in Pending(Tail(t))
  <2>1. i - 1 \in 1..(Len(t) - 1) /\ Tail(t)[i - 1] = t[i - 1 + 1] /\ i - 1 + 1 = i
    BY <1>1, <1>2
  <2> QED BY <1>1, <2>1 DEF Pending
<1>3. ASSUME NEW i \in DOMAIN Tail(t) PROVE Tail(t)[i] \in Pending(t)
  <2>1. i + 1 \in DOMAIN t /\ Tail(t)[i] = t[i + 1]
    BY <1>1
  <2> QED BY <2>1 DEF Pending
<1>4. t[1] \in Pending(t)
  BY <1>1 DEF Pending
<1>5. Pending(Tail(t)) \subseteq Pending(t)
  BY <1>3 DEF Pending
<1>6. Pending(t) \subseteq {Head(t)} \union Pending(Tail(t))
  BY <1>1, <1>2 DEF Pending
<1> QED BY <1>1, <1>4, <1>5, <1>6

LEMMA Appending ==
  ASSUME NEW u \in Seq(Cleanups), NEW t \in Seq(Cleanups)
  PROVE  u \o t \in Seq(Cleanups) /\ Pending(u \o t) = Pending(u) \union Pending(t)
<1> DEFINE m == Len(u)
           n == Len(t)
           w == u \o t
<1>1. m \in Nat /\ n \in Nat /\ DOMAIN u = 1..m /\ DOMAIN t = 1..n
  OBVIOUS
<1>2. /\ w \in Seq(Cleanups) /\ Len(w) = m + n
      /\ \A i \in 1..(m + n) : w[i] = IF i <= m THEN u[i] ELSE t[i - m]
  BY <1>1, ConcatProperties
<1>3. DOMAIN w = 1..(m + n)
  BY <1>2
<1> HIDE DEF m, n, w
<1>4. ASSUME NEW i \in DOMAIN w PROVE w[i] \in Pending(u) \union Pending(t)
  <2>1. i \in 1..m \/ (i - m \in 1..n /\ ~ (i <= m))
    BY <1>1, <1>3
  <2> QED BY <1>1, <1>2, <1>3, <2>1 DEF Pending
<1>5. ASSUME NEW i \in DOMAIN u PROVE u[i] \in Pending(w)
  <2>1. i \in 1..(m + n) /\ i <= m
    BY <1>1
  <2> QED BY <1>2, <1>3, <2>1 DEF Pending
<1>6. ASSUME NEW i \in DOMAIN t PROVE t[i] \in Pending(w)
  <2>1. i \in Nat /\ i >= 1 /\ i <= n
    BY <1>1
  <2> DEFINE j == i + m
  <2>2. j \in 1..(m + n) /\ ~ (j <= m) /\ j - m = i
    BY <1>1, <2>1
  <2> HIDE DEF j
  <2>3. w[j] = t[i] /\ j \in DOMAIN w
    BY <1>2, <1>3, <2>2
  <2> QED BY <2>3 DEF Pending
<1>7. Pending(w) = Pending(u) \union Pending(t)
  BY <1>4, <1>5, <1>6 DEF Pending
<1> QED BY <1>2, <1>7 DEF w

LEMMA Pushing ==
  ASSUME NEW t \in Seq(Cleanups)
  PROVE  /\ Undo \o t \in Seq(Cleanups)
         /\ Pending(Undo \o t) = {"kill", "delete", "close"} \union Pending(t)
         /\ \A c \in Cleanups : /\ <<c>> \o t \in Seq(Cleanups)
                                /\ Pending(<<c>> \o t) = {c} \union Pending(t)
         /\ <<>> \o t = t /\ Pending(<<>>) = {}
<1>1. Undo \in Seq(Cleanups) /\ Pending(Undo) = {"kill", "delete", "close"}
  <2>1. DOMAIN Undo = 1..3 /\ Undo[1] = "kill" /\ Undo[2] = "delete" /\ Undo[3] = "close"
    BY DEF Undo
  <2>2. 1..3 = {1, 2, 3}
    OBVIOUS
  <2>3. Pending(Undo) = {Undo[1], Undo[2], Undo[3]}
    BY <2>1, <2>2 DEF Pending
  <2> QED BY <2>1, <2>3 DEF Undo, Cleanups
<1>2. ASSUME NEW c \in Cleanups PROVE <<c>> \in Seq(Cleanups) /\ Pending(<<c>>) = {c}
  BY DEF Pending
<1>3. <<>> \o t = t /\ Pending(<<>>) = {}
  BY DEF Pending
<1>4. \A c \in Cleanups : <<c>> \o t \in Seq(Cleanups) /\ Pending(<<c>> \o t) = {c} \union Pending(t)
  BY <1>2, Appending
<1>5. Undo \o t \in Seq(Cleanups) /\ Pending(Undo \o t) = {"kill", "delete", "close"} \union Pending(t)
  BY <1>1, Appending
<1> QED BY <1>3, <1>4, <1>5

-----------------------------------------------------------------------------
LEMMA OutcomeFacts ==
  ASSUME OutcomeInv, NEW r \in Runs
  PROVE  /\ run[r] \in RunType /\ run[r].todo \in Seq(Cleanups) /\ RunInv(run[r])
         /\ ChildInv(run[r]) /\ FilterInv(run[r]) /\ ReportInv(run[r]) /\ ScopeInv(run[r])
         /\ CleanupInv(run[r]) /\ SudoInv(run[r])
<1>1. run[r] \in RunType
  BY DEF OutcomeInv, TypeOK
<1>2. run[r].todo \in Seq(Cleanups)
  BY <1>1 DEF RunType, Cleanups
<1> QED BY <1>1, <1>2 DEF OutcomeInv, RunInv

HostType ==
  tables \in [Ids -> SUBSET Runs] /\ dirs \subseteq Bases \X Ids /\ dropIn \in {"absent", "unvalidated", "valid"}

(* One run changes. *)
LEMMA OneRunStep ==
  ASSUME OutcomeInv, NEW r \in Runs, NEW s, Becomes(r, s), RunInv(s), HostType'
  PROVE  OutcomeInv'
<1>1. run \in [Runs -> RunType]
  BY DEF OutcomeInv, TypeOK
<1>2. run' \in [Runs -> RunType]
  BY <1>1 DEF Becomes, RunInv
<1>3. \A q \in Runs : RunInv(run'[q])
  BY <1>1 DEF Becomes, OutcomeInv
<1>4. TypeOK'
  BY <1>2 DEF TypeOK, HostType
<1>5. (\A q \in Runs : RunInv(run[q]))'
  BY <1>3
<1> QED BY <1>4, <1>5 DEF OutcomeInv

LEMMA HostStays ==
  ASSUME OutcomeInv, tables' = tables, dirs' = dirs, dropIn' = dropIn
  PROVE  HostType'
BY DEF OutcomeInv, TypeOK, HostType

-----------------------------------------------------------------------------
(* One field of a run at a time. *)
LEMMA Retyped ==
  ASSUME NEW s \in RunType
  PROVE  /\ \A p \in {"new", "collector", "probe", "launch1", "wait", "reap", "cleanup", "crashed", "report"} :
              [s EXCEPT !.pc = p] \in RunType
         /\ \A c \in {"none", "zero", "other"} : [s EXCEPT !.code = c] \in RunType
         /\ \A c \in {"none", "zero", "other"} : [s EXCEPT !.exit = c] \in RunType
         /\ \A b \in BOOLEAN : [s EXCEPT !.inScope = b] \in RunType
         /\ \A y \in {"none", "group", "session"} : [s EXCEPT !.stray = y] \in RunType
         /\ \A w \in {"none", "written", "failed", "forged"} : [s EXCEPT !.report = w] \in RunType
         /\ \A c \in {"none", "trampoline", "build", "gone"} : [s EXCEPT !.child = c] \in RunType
         /\ \A w \in {"none", "cgroup", "host", "left"} : [s EXCEPT !.place = w] \in RunType
         /\ \A b \in BOOLEAN : [s EXCEPT !.upDone = b] \in RunType
         /\ \A b \in BOOLEAN : [s EXCEPT !.resolv = b] \in RunType
<1>1. \A p \in {"new", "collector", "probe", "launch1", "wait", "reap", "cleanup", "crashed", "report"} :
        [s EXCEPT !.pc = p] \in RunType
  BY DEF RunType
<1>2. \A c \in {"none", "zero", "other"} : [s EXCEPT !.code = c] \in RunType
  BY DEF RunType
<1>3. \A c \in {"none", "zero", "other"} : [s EXCEPT !.exit = c] \in RunType
  BY DEF RunType
<1>4. \A b \in BOOLEAN : [s EXCEPT !.inScope = b] \in RunType
  BY DEF RunType
<1>5. \A y \in {"none", "group", "session"} : [s EXCEPT !.stray = y] \in RunType
  BY DEF RunType
<1>6. \A w \in {"none", "written", "failed", "forged"} : [s EXCEPT !.report = w] \in RunType
  BY DEF RunType
<1>7. \A c \in {"none", "trampoline", "build", "gone"} : [s EXCEPT !.child = c] \in RunType
  BY DEF RunType
<1>8. \A w \in {"none", "cgroup", "host", "left"} : [s EXCEPT !.place = w] \in RunType
  BY DEF RunType
<1>9. \A b \in BOOLEAN : [s EXCEPT !.upDone = b] \in RunType
  BY DEF RunType
<1>10. \A b \in BOOLEAN : [s EXCEPT !.resolv = b] \in RunType
  BY DEF RunType
<1> QED BY <1>1, <1>2, <1>3, <1>4, <1>5, <1>6, <1>7, <1>8, <1>9, <1>10

LEMMA WithTodo ==
  ASSUME NEW s \in RunType, NEW todo \in Seq(Cleanups)
  PROVE  /\ [s EXCEPT !.todo = todo] \in RunType
         /\ \A p \in {"new", "collector"} : [s EXCEPT !.pc = p, !.todo = todo] \in RunType
         /\ [s EXCEPT !.pc = "probe", !.upDone = TRUE, !.todo = todo] \in RunType
         /\ [s EXCEPT !.pc = "launch1", !.resolv = TRUE, !.todo = todo] \in RunType
<1> DEFINE t == [s EXCEPT !.todo = todo]
           u == [t EXCEPT !.upDone = TRUE]
           v == [t EXCEPT !.resolv = TRUE]
<1>1. t.todo = todo
  BY DEF RunType
<1>2. t \in RunType
  BY <1>1 DEF RunType, Cleanups
<1>3. /\ \A p \in {"new", "collector"} : [s EXCEPT !.pc = p, !.todo = todo] = [t EXCEPT !.pc = p]
      /\ [s EXCEPT !.pc = "probe", !.upDone = TRUE, !.todo = todo] = [u EXCEPT !.pc = "probe"]
      /\ [s EXCEPT !.pc = "launch1", !.resolv = TRUE, !.todo = todo] = [v EXCEPT !.pc = "launch1"]
  BY DEF RunType
<1> HIDE DEF t
<1>4. \A p \in {"new", "collector"} : [t EXCEPT !.pc = p] \in RunType
  BY ONLY <1>2, Retyped, Zenon
<1>5. u \in RunType /\ v \in RunType
  BY ONLY <1>2, Retyped, Zenon
<1> HIDE DEF u, v
<1>6. [u EXCEPT !.pc = "probe"] \in RunType /\ [v EXCEPT !.pc = "launch1"] \in RunType
  BY ONLY <1>5, Retyped, Zenon
<1> QED BY <1>2, <1>3, <1>4, <1>6 DEF t

(* executeRun returns with an error. *)
LEMMA ReturnInv ==
  ASSUME OutcomeInv, NEW r \in Runs, NEW cleanups \in {<<>>, Undo}, run[r].pc \in Preparing
  PROVE  RunInv([run[r] EXCEPT !.pc = "cleanup", !.exit = "other", !.todo = cleanups \o @])
<1> DEFINE s == [run[r] EXCEPT !.pc = "cleanup", !.exit = "other", !.todo = cleanups \o @]
<1>1. run[r] \in RunType /\ run[r].todo \in Seq(Cleanups)
  BY OutcomeFacts
<1>2. s.todo = cleanups \o run[r].todo
  BY <1>1 DEF RunType
<1>3. /\ s.todo \in Seq(Cleanups) /\ Pending(run[r].todo) \subseteq Pending(s.todo)
      /\ "restore" \in Pending(s.todo) => "restore" \in Pending(run[r].todo)
  BY <1>1, <1>2, Pushing, ZenonT(60)
<1> DEFINE a == [run[r] EXCEPT !.pc = "cleanup"]
           b == [a EXCEPT !.exit = "other"]
<1> DEFINE todo == cleanups \o run[r].todo
<1>9. todo \in Seq(Cleanups)
  BY <1>2, <1>3
<1>4. s \in RunType
  <2>1. s = [run[r] EXCEPT !.pc = "cleanup", !.exit = "other", !.todo = todo]
    OBVIOUS
  <2> HIDE DEF s, todo
  <2>2. [run[r] EXCEPT !.pc = "cleanup", !.exit = "other", !.todo = todo] = [b EXCEPT !.todo = todo]
    BY <1>1 DEF RunType
  <2>3. a \in RunType
    BY ONLY <1>1, Retyped, Zenon
  <2> HIDE DEF a
  <2>4. b \in RunType
    BY ONLY <2>3, Retyped, Zenon
  <2> HIDE DEF b
  <2> QED BY ONLY <2>1, <2>2, <2>4, <1>9, WithTodo, Zenon
<1>5. /\ s.pc = "cleanup" /\ s.exit = "other" /\ s.report = run[r].report /\ s.place = run[r].place
      /\ s.child = run[r].child /\ s.stray = run[r].stray /\ s.cg = run[r].cg /\ s.block = run[r].block
      /\ s.code = run[r].code /\ s.widened = run[r].widened /\ s.inScope = run[r].inScope
      /\ s.upDone = run[r].upDone /\ s.resolv = run[r].resolv /\ s.sudoOff = run[r].sudoOff
  BY <1>1 DEF RunType
<1> HIDE DEF s
<1> DEFINE old == run[r]
<1>8. /\ ChildInv(old) /\ FilterInv(old) /\ ReportInv(old) /\ ScopeInv(old)
      /\ CleanupInv(old) /\ SudoInv(old)
  BY OutcomeFacts
<1>6. ChildInv(s) /\ FilterInv(s) /\ ReportInv(s)
  BY <1>5, <1>8 DEF ChildInv, FilterInv, ReportInv, Live, Early, Preparing, Launches, Commands
<1>7. ScopeInv(s) /\ CleanupInv(s) /\ SudoInv(s)
  BY <1>3, <1>5, <1>8 DEF ScopeInv, CleanupInv, SudoInv, Live, ChildInv, Early, Preparing, Launches, Over
<1> QED BY <1>4, <1>6, <1>7 DEF RunInv, s

(* What the invariant does not speak of. *)
LEMMA UntouchedInv ==
  ASSUME NEW s, RunInv(s), NEW t,
         \/ t = [s EXCEPT !.residue = TRUE]
         \/ t = [s EXCEPT !.cut = TRUE]
         \/ t = [s EXCEPT !.signalled = TRUE]
  PROVE  RunInv(t)
<1>1. s \in RunType
  BY DEF RunInv
<1>2. t \in RunType
  <2>1. CASE t = [s EXCEPT !.residue = TRUE]
    BY <1>1, <2>1 DEF RunType
  <2>2. CASE t = [s EXCEPT !.cut = TRUE]
    BY <1>1, <2>2 DEF RunType
  <2>3. CASE t = [s EXCEPT !.signalled = TRUE]
    BY <1>1, <2>3 DEF RunType
  <2> QED BY <2>1, <2>2, <2>3
<1>3. \A f \in {"pc", "block", "sudoOff", "todo", "upDone", "cg", "resolv", "child", "stray", "place",
                "code", "widened", "inScope", "report", "exit"} : t[f] = s[f]
  BY <1>1 DEF RunType
<1>4. ChildInv(t) /\ FilterInv(t) /\ ReportInv(t)
  BY <1>3 DEF RunInv, ChildInv, FilterInv, ReportInv, Live
<1>5. ScopeInv(t) /\ CleanupInv(t) /\ SudoInv(t)
  BY <1>3 DEF RunInv, ScopeInv, CleanupInv, SudoInv, Live
<1> QED BY <1>2, <1>4, <1>5 DEF RunInv

(* A step of the preparation: nothing has been started before it or after it. *)
LEMMA PrepareInv ==
  ASSUME NEW s, RunInv(s), NEW t \in RunType,
         s.pc \in Preparing, t.pc \in (Preparing \ {"start"}) \union {"launch1"},
         /\ t.block = s.block /\ t.sudoOff = s.sudoOff /\ t.child = s.child /\ t.stray = s.stray
         /\ t.place = s.place /\ t.code = s.code /\ t.report = s.report /\ t.exit = s.exit
         /\ t.widened = s.widened,
         t.pc \in {"sudo", "visudo", "new"} => t.cg = "none",
         t.block /\ t.pc \notin {"sudo", "visudo", "new"} => t.cg # "none",
         t.upDone => "delete" \in Pending(t.todo),
         t.resolv => "unresolv" \in Pending(t.todo),
         t.pc \in {"sudo", "visudo"} \/ "restore" \in Pending(t.todo) => t.sudoOff,
         t.sudoOff => t.block
  PROVE  RunInv(t)
<1> USE DEF Early, Preparing, Launches, Commands, Over, Live
<1>1. /\ ChildInv(s) /\ ReportInv(s) /\ ScopeInv(s) /\ FilterInv(s)
  BY DEF RunInv
<1>2. ChildInv(t) /\ FilterInv(t) /\ ReportInv(t)
  BY <1>1 DEF ChildInv, FilterInv, ReportInv
<1>3. ScopeInv(t) /\ CleanupInv(t) /\ SudoInv(t)
  BY <1>1 DEF ChildInv, ScopeInv, CleanupInv, SudoInv
<1> QED BY <1>2, <1>3 DEF RunInv

(* executeRun up to the start of the command. *)
LEMMA PrepareSteps ==
  ASSUME OutcomeInv, NEW r \in Runs, Prepare(r)
  PROVE  OutcomeInv'
<1> DEFINE old == run[r]
<1>1. /\ old \in RunType /\ old.todo \in Seq(Cleanups) /\ RunInv(old)
      /\ FilterInv(old) /\ CleanupInv(old) /\ SudoInv(old) /\ ChildInv(old)
  BY OutcomeFacts
<1>2. ASSUME NEW c \in {<<>>, Undo}, Returns(r, c), HostType', old.pc \in Preparing PROVE OutcomeInv'
  BY <1>2, ReturnInv, OneRunStep DEF Returns
<1>3. HostType'
  <2>1. HostType /\ old.id \in Ids
    BY <1>1 DEF OutcomeInv, TypeOK, HostType, RunType
  <2>2. CASE dirs' = dirs /\ tables' = tables
    <3>1. dropIn' \in {dropIn, "absent", "unvalidated", "valid"}
      BY DEF Prepare, Refuse, Start, WriteDropIn, Visudo, New, StartDns, Setup, SelfProbe,
             NewCollector, WriteResolvConf
    <3>2. dropIn' \in {"absent", "unvalidated", "valid"}
      BY <2>1, <3>1 DEF HostType
    <3>3. tables \in [Ids -> SUBSET Runs] /\ dirs \subseteq Bases \X Ids
      BY <2>1 DEF HostType
    <3>4. tables' \in [Ids -> SUBSET Runs]
      BY <2>2, <3>3
    <3>5. dirs' \subseteq Bases \X Ids
      BY <2>2, <3>3
    <3> QED BY <3>2, <3>4, <3>5 DEF HostType
  <2>3. CASE New(r)
    <3>1. dropIn' = dropIn /\ tables' = tables /\ (dirs' = dirs \/ \E b \in Bases : dirs' = dirs \union {<< b, old.id >>})
      BY <2>3 DEF New
    <3>2. dirs' \subseteq Bases \X Ids
      BY <2>1, <3>1 DEF HostType
    <3> QED BY <2>1, <3>1, <3>2 DEF HostType
  <2>4. CASE Setup(r)
    BY <2>1, <2>4 DEF HostType, Setup
  <2> QED BY <2>2, <2>3, <2>4
          DEF Prepare, Refuse, Start, WriteDropIn, Visudo, StartDns, SelfProbe, NewCollector, WriteResolvConf
<1>4. CASE Refuse(r)
  BY <1>2, <1>3, <1>4 DEF Refuse, At, Preparing
<1>5. CASE Start(r)
  <2> DEFINE t == [old EXCEPT !.pc = IF old.sudoOff THEN "sudo" ELSE "new"]
  <2>1. old.pc = "start" /\ Becomes(r, t) /\ (old.sudoOff => old.block)
    BY <1>5 DEF Start, At, GoesTo
  <2>2. RunInv(t)
    <3>1. t \in RunType
      BY <1>1 DEF RunType
    <3> QED BY <1>1, <2>1, <3>1, PrepareInv DEF RunType, Preparing, CleanupInv, SudoInv, ChildInv
  <2> QED BY <1>3, <2>1, <2>2, OneRunStep
<1>6. CASE WriteDropIn(r)
  <2>1. old.pc = "sudo"
    BY <1>6 DEF WriteDropIn, At
  <2>2. CASE Returns(r, <<>>)
    BY <1>2, <1>3, <2>1, <2>2 DEF Preparing
  <2>3. ASSUME NEW t, Becomes(r, t), t = [old EXCEPT !.pc = "visudo"] PROVE OutcomeInv'
    <3>1. t \in RunType
      BY <1>1, <2>3 DEF RunType
    <3>2. RunInv(t)
      BY <1>1, <2>1, <2>3, <3>1, PrepareInv DEF RunType, Preparing, CleanupInv, SudoInv, ChildInv, Over
    <3> QED BY <1>3, <2>3, <3>2, OneRunStep
  <2>4. ASSUME NEW t, Becomes(r, t),
               t = [old EXCEPT !.pc = "cleanup", !.exit = "other", !.residue = TRUE] PROVE OutcomeInv'
    <3> DEFINE u == [old EXCEPT !.pc = "cleanup", !.exit = "other", !.todo = <<>> \o @]
    <3>1. RunInv(u)
      BY <2>1, ReturnInv DEF Preparing
    <3>2. u = [old EXCEPT !.pc = "cleanup", !.exit = "other"]
      BY <1>1, Pushing DEF RunType
    <3>3. t = [u EXCEPT !.residue = TRUE]
      BY <1>1, <2>4, <3>2 DEF RunType
    <3> HIDE DEF u
    <3>6. RunInv(t)
      BY <3>1, <3>3, UntouchedInv
    <3> QED BY <1>3, <2>4, <3>6, OneRunStep
  <2> QED BY <1>6, <2>2, <2>3, <2>4 DEF WriteDropIn, GoesTo
<1>7. CASE Visudo(r)
  <2>1. old.pc = "visudo"
    BY <1>7 DEF Visudo, At
  <2>2. CASE Returns(r, <<>>)
    BY <1>2, <1>3, <2>1, <2>2 DEF Preparing
  <2>3. ASSUME NEW t, Becomes(r, t), t = [old EXCEPT !.pc = "new", !.todo = <<"restore">> \o @]
        PROVE  OutcomeInv'
    <3>1. t.todo = <<"restore">> \o old.todo
      BY <1>1, <2>3 DEF RunType
    <3>2. t.todo \in Seq(Cleanups) /\ Pending(t.todo) = {"restore"} \union Pending(old.todo)
      BY <1>1, <3>1, Pushing DEF Cleanups
    <3>3. t \in RunType
      <4> DEFINE todo == <<"restore">> \o old.todo
      <4>1. todo \in Seq(Cleanups) /\ t = [old EXCEPT !.pc = "new", !.todo = todo]
        BY <1>1, <2>3, <3>1, <3>2
      <4> HIDE DEF todo, old
      <4>2. [old EXCEPT !.pc = "new", !.todo = todo] \in RunType
        BY <1>1, <4>1, WithTodo
      <4> QED BY <4>1, <4>2
    <3>5. /\ t.pc = "new" /\ t.cg = old.cg /\ t.upDone = old.upDone /\ t.resolv = old.resolv
          /\ t.block = old.block /\ t.sudoOff = old.sudoOff /\ t.child = old.child
          /\ t.stray = old.stray /\ t.place = old.place /\ t.code = old.code
          /\ t.report = old.report /\ t.exit = old.exit /\ t.widened = old.widened
      BY <1>1, <2>3 DEF RunType
    <3>4. RunInv(t)
      BY <1>1, <2>1, <3>2, <3>3, <3>5, PrepareInv
         DEF Preparing, CleanupInv, SudoInv, ChildInv, Over
    <3> QED BY <1>3, <2>3, <3>4, OneRunStep
  <2> QED BY <1>7, <2>2, <2>3 DEF Visudo
<1>8. CASE New(r)
  <2>1. old.pc = "new"
    BY <1>8 DEF New, At
  <2>2. CASE Returns(r, <<>>)
    BY <1>2, <1>3, <2>1, <2>2 DEF Preparing
  <2>3. ASSUME NEW t, Becomes(r, t),
               \/ \E base \in Bases : t = [old EXCEPT !.pc = "dns", !.cg = base]
               \/ ~ old.block /\ t = [old EXCEPT !.pc = "dns"]
        PROVE  OutcomeInv'
    <3>1. t \in RunType
      <4>1. ASSUME NEW base \in Bases, t = [old EXCEPT !.pc = "dns", !.cg = base] PROVE t \in RunType
        BY <1>1, <4>1, ZenonT(60) DEF RunType
      <4>2. CASE t = [old EXCEPT !.pc = "dns"]
        BY <1>1, <4>2 DEF RunType
      <4> QED BY <2>3, <4>1, <4>2
    <3>2. /\ t.pc = "dns" /\ t.todo = old.todo /\ t.upDone = old.upDone /\ t.resolv = old.resolv
          /\ t.block = old.block /\ t.sudoOff = old.sudoOff /\ t.child = old.child
          /\ t.stray = old.stray /\ t.place = old.place /\ t.code = old.code
          /\ t.report = old.report /\ t.exit = old.exit /\ t.widened = old.widened
      BY <1>1, <2>3, ZenonT(60) DEF RunType
    <3>3. t.block => t.cg # "none"
      BY <1>1, <2>3, <3>2 DEF RunType, Bases
    <3>4. RunInv(t)
      BY <1>1, <2>1, <3>1, <3>2, <3>3, PrepareInv DEF Preparing, CleanupInv, SudoInv, Over
    <3> QED BY <1>3, <2>3, <3>4, OneRunStep
  <2> QED BY <1>8, <2>2, <2>3 DEF New, GoesTo
<1>9. CASE StartDns(r)
  <2>1. old.pc = "dns"
    BY <1>9 DEF StartDns, At
  <2>2. CASE Returns(r, Undo)
    BY <1>2, <1>3, <2>1, <2>2 DEF Preparing
  <2>3. ASSUME NEW t, Becomes(r, t), t = [old EXCEPT !.pc = "setup"] PROVE OutcomeInv'
    <3>1. t \in RunType
      BY <1>1, <2>3 DEF RunType
    <3>2. RunInv(t)
      BY <1>1, <2>1, <2>3, <3>1, PrepareInv DEF RunType, Preparing, CleanupInv, SudoInv, FilterInv, Over
    <3> QED BY <1>3, <2>3, <3>2, OneRunStep
  <2> QED BY <1>9, <2>2, <2>3 DEF StartDns, GoesTo
<1>10. CASE Setup(r)
  <2>1. old.pc = "setup"
    BY <1>10 DEF Setup, At
  <2>2. CASE Returns(r, Undo)
    BY <1>2, <1>3, <2>1, <2>2 DEF Preparing
  <2> DEFINE todo == Undo \o old.todo
  <2>3. /\ todo \in Seq(Cleanups) /\ "delete" \in Pending(todo)
        /\ Pending(old.todo) \subseteq Pending(todo)
        /\ "restore" \in Pending(todo) => "restore" \in Pending(old.todo)
    BY <1>1, Pushing
  <2>4. ASSUME NEW t, Becomes(r, t),
               \/ t = [old EXCEPT !.pc = "collector", !.todo = todo]
               \/ t = [old EXCEPT !.pc = "probe", !.upDone = TRUE, !.todo = todo]
        PROVE  OutcomeInv'
    <3> HIDE DEF todo
    <3>1. t \in RunType
      BY <1>1, <2>3, <2>4, WithTodo
    <3>2. /\ t.pc \in {"collector", "probe"} /\ t.todo = todo /\ t.cg = old.cg /\ t.resolv = old.resolv
          /\ t.block = old.block /\ t.sudoOff = old.sudoOff /\ t.child = old.child
          /\ t.stray = old.stray /\ t.place = old.place /\ t.code = old.code
          /\ t.report = old.report /\ t.exit = old.exit /\ t.widened = old.widened
      BY <1>1, <2>4, ZenonT(60) DEF RunType
    <3>3. RunInv(t)
      BY <1>1, <2>1, <2>3, <3>1, <3>2, PrepareInv DEF Preparing, CleanupInv, SudoInv, FilterInv, Over
    <3> QED BY <1>3, <2>4, <3>3, OneRunStep
  <2>5. ASSUME NEW t, Becomes(r, t),
               t = [old EXCEPT !.pc = "cleanup", !.exit = "other", !.todo = todo, !.cut = TRUE]
        PROVE  OutcomeInv'
    <3> DEFINE u == [old EXCEPT !.pc = "cleanup", !.exit = "other", !.todo = todo]
    <3>1. RunInv(u)
      BY <2>1, ReturnInv DEF Preparing
    <3>2. u \in RunType /\ t = [u EXCEPT !.cut = TRUE]
      BY <1>1, <2>5, <3>1 DEF RunType, RunInv
    <3> HIDE DEF u
    <3>3. RunInv(t)
      BY <3>1, <3>2, UntouchedInv
    <3> QED BY <1>3, <2>5, <3>3, OneRunStep
  <2> QED BY <1>10, <2>2, <2>4, <2>5 DEF Setup
<1>11. CASE SelfProbe(r) \/ NewCollector(r)
  <2>1. old.pc \in {"probe", "collector"}
    BY <1>11 DEF SelfProbe, NewCollector, At
  <2>2. CASE Returns(r, <<>>)
    BY <1>2, <1>3, <2>1, <2>2 DEF Preparing
  <2>3. ASSUME NEW t, Becomes(r, t), NEW p \in {"collector", "resolv"}, t = [old EXCEPT !.pc = p]
        PROVE  OutcomeInv'
    <3>1. t \in RunType
      BY <1>1, <2>3 DEF RunType
    <3>2. RunInv(t)
      BY <1>1, <2>1, <2>3, <3>1, PrepareInv DEF RunType, Preparing, CleanupInv, SudoInv, FilterInv, Over
    <3> QED BY <1>3, <2>3, <3>2, OneRunStep
  <2> QED BY <1>11, <2>2, <2>3 DEF SelfProbe, NewCollector, GoesTo
<1>12. CASE WriteResolvConf(r)
  <2>1. old.pc = "resolv"
    BY <1>12 DEF WriteResolvConf, At
  <2>2. CASE Returns(r, <<>>)
    BY <1>2, <1>3, <2>1, <2>2 DEF Preparing
  <2>3. CASE GoesTo(r, "launch1")
    <3> DEFINE t == [old EXCEPT !.pc = "launch1"]
    <3>1. t \in RunType
      BY <1>1 DEF RunType
    <3>2. RunInv(t)
      BY <1>1, <2>1, <3>1, PrepareInv DEF RunType, Preparing, CleanupInv, SudoInv, FilterInv, Over
    <3> QED BY <1>3, <2>3, <3>2, OneRunStep DEF GoesTo
  <2> DEFINE todo == <<"unresolv">> \o old.todo
  <2>4. todo \in Seq(Cleanups) /\ Pending(todo) = {"unresolv"} \union Pending(old.todo)
    BY <1>1, Pushing DEF Cleanups
  <2>5. ASSUME NEW t, Becomes(r, t),
               t = [old EXCEPT !.pc = "launch1", !.resolv = TRUE, !.todo = todo]
        PROVE  OutcomeInv'
    <3> HIDE DEF todo
    <3>1. t \in RunType
      <4> HIDE DEF old
      <4>1. [old EXCEPT !.pc = "launch1", !.resolv = TRUE, !.todo = todo] \in RunType
        BY <1>1, <2>4, WithTodo
      <4> QED BY <2>5, <4>1
    <3>3. /\ t.pc = "launch1" /\ t.todo = todo /\ t.cg = old.cg /\ t.upDone = old.upDone
          /\ t.block = old.block /\ t.sudoOff = old.sudoOff /\ t.child = old.child
          /\ t.stray = old.stray /\ t.place = old.place /\ t.code = old.code
          /\ t.report = old.report /\ t.exit = old.exit /\ t.widened = old.widened
      BY <1>1, <2>5 DEF RunType
    <3>2. RunInv(t)
      BY <1>1, <2>1, <2>4, <3>1, <3>3, PrepareInv
         DEF Preparing, CleanupInv, SudoInv, FilterInv, Over
    <3> QED BY <1>3, <2>5, <3>2, OneRunStep
  <2> QED BY <1>12, <2>2, <2>3, <2>5 DEF WriteResolvConf
<1> QED BY <1>4, <1>5, <1>6, <1>7, <1>8, <1>9, <1>10, <1>11, <1>12 DEF Prepare

-----------------------------------------------------------------------------
(* runCommand: what starts, where, and what the probes are told of it. *)
LEMMA LaunchStep ==
  ASSUME OutcomeInv, NEW r \in Runs, Launch(r)
  PROVE  OutcomeInv'
<1> DEFINE old == run[r]
           child == IF old.block \/ (At(r, "launch1") /\ old.resolv) THEN "trampoline" ELSE "build"
           place == IF HasCgroup(r) /\ ~ At(r, "launch3") THEN "cgroup" ELSE "host"
           scoped == InScope(r)
           t == [old EXCEPT !.pc = "wait", !.place = place, !.child = child, !.inScope = scoped]
<1>1. /\ old \in RunType /\ ChildInv(old) /\ FilterInv(old) /\ ReportInv(old) /\ ScopeInv(old)
      /\ CleanupInv(old) /\ SudoInv(old)
  BY OutcomeFacts
<1>2. old.pc \in Launches /\ Becomes(r, t) /\ HostType'
  BY HostStays DEF Launch
<1>3. /\ child \in {"trampoline", "build"} /\ place \in {"cgroup", "host"}
      /\ place = "cgroup" => old.cg # "none"
      /\ place = "host" /\ old.cg # "none" => old.pc = "launch3"
  BY DEF HasCgroup, At
<1>10. scoped \in BOOLEAN
  BY DEF InScope, HasCgroup
<1>11. old.pc = "launch3" /\ old.cg # "none" => (scoped <=> old.widened # Probes)
  <2> SUFFICES ASSUME old.pc = "launch3", old.cg # "none" PROVE scoped <=> old.widened # Probes
    OBVIOUS
  <2>1. HasCgroup(r) /\ At(r, "launch3")
    BY DEF HasCgroup, At
  <2> QED BY <2>1 DEF InScope
<1> HIDE DEF child, place, scoped
<1>4. t \in RunType
  BY <1>1, <1>3, <1>10, Retyped
<1>5. /\ t.pc = "wait" /\ t.child = child /\ t.place = place /\ t.inScope = scoped
      /\ t.stray = old.stray /\ t.cg = old.cg /\ t.block = old.block /\ t.code = old.code
      /\ t.report = old.report /\ t.exit = old.exit /\ t.widened = old.widened /\ t.todo = old.todo
      /\ t.upDone = old.upDone /\ t.resolv = old.resolv /\ t.sudoOff = old.sudoOff
  BY <1>1 DEF RunType
<1> HIDE DEF t
<1> USE DEF Early, Preparing, Launches, Commands, Over, Live
<1>6. old.block => old.pc = "launch1" /\ old.cg # "none"
  BY <1>1, <1>2 DEF FilterInv
<1>7. ChildInv(t) /\ FilterInv(t) /\ ReportInv(t)
  BY <1>1, <1>2, <1>3, <1>5, <1>6 DEF ChildInv, FilterInv, ReportInv
<1>8. ScopeInv(t) /\ CleanupInv(t) /\ SudoInv(t)
  BY <1>1, <1>2, <1>3, <1>5, <1>11 DEF ScopeInv, CleanupInv, SudoInv
<1>9. RunInv(t)
  BY <1>4, <1>7, <1>8 DEF RunInv
<1> QED BY <1>2, <1>9, OneRunStep

LEMMA CommandOutcome ==
  ASSUME OutcomeInv, NEW r \in Runs, LaunchFails(r) \/ Unscope(r) \/ Wait(r) \/ WriteReport(r)
  PROVE  OutcomeInv'
<1> DEFINE old == run[r]
<1>1. /\ old \in RunType /\ ChildInv(old) /\ FilterInv(old) /\ ReportInv(old) /\ ScopeInv(old)
      /\ CleanupInv(old) /\ SudoInv(old)
  BY OutcomeFacts
<1>2. HostType'
  BY HostStays DEF LaunchFails, Unscope, Wait, WriteReport
<1>3. CASE LaunchFails(r)
  <2> DEFINE scoped == HasCgroup(r)
             t == [old EXCEPT !.pc = "reap", !.code = "other", !.inScope = scoped]
  <2>1. old.pc \in Launches
    BY <1>3 DEF LaunchFails
  <2>2. CASE Becomes(r, t)
    <3>1. scoped \in BOOLEAN
      BY DEF HasCgroup
    <3> HIDE DEF scoped
    <3>2. t \in RunType
      BY <1>1, <3>1, Retyped
    <3>3. ChildInv(t) /\ FilterInv(t) /\ ReportInv(t)
      BY <1>1, <2>1
       DEF RunType, ChildInv, FilterInv, ReportInv, Early, Preparing, Launches, Commands, Over, Live
    <3>4. ScopeInv(t) /\ CleanupInv(t) /\ SudoInv(t)
      BY <1>1, <2>1
       DEF RunType, ChildInv, ScopeInv, CleanupInv, SudoInv, Early, Preparing, Launches, Commands, Over, Live
    <3>5. RunInv(t)
      BY <3>2, <3>3, <3>4 DEF RunInv
    <3> QED BY <1>2, <2>2, <3>5, OneRunStep
  <2> DEFINE u == [old EXCEPT !.pc = IF At(r, "launch1") THEN "launch2" ELSE "unscope"]
  <2>3. CASE Becomes(r, u) /\ ~ old.block /\ old.pc # "launch3"
    <3>1. u \in RunType
      BY <1>1 DEF RunType
    <3>2. ChildInv(u) /\ FilterInv(u) /\ ReportInv(u)
      BY <1>1, <2>1, <2>3
       DEF RunType, ChildInv, FilterInv, ReportInv, Early, Preparing, Launches, Commands, Over, Live
    <3>3. ScopeInv(u) /\ CleanupInv(u) /\ SudoInv(u)
      BY <1>1, <2>1, <2>3
       DEF RunType, ChildInv, ScopeInv, CleanupInv, SudoInv, Early, Preparing, Launches, Commands, Over, Live
    <3>4. RunInv(u)
      BY <3>1, <3>2, <3>3 DEF RunInv
    <3> QED BY <1>2, <2>3, <3>4, OneRunStep
  <2> QED BY <1>3, <2>2, <2>3 DEF LaunchFails, GoesTo, At
<1>4. CASE Unscope(r)
  <2>1. PICK done \in SUBSET Probes : /\ done \in {{}, Probes} \/ "partialScope" \in Faults
                                      /\ Becomes(r, [old EXCEPT !.pc = "launch3", !.widened = done])
    BY <1>4 DEF Unscope
  <2> DEFINE t == [old EXCEPT !.pc = "launch3", !.widened = done]
  <2>2. old.pc = "unscope"
    BY <1>4 DEF Unscope, At
  <2>3. t \in RunType
    BY <1>1 DEF RunType
  <2>4. ChildInv(t) /\ FilterInv(t) /\ ReportInv(t)
    BY <1>1, <2>2
       DEF RunType, ChildInv, FilterInv, ReportInv, Early, Preparing, Launches, Commands, Over, Live
  <2>5. ScopeInv(t) /\ CleanupInv(t) /\ SudoInv(t)
    BY <1>1, <2>1, <2>2
       DEF RunType, ChildInv, ScopeInv, CleanupInv, SudoInv, Early, Preparing, Launches, Commands, Over, Live
  <2>6. RunInv(t)
    BY <2>3, <2>4, <2>5 DEF RunInv
  <2> QED BY <1>2, <2>1, <2>6, OneRunStep
<1>5. CASE Wait(r)
  <2> DEFINE stray == IF ~ old.block /\ old.stray = "group" THEN "none" ELSE old.stray
             t == [old EXCEPT !.pc = "reap", !.stray = stray]
  <2>1. old.pc = "wait" /\ Becomes(r, t)
    BY <1>1, <1>5 DEF Wait, At, RunType
  <2>2. stray \in {"none", "group", "session"} /\ stray \in {"none", old.stray}
    BY <1>1 DEF RunType
  <2> HIDE DEF stray
  <2>3. t \in RunType
    BY <1>1, <2>2, Retyped
  <2>4. ChildInv(t) /\ FilterInv(t) /\ ReportInv(t)
    BY <1>1, <2>1, <2>2
       DEF RunType, ChildInv, FilterInv, ReportInv, Early, Preparing, Launches, Commands, Over, Live
  <2>5. ScopeInv(t) /\ CleanupInv(t) /\ SudoInv(t)
    BY <1>1, <2>1, <2>2
       DEF RunType, ChildInv, ScopeInv, CleanupInv, SudoInv, Early, Preparing, Launches, Commands, Over, Live
  <2>6. RunInv(t)
    BY <2>3, <2>4, <2>5 DEF RunInv
  <2> QED BY <1>2, <2>1, <2>6, OneRunStep
<1>6. CASE WriteReport(r)
  <2>1. PICK exit, report :
          /\ (exit = old.code /\ report = "written") \/ (exit = "other" /\ report = "failed")
          /\ Becomes(r, [old EXCEPT !.pc = "cleanup", !.exit = exit, !.report = report])
    <3>1. PICK w \in BOOLEAN : Becomes(r, [old EXCEPT !.pc = "cleanup", !.exit = ExitCode(r, w),
                                                     !.report = IF w THEN "written" ELSE "failed"])
      BY <1>6 DEF WriteReport
    <3> DEFINE exit == ExitCode(r, w)
               report == IF w THEN "written" ELSE "failed"
    <3>2. (exit = old.code /\ report = "written") \/ (exit = "other" /\ report = "failed")
      <4>1. CASE w
        BY <4>1 DEF ExitCode
      <4>2. CASE ~ w
        BY <4>2 DEF ExitCode
      <4> QED BY <4>1, <4>2
    <3>3. Becomes(r, [old EXCEPT !.pc = "cleanup", !.exit = exit, !.report = report])
      BY <3>1
    <3> HIDE DEF exit, report
    <3> QED BY <3>2, <3>3
  <2> DEFINE t == [old EXCEPT !.pc = "cleanup", !.exit = exit, !.report = report]
  <2>2. old.pc = "report"
    BY <1>6 DEF WriteReport, At
  <2>3. t \in RunType
    <3>1. exit \in {"none", "zero", "other"} /\ report \in {"none", "written", "failed", "forged"}
      BY <1>1, <2>1 DEF RunType
    <3> QED BY <1>1, <3>1, Retyped
  <2>4. ChildInv(t) /\ FilterInv(t) /\ ReportInv(t)
    BY <1>1, <2>1, <2>2
       DEF RunType, ChildInv, FilterInv, ReportInv, Early, Preparing, Launches, Commands, Over, Live
  <2>5. ScopeInv(t) /\ CleanupInv(t) /\ SudoInv(t)
    BY <1>1, <2>2
       DEF RunType, ChildInv, ScopeInv, CleanupInv, SudoInv, Early, Preparing, Launches, Commands, Over, Live
  <2>6. RunInv(t)
    BY <2>3, <2>4, <2>5 DEF RunInv
  <2> QED BY <1>2, <2>1, <2>6, OneRunStep
<1> QED BY <1>3, <1>4, <1>5, <1>6

(* What the child and its children do to a run's record. *)
ChildMoves(s, t) ==
  /\ Live(t) => Live(s)
  /\ \/ t.report = s.report
     \/ Live(s) /\ s.report = "written" /\ t.report = "forged"
  /\ \/ t.child = s.child /\ t.code = s.code
     \/ s.child \in {"trampoline", "build"} /\ t.child = "gone"
     \/ s.child \in {"trampoline", "build"} /\ t.child = "build" /\ t.code = s.code

LEMMA LeaveOutcome ==
  ASSUME OutcomeInv, NEW r \in Runs, BuildLeaves(r)
  PROVE  OutcomeInv'
<1> DEFINE old == run[r]
           t == [old EXCEPT !.place = "left"]
<1>1. /\ old \in RunType /\ ChildInv(old) /\ FilterInv(old) /\ ReportInv(old) /\ ScopeInv(old)
      /\ CleanupInv(old) /\ SudoInv(old)
  BY OutcomeFacts
<1>2. ~ old.block /\ Live(old) /\ old.place = "cgroup" /\ Becomes(r, t) /\ HostType'
  BY HostStays DEF BuildLeaves, BuildCode, Live
<1>3. t \in RunType
  BY <1>1, Retyped
<1>4. /\ t.pc = old.pc /\ t.block = old.block /\ t.sudoOff = old.sudoOff /\ t.cg = old.cg
      /\ t.child = old.child /\ t.stray = old.stray /\ t.code = old.code /\ t.exit = old.exit
      /\ t.report = old.report /\ t.widened = old.widened /\ t.inScope = old.inScope
      /\ t.todo = old.todo /\ t.upDone = old.upDone /\ t.resolv = old.resolv
      /\ t.place = "left"
  BY <1>1 DEF RunType
<1> HIDE DEF t, old
<1>5. ChildInv(t) /\ FilterInv(t) /\ ReportInv(t)
  BY <1>1, <1>2, <1>4
     DEF ChildInv, FilterInv, ReportInv, Early, Preparing, Launches, Commands, Live
<1>6. ScopeInv(t) /\ CleanupInv(t) /\ SudoInv(t)
  BY <1>1, <1>4 DEF ScopeInv, CleanupInv, SudoInv, Live
<1>7. RunInv(t)
  BY <1>3, <1>5, <1>6 DEF RunInv
<1> QED BY <1>2, <1>7, OneRunStep

(* The child, what it leaves, signals and the death of Egret. *)
LEMMA BuildOutcome ==
  ASSUME OutcomeInv, NEW r \in Runs, BuildMoves(r) \/ ContextKills(r) \/ Signal(r) \/ Crash(r)
  PROVE  OutcomeInv'
<1> DEFINE old == run[r]
<1>1. /\ old \in RunType /\ ChildInv(old) /\ FilterInv(old) /\ ReportInv(old) /\ ScopeInv(old)
      /\ CleanupInv(old) /\ SudoInv(old) /\ RunInv(old)
  BY OutcomeFacts
<1>2. HostType'
  BY HostStays
     DEF BuildMoves, Trampoline, BuildForks, BuildEnds, BuildOverwrites, ContextKills, Signal, Crash
<1>3. ASSUME NEW t, Becomes(r, t),
             \/ /\ old.child = "trampoline" /\ old.guards < Guards
                /\ t = [old EXCEPT !.guards = @ + 1]
             \/ old.child = "trampoline" /\ t = [old EXCEPT !.child = "build"]
             \/ /\ old.child \in {"trampoline", "build"}
                /\ \E c \in {"zero", "other"} : t = [old EXCEPT !.child = "gone", !.code = c]
             \/ /\ old.child = "build"
                /\ \E y \in {"group", "session"} : t = [old EXCEPT !.stray = y]
             \/ t = [old EXCEPT !.stray = "none"]
             \/ /\ Live(old) /\ old.report = "written"
                /\ t = [old EXCEPT !.report = "forged"]
             \/ ~ Ended(r) /\ t = [old EXCEPT !.pc = "crashed"]
      PROVE  OutcomeInv'
  <2>1. t \in RunType
    <3>1. CASE old.guards < Guards /\ t = [old EXCEPT !.guards = @ + 1]
      <4>1. old.guards \in 0..5 /\ old.guards + 1 \in 0..5
        BY <1>1, <3>1 DEF RunType, Guards
      <4> QED BY <1>1, <3>1, <4>1 DEF RunType, Guards
    <3>2. ASSUME NEW c \in {"zero", "other"}, t = [old EXCEPT !.child = "gone", !.code = c]
          PROVE  t \in RunType
      BY <1>1, <3>2, ZenonT(60) DEF RunType
    <3>3. ASSUME NEW y \in {"group", "session", "none"}, t = [old EXCEPT !.stray = y]
          PROVE  t \in RunType
      BY <1>1, <3>3 DEF RunType
    <3>4. CASE t = [old EXCEPT !.child = "build"]
      BY <1>1, <3>4 DEF RunType
    <3>5. CASE t = [old EXCEPT !.report = "forged"]
      BY <1>1, <3>5 DEF RunType
    <3>6. CASE t = [old EXCEPT !.pc = "crashed"]
      BY <1>1, <3>6 DEF RunType
    <3> QED BY <1>3, <3>1, <3>2, <3>3, <3>4, <3>5, <3>6
  <2>2. /\ t.place = old.place /\ t.cg = old.cg /\ t.block = old.block /\ t.exit = old.exit
        /\ t.widened = old.widened /\ t.inScope = old.inScope /\ t.todo = old.todo
        /\ t.upDone = old.upDone /\ t.resolv = old.resolv /\ t.sudoOff = old.sudoOff
        /\ t.pc = old.pc \/ (t.pc = "crashed" /\ old.pc \notin {"exited", "crashed"})
    BY <1>1, <1>3, ZenonT(60) DEF RunType, Ended
  <2>3. ChildMoves(old, t)
    <3>1. CASE old.child = "trampoline" /\ t = [old EXCEPT !.child = "build"]
      BY <1>1, <3>1 DEF RunType, Live, ChildMoves
    <3>3. ASSUME NEW y, old.child = "build" \/ y = "none", t = [old EXCEPT !.stray = y]
          PROVE  ChildMoves(old, t)
      BY <1>1, <3>3 DEF RunType, Live, ChildMoves
    <3>4. CASE t = [old EXCEPT !.pc = "crashed"]
      BY <1>1, <3>4 DEF RunType, Live, ChildMoves
    <3>5. CASE t = [old EXCEPT !.guards = @ + 1]
      BY <1>1, <3>5 DEF RunType, Live, ChildMoves
    <3>6. ASSUME t = [old EXCEPT !.report = "forged"]
          PROVE  /\ t.child = old.child /\ t.stray = old.stray /\ t.code = old.code
                 /\ t.report = "forged"
      BY <1>1, <3>6 DEF RunType
    <3>7. CASE Live(old) /\ old.report = "written" /\ t = [old EXCEPT !.report = "forged"]
      <4>1. Live(old) /\ old.report = "written"
        BY <3>7
      <4>2. /\ t.child = old.child /\ t.stray = old.stray /\ t.code = old.code
            /\ t.report = "forged"
        BY <3>6, <3>7
      <4> QED BY <4>1, <4>2 DEF Live, ChildMoves
    <3>8. CASE /\ old.child \in {"trampoline", "build"}
               /\ \E c \in {"zero", "other"} : t = [old EXCEPT !.child = "gone", !.code = c]
      <4> SUFFICES ASSUME NEW c \in {"zero", "other"}, t = [old EXCEPT !.child = "gone", !.code = c]
                   PROVE  ChildMoves(old, t)
        BY <3>8, Zenon
      <4>1. old.child \in {"trampoline", "build"}
        BY <3>8, Zenon
      <4> QED BY <1>1, <4>1 DEF RunType, Live, ChildMoves
    <3>9. CASE old.child = "build" /\ \E y \in {"group", "session"} : t = [old EXCEPT !.stray = y]
      BY <3>3, <3>9
    <3>10. CASE t = [old EXCEPT !.stray = "none"]
      BY <3>3, <3>10
    <3> HIDE DEF old
    <3> QED BY <1>3, <3>1, <3>8, <3>9, <3>10, <3>4, <3>5, <3>7
  <2> HIDE DEF old
  <2>7. ChildInv(t) /\ FilterInv(t)
    BY <1>1, <2>2, <2>3
       DEF ChildMoves, ChildInv, FilterInv, Early, Preparing, Launches, Commands, Over, Live
  <2>8. old.place \in {"none", "cgroup", "host", "left"}
    BY <1>1 DEF RunType
  <2>4. ReportInv(t)
    BY <1>1, <2>2, <2>3, <2>8
       DEF ChildMoves, ChildInv, FilterInv, ReportInv, Early, Preparing, Launches, Commands, Over, Live
  <2>5. ScopeInv(t) /\ CleanupInv(t) /\ SudoInv(t)
    BY <1>1, <2>2, <2>3
       DEF ChildMoves, ScopeInv, CleanupInv, SudoInv, Early, Preparing, Launches, Commands, Over, Live
  <2>6. RunInv(t)
    BY <2>1, <2>4, <2>5, <2>7 DEF RunInv
  <2> QED BY <1>2, <1>3, <2>6, OneRunStep
<1>4. CASE Signal(r)
  <2>1. RunInv([old EXCEPT !.signalled = TRUE])
    BY <1>1, UntouchedInv
  <2> QED BY <1>2, <1>4, <2>1, OneRunStep DEF Signal
<1>5. CASE Trampoline(r)
  <2>1. MoreGuards(r) => old.guards < Guards
    BY <1>1 DEF MoreGuards, Guards, RunType
  <2> QED BY <1>3, <1>5, <2>1 DEF Trampoline
<1>6. CASE BuildForks(r) \/ BuildEnds(r) \/ ContextKills(r)
  BY <1>3, <1>6 DEF BuildForks, BuildEnds, ContextKills
<1>7. CASE BuildOverwrites(r)
  BY <1>3, <1>7 DEF BuildOverwrites, BuildCode, Live
<1>8. CASE Crash(r)
  BY <1>3, <1>8 DEF Crash, GoesTo
<1> QED BY <1>4, <1>5, <1>6, <1>7, <1>8 DEF BuildMoves

-----------------------------------------------------------------------------
(* buildCgroup.Kill: nothing that started in the cgroup is alive any more. *)
Killed(s) ==
  [s EXCEPT !.stray = "none", !.child = "gone", !.code = IF s.child = "gone" THEN @ ELSE "other"]

Hit(r, q) ==
  HasCgroup(r) /\ run[q].place = "cgroup" /\ run[q].cg = run[r].cg /\ run[q].id = run[r].id

LEMMA KilledInv ==
  ASSUME NEW s, RunInv(s), s.place = "cgroup"
  PROVE  RunInv(Killed(s)) /\ (s.pc = "reap" => RunInv([Killed(s) EXCEPT !.pc = "report"]))
<1> DEFINE code == IF s.child = "gone" THEN s.code ELSE "other"
           t == [s EXCEPT !.stray = "none", !.child = "gone", !.code = code]
<1>1. /\ s \in RunType /\ ChildInv(s) /\ FilterInv(s) /\ ReportInv(s) /\ ScopeInv(s)
      /\ CleanupInv(s) /\ SudoInv(s)
  BY DEF RunInv
<1>2. Killed(s) = t
  BY <1>1 DEF Killed, RunType
<1>3. code \in {"none", "zero", "other"} /\ (s.code = "zero" => code = s.code) /\ (code = "zero" => s.code = "zero")
  BY <1>1 DEF RunType, ReportInv
<1> HIDE DEF code
<1>4. t \in RunType
  BY <1>1, <1>3, Retyped
<1>5. /\ t.stray = "none" /\ t.child = "gone" /\ t.code = code /\ t.pc = s.pc
      /\ t.place = s.place /\ t.cg = s.cg /\ t.block = s.block
      /\ t.report = s.report /\ t.exit = s.exit /\ t.widened = s.widened /\ t.inScope = s.inScope
      /\ t.todo = s.todo /\ t.upDone = s.upDone /\ t.resolv = s.resolv /\ t.sudoOff = s.sudoOff
  BY <1>1 DEF RunType
<1> HIDE DEF t
<1>6. s.pc \notin Early
  BY <1>1 DEF ChildInv
<1>7. RunInv(t)
  <2>1. ChildInv(t) /\ FilterInv(t) /\ ReportInv(t)
    BY <1>1, <1>3, <1>5, <1>6 DEF ChildInv, FilterInv, ReportInv, Live
  <2>2. ScopeInv(t) /\ CleanupInv(t) /\ SudoInv(t)
    BY <1>1, <1>5 DEF ScopeInv, CleanupInv, SudoInv, Live
  <2> QED BY <1>4, <2>1, <2>2 DEF RunInv
<1>8. ASSUME s.pc = "reap" PROVE RunInv([t EXCEPT !.pc = "report"])
  <2> DEFINE u == [t EXCEPT !.pc = "report"]
  <2>1. u \in RunType
    BY <1>4, Retyped
  <2>2. /\ u.pc = "report" /\ u.stray = "none" /\ u.child = "gone" /\ u.code = t.code
        /\ u.place = t.place /\ u.cg = t.cg /\ u.block = t.block
        /\ u.report = t.report /\ u.exit = t.exit /\ u.widened = t.widened /\ u.inScope = t.inScope
        /\ u.todo = t.todo /\ u.upDone = t.upDone /\ u.resolv = t.resolv /\ u.sudoOff = t.sudoOff
    BY <1>4, <1>5 DEF RunType
  <2> HIDE DEF u
  <2>3. ChildInv(t) /\ FilterInv(t) /\ ReportInv(t) /\ ScopeInv(t) /\ CleanupInv(t) /\ SudoInv(t)
    BY <1>7 DEF RunInv
  <2> USE DEF Early, Preparing, Launches, Commands, Over, Live
  <2>4. ChildInv(u) /\ FilterInv(u) /\ ReportInv(u)
    BY <1>5, <1>8, <2>2, <2>3 DEF ChildInv, FilterInv, ReportInv
  <2>5. ScopeInv(u) /\ CleanupInv(u) /\ SudoInv(u)
    BY <1>5, <1>8, <2>2, <2>3 DEF ScopeInv, CleanupInv, SudoInv
  <2>6. RunInv(u)
    BY <2>1, <2>4, <2>5 DEF RunInv
  <2> QED BY <2>6 DEF u
<1> QED BY <1>2, <1>7, <1>8

(* Kill of one run with its record in the state next: others may lose code too. *)
LEMMA KillsStep ==
  ASSUME OutcomeInv, NEW r \in Runs, NEW next, Kills(r, next), HostType',
         IF Hit(r, r) THEN RunInv(Killed(next)) ELSE RunInv(next)
  PROVE  OutcomeInv'
<1>1. run' = [q \in Runs |-> IF Hit(r, q) THEN Killed(IF q = r THEN next ELSE run[q])
                                         ELSE IF q = r THEN next ELSE run[q]]
  BY DEF Kills, Hit, Killed
<1>2. ASSUME NEW q \in Runs PROVE RunInv(run'[q])
  <2>1. RunInv(run[q])
    BY OutcomeFacts
  <2>2. CASE q = r
    BY <1>1, <2>2
  <2>3. CASE q # r /\ Hit(r, q)
    <3>1. run'[q] = Killed(run[q])
      BY <1>1, <2>3
    <3>2. run[q].place = "cgroup"
      BY <2>3 DEF Hit
    <3> QED BY <2>1, <3>1, <3>2, KilledInv
  <2>4. CASE q # r /\ ~ Hit(r, q)
    <3>1. run'[q] = run[q]
      BY <1>1, <2>4
    <3> QED BY <2>1, <3>1
  <2> QED BY <2>2, <2>3, <2>4
<1>3. run' \in [Runs -> RunType]
  BY <1>1, <1>2 DEF RunInv
<1>4. TypeOK' /\ (\A q \in Runs : RunInv(run[q]))'
  BY <1>2, <1>3 DEF TypeOK, HostType
<1> QED BY <1>4 DEF OutcomeInv

LEMMA ReapOutcome ==
  ASSUME OutcomeInv, NEW r \in Runs, Reap(r)
  PROVE  OutcomeInv'
<1> DEFINE old == run[r]
           next == [old EXCEPT !.pc = "report"]
<1>1. /\ old \in RunType /\ ChildInv(old) /\ FilterInv(old) /\ ReportInv(old) /\ ScopeInv(old)
      /\ CleanupInv(old) /\ SudoInv(old) /\ RunInv(old)
  BY OutcomeFacts
<1>2. old.pc = "reap" /\ Kills(r, next) /\ HostType'
  BY HostStays DEF Reap, At
<1>3. Hit(r, r) <=> old.place = "cgroup"
  BY <1>1 DEF Hit, HasCgroup, ChildInv
<1>4. CASE old.place = "cgroup"
  <2>1. RunInv([Killed(old) EXCEPT !.pc = "report"])
    BY <1>1, <1>2, <1>4, KilledInv
  <2>2. Killed(next) = [Killed(old) EXCEPT !.pc = "report"]
    BY <1>1 DEF Killed, RunType
  <2> QED BY <1>2, <1>3, <1>4, <2>1, <2>2, KillsStep
<1>5. CASE old.place # "cgroup"
  <2>1. next \in RunType
    BY <1>1, Retyped
  <2> USE DEF Early, Preparing, Launches, Commands, Over, Live
  <2>2. ChildInv(next) /\ FilterInv(next) /\ ReportInv(next)
    BY <1>1, <1>2, <1>5 DEF RunType, ChildInv, FilterInv, ReportInv
  <2>3. ScopeInv(next) /\ CleanupInv(next) /\ SudoInv(next)
    BY <1>1, <1>2 DEF RunType, ScopeInv, CleanupInv, SudoInv
  <2>4. RunInv(next)
    BY <2>1, <2>2, <2>3 DEF RunInv
  <2> QED BY <1>2, <1>3, <1>5, <2>4, KillsStep
<1> QED BY <1>4, <1>5

(* What a deferred cleanup leaves of the run it belongs to. *)
LEMMA PoppedInv ==
  ASSUME OutcomeInv, NEW r \in Runs, NEW c, Cleanup(r, c)
  PROVE  /\ run[r].pc = "cleanup" /\ Pending(run[r].todo) = {c} \union Pending(Popped(r).todo)
         /\ c \in {"kill", "close", "restore"} => RunInv(Popped(r))
         /\ c = "delete" => RunInv([Popped(r) EXCEPT !.upDone = FALSE])
         /\ c = "delete" /\ ~ run[r].upDone => RunInv(Popped(r))
         /\ c = "unresolv" => RunInv([Popped(r) EXCEPT !.resolv = FALSE])
<1> DEFINE old == run[r]
           rest == Tail(old.todo)
<1>1. /\ old \in RunType /\ ChildInv(old) /\ FilterInv(old) /\ ReportInv(old) /\ ScopeInv(old)
      /\ CleanupInv(old) /\ SudoInv(old) /\ old.todo \in Seq(Cleanups)
  BY OutcomeFacts
<1>2. old.pc = "cleanup" /\ old.todo # <<>> /\ Head(old.todo) = c
  BY DEF Cleanup, At
<1>3. rest \in Seq(Cleanups) /\ Pending(old.todo) = {c} \union Pending(rest)
  BY <1>1, <1>2, Popping
<1>4. Popped(r) = [old EXCEPT !.todo = rest]
  BY <1>1 DEF Popped, RunType
<1> HIDE DEF rest
<1>5. Popped(r) \in RunType
  BY <1>1, <1>3, <1>4, WithTodo
<1> DEFINE p == Popped(r)
<1>6. /\ p.todo = rest /\ p.upDone = old.upDone /\ p.resolv = old.resolv /\ p.pc = "cleanup"
      /\ p.stray = old.stray /\ p.child = old.child /\ p.code = old.code
      /\ p.place = old.place /\ p.cg = old.cg /\ p.block = old.block
      /\ p.report = old.report /\ p.exit = old.exit /\ p.widened = old.widened
      /\ p.inScope = old.inScope /\ p.sudoOff = old.sudoOff
  BY <1>1, <1>2, <1>4 DEF RunType
<1> HIDE DEF p
<1>7. ASSUME NEW t \in RunType, t.upDone => old.upDone /\ c # "delete", t.resolv => old.resolv /\ c # "unresolv",
             /\ t.todo = p.todo /\ t.pc = "cleanup"
             /\ t.stray = old.stray /\ t.child = old.child /\ t.code = old.code
             /\ t.place = old.place /\ t.cg = old.cg /\ t.block = old.block
             /\ t.report = old.report /\ t.exit = old.exit /\ t.widened = old.widened
             /\ t.inScope = old.inScope /\ t.sudoOff = old.sudoOff
      PROVE  RunInv(t)
  <2>1. ChildInv(t) /\ FilterInv(t) /\ ReportInv(t)
    BY <1>1, <1>2, <1>7 DEF ChildInv, FilterInv, ReportInv, Live, Early, Preparing, Launches, Commands
  <2>2. ScopeInv(t) /\ SudoInv(t)
    BY <1>1, <1>2, <1>3, <1>6, <1>7 DEF ScopeInv, SudoInv, Live, Early, Preparing, Launches, Over
  <2>3. CleanupInv(t)
    BY <1>1, <1>3, <1>6, <1>7 DEF CleanupInv
  <2> QED BY <2>1, <2>2, <2>3 DEF RunInv
<1>8. c \in {"kill", "close", "restore"} => RunInv(p)
  BY <1>5, <1>6, <1>7 DEF p
<1>9. c = "delete" /\ ~ old.upDone => RunInv(p)
  BY <1>5, <1>6, <1>7 DEF p
<1>10. ASSUME c = "delete" PROVE RunInv([p EXCEPT !.upDone = FALSE])
  <2> DEFINE t == [p EXCEPT !.upDone = FALSE]
  <2>1. t \in RunType
    BY <1>5 DEF RunType, p
  <2>2. /\ ~ t.upDone /\ t.resolv = p.resolv /\ t.todo = p.todo /\ t.pc = p.pc
        /\ t.stray = p.stray /\ t.child = p.child /\ t.code = p.code
        /\ t.place = p.place /\ t.cg = p.cg /\ t.block = p.block
        /\ t.report = p.report /\ t.exit = p.exit /\ t.widened = p.widened
        /\ t.inScope = p.inScope /\ t.sudoOff = p.sudoOff
    BY <1>5 DEF RunType, p
  <2> HIDE DEF t
  <2>3. RunInv(t)
    BY <1>6, <1>7, <1>10, <2>1, <2>2
  <2> QED BY <2>3 DEF t
<1>11. ASSUME c = "unresolv" PROVE RunInv([p EXCEPT !.resolv = FALSE])
  <2> DEFINE t == [p EXCEPT !.resolv = FALSE]
  <2>1. t \in RunType
    BY <1>5 DEF RunType, p
  <2>2. /\ ~ t.resolv /\ t.upDone = p.upDone /\ t.todo = p.todo /\ t.pc = p.pc
        /\ t.stray = p.stray /\ t.child = p.child /\ t.code = p.code
        /\ t.place = p.place /\ t.cg = p.cg /\ t.block = p.block
        /\ t.report = p.report /\ t.exit = p.exit /\ t.widened = p.widened
        /\ t.inScope = p.inScope /\ t.sudoOff = p.sudoOff
    BY <1>5 DEF RunType, p
  <2> HIDE DEF t
  <2>3. RunInv(t)
    BY <1>6, <1>7, <1>11, <2>1, <2>2
  <2> QED BY <2>3 DEF t
<1> QED BY <1>2, <1>3, <1>6, <1>8, <1>9, <1>10, <1>11 DEF p

LEMMA DeferSteps ==
  ASSUME OutcomeInv, NEW r \in Runs, Defers(r)
  PROVE  OutcomeInv'
<1> DEFINE p == Popped(r)
<1>1. HostType /\ run[r] \in RunType /\ RunInv(run[r])
  BY OutcomeFacts DEF OutcomeInv, TypeOK, HostType
<1>2. ASSUME NEW c, Cleanup(r, c), RunInv(p), Kills(r, p), HostType' PROVE OutcomeInv'
  <2>1. p.place = run[r].place
    BY <1>1 DEF Popped, RunType
  <2>2. Hit(r, r) => RunInv(Killed(p))
    BY <1>2, <2>1, KilledInv DEF Hit
  <2> QED BY <1>2, <2>2, KillsStep
<1>3. CASE TeardownKills(r)
  <2>1. Cleanup(r, "kill") /\ RunInv(p) /\ HostType'
    <3>1. Cleanup(r, "kill") /\ HostType'
      BY <1>3, HostStays DEF TeardownKills
    <3>2. RunInv(p)
      BY <3>1, PoppedInv, Zenon
    <3> QED BY <3>1, <3>2
  <2>2. CASE Kills(r, p)
    BY <1>2, <2>1, <2>2
  <2>3. CASE Becomes(r, p)
    BY <2>1, <2>3, OneRunStep
  <2> QED BY <1>3, <2>2, <2>3 DEF TeardownKills
<1>4. CASE TeardownDeletes(r)
  <2>1. Cleanup(r, "delete") /\ dirs' = dirs /\ dropIn' = dropIn
    BY <1>4 DEF TeardownDeletes
  <2>2. HostType'
    <3>1. tables' = tables \/ tables' = [tables EXCEPT ![run[r].id] = {}]
      BY <1>4 DEF TeardownDeletes
    <3>2. tables' \in [Ids -> SUBSET Runs]
      BY <1>1, <3>1 DEF HostType
    <3> QED BY <1>1, <2>1, <3>2 DEF HostType
  <2>3. RunInv([p EXCEPT !.upDone = FALSE])
    BY <2>1, PoppedInv
  <2>4. CASE Becomes(r, [p EXCEPT !.upDone = FALSE])
    BY <2>2, <2>3, <2>4, OneRunStep
  <2>5. CASE Becomes(r, [p EXCEPT !.upDone = FALSE, !.residue = TRUE])
    <3>1. RunInv([[p EXCEPT !.upDone = FALSE] EXCEPT !.residue = TRUE])
      BY <2>3, UntouchedInv
    <3> QED BY <2>2, <2>5, <3>1, OneRunStep
  <2>6. CASE ~ Deletes(r) /\ Becomes(r, p)
    <3>1. RunInv(p)
      BY <2>1, <2>6, PoppedInv DEF Deletes
    <3> QED BY <2>2, <2>6, <3>1, OneRunStep
  <2> QED BY <1>4, <2>4, <2>5, <2>6 DEF TeardownDeletes
<1>5. CASE CloseCgroup(r)
  <2>1. Cleanup(r, "close") /\ RunInv(p)
    <3>1. Cleanup(r, "close")
      BY <1>5 DEF CloseCgroup
    <3>2. RunInv(p)
      BY <3>1, PoppedInv, Zenon
    <3> QED BY <3>1, <3>2
  <2>2. HostType'
    <3>1. dirs' \subseteq dirs /\ tables' = tables /\ dropIn' = dropIn
      BY <1>5 DEF CloseCgroup
    <3>2. dirs' \subseteq Bases \X Ids
      BY <1>1, <3>1 DEF HostType
    <3> QED BY <1>1, <3>1, <3>2 DEF HostType
  <2>3. CASE Kills(r, p)
    BY <1>2, <2>1, <2>2, <2>3
  <2> DEFINE u == [p EXCEPT !.residue = TRUE]
  <2>4. CASE Kills(r, u)
    <3>1. RunInv(u) /\ u.place = run[r].place
      BY <1>1, <2>1, UntouchedInv DEF Popped, RunType
    <3> HIDE DEF u
    <3>2. Hit(r, r) => RunInv(Killed(u))
      BY <3>1, KilledInv DEF Hit
    <3> QED BY <2>2, <2>4, <3>1, <3>2, KillsStep
  <2> QED BY <1>5, <2>3, <2>4 DEF CloseCgroup
<1>6. CASE RemoveResolvConf(r)
  <2>1. Cleanup(r, "unresolv") /\ Becomes(r, [p EXCEPT !.resolv = FALSE]) /\ HostType'
    BY <1>6, HostStays DEF RemoveResolvConf
  <2>2. RunInv([p EXCEPT !.resolv = FALSE])
    BY <2>1, PoppedInv
  <2> QED BY <2>1, <2>2, OneRunStep
<1>7. CASE RestoreSudo(r)
  <2>1. Cleanup(r, "restore") /\ Becomes(r, p) /\ RunInv(p)
    <3>1. Cleanup(r, "restore") /\ Becomes(r, p)
      BY <1>7 DEF RestoreSudo
    <3>2. RunInv(p)
      BY <3>1, PoppedInv, Zenon
    <3> QED BY <3>1, <3>2
  <2>2. HostType'
    BY <1>1, <1>7 DEF RestoreSudo, HostType
  <2> QED BY <2>1, <2>2, OneRunStep
<1>8. CASE Exit(r)
  <2> DEFINE old == run[r]
             t == [old EXCEPT !.pc = "exited"]
  <2>1. old.pc = "cleanup" /\ old.todo = <<>> /\ Becomes(r, t) /\ HostType'
    BY <1>8, HostStays DEF Exit, At, GoesTo
  <2>2. /\ old \in RunType /\ ChildInv(old) /\ FilterInv(old) /\ ReportInv(old) /\ ScopeInv(old)
        /\ CleanupInv(old) /\ SudoInv(old)
    BY OutcomeFacts
  <2>3. t \in RunType
    BY <2>2 DEF RunType
  <2> USE DEF Early, Preparing, Launches, Commands, Over, Live
  <2>4. ChildInv(t) /\ FilterInv(t) /\ ReportInv(t)
    BY <2>1, <2>2 DEF RunType, ChildInv, FilterInv, ReportInv
  <2>5. ScopeInv(t) /\ CleanupInv(t) /\ SudoInv(t)
    BY <2>1, <2>2 DEF RunType, ScopeInv, CleanupInv, SudoInv
  <2>6. RunInv(t)
    BY <2>3, <2>4, <2>5 DEF RunInv
  <2> QED BY <2>1, <2>6, OneRunStep
<1> QED BY <1>3, <1>4, <1>5, <1>6, <1>7, <1>8 DEF Defers

-----------------------------------------------------------------------------
LEMMA OutcomeStep == OutcomeInv /\ [Next]_vars => OutcomeInv'
<1> SUFFICES ASSUME OutcomeInv, [Next]_vars PROVE OutcomeInv'
  OBVIOUS
<1>1. ASSUME NEW r \in Runs, EgretStep(r) PROVE OutcomeInv'
  BY <1>1, PrepareSteps, LaunchStep, CommandOutcome, ReapOutcome, DeferSteps DEF EgretStep, Command
<1>2. ASSUME NEW r \in Runs, BuildStep(r) \/ ContextKills(r) \/ Signal(r) \/ Crash(r)
      PROVE  OutcomeInv'
  BY <1>2, BuildOutcome, LeaveOutcome DEF BuildStep, BuildMoves
<1>3. CASE UNCHANGED vars
  <2>1. TypeOK'
    BY <1>3 DEF vars, OutcomeInv, TypeOK
  <2>2. (\A r \in Runs : RunInv(run[r]))'
    BY <1>3 DEF vars, OutcomeInv
  <2> QED BY <2>1, <2>2 DEF OutcomeInv
<1> QED BY <1>1, <1>2, <1>3 DEF Next, Finished

LEMMA OutcomeBegins == Init => OutcomeInv
<1> SUFFICES ASSUME Init PROVE OutcomeInv
  OBVIOUS
<1>1. ASSUME NEW o \in Options, NEW i \in Ids, NEW m \in BOOLEAN PROVE RunInv(InitRun(o, i, m))
  <2> DEFINE s == InitRun(o, i, m)
  <2>1. o.block \in BOOLEAN /\ o.sudoOff \in BOOLEAN
    BY LifecycleAssumption
  <2>2. s \in RunType
    BY <2>1 DEF InitRun, RunType, Guards, Probes, Bases
  <2>3. /\ s.pc = "start" /\ s.child = "none" /\ s.stray = "none" /\ s.place = "none"
        /\ s.code = "none" /\ s.cg = "none" /\ s.report = "none" /\ s.exit = "none"
        /\ s.widened = {} /\ s.todo = <<>> /\ ~ s.upDone /\ ~ s.resolv
    BY DEF InitRun
  <2>4. Pending(s.todo) = {}
    BY <2>3 DEF Pending
  <2> HIDE DEF s
  <2>5. ChildInv(s) /\ FilterInv(s) /\ ReportInv(s)
    BY <2>3 DEF ChildInv, FilterInv, ReportInv, Live
  <2>6. ScopeInv(s) /\ CleanupInv(s) /\ SudoInv(s)
    BY <2>3, <2>4 DEF ScopeInv, CleanupInv, SudoInv, Live
  <2>7. RunInv(s)
    BY <2>2, <2>5, <2>6 DEF RunInv
  <2> QED BY <2>7 DEF s
<1>2. \A r \in Runs : RunInv(run[r])
  BY <1>1 DEF Init
<1>3. run \in [Runs -> RunType]
  BY <1>2 DEF Init, RunInv
<1>4. TypeOK
  BY <1>3 DEF Init, TypeOK
<1> QED BY <1>2, <1>4 DEF OutcomeInv

(* Every variable keeps its type. *)
THEOREM LifecycleTypeCorrect == Spec => []TypeOK
<1>1. OutcomeInv => TypeOK
  BY DEF OutcomeInv
<1> QED BY <1>1, OutcomeBegins, OutcomeStep, PTL DEF Spec

(* executeRun kills the build before it writes report.json: nothing is alive that
   could write it again, in block mode always, in audit mode as long as the build,
   which is root there, has not moved itself out of its cgroup. *)
THEOREM ReportIsEgretsHolds == Spec => []ReportIsEgrets
<1>1. OutcomeInv => ReportIsEgrets
  BY OutcomeFacts DEF ReportIsEgrets, ReportInv
<1> QED BY <1>1, OutcomeBegins, OutcomeStep, PTL DEF Spec

(* executeRun returns zero only if the build ended with zero and its report was
   written, whatever failed, was signalled or killed on the way. *)
THEOREM ExitZeroIsEarnedHolds == Spec => []ExitZeroIsEarned
<1>1. OutcomeInv => ExitZeroIsEarned
  BY OutcomeFacts DEF ExitZeroIsEarned, ReportInv
<1> QED BY <1>1, OutcomeBegins, OutcomeStep, PTL DEF Spec

(* runCommand's inScope and Monitor.Finish: unless SetScope(0) fails for some
   of the probes and not for others, a report that is not flagged comes from
   probes that all saw the build, whichever fallback started it. *)
THEOREM CoverageHonestHolds == ASSUME "partialScope" \notin Faults PROVE Spec => []CoverageHonest
<1>1. OutcomeInv => CoverageHonest
  <2> SUFFICES ASSUME OutcomeInv, NEW r \in Runs, run[r].place \in {"cgroup", "host"},
                      ~ Flagged(r), NEW p \in Probes
               PROVE  Sees(r, p)
    BY DEF CoverageHonest
  <2>2. ScopeInv(run[r])
    BY OutcomeFacts
  <2>3. CASE run[r].place = "host" /\ run[r].cg # "none"
    <3>1. run[r].inScope <=> run[r].widened # Probes
      BY <2>2, <2>3 DEF ScopeInv
    <3>2. run[r].widened \in {{}, Probes}
      BY <2>2 DEF ScopeInv
    <3>3. CASE run[r].widened = {}
      <4>1. run[r].inScope /\ ~ Sees(r, "process")
        BY <2>3, <3>1, <3>3 DEF Probes, Sees, HasCgroup
      <4> QED BY <4>1 DEF Flagged
    <3>4. CASE run[r].widened = Probes
      BY <3>4 DEF Sees
    <3> QED BY <3>2, <3>3, <3>4
  <2> QED BY <2>3 DEF Sees, HasCgroup
<1> QED BY <1>1, OutcomeBegins, OutcomeStep, PTL DEF Spec

-----------------------------------------------------------------------------
(* Code of a run with --disable-sudo is alive only while it runs, or after Egret
   died. *)
LEMMA SudoCode ==
  ASSUME OutcomeInv, NEW r \in Runs, run[r].sudoOff, Live(run[r])
  PROVE  run[r].pc \in {"wait", "reap", "crashed"}
<1>1. ChildInv(run[r]) /\ FilterInv(run[r]) /\ SudoInv(run[r]) /\ run[r] \in RunType
  BY OutcomeFacts
<1>2. run[r].place \in {"none", "cgroup", "host", "left"}
  BY <1>1 DEF RunType
<1> QED BY <1>1, <1>2 DEF ChildInv, FilterInv, SudoInv

(* What a step of one run does to the drop-in and to the need for it. *)
Effect(r, t) ==
  /\ t.sudoOff = run[r].sudoOff
  /\ \/ dropIn' = dropIn /\ (Relies(t) => Relies(run[r]))
     \/ run[r].sudoOff /\ (~ Relies(t) \/ dropIn' # "absent")

LEMMA EffectStep ==
  ASSUME OutcomeInv, DropInInv, NEW r \in Runs, NEW t, Effect(r, t), run'[r] = t,
         \A q \in Runs \ {r} : /\ run'[q].sudoOff = run[q].sudoOff
                               /\ Relies(run'[q]) => Relies(run[q])
  PROVE  DropInInv'
<1>1. \A q \in Runs : run'[q].sudoOff = run[q].sudoOff
  BY DEF Effect
<1> SUFFICES ASSUME OneSudo, NEW q \in Runs, Relies(run'[q]) PROVE dropIn' # "absent"
  BY <1>1 DEF DropInInv, OneSudo
<1>2. run[q].sudoOff
  BY <1>1 DEF Relies
<1>3. Relies(run[q]) => dropIn # "absent"
  BY DEF DropInInv
<1>4. CASE q = r
  BY <1>3, <1>4 DEF Effect
<1>5. CASE q # r
  <2>1. ~ run[r].sudoOff
    BY <1>2, <1>5 DEF OneSudo
  <2> QED BY <1>3, <1>5, <2>1 DEF Effect
<1> QED BY <1>4, <1>5

LEMMA EffectOnOne ==
  ASSUME OutcomeInv, DropInInv, NEW r \in Runs, NEW t, Becomes(r, t), Effect(r, t)
  PROVE  DropInInv'
<1>1. run'[r] = t /\ \A q \in Runs \ {r} : run'[q] = run[q]
  BY DEF OutcomeInv, TypeOK, Becomes
<1> QED BY <1>1, EffectStep

LEMMA EffectOfKill ==
  ASSUME OutcomeInv, DropInInv, NEW r \in Runs, NEW next \in RunType, Kills(r, next), dropIn' = dropIn,
         next.sudoOff = run[r].sudoOff, next.pc \in {"report", "cleanup"},
         next.pc = "report" => run[r].pc = "reap"
  PROVE  DropInInv'
<1>1. run' = [q \in Runs |-> IF Hit(r, q) THEN Killed(IF q = r THEN next ELSE run[q])
                                         ELSE IF q = r THEN next ELSE run[q]]
  BY DEF Kills, Hit, Killed
<1>2. ASSUME NEW s \in RunType
      PROVE  Killed(s).sudoOff = s.sudoOff /\ Killed(s).pc = s.pc /\ ~ Live(Killed(s))
  BY DEF Killed, RunType, Live
<1>3. ASSUME NEW q \in Runs \ {r}
      PROVE  run'[q].sudoOff = run[q].sudoOff /\ (Relies(run'[q]) => Relies(run[q]))
  <2>1. run[q] \in RunType /\ run'[q] \in {run[q], Killed(run[q])}
    BY <1>1, OutcomeFacts
  <2>2. Relies(Killed(run[q])) => Relies(run[q])
    BY <1>2, <2>1 DEF Relies
  <2> QED BY <1>2, <2>1, <2>2
<1>4. Effect(r, run'[r])
  <2>1. run'[r] \in {next, Killed(next)}
    BY <1>1
  <2>2. run'[r].sudoOff = run[r].sudoOff /\ run'[r].pc = next.pc
    BY <1>2, <2>1
  <2> QED BY <2>2 DEF Effect, Relies, Undone
<1> QED BY <1>3, <1>4, EffectStep

LEMMA DropInPrepares ==
  ASSUME OutcomeInv, DropInInv, NEW r \in Runs, Prepare(r)
  PROVE  DropInInv'
<1> DEFINE old == run[r]
<1>1. old \in RunType /\ SudoInv(old)
  BY OutcomeFacts
<1>2. ASSUME NEW c, Returns(r, c), dropIn' = dropIn \/ old.sudoOff PROVE DropInInv'
  <2> DEFINE t == [old EXCEPT !.pc = "cleanup", !.exit = "other", !.todo = c \o @]
  <2>1. t.pc = "cleanup" /\ t.sudoOff = old.sudoOff
    BY <1>1 DEF RunType
  <2>2. Becomes(r, t)
    BY <1>2 DEF Returns
  <2> HIDE DEF t
  <2>3. Effect(r, t)
    BY <1>2, <2>1 DEF Effect, Relies, Undone
  <2> QED BY <2>2, <2>3, EffectOnOne
<1>3. ASSUME NEW t, Becomes(r, t), t.sudoOff = old.sudoOff, dropIn' = dropIn,
             old.pc \notin Undone \union {"crashed"} \/ t.pc \in Undone
      PROVE  DropInInv'
  <2>1. Effect(r, t)
    BY <1>3 DEF Effect, Relies
  <2> QED BY <1>3, <2>1, EffectOnOne
<1>4. CASE Refuse(r)
  BY <1>2, <1>4 DEF Refuse
<1>5. CASE Start(r)
  <2> DEFINE t == [old EXCEPT !.pc = IF old.sudoOff THEN "sudo" ELSE "new"]
  <2>1. Becomes(r, t) /\ dropIn' = dropIn
    BY <1>5 DEF Start, GoesTo
  <2>2. t.sudoOff = old.sudoOff /\ (t.sudoOff => t.pc = "sudo")
    BY <1>1 DEF RunType
  <2> HIDE DEF t
  <2>3. Effect(r, t)
    BY <2>1, <2>2 DEF Effect, Relies, Undone
  <2> QED BY <2>1, <2>3, EffectOnOne
<1>6. CASE WriteDropIn(r)
  <2>1. old.sudoOff
    BY <1>1, <1>6 DEF SudoInv, WriteDropIn, At
  <2>2. ASSUME NEW t, Becomes(r, t),
               \/ t = [old EXCEPT !.pc = "visudo"]
               \/ t = [old EXCEPT !.pc = "cleanup", !.exit = "other", !.residue = TRUE]
        PROVE  DropInInv'
    <3>1. t.sudoOff = old.sudoOff /\ t.pc \in Undone
      BY <1>1, <2>2 DEF RunType, Undone
    <3>2. Effect(r, t)
      BY <2>1, <3>1 DEF Effect, Relies
    <3> QED BY <2>2, <3>2, EffectOnOne
  <2> QED BY <1>2, <1>6, <2>1, <2>2 DEF WriteDropIn, GoesTo
<1>7. CASE Visudo(r)
  <2>1. old.sudoOff
    BY <1>1, <1>7 DEF SudoInv, Visudo, At
  <2> DEFINE t == [old EXCEPT !.pc = "new", !.todo = <<"restore">> \o @]
  <2>2. CASE Becomes(r, t) /\ dropIn' = "valid"
    <3>1. t.sudoOff = old.sudoOff
      BY <1>1 DEF RunType
    <3> HIDE DEF t
    <3>2. Effect(r, t)
      BY <2>1, <2>2, <3>1 DEF Effect
    <3> QED BY <2>2, <3>2, EffectOnOne
  <2> QED BY <1>2, <1>7, <2>1, <2>2 DEF Visudo
<1>8. CASE New(r)
  <2>1. old.pc = "new" /\ dropIn' = dropIn
    BY <1>8 DEF New, At
  <2>2. ASSUME NEW t, Becomes(r, t),
               t = [old EXCEPT !.pc = "dns"] \/ \E base \in Bases : t = [old EXCEPT !.pc = "dns", !.cg = base]
        PROVE  DropInInv'
    <3>1. t.sudoOff = old.sudoOff
      BY <1>1, <2>2 DEF RunType
    <3> QED BY <1>3, <2>1, <2>2, <3>1 DEF Undone
  <2> QED BY <1>2, <1>8, <2>1, <2>2 DEF New, GoesTo
<1>9. CASE StartDns(r) \/ SelfProbe(r) \/ NewCollector(r)
  <2>1. old.pc \in {"dns", "probe", "collector"} /\ dropIn' = dropIn
    BY <1>9 DEF StartDns, SelfProbe, NewCollector, At
  <2>2. ASSUME NEW p, GoesTo(r, p) PROVE DropInInv'
    <3>1. [old EXCEPT !.pc = p].sudoOff = old.sudoOff
      BY <1>1 DEF RunType
    <3> QED BY <1>3, <2>1, <2>2, <3>1 DEF Undone, GoesTo
  <2> QED BY <1>2, <1>9, <2>1, <2>2 DEF StartDns, SelfProbe, NewCollector
<1>10. CASE Setup(r)
  <2>1. old.pc = "setup" /\ dropIn' = dropIn
    BY <1>10 DEF Setup, At
  <2> DEFINE todo == Undo \o old.todo
  <2>2. ASSUME NEW t, Becomes(r, t),
               \/ t = [old EXCEPT !.pc = "collector", !.todo = todo]
               \/ t = [old EXCEPT !.pc = "probe", !.upDone = TRUE, !.todo = todo]
               \/ t = [old EXCEPT !.pc = "cleanup", !.exit = "other", !.todo = todo, !.cut = TRUE]
        PROVE  DropInInv'
    <3> HIDE DEF todo
    <3>1. t.sudoOff = old.sudoOff
      BY <1>1, <2>2 DEF RunType
    <3> QED BY <1>3, <2>1, <2>2, <3>1 DEF Undone
  <2> QED BY <1>2, <1>10, <2>1, <2>2 DEF Setup
<1>11. CASE WriteResolvConf(r)
  <2>1. old.pc = "resolv" /\ dropIn' = dropIn
    BY <1>11 DEF WriteResolvConf, At
  <2> DEFINE todo == <<"unresolv">> \o old.todo
  <2>2. ASSUME NEW t, Becomes(r, t),
               \/ t = [old EXCEPT !.pc = "launch1", !.resolv = TRUE, !.todo = todo]
               \/ t = [old EXCEPT !.pc = "launch1"]
        PROVE  DropInInv'
    <3> HIDE DEF todo
    <3>1. t.sudoOff = old.sudoOff
      BY <1>1, <2>2 DEF RunType
    <3> QED BY <1>3, <2>1, <2>2, <3>1 DEF Undone
  <2> QED BY <1>2, <1>11, <2>1, <2>2 DEF WriteResolvConf, GoesTo
<1> QED BY <1>4, <1>5, <1>6, <1>7, <1>8, <1>9, <1>10, <1>11 DEF Prepare

LEMMA DropInCommands ==
  ASSUME OutcomeInv, DropInInv, NEW r \in Runs, Command(r)
  PROVE  DropInInv'
<1> DEFINE old == run[r]
<1>1. old \in RunType /\ dropIn' = dropIn
  BY OutcomeFacts DEF Command, Launch, LaunchFails, Unscope, Wait, Reap, WriteReport
<1>2. ASSUME NEW t, Becomes(r, t), t.sudoOff = old.sudoOff, old.pc \notin Undone \union {"crashed"}
      PROVE  DropInInv'
  <2>1. Effect(r, t)
    BY <1>1, <1>2 DEF Effect, Relies
  <2> QED BY <1>2, <2>1, EffectOnOne
<1>3. CASE Launch(r)
  <2>1. PICK place, child, scoped :
          Becomes(r, [old EXCEPT !.pc = "wait", !.place = place, !.child = child, !.inScope = scoped])
    BY <1>3 DEF Launch
  <2>2. [old EXCEPT !.pc = "wait", !.place = place, !.child = child, !.inScope = scoped].sudoOff = old.sudoOff
    BY <1>1 DEF RunType
  <2> QED BY <1>2, <1>3, <2>1, <2>2 DEF Launch, Launches, Undone
<1>4. CASE LaunchFails(r)
  <2>1. PICK s : /\ Becomes(r, s)
                 /\ \/ s = [old EXCEPT !.pc = "reap", !.code = "other", !.inScope = HasCgroup(r)]
                    \/ s = [old EXCEPT !.pc = IF At(r, "launch1") THEN "launch2" ELSE "unscope"]
    BY <1>4 DEF LaunchFails, GoesTo
  <2>2. s.sudoOff = old.sudoOff
    BY <1>1, <2>1 DEF RunType
  <2>3. old.pc \notin Undone \union {"crashed"}
    BY <1>4 DEF LaunchFails, Launches, Undone
  <2> QED BY <1>2, <2>1, <2>2, <2>3
<1>5. CASE Unscope(r)
  <2>1. PICK done : Becomes(r, [old EXCEPT !.pc = "launch3", !.widened = done])
    BY <1>5 DEF Unscope
  <2>2. [old EXCEPT !.pc = "launch3", !.widened = done].sudoOff = old.sudoOff
    BY <1>1 DEF RunType
  <2>3. old.pc \notin Undone \union {"crashed"}
    BY <1>5 DEF Unscope, At, Undone
  <2> QED BY <1>2, <2>1, <2>2, <2>3
<1>6. CASE Wait(r)
  <2>1. PICK stray : Becomes(r, [old EXCEPT !.pc = "reap", !.stray = stray])
    BY <1>1, <1>6 DEF Wait, RunType
  <2>2. [old EXCEPT !.pc = "reap", !.stray = stray].sudoOff = old.sudoOff
    BY <1>1 DEF RunType
  <2>3. old.pc \notin Undone \union {"crashed"}
    BY <1>6 DEF Wait, At, Undone
  <2> QED BY <1>2, <2>1, <2>2, <2>3
<1>7. CASE Reap(r)
  <2> DEFINE next == [old EXCEPT !.pc = "report"]
  <2>1. next \in RunType /\ next.sudoOff = old.sudoOff /\ next.pc = "report"
    <3>1. next \in RunType
      BY <1>1 DEF RunType
    <3>2. next.sudoOff = old.sudoOff /\ next.pc = "report"
      BY <1>1 DEF RunType
    <3> QED BY <3>1, <3>2
  <2>2. old.pc = "reap" /\ Kills(r, next)
    BY <1>7 DEF Reap, At
  <2> HIDE DEF next
  <2> QED BY <1>1, <2>1, <2>2, EffectOfKill
<1>8. CASE WriteReport(r)
  <2>1. PICK e, w : Becomes(r, [old EXCEPT !.pc = "cleanup", !.exit = e, !.report = w])
    BY <1>8 DEF WriteReport
  <2>2. [old EXCEPT !.pc = "cleanup", !.exit = e, !.report = w].sudoOff = old.sudoOff
    BY <1>1 DEF RunType
  <2>3. old.pc \notin Undone \union {"crashed"}
    BY <1>8 DEF WriteReport, At, Undone
  <2> QED BY <1>2, <2>1, <2>2, <2>3
<1> QED BY <1>3, <1>4, <1>5, <1>6, <1>7, <1>8 DEF Command

LEMMA DropInDefers ==
  ASSUME OutcomeInv, DropInInv, NEW r \in Runs, Defers(r)
  PROVE  DropInInv'
<1> DEFINE old == run[r]
           p == Popped(r)
<1>1. old \in RunType /\ SudoInv(old)
  BY OutcomeFacts
<1>2. /\ old.pc = "cleanup"
      /\ dropIn' = dropIn \/ (RestoreSudo(r) /\ Head(old.todo) = "restore" /\ old.todo # <<>>)
  BY DEF Defers, TeardownKills, TeardownDeletes, CloseCgroup, RemoveResolvConf, RestoreSudo, Exit,
         Cleanup, At
<1>3. dropIn' = dropIn \/ old.sudoOff
  <2>1. old.todo # <<>> /\ old.todo \in Seq(Cleanups) => Head(old.todo) \in Pending(old.todo)
    BY Popping
  <2>2. old.todo \in Seq(Cleanups)
    BY OutcomeFacts
  <2> QED BY <1>1, <1>2, <2>1, <2>2 DEF SudoInv
<1>4. p.sudoOff = old.sudoOff /\ p.pc = "cleanup" /\ p.place = old.place
  BY <1>1, <1>2 DEF Popped, RunType
<1>5. ASSUME NEW t, Becomes(r, t), t.sudoOff = old.sudoOff, t.pc \in Undone PROVE DropInInv'
  <2>1. Effect(r, t)
    BY <1>3, <1>5 DEF Effect, Relies
  <2> QED BY <1>5, <2>1, EffectOnOne
<1>6. p \in RunType
  <2>1. old.todo \in Seq(Cleanups) /\ p = [old EXCEPT !.todo = Tail(old.todo)]
    BY <1>1, OutcomeFacts DEF Popped, RunType
  <2> DEFINE rest == Tail(old.todo)
  <2>2. rest \in Seq(Cleanups) \/ Exit(r)
    <3>1. Exit(r) \/ old.todo # <<>>
      BY DEF Defers, TeardownKills, TeardownDeletes, CloseCgroup, RemoveResolvConf, RestoreSudo, Cleanup
    <3> QED BY <2>1, <3>1, Popping
  <2>3. rest \in Seq(Cleanups)
    <3>1. CASE old.todo = <<>>
      BY <3>1
    <3>2. CASE old.todo # <<>>
      BY <2>1, <3>2, Popping
    <3> QED BY <3>1, <3>2
  <2> HIDE DEF rest
  <2>4. [old EXCEPT !.todo = rest] \in RunType
    BY <1>1, <2>3, WithTodo
  <2> QED BY <2>1, <2>4 DEF rest
<1>7. ASSUME NEW next, Kills(r, next), dropIn' = dropIn, next = p \/ next = [p EXCEPT !.residue = TRUE]
      PROVE  DropInInv'
  <2>1. next \in RunType
    <3>1. [p EXCEPT !.residue = TRUE] \in RunType
      BY <1>6 DEF RunType
    <3> QED BY <1>6, <1>7, <3>1
  <2>2. next.sudoOff = old.sudoOff /\ next.pc = "cleanup"
    <3> HIDE DEF p
    <3> QED BY <1>4, <1>6, <1>7 DEF RunType
  <2> QED BY <1>2, <1>7, <2>1, <2>2, EffectOfKill
<1>8. CASE TeardownKills(r)
  BY <1>4, <1>5, <1>7, <1>8 DEF TeardownKills, Undone
<1>9. CASE CloseCgroup(r)
  BY <1>7, <1>9 DEF CloseCgroup
<1>10. ASSUME NEW t, Becomes(r, t),
              \/ t = p \/ t = [p EXCEPT !.upDone = FALSE] \/ t = [p EXCEPT !.resolv = FALSE]
              \/ t = [p EXCEPT !.upDone = FALSE, !.residue = TRUE]
       PROVE  DropInInv'
  <2> HIDE DEF p
  <2>1. t.sudoOff = p.sudoOff /\ t.pc = p.pc
    BY <1>6, <1>10 DEF RunType
  <2> QED BY <1>4, <1>5, <1>10, <2>1 DEF Undone
<1>11. CASE TeardownDeletes(r) \/ RemoveResolvConf(r) \/ RestoreSudo(r)
  BY <1>10, <1>11 DEF TeardownDeletes, RemoveResolvConf, RestoreSudo
<1>12. CASE Exit(r)
  <2>1. [old EXCEPT !.pc = "exited"].sudoOff = old.sudoOff /\ [old EXCEPT !.pc = "exited"].pc = "exited"
    BY <1>1 DEF RunType
  <2> QED BY <1>5, <1>12, <2>1 DEF Exit, GoesTo, Undone
<1> QED BY <1>8, <1>9, <1>11, <1>12 DEF Defers

LEMMA DropInLeft ==
  ASSUME OutcomeInv, DropInInv, NEW r \in Runs, BuildLeaves(r)
  PROVE  DropInInv'
<1> DEFINE t == [run[r] EXCEPT !.place = "left"]
<1>1. run[r] \in RunType /\ Becomes(r, t) /\ dropIn' = dropIn
  BY OutcomeFacts DEF BuildLeaves
<1>2. /\ t.pc = run[r].pc /\ t.sudoOff = run[r].sudoOff /\ t.todo = run[r].todo
      /\ t.child = run[r].child /\ t.stray = run[r].stray
  BY <1>1 DEF RunType
<1> HIDE DEF t
<1>3. Effect(r, t)
  BY <1>1, <1>2 DEF Effect, Relies, Live, Undone
<1> QED BY <1>1, <1>3, EffectOnOne

LEMMA DropInBuilds ==
  ASSUME OutcomeInv, DropInInv, NEW r \in Runs,
         BuildMoves(r) \/ ContextKills(r) \/ Signal(r) \/ Crash(r)
  PROVE  DropInInv'
<1> DEFINE old == run[r]
<1>1. old \in RunType
  BY OutcomeFacts
<1>2. dropIn' = dropIn
  BY DEF BuildMoves, Trampoline, BuildForks, BuildEnds, BuildOverwrites, ContextKills, Signal, Crash
<1>3. ASSUME NEW t, Becomes(r, t), t.sudoOff = old.sudoOff, Live(t) => Live(old),
             t.pc = old.pc \/ t.pc = "crashed"
      PROVE  DropInInv'
  <2>1. Relies(t) => Relies(old)
    <3> HIDE DEF old
    <3>1. CASE t.pc = old.pc
      BY <1>3, <3>1 DEF Relies
    <3>2. CASE t.pc = "crashed" /\ Relies(t)
      <4>1. old.sudoOff /\ Live(old)
        BY <1>3, <3>2 DEF Relies
      <4>2. old.pc \in {"wait", "reap", "crashed"}
        BY <4>1, SudoCode DEF old
      <4> QED BY <4>1, <4>2 DEF Relies, Undone
    <3> QED BY <1>3, <3>1, <3>2
  <2>2. Effect(r, t)
    BY <1>2, <1>3, <2>1 DEF Effect
  <2> QED BY <1>3, <2>2, EffectOnOne
<1>4. CASE Trampoline(r)
  <2>1. PICK t : /\ Becomes(r, t) /\ old.child = "trampoline"
                 /\ \/ t = [old EXCEPT !.guards = @ + 1] \/ t = [old EXCEPT !.child = "build"]
                    \/ t = [old EXCEPT !.child = "gone", !.code = "other"]
    BY <1>4 DEF Trampoline
  <2>2. t.sudoOff = old.sudoOff /\ t.pc = old.pc
    BY <1>1, <2>1 DEF RunType
  <2>3. Live(old)
    BY <2>1 DEF Live
  <2> QED BY <1>3, <2>1, <2>2, <2>3
<1>5. CASE BuildForks(r)
  <2>1. PICK y : Becomes(r, [old EXCEPT !.stray = y]) /\ old.child = "build"
    BY <1>5 DEF BuildForks
  <2> DEFINE t == [old EXCEPT !.stray = y]
  <2>2. t.sudoOff = old.sudoOff /\ t.pc = old.pc
    BY <1>1, <2>1 DEF RunType
  <2>3. Live(old)
    BY <2>1 DEF Live
  <2> HIDE DEF t
  <2> QED BY <1>3, <2>1, <2>2, <2>3 DEF t
<1>6. CASE BuildEnds(r) \/ ContextKills(r)
  <2>1. PICK t : /\ Becomes(r, t)
                 /\ \/ \E c : t = [old EXCEPT !.child = "gone", !.code = c]
                    \/ t = [old EXCEPT !.stray = "none"]
    BY <1>6 DEF BuildEnds, ContextKills
  <2>2. t.sudoOff = old.sudoOff /\ t.pc = old.pc /\ (Live(t) => Live(old))
    <3>1. CASE t = [old EXCEPT !.stray = "none"]
      BY <1>1, <3>1 DEF RunType, Live
    <3>2. CASE \E c : t = [old EXCEPT !.child = "gone", !.code = c]
      BY <1>1, <3>2 DEF RunType, Live
    <3> QED BY <2>1, <3>1, <3>2
  <2> QED BY <1>3, <2>1, <2>2
<1>7. CASE BuildOverwrites(r) \/ Signal(r) \/ Crash(r)
  <2>1. PICK t : /\ Becomes(r, t)
                 /\ \/ t = [old EXCEPT !.report = "forged"]
                    \/ t = [old EXCEPT !.signalled = TRUE]
                    \/ t = [old EXCEPT !.pc = "crashed"]
    BY <1>7 DEF BuildOverwrites, Signal, Crash, GoesTo
  <2>2. t.sudoOff = old.sudoOff /\ t.pc \in {old.pc, "crashed"} /\ (Live(t) => Live(old))
    BY <1>1, <2>1 DEF RunType, Live
  <2> QED BY <1>3, <2>1, <2>2
<1> QED BY <1>4, <1>5, <1>6, <1>7 DEF BuildMoves

(* disable_sudo_linux.go: "the build never runs with the sudo the operator asked
   to remove", also not after Egret died, as long as no other run on the host
   asked for the same and restores it. *)
THEOREM SudoRevokedHolds == Spec => [](OneSudo => SudoRevoked)
<1>1. OutcomeInv /\ DropInInv => (OneSudo => SudoRevoked)
  <2> SUFFICES ASSUME OutcomeInv, DropInInv, OneSudo, NEW r \in Runs, run[r].sudoOff, BuildCode(r)
               PROVE  dropIn # "absent"
    BY DEF SudoRevoked
  <2>1. Live(run[r])
    BY DEF BuildCode, Live
  <2>2. run[r].pc \in {"wait", "reap", "crashed"}
    BY <2>1, SudoCode
  <2>3. Relies(run[r])
    BY <2>1, <2>2 DEF Relies, Undone
  <2> QED BY <2>3 DEF DropInInv
<1>2. Init => DropInInv
  <2> SUFFICES ASSUME Init, NEW r \in Runs PROVE ~ Relies(run[r])
    BY DEF DropInInv
  <2>1. run[r].pc = "start"
    BY DEF Init, InitRun
  <2> QED BY <2>1 DEF Relies, Undone
<1>3. OutcomeInv /\ DropInInv /\ [Next]_vars => DropInInv'
  <2> SUFFICES ASSUME OutcomeInv, DropInInv, [Next]_vars PROVE DropInInv'
    OBVIOUS
  <2>1. ASSUME NEW r \in Runs, EgretStep(r) PROVE DropInInv'
    BY <2>1, DropInPrepares, DropInCommands, DropInDefers DEF EgretStep
  <2>2. ASSUME NEW r \in Runs, BuildStep(r) \/ ContextKills(r) \/ Signal(r) \/ Crash(r)
        PROVE  DropInInv'
    BY <2>2, DropInBuilds, DropInLeft DEF BuildStep, BuildMoves
  <2>3. CASE UNCHANGED vars
    BY <2>3 DEF vars, DropInInv, OneSudo, Relies, Live
  <2> QED BY <2>1, <2>2, <2>3 DEF Next, Finished
<1> QED BY <1>1, <1>2, <1>3, OutcomeBegins, OutcomeStep, PTL DEF Spec


-----------------------------------------------------------------------------
(* Nothing that counts for Restored gets worse: a step of Egret that leaves the
   host alone. *)
Onward(s, t) ==
  /\ t.id = s.id /\ t.sudoOff = s.sudoOff /\ t.cg = s.cg
  /\ t.cut = s.cut /\ (s.residue => t.residue) /\ (s.upDone => t.upDone)
  /\ Pending(s.todo) \subseteq Pending(t.todo)
  /\ s.pc \in {"dns", "setup"} =>
       t.pc \in {"dns", "setup", "crashed"} \/ "close" \in Pending(t.todo)
  /\ s.pc = "visudo" => t.pc \in {"visudo", "crashed"}
  /\ s.pc = "crashed" => t.pc = "crashed"

LEMMA OnwardRestored ==
  ASSUME NEW r, NEW rules, NEW groups, NEW sudoers, NEW s, NEW t,
         Restored(r, s, rules, groups, sudoers), Onward(s, t)
  PROVE  Restored(r, t, rules, groups, sudoers)
BY DEF Restored, Onward

(* A step of r, on r's part of the host. *)
OwnPart(r) ==
  /\ \A i \in Ids \ {run[r].id} : tables'[i] = tables[i]
  /\ \A base \in Bases, i \in Ids \ {run[r].id} : << base, i >> \in dirs' => << base, i >> \in dirs
  /\ dropIn' \notin {"absent", dropIn} => run[r].sudoOff

LEMMA RestoreStep ==
  ASSUME OutcomeInv, RestoreInv, NEW r \in Runs, NEW t, run'[r] = t,
         t.id = run[r].id, t.sudoOff = run[r].sudoOff,
         Apart => Restored(r, t, tables', dirs', dropIn'), OwnPart(r), HostType',
         \A q \in Runs \ {r} : Onward(run[q], run'[q])
  PROVE  RestoreInv'
<1>1. \A q \in Runs : run'[q].id = run[q].id /\ run'[q].sudoOff = run[q].sudoOff
  BY DEF Onward
<1>2. Apart' => Apart
  BY <1>1 DEF Apart
<1> SUFFICES ASSUME Apart, NEW q \in Runs PROVE Restored(q, run'[q], tables', dirs', dropIn')
  BY <1>2 DEF RestoreInv
<1>3. CASE q = r
  BY <1>3
<1>4. CASE q # r
  <2> DEFINE s == run[q]
             u == run'[q]
  <2>1. Restored(q, u, tables, dirs, dropIn)
    BY <1>4, OnwardRestored DEF RestoreInv
  <2>2. s \in RunType /\ u.id = s.id /\ u.cg = s.cg
    BY <1>4, OutcomeFacts DEF Onward
  <2>3. s.id # run[r].id /\ s.id \in Ids /\ ~ run[r].sudoOff
    BY <1>4, <2>2 DEF Apart, RunType
  <2> HIDE DEF s, u
  <2>4. tables'[u.id] = tables[u.id]
    BY <2>2, <2>3 DEF OwnPart
  <2>5. << u.cg, u.id >> \in dirs' => << u.cg, u.id >> \in dirs
    <3>1. << u.cg, u.id >> \in dirs' => u.cg \in Bases
      BY DEF HostType
    <3> QED BY <2>2, <2>3, <3>1 DEF OwnPart
  <2>6. dropIn' # "absent" => dropIn # "absent"
    BY <2>3 DEF OwnPart
  <2>7. Restored(q, u, tables', dirs', dropIn')
    BY <2>1, <2>4, <2>5, <2>6 DEF Restored
  <2> QED BY <2>7 DEF u
<1> QED BY <1>3, <1>4

LEMMA OnwardItself ==
  ASSUME OutcomeInv, NEW r \in Runs
  PROVE  Onward(run[r], run[r])
BY DEF Onward

(* One run changes, and its part of the host. *)
LEMMA RestoreOnOne ==
  ASSUME OutcomeInv, RestoreInv, NEW r \in Runs, NEW t, Becomes(r, t),
         t.id = run[r].id, t.sudoOff = run[r].sudoOff, OwnPart(r), HostType',
         Restored(r, run[r], tables, dirs, dropIn) => Restored(r, t, tables', dirs', dropIn')
  PROVE  RestoreInv'
<1>1. run'[r] = t /\ \A q \in Runs \ {r} : run'[q] = run[q]
  BY DEF OutcomeInv, TypeOK, Becomes
<1>2. Apart => Restored(r, t, tables', dirs', dropIn')
  BY DEF RestoreInv
<1>3. \A q \in Runs \ {r} : Onward(run[q], run'[q])
  BY <1>1, OnwardItself
<1> QED BY <1>1, <1>2, <1>3, RestoreStep

(* One run changes and the host does not. *)
LEMMA RestoreOnward ==
  ASSUME OutcomeInv, RestoreInv, NEW r \in Runs, NEW t, Becomes(r, t), Onward(run[r], t),
         tables' = tables, dirs' = dirs, dropIn' = dropIn
  PROVE  RestoreInv'
<1>1. HostType' /\ OwnPart(r)
  BY HostStays DEF OwnPart
<1>2. t.id = run[r].id /\ t.sudoOff = run[r].sudoOff
  BY DEF Onward
<1>3. Restored(r, run[r], tables, dirs, dropIn) => Restored(r, t, tables', dirs', dropIn')
  BY OnwardRestored
<1> QED BY <1>1, <1>2, <1>3, RestoreOnOne

(* A kill changes no field that counts, of the run that kills or another. *)
LEMMA RestoreOfKill ==
  ASSUME OutcomeInv, RestoreInv, NEW r \in Runs, NEW next \in RunType, Kills(r, next),
         next.id = run[r].id, next.sudoOff = run[r].sudoOff, OwnPart(r), HostType',
         Restored(r, run[r], tables, dirs, dropIn) => Restored(r, next, tables', dirs', dropIn')
  PROVE  RestoreInv'
<1>1. run' = [q \in Runs |-> IF Hit(r, q) THEN Killed(IF q = r THEN next ELSE run[q])
                                         ELSE IF q = r THEN next ELSE run[q]]
  BY DEF Kills, Hit, Killed
<1>2. ASSUME NEW s \in RunType PROVE Onward(s, Killed(s)) /\ Onward(s, s)
  <2>1. \A f \in {"id", "sudoOff", "cg", "cut", "residue", "upDone", "todo", "pc"} : Killed(s)[f] = s[f]
    BY DEF Killed, RunType
  <2> QED BY <2>1 DEF Onward
<1>3. \A q \in Runs \ {r} : Onward(run[q], run'[q])
  <2> TAKE q \in Runs \ {r}
  <2>1. run[q] \in RunType /\ run'[q] \in {run[q], Killed(run[q])}
    BY <1>1, OutcomeFacts
  <2> QED BY <1>2, <2>1
<1>4. Onward(next, run'[r])
  <2>1. run'[r] \in {next, Killed(next)}
    BY <1>1
  <2> QED BY <1>2, <2>1
<1>5. Apart => Restored(r, run'[r], tables', dirs', dropIn')
  BY <1>4, OnwardRestored DEF RestoreInv
<1>6. run'[r].id = run[r].id /\ run'[r].sudoOff = run[r].sudoOff
  BY <1>4 DEF Onward
<1> QED BY <1>3, <1>5, <1>6, RestoreStep


(* A return with an error, and what it appends to the cleanups. *)
LEMMA ReturnOnward ==
  ASSUME OutcomeInv, NEW r \in Runs, NEW c \in {<<>>, Undo}, run[r].pc \notin {"visudo", "crashed"},
         c = Undo \/ run[r].pc \notin {"dns", "setup"}
  PROVE  Onward(run[r], [run[r] EXCEPT !.pc = "cleanup", !.exit = "other", !.todo = c \o @])
<1> DEFINE old == run[r]
           t == [old EXCEPT !.pc = "cleanup", !.exit = "other", !.todo = c \o @]
<1>1. old \in RunType /\ old.todo \in Seq(Cleanups)
  BY OutcomeFacts
<1>2. /\ t.id = old.id /\ t.sudoOff = old.sudoOff /\ t.cg = old.cg /\ t.cut = old.cut
      /\ t.residue = old.residue /\ t.upDone = old.upDone /\ t.pc = "cleanup"
      /\ t.todo = c \o old.todo
  BY <1>1 DEF RunType
<1>3. Pending(old.todo) \subseteq Pending(c \o old.todo) /\ (c = Undo => "close" \in Pending(c \o old.todo))
  BY <1>1, Pushing
<1> HIDE DEF t, old
<1>4. Onward(old, t)
  BY <1>2, <1>3 DEF Onward, old
<1> QED BY <1>4 DEF old, t

LEMMA RestoreSudoSteps ==
  ASSUME OutcomeInv, RestoreInv, NEW r \in Runs, WriteDropIn(r) \/ Visudo(r)
  PROVE  RestoreInv'
<1> DEFINE old == run[r]
<1>1. old \in RunType /\ old.todo \in Seq(Cleanups) /\ SudoInv(old)
  BY OutcomeFacts
<1>2. old.pc \in {"sudo", "visudo"} /\ old.sudoOff /\ tables' = tables /\ dirs' = dirs
  BY <1>1 DEF WriteDropIn, Visudo, At, SudoInv
<1>3. ASSUME NEW t, Becomes(r, t), t.id = old.id, t.sudoOff = old.sudoOff, t.cg = old.cg,
             t.cut = old.cut, t.upDone = old.upDone, t.residue \/ t.residue = old.residue,
             "close" \in Pending(old.todo) => "close" \in Pending(t.todo),
             dropIn' \in {"absent", "unvalidated", "valid"},
             dropIn' = "absent" \/ t.residue \/ t.pc = "visudo" \/ "restore" \in Pending(t.todo)
      PROVE  RestoreInv'
  <2>1. HostType' /\ OwnPart(r)
    BY <1>2, <1>3 DEF OutcomeInv, TypeOK, HostType, OwnPart
  <2>2. Restored(r, old, tables, dirs, dropIn) => Restored(r, t, tables', dirs', dropIn')
    BY <1>2, <1>3 DEF Restored
  <2> QED BY <1>3, <2>1, <2>2, RestoreOnOne
<1>4. CASE WriteDropIn(r)
  <2>0. old.pc = "sudo"
    BY <1>4 DEF WriteDropIn, At
  <2>1. CASE Returns(r, <<>>) /\ UNCHANGED dropIn
    BY <1>2, <2>0, <2>1, ReturnOnward, RestoreOnward DEF Returns
  <2>2. CASE GoesTo(r, "visudo") /\ dropIn' = "unvalidated"
    <3> DEFINE t == [old EXCEPT !.pc = "visudo"]
    <3>1. /\ t.id = old.id /\ t.sudoOff = old.sudoOff /\ t.cg = old.cg /\ t.cut = old.cut
          /\ t.upDone = old.upDone /\ t.residue = old.residue /\ t.todo = old.todo /\ t.pc = "visudo"
      BY <1>1 DEF RunType
    <3>2. Becomes(r, t)
      BY <2>2 DEF GoesTo
    <3> HIDE DEF t
    <3> QED BY <1>3, <2>2, <3>1, <3>2
  <2>3. CASE Becomes(r, [old EXCEPT !.pc = "cleanup", !.exit = "other", !.residue = TRUE]) /\ dropIn' = "unvalidated"
    <3> DEFINE t == [old EXCEPT !.pc = "cleanup", !.exit = "other", !.residue = TRUE]
    <3>1. /\ t.id = old.id /\ t.sudoOff = old.sudoOff /\ t.cg = old.cg /\ t.cut = old.cut
          /\ t.upDone = old.upDone /\ t.residue /\ t.todo = old.todo
      BY <1>1 DEF RunType
    <3>2. Becomes(r, t)
      BY <2>3
    <3> HIDE DEF t
    <3> QED BY <1>3, <2>3, <3>1, <3>2
  <2> QED BY <1>4, <2>1, <2>2, <2>3 DEF WriteDropIn
<1>5. CASE Visudo(r)
  <2>1. CASE Returns(r, <<>>) /\ dropIn' = "absent"
    <3> DEFINE t == [old EXCEPT !.pc = "cleanup", !.exit = "other", !.todo = <<>> \o @]
    <3>1. /\ t.id = old.id /\ t.sudoOff = old.sudoOff /\ t.cg = old.cg /\ t.cut = old.cut
          /\ t.upDone = old.upDone /\ t.residue = old.residue /\ t.todo = <<>> \o old.todo
      BY <1>1 DEF RunType
    <3>2. Becomes(r, t) /\ Pending(old.todo) \subseteq Pending(<<>> \o old.todo)
      BY <1>1, <2>1, Pushing DEF Returns
    <3> HIDE DEF t
    <3> QED BY <1>3, <2>1, <3>1, <3>2
  <2>2. CASE Becomes(r, [old EXCEPT !.pc = "new", !.todo = <<"restore">> \o @]) /\ dropIn' = "valid"
    <3> DEFINE t == [old EXCEPT !.pc = "new", !.todo = <<"restore">> \o @]
    <3>1. /\ t.id = old.id /\ t.sudoOff = old.sudoOff /\ t.cg = old.cg /\ t.cut = old.cut
          /\ t.upDone = old.upDone /\ t.residue = old.residue /\ t.todo = <<"restore">> \o old.todo
      BY <1>1 DEF RunType
    <3>2. /\ Becomes(r, t)
          /\ Pending(<<"restore">> \o old.todo) = {"restore"} \union Pending(old.todo)
      BY <1>1, <2>2, Pushing DEF Cleanups
    <3> HIDE DEF t
    <3> QED BY <1>3, <2>2, <3>1, <3>2
  <2> QED BY <1>5, <2>1, <2>2 DEF Visudo
<1> QED BY <1>4, <1>5

LEMMA RestoreNewAndSetup ==
  ASSUME OutcomeInv, RestoreInv, NEW r \in Runs, New(r) \/ Setup(r)
  PROVE  RestoreInv'
<1> DEFINE old == run[r]
<1>1. old \in RunType /\ old.todo \in Seq(Cleanups)
  BY OutcomeFacts
<1>2. old.id \in Ids /\ dropIn' = dropIn
  BY <1>1 DEF RunType, New, Setup
<1>3. OutcomeInv'
  BY PrepareSteps DEF Prepare
<1>4. HostType'
  BY <1>3 DEF OutcomeInv, TypeOK, HostType
<1>5. /\ Pending(Undo \o old.todo) = {"kill", "delete", "close"} \union Pending(old.todo)
      /\ Undo \o old.todo \in Seq(Cleanups)
  BY <1>1, Pushing
<1>6. CASE New(r)
  <2>0. old.pc = "new" /\ tables' = tables
    BY <1>6 DEF New, At
  <2>1. ASSUME NEW base \in Bases, Mkdir(r, base), Becomes(r, [old EXCEPT !.pc = "dns", !.cg = base]),
               dirs' = dirs \union {<< base, old.id >>}
        PROVE  RestoreInv'
    <3> DEFINE t == [old EXCEPT !.pc = "dns", !.cg = base]
    <3>1. /\ t.id = old.id /\ t.sudoOff = old.sudoOff /\ t.pc = "dns" /\ t.cut = old.cut
          /\ t.upDone = old.upDone /\ t.residue = old.residue /\ t.todo = old.todo
      BY <1>1 DEF RunType
    <3> HIDE DEF t
    <3>2. Restored(r, old, tables, dirs, dropIn) => Restored(r, t, tables', dirs', dropIn')
      BY <1>2, <2>0, <3>1 DEF Restored
    <3>3. OwnPart(r)
      BY <1>2, <2>0, <2>1 DEF OwnPart
    <3> QED BY <1>4, <2>1, <3>1, <3>2, <3>3, RestoreOnOne DEF t
  <2>2. CASE Returns(r, <<>>) /\ dirs' = dirs
    BY <1>2, <2>0, <2>2, ReturnOnward, RestoreOnward DEF Returns
  <2>3. CASE GoesTo(r, "dns") /\ dirs' = dirs
    <3> DEFINE t == [old EXCEPT !.pc = "dns"]
    <3>1. /\ t.id = old.id /\ t.sudoOff = old.sudoOff /\ t.pc = "dns" /\ t.cut = old.cut /\ t.cg = old.cg
          /\ t.upDone = old.upDone /\ t.residue = old.residue /\ t.todo = old.todo
      BY <1>1 DEF RunType
    <3>2. Becomes(r, t)
      BY <2>3 DEF GoesTo
    <3> HIDE DEF t
    <3>3. Onward(old, t)
      BY <2>0, <3>1 DEF Onward
    <3> QED BY <1>2, <2>0, <2>3, <3>2, <3>3, RestoreOnward
  <2> QED BY <1>6, <2>1, <2>2, <2>3 DEF New
<1>7. CASE Setup(r)
  <2>0. old.pc = "setup" /\ dirs' = dirs
    BY <1>7 DEF Setup, At
  <2> DEFINE todo == Undo \o old.todo
  <2>1. CASE Becomes(r, [old EXCEPT !.pc = "collector", !.todo = todo]) /\ tables' = tables
    <3> DEFINE t == [old EXCEPT !.pc = "collector", !.todo = todo]
    <3>1. /\ t.id = old.id /\ t.sudoOff = old.sudoOff /\ t.pc = "collector" /\ t.cut = old.cut /\ t.cg = old.cg
          /\ t.upDone = old.upDone /\ t.residue = old.residue /\ t.todo = todo
      BY <1>1 DEF RunType
    <3> HIDE DEF t
    <3>3. Onward(old, t)
      BY <1>5, <2>0, <3>1 DEF Onward
    <3> QED BY <1>2, <2>0, <2>1, <3>3, RestoreOnward DEF t
  <2>2. CASE Returns(r, Undo) /\ tables' = tables
    BY <1>2, <2>0, <2>2, ReturnOnward, RestoreOnward DEF Returns
  <2>3. ASSUME NEW t, Becomes(r, t), tables' = [tables EXCEPT ![old.id] = @ \union {r}],
               \/ t = [old EXCEPT !.pc = "probe", !.upDone = TRUE, !.todo = todo]
               \/ t = [old EXCEPT !.pc = "cleanup", !.exit = "other", !.todo = todo, !.cut = TRUE]
        PROVE  RestoreInv'
    <3> HIDE DEF todo
    <3>1. /\ t.id = old.id /\ t.sudoOff = old.sudoOff /\ t.cg = old.cg /\ t.residue = old.residue
          /\ t.todo = todo /\ (t.upDone \/ t.cut)
      BY <1>1, <2>3 DEF RunType
    <3>2. Restored(r, old, tables, dirs, dropIn) => Restored(r, t, tables', dirs', dropIn')
      BY <1>2, <1>5, <2>0, <3>1 DEF Restored, todo
    <3>3. OwnPart(r)
      <4>1. tables \in [Ids -> SUBSET Runs]
        BY DEF OutcomeInv, TypeOK
      <4> QED BY <1>2, <2>0, <2>3, <4>1 DEF OwnPart
    <3> QED BY <1>4, <2>3, <3>1, <3>2, <3>3, RestoreOnOne
  <2> QED BY <1>7, <2>1, <2>2, <2>3 DEF Setup
<1> QED BY <1>6, <1>7

LEMMA RestorePrepares ==
  ASSUME OutcomeInv, RestoreInv, NEW r \in Runs, Prepare(r)
  PROVE  RestoreInv'
<1> DEFINE old == run[r]
<1>1. old \in RunType /\ old.todo \in Seq(Cleanups)
  BY OutcomeFacts
<1>2. ASSUME NEW p, GoesTo(r, p), tables' = tables, dirs' = dirs, dropIn' = dropIn,
             old.pc \notin {"visudo", "setup", "crashed"}, old.pc = "dns" => p = "setup"
      PROVE  RestoreInv'
  <2> DEFINE t == [old EXCEPT !.pc = p]
  <2>1. /\ t.id = old.id /\ t.sudoOff = old.sudoOff /\ t.pc = p /\ t.cut = old.cut /\ t.cg = old.cg
        /\ t.upDone = old.upDone /\ t.residue = old.residue /\ t.todo = old.todo
    BY <1>1 DEF RunType
  <2> HIDE DEF t
  <2>2. Onward(old, t)
    BY <1>2, <2>1 DEF Onward
  <2> QED BY <1>2, <2>2, RestoreOnward DEF t, GoesTo
<1>3. ASSUME Returns(r, <<>>) \/ (Returns(r, Undo) /\ old.pc = "dns"),
             tables' = tables, dirs' = dirs, dropIn' = dropIn,
             old.pc \notin {"visudo", "setup", "crashed"}, old.pc = "dns" => Returns(r, Undo)
      PROVE  RestoreInv'
  BY <1>3, ReturnOnward, RestoreOnward DEF Returns
<1>4. CASE Refuse(r) \/ Start(r) \/ SelfProbe(r) \/ NewCollector(r)
  <2>1. /\ tables' = tables /\ dirs' = dirs /\ dropIn' = dropIn
        /\ old.pc \in {"start", "probe", "collector"}
        /\ Returns(r, <<>>) \/ \E p : GoesTo(r, p)
    BY <1>4 DEF Refuse, Start, SelfProbe, NewCollector, At
  <2> QED BY <1>2, <1>3, <2>1
<1>5. CASE StartDns(r)
  <2>1. /\ tables' = tables /\ dirs' = dirs /\ dropIn' = dropIn /\ old.pc = "dns"
        /\ Returns(r, Undo) \/ GoesTo(r, "setup")
    BY <1>5 DEF StartDns, At
  <2> QED BY <1>2, <1>3, <2>1
<1>6. CASE WriteResolvConf(r)
  <2>1. tables' = tables /\ dirs' = dirs /\ dropIn' = dropIn /\ old.pc = "resolv"
    BY <1>6 DEF WriteResolvConf, At
  <2> DEFINE todo == <<"unresolv">> \o old.todo
  <2>2. CASE Becomes(r, [old EXCEPT !.pc = "launch1", !.resolv = TRUE, !.todo = todo])
    <3> DEFINE t == [old EXCEPT !.pc = "launch1", !.resolv = TRUE, !.todo = todo]
    <3>1. Pending(old.todo) \subseteq Pending(todo)
      BY <1>1, Pushing DEF Cleanups
    <3> HIDE DEF todo
    <3>2. /\ t.id = old.id /\ t.sudoOff = old.sudoOff /\ t.cut = old.cut /\ t.cg = old.cg
          /\ t.upDone = old.upDone /\ t.residue = old.residue /\ t.todo = todo
      BY <1>1 DEF RunType
    <3> HIDE DEF t
    <3>3. Onward(old, t)
      BY <2>1, <3>1, <3>2 DEF Onward
    <3> QED BY <2>1, <2>2, <3>3, RestoreOnward DEF t
  <2> QED BY <1>2, <1>3, <1>6, <2>1, <2>2 DEF WriteResolvConf
<1> QED BY <1>4, <1>5, <1>6, RestoreSudoSteps, RestoreNewAndSetup DEF Prepare


(* What the steps that leave the host alone keep of their run. *)
Stays(s, t) ==
  /\ t.id = s.id /\ t.sudoOff = s.sudoOff /\ t.cg = s.cg /\ t.cut = s.cut
  /\ t.residue = s.residue /\ t.upDone = s.upDone /\ t.todo = s.todo
  /\ t.pc \in {s.pc, "crashed"} \/ s.pc \notin {"dns", "setup", "visudo", "crashed"}

LEMMA StaysOnward ==
  ASSUME NEW s, NEW t, Stays(s, t)
  PROVE  Onward(s, t)
BY DEF Stays, Onward

LEMMA RestoreCommands ==
  ASSUME OutcomeInv, RestoreInv, NEW r \in Runs, Command(r)
  PROVE  RestoreInv'
<1> DEFINE old == run[r]
<1>1. /\ old \in RunType /\ tables' = tables /\ dirs' = dirs /\ dropIn' = dropIn
      /\ old.pc \in Launches \union Commands \union {"unscope"}
  BY OutcomeFacts DEF Command, Launch, LaunchFails, Unscope, Wait, Reap, WriteReport, At, Commands
<1>2. old.pc \notin {"dns", "setup", "visudo", "crashed"}
  BY <1>1 DEF Launches, Commands
<1>3. ASSUME NEW t, Becomes(r, t), Stays(old, t) PROVE RestoreInv'
  BY <1>1, <1>3, StaysOnward, RestoreOnward
<1>4. CASE Launch(r)
  <2>1. PICK place, child, scoped :
          Becomes(r, [old EXCEPT !.pc = "wait", !.place = place, !.child = child, !.inScope = scoped])
    BY <1>4 DEF Launch
  <2>2. Stays(old, [old EXCEPT !.pc = "wait", !.place = place, !.child = child, !.inScope = scoped])
    BY <1>1, <1>2 DEF RunType, Stays
  <2> QED BY <1>3, <2>1, <2>2
<1>5. CASE LaunchFails(r)
  <2>1. PICK s : /\ Becomes(r, s)
                 /\ \/ s = [old EXCEPT !.pc = "reap", !.code = "other", !.inScope = HasCgroup(r)]
                    \/ s = [old EXCEPT !.pc = IF At(r, "launch1") THEN "launch2" ELSE "unscope"]
    BY <1>5 DEF LaunchFails, GoesTo
  <2>2. Stays(old, s)
    BY <1>1, <1>2, <2>1, ZenonT(60) DEF RunType, Stays
  <2> QED BY <1>3, <2>1, <2>2
<1>6. CASE Unscope(r)
  <2>1. PICK done : Becomes(r, [old EXCEPT !.pc = "launch3", !.widened = done])
    BY <1>6 DEF Unscope
  <2>2. Stays(old, [old EXCEPT !.pc = "launch3", !.widened = done])
    BY <1>1, <1>2 DEF RunType, Stays
  <2> QED BY <1>3, <2>1, <2>2
<1>7. CASE Wait(r)
  <2>1. PICK stray : Becomes(r, [old EXCEPT !.pc = "reap", !.stray = stray])
    BY <1>1, <1>7 DEF Wait, RunType
  <2>2. Stays(old, [old EXCEPT !.pc = "reap", !.stray = stray])
    BY <1>1, <1>2 DEF RunType, Stays
  <2> QED BY <1>3, <2>1, <2>2
<1>8. CASE Reap(r)
  <2> DEFINE next == [old EXCEPT !.pc = "report"]
  <2>1. next \in RunType
    BY <1>1 DEF RunType
  <2>2. Stays(old, next)
    BY <1>1, <1>2 DEF RunType, Stays
  <2>3. Kills(r, next)
    BY <1>8 DEF Reap
  <2> HIDE DEF next
  <2>4. HostType' /\ OwnPart(r)
    BY <1>1, HostStays DEF OwnPart
  <2>5. Restored(r, old, tables, dirs, dropIn) => Restored(r, next, tables', dirs', dropIn')
    BY <1>1, <2>2, StaysOnward, OnwardRestored
  <2> QED BY <2>1, <2>2, <2>3, <2>4, <2>5, RestoreOfKill DEF Stays
<1>9. CASE WriteReport(r)
  <2>1. PICK e, w : Becomes(r, [old EXCEPT !.pc = "cleanup", !.exit = e, !.report = w])
    BY <1>9 DEF WriteReport
  <2>2. Stays(old, [old EXCEPT !.pc = "cleanup", !.exit = e, !.report = w])
    BY <1>1, <1>2 DEF RunType, Stays
  <2> QED BY <1>3, <2>1, <2>2
<1> QED BY <1>4, <1>5, <1>6, <1>7, <1>8, <1>9 DEF Command

LEMMA RestoreLeft ==
  ASSUME OutcomeInv, RestoreInv, NEW r \in Runs, BuildLeaves(r)
  PROVE  RestoreInv'
<1> DEFINE t == [run[r] EXCEPT !.place = "left"]
<1>1. run[r] \in RunType /\ Becomes(r, t) /\ tables' = tables /\ dirs' = dirs /\ dropIn' = dropIn
  BY OutcomeFacts DEF BuildLeaves
<1>2. Stays(run[r], t)
  BY <1>1 DEF RunType, Stays
<1> QED BY <1>1, <1>2, StaysOnward, RestoreOnward

LEMMA RestoreBuilds ==
  ASSUME OutcomeInv, RestoreInv, NEW r \in Runs,
         BuildMoves(r) \/ ContextKills(r) \/ Signal(r) \/ Crash(r)
  PROVE  RestoreInv'
<1> DEFINE old == run[r]
<1>1. old \in RunType /\ tables' = tables /\ dirs' = dirs /\ dropIn' = dropIn
  BY OutcomeFacts DEF BuildMoves, Trampoline, BuildForks, BuildEnds, BuildOverwrites, ContextKills, Signal, Crash
<1>2. ASSUME NEW t, Becomes(r, t), Stays(old, t) PROVE RestoreInv'
  BY <1>1, <1>2, StaysOnward, RestoreOnward
<1>3. CASE Trampoline(r)
  <2>1. PICK t : /\ Becomes(r, t)
                 /\ \/ t = [old EXCEPT !.guards = @ + 1] \/ t = [old EXCEPT !.child = "build"]
                    \/ t = [old EXCEPT !.child = "gone", !.code = "other"]
    BY <1>3 DEF Trampoline
  <2>2. Stays(old, t)
    BY <1>1, <2>1, ZenonT(60) DEF RunType, Stays
  <2> QED BY <1>2, <2>1, <2>2
<1>4. CASE BuildForks(r)
  <2>1. PICK y : Becomes(r, [old EXCEPT !.stray = y])
    BY <1>4 DEF BuildForks
  <2>2. Stays(old, [old EXCEPT !.stray = y])
    BY <1>1 DEF RunType, Stays
  <2> QED BY <1>2, <2>1, <2>2
<1>5. CASE BuildEnds(r) \/ ContextKills(r)
  <2>1. PICK t : /\ Becomes(r, t)
                 /\ \/ \E c : t = [old EXCEPT !.child = "gone", !.code = c]
                    \/ t = [old EXCEPT !.stray = "none"]
    BY <1>5 DEF BuildEnds, ContextKills
  <2>2. Stays(old, t)
    <3>1. CASE t = [old EXCEPT !.stray = "none"]
      BY <1>1, <3>1 DEF RunType, Stays
    <3>2. CASE \E c : t = [old EXCEPT !.child = "gone", !.code = c]
      BY <1>1, <3>2 DEF RunType, Stays
    <3> QED BY <2>1, <3>1, <3>2
  <2> QED BY <1>2, <2>1, <2>2
<1>6. CASE BuildOverwrites(r) \/ Signal(r) \/ Crash(r)
  <2>1. PICK t : /\ Becomes(r, t)
                 /\ \/ t = [old EXCEPT !.report = "forged"]
                    \/ t = [old EXCEPT !.signalled = TRUE]
                    \/ t = [old EXCEPT !.pc = "crashed"]
    BY <1>6 DEF BuildOverwrites, Signal, Crash, GoesTo
  <2>2. Stays(old, t)
    BY <1>1, <2>1 DEF RunType, Stays
  <2> QED BY <1>2, <2>1, <2>2
<1> QED BY <1>3, <1>4, <1>5, <1>6 DEF BuildMoves

LEMMA RestoreDefers ==
  ASSUME OutcomeInv, RestoreInv, NEW r \in Runs, Defers(r)
  PROVE  RestoreInv'
<1> DEFINE old == run[r]
           p == Popped(r)
<1>1. old \in RunType /\ old.todo \in Seq(Cleanups) /\ old.id \in Ids /\ SudoInv(old)
  BY OutcomeFacts DEF RunType
<1>2. HostType'
  <2>1. OutcomeInv'
    BY DeferSteps
  <2> QED BY <2>1 DEF OutcomeInv, TypeOK, HostType
<1>3. CASE Exit(r)
  <2>1. old.pc = "cleanup" /\ tables' = tables /\ dirs' = dirs /\ dropIn' = dropIn
    BY <1>3 DEF Exit, At
  <2>2. Stays(old, [old EXCEPT !.pc = "exited"])
    BY <1>1, <2>1 DEF RunType, Stays
  <2> QED BY <1>3, <2>1, <2>2, StaysOnward, RestoreOnward DEF Exit, GoesTo
<1> SUFFICES ASSUME old.pc = "cleanup", old.todo # <<>>,
                    TeardownKills(r) \/ TeardownDeletes(r) \/ CloseCgroup(r)
                    \/ RemoveResolvConf(r) \/ RestoreSudo(r)
             PROVE  RestoreInv'
  BY <1>3 DEF Defers, TeardownKills, TeardownDeletes, CloseCgroup, RemoveResolvConf, RestoreSudo,
              Cleanup, At
<1>4. /\ Tail(old.todo) \in Seq(Cleanups)
      /\ Pending(old.todo) = {Head(old.todo)} \union Pending(Tail(old.todo))
  BY <1>1, Popping
<1>5. /\ p.id = old.id /\ p.sudoOff = old.sudoOff /\ p.cg = old.cg /\ p.cut = old.cut
      /\ p.residue = old.residue /\ p.upDone = old.upDone /\ p.pc = "cleanup"
      /\ p.todo = Tail(old.todo)
  BY <1>1 DEF Popped, RunType
<1>6. p \in RunType
  <2> DEFINE rest == Tail(old.todo)
  <2>1. p = [old EXCEPT !.todo = rest]
    BY <1>1 DEF Popped, RunType
  <2>2. rest \in Seq(Cleanups)
    BY <1>4
  <2> HIDE DEF rest
  <2> QED BY <1>1, <2>1, <2>2, WithTodo
<1> HIDE DEF p
<1>7. ASSUME NEW t \in RunType, t.id = old.id, t.sudoOff = old.sudoOff, t.cg = old.cg, t.cut = old.cut,
             t.pc = "cleanup", t.todo = Tail(old.todo), old.residue => t.residue,
             ~ t.residue => /\ r \in tables'[old.id] => r \in tables[old.id]
                            /\ r \in tables'[old.id] /\ old.upDone => t.upDone
                            /\ << old.cg, old.id >> \in dirs' =>
                                 << old.cg, old.id >> \in dirs /\ Head(old.todo) # "close"
                            /\ dropIn' # "absent" => dropIn # "absent" /\ Head(old.todo) # "restore"
      PROVE  Restored(r, old, tables, dirs, dropIn) => Restored(r, t, tables', dirs', dropIn')
  BY <1>4, <1>7 DEF Restored
<1>8. CASE TeardownKills(r)
  <2>1. tables' = tables /\ dirs' = dirs /\ dropIn' = dropIn /\ Head(old.todo) = "kill"
    BY <1>8 DEF TeardownKills, Cleanup
  <2>2. OwnPart(r) /\ (Restored(r, old, tables, dirs, dropIn) => Restored(r, p, tables', dirs', dropIn'))
    BY <1>5, <1>6, <1>7, <2>1 DEF OwnPart
  <2>3. Kills(r, p) \/ Becomes(r, p)
    BY <1>8 DEF TeardownKills, p
  <2> QED BY <1>2, <1>5, <1>6, <2>2, <2>3, RestoreOfKill, RestoreOnOne
<1>9. CASE CloseCgroup(r)
  <2>1. /\ tables' = tables /\ dropIn' = dropIn /\ Head(old.todo) = "close"
        /\ dirs' \subseteq dirs
        /\ \/ Kills(r, p) /\ dirs' = dirs \ {<< old.cg, old.id >>}
           \/ Kills(r, [p EXCEPT !.residue = TRUE])
    BY <1>9 DEF CloseCgroup, Cleanup, p
  <2>2. OwnPart(r)
    BY <2>1 DEF OwnPart
  <2>3. CASE Kills(r, p) /\ dirs' = dirs \ {<< old.cg, old.id >>}
    <3>1. Restored(r, old, tables, dirs, dropIn) => Restored(r, p, tables', dirs', dropIn')
      BY <1>5, <1>6, <1>7, <2>1, <2>3
    <3> QED BY <1>2, <1>5, <1>6, <2>2, <2>3, <3>1, RestoreOfKill
  <2>4. CASE Kills(r, [p EXCEPT !.residue = TRUE])
    <3> DEFINE t == [p EXCEPT !.residue = TRUE]
    <3>1. t \in RunType
      BY <1>6 DEF RunType
    <3>2. t.residue /\ t.id = p.id /\ t.sudoOff = p.sudoOff
      BY <1>6 DEF RunType
    <3>3. Kills(r, t)
      BY <2>4
    <3> HIDE DEF t
    <3>4. Restored(r, t, tables', dirs', dropIn')
      BY <3>2 DEF Restored
    <3> QED BY <1>2, <1>5, <2>2, <3>1, <3>2, <3>3, <3>4, RestoreOfKill
  <2> QED BY <2>1, <2>3, <2>4
<1>10. CASE TeardownDeletes(r)
  <2>1. /\ dirs' = dirs /\ dropIn' = dropIn /\ Head(old.todo) = "delete"
        /\ tables \in [Ids -> SUBSET Runs]
    BY <1>10 DEF TeardownDeletes, Cleanup, OutcomeInv, TypeOK
  <2>2. CASE tables' = [tables EXCEPT ![old.id] = {}] /\ Becomes(r, [p EXCEPT !.upDone = FALSE])
    <3> DEFINE t == [p EXCEPT !.upDone = FALSE]
    <3>1. t \in RunType
      BY <1>6 DEF RunType
    <3>2. /\ t.residue = p.residue /\ t.id = p.id /\ t.sudoOff = p.sudoOff /\ t.cg = p.cg
          /\ t.cut = p.cut /\ t.pc = p.pc /\ t.todo = p.todo
      BY <1>6 DEF RunType
    <3>3. Becomes(r, t)
      BY <2>2
    <3> HIDE DEF t
    <3>4. r \notin tables'[old.id] /\ OwnPart(r)
      BY <1>1, <2>1, <2>2 DEF OwnPart
    <3>5. Restored(r, old, tables, dirs, dropIn) => Restored(r, t, tables', dirs', dropIn')
      BY <1>5, <1>7, <2>1, <3>1, <3>2, <3>4
    <3> QED BY <1>2, <1>5, <3>2, <3>3, <3>4, <3>5, RestoreOnOne
  <2>3. CASE tables' = tables /\ Becomes(r, [p EXCEPT !.upDone = FALSE, !.residue = TRUE])
    <3> DEFINE t == [p EXCEPT !.upDone = FALSE, !.residue = TRUE]
    <3>1. t.residue /\ t.id = p.id /\ t.sudoOff = p.sudoOff
      BY <1>6 DEF RunType
    <3>2. Becomes(r, t)
      BY <2>3
    <3> HIDE DEF t
    <3>3. Restored(r, t, tables', dirs', dropIn') /\ OwnPart(r)
      BY <2>1, <2>3, <3>1 DEF Restored, OwnPart
    <3> QED BY <1>2, <1>5, <3>1, <3>2, <3>3, RestoreOnOne
  <2>4. CASE tables' = tables /\ Becomes(r, p)
    <3>1. OwnPart(r) /\ (Restored(r, old, tables, dirs, dropIn) => Restored(r, p, tables', dirs', dropIn'))
      BY <1>5, <1>6, <1>7, <2>1, <2>4 DEF OwnPart
    <3> QED BY <1>2, <1>5, <2>4, <3>1, RestoreOnOne
  <2> QED BY <1>10, <2>2, <2>3, <2>4 DEF TeardownDeletes, p
<1>11. CASE RemoveResolvConf(r)
  <2> DEFINE t == [p EXCEPT !.resolv = FALSE]
  <2>1. t \in RunType
    BY <1>6 DEF RunType
  <2>2. /\ t.residue = p.residue /\ t.id = p.id /\ t.sudoOff = p.sudoOff /\ t.cg = p.cg
        /\ t.cut = p.cut /\ t.pc = p.pc /\ t.todo = p.todo /\ t.upDone = p.upDone
    BY <1>6 DEF RunType
  <2>3. /\ Becomes(r, t) /\ tables' = tables /\ dirs' = dirs /\ dropIn' = dropIn
        /\ Head(old.todo) = "unresolv"
    BY <1>11 DEF RemoveResolvConf, Cleanup, p
  <2> HIDE DEF t
  <2>4. OwnPart(r) /\ (Restored(r, old, tables, dirs, dropIn) => Restored(r, t, tables', dirs', dropIn'))
    BY <1>5, <1>7, <2>1, <2>2, <2>3 DEF OwnPart
  <2> QED BY <1>2, <1>5, <2>2, <2>3, <2>4, RestoreOnOne
<1>12. CASE RestoreSudo(r)
  <2>1. /\ Becomes(r, p) /\ tables' = tables /\ dirs' = dirs /\ dropIn' = "absent"
        /\ Head(old.todo) = "restore"
    BY <1>12 DEF RestoreSudo, Cleanup, p
  <2>2. OwnPart(r) /\ (Restored(r, old, tables, dirs, dropIn) => Restored(r, p, tables', dirs', dropIn'))
    BY <1>5, <1>6, <1>7, <2>1 DEF OwnPart
  <2> QED BY <1>2, <1>5, <2>1, <2>2, RestoreOnOne
<1> QED BY <1>8, <1>9, <1>10, <1>11, <1>12

(* However far executeRun got, and whatever failed or was signalled on the way,
   a run that returns has taken its table, its cgroup, its resolv.conf and its
   drop-in away and left no process in the cgroup, unless nft or rmdir failed
   at the end, a write failed half-way or nft was killed after its commit.  The
   runs beside it have ids of their own and leave sudo alone. *)
THEOREM HostRestoredHolds == Spec => [](Apart => HostRestored)
<1>1. OutcomeInv /\ RestoreInv => (Apart => HostRestored)
  <2> SUFFICES ASSUME OutcomeInv, RestoreInv, Apart,
                      NEW r \in Runs, At(r, "exited"), ~ run[r].residue, ~ run[r].cut
               PROVE  /\ r \notin tables[run[r].id]
                      /\ << run[r].cg, run[r].id >> \notin dirs
                      /\ ~ run[r].resolv
                      /\ run[r].place = "cgroup" => ~ BuildCode(r)
                      /\ dropIn = "absent"
    BY DEF HostRestored
  <2>1. Restored(r, run[r], tables, dirs, dropIn) /\ run[r].pc = "exited"
    BY DEF RestoreInv, At
  <2>2. run[r].todo = <<>> /\ ~ run[r].upDone /\ ~ run[r].resolv
    <3>1. run[r].todo = <<>> /\ Pending(<<>>) = {}
      BY <2>1, OutcomeFacts DEF CleanupInv, Pending
    <3> QED BY <3>1, OutcomeFacts DEF CleanupInv
  <2>3. Pending(run[r].todo) = {}
    BY <2>2 DEF Pending
  <2>4. run[r].place = "cgroup" => ~ BuildCode(r)
    BY <2>1, OutcomeFacts DEF ChildInv, Live, BuildCode
  <2> QED BY <2>1, <2>2, <2>3, <2>4 DEF Restored
<1>2. Init => RestoreInv
  <2> SUFFICES ASSUME Init, NEW r \in Runs PROVE Restored(r, run[r], tables, dirs, dropIn)
    BY DEF RestoreInv
  <2>1. OutcomeInv
    BY OutcomeBegins
  <2>2. run[r] \in RunType
    BY <2>1, OutcomeFacts
  <2>3. run[r].id \in Ids
    BY <2>2 DEF RunType
  <2> QED BY <2>3 DEF Init, Restored
<1>3. OutcomeInv /\ RestoreInv /\ [Next]_vars => RestoreInv'
  <2> SUFFICES ASSUME OutcomeInv, RestoreInv, [Next]_vars PROVE RestoreInv'
    OBVIOUS
  <2>1. ASSUME NEW r \in Runs, EgretStep(r) PROVE RestoreInv'
    BY <2>1, RestorePrepares, RestoreCommands, RestoreDefers DEF EgretStep
  <2>2. ASSUME NEW r \in Runs, BuildStep(r) \/ ContextKills(r) \/ Signal(r) \/ Crash(r)
        PROVE  RestoreInv'
    BY <2>2, RestoreBuilds, RestoreLeft DEF BuildStep, BuildMoves
  <2>3. CASE UNCHANGED vars
    BY <2>3 DEF vars, RestoreInv, Apart, Restored
  <2> QED BY <2>1, <2>2, <2>3 DEF Next, Finished
<1> QED BY <1>1, <1>2, <1>3, OutcomeBegins, OutcomeStep, PTL DEF Spec
=============================================================================
