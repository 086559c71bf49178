------------------------------ MODULE FileRules ------------------------------
(***************************************************************************)
(* What the monitor makes of file and exec events: EvalFile compares the   *)
(* path as the probe saw it with the protected paths, both brought to      *)
(* canonical forms on the disk as it is when the event is drained, some    *)
(* time after the build wrote; EvalProcess compares names.                 *)
(*                                                                         *)
(* A path is [abs, comps]; the real path of a file, without links and      *)
(* dots, is the sequence of its components, a place.  Directories stay     *)
(* where they are; the build makes and removes files and links.            *)
(***************************************************************************)
EXTENDS Integers, FiniteSets, SequencesExt

CONSTANTS
  Names,        \* names of files, ".." is none
  Dirs,         \* places of the directories, <<>> among them
  Cwd,          \* working directory of Egret
  Cwds,         \* those of the build's processes
  Links,        \* places where the build can make a link
  Targets,      \* places these can lead to
  Nowhere,      \* no place
  Opened,       \* paths the build opens for writing
  Executed,     \* paths it executes
  Protected,    \* file.protected-paths
  Tilde,        \* Tilde[n], n a name that begins with "~": $HOME of Egret, which
                \* need not be that of the build, with the rest of n glued to it
  Disallowed,   \* process.disallowed
  CommOf,       \* CommOf[n]: the first 15 bytes of the name n
  InitFiles,    \* files there are before the build
  MaxPending    \* bound on the events between kernel and monitor

Places == Seq(Names)
Paths == [abs : BOOLEAN, comps : Seq(Names \cup {".."})]

ASSUME RulesAssumption ==
  /\ ".." \notin Names /\ Nowhere \notin Places
  /\ Dirs \cup Links \cup Targets \cup InitFiles \subseteq Places
  /\ <<>> \in Dirs /\ {Cwd} \cup Cwds \subseteq Dirs
  /\ \A d \in Dirs \cup Links \cup Targets : d # <<>> => Front(d) \in Dirs
  /\ Links \cap (Dirs \cup Targets \cup InitFiles) = {} /\ InitFiles \cap Dirs = {}
  /\ DOMAIN Tilde \subseteq Names /\ \A n \in DOMAIN Tilde : Tilde[n] \in Places
  /\ Opened \cup Executed \cup Protected \subseteq Paths
  /\ MaxPending \in Nat

VARIABLES
  link,      \* where the link at a place leads; Nowhere if there is none
  files,     \* places of regular files
  pending    \* events not drained yet

vars == <<link, files, pending>>

Init ==
  /\ link = [l \in Links |-> Nowhere]
  /\ files = InitFiles
  /\ pending = {}

-----------------------------------------------------------------------------
(* The kernel's walk.  The last component need not exist. *)

LeadsOn(to, place) == place \in Links /\ to[place] # Nowhere
IsLink(place) == LeadsOn(link, place)

Step(to, place, name) ==
  IF place \notin Dirs THEN Nowhere
  ELSE IF name = ".." THEN IF place = <<>> THEN place ELSE Front(place)
  ELSE IF LeadsOn(to, Append(place, name)) THEN to[Append(place, name)] ELSE Append(place, name)

(* Where the first n components lead, for each n; the links are those of to. *)
Trail(to, from, comps) ==
  LET at[n \in 0..Len(comps)] == IF n = 0 THEN from ELSE Step(to, at[n - 1], comps[n])
  IN  at

Walk(from, comps) == Trail(link, from, comps)[Len(comps)]

Start(path, cwd) == IF path.abs THEN <<>> ELSE cwd

(* A link is among the first n components. *)
ThroughLink(from, comps, n) ==
  \E i \in 1..n : LET at == Trail(link, from, comps)[i - 1]
                  IN  at \in Dirs /\ IsLink(Append(at, comps[i]))

Emit(kind, path, place) ==
  /\ Cardinality(pending) < MaxPending
  /\ pending' = pending \cup {[kind |-> kind, path |-> path, place |-> place, calm |-> TRUE]}

(* do_sys_openat2 with write intent: the probe fires whether or not the open
   succeeds, and without O_CREAT it needs the file. *)
OpenWrite(path, cwd, creates) ==
  LET place == Walk(Start(path, cwd), path.comps)
      opens == place # Nowhere /\ place \notin Dirs /\ (creates \/ place \in files)
  IN  /\ Emit("file", path, IF opens THEN place ELSE Nowhere)
      /\ files' = IF opens THEN files \cup {place} ELSE files
      /\ UNCHANGED link

(* sched_process_exec. *)
Exec(path, cwd) ==
  LET place == Walk(Start(path, cwd), path.comps)
  IN  /\ place \in files
      /\ Emit("exec", path, place)
      /\ UNCHANGED <<link, files>>

(* The links are no longer what the pending events were about. *)
Relink(l, target) ==
  /\ l \notin files /\ link[l] # target
  /\ link' = [link EXCEPT ![l] = target]
  /\ pending' = {[e EXCEPT !.calm = FALSE] : e \in pending}
  /\ UNCHANGED files

Unlink(place) ==
  /\ place \in files
  /\ files' = files \ {place}
  /\ UNCHANGED <<link, pending>>

-----------------------------------------------------------------------------
(* filepath.Clean: ".." takes the name before it, whatever that is on disk. *)
Put(abs, out, c) ==
  IF c # ".." THEN Append(out, c)
  ELSE IF out # <<>> /\ Last(out) # ".." THEN Front(out)
  ELSE IF abs THEN out ELSE Append(out, c)

Cleaned(abs, comps) ==
  LET out[n \in 0..Len(comps)] == IF n = 0 THEN <<>> ELSE Put(abs, out[n - 1], comps[n])
  IN  out

Clean(path) == [path EXCEPT !.comps = Cleaned(path.abs, path.comps)[Len(path.comps)]]

At(path) == Walk(Start(path, Cwd), path.comps)
Exists(path) == At(path) \in Dirs \cup files

(* filepath.EvalSymlinks of something that exists; a relative path stays
   relative unless a link takes it elsewhere. *)
EvalSymlinks(path) ==
  IF path.abs \/ ThroughLink(Start(path, Cwd), path.comps, Len(path.comps))
  THEN [abs |-> TRUE, comps |-> At(path)]
  ELSE path

(* filepath.Split; the parent of "/x" is "", which EvalSymlinks takes for ".". *)
Parent(path) == [abs |-> path.abs /\ Len(path.comps) > 1, comps |-> Front(path.comps)]

Join(dir, name) == [abs |-> dir.abs, comps |-> Append(dir.comps, name)]

(* Mutant: what does not exist yet is compared as it reads. *)
ResolvedNoParent(path) == IF Exists(path) THEN {EvalSymlinks(path)} ELSE {}

Resolved(path) ==
  IF Exists(path) THEN {EvalSymlinks(path)}
  ELSE IF (path.abs \/ Len(path.comps) > 1) /\ Exists(Parent(path))
  THEN {Join(EvalSymlinks(Parent(path)), Last(path.comps))}
  ELSE {}

(* canonicalForms; "/" has none. *)
CanonicalForms(path) ==
  IF path.comps = <<>> THEN {}
  ELSE LET clean == Clean(path)
       IN  {f \in {clean} \cup Resolved(clean) : f.abs => f.comps # <<>>}

(* Mutant: the comparison is the wrong way round as well. *)
UnderEither(f, p) == f.abs = p.abs /\ (IsPrefix(p.comps, f.comps) \/ IsPrefix(f.comps, p.comps))

(* cand == pat or below pat + "/"; nothing is below ".". *)
Under(f, p) == f.abs = p.abs /\ IsPrefix(p.comps, f.comps) /\ (p.comps = <<>> => f.comps = <<>>)

(* The prefix "~" is cut off wherever the first name goes on. *)
ExpandHome(p) ==
  IF ~ p.abs /\ p.comps # <<>> /\ p.comps[1] \in DOMAIN Tilde
  THEN [abs |-> TRUE, comps |-> Tilde[p.comps[1]] \o Tail(p.comps)]
  ELSE p

PathMatches(pattern, path) ==
  \E f \in CanonicalForms(path), p \in CanonicalForms(ExpandHome(pattern)) : Under(f, p)

EvalFile(path) == \E pattern \in Protected : PathMatches(pattern, path)

(* Mutant: a pattern is compared with the path only. *)
ProcMatchesPath(pattern, path) ==
  \/ pattern.kind = "under" /\ path.abs /\ IsStrictPrefix(pattern.comps, path.comps)
  \/ pattern.kind = "is" /\ path = [abs |-> TRUE, comps |-> pattern.comps]

(* procMatches: a name without "/" and "*" against comm, which the kernel
   takes from the path executed; "dir/*" as a prefix of that path as it reads,
   everything else literally. *)
ProcMatches(pattern, path) ==
  \/ pattern.kind = "name" /\ CommOf[Last(path.comps)] = Last(pattern.comps)
  \/ pattern.kind = "under" /\ path.abs /\ IsStrictPrefix(pattern.comps, path.comps)
  \/ pattern.kind = "is" /\ path = [abs |-> TRUE, comps |-> pattern.comps]

EvalProcess(path) == \E pattern \in Disallowed : ProcMatches(pattern, path)

Flagged(e) == IF e.kind = "file" THEN EvalFile(e.path) ELSE EvalProcess(e.path)

(* drainFiles, drainProcs. *)
Drain(e) ==
  /\ e \in pending
  /\ pending' = pending \ {e}
  /\ UNCHANGED <<link, files>>

Next ==
  \/ \E path \in Opened, cwd \in Cwds, creates \in BOOLEAN : OpenWrite(path, cwd, creates)
  \/ \E path \in Executed, cwd \in Cwds : Exec(path, cwd)
  \/ \E l \in Links, target \in Targets \cup {Nowhere} : Relink(l, target)
  \/ \E place \in files : Unlink(place)
  \/ \E e \in pending : Drain(e)

Spec == Init /\ [][Next]_vars

-----------------------------------------------------------------------------
(* The protected paths, as they read. *)
Named == {Clean(ExpandHome(p)) : p \in Protected}

Reads(path) == \E p \in Named : p.abs = path.abs /\ p.comps # <<>> /\ IsPrefix(p.comps, path.comps)

(* The last component is a link to something that is not there. *)
Dangles(path) ==
  /\ path.comps # <<>> /\ ~ Exists(path)
  /\ IsLink(Append(Walk(Start(path, Cwd), Front(path.comps)), Last(path.comps)))

(* A relative path is where it leads only if a link leads there. *)
Anchored(path) == path.abs \/ ThroughLink(Start(path, Cwd), path.comps, Len(path.comps))

(* A place below the one where the kernel finds a protected path, or would make
   it; "/" protects nothing. *)
Guarded(place) ==
  \E p \in Named : /\ Anchored(p) /\ ~ Dangles(p)
                   /\ At(p) \notin {Nowhere, <<>>} /\ IsPrefix(At(p), place)

(* No ".." comes after a link, which Clean would not undo as the kernel does. *)
DotsAreLexical(path) ==
  \A i \in DOMAIN path.comps :
    path.comps[i] = ".." => ~ ThroughLink(Start(path, Cwd), path.comps, i - 1)

(* A successful write by an absolute path, none of whose links has changed, and
   which was not itself a link to what is gone since. *)
Faithful(e) ==
  /\ e.kind = "file" /\ e.place # Nowhere
  /\ e.calm /\ e.path.abs /\ DotsAreLexical(e.path) /\ ~ Dangles(e.path)

(* pathMatches: "an attacker can't slip past a prefix match with '..', redundant
   separators, or a symlink", as far as it is true: a write that reads as one
   below a protected path is flagged whatever has become of the disk.  One by
   any other absolute path, through whatever links, is flagged if it went below
   the protected path's real place, also when the file is gone since, unless a
   link has changed, ".." follows a link, or the path itself was a link to it. *)
ProtectedWriteFlagged ==
  \A e \in pending : e.kind = "file" =>
    /\ Reads(e.path) /\ (\A i \in DOMAIN e.path.comps : e.path.comps[i] # "..") => Flagged(e)
    /\ Faithful(e) /\ Guarded(e.place) => Flagged(e)

(* A file of "/" that is gone is also compared by its bare name. *)
GoneFromRoot(e) == e.place \notin files /\ Len(Clean(e.path).comps) = 1

(* The other direction: under the same conditions a write that is flagged went
   below a protected path, or reads so, by its text or by its real place. *)
FlaggedWriteIsProtected ==
  \A e \in pending : Faithful(e) /\ Flagged(e) =>
    \/ Guarded(e.place) \/ Reads(Clean(e.path)) \/ Guarded(Clean(e.path).comps)
    \/ GoneFromRoot(e)

(* A disallowed name is found by whatever path it is executed, if it fits comm,
   and what lies in a disallowed directory by its own path. *)
DisallowedExecFlagged ==
  \A e \in pending : e.kind = "exec" =>
    \A p \in Disallowed :
      \/ p.kind = "name" /\ CommOf[Last(p.comps)] = Last(p.comps) /\ Last(e.path.comps) = Last(p.comps)
      \/ /\ p.kind = "under" /\ p.comps \in Dirs
         /\ e.path = [abs |-> TRUE, comps |-> e.place] /\ IsPrefix(p.comps, e.place)
      => Flagged(e)
=============================================================================
