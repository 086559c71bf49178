----------------------------- MODULE ReportWrite -----------------------------
(***************************************************************************)
(* report.Write, which runs as root on paths the monitored build may own:  *)
(* openDirNoFollow walks a path one component and one system call at a     *)
(* time, writeFileAt fills a temporary file and renames it, appending to   *)
(* the job summary is best effort.  Meanwhile the build, or a process it   *)
(* left, changes what non-root users can change; Egret may die between any *)
(* two calls.                                                              *)
(*                                                                         *)
(* What checkSummaryFile looks at (link count, owner) is not modelled: the *)
(* summary is written or refused once its directory is open.               *)
(***************************************************************************)
EXTENDS Sequences, FiniteSets, Naturals

CONSTANTS
  Directories, Slash,  \* directories that exist or can be made; "/"
  RootOnly,            \* owned by root, not writable by group or others
  Sticky,              \* others' entries cannot be changed in these
  ByBuild, ByEgret,    \* directories the build and Egret can make
  Names,               \* path components
  Layout,              \* Layout[d][n]: the entries before the build
  Via,                 \* root's links <<d, n>> whose target goes on through an
                       \* entry that others may change: Via[<<d, n>>]
  Plantable, Targets,  \* entries <<d, n>> the build changes, where its links lead
  SummaryDir,          \* directory of $GITHUB_STEP_SUMMARY, a path
  Nowhere              \* no directory

NoEntry == [kind |-> "none", to |-> Nowhere]
RegularFile == [kind |-> "file", to |-> Nowhere]
Dir(d) == [kind |-> "dir", to |-> d]
Link(d) == [kind |-> "link", to |-> d]

Entries == {NoEntry, RegularFile} \cup {Dir(d) : d \in Directories} \cup {Link(d) : d \in Directories}

(* Root's own directories are not below anyone else's, and what will be made
   is not there yet. *)
ASSUME WriteAssumption ==
  /\ Nowhere \notin Directories
  /\ Slash \in RootOnly
  /\ RootOnly \cup Sticky \cup ByBuild \cup ByEgret \cup Targets \subseteq Directories
  /\ ByBuild \cap RootOnly = {} /\ ByEgret \cap (RootOnly \cup ByBuild) = {}
  /\ Layout \in [Directories -> [Names -> Entries]]
  /\ \A d \in Directories \ RootOnly, n \in Names :
       Layout[d][n].kind = "dir" => Layout[d][n].to \notin RootOnly
  /\ \A d \in ByEgret, n \in Names : Layout[d][n] = NoEntry
  /\ \A l \in DOMAIN Via :
       l \in RootOnly \X Names /\ Layout[l[1]][l[2]].kind = "link" /\ Via[l] \in Directories \X Names
  /\ Plantable \subseteq (Directories \ ByEgret) \X Names
  /\ SummaryDir \in Seq(Names)

Files == {"report.json", "report.md", "report.sarif"}
Formats == {"report.md", "summary", "report.sarif"}

(* The order in which Write emits; report.json whatever the policy lists. *)
Only(output, formats) == IF output \in formats THEN <<output>> ELSE <<>>
Outputs(formats) ==
  <<"report.json">> \o Only("report.md", formats) \o Only("summary", formats)
    \o Only("report.sarif", formats)

VARIABLES
  entry,    \* what is at a name in a directory
  made,     \* directories Egret made: root's too
  file,     \* what is at the report's names in a directory
  tmp,      \* the temporary file: "none", "half", "whole", "planted"
  wpc,      \* the next system call of report.Write
  handle,   \* the directory open in the walk
  rest,     \* components left to open
  out,      \* the report directory, once open
  todo,     \* what is left of Outputs
  asked,    \* the path, the formats, and whether the build was dead at the start
  alive     \* a process of the build is there

fsVars == <<entry, made, file>>
walkVars == <<handle, rest, out>>
reportVars == <<entry, made, file, tmp, wpc, handle, rest, out, todo, asked, alive>>

Owned == RootOnly \cup made
Writing == {"write", "fill", "rename"}

InitReport ==
  /\ entry = Layout
  /\ made = {}
  /\ file = [d \in Directories |-> [f \in Files |-> "none"]]
  /\ tmp = "none"
  /\ wpc = "idle"
  /\ handle = Slash /\ rest = <<>> /\ out = Nowhere
  /\ todo = <<>> /\ asked = [path |-> <<>>, formats |-> {}, quiet |-> FALSE]
  /\ alive = FALSE

-----------------------------------------------------------------------------
(* The build of block mode, which is no root user. *)

MayPlant(d, n) ==
  /\ alive
  /\ d \notin Owned
  /\ d \in Sticky => entry[d][n].to \notin Owned

Planted == {NoEntry, RegularFile} \cup {Dir(d) : d \in ByBuild} \cup {Link(d) : d \in Targets}

Plant(d, n, e) ==
  /\ MayPlant(d, n)
  /\ entry' = [entry EXCEPT ![d][n] = e]
  /\ UNCHANGED <<made, file, tmp, wpc, walkVars, todo, asked, alive>>

(* A file, or a directory, where the report is going to be. *)
PlantFile(d, what) ==
  /\ alive /\ d \notin Owned \cup Sticky
  /\ file' = [file EXCEPT ![d]["report.json"] = what]
  /\ UNCHANGED <<entry, made, tmp, wpc, walkVars, todo, asked, alive>>

(* The temporary file is removed or replaced. *)
PlantTemp(what) ==
  /\ alive /\ tmp # "none" /\ out \notin Owned \cup Sticky
  /\ tmp' = what
  /\ UNCHANGED <<fsVars, wpc, walkVars, todo, asked, alive>>

BuildEnds ==
  /\ alive /\ alive' = FALSE
  /\ UNCHANGED <<fsVars, tmp, wpc, walkVars, todo, asked>>

Ended == {"ok", "error", "dead"}

(* What a process that is left does after Write returned is not followed. *)
BuildStep ==
  /\ wpc \notin Ended
  /\ \/ \E p \in Plantable, e \in Planted : Plant(p[1], p[2], e)
     \/ \E d \in ByBuild, what \in {"none", "planted", "directory"} : PlantFile(d, what)
     \/ \E what \in {"none", "planted"} : PlantTemp(what)
     \/ BuildEnds

-----------------------------------------------------------------------------
(* openDirNoFollow. *)

(* executeRun starts the build, which may already be dead when Write begins. *)
Launch(path, formats) ==
  /\ wpc = "idle"
  /\ wpc' = "build" /\ alive' = TRUE
  /\ asked' = [path |-> path, formats |-> formats, quiet |-> FALSE]
  /\ UNCHANGED <<fsVars, tmp, walkVars, todo>>

BeginWrite ==
  /\ wpc = "build"
  /\ wpc' = "open"
  /\ handle' = Slash /\ rest' = asked.path
  /\ todo' = Outputs(asked.formats)
  /\ asked' = [asked EXCEPT !.quiet = ~ alive]
  /\ UNCHANGED <<fsVars, tmp, out, alive>>

Create == out = Nowhere      \* only the report's own directory is created
Here == entry[handle][Head(rest)]

(* An error of the walk fails Write, or only the summary. *)
WalkFails ==
  /\ IF Create THEN wpc' = "error" /\ UNCHANGED todo
               ELSE wpc' = "write" /\ todo' = Tail(todo)
  /\ UNCHANGED <<fsVars, tmp, walkVars, asked, alive>>

Enter(d) ==
  /\ handle' = d /\ rest' = Tail(rest) /\ wpc' = "open"
  /\ UNCHANGED <<fsVars, tmp, out, todo, asked, alive>>

GoOn(next) == wpc' = next /\ UNCHANGED <<fsVars, tmp, walkVars, todo, asked, alive>>

(* openat with O_NOFOLLOW; once more after mkdirat, when a missing entry is an error. *)
OpenComponent ==
  /\ wpc \in {"open", "reopen"} /\ rest # <<>>
  /\ \/ Here.kind = "dir" /\ Enter(Here.to)
     \/ Here.kind = "none" /\ wpc = "open" /\ Create /\ GoOn("mkdir")
     \/ Here.kind = "none" /\ (wpc = "reopen" \/ ~ Create) /\ WalkFails
     \/ Here.kind \in {"link", "file"} /\ GoOn("check")

(* mkdirat; that the name exists by now is no error. *)
Mkdirat(d) ==
  /\ wpc = "mkdir"
  /\ IF Here.kind # "none" THEN GoOn("reopen")
     ELSE /\ d \notin made
          /\ made' = made \cup {d}
          /\ entry' = [entry EXCEPT ![handle][Head(rest)] = Dir(d)]
          /\ wpc' = "reopen"
          /\ UNCHANGED <<file, tmp, walkVars, todo, asked, alive>>

(* Mutant: rootOnlyDir is not asked. *)
MayFollowAny(d, e) == e.kind = "link"

(* fstatat and rootOnlyDir: the link was planted by root, and stays. *)
MayFollow(d, e) == e.kind = "link" /\ d \in Owned

CheckLink ==
  /\ wpc = "check"
  /\ IF MayFollow(handle, Here) THEN GoOn("follow") ELSE WalkFails

(* Where the kernel gets to with the whole target of a link. *)
Opens(d, n) ==
  IF << d, n >> \in DOMAIN Via THEN LET v == Via[<< d, n >>] IN entry[v[1]][v[2]].to
                               ELSE entry[d][n].to

(* openat without O_NOFOLLOW, on whatever is there now. *)
Follow ==
  /\ wpc = "follow"
  /\ LET d == Opens(handle, Head(rest))
     IN  IF d \in Directories THEN Enter(d) ELSE WalkFails

SystemCallFails == wpc \in {"open", "reopen", "mkdir", "check", "follow"} /\ WalkFails

Opened ==
  /\ wpc = "open" /\ rest = <<>>
  /\ IF Create THEN out' = handle /\ wpc' = "write" ELSE wpc' = "append" /\ UNCHANGED out
  /\ UNCHANGED <<fsVars, tmp, handle, rest, todo, asked, alive>>

-----------------------------------------------------------------------------
(* writeFileAt, and what comes between two files. *)

(* Mutant: the report is written where it will be read. *)
CreateInPlace ==
  /\ wpc = "write" /\ todo # <<>> /\ Head(todo) # "summary"
  /\ tmp' = "half" /\ file' = [file EXCEPT ![out][Head(todo)] = "half"]
  /\ wpc' = "fill"
  /\ UNCHANGED <<entry, made, walkVars, todo, asked, alive>>

CreateTemp ==
  /\ wpc = "write" /\ todo # <<>> /\ Head(todo) # "summary"
  /\ tmp' = "half"
  /\ wpc' = "fill"
  /\ UNCHANGED <<fsVars, walkVars, todo, asked, alive>>

(* Write, chmod, fsync, close: of the file that was opened. *)
Fill ==
  /\ wpc = "fill"
  /\ tmp' = IF tmp = "half" THEN "whole" ELSE tmp
  /\ wpc' = "rename"
  /\ UNCHANGED <<fsVars, walkVars, todo, asked, alive>>

Rename ==
  /\ wpc = "rename" /\ tmp # "none" /\ file[out][Head(todo)] # "directory"
  /\ file' = [file EXCEPT ![out][Head(todo)] = tmp]
  /\ tmp' = "none"
  /\ todo' = Tail(todo) /\ wpc' = "write"
  /\ UNCHANGED <<entry, made, walkVars, asked, alive>>

(* Any of these calls fails; the deferred unlink removes the temporary file. *)
WriteFails ==
  /\ wpc \in Writing /\ todo # <<>> /\ Head(todo) # "summary"
  /\ wpc' = "error" /\ tmp' = "none"
  /\ UNCHANGED <<fsVars, walkVars, todo, asked, alive>>

OpenSummary ==
  /\ wpc = "write" /\ todo # <<>> /\ Head(todo) = "summary"
  /\ wpc' = "open"
  /\ handle' = Slash /\ rest' = SummaryDir
  /\ UNCHANGED <<fsVars, tmp, out, todo, asked, alive>>

(* Appended, or refused with a warning. *)
AppendSummary ==
  /\ wpc = "append"
  /\ todo' = Tail(todo) /\ wpc' = "write"
  /\ UNCHANGED <<fsVars, tmp, walkVars, asked, alive>>

AllWritten == wpc = "write" /\ todo = <<>>
Returns == AllWritten /\ GoOn("ok")

(* SIGKILL or power loss. *)
Dies == wpc \notin {"idle"} \cup Ended /\ GoOn("dead")

WriterStep ==
  \/ BeginWrite \/ OpenComponent \/ (\E d \in ByEgret : Mkdirat(d)) \/ CheckLink \/ Follow
  \/ SystemCallFails \/ Opened \/ CreateTemp \/ Fill \/ Rename \/ WriteFails
  \/ OpenSummary \/ AppendSummary \/ Returns \/ Dies

-----------------------------------------------------------------------------
(* Where a path leads, component by component, by the entries of some
   directories: in the layout, as far as it is root's, and as things are now. *)
Along(path, entries, dirs) ==
  LET at[i \in 0..Len(path)] ==
        IF i = 0 THEN Slash
        ELSE IF at[i - 1] \in dirs THEN entries[at[i - 1]][path[i]].to ELSE Nowhere
  IN  at

InLayout(path) == {Along(path, Layout, RootOnly)[i] : i \in 0..Len(path)}

Now == [d \in Directories |-> [n \in Names |-> [entry[d][n] EXCEPT !.to = Opens(d, n)]]]

LeadsTo(path) == Along(path, Now, Directories)[Len(path)]

(* No link of root's on the path goes through what others may change. *)
Direct(path) ==
  \A i \in 1..Len(path) : << Along(path, Layout, RootOnly)[i - 1], path[i] >> \notin DOMAIN Via

Foreign(d, path) == d \in RootOnly \ InLayout(path)

(* safewrite_unix.go: "If root followed a symlink that the build planted, the
   build could steer root's writes onto any file on the host."  Whatever is
   swapped between two system calls, what is opened for writing is no directory
   of root's but those that root's own layout has on the path; unless, the
   "known limitation" there, root itself has put a link on the path whose target
   goes through a directory that others can write. *)
NeverSteered ==
  /\ wpc \in Writing /\ Direct(asked.path) => ~ Foreign(out, asked.path)
  /\ wpc = "append" /\ Direct(SummaryDir) => ~ Foreign(handle, SummaryDir)

(* writeFileAt: "a reader never sees a half-written report", whenever Egret
   dies; and "the caller must not report success" unless every file it was
   asked for is there in full, in the directory that the path leads to: always
   if the build was dead when Write began, and in root's directories anyway. *)
ReportWhole ==
  /\ \A d \in Directories, f \in Files : file[d][f] # "half"
  /\ AllWritten /\ (asked.quiet \/ out \in Owned) =>
       \A f \in {"report.json"} \cup (Files \cap asked.formats) : file[out][f] = "whole"
  /\ AllWritten /\ asked.quiet => out = LeadsTo(asked.path)
=============================================================================
