--------------------------- MODULE ActionRunProofs ---------------------------
(***************************************************************************)
(* The action's job and the report that egret writes in it as root: which   *)
(* binary runs, where it writes, and what the verdict of the job rests on,  *)
(* for any directories, any paths and any build.                            *)
(***************************************************************************)
EXTENDS ActionRun, WellFoundedInduction, TLAPS

(* A set of numbers that has 0 and with each number the next one has all. *)
LEMMA AllNumbers ==
  ASSUME NEW T \in SUBSET Nat, 0 \in T, \A n \in T : n + 1 \in T
  PROVE  T = Nat
<1> SUFFICES ASSUME Nat \ T # {} PROVE FALSE
  OBVIOUS
<1>1. \E n \in Nat \ T : \A m \in Nat \ T : ~ (<<m, n>> \in OpToRel(<, Nat))
  BY NatLessThanWellFounded, WFMin
<1>2. PICK n \in Nat \ T : \A m \in Nat \ T : ~ (<<m, n>> \in OpToRel(<, Nat))
  BY <1>1
<1>3. \A m \in Nat \ T : ~ (m < n)
  BY <1>2 DEF OpToRel
<1>4. n - 1 \in Nat /\ n - 1 < n /\ (n - 1) + 1 = n
  OBVIOUS
<1>5. n - 1 \in T
  BY <1>3, <1>4
<1> QED BY <1>2, <1>4, <1>5

(* One turn of Along. *)
From(at, path, entries, dirs, i) ==
  IF i = 0 THEN Slash
  ELSE IF at[i - 1] \in dirs THEN entries[at[i - 1]][path[i]].to ELSE Nowhere

LEMMA AlongIs ==
  ASSUME NEW path, Len(path) \in Nat, NEW entries, NEW dirs
  PROVE  LET at == Along(path, entries, dirs)
         IN  at = [i \in 0..Len(path) |-> From(at, path, entries, dirs, i)]
<1> DEFINE Solves(at, n) == at = [i \in 0..n |-> From(at, path, entries, dirs, i)]
           T == {n \in Nat : \E at : Solves(at, n)}
<1>1. 0 \in T
  <2>1. Solves([i \in 0..0 |-> Slash], 0)
    BY DEF From
  <2> QED BY <2>1
<1>2. ASSUME NEW n \in T PROVE n + 1 \in T
  <2>1. PICK at : Solves(at, n)
    OBVIOUS
  <2> DEFINE new == From(at, path, entries, dirs, n + 1)
             longer == [i \in 0..(n + 1) |-> IF i = n + 1 THEN new ELSE at[i]]
  <2>2. longer = [i \in 0..(n + 1) |-> From(longer, path, entries, dirs, i)]
    <3>1. ASSUME NEW i \in 0..(n + 1) PROVE longer[i] = From(longer, path, entries, dirs, i)
      <4>1. CASE i = 0
        <5>1. 0 \in 0..(n + 1) /\ 0 \in 0..n /\ 0 # n + 1
          OBVIOUS
        <5>2. longer[0] = at[0]
          BY <5>1
        <5>3. at[0] = Slash
          BY <2>1, <5>1 DEF From
        <5> QED BY <4>1, <5>2, <5>3 DEF From
      <4>2. CASE i # 0
        <5>1. i - 1 \in 0..n /\ longer[i - 1] = at[i - 1]
          BY <4>2
        <5>2. i # n + 1 => i \in 0..n
          OBVIOUS
        <5> QED BY <2>1, <4>2, <5>1, <5>2 DEF From
      <4> QED BY <4>1, <4>2
    <3> QED BY <3>1
  <2>3. Solves(longer, n + 1)
    BY <2>2
  <2> QED BY <2>3
<1> HIDE DEF T
<1>3. T = Nat
  <2>1. T \in SUBSET Nat
    BY DEF T
  <2> QED BY <1>1, <1>2, <2>1, AllNumbers
<1>4. \E at : Solves(at, Len(path))
  BY <1>3 DEF T
<1>5. Along(path, entries, dirs) = CHOOSE at : Solves(at, Len(path))
  BY DEF Along, From
<1>6. Solves(Along(path, entries, dirs), Len(path))
  BY <1>4, <1>5
<1> QED BY <1>6


-----------------------------------------------------------------------------
(* The binary: what each step of the install leaves true of it. *)
Fetching == {"tag", "fetch", "fallback", "sums", "signature"}
Running == {"egret", "report", "count", "publish"}
Prepared == Running \cup {"compare"}
Installed == Prepared \cup {"installed", "direct", "candidate"}
Steps == Fetching \cup {"digest", "record"} \cup Installed \cup {"exited"}

VerifiedInv ==
  /\ step \in Steps
  /\ step \in Fetching => ~ signed
  /\ signed => sums = "release"
  /\ step \in {"sums", "signature", "digest", "record"} => bin # "none"
  /\ step \in Installed => sha # "none"
  /\ step \in Installed \cup {"record"} => vetted = sums \/ (vetted = "source" /\ ~ signed)
  /\ step \in Running => copy = sha

-----------------------------------------------------------------------------
(* The types of what report.Write works on. *)
Walking == {"open", "reopen", "mkdir", "check", "follow"}
OfEgret == ByEgret \cup {Safe}

FilesType ==
  /\ entry \in [Directories -> [Names -> Entries]]
  /\ made \in SUBSET OfEgret
  /\ file \in [Directories -> [Files -> {"none", "half", "whole", "planted", "directory"}]]
  /\ tmp \in {"none", "half", "whole", "planted"}

CallsType ==
  /\ wpc \in Walking \cup Writing \cup Ended \cup {"idle", "build", "append"}
  /\ handle \in Directories /\ rest \in Seq(Names)
  /\ out \in Directories \cup {Nowhere}
  /\ todo \in Seq(Files \cup {"summary"})
  /\ asked \in [path : Seq(Names), formats : SUBSET Formats, quiet : BOOLEAN]
  /\ alive \in BOOLEAN

(* Which calls of Write follow which, and at which step of the job. *)
StageInv ==
  /\ wpc \in {"idle", "build"} => out = Nowhere /\ ~ asked.quiet
  /\ wpc = "idle" => ~ alive
  /\ wpc = "mkdir" => out = Nowhere
  /\ wpc \in Writing \cup {"append"} => out # Nowhere
  /\ asked.quiet => ~ alive
  /\ step \notin Running \cup {"direct", "exited"} => wpc = "idle"
  /\ wpc \notin {"idle"} \cup Ended => step \in {"egret", "direct"}
  /\ wpc \in Walking \ {"open"} => rest # << >>
  /\ wpc \in {"fill", "rename"} => todo # << >> /\ Head(todo) \in Files
  /\ wpc = "append" \/ (wpc \in Walking /\ out # Nowhere) => todo # << >> /\ Head(todo) = "summary"

-----------------------------------------------------------------------------
(* The entries: no directory outside root's own has one of those in it, what
   root had in them is still there, and below what Egret makes there is only
   what Egret makes. *)
EntryInv ==
  /\ \A d \in Directories \ RootOnly, n \in Names :
       entry[d][n].kind = "dir" => entry[d][n].to \notin RootOnly
  /\ \A d \in RootOnly, n \in Names :
       \/ entry[d][n] = Layout[d][n]
       \/ Layout[d][n] = NoEntry /\ entry[d][n].kind = "dir" /\ entry[d][n].to \notin RootOnly
  /\ \A d \in OfEgret, n \in Names :
       entry[d][n] = NoEntry \/ (entry[d][n].kind = "dir" /\ entry[d][n].to \in made)

(* The walk: how far it is, and that the directory it has open, if it is one of
   root's and the path a direct one, is the one that root's own layout has there. *)
Goal == IF out = Nowhere THEN asked.path ELSE SummaryDir
Gone == Len(Goal) - Len(rest)

WalkInv ==
  /\ wpc \in Walking => /\ Len(rest) <= Len(Goal)
                        /\ \A i \in 1..Len(rest) : rest[i] = Goal[Gone + i]
                        /\ Direct(Goal) /\ handle \in RootOnly =>
                             handle = Along(Goal, Layout, RootOnly)[Gone]
  /\ wpc = "follow" => handle \in Owned
  /\ Direct(asked.path) /\ out \in RootOnly => out \in InLayout(asked.path)
  /\ wpc = "append" /\ Direct(SummaryDir) /\ handle \in RootOnly => handle \in InLayout(SummaryDir)

-----------------------------------------------------------------------------
(* The first k components of a path lead to d. *)
Leads(entries, path, k, d) ==
  \E at \in [0..k -> Directories] :
    /\ at[0] = Slash /\ at[k] = d
    /\ \A i \in 1..k : entries[at[i - 1]][path[i]].to = at[i]

(* With the build dead, the walk is on the path as things are now. *)
QuietInv ==
  asked.quiet /\ wpc \notin Ended =>
    /\ wpc \in Walking /\ out = Nowhere => Leads(Now, asked.path, Gone, handle)
    /\ out # Nowhere => Leads(Now, asked.path, Len(asked.path), out)

Holds(s, f) == \E i \in 1..Len(s) : s[i] = f
Wanted == {"report.json"} \cup (Files \cap asked.formats)
Undisturbed == asked.quiet \/ out \in Owned

WriteInv ==
  /\ \A d \in Directories, f \in Files : file[d][f] # "half"
  /\ wpc = "rename" => tmp # "half"
  /\ wpc \in Walking /\ out = Nowhere => \A f \in Wanted : Holds(todo, f)
  /\ out # Nowhere /\ wpc \notin Ended /\ Undisturbed =>
       /\ \A f \in Wanted : file[out][f] = "whole" \/ Holds(todo, f)
       /\ wpc = "fill" => tmp = "half"
       /\ wpc = "rename" => tmp = "whole"

-----------------------------------------------------------------------------
(* The report that the job reads is the one that Egret wrote in this job. *)
SafeInv ==
  /\ step \in Prepared => entry[Temp][SafeName] = Dir(Safe) /\ Safe \in made
  /\ \A d \in OfEgret, f \in Files : d # out => file[d][f] = "none"

Reported == {"report", "count", "publish"}

OutcomeInv ==
  /\ found \in Nat
  /\ step # "exited" => status = -1
  /\ step \notin Reported \cup {"exited"} => rc = -1
  /\ rc = 0 /\ step \in Reported => wpc = "ok"
  /\ step \in {"count", "publish"} => HasReport
  /\ counted # -1 \/ step = "publish" =>
       /\ step \in {"publish", "exited"}
       /\ counted = found /\ out # Nowhere /\ wpc \in Ended
       /\ file[out]["report.json"] = "whole"

-----------------------------------------------------------------------------
(* The install step and the copy: a step at a time. *)
LEMMA VerifiedInit == Init => VerifiedInv
BY DEF Init, VerifiedInv, Fetching, Running, Prepared, Installed, Steps

LEMMA VerifiedExit ==
  ASSUME VerifiedInv, NEW code, Exit(code)
  PROVE  VerifiedInv'
BY DEF VerifiedInv, Fetching, Running, Prepared, Installed, Steps, Exit, installVars

(* The steps that fetch, verify and publish the binary. *)
InstallStep ==
  \/ ResolveTag \/ VerifySignature \/ VerifyChecksum \/ PublishDigest
  \/ \E b \in {"release", "other"} : Fetch(b)
  \/ \E b \in {"none", "release", "other"} : FetchSums(b)
  \/ \E choice \in BOOLEAN : SkipSignature(choice) \/ BuildFromSource(choice)

LEMMA VerifiedInstall ==
  ASSUME VerifiedInv, InstallStep
  PROVE  VerifiedInv'
<1> USE DEF VerifiedInv, Fetching, Running, Prepared, Installed, Steps, Proceed, installVars, runVars
<1>1. CASE \E code : Exit(code)
  BY <1>1, VerifiedExit
<1>2. CASE ~ \E code : Exit(code)
  <2>1. CASE ResolveTag
    BY <1>2, <2>1 DEF ResolveTag, ExitEarly
  <2>2. CASE VerifySignature
    BY <1>2, <2>2 DEF VerifySignature, ExitEarly
  <2>3. CASE VerifyChecksum \/ PublishDigest
    BY <1>2, <2>3 DEF VerifyChecksum, PublishDigest, ExitEarly
  <2>4. ASSUME NEW b \in {"release", "other"}, Fetch(b) PROVE VerifiedInv'
    BY <2>4 DEF Fetch
  <2>5. ASSUME NEW b \in {"none", "release", "other"}, FetchSums(b) PROVE VerifiedInv'
    BY <1>2, <2>5 DEF FetchSums, ExitEarly
  <2>6. ASSUME NEW choice \in BOOLEAN, SkipSignature(choice) PROVE VerifiedInv'
    BY <1>2, <2>6 DEF SkipSignature, ExitEarly
  <2>7. ASSUME NEW choice \in BOOLEAN, BuildFromSource(choice) PROVE VerifiedInv'
    BY <1>2, <2>7 DEF BuildFromSource, ExitEarly
  <2> QED BY <2>1, <2>2, <2>3, <2>4, <2>5, <2>6, <2>7 DEF InstallStep
<1> QED BY <1>1, <1>2

LEMMA VerifiedRun ==
  ASSUME VerifiedInv, [Next]_vars, ~ InstallStep
  PROVE  VerifiedInv'
<1> USE DEF VerifiedInv, Fetching, Running, Prepared, Installed, Steps, Proceed, installVars, runVars
<1>1. CASE \E code : Exit(code)
  BY <1>1, VerifiedExit
<1>2. CASE ~ \E code : Exit(code)
  <2>1. ASSUME NEW b \in {"release", "other"}, SwapBinary(b) PROVE VerifiedInv'
    BY <2>1 DEF SwapBinary
  <2>2. ASSUME NEW choice, Publish(choice) PROVE VerifiedInv'
    BY <1>2, <2>2 DEF Publish
  <2>3. CASE BeginRun
    BY <1>2, <2>3 DEF BeginRun, ExitEarly
  <2>4. CASE TryCandidate
    BY <2>4 DEF TryCandidate
  <2>5. CASE CandidateFails
    BY <1>2, <2>5 DEF CandidateFails, ExitEarly
  <2>6. CASE CompareDigest
    BY <1>2, <2>6 DEF CompareDigest, ExitEarly, Checked
  <2>7. ASSUME NEW path, NEW formats, CallDirectly(path, formats) PROVE VerifiedInv'
    BY <2>7 DEF CallDirectly
  <2>8. ASSUME NEW formats, RunEgret(formats) PROVE VerifiedInv'
    BY <2>8 DEF RunEgret
  <2>9. ASSUME NEW n, EgretReturns(n) PROVE VerifiedInv'
    BY <2>9 DEF EgretReturns
  <2>10. CASE TakeReport
    BY <1>2, <2>10 DEF TakeReport, ExitEarly
  <2>11. CASE CountViolations
    BY <1>2, <2>11 DEF CountViolations, ExitEarly
  <2>12. CASE UNCHANGED <<step, installVars, runVars, status>>
    BY <2>12
  <2>13. CASE Done \/ DirectDone \/ UNCHANGED vars
    BY <2>13 DEF Done, DirectDone, vars
  <2> QED BY <2>1, <2>2, <2>3, <2>4, <2>5, <2>6, <2>7, <2>8, <2>9, <2>10, <2>11, <2>12, <2>13
          DEF Next, InstallStep
<1> QED BY <1>1, <1>2

LEMMA VerifiedStep == VerifiedInv /\ [Next]_vars => VerifiedInv'
BY VerifiedInstall, VerifiedRun

LEMMA AlwaysVerified == Spec => []VerifiedInv
BY VerifiedInit, VerifiedStep, PTL DEF Spec

(* entrypoint.sh, cmd_install and cmd_run: the command runs under the binary
   that the install step recorded, whatever is in INSTALL_DIR by then; and if it
   recorded the one it had verified, that is the signed release if it verified a
   signature, else what the published sums list or what it built itself. *)
THEOREM EgretIsVerifiedHolds == Spec => []EgretIsVerified
<1>1. VerifiedInv => EgretIsVerified
  BY DEF VerifiedInv, EgretIsVerified, Running, Prepared, Installed, Fetching, Steps
<1> QED BY <1>1, AlwaysVerified, PTL


-----------------------------------------------------------------------------
(* Entries, and what changes when one does. *)
LEMMA EntryIs ==
  ASSUME NEW e \in Entries
  PROVE  /\ e.kind \in {"none", "file", "dir", "link"}
         /\ e.kind = "none" => e = NoEntry
         /\ e.kind \in {"dir", "link"} => e.to \in Directories
         /\ e.kind \in {"none", "file"} => e.to = Nowhere
BY DEF Entries, NoEntry, RegularFile, Dir, Link

LEMMA ADir ==
  ASSUME NEW d
  PROVE  Dir(d).kind = "dir" /\ Dir(d).to = d /\ (d \in Directories => Dir(d) \in Entries)
BY DEF Dir, Entries

LEMMA NotThere == NoEntry \in Entries /\ NoEntry.kind = "none" /\ NoEntry.to = Nowhere
BY DEF NoEntry, Entries

LEMMA PutEntry ==
  ASSUME FilesType, NEW d \in Directories, NEW n \in Names, NEW e \in Entries,
         entry' = [entry EXCEPT ![d][n] = e]
  PROVE  /\ entry' \in [Directories -> [Names -> Entries]]
         /\ entry'[d][n] = e
         /\ \A d2 \in Directories, n2 \in Names :
              d2 # d \/ n2 # n => entry'[d2][n2] = entry[d2][n2]
BY DEF FilesType

LEMMA PutFile ==
  ASSUME FilesType, NEW d \in Directories, NEW f \in Files,
         NEW what \in {"none", "half", "whole", "planted", "directory"},
         file' = [file EXCEPT ![d][f] = what]
  PROVE  /\ file' \in [Directories -> [Files -> {"none", "half", "whole", "planted", "directory"}]]
         /\ file'[d][f] = what
         /\ \A d2 \in Directories, f2 \in Files :
              d2 # d \/ f2 # f => file'[d2][f2] = file[d2][f2]
BY DEF FilesType

(* The component that the walk is at. *)
LEMMA HereIs ==
  ASSUME FilesType, CallsType, rest # << >>
  PROVE  /\ Head(rest) \in Names /\ Tail(rest) \in Seq(Names)
         /\ Head(rest) = rest[1]
         /\ Len(Tail(rest)) = Len(rest) - 1
         /\ \A i \in 1..Len(Tail(rest)) : Tail(rest)[i] = rest[i + 1]
         /\ Here \in Entries
BY DEF FilesType, CallsType, Here

(* Only a link of root's may lead elsewhere than its own entry says. *)
LEMMA OpensIs ==
  ASSUME FilesType, NEW d \in Directories, NEW n \in Names
  PROVE  /\ Opens(d, n) \in Directories \cup {Nowhere}
         /\ << d, n >> \notin DOMAIN Via => Opens(d, n) = entry[d][n].to
         /\ << d, n >> \in DOMAIN Via => d \in RootOnly /\ Layout[d][n].kind = "link"
         /\ Now[d][n].to = Opens(d, n)
<1>1. ASSUME NEW d2 \in Directories, NEW n2 \in Names PROVE entry[d2][n2].to \in Directories \cup {Nowhere}
  BY EntryIs DEF FilesType
<1>2. ASSUME << d, n >> \in DOMAIN Via
      PROVE  /\ Via[<< d, n >>][1] \in Directories /\ Via[<< d, n >>][2] \in Names
             /\ << d, n >>[1] = d /\ << d, n >>[2] = n
             /\ d \in RootOnly /\ Layout[d][n].kind = "link"
  <2> DEFINE l == << d, n >>
  <2>1. l[1] = d /\ l[2] = n
    OBVIOUS
  <2>2. l \in RootOnly \X Names /\ Layout[l[1]][l[2]].kind = "link" /\ Via[l] \in Directories \X Names
    BY <1>2, WriteAssumption
  <2>3. Via[l][1] \in Directories /\ Via[l][2] \in Names /\ d \in RootOnly
    BY <2>1, <2>2
  <2> QED BY <2>1, <2>2, <2>3
<1>3. Opens(d, n) \in Directories \cup {Nowhere}
  <2>1. CASE << d, n >> \in DOMAIN Via
    <3>1. Opens(d, n) = entry[Via[<< d, n >>][1]][Via[<< d, n >>][2]].to
      BY <2>1 DEF Opens
    <3> QED BY <1>1, <1>2, <2>1, <3>1
  <2>2. CASE << d, n >> \notin DOMAIN Via
    BY <1>1, <2>2 DEF Opens
  <2> QED BY <2>1, <2>2
<1>4. [entry[d][n] EXCEPT !.to = Opens(d, n)].to = Opens(d, n)
  BY DEF FilesType, Entries, NoEntry, RegularFile, Dir, Link
<1>5. Now[d][n].to = Opens(d, n)
  BY <1>4 DEF Now
<1> QED BY <1>2, <1>3, <1>5 DEF Opens

LEMMA HereOpens ==
  ASSUME FilesType, CallsType, EntryInv, rest # << >>
  PROVE  /\ handle \notin RootOnly \/ Here.kind = "dir" => Opens(handle, Head(rest)) = Here.to
         /\ Opens(handle, Head(rest)) \in Directories \cup {Nowhere}
<1>1. handle \in Directories /\ Head(rest) \in Names
  BY HereIs DEF CallsType
<1>2. << handle, Head(rest) >> \in DOMAIN Via => handle \in RootOnly /\ Here.kind # "dir"
  <2> SUFFICES ASSUME << handle, Head(rest) >> \in DOMAIN Via PROVE handle \in RootOnly /\ Here.kind # "dir"
    OBVIOUS
  <2>1. handle \in RootOnly /\ Layout[handle][Head(rest)].kind = "link"
    BY <1>1, OpensIs
  <2>2. entry[handle][Head(rest)] = Layout[handle][Head(rest)]
    BY <1>1, <2>1, NotThere DEF EntryInv
  <2> QED BY <2>1, <2>2 DEF Here
<1> QED BY <1>1, <1>2, OpensIs DEF Here

LEMMA PlantIs ==
  ASSUME FilesType, NEW p \in Plantable, NEW e \in Planted, Plant(p[1], p[2], e)
  PROVE  /\ p[1] \in Directories \ (Owned \cup OfEgret) /\ p[2] \in Names /\ e \in Entries
         /\ e.kind = "dir" => e.to \in ByBuild
         /\ p[1] \in Sticky => entry[p[1]][p[2]].to \notin Owned
         /\ entry' = [entry EXCEPT ![p[1]][p[2]] = e]
         /\ alive
<1>1. p[1] \in Directories \ ByEgret /\ p[2] \in Names /\ p = << p[1], p[2] >>
  BY WriteAssumption
<1>2. p[1] # Safe
  BY <1>1, JobAssumption
<1>3. e \in Entries /\ (e.kind = "dir" => e.to \in ByBuild)
  BY WriteAssumption DEF Planted, Entries, NoEntry, RegularFile, Dir, Link
<1> QED BY <1>1, <1>2, <1>3 DEF Plant, MayPlant, OfEgret

-----------------------------------------------------------------------------
(* What a step of the job is to Write. *)
Leaves ==
  /\ UNCHANGED reportVars
  /\ step' \in Prepared => step \in Prepared
  /\ step' = step \/ wpc = "idle" \/ (wpc \in Ended /\ step' \in Running)

Leaving == \E code : Exit(code) /\ wpc \in {"idle"} \cup Ended

Launching ==
  /\ step' \in {"egret", "direct"} /\ (step' \in Prepared => step \in Prepared)
  /\ \E path \in Seq(Names), formats \in SUBSET Formats : Launch(path, formats)

LEMMA KindsOfStep ==
  ASSUME StageInv, VerifiedInv, [Next]_vars
  PROVE  \/ Leaves \/ Leaving \/ TryCandidate \/ Launching
         \/ (WriterStep /\ UNCHANGED <<step, runVars, status>>)
         \/ (BuildStep /\ UNCHANGED <<step, runVars, status>>)
<1> DEFINE Kind == \/ Leaves \/ Leaving \/ TryCandidate \/ Launching
                   \/ (WriterStep /\ UNCHANGED <<step, runVars, status>>)
                   \/ (BuildStep /\ UNCHANGED <<step, runVars, status>>)
<1>0. /\ step \notin Running \cup {"direct", "exited"} => wpc = "idle"
      /\ wpc \notin {"idle"} \cup Ended => step \in {"egret", "direct"}
  BY DEF StageInv
<1> USE DEF Leaves, Leaving, Proceed, Running, Prepared
<1>1. CASE InstallStep
  BY <1>0, <1>1 DEF InstallStep, ResolveTag, VerifySignature, VerifyChecksum, PublishDigest, Fetch, FetchSums,
                    SkipSignature, BuildFromSource, ExitEarly
<1>2. ASSUME NEW b, SwapBinary(b) PROVE Kind
  BY <1>2 DEF SwapBinary
<1>3. ASSUME NEW choice, Publish(choice) PROVE Kind
  BY <1>0, <1>3 DEF Publish
<1>4. CASE BeginRun \/ CandidateFails \/ CompareDigest
  BY <1>0, <1>4 DEF BeginRun, CandidateFails, CompareDigest, ExitEarly
<1>5. ASSUME NEW path \in UserPaths, NEW formats \in Requests, CallDirectly(path, formats) PROVE Kind
  <2>1. path \in Seq(Names) /\ formats \in SUBSET Formats
    BY JobAssumption
  <2> QED BY <1>5, <2>1 DEF CallDirectly, Launching
<1>6. ASSUME NEW formats \in Requests, RunEgret(formats) PROVE Kind
  <2>1. ReportPath \in Seq(Names) /\ formats \in SUBSET Formats
    BY JobAssumption
  <2> QED BY <1>6, <2>1 DEF RunEgret, Launching
<1>7. ASSUME NEW n, EgretReturns(n) PROVE Kind
  BY <1>7 DEF EgretReturns
<1>8. CASE TakeReport \/ CountViolations
  BY <1>0, <1>8 DEF TakeReport, CountViolations, ExitEarly
<1>9. CASE (WriterStep \/ BuildStep) /\ UNCHANGED <<step, installVars, runVars, status>>
  BY <1>9
<1>10. CASE Done \/ DirectDone \/ UNCHANGED vars
  BY <1>10 DEF Done, DirectDone, vars
<1> QED BY <1>1, <1>2, <1>3, <1>4, <1>5, <1>6, <1>7, <1>8, <1>9, <1>10 DEF Next, InstallStep


(* What a step of Write does to the files. *)
Makes(d) == wpc = "mkdir" /\ Here.kind = "none" /\ Mkdirat(d)

LEMMA KindsOfCall ==
  ASSUME WriterStep
  PROVE  UNCHANGED fsVars \/ (\E d \in ByEgret : Makes(d)) \/ Rename
<1>1. CASE BeginWrite \/ CheckLink \/ Follow \/ SystemCallFails \/ Opened \/ OpenComponent
  BY <1>1 DEF BeginWrite, CheckLink, Follow, SystemCallFails, Opened, OpenComponent, GoOn, Enter, WalkFails
<1>2. CASE CreateTemp \/ Fill \/ WriteFails \/ OpenSummary \/ AppendSummary \/ Returns \/ Dies
  BY <1>2 DEF CreateTemp, Fill, WriteFails, OpenSummary, AppendSummary, Returns, Dies, GoOn
<1>3. ASSUME NEW d \in ByEgret, Mkdirat(d) PROVE UNCHANGED fsVars \/ Makes(d)
  <2>1. CASE Here.kind # "none"
    BY <1>3, <2>1 DEF Mkdirat, GoOn
  <2> QED BY <1>3, <2>1 DEF Mkdirat, Makes
<1> QED BY <1>1, <1>2, <1>3 DEF WriterStep

LEMMA MakesIs ==
  ASSUME FilesType, CallsType, StageInv, NEW d \in ByEgret, Makes(d)
  PROVE  /\ handle \in Directories /\ Head(rest) \in Names /\ rest # << >>
         /\ entry[handle][Head(rest)] = NoEntry
         /\ d \in Directories \ (RootOnly \cup ByBuild \cup made)
         /\ Dir(d) \in Entries
         /\ made' = made \cup {d}
         /\ entry' = [entry EXCEPT ![handle][Head(rest)] = Dir(d)]
         /\ wpc' = "reopen"
         /\ UNCHANGED <<file, tmp, walkVars, todo, asked, alive>>
<1>1. rest # << >>
  BY DEF StageInv, Makes, Walking
<1>2. d \in Directories \ (RootOnly \cup ByBuild)
  BY WriteAssumption
<1> QED BY <1>1, <1>2, HereIs, EntryIs, ADir DEF Makes, Mkdirat, Here, CallsType

LEMMA RenameIs ==
  ASSUME FilesType, CallsType, StageInv, Rename
  PROVE  /\ out \in Directories /\ todo # << >> /\ Head(todo) \in Files
         /\ tmp \in {"half", "whole", "planted"}
         /\ file' = [file EXCEPT ![out][Head(todo)] = tmp]
BY DEF Rename, StageInv, CallsType, FilesType, Writing

(* mktemp makes the safe directory. *)
LEMMA CandidateIs ==
  ASSUME FilesType, TryCandidate
  PROVE  /\ Temp \in Directories /\ SafeName \in Names /\ Dir(Safe) \in Entries
         /\ Safe \in Directories \ (RootOnly \cup ByBuild \cup ByEgret)
         /\ made' = made \cup {Safe}
         /\ entry' = [entry EXCEPT ![Temp][SafeName] = Dir(Safe)]
<1>1. Temp \in Directories
  BY JobAssumption, WriteAssumption
<1> QED BY <1>1, JobAssumption, ADir DEF TryCandidate

LEMMA FilesInit == Init => FilesType
BY WriteAssumption DEF Init, InitReport, FilesType

LEMMA FilesWriter ==
  ASSUME FilesType, CallsType, StageInv, WriterStep
  PROVE  FilesType'
<1>1. CASE UNCHANGED fsVars
  <2>1. tmp' \in {"none", "half", "whole", "planted"}
    <3> USE DEF FilesType, walkVars, fsVars
    <3>1. CASE BeginWrite \/ CheckLink \/ Follow \/ SystemCallFails \/ Opened \/ OpenComponent
      BY <3>1 DEF BeginWrite, CheckLink, Follow, SystemCallFails, Opened, OpenComponent, GoOn, Enter,
                  WalkFails
    <3>2. CASE CreateTemp \/ Fill \/ WriteFails \/ OpenSummary \/ AppendSummary \/ Returns \/ Dies
      BY <3>2 DEF CreateTemp, Fill, WriteFails, OpenSummary, AppendSummary, Returns, Dies, GoOn
    <3>3. CASE Rename
      BY <3>3 DEF Rename
    <3>4. ASSUME NEW d \in ByEgret, Mkdirat(d) PROVE tmp' = tmp
      BY <3>4 DEF Mkdirat, GoOn
    <3> QED BY <3>1, <3>2, <3>3, <3>4 DEF WriterStep
  <2> QED BY <1>1, <2>1 DEF FilesType, fsVars
<1>2. ASSUME NEW d \in ByEgret, Makes(d) PROVE FilesType'
  BY <1>2, MakesIs, PutEntry DEF FilesType, OfEgret
<1>3. CASE Rename
  <2>1. file' \in [Directories -> [Files -> {"none", "half", "whole", "planted", "directory"}]]
    BY <1>3, RenameIs, PutFile
  <2> QED BY <1>3, <2>1 DEF FilesType, Rename
<1> QED BY <1>1, <1>2, <1>3, KindsOfCall

LEMMA FilesBuild ==
  ASSUME FilesType, BuildStep
  PROVE  FilesType'
<1>1. ASSUME NEW p \in Plantable, NEW e \in Planted, Plant(p[1], p[2], e) PROVE FilesType'
  BY <1>1, PlantIs, PutEntry DEF FilesType, Plant
<1>2. ASSUME NEW d \in ByBuild, NEW what \in {"none", "planted", "directory"}, PlantFile(d, what)
      PROVE  FilesType'
  <2>1. d \in Directories /\ "report.json" \in Files
    BY WriteAssumption DEF Files
  <2>2. file' \in [Directories -> [Files -> {"none", "half", "whole", "planted", "directory"}]]
    BY <1>2, <2>1, PutFile DEF PlantFile
  <2> QED BY <1>2, <2>2 DEF FilesType, PlantFile
<1>3. ASSUME NEW what \in {"none", "planted"}, PlantTemp(what) PROVE FilesType'
  BY <1>3 DEF FilesType, PlantTemp, fsVars
<1>4. CASE BuildEnds
  BY <1>4 DEF FilesType, BuildEnds, fsVars
<1> QED BY <1>1, <1>2, <1>3, <1>4 DEF BuildStep

LEMMA FilesStep ==
  ASSUME FilesType, CallsType, StageInv, VerifiedInv, [Next]_vars
  PROVE  FilesType'
<1>1. CASE Leaves \/ Launching
  BY <1>1 DEF Leaves, Launching, Launch, FilesType, reportVars, fsVars
<1>2. CASE Leaving
  <2>1. Temp \in Directories /\ SafeName \in Names
    BY JobAssumption, WriteAssumption
  <2>2. entry' = [entry EXCEPT ![Temp][SafeName] = NoEntry] /\ UNCHANGED <<made, file, tmp>>
    BY <1>2 DEF Leaving, Exit
  <2> QED BY <2>1, <2>2, NotThere, PutEntry DEF FilesType
<1>3. CASE TryCandidate
  BY <1>3, CandidateIs, PutEntry DEF FilesType, OfEgret, TryCandidate
<1> QED BY <1>1, <1>2, <1>3, FilesWriter, FilesBuild, KindsOfStep


-----------------------------------------------------------------------------
(* Types and stages of the calls. *)
LEMMA JoinHolds ==
  ASSUME NEW S, NEW s \in Seq(S), NEW t \in Seq(S)
  PROVE  /\ s \o t \in Seq(S)
         /\ \A f : Holds(s, f) \/ Holds(t, f) => Holds(s \o t, f)
<1>1. Len(s) \in Nat /\ Len(t) \in Nat /\ Len(s \o t) = Len(s) + Len(t)
  OBVIOUS
<1>2. ASSUME NEW i \in 1..Len(s) PROVE i \in 1..Len(s \o t) /\ (s \o t)[i] = s[i]
  BY <1>1
<1>3. ASSUME NEW i \in 1..Len(t)
      PROVE  Len(s) + i \in 1..Len(s \o t) /\ (s \o t)[Len(s) + i] = t[i]
  BY <1>1
<1>4. s \o t \in Seq(S)
  OBVIOUS
<1> QED BY <1>2, <1>3, <1>4 DEF Holds

LEMMA OnlyHolds ==
  ASSUME NEW output \in Files \cup {"summary"}, NEW formats
  PROVE  /\ Only(output, formats) \in Seq(Files \cup {"summary"})
         /\ output \in formats => Holds(Only(output, formats), output)
<1>1. <<output>> \in Seq(Files \cup {"summary"}) /\ <<output>>[1] = output /\ 1 \in 1..Len(<<output>>)
  OBVIOUS
<1>2. Holds(<<output>>, output)
  BY <1>1 DEF Holds
<1>3. << >> \in Seq(Files \cup {"summary"})
  OBVIOUS
<1> QED BY <1>1, <1>2, <1>3 DEF Only

LEMMA OutputsAre ==
  ASSUME NEW formats
  PROVE  /\ Outputs(formats) \in Seq(Files \cup {"summary"})
         /\ \A f \in {"report.json"} \cup (Files \cap formats) : Holds(Outputs(formats), f)
<1> DEFINE json == <<"report.json">>
           md == Only("report.md", formats)
           sum == Only("summary", formats)
           sarif == Only("report.sarif", formats)
           All == Files \cup {"summary"}
<1>1. json \in Seq(All) /\ Holds(json, "report.json")
  BY DEF Files, Holds
<1>2. /\ md \in Seq(All) /\ sum \in Seq(All) /\ sarif \in Seq(All)
      /\ "report.md" \in formats => Holds(md, "report.md")
      /\ "report.sarif" \in formats => Holds(sarif, "report.sarif")
  <2>1. "report.md" \in All /\ "summary" \in All /\ "report.sarif" \in All
    BY DEF Files
  <2> QED BY <2>1, OnlyHolds
<1>3. Outputs(formats) = ((json \o md) \o sum) \o sarif
  BY DEF Outputs
<1> HIDE DEF json, md, sum, sarif, All
<1>4. json \o md \in Seq(All) /\ \A f : Holds(json, f) \/ Holds(md, f) => Holds(json \o md, f)
  BY <1>1, <1>2, JoinHolds
<1> DEFINE two == json \o md
<1> HIDE DEF two
<1>5. two \o sum \in Seq(All) /\ \A f : Holds(two, f) => Holds(two \o sum, f)
  BY <1>2, <1>4, JoinHolds DEF two
<1> DEFINE three == two \o sum
<1> HIDE DEF three
<1>6. three \o sarif \in Seq(All)
      /\ \A f : Holds(three, f) \/ Holds(sarif, f) => Holds(three \o sarif, f)
  BY <1>2, <1>5, JoinHolds DEF three
<1>7. Outputs(formats) = three \o sarif
  BY <1>3 DEF two, three
<1>8. \A f : Holds(json, f) \/ Holds(md, f) \/ Holds(sarif, f) => Holds(three \o sarif, f)
  BY <1>4, <1>5, <1>6 DEF two, three
<1>9. ASSUME NEW f \in {"report.json"} \cup (Files \cap formats) PROVE Holds(three \o sarif, f)
  <2>1. f \in {"report.json", "report.md", "report.sarif"} /\ (f # "report.json" => f \in formats)
    BY DEF Files
  <2> QED BY <1>1, <1>2, <1>8, <2>1
<1>10. Outputs(formats) \in Seq(All)
  BY <1>6, <1>7
<1>11. \A f \in {"report.json"} \cup (Files \cap formats) : Holds(Outputs(formats), f)
  BY <1>7, <1>9, Zenon
<1> QED BY <1>10, <1>11 DEF All

LEMMA CallsInit == Init => CallsType
<1> SUFFICES ASSUME Init PROVE CallsType
  OBVIOUS
<1>1. asked \in [path : Seq(Names), formats : SUBSET Formats, quiet : BOOLEAN]
  <2>1. << >> \in Seq(Names) /\ {} \in SUBSET Formats /\ FALSE \in BOOLEAN
    OBVIOUS
  <2> QED BY <2>1 DEF Init, InitReport
<1>2. handle \in Directories
  BY WriteAssumption DEF Init, InitReport
<1>3. rest \in Seq(Names) /\ todo \in Seq(Files \cup {"summary"})
  BY DEF Init, InitReport
<1>4. wpc = "idle" /\ out = Nowhere /\ alive = FALSE
  BY DEF Init, InitReport
<1> QED BY <1>1, <1>2, <1>3, <1>4 DEF CallsType

(* The files that are still to be written. *)
LEMMA TodoIs ==
  ASSUME CallsType, todo # << >>
  PROVE  /\ Head(todo) \in Files \cup {"summary"} /\ Tail(todo) \in Seq(Files \cup {"summary"})
         /\ \A i \in 1..Len(todo) :
              todo[i] # Head(todo) => i - 1 \in 1..Len(Tail(todo)) /\ Tail(todo)[i - 1] = todo[i]
<1>1. todo \in Seq(Files \cup {"summary"})
  BY DEF CallsType
<1> QED BY <1>1

LEMMA CallsWriter ==
  ASSUME FilesType, CallsType, StageInv, WriterStep
  PROVE  CallsType'
<1> USE DEF CallsType, Walking, Writing, Ended
<1>1. CASE BeginWrite
  BY <1>1, OutputsAre, WriteAssumption DEF BeginWrite
<1>2. CASE WalkFails /\ wpc \in Walking
  <2>1. ~ Create => todo # << >>
    BY <1>2 DEF StageInv, Create
  <2> QED BY <1>2, <2>1, TodoIs DEF WalkFails, walkVars
<1>3. ASSUME NEW next \in Walking \cup Writing \cup Ended \cup {"idle", "build", "append"}, GoOn(next)
      PROVE  CallsType'
  BY <1>3 DEF GoOn, walkVars
<1>4. ASSUME rest # << >>, Here.kind \in {"link", "dir"}, Enter(Here.to)
      PROVE  CallsType'
  <2>1. Here.to \in Directories
    BY <1>4, HereIs, EntryIs
  <2> QED BY <1>4, <2>1, HereIs DEF Enter
<1>5. CASE OpenComponent
  BY <1>2, <1>3, <1>4, <1>5 DEF OpenComponent
<1>6. ASSUME NEW d \in ByEgret, Mkdirat(d) PROVE CallsType'
  BY <1>3, <1>6 DEF Mkdirat, walkVars
<1>7. CASE CheckLink
  BY <1>2, <1>3, <1>7 DEF CheckLink
<1>8. CASE Follow
  <2>1. rest # << >>
    BY <1>8 DEF StageInv, Follow
  <2>2. ASSUME NEW d \in Directories, Enter(d) PROVE CallsType'
    BY <2>1, <2>2, HereIs DEF Enter
  <2> QED BY <1>2, <1>8, <2>2 DEF Follow
<1>9. CASE SystemCallFails
  BY <1>2, <1>9 DEF SystemCallFails
<1>10. CASE Opened
  BY <1>10 DEF Opened
<1>11. CASE CreateTemp \/ Fill \/ WriteFails
  BY <1>11 DEF CreateTemp, Fill, WriteFails, walkVars
<1>12. CASE Rename
  BY <1>12, RenameIs, TodoIs DEF Rename, walkVars
<1>13. CASE OpenSummary
  BY <1>13, WriteAssumption DEF OpenSummary
<1>14. CASE AppendSummary
  <2>1. todo # << >>
    BY <1>14 DEF StageInv, AppendSummary
  <2> QED BY <1>14, <2>1, TodoIs DEF AppendSummary, walkVars
<1>15. CASE Returns \/ Dies
  BY <1>3, <1>15 DEF Returns, Dies
<1> QED BY <1>1, <1>5, <1>6, <1>7, <1>8, <1>9, <1>10, <1>11, <1>12, <1>13, <1>14, <1>15 DEF WriterStep

LEMMA CallsStep ==
  ASSUME FilesType, CallsType, StageInv, VerifiedInv, [Next]_vars
  PROVE  CallsType'
<1>1. CASE Leaves \/ Leaving \/ TryCandidate
  BY <1>1 DEF Leaves, Leaving, Exit, TryCandidate, CallsType, reportVars, walkVars
<1>2. CASE Launching
  BY <1>2 DEF Launching, Launch, CallsType, walkVars
<1>3. CASE BuildStep
  BY <1>3 DEF BuildStep, Plant, PlantFile, PlantTemp, BuildEnds, CallsType, walkVars
<1> QED BY <1>1, <1>2, <1>3, CallsWriter, KindsOfStep

LEMMA StageInit == Init => StageInv
BY DEF Init, InitReport, StageInv, Running, Walking, Writing

LEMMA StageWriter ==
  ASSUME CallsType, StageInv, WriterStep, UNCHANGED step
  PROVE  StageInv'
<1> USE DEF StageInv, Walking, Writing, Ended, Running, walkVars
<1>0. out \in Directories \cup {Nowhere} /\ handle \in Directories /\ Nowhere \notin Directories
      /\ todo \in Seq(Files \cup {"summary"}) /\ asked = [path |-> asked.path, formats |-> asked.formats,
                                                           quiet |-> asked.quiet]
      /\ asked.quiet \in BOOLEAN /\ alive \in BOOLEAN
  BY WriteAssumption DEF CallsType
<1>1. CASE BeginWrite
  BY <1>0, <1>1 DEF BeginWrite
<1>2. CASE WalkFails /\ wpc \in Walking
  BY <1>0, <1>2 DEF WalkFails, Create
<1>3. CASE OpenComponent
  BY <1>0, <1>2, <1>3 DEF OpenComponent, Enter, GoOn, Create
<1>4. ASSUME NEW d, Mkdirat(d) PROVE StageInv'
  BY <1>0, <1>4 DEF Mkdirat, GoOn
<1>5. CASE CheckLink \/ Follow \/ SystemCallFails
  BY <1>0, <1>2, <1>5 DEF CheckLink, Follow, SystemCallFails, Enter, GoOn
<1>6. CASE Opened
  BY <1>0, <1>6 DEF Opened, Create
<1>7. CASE CreateTemp
  BY <1>0, <1>7, TodoIs DEF CreateTemp
<1>8. CASE Fill \/ Rename \/ WriteFails
  BY <1>0, <1>8 DEF Fill, Rename, WriteFails
<1>9. CASE OpenSummary \/ AppendSummary
  BY <1>0, <1>9 DEF OpenSummary, AppendSummary
<1>10. CASE Returns \/ Dies
  BY <1>0, <1>10 DEF Returns, AllWritten, Dies, GoOn
<1> QED BY <1>1, <1>3, <1>4, <1>5, <1>6, <1>7, <1>8, <1>9, <1>10 DEF WriterStep

LEMMA StageStep ==
  ASSUME CallsType, StageInv, VerifiedInv, [Next]_vars
  PROVE  StageInv'
<1> USE DEF StageInv, Walking, Writing, Ended, Running, walkVars
<1>1. CASE Leaves \/ Leaving
  BY <1>1 DEF Leaves, Leaving, Exit, reportVars
<1>2. CASE TryCandidate
  BY <1>2 DEF TryCandidate, Proceed
<1>3. CASE Launching
  BY <1>3 DEF Launching, Launch
<1>4. CASE BuildStep /\ UNCHANGED step
  <2>1. UNCHANGED <<wpc, walkVars, todo, asked>> /\ (alive' = alive \/ alive' = FALSE)
    BY <1>4 DEF BuildStep, Plant, PlantFile, PlantTemp, BuildEnds
  <2> QED BY <1>4, <2>1
<1> QED BY <1>1, <1>2, <1>3, <1>4, StageWriter, KindsOfStep


-----------------------------------------------------------------------------
(* The entries, a step at a time. *)
LEMMA EntryInit == Init => EntryInv
<1> SUFFICES ASSUME Init PROVE EntryInv
  OBVIOUS
<1>1. entry = Layout
  BY DEF Init, InitReport
<1>2. \A d \in OfEgret, n \in Names : Layout[d][n] = NoEntry
  BY WriteAssumption, JobAssumption DEF OfEgret
<1> QED BY <1>1, <1>2, WriteAssumption DEF EntryInv

LEMMA EntryPut ==
  ASSUME FilesType, EntryInv, made \subseteq made',
         NEW d \in Directories, NEW n \in Names, NEW e \in Entries,
         entry' = [entry EXCEPT ![d][n] = e],
         e.kind = "dir" => e.to \notin RootOnly,
         d \in RootOnly => Layout[d][n] = NoEntry /\ (e = NoEntry \/ e.kind = "dir"),
         d \in OfEgret => e = NoEntry \/ (e.kind = "dir" /\ e.to \in made')
  PROVE  EntryInv'
<1> USE PutEntry DEF EntryInv
<1>1. ASSUME NEW d2 \in Directories \ RootOnly, NEW n2 \in Names
      PROVE  entry'[d2][n2].kind = "dir" => entry'[d2][n2].to \notin RootOnly
  BY <1>1
<1>2. ASSUME NEW d2 \in RootOnly, NEW n2 \in Names
      PROVE  \/ entry'[d2][n2] = Layout[d2][n2]
             \/ Layout[d2][n2] = NoEntry /\ entry'[d2][n2].kind = "dir" /\ entry'[d2][n2].to \notin RootOnly
  <2>1. d2 \in Directories
    BY WriteAssumption
  <2> QED BY <1>2, <2>1
<1>3. ASSUME NEW d2 \in OfEgret, NEW n2 \in Names
      PROVE  entry'[d2][n2] = NoEntry \/ (entry'[d2][n2].kind = "dir" /\ entry'[d2][n2].to \in made')
  <2>1. d2 \in Directories
    BY WriteAssumption, JobAssumption DEF OfEgret
  <2> QED BY <1>3, <2>1
<1> QED BY <1>1, <1>2, <1>3

LEMMA EntryStep ==
  ASSUME FilesType, CallsType, StageInv, VerifiedInv, EntryInv, [Next]_vars
  PROVE  EntryInv'
<1>1. CASE UNCHANGED fsVars
  BY <1>1 DEF EntryInv, fsVars
<1>2. CASE WriterStep /\ ~ UNCHANGED fsVars
  <2>1. CASE Rename
    BY <2>1 DEF Rename, EntryInv
  <2>2. ASSUME NEW d \in ByEgret, Makes(d) PROVE EntryInv'
    <3>1. Layout[handle][Head(rest)] = NoEntry \/ handle \notin RootOnly
      BY <2>2, MakesIs, NotThere DEF EntryInv
    <3>2. d \notin RootOnly /\ d \in made' /\ made \subseteq made'
      BY <2>2, MakesIs
    <3> HIDE DEF Makes
    <3> QED BY <2>2, <3>1, <3>2, MakesIs, ADir, EntryPut
  <2> QED BY <1>2, <2>1, <2>2, KindsOfCall
<1>3. CASE BuildStep
  <2>1. ASSUME NEW p \in Plantable, NEW e \in Planted, Plant(p[1], p[2], e) PROVE EntryInv'
    <3>1. e.kind = "dir" => e.to \notin RootOnly
      BY <2>1, PlantIs, WriteAssumption
    <3>2. made \subseteq made'
      BY <2>1 DEF Plant
    <3>3. /\ p[1] \in Directories /\ p[1] \notin RootOnly /\ p[1] \notin OfEgret /\ p[2] \in Names
          /\ e \in Entries
          /\ entry' = [entry EXCEPT ![p[1]][p[2]] = e]
      BY <2>1, PlantIs DEF Owned
    <3> QED BY <3>1, <3>2, <3>3, EntryPut
  <2>2. ASSUME ~ \E p \in Plantable, e \in Planted : Plant(p[1], p[2], e)
        PROVE  EntryInv'
    BY <1>3, <2>2 DEF BuildStep, PlantFile, PlantTemp, BuildEnds, fsVars, EntryInv
  <2> QED BY <2>1, <2>2
<1>4. CASE Leaves \/ Launching
  BY <1>1, <1>4 DEF Leaves, Launching, Launch, reportVars, fsVars
<1>5. CASE Leaving
  <2>1. Temp \in Directories /\ SafeName \in Names /\ Layout[Temp][SafeName] = NoEntry
    BY JobAssumption, WriteAssumption
  <2>2. entry' = [entry EXCEPT ![Temp][SafeName] = NoEntry] /\ made' = made
    BY <1>5 DEF Leaving, Exit
  <2> QED BY <2>1, <2>2, NotThere, EntryPut
<1>6. CASE TryCandidate
  <2>1. Safe \notin RootOnly /\ Safe \in made' /\ made \subseteq made'
    BY <1>6, CandidateIs
  <2>2. Layout[Temp][SafeName] = NoEntry
    BY JobAssumption
  <2> QED BY <1>6, <2>1, <2>2, CandidateIs, ADir, EntryPut
<1> QED BY <1>1, <1>2, <1>3, <1>4, <1>5, <1>6, KindsOfStep

-----------------------------------------------------------------------------
(* The walk, a call at a time. *)
LEMMA AlongSteps ==
  ASSUME NEW path \in Seq(Names), NEW entries, NEW dirs
  PROVE  /\ Along(path, entries, dirs)[0] = Slash
         /\ \A i \in 1..Len(path) :
              Along(path, entries, dirs)[i] =
                LET d == Along(path, entries, dirs)[i - 1]
                IN  IF d \in dirs THEN entries[d][path[i]].to ELSE Nowhere
<1> DEFINE at == Along(path, entries, dirs)
<1>1. Len(path) \in Nat
  OBVIOUS
<1>2. at = [i \in 0..Len(path) |-> From(at, path, entries, dirs, i)]
  BY <1>1, AlongIs
<1> HIDE DEF at
<1>3. 0 \in 0..Len(path) /\ \A i \in 1..Len(path) : i \in 0..Len(path) /\ i # 0
  BY <1>1
<1>4. \A i \in 0..Len(path) : at[i] = From(at, path, entries, dirs, i)
  BY <1>2
<1> QED BY <1>3, <1>4 DEF From, at

LEMMA GoalIs ==
  ASSUME CallsType, UNCHANGED <<handle, rest, out, asked>>
  PROVE  /\ Goal \in Seq(Names) /\ Len(Goal) \in Nat /\ Len(rest) \in Nat
         /\ Goal' = Goal /\ Gone' = Gone
  BY WriteAssumption DEF CallsType, Goal, Gone


LEMMA WalkInit == Init => WalkInv
BY WriteAssumption DEF Init, InitReport, WalkInv, Walking, NoEntry

(* One component further. *)
LEMMA WalkEnter ==
  ASSUME FilesType, CallsType, EntryInv, WalkInv, wpc \in Walking, rest # << >>,
         Enter(Opens(handle, Head(rest))),
         handle \notin RootOnly => Here.to \notin RootOnly
  PROVE  WalkInv'
<1> DEFINE at == Along(Goal, Layout, RootOnly)
           to == Opens(handle, Head(rest))
<1>1. /\ handle' = to /\ rest' = Tail(rest) /\ wpc' = "open"
      /\ UNCHANGED <<made, out, asked>> /\ Goal' = Goal
  BY DEF Enter, fsVars, Goal
<1>2. Goal \in Seq(Names) /\ Len(Goal) \in Nat /\ Len(rest) \in Nat /\ Len(rest) # 0
  BY GoalIs, WriteAssumption DEF CallsType, Goal
<1>3. Len(rest') = Len(rest) - 1 /\ Gone' = Gone + 1 /\ Gone \in Int
  BY <1>1, <1>2, HereIs DEF Gone
<1>4. Len(rest) <= Len(Goal) /\ \A i \in 1..Len(rest) : rest[i] = Goal[Gone + i]
  BY DEF WalkInv
<1>5. ASSUME NEW i \in 1..Len(rest') PROVE rest'[i] = Goal'[Gone' + i]
  <2>1. i \in 1..Len(Tail(rest)) /\ i + 1 \in 1..Len(rest)
    BY <1>1, <1>2, <1>3, <1>5
  <2>2. rest'[i] = rest[i + 1]
    BY <1>1, <2>1, HereIs
  <2>3. Gone + (i + 1) = Gone' + i
    BY <1>3, <2>1
  <2> QED BY <1>1, <1>4, <2>1, <2>2, <2>3
<1>6. ASSUME Direct(Goal), handle' \in RootOnly PROVE handle' = Along(Goal', Layout, RootOnly)[Gone']
  <2>0. handle \notin RootOnly => to = Here.to
    BY HereOpens
  <2>1. handle \in RootOnly /\ handle = at[Gone]
    BY <1>1, <1>6, <2>0 DEF WalkInv
  <2>2. Head(rest) \in Names /\ Head(rest) = Goal[Gone + 1] /\ handle \in Directories
    BY <1>2, <1>4, HereIs DEF CallsType
  <2>6. Gone + 1 \in 1..Len(Goal) /\ (Gone + 1) - 1 = Gone
    BY <1>2, <1>3, <1>4 DEF Gone
  <2>7. << handle, Head(rest) >> \notin DOMAIN Via
    BY <1>6, <2>1, <2>2, <2>6 DEF Direct
  <2>8. to = Here.to
    BY <2>2, <2>7, OpensIs DEF Here
  <2>3. Here = Layout[handle][Head(rest)]
    <3>1. \/ Here = Layout[handle][Head(rest)]
          \/ Here.kind = "dir" /\ Here.to \notin RootOnly
      BY <2>1, <2>2 DEF EntryInv, Here
    <3> QED BY <1>1, <1>6, <2>8, <3>1
  <2>4. Gone + 1 \in 1..Len(Goal) /\ (Gone + 1) - 1 = Gone
    BY <1>2, <1>3, <1>4 DEF Gone
  <2>5. at[Gone + 1] = Layout[handle][Goal[Gone + 1]].to
    BY <1>2, <2>1, <2>4, AlongSteps
  <2> QED BY <1>1, <1>3, <2>2, <2>3, <2>5, <2>8
<1>7. Direct(asked.path)' /\ out' \in RootOnly => out' \in InLayout(asked.path)'
  BY <1>1 DEF WalkInv, InLayout, Direct
<1>8. Direct(Goal') = Direct(Goal)
  BY <1>1
<1> HIDE DEF to
<1> QED BY <1>8, <1>1, <1>2, <1>3, <1>4, <1>5, <1>6, <1>7 DEF WalkInv

(* Calls that leave the walk where it is. *)
LEMMA WalkSame ==
  ASSUME CallsType, WalkInv, made \subseteq made', UNCHANGED <<handle, rest, out>>, asked'.path = asked.path,
         wpc' \in Walking => wpc \in Walking,
         wpc' = "follow" => handle \in Owned,
         wpc' = "append" => wpc = "append"
  PROVE  WalkInv'
<1>1. Goal' = Goal /\ Gone' = Gone
  BY DEF Goal, Gone
<1>2. InLayout(asked.path)' = InLayout(asked.path) /\ Direct(asked.path)' = Direct(asked.path)
  BY DEF InLayout, Direct
<1>3. Direct(Goal)' = Direct(Goal)
  BY <1>1 DEF Direct
<1> QED BY <1>1, <1>2, <1>3 DEF WalkInv, Owned

(* At the end of the path. *)
LEMMA WalkOpened ==
  ASSUME CallsType, StageInv, WalkInv, Opened
  PROVE  WalkInv'
<1>1. Gone = Len(Goal) /\ Goal \in Seq(Names) /\ Len(Goal) \in 0..Len(Goal)
  BY WriteAssumption DEF CallsType, Opened, Gone, Goal
<1>2. Direct(Goal) /\ handle \in RootOnly => handle \in InLayout(Goal)
  BY <1>1 DEF WalkInv, InLayout, Walking, Opened
<1>3. UNCHANGED <<asked, handle, made>> /\ wpc' \in {"write", "append"}
  BY DEF Opened, fsVars
<1>4. InLayout(asked.path)' = InLayout(asked.path) /\ Direct(asked.path)' = Direct(asked.path)
  BY <1>3 DEF InLayout, Direct
<1>5. CASE Create
  BY <1>2, <1>3, <1>4, <1>5 DEF WalkInv, Opened, Goal, Walking, Create
<1>6. CASE ~ Create
  BY <1>2, <1>3, <1>4, <1>6 DEF WalkInv, Opened, Goal, Walking, Create
<1> QED BY <1>5, <1>6

(* A walk begins. *)
LEMMA WalkBegins ==
  ASSUME CallsType, WalkInv, wpc' = "open", handle' = Slash, asked'.path = asked.path, UNCHANGED out,
         rest' = Goal
  PROVE  WalkInv'
<1>1. Goal' = Goal /\ Goal \in Seq(Names) /\ Len(Goal) \in Nat
  BY WriteAssumption DEF CallsType, Goal
<1>2. Gone' = 0
  BY <1>1 DEF Gone
<1>3. Along(Goal, Layout, RootOnly)[0] = Slash
  BY <1>1, AlongSteps
<1>4. \A i \in 1..Len(Goal) : 0 + i = i
  BY <1>1
<1>5. InLayout(asked.path)' = InLayout(asked.path) /\ Direct(asked.path)' = Direct(asked.path)
  BY DEF InLayout, Direct
<1> QED BY <1>1, <1>2, <1>3, <1>4, <1>5 DEF WalkInv

LEMMA WalkWriter ==
  ASSUME FilesType, CallsType, StageInv, EntryInv, WalkInv, WriterStep
  PROVE  WalkInv'
<1> USE DEF Walking, Writing, Ended
<1>1. CASE BeginWrite
  <2>1. Goal = asked.path /\ asked'.path = asked.path
    BY <1>1 DEF BeginWrite, StageInv, Goal, CallsType
  <2> QED BY <1>1, <2>1, WalkBegins DEF BeginWrite
<1>2. CASE WalkFails /\ wpc \in Walking
  BY <1>2, WalkSame DEF WalkFails, fsVars, walkVars
<1>3. ASSUME NEW next, GoOn(next), next \in Walking => wpc \in Walking,
             next = "follow" => handle \in Owned, next # "append"
      PROVE  WalkInv'
  BY <1>3, WalkSame DEF GoOn, fsVars, walkVars
<1>4. CASE OpenComponent
  <2>1. CASE Here.kind = "dir" /\ Enter(Here.to)
    <3>1. rest # << >> /\ wpc \in Walking /\ Head(rest) \in Names /\ handle \in Directories
      BY <1>4, HereIs DEF OpenComponent, CallsType
    <3>2. handle \notin RootOnly => Here.to \notin RootOnly
      BY <2>1, <3>1 DEF EntryInv, Here
    <3>3. Enter(Opens(handle, Head(rest)))
      BY <2>1, <3>1, HereOpens
    <3> QED BY <3>1, <3>2, <3>3, WalkEnter
  <2> QED BY <1>2, <1>3, <1>4, <2>1 DEF OpenComponent
<1>5. ASSUME NEW d \in ByEgret, Mkdirat(d) PROVE WalkInv'
  BY <1>5, <1>3, WalkSame DEF Mkdirat, walkVars
<1>6. CASE CheckLink
  BY <1>2, <1>3, <1>6 DEF CheckLink, MayFollow
<1>7. CASE Follow
  <2>1. rest # << >> /\ wpc \in Walking /\ handle \in Directories /\ handle \in Owned
    BY <1>7 DEF Follow, StageInv, CallsType, WalkInv
  <2>2. Head(rest) \in Names
    BY <2>1, HereIs
  <2>3. handle \notin RootOnly => Here.to \notin RootOnly
    <3>1. handle \notin RootOnly => handle \in OfEgret
      BY <2>1 DEF Owned, FilesType
    <3>2. made \cap RootOnly = {}
      BY WriteAssumption, JobAssumption DEF FilesType, OfEgret
    <3>3. Nowhere \notin RootOnly
      BY WriteAssumption
    <3> QED BY <2>2, <3>1, <3>2, <3>3, NotThere DEF EntryInv, Here
  <2> QED BY <1>2, <1>7, <2>1, <2>3, WalkEnter DEF Follow
<1>8. CASE SystemCallFails
  BY <1>2, <1>8 DEF SystemCallFails
<1>9. CASE Opened
  BY <1>9, WalkOpened
<1>10. CASE CreateTemp \/ Fill \/ Rename \/ WriteFails \/ AppendSummary
  BY <1>10, WalkSame DEF CreateTemp, Fill, Rename, WriteFails, AppendSummary, fsVars, walkVars
<1>11. CASE OpenSummary
  <2>1. Goal = SummaryDir
    BY <1>11 DEF OpenSummary, StageInv, Goal
  <2> QED BY <1>11, <2>1, WalkBegins DEF OpenSummary
<1>12. CASE Returns \/ Dies
  BY <1>3, <1>12 DEF Returns, Dies
<1> QED BY <1>1, <1>4, <1>5, <1>6, <1>7, <1>8, <1>9, <1>10, <1>11, <1>12 DEF WriterStep

LEMMA WalkStep ==
  ASSUME FilesType, CallsType, StageInv, VerifiedInv, EntryInv, WalkInv, [Next]_vars
  PROVE  WalkInv'
<1>1. CASE Leaves
  BY <1>1, WalkSame DEF Leaves, reportVars, WalkInv
<1>2. CASE Leaving \/ TryCandidate
  BY <1>2, WalkSame DEF Leaving, Exit, TryCandidate, WalkInv, walkVars
<1>3. CASE Launching
  BY <1>3, WriteAssumption DEF Launching, Launch, StageInv, WalkInv, Walking, walkVars
<1>4. CASE BuildStep
  BY <1>4, WalkSame DEF BuildStep, Plant, PlantFile, PlantTemp, BuildEnds, WalkInv, fsVars, walkVars
<1> QED BY <1>1, <1>2, <1>3, <1>4, WalkWriter, KindsOfStep

-----------------------------------------------------------------------------
LEMMA StepSafe ==
  /\ Init => FilesType /\ CallsType /\ StageInv /\ VerifiedInv /\ EntryInv /\ WalkInv
  /\ FilesType /\ CallsType /\ StageInv /\ VerifiedInv /\ EntryInv /\ WalkInv /\ [Next]_vars =>
       FilesType' /\ CallsType' /\ StageInv' /\ VerifiedInv' /\ EntryInv' /\ WalkInv'
BY FilesInit, CallsInit, StageInit, VerifiedInit, EntryInit, WalkInit,
   FilesStep, CallsStep, StageStep, VerifiedStep, EntryStep, WalkStep

LEMMA AlwaysSafe ==
  Spec => [](FilesType /\ CallsType /\ StageInv /\ VerifiedInv /\ EntryInv /\ WalkInv)
<1> DEFINE Safely == FilesType /\ CallsType /\ StageInv /\ VerifiedInv /\ EntryInv /\ WalkInv
<1>1. Init => Safely
  BY StepSafe
<1>2. Safely /\ [Next]_vars => Safely'
  BY StepSafe
<1> QED BY <1>1, <1>2, PTL DEF Spec

(* safewrite_unix.go: whatever the build plants and swaps between two calls of
   the walk, in any layout and on any path where no link of root's has a target
   that others can redirect, Write opens for writing no directory of root's that
   is not on the path by root's own layout. *)
THEOREM NeverSteeredHolds == Spec => []NeverSteered
<1>1. StageInv /\ WalkInv => NeverSteered
  BY DEF StageInv, WalkInv, NeverSteered, Foreign, Writing
<1> QED BY <1>1, AlwaysSafe, PTL


-----------------------------------------------------------------------------
(* Paths in the directories as they are. *)
LEMMA LeadsNowhereYet ==
  ASSUME NEW entries, NEW path
  PROVE  Leads(entries, path, 0, Slash)
<1> DEFINE at == [i \in 0..0 |-> Slash]
<1>1. at \in [0..0 -> Directories] /\ at[0] = Slash
  BY WriteAssumption
<1>2. \A i \in 1..0 : entries[at[i - 1]][path[i]].to = at[i]
  OBVIOUS
<1> HIDE DEF at
<1> QED BY <1>1, <1>2 DEF Leads

LEMMA LeadsFurther ==
  ASSUME NEW entries, NEW path, NEW k \in Nat, NEW d, Leads(entries, path, k, d),
         NEW next \in Directories, entries[d][path[k + 1]].to = next
  PROVE  Leads(entries, path, k + 1, next)
<1>1. PICK at \in [0..k -> Directories] :
        /\ at[0] = Slash /\ at[k] = d
        /\ \A i \in 1..k : entries[at[i - 1]][path[i]].to = at[i]
  BY DEF Leads
<1> DEFINE longer == [i \in 0..(k + 1) |-> IF i = k + 1 THEN next ELSE at[i]]
<1>2. longer \in [0..(k + 1) -> Directories]
  BY <1>1
<1>3. longer[0] = Slash /\ longer[k + 1] = next /\ longer[k] = d
  BY <1>1
<1>4. ASSUME NEW i \in 1..(k + 1) PROVE entries[longer[i - 1]][path[i]].to = longer[i]
  <2>1. CASE i = k + 1
    BY <1>3, <2>1
  <2>2. CASE i # k + 1
    BY <1>1, <2>2
  <2> QED BY <2>1, <2>2
<1> HIDE DEF longer
<1> QED BY <1>2, <1>3, <1>4 DEF Leads

(* What leads nowhere is on no path so far. *)
LEMMA LeadsStill ==
  ASSUME NEW entries, NEW others, NEW path \in Seq(Names), NEW k \in 0..Len(path), NEW d,
         Leads(entries, path, k, d),
         \A h \in Directories, n \in Names :
           entries[h][n].to \in Directories => others[h][n].to = entries[h][n].to
  PROVE  Leads(others, path, k, d)
<1>1. PICK at \in [0..k -> Directories] :
        /\ at[0] = Slash /\ at[k] = d
        /\ \A i \in 1..k : entries[at[i - 1]][path[i]].to = at[i]
  BY DEF Leads
<1>2. ASSUME NEW i \in 1..k PROVE others[at[i - 1]][path[i]].to = at[i]
  <2>1. at[i - 1] \in Directories /\ at[i] \in Directories /\ path[i] \in Names
    BY <1>1
  <2> QED BY <1>1, <2>1
<1> QED BY <1>1, <1>2 DEF Leads

(* An entry where nothing was leaves all that led somewhere as it is. *)
LEMMA NowStill ==
  ASSUME FilesType, FilesType', NEW h \in Directories, NEW n \in Names, entry[h][n] = NoEntry,
         NEW e \in Entries, entry' = [entry EXCEPT ![h][n] = e],
         NEW d2 \in Directories, NEW n2 \in Names, Now[d2][n2].to \in Directories
  PROVE  Now'[d2][n2].to = Now[d2][n2].to
<1> DEFINE Through(f) == IF << d2, n2 >> \in DOMAIN Via
                         THEN f[Via[<< d2, n2 >>][1]][Via[<< d2, n2 >>][2]].to ELSE f[d2][n2].to
<1>1. Now[d2][n2].to = Through(entry) /\ Now'[d2][n2].to = Through(entry')
  <2>1. Now[d2][n2].to = Opens(d2, n2)
    BY OpensIs
  <2>2. Now'[d2][n2].to = Opens(d2, n2)'
    <3>1. [entry'[d2][n2] EXCEPT !.to = Opens(d2, n2)'].to = Opens(d2, n2)'
      BY DEF FilesType, Entries, NoEntry, RegularFile, Dir, Link
    <3> QED BY <3>1 DEF Now
  <2> QED BY <2>1, <2>2 DEF Opens
<1>2. ASSUME NEW d3 \in Directories, NEW n3 \in Names, entry[d3][n3].to \in Directories
      PROVE  entry'[d3][n3].to = entry[d3][n3].to
  <2>1. d3 # h \/ n3 # n
    BY <1>2, NotThere, WriteAssumption
  <2> QED BY <1>2, <2>1, PutEntry
<1>3. CASE << d2, n2 >> \in DOMAIN Via
  <2> DEFINE l == << d2, n2 >>
  <2>1. l \in DOMAIN Via
    BY <1>3
  <2>2. Via[l] \in Directories \X Names
    BY <2>1, WriteAssumption
  <2>3. Via[l][1] \in Directories /\ Via[l][2] \in Names
    BY <2>2
  <2> QED BY <1>1, <1>2, <1>3, <2>3
<1>4. CASE << d2, n2 >> \notin DOMAIN Via
  BY <1>1, <1>2, <1>4
<1> QED BY <1>3, <1>4

LEMMA LeadsAlong ==
  ASSUME NEW path \in Seq(Names), NEW entries, NEW d, Leads(entries, path, Len(path), d)
  PROVE  Along(path, entries, Directories)[Len(path)] = d
<1>1. PICK at \in [0..Len(path) -> Directories] :
        /\ at[0] = Slash /\ at[Len(path)] = d
        /\ \A i \in 1..Len(path) : entries[at[i - 1]][path[i]].to = at[i]
  BY DEF Leads
<1> DEFINE along == Along(path, entries, Directories)
           T == {n \in Nat : n <= Len(path) => along[n] = at[n]}
<1> HIDE DEF along
<1>2. along[0] = Slash /\ \A i \in 1..Len(path) :
        along[i] = IF along[i - 1] \in Directories THEN entries[along[i - 1]][path[i]].to ELSE Nowhere
  BY AlongSteps DEF along
<1>3. 0 \in T
  BY <1>1, <1>2
<1>4. ASSUME NEW n \in T PROVE n + 1 \in T
  <2> SUFFICES ASSUME n + 1 <= Len(path) PROVE along[n + 1] = at[n + 1]
    OBVIOUS
  <2>1. n + 1 \in 1..Len(path) /\ (n + 1) - 1 = n /\ n \in 0..Len(path)
    OBVIOUS
  <2>2. along[n] = at[n] /\ at[n] \in Directories
    BY <1>1, <2>1
  <2> QED BY <1>1, <1>2, <2>1, <2>2
<1>5. T = Nat
  <2>1. T \in SUBSET Nat
    OBVIOUS
  <2> HIDE DEF T
  <2> QED BY <1>3, <1>4, <2>1, AllNumbers
<1>6. Len(path) \in Nat
  OBVIOUS
<1>7. along[Len(path)] = at[Len(path)]
  BY <1>5, <1>6
<1> QED BY <1>1, <1>7 DEF along

-----------------------------------------------------------------------------
LEMMA QuietInit == Init => QuietInv
BY DEF Init, InitReport, QuietInv

LEMMA QuietSame ==
  ASSUME CallsType, QuietInv, UNCHANGED <<entry, handle, rest, out, asked>>,
         wpc' \notin Ended => wpc \notin Ended,
         wpc' \in Walking => wpc \in Walking
  PROVE  QuietInv'
<1>1. Gone' = Gone
  BY GoalIs
<1>2. Now' = Now
  BY DEF Now, Opens
<1> QED BY <1>1, <1>2 DEF QuietInv

LEMMA QuietEnter ==
  ASSUME FilesType, CallsType, WalkInv, QuietInv, wpc \in Walking, rest # << >>,
         Opens(handle, Head(rest)) \in Directories, Enter(Opens(handle, Head(rest)))
  PROVE  QuietInv'
<1> DEFINE to == Opens(handle, Head(rest))
<1>0. Now' = Now
  BY DEF Now, Opens, Enter, fsVars
<1>1. /\ handle' = to /\ rest' = Tail(rest)
      /\ UNCHANGED <<entry, out, asked>> /\ Goal' = Goal
  BY DEF Enter, fsVars, Goal
<1>2. Goal \in Seq(Names) /\ Len(Goal) \in Nat /\ Len(rest) \in Nat /\ Len(rest) # 0
  BY WriteAssumption DEF CallsType, Goal
<1>3. Len(rest) <= Len(Goal) /\ rest[1] = Goal[Gone + 1]
  BY <1>2 DEF WalkInv
<1>4. Gone' = Gone + 1 /\ Gone \in Nat
  BY <1>1, <1>2, <1>3, HereIs DEF Gone
<1>5. to \in Directories /\ Head(rest) = rest[1] /\ Now[handle][Head(rest)].to = to
  BY HereIs, OpensIs DEF CallsType
<1> HIDE DEF to
<1>6. ASSUME asked.quiet, out = Nowhere PROVE Leads(Now, asked.path, Gone + 1, to)
  <2>1. Goal = asked.path /\ Leads(Now, asked.path, Gone, handle)
    BY <1>6 DEF QuietInv, Goal, Walking, Ended
  <2>2. Now[handle][asked.path[Gone + 1]].to = to
    BY <1>3, <1>5, <2>1
  <2> QED BY <1>4, <1>5, <2>1, <2>2, LeadsFurther
<1>7. wpc \notin Ended
  BY DEF Walking, Ended
<1> QED BY <1>0, <1>1, <1>4, <1>6, <1>7 DEF QuietInv

LEMMA QuietWriter ==
  ASSUME FilesType, FilesType', CallsType, StageInv, EntryInv, WalkInv, QuietInv, WriterStep
  PROVE  QuietInv'
<1> USE DEF Walking, Writing, Ended
<1>1. CASE BeginWrite
  <2>1. out = Nowhere /\ asked'.path = asked.path /\ asked.path \in Seq(Names)
    BY <1>1 DEF BeginWrite, StageInv, CallsType
  <2>2. Goal' = asked.path /\ rest' = asked.path /\ handle' = Slash /\ out' = out /\ Len(asked.path) \in Nat
    BY <1>1, <2>1 DEF BeginWrite, Goal
  <2>3. Gone' = 0
    BY <2>2 DEF Gone
  <2> QED BY <2>1, <2>2, <2>3, LeadsNowhereYet DEF QuietInv
<1>2. CASE WalkFails /\ wpc \in Walking
  BY <1>2, QuietSame DEF WalkFails, fsVars, walkVars
<1>3. ASSUME NEW next, GoOn(next), wpc \notin Ended, next \in Walking => wpc \in Walking
      PROVE  QuietInv'
  BY <1>3, QuietSame DEF GoOn, fsVars, walkVars
<1>4. CASE OpenComponent
  <2>1. ASSUME rest # << >>, Here.kind = "dir" PROVE Opens(handle, Head(rest)) = Here.to /\ Here.to \in Directories
    BY <2>1, HereOpens, HereIs, EntryIs
  <2> QED BY <1>2, <1>3, <1>4, <2>1, QuietEnter DEF OpenComponent
<1>5. ASSUME NEW d \in ByEgret, Mkdirat(d) PROVE QuietInv'
  <2>1. CASE Makes(d)
    <3>1. /\ handle \in Directories /\ Head(rest) \in Names
          /\ entry[handle][Head(rest)] = NoEntry /\ Dir(d) \in Entries
          /\ entry' = [entry EXCEPT ![handle][Head(rest)] = Dir(d)]
          /\ UNCHANGED <<handle, rest, out, asked>>
      BY <2>1, MakesIs DEF walkVars
    <3>2. wpc = "mkdir" /\ out = Nowhere
      BY <2>1 DEF Makes, StageInv
    <3>3. Gone' = Gone /\ Goal = asked.path /\ asked.path \in Seq(Names) /\ Gone \in 0..Len(asked.path)
      BY <3>1, <3>2, GoalIs DEF WalkInv, Gone, Goal, CallsType
    <3>4. asked.quiet => Leads(Now', asked.path, Gone, handle)
      <4>1. asked.quiet => Leads(Now, asked.path, Gone, handle)
        BY <3>2 DEF QuietInv
      <4>2. \A h \in Directories, n \in Names : Now[h][n].to \in Directories => Now'[h][n].to = Now[h][n].to
        BY <3>1, NowStill
      <4> QED BY <3>3, <4>1, <4>2, LeadsStill
    <3> QED BY <3>1, <3>2, <3>3, <3>4 DEF QuietInv
  <2>2. CASE ~ Makes(d)
    BY <1>3, <1>5, <2>2 DEF Mkdirat, Makes
  <2> QED BY <2>1, <2>2
<1>6. CASE CheckLink
  BY <1>2, <1>3, <1>6 DEF CheckLink
<1>7. CASE Follow
  BY <1>2, <1>7, QuietEnter DEF Follow, StageInv
<1>8. CASE SystemCallFails
  BY <1>2, <1>8 DEF SystemCallFails
<1>9. CASE Opened
  <2>1. /\ Gone = Len(Goal) /\ wpc' \in {"write", "append"} /\ UNCHANGED <<entry, asked>> /\ wpc = "open"
        /\ Now' = Now
    BY <1>9, WriteAssumption DEF Opened, fsVars, Gone, Goal, CallsType, Now, Opens
  <2>2. CASE Create
    BY <1>9, <2>1, <2>2 DEF Opened, Create, Goal, QuietInv
  <2>3. CASE ~ Create
    BY <1>9, <2>1, <2>3 DEF Opened, Create, QuietInv
  <2> QED BY <2>2, <2>3
<1>10. CASE CreateTemp \/ Fill \/ Rename \/ WriteFails \/ AppendSummary
  BY <1>10, QuietSame DEF CreateTemp, Fill, Rename, WriteFails, AppendSummary, fsVars, walkVars
<1>11. CASE OpenSummary
  <2>1. out # Nowhere /\ UNCHANGED <<entry, out, asked>> /\ wpc = "write" /\ Now' = Now
    BY <1>11 DEF OpenSummary, StageInv, fsVars, Now, Opens
  <2> QED BY <2>1 DEF QuietInv
<1>12. CASE Returns \/ Dies
  BY <1>12, QuietSame DEF Returns, Dies, GoOn, AllWritten, fsVars, walkVars
<1> QED BY <1>1, <1>4, <1>5, <1>6, <1>7, <1>8, <1>9, <1>10, <1>11, <1>12 DEF WriterStep

LEMMA QuietStep ==
  ASSUME FilesType, FilesType', CallsType, StageInv, VerifiedInv, EntryInv, WalkInv, QuietInv, [Next]_vars
  PROVE  QuietInv'
<1>1. CASE Leaves
  BY <1>1, QuietSame DEF Leaves, reportVars
<1>2. CASE Leaving
  BY <1>2 DEF Leaving, Exit, QuietInv, StageInv
<1>3. CASE TryCandidate
  <2>1. ~ asked.quiet /\ asked' = asked
    BY <1>3 DEF TryCandidate, StageInv, Running
  <2> QED BY <2>1 DEF QuietInv
<1>4. CASE Launching
  BY <1>4 DEF Launching, Launch, QuietInv
<1>5. CASE BuildStep
  <2>1. alive /\ asked' = asked
    BY <1>5 DEF BuildStep, Plant, MayPlant, PlantFile, PlantTemp, BuildEnds
  <2> QED BY <2>1 DEF QuietInv, StageInv
<1> QED BY <1>1, <1>2, <1>3, <1>4, <1>5, QuietWriter, KindsOfStep


-----------------------------------------------------------------------------
(* The files, a call at a time. *)
LEMMA WriteInit == Init => WriteInv
BY DEF Init, InitReport, WriteInv, Walking

(* What is first in todo is dealt with, and all else is still there. *)
LEMMA NextOutput ==
  ASSUME CallsType, todo # << >>, NEW f, f # Head(todo), Holds(todo, f)
  PROVE  Holds(Tail(todo), f)
BY TodoIs DEF Holds

LEMMA NothingHeld ==
  ASSUME NEW f
  PROVE  ~ Holds(<< >>, f)
BY DEF Holds

(* Calls that touch neither the files nor the list of those to be written. *)
LEMMA WriteSame ==
  ASSUME CallsType, WriteInv, UNCHANGED <<made, file, tmp, out, todo, asked>>,
         wpc' \notin Ended => wpc \notin Ended,
         wpc' \in Walking => wpc \in Walking \/ out # Nowhere,
         wpc' \in {"fill", "rename"} => wpc' = wpc
  PROVE  WriteInv'
BY DEF WriteInv, Wanted, Undisturbed, Owned

(* The summary is done with, or given up. *)
LEMMA SummaryDone ==
  ASSUME CallsType, WriteInv, todo # << >>, Head(todo) = "summary", wpc \notin Ended,
         UNCHANGED <<made, file, tmp, out, asked>>, todo' = Tail(todo), wpc' = "write"
  PROVE  WriteInv'
<1>1. \A f \in Wanted : f # "summary"
  BY DEF Wanted, Files
<1>2. \A f \in Wanted : Holds(todo, f) => Holds(todo', f)
  BY <1>1, NextOutput
<1> QED BY <1>2 DEF WriteInv, Wanted, Undisturbed, Owned, Walking

LEMMA WriteRename ==
  ASSUME FilesType, CallsType, StageInv, WriteInv, Rename
  PROVE  WriteInv'
<1>1. /\ out \in Directories /\ todo # << >> /\ Head(todo) \in Files
      /\ tmp \in {"half", "whole", "planted"}
      /\ file' = [file EXCEPT ![out][Head(todo)] = tmp]
      /\ tmp # "half"
      /\ UNCHANGED <<made, out, asked>> /\ wpc' = "write" /\ todo' = Tail(todo)
  BY RenameIs DEF Rename, WriteInv, walkVars
<1>2. /\ file'[out][Head(todo)] = tmp
      /\ \A d \in Directories, f \in Files :
           d # out \/ f # Head(todo) => file'[d][f] = file[d][f]
  BY <1>1, PutFile
<1>3. \A d \in Directories, f \in Files : file'[d][f] # "half"
  BY <1>1, <1>2 DEF WriteInv
<1>4. Undisturbed => tmp = "whole" /\ \A f \in Wanted : file[out][f] = "whole" \/ Holds(todo, f)
  BY <1>1, WriteAssumption DEF WriteInv, Rename, Ended
<1>5. Wanted \subseteq Files
  BY DEF Wanted, Files
<1>6. ASSUME Undisturbed, NEW f \in Wanted PROVE file'[out][f] = "whole" \/ Holds(Tail(todo), f)
  BY <1>1, <1>2, <1>4, <1>5, <1>6, NextOutput
<1> QED BY <1>1, <1>3, <1>6 DEF WriteInv, Walking, Undisturbed, Owned, Wanted

LEMMA WriteWriter ==
  ASSUME FilesType, CallsType, StageInv, WriteInv, WriterStep
  PROVE  WriteInv'
<1> USE DEF Walking, Writing, Ended
<1>1. CASE BeginWrite
  <2>1. out' = Nowhere /\ asked'.formats = asked.formats /\ wpc' = "open" /\ file' = file
    BY <1>1 DEF BeginWrite, StageInv, CallsType, fsVars
  <2>2. todo' = Outputs(asked.formats) /\ Wanted' = Wanted
    BY <1>1, <2>1 DEF BeginWrite, Wanted
  <2> QED BY <2>1, <2>2, OutputsAre DEF WriteInv, Wanted
<1>2. CASE WalkFails /\ wpc \in Walking
  <2>1. CASE Create
    BY <1>2, <2>1, WriteSame DEF WalkFails, fsVars, walkVars
  <2>2. CASE ~ Create
    BY <1>2, <2>2, SummaryDone DEF WalkFails, Create, StageInv, fsVars, walkVars
  <2> QED BY <2>1, <2>2
<1>3. ASSUME NEW next, GoOn(next), wpc \notin Ended, next \in Walking => wpc \in Walking,
             next \notin {"fill", "rename"}
      PROVE  WriteInv'
  BY <1>3, WriteSame DEF GoOn, fsVars, walkVars
<1>4. ASSUME NEW d, Enter(d), wpc \in Walking PROVE WriteInv'
  BY <1>4, WriteSame DEF Enter, fsVars
<1>5. CASE OpenComponent
  BY <1>2, <1>3, <1>4, <1>5 DEF OpenComponent
<1>6. ASSUME NEW d \in ByEgret, Mkdirat(d) PROVE WriteInv'
  <2>1. CASE Here.kind # "none"
    BY <1>3, <1>6, <2>1 DEF Mkdirat
  <2>2. CASE Here.kind = "none"
    <3>1. out = Nowhere /\ UNCHANGED <<file, tmp, out, todo, asked>> /\ wpc' = "reopen" /\ wpc = "mkdir"
      BY <1>6, <2>2 DEF Mkdirat, StageInv, walkVars
    <3> QED BY <3>1 DEF WriteInv, Wanted
  <2> QED BY <2>1, <2>2
<1>7. CASE CheckLink
  BY <1>2, <1>3, <1>7 DEF CheckLink
<1>8. CASE Follow
  BY <1>2, <1>4, <1>8 DEF Follow
<1>9. CASE SystemCallFails
  BY <1>2, <1>9 DEF SystemCallFails
<1>10. CASE Opened
  <2>1. UNCHANGED <<made, file, tmp, todo, asked>> /\ wpc = "open" /\ wpc' \in {"write", "append"}
    BY <1>10 DEF Opened, fsVars
  <2>2. CASE Create
    BY <2>1, <2>2 DEF Create, WriteInv, Wanted
  <2>3. CASE ~ Create
    BY <1>10, <2>1, <2>3, WriteSame DEF Create, Opened
  <2> QED BY <2>2, <2>3
<1>11. CASE CreateTemp
  BY <1>11 DEF CreateTemp, WriteInv, Wanted, Undisturbed, Owned, fsVars, walkVars
<1>12. CASE Fill
  BY <1>12 DEF Fill, WriteInv, Wanted, Undisturbed, Owned, fsVars, walkVars
<1>13. CASE WriteFails
  BY <1>13 DEF WriteFails, WriteInv, fsVars, walkVars
<1>14. CASE OpenSummary
  BY <1>14, WriteSame DEF OpenSummary, StageInv, fsVars
<1>15. CASE AppendSummary
  BY <1>15, SummaryDone DEF AppendSummary, StageInv, fsVars, walkVars
<1>16. CASE Returns \/ Dies
  BY <1>3, <1>16 DEF Returns, AllWritten, Dies
<1> QED BY <1>1, <1>5, <1>6, <1>7, <1>8, <1>9, <1>10, <1>11, <1>12, <1>13, <1>14, <1>15, <1>16, WriteRename
        DEF WriterStep

LEMMA WriteBuild ==
  ASSUME FilesType, CallsType, StageInv, WriteInv, BuildStep
  PROVE  WriteInv'
<1>1. CASE UNCHANGED <<made, file, tmp, wpc, out, todo, asked>>
  BY <1>1 DEF WriteInv, Wanted, Undisturbed, Owned
<1>2. ASSUME NEW d \in ByBuild, NEW what \in {"none", "planted", "directory"}, PlantFile(d, what)
      PROVE  WriteInv'
  <2>1. d \in Directories /\ "report.json" \in Files /\ d \notin Owned /\ ~ asked.quiet
    BY <1>2, WriteAssumption DEF Files, PlantFile, StageInv
  <2>2. \A d2 \in Directories, f \in Files :
          \/ file'[d2][f] = file[d2][f]
          \/ d2 = d /\ file'[d2][f] \in {"none", "planted", "directory"}
    BY <1>2, <2>1, PutFile DEF PlantFile
  <2>3. UNCHANGED <<made, tmp, wpc, out, todo, asked>>
    BY <1>2 DEF PlantFile, walkVars
  <2>4. out # Nowhere /\ Undisturbed => \A f \in Files : file'[out][f] = file[out][f]
    BY <2>1, <2>2 DEF Undisturbed, CallsType
  <2>5. Wanted \subseteq Files
    BY DEF Wanted, Files
  <2> QED BY <2>2, <2>3, <2>4, <2>5 DEF WriteInv, Wanted, Undisturbed, Owned
<1>3. ASSUME NEW what \in {"none", "planted"}, PlantTemp(what) PROVE WriteInv'
  <2>1. ~ Undisturbed
    BY <1>3 DEF PlantTemp, StageInv, Undisturbed
  <2> QED BY <1>3, <2>1 DEF PlantTemp, WriteInv, Wanted, Undisturbed, Owned, fsVars, walkVars
<1>4. CASE BuildEnds
  BY <1>1, <1>4 DEF BuildEnds, fsVars, walkVars
<1>5. ASSUME NEW p \in Plantable, NEW e \in Planted, Plant(p[1], p[2], e) PROVE WriteInv'
  BY <1>1, <1>5 DEF Plant, walkVars
<1> QED BY <1>2, <1>3, <1>4, <1>5 DEF BuildStep

LEMMA WriteStep ==
  ASSUME FilesType, CallsType, StageInv, VerifiedInv, WriteInv, [Next]_vars
  PROVE  WriteInv'
<1>1. CASE Leaves
  BY <1>1, WriteSame DEF Leaves, reportVars
<1>2. CASE Leaving
  BY <1>2, WriteSame DEF Leaving, Exit, walkVars
<1>3. CASE TryCandidate
  <2>1. wpc = "idle" /\ out = Nowhere /\ UNCHANGED <<file, tmp, wpc, out>>
    BY <1>3 DEF TryCandidate, StageInv, Running, walkVars
  <2> QED BY <2>1 DEF WriteInv, Walking
<1>4. CASE Launching
  <2>1. out = Nowhere /\ UNCHANGED <<file, tmp, out>> /\ wpc' = "build"
    BY <1>4 DEF Launching, Launch, StageInv, fsVars, walkVars
  <2> QED BY <2>1 DEF WriteInv, Walking
<1> QED BY <1>1, <1>2, <1>3, <1>4, WriteWriter, WriteBuild, KindsOfStep

LEMMA AlwaysWhole ==
  Spec => [](FilesType /\ CallsType /\ StageInv /\ QuietInv /\ WriteInv)
<1> DEFINE Safely == FilesType /\ CallsType /\ StageInv /\ VerifiedInv /\ EntryInv /\ WalkInv
           Wholly == QuietInv /\ WriteInv
<1>1. Init => Wholly
  BY QuietInit, WriteInit
<1>2. Safely /\ Wholly /\ [Next]_vars => Wholly'
  BY FilesStep, QuietStep, WriteStep
<1>3. Spec => []Safely
  BY AlwaysSafe
<1> QED BY <1>1, <1>2, <1>3, PTL DEF Spec

(* writeFileAt and Write: no reader ever sees a part of a report, wherever
   Egret dies; and when Write has written all of its list, every file that was
   asked for is whole in the directory it opened, which is the one that the
   path leads to: always if the build was dead, in root's directories anyway. *)
THEOREM ReportWholeHolds == Spec => []ReportWhole
<1>1. ASSUME FilesType, CallsType, StageInv, QuietInv, WriteInv PROVE ReportWhole
  <2>1. AllWritten => out \in Directories /\ out # Nowhere /\ wpc \notin Ended /\ \A f : ~ Holds(todo, f)
    BY <1>1, NothingHeld DEF AllWritten, StageInv, CallsType, Writing, Ended
  <2>2. AllWritten /\ Undisturbed => \A f \in Wanted : file[out][f] = "whole"
    BY <1>1, <2>1 DEF WriteInv
  <2>3. AllWritten /\ asked.quiet => out = LeadsTo(asked.path)
    <3> SUFFICES ASSUME AllWritten, asked.quiet PROVE out = LeadsTo(asked.path)
      OBVIOUS
    <3>1. Leads(Now, asked.path, Len(asked.path), out) /\ asked.path \in Seq(Names)
      BY <1>1, <2>1 DEF QuietInv, CallsType
    <3> QED BY <3>1, LeadsAlong DEF LeadsTo
  <2> QED BY <1>1, <2>2, <2>3 DEF ReportWhole, WriteInv, Wanted, Undisturbed
<1> QED BY <1>1, AlwaysWhole, PTL


-----------------------------------------------------------------------------
(* The safe directory, and who writes in the directories of Egret. *)
LEMMA SafeInit == Init => SafeInv
<1> SUFFICES ASSUME Init PROVE SafeInv
  OBVIOUS
<1>1. \A d \in OfEgret : d \in Directories
  BY WriteAssumption, JobAssumption DEF OfEgret
<1> QED BY <1>1 DEF Init, InitReport, SafeInv, Prepared, Running

LEMMA SafeStep ==
  ASSUME FilesType, CallsType, StageInv, VerifiedInv, SafeInv, [Next]_vars
  PROVE  SafeInv'
<1>0. Temp \in Directories /\ SafeName \in Names /\ Temp \in Sticky \cup RootOnly
  BY JobAssumption, WriteAssumption
<1>1. CASE UNCHANGED <<entry, made, file>> /\ (step' \in Prepared => step \in Prepared)
           /\ (out = Nowhere \/ out' = out)
  <2>1. \A d \in OfEgret : d # Nowhere
    BY WriteAssumption, JobAssumption DEF OfEgret
  <2> QED BY <1>1, <2>1 DEF SafeInv
<1>2. CASE Leaves \/ Launching
  BY <1>1, <1>2 DEF Leaves, Launching, Launch, reportVars, fsVars, walkVars
<1>3. CASE Leaving
  BY <1>3 DEF Leaving, Exit, SafeInv, Prepared, Running, walkVars
<1>4. CASE TryCandidate
  <2>1. entry'[Temp][SafeName] = Dir(Safe) /\ Safe \in made'
    BY <1>4, CandidateIs, PutEntry
  <2> QED BY <1>4, <2>1 DEF TryCandidate, SafeInv, walkVars
<1>5. CASE WriterStep /\ UNCHANGED step
  <2>1. CASE UNCHANGED fsVars
    <3>1. out = Nowhere \/ out' = out
      BY <1>5 DEF WriterStep, BeginWrite, OpenComponent, Mkdirat, CheckLink, Follow, SystemCallFails,
                  Opened, CreateTemp, Fill, Rename, WriteFails, OpenSummary, AppendSummary, Returns, Dies,
                  GoOn, Enter, WalkFails, Create, walkVars
    <3> QED BY <1>1, <1>5, <2>1, <3>1 DEF fsVars
  <2>2. ASSUME NEW d \in ByEgret, Makes(d) PROVE SafeInv'
    <3>1. step \in Prepared => entry'[Temp][SafeName] = Dir(Safe)
      <4>1. step \in Prepared => entry[Temp][SafeName] # entry[handle][Head(rest)]
        BY <2>2, MakesIs, ADir, NotThere DEF SafeInv
      <4> QED BY <1>0, <2>2, <4>1, MakesIs, PutEntry DEF SafeInv
    <3> QED BY <1>5, <2>2, <3>1, MakesIs DEF SafeInv, walkVars
  <2>3. CASE Rename
    <3>1. \A d \in Directories, f \in Files : d # out => file'[d][f] = file[d][f]
      BY <2>3, RenameIs, PutFile
    <3>2. OfEgret \subseteq Directories
      BY WriteAssumption, JobAssumption DEF OfEgret
    <3> QED BY <1>5, <2>3, <3>1, <3>2 DEF SafeInv, Rename, walkVars
  <2> QED BY <1>5, <2>1, <2>2, <2>3, KindsOfCall
<1>6. CASE BuildStep /\ UNCHANGED step
  <2>1. ASSUME NEW p \in Plantable, NEW e \in Planted, Plant(p[1], p[2], e) PROVE SafeInv'
    <3>1. /\ p[1] \in Directories /\ p[2] \in Names /\ e \in Entries
          /\ entry' = [entry EXCEPT ![p[1]][p[2]] = e]
          /\ p[1] \in Sticky => entry[p[1]][p[2]].to \notin Owned
          /\ p[1] \notin Owned
      BY <2>1, PlantIs
    <3>2. step \in Prepared => p[1] # Temp \/ p[2] # SafeName
      BY <1>0, <3>1, ADir DEF SafeInv, Owned
    <3>3. step \in Prepared => entry'[Temp][SafeName] = Dir(Safe)
      BY <1>0, <3>1, <3>2, PutEntry DEF SafeInv
    <3> QED BY <1>6, <2>1, <3>3 DEF SafeInv, Plant, walkVars
  <2>2. ASSUME NEW d \in ByBuild, NEW what \in {"none", "planted", "directory"}, PlantFile(d, what)
        PROVE  SafeInv'
    <3>1. d \in Directories \ OfEgret /\ "report.json" \in Files /\ OfEgret \subseteq Directories
      BY WriteAssumption, JobAssumption DEF Files, OfEgret
    <3>2. \A d2 \in OfEgret, f \in Files : file'[d2][f] = file[d2][f]
      BY <2>2, <3>1, PutFile DEF PlantFile
    <3> QED BY <1>6, <2>2, <3>2 DEF SafeInv, PlantFile, walkVars
  <2>3. CASE UNCHANGED <<fsVars, walkVars>>
    BY <1>1, <1>6, <2>3 DEF fsVars, walkVars
  <2> QED BY <1>6, <2>1, <2>2, <2>3 DEF BuildStep, PlantTemp, BuildEnds
<1> QED BY <1>2, <1>3, <1>4, <1>5, <1>6, KindsOfStep

(* Where the report path leads, once the safe directory is there: through
   root's directories and then through Egret's, or nowhere. *)
LEMMA SafeReportIs ==
  ASSUME FilesType, EntryInv, SafeInv, step \in Prepared
  PROVE  SafeReport \in made \cup {Nowhere}
<1> DEFINE along == Along(ReportPath, Now, Directories)
<1>1. ReportPath \in Seq(Names)
  BY JobAssumption
<1> DEFINE Reached(k, at) ==
             /\ at[0] = Slash /\ at[k - 1] = Temp /\ ReportPath[k] = SafeName
             /\ \A i \in 1..(k - 1) :
                  /\ at[i - 1] \in RootOnly /\ Layout[at[i - 1]][ReportPath[i]].to = at[i]
                  /\ << at[i - 1], ReportPath[i] >> \notin DOMAIN Via
<1>0. PICK k \in 1..Len(ReportPath) : \E at \in [0..(k - 1) -> Directories] : Reached(k, at)
  BY JobAssumption
<1>2. PICK at \in [0..(k - 1) -> Directories] : Reached(k, at)
  BY <1>0
<1> HIDE DEF along
<1>3. along[0] = Slash /\ \A i \in 1..Len(ReportPath) :
        along[i] = IF along[i - 1] \in Directories THEN Now[along[i - 1]][ReportPath[i]].to ELSE Nowhere
  BY <1>1, AlongSteps DEF along
<1> DEFINE T == {n \in Nat : n <= Len(ReportPath) =>
                   /\ n <= k - 1 => along[n] = at[n]
                   /\ n >= k => along[n] \in made \cup {Nowhere}}
<1>4. 0 \in T
  <2>1. along[0] = at[0] /\ 0 \in Nat /\ ~ (0 >= k)
    BY <1>2, <1>3
  <2> HIDE DEF Reached
  <2> QED BY <2>1
<1> HIDE DEF Reached
<1>5. ASSUME NEW n \in T PROVE n + 1 \in T
  <2> SUFFICES ASSUME n + 1 <= Len(ReportPath)
               PROVE  /\ n + 1 <= k - 1 => along[n + 1] = at[n + 1]
                      /\ n + 1 >= k => along[n + 1] \in made \cup {Nowhere}
    OBVIOUS
  <2>1. n \in Nat /\ n + 1 \in 1..Len(ReportPath) /\ (n + 1) - 1 = n /\ Len(ReportPath) \in Nat
    <3>1. n \in Nat
      OBVIOUS
    <3>2. Len(ReportPath) \in Nat
      BY ONLY <1>1
    <3> QED BY ONLY <3>1, <3>2, n + 1 <= Len(ReportPath)
  <2>2. ReportPath[n + 1] \in Names
    BY ONLY <1>1, <2>1
  <2>3. along[n + 1] = IF along[n] \in Directories THEN Opens(along[n], ReportPath[n + 1]) ELSE Nowhere
    <3>1. along[n + 1] = IF along[(n + 1) - 1] \in Directories
                         THEN Now[along[(n + 1) - 1]][ReportPath[n + 1]].to ELSE Nowhere
      BY ONLY <1>3, <2>1, Zenon
    <3>2. along[(n + 1) - 1] = along[n]
      BY ONLY <2>1, Zenon
    <3>3. along[n] \in Directories =>
            Now[along[n]][ReportPath[n + 1]].to = Opens(along[n], ReportPath[n + 1])
      BY <2>2, OpensIs
    <3> QED BY ONLY <3>1, <3>2, <3>3, Zenon
  <2>4. CASE n + 1 <= k - 1
    <3>1. n \in 0..(k - 1) /\ n + 1 \in 1..(k - 1) /\ ~ (n + 1 >= k) /\ n <= Len(ReportPath)
      BY <1>1, <2>1, <2>4
    <3>2. along[n] = at[n] /\ at[n] \in RootOnly /\ at[n] \in Directories /\ at[n + 1] \in Directories
          /\ Layout[at[n]][ReportPath[n + 1]].to = at[n + 1]
          /\ << at[n], ReportPath[n + 1] >> \notin DOMAIN Via
      BY <1>2, <2>1, <3>1 DEF Reached
    <3>3. Layout[at[n]][ReportPath[n + 1]] # NoEntry
      BY <3>2, NotThere, WriteAssumption
    <3>4. entry[at[n]][ReportPath[n + 1]] = Layout[at[n]][ReportPath[n + 1]]
      BY <2>2, <3>2, <3>3 DEF EntryInv
    <3>5. Opens(at[n], ReportPath[n + 1]) = at[n + 1]
      BY <2>2, <3>2, <3>4, OpensIs
    <3> QED BY <2>3, <3>1, <3>2, <3>5
  <2>5. CASE n + 1 = k
    <3>1. n = k - 1 /\ ~ (n + 1 <= k - 1) /\ n <= Len(ReportPath)
      BY <2>1, <2>5
    <3>2. along[n] = Temp /\ ReportPath[n + 1] = SafeName /\ Temp \in Directories
      BY <1>2, <2>5, <3>1, JobAssumption, WriteAssumption DEF Reached
    <3>4. << Temp, SafeName >> \notin DOMAIN Via
      BY <2>2, <3>2, OpensIs, JobAssumption, NotThere
    <3>5. Opens(Temp, SafeName) = Safe
      BY <2>2, <3>2, <3>4, OpensIs, ADir DEF SafeInv
    <3>3. along[n + 1] = Safe
      BY <2>3, <3>2, <3>5
    <3> QED BY <3>1, <3>3 DEF SafeInv
  <2>6. CASE n + 1 > k
    <3>1. n >= k /\ ~ (n + 1 <= k - 1) /\ n <= Len(ReportPath)
      BY <2>1, <2>6
    <3>2. along[n] \in made \cup {Nowhere}
      BY <3>1
    <3>3. along[n] \in made => Opens(along[n], ReportPath[n + 1]) \in made \cup {Nowhere}
      <4> SUFFICES ASSUME along[n] \in made PROVE Opens(along[n], ReportPath[n + 1]) \in made \cup {Nowhere}
        OBVIOUS
      <4>1. along[n] \in OfEgret /\ along[n] \in Directories /\ along[n] \notin RootOnly
        BY WriteAssumption, JobAssumption DEF FilesType, OfEgret
      <4>2. Opens(along[n], ReportPath[n + 1]) = entry[along[n]][ReportPath[n + 1]].to
        BY <2>2, <4>1, OpensIs
      <4> QED BY <2>2, <4>1, <4>2, NotThere DEF EntryInv
    <3>4. Nowhere \notin Directories /\ made \subseteq Directories
      BY WriteAssumption, JobAssumption DEF FilesType, OfEgret
    <3> QED BY <2>3, <3>1, <3>2, <3>3, <3>4
  <2> QED BY <2>1, <2>4, <2>5, <2>6
<1>6. T = Nat
  <2>1. T \in SUBSET Nat
    OBVIOUS
  <2> HIDE DEF T
  <2> QED BY <1>4, <1>5, <2>1, AllNumbers
<1>7. Len(ReportPath) \in Nat /\ Len(ReportPath) >= k
  BY <1>1
<1>8. along[Len(ReportPath)] \in made \cup {Nowhere}
  BY <1>6, <1>7
<1> QED BY <1>8 DEF SafeReport, LeadsTo, along

(* So the report that is there is the one that Egret wrote. *)
LEMMA ReportIsOut ==
  ASSUME FilesType, EntryInv, SafeInv, step \in Prepared, HasReport
  PROVE  SafeReport = out /\ out # Nowhere
<1>1. SafeReport \in OfEgret
  BY SafeReportIs DEF HasReport, FilesType
<1>2. file[SafeReport]["report.json"] # "none" /\ "report.json" \in Files
  BY DEF HasReport, Files
<1> QED BY <1>1, <1>2 DEF SafeInv, HasReport


-----------------------------------------------------------------------------
(* The verdict, a step at a time. *)
LEMMA OutcomeInit == Init => OutcomeInv
BY DEF Init, OutcomeInv, Reported

(* Once Egret has returned, neither it nor the build does anything. *)
LEMMA NobodyWrites ==
  ASSUME StageInv, step \in Reported \cup {"exited"}
  PROVE  ~ WriterStep /\ ~ BuildStep
<1>1. wpc \in {"idle"} \cup Ended /\ (wpc = "idle" => ~ alive)
  BY DEF StageInv, Reported
<1>2. ~ WriterStep
  <2>1. WriterStep => wpc \notin {"idle"} \cup Ended
    BY DEF WriterStep, BeginWrite, OpenComponent, Mkdirat, CheckLink, Follow, SystemCallFails, Opened,
           CreateTemp, Fill, Rename, WriteFails, OpenSummary, AppendSummary, Returns, AllWritten, Dies,
           Writing, Ended
  <2> QED BY <1>1, <2>1
<1>3. BuildStep => alive /\ wpc \notin Ended
  BY DEF BuildStep, Plant, MayPlant, PlantFile, PlantTemp, BuildEnds
<1> QED BY <1>1, <1>2, <1>3

(* Up to the start of Egret there is no outcome, and the end is a failure. *)
Before == step \notin Reported \cup {"exited"}

LEMMA NoOutcomeYet ==
  ASSUME OutcomeInv, Before
  PROVE  rc = -1 /\ counted = -1 /\ status = -1
BY DEF OutcomeInv, Before, Reported

EarlyEnd == step' = "exited" /\ status' = 1 /\ UNCHANGED runVars

LEMMA EarlySteps ==
  ASSUME StageInv, OutcomeInv, Before, [Next]_vars, ~ \E formats : RunEgret(formats),
         ~ \E n \in 0..MaxFound : EgretReturns(n)
  PROVE  \/ EarlyEnd
         \/ UNCHANGED <<found, rc, counted, status>> /\ step' \notin Reported \cup {"exited"}
<1> DEFINE Goes == UNCHANGED <<found, rc, counted, status>> /\ step' \notin Reported \cup {"exited"}
<1> USE DEF Proceed, runVars, Reported, Before
<1>1. CASE InstallStep
  BY <1>1 DEF InstallStep, ResolveTag, VerifySignature, VerifyChecksum, PublishDigest, Fetch, FetchSums,
              SkipSignature, BuildFromSource, ExitEarly, Exit, EarlyEnd
<1>2. ASSUME NEW b, SwapBinary(b) PROVE Goes
  BY <1>2 DEF SwapBinary
<1>3. ASSUME NEW choice, Publish(choice) PROVE FALSE
  BY <1>3 DEF Publish
<1>4. CASE BeginRun \/ CandidateFails \/ CompareDigest
  BY <1>4 DEF BeginRun, CandidateFails, CompareDigest, ExitEarly, Exit, EarlyEnd
<1>5. CASE TryCandidate
  BY <1>5 DEF TryCandidate
<1>6. ASSUME NEW path, NEW formats \in Requests, CallDirectly(path, formats) PROVE Goes
  BY <1>6 DEF CallDirectly
<1>7. CASE TakeReport \/ CountViolations
  BY <1>7 DEF TakeReport, CountViolations
<1>8. CASE (WriterStep \/ BuildStep) /\ UNCHANGED <<step, installVars, runVars, status>>
  BY <1>8
<1>9. CASE Done \/ DirectDone \/ UNCHANGED vars
  BY <1>9 DEF Done, DirectDone, vars
<1> QED BY <1>1, <1>2, <1>3, <1>4, <1>5, <1>6, <1>7, <1>8, <1>9 DEF Next, InstallStep

(* After it there are four steps left, and no other. *)
LEMMA LateSteps ==
  ASSUME StageInv, ~ Before, [Next]_vars
  PROVE  \/ TakeReport \/ CountViolations \/ (\E choice \in BOOLEAN : Publish(choice))
         \/ UNCHANGED vars
<1> USE DEF Reported, Before
<1>1. ~ InstallStep
  BY DEF InstallStep, ResolveTag, VerifySignature, VerifyChecksum, PublishDigest, Fetch, FetchSums,
         SkipSignature, BuildFromSource
<1>2. ASSUME NEW b PROVE ~ SwapBinary(b)
  BY DEF SwapBinary
<1>3. ~ BeginRun /\ ~ CandidateFails /\ ~ CompareDigest /\ ~ TryCandidate /\ ~ DirectDone
  BY DEF BeginRun, CandidateFails, CompareDigest, TryCandidate, DirectDone
<1>4. ASSUME NEW p, NEW x PROVE ~ CallDirectly(p, x) /\ ~ RunEgret(x) /\ ~ EgretReturns(x)
  BY DEF CallDirectly, RunEgret, EgretReturns
<1>5. ~ WriterStep /\ ~ BuildStep
  BY NobodyWrites
<1>6. Done => UNCHANGED vars
  BY DEF Done
<1> QED BY <1>1, <1>2, <1>3, <1>4, <1>5, <1>6 DEF Next, InstallStep

LEMMA SameReport ==
  ASSUME UNCHANGED reportVars
  PROVE  HasReport' = HasReport /\ SafeReport' = SafeReport
BY DEF HasReport, SafeReport, LeadsTo, Now, Opens, reportVars

LEMMA OutcomeStep ==
  ASSUME FilesType, CallsType, StageInv, VerifiedInv, EntryInv, SafeInv, OutcomeInv, [Next]_vars
  PROVE  OutcomeInv'
<1> USE DEF OutcomeInv, Reported
<1>1. CASE Before
  <2>1. ASSUME NEW formats, RunEgret(formats) PROVE OutcomeInv'
    BY <1>1, <2>1, NoOutcomeYet DEF RunEgret, Launch, Proceed, Before
  <2>2. ASSUME NEW n \in 0..MaxFound, EgretReturns(n) PROVE OutcomeInv'
    <3>1. n \in Nat
      BY JobAssumption
    <3>2. rc' = 0 => wpc' = "ok"
      BY <2>2 DEF EgretReturns, reportVars
    <3> QED BY <1>1, <2>2, <3>1, <3>2, NoOutcomeYet DEF EgretReturns, Proceed
  <2>3. CASE EarlyEnd
    BY <1>1, <2>3, NoOutcomeYet DEF EarlyEnd, runVars
  <2>4. CASE UNCHANGED <<found, rc, counted, status>> /\ step' \notin Reported \cup {"exited"}
    BY <1>1, <2>4, NoOutcomeYet
  <2> QED BY <1>1, <2>1, <2>2, <2>3, <2>4, EarlySteps
<1>2. CASE ~ Before
  <2>1. CASE step = "report" /\ TakeReport
    BY <2>1, SameReport DEF TakeReport, ExitEarly, Exit, Proceed, runVars, reportVars
  <2>2. CASE step = "count" /\ CountViolations
    <3>1. CASE ExitEarly
      BY <2>2, <3>1 DEF ExitEarly, Exit, runVars
    <3>2. CASE ~ ExitEarly
      <4>1. SafeReport = out /\ out # Nowhere
        BY <2>2, ReportIsOut DEF Prepared, Running
      <4>2. wpc \in {"idle"} \cup Ended /\ (wpc = "idle" => out = Nowhere)
        BY <2>2 DEF StageInv
      <4>3. /\ file[SafeReport]["report.json"] = "whole" /\ counted' = found /\ step' = "publish"
            /\ UNCHANGED <<found, rc, status, reportVars>>
        BY <2>2, <3>2 DEF CountViolations, Countable, Proceed
      <4>4. HasReport'
        BY <2>2, <4>3, SameReport
      <4> QED BY <2>2, <4>1, <4>2, <4>3, <4>4 DEF reportVars
    <3> QED BY <3>1, <3>2
  <2>3. ASSUME NEW choice \in BOOLEAN, Publish(choice) PROVE OutcomeInv'
    BY <2>3 DEF Publish, Exit, runVars, walkVars
  <2>4. CASE UNCHANGED vars
    BY <2>4, SameReport DEF vars, runVars, reportVars
  <2> QED BY <1>2, <2>1, <2>2, <2>3, <2>4, LateSteps DEF TakeReport, CountViolations
<1> QED BY <1>1, <1>2

(* entrypoint.sh: the job's status is 0 only for a command that exited with 0
   under the recorded binary, with its report whole and, where violations fail
   the job, none in it; no other step ends the job with 0; and the violations
   output is the number that Egret found, whatever the build did to the paths. *)
THEOREM VerdictIsEarnedHolds == Spec => VerdictIsEarned
<1> DEFINE Safely == FilesType /\ CallsType /\ StageInv /\ VerifiedInv /\ EntryInv /\ WalkInv
           Settled == SafeInv /\ OutcomeInv
           Earns == /\ \A f \in BOOLEAN : Publish(f) /\ status' = 0 => Earned(f)
                    /\ status' = 0 => step \in {"publish", "exited"}
                    /\ counted' # -1 => counted' = found /\ file[out]["report.json"] = "whole"
<1>1. Init => Settled
  BY SafeInit, OutcomeInit
<1>2. Safely /\ Settled /\ [Next]_vars => Settled'
  BY SafeStep, OutcomeStep
<1>3. ASSUME Safely, Settled, [Next]_vars PROVE Earns
  <2>1. ASSUME NEW f \in BOOLEAN, Publish(f), status' = 0 PROVE Earned(f)
    <3>1. step = "publish" /\ rc = 0 /\ (f => ~ (counted > 0))
      BY <2>1 DEF Publish, Exit, Verdict
    <3>2. wpc = "ok" /\ copy = sha /\ HasReport /\ counted = found /\ found \in Nat
          /\ file[out]["report.json"] = "whole"
      BY <1>3, <3>1 DEF OutcomeInv, Reported, VerifiedInv, Running
    <3>3. out = SafeReport
      BY <1>3, <3>1, <3>2, ReportIsOut DEF Prepared, Running
    <3> QED BY <3>1, <3>2, <3>3 DEF Earned
  <2>2. CASE Before
    <3>1. UNCHANGED <<counted, status>> \/ (counted' = counted /\ status' = 1)
      <4>1. ASSUME NEW x, RunEgret(x) \/ EgretReturns(x) PROVE UNCHANGED <<counted, status>>
        BY <4>1 DEF RunEgret, EgretReturns, Proceed
      <4> QED BY <1>3, <2>2, <4>1, EarlySteps DEF EarlyEnd, runVars
    <3>2. counted = -1 /\ status = -1
      BY <1>3, <2>2, NoOutcomeYet
    <3>3. \A f \in BOOLEAN : ~ Publish(f)
      BY <2>2 DEF Publish, Before, Reported
    <3> QED BY <3>1, <3>2, <3>3
  <2>3. CASE ~ Before
    <3>1. CASE step = "report" /\ TakeReport
      <4>1. UNCHANGED counted /\ (status' = status \/ status' = 1)
        BY <3>1 DEF TakeReport, ExitEarly, Exit, Proceed, runVars
      <4>2. counted = -1 /\ status = -1
        BY <1>3, <3>1 DEF OutcomeInv
      <4> QED BY <2>1, <4>1, <4>2
    <3>2. CASE step = "count" /\ CountViolations
      <4>1. \/ UNCHANGED counted
            \/ counted' = found /\ file[SafeReport]["report.json"] = "whole"
        BY <3>2 DEF CountViolations, Countable, ExitEarly, runVars
      <4>2. status' = status \/ status' = 1
        BY <3>2 DEF CountViolations, Proceed, ExitEarly, Exit
      <4>3. counted = -1 /\ status = -1 /\ SafeReport = out
        BY <1>3, <3>2, ReportIsOut DEF OutcomeInv, Prepared, Running
      <4> QED BY <2>1, <4>1, <4>2, <4>3
    <3>3. ASSUME NEW choice \in BOOLEAN, Publish(choice) PROVE Earns
      <4>1. step = "publish" /\ counted' = counted
        BY <3>3 DEF Publish, runVars
      <4>2. counted = found /\ file[out]["report.json"] = "whole"
        BY <1>3, <4>1 DEF OutcomeInv
      <4> QED BY <2>1, <4>1, <4>2
    <3>4. CASE UNCHANGED vars
      <4>1. counted' = counted /\ status' = status
        BY <3>4 DEF vars, runVars
      <4>2. counted # -1 => counted = found /\ file[out]["report.json"] = "whole"
        BY <1>3 DEF OutcomeInv
      <4>3. status = 0 => step \in {"publish", "exited"}
        BY <1>3 DEF OutcomeInv
      <4> QED BY <2>1, <4>1, <4>2, <4>3
    <3> QED BY <1>3, <2>3, <3>1, <3>2, <3>3, <3>4, LateSteps DEF TakeReport, CountViolations
  <2> QED BY <2>2, <2>3
<1>4. Safely /\ Settled /\ [Next]_vars => [Earns]_vars
  BY <1>3
<1>5. Spec => []Safely
  BY AlwaysSafe
<1> HIDE DEF Safely, Settled, Earns
<1>6. Spec => [][Earns]_vars
  BY <1>1, <1>2, <1>4, <1>5, PTL DEF Spec
<1> QED BY <1>6 DEF Earns, VerdictIsEarned
=============================================================================
