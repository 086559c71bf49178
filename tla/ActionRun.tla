------------------------------ MODULE ActionRun ------------------------------
(***************************************************************************)
(* entrypoint.sh: the install step of the action fetches and verifies the  *)
(* binary, other things happen in the job, the run step copies the binary  *)
(* to a directory of root's, runs the command under it, and makes its own  *)
(* exit status from the command's, the report and the inputs.  `set -e`    *)
(* ends a step at the first call that fails.                               *)
(*                                                                         *)
(* An input is chosen where the script reads it.  A binary is known by     *)
(* where it came from: "release" is what the signed SHA256SUMS lists.      *)
(* Egret is its report writer (ReportWrite) and an exit code.              *)
(***************************************************************************)
EXTENDS ReportWrite, Integers

CONSTANTS
  Temp, Safe,     \* /var/tmp, /tmp, /opt or /usr/local/lib; what mktemp makes there
  SafeName,       \* its name
  ReportPath,     \* --output-dir of the run step
  UserPaths,      \* report directories of someone who calls egret himself
  Requests,       \* sets of formats the policy's report section can ask for
  MaxFound        \* violations in a report

(* A candidate is reached through root's directories alone; mktemp makes a new
   directory there, in which the report's is. *)
ASSUME JobAssumption ==
  /\ MaxFound \in Nat
  /\ Requests \subseteq SUBSET Formats
  /\ UserPaths \subseteq Seq(Names) /\ ReportPath \in Seq(Names)
  /\ Temp \in Sticky \cup RootOnly /\ SafeName \in Names /\ Layout[Temp][SafeName] = NoEntry
  /\ Safe \in Directories \ (RootOnly \cup ByBuild \cup ByEgret)
  /\ \A n \in Names : Layout[Safe][n] = NoEntry /\ << Safe, n >> \notin Plantable
  /\ \E k \in 1..Len(ReportPath) : \E at \in [0..(k - 1) -> Directories] :
       /\ at[0] = Slash /\ at[k - 1] = Temp /\ ReportPath[k] = SafeName
       /\ \A i \in 1..(k - 1) :
            /\ at[i - 1] \in RootOnly /\ Layout[at[i - 1]][ReportPath[i]].to = at[i]
            /\ << at[i - 1], ReportPath[i] >> \notin DOMAIN Via

Binaries == {"none", "release", "other", "source"}

VARIABLES
  step,      \* what the job does next
  bin,       \* the binary in INSTALL_DIR, which the runner's user owns
  sums,      \* the binary that the downloaded SHA256SUMS lists
  signed,    \* cosign verified it
  vetted,    \* the binary whose digest was verified, or that was built
  sha,       \* the sha256 output of the install step
  copy,      \* the binary in the safe directory
  found,     \* violations in the report that Egret writes
  rc,        \* exit code of `egret run`
  counted,   \* the violations output, or -1
  status     \* exit status of the step that ended the job, or -1

installVars == <<bin, sums, signed, vetted, sha>>
runVars == <<copy, found, rc, counted>>
vars == <<step, installVars, runVars, status, reportVars>>

Init ==
  /\ InitReport
  /\ step = "tag"
  /\ bin = "none" /\ sums = "none" /\ signed = FALSE /\ vetted = "none" /\ sha = "none"
  /\ copy = "none" /\ found = 0 /\ rc = -1
  /\ counted = -1 /\ status = -1

Proceed(next) == step' = next /\ UNCHANGED status

(* The step ends; the trap set in cmd_run removes the safe directory. *)
Exit(code) ==
  /\ step' = "exited" /\ status' = code
  /\ entry' = [entry EXCEPT ![Temp][SafeName] = NoEntry]
  /\ UNCHANGED <<installVars, made, file, tmp, wpc, walkVars, todo, asked, alive>>

ExitEarly == Exit(1) /\ UNCHANGED runVars

-----------------------------------------------------------------------------
(* cmd_install. *)

(* `version`, or the lookup of the latest: a release tag, or no tag if the
   lookup failed.  A malformed tag or token ends the step. *)
ResolveTag ==
  /\ step = "tag"
  /\ \/ \E next \in {"fetch", "fallback"} :
          Proceed(next) /\ UNCHANGED <<installVars, runVars, reportVars>>
     \/ ExitEarly

(* A download that fails for good may have left another file, a part of it. *)
Fetch(b) ==
  /\ step = "fetch"
  /\ bin' = b
  /\ \E next \in {"sums", "fallback"} : Proceed(next)
  /\ UNCHANGED <<sums, signed, vetted, sha, runVars, reportVars>>

FetchSums(listed) ==
  /\ step = "sums"
  /\ \/ sums' = listed /\ Proceed("signature")
        /\ UNCHANGED <<bin, signed, vetted, sha, runVars, reportVars>>
     \/ ExitEarly

(* verify_signature with cosign: no bundle or no match ends the step. *)
VerifySignature ==
  /\ step = "signature"
  /\ \/ sums = "release" /\ signed' = TRUE /\ Proceed("digest")
        /\ UNCHANGED <<bin, sums, vetted, sha, runVars, reportVars>>
     \/ ExitEarly

(* Without cosign: a warning, or the end with require-signature. *)
SkipSignature(required) ==
  /\ step = "signature"
  /\ IF required THEN ExitEarly
     ELSE Proceed("digest") /\ UNCHANGED <<installVars, runVars, reportVars>>

(* verify_checksum hashes the binary. *)
VerifyChecksum ==
  /\ step = "digest"
  /\ IF sums # bin THEN ExitEarly
     ELSE vetted' = bin /\ Proceed("record")
          /\ UNCHANGED <<bin, sums, signed, sha, runVars, reportVars>>

(* publish_digest hashes it again. *)
PublishDigest ==
  /\ step = "record"
  /\ sha' = bin /\ Proceed("installed")
  /\ UNCHANGED <<bin, sums, signed, vetted, runVars, reportVars>>

(* allow-build-from-source. *)
BuildFromSource(allowed) ==
  /\ step = "fallback"
  /\ \/ /\ allowed
        /\ bin' = "source" /\ vetted' = "source" /\ Proceed("record")
        /\ UNCHANGED <<sums, signed, sha, runVars, reportVars>>
     \/ ExitEarly

-----------------------------------------------------------------------------
(* The rest of the job can write to INSTALL_DIR, until the binary is compared;
   what an earlier step left running also between the two hashes. *)
SwapBinary(b) ==
  /\ step \in {"record", "installed", "candidate", "compare"}
  /\ bin' = b
  /\ UNCHANGED <<step, status, sums, signed, vetted, sha, runVars, reportVars>>

(* `command` is empty, and a later step calls what it finds in INSTALL_DIR, egret
   if nobody swapped it, with a report directory of its own. *)
CallDirectly(path, formats) ==
  /\ step = "installed" /\ bin = sha /\ Proceed("direct")
  /\ Launch(path, formats)
  /\ UNCHANGED <<installVars, runVars>>

-----------------------------------------------------------------------------
(* cmd_run. *)

BeginRun ==
  /\ step = "installed"
  /\ \/ Proceed("candidate") /\ UNCHANGED <<installVars, runVars, reportVars>>
     \/ ExitEarly      \* pull_request_target

(* One turn of the loop over base directories: mktemp, chmod, install, and
   `egret version` as root, which proves that the directory is not noexec. *)
TryCandidate ==
  /\ step = "candidate"
  /\ copy' = bin
  /\ entry' = [entry EXCEPT ![Temp][SafeName] = Dir(Safe)] /\ made' = made \cup {Safe}
  /\ Proceed("compare")
  /\ UNCHANGED <<installVars, found, rc, counted, file, tmp, wpc, walkVars, todo, asked, alive>>

CandidateFails ==
  /\ step = "candidate"
  /\ \/ Proceed("candidate") /\ UNCHANGED <<installVars, runVars, reportVars>>
     \/ ExitEarly      \* it was the last one

(* Mutant: the digest of the installed binary is compared, not the copy's. *)
CheckedInstalled == bin

Checked == copy

(* The sha256 comparison, and the mode input. *)
CompareDigest ==
  /\ step = "compare"
  /\ \/ Checked = sha /\ Proceed("egret") /\ UNCHANGED <<installVars, runVars, reportVars>>
     \/ ExitEarly

(* `egret run` as root; it may stop before it starts the command. *)
RunEgret(formats) ==
  /\ step = "egret" /\ wpc = "idle"
  /\ \/ Launch(ReportPath, formats) /\ Proceed("egret") /\ UNCHANGED rc
     \/ rc' = 1 /\ Proceed("report") /\ UNCHANGED reportVars
  /\ UNCHANGED <<installVars, copy, found, counted>>

(* n violations are in its report.  Its exit code is the command's if the report
   was written, and never 0 if not. *)
EgretReturns(n) ==
  /\ step = "egret" /\ wpc \in Ended
  /\ found' = n
  /\ rc' \in IF wpc = "ok" THEN {0, 1} ELSE {1}
  /\ Proceed("report")
  /\ UNCHANGED <<installVars, copy, counted, reportVars>>

SafeReport == LeadsTo(ReportPath)
HasReport == SafeReport # Nowhere /\ file[SafeReport]["report.json"] \in {"half", "whole"}

(* No report, or rm, cp, or `egret report` for the SARIF fails: the end. *)
TakeReport ==
  /\ step = "report"
  /\ \/ HasReport /\ Proceed("count") /\ UNCHANGED <<installVars, runVars, reportVars>>
     \/ ExitEarly

(* count_violations: jq or python3 reads it. *)
Countable(content) == content = "whole"

CountViolations ==
  /\ step = "count"
  /\ \/ /\ Countable(file[SafeReport]["report.json"])
        /\ counted' = found /\ Proceed("publish")
        /\ UNCHANGED <<installVars, copy, found, rc, reportVars>>
     \/ ExitEarly

(* Mutant: the violations are not looked at. *)
VerdictOfCommand(failOnViolations) == rc

Verdict(failOnViolations) == IF failOnViolations /\ counted > 0 THEN 1 ELSE rc

(* Publishing only warns when it fails, so the verdict is all that is left. *)
Publish(failOnViolations) ==
  /\ step = "publish"
  /\ Exit(Verdict(failOnViolations))
  /\ UNCHANGED runVars

Done == step = "exited" /\ UNCHANGED vars
DirectDone == step = "direct" /\ wpc \in Ended /\ UNCHANGED vars

Next ==
  \/ ResolveTag \/ VerifySignature \/ VerifyChecksum \/ PublishDigest
  \/ \E b \in {"release", "other"} : Fetch(b) \/ SwapBinary(b)
  \/ \E b \in {"none", "release", "other"} : FetchSums(b)
  \/ \E choice \in BOOLEAN : SkipSignature(choice) \/ BuildFromSource(choice) \/ Publish(choice)
  \/ BeginRun \/ TryCandidate \/ CandidateFails \/ CompareDigest
  \/ \E formats \in Requests : RunEgret(formats) \/ \E path \in UserPaths : CallDirectly(path, formats)
  \/ \E n \in 0..MaxFound : EgretReturns(n)
  \/ TakeReport \/ CountViolations
  \/ (WriterStep \/ BuildStep) /\ UNCHANGED <<step, installVars, runVars, status>>
  \/ Done \/ DirectDone

Spec == Init /\ [][Next]_vars

-----------------------------------------------------------------------------
TypeOK ==
  /\ step \in {"tag", "fetch", "fallback", "sums", "signature", "digest", "record", "installed",
               "direct", "candidate", "compare", "egret", "report", "count", "publish", "exited"}
  /\ {bin, sums, vetted, sha, copy} \subseteq Binaries /\ signed \in BOOLEAN
  /\ found \in 0..MaxFound /\ counted \in -1..MaxFound
  /\ rc \in {-1, 0, 1} /\ status \in {-1, 0, 1}

(* "Without one, the count below would read 0 violations": the job's verdict is
   0 only if the command's was, under the binary that the install step recorded,
   and the report is whole and has no violation that was to fail the job; and
   what the violations output says is always what Egret found. *)
Earned(failOnViolations) ==
  /\ rc = 0 /\ wpc = "ok" /\ copy = sha /\ out = SafeReport
  /\ file[out]["report.json"] = "whole"
  /\ failOnViolations => found = 0

VerdictIsEarned ==
  [][/\ \A f \in BOOLEAN : Publish(f) /\ status' = 0 => Earned(f)
     /\ status' = 0 => step \in {"publish", "exited"}
     /\ counted' # -1 => counted' = found /\ file[out]["report.json"] = "whole"]_vars

(* "Egret cannot prove this binary is the one it verified": the command runs
   under the binary that the install step recorded, whatever the job did to
   INSTALL_DIR "after this step"; and if that is the binary it had verified, not
   one swapped in before publish_digest hashed it again, it is the signed release
   if a signature was verified, else what the sums list or what was built. *)
EgretIsVerified ==
  step = "egret" =>
    /\ copy = sha /\ copy # "none"
    /\ sha = vetted => (signed => copy = "release") /\ (copy = "source" \/ copy = sums)
=============================================================================
