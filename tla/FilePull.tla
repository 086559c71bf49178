------------------------------ MODULE FilePull ------------------------------
(***************************************************************************)
(* `egret audit --open-pr` by several jobs at once: the suggested policy is *)
(* written to a branch, which is created at or reset to the base branch,    *)
(* and a pull request is opened or found.  Each request is a step; GitHub   *)
(* keeps the branches, and people push, merge, close and delete.            *)
(*                                                                         *)
(* A commit of the base branch is [number, file]: file is the policy there. *)
(***************************************************************************)
EXTENDS Naturals, FiniteSets

CONSTANTS
  Audits,       \* jobs that run the command
  Seen,         \* Seen[j]: connections of its report, records [domain, addr]
  Lower,        \* Lower[n]: strings.ToLower
  NoName,       \* no domain, no address, no file, no branch
  ByHand,       \* policies people commit
  MaxCommits,   \* bound on the commits people push
  MaxOutside,   \* bound on what people do to branch and pull request
  MaxRefused    \* bound on the requests that fail

ASSUME PullAssumption ==
  /\ \A j \in Audits : \A c \in Seen[j] : c.domain = NoName \/ c.domain \in DOMAIN Lower
  /\ NoName \notin ByHand /\ MaxCommits \in Nat /\ MaxOutside \in Nat /\ MaxRefused \in Nat

VARIABLES
  base,      \* head of the base branch
  branch,    \* egret/update-allowlist: [from, file, ahead], or NoName
  pull,      \* its pull request: [open, num]
  work,      \* work[j]: the command of j
  outside, refused

pullVars == <<base, branch, pull, work, outside, refused>>

(* audit.Analyze: the names; what was reached without one is only listed. *)
Analyze(conns) == {Lower[c.domain] : c \in {d \in conns : d.domain # NoName}}

(* Suggestion.Policy. *)
Suggestion(j) == [mode |-> "block", endpoints |-> Analyze(Seen[j])]

Files == ByHand \cup {NoName} \cup {Suggestion(j) : j \in Audits}
Commits == [number : Nat, file : Files]
Branches == [from : Commits, file : Files, ahead : BOOLEAN]

ASSUME NoBranchAssumption == NoName \notin Branches

(* alone: nobody else has touched branch or pull request since j began. *)
PullInit(active) ==
  /\ base \in {[number |-> 0, file |-> f] : f \in ByHand \cup {NoName}}
  /\ branch = NoName
  /\ pull = [open |-> FALSE, num |-> 0]
  /\ work = [j \in Audits |-> [phase |-> IF j \in active THEN "start" ELSE "never", saw |-> base,
                               sha |-> NoName, num |-> 0, alone |-> TRUE]]
  /\ outside = 0 /\ refused = 0

Exists == branch # NoName
AtBase(commit) == [from |-> commit, file |-> commit.file, ahead |-> FALSE]

(* j does something the others did not expect. *)
Moves(j, phase) ==
  work' = [k \in Audits |-> IF k = j THEN [work[k] EXCEPT !.phase = phase]
                            ELSE [work[k] EXCEPT !.alone = FALSE]]
Goes(j, phase) == work' = [work EXCEPT ![j].phase = phase]

(* GitHub may close a pull request whose branch has nothing to pull. *)
MayClose == pull' \in {pull, [pull EXCEPT !.open = FALSE]}

-----------------------------------------------------------------------------
(* No report, token or repository; or the report is read. *)
Start(j) ==
  /\ work[j].phase = "start"
  /\ Goes(j, "never") \/ Goes(j, "base")
  /\ UNCHANGED <<base, branch, pull, outside, refused>>

(* GetDefaultBranch and refSHA. *)
ReadBase(j) ==
  /\ work[j].phase = "base"
  /\ work' = [work EXCEPT ![j] = [@ EXCEPT !.phase = "branch", !.saw = base, !.alone = TRUE]]
  /\ UNCHANGED <<base, branch, pull, outside, refused>>

(* Mutant: a branch that exists is used as it is. *)
AfterRefExists == "read"

(* upsertBranch: 422 means that the branch exists and is to be reset. *)
OnRefExists == "reset"

PostRef(j) ==
  /\ work[j].phase = "branch"
  /\ IF Exists THEN Goes(j, OnRefExists) /\ UNCHANGED branch
     ELSE Moves(j, "read") /\ branch' = AtBase(work[j].saw)
  /\ UNCHANGED <<base, pull, outside, refused>>

PatchRef(j) ==
  /\ work[j].phase = "reset"
  /\ IF Exists THEN /\ Moves(j, "read")
                    /\ branch' = AtBase(work[j].saw)
                    /\ MayClose
     ELSE Goes(j, "failed") /\ UNCHANGED <<branch, pull>>
  /\ UNCHANGED <<base, outside, refused>>

(* fileSHA: 404 is no file. *)
ReadFile(j) ==
  /\ work[j].phase = "read"
  /\ work' = [work EXCEPT ![j] = [@ EXCEPT !.phase = "put", !.sha = IF Exists THEN branch.file ELSE NoName]]
  /\ UNCHANGED <<base, branch, pull, outside, refused>>

(* Mutant: no digest of what is replaced. *)
SentNone(j) == NoName

(* The digest putFile sends of what it means to replace. *)
Sent(j) == work[j].sha

(* GitHub takes it only for the file as it is.  Whether a file that does not
   change makes a commit is left open. *)
PutFile(j) ==
  /\ work[j].phase = "put"
  /\ IF Exists /\ branch.file = Sent(j)
     THEN /\ Moves(j, "open")
          /\ \E ahead \in {TRUE} \cup (IF branch.file = Suggestion(j) THEN {branch.ahead} ELSE {}) :
               branch' = [branch EXCEPT !.file = Suggestion(j), !.ahead = ahead]
     ELSE Goes(j, "failed") /\ UNCHANGED branch
  /\ UNCHANGED <<base, pull, outside, refused>>

(* 422: there is one, or there is nothing to pull, or the branch has gone. *)
PostPull(j) ==
  /\ work[j].phase = "open"
  /\ IF Exists /\ branch.ahead /\ ~ pull.open
     THEN /\ pull' = [open |-> TRUE, num |-> pull.num + 1]
          /\ work' = [k \in Audits |-> IF k = j THEN [work[k] EXCEPT !.phase = "ok", !.num = pull.num + 1]
                                       ELSE [work[k] EXCEPT !.alone = FALSE]]
     ELSE Goes(j, "find") /\ UNCHANGED pull
  /\ UNCHANGED <<base, branch, outside, refused>>

(* findOpenPR: none is number 0, and no error. *)
FindPull(j) ==
  /\ work[j].phase = "find"
  /\ work' = [work EXCEPT ![j] = [@ EXCEPT !.phase = "ok", !.num = IF pull.open THEN pull.num ELSE 0]]
  /\ UNCHANGED <<base, branch, pull, outside, refused>>

(* Timeout, 5xx, no permission; also when the request took effect and its
   answer was lost, which is this step just after that; losing the last answer
   changes only what is printed. *)
RequestRefused(j) ==
  /\ work[j].phase \notin {"never", "start", "ok", "failed"} /\ refused < MaxRefused
  /\ Goes(j, "failed")
  /\ refused' = refused + 1
  /\ UNCHANGED <<base, branch, pull, outside>>

-----------------------------------------------------------------------------
Disturbed == work' = [k \in Audits |-> [work[k] EXCEPT !.alone = FALSE]]

Push ==
  /\ base.number < MaxCommits
  /\ \E f \in ByHand : base' = [number |-> base.number + 1, file |-> f]
  /\ UNCHANGED <<branch, pull, work, outside, refused>>

Outside ==
  /\ outside < MaxOutside
  /\ outside' = outside + 1
  /\ Disturbed
  /\ UNCHANGED refused

(* The branch is kept or deleted by whoever merges. *)
MergePull ==
  /\ pull.open /\ Exists /\ branch.ahead
  /\ base' = [number |-> base.number + 1, file |-> branch.file]
  /\ branch' \in {NoName, [branch EXCEPT !.ahead = FALSE]}
  /\ pull' = [pull EXCEPT !.open = FALSE]
  /\ Outside

ClosePull ==
  /\ pull.open
  /\ pull' = [pull EXCEPT !.open = FALSE]
  /\ branch' \in {branch, NoName}
  /\ Outside
  /\ UNCHANGED base

PullNext ==
  \/ \E j \in Audits : \/ Start(j) \/ ReadBase(j) \/ PostRef(j) \/ PatchRef(j) \/ ReadFile(j)
                       \/ PutFile(j) \/ PostPull(j) \/ FindPull(j) \/ RequestRefused(j)
  \/ Push \/ MergePull \/ ClosePull

-----------------------------------------------------------------------------
(* OpenFilePR: "re-running updates the branch and the existing PR".  While nobody
   else has touched the branch, a run that has succeeded left its own suggestion
   on top of the base it saw, whatever an earlier run had left, and has told the
   number of the open pull request; unless the base has this file already. *)
PullCarriesSuggestion ==
  \A j \in Audits :
    work[j].phase = "ok" /\ work[j].alone /\ work[j].saw.file # Suggestion(j) =>
      /\ branch = [from |-> work[j].saw, file |-> Suggestion(j), ahead |-> TRUE]
      /\ pull.open /\ pull.num = work[j].num

(* Runs that overlap in any way take each other's commits away and are refused
   each other's digests; when all have ended, without a lost request or somebody
   else's doing, there is an open pull request with the suggestion of one, if the
   base had none of them. *)
ConcurrentRunsConverge ==
  /\ \A j \in Audits : work[j].phase \in {"never", "ok", "failed"}
  /\ \E j \in Audits : work[j].phase # "never"
  /\ refused = 0 /\ outside = 0
  /\ \A j, k \in Audits : work[k].saw.file # Suggestion(j)
  => /\ pull.open
     /\ branch.ahead
     /\ \E j \in Audits : work[j].phase = "ok" /\ branch.file = Suggestion(j)
=============================================================================
