-------------------------- MODULE GithubPublishProofs --------------------------
(***************************************************************************)
(* What `egret audit --open-pr` has done when it says so, what overlapping  *)
(* ones leave, and what a comment or dashboard can be beside another of     *)
(* Egret's, for any number of jobs and whatever other people do meanwhile.  *)
(***************************************************************************)
EXTENDS GithubPublish, SequenceTheorems, WellFoundedInduction, TLAPS

Command(w) ==
  /\ w = [f \in DOMAIN w |-> w[f]] /\ {"phase", "saw", "sha", "num", "alone"} \subseteq DOMAIN w
  /\ w.saw \in Commits /\ w.sha \in Files

PullType ==
  /\ base \in Commits
  /\ branch \in Branches \cup {NoName}
  /\ pull \in [open : BOOLEAN, num : Nat]
  /\ work = [j \in Audits |-> work[j]] /\ \A j \in Audits : Command(work[j])

(* What a job that is alone with the branch has made of it, request by request.
   b and q are the branch and the pull request. *)
Made(j, w, b, q) ==
  w.alone =>
    /\ w.phase \in {"read", "put"} => b \in Branches /\ b.from = w.saw /\ b.file = w.saw.file
    /\ w.phase \in {"open", "find", "ok"} /\ w.saw.file # Suggestion(j) =>
         b \in Branches /\ b = [from |-> w.saw, file |-> Suggestion(j), ahead |-> TRUE]
    /\ w.phase = "find" /\ w.saw.file # Suggestion(j) => q.open
    /\ w.phase = "ok" /\ w.saw.file # Suggestion(j) => q.open /\ q.num = w.num

PullInv == PullType /\ \A j \in Audits : Made(j, work[j], branch, pull)

(* A step that changes neither branch nor pull request, or after which no other
   job is alone. *)
LEMMA JobStep ==
  ASSUME PullInv, PullType', NEW j \in Audits, Made(j, work[j], branch, pull)',
         \A k \in Audits \ {j} : \/ work'[k] = work[k] /\ branch' = branch /\ pull' = pull
                                 \/ ~ work'[k].alone
  PROVE  PullInv'
<1>1. ASSUME NEW k \in Audits PROVE Made(k, work'[k], branch', pull')
  BY DEF PullInv, Made
<1> QED BY <1>1 DEF PullInv

LEMMA WorkFacts ==
  ASSUME PullType, NEW j \in Audits
  PROVE  /\ Command(work[j])
         /\ work[j].saw \in Commits /\ work[j].saw.file \in Files
BY DEF PullType, Commits, Command

LEMMA MovesFacts ==
  ASSUME PullType, NEW j \in Audits, NEW p, Moves(j, p)
  PROVE  /\ work' = [k \in Audits |-> work'[k]] /\ \A k \in Audits : Command(work'[k])
         /\ work'[j] = [work[j] EXCEPT !.phase = p]
         /\ \A k \in Audits \ {j} : ~ work'[k].alone
BY DEF PullType, Moves, Command

LEMMA GoesFacts ==
  ASSUME PullType, NEW j \in Audits, NEW p, Goes(j, p)
  PROVE  /\ work' = [k \in Audits |-> work'[k]] /\ \A k \in Audits : Command(work'[k])
         /\ work'[j] = [work[j] EXCEPT !.phase = p]
         /\ \A k \in Audits \ {j} : work'[k] = work[k]
BY DEF PullType, Goes, Command

LEMMA AtBaseFacts ==
  ASSUME NEW c \in Commits
  PROVE  AtBase(c) \in Branches /\ AtBase(c).from = c /\ AtBase(c).file = c.file
BY DEF AtBase, Branches, Commits

LEMMA SuggestionFacts ==
  ASSUME NEW j \in Audits PROVE Suggestion(j) \in Files
BY DEF Files

(* Requests that change nothing at GitHub, and those that do not reach it. *)
LEMMA ReadingSteps ==
  ASSUME PullInv, NEW j \in Audits,
         Start(j) \/ ReadBase(j) \/ ReadFile(j) \/ FindPull(j) \/ RequestRefused(j)
  PROVE  PullInv'
<1>1. PullType /\ Made(j, work[j], branch, pull)
  BY DEF PullInv
<1>2. base' = base /\ branch' = branch /\ pull' = pull
  BY DEF Start, ReadBase, ReadFile, FindPull, RequestRefused
<1>3. CASE Start(j) \/ RequestRefused(j)
  <2>1. PICK p \in {"never", "base", "failed"} : Goes(j, p)
    BY <1>3 DEF Start, RequestRefused
  <2>2. /\ work' = [k \in Audits |-> work'[k]] /\ \A k \in Audits : Command(work'[k])
        /\ work'[j] = [work[j] EXCEPT !.phase = p]
        /\ \A k \in Audits \ {j} : work'[k] = work[k]
    BY <1>1, <2>1, GoesFacts
  <2>3. work'[j].phase = p
    BY <1>1, <2>2, WorkFacts DEF Command
  <2>4. Made(j, work'[j], branch', pull')
    BY <2>1, <2>3 DEF Made
  <2>5. PullType'
    BY <1>1, <1>2, <2>2 DEF PullType
  <2> QED BY <1>2, <2>2, <2>4, <2>5, JobStep
<1>4. ASSUME NEW w, work' = [work EXCEPT ![j] = w],
             Command(w),
             Made(j, w, branch, pull)
      PROVE  PullInv'
  <2>1. /\ work' = [k \in Audits |-> work'[k]] /\ \A k \in Audits : Command(work'[k])
        /\ work'[j] = w /\ \A k \in Audits \ {j} : work'[k] = work[k]
    BY <1>1, <1>4 DEF PullType
  <2>2. PullType'
    BY <1>1, <1>2, <2>1 DEF PullType
  <2>3. Made(j, work'[j], branch', pull')
    BY <1>2, <1>4, <2>1
  <2> QED BY <1>2, <2>1, <2>2, <2>3, JobStep
<1>5. CASE ReadBase(j)
  <2> DEFINE w == [work[j] EXCEPT !.phase = "branch", !.saw = base, !.alone = TRUE]
  <2>1. work' = [work EXCEPT ![j] = w]
    BY <1>5 DEF ReadBase
  <2>2. Command(w) /\ w.phase = "branch"
    BY <1>1, WorkFacts DEF PullType, Command
  <2>3. Made(j, w, branch, pull)
    BY <2>2 DEF Made
  <2> QED BY <1>4, <2>1, <2>2, <2>3
<1>6. CASE ReadFile(j)
  <2> DEFINE w == [work[j] EXCEPT !.phase = "put", !.sha = IF Exists THEN branch.file ELSE NoName]
  <2>1. work' = [work EXCEPT ![j] = w] /\ work[j].phase = "read"
    BY <1>6 DEF ReadFile
  <2>2. (IF Exists THEN branch.file ELSE NoName) \in Files
    BY <1>1 DEF PullType, Exists, Branches, Files
  <2>3. /\ Command(w)
        /\ w.phase = "put" /\ w.saw = work[j].saw /\ w.alone = work[j].alone
    BY <1>1, <2>2, WorkFacts DEF Command
  <2>4. Made(j, w, branch, pull)
    BY <1>1, <2>1, <2>3 DEF Made
  <2> QED BY <1>4, <2>1, <2>3, <2>4
<1>7. CASE FindPull(j)
  <2> DEFINE w == [work[j] EXCEPT !.phase = "ok", !.num = IF pull.open THEN pull.num ELSE 0]
  <2>1. work' = [work EXCEPT ![j] = w] /\ work[j].phase = "find"
    BY <1>7 DEF FindPull
  <2>2. /\ Command(w)
        /\ w.phase = "ok" /\ w.saw = work[j].saw /\ w.alone = work[j].alone
        /\ pull.open => w.num = pull.num
    BY <1>1, WorkFacts DEF PullType, Command
  <2>3. Made(j, w, branch, pull)
    BY <1>1, <2>1, <2>2 DEF Made
  <2> QED BY <1>4, <2>1, <2>2, <2>3
<1> QED BY <1>3, <1>5, <1>6, <1>7

(* Requests that write, and the one that finds a pull request there already. *)
LEMMA WritingSteps ==
  ASSUME PullInv, NEW j \in Audits, PostRef(j) \/ PatchRef(j) \/ PutFile(j) \/ PostPull(j)
  PROVE  PullInv'
<1>1. PullType /\ Made(j, work[j], branch, pull) /\ Command(work[j]) /\ work[j].saw \in Commits
  BY WorkFacts DEF PullInv
<1>2. base' = base
  BY DEF PostRef, PatchRef, PutFile, PostPull
<1>3. ASSUME NEW p \in {"reset", "failed"}, Goes(j, p), branch' = branch, pull' = pull
      PROVE  PullInv'
  <2>1. /\ work' = [k \in Audits |-> work'[k]] /\ \A k \in Audits : Command(work'[k])
        /\ work'[j] = [work[j] EXCEPT !.phase = p]
        /\ \A k \in Audits \ {j} : work'[k] = work[k]
    BY <1>1, <1>3, GoesFacts
  <2>2. work'[j].phase = p
    BY <1>1, <2>1 DEF Command
  <2>3. Made(j, work'[j], branch', pull')
    BY <1>3, <2>2 DEF Made
  <2>4. PullType'
    BY <1>1, <1>2, <1>3, <2>1 DEF PullType
  <2> QED BY <1>3, <2>1, <2>3, <2>4, JobStep
<1>4. ASSUME NEW p \in {"read", "open"}, Moves(j, p),
             branch' \in Branches, pull' \in [open : BOOLEAN, num : Nat],
             work[j].alone => branch'.from = work[j].saw,
             p = "read" => branch'.file = work[j].saw.file,
             p = "open" /\ work[j].alone /\ work[j].saw.file # Suggestion(j) =>
               branch'.file = Suggestion(j) /\ branch'.ahead = TRUE
      PROVE  PullInv'
  <2>1. /\ work' = [k \in Audits |-> work'[k]] /\ \A k \in Audits : Command(work'[k])
        /\ work'[j] = [work[j] EXCEPT !.phase = p]
        /\ \A k \in Audits \ {j} : ~ work'[k].alone
    BY <1>1, <1>4, MovesFacts
  <2>2. work'[j].phase = p /\ work'[j].saw = work[j].saw /\ work'[j].alone = work[j].alone
    BY <1>1, <2>1 DEF Command
  <2>3. branch' = [from |-> branch'.from, file |-> branch'.file, ahead |-> branch'.ahead]
    BY <1>4 DEF Branches
  <2>4. Made(j, work'[j], branch', pull')
    BY <1>4, <2>2, <2>3 DEF Made
  <2>5. PullType'
    BY <1>1, <1>2, <1>4, <2>1 DEF PullType
  <2> QED BY <2>1, <2>4, <2>5, JobStep
<1>5. AtBase(work[j].saw) \in Branches /\ AtBase(work[j].saw).from = work[j].saw
      /\ AtBase(work[j].saw).file = work[j].saw.file
  BY <1>1, AtBaseFacts
<1>6. CASE PostRef(j)
  <2>1. CASE Exists
    BY <1>3, <1>6, <2>1 DEF PostRef, OnRefExists
  <2>2. CASE ~ Exists
    <3>1. Moves(j, "read") /\ branch' = AtBase(work[j].saw) /\ pull' = pull
      BY <1>6, <2>2 DEF PostRef
    <3> QED BY <1>1, <1>4, <1>5, <3>1 DEF PullType
  <2> QED BY <2>1, <2>2
<1>7. CASE PatchRef(j)
  <2>1. CASE ~ Exists
    BY <1>3, <1>7, <2>1 DEF PatchRef
  <2>2. CASE Exists
    <3>1. Moves(j, "read") /\ branch' = AtBase(work[j].saw) /\ MayClose
      BY <1>7, <2>2 DEF PatchRef
    <3>2. pull' \in [open : BOOLEAN, num : Nat]
      BY <1>1, <3>1 DEF PullType, MayClose
    <3> QED BY <1>4, <1>5, <3>1, <3>2
  <2> QED BY <2>1, <2>2
<1>8. CASE PutFile(j)
  <2>1. CASE ~ (Exists /\ branch.file = Sent(j))
    BY <1>3, <1>8, <2>1 DEF PutFile
  <2>2. CASE Exists /\ branch.file = Sent(j)
    <3>1. Moves(j, "open") /\ pull' = pull /\ work[j].phase = "put"
      BY <1>8, <2>2 DEF PutFile
    <3>2. PICK ahead \in {TRUE} \cup (IF branch.file = Suggestion(j) THEN {branch.ahead} ELSE {}) :
            branch' = [branch EXCEPT !.file = Suggestion(j), !.ahead = ahead]
      BY <1>8, <2>2 DEF PutFile
    <3>3. branch \in Branches /\ Suggestion(j) \in Files
      BY <1>1, <2>2, SuggestionFacts DEF PullType, Exists
    <3>4. /\ branch' = [from |-> branch.from, file |-> Suggestion(j), ahead |-> ahead]
          /\ ahead \in BOOLEAN
          /\ branch.file # Suggestion(j) => ahead = TRUE
      BY <3>2, <3>3 DEF Branches
    <3>5. branch' \in Branches
      BY <3>3, <3>4 DEF Branches
    <3>6. work[j].alone => branch.from = work[j].saw /\ branch.file = work[j].saw.file
      BY <1>1, <3>1 DEF Made
    <3>7. pull' \in [open : BOOLEAN, num : Nat]
      BY <1>1, <3>1 DEF PullType
    <3> QED BY <1>4, <3>1, <3>4, <3>5, <3>6, <3>7
  <2> QED BY <2>1, <2>2
<1>9. CASE PostPull(j)
  <2>1. work[j].phase = "open" /\ branch' = branch
    BY <1>9 DEF PostPull
  <2>2. CASE Exists /\ branch.ahead /\ ~ pull.open
    <3>1. /\ pull' = [open |-> TRUE, num |-> pull.num + 1]
          /\ work' = [k \in Audits |-> IF k = j THEN [work[k] EXCEPT !.phase = "ok", !.num = pull.num + 1]
                                       ELSE [work[k] EXCEPT !.alone = FALSE]]
      BY <1>9, <2>2 DEF PostPull
    <3>2. pull' \in [open : BOOLEAN, num : Nat] /\ pull.num \in Nat
      <4>1. pull.num \in Nat /\ pull.num + 1 \in Nat
        BY <1>1 DEF PullType
      <4> QED BY <3>1, <4>1
    <3>3. /\ work' = [k \in Audits |-> work'[k]] /\ \A k \in Audits : Command(work'[k])
          /\ \A k \in Audits \ {j} : ~ work'[k].alone
      BY <1>1, <3>1 DEF PullType, Command
    <3>4. /\ work'[j].phase = "ok" /\ work'[j].saw = work[j].saw
          /\ work'[j].alone = work[j].alone /\ work'[j].num = pull.num + 1
      BY <1>1, <3>1 DEF Command
    <3>5. Made(j, work'[j], branch', pull')
      BY <1>1, <2>1, <3>1, <3>4 DEF Made
    <3>6. PullType'
      BY <1>1, <1>2, <2>1, <3>2, <3>3 DEF PullType
    <3> QED BY <3>3, <3>5, <3>6, JobStep
  <2>3. CASE ~ (Exists /\ branch.ahead /\ ~ pull.open)
    <3>1. Goes(j, "find") /\ pull' = pull
      BY <1>9, <2>3 DEF PostPull
    <3>2. /\ work' = [k \in Audits |-> work'[k]] /\ \A k \in Audits : Command(work'[k])
          /\ work'[j] = [work[j] EXCEPT !.phase = "find"]
          /\ \A k \in Audits \ {j} : work'[k] = work[k]
      BY <1>1, <3>1, GoesFacts
    <3>3. work'[j].phase = "find" /\ work'[j].saw = work[j].saw /\ work'[j].alone = work[j].alone
      BY <1>1, <3>2 DEF Command
    <3>4. work[j].alone /\ work[j].saw.file # Suggestion(j) => pull.open
      <4> SUFFICES ASSUME work[j].alone, work[j].saw.file # Suggestion(j) PROVE pull.open
        OBVIOUS
      <4>1. branch \in Branches /\ branch = [from |-> work[j].saw, file |-> Suggestion(j), ahead |-> TRUE]
        BY <1>1, <2>1 DEF Made
      <4>2. Exists /\ branch.ahead
        BY <4>1, NoBranchAssumption DEF Exists
      <4> QED BY <2>3, <4>2
    <3>5. Made(j, work'[j], branch', pull')
      BY <1>1, <2>1, <3>1, <3>3, <3>4 DEF Made
    <3>6. PullType'
      BY <1>1, <1>2, <2>1, <3>1, <3>2 DEF PullType
    <3> QED BY <2>1, <3>1, <3>2, <3>5, <3>6, JobStep
  <2> QED BY <2>2, <2>3
<1> QED BY <1>6, <1>7, <1>8, <1>9

(* People. *)
LEMMA OutsideSteps ==
  ASSUME PullInv, Push \/ MergePull \/ ClosePull
  PROVE  PullInv'
<1>1. PullType
  BY DEF PullInv
<1>2. CASE Push
  <2>1. PICK f \in ByHand : base' = [number |-> base.number + 1, file |-> f]
    BY <1>2 DEF Push
  <2>2. base' \in Commits
    BY <1>1, <2>1 DEF PullType, Commits, Files
  <2>3. branch' = branch /\ pull' = pull /\ work' = work
    BY <1>2 DEF Push
  <2>4. PullType'
    BY <1>1, <2>2, <2>3 DEF PullType
  <2> QED BY <2>3, <2>4 DEF PullInv
<1>3. CASE MergePull \/ ClosePull
  <2>1. Disturbed
    BY <1>3 DEF MergePull, ClosePull, Outside
  <2>2. /\ work' = [k \in Audits |-> work'[k]] /\ \A k \in Audits : Command(work'[k])
        /\ \A k \in Audits : ~ work'[k].alone
    BY <1>1, <2>1 DEF PullType, Disturbed, Command
  <2>3. /\ branch' \in Branches \cup {NoName} /\ pull' \in [open : BOOLEAN, num : Nat]
        /\ base' \in Commits
    <3>1. CASE MergePull
      <4>1. /\ pull' = [pull EXCEPT !.open = FALSE]
            /\ base' = [number |-> base.number + 1, file |-> branch.file]
            /\ branch' \in {NoName, [branch EXCEPT !.ahead = FALSE]}
            /\ branch \in Branches
        BY <1>1, <3>1 DEF MergePull, Exists, PullType
      <4>2. branch.file \in Files /\ [branch EXCEPT !.ahead = FALSE] \in Branches
        BY <4>1 DEF Branches
      <4>3. base.number + 1 \in Nat
        BY <1>1 DEF PullType, Commits
      <4>4. base' \in Commits
        BY <4>1, <4>2, <4>3 DEF Commits
      <4>5. pull' \in [open : BOOLEAN, num : Nat]
        BY <1>1, <4>1 DEF PullType
      <4> QED BY <4>1, <4>2, <4>4, <4>5
    <3>2. CASE ClosePull
      BY <1>1, <3>2 DEF PullType, ClosePull
    <3> QED BY <1>3, <3>1, <3>2
  <2>4. PullType'
    BY <2>2, <2>3 DEF PullType
  <2> QED BY <2>2, <2>4 DEF PullInv, Made
<1> QED BY <1>2, <1>3

LEMMA PullStep == PullInv /\ [Next]_vars => PullInv'
<1> SUFFICES ASSUME PullInv, [Next]_vars PROVE PullInv'
  OBVIOUS
<1>1. CASE UNCHANGED pullVars
  BY <1>1 DEF pullVars, PullInv, PullType, Made
<1>2. CASE PullNext
  BY <1>2, ReadingSteps, WritingSteps, OutsideSteps DEF PullNext
<1> QED BY <1>1, <1>2 DEF Next, vars

LEMMA PullBegins == Init => PullInv
<1> SUFFICES ASSUME NEW active, PullInit(active) PROVE PullInv
  BY DEF Init
<1>1. base \in Commits
  BY DEF PullInit, Commits, Files
<1>2. branch \in Branches \cup {NoName} /\ pull \in [open : BOOLEAN, num : Nat]
  BY DEF PullInit
<1>3. work = [j \in Audits |-> work[j]] /\ \A j \in Audits : Command(work[j])
  BY <1>1 DEF PullInit, Command, Files
<1>4. \A j \in Audits : work[j].phase \in {"start", "never"}
  BY DEF PullInit
<1>5. \A j \in Audits : Made(j, work[j], branch, pull)
  BY <1>4 DEF Made
<1> QED BY <1>1, <1>2, <1>3, <1>5 DEF PullInv, PullType

(* OpenFilePR: a run that says it has opened or updated the pull request, and was
   not disturbed since it looked at the base branch, has left its own suggestion
   on top of that base in an open pull request and told its number; for any
   number of jobs, commits, merges and lost requests. *)
THEOREM PullCarriesSuggestionHolds == Spec => []PullCarriesSuggestion
<1>1. PullInv => PullCarriesSuggestion
  BY DEF PullInv, Made, PullCarriesSuggestion
<1> QED BY <1>1, PullBegins, PullStep, PTL DEF Spec

-----------------------------------------------------------------------------
(* The comments and the dashboard. *)
DocsOf ==
  [id : Nat, by : Jobs \cup {None}, bot : BOOLEAN, pull : BOOLEAN, text : Texts,
   knew : SUBSET Nat, blind : BOOLEAN]

Upserts ==
  [phase : {"idle", "check", "list", "write"}, on : Surfaces \cup {None}, full : Texts,
   page : Nat, found : Nat \cup {None}, knew : SUBSET Nat, blind : BOOLEAN]

Bodies == {Body(r) : r \in Reports}

StickyType ==
  /\ docs \in [Surfaces -> Seq(DocsOf)] /\ made \in Nat
  /\ todo \in [Jobs -> Seq(Commands)]
  /\ job \in [Jobs -> Upserts]

(* A listing: numbers already used, and what Egret made is one of its texts. *)
Listing(q, m) ==
  \A i \in 1..Len(q) :
    /\ q[i].id \in 1..m
    /\ q[i].by # None => q[i].bot /\ ~ q[i].pull /\ q[i].text \in Bodies

(* What a job that lists q for an update w may rely on: unless the listing moved
   under it, no document it could have known lies on the pages it has read. *)
Seeks(w, q, m) ==
  /\ w.full \in Bodies /\ w.knew \subseteq 1..m /\ w.page \in Nat \ {0}
  /\ \A i \in 1..Len(q) : q[i].id \in w.knew => q[i].by # None
  /\ ~ w.blind /\ w.found = None =>
       \A i \in 1..Len(q) : q[i].id \in w.knew => w.phase = "list" /\ i > (w.page - 1) * PageSize

Looking(w) == w.phase \in {"list", "write"}

JobInv(w, D, m) == Looking(w) => w.on \in Surfaces /\ Seeks(w, D[w.on], m)

(* Two entries of a listing: one number is one document, and Egret made the
   second beside the first only when it could not know better. *)
Pair(d, e) ==
  /\ d.id = e.id => d.by = e.by
  /\ d.by # None /\ e.by # None /\ d.id < e.id => d.id \notin e.knew \/ e.blind

Single(q) == \A i, k \in 1..Len(q) : Pair(q[i], q[k])

StickyInv ==
  /\ StickyType
  /\ \A s \in Surfaces : Listing(docs[s], made) /\ Single(docs[s])
  /\ \A j \in Jobs : JobInv(job[j], docs, made)

-----------------------------------------------------------------------------
(* Bounded sets of numbers have a least and a greatest member. *)
LEMMA Least ==
  ASSUME NEW T, T \subseteq Nat, T # {}
  PROVE  \E x \in T : \A y \in T : x <= y
<1> DEFINE R == {ss \in Nat \X Nat : ss[1] < ss[2]}
<1>1. IsWellFoundedOn(R, Nat)
  BY NatLessThanWellFounded DEF OpToRel
<1>2. \A x, y \in Nat : <<y, x>> \in R <=> y < x
  OBVIOUS
<1>3. PICK x \in T : \A y \in T : ~ (<<y, x>> \in R)
  <2> HIDE DEF R
  <2> QED BY <1>1, WFMin
<1>4. ASSUME NEW y \in T PROVE x <= y
  <2>1. ~ (y < x)
    BY <1>2, <1>3
  <2> QED BY <2>1
<1> QED BY <1>4

LEMMA Greatest ==
  ASSUME NEW m \in Nat, NEW T, T \subseteq 1..m, T # {}
  PROVE  \E x \in T : \A y \in T : y <= x
<1> DEFINE U == {m - x : x \in T}
<1>1. U \subseteq Nat /\ U # {}
  <2>1. \A x \in T : m - x \in Nat /\ m - x \in U
    OBVIOUS
  <2> QED BY <2>1
<1>2. PICK u \in U : \A v \in U : u <= v
  <2> HIDE DEF U
  <2> QED BY <1>1, Least
<1>3. PICK x \in T : u = m - x
  OBVIOUS
<1>4. ASSUME NEW y \in T PROVE y <= x
  <2>1. u <= m - y
    BY <1>2
  <2> QED BY <1>3, <2>1
<1> QED BY <1>4

(* capBody: the text fits, begins with the marker, and is the report or its
   first whole lines and the note. *)
Shortened(text) ==
  \E report \in Reports :
    LET whole == <<Marker, "n">> \o report
    IN  \/ text = whole
        \/ \E n \in 2..Len(whole) :
             whole[n] = "n" /\ text = SubSeq(whole, 1, n - 1) \o Note

LEMMA BodyFits ==
  ASSUME NEW report \in Reports
  PROVE  /\ Body(report) \in Texts /\ Len(Body(report)) <= Limit
         /\ Contains(Body(report), Marker) /\ Shortened(Body(report))
<1> DEFINE whole == <<Marker, "n">> \o report
           keep == MaxBody - Len(Note)
           breaks == {i \in 2..keep : whole[i] = "n"}
<1>1. /\ whole \in Texts /\ Len(whole) = 2 + Len(report) /\ whole[1] = Marker /\ whole[2] = "n"
      /\ Len(report) \in Nat
  BY StickyAssumption DEF Texts, Marker
<1>2. Len(Note) \in Nat /\ keep \in Nat /\ keep > 2 /\ MaxBody \in Nat /\ Limit \in Nat /\ MaxBody <= Limit
  BY StickyAssumption DEF Texts
<1>3. Body(report) = Cap(whole)
  BY DEF Body
<1> HIDE DEF whole, keep
<1>4. CASE Len(whole) <= MaxBody
  <2>1. Body(report) = whole
    BY <1>3, <1>4 DEF Cap
  <2>2. Contains(whole, Marker) /\ Len(whole) <= Limit
    BY <1>1, <1>2, <1>4 DEF Contains
  <2> QED BY <1>1, <2>1, <2>2 DEF Shortened, whole
<1>5. CASE ~ (Len(whole) <= MaxBody)
  <2> DEFINE c == CHOOSE i \in breaks : \A k \in breaks : k <= i
  <2>1. breaks # {} /\ breaks \subseteq 1..keep
    BY <1>1, <1>2
  <2>2. c \in breaks
    <3> HIDE DEF breaks
    <3> QED BY <1>2, <2>1, Greatest
  <2>3. Body(report) = SubSeq(whole, 1, c - 1) \o Note
    <3>1. Body(report) = SubSeq(whole, 1, IF breaks = {} THEN keep ELSE c - 1) \o Note
      BY <1>3, <1>5 DEF Cap, keep
    <3> QED BY <2>1, <3>1
  <2> HIDE DEF c
  <2>4. c \in 2..Len(whole) /\ whole[c] = "n" /\ c <= keep
    BY <1>1, <1>2, <1>5, <2>2 DEF keep
  <2> DEFINE head == SubSeq(whole, 1, c - 1)
  <2>5. head \in Texts /\ Len(head) = c - 1 /\ head[1] = Marker
    BY <1>1, <2>4 DEF Texts
  <2> HIDE DEF head
  <2>6. Body(report) \in Texts /\ Len(Body(report)) = (c - 1) + Len(Note) /\ Body(report)[1] = Marker
    BY <2>3, <2>4, <2>5, StickyAssumption DEF Texts, head
  <2>7. Len(Body(report)) <= Limit /\ Contains(Body(report), Marker)
    BY <1>2, <2>4, <2>6 DEF Contains, keep
  <2>8. Shortened(Body(report))
    BY <2>3, <2>4 DEF Shortened, whole
  <2> QED BY <2>6, <2>7, <2>8
<1> QED BY <1>4, <1>5

(* Every text of Egret is found again by what the next run looks for. *)
LEMMA EgretsMatch ==
  ASSUME NEW q \in Seq(DocsOf), NEW m \in Nat, Listing(q, m), NEW i \in 1..Len(q), q[i].by # None
  PROVE  Matches(q[i])
BY BodyFits DEF Listing, Matches, Bodies

-----------------------------------------------------------------------------
(* A document entered at either end keeps every other at its place or moves it
   down; one removed leaves documents that were there. *)
LEMMA EnterFacts ==
  ASSUME NEW q \in Seq(DocsOf), NEW d \in DocsOf, NEW r, r = Append(q, d) \/ r = <<d>> \o q
  PROVE  /\ r \in Seq(DocsOf)
         /\ \A i \in 1..Len(r) : r[i] = d \/ \E k \in 1..Len(q) : k <= i /\ r[i] = q[k]
<1>1. CASE r = Append(q, d)
  BY <1>1
<1>2. CASE r = <<d>> \o q
  <2>1. /\ r \in Seq(DocsOf) /\ Len(r) = 1 + Len(q) /\ r[1] = d /\ Len(q) \in Nat
        /\ \A i \in 1..Len(q) : r[1 + i] = q[i]
    BY <1>2
  <2>2. ASSUME NEW i \in 1..Len(r), i # 1 PROVE i - 1 \in 1..Len(q) /\ i - 1 <= i /\ r[i] = q[i - 1]
    <3>1. i - 1 \in 1..Len(q) /\ 1 + (i - 1) = i
      BY <2>1, <2>2
    <3> QED BY <2>1, <3>1
  <2> QED BY <2>1, <2>2
<1> QED BY <1>1, <1>2

LEMMA RemoveFacts ==
  ASSUME NEW q \in Seq(DocsOf), NEW n \in 1..Len(q)
  PROVE  /\ RemoveAt(q, n) \in Seq(DocsOf)
         /\ \A i \in 1..Len(RemoveAt(q, n)) : \E k \in 1..Len(q) : RemoveAt(q, n)[i] = q[k]
<1> DEFINE a == SubSeq(q, 1, n - 1)
           b == SubSeq(q, n + 1, Len(q))
<1>1. /\ a \in Seq(DocsOf) /\ Len(a) = n - 1 /\ Len(q) \in Nat
      /\ \A i \in 1..Len(a) : a[i] = q[i]
  OBVIOUS
<1>2. /\ b \in Seq(DocsOf) /\ Len(b) = Len(q) - n
      /\ \A i \in 1..Len(b) : b[i] = q[n + i]
  OBVIOUS
<1> HIDE DEF a, b
<1> DEFINE r == a \o b
<1>3. /\ r \in Seq(DocsOf) /\ Len(r) = Len(a) + Len(b)
      /\ \A i \in 1..Len(a) : r[i] = a[i]
      /\ \A i \in 1..Len(b) : r[Len(a) + i] = b[i]
  <2>1. a \in Seq(DocsOf) /\ b \in Seq(DocsOf)
    BY <1>1, <1>2
  <2> QED BY <2>1
<1> HIDE DEF r
<1>4. ASSUME NEW i \in 1..Len(r) PROVE \E k \in 1..Len(q) : r[i] = q[k]
  <2>1. CASE i \in 1..Len(a)
    BY <1>1, <1>3, <2>1
  <2>2. CASE i \notin 1..Len(a)
    <3>1. /\ i - Len(a) \in 1..Len(b) /\ Len(a) + (i - Len(a)) = i
          /\ n + (i - Len(a)) \in 1..Len(q)
      BY <1>1, <1>2, <1>3, <2>2
    <3> QED BY <1>2, <1>3, <3>1
  <2> QED BY <2>1, <2>2
<1> QED BY <1>3, <1>4 DEF RemoveAt, a, b, r

(* The first entry that is looked for. *)
LEMMA FirstFacts ==
  ASSUME NEW q \in Seq(DocsOf)
  PROVE  LET hits == {i \in 1..Len(q) : Matches(q[i])} IN
         /\ hits = {} => FirstMatch(q) = 0
         /\ hits # {} => FirstMatch(q) \in 1..Len(q)
<1> DEFINE hits == {i \in 1..Len(q) : Matches(q[i])}
<1>1. FirstMatch(q) = IF hits # {} THEN CHOOSE x \in hits : \A y \in hits : x <= y ELSE 0
  BY DEF FirstMatch, SelectInSeq, Min
<1>2. hits # {} => (CHOOSE x \in hits : \A y \in hits : x <= y) \in hits
  <2>1. hits \subseteq Nat
    OBVIOUS
  <2> HIDE DEF hits
  <2> QED BY <2>1, Least
<1> QED BY <1>1, <1>2

LEMMA RemoveMatchFacts ==
  ASSUME NEW q \in Seq(DocsOf)
  PROVE  LET r == WithoutPull(q) IN
         /\ r \in Seq(DocsOf)
         /\ \A i \in 1..Len(r) : \E k \in 1..Len(q) : r[i] = q[k]
<1> DEFINE hits == {i \in 1..Len(q) : IsPullOfEgret(q[i])}
           n == CHOOSE x \in hits : \A y \in hits : x <= y
<1>1. WithoutPull(q) = IF hits # {} THEN RemoveAt(q, n) ELSE q
  BY DEF WithoutPull, RemoveFirstMatch, SelectInSeq, Min
<1>2. hits # {} => n \in 1..Len(q)
  <2>1. hits \subseteq Nat /\ hits \subseteq 1..Len(q)
    OBVIOUS
  <2> HIDE DEF hits
  <2> QED BY <2>1, Least
<1> HIDE DEF hits, n
<1> QED BY <1>1, <1>2, RemoveFacts, SMTT(60)

-----------------------------------------------------------------------------
LEMMA SurfaceFacts ==
  ASSUME StickyInv, NEW s \in Surfaces
  PROVE  /\ docs[s] \in Seq(DocsOf) /\ made \in Nat /\ Listing(docs[s], made) /\ Single(docs[s])
         /\ DOMAIN docs[s] = 1..Len(docs[s]) /\ Len(docs[s]) \in Nat
BY DEF StickyInv, StickyType

LEMMA ListingGrows ==
  ASSUME NEW q \in Seq(DocsOf), NEW m \in Nat, Listing(q, m), Single(q),
         NEW d \in DocsOf, d.id = m + 1,
         d.by # None => /\ d.bot /\ ~ d.pull /\ d.text \in Bodies
                        /\ \A k \in 1..Len(q) : q[k].id \in d.knew => d.blind,
         NEW r, r = Append(q, d) \/ r = <<d>> \o q
  PROVE  /\ r \in Seq(DocsOf) /\ Listing(r, m + 1) /\ Single(r)
         /\ \A w : Seeks(w, q, m) => Seeks(w, r, m + 1)
<1>1. /\ r \in Seq(DocsOf)
      /\ \A i \in 1..Len(r) : r[i] = d \/ \E k \in 1..Len(q) : k <= i /\ r[i] = q[k]
  BY EnterFacts
<1>2. \A k \in 1..Len(q) : q[k].id \in 1..m /\ q[k].id # m + 1 /\ q[k].id \in 1..(m + 1) /\ q[k].id < m + 1
  BY DEF Listing
<1>3. Listing(r, m + 1)
  <2>1. m + 1 \in 1..(m + 1)
    OBVIOUS
  <2> QED BY <1>1, <1>2, <2>1 DEF Listing
<1>4. Pair(d, d) /\ \A k \in 1..Len(q) : Pair(q[k], d) /\ Pair(d, q[k])
  <2>1. Pair(d, d)
    BY DEF Pair, DocsOf
  <2>2. ASSUME NEW k \in 1..Len(q) PROVE Pair(q[k], d)
    BY <1>2 DEF Pair
  <2>3. ASSUME NEW k \in 1..Len(q) PROVE Pair(d, q[k])
    <3>1. q[k].id \in Nat /\ ~ (d.id < q[k].id) /\ d.id # q[k].id
      BY <1>2
    <3> QED BY <3>1 DEF Pair
  <2> QED BY <2>1, <2>2, <2>3
<1>5. Single(r)
  BY <1>1, <1>4 DEF Single
<1>6. ASSUME NEW w, Seeks(w, q, m) PROVE Seeks(w, r, m + 1)
  <2>1. w.full \in Bodies /\ w.knew \subseteq 1..m /\ w.page \in Nat \ {0} /\ d.id \notin w.knew
    BY <1>6 DEF Seeks
  <2>2. w.knew \subseteq 1..(m + 1)
    BY <2>1
  <2>3. \A i \in 1..Len(r) : r[i].id \in w.knew => \E k \in 1..Len(q) : k <= i /\ r[i] = q[k]
    BY <1>1, <2>1
  <2>4. \A i \in 1..Len(r) : r[i].id \in w.knew => r[i].by # None
    BY <1>6, <2>3 DEF Seeks
  <2>5. ASSUME ~ w.blind, w.found = None, NEW i \in 1..Len(r), r[i].id \in w.knew
        PROVE  w.phase = "list" /\ i > (w.page - 1) * PageSize
    <3>1. PICK k \in 1..Len(q) : k <= i /\ r[i] = q[k]
      BY <2>3, <2>5
    <3>2. w.phase = "list" /\ k > (w.page - 1) * PageSize
      BY <1>6, <2>5, <3>1 DEF Seeks
    <3>3. (w.page - 1) * PageSize \in Int
      BY <2>1, StickyAssumption
    <3> QED BY <3>1, <3>2, <3>3
  <2> QED BY <2>1, <2>2, <2>4, <2>5 DEF Seeks
<1> QED BY <1>1, <1>3, <1>5, <1>6

LEMMA ListingShrinks ==
  ASSUME NEW q, NEW m, Listing(q, m), Single(q),
         NEW r, \A i \in 1..Len(r) : \E k \in 1..Len(q) : r[i] = q[k]
  PROVE  /\ Listing(r, m) /\ Single(r)
         /\ \A w, v : /\ Seeks(w, q, m)
                      /\ v.full = w.full /\ v.knew = w.knew /\ v.page = w.page /\ v.blind
                      => Seeks(v, r, m)
BY DEF Listing, Single, Seeks

(* The three ways a step may change what is listed: not at all, by a document
   that is entered, by one that goes. *)
LEMMA StayStep ==
  ASSUME StickyInv, docs' = docs, made' = made,
         todo' \in [Jobs -> Seq(Commands)], job' \in [Jobs -> Upserts],
         \A j \in Jobs : job'[j] = job[j] \/ JobInv(job'[j], docs, made)
  PROVE  StickyInv'
BY DEF StickyInv, StickyType

LEMMA EnterStep ==
  ASSUME StickyInv, NEW s \in Surfaces, NEW d \in DocsOf, d.id = made + 1,
         d.by # None => /\ d.bot /\ ~ d.pull /\ d.text \in Bodies
                        /\ \A k \in 1..Len(docs[s]) : docs[s][k].id \in d.knew => d.blind,
         docs' = Enter(s, d), made' = made + 1,
         todo' \in [Jobs -> Seq(Commands)], job' \in [Jobs -> Upserts],
         \A j \in Jobs : job'[j] = job[j] \/ ~ Looking(job'[j])
  PROVE  StickyInv'
<1>1. /\ docs[s] \in Seq(DocsOf) /\ made \in Nat /\ Listing(docs[s], made) /\ Single(docs[s])
      /\ docs \in [Surfaces -> Seq(DocsOf)]
  BY SurfaceFacts DEF StickyInv, StickyType
<1>2. docs'[s] = Append(docs[s], d) \/ docs'[s] = <<d>> \o docs[s]
  BY <1>1 DEF Enter
<1>3. /\ docs'[s] \in Seq(DocsOf) /\ Listing(docs'[s], made + 1) /\ Single(docs'[s])
      /\ \A w : Seeks(w, docs[s], made) => Seeks(w, docs'[s], made + 1)
  BY <1>1, <1>2, ListingGrows
<1>4. \A o \in Surfaces \ {s} : docs'[o] = docs[o]
  BY <1>1 DEF Enter
<1>5. docs' \in [Surfaces -> Seq(DocsOf)]
  BY <1>1, <1>3 DEF Enter
<1>6. ASSUME NEW o \in Surfaces, o # s
      PROVE  /\ Listing(docs'[o], made + 1) /\ Single(docs'[o])
             /\ \A w : Seeks(w, docs[o], made) => Seeks(w, docs'[o], made + 1)
  <2>1. docs'[o] = docs[o] /\ Listing(docs[o], made) /\ Single(docs[o])
    BY <1>4, <1>6, SurfaceFacts
  <2>2. 1..made \subseteq 1..(made + 1)
    BY <1>1
  <2> QED BY <2>1, <2>2 DEF Listing, Seeks
<1>7. ASSUME NEW j \in Jobs PROVE JobInv(job'[j], docs', made + 1)
  <2>1. CASE ~ Looking(job'[j])
    BY <2>1 DEF JobInv
  <2>2. CASE job'[j] = job[j] /\ Looking(job[j])
    <3>1. job[j].on \in Surfaces /\ Seeks(job[j], docs[job[j].on], made)
      BY <2>2 DEF StickyInv, JobInv
    <3>2. Seeks(job[j], docs'[job[j].on], made + 1)
      BY <1>3, <1>6, <3>1
    <3> QED BY <2>2, <3>1, <3>2 DEF JobInv
  <2> QED BY <2>1, <2>2
<1>8. StickyType'
  BY <1>1, <1>5 DEF StickyType
<1>9. \A o \in Surfaces : Listing(docs'[o], made + 1) /\ Single(docs'[o])
  BY <1>3, <1>6
<1> QED BY <1>7, <1>8, <1>9 DEF StickyInv

Blinded(w) == [w EXCEPT !.blind = TRUE]

LEMMA LeaveStep ==
  ASSUME StickyInv, NEW s \in Surfaces, NEW r \in Seq(DocsOf),
         \A i \in 1..Len(r) : \E k \in 1..Len(docs[s]) : r[i] = docs[s][k],
         docs' = [docs EXCEPT ![s] = r], made' = made, todo' = todo,
         job' \in [Jobs -> Upserts],
         \A j \in Jobs : /\ job[j].on # s => job'[j] = job[j]
                         /\ job[j].on = s => job'[j] = Blinded(job[j])
  PROVE  StickyInv'
<1>1. /\ docs[s] \in Seq(DocsOf) /\ made \in Nat /\ Listing(docs[s], made) /\ Single(docs[s])
      /\ docs \in [Surfaces -> Seq(DocsOf)] /\ job \in [Jobs -> Upserts]
  BY SurfaceFacts DEF StickyInv, StickyType
<1>2. docs'[s] = r /\ \A o \in Surfaces \ {s} : docs'[o] = docs[o]
  BY <1>1
<1>3. /\ Listing(r, made) /\ Single(r)
      /\ \A w, v : /\ Seeks(w, docs[s], made)
                   /\ v.full = w.full /\ v.knew = w.knew /\ v.page = w.page /\ v.blind
                   => Seeks(v, r, made)
  BY <1>1, ListingShrinks
<1>4. ASSUME NEW j \in Jobs PROVE JobInv(job'[j], docs', made)
  <2>1. JobInv(job[j], docs, made) /\ job[j] \in Upserts
    BY <1>1 DEF StickyInv
  <2>2. CASE job[j].on # s
    <3>1. job'[j] = job[j]
      BY <2>2
    <3> QED BY <1>2, <2>1, <2>2, <3>1 DEF JobInv
  <2>3. CASE job[j].on = s
    <3>1. job'[j] = [job[j] EXCEPT !.blind = TRUE]
      BY <2>3 DEF Blinded
    <3>2. /\ job'[j].full = job[j].full /\ job'[j].knew = job[j].knew /\ job'[j].page = job[j].page
          /\ job'[j].blind /\ job'[j].on = s /\ job'[j].phase = job[j].phase
      BY <2>1, <2>3, <3>1 DEF Upserts
    <3>3. Looking(job[j]) => Seeks(job'[j], r, made)
      BY <1>3, <2>1, <2>3, <3>2 DEF JobInv
    <3> QED BY <1>2, <3>2, <3>3 DEF JobInv, Looking
  <2> QED BY <2>2, <2>3
<1>5. StickyType'
  <2>1. docs' \in [Surfaces -> Seq(DocsOf)]
    BY <1>1
  <2> QED BY <2>1 DEF StickyType, StickyInv
<1>6. \A o \in Surfaces : Listing(docs'[o], made) /\ Single(docs'[o])
  BY <1>2, <1>3, SurfaceFacts
<1> QED BY <1>4, <1>5, <1>6 DEF StickyInv

LEMMA IdleFacts == Idle \in Upserts /\ ~ Looking(Idle)
<1>1. <<>> \in Texts
  BY DEF Texts
<1> QED BY <1>1 DEF Idle, Upserts, Looking

LEMMA EndsFacts ==
  ASSUME StickyInv, NEW j \in Jobs, Ends(j)
  PROVE  /\ job' \in [Jobs -> Upserts]
         /\ \A k \in Jobs : job'[k] = job[k] \/ ~ Looking(job'[k])
BY IdleFacts DEF StickyInv, StickyType, Ends

(* A command begins to look: it knows what Egret has there now. *)
LEMMA BeginStep ==
  ASSUME StickyInv, NEW j \in Jobs, Begin(j)
  PROVE  StickyInv'
<1>1. /\ docs' = docs /\ made' = made /\ todo[j] # <<>> /\ todo' = [todo EXCEPT ![j] = Tail(@)]
      /\ todo \in [Jobs -> Seq(Commands)] /\ job \in [Jobs -> Upserts]
  BY DEF Begin, StickyInv, StickyType
<1>2. Head(todo[j]) \in Commands /\ Tail(todo[j]) \in Seq(Commands)
  BY <1>1
<1>3. todo' \in [Jobs -> Seq(Commands)]
  BY <1>1, <1>2
<1>4. CASE job' = job
  BY <1>1, <1>3, <1>4, StayStep
<1>5. ASSUME NEW w \in Upserts, job' = [job EXCEPT ![j] = w], JobInv(w, docs, made)
      PROVE  StickyInv'
  <2>1. job' \in [Jobs -> Upserts] /\ \A k \in Jobs : job'[k] = job[k] \/ job'[k] = w
    BY <1>1, <1>5
  <2> QED BY <1>1, <1>3, <1>5, <2>1, StayStep
<1>6. ASSUME NEW report \in Reports, NEW s \in Surfaces,
             job' = [job EXCEPT ![j] =
                       [phase |-> "list", on |-> s, full |-> Body(report), page |-> 1,
                        found |-> None, knew |-> OfEgret(s), blind |-> FALSE]]
      PROVE  StickyInv'
  <2> DEFINE w == [phase |-> "list", on |-> s, full |-> Body(report), page |-> 1,
                   found |-> None, knew |-> OfEgret(s), blind |-> FALSE]
  <2>1. /\ docs[s] \in Seq(DocsOf) /\ Listing(docs[s], made) /\ Single(docs[s]) /\ made \in Nat
        /\ DOMAIN docs[s] = 1..Len(docs[s])
    BY SurfaceFacts
  <2>2. OfEgret(s) \subseteq 1..made
    BY <2>1 DEF OfEgret, Listing
  <2>3. ASSUME NEW i \in 1..Len(docs[s]), docs[s][i].id \in OfEgret(s) PROVE docs[s][i].by # None
    <3>1. PICK k \in 1..Len(docs[s]) : docs[s][k].by # None /\ docs[s][i].id = docs[s][k].id
      BY <2>1, <2>3 DEF OfEgret
    <3> QED BY <2>1, <3>1 DEF Single, Pair
  <2>4. Body(report) \in Texts /\ Body(report) \in Bodies
    BY BodyFits DEF Bodies
  <2>5. ASSUME NEW i \in 1..Len(docs[s]) PROVE i > (1 - 1) * PageSize
    <3>1. (1 - 1) * PageSize = 0
      BY StickyAssumption
    <3> QED BY <3>1
  <2>6. w \in Upserts
    BY <2>1, <2>2, <2>4 DEF Upserts
  <2>7. Seeks(w, docs[s], made)
    BY <2>2, <2>3, <2>4, <2>5 DEF Seeks
  <2>8. JobInv(w, docs, made)
    BY <2>7 DEF JobInv
  <2> QED BY <1>5, <1>6, <2>6, <2>8
<1>7. CASE job' = [job EXCEPT ![j] = [Idle EXCEPT !.phase = "check"]]
  <2> DEFINE w == [Idle EXCEPT !.phase = "check"]
  <2>1. w \in Upserts /\ ~ Looking(w)
    BY IdleFacts DEF Upserts, Looking
  <2> HIDE DEF w
  <2> QED BY <1>5, <1>7, <2>1 DEF JobInv, w
<1>8. Head(todo[j]) # "check" => Head(todo[j]) \in Surfaces
  BY <1>2 DEF Commands
<1> QED BY <1>4, <1>6, <1>7, <1>8 DEF Begin

LEMMA Pages ==
  ASSUME NEW n \in Nat \ {0}, NEW P \in Nat \ {0}
  PROVE  /\ n * P \in Nat /\ (n - 1) * P \in Nat /\ n * P = (n - 1) * P + P
         /\ (n + 1) - 1 = n /\ P * n = n * P
OBVIOUS

(* A page of a listing, and what is missing from a page that is not full. *)
LEMMA PageFacts ==
  ASSUME StickyInv, NEW s \in Surfaces, NEW n \in Nat \ {0}
  PROVE  LET q == docs[s]  items == Page(s, n)  before == (n - 1) * PageSize IN
         /\ items \in Seq(DocsOf) /\ before \in Nat /\ n * PageSize = before + PageSize
         /\ \A i \in 1..Len(q) : i > before /\ i <= before + PageSize =>
              i - before \in 1..Len(items) /\ items[i - before] = q[i]
         /\ Len(items) < PageSize => Len(q) < before + PageSize
<1> DEFINE q == docs[s]
           before == (n - 1) * PageSize
           next == n * PageSize
           last == IF next < Len(q) THEN next ELSE Len(q)
<1>1. q \in Seq(DocsOf) /\ Len(q) \in Nat /\ PageSize \in Nat \ {0}
  BY SurfaceFacts, StickyAssumption
<1>2. before \in Nat /\ next = before + PageSize /\ next \in Nat
  BY <1>1, Pages
<1>3. Page(s, n) = SubSeq(q, next - PageSize + 1, last)
  BY DEF Page
<1> HIDE DEF q, before, next
<1>4. next - PageSize + 1 = before + 1 /\ last \in 0..Len(q)
  BY <1>1, <1>2
<1>5. Page(s, n) = SubSeq(q, before + 1, last)
  BY <1>3, <1>4
<1>6. CASE before + 1 <= last
  <2>1. /\ Page(s, n) \in Seq(DocsOf) /\ Len(Page(s, n)) = last - before
        /\ \A i \in 1..(last - before) : Page(s, n)[i] = q[before + i]
    <3>1. before + 1 \in 1..Len(q) /\ last \in 1..Len(q) /\ last - (before + 1) + 1 = last - before
      BY <1>1, <1>2, <1>4, <1>6
    <3> HIDE DEF last
    <3>2. /\ SubSeq(q, before + 1, last) \in Seq(DocsOf)
          /\ Len(SubSeq(q, before + 1, last)) = last - before
          /\ \A i \in 1..(last - before) : SubSeq(q, before + 1, last)[i] = q[before + i]
      <4>1. /\ SubSeq(q, before + 1, last) \in Seq(DocsOf)
            /\ Len(SubSeq(q, before + 1, last)) = last - (before + 1) + 1
            /\ \A i \in 1..(last - (before + 1) + 1) :
                 SubSeq(q, before + 1, last)[i] = q[(before + 1) + i - 1]
        BY <1>1, <1>6, <3>1, SubSeqProperties
      <4>2. \A i \in 1..(last - before) : (before + 1) + i - 1 = before + i
        BY <1>2, <3>1
      <4>3. last - (before + 1) + 1 = last - before
        BY <3>1
      <4> HIDE DEF before
      <4> QED BY <4>1, <4>2, <4>3
    <3> QED BY <1>5, <3>2
  <2>2. ASSUME NEW i \in 1..Len(q), i > before, i <= before + PageSize
        PROVE  i - before \in 1..Len(Page(s, n)) /\ Page(s, n)[i - before] = q[i]
    <3>1. i - before \in 1..(last - before) /\ before + (i - before) = i
      BY <1>1, <1>2, <2>2
    <3> QED BY <2>1, <3>1
  <2>3. Len(Page(s, n)) < PageSize => Len(q) < before + PageSize
    BY <1>1, <1>2, <2>1
  <2> QED BY <1>2, <2>1, <2>2, <2>3 DEF q, before, next
<1>7. CASE ~ (before + 1 <= last)
  <2>1. Page(s, n) = <<>> /\ Page(s, n) \in Seq(DocsOf) /\ Len(Page(s, n)) = 0
    BY <1>1, <1>2, <1>4, <1>5, <1>7
  <2>2. Len(q) <= before
    BY <1>1, <1>2, <1>7
  <2> QED BY <1>1, <1>2, <2>1, <2>2 DEF q, before, next
<1> QED BY <1>6, <1>7

LEMMA FetchStep ==
  ASSUME StickyInv, NEW j \in Jobs, FetchPage(j)
  PROVE  StickyInv'
<1> DEFINE w == job[j]
           s == w.on
           q == docs[s]
           items == Page(s, w.page)
           first == FirstMatch(items)
           found == IF w.found # None \/ first = 0 THEN w.found ELSE items[first].id
           full == Len(q) > PageSize * MaxPages
           blind == w.blind \/ full
           phase == IF LastPage(j, items) THEN "write" ELSE "list"
           v == [w EXCEPT !.found = found, !.blind = @ \/ full, !.page = @ + 1,
                          !.phase = IF LastPage(j, items) THEN "write" ELSE "list"]
           before == (w.page - 1) * PageSize
<1>1. /\ docs' = docs /\ made' = made /\ todo' = todo /\ w.phase = "list"
      /\ job' = [job EXCEPT ![j] = v]
  BY DEF FetchPage
<1>2. /\ job \in [Jobs -> Upserts] /\ w \in Upserts /\ s \in Surfaces /\ Seeks(w, q, made)
      /\ todo \in [Jobs -> Seq(Commands)]
  BY <1>1 DEF StickyInv, StickyType, JobInv, Looking
<1>3. w.page \in Nat \ {0} /\ q \in Seq(DocsOf) /\ made \in Nat /\ Listing(q, made)
      /\ Len(q) \in Nat /\ PageSize \in Nat \ {0} /\ MaxPages \in Nat \ {0}
  BY <1>2, SurfaceFacts, StickyAssumption DEF Seeks
<1>4. /\ items \in Seq(DocsOf) /\ before \in Nat /\ w.page * PageSize = before + PageSize
      /\ \A i \in 1..Len(q) : i > before /\ i <= before + PageSize =>
           i - before \in 1..Len(items) /\ items[i - before] = q[i]
      /\ Len(items) < PageSize => Len(q) < before + PageSize
  BY <1>2, <1>3, PageFacts
<1>5. /\ first = 0 => \A i \in 1..Len(items) : ~ Matches(items[i])
      /\ first # 0 => first \in 1..Len(items)
  <2> HIDE DEF items
  <2>1. LET hits == {i \in 1..Len(items) : Matches(items[i])} IN
        /\ hits = {} => first = 0
        /\ hits # {} => first \in 1..Len(items)
    BY <1>4, FirstFacts
  <2> QED BY <2>1
<1>6. PageSize * MaxPages = MaxPages * PageSize
  BY <1>3, Pages
<1>7. LastPage(j, items) => Len(items) < PageSize \/ w.page = MaxPages
  BY DEF LastPage
<1>8. found \in Nat \cup {None} /\ (found = None => w.found = None /\ first = 0)
  <2>1. first # 0 => items[first].id \in Nat
    <3> HIDE DEF first, items
    <3>1. first # 0 => items[first] \in DocsOf
      BY <1>4, <1>5
    <3> QED BY <3>1 DEF DocsOf
  <2>2. w.found \in Nat \cup {None}
    BY <1>2 DEF Upserts
  <2> HIDE DEF first, items
  <2> QED BY <2>1, <2>2, StickyAssumption
<1>9. /\ v \in Upserts /\ v.found = found /\ v.blind = blind /\ v.page = w.page + 1
      /\ v.full = w.full /\ v.knew = w.knew /\ v.on = s /\ v.phase = phase
  <2>1. blind \in BOOLEAN /\ phase \in {"list", "write"}
    OBVIOUS
  <2>2. v = [w EXCEPT !.found = found, !.blind = blind, !.page = w.page + 1, !.phase = phase]
    OBVIOUS
  <2>3. w \in Upserts /\ s = w.on /\ w.page + 1 \in Nat
    BY <1>2, <1>3
  <2> HIDE DEF blind, phase, found, items, first, full, v, w, s, q
  <2> QED BY <1>8, <2>1, <2>2, <2>3 DEF Upserts
<1> HIDE DEF found, first, items, before, v
<1>10. ASSUME ~ v.blind, v.found = None, NEW i \in 1..Len(q), q[i].id \in v.knew
       PROVE  v.phase = "list" /\ i > (v.page - 1) * PageSize
  <2>1. ~ w.blind /\ ~ full /\ w.found = None /\ first = 0 /\ q[i].id \in w.knew
    BY <1>8, <1>9, <1>10
  <2>2. i > before /\ q[i].by # None
    BY <1>2, <2>1 DEF Seeks, before
  <2>3. Matches(q[i])
    BY <1>3, <2>2, EgretsMatch
  <2>4. ~ (i <= before + PageSize)
    BY <1>4, <1>5, <2>1, <2>2, <2>3
  <2>5. (v.page - 1) * PageSize = before + PageSize
    BY <1>3, <1>4, <1>9
  <2>6. i > before + PageSize
    BY <1>3, <1>4, <2>4
  <2>7. ~ LastPage(j, items)
    <3>1. ~ (Len(items) < PageSize)
      BY <1>3, <1>4, <2>6
    <3>2. w.page # MaxPages
      BY <1>3, <1>4, <1>6, <2>1, <2>6
    <3> QED BY <1>7, <3>1, <3>2
  <2> QED BY <1>9, <2>5, <2>6, <2>7
<1>11. Seeks(v, q, made)
  <2>1. v.page \in Nat \ {0}
    BY <1>3, <1>9
  <2> QED BY <1>2, <1>9, <1>10, <2>1 DEF Seeks
<1>12. JobInv(v, docs, made)
  BY <1>2, <1>9, <1>11 DEF JobInv
<1>13. job' \in [Jobs -> Upserts] /\ \A k \in Jobs : job'[k] = job[k] \/ job'[k] = v
  BY <1>1, <1>2, <1>9
<1> QED BY <1>1, <1>2, <1>12, <1>13, StayStep

(* The document found gets a new text, and is still the same document. *)
LEMMA UpdateStep ==
  ASSUME StickyInv, NEW j \in Jobs, Update(j)
  PROVE  StickyInv'
<1> DEFINE w == job[j]
           s == w.on
           q == docs[s]
           r == [i \in DOMAIN q |-> IF q[i].id = w.found THEN [q[i] EXCEPT !.text = w.full] ELSE q[i]]
<1>1. /\ w.phase = "write" /\ made' = made /\ todo' = todo /\ Ends(j)
      /\ docs' = [docs EXCEPT ![s] = r]
  BY DEF Update
<1>2. /\ w \in Upserts /\ s \in Surfaces /\ Seeks(w, q, made)
      /\ docs \in [Surfaces -> Seq(DocsOf)] /\ todo \in [Jobs -> Seq(Commands)]
  BY <1>1 DEF StickyInv, StickyType, JobInv, Looking
<1>3. w.full \in Texts /\ w.full \in Bodies
  BY <1>2 DEF Upserts, Seeks
<1>4. q \in Seq(DocsOf) /\ made \in Nat /\ Listing(q, made) /\ Single(q) /\ DOMAIN q = 1..Len(q)
  BY <1>2, SurfaceFacts
<1>5. \A i \in 1..Len(q) :
        /\ r[i] \in DocsOf /\ r[i].id = q[i].id /\ r[i].by = q[i].by /\ r[i].bot = q[i].bot
        /\ r[i].pull = q[i].pull /\ r[i].knew = q[i].knew /\ r[i].blind = q[i].blind
        /\ r[i].text = q[i].text \/ r[i].text = w.full
  <2> SUFFICES ASSUME NEW i \in 1..Len(q)
               PROVE  /\ r[i] \in DocsOf /\ r[i].id = q[i].id /\ r[i].by = q[i].by
                      /\ r[i].bot = q[i].bot /\ r[i].pull = q[i].pull
                      /\ r[i].knew = q[i].knew /\ r[i].blind = q[i].blind
                      /\ r[i].text = q[i].text \/ r[i].text = w.full
    OBVIOUS
  <2>1. q[i] \in DocsOf
    BY <1>4
  <2>2. r[i] = [q[i] EXCEPT !.text = w.full] \/ r[i] = q[i]
    BY <1>4
  <2> HIDE DEF r
  <2>3. CASE r[i] = q[i]
    BY <2>1, <2>3
  <2>4. CASE r[i] = [q[i] EXCEPT !.text = w.full]
    BY <1>3, <2>1, <2>4 DEF DocsOf
  <2> QED BY <2>2, <2>3, <2>4
<1>6. r \in Seq(DocsOf) /\ Len(r) = Len(q)
  <2>1. r = [i \in 1..Len(q) |-> r[i]] /\ Len(q) \in Nat
    BY <1>4
  <2> HIDE DEF r
  <2> QED BY <1>5, <2>1
<1> HIDE DEF r
<1>7. Listing(r, made) /\ Single(r) /\ \A v : Seeks(v, q, made) => Seeks(v, r, made)
  <2>1. Listing(r, made)
    BY <1>3, <1>4, <1>5, <1>6 DEF Listing
  <2>2. Single(r)
    BY <1>4, <1>5, <1>6, SMTT(60) DEF Single, Pair
  <2>3. ASSUME NEW v, Seeks(v, q, made) PROVE Seeks(v, r, made)
    BY <1>5, <1>6, <2>3 DEF Seeks
  <2> QED BY <2>1, <2>2, <2>3
<1>8. docs'[s] = r /\ \A o \in Surfaces \ {s} : docs'[o] = docs[o]
  BY <1>1, <1>2
<1>9. /\ job' \in [Jobs -> Upserts]
      /\ \A k \in Jobs : job'[k] = job[k] \/ ~ Looking(job'[k])
  BY <1>1, EndsFacts
<1>10. ASSUME NEW k \in Jobs PROVE JobInv(job'[k], docs', made)
  <2>1. CASE ~ Looking(job'[k])
    BY <2>1 DEF JobInv
  <2>2. CASE job'[k] = job[k]
    <3>1. JobInv(job[k], docs, made)
      BY DEF StickyInv
    <3> QED BY <1>7, <1>8, <2>2, <3>1 DEF JobInv
  <2> QED BY <1>9, <2>1, <2>2
<1>11. docs' \in [Surfaces -> Seq(DocsOf)]
  BY <1>1, <1>2, <1>6
<1>12. \A o \in Surfaces : Listing(docs'[o], made) /\ Single(docs'[o])
  BY <1>7, <1>8, SurfaceFacts
<1> QED BY <1>1, <1>2, <1>4, <1>9, <1>10, <1>11, <1>12 DEF StickyInv, StickyType

LEMMA CreateStep ==
  ASSUME StickyInv, NEW j \in Jobs, Create(j)
  PROVE  StickyInv'
<1> DEFINE w == job[j]
           d == Doc(made + 1, j, TRUE, FALSE, w.full, w.knew, w.blind)
<1>1. /\ w.phase = "write" /\ w.found = None /\ made' = made + 1 /\ docs' = Enter(w.on, d)
      /\ Ends(j) /\ todo' = todo
  BY DEF Create
<1>2. /\ w \in Upserts /\ w.on \in Surfaces /\ Seeks(w, docs[w.on], made)
      /\ todo \in [Jobs -> Seq(Commands)] /\ made \in Nat
  BY <1>1 DEF StickyInv, StickyType, JobInv, Looking
<1>3. d \in DocsOf
  BY <1>2 DEF Doc, DocsOf, Upserts
<1>4. /\ d.id = made + 1 /\ d.bot /\ ~ d.pull /\ d.text \in Bodies
      /\ \A k \in 1..Len(docs[w.on]) : docs[w.on][k].id \in d.knew => d.blind
  BY <1>1, <1>2 DEF Doc, Seeks
<1>5. /\ job' \in [Jobs -> Upserts]
      /\ \A k \in Jobs : job'[k] = job[k] \/ ~ Looking(job'[k])
  BY <1>1, EndsFacts
<1> HIDE DEF d
<1> QED BY <1>1, <1>2, <1>3, <1>4, <1>5, EnterStep

(* Everybody else: a comment or an issue of somebody, one deleted or closed. *)
LEMMA ForeignFacts ==
  ASSUME NEW m \in Nat, NEW d \in Contents
  PROVE  Foreign(m + 1, d) \in DocsOf /\ Foreign(m + 1, d).id = m + 1 /\ Foreign(m + 1, d).by = None
BY DEF Foreign, Doc, DocsOf, Contents

LEMMA MovesUpFacts ==
  ASSUME NEW s, job \in [Jobs -> Upserts], MovesUp(s)
  PROVE  /\ job' \in [Jobs -> Upserts]
         /\ \A j \in Jobs : /\ job[j].on # s => job'[j] = job[j]
                            /\ job[j].on = s => job'[j] = Blinded(job[j])
BY ZenonT(60) DEF MovesUp, Blinded, Upserts

LEMMA OthersStep ==
  ASSUME StickyInv, NEW s \in Surfaces, Write(s) \/ Withdraw(s)
  PROVE  StickyInv'
<1>1. /\ made \in Nat /\ todo \in [Jobs -> Seq(Commands)] /\ job \in [Jobs -> Upserts]
      /\ docs[s] \in Seq(DocsOf) /\ DOMAIN docs[s] = 1..Len(docs[s])
  BY SurfaceFacts DEF StickyInv, StickyType
<1>2. CASE Write(s)
  <2>1. PICK d \in Strangers : made' = made + 1 /\ docs' = Enter(s, Foreign(made + 1, d))
    BY <1>2 DEF Write
  <2>2. todo' = todo /\ job' = job
    BY <1>2 DEF Write
  <2>3. d \in Contents
    BY StickyAssumption
  <2> QED BY <1>1, <2>1, <2>2, <2>3, ForeignFacts, EnterStep
<1>3. CASE Withdraw(s)
  <2>1. PICK i \in 1..Len(docs[s]) : docs' = [docs EXCEPT ![s] = RemoveAt(docs[s], i)]
    BY <1>1, <1>3 DEF Withdraw
  <2>2. made' = made /\ todo' = todo /\ MovesUp(s)
    BY <1>3 DEF Withdraw
  <2> DEFINE r == RemoveAt(docs[s], i)
  <2>3. r \in Seq(DocsOf) /\ \A n \in 1..Len(r) : \E k \in 1..Len(docs[s]) : r[n] = docs[s][k]
    BY <1>1, RemoveFacts
  <2>4. docs' = [docs EXCEPT ![s] = r]
    BY <2>1
  <2> HIDE DEF r
  <2>5. /\ job' \in [Jobs -> Upserts]
        /\ \A j \in Jobs : /\ job[j].on # s => job'[j] = job[j]
                           /\ job[j].on = s => job'[j] = Blinded(job[j])
    BY <1>1, <2>2, MovesUpFacts
  <2> QED BY <2>2, <2>3, <2>4, <2>5, LeaveStep
<1> QED BY <1>2, <1>3

(* A pull request of an audit enters the listing of issues and leaves it. *)
LEMMA ListedStep ==
  ASSUME StickyInv, Listed, todo' = todo
  PROVE  StickyInv'
<1>1. /\ made \in Nat /\ todo \in [Jobs -> Seq(Commands)] /\ job \in [Jobs -> Upserts]
      /\ "dashboard" \in Surfaces /\ docs["dashboard"] \in Seq(DocsOf)
  BY SurfaceFacts DEF StickyInv, StickyType, Surfaces
<1>2. CASE docs' = Enter("dashboard", PullDoc) /\ made' = made + 1 /\ job' = job
  <2>1. [bot |-> TRUE, pull |-> TRUE, text |-> <<"x">>] \in Contents
    BY DEF Contents, Texts
  <2>2. PullDoc \in DocsOf /\ PullDoc.id = made + 1 /\ PullDoc.by = None
    BY <1>1, <2>1, ForeignFacts DEF PullDoc
  <2> QED BY <1>1, <1>2, <2>2, EnterStep
<1>3. CASE /\ docs' = [docs EXCEPT !["dashboard"] = WithoutPull(@)]
           /\ MovesUp("dashboard") /\ made' = made
  <2> DEFINE r == WithoutPull(docs["dashboard"])
  <2>1. /\ r \in Seq(DocsOf)
        /\ \A n \in 1..Len(r) : \E k \in 1..Len(docs["dashboard"]) : r[n] = docs["dashboard"][k]
    BY <1>1, RemoveMatchFacts
  <2>2. docs' = [docs EXCEPT !["dashboard"] = r]
    BY <1>3
  <2> HIDE DEF r
  <2>3. /\ job' \in [Jobs -> Upserts]
        /\ \A j \in Jobs : /\ job[j].on # "dashboard" => job'[j] = job[j]
                           /\ job[j].on = "dashboard" => job'[j] = Blinded(job[j])
    BY <1>1, <1>3, MovesUpFacts
  <2> QED BY <1>1, <1>3, <2>1, <2>2, <2>3, LeaveStep
<1>4. CASE UNCHANGED <<docs, made, job>>
  BY <1>1, <1>4, StayStep
<1> QED BY <1>2, <1>3, <1>4 DEF Listed

LEMMA StickyStep == StickyInv /\ [Next]_vars => StickyInv'
<1> SUFFICES ASSUME StickyInv, [Next]_vars PROVE StickyInv'
  OBVIOUS
<1>1. todo \in [Jobs -> Seq(Commands)] /\ job \in [Jobs -> Upserts]
  BY DEF StickyInv, StickyType
<1>2. CASE UNCHANGED vars
  BY <1>1, <1>2, StayStep DEF vars, stickyVars
<1>3. ASSUME NEW j \in Jobs, PostCheck(j) \/ RequestFails(j) PROVE StickyInv'
  <2>1. docs' = docs /\ made' = made /\ todo' = todo /\ Ends(j)
    BY <1>3 DEF PostCheck, RequestFails
  <2> QED BY <1>1, <2>1, EndsFacts, StayStep DEF JobInv
<1>4. CASE PullNext /\ Listed /\ UNCHANGED <<todo, others, lost>>
  BY <1>4, ListedStep
<1>5. CASE StickyNext
  BY <1>3, <1>5, BeginStep, FetchStep, UpdateStep, CreateStep, OthersStep DEF StickyNext
<1> QED BY <1>2, <1>4, <1>5 DEF Next

LEMMA StickyBegins == Init => StickyInv
<1> SUFFICES ASSUME NEW a \in Scenarios, StickyInit(a.plan) PROVE StickyInv
  BY DEF Init
<1>1. PICK before \in Existing :
        /\ docs = [s \in Surfaces |-> [i \in DOMAIN before[s] |-> Foreign(i, before[s][i])]]
        /\ made = Len(before["comment"]) + Len(before["dashboard"])
  BY DEF StickyInit
<1>2. /\ before["comment"] \in Seq(Contents) /\ before["dashboard"] \in Seq(Contents)
      /\ Surfaces = {"comment", "dashboard"}
  <2>1. before \in [Surfaces -> Seq(Contents)] /\ Surfaces = {"comment", "dashboard"}
    BY StickyAssumption DEF Surfaces
  <2> QED BY <2>1
<1> DEFINE a1 == Len(before["comment"])
           a2 == Len(before["dashboard"])
<1>3. made \in Nat /\ a1 <= made /\ a2 <= made
  <2>1. a1 \in Nat /\ a2 \in Nat /\ made = a1 + a2
    BY <1>1, <1>2
  <2> HIDE DEF a1, a2
  <2> QED BY <2>1
<1>4. ASSUME NEW s \in Surfaces
      PROVE  docs[s] \in Seq(DocsOf) /\ Listing(docs[s], made) /\ Single(docs[s])
  <2> DEFINE q == before[s]
  <2>1. q \in Seq(Contents) /\ Len(q) \in Nat /\ DOMAIN q = 1..Len(q) /\ 1..Len(q) \subseteq 1..made
    <3>1. q \in Seq(Contents) /\ (q = before["comment"] \/ q = before["dashboard"])
      BY <1>2
    <3> HIDE DEF q
    <3>2. Len(q) \in Nat /\ DOMAIN q = 1..Len(q)
      BY <3>1
    <3>3. Len(q) <= made
      BY <1>3, <3>1
    <3> QED BY <1>3, <3>1, <3>2, <3>3
  <2>2. docs[s] = [i \in 1..Len(q) |-> Foreign(i, q[i])]
    BY <1>1, <2>1
  <2> HIDE DEF q
  <2>3. ASSUME NEW i \in 1..Len(q)
        PROVE  Foreign(i, q[i]) \in DocsOf /\ Foreign(i, q[i]).id = i /\ Foreign(i, q[i]).by = None
    <3>1. i - 1 \in Nat /\ (i - 1) + 1 = i /\ q[i] \in Contents
      BY <2>1
    <3> QED BY <3>1, ForeignFacts, ZenonT(60)
  <2>4. docs[s] \in Seq(DocsOf) /\ Len(docs[s]) = Len(q)
    BY <2>1, <2>2, <2>3
  <2>5. \A i \in 1..Len(docs[s]) : docs[s][i].id \in 1..made /\ docs[s][i].by = None
    BY <2>1, <2>2, <2>3, <2>4
  <2> QED BY <2>4, <2>5 DEF Listing, Single, Pair
<1>5. job \in [Jobs -> Upserts] /\ todo \in [Jobs -> Seq(Commands)] /\ \A j \in Jobs : ~ Looking(job[j])
  BY IdleFacts, ScenarioAssumption DEF StickyInit
<1>6. docs \in [Surfaces -> Seq(DocsOf)]
  BY <1>1, <1>4
<1> QED BY <1>3, <1>4, <1>5, <1>6 DEF StickyInv, StickyType, JobInv

(* UpsertStickyComment, UpsertDashboardIssue: Egret makes a second document only
   beside one that appeared while it looked, or when entries left the listing
   under it or there were more than the pages hold; for any number of jobs, any
   page size and whatever others write, delete, open and close meanwhile. *)
THEOREM OneDocumentHolds == Spec => []OneDocument
<1>1. StickyInv => OneDocument
  <2> SUFFICES ASSUME StickyInv, NEW s \in Surfaces, NEW i \in DOMAIN docs[s], NEW k \in DOMAIN docs[s]
               PROVE  Pair(docs[s][i], docs[s][k])
    BY DEF OneDocument, Pair
  <2> QED BY SurfaceFacts DEF Single
<1> QED BY <1>1, StickyBegins, StickyStep, PTL DEF Spec

(* capBody: every text Egret has written fits what GitHub accepts, is found
   again by the next run, and is the report or its first whole lines and the
   note; for any reports, note and limits. *)
THEOREM TextUsableHolds == Spec => []TextUsable
<1>1. StickyInv => TextUsable
  <2> SUFFICES ASSUME StickyInv, NEW s \in Surfaces, NEW i \in DOMAIN docs[s], docs[s][i].by # None
               PROVE  /\ Len(docs[s][i].text) <= Limit /\ Matches(docs[s][i])
                      /\ Shortened(docs[s][i].text)
    BY DEF TextUsable, Shortened
  <2>1. /\ docs[s] \in Seq(DocsOf) /\ made \in Nat /\ Listing(docs[s], made) /\ i \in 1..Len(docs[s])
    BY SurfaceFacts
  <2>2. docs[s][i].text \in Bodies
    BY <2>1 DEF Listing
  <2> QED BY <2>1, <2>2, BodyFits, EgretsMatch DEF Bodies
<1> QED BY <1>1, StickyBegins, StickyStep, PTL DEF Spec


-----------------------------------------------------------------------------
(* Audits that overlap. *)
Phases == {"never", "start", "base", "branch", "reset", "read", "put", "open", "find", "ok", "failed"}
Based(w) == w.phase \notin {"never", "start", "base"}
Writes == {"reset", "read", "put", "open", "find", "ok", "failed"}

(* No request was lost, nobody else came in between, and no job has seen a base
   that has its or another's suggestion already. *)
Untroubled(W, lostOnes, people) ==
  /\ lostOnes = 0 /\ people = 0
  /\ \A k \in Audits : Based(W[k]) => \A j \in Audits : W[k].saw.file # Suggestion(j)

(* A branch that was reset waits for a job that will be able to write to it; one
   that was written to carries the suggestion of a job that did not fail, and
   has its pull request or a job about to open it. *)
Attended(W, b, q) ==
  /\ \A k \in Audits : W[k].phase \in Writes => b # NoName
  /\ b # NoName /\ ~ b.ahead =>
       /\ \E k \in Audits : Based(W[k]) /\ b.file = W[k].saw.file
       /\ \E k \in Audits : W[k].phase = "read" \/ (W[k].phase = "put" /\ W[k].sha = b.file)
  /\ b # NoName /\ b.ahead =>
       /\ \E k \in Audits : W[k].phase \in {"open", "find", "ok"} /\ b.file = Suggestion(k)
       /\ q.open \/ \E k \in Audits : W[k].phase = "open"

ConvergeInv ==
  /\ refused \in Nat /\ outside \in Nat
  /\ \A k \in Audits : work[k].phase \in Phases
  /\ Untroubled(work, refused, outside) => Attended(work, branch, pull)

Same(v, w) == v.phase = w.phase /\ v.saw = w.saw /\ v.sha = w.sha

(* What a job's request does to the jobs. *)
LEMMA RequestFacts ==
  ASSUME PullType, NEW j \in Audits
  PROVE  /\ \A p : Goes(j, p) \/ Moves(j, p) =>
              /\ work'[j].phase = p /\ work'[j].saw = work[j].saw /\ work'[j].sha = work[j].sha
              /\ \A k \in Audits \ {j} : Same(work'[k], work[k])
         /\ ReadBase(j) => /\ work'[j].phase = "branch" /\ work'[j].saw = base
                           /\ \A k \in Audits \ {j} : Same(work'[k], work[k])
         /\ ReadFile(j) => /\ work'[j].phase = "put" /\ work'[j].saw = work[j].saw
                           /\ work'[j].sha = (IF Exists THEN branch.file ELSE NoName)
                           /\ \A k \in Audits \ {j} : Same(work'[k], work[k])
         /\ FindPull(j) => /\ work'[j].phase = "ok" /\ work'[j].saw = work[j].saw
                           /\ \A k \in Audits \ {j} : Same(work'[k], work[k])
         /\ PostPull(j) => /\ work'[j].phase \in {"ok", "find"} /\ work'[j].saw = work[j].saw
                           /\ \A k \in Audits \ {j} : Same(work'[k], work[k])
<1>1. work = [k \in Audits |-> work[k]] /\ \A k \in Audits : Command(work[k])
  BY DEF PullType
<1>2. ASSUME NEW p, Goes(j, p) \/ Moves(j, p)
      PROVE  /\ work'[j].phase = p /\ work'[j].saw = work[j].saw /\ work'[j].sha = work[j].sha
             /\ \A k \in Audits \ {j} : Same(work'[k], work[k])
  BY <1>1, <1>2 DEF Goes, Moves, Command, Same
<1>3. ASSUME ReadBase(j)
      PROVE  /\ work'[j].phase = "branch" /\ work'[j].saw = base
             /\ \A k \in Audits \ {j} : Same(work'[k], work[k])
  BY <1>1, <1>3 DEF ReadBase, Command, Same
<1>4. ASSUME ReadFile(j)
      PROVE  /\ work'[j].phase = "put" /\ work'[j].saw = work[j].saw
             /\ work'[j].sha = (IF Exists THEN branch.file ELSE NoName)
             /\ \A k \in Audits \ {j} : Same(work'[k], work[k])
  BY <1>1, <1>4 DEF ReadFile, Command, Same
<1>5. ASSUME FindPull(j)
      PROVE  /\ work'[j].phase = "ok" /\ work'[j].saw = work[j].saw
             /\ \A k \in Audits \ {j} : Same(work'[k], work[k])
  BY <1>1, <1>5 DEF FindPull, Command, Same
<1>6. ASSUME PostPull(j)
      PROVE  /\ work'[j].phase \in {"ok", "find"} /\ work'[j].saw = work[j].saw
             /\ \A k \in Audits \ {j} : Same(work'[k], work[k])
  <2>1. CASE Goes(j, "find")
    BY <1>2, <2>1
  <2>2. CASE ~ Goes(j, "find")
    <3>1. work' = [k \in Audits |-> IF k = j THEN [work[k] EXCEPT !.phase = "ok", !.num = pull.num + 1]
                                    ELSE [work[k] EXCEPT !.alone = FALSE]]
      BY <1>6, <2>2 DEF PostPull
    <3>2. work'[j] = [work[j] EXCEPT !.phase = "ok", !.num = pull.num + 1]
      BY <3>1
    <3>3. \A k \in Audits \ {j} : work'[k] = [work[k] EXCEPT !.alone = FALSE]
      BY <3>1
    <3>4. work'[j].phase = "ok" /\ work'[j].saw = work[j].saw
      BY <1>1, <3>2 DEF Command
    <3> QED BY <1>1, <3>3, <3>4 DEF Command, Same
  <2> QED BY <2>1, <2>2
<1> QED BY <1>2, <1>3, <1>4, <1>5, <1>6

(* Requests that leave the branch and what is said of it alone. *)
LEMMA QuietRequests ==
  ASSUME PullType, Attended(work, branch, pull), NEW j \in Audits,
         Start(j) \/ ReadBase(j) \/ ReadFile(j) \/ FindPull(j) \/ PostPull(j)
  PROVE  Attended(work', branch', pull')
<1> DEFINE Others == \A k \in Audits \ {j} : Same(work'[k], work[k])
<1>1. branch' = branch
  BY DEF Start, ReadBase, ReadFile, FindPull, PostPull
<1>2. CASE Start(j) \/ ReadBase(j)
  <2>1. /\ work[j].phase \in {"start", "base"} /\ work'[j].phase \in {"never", "base", "branch"}
        /\ Others /\ pull' = pull
    BY <1>2, RequestFacts DEF Start, ReadBase
  <2> QED BY <1>1, <2>1 DEF Attended, Same, Based, Writes
<1>3. CASE ReadFile(j)
  <2>1. /\ work[j].phase = "read" /\ work'[j].phase = "put" /\ Others /\ pull' = pull
        /\ work'[j].saw = work[j].saw
        /\ branch # NoName => work'[j].sha = branch.file
    BY <1>3, RequestFacts DEF ReadFile, Exists
  <2> QED BY <1>1, <2>1 DEF Attended, Same, Based, Writes
<1>4. CASE FindPull(j)
  <2>1. /\ work[j].phase = "find" /\ work'[j].phase = "ok" /\ Others /\ pull' = pull
        /\ work'[j].saw = work[j].saw
    BY <1>4, RequestFacts DEF FindPull
  <2> QED BY <1>1, <2>1 DEF Attended, Same, Based, Writes
<1>5. CASE PostPull(j)
  <2>1. /\ work[j].phase = "open" /\ work'[j].phase \in {"ok", "find"} /\ Others
        /\ work'[j].saw = work[j].saw
    BY <1>5, RequestFacts DEF PostPull
  <2>2. branch # NoName /\ branch.ahead => pull'.open
    <3>1. pull \in [open : BOOLEAN, num : Nat]
      BY DEF PullType
    <3>2. CASE pull.open
      BY <1>5, <3>2 DEF PostPull
    <3>3. CASE branch # NoName /\ branch.ahead /\ ~ pull.open
      <4>1. pull' = [open |-> TRUE, num |-> pull.num + 1]
        BY <1>5, <3>3 DEF PostPull, Exists
      <4> QED BY <4>1
    <3> QED BY <3>1, <3>2, <3>3
  <2>3. ~ (work[j].phase = "read" \/ work[j].phase = "put")
    BY <2>1
  <2> QED BY <1>1, <2>1, <2>2, <2>3 DEF Attended, Same, Based, Writes
<1> QED BY <1>2, <1>3, <1>4, <1>5

(* Requests that make, reset or write the branch. *)
LEMMA BranchRequests ==
  ASSUME PullType, Attended(work, branch, pull), Untroubled(work, refused, outside), NEW j \in Audits,
         PostRef(j) \/ PatchRef(j) \/ PutFile(j)
  PROVE  Attended(work', branch', pull')
<1> DEFINE Others == \A k \in Audits \ {j} : Same(work'[k], work[k])
<1>1. ASSUME Moves(j, "read"), branch' = AtBase(work[j].saw), work[j].phase \in {"branch", "reset"}
      PROVE  Attended(work', branch', pull')
  <2>1. work'[j].phase = "read" /\ work'[j].saw = work[j].saw
    BY <1>1, RequestFacts
  <2>2. branch' \in Branches /\ branch' # NoName /\ ~ branch'.ahead /\ branch'.file = work'[j].saw.file
    BY <1>1, <2>1, WorkFacts, AtBaseFacts, NoBranchAssumption DEF AtBase
  <2> QED BY <2>1, <2>2 DEF Attended, Based
<1>2. CASE PostRef(j)
  <2>1. CASE Exists
    <3>1. /\ work[j].phase = "branch" /\ work'[j].phase = "reset" /\ Others
          /\ work'[j].saw = work[j].saw /\ branch' = branch /\ pull' = pull /\ branch # NoName
      BY <1>2, <2>1, RequestFacts DEF PostRef, OnRefExists, Exists
    <3> QED BY <3>1 DEF Attended, Same, Based, Writes
  <2>2. CASE ~ Exists
    BY <1>1, <1>2, <2>2 DEF PostRef
  <2> QED BY <2>1, <2>2
<1>3. CASE PatchRef(j)
  <2>1. Exists
    BY <1>3 DEF PatchRef, Attended, Writes, Exists
  <2> QED BY <1>1, <1>3, <2>1 DEF PatchRef
<1>4. CASE PutFile(j)
  <2>1. work[j].phase = "put" /\ branch # NoName /\ branch \in Branches /\ pull' = pull
    BY <1>4 DEF PutFile, Attended, Writes, PullType
  <2>2. CASE branch.file = work[j].sha
    <3>1. Moves(j, "open")
      BY <1>4, <2>1, <2>2 DEF PutFile, Exists, Sent
    <3>2. PICK ahead \in {TRUE} \cup (IF branch.file = Suggestion(j) THEN {branch.ahead} ELSE {}) :
            branch' = [branch EXCEPT !.file = Suggestion(j), !.ahead = ahead]
      BY <1>4, <2>1, <2>2 DEF PutFile, Exists, Sent
    <3>3. work'[j].phase = "open"
      BY <3>1, RequestFacts
    <3>4. ahead = TRUE
      <4>1. CASE branch.file # Suggestion(j)
        BY <3>2, <4>1
      <4>2. CASE branch.file = Suggestion(j)
        <5>1. branch.ahead \in BOOLEAN
          BY <2>1 DEF Branches
        <5>2. branch.ahead
          BY <2>1, <4>2 DEF Attended, Untroubled
        <5> QED BY <3>2, <5>1, <5>2
      <4> QED BY <4>1, <4>2
    <3>5. branch' \in Branches /\ branch'.ahead /\ branch'.file = Suggestion(j)
      BY <2>1, <3>2, <3>4, SuggestionFacts DEF Branches
    <3> QED BY <3>3, <3>5, NoBranchAssumption DEF Attended
  <2>3. CASE branch.file # work[j].sha
    <3>1. /\ work'[j].phase = "failed" /\ Others /\ branch' = branch /\ work'[j].saw = work[j].saw
      BY <1>4, <2>3, RequestFacts DEF PutFile, Sent
    <3> QED BY <2>1, <2>3, <3>1 DEF Attended, Same, Based, Writes
  <2> QED BY <2>2, <2>3
<1> QED BY <1>2, <1>3, <1>4

(* Trouble does not go away, so that there is none now if there is none after. *)
LEMMA TroubleStays ==
  ASSUME PullType, ConvergeInv, NEW j \in Audits,
         \/ Start(j) \/ ReadBase(j) \/ PostRef(j) \/ PatchRef(j) \/ ReadFile(j)
         \/ PutFile(j) \/ PostPull(j) \/ FindPull(j),
         Untroubled(work', refused', outside')
  PROVE  Untroubled(work, refused, outside)
<1>1. refused' = refused /\ outside' = outside
  BY DEF Start, ReadBase, PostRef, PatchRef, ReadFile, PutFile, PostPull, FindPull
<1>2. \A k \in Audits \ {j} : Same(work'[k], work[k])
  BY RequestFacts DEF Start, PostRef, PatchRef, PutFile
<1>3. Based(work[j]) => Based(work'[j]) /\ work'[j].saw = work[j].saw
  <2>1. CASE Start(j) \/ ReadBase(j)
    BY <2>1 DEF Start, ReadBase, Based
  <2>2. CASE ~ (Start(j) \/ ReadBase(j))
    <3>1. CASE ReadFile(j) \/ PostPull(j) \/ FindPull(j)
      BY <3>1, RequestFacts DEF Based
    <3>2. CASE PostRef(j) \/ PatchRef(j) \/ PutFile(j)
      <4>1. PICK p \in {"reset", "read", "open", "failed"} : Goes(j, p) \/ Moves(j, p)
        BY <3>2 DEF PostRef, PatchRef, PutFile, OnRefExists
      <4> QED BY <4>1, RequestFacts DEF Based
    <3> QED BY <2>2, <3>1, <3>2
  <2> QED BY <2>1, <2>2
<1> QED BY <1>1, <1>2, <1>3 DEF Untroubled, Same, Based

LEMMA ConvergeStep == PullInv /\ ConvergeInv /\ [Next]_vars => ConvergeInv'
<1> SUFFICES ASSUME PullInv, ConvergeInv, [Next]_vars PROVE ConvergeInv'
  OBVIOUS
<1>1. PullType
  BY DEF PullInv
<1>2. CASE UNCHANGED pullVars
  BY <1>2 DEF pullVars, ConvergeInv
<1>3. ASSUME NEW j \in Audits,
             \/ Start(j) \/ ReadBase(j) \/ PostRef(j) \/ PatchRef(j) \/ ReadFile(j)
             \/ PutFile(j) \/ PostPull(j) \/ FindPull(j)
      PROVE  ConvergeInv'
  <2>1. refused' = refused /\ outside' = outside
    BY <1>3 DEF Start, ReadBase, PostRef, PatchRef, ReadFile, PutFile, PostPull, FindPull
  <2>2. work'[j].phase \in Phases /\ \A k \in Audits \ {j} : Same(work'[k], work[k])
    BY <1>1, <1>3, RequestFacts DEF Start, PostRef, PatchRef, PutFile, OnRefExists, Phases
  <2>3. ASSUME Untroubled(work', refused', outside') PROVE Attended(work', branch', pull')
    <3>1. Untroubled(work, refused, outside)
      BY <1>1, <1>3, <2>3, TroubleStays
    <3>2. Attended(work, branch, pull)
      BY <3>1 DEF ConvergeInv
    <3> QED BY <1>1, <1>3, <3>1, <3>2, QuietRequests, BranchRequests
  <2> QED BY <2>1, <2>2, <2>3 DEF ConvergeInv, Same
<1>4. ASSUME NEW j \in Audits, RequestRefused(j) PROVE ConvergeInv'
  <2>1. /\ work'[j].phase = "failed" /\ \A k \in Audits \ {j} : Same(work'[k], work[k])
        /\ refused' = refused + 1 /\ outside' = outside
    BY <1>1, <1>4, RequestFacts DEF RequestRefused
  <2>2. refused' \in Nat /\ refused' # 0
    BY <2>1 DEF ConvergeInv
  <2> QED BY <2>1, <2>2 DEF ConvergeInv, Untroubled, Same, Phases
<1>5. CASE MergePull \/ ClosePull
  <2>1. outside' = outside + 1 /\ refused' = refused /\ Disturbed
    BY <1>5 DEF MergePull, ClosePull, Outside
  <2>2. outside' \in Nat /\ outside' # 0
    BY <2>1 DEF ConvergeInv
  <2>3. \A k \in Audits : work'[k].phase = work[k].phase
    BY <1>1, <2>1 DEF Disturbed, PullType, Command
  <2> QED BY <2>1, <2>2, <2>3 DEF ConvergeInv, Untroubled
<1>6. CASE Push
  BY <1>6 DEF Push, ConvergeInv
<1> QED BY <1>2, <1>3, <1>4, <1>5, <1>6 DEF Next, PullNext, vars

LEMMA ConvergeBegins == Init => ConvergeInv
<1> SUFFICES ASSUME NEW active, PullInit(active) PROVE ConvergeInv
  BY DEF Init
<1>1. refused = 0 /\ outside = 0 /\ branch = NoName
      /\ \A k \in Audits : work[k].phase \in {"start", "never"}
  BY DEF PullInit
<1> QED BY <1>1 DEF ConvergeInv, Attended, Phases, Writes

(* upsertBranch and putFile under each other: however many audits overlap, and
   in whatever order their requests come, the last reset is followed by a write
   that is taken, and the last write by an open pull request. *)
THEOREM ConcurrentRunsConvergeHolds == Spec => []ConcurrentRunsConverge
<1>1. PullInv /\ ConvergeInv => ConcurrentRunsConverge
  <2> SUFFICES ASSUME PullInv, ConvergeInv,
                      \A j \in Audits : work[j].phase \in {"never", "ok", "failed"},
                      NEW i \in Audits, work[i].phase # "never",
                      refused = 0, outside = 0,
                      \A j, k \in Audits : work[k].saw.file # Suggestion(j)
               PROVE  /\ pull.open
                      /\ branch.ahead
                      /\ \E j \in Audits : work[j].phase = "ok" /\ branch.file = Suggestion(j)
    BY DEF ConcurrentRunsConverge
  <2>1. Attended(work, branch, pull)
    BY DEF ConvergeInv, Untroubled
  <2>2. branch # NoName
    BY <2>1 DEF Attended, Writes
  <2>3. branch.ahead
    BY <2>1, <2>2 DEF Attended
  <2>4. PICK j \in Audits : work[j].phase \in {"open", "find", "ok"} /\ branch.file = Suggestion(j)
    BY <2>1, <2>2, <2>3 DEF Attended
  <2>5. pull.open
    BY <2>1, <2>2, <2>3 DEF Attended
  <2> QED BY <2>3, <2>4, <2>5
<1> QED BY <1>1, PullBegins, PullStep, ConvergeBegins, ConvergeStep, PTL DEF Spec
=============================================================================
