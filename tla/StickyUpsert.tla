---------------------------- MODULE StickyUpsert ----------------------------
(***************************************************************************)
(* `egret github check`, `comment` and `dashboard` by several jobs at once: *)
(* each lists a surface page by page (the comments of a pull request, or    *)
(* the open issues), then edits the document it found or makes a new one.   *)
(* Everybody else writes there as well, and answers get lost.               *)
(*                                                                         *)
(* A text is a sequence of "m" (the marker), "n" (line break), "x".        *)
(***************************************************************************)
EXTENDS Naturals, FiniteSets, SequencesExt

CONSTANTS
  Jobs,
  Reports,      \* Markdown reports
  Existing,     \* what may be there before: set of [Surfaces -> Seq([bot, pull, text])]
  Strangers,    \* documents somebody else may write
  PageSize, MaxPages,
  MaxBody,      \* maxBodyRunes
  Limit,        \* what GitHub accepts
  Note,         \* the truncation note
  MaxOthers,    \* bound on what somebody else does
  MaxLost,      \* bound on the requests that fail
  None

Surfaces == {"comment", "dashboard"}
Commands == Surfaces \cup {"check"}
Marker == "m"
Texts == Seq({Marker, "n", "x"})
Contents == [bot : BOOLEAN, pull : BOOLEAN, text : Texts]

ASSUME StickyAssumption ==
  /\ Reports \subseteq Texts /\ Note \in Texts
  /\ Existing \subseteq [Surfaces -> Seq(Contents)] /\ Strangers \subseteq Contents
  /\ PageSize \in Nat \ {0} /\ MaxPages \in Nat \ {0}
  /\ MaxBody \in Nat /\ Limit \in Nat /\ Len(Note) + 2 < MaxBody /\ MaxBody <= Limit
  /\ None \notin Nat

VARIABLES
  docs,     \* docs[s]: the surface as it is listed
  made,     \* documents there have been; the next id
  todo,     \* todo[j]: commands of the job not done yet
  job,      \* job[j]: the command that runs
  others,   \* what somebody else did, up to MaxOthers
  lost      \* requests that failed, up to MaxLost

stickyVars == <<docs, made, todo, job, others, lost>>

Idle == [phase |-> "idle", on |-> None, full |-> <<>>, page |-> 0, found |-> None,
         knew |-> {}, blind |-> FALSE]

(* `by` is the job that made it; `knew` and `blind` of the maker are kept. *)
Doc(id, by, bot, pull, text, knew, blind) ==
  [id |-> id, by |-> by, bot |-> bot, pull |-> pull, text |-> text, knew |-> knew, blind |-> blind]

Foreign(id, d) == Doc(id, None, d.bot, d.pull, d.text, {}, FALSE)

StickyInit(plan) ==
  /\ \E before \in Existing :
       /\ docs = [s \in Surfaces |-> [i \in DOMAIN before[s] |-> Foreign(i, before[s][i])]]
       /\ made = Len(before["comment"]) + Len(before["dashboard"])
  /\ todo = plan
  /\ job = [j \in Jobs |-> Idle]
  /\ others = 0 /\ lost = 0

Ids(s) == {docs[s][i].id : i \in DOMAIN docs[s]}
OfEgret(s) == {docs[s][i].id : i \in {k \in DOMAIN docs[s] : docs[s][k].by # None}}

(* Comments come oldest first, issues newest first. *)
Enter(s, d) == [docs EXCEPT ![s] = IF s = "comment" THEN Append(@, d) ELSE <<d>> \o @]

-----------------------------------------------------------------------------
(* capBody. *)
Cap(text) ==
  IF Len(text) <= MaxBody THEN text
  ELSE LET keep   == MaxBody - Len(Note)
           breaks == {i \in 2..keep : text[i] = "n"}
           cut    == IF breaks = {} THEN keep
                     ELSE (CHOOSE i \in breaks : \A k \in breaks : k <= i) - 1
       IN  SubSeq(text, 1, cut) \o Note

(* Mutant: the marker comes last. *)
BodyMarkerLast(report) == Cap(report \o <<"n", Marker>>)

Body(report) == Cap(<<Marker, "n">> \o report)

(* The match of UpsertStickyComment and UpsertDashboardIssue. *)
Matches(d) == d.bot /\ ~ d.pull /\ Contains(d.text, Marker)

FirstMatch(items) == SelectInSeq(items, Matches)

(* Mutant: there is one page. *)
FirstPageOnly(j, items) == TRUE

(* getList: a short page is the last. *)
LastPage(j, items) == Len(items) < PageSize \/ job[j].page = MaxPages

Page(s, n) == LET next == n * PageSize
              IN  SubSeq(docs[s], next - PageSize + 1, IF next < Len(docs[s]) THEN next ELSE Len(docs[s]))

Ends(j) == job' = [job EXCEPT ![j] = Idle]

(* The request does not arrive, or is refused, or its answer is lost: the
   command fails, the action warns and goes on. *)
RequestFails(j) ==
  /\ job[j].phase # "idle" /\ lost < MaxLost
  /\ lost' = lost + 1
  /\ Ends(j)
  /\ UNCHANGED <<docs, made, todo, others>>

(* entrypoint.sh starts the next command; no token, repository or pull request
   number, or an unreadable report, end it before any request. *)
Begin(j) ==
  /\ job[j].phase = "idle" /\ todo[j] # <<>>
  /\ todo' = [todo EXCEPT ![j] = Tail(@)]
  /\ \/ UNCHANGED job
     \/ \E report \in Reports : LET s == Head(todo[j]) IN
          job' = [job EXCEPT ![j] =
                    IF s = "check" THEN [Idle EXCEPT !.phase = "check"]
                    ELSE [phase |-> "list", on |-> s, full |-> Body(report),
                          page |-> 1, found |-> None, knew |-> OfEgret(s), blind |-> FALSE]]
  /\ UNCHANGED <<docs, made, others, lost>>

(* CreateCheckRun: one more check run on the commit each time. *)
PostCheck(j) ==
  /\ job[j].phase = "check"
  /\ Ends(j)
  /\ UNCHANGED <<docs, made, todo, others, lost>>

(* One page of getList.  The first match of all pages counts. *)
FetchPage(j) ==
  /\ job[j].phase = "list"
  /\ LET items == Page(job[j].on, job[j].page)
         first == FirstMatch(items)
         found == IF job[j].found # None \/ first = 0 THEN job[j].found ELSE items[first].id
         full  == Len(docs[job[j].on]) > PageSize * MaxPages
     IN  job' = [job EXCEPT ![j] =
                   [job[j] EXCEPT !.found = found, !.blind = @ \/ full, !.page = @ + 1,
                                  !.phase = IF LastPage(j, items) THEN "write" ELSE "list"]]
  /\ UNCHANGED <<docs, made, todo, others, lost>>

(* PATCH; 404 when the comment is gone, and no effect on what is listed when
   the issue was closed. *)
Update(j) ==
  /\ job[j].phase = "write" /\ job[j].found # None
  /\ docs' = [docs EXCEPT ![job[j].on] =
                [i \in DOMAIN @ |-> IF @[i].id = job[j].found
                                    THEN [@[i] EXCEPT !.text = job[j].full] ELSE @[i]]]
  /\ Ends(j)
  /\ UNCHANGED <<made, todo, others, lost>>

(* POST.  Whether the answer arrives makes no difference to what is there. *)
Create(j) ==
  /\ job[j].phase = "write" /\ job[j].found = None
  /\ made' = made + 1
  /\ docs' = Enter(job[j].on, Doc(made + 1, j, TRUE, FALSE, job[j].full, job[j].knew, job[j].blind))
  /\ Ends(j)
  /\ UNCHANGED <<todo, others, lost>>

-----------------------------------------------------------------------------
(* Everybody else. *)
Busy(s) == \E j \in Jobs : s \in ToSet(todo[j]) \/ job[j].on = s

Write(s) ==
  /\ Busy(s) /\ others < MaxOthers
  /\ \E d \in Strangers :
       /\ d.pull => s = "dashboard"
       /\ made' = made + 1
       /\ docs' = Enter(s, Foreign(made + 1, d))
  /\ others' = others + 1
  /\ UNCHANGED <<todo, job, lost>>

(* What follows moves up in the listing under a job that reads it. *)
MovesUp(s) ==
  job' = [j \in Jobs |-> IF job[j].on = s THEN [job[j] EXCEPT !.blind = TRUE] ELSE job[j]]

(* A deleted comment, a closed issue. *)
Withdraw(s) ==
  /\ Busy(s) /\ others < MaxOthers
  /\ \E i \in DOMAIN docs[s] : docs' = [docs EXCEPT ![s] = RemoveAt(@, i)]
  /\ MovesUp(s)
  /\ others' = others + 1
  /\ UNCHANGED <<made, todo, lost>>

StickyNext ==
  \/ \E j \in Jobs : \/ Begin(j) \/ PostCheck(j) \/ FetchPage(j)
                     \/ Update(j) \/ Create(j) \/ RequestFails(j)
  \/ \E s \in Surfaces : Write(s) \/ Withdraw(s)

-----------------------------------------------------------------------------
(* UpsertStickyComment: "repeated runs edit one comment instead of spamming".
   Egret makes a second document only beside one that appeared while it looked,
   or when the listing moved under it or is longer than the page cap. *)
OneDocument ==
  \A s \in Surfaces : \A i, k \in DOMAIN docs[s] :
    LET d == docs[s][i]  e == docs[s][k]
    IN  d.by # None /\ e.by # None /\ d.id < e.id => d.id \notin e.knew \/ e.blind

(* capBody: "a report for a busy build is far larger, and GitHub rejects the whole
   request".  What Egret has written fits, is found by the next run, and is the
   report or its first whole lines and the note. *)
TextUsable ==
  \A s \in Surfaces : \A i \in DOMAIN docs[s] :
    LET text == docs[s][i].text
    IN  docs[s][i].by # None =>
          /\ Len(text) <= Limit
          /\ Matches(docs[s][i])
          /\ \E report \in Reports :
               LET whole == <<Marker, "n">> \o report
               IN  \/ text = whole
                   \/ \E n \in 2..Len(whole) :
                        whole[n] = "n" /\ text = SubSeq(whole, 1, n - 1) \o Note
=============================================================================
