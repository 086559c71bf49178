---------------------------- MODULE GithubPublish ---------------------------
(***************************************************************************)
(* Jobs that publish their reports and jobs that open a pull request on one *)
(* repository.  GitHub lists pull requests among the issues, so an audit    *)
(* moves the listing in which a dashboard is looked for.                    *)
(***************************************************************************)
EXTENDS StickyUpsert, FilePull

CONSTANT Scenarios   \* set of [plan, active]: what the jobs are asked to do

ASSUME ScenarioAssumption ==
  \A s \in Scenarios : s.plan \in [Jobs -> Seq(Commands)] /\ s.active \subseteq Audits

vars == <<stickyVars, pullVars>>

Init == \E s \in Scenarios : StickyInit(s.plan) /\ PullInit(s.active)

(* The pull request in the listing of issues: Egret's title and text, no marker. *)
PullDoc == Foreign(made + 1, [bot |-> TRUE, pull |-> TRUE, text |-> <<"x">>])
IsPullOfEgret(d) == d.pull /\ d.text = <<"x">>
WithoutPull(q) == RemoveFirstMatch(q, IsPullOfEgret)

Listed ==
  CASE pull'.open /\ ~ pull.open ->
         /\ docs' = Enter("dashboard", PullDoc)
         /\ made' = made + 1
         /\ UNCHANGED job
    [] pull.open /\ ~ pull'.open ->
         /\ docs' = [docs EXCEPT !["dashboard"] = WithoutPull(@)]
         /\ MovesUp("dashboard")
         /\ UNCHANGED made
    [] OTHER -> UNCHANGED <<docs, made, job>>

Next ==
  \/ StickyNext /\ UNCHANGED pullVars
  \/ PullNext /\ Listed /\ UNCHANGED <<todo, others, lost>>

Spec == Init /\ [][Next]_vars
=============================================================================
