------------------------------ MODULE MCPublish ------------------------------
(***************************************************************************)
(* GithubPublish for TLC: two jobs on one pull request, two on one          *)
(* dashboard, the action's three commands in a row, two audits, and a       *)
(* dashboard beside an audit.  A page holds two entries, the listing ends   *)
(* after two pages.                                                        *)
(***************************************************************************)
EXTENDS GithubPublish

Text(bot, pull_, text) == [bot |-> bot, pull |-> pull_, text |-> text]

MCReports == {<<"x">>, <<"x", "n", "x", "n", "x", "x">>, <<"x", "x", "x", "x", "x", "x">>}
MCNote == <<"x">>
MCStrangers == {Text(FALSE, FALSE, <<"m", "n", "x">>), Text(TRUE, TRUE, <<"m">>)}
MCExisting ==
  LET two == <<Text(TRUE, FALSE, <<"x">>), Text(FALSE, FALSE, <<"m">>)>>
      three == Append(two, Text(FALSE, FALSE, <<"x">>))
  IN  {[s \in {"comment", "dashboard"} |-> <<>>],
       [s \in {"comment", "dashboard"} |-> two], [s \in {"comment", "dashboard"} |-> three]}
MCPlans == {[j \in Jobs |-> <<"comment">>], [j \in Jobs |-> <<"dashboard">>],
            [j \in Jobs |-> IF j = "j1" THEN <<"check", "comment", "dashboard">> ELSE <<>>]}
MCScenarios == {[plan |-> p, active |-> {}] : p \in MCPlans}
               \cup {[plan |-> [j \in Jobs |-> <<>>], active |-> {"a1", "a2"}],
                     [plan |-> [j \in Jobs |-> IF j = "j1" THEN <<"dashboard">> ELSE <<>>],
                      active |-> {"a1"}]}
MCSeen == [j \in {"a1", "a2"} |->
             {[domain |-> IF j = "a1" THEN "A.example" ELSE "b.example", addr |-> 1],
              [domain |-> "a.example", addr |-> 2], [domain |-> NoName, addr |-> 3]}]
MCLower == [n \in {"A.example", "a.example", "b.example"} |-> IF n = "A.example" THEN "a.example" ELSE n]
MCByHand == {[mode |-> "audit", endpoints |-> {}], [mode |-> "block", endpoints |-> {"a.example"}]}
=============================================================================
