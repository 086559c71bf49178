------------------------------ MODULE MCAction -------------------------------
(* /var/tmp/safe/report for the action, /home/work/out for the summary and for
   whoever calls egret himself; /home is a symlink of root's to /data, and /srv
   one to /home/work/out, which the build can replace. *)
EXTENDS ActionRun, TLC

MCLayout ==
  LET e(d, n) == CASE d = "/" /\ n = "tmp"     -> Dir("tmp")
                   [] d = "/" /\ n = "home"    -> Link("data")
                   [] d = "/" /\ n = "srv"     -> Link("work")
                   [] d = "data" /\ n = "work" -> Dir("work")
                   [] OTHER                    -> NoEntry
  IN  [d \in Directories |-> [n \in Names |-> e(d, n)]]

MCPlantable == {<<"work", "out">>, <<"mine", "sub">>}
MCRequests == {Formats, {"report.sarif"}}
MCReportPath == <<"tmp", "safe", "out">>
MCUserPaths == {<<"home", "work", "out", "sub">>, <<"srv">>}
MCVia == [l \in {<<"/", "srv">>} |-> <<"work", "out">>]
MCSummaryDir == <<"home", "work", "out">>
==============================================================================
