------------------------------ MODULE MCPipeline ------------------------------
(***************************************************************************)
(* EventPipeline for TLC: the last exec event, or the last two, break the  *)
(* policy; there are fewer events of the other kinds, which share the      *)
(* monitor, the watcher and Close with it.                                 *)
(***************************************************************************)
EXTENDS EventPipeline

CONSTANT MaxExecs

FewOthers == [k \in Kinds |-> IF k = ProcKind THEN MaxExecs ELSE 1]
LastExecBad == {<<ProcKind, MaxExecs>>}
LateExecsBad == {ProcKind} \X {MaxExecs - 1, MaxExecs}
=============================================================================
