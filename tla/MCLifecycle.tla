----------------------------- MODULE MCLifecycle -----------------------------
(***************************************************************************)
(* RunLifecycle for TLC: the options of a run that matter together.        *)
(***************************************************************************)
EXTENDS RunLifecycle, TLC

Opt(b, s) == [block |-> b, sudoOff |-> s]
AnyOptions == {Opt(b, s) : b \in BOOLEAN, s \in BOOLEAN}
BlockOptions == {Opt(TRUE, FALSE)}
PlainOptions == {Opt(b, FALSE) : b \in BOOLEAN}
SudoOptions == {Opt(TRUE, TRUE)}
AuditOptions == {Opt(FALSE, FALSE)}

RunSymmetry == Permutations(Runs)
=============================================================================
