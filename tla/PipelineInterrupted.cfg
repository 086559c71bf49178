\* An interrupted run.
SPECIFICATION Spec
CONSTANTS
  Kinds = {proc}
  ProcKind = proc
  Bad <- LastExecBad
  RingCap = 2
  ChanCap = 1
  StoreCap = 3
  ViolationCap = 1
  MaxExecs = 2
  MaxEvents <- FewOthers
  Scoped = TRUE
INVARIANT BlindSpotNeverSilent
