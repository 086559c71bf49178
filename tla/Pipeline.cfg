\* Enough exec events to fill ring, channel, store and violation list; a second kind with one.
SPECIFICATION FairSpec
CONSTANTS
  Kinds = {proc, conn}
  ProcKind = proc
  MaxExecs = 4
  MaxEvents <- FewOthers
  Bad <- LateExecsBad
  RingCap = 1
  ChanCap = 2
  StoreCap = 2
  ViolationCap = 1
  Scoped = TRUE
INVARIANTS
  Accounted
  BreachesCounted
  CleanIsComplete
PROPERTIES
  Ends
  ImplementsContract
