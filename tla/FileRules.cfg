\* Links that lead into, out of and over the protected directory, changed at
\* any time between an event and its judgement.
SPECIFICATION Spec
CONSTANTS
  Names <- MCNames
  Dirs <- MCDirs
  Cwd <- MCCwd
  Cwds <- MCCwds
  Links <- MCLinks
  Targets <- MCTargets
  Nowhere = nowhere
  Opened <- MCOpened
  Executed <- MCExecuted
  Protected <- MCProtected
  Tilde <- MCTilde
  Disallowed <- MCDisallowed
  CommOf <- MCCommOf
  InitFiles <- MCInitFiles
  MaxPending = 1
INVARIANTS
  
  
  DisallowedExecFlagged
