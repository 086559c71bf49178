\* Two runs with --disable-sudo.
SPECIFICATION Spec
CONSTANTS
  Runs = {r1, r2}
  Ids = {i1}
  Options <- SudoOptions
  Faults = {}
INVARIANT SudoRevoked
