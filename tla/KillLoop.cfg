\* A build that forks while it is killed; the freezer may be late.
SPECIFICATION Spec
CONSTANTS
  Pids = {p1, p2, p3, p4}
  Passes = 3
INVARIANTS
  KillIsComplete
