\* Two runs that drew the same id, in any mode.
SPECIFICATION Spec
CONSTANTS
  Runs = {r1, r2}
  Ids = {i1}
  Options <- PlainOptions
  Faults = {"crash"}
SYMMETRY RunSymmetry
INVARIANTS
  RunsIndependent
