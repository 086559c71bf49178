\* One run, every option, every fault the properties do not name.
SPECIFICATION FairSpec
CONSTANTS
  Runs = {r1}
  Ids = {i1}
  Options <- AnyOptions
  Faults = {"signal", "crash", "sticky", "nftCut", "partialWrite"}
INVARIANTS
  BuildConfined
  HostRestored
  SudoRevoked
  ReportIsEgrets
  ExitZeroIsEarned
  CoverageHonest
PROPERTY EndsOnSignal
