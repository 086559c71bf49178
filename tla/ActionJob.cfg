\* One job: every answer of the network and every failure of the install step,
\* two ways to run egret, a build that plants entries, a death at any call.
SPECIFICATION Spec
CONSTANTS
  Directories = {"/", "tmp", "data", "etc", "work", "mine", "safe", "new1", "new2"}
  Slash = "/"
  RootOnly = {"/", "data", "etc"}
  Sticky = {"tmp"}
  ByBuild = {"mine"}
  ByEgret = {"new1", "new2"}
  Names = {"tmp", "home", "work", "srv", "safe", "out", "sub"}
  Layout <- MCLayout
  Via <- MCVia
  Plantable <- MCPlantable
  Targets = {"etc"}
  Requests <- MCRequests
  SummaryDir <- MCSummaryDir
  Nowhere = "nowhere"
  Temp = "tmp"
  Safe = "safe"
  SafeName = "safe"
  ReportPath <- MCReportPath
  UserPaths <- MCUserPaths
  MaxFound = 1
INVARIANTS
  NeverSteered
  ReportWhole
  EgretIsVerified
PROPERTY VerdictIsEarned
