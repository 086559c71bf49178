\* Jobs that look for one document, audits on one branch, and both.
SPECIFICATION Spec
CONSTANTS
  Jobs = {"j1", "j2"}
  Reports <- MCReports
  Existing <- MCExisting
  Strangers <- MCStrangers
  PageSize = 2
  MaxPages = 2
  MaxBody = 7
  Limit = 8
  Note <- MCNote
  MaxOthers = 2
  MaxLost = 1
  None = none
  Audits = {"a1", "a2"}
  Seen <- MCSeen
  Lower <- MCLower
  NoName = noname
  ByHand <- MCByHand
  MaxCommits = 1
  MaxOutside = 1
  MaxRefused = 1
  Scenarios <- MCScenarios
INVARIANTS
  OneDocument
  TextUsable
  PullCarriesSuggestion
  ConcurrentRunsConverge
CHECK_DEADLOCK FALSE
