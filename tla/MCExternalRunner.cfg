\* Sessions of either pin that may die anywhere.
SPECIFICATION Spec
CONSTANTS
  NumKeys = 2
  NumSuites = 3
  KeyOf <- MCKeyOf
  Revisions <- MCRevisions
  Pins <- MCPins
  Files <- MCFiles
  SuiteOf <- MCSuiteOf
  Rank <- MCRank
  Stem <- OwnStem
  Tree <- MCTree
  Excluded <- Latch
  Requests <- MCRequests
  Baselines <- MCBaselines
  Runs <- MCRuns
INVARIANTS
  ExternalInv
  CheckoutIsTheCommit
  GreenIsEarned
  RedIsReal
PROPERTY
  ReportIsComplete
