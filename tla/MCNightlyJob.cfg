\* One night's job, every outcome of every step; it ends.
SPECIFICATION Spec
CONSTANTS
  Repos <- MCRepos
  CuratedRuns <- MCCuratedRuns
  ExternalRuns <- MCExternalRuns
CHECK_DEADLOCK FALSE
INVARIANTS
  JobInv
  RememberedIsTested
  PageTellsTheVerdict
  PageCountsEverything
PROPERTIES
  ImplementsGate
