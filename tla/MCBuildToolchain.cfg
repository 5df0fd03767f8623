\* Every graph; builds that die and are started again.
SPECIFICATION FairSpec
CONSTANTS
  Names <- MCNames
  Foreign <- MCForeign
  Index <- MCIndex
  Graphs <- MCGraphs
INVARIANTS
  ToolchainInv
  DependenciesFirst
  EnvMeansWhole
  CycleVerdict
PROPERTY
  BuildEnds
