\* A run that crashes before one that is rejected.
SPECIFICATION Spec
CONSTANTS
  OpIds <- MCOpIds
  RunIds <- MCRunIds
  Names <- MCNames
  NoName = NoName
  Pipelines <- OnlyMuffin
  Tools <- MCTools
  Simulators <- MCSimulators
  Validators <- MCValidators
  Installations <- OnlyAllInstalled
  SourceCounts = {1, 2}
  MaxFiles = 2
  Lines = {"x", "y"}
  Golden = "x"
INVARIANT
  CrashesAreNotBucketedAway
CHECK_DEADLOCK FALSE
