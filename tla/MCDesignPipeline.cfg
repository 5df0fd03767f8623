\* Every pipeline of the instance, whole and partial toolchains; one checkout.
SPECIFICATION FairSpec
CONSTANTS
  OpIds <- MCOpIds
  RunIds <- MCRunIds
  Names <- DesignNames
  NoName = NoName
  Pipelines <- AllPipelines
  Tools <- MCTools
  Simulators <- MCSimulators
  Validators <- MCValidators
  Installations <- MCInstallations
  SourceCounts = {1, 2}
  MaxFiles = 2
  Lines = {"x", "y"}
  Golden = "x"
  Categories = {"sequential"}
  EntryNames <- MCEntryNames
  FileNames = {"rtl.v", "tb.v", "trace"}
  Verilog = {"rtl.v", "tb.v"}
  Roles = {"testbench", "golden"}
  Checkouts <- MCCheckouts
INVARIANTS
  EngineInv
  VerdictInv
  RejectedNeverConsumed
  EndsAsPossible
  ValidationReadsPassingRuns
  PassIsEarned
PROPERTIES
  StagesAreFinal
  ImplementsContract
  Terminates
CHECK_DEADLOCK FALSE
