\* Two sessions in one checkout, either of which may die anywhere.
SPECIFICATION FairSpec
CONSTANTS
  OpIds = {"frontend", "simulate", "validate"}
  RunIds = {"r1"}
  Names = {"verilog2hif", "iverilog", "equal", "plain", "behavioral", "unknown"}
  NoName = NoName
  Categories = {"comb"}
  EntryNames = {"foo", "vhdl"}
  FileNames <- MCFiles
  Verilog <- MCVerilog
  Roles = {"testbench", "golden"}
  Checkouts <- MCCheckouts
  Filters <- MCFilters
  MaxSessions = 2
INVARIANTS
  RunnerInv
  GreenExit
  NothingVanishes
  FreshArtifacts
  CorrespondenceSeesOneSession
PROPERTIES
  SessionIsTheJobsStep
  FinishedIsRendered
  SessionsEnd
