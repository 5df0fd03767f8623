\* Every way to call the runner, beside a builder.
SPECIFICATION SessionSpec
CONSTANTS
  Names <- MCNames
  Foreign = {}
  Index <- MCIndex
  Graphs <- MCGraphs
  Tools <- MCTools
  Probe = "verilog2hif"
  Provider <- MCProvider
  Sessions <- MCSessions
INVARIANTS
  SessionInv
  WholeToolchain
  LibrariesMatch
  BannerIsTrue
