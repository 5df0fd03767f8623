\* --quiet, with every tool in the workspace.
SPECIFICATION SessionSpec
CONSTANTS
  Names <- MCNames
  Foreign = {}
  Index <- MCIndex
  Graphs <- MCGraphs
  Tools <- MCTools
  Probe = "verilog2hif"
  Provider <- MCProvider
  Sessions <- QuietSession
INVARIANT
  WorkspaceToolsFindTheirLibraries
