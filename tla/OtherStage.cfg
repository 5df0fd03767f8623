\* A design rejected at another stage than the one it declares.
SPECIFICATION Spec
CONSTANTS
  OpIds = {"frontend", "simulate", "validate"}
  RunIds = {"r1"}
  Names = {"verilog2hif", "iverilog", "equal", "plain", "behavioral", "unknown"}
  NoName = NoName
  Categories = {"comb"}
  EntryNames = {"foo", "vhdl"}
  FileNames <- MCFiles
  Verilog <- MCVerilog
  Roles = {"testbench", "golden"}
  Checkouts <- OneCheckout
  Filters <- MCFilters
  MaxSessions = 1
INVARIANT
  OtherStageFails
