\* Two runs at a time, a branch that may be rewound.
SPECIFICATION Spec
CONSTANTS
  Night = Night
  Dispatch = Dispatch
  Repos <- MCRepos
  Self = "hif-regression"
  Slots <- Both
  MaxCommits = 1
  MaxFaults = 1
SYMMETRY EitherSlot
INVARIANTS
  GateInv
  SkipIsSafe
  NothingUntested
