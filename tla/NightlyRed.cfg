\* A Sunday run that fails on a fingerprint already remembered.
SPECIFICATION Spec
CONSTANTS
  Night = Night
  Dispatch = Dispatch
  Repos <- MCRepos
  Self = "hif-regression"
  Slots = {Night}
  MaxCommits = 1
  MaxFaults = 0
PROPERTY
  FailureRunsAgain
