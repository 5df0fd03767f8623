\* One run at a time, branches that stop moving.
SPECIFICATION FairSpec
CONSTANTS
  Night = Night
  Dispatch = Dispatch
  Repos <- MCRepos
  Self = "hif-regression"
  Slots = {Night}
  MaxCommits = 1
  MaxFaults = 1
PROPERTY
  RestingHeadsAreTested
