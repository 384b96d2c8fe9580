\* One round of repair; rankings of two chunks a task, five chunks for the judge.
CONSTANTS
  Corpus <- SmallCorpus
  FetchMultiplier = 1
  RrfK = 60
  TopKPerTask = 2
  MinPerHotel = 1
  Trips <- SomeTrips
  Settings <- SomeSettings
  Decisions <- SomeDecisions
  Opinions <- SomeOpinions
  TopK <- FirstTopK
  RepairTopK <- SecondTopK
  TopKPerRisk = 1
  MaxTasks <- TaskRoom
  MaxRepairs = 1
  MaxJudged = 3
SPECIFICATION FairSpec
\* The graph goes on elsewhere.
CHECK_DEADLOCK FALSE
INVARIANTS
  EvidenceServesTrip
  NothingNeededIsHidden
PROPERTIES
  RepairOnlyAdds
  ImplementsGraph
