\* The default retries; one revision, which may change the number of people.
CONSTANTS
  Requests <- TwoTrips
  Answers <- SomeAnswers
  Refusals <- SomeRefusals
  MaxPlanRetries = 1
  MaxExecuteRetries = 1
  MaxOptionalCalls = 4
  MaxRevisions = 1
SPECIFICATION FairSpec
\* The graph goes on elsewhere.
CHECK_DEADLOCK FALSE
INVARIANTS
  SearchIsComplete
  RankedOnCurrentFacts
  GivesUpForCause
PROPERTIES
  SearchEnds
  ImplementsGraph
