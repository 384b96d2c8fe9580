\* The default settings, two revisions, one exception of the planner.
CONSTANTS
  ToolPlanMax = 1
  ToolExecMax = 1
  RagMax = 1
  ProposalMax = 1
  BudgetMax = 1
  RecursionLimit = 100
  PlannerFaults = 1
  MaxRevisions = 2
SPECIFICATION FairSpec
\* A thread stops for good when it has ended or raised.
CHECK_DEADLOCK FALSE
INVARIANTS
  InvocationsAreBounded
  DecisionsAreCarriedOut
  PresentedIsCurrent
  VersionsNameProposals
  DecisionIsCurrent
  ResponseTellsOutcome
PROPERTIES
  DecisionIsAnswered
