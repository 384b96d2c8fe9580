\* The default settings, one revision.
CONSTANTS
  ToolPlanMax = 1
  ToolExecMax = 1
  RagMax = 1
  ProposalMax = 1
  BudgetMax = 1
  RecursionLimit = 100
  PlannerFaults = 0
  MaxRevisions = 1
SPECIFICATION Spec
CHECK_DEADLOCK FALSE
INVARIANTS
  OfferedActionsPossible
