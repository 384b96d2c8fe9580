\* The smallest recursion limit the settings allow, with more rounds than it has room for.
CONSTANTS
  ToolPlanMax = 2
  ToolExecMax = 2
  RagMax = 1
  ProposalMax = 1
  BudgetMax = 2
  RecursionLimit = 20
  PlannerFaults = 2
  MaxRevisions = 1
SPECIFICATION FairSpec
\* A thread stops for good when it has ended or raised.
CHECK_DEADLOCK FALSE
PROPERTIES
  InvocationReturns
