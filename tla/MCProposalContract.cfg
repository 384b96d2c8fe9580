\* Three trips, room for five items in the prompt, two attempts and two repairs.
CONSTANTS
  Inputs <- AllInputs
  Drafts <- AllDrafts
  MaxItems = 5
  MaxAttempts = 2
  MaxRepairs = 2
  MaxIssues = 2
  Tolerance = 1
SPECIFICATION Spec
\* The graph goes on elsewhere.
CHECK_DEADLOCK FALSE
INVARIANTS
  CheckersAgree
  PromptIsComplete
  AcceptedIsGrounded
  FeedbackIsCurrent
