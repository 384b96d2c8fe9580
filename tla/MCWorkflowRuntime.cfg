\* One thread, three calls that compete for the lock, two crashes.
CONSTANTS
  Call = {c1, c2, c3}
  Thread = {t1}
  MaxCrashes = 2
SPECIFICATION FairSpec
\* When every call is answered nothing is left to do.
CHECK_DEADLOCK FALSE
INVARIANTS
  DraftsAreApproved
  QuestionSurvives
  EndingsAgree
  IdleIsResumable
PROPERTIES
  CallsAreAnswered
