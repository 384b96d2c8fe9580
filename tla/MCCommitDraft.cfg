\* Three calls in different processes.
CONSTANTS
  Call = {c1, c2, c3}
  Request <- AllRequests
  User = {"ann", "bob", "eve"}
  Registered = {"ann", "bob"}
  Session = {"s1", "s2", "s3"}
  Exclusive = FALSE
SYMMETRY Calls
SPECIFICATION Spec
\* Every call ends; nothing happens after that.
CHECK_DEADLOCK FALSE
INVARIANTS
  StoreIsWhole
  SavedOnce
  AnswersAreTrue
PROPERTIES
  ImplementsStore
