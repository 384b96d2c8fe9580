\* Four calls, one at a time: a single server process.
CONSTANTS
  Call = {c1, c2, c3, c4}
  Request <- AllRequests
  User = {"ann", "bob", "eve"}
  Registered = {"ann", "bob"}
  Session = {"s1", "s2", "s3"}
  Exclusive = TRUE
SYMMETRY Calls
SPECIFICATION Spec
\* Every call ends; nothing happens after that.
CHECK_DEADLOCK FALSE
INVARIANTS
  RowDescribesVersion
PROPERTIES
  VersionsAscend
