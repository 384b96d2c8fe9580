\* Three candidates of a kind take part, as many as the filters leave of this catalogue.
CONSTANTS
  Requests <- AllRequests
  Catalogue <- SmallCatalogue
  MaxCandidates = 3
  MaxAlternatives = 2
  MaxFollowed = 2
  Tolerance = 1
SPECIFICATION Spec
\* The graph goes on elsewhere.
CHECK_DEADLOCK FALSE
INVARIANTS
  SelectionPassesVerifier
  BudgetAddsUp
  BetterIsPreferred
  AdviceIsExact
