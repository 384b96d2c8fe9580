----------------------------- MODULE BudgetCheck -----------------------------
(***************************************************************************)
(* The arithmetic the verifier asks of a proposal's budget                 *)
(* (ProposalVerifier._check_budget_consistency), as the set of problems it *)
(* reports.  Amounts are counted in cents: every price and every sum in    *)
(* the program is rounded to two places.                                   *)
(***************************************************************************)
EXTENDS Integers

CONSTANT Tolerance   \* verifier_float_tolerance, in cents

ASSUME ToleranceIsNumber == Tolerance \in Nat

\* None: no amount is negative.
NoAmount == -1

Close(a, b) == a - b <= Tolerance /\ b - a <= Tolerance
CloseOrNone(a, b) == IF NoAmount \in {a, b} THEN a = b ELSE Close(a, b)
Problem(condition, name) == IF condition THEN {name} ELSE {}

\* budget is the summary in the proposal, facts the selected flights and hotel in it,
\* selected the summary that is still in selection_result.
BudgetProblems(budget, facts, selected) ==
  LET costs == budget.costs
      known == budget.total # NoAmount /\ budget.remaining # NoAmount
      limited == budget.mode = "budget_limited"
  IN  Problem(~Close(costs.transport, costs.outbound + costs.return),
              "transport_cost_arithmetic_error")
      \cup Problem(~Close(costs.subtotal, costs.outbound + costs.return + costs.hotel),
                   "known_subtotal_arithmetic_error")
      \cup Problem(\E part \in DOMAIN facts : ~Close(costs[part], facts[part].price),
                   "known_cost_fact_mismatch")
      \cup Problem(limited /\ ~known, "limited_budget_fields_missing")
      \cup Problem(limited /\ known /\ costs.subtotal - budget.total > Tolerance,
                   "total_budget_violation")
      \cup Problem(limited /\ known /\ ~Close(budget.remaining, budget.total - costs.subtotal),
                   "remaining_budget_mismatch")
      \cup Problem(limited /\ known /\ ~Close(budget.food + budget.buffer, budget.remaining),
                   "remaining_allocation_mismatch")
      \cup Problem(~CloseOrNone(selected.remaining, budget.remaining),
                   "selection_budget_mismatch")
=============================================================================
