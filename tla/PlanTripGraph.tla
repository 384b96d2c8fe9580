---------------------------- MODULE PlanTripGraph ----------------------------
(***************************************************************************)
(* One thread of the plan-trip workflow (app/workflows/plan_trip_workflow) *)
(* as LangGraph runs it: one node per super-step, the node's partial       *)
(* update merged into TravelState, the next node chosen by the conditional *)
(* edge (or by the Command of decision_gate).  decision_gate interrupts    *)
(* the run; the user's answer starts a second invocation, which executes   *)
(* the node again from its first line.                                     *)
(*                                                                         *)
(* Data is reduced to what the control depends on.  Every derived object   *)
(* carries the generation of the trip request it was computed from, so     *)
(* that a value left over from before a revision can be told from a fresh  *)
(* one; proposals and selections carry a serial number.                    *)
(***************************************************************************)
EXTENDS Integers

CONSTANTS
  ToolPlanMax,     \* settings.tool_plan_max_retries
  ToolExecMax,     \* settings.tool_execute_max_retries
  RagMax,          \* settings.agentic_rag_max_replans, RetrievalPlan.max_repair_rounds
  ProposalMax,     \* settings.verifier_max_proposal_repairs
  BudgetMax,       \* settings.verifier_max_budget_repairs
  RecursionLimit,  \* settings.workflow_recursion_limit: super-steps of one invocation
  PlannerFaults,   \* bound: exceptions of the retrieval planner in one thread
  MaxRevisions     \* bound: change requests the user gets applied

ASSUME LimitsAssumption ==
  /\ ToolPlanMax \in Nat /\ ToolExecMax \in Nat /\ RagMax \in Nat
  /\ ProposalMax \in Nat /\ BudgetMax \in Nat
  /\ RecursionLimit \in Nat \ {0}
  /\ PlannerFaults \in Nat /\ MaxRevisions \in Nat

VARIABLES
  run,       \* new | running | waiting (interrupted) | ended | raised (invoke raised)
  node,      \* the node LangGraph executes next
  steps,     \* super-steps of the current invocation
  faults,    \* planner exceptions so far (bounds the environment)
  request,   \* generation of trip_request: the number of revisions applied
  retry,     \* the five *_retry_count fields
  tools,     \* planning_context, tool_plan, *_fetch_meta, candidate_rank_result
  choice,    \* selection_result
  rag,       \* retrieval_plan, retrieval_feedback, evidence_result
  draft,     \* proposal and proposal_result
  verdict,   \* verifier_result
  pending,   \* the approve_proposal entry of pending_actions
  decision,  \* decision_result
  revision,  \* change_request, revision_plan and revision_result
  outcome,   \* commit_result, cancel_result, final_response and itinerary_status
  shown      \* history: the proposals put before the user, with their versions

control == <<run, node, steps, faults>>
planning == <<tools, choice, rag>>
review == <<draft, verdict, pending>>
vars == <<control, request, retry, planning, review, decision, revision, outcome, shown>>

None == -1       \* the generation of an object that does not exist

Nodes == {"input_extract", "missing_info_check", "clarify", "safety_check",
  "safe_reject", "memory_read", "planning_context", "tool_plan", "tool_execute",
  "tool_check", "candidate_rank", "budget_optimize", "retrieval_plan",
  "hybrid_retrieve", "rerank", "evidence_grade", "proposal", "verifier",
  "decision_gate", "revision_analyze", "apply_revision", "commit_draft", "cancel",
  "final_response", "END"}

Kinds == {"approve", "request_changes", "cancel"}

------------------------------------------------------------------------------
(* The initial state of build_initial_plan_trip_state, and the defaults that
   apply_revision writes back over everything derived from the old request. *)

NoRetries == [toolPlan |-> 0, toolExec |-> 0, rag |-> 0, proposal |-> 0, budget |-> 0]
NoTools == [context |-> None, plan |-> "none", fetched |-> FALSE, ranked |-> "none"]
NoChoice == [status |-> "none", context |-> None]
NoRag == [plan |-> "none", of |-> None, feedback |-> FALSE, evidence |-> "none", pool |-> None]
NoProposal == [no |-> 0, version |-> 0, context |-> None, choice |-> None, evidence |-> None]
NoVerdict == [next |-> "none", no |-> 0]
NoPending == [status |-> "none", no |-> 0]
NoDecision == [status |-> "none", kind |-> "none", no |-> 0, version |-> 0]
NoRevision == [asked |-> 0, plan |-> "none", base |-> 0, baseVersion |-> 0,
               result |-> "none", resultVersion |-> 0]
NoOutcome == [commit |-> "none", cancel |-> "none", final |-> "none",
              itinerary |-> "collecting_info"]

Init ==
  /\ run = "new" /\ node = "input_extract" /\ steps = 0 /\ faults = 0
  /\ request = 0
  /\ retry = NoRetries
  /\ tools = NoTools /\ choice = NoChoice /\ rag = NoRag
  /\ draft = [proposal |-> NoProposal, result |-> "none", made |-> 0]
  /\ verdict = NoVerdict /\ pending = NoPending
  /\ decision = NoDecision /\ revision = NoRevision /\ outcome = NoOutcome
  /\ shown = {}

------------------------------------------------------------------------------
(* LangGraph. *)

\* The scheduler executes node n, then goes to next; one super-step.
Step(n, next) ==
  /\ run = "running" /\ node = n /\ steps < RecursionLimit
  /\ node' = next /\ steps' = steps + 1
  /\ run' = IF next = "END" THEN "ended" ELSE "running"

\* Slip: the limit is compared with one step too many.
RecursionErrorLate ==
  /\ run = "running" /\ steps > RecursionLimit
  /\ run' = "raised"
  /\ UNCHANGED <<node, steps, faults, request, retry, planning, review, decision,
                 revision, outcome, shown>>

\* GraphRecursionError: the invocation is over and its thread has no way on.
RecursionError ==
  /\ run = "running" /\ steps = RecursionLimit
  /\ run' = "raised"
  /\ UNCHANGED <<node, steps, faults, request, retry, planning, review, decision,
                 revision, outcome, shown>>

\* start_plan on a thread that has no checkpoint.
Start ==
  /\ run = "new"
  /\ run' = "running" /\ steps' = 0
  /\ UNCHANGED <<node, faults, request, retry, planning, review, decision,
                 revision, outcome, shown>>

------------------------------------------------------------------------------
(* Request intake. *)

\* Extraction never fails the run: an exception leaves an empty fallback request.
InputExtract ==
  /\ Step("input_extract", "missing_info_check")
  /\ UNCHANGED <<faults, request, retry, planning, review, decision, revision, outcome, shown>>

MissingInfoCheck ==
  /\ \E next \in {"clarify", "safety_check"} : Step("missing_info_check", next)
  /\ UNCHANGED <<faults, request, retry, planning, review, decision, revision, outcome, shown>>

Clarify ==
  /\ Step("clarify", "final_response")
  /\ outcome' = [outcome EXCEPT !.final = "clarification", !.itinerary = "collecting_info"]
  /\ UNCHANGED <<faults, request, retry, planning, review, decision, revision, shown>>

\* An exception of the safety check counts as blocked.
SafetyCheck ==
  /\ \E next \in {"safe_reject", "memory_read"} : Step("safety_check", next)
  /\ UNCHANGED <<faults, request, retry, planning, review, decision, revision, outcome, shown>>

SafeReject ==
  /\ Step("safe_reject", "final_response")
  /\ outcome' = [outcome EXCEPT !.final = "safety_reject", !.itinerary = "rejected"]
  /\ UNCHANGED <<faults, request, retry, planning, review, decision, revision, shown>>

MemoryRead ==
  /\ Step("memory_read", "planning_context")
  /\ UNCHANGED <<faults, request, retry, planning, review, decision, revision, outcome, shown>>

\* A failure appends to errors only: planning_context keeps what it held.
PlanningContext ==
  /\ Step("planning_context", "tool_plan")
  /\ \E built \in BOOLEAN :
       tools' = IF built THEN [tools EXCEPT !.context = request] ELSE tools
  /\ UNCHANGED <<faults, request, retry, choice, rag, review, decision, revision,
                 outcome, shown>>

------------------------------------------------------------------------------
(* Tools.  fetched stands for the three *_fetch_meta fields of the required
   tools: TRUE when none of them is missing or failed. *)

\* required calls that do not survive validation leave an incomplete plan;
\* refused optional calls leave issues.
ToolPlan ==
  /\ Step("tool_plan", "tool_execute")
  /\ tools.context # None
  /\ \E plan \in {"clean", "issues", "incomplete"} : tools' = [tools EXCEPT !.plan = plan]
  /\ UNCHANGED <<faults, request, retry, choice, rag, review, decision, revision,
                 outcome, shown>>

\* Before its try block the node requires planning_context.request and the MCP
\* runtime: either one missing ends the invocation with the exception.
ToolPlanRaises ==
  /\ run = "running" /\ node = "tool_plan" /\ steps < RecursionLimit
  /\ run' = "raised" /\ steps' = steps + 1
  /\ UNCHANGED <<node, faults, request, retry, planning, review, decision, revision,
                 outcome, shown>>

\* A call whose result is cached is not repeated, so what was fetched stays fetched.
ToolExecute ==
  /\ Step("tool_execute", "tool_check")
  /\ \E ok \in BOOLEAN :
       /\ tools.fetched => ok
       /\ ok => tools.fetched \/ tools.plan # "incomplete"
       /\ tools' = [tools EXCEPT !.fetched = ok]
  /\ UNCHANGED <<faults, request, retry, choice, rag, review, decision, revision,
                 outcome, shown>>

Replan == tools.plan # "clean" /\ retry.toolPlan < ToolPlanMax
Refetch == tools.plan # "incomplete" /\ ~tools.fetched /\ retry.toolExec < ToolExecMax
ToolsReady == tools.plan # "incomplete" /\ tools.fetched

ToolCheck ==
  /\ \/ /\ Replan
        /\ Step("tool_check", "tool_plan")
        /\ retry' = [retry EXCEPT !.toolPlan = @ + 1]
     \/ /\ ~Replan /\ Refetch
        /\ Step("tool_check", "tool_execute")
        /\ retry' = [retry EXCEPT !.toolExec = @ + 1]
     \/ /\ ~Replan /\ ToolsReady
        /\ Step("tool_check", "candidate_rank")
        /\ UNCHANGED retry
     \/ /\ ~Replan /\ ~Refetch /\ ~ToolsReady
        /\ Step("tool_check", "final_response")
        /\ UNCHANGED retry
  /\ UNCHANGED <<faults, request, planning, review, decision, revision, outcome, shown>>

\* ok needs a complete set of flights and hotels; partial, no_candidates and
\* failed all end the run.
CandidateRank ==
  /\ \E ranked \in {"ok", "bad"} :
       /\ Step("candidate_rank", IF ranked = "ok" THEN "budget_optimize" ELSE "final_response")
       /\ tools' = [tools EXCEPT !.ranked = ranked]
  /\ UNCHANGED <<faults, request, retry, choice, rag, review, decision, revision,
                 outcome, shown>>

BudgetOptimize ==
  /\ \E status \in {"feasible", "infeasible"} :
       /\ Step("budget_optimize",
               IF status = "feasible" THEN "retrieval_plan" ELSE "final_response")
       /\ choice' = [status |-> status, context |-> tools.context]
  /\ UNCHANGED <<faults, request, retry, tools, rag, review, decision, revision,
                 outcome, shown>>

------------------------------------------------------------------------------
(* Retrieval. *)

Older(a, b) == IF a < b THEN a ELSE b

\* Slip: a repair does not cost a round.
RetrievalPlanFree ==
  /\ Step("retrieval_plan", "hybrid_retrieve")
  /\ \E mode \in {"initial", "repair"} :
       /\ mode = "initial" <=> ~rag.feedback
       /\ rag' = [rag EXCEPT !.plan = mode, !.of = tools.context]
  /\ UNCHANGED <<faults, request, retry, tools, choice, review, decision, revision, outcome,
                 shown>>

\* Feedback of the grader turns the plan into a repair, which costs one round.
\* Required gaps always compile to a task, so a repair plan is empty only when
\* the rounds are used up.
RetrievalPlan ==
  /\ Step("retrieval_plan", "hybrid_retrieve")
  /\ \E mode \in {"initial", "repair", "exhausted"} :
       /\ mode = "initial" <=> ~rag.feedback
       /\ mode = "exhausted" => retry.rag >= RagMax
       /\ mode = "repair" => retry.rag < RagMax
       /\ rag' = [rag EXCEPT !.plan = mode, !.of = tools.context]
       /\ retry' = IF mode = "repair" THEN [retry EXCEPT !.rag = @ + 1] ELSE retry
  /\ UNCHANGED <<faults, request, tools, choice, review, decision, revision, outcome, shown>>

\* The planner raises: errors is appended to and the previous plan stays.
RetrievalPlanFails ==
  /\ Step("retrieval_plan", "hybrid_retrieve")
  /\ faults < PlannerFaults
  /\ faults' = faults + 1
  /\ UNCHANGED <<request, retry, planning, review, decision, revision, outcome, shown>>

\* Both nodes always return a list, empty when retrieval or reranking failed.
HybridRetrieve ==
  /\ Step("hybrid_retrieve", "rerank")
  /\ UNCHANGED <<faults, request, retry, planning, review, decision, revision, outcome, shown>>

Rerank ==
  /\ Step("rerank", "evidence_grade")
  /\ UNCHANGED <<faults, request, retry, planning, review, decision, revision, outcome, shown>>

CanRepairEvidence == rag.plan # "exhausted" /\ retry.rag < RagMax

\* next_action: continue when the required categories are covered, repair while
\* rounds are left, stop otherwise.  The semantic judge may also stop early, and
\* an exception (in particular a missing plan) stops.
EvidenceGrade ==
  /\ \E next \in {"continue", "repair", "stop"}, feedback \in BOOLEAN :
       /\ rag.plan = "none" => next = "stop" /\ ~feedback
       /\ next = "continue" => ~feedback
       /\ next = "repair" => feedback /\ CanRepairEvidence
       /\ Step("evidence_grade", CASE next = "continue" -> "proposal"
                                   [] next = "repair" -> "retrieval_plan"
                                   [] next = "stop" -> "final_response")
       /\ rag' = [rag EXCEPT !.evidence = next, !.feedback = feedback,
                             !.pool = IF rag.plan = "none" THEN @
                                      ELSE IF rag.plan = "initial" \/ @ = None THEN rag.of
                                      ELSE Older(@, rag.of)]
  /\ UNCHANGED <<faults, request, retry, tools, choice, review, decision, revision,
                 outcome, shown>>

------------------------------------------------------------------------------
(* Proposal and verification. *)

\* Slip: a proposal always starts at version 1.
NextVersionRestarts == 1

\* _resolve_proposal_version
NextVersion ==
  IF revision.result = "applied" /\ revision.resultVersion >= 1
  THEN revision.resultVersion + 1
  ELSE IF revision.plan = "ready" /\ revision.baseVersion >= 1
  THEN revision.baseVersion + 1
  ELSE 1

Proposal ==
  /\ Step("proposal", "verifier")
  /\ tools.context # None /\ choice.status = "feasible" /\ rag.evidence = "continue"
  /\ draft' = [result |-> "generated", made |-> draft.made + 1,
               proposal |-> [no |-> draft.made + 1, version |-> NextVersion,
                             context |-> tools.context, choice |-> choice.context,
                             evidence |-> rag.pool]]
  /\ verdict' = NoVerdict /\ pending' = NoPending
  /\ outcome' = [outcome EXCEPT !.itinerary = "proposed"]
  /\ UNCHANGED <<faults, request, retry, planning, decision, revision, shown>>

\* The generator gives up, or an input is missing: the proposal is emptied, the
\* verifier's result and the pending action are left as they were.
ProposalFails ==
  /\ Step("proposal", "final_response")
  /\ draft' = [draft EXCEPT !.proposal = NoProposal, !.result = "failed"]
  /\ UNCHANGED <<faults, request, retry, planning, verdict, pending, decision, revision,
                 outcome, shown>>

\* The proposal agrees with the selection, evidence and weather in the state, and
\* no blocking issue is left: one approval becomes pending.
VerifierPasses ==
  /\ Step("verifier", "decision_gate")
  /\ draft.proposal.choice = choice.context /\ draft.proposal.evidence = rag.pool
  /\ verdict' = [next |-> "decision_gate", no |-> draft.proposal.no]
  /\ pending' = [status |-> "pending", no |-> draft.proposal.no]
  /\ UNCHANGED <<faults, request, retry, planning, draft, decision, revision, outcome, shown>>

\* _decide_next_action for blocking issues.  The retrieval target is not among the
\* repairs here: it needs evidence that did not pass, and proposal has already
\* refused that.
VerifierRepairs ==
  /\ \/ /\ retry.proposal < ProposalMax
        /\ Step("verifier", "proposal")
        /\ verdict' = [next |-> "proposal", no |-> draft.proposal.no]
        /\ retry' = [retry EXCEPT !.proposal = @ + 1]
     \/ /\ retry.budget < BudgetMax
        /\ Step("verifier", "budget_optimize")
        /\ verdict' = [next |-> "budget_optimize", no |-> draft.proposal.no]
        /\ retry' = [retry EXCEPT !.budget = @ + 1]
  /\ pending' = NoPending
  /\ UNCHANGED <<faults, request, planning, draft, decision, revision, outcome, shown>>

\* A critical issue, a repair target whose rounds are used up, or an exception.
VerifierFails ==
  /\ Step("verifier", "final_response")
  /\ \E no \in {0, draft.proposal.no} : verdict' = [next |-> "final_response", no |-> no]
  /\ pending' = NoPending
  /\ UNCHANGED <<faults, request, retry, planning, draft, decision, revision, outcome, shown>>

------------------------------------------------------------------------------
(* The human decision. *)

\* build_decision_interrupt_payload
GateReady ==
  /\ verdict.next = "decision_gate"
  /\ draft.proposal.no > 0 /\ draft.proposal.version >= 1
  /\ pending = [status |-> "pending", no |-> draft.proposal.no]

\* The node interrupts with its payload, or refuses to ask at all.
DecisionGate ==
  /\ run = "running" /\ node = "decision_gate" /\ steps < RecursionLimit
  /\ steps' = steps + 1
  /\ IF GateReady
     THEN /\ run' = "waiting"
          /\ shown' = shown \cup {[no |-> draft.proposal.no, version |-> draft.proposal.version]}
          /\ UNCHANGED <<node, decision>>
     ELSE /\ run' = "running" /\ node' = "final_response"
          /\ decision' = [NoDecision EXCEPT !.status = "failed"]
          /\ UNCHANGED shown
  /\ UNCHANGED <<faults, request, retry, planning, review, revision, outcome>>

Destination(kind) ==
  CASE kind = "approve" -> "commit_draft"
    [] kind = "request_changes" -> "revision_analyze"
    [] kind = "cancel" -> "cancel"

Decided(kind) ==
  CASE kind = "approve" -> "approved"
    [] kind = "request_changes" -> "changes_requested"
    [] kind = "cancel" -> "cancelled"

\* Slip: the answer is not compared with the proposal in force.
AcceptAny(kind, no) ==
  /\ run = "waiting" /\ GateReady
  /\ kind = "request_changes" => request < MaxRevisions
  /\ run' = "running" /\ node' = Destination(kind) /\ steps' = 1
  /\ decision' = [status |-> "accepted", kind |-> kind, no |-> no,
                  version |-> draft.proposal.version]
  /\ pending' = [pending EXCEPT !.status = Decided(kind)]
  /\ revision' = [revision EXCEPT !.asked = IF kind = "request_changes" THEN no ELSE 0]
  /\ UNCHANGED <<faults, request, retry, planning, draft, verdict, outcome, shown>>

\* Slip: the approval action is not marked as decided.
AcceptUnmarked(kind, no) ==
  /\ run = "waiting" /\ GateReady /\ no = draft.proposal.no
  /\ kind = "request_changes" => request < MaxRevisions
  /\ run' = "running" /\ node' = Destination(kind) /\ steps' = 1
  /\ decision' = [status |-> "accepted", kind |-> kind, no |-> no,
                  version |-> draft.proposal.version]
  /\ revision' = [revision EXCEPT !.asked = IF kind = "request_changes" THEN no ELSE 0]
  /\ UNCHANGED <<faults, request, retry, planning, review, outcome, shown>>

\* resume_decision: a new invocation, whose first super-step is decision_gate
\* executed again with the answer.  no is the proposal the client names; the
\* action id is derived from it.
Accept(kind, no) ==
  /\ run = "waiting" /\ GateReady /\ no = draft.proposal.no
  /\ kind = "request_changes" => request < MaxRevisions
  /\ run' = "running" /\ node' = Destination(kind) /\ steps' = 1
  /\ decision' = [status |-> "accepted", kind |-> kind, no |-> no,
                  version |-> draft.proposal.version]
  /\ pending' = [pending EXCEPT !.status = Decided(kind)]
  /\ revision' = [revision EXCEPT !.asked = IF kind = "request_changes" THEN no ELSE 0]
  /\ outcome' = IF kind = "request_changes"
                THEN [outcome EXCEPT !.itinerary = "revision_requested"] ELSE outcome
  /\ UNCHANGED <<faults, request, retry, planning, draft, verdict, shown>>

\* A malformed answer, or one for a proposal that is no longer the current one:
\* the error is recorded and the gate asks again.
Reject(no) ==
  /\ run = "waiting" /\ GateReady
  /\ \/ no = 0
     \/ no # draft.proposal.no /\ \E s \in shown : s.no = no
  /\ run' = "running" /\ node' = "decision_gate" /\ steps' = 1
  /\ decision' = [status |-> "invalid", kind |-> "none", no |-> draft.proposal.no,
                  version |-> draft.proposal.version]
  /\ UNCHANGED <<faults, request, retry, planning, review, revision, outcome, shown>>

Resume ==
  \/ \E kind \in Kinds, s \in shown : Accept(kind, s.no)
  \/ \E no \in {0} \cup {s.no : s \in shown} : Reject(no)

------------------------------------------------------------------------------
(* Revision. *)

RevisionAnalyze ==
  /\ \E plan \in {"ready", "clarification", "failed"} :
       /\ plan # "failed" =>
            decision.status = "accepted" /\ decision.kind = "request_changes"
       /\ Step("revision_analyze", IF plan = "ready" THEN "apply_revision"
                                                     ELSE "final_response")
       /\ revision' = [revision EXCEPT
            !.plan = plan,
            !.base = IF plan = "failed" THEN 0 ELSE draft.proposal.no,
            !.baseVersion = IF plan = "failed" THEN 0 ELSE draft.proposal.version,
            !.result = IF plan = "failed" THEN "failed" ELSE "analyzed",
            !.resultVersion = 0]
  /\ UNCHANGED <<faults, request, retry, planning, review, decision, outcome, shown>>

\* _validate_plan_base
BaseIsCurrent ==
  /\ revision.base = draft.proposal.no /\ revision.asked = draft.proposal.no
  /\ revision.baseVersion = draft.proposal.version

\* Slip: planning_context is missing from INVALIDATED_STATE_DEFAULTS.
ApplyRevisionKeepsContext ==
  /\ Step("apply_revision", "missing_info_check")
  /\ revision.plan = "ready" /\ BaseIsCurrent
  /\ request' = request + 1
  /\ retry' = NoRetries
  /\ tools' = [NoTools EXCEPT !.context = tools.context]
  /\ choice' = NoChoice /\ rag' = NoRag
  /\ draft' = [draft EXCEPT !.proposal = NoProposal, !.result = "none"]
  /\ verdict' = NoVerdict /\ pending' = NoPending
  /\ decision' = NoDecision /\ outcome' = NoOutcome
  /\ revision' = [revision EXCEPT !.asked = 0, !.result = "applied",
                                  !.resultVersion = revision.baseVersion]
  /\ UNCHANGED <<faults, shown>>

\* The patch is applied, and INVALIDATED_STATE_DEFAULTS and the counters are
\* written over everything derived from the old request.
ApplyRevision ==
  /\ Step("apply_revision", "missing_info_check")
  /\ revision.plan = "ready" /\ BaseIsCurrent
  /\ request' = request + 1
  /\ retry' = NoRetries
  /\ tools' = NoTools /\ choice' = NoChoice /\ rag' = NoRag
  /\ draft' = [draft EXCEPT !.proposal = NoProposal, !.result = "none"]
  /\ verdict' = NoVerdict /\ pending' = NoPending
  /\ decision' = NoDecision /\ outcome' = NoOutcome
  /\ revision' = [revision EXCEPT !.asked = 0, !.result = "applied",
                                  !.resultVersion = revision.baseVersion]
  /\ UNCHANGED <<faults, shown>>

\* A field operation or a date that does not fit: nothing is applied.
ApplyRevisionFails ==
  /\ Step("apply_revision", "final_response")
  /\ revision' = [revision EXCEPT !.result = "failed", !.resultVersion = 0]
  /\ UNCHANGED <<faults, request, retry, planning, review, decision, outcome, shown>>

------------------------------------------------------------------------------
(* Completion. *)

\* The preconditions CommitDraftService and cancel_node both check before they act.
MayComplete(kind) ==
  /\ verdict = [next |-> "decision_gate", no |-> draft.proposal.no]
  /\ decision = [status |-> "accepted", kind |-> kind, no |-> draft.proposal.no,
                 version |-> draft.proposal.version]
  /\ pending.no = draft.proposal.no
  /\ pending.status \in {Decided(kind)} \cup (IF kind = "approve" THEN {"committed"} ELSE {})

CommitDraft ==
  /\ Step("commit_draft", "final_response")
  /\ MayComplete("approve")
  /\ outcome' = [outcome EXCEPT !.commit = "committed", !.itinerary = "approved_simulated"]
  /\ pending' = [pending EXCEPT !.status = "committed"]
  /\ UNCHANGED <<faults, request, retry, planning, draft, verdict, decision, revision, shown>>

\* Slip: a failed commit is tried again by the graph.
CommitDraftRetries ==
  /\ Step("commit_draft", "commit_draft")
  /\ outcome' = [outcome EXCEPT !.commit = "failed"]
  /\ UNCHANGED <<faults, request, retry, planning, review, decision, revision, shown>>

\* A precondition, a conflict or the database refuses.
CommitDraftFails ==
  /\ Step("commit_draft", "final_response")
  /\ outcome' = [outcome EXCEPT !.commit = "failed"]
  /\ UNCHANGED <<faults, request, retry, planning, review, decision, revision, shown>>

\* The body has no other way to fail than its preconditions.
Cancel ==
  /\ Step("cancel", "final_response")
  /\ outcome' = IF MayComplete("cancel")
                THEN [outcome EXCEPT !.cancel = "cancelled", !.itinerary = "rejected"]
                ELSE [outcome EXCEPT !.cancel = "failed"]
  /\ revision' = IF MayComplete("cancel") THEN [revision EXCEPT !.asked = 0] ELSE revision
  /\ UNCHANGED <<faults, request, retry, planning, review, decision, shown>>

\* Slip: any commit result counts as a committed one.
FinalTypeAnyCommit ==
  IF outcome.final # "none" THEN outcome.final
  ELSE IF outcome.commit # "none" THEN "approved_simulated"
  ELSE IF outcome.cancel = "cancelled" THEN "cancelled"
  ELSE IF revision.plan = "clarification" THEN "revision_needs_clarification"
  ELSE IF revision.result = "failed" THEN "revision_failed"
  ELSE IF tools.ranked = "bad" THEN "candidate_unavailable"
  ELSE IF choice.status = "infeasible" THEN "budget_infeasible"
  ELSE IF rag.evidence = "stop" THEN "insufficient_evidence"
  ELSE IF draft.result = "failed" THEN "proposal_error"
  ELSE IF verdict.next = "final_response" THEN "verification_failed"
  ELSE "workflow_error"

\* build_final_response: the first branch that applies, in the order of the code.
FinalType ==
  IF outcome.final # "none" THEN outcome.final
  ELSE IF outcome.commit = "committed" THEN "approved_simulated"
  ELSE IF outcome.cancel = "cancelled" THEN "cancelled"
  ELSE IF revision.plan = "clarification" THEN "revision_needs_clarification"
  ELSE IF revision.result = "failed" THEN "revision_failed"
  ELSE IF tools.ranked = "bad" THEN "candidate_unavailable"
  ELSE IF choice.status = "infeasible" THEN "budget_infeasible"
  ELSE IF rag.evidence = "stop" THEN "insufficient_evidence"
  ELSE IF draft.result = "failed" THEN "proposal_error"
  ELSE IF verdict.next = "final_response" THEN "verification_failed"
  ELSE IF outcome.commit = "failed" THEN "commit_failed"
  ELSE IF outcome.cancel = "failed" THEN "cancel_failed"
  ELSE "workflow_error"

FinalResponse ==
  /\ Step("final_response", "END")
  /\ outcome' = [outcome EXCEPT !.final = FinalType]
  /\ UNCHANGED <<faults, request, retry, planning, review, decision, revision, shown>>

------------------------------------------------------------------------------
Intake == InputExtract \/ MissingInfoCheck \/ Clarify \/ SafetyCheck \/ SafeReject
            \/ MemoryRead \/ PlanningContext
Search == ToolPlan \/ ToolPlanRaises \/ ToolExecute \/ ToolCheck \/ CandidateRank
            \/ BudgetOptimize
Retrieval == RetrievalPlan \/ RetrievalPlanFails \/ HybridRetrieve \/ Rerank \/ EvidenceGrade
Drafting == Proposal \/ ProposalFails \/ VerifierPasses \/ VerifierRepairs \/ VerifierFails
Revising == RevisionAnalyze \/ ApplyRevision \/ ApplyRevisionFails
Completing == CommitDraft \/ CommitDraftFails \/ Cancel \/ FinalResponse

\* What LangGraph does on its own once an invocation is under way.
GraphStep == Intake \/ Search \/ Retrieval \/ Drafting \/ DecisionGate \/ Revising
               \/ Completing \/ RecursionError

Next == Start \/ GraphStep \/ Resume

Spec == Init /\ [][Next]_vars

\* invoke runs to its end; whether a user starts or answers is up to the user.
FairSpec == Spec /\ WF_vars(GraphStep)

------------------------------------------------------------------------------
(* Properties. *)

Request == 0 .. MaxRevisions
Generation == Request \cup {None}

RetryRecord == [toolPlan : 0 .. ToolPlanMax, toolExec : 0 .. ToolExecMax, rag : 0 .. RagMax,
                proposal : 0 .. ProposalMax, budget : 0 .. BudgetMax]
ToolsRecord == [context : Generation, plan : {"none", "clean", "issues", "incomplete"},
                fetched : BOOLEAN, ranked : {"none", "ok", "bad"}]
ChoiceRecord == [status : {"none", "feasible", "infeasible"}, context : Generation]
RagRecord == [plan : {"none", "initial", "repair", "exhausted"}, of : Generation,
              feedback : BOOLEAN, evidence : {"none", "continue", "repair", "stop"},
              pool : Generation]
ProposalRecord == [no : Nat, version : Nat, context : Generation, choice : Generation,
                   evidence : Generation]
DraftRecord == [proposal : ProposalRecord, result : {"none", "generated", "failed"},
                made : Nat]
VerdictRecord == [next : {"none", "decision_gate", "proposal", "budget_optimize",
                          "final_response"}, no : Nat]
PendingRecord == [status : {"none", "pending", "approved", "changes_requested",
                            "cancelled", "committed"}, no : Nat]
DecisionRecord == [status : {"none", "accepted", "invalid", "failed"},
                   kind : Kinds \cup {"none"}, no : Nat, version : Nat]
RevisionRecord == [asked : Nat, plan : {"none", "ready", "clarification", "failed"},
                   base : Nat, baseVersion : Nat,
                   result : {"none", "analyzed", "applied", "failed"}, resultVersion : Nat]
Finals == {"clarification", "safety_reject", "approved_simulated", "cancelled",
           "revision_needs_clarification", "revision_failed", "candidate_unavailable",
           "budget_infeasible", "insufficient_evidence", "proposal_error",
           "verification_failed", "commit_failed", "cancel_failed", "workflow_error"}
OutcomeRecord == [commit : {"none", "committed", "failed"},
                  cancel : {"none", "cancelled", "failed"}, final : Finals \cup {"none"},
                  itinerary : {"collecting_info", "rejected", "proposed",
                               "revision_requested", "approved_simulated"}]

\* The type of every field.  The counters stay within the configured rounds, which
\* no assignment checks: only the guards in front of the increments do.
TypeOK ==
  /\ run \in {"new", "running", "waiting", "ended", "raised"}
  /\ node \in Nodes /\ steps \in 0 .. RecursionLimit /\ faults \in 0 .. PlannerFaults
  /\ request \in Request /\ retry \in RetryRecord
  /\ tools \in ToolsRecord /\ choice \in ChoiceRecord /\ rag \in RagRecord
  /\ draft \in DraftRecord /\ verdict \in VerdictRecord /\ pending \in PendingRecord
  /\ decision \in DecisionRecord /\ revision \in RevisionRecord
  /\ outcome \in OutcomeRecord
  /\ shown \subseteq [no : Nat, version : Nat]

\* The retry loops of tools, evidence, proposal and budget are nested in each other;
\* together they add up to at most this many super-steps in one invocation.
WorstCase == 19 + 3 * ToolPlanMax + 2 * ToolExecMax + 4 * RagMax + 2 * ProposalMax
                + 7 * BudgetMax + 4 * PlannerFaults

\* However the repair loops interleave, one start or resume of the graph runs at
\* most WorstCase super-steps: the per-loop counters alone end it.
InvocationIsShort == steps <= WorstCase

\* With a recursion limit above that, the only way an invocation ends in an
\* exception is tool_plan's: GraphRecursionError cannot happen.
OnlyToolPlanRaises == RecursionLimit >= WorstCase => (run = "raised" => node = "tool_plan")

\* Whenever decision_gate runs, first or again on resume, the proposal, the
\* verifier's result and the pending action agree, so that it can ask: its
\* precondition failure is never taken.
GateAlwaysReady ==
  run = "waiting" \/ (run = "running" /\ node = "decision_gate") => GateReady

\* What the user is asked to approve was computed, in all its parts, from the
\* request as last revised, although the nodes that fail keep old values.
PresentedIsCurrent ==
  run = "waiting" => /\ draft.proposal.context = request
                     /\ draft.proposal.choice = request
                     /\ draft.proposal.evidence = request

\* A version number names one proposal for the whole life of the thread: repairs
\* rebuild a proposal under the same number, but only one of them is ever shown,
\* and each applied revision moves to the next number.
VersionsNameProposals ==
  /\ \A a, b \in shown : a.version = b.version => a.no = b.no
  /\ run = "waiting" => draft.proposal.version = request + 1

\* A decision in force is one on the proposal in force, which the user has seen.
DecisionIsCurrent ==
  decision.status = "accepted" =>
    /\ decision.no = draft.proposal.no /\ decision.version = draft.proposal.version
    /\ [no |-> decision.no, version |-> decision.version] \in shown

\* The checks of commit_draft and cancel never refuse what decision_gate has let
\* through.
AcceptedCanComplete ==
  run = "running" /\ node \in {"commit_draft", "cancel"} =>
    MayComplete(IF node = "cancel" THEN "cancel" ELSE "approve")

\* The nested loops of repairs keep within the account of WorstCase, and so within a
\* recursion limit of at least that.
InvocationsAreBounded == InvocationIsShort /\ OnlyToolPlanRaises

\* From the gate to the last node no step is refused that the gate has let through, and
\* counters and results keep their types on the way (decision_gate_node, and the
\* preconditions of commit_draft_node and cancel_node).
DecisionsAreCarriedOut == TypeOK /\ GateAlwaysReady /\ AcceptedCanComplete

\* The response a finished thread gives tells what happened to it: nothing left
\* over from an earlier round of planning or revision takes its place.
ResponseTellsOutcome ==
  run = "ended" =>
    /\ outcome.final = "approved_simulated" <=> outcome.commit = "committed"
    /\ outcome.final = "commit_failed" <=> outcome.commit = "failed"
    /\ outcome.final = "cancelled" <=> decision.kind = "cancel"
    /\ outcome.final \in {"revision_needs_clarification", "revision_failed"}
         <=> decision.kind = "request_changes"
    /\ outcome.itinerary = "approved_simulated" <=> outcome.commit = "committed"
    /\ outcome.final = "workflow_error" <=> tools.plan # "none" /\ tools.ranked = "none"

\* An approval or a cancellation, once accepted, is carried to a final response.
DecisionIsAnswered ==
  (run = "running" /\ decision.status = "accepted" /\ decision.kind \in {"approve", "cancel"})
    ~> (run = "ended")

\* Every invocation returns: it ends, waits for the user or raises.
InvocationReturns == (run = "running") ~> (run # "running")

\* The actions a final response offers for the same proposal can be performed,
\* which takes a thread that is still waiting.
OfferedActionsPossible ==
  outcome.final \in {"revision_needs_clarification", "revision_failed", "commit_failed"}
    => run \in {"running", "waiting"}
------------------------------------------------------------------------------
(* The inductive invariant behind the theorems of PlanTripGraphProofs. *)

\* Nodes that run on a planning context, and those that hold a finished proposal.
Planned == {"tool_execute", "tool_check", "candidate_rank", "budget_optimize",
            "retrieval_plan", "hybrid_retrieve", "rerank", "evidence_grade", "proposal",
            "verifier"}
Closing == {"revision_analyze", "apply_revision", "commit_draft", "cancel",
            "final_response", "END"}
Holding == (Closing \ {"final_response", "END"}) \cup {"verifier", "decision_gate"}

\* Super-steps executed before a node when nothing was repaired.  A resume that
\* re-enters at missing_info_check has made two more than a start.
Before(n) ==
  CASE n = "input_extract" -> 0
    [] n \in {"commit_draft", "cancel", "revision_analyze"} -> 1
    [] n = "apply_revision" -> 2
    [] n = "missing_info_check" -> 3
    [] n \in {"clarify", "safety_check"} -> 4
    [] n \in {"safe_reject", "memory_read"} -> 5
    [] n = "planning_context" -> 6
    [] n = "tool_plan" -> 7
    [] n = "tool_execute" -> 8
    [] n = "tool_check" -> 9
    [] n = "candidate_rank" -> 10
    [] n = "budget_optimize" -> 11
    [] n = "retrieval_plan" -> 12
    [] n = "hybrid_retrieve" -> 13
    [] n = "rerank" -> 14
    [] n = "evidence_grade" -> 15
    [] n = "proposal" -> 16
    [] n = "verifier" -> 17
    [] n \in {"decision_gate", "final_response"} -> 18
    [] n = "END" -> 19

\* What the repairs so far have added.  A repair of the evidence is paid for when
\* it is planned, one node after it was requested.
Spent == 3 * retry.toolPlan + 2 * retry.toolExec + 4 * retry.rag + 2 * retry.proposal
           + 7 * retry.budget + 4 * faults
Owed == IF node = "retrieval_plan" /\ rag.feedback THEN 4 ELSE 0

StepLedger ==
  /\ run \in {"running", "ended"} => steps <= Before(node) + Spent + Owed
  /\ run = "running" /\ node \in {"revision_analyze", "apply_revision"} => steps <= Before(node)
  /\ run = "new" => node = "input_extract" /\ steps = 0
  /\ run = "waiting" => node = "decision_gate" /\ steps <= 19 + Spent
  /\ run = "raised" => /\ steps <= WorstCase
                       /\ node = "tool_plan" \/ RecursionLimit < WorstCase
  /\ run = "ended" <=> node = "END"

FeedbackIsDue ==
  /\ rag.feedback => node \in {"retrieval_plan", "hybrid_retrieve", "rerank",
                               "evidence_grade", "final_response", "END"}
  /\ rag.feedback /\ node = "retrieval_plan" => retry.rag < RagMax

Fresh ==
  /\ tools.context \in {None, request}
  /\ node \in Planned => tools.context = request
  /\ choice.status = "feasible" => choice.context = request
  /\ rag.plan # "none" => rag.of = request
  /\ rag.evidence = "continue" => rag.pool = request
  /\ rag.pool \in {None, request}
  /\ draft.proposal.no > 0 =>
       /\ draft.proposal.context = request /\ draft.proposal.choice = request
       /\ draft.proposal.evidence = request

Versioned ==
  /\ revision.result \in {"none", "applied"} \/ node \in {"apply_revision", "final_response", "END"}
  /\ revision.result = "none" => request = 0 /\ revision.plan = "none"
  /\ revision.result = "applied" => request >= 1 /\ revision.resultVersion = request
  /\ draft.proposal.no > 0 => draft.proposal.version = request + 1
  /\ node \in Holding => draft.proposal.no > 0
  /\ node \in {"revision_analyze", "apply_revision"} => request < MaxRevisions
  /\ \A s \in shown :
       /\ s.version <= request + 1
       /\ s.version = request + 1 => /\ s.no = draft.proposal.no
                                     /\ node \in Closing \cup {"decision_gate"}
       /\ \A t \in shown : s.version = t.version => s.no = t.no

Deciding ==
  /\ node = "decision_gate" => GateReady /\ verdict.no = draft.proposal.no
  /\ run = "waiting" =>
       [no |-> draft.proposal.no, version |-> draft.proposal.version] \in shown
  /\ decision.status = "accepted" => node \in Closing
  /\ node = "commit_draft" => MayComplete("approve")
  /\ node = "cancel" => MayComplete("cancel")

IInv == TypeOK /\ StepLedger /\ FeedbackIsDue /\ Fresh /\ Versioned /\ Deciding
          /\ DecisionIsCurrent

\* What final_response looks at, stage by stage (for ResponseTellsOutcome).
IntakeNodes == {"input_extract", "missing_info_check", "clarify", "safety_check",
                "safe_reject", "memory_read", "planning_context"}
NotRanked == IntakeNodes \cup {"tool_plan", "tool_execute", "tool_check", "candidate_rank"}
Selected == {"retrieval_plan", "hybrid_retrieve", "rerank", "evidence_grade", "proposal",
             "verifier"}

Unfinished == outcome.commit = "none" /\ outcome.cancel = "none"
NotRevising == revision.plan \in {"none", "ready"} /\ revision.result \in {"none", "applied"}

NothingRanked ==
  /\ tools.ranked = "none" /\ choice.status = "none" /\ rag.evidence = "none"
  /\ draft.result = "none" /\ verdict.next = "none"
NothingFailed ==
  /\ tools.ranked = "ok" /\ choice.status # "infeasible" /\ rag.evidence # "stop"
  /\ draft.result # "failed" /\ verdict.next # "final_response"
PlanningFailed ==
  tools.ranked = "bad" \/ choice.status = "infeasible" \/ rag.evidence = "stop"
    \/ draft.result = "failed" \/ verdict.next = "final_response"

\* The three ways to final_response: refused by the intake, without a decision, decided.
Refused ==
  outcome.final \in {"clarification", "safety_reject"} /\ tools.plan = "none"
    /\ decision.kind = "none" /\ Unfinished
GivenUp ==
  /\ outcome.final = "none" /\ decision.kind = "none" /\ Unfinished /\ NotRevising
  /\ tools.plan # "none"
  /\ NothingRanked \/ (tools.ranked # "none" /\ PlanningFailed)
Concluded ==
  /\ outcome.final = "none" /\ tools.plan # "none" /\ NothingFailed
  /\ \/ /\ decision.kind = "approve" /\ NotRevising
        /\ outcome.commit # "none" /\ outcome.cancel = "none"
     \/ /\ decision.kind = "cancel" /\ NotRevising
        /\ outcome.commit = "none" /\ outcome.cancel = "cancelled"
     \/ /\ decision.kind = "request_changes" /\ Unfinished
        /\ revision.plan = "clarification" \/ revision.result = "failed"

Telling ==
  /\ outcome.itinerary = "approved_simulated" <=> outcome.commit = "committed"
  /\ node \notin {"final_response", "END"} => outcome.final = "none" /\ Unfinished
  /\ node \notin Closing => decision.kind = "none" /\ NotRevising
  /\ node \in NotRanked => NothingRanked
  /\ node \in IntakeNodes => tools.plan = "none"
  /\ node \notin IntakeNodes \cup {"tool_plan", "final_response", "END"} => tools.plan # "none"
  /\ node \notin NotRanked \cup {"final_response", "END"} => NothingFailed
  /\ node \in Selected => choice.status = "feasible"
  /\ node \in {"commit_draft", "cancel"} => NotRevising
  /\ node \in {"revision_analyze", "apply_revision"} => decision.kind = "request_changes"
  /\ node = "final_response" => Refused \/ GivenUp \/ Concluded
  /\ node = "END" => /\ run = "ended"
                     /\ ResponseTellsOutcome
=============================================================================
