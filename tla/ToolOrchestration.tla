--------------------------- MODULE ToolOrchestration ---------------------------
(***************************************************************************)
(* The facts a plan is built on: what to ask (nodes/tool_plan_node.py),    *)
(* the calls (nodes/tool_execute_node.py) and what became of them          *)
(* (nodes/tool_check_node.py). Weather, flights and hotels are always      *)
(* asked for; the model may ask for activities. Calls fail one by one, and *)
(* what was answered is not asked again for the same arguments.            *)
(*                                                                         *)
(* PlanTripGraph knows of all this only whether the plan is clean and      *)
(* whether everything demanded is there; this module implements its three  *)
(* nodes.                                                                  *)
(***************************************************************************)
EXTENDS Integers, Sequences, FiniteSets

CONSTANTS
  Requests,            \* planning_context.request: [trip, people]
  Answers,             \* tool calls of the planner's model: sequences of
                       \* [tool, interest, valid]; valid: its arguments fit the schema
  Refusals,            \* sets of tools whose discovered schema refuses the program's arguments
  MaxPlanRetries,      \* tool_plan_max_retries
  MaxExecuteRetries,   \* tool_execute_max_retries
  MaxOptionalCalls,    \* MAX_OPTIONAL_TOOL_CALLS
  MaxRevisions         \* bound: change requests

ASSUME ToolBounds ==
  /\ MaxPlanRetries \in Nat /\ MaxExecuteRetries \in Nat
  /\ MaxOptionalCalls \in Nat /\ MaxRevisions \in Nat

Required == {"weather", "flights", "hotels"}
Activities == "activities"
Tools == Required \cup {Activities}

VARIABLES
  request,         \* planning_context["request"]
  revisions,       \* change requests so far
  refused,         \* what the schemas of this process refuse
  phase,           \* the node that runs next
  calls,           \* tool_plan["calls"]: tool -> arguments
  issues,          \* tool_plan["validation_issues"]
  meta,            \* tool -> *_fetch_meta: [status, signature]
  facts,           \* tool -> the arguments its stored result answers, NoFacts without one
  offered,         \* planning_context["activity_candidates"]: likewise
  planRetries,     \* tool_plan_retry_count
  executeRetries,  \* tool_execute_retry_count
  status,          \* tool_check_result["status"]
  failures         \* history: tool -> its failed calls for this request, counted as far
                   \* as MaxExecuteRetries + 1

vars == <<request, revisions, refused, phase, calls, issues, meta, facts, offered,
          planRetries, executeRetries, status, failures>>

NoFacts == <<>>
NoMeta == [status |-> "none", signature |-> NoFacts]
NoCalls == [t \in {} |-> NoFacts]

Start(r) ==
  /\ request = r
  /\ phase = "tool_plan"
  /\ calls = NoCalls /\ issues = {}
  /\ meta = [t \in Tools |-> NoMeta] /\ facts = [t \in Tools |-> NoFacts] /\ offered = NoFacts
  /\ planRetries = 0 /\ executeRetries = 0
  /\ status = "none"
  /\ failures = [t \in Tools |-> 0]

Init ==
  /\ revisions = 0
  /\ refused \in Refusals
  /\ \E r \in Requests : Start(r)
-----------------------------------------------------------------------------
(* tool_plan. *)

\* The program's own calls; activities carry the model's interest besides.
Arguments(t, interest) ==
  CASE t = "weather" -> <<request.trip>>
    [] t = Activities -> <<request.trip, interest>>
    [] OTHER -> <<request.trip, request.people>>

Considered(answer) ==
  {i \in DOMAIN answer : i <= MaxOptionalCalls}

\* The first call for activities that fits its schema; one is allowed.
Chosen(answer) ==
  {i \in Considered(answer) :
    /\ answer[i].tool = Activities /\ answer[i].valid
    /\ \A j \in 1 .. i - 1 : answer[j].tool = Activities => ~answer[j].valid}

OptionalIssues(answer) ==
  UNION {IF answer[i].tool # Activities THEN {"unsupported_optional_tool"}
         ELSE IF \E j \in Chosen(answer) : j < i THEN {"optional_tool_call_limit_exceeded"}
         ELSE IF ~answer[i].valid THEN {"invalid_optional_tool_arguments"}
         ELSE {} : i \in Considered(answer)}

ExecutableIssues(planned) ==
  IF planned \cap refused # {} THEN {"invalid_executable_tool_call"} ELSE {}

\* What the program demands goes into the plan whatever the model says.
Planned(interests, found) ==
  LET planned == Required \cup (IF interests # {} THEN {Activities} ELSE {})
      interest == CHOOSE i \in interests : TRUE
  IN  /\ calls' = [t \in planned \ refused |-> Arguments(t, interest)]
      /\ issues' = found \cup ExecutableIssues(planned)

ToolPlan ==
  /\ phase = "tool_plan"
  /\ \/ \E answer \in Answers :
          Planned({answer[i].interest : i \in Chosen(answer)}, OptionalIssues(answer))
     \/ Planned({}, {"optional_tool_planner_failed"})
  /\ phase' = "tool_execute"
  /\ UNCHANGED <<request, revisions, refused, meta, facts, offered, planRetries, executeRetries,
                 status, failures>>
-----------------------------------------------------------------------------
(* tool_execute. *)

Answered(t) == meta[t].status \notin {"none", "failed"}

\* _is_cached: the same question has been answered.
Cached(t) == Answered(t) /\ meta[t].signature = calls[t]

\* A call that fails leaves nothing of the earlier result; without a call for activities
\* there are none.
NewMeta(t, outcome) ==
  IF t \in DOMAIN outcome THEN [status |-> outcome[t], signature |-> calls[t]]
  ELSE IF t = Activities /\ t \notin DOMAIN calls
       THEN [status |-> "skipped", signature |-> NoFacts] ELSE meta[t]

\* Mutant of NewFacts: a failed call leaves the earlier result in place.
NewFactsKept(t, outcome) ==
  IF t \in DOMAIN outcome THEN IF outcome[t] = "ok" THEN calls[t] ELSE facts[t]
  ELSE IF t = Activities /\ t \notin DOMAIN calls THEN NoFacts ELSE facts[t]

NewFacts(t, outcome) ==
  IF t \in DOMAIN outcome THEN IF outcome[t] = "ok" THEN calls[t] ELSE NoFacts
  ELSE IF t = Activities /\ t \notin DOMAIN calls THEN NoFacts ELSE facts[t]

\* Every call fails or is answered on its own, possibly with nothing found.
ToolExecute ==
  /\ phase = "tool_execute"
  /\ \E outcome \in [{t \in DOMAIN calls : ~Cached(t)} -> {"ok", "no_data", "failed"}] :
       /\ meta' = [t \in Tools |-> NewMeta(t, outcome)]
       /\ facts' = [t \in Tools |-> NewFacts(t, outcome)]
       /\ offered' = NewFacts(Activities, outcome)
       /\ failures' = [t \in Tools |->
            IF t \in DOMAIN outcome /\ outcome[t] = "failed" /\ failures[t] <= MaxExecuteRetries
            THEN failures[t] + 1 ELSE failures[t]]
  /\ phase' = "tool_check"
  /\ UNCHANGED <<request, revisions, refused, calls, issues, planRetries, executeRetries, status>>
-----------------------------------------------------------------------------
(* tool_check. *)

Incomplete == ~(Required \subseteq DOMAIN calls)
ReplanIssues ==
  {"unsupported_optional_tool", "invalid_optional_tool_arguments",
   "optional_tool_call_limit_exceeded", "invalid_executable_tool_call"}
NeedsReplan == Incomplete \/ issues \cap ReplanIssues # {}

\* Mutant of FailedRequired: the plan can do without the weather.
FailedRequiredOfTrip == \E t \in Required \ {"weather"} : ~Answered(t)

FailedRequired == \E t \in Required : ~Answered(t)

CheckStatus ==
  IF NeedsReplan THEN "degraded"
  ELSE IF Activities \in DOMAIN calls /\ meta[Activities].status # "ok" THEN "degraded" ELSE "passed"

Check(next, result) == phase' = next /\ status' = result

Replan ==
  /\ NeedsReplan /\ planRetries < MaxPlanRetries
  /\ Check("tool_plan", "replan")
  /\ planRetries' = planRetries + 1
  /\ UNCHANGED executeRetries

\* Mutant of RetryExecute: the retry is not counted.
RetryExecuteUncounted ==
  /\ ~Incomplete /\ ~(NeedsReplan /\ planRetries < MaxPlanRetries)
  /\ FailedRequired /\ executeRetries < MaxExecuteRetries
  /\ Check("tool_execute", "retry_execute")
  /\ UNCHANGED <<planRetries, executeRetries>>

RetryExecute ==
  /\ ~Incomplete /\ ~(NeedsReplan /\ planRetries < MaxPlanRetries)
  /\ FailedRequired /\ executeRetries < MaxExecuteRetries
  /\ Check("tool_execute", "retry_execute")
  /\ executeRetries' = executeRetries + 1
  /\ UNCHANGED planRetries

GiveUp ==
  /\ ~(NeedsReplan /\ planRetries < MaxPlanRetries)
  /\ Incomplete \/ (FailedRequired /\ executeRetries = MaxExecuteRetries)
  /\ Check("final_response", "failed")
  /\ UNCHANGED <<planRetries, executeRetries>>

\* Mutant of Proceed: with everything fetched the plan is not looked at again.
ProceedEarly ==
  /\ ~Incomplete /\ ~FailedRequired
  /\ Check("candidate_rank", CheckStatus)
  /\ UNCHANGED <<planRetries, executeRetries>>

Proceed ==
  /\ ~Incomplete /\ ~(NeedsReplan /\ planRetries < MaxPlanRetries) /\ ~FailedRequired
  /\ Check("candidate_rank", CheckStatus)
  /\ UNCHANGED <<planRetries, executeRetries>>

ToolCheck ==
  /\ phase = "tool_check"
  /\ Replan \/ RetryExecute \/ GiveUp \/ Proceed
  /\ UNCHANGED <<request, revisions, refused, calls, issues, meta, facts, offered, failures>>
-----------------------------------------------------------------------------
(* apply_revision: everything of the old request is dropped. *)

\* Mutant of Forget: the retries of the old request are not given back.
ForgetFacts ==
  /\ calls' = NoCalls /\ issues' = {}
  /\ meta' = [t \in Tools |-> NoMeta] /\ facts' = [t \in Tools |-> NoFacts] /\ offered' = NoFacts
  /\ UNCHANGED <<planRetries, executeRetries>>

Forget ==
  /\ calls' = NoCalls /\ issues' = {}
  /\ meta' = [t \in Tools |-> NoMeta] /\ facts' = [t \in Tools |-> NoFacts] /\ offered' = NoFacts
  /\ planRetries' = 0 /\ executeRetries' = 0

Revise ==
  /\ phase = "candidate_rank" /\ revisions < MaxRevisions
  /\ revisions' = revisions + 1
  /\ request' \in Requests
  /\ Forget
  /\ phase' = "tool_plan"
  /\ status' = "none" /\ failures' = [t \in Tools |-> 0]
  /\ UNCHANGED refused

Next == ToolPlan \/ ToolExecute \/ ToolCheck \/ Revise

Spec == Init /\ [][Next]_vars

\* The graph runs its nodes; nobody has to revise.
FairSpec == Spec /\ WF_vars(ToolPlan) /\ WF_vars(ToolExecute) /\ WF_vars(ToolCheck)
-----------------------------------------------------------------------------
(* Properties. *)

TypeOK ==
  /\ request \in Requests /\ revisions \in 0 .. MaxRevisions
  /\ phase \in {"tool_plan", "tool_execute", "tool_check", "candidate_rank", "final_response"}
  /\ DOMAIN calls \subseteq Tools
  /\ DOMAIN meta = Tools /\ DOMAIN facts = Tools
  /\ \A t \in Tools : meta[t].status \in {"none", "ok", "no_data", "failed", "skipped"}
  /\ planRetries \in 0 .. MaxPlanRetries /\ executeRetries \in 0 .. MaxExecuteRetries
  /\ status \in {"none", "passed", "degraded", "retry_execute", "replan", "failed"}
  /\ failures \in [Tools -> 0 .. MaxExecuteRetries + 1]

\* What is ranked has been answered for the request as it is now: no demanded service is
\* missing, and none of its results is from before a revision.
RankedOnCurrentFacts ==
  phase = "candidate_rank" =>
    \A t \in Required : Answered(t) /\ facts[t] \in {NoFacts, Arguments(t, "any")}
                                    /\ meta[t].signature = Arguments(t, "any")

\* The activities a proposal may use are those the last plan asked for, found just now or
\* before: none from an earlier plan or an earlier wish.
ActivitiesArePlanned ==
  phase \in {"tool_check", "candidate_rank"} /\ offered # NoFacts =>
    Activities \in DOMAIN calls /\ offered = calls[Activities]

\* Nothing optional ends the search: it is given up only if what is demanded cannot even be
\* asked for, or a demanded service has failed in the first call and in every retry. A
\* revision starts with all its retries again.
GivesUpForCause ==
  phase = "final_response" =>
    Required \cap refused # {} \/ \E t \in Required : failures[t] > MaxExecuteRetries

\* A check that says passed has not lost a wish of the model: activities asked for are found.
PassedMeansComplete ==
  phase = "candidate_rank" /\ status = "passed" =>
    /\ issues \cap ReplanIssues = {}
    /\ Activities \in DOMAIN calls => offered = calls[Activities]

\* What the search hands to the ranking is complete and of this plan, and plan, answers and
\* counters keep their types.
SearchIsComplete == TypeOK /\ ActivitiesArePlanned /\ PassedMeansComplete

\* A demanded service that has answered is not asked again for the same request, so retries
\* and new plans never change a fact that was already there.
FactsStay ==
  [][\A t \in Required : request' = request /\ revisions' = revisions /\ Answered(t) =>
       meta'[t] = meta[t] /\ facts'[t] = facts[t]]_vars

\* Every search comes to an end.
SearchEnds == phase = "tool_plan" ~> phase \in {"candidate_rank", "final_response"}

\* The nodes are those of the graph: a clean plan is one without a reason to plan again.
PlanKind ==
  IF phase = "tool_plan" /\ calls = NoCalls /\ issues = {} THEN "none"
  ELSE IF Incomplete THEN "incomplete" ELSE IF NeedsReplan THEN "issues" ELSE "clean"

\* The super-steps since the request was last changed.
Steps ==
  3 * planRetries + 2 * executeRetries +
  CASE phase = "tool_plan" -> 0 [] phase = "tool_execute" -> 1 [] phase = "tool_check" -> 2
    [] OTHER -> 3

Graph == INSTANCE PlanTripGraph WITH
  ToolPlanMax <- MaxPlanRetries, ToolExecMax <- MaxExecuteRetries,
  RagMax <- 0, ProposalMax <- 0, BudgetMax <- 0, PlannerFaults <- 0,
  RecursionLimit <- 4 + 3 * MaxPlanRetries + 2 * MaxExecuteRetries,
  run <- "running", node <- phase, steps <- Steps, faults <- 0, request <- revisions,
  retry <- [toolPlan |-> planRetries, toolExec |-> executeRetries, rag |-> 0, proposal |-> 0,
            budget |-> 0],
  tools <- [context |-> revisions, plan |-> PlanKind, fetched |-> ~FailedRequired,
            ranked |-> "none"],
  choice <- 0, rag <- 0, draft <- 0, verdict <- 0, pending <- 0, decision <- 0, revision <- 0,
  outcome <- 0, shown <- 0

\* Every step is a step of one of the three nodes of PlanTripGraph, within its counters.
ImplementsGraph ==
  [][Revise \/ Graph!ToolPlan \/ Graph!ToolExecute \/ Graph!ToolCheck]_vars
=============================================================================
