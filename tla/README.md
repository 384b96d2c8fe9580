# Formal models of TravelOps Copilot

TLA+ models of the travel-planning service under `src/app`, checked with TLC and, where a
statement can be made for every value of the constants, proved with TLAPS.

| Module | What it is |
| --- | --- |
| `PlanTripGraph` | one thread of the plan-trip graph: every node, every route, the human decision, revision, completion |
| `PlanTripGraphProofs` | its inductive invariant and its theorems; the final response |
| `ToolOrchestration` | the three tool nodes with cache, retries and replans; implements the tool nodes of `PlanTripGraph` |
| `ToolOrchestrationProofs` | its inductive invariant, the refinement and four more theorems |
| `TripSelection` | budget plan, filters, ranking, choice of a combination within the budget |
| `TripSelectionProofs` | sums and targets, the order of flights and combinations, the advice to raise the budget |
| `Retrieval`, `EvidenceLoop` | search, rank fusion and reranking; planning, grading and repair around them; implements the evidence nodes of `PlanTripGraph` |
| `EvidenceLoopProofs` | what plans demand and the pool holds, repairs that only add, what the cuts leave, the nodes of `PlanTripGraph` |
| `ProposalContract`, `BudgetCheck` | the generator's checks of a draft against the verifier's checks of the proposal |
| `ProposalContractProofs` | the agreement of the two checkers, the cut for the prompt, what an accepted proposal rests on |
| `TripRevision` | the trip request from extraction through any number of revisions |
| `TripRevisionProofs` | dates and reports of revisions; what was said is done, what was not stays |
| `TripStore` | what saving an approved proposal promises (abstract) |
| `CommitDraft` | `CommitDraftService.commit` statement by statement over three tables, with concurrent callers, errors and crashes; implements `TripStore` |
| `CommitDraftProofs` | its inductive invariant, the refinement and more theorems |
| `WorkflowRuntime` | the runtime behind the HTTP API: calls, the execution lock, checkpoints written in the background, crashes and restarts |
| `WorkflowRuntimeProofs` | its inductive invariant and more theorems |
| `Ordering` | Python's `sorted` with a key, parts of lists and lists one after the other |
| `MC...` | the instances for TLC |

`PROJECT.json` maps each definition to the source lines it models, and lists runs, hazards,
findings and theorems.

How the modules compose. `PlanTripGraph` is the frame: it knows of each component only its
verdict. `ToolOrchestration` and `EvidenceLoop` take over stretches of its nodes and are shown to
implement them by `INSTANCE PlanTripGraph WITH ...`. `TripSelection`, `ProposalContract` and
`TripRevision` fill in what happens inside `candidate_rank` and `budget_optimize`, `proposal` and
`verifier`, `input_extract` and `apply_revision`; `BudgetCheck` is what the verifier
recomputes, shared by the optimiser's model and the verifier's. `CommitDraft` implements
`TripStore`, and `WorkflowRuntime` uses a commit as `TripStore` promises it.

## 1. Inventory

### 1.1 Parts of the system

A request enters the HTTP API, which calls the workflow runtime. The runtime starts or
resumes one LangGraph thread per `trip_session_id` and returns its snapshot. The nodes of the
graph call the components below them and return partial updates of `TravelState`.

| Component | State it keeps | Operations | Interacts with |
| --- | --- | --- | --- |
| plan-trip graph (`workflows/plan_trip_workflow.py`, `agents/state.py`) | `TravelState` of a thread | one super-step per node, conditional edges | all nodes, checkpointer |
| intake nodes (`input_extract`, `missing_info_check`, `clarify`, `safety_check`, `safe_reject`, `memory_read`, `planning_context`) | trip_request, safety_result, user_profile, planning_context | extract, validate, reject or pass on | extractors, validators, safety guard, memory |
| tool orchestration (`tool_plan`, `tool_execute`, `tool_check`, `mcp/`) | tool_plan, fetch metadata, result cache, runtime singleton | plan, concurrent calls, check, retry | MCP servers, data providers |
| candidate ranking, budget optimisation | candidate_rank_result, selection_result | filter and score; choose a combination | planning context, tool results |
| evidence loop (`retrieval_plan`, `hybrid_retrieve`, `rerank`, `evidence_grade`) | retrieval_plan, retrieval_feedback, evidence_result, evidence pool | plan tasks, fetch, fuse, rerank, grade, repair | vector store, BM25, LLM judge |
| proposal and verifier | proposal, verifier_result, pending_actions | generate, verify, request a repair, create the approval action | selection, evidence |
| decision gate | decision_result | interrupt with a payload, validate the answer | user, pending_actions |
| revision (`revision_analyze`, `apply_revision`) | change_request, revision_plan, revision_result | analyse the request, patch, invalidate derived state | LLM, trip_request |
| commit (`commit_draft`, `services/`, `repositories/`, `db/`) | trip_drafts, trip_versions, approval_records | idempotent save in one transaction | SQLite |
| cancel | cancel_result | close the thread without saving | decision_result |
| final response | final_response | choose and build the response | every result field |
| workflow runtime, checkpoints | a lock per process, checkpoints per thread | start, resume, snapshot, history | graph, SQLite checkpointer |
| HTTP API | none | endpoints, error mapping | runtime |
| observability | traces of runs and spans in memory | record | graph, tools |
| memory, LLM client, providers, frontend, evaluation, scripts | profile rows, files | read-only or outside the service | |

### 1.2 What is hard here

* *Nested repair loops.* Tools, evidence, proposal and budget each have a retry counter of
  their own, and the loops contain each other. LangGraph ends an invocation after
  `workflow_recursion_limit` super-steps with an exception.
* *Leftovers.* State is merged, not replaced: a node that fails leaves what was there.
  After a revision 30-odd fields must be reset by hand; answers of tools are cached by their
  arguments.
* *Two opinions on the same thing.* The generator checks a draft against the part of the
  evidence that fits into the prompt, the verifier checks the proposal against all of it;
  the optimiser computes a budget, the verifier computes it again; a plan by rules and one by
  a model have to lead to the same demands. Where two disagree, repairs are spent in vain.
* *Interrupt and resume.* `decision_gate` is executed twice for every decision. Answers may be
  late, repeated, malformed or meant for an earlier proposal.
* *Derived values.* Of start, end and days of a trip each follows from the others, and a
  revision may change any of them by a value or by a difference.
* *Nondeterminism of services.* Each LLM, tool or retrieval call may fail.
* *Concurrent commits.* Within a process a lock serialises everything. Between processes there
  are only the unique constraints of the database, and the reads of `commit` are outside its
  transaction.
* *Crashes* between statements, and between the database and the checkpoint.

### 1.3 What makes each component correct

* graph: an invocation ends within a bound that depends only on the settings; it never fails
  for its length; a node never works on values of another revision.
* tools: required results are complete and answer the request as it is, or the search stops
  for a cause; a failed optional call degrades only itself.
* ranking and budget: what is selected passes the verifier; nothing better is cheaper; the
  advice after a failure can be followed.
* evidence: a pass covers every category the trip demands; an optional gap never blocks; the
  cuts on the way hide nothing that is needed.
* proposal: generator and verifier agree; an accepted plan is grounded; a repair is told what to
  repair.
* decision gate: a decision is on the proposal in force, shown to the user; a version number
  names one proposal; the gate never finds itself unable to ask.
* revision: what was said is done once, what was not said stays, dates agree, the report is
  complete.
* completion: an accepted decision is carried out or reported as failed, and the final
  response says which.
* commit: at most once per proposal and per decision; all three tables or none; true answers;
  versions ascend; the summary row describes the version it names.
* runtime: a question put to a client stays answerable; clients are told the same ending; an
  approval that was reported is stored, and nothing is stored without one; an idle thread can go
  on.

## 2. PlanTripGraph

One behaviour is the life of one thread. A step is a super-step of LangGraph: the node named by
`node` runs, its update is merged, the conditional edge or `Command` sets the next node.

| Variable | TravelState and runtime |
| --- | --- |
| `run`, `node`, `steps` | state of the invocation, next node, super-steps used |
| `faults` | exceptions of the retrieval planner so far (bounds the environment) |
| `request` | generation of `trip_request`: how many revisions were applied to it |
| `retry` | the five `*_retry_count` fields |
| `tools`, `choice`, `rag` | planning context, tool plan, fetch metadata, ranking; selection; retrieval plan, feedback, evidence |
| `draft`, `verdict`, `pending` | proposal, verifier_result, approval action |
| `decision`, `revision`, `outcome` | decision_result; change request, plan and result of a revision; commit, cancel and final response |
| `shown` | history: the proposals put before the user |

Every derived object carries the generation of the request from which it was computed. This is
what makes leftovers visible: `PresentedIsCurrent` compares generations.

Choices of the environment: extraction completeness, safety verdict, success of each tool,
ranking and budget outcome, verdict of the evidence grader and of the verifier, exceptions where
a node has a handler, and the answers of the user (any kind, for any proposal ever shown, or
malformed).

A node's exception handler is an action or a disjunct of its own when it leaves different state
behind: `RetrievalPlanFails` keeps the old plan, `ProposalFails` empties the proposal but keeps
`verifier_result`, `ToolPlanRaises` has no handler in the code and ends the invocation.

Two routes of the source are not there because no state takes them. The verifier's repair
target `retrieval_plan` needs evidence that did not pass, with which `proposal` would have
failed before. An empty repair plan, while rounds are left, needs a required gap without a task,
and the planner compiles every required gap to one.

### Properties

| Property | Question |
| --- | --- |
| `InvocationsAreBounded` | do the nested repair loops add up or multiply? (`InvocationIsShort`: they add, `WorstCase`) Can GraphRecursionError occur? (`OnlyToolPlanRaises`: not with a limit of at least `WorstCase`, 37 with the default settings and no fault; the default limit is 100) |
| `DecisionsAreCarriedOut` | can the gate, first time or on resume, meet a state in which it refuses (`GateAlwaysReady`)? Do commit and cancel ever refuse what the gate has accepted (`AcceptedCanComplete`)? |
| `PresentedIsCurrent` | can the user be shown something computed before the last revision? |
| `VersionsNameProposals` | does a version number name one shown proposal? |
| `DecisionIsCurrent` | is a decision in force always on the proposal in force, and seen? |
| `ResponseTellsOutcome` | does a leftover ever decide the final response? |
| `DecisionIsAnswered` | does an accepted approval or cancellation come to a final response? |
| `InvocationReturns` | does an invocation return, even one cut off by the limit? |
| `OfferedActionsPossible` | can the actions a response offers be performed? (no: a finding) |

*Fairness.* `WF_vars(GraphStep)`: `graph.invoke` is a loop that executes nodes until there is
none, and every node returns (remote calls have timeouts). Whether a user starts or answers is
up to the user: `Start` and `Resume` have no fairness.

## 3. ToolOrchestration

From the planning context to the ranking: `tool_plan` writes the demanded calls (weather,
flights, hotels) and, if the model wants them, activities; `tool_execute` makes the calls that
are not answered yet; `tool_check` passes on, retries, plans again or gives up. A revision
starts the search again with what the cache still holds.

| Variable | Code |
| --- | --- |
| `calls`, `issues` | `tool_plan["calls"]` and `["validation_issues"]` |
| `meta`, `facts`, `offered` | the `*_fetch_meta` with the signature of the arguments, the stored results, the activities in the planning context |
| `planRetries`, `executeRetries`, `status` | the two counters, `tool_check_result` |
| `refused` | tools whose discovered schema refuses the program's arguments |
| `failures` | history: failed calls of a tool for this request |

Each call of an execution succeeds, finds nothing or fails, independently of the others
(`asyncio.gather` with one result per call, so the order of completion is of no consequence).

| Property | Question |
| --- | --- |
| `SearchIsComplete` | does a plan that was retried or replaced leave activities of an earlier plan behind (`ActivitiesArePlanned`)? Does "passed" ever hide a lost wish (`PassedMeansComplete`)? |
| `RankedOnCurrentFacts` | can an answer from before a revision be ranked? |
| `GivesUpForCause` | can the search end early, by an optional tool or with retries left? |
| `SearchEnds` | do retry and replan feed each other for ever? |
| `ImplementsGraph` | are the nodes, routes and counters those of `PlanTripGraph`? |

`FactsStay` (a demanded tool that has answered is not asked again) is proved and in no run.
*Fairness:* weak fairness of each of the three nodes, for the reason given for `GraphStep`.

## 4. TripSelection

`PlanContext` makes the budget plan, `Query` queries the catalogue as the providers do,
`CandidateRank` filters and scores, `BudgetOptimize` chooses a combination or gives advice, and
`FollowAdvice` is the traveller who raises the budget by the advised amount and asks again.
Amounts are cents, scores thousandths rounded down, times minutes; the order of candidates is that
of the code's sort keys. `ValidRequest` says what the schema and the validator of a request let
through (no negative amounts, strengths and weights between 0 and 1, `<=` as the only operator on a
price) and `CatalogueIsIndexed` that the offers of a group have ids of their own.

| Property | Question |
| --- | --- |
| `SelectionPassesVerifier` | do the optimiser's sums and the verifier's recomputation ever differ, so that a repair is spent in vain? Is the total, or a limit on the price of a ticket, broken? |
| `BudgetAddsUp` | do rounding, targets, reserve and shortfall lose or invent money, at the boundary as well (`ReserveIsExact`, `TargetsShareTheBudget`)? |
| `BetterIsPreferred` | is anything that is as good in each part and cheaper passed over (`NothingBetterIsCheaper`)? Do weights and normalisation ever reverse two flights of which one is better in all respects (`BetterFlightRanksFirst`)? |
| `AdviceIsExact` | is the advised budget the least that helps, and does it help once the targets have moved with it? |

`AdviceIsExact` is stated for pools that are not cut off: with more candidates than
`MaxCandidates` the cut is by score, and a cheaper combination may lie beyond it
(`AdviceIsEnough`, which would say otherwise, does not hold and is in no run).

## 5. Retrieval and EvidenceLoop

`Retrieval` is the pure part: the metadata filter, both searches, reciprocal rank fusion, the
quotas of the reranker and its fallback. `EvidenceLoop` is the four nodes around it. The
corpus is a function from chunks to their metadata and to the scores each wording of a query gets;
the models are sets of answers (`Decisions` of the planner, `Opinions` of the judge), and searches
and scores may fail for no task, one task or all of them. The configuration is part of the
initial state, so one run covers the loop with and without its models. Lists are put together
without recursion: `Ordered` sorts records by their keys, `Picked` takes a list's elements at some of its
places, `Joined` strings lists together (`compiled.sort`, `optional_tasks[:budget]`, `extend`).
`Merged` keeps the better of two items with one key, as the dict of `_merge_evidence_pool` does,
and `Demands` raises the requirements by what the tasks of the plan ask for.

| Variable | Code |
| --- | --- |
| `plan`, `retries`, `feedback` | `retrieval_plan`, `rag_retry_count`, `retrieval_feedback` |
| `hits`, `evidence`, `degradedRank` | `retrieved_chunks`, `reranked_evidence`, `rerank_result["fallback_used"]` |
| `pool`, `requirements`, `result` | `evidence_pool`, `evidence_requirements`, `evidence_result` |

| Property | Question |
| --- | --- |
| `EvidenceServesTrip` | can a plan by the model drop what the trip demands (`ProposalHasItsEvidence`)? Does the pool ever hold what concerns another city, hotel or weather (`PoolFitsTrip`)? |
| `NothingNeededIsHidden` | does a cut (fusion, best of a task, part for the judge) hide what a demand rests on (`WhatExistsIsFound`, `JudgeSeesEveryNeed`)? Does fusion reverse an order both searches agree on (`FusionKeepsAgreement`)? |
| `RepairOnlyAdds` | can a repair, whose plan names the gaps only, lower a demand or lose a chunk? |
| `ImplementsGraph` | are the nodes those of `PlanTripGraph`, in particular: has a repair always a task, so that each round is counted? Does the loop end? |

*Fairness:* `WF_phase(Moves)`: a node that can run, runs; which of its answers a model gives is open.

## 6. ProposalContract and BudgetCheck, TripRevision

*ProposalContract.* `Generate`, `RejectDraft` and `ModelFails` are the outcomes of an attempt of
`ProposalGenerator.generate`; `Verify` is `ProposalVerifier.verify` with the route of the
node. The model's answer is any draft of `Drafts(input)`. `DraftValid` is what the generator
demands, over the short names of the evidence in the prompt; `Issues` is what the verifier
finds, over the ids of the whole pool, in eleven groups named as in the code. Hashes are
the values they are taken from. Issues that point at the selection end this module's run: that
loop is in `PlanTripGraph`.

An issue is of a type, goes back to a node and is found at a place (`Issue`): the verifier makes one
for each day, activity, requirement or text that is at fault. What texts claim to have been
done (`claims`) may be in any text, those of the activities and the others. The message to the model
has room for `MaxIssues` of the issues that concern it (twelve in the code), the first in the order of the
checks: `Checks` has that order, and `Beginnings` what may be told. The order within a check follows
the draft's lists, some of which are sets here, so that every choice within a check is possible.

| Property | Question |
| --- | --- |
| `CheckersAgree` | what can the verifier object to in a draft the generator has accepted? (claims of bookings, tools on activities that are not about knowledge, knowledge that only a tool supports: nothing else) |
| `PromptIsComplete` | does the cut of the evidence for the prompt hide a category that the verifier will demand? |
| `AcceptedIsGrounded` | is what the traveller is asked to decide on grounded, day by day, after the ids were replaced, the activities normalised and the sources rebuilt? |
| `FeedbackIsCurrent` | is the model told the issues of the proposal it replaces, in the second attempt of a round as well: all of them while there is room, else as many as there is room for, and none of a later check while one of an earlier check is left out? |

`RunsShorten` (each step uses up an attempt, a repair or a node) is proved and in no run.

*TripRevision.* `input_extract` (the model's draft or, after a failure, the rules),
`missing_info_check`, and for each change request `revision_analyze` and `apply_revision`. Dates
are days of a calendar; amounts of money and relative changes are counted in `Parts` of a unit, since the
schema takes any number as a difference, of the days too, and `apply_revision` cuts it to whole
days (`Whole`). That a sum of two floats is rounded is left out. Wishes and constraints are
entries with a key, in the four collections the code revises alike. A patch sets, clears or increments fields, removes entries
by key and adds others. `Operated`, `Redated`, `Merged` and `ChangedFields` are the
steps of `apply_revision` in their order; `OnePerKey` is what a Python dict makes of entries
that share keys: the place of the first, the value of the one that is chosen. What the nodes between the check and the gate do is one
step.

| Property | Question |
| --- | --- |
| `RevisionKeepsDates` | can any combination of changes leave start, end and days in contradiction? |
| `SaidIsDone` | is everything that was said in the result, a difference added once (of the days less than a day lost, and never more added or taken than was said), the last word of a key kept, a removal not undone? |
| `UnsaidStays` | does anything go, over several revisions, that nobody has mentioned? |
| `ReportIsComplete` | does the report name every part that has changed, derived ones included? |
| `RoomsAreAsked` | is a trip of several travellers planned with a number of rooms nobody has said? (yes: a finding) |

There is no fairness in either: their properties are about safety.

## 7. CommitDraft and TripStore

`CommitDraft` has one action for each database statement of `CommitDraftService.commit`, from
the lookup by `decision_event_id` to the answer, and any number of calls in different
processes. A SELECT is a step (SQLite autocommits reads), the write transaction is one step (it
takes the write lock with its first statement), `WriteRefused` is the rollback after
IntegrityError with the lookups that follow it. Between any two statements a call may fail
(`DatabaseError`) or its process may die (`Crash`). `Exclusive` says that a single process takes
all calls, and its execution lock runs one at a time.

Rows keep what the code decides on: keys, version numbers, and `hotel` for the columns that
describe a version. `NewRow` is how the ORM updates: the columns that differ from the row as it
was *loaded*, in place of the row as it is.

Requests satisfy `RequestAssumption`, which is what the hashes of the code guarantee: an event
belongs to one proposal, a proposal has one version number and content. Two users may share a
proposal id, since neither hash has the user in it.

`TripStore` is the promise: a request is saved in one step or not at all, each proposal, each
event and each version number of a session once, and each answer is true. `ImplementsStore`
maps a call's program counter to `asked`, `saved` or its answer, and the approval records to the
ledger.

| Property | Question |
| --- | --- |
| `StoreIsWhole` | do versions, approvals and trip rows correspond, whatever was rolled back or lost (`TablesAgree`)? Do the service's checks for an incomplete database ever find one (`NeverIncomplete`)? |
| `SavedOnce` | can a proposal or a decision be stored twice, or a session have two owners? |
| `AnswersAreTrue` | is `committed`, `already_committed` or a failure ever untrue? |
| `ImplementsStore` | do interleaved statements amount to one step? |
| `RowDescribesVersion` | does the summary row describe the version it names? (one process: yes; several: not necessarily) |
| `VersionsAscend` | is the current version ever set back? (one process: no; several: yes, see section 11) |

There is no fairness: a call may stop at any statement, and the properties are about safety.

## 8. WorkflowRuntime

HTTP calls of three kinds (start, decision, status) compete for the execution lock of
`PlanTripWorkflowRuntime`; each holds it from its first check to the moment its snapshot is
read. The lock serialises all threads of the process, so `mem` and `unsaved`, the state of the
running invocation, exist once.

| Variable | Code |
| --- | --- |
| `arg`, `pc`, `answer` | a request, where its handler is, its response |
| `holder` | `_execution_lock` |
| `mem`, `resume` | the state LangGraph works on, and the value of `Command(resume=...)` until `decision_gate` has read it |
| `unsaved` | checkpoints handed to the background writer; `invoke` waits for them before it returns or raises |
| `disk` | the newest row of each thread in the checkpoint database |
| `drafts` | versions in the business database, a file of its own |
| `shown`, `promised`, `broken`, `crashes` | history, and the bound on crashes |

| Actions | Code |
| --- | --- |
| `CheckStart`, `CheckDecision`, `GetSnapshot` | the checks of `start_plan`, `resume_decision`, `get_snapshot` in the lock: 409 for a thread that exists, or does not wait; 404 for one that does not exist |
| `Invoke`, `Return`, `ReturnFailure` | `_invoke_with_harness` and the handlers of the endpoints |
| `Plan` ... `FinalResponse` | the nodes, as far as the runtime can tell them apart; `Plan` stands for `input_extract` to `verifier` and has their four outcomes: a proposal, a refusal with its response, nothing, an exception |
| `Commit` | one step, which is what `TripStore` promises, with its refusal of versions that do not ascend |
| `Persist` | a checkpoint reaches the disk |
| `Crash` | the process dies: locks, calls and unsaved checkpoints are lost, both databases stay |

That checkpoints are written in the background and in order, that an invocation drains them
before it returns, and that a resumed invocation goes on from the newest one is LangGraph's
default, modelled from how the runtime uses it (it reads the snapshot right after `invoke`).
Left out: LangGraph's per-task writes inside a super-step, which matter only with parallel
nodes; checkpoint writes that fail; the history endpoint, which reads only; and several
processes over one checkpoint file, which `create_sqlite_checkpointer` excludes (a single
process). Requests name a version the client was shown, or none.

| Property | Question |
| --- | --- |
| `QuestionSurvives` | can a crash or another call take back a question a client has been asked? |
| `EndingsAgree` | can two clients be told different endings of one thread, after a decision was lost in a crash? |
| `DraftsAreApproved` | is a reported approval always in the other database (`ApprovedIsStored`)? Is a draft ever stored without an approval of exactly that version by a client who was asked (`StoredWasApproved`)? |
| `IdleIsResumable` | which threads can get stuck? (only those whose invocation raised or was lost with the process) |
| `CallsAreAnswered` | can a call wait for ever? |

`EndedStaysEnded` (an ended thread is never taken up again) is proved and in no run.

*Fairness.* `WF` of `Persist`, of `Acquire(c)` and of `Work(c)`: the background writer and the
worker threads are scheduled, and every node returns. Weak fairness of `Acquire` is enough, though
an `RLock` is not fair, because a client sends each call once: after finitely many calls the
lock stays free until the last one takes it. Clients need not send anything, and the process
need not die.

## 9. Runs

| Run | Instance | Distinct states | Shows |
| --- | --- | --- | --- |
| `graph` | all retry limits 1 (the defaults), recursion limit 100, 2 revisions, 1 planner fault | 65,701 | the safety properties of the graph and `DecisionIsAnswered` |
| `graph_limit` | limits up to 2, recursion limit 20, 2 faults | 1,249 | invocations that are cut off return |
| `graph_offered` | defaults, 1 revision | violation | a finding |
| `commit_shared` | 3 calls, 8 requests of 3 users in 3 sessions, several processes | 129,735 | agreement, at-most-once, true answers, refinement |
| `commit_single` | 4 calls one after the other, same requests | 324,213 | the row and the ascending versions |
| `runtime` | 3 calls on one thread, 2 crashes | 110,977 | questions, endings, approvals, idle threads, every call answered |
| `tools` | defaults, 6 answers of the model, 3 sets of refusals, 1 revision | 153,358 | completeness, currency, cause, termination, refinement |
| `selection` | 336 requests over 10 offers, advice followed twice | 8,278 | sums, targets, order, advice |
| `evidence` | 17 chunks, 4 trips, 6 configurations, 1 repair | 17,660 | evidence for the trip, nothing hidden, repairs only add, refinement and end |
| `proposal` | 3 trips, drafts with one or two changes, 2 attempts, 2 repairs, 5 items, room for 2 issues | 2,849 | agreement of the checkers, grounding, feedback |
| `revision` | 15 drafts, 9 texts, 42 patches, 2 revisions, half days | 44,566 | dates, said, unsaid, report |
| `revision_rooms` | the same | violation | a finding |

*Bounds.* Two revisions show a leftover that survives one reset and one that is created after
it; the proofs remove the bound. One fault of the planner is enough to leave an old plan behind
in each position of the loop. In `graph_limit` the limit of 20 is the least the settings allow
and is below the worst case, so `RecursionError` fires. Three concurrent commits allow a
reader, a writer that overtakes it and one that conflicts with both; the requests have two
decisions on one proposal, successive versions, rival versions of the same number, the same
proposal of another user, a session of another user, and a user who does not exist. Three calls
on the runtime are a start, a decision that is lost, and the decision made instead of it or a
status; two crashes allow one in the invocation that is to repair what the other has done. One
thread is enough, since threads share only the lock; the proofs are for any number of threads.
Calls are interchangeable (`SYMMETRY`, in the commit runs, which have no liveness property).

In `tools` the two requests differ in the arguments of one demanded tool and agree in the others, so
that some answers stay valid through the revision. In `selection` the offers tie in a price, a
name and a time, some lack a time, a seat or a room; the requests change one wish in up to three
places of a plain one, with totals at, just under and far from what the cheapest combination
costs, in odd cents. In `evidence` the numbers of chunks looked for and in the corpus are about
a third of the real ones, one risk fills the first search, one city has too little. In
`proposal` each draft is a good one with one change, two on the same day, or one in the plan and
one beside it: every check has a draft that only it rejects. Room for two issues is too little for some of
the drafts, so that claims are left out for the faults of an earlier check, and some faults of a check
for others of it. In `revision` the patches
set, shift and clear start, end and days alone and together, shift the days by half a day, by one and
a half and by whole days, and touch a key by removal and
addition; two revisions in a row let the second meet what the first has left.

Deadlock is not checked: a thread and a call end, and a component hands over to the next.

## 10. Proofs

All proof modules follow one argument: `IInv` is inductive, with a lemma for each part of it or
each action, and every property follows from `IInv`.

*PlanTripGraph.* None of its properties is inductive as it stands.

* `InvocationsAreBounded`: `StepLedger` balances the super-steps used against
  the node reached and the rounds spent: `steps <= Before(node) + Spent + Owed`. A repair of
  the evidence is paid for one node after it was requested, which `Owed` and `FeedbackIsDue`
  account for.
* `PresentedIsCurrent`: `Fresh` says of each derived object that it does not exist or has the
  generation of the request, at every node.
* `VersionsNameProposals`: `Versioned` relates the version arithmetic, which goes through
  `revision_result`, to the number of revisions.
* `DecisionsAreCarriedOut`, `DecisionIsCurrent`: `Deciding`.
* `ResponseTellsOutcome` (`PlanTripGraphProofs`): `Telling` says for each stretch of the graph
  which results cannot be there yet (nothing ranked before the ranking, no decision before the
  gate, no revision in force on the way to commit or cancel), and at `final_response` in which of
  three ways the thread got there: refused, given up, or concluded by a decision.

Assumptions: `LimitsAssumption` (the limits are natural numbers). The theorems hold for every
retry limit, recursion limit, number of faults and number of revisions.

*ToolOrchestration.* `FactsMatch` ties a stored result to the signature in its metadata and that of
a demanded tool to the request; `PlanIsOwn` says that demanded calls are the program's and that what
is refused shows in the plan; `FailuresCounted` relates the failures of a tool to the retries, from
which `GivesUpForCause` follows. `NodesAreThoseOfGraph` maps every step to a step of
`PlanTripGraph`, for any answers, refusals and limits (`ToolBounds`).

*ProposalContract.* The invariant says of an accepted proposal that the verifier found nothing and
that it was put together by the generator. `FeedbackStaysCurrent` shows of every
message that it is a beginning of the issues in the order of the checks (`Beginnings`), whatever
`MaxIssues` is. `AcceptedStaysGrounded` derives the grounding: a lemma
for each group of checks says what its silence means, and a cited chunk is followed from the
activity over the list of sources to the evidence of its category. `PromptsAreComplete` needs that
the cut takes the best item of each category before any second one: `LeastElement` finds it by
well-founded induction over the finite sets, and with room for four items none of the four is cut.
`GeneratorAndVerifierAgree` goes through the verifier's groups of checks and shows of each that
the generator has asked for the same, over names in place of ids, except in the two groups the
property names. Both have the hypothesis `MaxItems >= 4`; the code allows 1 to 100 and takes 24.

Assumptions on the inputs: `ChunksAreUnique` (a chunk id is one document's), `EvidenceIsListed`
and `SelectionIsSound` (what the evidence loop and the optimiser hand over has its schema, and the
selection its sums: `SelectionPassesVerifier` of `TripSelection`), `DraftsHaveForm` (an answer
that the schema does not take is `ModelFails`), `LimitsAreNumbers` (the settings). Drafts and
inputs are otherwise arbitrary.

*TripRevision.* The types of a request survive every patch (`OperatedTyped`, `RedatedTyped`);
`RedatedAgrees` and `RevisedAgrees` are the case analysis of the dates; `ChangesAreReported` compares
the report with the difference. `WholeUnits` bounds what a difference loses when it is cut to whole
units, for any unit, and `NewValueObeys` is what an operation does to its field. For `SaidIsAlwaysDone` and `UnsaidAlwaysStays` the invariant
remembers that an applied revision is the plan's, and that the plan has passed the analyser's
checks. What the four collections hold afterwards is the lemma `MergedEntries`: entries are counted by
their place (`Counted`: the k-th of a finite set of numbers exists and is unique), a key is found at
its first place with its last value (`OneOfEachKey`), removed entries are only those named, and one
that stood alone under its key is kept. Assumptions: `RevisionAssumption` and `InputAssumption`
(what comes from outside satisfies its schema).

*CommitDraft.* `IInv` adds to the properties that a call's request is known, what a call
carries between statements (`Carried`: in particular, a call that has not written has no
approval on record) and that a session has one owner (`OneOwner`). `SingleRowDescribesVersion`
and `SingleVersionsAscend` need, besides, that a lone call's loaded row is still the row in the
table (`Alone`). `Refinement` maps each action to a step of `TripStore` or a
stutter. Assumption: `RequestAssumption`. The theorems hold for any number of calls, users,
sessions and requests.

*WorkflowRuntime.* The steps are first brought into a few forms (`Steps`): `Advanced` is what all
nodes have in common. The parts of `IInv`: `Locked` (one call is in the lock, and what it has
checked still holds), `Checkpoints` (each checkpoint on the disk, on its way or in memory is
sound; in particular a commit it tells of is in the business database), `Chained` (the
checkpoints on their way lead from the disk to the memory, and END comes last), `Asking` (an
invocation takes up the question it answers) and `Told` (what was told of an ended thread is
what its checkpoint says). `EndingsAgree` and `DraftsAreApproved` follow from `Told` and
`Checkpoints`; `EndedStaysEnded` from `Chained`. Assumptions: `NoOneAssumption`,
`CrashesAssumption`. The theorems hold for any number of calls, threads and crashes.

*EvidenceLoop.* The lemmas about lists come first: a set of records with different keys of one
length has exactly one order (`SortedLists`), and what is picked, joined or sorted has the same
elements. On them rest the compiled plan (a task for every demand of the rules, whatever the model
answers and the limits cut), the search and the reranking (each evidence answers a task of the plan
and concerns its city, hotel and risks) and the merged pool. The parts of `IInv`:

* `SoundPlan`, `SoundFeedback`, `ListsSound`: what the nodes hand on has the form the next one needs; the
  tasks of a plan have different ids (`Apart`), look for as many chunks as they demand (`Enough`), and
  the ranking starts from what these tasks have found (`Found`), less what has failed;
* `PoolSound`: everything in the pool concerns the trip;
* `DemandsSound`: when a repair is requested or under way, the demands it starts from include two
  guides and, with a risk, safety; its plan, which names the gaps alone, does not lower them;
* `RoundsSound`: a repair is requested only while a round is left;
* `ResultSound`: the result belongs to the node that runs next, and a proposal is reached only when no
  demanded category fails in the pool.

`EvidenceIsForTheTrip` follows from `PoolSound` and `ResultSound`. `RepairsOnlyAdd` compares the pool and the
demands before and after a grading. `NodesAreThoseOfGraph` maps each step to one of the four nodes
of `PlanTripGraph`. `FusionAgrees` rests on the shares of a rank: they fall with it, and where division
makes them equal, the better of the two ranks decides. `JudgeIsShownAll` rests on the order of the
turns: the best chunks of two categories come before the second of either, and only guides and
safety are demanded, so two chunks are enough (`MaxJudged >= 2`; `max_evidence_items` is 32).

`NothingIsHidden` needs the numbers of chunks to suffice, since what is demanded can be found only if
it is looked for. `ChunksSuffice(t)` says what that takes of a corpus for a trip: the search
for guides has two places more than there are illegible ones; the repair looks for as many chunks as are
demanded; notices are legible, and as many as there are risks if every risk has one; and if notices
about some risks fill the first search, those that leave out one of the other risks do not fill the
repair. It is a condition on what the loop is given and says nothing of plans, rankings or rounds.
The documents of the repository meet it: a city has six chunks on each of four risks, so that the
first search (three per risk, at least six) misses two of them at most, and the six chunks on one
leave room for the other among the ten of the repair. `InstanceSuffices` has TLC evaluate it for the
trips of the run. The proof follows the rounds (`FindsAll`): without a model, a second
ranking or a failure, the loop is in its `FirstRound`, which looks for guides and for notices about
all risks, or in its `SecondRound`, which looks for notices about the risks not yet found while the pool
keeps the rest. A search finds all that matches or as many as it looks for (`RetrievedLists`), and
what is legible of it is in the pool (`PoolGains`). After the first round only the risks that no notice
was found for can fail (`FirstFinds`); after the second none does (`SecondFinds`). `MaxRepairs >= 1`
is the default of `max_repair_rounds`; without a repair, one risk may hide another.

Assumptions: `RetrievalIsConfigured` and `EvidenceBounds` (the settings are
numbers), `CorpusIsIndexed` and `ScoresAreNumbers` (chunks are listed and every query gives scores),
`TripsAreSound` (a trip has finitely many risks) and `DecisionsHaveForm` (a plan the planner's schema
does not take is a failure of the model). Corpus, trips, decisions, opinions, failures and limits
are otherwise arbitrary.

*TripSelection.* `IInv` says that the state is what the nodes that have run make of the request,
which a raised budget changes, and that a budget raised as advised can be met (`Affordable`).
That last part is what makes the advice inductive: the ranks and targets move with the budget, so
the combination the advice was taken from need not be found again, but its offers still pass the
filters, keep the limit and cost no more than the new budget. The properties rest on lemmas for
each stage:

* rounding (`Rounded`, `Clamp`, quotients): shares of a budget by ratios that add up to one miss it by a
  cent at most, however many wishes to spend there are (`NetSignal` is a sum that the lemma about
  clamped sums bounds);
* scores: every fit is between 0 and 1, a higher price fits no better, and a weighted mean grows with its
  parts, so that of two flights the better and cheaper one has the higher score, or the same score and
  the earlier key;
* candidates: a group holds each offer that passes, once, with its score; the pool holds the first of
  them, and all of them when they are few;
* combinations: there are finitely many, so there is a best one; it is feasible, and a combination that
  is as good in every part and cheaper has a score at least as high and comes first.

Assumptions: `BoundsAreNumbers` (the settings), `RequestsAreValid` and `CatalogueIsIndexed` (section 4).
The theorems hold for any requests, catalogue, bounds and number of times advice is followed.

*Only model-checked.* Liveness under fairness, which is out of the prover's reach
(`DecisionIsAnswered`, `InvocationReturns`, `SearchEnds`, `CallsAreAnswered`, and of the properties called
`ImplementsGraph` the end of the loop and the fairness of the graph's nodes; their steps are proved).

## 11. Findings and observations

Two findings have a run that shows them:

1. `OfferedActionsPossible`: after a failed commit, a failed revision or one that needs
   clarification, the response offers `retry_commit` or `submit_revision`, but the thread has
   ended and a resume is refused with 409.
2. `RoomsAreAsked`: the extractors write the default of one room for a single traveller into the
   request; a revision to several travellers keeps it, the check finds a number of rooms, and
   nobody asks.

Observed while modelling, from the same definitions, and not in a run. About the runtime and the
store:

* a crash after the commit to the business database and before its checkpoint puts the thread
  back to its question; cancelled then, it ends as cancelled with its draft stored;
* a crash between `clarify` (or `safe_reject`) and `final_response` leaves a thread reported as
  completed with a node still to run;
* a thread whose invocation raised is reported as running for ever; it can be neither started nor
  resumed;
* a ValueError of `tool_plan` on a start is answered with 400 as a fault of the input, but the
  thread exists and the same request is then refused with 409;
* when two processes commit versions of one trip concurrently, the older one can be written last and
  become the current one, and the `trip_drafts` row can mix columns of both, since the ORM writes
  only what differs from the row it loaded (`VersionsAscend` and `RowDescribesVersion` hold for a
  single process, which is how the service is deployed).

About evidence and proposals:

* evidence the judge has found insufficient can pass in the next round without being judged again,
  when the repair leaves no need to ask about or the judge does not answer
  (`InsufficiencyIsReviewed`);
* evidence that was ranked by the fallback in an earlier round no longer degrades the result
  (`FallbackEndsDegraded`);
* an activity about knowledge that a tool supports passes the generator and not the verifier, which
  asks for a guide (`ToolSupportsActivity`); the repair cannot know better;
* the model is told the first twelve issues of a proposal, counted by activity and by text, and claims
  of bookings are looked for last but one: after twelve other faults the model is not told of them, and
  a round of repair may go by before it is;
* with room for fewer than four items in the prompt (the settings allow one) a category that the
  verifier demands is cut from it, and the two checkers no longer agree;
* the five chunks the cross-encoder likes best for the safety task may all be about one risk, which
  the repair then makes up for;
* `optional_tool_planner_failed` and other optional issues do not lead to a new plan.

About selection and revision:

* a limit on `flight.price` is per person and leg, while the total of the transport is checked
  against `max_transport_total` alone; `arrive_time <= 22:00` lets an arrival at 00:30 pass;
* advice after a cut pool may ask for more than necessary;
* `avoid` of a hotel that the destination does not have blocks with `named_hotel_not_found`, where the
  docstring speaks of required and preferred hotels;
* a hard constraint on `trip.total_budget` is accepted and not enforced;
* entries that share a key collapse to the last of them with any revision, also one that does
  not mention them;
* clearing the number of days together with setting an end loses the end that was said; an end that
  was cleared comes back, derived from start and days;
* a difference of half a day is accepted, adds no day, and the days are reported as changed; one and a
  half days less take one away;
* `requirement_issues` that a revision settles are not in its report; `required` and `avoid` of one
  hotel may stand side by side;
* the patch of the rules that follow a failed model is not tried on the request, so that it may
  fail only in `apply_revision`.

## 12. Not modelled, and what is left

* *Text.* What regular expressions find, wording and layout, prompts, tokenising, embeddings:
  inputs of the models here, or left out. `request intake` and `final response` are therefore
  modelled in part.
* *MCP runtime.* A table of tools made once at the start; connections are opened per call. Calls
  that fail or refuse are outcomes in `ToolOrchestration`. The protocol is library code.
* *Observability.* Spans and traces influence no decision of the program.
* *User memory, data providers.* Read-only lookups; flights and hotels are in `TripSelection`.
* *LLM client.* One remote call with a timeout; its failures are outcomes of the nodes.
* *HTTP API and runtime.* The history endpoint, the validation of input and the lazy creation of
  the singletons; checkpoint writes that fail.
* *Decision gate demo, frontend, evaluation, scripts.* Not part of the service.

Left: an abstract specification of a thread as a client sees it, implemented by `WorkflowRuntime`;
the spans of interrupted nodes; the score cache of the reranker, which is shared by threads.
