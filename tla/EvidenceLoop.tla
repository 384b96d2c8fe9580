----------------------------- MODULE EvidenceLoop -----------------------------
(***************************************************************************)
(* How the knowledge for a plan is found and judged: the plan of what to   *)
(* look for (rag/retrieval_planner.py, rag/llm_retrieval_planner.py), the  *)
(* search and the second ranking (module Retrieval), the grade by rules    *)
(* (rag/evidence_grader.py) and by a model (rag/agentic_evidence_grader.py)*)
(* and the round of repair, as the nodes of the graph run them.            *)
(*                                                                         *)
(* What the models answer is a choice: of Decisions for the planner, of    *)
(* Opinions on every need for the judge, or no usable answer at all.       *)
(***************************************************************************)
EXTENDS Retrieval

CONSTANTS
  Trips,         \* [city, risks (of the weather), hotel (chosen; {} without)]
  Settings,      \* [agentic, judge, rerank, fallback: BOOLEAN] as in config.py, and
                 \* faults: whether searches and scores may fail
  Decisions,     \* [needs, intents] that the planner's model may answer
  Opinions,      \* [status, cites, gaps] that the judge may have on a need
  TopK,          \* category -> top_k of its task in the first plan
  RepairTopK,    \* category -> top_k of its task in a repair
  TopKPerRisk,   \* chunks looked for per risk in the first plan
  MaxTasks,      \* [initial, repair]: agentic_rag_max_initial_tasks, .._repair_tasks
  MaxRepairs,    \* max_repair_rounds
  MaxJudged      \* max_evidence_items

Category == {"guides", "hotel_reviews", "safety_notices", "packing_checklists"}
SupportedRisks == {"rain", "heavy_rain", "wind", "heat"}
CategoryLimit == [guides |-> 3, hotel_reviews |-> 1, safety_notices |-> 2,
                  packing_checklists |-> 1]
CategoryOrder == [guides |-> 0, hotel_reviews |-> 1, safety_notices |-> 2,
                  packing_checklists |-> 3]
Priority == [guides |-> 1, hotel_reviews |-> 3, safety_notices |-> 1, packing_checklists |-> 4]

Categories(s) == {s[i].category : i \in DOMAIN s}

ASSUME EvidenceBounds ==
  /\ TopKPerRisk \in Nat \ {0} /\ MaxRepairs \in Nat /\ MaxJudged \in Nat \ {0}
  /\ MaxTasks.initial \in Nat \ {0} /\ MaxTasks.repair \in Nat \ {0}
  /\ \A c \in Category : TopK[c] \in Nat /\ RepairTopK[c] \in Nat

ASSUME TripsAreSound == \A t \in Trips : IsFiniteSet(t.risks)

\* What the planner's schema takes: lists of needs and of intents, each in one of the categories.
ASSUME DecisionsHaveForm ==
  \A d \in Decisions :
    /\ d.needs \in Seq(ToSet(d.needs)) /\ Categories(d.needs) \subseteq Category
    /\ d.intents \in Seq(ToSet(d.intents)) /\ Categories(d.intents) \subseteq Category

\* Every wording of a query gives every chunk its scores.
ASSUME ScoresAreNumbers ==
  \A c \in DOMAIN Corpus :
    \A w \in {"plain"} \cup {i.wording : i \in UNION {ToSet(d.intents) : d \in Decisions}} :
      LET s == Corpus[c].scores[w] IN {s.keyword, s.semantic, s.cross} \subseteq Int

VARIABLES
  trip,          \* planning_context, weather_result, selection_result
  settings,      \* the configuration of the process
  phase,         \* the node that runs next
  plan,          \* retrieval_plan
  retries,       \* rag_retry_count
  hits,          \* retrieved_chunks
  evidence,      \* reranked_evidence
  degradedRank,  \* rerank_result["fallback_used"]
  pool,          \* evidence_pool
  requirements,  \* evidence_requirements
  result,        \* evidence_result
  feedback       \* retrieval_feedback

vars == <<trip, settings, phase, plan, retries, hits, evidence, degradedRank, pool,
          requirements, result, feedback>>

NoPlan == [mode |-> "none", tasks |-> <<>>, needs |-> <<>>, exhausted |-> FALSE]
NoResult == [status |-> "none", next |-> "none", semantic |-> "none"]
NoFeedback == [by |-> "none", missing |-> {}, risks |-> {}, needs |-> <<>>]
NoRequirements == [c \in {} |-> {}]
-----------------------------------------------------------------------------
(* The plan by rules. *)

Filter(category, risks) ==
  CASE category = "guides" -> [doc |-> {category}, city |-> {trip.city}]
    [] category = "hotel_reviews" ->
         [doc |-> {category}, city |-> {trip.city}, hotel |-> trip.hotel]
    [] category = "safety_notices" ->
         [doc |-> {category}, city |-> {trip.city}, risk |-> risks, level |-> {"medium", "high"}]
    [] OTHER ->
         [doc |-> {category},
          scenario |-> {"general"} \cup IF risks \cap {"rain", "heavy_rain"} # {}
                                        THEN {"rainy_city_trip"} ELSE {}]

\* Guides and, with a weather risk, safety notices are demanded, one chunk per risk at least.
MinChunks(category, risks) ==
  CASE category = "guides" -> 2
    [] category = "safety_notices" -> Large(1, Cardinality(risks))
    [] OTHER -> 0

InitialTopK(category) ==
  IF category = "safety_notices"
  THEN Large(TopK[category], TopKPerRisk * Cardinality(trip.risks)) ELSE TopK[category]

RuleTask(mode, category, risks, topK) ==
  [id |-> <<"rule", mode, category, 0>>, category |-> category,
   filter |-> Filter(category, risks), required |-> category \in {"guides", "safety_notices"},
   topK |-> topK, min |-> MinChunks(category, risks), priority |-> Priority[category],
   wording |-> "plain"]

\* The tasks of a plan in the order of their construction.
TaskList(tasks) ==
  Ordered({[key |-> <<CategoryOrder[t.category]>>, item |-> t] : t \in tasks})

InitialPlan ==
  LET wanted == {"guides", "packing_checklists"}
                \cup (IF trip.hotel # {} THEN {"hotel_reviews"} ELSE {})
                \cup (IF trip.risks # {} THEN {"safety_notices"} ELSE {})
  IN  [mode |-> "initial", needs |-> <<>>, exhausted |-> FALSE,
       tasks |-> TaskList({RuleTask("initial", c, trip.risks, InitialTopK(c)) : c \in wanted})]

\* Mutant of TargetRisks: the repair looks for all risks again.
TargetRisksAll(fb) == trip.risks

\* The risks the grader misses; all of them if it does not say which.
TargetRisks(fb) == IF fb.risks # {} THEN fb.risks ELSE trip.risks

RepairPlan(fb) ==
  LET wanted == (fb.missing \cap {"guides", "packing_checklists"})
                \cup (IF trip.hotel # {} THEN fb.missing \cap {"hotel_reviews"} ELSE {})
                \cup (IF TargetRisks(fb) # {} /\ ("safety_notices" \in fb.missing \/ fb.risks # {})
                      THEN {"safety_notices"} ELSE {})
      Risks(c) == IF c = "safety_notices" THEN TargetRisks(fb) ELSE trip.risks
  IN  IF retries >= MaxRepairs
      THEN [mode |-> "repair", tasks |-> <<>>, needs |-> <<>>, exhausted |-> TRUE]
      ELSE [mode |-> "repair", needs |-> <<>>, exhausted |-> FALSE,
            tasks |-> TaskList({RuleTask("repair", c, Risks(c), RepairTopK[c]) : c \in wanted})]

HasRepairRequest(fb) == fb.missing # {} \/ fb.risks # {}

RulePlan == IF HasRepairRequest(feedback) THEN RepairPlan(feedback) ELSE InitialPlan
-----------------------------------------------------------------------------
(* The plan of the model, brought into the shape of the plan by rules. *)

RequiredTasks(tasks) == Picked(tasks, {i \in DOMAIN tasks : tasks[i].required})
OptionalTasks(tasks) == Picked(tasks, {i \in DOMAIN tasks : ~tasks[i].required})

\* In a repair the needs stay as they were; every demanded category has a need.
PlanNeeds(decision, base, previous) ==
  LET stated   == IF base.mode = "repair" /\ previous # <<>> THEN previous ELSE decision.needs
      required == RequiredTasks(base.tasks)
      unnamed  == Picked(required, {i \in DOMAIN required :
                                      required[i].category \notin Categories(stated)})
  IN  stated \o [i \in DOMAIN unnamed |-> [id |-> <<"required", unnamed[i].category>>,
                                           category |-> unnamed[i].category]]

\* An intent needs a task of the plan by rules for its category and, where there are needs,
\* one that it covers.
Usable(base, needs, intent) ==
  /\ intent.category \in Categories(base.tasks)
  /\ needs # <<>> =>
       \E i \in DOMAIN intent.covers, j \in DOMAIN needs : intent.covers[i] = needs[j].id

\* The first task of a demanded category carries the demand.
CompiledTask(base, intent, number) ==
  LET template == CHOOSE t \in ToSet(base.tasks) : t.category = intent.category
      gate     == template.required /\ number = 1
  IN  [template EXCEPT !.id = <<"agentic", base.mode, intent.category, number>>,
                       !.required = gate, !.min = IF gate THEN @ ELSE 0, !.wording = intent.wording]

\* The usable intents of each category, as many as there is room for.
Compiled(base, needs, intents) ==
  LET usable == {i \in DOMAIN intents : Usable(base, needs, intents[i])}
      number == [i \in usable |-> 1 + Cardinality({j \in usable :
                                    j < i /\ intents[j].category = intents[i].category})]
  IN  Ordered({[key |-> <<i>>, item |-> CompiledTask(base, intents[i], number[i])] :
                i \in {i \in usable : number[i] <= CategoryLimit[intents[i].category]}})

\* Mutant of WithRequired: what the model has left out stays out.
WithRequiredAsked(base, compiled) == compiled

\* A demanded category that the model has left out gets the task of the plan by rules.
WithRequired(base, compiled) ==
  LET required == RequiredTasks(base.tasks)
      omitted  == Picked(required, {i \in DOMAIN required :
                                      required[i].category \notin Categories(compiled)})
  IN  compiled \o [i \in DOMAIN omitted |->
                    [omitted[i] EXCEPT !.id = <<"agentic", base.mode, omitted[i].category, 0>>]]

\* The demanded tasks first; the others by priority while there is room.
Trimmed(tasks, room) ==
  LET ByPriority(s) == Ordered({[key |-> <<s[i].priority, i>>, item |-> s[i]] : i \in DOMAIN s})
      required == ByPriority(RequiredTasks(tasks))
      optional == ByPriority(OptionalTasks(tasks))
  IN  required \o SubSeq(optional, 1, Small(Len(optional), Large(0, room - Len(required))))

CompileDecision(decision, base, previous) ==
  LET needs    == PlanNeeds(decision, base, previous)
      compiled == Compiled(base, needs, decision.intents)
  IN  [base EXCEPT !.needs = needs,
                   !.tasks = Trimmed(WithRequired(base, compiled), MaxTasks[base.mode])]

\* What the model may make of a plan; the plan by rules if nothing can be made of its answer.
AgenticPlans(base) ==
  {base} \cup {p \in {CompileDecision(d, base, feedback.needs) : d \in Decisions} : p.tasks # <<>>}
-----------------------------------------------------------------------------
(* The grade by rules. *)

Pooled(item) == [category |-> item.category, chunk |-> item.chunk]
Keys(items) == {Pooled(e) : e \in items}
TaskOf(item) == CHOOSE t \in ToSet(plan.tasks) : t.id = item.task

\* _validate_latest_evidence: traceable, readable, and what the task asked for.
Valid(item) ==
  /\ \E t \in ToSet(plan.tasks) : t.id = item.task
  /\ Corpus[item.chunk].legible
  /\ item.category = TaskOf(item).category
  /\ MetadataMatches(Corpus[item.chunk].meta, TaskOf(item).filter)

\* The same chunk twice in a category: the better one stays, the older one if they are equal.
Merged(items, list) ==
  LET Found(e, place) == [key |-> <<-e.score, -e.fusion, place>>, item |-> e]
      all == {Found(e, 0) : e \in items} \cup {Found(list[i], i) : i \in DOMAIN list}
  IN  {Ordered({f \in all : Pooled(f.item) = k})[1] : k \in {Pooled(f.item) : f \in all}}

\* Mutant of BasePool: the repair starts from nothing.
BasePoolFresh == {}

BasePool == IF plan.mode = "initial" THEN {} ELSE pool

BaseRequirements == IF plan.mode = "initial" THEN NoRequirements ELSE requirements

\* _resolve_requirements: a task adds to the demands on its category and takes none away.
Demands(before, tasks) ==
  LET Of(c)  == {t \in ToSet(tasks) : t.category = c}
      Old(c) == IF c \in DOMAIN before THEN before[c]
                ELSE [required |-> FALSE, min |-> 0, hotels |-> {}]
  IN  [c \in DOMAIN before \cup Categories(tasks) |->
        [required |-> Old(c).required \/ \E t \in Of(c) : t.required,
         min      |-> Max({Old(c).min} \cup {t.min : t \in Of(c)}),
         hotels   |-> Old(c).hotels \cup UNION {HotelsOf(t) : t \in Of(c)}]]

Chunks(items, category) == {e.chunk : e \in {e \in items : e.category = category}}
RisksOf(chunks) == (UNION {Corpus[c].meta.risk : c \in chunks}) \cap SupportedRisks

\* The weather risks the grader knows.
DemandedRisks == trip.risks \cap SupportedRisks

MissingRisks(demands, items, category) ==
  IF category = "safety_notices" /\ demands[category].required
  THEN DemandedRisks \ RisksOf(Chunks(items, category)) ELSE {}

MissingHotels(demands, items, category) ==
  demands[category].hotels \ UNION {Corpus[c].meta.hotel : c \in Chunks(items, category)}

Covered(demands, items, category) ==
  \/ ~demands[category].required
  \/ /\ Cardinality(Chunks(items, category)) >= demands[category].min
     /\ MissingHotels(demands, items, category) = {}
     /\ MissingRisks(demands, items, category) = {}

Failing(demands, items) == {c \in DOMAIN demands : ~Covered(demands, items, c)}

RuleGrade(demands, items, rejected) ==
  LET failing == Failing(demands, items)
      next    == IF failing = {} THEN "continue"
                 ELSE IF ~plan.exhausted /\ retries < MaxRepairs THEN "repair" ELSE "stop"
      fallback == degradedRank \/ \E i \in DOMAIN evidence :
                                    Valid(evidence[i]) /\ evidence[i].via = "fallback"
  IN  [next |-> next, semantic |-> "none",
       status |-> CASE next = "continue" -> IF fallback \/ rejected THEN "degraded" ELSE "passed"
                    [] next = "repair" -> "repair_required"
                    [] next = "stop" -> "failed"]

\* The needs travel with the feedback only where the model judges as well.
RuleFeedback(demands, items) ==
  LET failing == Failing(demands, items)
  IN  IF failing = {} THEN NoFeedback
      ELSE [by |-> "rule", missing |-> failing,
            risks |-> UNION {MissingRisks(demands, items, c) : c \in failing},
            needs |-> IF settings.judge THEN plan.needs ELSE <<>>]
-----------------------------------------------------------------------------
(* The grade by a model. *)

\* The pool in its own order.
PoolOrder(items) ==
  Ordered({[key |-> <<CategoryOrder[e.category],
                      -(IF e.score # NoScore THEN e.score ELSE e.fusion), e.place, e.chunk>>,
            item |-> e] : e \in items})

\* _select_evidence: the best of every needed category in turn.
Shown(needs, items) ==
  LET needed == {c \in Categories(needs) : Chunks(items, c) # {}}
      first(c) == CHOOSE i \in DOMAIN needs :
                    needs[i].category = c /\ \A j \in 1 .. i - 1 : needs[j].category # c
      best == PoolOrder(items)
      own(c) == Picked(best, {i \in DOMAIN best : best[i].category = c})
      turns == UNION {{[key |-> <<i, first(c)>>, item |-> own(c)[i]] : i \in DOMAIN own(c)} :
                      c \in needed}
      order == Ordered(turns)
  IN  {order[i] : i \in 1 .. Small(MaxJudged, Len(order))}

\* Citations count while they name a chunk of the pool.
Citations(opinion, need, items) ==
  LET own == Chunks(items, need.category)
  IN  CASE opinion.cites = "all" -> own
        [] opinion.cites = "one" -> {c \in own : \A d \in own : c <= d}
        [] opinion.cites = "invented" -> {}

ProposalOwnedGaps ==
  {"complete_itinerary_not_preassembled", "trip_duration_not_explicit", "exact_date_not_explicit"}

\* Guides need not hold a finished itinerary: other gaps they may not have.
Supports(opinion, need, items, demands) ==
  LET cited == Citations(opinion, need, items)
  IN  \/ opinion.status = "supported" /\ cited # {}
      \/ /\ need.category = "guides"
         /\ opinion.status = "partial"
         /\ Cardinality(cited) >= Large(1, IF "guides" \in DOMAIN demands THEN demands["guides"].min ELSE 0)
         /\ opinion.gaps # {} /\ opinion.gaps \subseteq ProposalOwnedGaps

RequiredNeeds(demands) ==
  Picked(plan.needs, {i \in DOMAIN plan.needs :
                        /\ plan.needs[i].category \in DOMAIN demands
                        /\ demands[plan.needs[i].category].required})

\* Only the first plan can be repaired at the wish of the judge.
SemanticGrade(graded, unmet) ==
  IF unmet = {} THEN [graded EXCEPT !.semantic = "passed"]
  ELSE IF plan.mode = "initial" /\ ~plan.exhausted /\ retries < MaxRepairs
       THEN [status |-> "repair_required", next |-> "repair", semantic |-> "insufficient"]
       ELSE [status |-> "failed", next |-> "stop", semantic |-> "insufficient"]

SemanticFeedback(unmet) ==
  IF unmet = {} THEN NoFeedback
  ELSE [by |-> "judge", missing |-> {n.category : n \in unmet}, risks |-> {},
        needs |-> plan.needs]
-----------------------------------------------------------------------------
(* The nodes. *)

Init ==
  /\ trip \in Trips /\ settings \in Settings
  /\ phase = "retrieval_plan" /\ plan = NoPlan /\ retries = 0
  /\ hits = <<>> /\ evidence = <<>> /\ degradedRank = FALSE
  /\ pool = {} /\ requirements = NoRequirements
  /\ result = NoResult /\ feedback = NoFeedback

\* Mutant of RetriesAfter: a repair is not counted.
RetriesAfterUncounted(p) == retries

\* Only a repair that has something to do is counted.
RetriesAfter(p) ==
  IF p.mode = "repair" /\ p.tasks # <<>> /\ ~p.exhausted THEN retries + 1 ELSE retries

RetrievalPlan ==
  /\ phase = "retrieval_plan"
  /\ \E p \in IF settings.agentic THEN AgenticPlans(RulePlan) ELSE {RulePlan} :
       /\ plan' = p
       /\ retries' = RetriesAfter(p)
  /\ phase' = "hybrid_retrieve"
  /\ UNCHANGED <<trip, settings, hits, evidence, degradedRank, pool, requirements, result, feedback>>

\* The tasks that fail: none, one or all of them.
Faults ==
  LET ids == {t.id : t \in ToSet(plan.tasks)}
  IN  {{}} \cup IF settings.faults THEN {ids} \cup {{id} : id \in ids} ELSE {}

\* A task that fails leaves the others alone; without a retriever all of them fail.
HybridRetrieve ==
  /\ phase = "hybrid_retrieve"
  /\ \E broken \in Faults :
       hits' = Joined([i \in DOMAIN plan.tasks |->
                         IF plan.tasks[i].id \in broken THEN <<>> ELSE RetrieveTask(plan.tasks[i])])
  /\ phase' = "rerank"
  /\ UNCHANGED <<trip, settings, plan, retries, evidence, degradedRank, pool, requirements, result,
                 feedback>>

HitsOf(task) == Picked(hits, {i \in DOMAIN hits : hits[i].task = task.id})

\* The default: no second ranking.
KeepFusionOrder ==
  /\ phase = "rerank" /\ ~settings.rerank
  /\ evidence' = Joined([i \in DOMAIN plan.tasks |->
                           PassThrough(plan.tasks[i], HitsOf(plan.tasks[i]))])
  /\ degradedRank' = FALSE
  /\ phase' = "evidence_grade"
  /\ UNCHANGED <<trip, settings, plan, retries, hits, pool, requirements, result, feedback>>

\* A task whose scores fail keeps the order of the fusion, or is lost if that is forbidden.
Rerank ==
  /\ phase = "rerank" /\ settings.rerank
  /\ \E broken \in Faults :
       LET failed == {t.id : t \in {t \in ToSet(plan.tasks) : t.id \in broken /\ HitsOf(t) # <<>>}}
           Ranked(t) == IF t.id \notin failed THEN RerankTask(t, HitsOf(t))
                        ELSE IF settings.fallback THEN FallbackTask(t, HitsOf(t)) ELSE <<>>
       IN  /\ evidence' = Joined([i \in DOMAIN plan.tasks |-> Ranked(plan.tasks[i])])
           /\ degradedRank' = (settings.fallback /\ failed # {})
  /\ phase' = "evidence_grade"
  /\ UNCHANGED <<trip, settings, plan, retries, hits, pool, requirements, result, feedback>>

\* What the grade leaves behind, whoever has given it, and route_after_evidence.
Graded(items, demands, grade, fb) ==
  /\ pool' = items
  /\ requirements' = demands
  /\ result' = grade
  /\ feedback' = fb
  /\ evidence' = PoolOrder(items)
  /\ phase' = CASE grade.next = "continue" -> "proposal"
                [] grade.next = "repair" -> "retrieval_plan"
                [] grade.next = "stop" -> "final_response"
  /\ UNCHANGED <<trip, settings, plan, retries, hits, degradedRank>>

\* The judge is asked when the rules are content, and only about demanded needs.
EvidenceGrade ==
  /\ phase = "evidence_grade"
  /\ LET valid   == Picked(evidence, {i \in DOMAIN evidence : Valid(evidence[i])})
         items   == Merged(BasePool, valid)
         demands == Demands(BaseRequirements, plan.tasks)
         grade   == RuleGrade(demands, items, Len(valid) < Len(evidence))
         needs   == RequiredNeeds(demands)
     IN  IF ~settings.judge \/ grade.next # "continue" \/ needs = <<>>
         THEN Graded(items, demands, grade, RuleFeedback(demands, items))
         ELSE \/ Graded(items, demands, [grade EXCEPT !.semantic = "unverified"], NoFeedback)
              \/ \E opinion \in [DOMAIN needs -> Opinions] :
                   LET unmet == {needs[i] : i \in {i \in DOMAIN needs :
                                   ~Supports(opinion[i], needs[i], items, demands)}}
                   IN  Graded(items, demands, SemanticGrade(grade, unmet), SemanticFeedback(unmet))

Next == RetrievalPlan \/ HybridRetrieve \/ KeepFusionOrder \/ Rerank \/ EvidenceGrade

Spec == Init /\ [][Next]_vars

Phase == {"retrieval_plan", "hybrid_retrieve", "rerank", "evidence_grade", "proposal",
          "final_response"}
Ended == phase \in {"proposal", "final_response"}

\* The graph runs its nodes to the end: before the end a step of Next is possible, and every
\* one of them moves on to another node.
Moves == ~Ended /\ phase' \in Phase
FairSpec == Spec /\ WF_phase(Moves)
-----------------------------------------------------------------------------
(* Properties. *)

(* The numbers of chunks that are looked for suffice for a trip: the best guides are not all      *)
(* illegible, where every risk has a notice there are as many notices as risks, and if the best    *)
(* notices of the first search say nothing of some risks, then those of the repair, which looks    *)
(* for these risks only, say something of each of them.                                            *)
GuidesFor(t) == MatchingChunks([doc |-> {"guides"}, city |-> {t.city}])
NoticesFor(t, risks) ==
  MatchingChunks([doc |-> {"safety_notices"}, city |-> {t.city}, risk |-> risks,
                  level |-> {"medium", "high"}])
ChunksSuffice(t) ==
  LET first  == Large(TopK["safety_notices"], TopKPerRisk * Cardinality(t.risks))
      second == RepairTopK["safety_notices"]
      N(risks) == Cardinality(NoticesFor(t, risks))
  IN  /\ TopK["guides"] >= 2 + Cardinality({c \in GuidesFor(t) : ~Corpus[c].legible})
      /\ RepairTopK["guides"] >= 2 /\ second >= Cardinality(t.risks)
      /\ \A c \in NoticesFor(t, t.risks) : Corpus[c].legible
      /\ (\A r \in t.risks : NoticesFor(t, {r}) # {}) => N(t.risks) >= Cardinality(t.risks)
      /\ \A missed \in SUBSET t.risks : N(t.risks \ missed) >= first =>
           \A r \in missed : N(missed \ {r}) < second

TypeOK ==
  /\ phase \in Phase
  /\ plan.mode \in {"none", "initial", "repair"}
  /\ \A t \in ToSet(plan.tasks) : t.category \in Category /\ t.topK \in Nat /\ t.min <= t.topK
  /\ retries \in 0 .. MaxRepairs
  /\ \A i \in DOMAIN hits : hits[i].chunk \in DOMAIN Corpus
  /\ \A e \in pool : e.category \in Category /\ e.chunk \in DOMAIN Corpus
  /\ Cardinality(Keys(pool)) = Cardinality(pool)
  /\ DOMAIN requirements \subseteq Category
  /\ (phase = "proposal") = (result.status \in {"passed", "degraded"})

\* A proposal is written only from what the trip, not the plan or its author, demands: two
\* guides of the city and, for every risk of the weather, a serious notice for this city.
\* The model may leave categories out, and searches and rankings may fail.
ProposalHasItsEvidence ==
  phase = "proposal" =>
    /\ Cardinality(Chunks(pool, "guides")) >= 2
    /\ DemandedRisks \subseteq RisksOf(Chunks(pool, "safety_notices"))

\* Nothing in the pool concerns another city, another hotel or a weather that is not forecast,
\* and nothing in it is unreadable.
PoolFitsTrip ==
  \A e \in pool :
    LET meta == Corpus[e.chunk].meta
    IN  /\ Corpus[e.chunk].legible
        /\ e.category # "packing_checklists" => trip.city \in meta.city
        /\ e.category = "hotel_reviews" => trip.hotel \cap meta.hotel # {}
        /\ e.category = "safety_notices" => trip.risks \cap meta.risk # {}

\* A proposal is made from evidence for all that this trip demands and from no other.
EvidenceServesTrip == ProposalHasItsEvidence /\ PoolFitsTrip

\* With the default ranking, no model and no fault, what the corpus has is found: the loop
\* gives up only where the corpus has too little. One kind of risk may fill the first search,
\* the repair then looks for the others alone.
WhatExistsIsFound ==
  LET Has(category, risks) ==
        Cardinality({c \in MatchingChunks(Filter(category, risks)) : Corpus[c].legible})
  IN  /\ phase = "final_response"
      /\ ~settings.agentic /\ ~settings.rerank /\ ~settings.faults
      => Has("guides", {}) < 2 \/ \E r \in trip.risks : Has("safety_notices", {r}) = 0

\* Every demanded need with evidence is represented in what the judge sees: a category with
\* many good chunks does not crowd out another.
JudgeSeesEveryNeed ==
  phase = "proposal" /\ settings.judge =>
    LET needs == RequiredNeeds(requirements)
    IN  \A i \in DOMAIN needs : Chunks(pool, needs[i].category) # {} =>
          \E e \in Shown(needs, pool) : e.category = needs[i].category

\* A chunk that both searches put before another is before it after the fusion as well.
FusionKeepsAgreement ==
  phase = "rerank" =>
    \A t \in ToSet(plan.tasks) :
      LET candidates == MatchingChunks(t.filter)
          bm25   == Bm25Hits(t, candidates)
          vector == VectorHits(t, candidates)
          fused  == HitsOf(t)
      IN  \A i, j \in DOMAIN fused : i < j =>
            ~(/\ RankIn(bm25, fused[j].chunk) < RankIn(bm25, fused[i].chunk)
              /\ RankIn(vector, fused[j].chunk) < RankIn(vector, fused[i].chunk))

\* The cuts on the way of the evidence (fusion, best chunks of a task, part of the pool for
\* the judge) hide nothing that a demand rests on, and keep the types.
NothingNeededIsHidden ==
  TypeOK /\ WhatExistsIsFound /\ JudgeSeesEveryNeed /\ FusionKeepsAgreement

\* A repair only adds: no chunk leaves the pool and no demand is dropped or lowered, although
\* the plan of the repair names the gaps alone.
RepairOnlyAdds ==
  [][phase = "evidence_grade" /\ plan.mode = "repair" =>
       /\ Keys(pool) \subseteq Keys(pool')
       /\ \A c \in DOMAIN requirements :
            /\ c \in DOMAIN requirements'
            /\ requirements[c].required => requirements'[c].required
            /\ requirements[c].min <= requirements'[c].min]_vars

\* The loop ends, whatever the models answer and whatever fails.
LoopEnds == <>Ended

\* What the graph knows of a plan.
PlanKind == IF plan.exhausted THEN "exhausted" ELSE plan.mode

\* The super-steps of the loop: a round is paid for when its plan is made.
Steps ==
  4 * retries +
  CASE phase = "retrieval_plan" -> IF HasRepairRequest(feedback) THEN 4 ELSE 0
    [] phase = "hybrid_retrieve" -> 1 [] phase = "rerank" -> 2 [] phase = "evidence_grade" -> 3
    [] OTHER -> 4

Known(made) == IF made THEN 0 ELSE -1

Graph == INSTANCE PlanTripGraph WITH
  ToolPlanMax <- 0, ToolExecMax <- 0, RagMax <- MaxRepairs, ProposalMax <- 0, BudgetMax <- 0,
  PlannerFaults <- 0, MaxRevisions <- 0, RecursionLimit <- 4 + 4 * MaxRepairs,
  run <- "running", node <- phase, steps <- Steps, faults <- 0, request <- 0,
  retry <- [toolPlan |-> 0, toolExec |-> 0, rag |-> retries, proposal |-> 0, budget |-> 0],
  tools <- [context |-> 0, plan |-> "clean", fetched |-> TRUE, ranked |-> "ok"],
  rag <- [plan |-> PlanKind, of |-> Known(plan # NoPlan), feedback |-> HasRepairRequest(feedback),
          evidence |-> result.next, pool |-> Known(result # NoResult)],
  choice <- 0, draft <- 0, verdict <- 0, pending <- 0, decision <- 0, revision <- 0,
  outcome <- 0, shown <- 0

\* The loop is the one of PlanTripGraph, whoever plans and judges: every step is one of its
\* four nodes, a repair has always something to look for, so that no round is free, and the
\* loop comes to its end.
ImplementsGraph ==
  /\ [][Graph!RetrievalPlan \/ Graph!HybridRetrieve \/ Graph!Rerank \/ Graph!EvidenceGrade]_vars
  /\ LoopEnds

\* Evidence that the judge has found insufficient is accepted only after the judge was asked
\* again: retrieval with an empty goal must not pass by itself.
InsufficiencyIsReviewed ==
  [][feedback.by = "judge" /\ phase' = "proposal" => result'.semantic # "none"]_vars

\* Evidence ranked by the fallback may be used, but the final status is degraded.
FallbackEndsDegraded ==
  phase = "proposal" /\ (\E e \in pool : e.via = "fallback") => result.status = "degraded"
=============================================================================
