-------------------------- MODULE ProposalContract --------------------------
(***************************************************************************)
(* The two parties that decide what a traveller is shown: the generator,   *)
(* which asks a language model for a draft, validates it against the part  *)
(* of the evidence that fits into the prompt and puts the locked facts in, *)
(* and the verifier, which rebuilds the facts and checks the result        *)
(* against the whole evidence pool.  The two were written independently;   *)
(* the properties say how far they agree.                                  *)
(*                                                                         *)
(* app/proposals/proposal_generator.py, app/nodes/proposal_node.py,        *)
(* app/verifiers/proposal_verifier.py, app/nodes/verifier_node.py          *)
(***************************************************************************)
EXTENDS Integers, Sequences, FiniteSets, BudgetCheck

CONSTANTS
  Inputs,        \* what the upstream nodes may have put into the state
  Drafts(_),     \* the drafts a model may answer with, for an input
  MaxItems,      \* proposal_max_evidence_items
  MaxAttempts,   \* proposal_max_attempts
  MaxRepairs,    \* verifier_max_proposal_repairs
  MaxIssues      \* how many issues the model is told of: relevant[:12]

ASSUME LimitsAreNumbers ==
  /\ MaxItems \in Nat \ {0} /\ MaxAttempts \in Nat \ {0}
  /\ MaxRepairs \in Nat /\ MaxIssues \in Nat \ {0}

\* A chunk of the corpus belongs to one document, and so to one category and one hotel.
ASSUME ChunksAreUnique ==
  \A in \in Inputs : /\ in.days \in Nat
                    /\ \A a, b \in in.pool : a.chunk = b.chunk => a = b

VARIABLES
  input,      \* trip, weather, selection, evidence pool, requirements, tool activities
  shown,      \* the evidence_context of generate(): the short names and what they stand for
  phase,      \* the node that runs next, or where the graph went
  attempt,    \* failed attempts of the generate() that is running
  proposal,   \* state["proposal"]
  result,     \* state["proposal_result"]
  repairs,    \* state["proposal_retry_count"]
  feedback    \* state["proposal_feedback"]: the issues the model is told to repair

vars == <<input, shown, phase, attempt, proposal, result, repairs, feedback>>

None == "none"
Undated == 0
NoProposal == [id |-> None]
NoResult == [status |-> None]
-----------------------------------------------------------------------------
(* The facts that the model may not change. *)

Category == {"guides", "safety_notices", "hotel_reviews", "packing_checklists"}
CategoryOrder == <<"guides", "safety_notices", "hotel_reviews", "packing_checklists">>
Knowledge == {"sightseeing", "culture", "food", "nature", "city_walk", "leisure",
              "shopping", "other"}
Adjustable == {"rain", "heavy_rain", "wind", "heat"}
Rain == {"rain", "heavy_rain"}

\* A day without a record is unavailable and carries no risk, not even a dated one.
DayWeather(in, date) ==
  IF date \in DOMAIN in.daily
  THEN [status |-> "available",
        risks |-> in.daily[date] \cup {r.type : r \in {r \in in.risks : r.date = date}}]
  ELSE [status |-> "unavailable", risks |-> {}]

WeatherOverview(in) ==
  LET days == [date \in 1 .. in.days |-> DayWeather(in, date)]
  IN  [daily |-> days,
       risks |-> (UNION {days[date].risks : date \in 1 .. in.days})
                 \cup {r.type : r \in {r \in in.risks : r.date = Undated}}]

SelectedFacts(selection) ==
  [outbound |-> selection.outbound, return |-> selection.return, hotel |-> selection.hotel]

LockedContext(in) ==
  [dates    |-> [i \in 1 .. in.days |-> i],
   selected |-> SelectedFacts(in.selection),
   weather  |-> WeatherOverview(in),
   budget   |-> in.selection.budget]

\* What the nodes before hand over: evidence of the four categories in a list, and a selection
\* the optimiser made from the ranked pool, with a budget that adds up (TripSelection).
ASSUME EvidenceIsListed ==
  \A in \in Inputs : /\ IsFiniteSet(in.pool)
                    /\ \A e \in in.pool : /\ e.category \in Category
                                         /\ e.chunk \in Nat /\ e.quality \in Int
ASSUME SelectionIsSound ==
  \A in \in Inputs :
    LET facts == SelectedFacts(in.selection)
    IN  /\ in.selection.combination = [leg \in DOMAIN facts |-> facts[leg].id]
        /\ \A leg \in DOMAIN facts : facts[leg].id \in in.ranked[leg]
        /\ BudgetProblems(in.selection.budget, facts, in.selection.budget) = {}

\* named_constraints and unmapped_requirements without a text are dropped; the index
\* keeps equal texts apart.
Catalog(in) ==
  {<<in.wishes[i].kind, in.wishes[i].text, i>> :
     i \in {i \in DOMAIN in.wishes : in.wishes[i].text # ""}}
-----------------------------------------------------------------------------
(* The evidence the model is shown, under short names. *)

Better(a, b) == a.quality > b.quality \/ (a.quality = b.quality /\ a.chunk < b.chunk)

Usable(in) ==
  {e \in in.pool : e.category = "hotel_reviews" => e.hotel = in.selection.hotel.id}

OfCategory(items, category) == {e \in items : e.category = category}

\* How many items of a set come before e.
Before(items, e) == Cardinality({o \in items : Better(o, e)})

\* Mutant of PromptItems: the best items, whatever their category.
PromptByQuality(in) == {e \in Usable(in) : Before(Usable(in), e) < MaxItems}

\* The best item of every category first, then the best of the rest while there is room.
PromptItems(in) ==
  LET items  == Usable(in)
      Order(category) == CHOOSE i \in 1 .. 4 : CategoryOrder[i] = category
      present == {Order(e.category) : e \in items}
      first  == {e \in items : Before(OfCategory(items, e.category), e) = 0
                    /\ Cardinality({i \in present : i < Order(e.category)}) < MaxItems}
      rest   == items \ first
      room   == MaxItems - Cardinality(first)
  IN  first \cup {e \in rest : Before(rest, e) < room}

\* G01, S01, H01, P01: numbered by quality within the category.
NameItems(items) ==
  LET Alias(e) == <<e.category, 1 + Before(OfCategory(items, e.category), e)>>
  IN  [alias \in {Alias(e) : e \in items} |-> CHOOSE e \in items : Alias(e) = alias]

EvidenceContext(in) == NameItems(PromptItems(in))

Aliases == DOMAIN shown
AliasesOf(category) == {a \in Aliases : a[1] = category}
Chunk(alias) == shown[alias].chunk
-----------------------------------------------------------------------------
(* Drafts. *)

Ref == STRING \X Nat
ActivityType == Knowledge \cup {"transfer", "check_in", "free_time"}
ClaimType == {"real_booking_claim", "real_payment_claim", "real_ticketing_claim",
              "real_notification_claim"}
\* What a text claims to have been done; the number tells the texts of a part apart.
Claim == ClaimType \X Nat
IndoorOutdoorType == {"indoor", "outdoor", "mixed", "flexible", "transfer"}
Activity == [type : ActivityType, place : IndoorOutdoorType, title : STRING, generic : BOOLEAN,
             refs : SUBSET Ref, tool : STRING, claims : SUBSET Claim]
Note == SUBSET Ref
Draft ==
  [days    : Seq([date : Int, activities : SUBSET Activity, adjusted : BOOLEAN]),
   hotel   : Seq(Note), packing : Seq(Note), safety : Seq(Note),
   handled : Seq([key : STRING \X STRING \X Nat, refs : Note]),
   claims  : SUBSET Claim]  \* in the texts that are not of an activity

\* An answer that is not of this form fails as one that is not JSON does.
ASSUME DraftsHaveForm == \A in \in Inputs : Drafts(in) \subseteq Draft

Activities(d) == UNION {d.days[i].activities : i \in DOMAIN d.days}
\* The optional hotel context is a list of at most one note.
NoteRefs(notes) == UNION {notes[i] : i \in DOMAIN notes}

CollectRefs(d) ==
  (UNION {a.refs : a \in Activities(d)}) \cup NoteRefs(d.hotel) \cup NoteRefs(d.packing)
    \cup NoteRefs(d.safety) \cup UNION {d.handled[i].refs : i \in DOMAIN d.handled}

\* ProposalDraft(**payload): the bounds Pydantic enforces.
SchemaValid(d) ==
  /\ Len(d.days) > 0
  /\ \A i \in DOMAIN d.days : d.days[i].activities # {}
  /\ {} \notin {d.hotel[i] : i \in DOMAIN d.hotel}

\* Meals and rests without a source and in general words become free time.
Normalise(d) ==
  LET Fix(a) ==
        IF a.refs = {} /\ a.type \in {"food", "leisure", "other"} /\ a.generic
        THEN [a EXCEPT !.type = "free_time",
                       !.place = IF @ = "outdoor" THEN "flexible" ELSE @]
        ELSE a
  IN  [d EXCEPT !.days = [i \in DOMAIN d.days |->
         [d.days[i] EXCEPT !.activities = {Fix(a) : a \in @}]]]

ToolOf(in, a) == IF a.tool \in DOMAIN in.activities THEN {in.activities[a.tool]} ELSE {}

ActivityValid(in, date, a) ==
  a.type \in Knowledge =>
    /\ a.tool # None => ToolOf(in, a) # {}
    /\ \A t \in ToolOf(in, a) : a.title = t.name /\ date \in t.dates
    /\ a.refs \cap AliasesOf("guides") # {} \/ ToolOf(in, a) # {}

AllOutdoor(activities) ==
  LET staying == {a \in activities : a.place # "transfer"}
  IN  staying # {} /\ \A a \in staying : a.place = "outdoor"

DayValid(in, day) ==
  LET risks == DayWeather(in, day.date).risks
  IN  /\ risks \cap Adjustable # {} => day.adjusted
      /\ ~(risks \cap Rain # {} /\ AllOutdoor(day.activities))

HotelValid(d) ==
  LET reviews == AliasesOf("hotel_reviews")
  IN  IF reviews = {} THEN d.hotel = <<>>
      ELSE d.hotel # <<>> /\ NoteRefs(d.hotel) # {} /\ NoteRefs(d.hotel) \subseteq reviews

NotesValid(in, d) ==
  /\ WeatherOverview(in).risks # {} =>
       /\ d.safety # <<>>
       /\ AliasesOf("safety_notices") # {} =>
            NoteRefs(d.safety) \cap AliasesOf("safety_notices") # {}
  /\ AliasesOf("packing_checklists") # {} =>
       NoteRefs(d.packing) \cap AliasesOf("packing_checklists") # {}

HandledKeys(d) == {d.handled[i].key : i \in DOMAIN d.handled}

RequirementsValid(in, d) ==
  Cardinality(HandledKeys(d)) = Len(d.handled) /\ HandledKeys(d) = Catalog(in)

DraftValid(in, d) ==
  /\ [i \in DOMAIN d.days |-> d.days[i].date] = LockedContext(in).dates
  /\ HotelValid(d)
  /\ CollectRefs(d) \subseteq Aliases
  /\ \A i \in DOMAIN d.days : /\ DayValid(in, d.days[i])
                              /\ \A a \in d.days[i].activities :
                                   ActivityValid(in, d.days[i].date, a)
  /\ NotesValid(in, d)
  /\ RequirementsValid(in, d)

\* The short names are replaced by the ids of the chunks.
Real(refs) == {Chunk(alias) : alias \in refs}
RealNotes(notes) == [i \in DOMAIN notes |-> Real(notes[i])]
RealActivities(activities) == {[a EXCEPT !.refs = Real(@)] : a \in activities}
RealDays(days) == [i \in DOMAIN days |-> [days[i] EXCEPT !.activities = RealActivities(@)]]
RealAnswers(handled) == [i \in DOMAIN handled |-> [handled[i] EXCEPT !.refs = Real(@)]]

Resolve(d) ==
  [d EXCEPT !.days = RealDays(@), !.handled = RealAnswers(@),
            !.hotel = RealNotes(@), !.packing = RealNotes(@), !.safety = RealNotes(@)]
-----------------------------------------------------------------------------
(* The proposal. *)

UsedTools(days) ==
  {a.tool : a \in UNION {days[i].activities : i \in DOMAIN days}} \ {None}

\* Mutant of ActivitySources: the source is left to the default of the schema, after the
\* identity has been computed.
ActivitySourcesUnnamed(in, d) ==
  {[id |-> t, name |-> in.activities[t].name, dates |-> in.activities[t].dates,
    source |-> None] : t \in UsedTools(d.days) \cap DOMAIN in.activities}

ActivitySources(in, d) ==
  {[id |-> t, name |-> in.activities[t].name, dates |-> in.activities[t].dates,
    source |-> "mcp:search_city_activities"] :
     t \in UsedTools(d.days) \cap DOMAIN in.activities}

\* ProposalActivitySourceRef fills in a source that is missing.
SourceDefaults(sources) ==
  {[s EXCEPT !.source = IF @ = None THEN "mcp:search_city_activities" ELSE @] :
     s \in sources}

Sources(in, refs) ==
  {[chunk |-> e.chunk, category |-> e.category, hotel |-> e.hotel, quality |-> e.quality] :
     e \in {e \in Usable(in) : e.chunk \in refs}}

\* Whose hash is the proposal's id.
Identity(locked, version, content) ==
  [locked |-> locked, version |-> version, content |-> content]

Content(d, days, sources) ==
  [days |-> days, hotel |-> d.hotel, packing |-> d.packing, safety |-> d.safety,
   handled |-> d.handled, claims |-> d.claims, used |-> CollectRefs(d),
   activitySources |-> sources]

Assemble(in, d) ==
  LET locked == LockedContext(in)
      days   == [i \in DOMAIN d.days |->
                  [date |-> d.days[i].date, activities |-> d.days[i].activities,
                   adjusted |-> d.days[i].adjusted,
                   weather |-> locked.weather.daily[d.days[i].date]]]
  IN  [id      |-> Identity(locked, in.version, Content(d, days, ActivitySources(in, d))),
       version |-> in.version,
       locked  |-> locked,
       days    |-> days,
       hotel   |-> d.hotel, packing |-> d.packing, safety |-> d.safety,
       handled |-> d.handled, claims |-> d.claims,
       sources |-> Sources(in, CollectRefs(d)),
       activitySources |-> SourceDefaults(ActivitySources(in, d))]

GenerationResult(p) ==
  [status |-> "generated", id |-> p.id, locked |-> p.locked, days |-> Len(p.days),
   used |-> CollectRefs(p)]

\* _resolve_proposal_version: one more than the version that was revised.
ProposalVersion(base) == base + 1
-----------------------------------------------------------------------------
(* The checks of the verifier: each yields issues. *)

\* An issue is of a type, is sent back to a node, and is found at a place.
Issue(type, target, at) == [type |-> type, target |-> target, at |-> at]
When(condition, type, target) == IF condition THEN {Issue(type, target, None)} ELSE {}
Each(places, type, target) == {Issue(type, target, at) : at \in places}

\* The fields of two records that differ.
Differing(a, b) == {field \in DOMAIN a : a[field] # b[field]}

ResultIssues(p, res) ==
  LET fields == [id |-> p.id, locked |-> p.locked, days |-> Len(p.days)]
  IN  When(res.status # "generated", "proposal_result_not_generated", "proposal")
      \cup Each(Differing(fields, res), "proposal_result_mismatch", "proposal")
      \cup When(res.used # CollectRefs(p), "proposal_result_evidence_mismatch", "proposal")

LineageIssues(in, p) ==
  LET ids == [leg \in DOMAIN p.locked.selected |-> p.locked.selected[leg].id]
  IN  Each({leg \in DOMAIN ids : ids[leg] \notin in.ranked[leg]},
           "selected_candidate_not_in_ranked_pool", "budget_optimize")
      \cup Each(Differing(ids, in.selection.combination),
                "selected_combination_id_mismatch", "budget_optimize")

\* The hash of the facts differs when a fact does.
LockedIssues(in, p) ==
  When(p.locked # LockedContext(in), "locked_fact_hash_mismatch", "proposal")
  \cup Each(Differing(LockedContext(in), p.locked), "locked_fact_value_mismatch", "proposal")

BudgetIssues(in, p) ==
  {Issue(type, "budget_optimize", None) :
     type \in BudgetProblems(p.locked.budget, p.locked.selected, in.selection.budget)}

EvidenceIds(in) == {e.chunk : e \in in.pool}
ChunksOf(in, category) == {e.chunk : e \in OfCategory(in.pool, category)}

\* The activities, each with its date.
Planned(p) == UNION {{<<p.days[i].date, a>> : a \in p.days[i].activities} : i \in DOMAIN p.days}

ItineraryIssues(in, p) ==
  LET locked == LockedContext(in)
      known  == {i \in DOMAIN p.days : p.days[i].date \in 1 .. in.days}
      Risks(i) == DayWeather(in, p.days[i].date).risks
  IN  When([i \in DOMAIN p.days |-> p.days[i].date] # locked.dates,
           "daily_dates_mismatch", "proposal")
      \cup Each({i \in known : p.days[i].weather # DayWeather(in, p.days[i].date)},
                "daily_weather_mismatch", "proposal")
      \cup Each({i \in known : Risks(i) \cap Adjustable # {} /\ ~p.days[i].adjusted},
                "weather_adjustment_missing", "proposal")
      \cup Each({i \in known : Risks(i) \cap Rain # {} /\ AllOutdoor(p.days[i].activities)},
                "rain_day_all_outdoor", "proposal")
      \cup Each({x \in Planned(p) : x[1] \in 1 .. in.days /\ x[2].type \in Knowledge
                                  /\ x[2].refs \cap ChunksOf(in, "guides") = {}},
                "knowledge_activity_missing_guide", "proposal")

SourceIssues(in, p) ==
  LET listed == {s.chunk : s \in p.sources}
      used   == CollectRefs(p)
  IN  When(~(used \subseteq EvidenceIds(in)), "unknown_evidence_ref", "proposal")
      \cup When(Cardinality(listed) # Cardinality(p.sources), "duplicate_source_ref",
                "proposal")
      \cup When(listed # used, "source_catalog_mismatch", "proposal")
      \cup Each({s \in p.sources : s.chunk \in EvidenceIds(in)
                  /\ s \notin {[chunk |-> e.chunk, category |-> e.category, hotel |-> e.hotel,
                                quality |-> e.quality] : e \in in.pool}},
                "source_metadata_mismatch", "proposal")

UseIssues(in, p) ==
  LET reviews == {e.chunk : e \in {e \in OfCategory(in.pool, "hotel_reviews") :
                                     e.hotel = p.locked.selected.hotel.id}}
      safety  == ChunksOf(in, "safety_notices")
      packing == ChunksOf(in, "packing_checklists")
      risky   == p.locked.weather.risks # {}
  IN  When(reviews # {} /\ p.hotel = <<>>, "hotel_context_not_generated", "proposal")
      \cup When(reviews # {} /\ (NoteRefs(p.hotel) = {} \/ ~(NoteRefs(p.hotel) \subseteq reviews)),
                "hotel_context_evidence_invalid", "proposal")
      \cup When(reviews = {} /\ p.hotel # <<>>, "hotel_context_without_evidence", "proposal")
      \cup When(risky /\ p.safety = <<>>, "safety_notes_missing", "proposal")
      \cup When(risky /\ safety # {} /\ NoteRefs(p.safety) \cap safety = {},
                "safety_evidence_not_used", "proposal")
      \cup When(packing # {} /\ NoteRefs(p.packing) \cap packing = {},
                "packing_evidence_not_used", "proposal")

ToolIssues(in, p) ==
  LET placed == {x \in Planned(p) : x[2].tool # None}
      known  == {x \in placed : x[2].tool \in DOMAIN in.activities}
      Fact(x) == in.activities[x[2].tool]
  IN  Each(placed \ known, "unknown_tool_activity_id", "proposal")
      \cup Each({x \in known : x[1] \notin Fact(x).dates}, "tool_activity_date_mismatch", "proposal")
      \cup Each({x \in known : x[2].title # Fact(x).name}, "tool_activity_name_mismatch", "proposal")
      \cup When({s.id : s \in p.activitySources} # UsedTools(p.days),
                "tool_activity_sources_mismatch", "proposal")

RequirementIssues(in, p) ==
  When(Cardinality(HandledKeys(p)) # Len(p.handled), "duplicate_requirement_key", "proposal")
  \cup When(HandledKeys(p) # Catalog(in), "requirement_catalog_not_covered", "proposal")
  \cup Each({i \in DOMAIN p.handled : ~(p.handled[i].refs \subseteq EvidenceIds(in))},
            "requirement_unknown_evidence_ref", "proposal")

\* Every text is looked through for every kind of claim.
ClaimsOf(claims, place) == {Issue(c[1], "proposal", <<place, c[2]>>) : c \in claims}

\* Mutant of BoundaryIssues: looks at the first day only.
BoundaryIssuesOfFirstDay(p) ==
  ClaimsOf(p.claims, <<>>)
  \cup UNION {ClaimsOf(x[2].claims, x) : x \in {x \in Planned(p) : x[1] = 1}}

BoundaryIssues(p) ==
  ClaimsOf(p.claims, <<>>) \cup UNION {ClaimsOf(x[2].claims, x) : x \in Planned(p)}

IntegrityIssues(p) ==
  When(p.id # Identity(p.locked, p.version, Content(p, p.days, p.activitySources)),
       "proposal_id_mismatch", "proposal")

\* In the order in which they are made.
Checks(in, p, res) ==
  <<ResultIssues(p, res), LineageIssues(in, p), LockedIssues(in, p), BudgetIssues(in, p),
    ItineraryIssues(in, p), SourceIssues(in, p), UseIssues(in, p), ToolIssues(in, p),
    RequirementIssues(in, p), BoundaryIssues(p), IntegrityIssues(p)>>

Issues(in, p, res) ==
  LET checks == Checks(in, p, res) IN UNION {checks[c] : c \in DOMAIN checks}

\* Faults of the selection go back further than the proposal; both loops are bounded.
\* (The loop through budget_optimize is in PlanTripGraph: here it ends the run.)
NextAction(issues) ==
  LET targets == {i.target : i \in issues}
  IN  IF issues = {} THEN "decision_gate"
      ELSE IF "budget_optimize" \in targets THEN "budget_optimize"
      ELSE IF repairs < MaxRepairs THEN "proposal"
      ELSE "final_response"

\* The first of the issues, in the order of the checks and as many as there is room for;
\* which issues of one check come first is left open.
Beginnings(checks, issues) ==
  IF Cardinality(issues) <= MaxIssues THEN {issues}
  ELSE {told \in SUBSET issues :
          /\ Cardinality(told) = MaxIssues
          /\ \A c \in DOMAIN checks : told \cap checks[c] # {} =>
               \A earlier \in 1 .. c - 1 : issues \cap checks[earlier] \subseteq told}

\* What the model may be told.
RepairFeedback(checks, next) ==
  IF next # "proposal" THEN {{}}
  ELSE Beginnings(checks, {i \in UNION {checks[c] : c \in DOMAIN checks} : i.target = next})
-----------------------------------------------------------------------------
Init ==
  /\ input \in Inputs
  /\ shown = EvidenceContext(input)
  /\ phase = "proposal" /\ attempt = 0 /\ repairs = 0
  /\ proposal = NoProposal /\ result = NoResult /\ feedback = {}

\* One answer of the model passes; proposal_node clears the feedback it has used.
Generate(d) ==
  /\ phase = "proposal" /\ attempt < MaxAttempts
  /\ SchemaValid(d) /\ DraftValid(input, Normalise(d))
  /\ proposal' = Assemble(input, Resolve(Normalise(d)))
  /\ result' = GenerationResult(proposal')
  /\ phase' = "verifier" /\ attempt' = 0 /\ feedback' = {}
  /\ UNCHANGED <<input, shown, repairs>>

\* The last attempt fails as well: no proposal is kept, and the graph gives up.  The
\* feedback stays as it was.
GiveUp ==
  /\ phase' = "final_response" /\ attempt' = 0
  /\ proposal' = NoProposal /\ result' = [status |-> "failed"]
  /\ UNCHANGED <<input, shown, repairs, feedback>>

\* Mutant of TryAgain: the second attempt is not told what the verifier said.
TryAgainForgetting ==
  /\ attempt' = attempt + 1 /\ feedback' = {}
  /\ UNCHANGED <<input, shown, phase, proposal, result, repairs>>

TryAgain ==
  /\ attempt' = attempt + 1
  /\ UNCHANGED <<input, shown, phase, proposal, result, repairs, feedback>>

Fail == IF attempt + 1 = MaxAttempts THEN GiveUp ELSE TryAgain

\* The answer breaks the schema or a rule.
RejectDraft(d) ==
  /\ phase = "proposal" /\ attempt < MaxAttempts
  /\ ~(SchemaValid(d) /\ DraftValid(input, Normalise(d)))
  /\ Fail

\* The model does not answer, or answers with something that is not JSON.
ModelFails ==
  /\ phase = "proposal" /\ attempt < MaxAttempts
  /\ Fail

Verify ==
  /\ phase = "verifier"
  /\ LET issues == Issues(input, proposal, result)
         next   == NextAction(issues)
     IN  /\ phase' = next
         /\ repairs' = IF next = "proposal" THEN repairs + 1 ELSE repairs
         /\ feedback' \in RepairFeedback(Checks(input, proposal, result), next)
  /\ UNCHANGED <<input, shown, attempt, proposal, result>>

Next ==
  \/ \E d \in Drafts(input) : Generate(d) \/ RejectDraft(d)
  \/ ModelFails
  \/ Verify

Spec == Init /\ [][Next]_vars
-----------------------------------------------------------------------------
(* Properties. *)

NodeName == {"proposal", "verifier", "decision_gate", "budget_optimize", "final_response"}

TypeOK ==
  /\ input \in Inputs /\ phase \in NodeName
  /\ attempt \in 0 .. MaxAttempts - 1 /\ repairs \in 0 .. MaxRepairs
  /\ proposal = NoProposal \/ proposal.version = input.version
  /\ result.status \in {None, "generated", "failed"}

IssueTypes == {i.type : i \in Issues(input, proposal, result)}

\* What the verifier may find fault with although the generator has accepted the draft:
\* claims of bookings, which only the verifier looks for; tool ids on activities that are
\* not about knowledge, which the generator skips; and activities that only a tool
\* supports.  Everything else the two check alike, although one sees the short names of
\* a part of the evidence and the other the ids of all of it, and one builds the facts,
\* sources and the identity that the other recomputes.
CheckersAgree ==
  phase = "verifier" =>
    /\ IssueTypes \subseteq ClaimType \cup
         {"knowledge_activity_missing_guide",
          "unknown_tool_activity_id", "tool_activity_date_mismatch",
          "tool_activity_name_mismatch", "tool_activity_sources_mismatch"}
    /\ ~(IssueTypes \subseteq ClaimType \cup {"knowledge_activity_missing_guide"})
         => \E a \in Activities(proposal) : a.type \notin Knowledge /\ a.tool # None
    /\ "knowledge_activity_missing_guide" \in IssueTypes
         => \E a \in Activities(proposal) : a.type \in Knowledge
                                          /\ a.tool \in DOMAIN input.activities

\* The evidence is cut to MaxItems for the prompt; what the verifier will demand from the
\* whole pool (reviews of the hotel, safety notices, packing lists, guides) the model has
\* at least one item of.
PromptServesVerifier ==
  /\ Cardinality(Aliases) <= MaxItems
  /\ \A e \in input.pool :
       e.category # "hotel_reviews" \/ e.hotel = input.selection.hotel.id
         => AliasesOf(e.category) # {}

\* The prompt is complete for what comes after it, and the variables keep their types.
PromptIsComplete == TypeOK /\ PromptServesVerifier

\* What the traveller is asked to decide on: a plan for every day of the trip in order,
\* without a claim of a booking, in which every activity about the place rests on a guide,
\* every tool activity is on a day it takes place, the remarks on the hotel come from
\* reviews of that hotel, and every wish is answered once.
AcceptedIsGrounded ==
  phase = "decision_gate" =>
    LET cited(category) == {s.chunk : s \in {s \in proposal.sources : s.category = category}}
    IN  /\ Len(proposal.days) = input.days /\ proposal.claims = {}
        /\ \A i \in DOMAIN proposal.days :
             /\ proposal.days[i].date = i
             /\ \A a \in proposal.days[i].activities :
                  /\ a.claims = {}
                  /\ a.type \in Knowledge => a.refs \cap cited("guides") # {}
                  /\ a.tool # None => /\ a.tool \in DOMAIN input.activities
                                     /\ i \in input.activities[a.tool].dates
        /\ NoteRefs(proposal.hotel) \subseteq cited("hotel_reviews")
        /\ \A s \in proposal.sources : s.category = "hotel_reviews"
                                       => s.hotel = input.selection.hotel.id
        /\ {h.key : h \in {proposal.handled[i] : i \in DOMAIN proposal.handled}} = Catalog(input)

\* In a round of repair the model is told what is wrong with the proposal it is to
\* replace, also in the second attempt of the round: all of it, if the message has room,
\* and otherwise as many issues as it has room for; nothing that is not wrong with this
\* proposal, and nothing while something an earlier check has found is left out.
FeedbackIsCurrent ==
  phase = "proposal" =>
    LET checks == Checks(input, proposal, result)
        wrong  == Issues(input, proposal, result)
    IN  IF repairs = 0 THEN feedback = {}
        ELSE /\ feedback \subseteq wrong /\ feedback # {}
             /\ IF Cardinality(wrong) <= MaxIssues THEN feedback = wrong
                ELSE Cardinality(feedback) = MaxIssues
             /\ \A c \in DOMAIN checks : feedback \cap checks[c] # {} =>
                  \A earlier \in 1 .. c - 1 : checks[earlier] \subseteq feedback

\* Attempts left in the node that runs.
Rank == CASE phase = "proposal" -> 1 + MaxAttempts - attempt
          [] phase = "verifier" -> 1
          [] OTHER -> 0

\* Whatever the model answers, the run comes nearer to its end with every step: a repair
\* is used up, or an attempt within the same round, or the next node is reached; nothing
\* gives back what was used up.
RunsShorten ==
  [][\/ repairs' = repairs + 1 /\ repairs' <= MaxRepairs
     \/ repairs' = repairs /\ Rank' < Rank]_vars

\* What tests/test_proposals/test_proposal_generator.py:945 says: a stable id of the
\* activity tool supports a concrete activity on its own.
ToolSupportsActivity ==
  phase = "verifier" => "knowledge_activity_missing_guide" \notin IssueTypes
=============================================================================
