---------------------------- MODULE TripSelection ----------------------------
(***************************************************************************)
(* How flights and a hotel are chosen: the plan made of the budget         *)
(* (builders/planning_context_builder.py), the query of the mock data      *)
(* (providers/), the filters and scores (ranking/candidate_ranker.py), the *)
(* combination within the budget (optimization/budget_optimizer.py), and   *)
(* the traveller who follows the advice to raise the budget and asks again.*)
(*                                                                         *)
(* Amounts are in cents, times in minutes, scores, weights and ratios in   *)
(* thousandths rounded down; names and ids are numbers.                    *)
(***************************************************************************)
EXTENDS Integers, Sequences, FiniteSets, FiniteSetsExt, Ordering, BudgetCheck

CONSTANTS
  Requests,       \* trip requests the intake may hand over
  Catalogue,      \* the flights and hotels of the mock data for the cities and dates
  MaxCandidates,  \* max_outbound_candidates = max_return_candidates = max_hotel_candidates
  MaxAlternatives,
  MaxFollowed     \* how often the traveller follows the advice

ASSUME BoundsAreNumbers ==
  MaxCandidates \in Nat \ {0} /\ MaxAlternatives \in Nat /\ MaxFollowed \in Nat

Scale == 1000

\* What the schema and the validator of the request let through.
ValidLimits(limits) ==
  /\ IsFiniteSet(limits)
  /\ \A limit \in limits : limit.field = "price" => limit.operator = "<=" /\ limit.value \in Nat
ValidWeights(weights, wishes) == \A k \in wishes : weights[k] \in 0 .. Scale
ValidSpend(spend) == Len(spend) \in Nat /\ \A i \in 1 .. Len(spend) : spend[i].signed \in -Scale .. Scale
ValidRequest(r) ==
  /\ r \in [total : Nat \cup {NoAmount}, people : Nat \ {0}, rooms : Nat, nights : Nat,
            flightLimits : {r.flightLimits}, hotelLimits : {r.hotelLimits},
            namedFlights : {r.namedFlights}, namedHotels : {r.namedHotels},
            flightWeights : {r.flightWeights}, hotelWeights : {r.hotelWeights},
            spend : {r.spend}, savedHotelPrice : Nat \cup {NoAmount}]
  /\ ValidLimits(r.flightLimits)
  /\ ValidWeights(r.flightWeights,
                  {"avoid_early_flight", "avoid_late_arrival", "prefer_direct", "price_sensitive"})
  /\ ValidWeights(r.hotelWeights,
                  {"quiet", "cleanliness", "near_subway", "high_rating", "budget_friendly"})
  /\ ValidSpend(r.spend)

ASSUME RequestsAreValid == \A r \in Requests : ValidRequest(r)

\* The offers of a group have numbers of their own.
ASSUME CatalogueIsIndexed ==
  /\ \A g \in {"outbound", "return", "hotel"} :
       /\ IsFiniteSet(Catalogue[g])
       /\ \A o \in Catalogue[g] : o.id \in Int
       /\ \A o, p \in Catalogue[g] : o.id = p.id => o = p
  /\ \A g \in {"outbound", "return"} : \A f \in Catalogue[g] :
       /\ {f.price, f.depart_time, f.arrive_time} \subseteq Int
       /\ {f.is_direct, f.refundable, f.changeable} \subseteq {0, 1}
  /\ \A h \in Catalogue.hotel :
       /\ h.price_per_night \in Int /\ h.near_subway \in {0, 1}
       /\ {h.rating, h.quiet, h.cleanliness} \subseteq 0 .. Scale

VARIABLES
  request,   \* state["trip_request"]
  plan,      \* planning_context["budget_plan"]
  offers,    \* raw_flight_results, raw_hotel_results
  ranked,    \* flight_candidates by direction, hotel_candidates
  outcome,   \* selection_result, budget_result and adjustment_plan
  phase,     \* the node that runs next
  followed   \* how often the traveller has raised the budget as advised

vars == <<request, plan, offers, ranked, outcome, phase, followed>>

Legs == {"outbound", "return"}
Groups == Legs \cup {"hotel"}
NoTime == -1
NoName == -1
NoPlan == [mode |-> "none"]
NoOffers == [g \in Groups |-> {}]
NoCandidates == [g \in Groups |-> <<>>]
NoOutcome == [status |-> "none"]

\* round(a / b) for b > 0, and the floor of it that scores are kept in.
Rounded(a, b) == (2 * a + b) \div (2 * b)
Least(a, b) == IF a < b THEN a ELSE b
Most(a, b) == IF a > b THEN a ELSE b
Clamp(x, low, high) == Most(low, Least(x, high))
Clamp01(x) == Clamp(x, 0, Scale)

\* _weighted_sum of three parts with the weights of _normalize_weights.
Weighted(parts, weights) ==
  Clamp01((weights[1] * parts[1] + weights[2] * parts[2] + weights[3] * parts[3])
            \div (weights[1] + weights[2] + weights[3]))
-----------------------------------------------------------------------------
(* The budget plan. *)

SpendCategory == {"transport", "hotel", "food_activity"}
BaseRatio == [transport |-> 350, hotel |-> 350, food_activity |-> 300]
MaxSpendAdjustment == 350

\* Wishes to spend more or less add up to at most one in either direction, in their order.
NetSignal(spend, category) ==
  LET net[i \in 0 .. Len(spend)] ==
        IF i = 0 THEN 0
        ELSE IF spend[i].category = category
        THEN Clamp(net[i - 1] + spend[i].signed, -Scale, Scale) ELSE net[i - 1]
  IN  net[Len(spend)]

\* What rounding leaves over goes to food and activities.
AdjustedRatios(spend) ==
  LET Raw(c) == BaseRatio[c] * (Scale + (MaxSpendAdjustment * NetSignal(spend, c)) \div Scale)
      total  == Raw("transport") + Raw("hotel") + Raw("food_activity")
      Ratio(c) == Rounded(Scale * Raw(c), total)
      rest   == Scale - (Ratio("transport") + Ratio("hotel") + Ratio("food_activity"))
  IN  [transport |-> Ratio("transport"), hotel |-> Ratio("hotel"),
       food_activity |-> Ratio("food_activity") + rest]

\* _find_constraint_value: the strictest of the upper bounds on a field.
UpperBound(limits, field) ==
  LET values == {c.value : c \in {c \in limits : c.field = field /\ c.operator \in {"<=", "<"}}}
  IN  IF values = {} THEN NoAmount ELSE Min(values)

\* The price per room and night: the share of the budget, or the remembered price if less.
HotelPriceTarget(req, budget) ==
  LET roomNights == req.rooms * req.nights
      values == {req.savedHotelPrice}
                \cup IF roomNights > 0 /\ budget # NoAmount
                     THEN {Rounded(budget, roomNights)} ELSE {}
  IN  IF values = {NoAmount} THEN NoAmount ELSE Min(values \ {NoAmount})

\* A limit on the price of a flight becomes a limit on all tickets of the trip as well.
BudgetPlan(req) ==
  LET ratios == AdjustedRatios(req.spend)
      Share(c) == IF req.total = NoAmount THEN NoAmount ELSE Rounded(req.total * ratios[c], Scale)
  IN  [mode    |-> IF req.total = NoAmount THEN "no_budget_limit" ELSE "budget_limited",
       total   |-> req.total,
       maxTransport |-> UpperBound(req.flightLimits, "price"),
       ratios  |-> ratios,
       targets |-> [transport |-> Share("transport"), hotel |-> Share("hotel"),
                    food_activity |-> Share("food_activity")],
       hotelPrice |-> HotelPriceTarget(req, Share("hotel"))]
-----------------------------------------------------------------------------
(* The query. *)

AvailableFlights(flights, people) == {f \in flights : f.seats >= people /\ f.price >= 0}
AvailableHotels(hotels) == {h \in hotels : h.rooms > 0 /\ h.price_per_night >= 0}
-----------------------------------------------------------------------------
(* The filters of the ranking. *)

\* A time of the form HH:MM has no date: half past midnight is before ten in the evening.
ConstraintMatches(candidate, limit) ==
  LET actual == candidate[limit.field]
  IN  /\ actual # NoTime
      /\ CASE limit.operator = "<=" -> actual <= limit.value
           [] limit.operator = "<"  -> actual < limit.value
           [] limit.operator = ">=" -> actual >= limit.value
           [] limit.operator = ">"  -> actual > limit.value
           [] limit.operator = "==" -> actual = limit.value

PassesHard(candidate, limits) == \A limit \in limits : ConstraintMatches(candidate, limit)

NamesIn(named, mode) == {n.name : n \in {n \in named : n.mode = mode}} \ {NoName}

\* candidate.names is _candidate_names: the id, the number or the name.
PassesNamed(candidate, named) ==
  /\ NamesIn(named, "required") # {} => candidate.names \cap NamesIn(named, "required") # {}
  /\ candidate.names \cap NamesIn(named, "avoid") = {}

PassingFlights(req, flights) ==
  {f \in flights : PassesHard(f, req.flightLimits) /\ PassesNamed(f, req.namedFlights)}
PassingHotels(req, hotels) ==
  {h \in hotels : /\ h.rooms >= req.rooms
                  /\ PassesHard(h, req.hotelLimits) /\ PassesNamed(h, req.namedHotels)}
-----------------------------------------------------------------------------
(* The scores of the ranking. *)

LinearFit(value, bad, good) == Clamp01((Scale * (value - bad)) \div (good - bad))

EarlyDepartureFit(time) == IF time = NoTime THEN Scale \div 2 ELSE LinearFit(time, 360, 540)

\* Until four in the morning it is the next day.
LateArrivalFit(time) ==
  IF time = NoTime THEN Scale \div 2
  ELSE LinearFit(-(IF time <= 240 THEN time + 1440 ELSE time), -1440, -1200)

FlexibilityFit(f) == (Scale * (f.refundable + f.changeable)) \div 2

\* A preferred name has full weight, for whoever bears it and for the others.
NamedPreference(candidate, named) ==
  LET preferred == NamesIn(named, "preferred")
  IN  [weight |-> IF preferred = {} THEN 0 ELSE Scale,
       score  |-> IF candidate.names \cap preferred = {} THEN 0 ELSE Scale]

\* The mean of three features by the weight the traveller gives them, and of the name;
\* neutral without any weight.
PreferenceMatch(features, weights, name) ==
  LET total == weights[1] + weights[2] + weights[3] + name.weight
      sum   == weights[1] * features[1] + weights[2] * features[2] + weights[3] * features[3]
               + name.weight * name.score
  IN  IF total = 0 THEN Scale \div 2 ELSE Clamp01(sum \div total)

\* 1 / (1 + 2 * overrun / target), or relative to the other offers, or neutral.
PriceFit(price, target, range, sensitive) ==
  CASE target = 0 -> IF price = 0 THEN Scale ELSE 0
    [] target > 0 -> IF price <= target THEN Scale
                     ELSE Clamp01((Scale * target) \div (target + 2 * (price - target)))
    [] target = NoAmount /\ sensitive /\ range # <<>> ->
         IF range[2] <= range[1] THEN Scale
         ELSE Clamp01((Scale * (range[2] - price)) \div (range[2] - range[1]))
    [] OTHER -> Scale \div 2

PriceRange(prices) == IF prices = {} THEN <<>> ELSE <<Min(prices), Max(prices)>>
ScaleRange(range, multiplier) == [i \in DOMAIN range |-> range[i] * multiplier]

\* Half of the transport budget is meant for a leg: both sides are doubled.  The range is
\* that of all offers, also of those a filter takes away.
ScoreFlight(req, target, offered, f) ==
  LET weights == req.flightWeights
      total   == f.price * req.people
      range   == ScaleRange(PriceRange({o.price : o \in offered}), 2 * req.people)
      score   == Weighted(
        <<PreferenceMatch(
            <<EarlyDepartureFit(f.depart_time), LateArrivalFit(f.arrive_time), Scale * f.is_direct>>,
            <<weights.avoid_early_flight, weights.avoid_late_arrival, weights.prefer_direct>>,
            NamedPreference(f, req.namedFlights)),
          PriceFit(2 * total, target, range, weights.price_sensitive > 0),
          FlexibilityFit(f)>>,
        <<500, 350 + (150 * weights.price_sensitive) \div Scale, 150>>)
  IN  [id |-> f.id, cost |-> total, score |-> score,
       key |-> <<-score, total, IF f.depart_time = NoTime THEN 1000000000 ELSE f.depart_time, f.id>>]

ScoreHotel(req, target, offered, h) ==
  LET weights == req.hotelWeights
      range   == PriceRange({o.price_per_night : o \in offered})
      score   == Weighted(
        <<PreferenceMatch(
            <<h.quiet, h.cleanliness, Scale * h.near_subway>>,
            <<weights.quiet, weights.cleanliness, weights.near_subway>>,
            NamedPreference(h, req.namedHotels)),
          PriceFit(h.price_per_night, target, range, weights.budget_friendly > 0),
          h.rating>>,
        <<550, 250 + (100 * weights.budget_friendly) \div Scale,
          200 + (100 * weights.high_rating) \div Scale>>)
  IN  [id |-> h.id, cost |-> h.price_per_night * req.nights * req.rooms, score |-> score,
       key |-> <<-score, h.price_per_night, -h.rating, h.id>>]

\* By score, then by price, time or rating, and id.
RankGroup(req, p, offered, group) ==
  IF group \in Legs
  THEN Sorted({ScoreFlight(req, p.targets.transport, offered, f) :
                 f \in PassingFlights(req, offered)})
  ELSE Sorted({ScoreHotel(req, p.hotelPrice, offered, h) :
                 h \in PassingHotels(req, offered)})

RankStatus(candidates) ==
  IF \A g \in Groups : candidates[g] = <<>> THEN "no_candidates"
  ELSE IF \A g \in Groups : candidates[g] # <<>> THEN "ok" ELSE "partial"
-----------------------------------------------------------------------------
(* The combination. *)

\* _limit_ranked_candidates: the first of every id, and of those the best few.
LimitCandidates(candidates) ==
  LET firsts == {i \in DOMAIN candidates :
                   \A j \in DOMAIN candidates : j < i => candidates[j].id # candidates[i].id}
  IN  {<<i, candidates[i]>> :
         i \in {i \in firsts : Cardinality({j \in firsts : j < i}) < MaxCandidates}}

\* A candidate of the pool is its rank and the candidate.
Pool(candidates) == [g \in Groups |-> LimitCandidates(candidates[g])]

Combinations(pool) ==
  [outbound : pool.outbound, return : pool.return, hotel : pool.hotel]

KnownCosts(c) ==
  LET Cost(g) == c[g][2].cost
  IN  [outbound |-> Cost("outbound"), return |-> Cost("return"), hotel |-> Cost("hotel"),
       transport |-> Cost("outbound") + Cost("return"),
       subtotal |-> Cost("outbound") + Cost("return") + Cost("hotel")]

Subtotal(c) == KnownCosts(c).subtotal
WithinTransport(p, c) == p.maxTransport = NoAmount \/ KnownCosts(c).transport <= p.maxTransport
WithinTotal(p, c) == p.mode = "budget_limited" => Subtotal(c) <= p.total

\* Mutant of Feasible: the limit on transport is forgotten.
FeasibleIgnoringTransport(p, pool) == {c \in Combinations(pool) : WithinTotal(p, c)}

Feasible(p, pool) == {c \in Combinations(pool) : WithinTransport(p, c) /\ WithinTotal(p, c)}

Remaining(p, c) == IF p.total = NoAmount THEN NoAmount ELSE p.total - Subtotal(c)

\* Mutant of Allocation: the target is compared with the whole budget.
AllocationOfTotal(p, c) ==
  LET target == p.targets.food_activity
      remaining == Remaining(p, c)
  IN  IF remaining = NoAmount THEN [food |-> NoAmount, buffer |-> NoAmount, shortfall |-> NoAmount]
      ELSE [food |-> Least(remaining, target), buffer |-> remaining - Least(remaining, target),
            shortfall |-> Most(target - p.total, 0)]

\* _build_remaining_budget_allocation: food and activities first, the rest is a buffer.
Allocation(p, c) ==
  LET target == p.targets.food_activity
      remaining == Remaining(p, c)
      food == Least(Most(remaining, 0), target)
  IN  IF remaining = NoAmount
      THEN [food |-> NoAmount, buffer |-> NoAmount, shortfall |-> NoAmount]
      ELSE [food |-> food, buffer |-> Most(remaining, 0) - food,
            shortfall |-> Most(target - food, 0)]

ReserveFit(p, c) ==
  LET target == p.targets.food_activity
  IN  IF target <= 0 THEN Scale ELSE Clamp01((Scale * Remaining(p, c)) \div target)

TransportQuality(c) == (c.outbound[2].score + c.return[2].score) \div 2

\* Mutant of CombinationScore: what is left over counts against a combination.
CombinationScoreSpending(p, c) ==
  Weighted(<<TransportQuality(c), c.hotel[2].score,
             IF p.mode = "budget_limited" THEN Scale - ReserveFit(p, c) ELSE 0>>,
           <<p.ratios.transport, p.ratios.hotel,
             IF p.mode = "budget_limited" THEN p.ratios.food_activity ELSE 0>>)

\* The ratios of the plan are the weights; without a budget only those of the first two.
CombinationScore(p, c) ==
  Weighted(<<TransportQuality(c), c.hotel[2].score,
             IF p.mode = "budget_limited" THEN ReserveFit(p, c) ELSE 0>>,
           <<p.ratios.transport, p.ratios.hotel,
             IF p.mode = "budget_limited" THEN p.ratios.food_activity ELSE 0>>)

\* Score, cost, sum of the ranks, ids.
ByUtility(p, feasible) ==
  Sorted({[key |-> <<-CombinationScore(p, c), Subtotal(c),
                     c.outbound[1] + c.return[1] + c.hotel[1],
                     c.outbound[2].id, c.return[2].id, c.hotel[2].id>>,
           combination |-> c] : c \in feasible})

Selection(p, feasible) ==
  LET options == ByUtility(p, feasible)
      best    == options[1].combination
  IN  [status |-> "feasible", selected |-> best,
       alternatives |-> [i \in 1 .. Least(Len(options) - 1, MaxAlternatives) |->
                           options[i + 1].combination],
       budget |-> [mode |-> p.mode, total |-> p.total, costs |-> KnownCosts(best),
                   remaining |-> Remaining(p, best), food |-> Allocation(p, best).food,
                   buffer |-> Allocation(p, best).buffer],
       shortfall |-> Allocation(p, best).shortfall]

\* Mutant of NoFeasible: the cheapest combination is looked for among all of them.
NoFeasibleOfAll(p, combinations) ==
  LET minimum == Min({Subtotal(c) : c \in combinations})
  IN  [status |-> "no_feasible_combination",
       reason |-> "all_combinations_over_total_budget", minimum |-> minimum,
       increase |-> IF p.total = NoAmount THEN NoAmount ELSE Most(minimum - p.total, 0)]

\* Raising the budget is advised only if the limit on transport leaves a combination.
NoFeasible(p, combinations) ==
  LET valid    == {c \in combinations : WithinTransport(p, c)}
      cheapest == IF valid = {} THEN combinations ELSE valid
      minimum  == Min({Subtotal(c) : c \in cheapest})
      increase == IF p.total = NoAmount \/ valid = {} THEN NoAmount
                  ELSE Most(minimum - p.total, 0)
  IN  [status |-> "no_feasible_combination",
       reason |-> CASE valid = {}   -> "transport_limit_blocks_all"
                    [] increase > 0 -> "all_combinations_over_total_budget"
                    [] OTHER        -> "no_feasible_combination",
       minimum |-> minimum, increase |-> increase]

Optimized(p, candidates) ==
  LET pool == Pool(candidates)
      feasible == Feasible(p, pool)
  IN  IF feasible = {} THEN NoFeasible(p, Combinations(pool)) ELSE Selection(p, feasible)
-----------------------------------------------------------------------------
(* Steps. *)

Init ==
  /\ request \in Requests /\ plan = NoPlan /\ offers = NoOffers /\ ranked = NoCandidates
  /\ outcome = NoOutcome /\ phase = "planning_context" /\ followed = 0

PlanContext ==
  /\ phase = "planning_context" /\ phase' = "tool_execute"
  /\ plan' = BudgetPlan(request)
  /\ UNCHANGED <<request, offers, ranked, outcome, followed>>

Query ==
  /\ phase = "tool_execute" /\ phase' = "candidate_rank"
  /\ offers' = [g \in Groups |-> IF g = "hotel" THEN AvailableHotels(Catalogue[g])
                                 ELSE AvailableFlights(Catalogue[g], request.people)]
  /\ UNCHANGED <<request, plan, ranked, outcome, followed>>

\* Without a candidate in every group the graph answers right away.
CandidateRank ==
  /\ phase = "candidate_rank"
  /\ ranked' = [g \in Groups |-> RankGroup(request, plan, offers[g], g)]
  /\ phase' = IF RankStatus(ranked') = "ok" THEN "budget_optimize" ELSE "final_response"
  /\ UNCHANGED <<request, plan, offers, outcome, followed>>

BudgetOptimize ==
  /\ phase = "budget_optimize"
  /\ outcome' = Optimized(plan, ranked)
  /\ phase' = IF outcome'.status = "feasible" THEN "retrieval_plan" ELSE "final_response"
  /\ UNCHANGED <<request, plan, offers, ranked, followed>>

\* The system never raises a budget itself; the traveller may, by what was advised.
FollowAdvice ==
  /\ phase = "final_response" /\ followed < MaxFollowed
  /\ outcome.status = "no_feasible_combination" /\ outcome.increase > 0
  /\ request' = [request EXCEPT !.total = @ + outcome.increase]
  /\ followed' = followed + 1 /\ phase' = "planning_context"
  /\ plan' = NoPlan /\ offers' = NoOffers /\ ranked' = NoCandidates /\ outcome' = NoOutcome

Next == PlanContext \/ Query \/ CandidateRank \/ BudgetOptimize \/ FollowAdvice

Spec == Init /\ [][Next]_vars
-----------------------------------------------------------------------------
(* Properties. *)

Node == {"planning_context", "tool_execute", "candidate_rank", "budget_optimize",
         "retrieval_plan", "final_response"}

TypeOK ==
  /\ request \in {[r EXCEPT !.total = request.total] : r \in Requests}
  /\ phase \in Node /\ followed \in 0 .. MaxFollowed
  /\ \A g \in Groups : /\ offers[g] \subseteq Catalogue[g]
                       /\ \A i \in DOMAIN ranked[g] : ranked[g][i].score \in 0 .. Scale
  /\ outcome.status \in {"none", "feasible", "no_feasible_combination"}

Selected == phase = "retrieval_plan"
Truncated == \E g \in Groups : Len(ranked[g]) > MaxCandidates

\* What the optimiser selects passes the arithmetic the verifier does over again, and
\* keeps what the traveller has asked for: the total, the limit on a ticket for both legs,
\* and the number of rooms.
SelectionPassesVerifier ==
  Selected =>
    LET best == outcome.selected
    IN  /\ BudgetProblems(outcome.budget, [g \in Groups |-> [price |-> best[g][2].cost]],
                          outcome.budget) = {}
        /\ request.total # NoAmount => Subtotal(best) <= request.total
        /\ \A limit \in request.flightLimits :
             limit.field = "price" => KnownCosts(best).transport <= limit.value

\* The shortfall of food and activities is nothing exactly when the target still fits
\* beside the tickets and the hotel, and what is there is given out once.
ReserveIsExact ==
  Selected /\ request.total # NoAmount =>
    LET target == plan.targets.food_activity
        cost   == Subtotal(outcome.selected)
    IN  /\ outcome.shortfall = 0 <=> cost + target <= request.total
        /\ outcome.budget.buffer > 0 => outcome.shortfall = 0
        /\ outcome.budget.food + outcome.shortfall = target

\* The three targets share the budget: rounding neither invents nor loses more than a cent
\* or two, and leaves none of them negative.
TargetsShareTheBudget ==
  plan.mode = "budget_limited" =>
    LET sum == plan.targets.transport + plan.targets.hotel + plan.targets.food_activity
    IN  /\ sum - plan.total \in -2 .. 2
        /\ \A c \in SpendCategory : plan.targets[c] >= 0

\* No cent of the budget is lost or counted twice, from the ratios of the plan to the
\* shortfall of the reserve, and every part has its type.
BudgetAddsUp == TypeOK /\ ReserveIsExact /\ TargetsShareTheBudget

\* No combination is passed over that is as good in every part and costs less.
NothingBetterIsCheaper ==
  Selected =>
    \A c \in Feasible(plan, Pool(ranked)) :
      (\A g \in Groups : c[g][2].score >= outcome.selected[g][2].score)
        => Subtotal(c) >= Subtotal(outcome.selected)

\* Of two flights of a leg the one that is better in every respect the traveller can have
\* a wish about, and cheaper, is ranked first, whatever the wishes are.
BetterFlightRanksFirst ==
  \A leg \in Legs : \A i, j \in DOMAIN ranked[leg] :
    LET At(k) == CHOOSE f \in offers[leg] : f.id = ranked[leg][k].id
        a == At(i)
        b == At(j)
    IN  /\ a.price < b.price /\ a.is_direct >= b.is_direct
        /\ a.refundable >= b.refundable /\ a.changeable >= b.changeable
        /\ EarlyDepartureFit(a.depart_time) >= EarlyDepartureFit(b.depart_time)
        /\ LateArrivalFit(a.arrive_time) >= LateArrivalFit(b.arrive_time)
        /\ b.names \cap NamesIn(request.namedFlights, "preferred") = {}
        => i < j

\* What is better in every respect and no dearer is preferred, among flights and among
\* combinations.
BetterIsPreferred == BetterFlightRanksFirst /\ NothingBetterIsCheaper

\* The advice is exact as long as every candidate takes part: nothing that the filters
\* leave costs less than the advised budget, and a traveller who follows the advice gets
\* a selection in the next run, although the targets and so the ranks change.
AdviceIsExact ==
  phase = "final_response" /\ ranked # NoCandidates /\ RankStatus(ranked) = "ok" /\ ~Truncated =>
    /\ followed = 0
    /\ outcome.increase # NoAmount =>
         \A o \in PassingFlights(request, offers.outbound),
            r \in PassingFlights(request, offers.return),
            h \in PassingHotels(request, offers.hotel) :
           LET tickets == (o.price + r.price) * request.people
           IN  plan.maxTransport = NoAmount \/ tickets <= plan.maxTransport
               => tickets + h.price_per_night * request.nights * request.rooms
                    >= request.total + outcome.increase

\* What the optimiser says of itself (budget_optimizer.py:776): to raise the total budget
\* by the difference is an advice that can be carried out.
AdviceIsEnough ==
  phase = "final_response" => followed = 0
=============================================================================
