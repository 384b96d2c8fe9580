----------------------------- MODULE TripRevision -----------------------------
(***************************************************************************)
(* The request of a trip, from the message to a proposal and through the   *)
(* revisions of it: input_extract (the model's draft, or the rules when it *)
(* fails), missing_info_check, and after request_changes revision_analyze  *)
(* (a patch by the model, with retries, or by rules) and apply_revision.   *)
(*                                                                         *)
(* Dates are days of a calendar; amounts of money and relative changes are *)
(* counted in parts of a unit (Parts), so that half a day can be asked     *)
(* for; cities, hotels and texts are names.  origin is left out: it is     *)
(* set, changed and asked for as destination is.  The nodes between the    *)
(* check and the gate are PlanTripGraph's, here one step that makes a      *)
(* proposal or none.                                                       *)
(***************************************************************************)
EXTENDS Integers, Sequences, SequencesExt

CONSTANTS
  Drafts,        \* what the model may make of a message
  Texts,         \* what the rules may find in a message
  Patches,       \* what the model may make of a change request
  RulePatches,   \* what the rules may find in a change request
  MaxAttempts,   \* revision_max_attempts
  MaxDays, MaxPeople,
  Parts,         \* the parts of a unit in which amounts and relative changes are counted
  MaxVersion,    \* bound: no change is asked for after this version
  HotelsOf,      \* the hotels of each supported destination
  HardOperators, \* SUPPORTED_HARD_CONSTRAINTS
  Subjective     \* SUBJECTIVE_HARD_FIELDS

ASSUME RevisionAssumption ==
  /\ MaxAttempts \in Nat \ {0} /\ MaxDays \in Nat \ {0} /\ MaxPeople \in Nat \ {0}
  /\ MaxVersion \in Nat \ {0} /\ Parts \in Nat \ {0}

VARIABLES
  phase,     \* the node to run next
  request,   \* trip_request
  version,   \* version of the last proposal
  attempt,   \* failed attempts of the model in this analysis
  plan,      \* revision_plan; base is what its hash was taken from
  report,    \* revision_result
  roomsSaid  \* history: the number of rooms comes from the traveller

vars == <<phase, request, version, attempt, plan, report, roomsSaid>>

None == -99
NoCity == "none"
Fields == {"destination", "start", "end", "days", "budget", "people", "rooms"}
Collections == {"preference_signals", "spend_preferences", "hard_constraints",
                "named_constraints"}
NoItems == [c \in Collections |-> <<>>]

\* What input_extract leaves behind when both extractors fail.
NoRequest ==
  [destination |-> NoCity, start |-> None, end |-> None, days |-> None, budget |-> None,
   people |-> 1, rooms |-> None, preference_signals |-> <<>>, spend_preferences |-> <<>>,
   hard_constraints |-> <<>>, named_constraints |-> <<>>, unmapped |-> {}, issues |-> {}]
NoPatch == [ops |-> {}, removals |-> [c \in Collections |-> {}], upserts |-> NoItems,
            unmapped |-> {}, issues |-> {}]
NoPlan == [status |-> "none", base |-> NoRequest, version |-> 0, patch |-> NoPatch]
NoReport == [status |-> "none", changed |-> {}]

\* The schemas of what comes from outside: numbers where numbers belong.  A relative change
\* need not be whole, of days neither.
IsList(items) == items \in Seq(ToSet(items))
IsRequest(r) ==
  /\ DOMAIN r = DOMAIN NoRequest
  /\ \A f \in Fields \ {"destination"} : r[f] \in Int
  /\ \A c \in Collections : IsList(r[c])
IsText(t) ==
  /\ IsRequest(t.found) /\ (t.range = <<>> \/ t.range \in Int \X Int)
  /\ {t.departure, t.return, t.single, t.relative} \subseteq Int
IsOperation(op) ==
  /\ op.kind \in {"set", "clear", "increment"} /\ op.field \in Fields
  /\ op.field # "destination" => op.value \in Int
IsPatch(p) == /\ \A op \in p.ops : IsOperation(op)
              /\ \A c \in Collections : IsList(p.upserts[c])

ASSUME InputAssumption ==
  /\ \A d \in Drafts : IsRequest(d)
  /\ \A t \in Texts : IsText(t)
  /\ \A p \in Patches \cup RulePatches : IsPatch(p)
-----------------------------------------------------------------------------
(* Entries under keys. *)

\* The places of items that have the key of place i, and the first places of the keys.
SameKey(items, kept, i) == {j \in kept : items[j].key = items[i].key}
FirstPlaces(items, kept) == {i \in kept : \A j \in SameKey(items, kept, i) : i <= j}

\* The k-th of a finite set of numbers.
NthOf(S, k) == CHOOSE i \in S : Cardinality({j \in S : j < i}) = k - 1

\* A Python dict: one entry per key, at the place of the first item with the key.  Which of
\* the items it is, says chosen.
OnePerKey(items, kept, chosen) ==
  LET places == FirstPlaces(items, kept)
  IN  [k \in 1 .. Cardinality(places) |-> items[chosen[NthOf(places, k)]]]
-----------------------------------------------------------------------------
(* Extraction. *)

LastDay(r) == r.start + r.days - 1

\* Two of start, end and days give the third; three are left as they are.
Completed(r) ==
  LET days  == IF /\ r.days = None /\ r.start # None /\ r.end # None /\ r.end >= r.start
               THEN r.end - r.start + 1 ELSE r.days
      end   == IF r.start # None /\ days # None /\ r.end = None
               THEN r.start + days - 1 ELSE r.end
      start == IF end # None /\ days # None /\ r.start = None
               THEN end - days + 1 ELSE r.start
  IN  [r EXCEPT !.start = start, !.end = end, !.days = days]

\* One traveller unless more are named, and for one traveller one room.
WithDefaults(r) ==
  LET people == IF r.people = None THEN 1 ELSE r.people
  IN  [r EXCEPT !.people = people,
                !.rooms = IF @ = None /\ people = 1 THEN 1 ELSE @]

\* Of the signals with one key the strongest stays, at the place of the first.
Strongest(signals) ==
  LET kept == DOMAIN signals
      Beats(i, j) == signals[i].value > signals[j].value
                     \/ (signals[i].value = signals[j].value /\ i <= j)
  IN  OnePerKey(signals, kept, [i \in kept |-> CHOOSE b \in SameKey(signals, kept, i) :
                                  \A j \in SameKey(signals, kept, i) : Beats(b, j)])

FromDraft(d) == [WithDefaults(Completed(d)) EXCEPT !.preference_signals = Strongest(@)]

\* The first of the patterns that matches: a range, a departure or return, a bare date, a
\* relative one.  A range or a return that ends before it starts keeps only its start.
DatesOf(t) ==
  CASE t.range # <<>> -> IF t.range[2] >= t.range[1] THEN t.range ELSE <<t.range[1], None>>
    [] t.range = <<>> /\ t.departure # None ->
         <<t.departure, IF t.return # None /\ t.return >= t.departure THEN t.return ELSE None>>
    [] t.range = <<>> /\ t.departure = None /\ t.return # None ->
         <<IF t.found.days # None THEN t.return - t.found.days + 1 ELSE None, t.return>>
    [] OTHER -> <<IF t.single # None THEN t.single ELSE t.relative, None>>

FromText(t) ==
  WithDefaults(Completed([t.found EXCEPT !.start = DatesOf(t)[1], !.end = DatesOf(t)[2]]))

\* The limits of the TripRequest schema.
Acceptable(r) ==
  /\ r.days = None \/ r.days \in 1 .. MaxDays
  /\ r.budget = None \/ r.budget >= 0
  /\ r.people \in 1 .. MaxPeople
  /\ r.rooms = None \/ r.rooms \in 1 .. MaxPeople
-----------------------------------------------------------------------------
(* The check of the request. *)

If(condition, name) == IF condition THEN {name} ELSE {}

MissingFields(r) ==
  If(r.destination = NoCity, "destination") \cup If(r.start = None, "start_date")
    \cup If(r.days = None, "days") \cup If(r.people > 1 /\ r.rooms = None, "room_count")

DateIssues(r) ==
  LET dated == r.start # None /\ r.end # None
  IN  If(dated /\ r.end < r.start, "invalid_date_range")
        \cup If(dated /\ r.days # None /\ r.end # LastDay(r), "date_days_mismatch")

\* A subjective field is pointed out but does not stop the request.  An operator stands for
\* the form of the value as well (a time, an amount).
HardIssues(r) ==
  {<<"unsupported", c.key>> : c \in {c \in ToSet(r.hard_constraints) :
     /\ c.key \notin Subjective
     /\ c.key \in DOMAIN HardOperators => c.value.op \notin HardOperators[c.key]}}

HotelNames(r, modes) ==
  {c.key[2] : c \in {c \in ToSet(r.named_constraints) : c.key[1] = "hotel" /\ c.key[3] \in modes}}

SeveralRequired(r) == \E a, b \in HotelNames(r, {"required"}) : a # b

\* A hotel the traveller wants to avoid has to exist as well.
CapabilityIssues(r) ==
  IF r.destination \notin DOMAIN HotelsOf THEN {"unsupported_destination"}
  ELSE If(~(HotelNames(r, {"required", "preferred", "avoid"}) \subseteq HotelsOf[r.destination]),
          "named_hotel_not_found")

BlockingIssues(r) ==
  DateIssues(r) \cup HardIssues(r)
    \cup If(r.rooms # None /\ r.rooms > r.people, "room_count_exceeds_people_count")
    \cup {<<"issue", i.type>> : i \in {i \in r.issues : i.blocking}}
    \cup {<<"unmapped", u.text>> : u \in {u \in r.unmapped : u.blocking}}
    \cup If(SeveralRequired(r), "multiple_required_hotels")

CanContinue(r) == MissingFields(r) = {} /\ BlockingIssues(r) = {} /\ CapabilityIssues(r) = {}
-----------------------------------------------------------------------------
(* The patch. *)

\* The schema: one operation per field, each possible for its field.
OperationValid(op) ==
  CASE op.kind = "clear"     -> TRUE
    [] op.kind = "increment" -> op.field \in {"days", "budget"} /\ op.value # 0
    [] op.kind = "set"       -> CASE op.field \in {"days", "people", "rooms"} -> op.value >= 1
                                  [] op.field = "budget" -> op.value >= 0
                                  [] OTHER -> TRUE

PatchValid(p) ==
  /\ \A op \in p.ops : OperationValid(op)
  /\ \A op, other \in p.ops : op.field = other.field => op = other

\* _validate_revision_patch_against_base: only the model's patches are checked.
HasBase(p, r) == \A op \in p.ops : op.kind = "increment" => r[op.field] # None

HasChanges(p) == p.ops # {} \/ p.removals # NoPatch.removals \/ p.upserts # NoItems
                 \/ p.unmapped # {}
Asks(p) == \E i \in p.issues : i.blocking
AsksAboutText(p) == \E u \in p.unmapped : u.blocking
-----------------------------------------------------------------------------
(* The application of a patch. *)

Touched(p) == {op.field : op \in p.ops}
Cleared(field) == IF field = "destination" THEN NoCity ELSE None

\* Slip: the whole units not above the amount.
WholeBelow(amount) == amount \div Parts

\* int(): the whole units of an amount, without the fraction.
Whole(amount) == IF amount >= 0 THEN amount \div Parts ELSE -((-amount) \div Parts)

NewValue(r, op) ==
  CASE op.kind = "clear" -> Cleared(op.field)
    [] op.kind = "set" -> op.value
    [] op.kind = "increment" /\ op.field = "days" -> r.days + Whole(op.value)
    [] op.kind = "increment" /\ op.field # "days" -> r[op.field] + op.value

OperationFails(r, op) ==
  /\ op.kind = "increment"
  /\ \/ r[op.field] = None
     \/ op.field = "days" /\ NewValue(r, op) < 1
     \/ op.field = "budget" /\ NewValue(r, op) < 0

Operated(r, p) ==
  [f \in DOMAIN r |-> IF f \in Touched(p)
                      THEN NewValue(r, CHOOSE op \in p.ops : op.field = f) ELSE r[f]]

Datable(r) == r.start # None /\ r.days # None

\* A new end before the start, or one that contradicts the new number of days.
DatesClash(r, touched) ==
  /\ Datable(r) /\ "end" \in touched /\ r.end # None
  /\ IF "days" \in touched THEN r.end # LastDay(r) ELSE r.end < r.start

\* Slip: the end is only derived when there is none.
RedatedOnlyMissing(r, touched) ==
  CASE ~Datable(r) -> [r EXCEPT !.end = None]
    [] Datable(r) /\ "end" \notin touched ->
         [r EXCEPT !.end = IF @ = None THEN LastDay(r) ELSE @]
    [] Datable(r) /\ "end" \in touched ->
         IF "days" \in touched \/ r.end = None THEN r
         ELSE [r EXCEPT !.days = r.end - r.start + 1]

\* A new end sets the days, a new start or number of days sets the end, and without start
\* or days there is no end.
Redated(r, touched) ==
  CASE ~Datable(r) -> [r EXCEPT !.end = None]
    [] Datable(r) /\ "end" \notin touched -> [r EXCEPT !.end = LastDay(r)]
    [] Datable(r) /\ "end" \in touched ->
         IF "days" \in touched \/ r.end = None THEN r
         ELSE [r EXCEPT !.days = r.end - r.start + 1]

\* A selector names a whole key, or an entity type only.
Selects(selectors, key) == \E s \in selectors : IsPrefix(s, key)

\* The last item with a key is the one that counts.
ByKey(items, kept) ==
  OnePerKey(items, kept, [i \in kept |-> Max(SameKey(items, kept, i))])

\* Slip: every item of the domain or type goes.
MergedByDomain(items, selectors, upserts) ==
  LET all == items \o upserts
  IN  ByKey(all, {i \in DOMAIN all : i > Len(items) \/ \A s \in selectors : s[1] # all[i].key[1]})

\* Removals first, then what is new.
Merged(items, selectors, upserts) ==
  LET all == items \o upserts
  IN  ByKey(all, {i \in DOMAIN all : i > Len(items) \/ ~Selects(selectors, all[i].key)})

\* Texts that cannot be mapped are added, never removed.
WithTexts(texts, additions) ==
  additions \cup {u \in texts : \A a \in additions : a.text # u.text}

\* The issues are those of this patch.
Revised(r, p) ==
  LET dated == Redated(Operated(r, p), Touched(p))
  IN  [f \in DOMAIN r |->
         CASE f \in Collections -> Merged(r[f], p.removals[f], p.upserts[f])
           [] f = "unmapped"    -> WithTexts(r.unmapped, p.unmapped)
           [] f = "issues"      -> p.issues
           [] f \in Fields      -> dated[f]]

\* Slip: a date that was derived is not reported.
ChangedFieldsSaid(r, p) ==
  Touched(p) \cup {f \in Collections \cup {"unmapped"} : Revised(r, p)[f] # r[f]}

\* changed_fields: what the operations name, and what differs afterwards.
ChangedFields(r, p) ==
  Touched(p) \cup {f \in Collections \cup {"unmapped"} : Revised(r, p)[f] # r[f]}
    \cup {f \in {"end", "days"} : Revised(r, p)[f] # Operated(r, p)[f]}
    \cup If(p.issues # {}, "issues")

\* One of the conditions under which apply_revision_node raises.
Fails(r, p) ==
  \/ \E op \in p.ops : OperationFails(r, op)
  \/ DatesClash(Operated(r, p), Touched(p))
  \/ ~Acceptable(Revised(r, p))
-----------------------------------------------------------------------------
Init ==
  /\ phase = "input_extract" /\ request = NoRequest /\ version = 0 /\ attempt = 0
  /\ plan = NoPlan /\ report = NoReport /\ roomsSaid = FALSE

Extracted(r, said) ==
  /\ phase = "input_extract" /\ phase' = "missing_info_check"
  /\ request' = r /\ roomsSaid' = said
  /\ UNCHANGED <<version, attempt, plan, report>>

\* The model's draft fits the schema.
ExtractByModel(d) == Acceptable(FromDraft(d)) /\ Extracted(FromDraft(d), d.rooms # None)

\* No model is configured, it fails, or its draft does not fit.
ExtractByRules(t) == Acceptable(FromText(t)) /\ Extracted(FromText(t), t.found.rooms # None)

\* The rules fail as well.
ExtractFails == Extracted(NoRequest, FALSE)

MissingInfoCheck ==
  /\ phase = "missing_info_check"
  /\ phase' = IF CanContinue(request) THEN "safety_check" ELSE "clarify"
  /\ UNCHANGED <<request, version, attempt, plan, report, roomsSaid>>

\* From the safety check on: a proposal, or an end without one.
PlanTrip ==
  /\ phase = "safety_check"
  /\ \/ phase' = "decision_gate" /\ version' = version + 1
     \/ phase' = "final_response" /\ version' = version
  /\ UNCHANGED <<request, attempt, plan, report, roomsSaid>>

RequestChanges ==
  /\ phase = "decision_gate" /\ version < MaxVersion
  /\ phase' = "revision_analyze" /\ attempt' = 0
  /\ UNCHANGED <<request, version, plan, report, roomsSaid>>

\* The analysis ends; only a plan that is ready goes on.
Analyzed(status, p) ==
  /\ plan' = [status |-> status, base |-> request, version |-> version, patch |-> p]
  /\ report' = [status |-> "analyzed", changed |-> {}]
  /\ phase' = IF status = "ready" THEN "apply_revision" ELSE "final_response"
  /\ UNCHANGED <<request, version, attempt, roomsSaid>>

Usable(p) == PatchValid(p) /\ HasBase(p, request)
             /\ (HasChanges(p) \/ Asks(p) \/ AsksAboutText(p))

AnalyzeByModel(p) ==
  /\ phase = "revision_analyze" /\ attempt < MaxAttempts
  /\ Usable(p)
  /\ Analyzed(IF Asks(p) \/ AsksAboutText(p) THEN "clarification_required" ELSE "ready", p)

\* The model fails, or its patch is not usable: another attempt is made.
ModelFails ==
  /\ phase = "revision_analyze" /\ attempt < MaxAttempts
  /\ attempt' = attempt + 1
  /\ UNCHANGED <<phase, request, version, plan, report, roomsSaid>>

\* An exception leaves an empty plan.
AnalysisFails ==
  /\ plan' = [NoPlan EXCEPT !.status = "failed"]
  /\ report' = [status |-> "failed", changed |-> {}]
  /\ phase' = "final_response"
  /\ UNCHANGED <<request, version, attempt, roomsSaid>>

\* No model is configured, or its attempts are used up.  A patch that does not fit the
\* schema raises; one that finds nothing asks what is meant.
AnalyzeByRules(p) ==
  /\ phase = "revision_analyze" /\ attempt \in {0, MaxAttempts}
  /\ IF PatchValid(p)
     THEN Analyzed(IF Asks(p) \/ ~HasChanges(p) THEN "clarification_required" ELSE "ready", p)
     ELSE AnalysisFails

RevisionFails ==
  /\ phase' = "final_response" /\ report' = [status |-> "failed", changed |-> {}]
  /\ UNCHANGED <<request, roomsSaid>>

RevisionApplies(p) ==
  /\ request' = Revised(request, p)
  /\ report' = [status |-> "applied", changed |-> ChangedFields(request, p)]
  /\ roomsSaid' = IF "rooms" \in Touched(p) THEN request'.rooms # None ELSE roomsSaid
  /\ phase' = "missing_info_check"

\* The plan is about another proposal, or about a request that has changed since.
Outdated == plan.version # version \/ plan.base # request

\* Every exception leaves the request as it was.
ApplyRevision ==
  /\ phase = "apply_revision"
  /\ IF Outdated \/ Fails(request, plan.patch)
     THEN RevisionFails
     ELSE RevisionApplies(plan.patch)
  /\ UNCHANGED <<version, attempt, plan>>

Next ==
  \/ \E d \in Drafts : ExtractByModel(d)
  \/ \E t \in Texts : ExtractByRules(t)
  \/ ExtractFails
  \/ MissingInfoCheck
  \/ PlanTrip
  \/ RequestChanges
  \/ \E p \in Patches : AnalyzeByModel(p)
  \/ ModelFails
  \/ \E p \in RulePatches : AnalyzeByRules(p)
  \/ ApplyRevision

Spec == Init /\ [][Next]_vars
-----------------------------------------------------------------------------
(* Properties. *)

NodeName == {"input_extract", "missing_info_check", "safety_check", "decision_gate",
             "revision_analyze", "apply_revision", "clarify", "final_response"}

\* Every variable keeps its type, and the request the limits of its schema.
TypeOK ==
  /\ phase \in NodeName /\ version \in 0 .. MaxVersion /\ attempt \in 0 .. MaxAttempts
  /\ DOMAIN request = DOMAIN NoRequest /\ Acceptable(request)
  /\ plan.status \in {"none", "ready", "clarification_required", "failed"}
  /\ report.status \in {"none", "analyzed", "applied", "failed"}
  /\ report.changed \subseteq DOMAIN NoRequest

Applied == report.status = "applied"

\* A trip that was once planned never gets into a dispute about its dates by a revision:
\* whatever of start, end and days is set, shifted or cleared, and in whatever combination,
\* the three agree afterwards, or the patch is refused (_normalize_revised_dates).
RevisionKeepsDates == TypeOK /\ (Applied => DateIssues(request) = {})

\* A field has become what an operation said of it.  Of a relative change of days less than
\* a day may be lost, and never is more added or taken away than was said.
Obeyed(op, before, after) ==
  CASE op.kind = "clear" -> after = Cleared(op.field)
    [] op.kind = "set"   -> after = op.value
    [] op.kind = "increment" /\ op.field = "budget" -> after = before + op.value
    [] op.kind = "increment" /\ op.field = "days" ->
         op.value - (after - before) * Parts
           \in IF op.value > 0 THEN 0 .. Parts - 1 ELSE 1 - Parts .. 0

\* What the traveller has said is in the request: a relative change is added exactly once
\* to the value of the proposal that was shown, the whole days of it to the days, dates that
\* are derived do not overwrite one that was said (except that there is no end without start
\* and days), what was removed is gone unless it was added again, and under each key only
\* the last word stays.
SaidIsDone ==
  Applied =>
    LET p == plan.patch
        LastSaid(c, key) == SelectLastInSeq(p.upserts[c], LAMBDA i : i.key = key)
    IN  /\ \A op \in p.ops :
             \/ Obeyed(op, plan.base[op.field], request[op.field])
             \/ op.field = "end" /\ ~Datable(request)
        /\ \A c \in Collections :
             /\ \A i, j \in DOMAIN request[c] : request[c][i].key = request[c][j].key => i = j
             /\ \A u \in ToSet(p.upserts[c]) : p.upserts[c][LastSaid(c, u.key)] \in ToSet(request[c])
             /\ \A i \in ToSet(request[c]) :
                  Selects(p.removals[c], i.key) => i \in ToSet(p.upserts[c])

\* The only entry of its key.
Alone(items, item) == \A i, j \in DOMAIN items :
  items[i].key = item.key /\ items[j].key = item.key => i = j

\* What was not spoken of stays: fields, wishes and constraints, and texts that could not be
\* mapped, over any number of revisions.  Of start, end and days those follow that a change
\* of the others moves; entries that shared a key before are reduced to the last of them.
UnsaidStays ==
  Applied =>
    LET p == plan.patch
        follows == If("end" \in Touched(p), "days")
                   \cup If(Touched(p) \cap {"start", "days"} # {}
                           \/ plan.base.end = None, "end")
    IN  /\ \A f \in Fields \ (Touched(p) \cup follows) : request[f] = plan.base[f]
        /\ \A c \in Collections : \A i \in ToSet(plan.base[c]) :
             (/\ Alone(plan.base[c], i) /\ ~Selects(p.removals[c], i.key)
              /\ \A u \in ToSet(p.upserts[c]) : u.key # i.key)
             => i \in ToSet(request[c])
        /\ {u.text : u \in plan.base.unmapped} \subseteq {u.text : u \in request.unmapped}

\* The report the traveller sees names every part of the request that a revision has
\* changed, also those that were only derived; settled issues alone go unmentioned.
ReportIsComplete ==
  Applied => {f \in DOMAIN request \ {"issues"} : request[f] # plan.base[f]}
               \subseteq report.changed

\* A trip of several travellers is only planned when they have said how many rooms they
\* want: one room is a default for a single traveller only.
RoomsAreAsked == phase = "decision_gate" /\ request.people > 1 => roomsSaid
=============================================================================
