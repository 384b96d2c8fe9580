------------------------ MODULE ProposalContractProofs ------------------------
(***************************************************************************)
(* What holds of every proposal a traveller is asked to decide on, for any *)
(* trip, any evidence and any answers of the model: an accepted proposal   *)
(* is grounded, a repair is told what to repair, and attempts and repairs  *)
(* come to an end.  The accepted proposal is one the verifier has nothing  *)
(* to say about; most of its grounding follows from that alone, the rest   *)
(* from how the generator puts it together.  The second half follows an    *)
(* accepted draft through every check of the verifier.                     *)
(***************************************************************************)
EXTENDS ProposalContract, SequenceTheorems, FiniteSetTheorems, TLAPS

\* What the verifier does not look at: days in a list, reviews of the chosen hotel only.
PutTogether ==
  /\ proposal.days = [i \in DOMAIN proposal.days |-> proposal.days[i]]
  /\ \A s \in proposal.sources : s.category = "hotel_reviews" => s.hotel = input.selection.hotel.id

IInv ==
  /\ TypeOK /\ FeedbackIsCurrent
  /\ phase \in {"verifier", "decision_gate"} => PutTogether
  /\ phase = "decision_gate" => Issues(input, proposal, result) = {}

(* The beginning. *)
LEMMA InitIsGood == Init => IInv
  BY LimitsAreNumbers DEF Init, IInv, TypeOK, NodeName, NoResult, FeedbackIsCurrent

(* Every issue goes back to the generator or to the selection. *)
LEMMA WhenTargets ==
  ASSUME NEW condition, NEW type, NEW target, NEW i \in When(condition, type, target)
  PROVE  i.target = target
  BY DEF When, Issue

LEMMA EachTargets ==
  ASSUME NEW places, NEW type, NEW target, NEW i \in Each(places, type, target)
  PROVE  i.target = target
  BY DEF Each, Issue

LEMMA IssuesOfChecks ==
  ASSUME NEW in, NEW p, NEW res
  PROVE  Issues(in, p, res) =
           ResultIssues(p, res) \cup LineageIssues(in, p) \cup LockedIssues(in, p)
             \cup BudgetIssues(in, p) \cup ItineraryIssues(in, p) \cup SourceIssues(in, p)
             \cup UseIssues(in, p) \cup ToolIssues(in, p) \cup RequirementIssues(in, p)
             \cup BoundaryIssues(p) \cup IntegrityIssues(p)
  <1> DEFINE checks == Checks(in, p, res)
  <1>1. DOMAIN checks = 1 .. 11
    BY DEF Checks
  <1>2. /\ checks[1] = ResultIssues(p, res) /\ checks[2] = LineageIssues(in, p)
        /\ checks[3] = LockedIssues(in, p) /\ checks[4] = BudgetIssues(in, p)
        /\ checks[5] = ItineraryIssues(in, p) /\ checks[6] = SourceIssues(in, p)
        /\ checks[7] = UseIssues(in, p) /\ checks[8] = ToolIssues(in, p)
        /\ checks[9] = RequirementIssues(in, p) /\ checks[10] = BoundaryIssues(p)
        /\ checks[11] = IntegrityIssues(p)
    BY DEF Checks
  <1>3. Issues(in, p, res) = UNION {checks[c] : c \in 1 .. 11}
    BY <1>1 DEF Issues
  <1> HIDE DEF checks
  <1>4. \A i : i \in Issues(in, p, res) <=> \E c \in 1 .. 11 : i \in checks[c]
    BY <1>3
  <1>5. \A c \in 1 .. 11 : c = 1 \/ c = 2 \/ c = 3 \/ c = 4 \/ c = 5 \/ c = 6 \/ c = 7 \/ c = 8
                          \/ c = 9 \/ c = 10 \/ c = 11
    OBVIOUS
  <1>6. /\ 1 \in 1 .. 11 /\ 2 \in 1 .. 11 /\ 3 \in 1 .. 11 /\ 4 \in 1 .. 11 /\ 5 \in 1 .. 11
        /\ 6 \in 1 .. 11 /\ 7 \in 1 .. 11 /\ 8 \in 1 .. 11 /\ 9 \in 1 .. 11
        /\ 10 \in 1 .. 11 /\ 11 \in 1 .. 11
    OBVIOUS
  <1>7. \A i : i \in Issues(in, p, res) <=>
               \/ i \in checks[1] \/ i \in checks[2] \/ i \in checks[3] \/ i \in checks[4]
               \/ i \in checks[5] \/ i \in checks[6] \/ i \in checks[7] \/ i \in checks[8]
               \/ i \in checks[9] \/ i \in checks[10] \/ i \in checks[11]
    BY <1>4, <1>5, <1>6
  <1> QED BY <1>2, <1>7

LEMMA Targets ==
  ASSUME NEW in, NEW p, NEW res, NEW i \in Issues(in, p, res)
  PROVE  i.target \in {"proposal", "budget_optimize"}
  <1>1. CASE i \in ResultIssues(p, res)
    BY <1>1, WhenTargets, EachTargets DEF ResultIssues
  <1>2. CASE i \in LineageIssues(in, p)
    BY <1>2, WhenTargets, EachTargets DEF LineageIssues
  <1>3. CASE i \in LockedIssues(in, p)
    BY <1>3, WhenTargets, EachTargets DEF LockedIssues
  <1>4. CASE i \in BudgetIssues(in, p)
    BY <1>4 DEF BudgetIssues, Issue
  <1>5. CASE i \in ItineraryIssues(in, p)
    BY <1>5, WhenTargets, EachTargets DEF ItineraryIssues
  <1>6. CASE i \in SourceIssues(in, p)
    BY <1>6, WhenTargets, EachTargets DEF SourceIssues
  <1>7. CASE i \in UseIssues(in, p)
    BY <1>7, WhenTargets DEF UseIssues
  <1>8. CASE i \in ToolIssues(in, p)
    BY <1>8, WhenTargets, EachTargets DEF ToolIssues
  <1>9. CASE i \in RequirementIssues(in, p)
    BY <1>9, WhenTargets, EachTargets DEF RequirementIssues
  <1>10. CASE i \in BoundaryIssues(p)
    BY <1>10 DEF BoundaryIssues, ClaimsOf, Issue
  <1>11. CASE i \in IntegrityIssues(p)
    BY <1>11, WhenTargets DEF IntegrityIssues
  <1> QED
    BY <1>1, <1>2, <1>3, <1>4, <1>5, <1>6, <1>7, <1>8, <1>9, <1>10, <1>11, IssuesOfChecks

(* A draft that passes is put together from usable evidence. *)
LEMMA GenerateStep ==
  ASSUME IInv, NEW d, Generate(d)
  PROVE  IInv'
  <1>1. PICK r : proposal' = Assemble(input, r)
    BY DEF Generate
  <1>2. /\ input' = input /\ repairs' = repairs /\ attempt' = 0 /\ phase' = "verifier"
        /\ result'.status = "generated"
    BY DEF Generate, GenerationResult
  <1>3. PutTogether'
    <2>1. proposal'.days = [i \in DOMAIN proposal'.days |-> proposal'.days[i]]
      BY <1>1 DEF Assemble
    <2>2. proposal'.sources = Sources(input, CollectRefs(r))
      BY <1>1 DEF Assemble
    <2>3. ASSUME NEW s \in proposal'.sources, s.category = "hotel_reviews"
          PROVE  s.hotel = input.selection.hotel.id
      BY <2>2, <2>3 DEF Sources, Usable
    <2> QED BY <1>2, <2>1, <2>3 DEF PutTogether
  <1>4. TypeOK'
    <2>1. proposal'.version = input'.version
      BY <1>1, <1>2 DEF Assemble
    <2> QED BY <1>2, <2>1, LimitsAreNumbers DEF IInv, TypeOK, NodeName
  <1> QED BY <1>2, <1>3, <1>4 DEF IInv, FeedbackIsCurrent

(* A failed attempt is repeated with the same feedback, or the last. *)
LEMMA FailStep ==
  ASSUME IInv, phase = "proposal", attempt < MaxAttempts, Fail
  PROVE  IInv'
  <1>1. CASE attempt + 1 = MaxAttempts
    BY <1>1, LimitsAreNumbers
       DEF Fail, GiveUp, IInv, TypeOK, NodeName, FeedbackIsCurrent, NoProposal
  <1>2. CASE attempt + 1 # MaxAttempts
    <2>1. TryAgain
      BY <1>2 DEF Fail
    <2>2. /\ Checks(input, proposal, result)' = Checks(input, proposal, result)
          /\ Issues(input, proposal, result)' = Issues(input, proposal, result)
      BY <2>1 DEF TryAgain
    <2>3. TypeOK'
      BY <1>2, <2>1, LimitsAreNumbers DEF TryAgain, IInv, TypeOK
    <2> QED BY <2>1, <2>2, <2>3 DEF TryAgain, IInv, FeedbackIsCurrent
  <1> QED BY <1>1, <1>2

(* The verifier passes the proposal on, or sends it back with what is wrong with it. *)
LEMMA VerifyStep ==
  ASSUME IInv, Verify
  PROVE  IInv'
  <1> DEFINE checks == Checks(input, proposal, result)
             issues == Issues(input, proposal, result)
             next   == NextAction(issues)
  <1>1. /\ phase = "verifier" /\ phase' = next
        /\ repairs' = IF next = "proposal" THEN repairs + 1 ELSE repairs
        /\ feedback' \in RepairFeedback(checks, next)
        /\ UNCHANGED <<input, shown, attempt, proposal, result>>
    BY DEF Verify
  <1>2. next \in {"decision_gate", "budget_optimize", "proposal", "final_response"}
        /\ (next = "proposal" => repairs < MaxRepairs)
        /\ (next = "decision_gate" => issues = {})
        /\ (next = "proposal" => issues # {})
    BY DEF NextAction
  <1>3. TypeOK'
    BY <1>1, <1>2, LimitsAreNumbers DEF IInv, TypeOK, NodeName
  <1>4. PutTogether' /\ Issues(input, proposal, result)' = issues
        /\ Checks(input, proposal, result)' = checks
    BY <1>1 DEF IInv, PutTogether
  <1>5. FeedbackIsCurrent'
    <2> SUFFICES ASSUME next = "proposal"
                 PROVE  /\ repairs' # 0 /\ feedback' \subseteq issues /\ feedback' # {}
                        /\ IF Cardinality(issues) <= MaxIssues THEN feedback' = issues
                           ELSE Cardinality(feedback') = MaxIssues
                        /\ \A c \in DOMAIN checks : feedback' \cap checks[c] # {} =>
                             \A earlier \in 1 .. c - 1 : checks[earlier] \subseteq feedback'
      BY <1>1, <1>4 DEF FeedbackIsCurrent
    <2>1. \A i \in issues : i.target = "proposal"
      <3>1. \A i \in issues : i.target \in {"proposal", "budget_optimize"}
        BY Targets
      <3>2. \A i \in issues : i.target # "budget_optimize"
        BY DEF NextAction
      <3> QED BY <3>1, <3>2
    <2>2. issues = UNION {checks[c] : c \in DOMAIN checks} /\ DOMAIN checks = 1 .. 11
      BY DEF Issues, Checks
    <2>3. repairs' # 0
      BY <1>1 DEF IInv, TypeOK
    <2> HIDE DEF checks, issues, next
    <2>4. feedback' \in Beginnings(checks, issues)
      <3>1. {i \in UNION {checks[c] : c \in DOMAIN checks} : i.target = next} = issues
        BY <2>1, <2>2
      <3> QED BY <1>1, <3>1 DEF RepairFeedback
    <2>5. \A c \in DOMAIN checks : \A earlier \in 1 .. c - 1 :
            issues \cap checks[earlier] = checks[earlier] /\ checks[c] \subseteq issues
      BY <2>2
    <2>6. CASE Cardinality(issues) <= MaxIssues
      <3>1. feedback' = issues
        BY <2>4, <2>6 DEF Beginnings
      <3> QED BY <1>2, <2>3, <2>5, <2>6, <3>1
    <2>7. CASE ~(Cardinality(issues) <= MaxIssues)
      <3>1. /\ feedback' \subseteq issues /\ Cardinality(feedback') = MaxIssues
            /\ \A c \in DOMAIN checks : feedback' \cap checks[c] # {} =>
                 \A earlier \in 1 .. c - 1 : issues \cap checks[earlier] \subseteq feedback'
        BY <2>4, <2>7 DEF Beginnings
      <3>2. feedback' # {}
        BY <3>1, LimitsAreNumbers, FS_EmptySet
      <3> QED BY <2>3, <2>5, <2>7, <3>1, <3>2
    <2> QED BY <2>6, <2>7
  <1> QED BY <1>1, <1>2, <1>3, <1>4, <1>5 DEF IInv

(* The invariant of generator and verifier. *)
THEOREM Invariant == Spec => []IInv
  <1>1. IInv /\ [Next]_vars => IInv'
    <2> SUFFICES ASSUME IInv, [Next]_vars PROVE IInv'
      OBVIOUS
    <2>1. ASSUME NEW d, Generate(d) PROVE IInv'
      BY <2>1, GenerateStep
    <2>2. ASSUME NEW d, RejectDraft(d) PROVE IInv'
      BY <2>2, FailStep DEF RejectDraft
    <2>3. CASE ModelFails
      BY <2>3, FailStep DEF ModelFails
    <2>4. CASE Verify
      BY <2>4, VerifyStep
    <2>5. CASE UNCHANGED vars
      BY <2>5 DEF vars, IInv, TypeOK, FeedbackIsCurrent, PutTogether
    <2> QED BY <2>1, <2>2, <2>3, <2>4, <2>5 DEF Next
  <1> QED BY <1>1, InitIsGood, PTL DEF Spec

(* In every round of repair, and in every attempt of it, the model is told of as many       *)
(* issues of the proposal it is to replace as the message has room for, those of the first  *)
(* checks before those of later ones, and of none that the proposal does not have           *)
(* (proposal_feedback, relevant[:12]).                                                      *)
THEOREM FeedbackStaysCurrent == Spec => []FeedbackIsCurrent
  <1>1. IInv => FeedbackIsCurrent
    BY DEF IInv
  <1> QED BY <1>1, Invariant, PTL

(* What it means that the verifier has nothing to say. *)
LEMMA WhenNothing ==
  ASSUME NEW condition, NEW type, NEW target, When(condition, type, target) = {}
  PROVE  ~condition
  BY DEF When

LEMMA EachNothing ==
  ASSUME NEW places, NEW type, NEW target, Each(places, type, target) = {}
  PROVE  places = {}
  BY DEF Each

LEMMA NoItineraryIssue ==
  ASSUME ItineraryIssues(input, proposal) = {}, input.days \in Nat,
         proposal.days = [i \in DOMAIN proposal.days |-> proposal.days[i]]
  PROVE  /\ Len(proposal.days) = input.days
         /\ \A i \in DOMAIN proposal.days :
              /\ proposal.days[i].date = i
              /\ \A a \in proposal.days[i].activities :
                   a.type \in Knowledge => a.refs \cap ChunksOf(input, "guides") # {}
  <1> DEFINE dates == [i \in DOMAIN proposal.days |-> proposal.days[i].date]
             bare  == {x \in Planned(proposal) : x[1] \in 1 .. input.days /\ x[2].type \in Knowledge
                                                /\ x[2].refs \cap ChunksOf(input, "guides") = {}}
  <1>1. When(dates # LockedContext(input).dates, "daily_dates_mismatch", "proposal") = {}
        /\ Each(bare, "knowledge_activity_missing_guide", "proposal") = {}
    BY DEF ItineraryIssues
  <1>2. dates = LockedContext(input).dates
    BY <1>1, WhenNothing
  <1>3. dates = [i \in 1 .. input.days |-> i]
    BY <1>2 DEF LockedContext
  <1>4. DOMAIN proposal.days = 1 .. input.days
        /\ \A i \in DOMAIN proposal.days : proposal.days[i].date = i
    <2>1. DOMAIN dates = 1 .. input.days /\ \A i \in 1 .. input.days : dates[i] = i
      <3> HIDE DEF dates
      <3> QED BY <1>3
    <2> QED BY <2>1
  <1>5. Len(proposal.days) = input.days
    <2> DEFINE S == {proposal.days[i] : i \in DOMAIN proposal.days}
    <2>1. proposal.days \in [1 .. input.days -> S]
      BY <1>4
    <2>2. proposal.days \in Seq(S)
      BY <2>1, SeqDef
    <2> QED BY <1>4, <2>2, LenProperties
  <1>6. bare = {}
    <2> HIDE DEF bare
    <2> QED BY <1>1, EachNothing
  <1>7. ASSUME NEW i \in DOMAIN proposal.days, NEW a \in proposal.days[i].activities,
               a.type \in Knowledge
        PROVE  a.refs \cap ChunksOf(input, "guides") # {}
    <2>1. <<proposal.days[i].date, a>> \in Planned(proposal) /\ proposal.days[i].date \in 1 .. input.days
      BY <1>4 DEF Planned
    <2> QED BY <1>6, <1>7, <2>1
  <1> QED BY <1>4, <1>5, <1>7

LEMMA NoSourceIssue ==
  ASSUME SourceIssues(input, proposal) = {}, input \in Inputs,
         NEW category, NEW c \in CollectRefs(proposal) \cap ChunksOf(input, category)
  PROVE  c \in {s.chunk : s \in {s \in proposal.sources : s.category = category}}
  <1> DEFINE listed == {s.chunk : s \in proposal.sources}
             facts  == {[chunk |-> e.chunk, category |-> e.category, hotel |-> e.hotel,
                         quality |-> e.quality] : e \in input.pool}
             wrong  == {s \in proposal.sources : s.chunk \in EvidenceIds(input) /\ s \notin facts}
  <1>1. /\ When(listed # CollectRefs(proposal), "source_catalog_mismatch", "proposal") = {}
        /\ Each(wrong, "source_metadata_mismatch", "proposal") = {}
    BY DEF SourceIssues
  <1>2. listed = CollectRefs(proposal)
    BY <1>1, WhenNothing
  <1>3. wrong = {}
    <2> HIDE DEF wrong
    <2> QED BY <1>1, EachNothing
  <1>4. PICK s \in proposal.sources : s.chunk = c
    BY <1>2
  <1>5. PICK e \in input.pool : e.chunk = c /\ e.category = category
    BY DEF ChunksOf, OfCategory
  <1>6. s \in facts
    BY <1>3, <1>4, <1>5 DEF EvidenceIds
  <1>7. PICK f \in input.pool : s = [chunk |-> f.chunk, category |-> f.category, hotel |-> f.hotel,
                                     quality |-> f.quality]
    BY <1>6
  <1>8. f = e
    BY <1>4, <1>5, <1>7, ChunksAreUnique
  <1>9. s.category = category
    BY <1>5, <1>7, <1>8
  <1> QED BY <1>4, <1>9

LEMMA NoToolIssue ==
  ASSUME ToolIssues(input, proposal) = {},
         NEW i \in DOMAIN proposal.days, NEW a \in proposal.days[i].activities, a.tool # None
  PROVE  /\ a.tool \in DOMAIN input.activities
         /\ proposal.days[i].date \in input.activities[a.tool].dates
  <1> DEFINE placed == {y \in Planned(proposal) : y[2].tool # None}
             known  == {y \in placed : y[2].tool \in DOMAIN input.activities}
             late   == {y \in known : y[1] \notin input.activities[y[2].tool].dates}
             x      == <<proposal.days[i].date, a>>
  <1>1. /\ Each(placed \ known, "unknown_tool_activity_id", "proposal") = {}
        /\ Each(late, "tool_activity_date_mismatch", "proposal") = {}
    BY DEF ToolIssues
  <1>2. placed \ known = {} /\ late = {}
    <2> HIDE DEF placed, known, late
    <2> QED BY <1>1, EachNothing
  <1>3. x \in placed
    BY DEF Planned
  <1> QED BY <1>2, <1>3

LEMMA NoUseIssue ==
  ASSUME UseIssues(input, proposal) = {}
  PROVE  NoteRefs(proposal.hotel) \subseteq ChunksOf(input, "hotel_reviews")
  <1> DEFINE reviews == {e.chunk : e \in {e \in OfCategory(input.pool, "hotel_reviews") :
                                            e.hotel = proposal.locked.selected.hotel.id}}
             bad == reviews # {} /\ (NoteRefs(proposal.hotel) = {}
                                     \/ ~(NoteRefs(proposal.hotel) \subseteq reviews))
             free == reviews = {} /\ proposal.hotel # <<>>
  <1>1. /\ When(bad, "hotel_context_evidence_invalid", "proposal") = {}
        /\ When(free, "hotel_context_without_evidence", "proposal") = {}
    BY DEF UseIssues
  <1>2. ~bad /\ ~free
    <2> HIDE DEF bad, free
    <2> QED BY <1>1, WhenNothing
  <1>3. reviews \subseteq ChunksOf(input, "hotel_reviews")
    BY DEF ChunksOf
  <1>4. CASE reviews = {}
    <2>1. proposal.hotel = <<>>
      BY <1>2, <1>4
    <2>2. DOMAIN proposal.hotel = {}
      BY <2>1
    <2>3. NoteRefs(proposal.hotel) = {}
      BY <2>2 DEF NoteRefs
    <2> QED BY <2>3
  <1>5. CASE reviews # {}
    BY <1>2, <1>3, <1>5
  <1> QED BY <1>4, <1>5

LEMMA NoRequirementIssue ==
  ASSUME RequirementIssues(input, proposal) = {}
  PROVE  HandledKeys(proposal) = Catalog(input)
  <1>1. When(HandledKeys(proposal) # Catalog(input), "requirement_catalog_not_covered", "proposal") = {}
    BY DEF RequirementIssues
  <1> QED BY <1>1, WhenNothing

LEMMA NoBoundaryIssue ==
  ASSUME BoundaryIssues(proposal) = {}
  PROVE  /\ proposal.claims = {}
         /\ \A i \in DOMAIN proposal.days : \A a \in proposal.days[i].activities : a.claims = {}
  <1>1. ASSUME NEW claims, NEW place, ClaimsOf(claims, place) = {}
        PROVE  claims = {}
    BY <1>1 DEF ClaimsOf
  <1>2. /\ ClaimsOf(proposal.claims, <<>>) = {}
        /\ \A x \in Planned(proposal) : ClaimsOf(x[2].claims, x) = {}
    BY DEF BoundaryIssues
  <1>3. ASSUME NEW i \in DOMAIN proposal.days, NEW a \in proposal.days[i].activities
        PROVE  a.claims = {}
    <2> DEFINE x == <<proposal.days[i].date, a>>
    <2>1. x \in Planned(proposal)
      BY DEF Planned
    <2>2. ClaimsOf(x[2].claims, x) = {}
      BY <1>2, <2>1
    <2> QED BY <1>1, <2>2
  <1> QED BY <1>1, <1>2, <1>3

LEMMA NotesAreUsed ==
  ASSUME NEW p
  PROVE  NoteRefs(p.hotel) \subseteq CollectRefs(p)
  <1> DEFINE A == UNION {a.refs : a \in Activities(p)}
             B == NoteRefs(p.hotel)
             C == NoteRefs(p.packing)
             D == NoteRefs(p.safety)
             E == UNION {p.handled[i].refs : i \in DOMAIN p.handled}
  <1>1. CollectRefs(p) = A \cup B \cup C \cup D \cup E
    BY DEF CollectRefs
  <1>2. B \subseteq A \cup B \cup C \cup D \cup E
    <2> HIDE DEF A, B, C, D, E
    <2> QED OBVIOUS
  <1> QED BY <1>1, <1>2

(* A plan that reaches the traveller's decision covers every day, claims no booking and     *)
(* rests on evidence and tools that support it (_check_itinerary, _check_sources,           *)
(* _check_action_boundary and the others together with _usable_evidence).                   *)
THEOREM AcceptedStaysGrounded == Spec => []AcceptedIsGrounded
  <1>1. IInv => AcceptedIsGrounded
    <2> SUFFICES ASSUME IInv, phase = "decision_gate" PROVE AcceptedIsGrounded
      BY DEF AcceptedIsGrounded
    <2> DEFINE cited(category) ==
          {s.chunk : s \in {s \in proposal.sources : s.category = category}}
    <2>1. PutTogether /\ Issues(input, proposal, result) = {} /\ input \in Inputs
      BY DEF IInv, TypeOK
    <2>2. /\ ItineraryIssues(input, proposal) = {} /\ SourceIssues(input, proposal) = {}
          /\ UseIssues(input, proposal) = {} /\ ToolIssues(input, proposal) = {}
          /\ RequirementIssues(input, proposal) = {} /\ BoundaryIssues(proposal) = {}
      BY <2>1, IssuesOfChecks
    <2>3. /\ Len(proposal.days) = input.days
          /\ \A i \in DOMAIN proposal.days :
               /\ proposal.days[i].date = i
               /\ \A a \in proposal.days[i].activities :
                    a.type \in Knowledge => a.refs \cap ChunksOf(input, "guides") # {}
      BY <2>1, <2>2, NoItineraryIssue, ChunksAreUnique DEF PutTogether
    <2>4. ASSUME NEW i \in DOMAIN proposal.days, NEW a \in proposal.days[i].activities
          PROVE  /\ a.claims = {}
                 /\ a.type \in Knowledge => a.refs \cap cited("guides") # {}
                 /\ a.tool # None => /\ a.tool \in DOMAIN input.activities
                                    /\ i \in input.activities[a.tool].dates
      <3>1. a \in Activities(proposal) /\ a.refs \subseteq CollectRefs(proposal)
        BY DEF Activities, CollectRefs
      <3>2. a.claims = {}
        BY <2>2, NoBoundaryIssue
      <3>3. ASSUME a.type \in Knowledge PROVE a.refs \cap cited("guides") # {}
        <4>1. PICK c \in a.refs : c \in ChunksOf(input, "guides")
          BY <2>3, <3>3
        <4>2. c \in cited("guides")
          BY <2>1, <2>2, <3>1, <4>1, NoSourceIssue
        <4> QED BY <4>2
      <3>4. ASSUME a.tool # None
            PROVE  a.tool \in DOMAIN input.activities /\ i \in input.activities[a.tool].dates
        BY <2>2, <2>3, <3>4, NoToolIssue
      <3> QED BY <3>2, <3>3, <3>4
    <2>5. NoteRefs(proposal.hotel) \subseteq cited("hotel_reviews")
      <3>1. NoteRefs(proposal.hotel) \subseteq CollectRefs(proposal)
        BY NotesAreUsed
      <3>2. NoteRefs(proposal.hotel) \subseteq ChunksOf(input, "hotel_reviews")
        BY <2>2, NoUseIssue
      <3> QED BY <2>1, <2>2, <3>1, <3>2, NoSourceIssue
    <2>6. {h.key : h \in {proposal.handled[i] : i \in DOMAIN proposal.handled}} = Catalog(input)
      <3>1. HandledKeys(proposal) = {h.key : h \in {proposal.handled[i] : i \in DOMAIN proposal.handled}}
        BY DEF HandledKeys
      <3> QED BY <2>2, <3>1, NoRequirementIssue
    <2>7. \A s \in proposal.sources : s.category = "hotel_reviews" => s.hotel = input.selection.hotel.id
      BY <2>1 DEF PutTogether
    <2>8. proposal.claims = {}
      BY <2>2, NoBoundaryIssue
    <2> QED BY <2>3, <2>4, <2>5, <2>6, <2>7, <2>8 DEF AcceptedIsGrounded
  <1> QED BY <1>1, Invariant, PTL

(* Attempts and repairs are used up: every step of generator or verifier brings the end     *)
(* of the run nearer, whatever the model answers (proposal_max_attempts,                    *)
(* verifier_max_proposal_repairs).                                                          *)
THEOREM RunsComeToAnEnd == Spec => RunsShorten
  <1> DEFINE Closer == \/ repairs' = repairs + 1 /\ repairs' <= MaxRepairs
                       \/ repairs' = repairs /\ Rank' < Rank
  <1>1. IInv /\ [Next]_vars => [Closer]_vars
    <2> SUFFICES ASSUME IInv, Next PROVE Closer
      OBVIOUS
    <2>1. attempt \in 0 .. MaxAttempts - 1 /\ repairs \in 0 .. MaxRepairs
      BY DEF IInv, TypeOK
    <2>2. ASSUME NEW d, Generate(d) PROVE Closer
      BY <2>1, <2>2, LimitsAreNumbers DEF Generate, Rank
    <2>3. ASSUME phase = "proposal", Fail PROVE Closer
      <3>1. CASE attempt + 1 = MaxAttempts
        BY <2>1, <2>3, <3>1, LimitsAreNumbers DEF Fail, GiveUp, Rank
      <3>2. CASE attempt + 1 # MaxAttempts
        BY <2>1, <2>3, <3>2, LimitsAreNumbers DEF Fail, TryAgain, Rank
      <3> QED BY <3>1, <3>2
    <2>4. CASE Verify
      <3> DEFINE next == NextAction(Issues(input, proposal, result))
      <3>1. /\ phase = "verifier" /\ phase' = next /\ attempt' = attempt
            /\ repairs' = IF next = "proposal" THEN repairs + 1 ELSE repairs
        BY <2>4 DEF Verify
      <3>2. next = "proposal" => repairs < MaxRepairs
        BY DEF NextAction
      <3>3. next \in {"decision_gate", "budget_optimize", "proposal", "final_response"}
        BY DEF NextAction
      <3> HIDE DEF next
      <3>4. CASE next = "proposal"
        BY <2>1, <3>1, <3>2, <3>4, LimitsAreNumbers
      <3>5. CASE next # "proposal"
        <4>1. Rank = 1 /\ Rank' = 0
          BY <3>1, <3>3, <3>5 DEF Rank
        <4> QED BY <3>1, <3>5, <4>1
      <3> QED BY <3>4, <3>5
    <2> QED BY <2>2, <2>3, <2>4 DEF Next, RejectDraft, ModelFails
  <1> QED BY <1>1, Invariant, PTL DEF Spec, RunsShorten
--------------------------------------------------------------------------------
(* Finite sets in order. *)

(* A strict order of a set, given as a set of pairs. *)
StrictOrder(R, S) ==
  /\ \A a \in S : <<a, a>> \notin R
  /\ \A a, b, c \in S : <<a, b>> \in R /\ <<b, c>> \in R => <<a, c>> \in R

Below(R, S, e) == {o \in S : <<o, e>> \in R}

LEMMA BelowGrows ==
  ASSUME NEW R, NEW S, StrictOrder(R, S), IsFiniteSet(S), NEW a \in S, NEW b \in S, <<a, b>> \in R
  PROVE  Cardinality(Below(R, S, a)) < Cardinality(Below(R, S, b))
  <1>1. Below(R, S, a) \subseteq Below(R, S, b) /\ a \in Below(R, S, b) /\ a \notin Below(R, S, a)
    BY DEF StrictOrder, Below
  <1>2. IsFiniteSet(Below(R, S, b))
    BY FS_Subset DEF Below
  <1>3. /\ Cardinality(Below(R, S, a)) <= Cardinality(Below(R, S, b))
        /\ Cardinality(Below(R, S, a)) # Cardinality(Below(R, S, b))
        /\ IsFiniteSet(Below(R, S, a))
    BY <1>1, <1>2, FS_Subset
  <1>4. Cardinality(Below(R, S, a)) \in Nat /\ Cardinality(Below(R, S, b)) \in Nat
    BY <1>2, <1>3, FS_CardinalityType
  <1> QED BY <1>3, <1>4

(* A finite set that is not empty has an element with nothing below it. *)
LEMMA LeastElement ==
  ASSUME NEW R, NEW S, StrictOrder(R, S), IsFiniteSet(S), S # {}
  PROVE  \E e \in S : Cardinality(Below(R, S, e)) = 0
  <1> DEFINE T == {Below(R, S, e) : e \in S}
             ord == StrictSubsetOrdering(S)
  <1>1. T \subseteq FiniteSubsetsOf(S) /\ T # {}
    <2>1. FiniteSubsetsOf(S) = SUBSET S
      BY FS_FiniteSubsetsOfFinite
    <2>2. T \subseteq SUBSET S
      BY DEF Below
    <2>3. T # {}
      OBVIOUS
    <2> QED BY <2>1, <2>2, <2>3
  <1>2. IsWellFoundedOn(ord, FiniteSubsetsOf(S))
    BY FS_StrictSubsetOrderingWellFounded
  <1>3. PICK B \in T : \A C \in T : <<C, B>> \notin ord
    <2> HIDE DEF T, ord
    <2> QED BY <1>1, <1>2, WFMin
  <1>4. PICK e \in S : B = Below(R, S, e)
    BY <1>3
  <1>5. ASSUME NEW o \in B PROVE FALSE
    <2>1. o \in S /\ <<o, e>> \in R
      BY <1>4 DEF Below
    <2>2. Below(R, S, o) \in T /\ Below(R, S, o) \subseteq B /\ o \notin Below(R, S, o) /\ B \subseteq S
      BY <1>4, <2>1 DEF StrictOrder, Below
    <2>3. <<Below(R, S, o), B>> \in ord
      BY <2>2 DEF StrictSubsetOrdering
    <2> QED BY <1>3, <2>2, <2>3
  <1>6. Below(R, S, e) = {}
    BY <1>4, <1>5
  <1> QED BY <1>6, FS_EmptySet

(* In a total order at most k elements have fewer than k below them. *)
LEMMA FirstFew ==
  ASSUME NEW R, NEW S, StrictOrder(R, S), IsFiniteSet(S), NEW k \in Nat,
         \A a, b \in S : a # b => <<a, b>> \in R \/ <<b, a>> \in R
  PROVE  LET few == {e \in S : Cardinality(Below(R, S, e)) < k}
         IN  IsFiniteSet(few) /\ Cardinality(few) <= k
  <1> DEFINE few == {e \in S : Cardinality(Below(R, S, e)) < k}
             f == [e \in few |-> Cardinality(Below(R, S, e))]
  <1>1. \A e \in S : Cardinality(Below(R, S, e)) \in Nat
    <2>1. \A e \in S : Below(R, S, e) \in SUBSET S
      BY DEF Below
    <2> QED BY <2>1, FS_Subset, FS_CardinalityType
  <1>2. f \in [few -> 0 .. k - 1]
    BY <1>1
  <1>3. ASSUME NEW a \in few, NEW b \in few, a # b
        PROVE  f[a] # f[b]
    <2>1. CASE <<a, b>> \in R
      BY <2>1, <1>1, BelowGrows
    <2>2. CASE <<b, a>> \in R
      BY <2>2, <1>1, BelowGrows
    <2> QED BY <1>3, <2>1, <2>2
  <1>4. f \in Injection(few, 0 .. k - 1)
    BY <1>2, <1>3 DEF Injection, IsInjective
  <1>5. IsFiniteSet(0 .. k - 1) /\ Cardinality(0 .. k - 1) = k
    BY FS_Interval
  <1> HIDE DEF f, few
  <1>6. IsFiniteSet(few) /\ Cardinality(few) <= k
    BY <1>4, <1>5, FS_Injection
  <1> QED BY <1>6 DEF few

--------------------------------------------------------------------------------
(* The part of the evidence that fits into the prompt. *)

(* Better is a strict total order of the evidence, which no two chunks share a place in.    *)
Ahead(S) == {x \in S \X S : Better(x[1], x[2])}

LEMMA BetterIsOrder ==
  ASSUME NEW in \in Inputs, NEW S \in SUBSET in.pool
  PROVE  /\ IsFiniteSet(S) /\ StrictOrder(Ahead(S), S)
         /\ \A a, b \in S : a # b => <<a, b>> \in Ahead(S) \/ <<b, a>> \in Ahead(S)
         /\ \A e \in S : Before(S, e) = Cardinality(Below(Ahead(S), S, e))
  <1>1. IsFiniteSet(S)
    BY EvidenceIsListed, FS_Subset
  <1>2. \A e \in S : e.chunk \in Nat /\ e.quality \in Int
    BY EvidenceIsListed
  <1>3. \A a, b \in S : <<a, b>> \in Ahead(S) <=> Better(a, b)
    BY DEF Ahead
  <1>4. StrictOrder(Ahead(S), S)
    BY <1>2, <1>3 DEF StrictOrder, Better
  <1>5. \A a, b \in S : a # b => a.chunk # b.chunk
    BY ChunksAreUnique
  <1>6. \A a, b \in S : a # b => <<a, b>> \in Ahead(S) \/ <<b, a>> \in Ahead(S)
    BY <1>2, <1>3, <1>5 DEF Better
  <1>7. \A e \in S : Below(Ahead(S), S, e) = {o \in S : Better(o, e)}
    BY <1>3 DEF Below
  <1> QED BY <1>1, <1>4, <1>6, <1>7 DEF Before

LEMMA IntervalSize ==
  ASSUME NEW n \in Nat
  PROVE  IsFiniteSet(1 .. n) /\ Cardinality(1 .. n) = n
  BY FS_Interval

Place(category) == CHOOSE i \in 1 .. 4 : CategoryOrder[i] = category

LEMMA PlacesDiffer ==
  /\ \A c \in Category : Place(c) \in 1 .. 4
  /\ \A c, e \in Category : c # e => Place(c) # Place(e)
  <1>1. \A c \in Category : \E i \in 1 .. 4 : CategoryOrder[i] = c
    <2>1. /\ CategoryOrder[1] = "guides" /\ CategoryOrder[2] = "safety_notices"
          /\ CategoryOrder[3] = "hotel_reviews" /\ CategoryOrder[4] = "packing_checklists"
      BY DEF CategoryOrder
    <2> QED BY <2>1 DEF Category
  <1>2. \A c \in Category : Place(c) \in 1 .. 4 /\ CategoryOrder[Place(c)] = c
    BY <1>1 DEF Place
  <1> QED BY <1>2

(* The first items of PromptItems, in terms of the places of the categories. *)
Firsts(in) ==
  LET items == Usable(in)
  IN  {e \in items : Before(OfCategory(items, e.category), e) = 0
         /\ Cardinality({i \in {Place(o.category) : o \in items} : i < Place(e.category)}) < MaxItems}

LEMMA PromptIsFirstsAndRest ==
  ASSUME NEW in
  PROVE  PromptItems(in) = Firsts(in) \cup
           {e \in Usable(in) \ Firsts(in) :
              Before(Usable(in) \ Firsts(in), e) < MaxItems - Cardinality(Firsts(in))}
  BY DEF PromptItems, Firsts, Place

(* With room for every category the best item of each is in the prompt. *)
LEMMA FirstsOfCategories ==
  ASSUME NEW in \in Inputs, MaxItems >= 4
  PROVE  /\ IsFiniteSet(Firsts(in)) /\ Cardinality(Firsts(in)) <= 4
         /\ \A e \in Usable(in) : \E f \in Firsts(in) : f.category = e.category
  <1> DEFINE items == Usable(in)
             present == {Place(o.category) : o \in items}
             F == Firsts(in)
             f == [e \in F |-> Place(e.category)]
  <1>1. items \subseteq in.pool /\ \A e \in items : e.category \in Category
    BY EvidenceIsListed DEF Usable
  <1>2. \A c : OfCategory(items, c) \in SUBSET in.pool
    BY <1>1 DEF OfCategory
  <1>3. ASSUME NEW a \in F, NEW b \in F, a # b PROVE f[a] # f[b]
    <2> SUFFICES ASSUME a.category = b.category PROVE FALSE
      BY <1>1, PlacesDiffer DEF Firsts
    <2> DEFINE S == OfCategory(items, a.category)
    <2>1. a \in S /\ b \in S /\ Before(S, a) = 0 /\ Before(S, b) = 0 /\ S \in SUBSET in.pool
      BY <1>2 DEF Firsts, OfCategory
    <2> HIDE DEF S
    <2>2. PICK x \in S, y \in S : <<x, y>> \in Ahead(S) /\ Before(S, y) = 0
      BY <1>3, <2>1, BetterIsOrder
    <2>3. Cardinality(Below(Ahead(S), S, x)) < Cardinality(Below(Ahead(S), S, y))
      BY <2>1, <2>2, BetterIsOrder, BelowGrows
    <2>4. Cardinality(Below(Ahead(S), S, x)) \in Nat
      <3>1. Below(Ahead(S), S, x) \in SUBSET S
        BY DEF Below
      <3> QED BY <2>1, <3>1, BetterIsOrder, FS_Subset, FS_CardinalityType
    <2> QED BY <2>1, <2>2, <2>3, <2>4, BetterIsOrder
  <1>4. f \in Injection(F, 1 .. 4)
    <2>1. f \in [F -> 1 .. 4]
      BY <1>1, PlacesDiffer DEF Firsts
    <2> QED BY <1>3, <2>1 DEF Injection, IsInjective
  <1>5. IsFiniteSet(F) /\ Cardinality(F) <= 4
    <2>1. IsFiniteSet(1 .. 4) /\ Cardinality(1 .. 4) = 4
      BY IntervalSize
    <2> HIDE DEF F, f
    <2> QED BY <1>4, <2>1, FS_Injection
  <1>6. ASSUME NEW e \in items PROVE \E g \in F : g.category = e.category
    <2> DEFINE S == OfCategory(items, e.category)
    <2>1. e \in S /\ S \in SUBSET in.pool
      BY <1>2 DEF OfCategory
    <2>2. PICK g \in S : Before(S, g) = 0
      <3> HIDE DEF S
      <3> QED BY <2>1, BetterIsOrder, LeastElement
    <2>3. g \in items /\ g.category = e.category
      BY DEF OfCategory
    <2>4. Cardinality({i \in present : i < Place(g.category)}) < MaxItems
      <3> DEFINE before == {i \in present : i < Place(g.category)}
      <3>1. before \in SUBSET (1 .. 3)
        BY <1>1, <2>3, PlacesDiffer
      <3>2. IsFiniteSet(1 .. 3) /\ Cardinality(1 .. 3) = 3
        BY IntervalSize
      <3> HIDE DEF before
      <3>3. IsFiniteSet(before) /\ Cardinality(before) <= 3
        BY <3>1, <3>2, FS_Subset
      <3>4. Cardinality(before) \in Nat
        BY <3>3, FS_CardinalityType
      <3>5. Cardinality(before) < MaxItems
        BY <3>3, <3>4, LimitsAreNumbers
      <3> QED BY <3>5 DEF before
    <2> QED BY <2>2, <2>3, <2>4 DEF Firsts
  <1> QED BY <1>5, <1>6

LEMMA PromptFits ==
  ASSUME NEW in \in Inputs, MaxItems >= 4
  PROVE  IsFiniteSet(PromptItems(in)) /\ Cardinality(PromptItems(in)) <= MaxItems
  <1> DEFINE F == Firsts(in)
             R == Usable(in) \ F
             room == MaxItems - Cardinality(F)
             few == {e \in R : Before(R, e) < room}
  <1>1. IsFiniteSet(F) /\ Cardinality(F) \in 0 .. 4
    BY FirstsOfCategories, FS_CardinalityType
  <1>2. room \in Nat
    BY <1>1, LimitsAreNumbers
  <1>3. R \in SUBSET in.pool
    BY DEF Usable
  <1>4. few = {e \in R : Cardinality(Below(Ahead(R), R, e)) < room}
    <2> HIDE DEF R, room
    <2> QED BY <1>3, BetterIsOrder
  <1>5. IsFiniteSet(few) /\ Cardinality(few) <= room
    <2> HIDE DEF R, room, few
    <2>1. /\ IsFiniteSet(R) /\ StrictOrder(Ahead(R), R)
          /\ \A a, b \in R : a # b => <<a, b>> \in Ahead(R) \/ <<b, a>> \in Ahead(R)
      BY <1>3, BetterIsOrder
    <2> QED BY <1>2, <1>4, <2>1, FirstFew
  <1>6. PromptItems(in) = F \cup few
    BY PromptIsFirstsAndRest
  <1>7. /\ IsFiniteSet(F \cup few)
        /\ Cardinality(F \cup few) = Cardinality(F) + Cardinality(few) - Cardinality(F \cap few)
    <2> HIDE DEF F, few
    <2> QED BY <1>1, <1>5, FS_Union
  <1>8. Cardinality(F \cap few) \in Nat /\ Cardinality(few) \in Nat
    <2> HIDE DEF F, few
    <2> QED BY <1>1, <1>5, FS_Intersection, FS_CardinalityType
  <1>9. Cardinality(F \cup few) <= MaxItems
    <2> HIDE DEF F, few
    <2> QED BY <1>1, <1>5, <1>7, <1>8, LimitsAreNumbers DEF room
  <1> QED BY <1>6, <1>7, <1>9

(* What the short names stand for. *)
LEMMA ShortNames ==
  ASSUME input \in Inputs, shown = EvidenceContext(input), MaxItems >= 4
  PROVE  /\ Cardinality(Aliases) <= MaxItems
         /\ \A a \in Aliases : shown[a] \in Usable(input) /\ shown[a].category = a[1]
         /\ \A e \in Usable(input) : AliasesOf(e.category) # {}
  <1> DEFINE items == PromptItems(input)
             Alias(e) == <<e.category, 1 + Before(OfCategory(items, e.category), e)>>
             names == {Alias(e) : e \in items}
             g == [e \in items |-> Alias(e)]
  <1>1. shown = [a \in names |-> CHOOSE e \in items : Alias(e) = a]
    BY DEF EvidenceContext, NameItems
  <1>2. Aliases = names
    BY <1>1 DEF Aliases
  <1>3. IsFiniteSet(items) /\ Cardinality(items) <= MaxItems
    BY PromptFits
  <1>4. Cardinality(names) <= MaxItems
    <2>1. g \in Surjection(items, names)
      BY DEF Surjection
    <2> HIDE DEF g, names, items
    <2>2. IsFiniteSet(names) /\ Cardinality(names) <= Cardinality(items)
      BY <1>3, <2>1, FS_Surjection
    <2>3. Cardinality(names) \in Nat /\ Cardinality(items) \in Nat
      BY <1>3, <2>2, FS_CardinalityType
    <2> QED BY <1>3, <2>2, <2>3, LimitsAreNumbers
  <1>5. items \subseteq Usable(input)
    BY PromptIsFirstsAndRest DEF Firsts
  <1>6. ASSUME NEW a \in Aliases
        PROVE  shown[a] \in Usable(input) /\ shown[a].category = a[1]
    <2>1. \E e \in items : Alias(e) = a
      BY <1>2
    <2>2. shown[a] = CHOOSE e \in items : Alias(e) = a
      BY <1>1, <1>2
    <2>3. shown[a] \in items /\ Alias(shown[a]) = a
      BY <2>1, <2>2
    <2>4. Alias(shown[a])[1] = shown[a].category
      OBVIOUS
    <2> QED BY <1>5, <2>3, <2>4
  <1>7. ASSUME NEW e \in Usable(input)
        PROVE  AliasesOf(e.category) # {}
    <2>1. PICK f \in Firsts(input) : f.category = e.category
      BY FirstsOfCategories
    <2>2. f \in items
      BY PromptIsFirstsAndRest
    <2>3. Alias(f) \in Aliases /\ Alias(f)[1] = e.category
      BY <1>2, <2>1, <2>2
    <2> QED BY <2>3 DEF AliasesOf
  <1> QED BY <1>2, <1>4, <1>6, <1>7

(* The prompt stays what generate() made of the evidence. *)
Shows == shown = EvidenceContext(input)

LEMMA PromptStays == Spec => []Shows
  <1>1. Init => Shows
    BY DEF Init, Shows
  <1>2. Shows /\ [Next]_vars => Shows'
    <2> SUFFICES ASSUME Shows, [Next]_vars PROVE Shows'
      OBVIOUS
    <2>1. UNCHANGED <<input, shown>>
      BY DEF Next, Generate, RejectDraft, ModelFails, Fail, GiveUp, TryAgain, Verify, vars
    <2> QED BY <2>1 DEF Shows
  <1> QED BY <1>1, <1>2, PTL DEF Spec

(* With room for one item of each category (MaxItems at least 4; the program's default is   *)
(* 24) the model is shown something of every kind of evidence the verifier asks for         *)
(* (_build_evidence_context).                                                               *)
THEOREM PromptsAreComplete == MaxItems >= 4 => (Spec => []PromptIsComplete)
  <1> SUFFICES ASSUME MaxItems >= 4 PROVE Spec => []PromptIsComplete
    OBVIOUS
  <1>1. IInv /\ Shows => PromptIsComplete
    <2> SUFFICES ASSUME IInv, Shows PROVE PromptServesVerifier
      BY DEF IInv, PromptIsComplete
    <2>1. input \in Inputs
      BY DEF IInv, TypeOK
    <2>2. ASSUME NEW e \in input.pool,
                 e.category # "hotel_reviews" \/ e.hotel = input.selection.hotel.id
          PROVE  AliasesOf(e.category) # {}
      <3>1. e \in Usable(input)
        BY <2>2 DEF Usable
      <3> QED BY <2>1, <3>1, ShortNames DEF Shows
    <2> QED BY <2>1, <2>2, ShortNames DEF Shows, PromptServesVerifier
  <1> QED BY <1>1, Invariant, PromptStays, PTL

--------------------------------------------------------------------------------
(* What the verifier finds in a draft that has passed: one lemma for each group of its      *)
(* checks.                                                                                  *)

LEMMA ElementsOf ==
  ASSUME NEW S, NEW s \in Seq(S)
  PROVE  /\ Len(s) \in Nat /\ DOMAIN s = 1 .. Len(s)
         /\ s = [i \in 1 .. Len(s) |-> s[i]]
         /\ \A i \in DOMAIN s : s[i] \in S
  BY ElementOfSeq, LenProperties

LEMMA FunctionIsSeq ==
  ASSUME NEW S, NEW n \in Nat, NEW f \in [1 .. n -> S]
  PROVE  f \in Seq(S) /\ Len(f) = n
  <1>1. f \in Seq(S)
    BY SeqDef
  <1> QED BY <1>1, LenProperties

(* The answers of the model keep their form when they are normalised. *)
LEMMA NormalisedHasForm ==
  ASSUME NEW d \in Draft
  PROVE  Normalise(d) \in Draft
  <1> DEFINE DayForm == [date : Int, activities : SUBSET Activity, adjusted : BOOLEAN]
             Fix(a) == IF a.refs = {} /\ a.type \in {"food", "leisure", "other"} /\ a.generic
                       THEN [a EXCEPT !.type = "free_time",
                                      !.place = IF @ = "outdoor" THEN "flexible" ELSE @]
                       ELSE a
             days == [i \in DOMAIN d.days |->
                        [d.days[i] EXCEPT !.activities = {Fix(a) : a \in @}]]
  <1>1. ASSUME NEW a \in Activity PROVE Fix(a) \in Activity
    <2> DEFINE place == IF a.place = "outdoor" THEN "flexible" ELSE a.place
    <2>1. place \in IndoorOutdoorType /\ "free_time" \in ActivityType
      BY DEF Activity, ActivityType, IndoorOutdoorType
    <2>2. [a EXCEPT !.type = "free_time", !.place = place] \in Activity
      <3> HIDE DEF place
      <3> QED BY <2>1 DEF Activity
    <2> QED BY <2>2
  <1>2. d.days \in Seq(DayForm)
    BY DEF Draft
  <1>5. Normalise(d) = [d EXCEPT !.days = days]
    BY DEF Normalise
  <1> HIDE DEF Fix
  <1>3. ASSUME NEW i \in DOMAIN d.days PROVE days[i] \in DayForm
    <2>1. d.days[i] \in DayForm
      <3> HIDE DEF DayForm
      <3> QED BY <1>2, ElementsOf
    <2>2. {Fix(a) : a \in d.days[i].activities} \in SUBSET Activity
      BY <1>1, <2>1
    <2> QED BY <2>1, <2>2
  <1>4. days \in Seq(DayForm)
    <2>1. Len(d.days) \in Nat /\ DOMAIN d.days = 1 .. Len(d.days)
      <3> HIDE DEF DayForm
      <3> QED BY <1>2, ElementsOf
    <2>2. days \in [1 .. Len(d.days) -> DayForm]
      <3>1. days = [i \in 1 .. Len(d.days) |-> days[i]]
        BY <2>1
      <3> HIDE DEF DayForm, days
      <3> QED BY <1>3, <2>1, <3>1
    <2> HIDE DEF DayForm, days
    <2> QED BY <2>1, <2>2, FunctionIsSeq
  <1> HIDE DEF days
  <1> QED BY <1>4, <1>5 DEF Draft

(* What the generator has put together from a draft that passed. *)
Built(n) ==
  /\ n \in Draft /\ DraftValid(input, n)
  /\ proposal = Assemble(input, Resolve(n)) /\ result = GenerationResult(proposal)

PassedDraft ==
  phase = "verifier" => \E d \in Drafts(input) : Built(Normalise(d))

LEMMA DraftsPass == Spec => []PassedDraft
  <1>1. Init => PassedDraft
    BY DEF Init, PassedDraft
  <1>2. IInv /\ PassedDraft /\ [Next]_vars => PassedDraft'
    <2> SUFFICES ASSUME IInv, PassedDraft, [Next]_vars PROVE PassedDraft'
      OBVIOUS
    <2>1. ASSUME NEW d \in Drafts(input), Generate(d) PROVE PassedDraft'
      <3>1. d \in Draft
        BY DraftsHaveForm DEF IInv, TypeOK
      <3>2. Normalise(d) \in Draft
        BY <3>1, NormalisedHasForm
      <3>3. DraftValid(input, Normalise(d))
        BY <2>1 DEF Generate
      <3>4. UNCHANGED <<input, shown>>
        BY <2>1 DEF Generate
      <3>5. DraftValid(input, Normalise(d))'
        BY <3>3, <3>4 DEF DraftValid, HotelValid, DayValid, ActivityValid, NotesValid,
           RequirementsValid, Aliases, AliasesOf
      <3>6. proposal' = Assemble(input, Resolve(Normalise(d))) /\ result' = GenerationResult(proposal')
        BY <2>1 DEF Generate
      <3>7. Resolve(Normalise(d))' = Resolve(Normalise(d))
        BY <3>4 DEF Resolve, RealDays, RealAnswers, RealActivities, RealNotes, Real, Chunk
      <3> QED BY <3>2, <3>4, <3>5, <3>6, <3>7 DEF PassedDraft, Built
    <2>2. ASSUME phase = "proposal", Fail PROVE phase' # "verifier"
      BY <2>2 DEF Fail, GiveUp, TryAgain
    <2>3. CASE Verify
      <3>1. phase' # "verifier"
        BY <2>3 DEF Verify, NextAction
      <3> QED BY <3>1 DEF PassedDraft
    <2>4. CASE UNCHANGED vars
      <3> SUFFICES ASSUME phase = "verifier"
                   PROVE  \E d \in Drafts(input) : Built(Normalise(d))'
        BY <2>4 DEF vars, PassedDraft
      <3>1. PICK d \in Drafts(input) : Built(Normalise(d))
        BY DEF PassedDraft
      <3>2. UNCHANGED <<input, shown, proposal, result>>
        BY <2>4 DEF vars
      <3>3. DraftValid(input, Normalise(d))' <=> DraftValid(input, Normalise(d))
        BY <3>2 DEF DraftValid, HotelValid, DayValid, ActivityValid, NotesValid,
           RequirementsValid, Aliases, AliasesOf
      <3>4. Resolve(Normalise(d))' = Resolve(Normalise(d))
        BY <3>2 DEF Resolve, RealDays, RealAnswers, RealActivities, RealNotes, Real, Chunk
      <3> QED BY <3>1, <3>2, <3>3, <3>4 DEF Built
    <2> QED BY <2>1, <2>2, <2>3, <2>4 DEF Next, RejectDraft, ModelFails, PassedDraft
  <1> QED BY <1>1, <1>2, Invariant, PTL DEF Spec

LEMMA RefsOfNotes ==
  ASSUME NEW notes
  PROVE  NoteRefs(RealNotes(notes)) = Real(NoteRefs(notes))
  BY DEF NoteRefs, RealNotes, Real

(* The proposal in terms of the draft. *)
LEMMA Assembled ==
  ASSUME NEW n, Built(n)
  PROVE  /\ proposal.locked = LockedContext(input) /\ proposal.version = input.version
         /\ DOMAIN proposal.days = DOMAIN n.days
         /\ \A i \in DOMAIN n.days :
              /\ proposal.days[i].date = n.days[i].date
              /\ proposal.days[i].adjusted = n.days[i].adjusted
              /\ proposal.days[i].weather = LockedContext(input).weather.daily[n.days[i].date]
              /\ proposal.days[i].activities = RealActivities(n.days[i].activities)
         /\ proposal.hotel = RealNotes(n.hotel)
         /\ proposal.packing = RealNotes(n.packing)
         /\ proposal.safety = RealNotes(n.safety)
         /\ DOMAIN proposal.handled = DOMAIN n.handled
         /\ \A i \in DOMAIN n.handled : /\ proposal.handled[i].key = n.handled[i].key
                                        /\ proposal.handled[i].refs = Real(n.handled[i].refs)
         /\ proposal.sources = Sources(input, CollectRefs(Resolve(n)))
         /\ proposal.activitySources = SourceDefaults(ActivitySources(input, Resolve(n)))
  <1> DEFINE r == Resolve(n)
             DayForm == [date : Int, activities : SUBSET Activity, adjusted : BOOLEAN]
             Answer == [key : STRING \X STRING \X Nat, refs : Note]
             days == RealDays(n.days)
             handled == RealAnswers(n.handled)
  <1>1. r = [n EXCEPT !.days = days, !.handled = handled, !.hotel = RealNotes(n.hotel),
                      !.packing = RealNotes(n.packing), !.safety = RealNotes(n.safety)]
    BY DEF Resolve
  <1>2. n \in Draft /\ proposal = Assemble(input, r)
    BY DEF Built
  <1>3. n.days \in Seq(DayForm) /\ n.handled \in Seq(Answer)
    BY <1>2 DEF Draft
  <1>4. r.days = days /\ r.hotel = RealNotes(n.hotel) /\ r.packing = RealNotes(n.packing)
        /\ r.safety = RealNotes(n.safety) /\ r.handled = handled
    <2> HIDE DEF days, handled, r
    <2>1. DOMAIN n = {"days", "hotel", "packing", "safety", "handled", "claims"}
      BY <1>2 DEF Draft
    <2> QED BY <1>1, <2>1
  <1>5. ASSUME NEW i \in DOMAIN n.days
        PROVE  /\ days[i].date = n.days[i].date /\ days[i].adjusted = n.days[i].adjusted
               /\ days[i].activities = RealActivities(n.days[i].activities)
    <2>1. n.days[i] \in DayForm
      <3> HIDE DEF DayForm
      <3> QED BY <1>3, ElementsOf
    <2> QED BY <2>1 DEF RealDays
  <1>6. ASSUME NEW i \in DOMAIN n.handled
        PROVE  handled[i].key = n.handled[i].key /\ handled[i].refs = Real(n.handled[i].refs)
    <2>1. n.handled[i] \in Answer
      <3> HIDE DEF Answer
      <3> QED BY <1>3, ElementsOf
    <2> QED BY <2>1 DEF RealAnswers
  <1>7. DOMAIN days = DOMAIN n.days /\ DOMAIN handled = DOMAIN n.handled
    BY DEF RealDays, RealAnswers
  <1> HIDE DEF days, handled, r
  <1>8. /\ proposal.locked = LockedContext(input) /\ proposal.version = input.version
        /\ proposal.hotel = r.hotel /\ proposal.packing = r.packing /\ proposal.safety = r.safety
        /\ proposal.handled = r.handled
        /\ proposal.sources = Sources(input, CollectRefs(r))
        /\ proposal.activitySources = SourceDefaults(ActivitySources(input, r))
    BY <1>2 DEF Assemble
  <1>9. proposal.days = [i \in DOMAIN days |->
                  [date |-> days[i].date, activities |-> days[i].activities,
                   adjusted |-> days[i].adjusted,
                   weather |-> LockedContext(input).weather.daily[days[i].date]]]
    BY <1>2, <1>4 DEF Assemble
  <1>10. \A i \in DOMAIN n.days :
              /\ proposal.days[i].date = n.days[i].date
              /\ proposal.days[i].adjusted = n.days[i].adjusted
              /\ proposal.days[i].weather = LockedContext(input).weather.daily[n.days[i].date]
              /\ proposal.days[i].activities = RealActivities(n.days[i].activities)
    BY SMTT(30), <1>5, <1>7, <1>9
  <1>11. DOMAIN proposal.days = DOMAIN n.days
    BY <1>7, <1>9
  <1> QED BY <1>4, <1>6, <1>7, <1>8, <1>10, <1>11 DEF r

LEMMA WhenFalse ==
  ASSUME NEW condition, ~condition, NEW type, NEW target
  PROVE  When(condition, type, target) = {}
  BY DEF When

LEMMA EachOfNone ==
  ASSUME NEW places, places = {}, NEW type, NEW target
  PROVE  Each(places, type, target) = {}
  BY DEF Each

(* Activities keep all but their short names. *)
LEMMA ActivitiesKept ==
  ASSUME NEW n, Built(n), NEW i \in DOMAIN n.days
  PROVE  /\ \A a \in proposal.days[i].activities : \E b \in n.days[i].activities :
              /\ a.type = b.type /\ a.tool = b.tool /\ a.title = b.title /\ a.place = b.place
              /\ a.refs = Real(b.refs)
         /\ \A a \in proposal.days[i].activities : a.claims \in SUBSET Claim
         /\ \A b \in n.days[i].activities : \E a \in proposal.days[i].activities : a.place = b.place
  <1> DEFINE DayForm == [date : Int, activities : SUBSET Activity, adjusted : BOOLEAN]
  <1>1. n.days \in Seq(DayForm)
    BY DEF Built, Draft
  <1>2. n.days[i] \in DayForm
    <2> HIDE DEF DayForm
    <2> QED BY <1>1, ElementsOf
  <1>3. \A b \in n.days[i].activities : b \in Activity
    BY <1>2
  <1>4. proposal.days[i].activities = {[b EXCEPT !.refs = Real(b.refs)] : b \in n.days[i].activities}
    BY Assembled DEF RealActivities
  <1>5. ASSUME NEW b \in Activity, NEW a, a = [b EXCEPT !.refs = Real(b.refs)]
        PROVE  /\ a.type = b.type /\ a.tool = b.tool /\ a.title = b.title /\ a.place = b.place
               /\ a.refs = Real(b.refs) /\ a.claims \in SUBSET Claim
    BY <1>5 DEF Activity
  <1>6. ASSUME NEW a \in proposal.days[i].activities
        PROVE  \E b \in n.days[i].activities :
                 /\ a.type = b.type /\ a.tool = b.tool /\ a.title = b.title /\ a.place = b.place
                 /\ a.refs = Real(b.refs) /\ a.claims \in SUBSET Claim
    <2>1. PICK b \in n.days[i].activities : a = [b EXCEPT !.refs = Real(b.refs)]
      BY <1>4
    <2> QED BY <1>3, <1>5, <2>1
  <1>7. ASSUME NEW b \in n.days[i].activities
        PROVE  \E a \in proposal.days[i].activities : a.place = b.place
    <2>1. [b EXCEPT !.refs = Real(b.refs)] \in proposal.days[i].activities
      BY <1>4
    <2> QED BY <1>3, <1>5, <2>1
  <1> QED BY <1>6, <1>7

(* The proposal refers to what the resolved draft refers to. *)
LEMMA SameReferences ==
  ASSUME NEW n, Built(n)
  PROVE  /\ Activities(proposal) = Activities(Resolve(n))
         /\ UsedTools(proposal.days) = UsedTools(Resolve(n).days)
         /\ proposal.hotel = Resolve(n).hotel /\ proposal.packing = Resolve(n).packing
         /\ proposal.safety = Resolve(n).safety /\ proposal.handled = Resolve(n).handled
         /\ proposal.claims = Resolve(n).claims
         /\ CollectRefs(proposal) = CollectRefs(Resolve(n))
  <1> DEFINE r == Resolve(n)
  <1>1. proposal = Assemble(input, r)
    BY DEF Built
  <1> HIDE DEF r
  <1>2. DOMAIN proposal.days = DOMAIN r.days
        /\ \A i \in DOMAIN r.days : proposal.days[i].activities = r.days[i].activities
    BY <1>1 DEF Assemble
  <1>3. {proposal.days[i].activities : i \in DOMAIN proposal.days}
          = {r.days[i].activities : i \in DOMAIN r.days}
    BY <1>2
  <1>4. Activities(proposal) = Activities(r) /\ UsedTools(proposal.days) = UsedTools(r.days)
    BY <1>3 DEF Activities, UsedTools
  <1>5. /\ proposal.hotel = r.hotel /\ proposal.packing = r.packing
        /\ proposal.safety = r.safety /\ proposal.handled = r.handled /\ proposal.claims = r.claims
    BY <1>1 DEF Assemble
  <1> QED BY <1>4, <1>5 DEF r, CollectRefs

(* A short name stands for a chunk the generator may use, of the same category. *)
LEMMA NamesAreUsable ==
  ASSUME input \in Inputs, Shows, MaxItems >= 4
  PROVE  /\ \A refs \in SUBSET Aliases : Real(refs) \subseteq {e.chunk : e \in Usable(input)}
         /\ \A c : \A a \in AliasesOf(c) : \E e \in Usable(input) : e.category = c /\ Chunk(a) = e.chunk
  BY ShortNames DEF Shows, Real, Chunk, AliasesOf

LEMMA RefsAreUsable ==
  ASSUME NEW n, Built(n), input \in Inputs, Shows, MaxItems >= 4
  PROVE  CollectRefs(proposal) \subseteq {e.chunk : e \in Usable(input)}
  <1> DEFINE U == {e.chunk : e \in Usable(input)}
             refs == UNION {a.refs : a \in Activities(n)}
             more == UNION {n.handled[i].refs : i \in DOMAIN n.handled}
  <1>1. CollectRefs(n) \subseteq Aliases
    BY DEF Built, DraftValid
  <1>2. /\ refs \subseteq Aliases /\ NoteRefs(n.hotel) \subseteq Aliases
        /\ NoteRefs(n.packing) \subseteq Aliases /\ NoteRefs(n.safety) \subseteq Aliases
        /\ more \subseteq Aliases
    <2>1. CollectRefs(n) = refs \cup NoteRefs(n.hotel) \cup NoteRefs(n.packing)
                             \cup NoteRefs(n.safety) \cup more
      BY DEF CollectRefs
    <2> HIDE DEF refs, more
    <2> QED BY <1>1, <2>1
  <1>3. /\ NoteRefs(proposal.hotel) \subseteq U /\ NoteRefs(proposal.packing) \subseteq U
        /\ NoteRefs(proposal.safety) \subseteq U
    <2>1. /\ NoteRefs(proposal.hotel) = Real(NoteRefs(n.hotel))
          /\ NoteRefs(proposal.packing) = Real(NoteRefs(n.packing))
          /\ NoteRefs(proposal.safety) = Real(NoteRefs(n.safety))
      BY Assembled, RefsOfNotes
    <2> HIDE DEF U
    <2> QED BY <1>2, <2>1, NamesAreUsable DEF U
  <1>4. ASSUME NEW a \in Activities(proposal) PROVE a.refs \subseteq U
    <2>1. PICK i \in DOMAIN n.days : a \in proposal.days[i].activities
      BY Assembled DEF Activities
    <2>2. PICK b \in n.days[i].activities : a.refs = Real(b.refs)
      BY <2>1, ActivitiesKept
    <2>3. b.refs \subseteq refs
      BY <2>2 DEF Activities
    <2> HIDE DEF refs
    <2> QED BY <1>2, <2>2, <2>3, NamesAreUsable
  <1>5. ASSUME NEW i \in DOMAIN proposal.handled PROVE proposal.handled[i].refs \subseteq U
    <2>1. i \in DOMAIN n.handled /\ proposal.handled[i].refs = Real(n.handled[i].refs)
      BY Assembled
    <2>2. n.handled[i].refs \subseteq more
      BY <2>1
    <2> HIDE DEF more
    <2> QED BY <1>2, <2>1, <2>2, NamesAreUsable
  <1>6. /\ UNION {a.refs : a \in Activities(proposal)} \subseteq U
        /\ UNION {proposal.handled[i].refs : i \in DOMAIN proposal.handled} \subseteq U
    BY <1>4, <1>5
  <1> QED BY <1>3, <1>6 DEF CollectRefs

(* The result, the lineage, the locked facts and the budget are in order. *)
LEMMA FactsInOrder ==
  ASSUME NEW n, Built(n), input \in Inputs
  PROVE  /\ ResultIssues(proposal, result) = {} /\ LineageIssues(input, proposal) = {}
         /\ LockedIssues(input, proposal) = {} /\ BudgetIssues(input, proposal) = {}
  <1>1. proposal.locked = LockedContext(input)
    BY Assembled
  <1>2. /\ proposal.locked.selected = SelectedFacts(input.selection)
        /\ proposal.locked.budget = input.selection.budget
    BY <1>1 DEF LockedContext
  <1>3. ResultIssues(proposal, result) = {}
    <2>1. result = GenerationResult(proposal)
      BY DEF Built
    <2>2. /\ result.status = "generated" /\ result.used = CollectRefs(proposal)
          /\ result.id = proposal.id /\ result.locked = proposal.locked /\ result.days = Len(proposal.days)
      BY <2>1 DEF GenerationResult
    <2> DEFINE fields == [id |-> proposal.id, locked |-> proposal.locked, days |-> Len(proposal.days)]
    <2>3. Differing(fields, result) = {}
      BY <2>2 DEF Differing
    <2>4. ResultIssues(proposal, result) =
            When(result.status # "generated", "proposal_result_not_generated", "proposal")
            \cup Each(Differing(fields, result), "proposal_result_mismatch", "proposal")
            \cup When(result.used # CollectRefs(proposal), "proposal_result_evidence_mismatch", "proposal")
      BY DEF ResultIssues
    <2> HIDE DEF fields
    <2> QED BY <2>2, <2>3, <2>4, WhenFalse, EachOfNone
  <1>4. LineageIssues(input, proposal) = {}
    <2> DEFINE facts == SelectedFacts(input.selection)
               ids == [leg \in DOMAIN facts |-> facts[leg].id]
               outside == {leg \in DOMAIN ids : ids[leg] \notin input.ranked[leg]}
    <2>1. input.selection.combination = ids /\ outside = {}
      BY SelectionIsSound
    <2>2. LineageIssues(input, proposal)
            = Each(outside, "selected_candidate_not_in_ranked_pool", "budget_optimize")
              \cup Each(Differing(ids, input.selection.combination),
                        "selected_combination_id_mismatch", "budget_optimize")
      BY <1>2 DEF LineageIssues
    <2> HIDE DEF outside, ids
    <2>3. Differing(ids, input.selection.combination) = {}
      BY <2>1 DEF Differing
    <2> QED BY <2>1, <2>2, <2>3, EachOfNone
  <1>5. LockedIssues(input, proposal) = {}
    <2>1. Differing(LockedContext(input), proposal.locked) = {}
      BY <1>1 DEF Differing
    <2> QED BY <1>1, <2>1, WhenFalse, EachOfNone DEF LockedIssues
  <1>6. BudgetIssues(input, proposal) = {}
    <2>1. BudgetProblems(input.selection.budget, SelectedFacts(input.selection),
                         input.selection.budget) = {}
      BY SelectionIsSound
    <2> QED BY <1>2, <2>1 DEF BudgetIssues
  <1> QED BY <1>3, <1>4, <1>5, <1>6

LEMMA TypeOfWhen ==
  ASSUME NEW condition, NEW type, NEW target, NEW i \in When(condition, type, target)
  PROVE  i.type = type /\ condition
  BY DEF When, Issue

LEMMA TypeOfEach ==
  ASSUME NEW places, NEW type, NEW target, NEW i \in Each(places, type, target)
  PROVE  i.type = type /\ places # {}
  BY DEF Each, Issue

LEMMA DatesInOrder ==
  ASSUME NEW n, Built(n)
  PROVE  /\ DOMAIN proposal.days = 1 .. input.days
         /\ \A i \in 1 .. input.days :
              /\ n.days[i].date = i /\ proposal.days[i].date = i
              /\ proposal.days[i].weather = DayWeather(input, i)
  <1> DEFINE dates == [i \in DOMAIN n.days |-> n.days[i].date]
  <1>1. dates = [i \in 1 .. input.days |-> i]
    BY DEF Built, DraftValid, LockedContext
  <1>2. DOMAIN n.days = 1 .. input.days /\ \A i \in 1 .. input.days : n.days[i].date = i
    <2>1. DOMAIN dates = 1 .. input.days /\ \A i \in 1 .. input.days : dates[i] = i
      <3> HIDE DEF dates
      <3> QED BY <1>1
    <2> QED BY <2>1
  <1>3. \A i \in 1 .. input.days : LockedContext(input).weather.daily[i] = DayWeather(input, i)
    BY DEF LockedContext, WeatherOverview
  <1>4. DOMAIN proposal.days = 1 .. input.days
    BY <1>2, Assembled
  <1>5. ASSUME NEW i \in 1 .. input.days
        PROVE  proposal.days[i].date = i /\ proposal.days[i].weather = DayWeather(input, i)
    <2>0. i \in DOMAIN n.days
      BY <1>2
    <2>1. /\ proposal.days[i].date = n.days[i].date
          /\ proposal.days[i].weather = LockedContext(input).weather.daily[n.days[i].date]
      BY <2>0, Assembled
    <2> QED BY <1>2, <1>3, <2>1
  <1> QED BY <1>2, <1>4, <1>5

(* An activity about the place without a guide has a tool. *)
BareActivity == \E a \in Activities(proposal) : a.type \in Knowledge /\ a.tool \in DOMAIN input.activities

LEMMA ItineraryInOrder ==
  ASSUME NEW n, Built(n), input \in Inputs, Shows, MaxItems >= 4
  PROVE  \A x \in ItineraryIssues(input, proposal) :
           x.type = "knowledge_activity_missing_guide" /\ BareActivity
  <1> DEFINE known == {i \in DOMAIN proposal.days : proposal.days[i].date \in 1 .. input.days}
             Risks(i) == DayWeather(input, proposal.days[i].date).risks
             c1 == [i \in DOMAIN proposal.days |-> proposal.days[i].date] # LockedContext(input).dates
             c2 == {i \in known : proposal.days[i].weather # DayWeather(input, proposal.days[i].date)}
             c3 == {i \in known : Risks(i) \cap Adjustable # {} /\ ~proposal.days[i].adjusted}
             c4 == {i \in known : Risks(i) \cap Rain # {} /\ AllOutdoor(proposal.days[i].activities)}
             c5 == {x \in Planned(proposal) : x[1] \in 1 .. input.days /\ x[2].type \in Knowledge
                                             /\ x[2].refs \cap ChunksOf(input, "guides") = {}}
  <1>1. /\ DOMAIN proposal.days = 1 .. input.days /\ DOMAIN n.days = 1 .. input.days
        /\ \A i \in 1 .. input.days :
             /\ n.days[i].date = i /\ proposal.days[i].date = i
             /\ proposal.days[i].weather = DayWeather(input, i)
    BY DatesInOrder, Assembled
  <1>2. ~c1
    <2>1. LockedContext(input).dates = [i \in 1 .. input.days |-> i]
      BY DEF LockedContext
    <2> QED BY <1>1, <2>1
  <1>3. c2 = {}
    BY <1>1
  <1>4. \A i \in DOMAIN n.days : /\ DayValid(input, n.days[i])
                                 /\ \A a \in n.days[i].activities : ActivityValid(input, n.days[i].date, a)
    BY DEF Built, DraftValid
  <1>5. c3 = {}
    <2>1. \A i \in DOMAIN n.days : proposal.days[i].adjusted = n.days[i].adjusted
      BY Assembled
    <2> QED BY <1>1, <1>4, <2>1 DEF DayValid
  <1>6. c4 = {}
    <2> SUFFICES ASSUME NEW i \in 1 .. input.days, DayWeather(input, i).risks \cap Rain # {},
                        AllOutdoor(proposal.days[i].activities)
                 PROVE  FALSE
      BY <1>1
    <2>0. i \in DOMAIN n.days
      BY <1>1
    <2>1. /\ \A a \in proposal.days[i].activities : \E b \in n.days[i].activities : a.place = b.place
          /\ \A b \in n.days[i].activities : \E a \in proposal.days[i].activities : a.place = b.place
      BY <2>0, ActivitiesKept
    <2>2. AllOutdoor(n.days[i].activities)
      BY <2>1 DEF AllOutdoor
    <2> QED BY <1>1, <1>4, <2>2 DEF DayValid
  <1>7. c5 # {} => BareActivity
    <2> SUFFICES ASSUME NEW i \in 1 .. input.days, NEW a \in proposal.days[i].activities,
                        a.type \in Knowledge, a.refs \cap ChunksOf(input, "guides") = {}
                 PROVE  BareActivity
      BY <1>1 DEF Planned
    <2>0. i \in DOMAIN n.days
      BY <1>1
    <2>1. PICK b \in n.days[i].activities : a.type = b.type /\ a.tool = b.tool /\ a.refs = Real(b.refs)
      BY <2>0, ActivitiesKept
    <2>2. b.refs \cap AliasesOf("guides") # {} \/ ToolOf(input, b) # {}
      BY <1>1, <1>4, <2>1 DEF ActivityValid
    <2>3. ASSUME NEW x \in b.refs \cap AliasesOf("guides") PROVE FALSE
      <3>1. PICK e \in Usable(input) : e.category = "guides" /\ Chunk(x) = e.chunk
        BY NamesAreUsable
      <3>2. Chunk(x) \in ChunksOf(input, "guides")
        BY <3>1 DEF ChunksOf, OfCategory, Usable
      <3> QED BY <2>1, <3>2 DEF Real
    <2>4. a.tool \in DOMAIN input.activities
      BY <2>1, <2>2, <2>3 DEF ToolOf
    <2> QED BY <1>1, <2>4 DEF BareActivity, Activities
  <1>8. ItineraryIssues(input, proposal) =
          When(c1, "daily_dates_mismatch", "proposal")
          \cup Each(c2, "daily_weather_mismatch", "proposal")
          \cup Each(c3, "weather_adjustment_missing", "proposal")
          \cup Each(c4, "rain_day_all_outdoor", "proposal")
          \cup Each(c5, "knowledge_activity_missing_guide", "proposal")
    BY DEF ItineraryIssues
  <1> HIDE DEF c1, c2, c3, c4, c5
  <1> QED BY <1>2, <1>3, <1>5, <1>6, <1>7, <1>8, WhenFalse, EachOfNone, TypeOfEach

LEMMA SourcesInOrder ==
  ASSUME NEW n, Built(n), input \in Inputs, Shows, MaxItems >= 4
  PROVE  SourceIssues(input, proposal) = {}
  <1> DEFINE used == CollectRefs(proposal)
             rec(e) == [chunk |-> e.chunk, category |-> e.category, hotel |-> e.hotel,
                        quality |-> e.quality]
             E == {e \in Usable(input) : e.chunk \in used}
             sources == {rec(e) : e \in E}
             listed == {s.chunk : s \in sources}
             facts == {rec(e) : e \in input.pool}
             wrong == {s \in sources : s.chunk \in EvidenceIds(input) /\ s \notin facts}
  <1>1. used \subseteq {e.chunk : e \in Usable(input)}
    BY RefsAreUsable
  <1>2. proposal.sources = sources
    BY Assembled, SameReferences DEF Sources
  <1>3. used \subseteq EvidenceIds(input)
    BY <1>1 DEF EvidenceIds, Usable
  <1>4. \A s \in sources : \E e \in E : s = rec(e) /\ s.chunk = e.chunk
    OBVIOUS
  <1>5. listed = used
    <2>1. ASSUME NEW c \in used PROVE c \in listed
      <3>1. PICK e \in E : e.chunk = c
        BY <1>1
      <3>2. rec(e) \in sources /\ rec(e).chunk = c
        BY <3>1
      <3> QED BY <3>2
    <2>2. listed \subseteq used
      BY <1>4
    <2> QED BY <2>1, <2>2
  <1>6. wrong = {}
    <2>1. E \subseteq input.pool
      BY DEF Usable
    <2> QED BY <1>4, <2>1
  <1>7. Cardinality(listed) = Cardinality(sources)
    <2> DEFINE f == [e \in E |-> rec(e)]
               g == [s \in sources |-> s.chunk]
    <2>1. E \in SUBSET input.pool
      BY DEF Usable
    <2>2. IsFiniteSet(E)
      BY <2>1, EvidenceIsListed, FS_Subset
    <2>3. f \in Surjection(E, sources)
      BY DEF Surjection
    <2>4. IsFiniteSet(sources)
      <3> HIDE DEF f, E, sources
      <3> QED BY <2>2, <2>3, FS_Surjection
    <2>5. ASSUME NEW s \in sources, NEW t \in sources, s.chunk = t.chunk PROVE s = t
      <3>1. PICK e1 \in E : s = rec(e1) /\ s.chunk = e1.chunk
        BY <1>4
      <3>2. PICK e2 \in E : t = rec(e2) /\ t.chunk = e2.chunk
        BY <1>4
      <3>3. e1 = e2
        BY <2>1, <2>5, <3>1, <3>2, ChunksAreUnique
      <3> QED BY <3>1, <3>2, <3>3
    <2>6. g \in Bijection(sources, listed)
      <3> HIDE DEF sources
      <3> QED BY <2>5 DEF Bijection, Injection, Surjection, IsInjective
    <2>7. ExistsBijection(sources, listed)
      BY <2>6 DEF ExistsBijection
    <2> HIDE DEF sources, listed
    <2> QED BY <2>4, <2>7, FS_Bijection
  <1>8. SourceIssues(input, proposal) =
          When(~(used \subseteq EvidenceIds(input)), "unknown_evidence_ref", "proposal")
          \cup When(Cardinality(listed) # Cardinality(sources), "duplicate_source_ref", "proposal")
          \cup When(listed # used, "source_catalog_mismatch", "proposal")
          \cup Each(wrong, "source_metadata_mismatch", "proposal")
    BY <1>2 DEF SourceIssues
  <1> HIDE DEF wrong, listed, used, sources
  <1> QED BY <1>3, <1>5, <1>6, <1>7, <1>8, WhenFalse, EachOfNone

LEMMA EmptyNotes ==
  ASSUME NEW notes \in Seq(Note)
  PROVE  RealNotes(notes) = <<>> <=> notes = <<>>
  <1>1. DOMAIN notes = 1 .. Len(notes) /\ notes = [i \in 1 .. Len(notes) |-> notes[i]]
    BY ElementsOf
  <1>2. RealNotes(notes) = [i \in 1 .. Len(notes) |-> Real(notes[i])]
    BY <1>1 DEF RealNotes
  <1>3. DOMAIN <<>> = {}
    OBVIOUS
  <1>4. ASSUME 1 .. Len(notes) = {} PROVE RealNotes(notes) = <<>> /\ notes = <<>>
    <2>1. notes = [i \in {} |-> notes[i]] /\ RealNotes(notes) = [i \in {} |-> Real(notes[i])]
      BY <1>1, <1>2, <1>4
    <2> QED BY <2>1
  <1>5. ASSUME RealNotes(notes) = <<>> \/ notes = <<>> PROVE 1 .. Len(notes) = {}
    BY <1>1, <1>2, <1>3, <1>5
  <1> QED BY <1>4, <1>5

LEMMA UseInOrder ==
  ASSUME NEW n, Built(n), input \in Inputs, Shows, MaxItems >= 4
  PROVE  UseIssues(input, proposal) = {}
  <1> DEFINE hotelId == input.selection.hotel.id
             reviews == {e.chunk : e \in {e \in OfCategory(input.pool, "hotel_reviews") :
                                     e.hotel = proposal.locked.selected.hotel.id}}
             safety  == ChunksOf(input, "safety_notices")
             packing == ChunksOf(input, "packing_checklists")
             risky   == proposal.locked.weather.risks # {}
             c1 == reviews # {} /\ proposal.hotel = <<>>
             c2 == reviews # {} /\ (NoteRefs(proposal.hotel) = {} \/ ~(NoteRefs(proposal.hotel) \subseteq reviews))
             c3 == reviews = {} /\ proposal.hotel # <<>>
             c4 == risky /\ proposal.safety = <<>>
             c5 == risky /\ safety # {} /\ NoteRefs(proposal.safety) \cap safety = {}
             c6 == packing # {} /\ NoteRefs(proposal.packing) \cap packing = {}
  <1>1. /\ HotelValid(n) /\ NotesValid(input, n)
        /\ n.hotel \in Seq(Note) /\ n.packing \in Seq(Note) /\ n.safety \in Seq(Note)
    BY DEF Built, DraftValid, Draft
  <1>2. /\ proposal.locked.selected.hotel.id = hotelId
        /\ proposal.locked.weather.risks = WeatherOverview(input).risks
    <2>1. proposal.locked = LockedContext(input)
      BY Assembled
    <2> QED BY <2>1 DEF LockedContext, SelectedFacts
  <1>3. /\ NoteRefs(proposal.hotel) = Real(NoteRefs(n.hotel))
        /\ NoteRefs(proposal.packing) = Real(NoteRefs(n.packing))
        /\ NoteRefs(proposal.safety) = Real(NoteRefs(n.safety))
        /\ proposal.hotel = <<>> <=> n.hotel = <<>>
        /\ proposal.safety = <<>> <=> n.safety = <<>>
    BY <1>1, Assembled, RefsOfNotes, EmptyNotes
  <1>4. ASSUME NEW x \in AliasesOf("hotel_reviews") PROVE Chunk(x) \in reviews
    <2>1. PICK e \in Usable(input) : e.category = "hotel_reviews" /\ Chunk(x) = e.chunk
      BY NamesAreUsable
    <2>2. e \in input.pool /\ e.hotel = hotelId
      BY <2>1 DEF Usable
    <2> QED BY <1>2, <2>1, <2>2 DEF OfCategory
  <1>5. reviews # {} => AliasesOf("hotel_reviews") # {}
    <2> SUFFICES ASSUME reviews # {} PROVE AliasesOf("hotel_reviews") # {}
      OBVIOUS
    <2>1. PICK e \in input.pool : e.category = "hotel_reviews" /\ e.hotel = hotelId
      BY <1>2 DEF OfCategory
    <2>2. e \in Usable(input)
      BY <2>1 DEF Usable
    <2> QED BY <2>1, <2>2, ShortNames DEF Shows
  <1>6. ASSUME NEW c, c # "hotel_reviews", ChunksOf(input, c) # {}
        PROVE  AliasesOf(c) # {}
    <2>1. PICK e \in input.pool : e.category = c
      BY <1>6 DEF ChunksOf, OfCategory
    <2>2. e \in Usable(input)
      BY <1>6, <2>1 DEF Usable
    <2> QED BY <2>1, <2>2, ShortNames DEF Shows
  <1>7. ASSUME NEW c, NEW x \in AliasesOf(c)
        PROVE  Chunk(x) \in ChunksOf(input, c)
    <2>1. PICK e \in Usable(input) : e.category = c /\ Chunk(x) = e.chunk
      BY NamesAreUsable
    <2> QED BY <2>1 DEF ChunksOf, OfCategory, Usable
  <1>8. ~c1 /\ ~c2 /\ ~c3
    <2>1. CASE reviews = {}
      <3>1. n.hotel = <<>>
        BY <1>1, <1>4, <2>1 DEF HotelValid
      <3> QED BY <1>3, <2>1, <3>1
    <2>2. CASE reviews # {}
      <3>1. n.hotel # <<>> /\ NoteRefs(n.hotel) # {} /\ NoteRefs(n.hotel) \subseteq AliasesOf("hotel_reviews")
        BY <1>1, <1>5, <2>2 DEF HotelValid
      <3>2. Real(NoteRefs(n.hotel)) # {} /\ Real(NoteRefs(n.hotel)) \subseteq reviews
        <4> HIDE DEF reviews
        <4> QED BY <1>4, <3>1 DEF Real
      <3> QED BY <1>3, <2>2, <3>1, <3>2
    <2> QED BY <2>1, <2>2
  <1>9. ~c4 /\ ~c5
    <2> SUFFICES ASSUME risky PROVE /\ proposal.safety # <<>>
                                    /\ safety # {} => NoteRefs(proposal.safety) \cap safety # {}
      OBVIOUS
    <2>1. /\ n.safety # <<>>
          /\ AliasesOf("safety_notices") # {} => NoteRefs(n.safety) \cap AliasesOf("safety_notices") # {}
      BY <1>1, <1>2 DEF NotesValid
    <2>2. ASSUME safety # {} PROVE NoteRefs(proposal.safety) \cap safety # {}
      <3>1. PICK x \in NoteRefs(n.safety) : x \in AliasesOf("safety_notices")
        BY <1>6, <2>1, <2>2
      <3>2. Chunk(x) \in safety
        BY <1>7, <3>1
      <3> QED BY <1>3, <3>1, <3>2 DEF Real
    <2> QED BY <1>3, <2>1, <2>2
  <1>10. ~c6
    <2> SUFFICES ASSUME packing # {} PROVE NoteRefs(proposal.packing) \cap packing # {}
      OBVIOUS
    <2>1. PICK x \in NoteRefs(n.packing) : x \in AliasesOf("packing_checklists")
      BY <1>1, <1>6 DEF NotesValid
    <2>2. Chunk(x) \in packing
      BY <1>7, <2>1
    <2> QED BY <1>3, <2>1, <2>2 DEF Real
  <1>11. UseIssues(input, proposal) =
           When(c1, "hotel_context_not_generated", "proposal")
           \cup When(c2, "hotel_context_evidence_invalid", "proposal")
           \cup When(c3, "hotel_context_without_evidence", "proposal")
           \cup When(c4, "safety_notes_missing", "proposal")
           \cup When(c5, "safety_evidence_not_used", "proposal")
           \cup When(c6, "packing_evidence_not_used", "proposal")
    BY DEF UseIssues
  <1> HIDE DEF c1, c2, c3, c4, c5, c6
  <1> QED BY <1>8, <1>9, <1>10, <1>11 DEF When

(* No source of the generator is missing, so the schema fills in none. *)
LEMMA NoDefaults ==
  ASSUME NEW in, NEW d
  PROVE  SourceDefaults(ActivitySources(in, d)) = ActivitySources(in, d)
  <1> DEFINE S == ActivitySources(in, d)
             D(s) == [s EXCEPT !.source = IF s.source = None THEN "mcp:search_city_activities"
                                          ELSE s.source]
  <1>1. ASSUME NEW s \in S PROVE D(s) = s
    <2>1. PICK t : s = [id |-> t, name |-> in.activities[t].name, dates |-> in.activities[t].dates,
                        source |-> "mcp:search_city_activities"]
      BY DEF ActivitySources
    <2>2. s.source # None
      BY <2>1 DEF None
    <2>3. D(s) = [s EXCEPT !.source = s.source]
      BY <2>2
    <2>4. [s EXCEPT !.source = s.source] = s
      BY <2>1
    <2> QED BY <2>3, <2>4
  <1>2. SourceDefaults(S) = {D(s) : s \in S}
    BY DEF SourceDefaults
  <1> HIDE DEF S, D
  <1>3. {D(s) : s \in S} = S
    BY <1>1
  <1> QED BY <1>2, <1>3 DEF S

(* A tool the verifier complains of is that of an activity the generator does not look at.  *)
ToolOfOther == \E a \in Activities(proposal) : a.type \notin Knowledge /\ a.tool # None
ToolIssueTypes == {"unknown_tool_activity_id", "tool_activity_date_mismatch",
                   "tool_activity_name_mismatch", "tool_activity_sources_mismatch"}

LEMMA ToolsInOrder ==
  ASSUME NEW n, Built(n), input \in Inputs
  PROVE  \A x \in ToolIssues(input, proposal) : x.type \in ToolIssueTypes /\ ToolOfOther
  <1> DEFINE placed == {x \in Planned(proposal) : x[2].tool # None}
             known == {x \in placed : x[2].tool \in DOMAIN input.activities}
             Fact(x) == input.activities[x[2].tool]
             c1 == placed \ known
             c2 == {x \in known : x[1] \notin Fact(x).dates}
             c3 == {x \in known : x[2].title # Fact(x).name}
             c4 == {s.id : s \in proposal.activitySources} # UsedTools(proposal.days)
  <1>1. ASSUME NEW i \in DOMAIN proposal.days, NEW a \in proposal.days[i].activities,
               a.type \in Knowledge, a.tool # None
        PROVE  /\ a.tool \in DOMAIN input.activities
               /\ proposal.days[i].date \in input.activities[a.tool].dates
               /\ a.title = input.activities[a.tool].name
    <2>1. i \in DOMAIN n.days /\ proposal.days[i].date = n.days[i].date
      BY Assembled
    <2>2. PICK b \in n.days[i].activities : a.type = b.type /\ a.tool = b.tool /\ a.title = b.title
      BY <2>1, ActivitiesKept
    <2>3. ActivityValid(input, n.days[i].date, b)
      BY <2>1, <2>2 DEF Built, DraftValid
    <2> QED BY <1>1, <2>1, <2>2, <2>3 DEF ActivityValid, ToolOf
  <1>2. \A x \in placed : \E i \in DOMAIN proposal.days : \E a \in proposal.days[i].activities :
          x = <<proposal.days[i].date, a>> /\ a.tool # None
    BY DEF Planned
  <1>3. ASSUME NEW x \in placed,
               \/ x[2].tool \notin DOMAIN input.activities
               \/ x[1] \notin Fact(x).dates
               \/ x[2].title # Fact(x).name
        PROVE  ToolOfOther
    <2>1. PICK i \in DOMAIN proposal.days : \E a \in proposal.days[i].activities :
            x = <<proposal.days[i].date, a>> /\ a.tool # None
      BY <1>2
    <2>2. PICK a \in proposal.days[i].activities : x = <<proposal.days[i].date, a>> /\ a.tool # None
      BY <2>1
    <2>3. a.type \notin Knowledge
      BY <1>1, <1>3, <2>2
    <2> QED BY <2>2, <2>3 DEF ToolOfOther, Activities
  <1>4. c1 # {} \/ c2 # {} \/ c3 # {} => ToolOfOther
    <2> HIDE DEF placed
    <2> QED BY <1>3
  <1>5. c4 => ToolOfOther
    <2>1. {s.id : s \in proposal.activitySources} = UsedTools(proposal.days) \cap DOMAIN input.activities
      <3> DEFINE sources == ActivitySources(input, Resolve(n))
      <3>1. proposal.activitySources = sources
        BY Assembled, NoDefaults
      <3> DEFINE T == UsedTools(Resolve(n).days) \cap DOMAIN input.activities
      <3>2. ASSUME NEW s \in sources PROVE s.id \in T
        <4>1. PICK t \in T : s = [id |-> t, name |-> input.activities[t].name,
                                  dates |-> input.activities[t].dates,
                                  source |-> "mcp:search_city_activities"]
          BY DEF ActivitySources
        <4> HIDE DEF T
        <4> QED BY <4>1
      <3>3. ASSUME NEW t \in T PROVE \E s \in sources : s.id = t
        <4> DEFINE s == [id |-> t, name |-> input.activities[t].name,
                         dates |-> input.activities[t].dates, source |-> "mcp:search_city_activities"]
        <4>1. s \in sources
          BY DEF ActivitySources
        <4> QED BY <4>1
      <3>4. {s.id : s \in sources} = T
        <4> HIDE DEF T, sources
        <4> QED BY <3>2, <3>3
      <3> QED BY <3>1, <3>4, SameReferences
    <2> SUFFICES ASSUME NEW t \in UsedTools(proposal.days), t \notin DOMAIN input.activities
                 PROVE  ToolOfOther
      BY <2>1
    <2>2. PICK i \in DOMAIN proposal.days : \E a \in proposal.days[i].activities : a.tool = t /\ t # None
      BY DEF UsedTools
    <2>3. PICK a \in proposal.days[i].activities : a.tool = t /\ t # None
      BY <2>2
    <2>4. a.type \notin Knowledge
      BY <1>1, <2>3
    <2> QED BY <2>3, <2>4 DEF ToolOfOther, Activities
  <1>6. ToolIssues(input, proposal) =
          Each(c1, "unknown_tool_activity_id", "proposal")
          \cup Each(c2, "tool_activity_date_mismatch", "proposal")
          \cup Each(c3, "tool_activity_name_mismatch", "proposal")
          \cup When(c4, "tool_activity_sources_mismatch", "proposal")
    BY DEF ToolIssues
  <1> HIDE DEF c1, c2, c3, c4
  <1> QED BY <1>4, <1>5, <1>6, TypeOfWhen, TypeOfEach DEF ToolIssueTypes

LEMMA RequirementsInOrder ==
  ASSUME NEW n, Built(n), input \in Inputs, Shows, MaxItems >= 4
  PROVE  RequirementIssues(input, proposal) = {}
  <1> DEFINE Answer == [key : STRING \X STRING \X Nat, refs : Note]
             unknown == {i \in DOMAIN proposal.handled :
                          ~(proposal.handled[i].refs \subseteq EvidenceIds(input))}
  <1>1. n.handled \in Seq(Answer) /\ RequirementsValid(input, n)
    BY DEF Built, DraftValid, Draft
  <1>2. DOMAIN proposal.handled = DOMAIN n.handled
        /\ \A i \in DOMAIN n.handled : proposal.handled[i].key = n.handled[i].key
    BY Assembled
  <1>3. HandledKeys(proposal) = HandledKeys(n)
    BY <1>2 DEF HandledKeys
  <1>4. Len(proposal.handled) = Len(n.handled)
    <2>1. Len(n.handled) \in Nat /\ DOMAIN n.handled = 1 .. Len(n.handled)
      <3> HIDE DEF Answer
      <3> QED BY <1>1, ElementsOf
    <2>2. proposal.handled = RealAnswers(n.handled)
      <3>1. Resolve(n).handled = RealAnswers(n.handled)
        <4>1. n \in Draft
          BY DEF Built
        <4>2. DOMAIN n = {"days", "hotel", "packing", "safety", "handled", "claims"}
          BY <4>1 DEF Draft
        <4> QED BY <4>2 DEF Resolve
      <3> QED BY <3>1, SameReferences
    <2> DEFINE S == {proposal.handled[i] : i \in DOMAIN n.handled}
    <2>3. proposal.handled \in [1 .. Len(n.handled) -> S]
      BY <2>1, <2>2 DEF RealAnswers
    <2> HIDE DEF S
    <2> QED BY <2>1, <2>3, FunctionIsSeq
  <1>5. unknown = {}
    <2>1. CollectRefs(proposal) \subseteq EvidenceIds(input)
      BY RefsAreUsable DEF EvidenceIds, Usable
    <2>2. UNION {proposal.handled[i].refs : i \in DOMAIN proposal.handled} \subseteq CollectRefs(proposal)
      BY DEF CollectRefs
    <2> QED BY <2>1, <2>2
  <1>6. Cardinality(HandledKeys(proposal)) = Len(proposal.handled)
        /\ HandledKeys(proposal) = Catalog(input)
    BY <1>1, <1>3, <1>4 DEF RequirementsValid
  <1>7. RequirementIssues(input, proposal) =
          When(Cardinality(HandledKeys(proposal)) # Len(proposal.handled), "duplicate_requirement_key", "proposal")
          \cup When(HandledKeys(proposal) # Catalog(input), "requirement_catalog_not_covered", "proposal")
          \cup Each(unknown, "requirement_unknown_evidence_ref", "proposal")
    BY DEF RequirementIssues
  <1> HIDE DEF unknown
  <1> QED BY <1>5, <1>6, <1>7, WhenFalse, EachOfNone

LEMMA IdentityInOrder ==
  ASSUME NEW n, Built(n)
  PROVE  IntegrityIssues(proposal) = {}
  <1> DEFINE r == Resolve(n)
  <1>1. proposal = Assemble(input, r)
    BY DEF Built
  <1>2. /\ CollectRefs(r) = CollectRefs(proposal) /\ r.hotel = proposal.hotel
        /\ r.packing = proposal.packing /\ r.safety = proposal.safety /\ r.handled = proposal.handled
        /\ r.claims = proposal.claims
    BY SameReferences
  <1>3. proposal.activitySources = ActivitySources(input, r)
    BY Assembled, NoDefaults
  <1> HIDE DEF r
  <1>4. proposal.id = Identity(proposal.locked, proposal.version,
                               Content(r, proposal.days, ActivitySources(input, r)))
    BY <1>1 DEF Assemble
  <1>5. Content(r, proposal.days, ActivitySources(input, r))
          = Content(proposal, proposal.days, proposal.activitySources)
    BY <1>2, <1>3 DEF Content
  <1> QED BY <1>4, <1>5, WhenFalse DEF IntegrityIssues

LEMMA BoundaryIssueTypes ==
  ASSUME NEW n, Built(n)
  PROVE  \A x \in BoundaryIssues(proposal) : x.type \in ClaimType
  <1>1. ASSUME NEW claims \in SUBSET Claim, NEW place, NEW x \in ClaimsOf(claims, place)
        PROVE  x.type \in ClaimType
    BY DEF ClaimsOf, Claim, Issue
  <1>2. n \in Draft
    BY DEF Built
  <1>3. proposal.claims \in SUBSET Claim
    <2>1. proposal.claims = Resolve(n).claims
      BY SameReferences
    <2>2. Resolve(n).claims = n.claims /\ n.claims \in SUBSET Claim
      BY <1>2 DEF Resolve, Draft
    <2> QED BY <2>1, <2>2
  <1>4. ASSUME NEW y \in Planned(proposal) PROVE y[2].claims \in SUBSET Claim
    <2>1. PICK i \in DOMAIN proposal.days : \E a \in proposal.days[i].activities :
            y = <<proposal.days[i].date, a>>
      BY DEF Planned
    <2>2. PICK a \in proposal.days[i].activities : y = <<proposal.days[i].date, a>>
      BY <2>1
    <2>3. i \in DOMAIN n.days
      BY Assembled
    <2>4. a.claims \in SUBSET Claim
      BY <2>2, <2>3, ActivitiesKept
    <2> QED BY <2>2, <2>4
  <1> QED BY <1>1, <1>3, <1>4 DEF BoundaryIssues

(* Whatever the model answers: of a draft the generator accepts, the verifier finds fault   *)
(* only with claims of bookings, with activities that nothing but a tool supports, and with *)
(* tools of activities that are not about the place.                                        *)
THEOREM GeneratorAndVerifierAgree == MaxItems >= 4 => (Spec => []CheckersAgree)
  <1> SUFFICES ASSUME MaxItems >= 4 PROVE Spec => []CheckersAgree
    OBVIOUS
  <1>1. IInv /\ Shows /\ PassedDraft => CheckersAgree
    <2> SUFFICES ASSUME IInv, Shows, PassedDraft, phase = "verifier"
                 PROVE  CheckersAgree
      BY DEF CheckersAgree
    <2>1. input \in Inputs
      BY DEF IInv, TypeOK
    <2>2. PICK n : Built(n)
      BY DEF PassedDraft
    <2>3. Issues(input, proposal, result) =
            ItineraryIssues(input, proposal) \cup ToolIssues(input, proposal) \cup BoundaryIssues(proposal)
      BY <2>1, <2>2, FactsInOrder, SourcesInOrder, UseInOrder, RequirementsInOrder, IdentityInOrder,
         IssuesOfChecks
    <2>4. /\ \A x \in ItineraryIssues(input, proposal) :
               x.type = "knowledge_activity_missing_guide" /\ BareActivity
          /\ \A x \in ToolIssues(input, proposal) : x.type \in ToolIssueTypes /\ ToolOfOther
          /\ \A x \in BoundaryIssues(proposal) : x.type \in ClaimType
      BY <2>1, <2>2, ItineraryInOrder, ToolsInOrder, BoundaryIssueTypes
    <2>5. \A type \in IssueTypes :
            \/ type \in ClaimType
            \/ type = "knowledge_activity_missing_guide" /\ BareActivity
            \/ type \in ToolIssueTypes /\ ToolOfOther
      BY <2>3, <2>4 DEF IssueTypes
    <2>6. "knowledge_activity_missing_guide" \in IssueTypes => BareActivity
      BY <2>5 DEF ToolIssueTypes, ClaimType
    <2>7. ~(IssueTypes \subseteq ClaimType \cup {"knowledge_activity_missing_guide"}) => ToolOfOther
      BY <2>5
    <2>8. IssueTypes \subseteq ClaimType \cup
          {"knowledge_activity_missing_guide",
           "unknown_tool_activity_id", "tool_activity_date_mismatch",
           "tool_activity_name_mismatch", "tool_activity_sources_mismatch"}
      BY <2>5 DEF ToolIssueTypes
    <2> QED BY <2>6, <2>7, <2>8 DEF CheckersAgree, BareActivity, ToolOfOther
  <1> QED BY <1>1, Invariant, PromptStays, DraftsPass, PTL
===============================================================================
