------------------------ MODULE ToolOrchestrationProofs ------------------------
(***************************************************************************)
(* For any requests, answers of the planner's model, refusals and limits:  *)
(* what the tools hand on is complete and current, the search is given up  *)
(* for cause only, an answer that was given stays, and the three nodes are *)
(* those of the graph.                                                     *)
(***************************************************************************)
EXTENDS ToolOrchestration, TLAPS

(* The demanded calls are the program's own, and what refuses them shows in the plan. *)
PlanIsOwn ==
  /\ \A t \in Required \cap DOMAIN calls : calls[t] = Arguments(t, "any")
  /\ phase \in {"tool_execute", "tool_check"} =>
       /\ \A t \in Required : t \in DOMAIN calls <=> t \notin refused
       /\ Incomplete => "invalid_executable_tool_call" \in issues

(* A stored result belongs to the metadata, and that of a demanded tool to the request. *)
FactsMatch ==
  /\ \A t \in Tools : facts[t] = IF meta[t].status = "ok" THEN meta[t].signature ELSE NoFacts
  /\ \A t \in Required : Answered(t) => t \notin refused /\ meta[t].signature = Arguments(t, "any")
  /\ offered = facts[Activities]

(* The activities are those of this plan. *)
ActivitiesMatch ==
  phase \in {"tool_check", "candidate_rank"} =>
    /\ Activities \in DOMAIN calls /\ meta[Activities].status = "ok"
         => meta[Activities].signature = calls[Activities]
    /\ Activities \notin DOMAIN calls => meta[Activities].status # "ok"

(* A demanded tool without an answer has failed in every execution so far. *)
FailuresCounted ==
  \A t \in Required \ refused :
    ~Answered(t) => failures[t] >= executeRetries + (IF phase = "tool_check" THEN 1 ELSE 0)

IInv ==
  /\ TypeOK /\ PlanIsOwn /\ FactsMatch /\ ActivitiesMatch /\ FailuresCounted
  /\ RankedOnCurrentFacts /\ PassedMeansComplete /\ GivesUpForCause

LEMMA Names ==
  /\ Required \subseteq Tools /\ Activities \in Tools /\ Activities \notin Required
  /\ "weather" \in Required
  BY DEF Required, Tools, Activities

(* The arguments of a demanded call do not depend on the interest. *)
LEMMA OwnArguments ==
  ASSUME NEW t \in Required, NEW i, NEW j
  PROVE  Arguments(t, i) = Arguments(t, j)
  BY DEF Required, Arguments, Activities

LEMMA StartInv ==
  ASSUME NEW r \in Requests, Start(r), revisions \in 0 .. MaxRevisions
  PROVE  IInv
  BY ToolBounds
  DEF Start, IInv, TypeOK, PlanIsOwn, FactsMatch, ActivitiesMatch, FailuresCounted,
      RankedOnCurrentFacts, PassedMeansComplete, GivesUpForCause, NoCalls, NoMeta, NoFacts,
      Answered, Tools, Required, Activities
-----------------------------------------------------------------------------
(* tool_plan writes the plan, and the program's own calls into it. *)
LEMMA PlanStep ==
  ASSUME IInv, ToolPlan
  PROVE  IInv'
  <1>1. PICK interests, found : Planned(interests, found)
    BY DEF ToolPlan
  <1> DEFINE planned == Required \cup (IF interests # {} THEN {Activities} ELSE {})
             interest == CHOOSE i \in interests : TRUE
  <1>2. /\ phase = "tool_plan" /\ phase' = "tool_execute"
        /\ UNCHANGED <<request, revisions, refused, meta, facts, offered, planRetries,
                       executeRetries, status, failures>>
        /\ calls' = [t \in planned \ refused |-> Arguments(t, interest)]
        /\ issues' = found \cup ExecutableIssues(planned)
    BY <1>1 DEF ToolPlan, Planned
  <1>3. DOMAIN calls' \subseteq Tools
    BY <1>2, Names
  <1>4. TypeOK'
    BY <1>2, <1>3 DEF IInv, TypeOK
  <1>5. \A t \in Required : t \in DOMAIN calls' <=> t \notin refused'
    BY <1>2
  <1>6. Incomplete' => "invalid_executable_tool_call" \in issues'
    BY <1>2, <1>5 DEF Incomplete, ExecutableIssues
  <1>7. ASSUME NEW t \in Required, t \in DOMAIN calls'
        PROVE  calls'[t] = Arguments(t, "any")'
    BY <1>2, <1>7, OwnArguments DEF Arguments
  <1>8. PlanIsOwn'
    BY <1>5, <1>6, <1>7 DEF PlanIsOwn
  <1>9. FactsMatch' /\ ActivitiesMatch' /\ FailuresCounted'
    BY <1>2 DEF IInv, FactsMatch, ActivitiesMatch, FailuresCounted, Answered, Arguments
  <1> QED
    BY <1>2, <1>4, <1>8, <1>9
    DEF IInv, RankedOnCurrentFacts, PassedMeansComplete, GivesUpForCause
-----------------------------------------------------------------------------
(* What an execution leaves of a tool, given how its calls came out. *)
LEMMA Executed ==
  ASSUME IInv, ToolExecute
  PROVE  /\ phase = "tool_execute" /\ phase' = "tool_check"
         /\ UNCHANGED <<request, revisions, refused, calls, issues, planRetries,
                        executeRetries, status>>
         /\ DOMAIN meta' = Tools /\ DOMAIN facts' = Tools
         /\ offered' = facts'[Activities]
         /\ failures' \in [Tools -> 0 .. MaxExecuteRetries + 1]
         /\ \A t \in Tools :
              \/ /\ t \in DOMAIN calls /\ ~Cached(t)
                 /\ meta'[t].status \in {"ok", "no_data", "failed"}
                 /\ meta'[t].signature = calls[t]
                 /\ facts'[t] = IF meta'[t].status = "ok" THEN calls[t] ELSE NoFacts
                 /\ meta'[t].status = "failed" =>
                      failures'[t] = IF failures[t] <= MaxExecuteRetries
                                     THEN failures[t] + 1 ELSE failures[t]
              \/ /\ t = Activities /\ t \notin DOMAIN calls
                 /\ meta'[t].status = "skipped" /\ facts'[t] = NoFacts
              \/ /\ t \in DOMAIN calls => Cached(t)
                 /\ t = Activities => t \in DOMAIN calls
                 /\ meta'[t] = meta[t] /\ facts'[t] = facts[t]
  <1>1. PICK outcome \in [{t \in DOMAIN calls : ~Cached(t)} -> {"ok", "no_data", "failed"}] :
          /\ meta' = [t \in Tools |-> NewMeta(t, outcome)]
          /\ facts' = [t \in Tools |-> NewFacts(t, outcome)]
          /\ offered' = NewFacts(Activities, outcome)
          /\ failures' = [t \in Tools |->
               IF t \in DOMAIN outcome /\ outcome[t] = "failed" /\ failures[t] <= MaxExecuteRetries
               THEN failures[t] + 1 ELSE failures[t]]
    BY DEF ToolExecute
  <1>2. failures \in [Tools -> 0 .. MaxExecuteRetries + 1]
    BY DEF IInv, TypeOK
  <1>3. failures' \in [Tools -> 0 .. MaxExecuteRetries + 1]
    BY <1>1, <1>2, ToolBounds
  <1>4. DOMAIN outcome = {t \in DOMAIN calls : ~Cached(t)}
    OBVIOUS
  <1>5. ASSUME NEW t \in Tools, t \in DOMAIN outcome
        PROVE  /\ t \in DOMAIN calls /\ ~Cached(t)
               /\ meta'[t].status = outcome[t] /\ meta'[t].signature = calls[t]
               /\ outcome[t] \in {"ok", "no_data", "failed"}
               /\ facts'[t] = IF outcome[t] = "ok" THEN calls[t] ELSE NoFacts
               /\ outcome[t] = "failed" =>
                    failures'[t] = IF failures[t] <= MaxExecuteRetries
                                   THEN failures[t] + 1 ELSE failures[t]
    BY <1>1, <1>4, <1>5 DEF NewMeta, NewFacts
  <1>6. ASSUME NEW t \in Tools, t \notin DOMAIN outcome, t = Activities, t \notin DOMAIN calls
        PROVE  meta'[t].status = "skipped" /\ facts'[t] = NoFacts
    BY <1>1, <1>6 DEF NewMeta, NewFacts
  <1>7. ASSUME NEW t \in Tools, t \notin DOMAIN outcome, ~(t = Activities /\ t \notin DOMAIN calls)
        PROVE  /\ t \in DOMAIN calls => Cached(t)
               /\ meta'[t] = meta[t] /\ facts'[t] = facts[t]
    BY <1>1, <1>4, <1>7 DEF NewMeta, NewFacts
  <1>8. offered' = facts'[Activities] /\ DOMAIN meta' = Tools /\ DOMAIN facts' = Tools
    BY <1>1, Names
  <1>9. \A t \in Tools :
          \/ /\ t \in DOMAIN calls /\ ~Cached(t)
             /\ meta'[t].status \in {"ok", "no_data", "failed"}
             /\ meta'[t].signature = calls[t]
             /\ facts'[t] = IF meta'[t].status = "ok" THEN calls[t] ELSE NoFacts
             /\ meta'[t].status = "failed" =>
                  failures'[t] = IF failures[t] <= MaxExecuteRetries
                                 THEN failures[t] + 1 ELSE failures[t]
          \/ /\ t = Activities /\ t \notin DOMAIN calls
             /\ meta'[t].status = "skipped" /\ facts'[t] = NoFacts
          \/ /\ t \in DOMAIN calls => Cached(t)
             /\ t = Activities => t \in DOMAIN calls
             /\ meta'[t] = meta[t] /\ facts'[t] = facts[t]
    <2> TAKE t \in Tools
    <2>1. CASE t \in DOMAIN outcome
      BY <1>5, <2>1
    <2>2. CASE t \notin DOMAIN outcome /\ t = Activities /\ t \notin DOMAIN calls
      BY <1>6, <2>2
    <2>3. CASE t \notin DOMAIN outcome /\ ~(t = Activities /\ t \notin DOMAIN calls)
      BY <1>7, <2>3
    <2> QED BY <2>1, <2>2, <2>3
  <1> QED BY <1>3, <1>8, <1>9 DEF ToolExecute

(* The answers after an execution are those of this plan, and what failed is counted. *)
LEMMA ExecuteStep ==
  ASSUME IInv, ToolExecute
  PROVE  IInv'
  <1>1. /\ phase = "tool_execute" /\ phase' = "tool_check"
        /\ UNCHANGED <<request, revisions, refused, calls, issues, planRetries,
                       executeRetries, status>>
        /\ DOMAIN meta' = Tools /\ DOMAIN facts' = Tools
        /\ offered' = facts'[Activities]
        /\ failures' \in [Tools -> 0 .. MaxExecuteRetries + 1]
    BY Executed
  <1>2. /\ TypeOK /\ PlanIsOwn /\ FactsMatch /\ FailuresCounted
        /\ executeRetries \in 0 .. MaxExecuteRetries /\ MaxExecuteRetries \in Nat
        /\ failures \in [Tools -> 0 .. MaxExecuteRetries + 1]
    BY ToolBounds DEF IInv, TypeOK
  <1>3. ASSUME NEW t \in Tools
        PROVE  /\ meta'[t].status \in {"none", "ok", "no_data", "failed", "skipped"}
               /\ facts'[t] = IF meta'[t].status = "ok" THEN meta'[t].signature ELSE NoFacts
    BY <1>2, Executed DEF TypeOK, FactsMatch
  <1>4. TypeOK'
    BY <1>1, <1>2, <1>3 DEF TypeOK
  <1>5. PlanIsOwn'
    BY <1>1, <1>2 DEF PlanIsOwn, Incomplete, Arguments
  <1>6. ASSUME NEW t \in Required, Answered(t)'
        PROVE  t \notin refused' /\ meta'[t].signature = Arguments(t, "any")'
    <2>1. t \in Tools /\ t # Activities
      BY Names
    <2>2. Arguments(t, "any")' = Arguments(t, "any")
      BY <1>1 DEF Arguments
    <2>3. CASE t \in DOMAIN calls /\ ~Cached(t) /\ meta'[t].signature = calls[t]
      BY <1>1, <1>2, <2>2, <2>3 DEF PlanIsOwn
    <2>4. CASE meta'[t] = meta[t]
      BY <1>1, <1>2, <1>6, <2>2, <2>4 DEF FactsMatch, Answered
    <2> QED BY <2>1, <2>3, <2>4, Executed
  <1>7. FactsMatch'
    BY <1>1, <1>3, <1>6 DEF FactsMatch
  <1>8. ActivitiesMatch'
    <2>1. Activities \in DOMAIN calls /\ meta'[Activities].status = "ok"
            => meta'[Activities].signature = calls[Activities]
      BY Names, Executed DEF Cached
    <2>2. Activities \notin DOMAIN calls => meta'[Activities].status # "ok"
      BY Names, Executed
    <2> QED BY <1>1, <2>1, <2>2 DEF ActivitiesMatch
  <1>9. ASSUME NEW t \in Required \ refused, ~Answered(t)'
        PROVE  failures'[t] >= executeRetries + 1
    <2>1. t \in Tools /\ t # Activities /\ t \in DOMAIN calls
      BY <1>1, <1>2, Names DEF PlanIsOwn
    <2>2. CASE ~Cached(t) /\ meta'[t].status = "failed"
               /\ failures'[t] = IF failures[t] <= MaxExecuteRetries
                                 THEN failures[t] + 1 ELSE failures[t]
      <3>1. ~Answered(t)
        BY <1>2, <2>1, <2>2 DEF Cached, FactsMatch, PlanIsOwn
      <3>2. failures[t] >= executeRetries /\ failures[t] \in 0 .. MaxExecuteRetries + 1
        BY <1>1, <1>2, <2>1, <3>1 DEF FailuresCounted
      <3> QED BY <1>2, <2>2, <3>2
    <2>3. CASE Cached(t) /\ meta'[t] = meta[t]
      BY <1>9, <2>3 DEF Cached, Answered
    <2> QED BY <1>9, <2>1, <2>2, <2>3, Executed DEF Answered
  <1>10. FailuresCounted'
    BY <1>1, <1>9 DEF FailuresCounted
  <1> QED
    BY <1>1, <1>4, <1>5, <1>7, <1>8, <1>10
    DEF IInv, RankedOnCurrentFacts, PassedMeansComplete, GivesUpForCause
-----------------------------------------------------------------------------
(* tool_check decides, and changes neither plan nor answers. *)
LEMMA CheckStep ==
  ASSUME IInv, ToolCheck
  PROVE  IInv'
  <1>1. /\ phase = "tool_check"
        /\ UNCHANGED <<request, revisions, refused, calls, issues, meta, facts, offered, failures>>
    BY DEF ToolCheck
  <1>2. /\ TypeOK /\ PlanIsOwn /\ FactsMatch /\ ActivitiesMatch /\ FailuresCounted
        /\ planRetries \in 0 .. MaxPlanRetries /\ executeRetries \in 0 .. MaxExecuteRetries
        /\ failures \in [Tools -> 0 .. MaxExecuteRetries + 1]
        /\ MaxPlanRetries \in Nat /\ MaxExecuteRetries \in Nat
    BY ToolBounds DEF IInv, TypeOK
  <1>3. FactsMatch'
    BY <1>1, <1>2 DEF FactsMatch, Answered, Arguments
  <1>4. CASE Replan
    <2>1. /\ phase' = "tool_plan" /\ status' = "replan" /\ planRetries' = planRetries + 1
          /\ planRetries < MaxPlanRetries /\ executeRetries' = executeRetries
      BY <1>4 DEF Replan, Check
    <2>2. TypeOK'
      BY <1>1, <1>2, <2>1 DEF TypeOK
    <2>3. PlanIsOwn' /\ ActivitiesMatch'
      BY <1>1, <1>2, <2>1 DEF PlanIsOwn, ActivitiesMatch, Arguments
    <2>4. FailuresCounted'
      BY <1>1, <1>2, <2>1, Names DEF FailuresCounted, Answered
    <2> QED
      BY <1>3, <2>1, <2>2, <2>3, <2>4
      DEF IInv, RankedOnCurrentFacts, PassedMeansComplete, GivesUpForCause
  <1>5. CASE RetryExecute
    <2>1. /\ phase' = "tool_execute" /\ status' = "retry_execute"
          /\ executeRetries' = executeRetries + 1 /\ executeRetries < MaxExecuteRetries
          /\ planRetries' = planRetries
      BY <1>5 DEF RetryExecute, Check
    <2>2. TypeOK'
      BY <1>1, <1>2, <2>1 DEF TypeOK
    <2>3. PlanIsOwn' /\ ActivitiesMatch'
      BY <1>1, <1>2, <2>1 DEF PlanIsOwn, ActivitiesMatch, Arguments, Incomplete
    <2>4. FailuresCounted'
      BY <1>1, <1>2, <2>1, Names DEF FailuresCounted, Answered
    <2> QED
      BY <1>3, <2>1, <2>2, <2>3, <2>4
      DEF IInv, RankedOnCurrentFacts, PassedMeansComplete, GivesUpForCause
  <1>6. CASE GiveUp
    <2>1. /\ phase' = "final_response" /\ status' = "failed"
          /\ UNCHANGED <<planRetries, executeRetries>>
          /\ Incomplete \/ (FailedRequired /\ executeRetries = MaxExecuteRetries)
      BY <1>6 DEF GiveUp, Check
    <2>2. TypeOK'
      BY <1>1, <1>2, <2>1 DEF TypeOK
    <2>3. PlanIsOwn' /\ ActivitiesMatch'
      BY <1>1, <1>2, <2>1 DEF PlanIsOwn, ActivitiesMatch, Arguments
    <2>4. FailuresCounted'
      BY <1>1, <1>2, <2>1, Names DEF FailuresCounted, Answered
    <2>5. Required \cap refused # {} \/ \E t \in Required : failures[t] > MaxExecuteRetries
      <3>1. CASE Incomplete
        BY <1>1, <1>2, <3>1 DEF Incomplete, PlanIsOwn
      <3>2. CASE Required \cap refused = {} /\ FailedRequired /\ executeRetries = MaxExecuteRetries
        <4>1. PICK t \in Required : ~Answered(t)
          BY <3>2 DEF FailedRequired
        <4>2. failures[t] >= MaxExecuteRetries + 1 /\ failures[t] \in Nat
          BY <1>1, <1>2, <3>2, <4>1, Names DEF FailuresCounted
        <4> QED BY <1>2, <4>2
      <3> QED BY <2>1, <3>1, <3>2
    <2>6. GivesUpForCause'
      BY <1>1, <2>5 DEF GivesUpForCause
    <2> QED
      BY <1>3, <2>1, <2>2, <2>3, <2>4, <2>6
      DEF IInv, RankedOnCurrentFacts, PassedMeansComplete
  <1>7. CASE Proceed
    <2>1. /\ phase' = "candidate_rank" /\ status' = CheckStatus
          /\ UNCHANGED <<planRetries, executeRetries>>
          /\ ~Incomplete /\ ~FailedRequired
      BY <1>7 DEF Proceed, Check
    <2>2. TypeOK'
      BY <1>1, <1>2, <2>1 DEF TypeOK, CheckStatus
    <2>3. PlanIsOwn' /\ ActivitiesMatch'
      BY <1>1, <1>2, <2>1 DEF PlanIsOwn, ActivitiesMatch, Arguments
    <2>4. FailuresCounted'
      BY <1>1, <1>2, <2>1, Names DEF FailuresCounted, Answered
    <2>5. \A t \in Required : Answered(t)
      BY <2>1 DEF FailedRequired
    <2>6. RankedOnCurrentFacts'
      BY <1>1, <1>2, <2>5, Names DEF RankedOnCurrentFacts, FactsMatch, Answered, Arguments
    <2>7. PassedMeansComplete'
      <3> SUFFICES ASSUME CheckStatus = "passed"
                   PROVE  /\ issues \cap ReplanIssues = {}
                          /\ Activities \in DOMAIN calls => offered = calls[Activities]
        BY <1>1, <2>1 DEF PassedMeansComplete
      <3>1. ~NeedsReplan
        BY DEF CheckStatus
      <3>2. Activities \in DOMAIN calls => meta[Activities].status = "ok"
        BY <3>1 DEF CheckStatus
      <3>3. Activities \in DOMAIN calls => offered = calls[Activities]
        BY <1>1, <1>2, <3>2, Names DEF FactsMatch, ActivitiesMatch
      <3> QED BY <3>1, <3>3 DEF NeedsReplan
    <2> QED
      BY <1>3, <2>1, <2>2, <2>3, <2>4, <2>6, <2>7 DEF IInv, GivesUpForCause
  <1> QED
    BY <1>4, <1>5, <1>6, <1>7 DEF ToolCheck
-----------------------------------------------------------------------------
LEMMA ReviseStep ==
  ASSUME IInv, Revise
  PROVE  IInv'
  <1>1. /\ request' \in Requests /\ phase' = "tool_plan" /\ calls' = NoCalls /\ issues' = {}
        /\ meta' = [t \in Tools |-> NoMeta] /\ facts' = [t \in Tools |-> NoFacts]
        /\ offered' = NoFacts /\ planRetries' = 0 /\ executeRetries' = 0
        /\ status' = "none" /\ failures' = [t \in Tools |-> 0]
        /\ revisions' = revisions + 1 /\ revisions < MaxRevisions
    BY DEF Revise, Forget
  <1>2. revisions' \in 0 .. MaxRevisions
    BY <1>1, ToolBounds DEF IInv, TypeOK
  <1> QED
    BY <1>1, <1>2, ToolBounds
    DEF IInv, TypeOK, PlanIsOwn, FactsMatch, ActivitiesMatch, FailuresCounted,
        RankedOnCurrentFacts, PassedMeansComplete, GivesUpForCause, NoCalls, NoMeta, NoFacts,
        Answered, Tools, Required, Activities

LEMMA NextInv == IInv /\ [Next]_vars => IInv'
  <1> SUFFICES ASSUME IInv, [Next]_vars PROVE IInv'
    OBVIOUS
  <1>1. CASE UNCHANGED vars
    BY <1>1
    DEF vars, IInv, TypeOK, PlanIsOwn, FactsMatch, ActivitiesMatch, FailuresCounted, Incomplete,
        RankedOnCurrentFacts, PassedMeansComplete, GivesUpForCause, Answered, Arguments
  <1> QED
    BY <1>1, PlanStep, ExecuteStep, CheckStep, ReviseStep DEF Next

(* IInv holds in every reachable state, for all requests, answers, refusals and limits. *)
THEOREM Invariant == Spec => []IInv
  <1>1. Init => IInv
    BY StartInv, ToolBounds DEF Init
  <1>2. IInv /\ [Next]_vars => IInv'
    BY NextInv
  <1> QED BY <1>1, <1>2, PTL DEF Spec

(* What is offered was found for the call in the plan. *)
LEMMA ActivitiesInPlan == IInv => ActivitiesArePlanned
  <1> SUFFICES ASSUME IInv, phase \in {"tool_check", "candidate_rank"}, offered # NoFacts
               PROVE  Activities \in DOMAIN calls /\ offered = calls[Activities]
    BY DEF ActivitiesArePlanned
  <1>1. meta[Activities].status = "ok" /\ offered = meta[Activities].signature
    BY Names DEF IInv, FactsMatch
  <1> QED BY <1>1 DEF IInv, ActivitiesMatch

(* The activities handed to the ranking are those of the last plan, and a check that says   *)
(* passed has lost no wish (tool_check_node).                                               *)
THEOREM SearchesAreComplete == Spec => []SearchIsComplete
  <1>1. IInv => SearchIsComplete
    BY ActivitiesInPlan DEF IInv, SearchIsComplete
  <1> QED BY <1>1, Invariant, PTL

(* Candidates are ranked on answers to the request as it is now, all demanded ones present. *)
THEOREM FactsAreCurrent == Spec => []RankedOnCurrentFacts
  <1>1. IInv => RankedOnCurrentFacts
    BY DEF IInv
  <1> QED BY <1>1, Invariant, PTL

(* The search is given up only if a demanded call cannot be made or has failed each time.   *)
THEOREM SearchesEndForCause == Spec => []GivesUpForCause
  <1>1. IInv => GivesUpForCause
    BY DEF IInv
  <1> QED BY <1>1, Invariant, PTL

(* A demanded tool that has answered is not asked again for the same request               *)
(* (_is_cached): retries and new plans leave its answer alone.                              *)
THEOREM AnswersStay == Spec => FactsStay
  <1>1. ASSUME IInv, [Next]_vars
        PROVE  [\A t \in Required : request' = request /\ revisions' = revisions /\ Answered(t)
                  => meta'[t] = meta[t] /\ facts'[t] = facts[t]]_vars
    <2> SUFFICES ASSUME Next, NEW t \in Required, revisions' = revisions, Answered(t)
                 PROVE  meta'[t] = meta[t] /\ facts'[t] = facts[t]
      BY <1>1
    <2>1. CASE ToolPlan
      BY <2>1 DEF ToolPlan
    <2>2. CASE ToolExecute
      <3>1. phase = "tool_execute" /\ t \in Tools /\ t # Activities
        BY <1>1, <2>2, Executed, Names
      <3>2. t \in DOMAIN calls => Cached(t)
        BY <1>1, <3>1 DEF IInv, FactsMatch, PlanIsOwn, Cached
      <3> QED BY <1>1, <2>2, <3>1, <3>2, Executed
    <2>3. CASE ToolCheck
      BY <2>3 DEF ToolCheck
    <2>4. CASE Revise
      <3>1. revisions \in Nat /\ revisions' = revisions + 1
        BY <1>1, <2>4, ToolBounds DEF IInv, TypeOK, Revise
      <3> QED BY <3>1
    <2> QED BY <2>1, <2>2, <2>3, <2>4 DEF Next
  <1> QED BY <1>1, Invariant, PTL DEF Spec, FactsStay
-----------------------------------------------------------------------------
(* The three nodes are those of PlanTripGraph. *)

LEMMA StepsBounded ==
  ASSUME IInv
  PROVE  /\ phase \in {"tool_plan", "tool_execute", "tool_check"}
              => Steps < 4 + 3 * MaxPlanRetries + 2 * MaxExecuteRetries
         /\ revisions \in Nat
  BY ToolBounds DEF IInv, TypeOK, Steps

LEMMA PlanRefines ==
  ASSUME IInv, ToolPlan
  PROVE  Graph!ToolPlan
  <1>1. /\ phase = "tool_plan" /\ phase' = "tool_execute"
        /\ UNCHANGED <<request, revisions, refused, meta, facts, offered, planRetries,
                       executeRetries, status, failures>>
    BY DEF ToolPlan
  <1>2. planRetries \in Nat /\ executeRetries \in Nat
    BY ToolBounds DEF IInv, TypeOK
  <1>3. Steps' = Steps + 1
    BY <1>1, <1>2 DEF Steps
  <1>4. FailedRequired' = FailedRequired
    BY <1>1 DEF FailedRequired, Answered
  <1>5. PlanKind' \in {"clean", "issues", "incomplete"}
    BY <1>1 DEF PlanKind
  <1> QED
    BY <1>1, <1>3, <1>4, <1>5, StepsBounded DEF Graph!ToolPlan, Graph!Step, Graph!None,
       Graph!review

LEMMA ExecuteRefines ==
  ASSUME IInv, ToolExecute
  PROVE  Graph!ToolExecute
  <1>1. /\ phase = "tool_execute" /\ phase' = "tool_check"
        /\ UNCHANGED <<request, revisions, refused, calls, issues, planRetries,
                       executeRetries, status>>
    BY Executed
  <1>2. planRetries \in Nat /\ executeRetries \in Nat
    BY ToolBounds DEF IInv, TypeOK
  <1>3. Steps' = Steps + 1
    BY <1>1, <1>2 DEF Steps
  <1>4. PlanKind' = PlanKind /\ PlanKind = IF Incomplete THEN "incomplete"
                                           ELSE IF NeedsReplan THEN "issues" ELSE "clean"
    BY <1>1 DEF PlanKind, Incomplete, NeedsReplan
  <1>5. ~FailedRequired => ~FailedRequired'
    <2> SUFFICES ASSUME NEW t \in Required, Answered(t) PROVE Answered(t)'
      BY DEF FailedRequired
    <2>1. t \in DOMAIN calls => Cached(t)
      BY DEF IInv, FactsMatch, PlanIsOwn, Cached
    <2>2. meta'[t] = meta[t]
      BY <2>1, Executed, Names
    <2> QED BY <2>2 DEF Answered
  <1>6. Incomplete => FailedRequired'
    <2> SUFFICES ASSUME NEW t \in Required, t \notin DOMAIN calls PROVE ~Answered(t)'
      BY DEF FailedRequired, Incomplete
    <2>1. meta'[t] = meta[t]
      BY Executed, Names
    <2>2. ~Answered(t)
      BY <1>1 DEF IInv, FactsMatch, PlanIsOwn
    <2> QED BY <2>1, <2>2 DEF Answered
  <1>7. Graph!Step("tool_execute", "tool_check")
    BY <1>1, <1>3, StepsBounded DEF Graph!Step
  <1>8. PlanKind # "incomplete" \/ ~(~FailedRequired')
    BY <1>4, <1>6
  <1>9. [context |-> revisions', plan |-> PlanKind', fetched |-> ~FailedRequired', ranked |-> "none"]
        = [[context |-> revisions, plan |-> PlanKind, fetched |-> ~FailedRequired, ranked |-> "none"]
             EXCEPT !.fetched = ~FailedRequired']
    BY <1>1, <1>4
  <1>10. \E ok \in BOOLEAN :
           /\ ~FailedRequired => ok
           /\ ok => ~FailedRequired \/ PlanKind # "incomplete"
           /\ [context |-> revisions', plan |-> PlanKind', fetched |-> ~FailedRequired', ranked |-> "none"]
              = [[context |-> revisions, plan |-> PlanKind, fetched |-> ~FailedRequired, ranked |-> "none"]
                   EXCEPT !.fetched = ok]
    <2> WITNESS (~FailedRequired') \in BOOLEAN
    <2> QED BY <1>5, <1>8, <1>9
  <1> QED
    BY <1>1, <1>7, <1>10 DEF Graph!ToolExecute, Graph!review

LEMMA CheckRefines ==
  ASSUME IInv, ToolCheck
  PROVE  Graph!ToolCheck
  <1>1. /\ phase = "tool_check"
        /\ UNCHANGED <<request, revisions, refused, calls, issues, meta, facts, offered, failures>>
    BY DEF ToolCheck
  <1>2. /\ planRetries \in Nat /\ executeRetries \in 0 .. MaxExecuteRetries
        /\ MaxExecuteRetries \in Nat
    BY ToolBounds DEF IInv, TypeOK
  <1>3. calls = NoCalls => issues # {}
    <2>1. calls = NoCalls => Incomplete
      BY Names DEF Incomplete, NoCalls
    <2> QED BY <1>1, <2>1 DEF IInv, PlanIsOwn
  <1>4. PlanKind' = PlanKind /\ PlanKind = IF Incomplete THEN "incomplete"
                                           ELSE IF NeedsReplan THEN "issues" ELSE "clean"
    BY <1>1, <1>3 DEF PlanKind, Incomplete, NeedsReplan
  <1>5. FailedRequired' = FailedRequired
    BY <1>1 DEF FailedRequired, Answered
  <1>6. (PlanKind # "clean" <=> NeedsReplan) /\ (PlanKind # "incomplete" <=> ~Incomplete)
    BY <1>4 DEF NeedsReplan
  <1>7. Steps < 4 + 3 * MaxPlanRetries + 2 * MaxExecuteRetries
    BY <1>1, StepsBounded
  <1>8. CASE Replan
    <2>1. phase' = "tool_plan" /\ Steps' = Steps + 1
          /\ planRetries' = planRetries + 1 /\ executeRetries' = executeRetries
      BY <1>1, <1>2, <1>8 DEF Replan, Check, Steps
    <2>2. Graph!Step("tool_check", "tool_plan")
      BY <1>1, <1>7, <2>1 DEF Graph!Step
    <2>3. Graph!Replan
      BY <1>6, <1>8 DEF Replan, Graph!Replan
    <2>4. [toolPlan |-> planRetries', toolExec |-> executeRetries', rag |-> 0, proposal |-> 0, budget |-> 0]
          = [[toolPlan |-> planRetries, toolExec |-> executeRetries, rag |-> 0, proposal |-> 0, budget |-> 0]
               EXCEPT !.toolPlan = @ + 1]
      BY <2>1
    <2> QED BY <1>1, <1>4, <1>5, <2>2, <2>3, <2>4
            DEF Graph!ToolCheck, Graph!planning, Graph!review
  <1>9. CASE RetryExecute
    <2>1. phase' = "tool_execute" /\ Steps' = Steps + 1
          /\ executeRetries' = executeRetries + 1 /\ planRetries' = planRetries
      BY <1>1, <1>2, <1>9 DEF RetryExecute, Check, Steps
    <2>2. Graph!Step("tool_check", "tool_execute")
      BY <1>1, <1>7, <2>1 DEF Graph!Step
    <2>3. ~Graph!Replan /\ Graph!Refetch
      BY <1>6, <1>9 DEF RetryExecute, Graph!Replan, Graph!Refetch
    <2>4. [toolPlan |-> planRetries', toolExec |-> executeRetries', rag |-> 0, proposal |-> 0, budget |-> 0]
          = [[toolPlan |-> planRetries, toolExec |-> executeRetries, rag |-> 0, proposal |-> 0, budget |-> 0]
               EXCEPT !.toolExec = @ + 1]
      BY <2>1
    <2> QED BY <1>1, <1>4, <1>5, <2>2, <2>3, <2>4
            DEF Graph!ToolCheck, Graph!planning, Graph!review
  <1>10. CASE GiveUp
    <2>1. phase' = "final_response" /\ Steps' = Steps + 1
          /\ UNCHANGED <<planRetries, executeRetries>>
      BY <1>1, <1>2, <1>10 DEF GiveUp, Check, Steps
    <2>2. Graph!Step("tool_check", "final_response")
      BY <1>1, <1>7, <2>1 DEF Graph!Step
    <2>3. ~Graph!Replan
      BY <1>6, <1>10 DEF GiveUp, Graph!Replan
    <2>4. ~Graph!Refetch
      BY <1>2, <1>6, <1>10 DEF GiveUp, Graph!Refetch
    <2>5. FailedRequired \/ PlanKind = "incomplete"
      BY <1>6, <1>10 DEF GiveUp
    <2>6. ~Graph!ToolsReady
      BY <2>5 DEF Graph!ToolsReady
    <2> QED BY <1>1, <1>4, <1>5, <2>1, <2>2, <2>3, <2>4, <2>6
            DEF Graph!ToolCheck, Graph!planning, Graph!review
  <1>11. CASE Proceed
    <2>1. phase' = "candidate_rank" /\ Steps' = Steps + 1
          /\ UNCHANGED <<planRetries, executeRetries>>
      BY <1>1, <1>2, <1>11 DEF Proceed, Check, Steps
    <2> QED BY <1>1, <1>4, <1>5, <1>6, <1>7, <1>11, <2>1
            DEF Proceed, Graph!ToolCheck, Graph!Replan, Graph!ToolsReady,
                Graph!Step, Graph!planning, Graph!review
  <1> QED BY <1>8, <1>9, <1>10, <1>11 DEF ToolCheck

(* Plan, execution and check with their cache and counters implement the three nodes of the *)
(* graph, which knows only whether the plan is clean and everything is fetched.             *)
THEOREM NodesAreThoseOfGraph == Spec => ImplementsGraph
  <1>1. IInv /\ [Next]_vars
        => [Revise \/ Graph!ToolPlan \/ Graph!ToolExecute \/ Graph!ToolCheck]_vars
    BY PlanRefines, ExecuteRefines, CheckRefines DEF Next
  <1> QED BY <1>1, Invariant, PTL DEF Spec, ImplementsGraph
=============================================================================
