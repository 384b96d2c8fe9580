------------------------- MODULE PlanTripGraphProofs -------------------------
(***************************************************************************)
(* IInv is inductive, hence an invariant of PlanTripGraph for every value  *)
(* of the limits, and the safety properties follow from it.  One lemma per *)
(* conjunct of IInv, one step per action; the actions of a group that      *)
(* touches nothing the conjunct speaks of share a step.  The last part     *)
(* proves what the final response tells.                                   *)
(***************************************************************************)
EXTENDS PlanTripGraph, TLAPS

(* The initial state satisfies every part of the invariant. *)
LEMMA InitIsGood == Init => IInv
  BY LimitsAssumption
     DEF Init, IInv, TypeOK, RetryRecord, ToolsRecord, ChoiceRecord, RagRecord, DraftRecord,
         ProposalRecord, VerdictRecord, PendingRecord, DecisionRecord, RevisionRecord,
         OutcomeRecord, Finals, StepLedger, FeedbackIsDue, Fresh, Versioned, Deciding,
         DecisionIsCurrent, NoRetries, NoTools, NoChoice, NoRag, NoProposal, NoVerdict,
         NoPending, NoDecision, NoRevision, NoOutcome, None, Nodes, Kinds, Request,
         Generation, Planned, Closing, Holding, Before, Spent, Owed, GateReady, MayComplete

------------------------------------------------------------------------------
(* Every step keeps the types.  Versioned bounds the number of applied revisions. *)
LEMMA TypeStep ==
  ASSUME TypeOK, Versioned, [Next]_vars
  PROVE  TypeOK'
  <1>0. /\ outcome \in OutcomeRecord /\ revision \in RevisionRecord /\ pending \in PendingRecord
        /\ rag \in RagRecord /\ retry \in RetryRecord /\ draft \in DraftRecord
        /\ tools \in ToolsRecord /\ choice \in ChoiceRecord /\ verdict \in VerdictRecord
        /\ decision \in DecisionRecord
    BY DEF TypeOK
  <1>1. CASE Start
    BY <1>1, LimitsAssumption DEF Start, TypeOK, Step, control, planning, review, None, Nodes
  <1>2. CASE InputExtract
    BY <1>2, LimitsAssumption DEF InputExtract, TypeOK, Step, control, planning, review, None,
        Nodes
  <1>3. CASE MissingInfoCheck
    BY <1>3, LimitsAssumption DEF MissingInfoCheck, TypeOK, Step, control, planning, review,
        None, Nodes
  <1>4. CASE Clarify
    <2>1. outcome' \in OutcomeRecord
      BY <1>0, <1>4, LimitsAssumption DEF Clarify, OutcomeRecord, Finals
    <2> QED
      BY <1>4, <2>1, LimitsAssumption DEF Clarify, TypeOK, Step, control, planning, review,
          None, Nodes
  <1>5. CASE SafetyCheck
    BY <1>5, LimitsAssumption DEF SafetyCheck, TypeOK, Step, control, planning, review, None,
        Nodes
  <1>6. CASE SafeReject
    <2>1. outcome' \in OutcomeRecord
      BY <1>0, <1>6, LimitsAssumption DEF SafeReject, OutcomeRecord, Finals
    <2> QED
      BY <1>6, <2>1, LimitsAssumption DEF SafeReject, TypeOK, Step, control, planning, review,
          None, Nodes
  <1>7. CASE MemoryRead
    BY <1>7, LimitsAssumption DEF MemoryRead, TypeOK, Step, control, planning, review, None, Nodes
  <1>8. CASE PlanningContext
    BY <1>8, LimitsAssumption DEF PlanningContext, ToolsRecord, Generation, Request, TypeOK,
        Step, control, planning, review, None, Nodes
  <1>9. CASE ToolPlan
    BY <1>9, LimitsAssumption DEF ToolPlan, ToolsRecord, TypeOK, Step, control, planning,
        review, None, Nodes
  <1>10. CASE ToolPlanRaises
    BY <1>10, LimitsAssumption DEF ToolPlanRaises, TypeOK, Step, control, planning, review,
        None, Nodes
  <1>11. CASE ToolExecute
    BY <1>11, LimitsAssumption DEF ToolExecute, ToolsRecord, TypeOK, Step, control, planning,
        review, None, Nodes
  <1>12. CASE ToolCheck
    BY <1>12, LimitsAssumption DEF ToolCheck, Replan, Refetch, ToolsReady, RetryRecord,
        TypeOK, Step, control, planning, review, None, Nodes
  <1>13. CASE CandidateRank
    BY <1>13, LimitsAssumption DEF CandidateRank, ToolsRecord, TypeOK, Step, control,
        planning, review, None, Nodes
  <1>14. CASE BudgetOptimize
    BY <1>14, LimitsAssumption DEF BudgetOptimize, ChoiceRecord, ToolsRecord, TypeOK, Step,
        control, planning, review, None, Nodes
  <1>15. CASE RetrievalPlan
    <2>1. rag' \in RagRecord
      BY <1>0, <1>15, LimitsAssumption DEF RetrievalPlan, RagRecord, ToolsRecord
    <2>2. retry' \in RetryRecord
      BY <1>0, <1>15, LimitsAssumption DEF RetrievalPlan, RetryRecord, RagRecord
    <2> QED
      BY <1>15, <2>1, <2>2, LimitsAssumption DEF RetrievalPlan, TypeOK, Step, control,
          planning, review, None, Nodes
  <1>16. CASE RetrievalPlanFails
    BY <1>16, LimitsAssumption DEF RetrievalPlanFails, TypeOK, Step, control, planning,
        review, None, Nodes
  <1>17. CASE HybridRetrieve
    BY <1>17, LimitsAssumption DEF HybridRetrieve, TypeOK, Step, control, planning, review,
        None, Nodes
  <1>18. CASE Rerank
    BY <1>18, LimitsAssumption DEF Rerank, TypeOK, Step, control, planning, review, None, Nodes
  <1>19. CASE EvidenceGrade
    <2>1. rag' \in RagRecord
      BY <1>0, <1>19, LimitsAssumption DEF EvidenceGrade, RagRecord, Older, Generation,
          Request, None
    <2> QED
      BY <1>19, <2>1, LimitsAssumption DEF EvidenceGrade, TypeOK, Step, control, planning,
          review, None, Nodes
  <1>20. CASE Proposal
    BY <1>20, LimitsAssumption DEF Proposal, NextVersion, DraftRecord, ProposalRecord,
        VerdictRecord, PendingRecord, OutcomeRecord, ToolsRecord, ChoiceRecord, RagRecord,
        RevisionRecord, NoVerdict, NoPending, TypeOK, Step, control, planning, review, None,
        Nodes
  <1>21. CASE ProposalFails
    <2>1. draft' \in DraftRecord
      BY <1>0, <1>21, LimitsAssumption DEF ProposalFails, DraftRecord, NoProposal,
          ProposalRecord, Generation, None
    <2> QED
      BY <1>21, <2>1, LimitsAssumption DEF ProposalFails, TypeOK, Step, control, planning,
          review, None, Nodes
  <1>22. CASE VerifierPasses
    BY <1>22, LimitsAssumption DEF VerifierPasses, VerdictRecord, PendingRecord, DraftRecord,
        ProposalRecord, TypeOK, Step, control, planning, review, None, Nodes
  <1>23. CASE VerifierRepairs
    BY <1>23, LimitsAssumption DEF VerifierRepairs, VerdictRecord, PendingRecord, DraftRecord,
        ProposalRecord, RetryRecord, NoPending, TypeOK, Step, control, planning, review, None,
        Nodes
  <1>24. CASE VerifierFails
    BY <1>24, LimitsAssumption DEF VerifierFails, VerdictRecord, PendingRecord, DraftRecord,
        ProposalRecord, NoPending, TypeOK, Step, control, planning, review, None, Nodes
  <1>25. CASE DecisionGate
    BY <1>25, LimitsAssumption DEF DecisionGate, GateReady, NoDecision, DecisionRecord,
        DraftRecord, ProposalRecord, TypeOK, Step, control, planning, review, None, Nodes
  <1>26. CASE RevisionAnalyze
    <2>0. PICK plan \in {"ready", "clarification", "failed"} :
            /\ plan # "failed" => decision.kind = "request_changes"
            /\ revision' = [revision EXCEPT
                 !.plan = plan,
                 !.base = IF plan = "failed" THEN 0 ELSE draft.proposal.no,
                 !.baseVersion = IF plan = "failed" THEN 0 ELSE draft.proposal.version,
                 !.result = IF plan = "failed" THEN "failed" ELSE "analyzed",
                 !.resultVersion = 0]
      BY <1>26 DEF RevisionAnalyze
    <2>1. revision' \in RevisionRecord
      BY <1>0, <2>0 DEF RevisionRecord, DraftRecord, ProposalRecord
    <2> QED
      BY <1>26, <2>1, LimitsAssumption DEF RevisionAnalyze, TypeOK, Step, control, planning,
          review, None, Nodes
  <1>27. CASE ApplyRevision
    <2>1. retry' \in RetryRecord
      BY <1>0, <1>27, LimitsAssumption DEF ApplyRevision, NoRetries, RetryRecord
    <2>2. tools' \in ToolsRecord
      BY <1>0, <1>27, LimitsAssumption DEF ApplyRevision, NoTools, ToolsRecord, Generation, None
    <2>3. choice' \in ChoiceRecord
      BY <1>0, <1>27, LimitsAssumption DEF ApplyRevision, NoChoice, ChoiceRecord, Generation, None
    <2>4. rag' \in RagRecord
      BY <1>0, <1>27, LimitsAssumption DEF ApplyRevision, NoRag, RagRecord, Generation, None
    <2>5. draft' \in DraftRecord
      BY <1>0, <1>27, LimitsAssumption DEF ApplyRevision, NoProposal, DraftRecord,
          ProposalRecord, Generation, None
    <2>6. verdict' \in VerdictRecord
      BY <1>0, <1>27, LimitsAssumption DEF ApplyRevision, NoVerdict, VerdictRecord
    <2>7. pending' \in PendingRecord
      BY <1>0, <1>27, LimitsAssumption DEF ApplyRevision, NoPending, PendingRecord
    <2>8. decision' \in DecisionRecord
      BY <1>0, <1>27, LimitsAssumption DEF ApplyRevision, NoDecision, DecisionRecord
    <2>9. outcome' \in OutcomeRecord
      BY <1>0, <1>27, LimitsAssumption DEF ApplyRevision, NoOutcome, OutcomeRecord
    <2>10. revision' \in RevisionRecord
      BY <1>0, <1>27, LimitsAssumption DEF ApplyRevision, RevisionRecord
    <2>11. request' \in Request
      BY <1>27, LimitsAssumption DEF ApplyRevision, Step, Versioned, TypeOK, Request
    <2> QED
      BY <1>27, <2>1, <2>2, <2>3, <2>4, <2>5, <2>6, <2>7, <2>8, <2>9, <2>10, <2>11,
          LimitsAssumption DEF ApplyRevision, TypeOK, Step, control, planning, review, None,
          Nodes
  <1>28. CASE ApplyRevisionFails
    <2>1. revision' \in RevisionRecord
      BY <1>0, <1>28, LimitsAssumption DEF ApplyRevisionFails, RevisionRecord
    <2> QED
      BY <1>28, <2>1, LimitsAssumption DEF ApplyRevisionFails, TypeOK, Step, control,
          planning, review, None, Nodes
  <1>29. CASE CommitDraft
    <2>1. outcome' \in OutcomeRecord
      BY <1>0, <1>29, LimitsAssumption DEF CommitDraft, OutcomeRecord
    <2>2. pending' \in PendingRecord
      BY <1>0, <1>29, LimitsAssumption DEF CommitDraft, PendingRecord
    <2> QED
      BY <1>29, <2>1, <2>2, LimitsAssumption DEF CommitDraft, TypeOK, Step, control, planning,
          review, None, Nodes
  <1>30. CASE CommitDraftFails
    BY <1>30, LimitsAssumption DEF CommitDraftFails, OutcomeRecord, TypeOK, Step, control,
        planning, review, None, Nodes
  <1>31. CASE Cancel
    <2>1. outcome' \in OutcomeRecord
      BY <1>0, <1>31, LimitsAssumption DEF Cancel, OutcomeRecord
    <2>2. revision' \in RevisionRecord
      BY <1>0, <1>31, LimitsAssumption DEF Cancel, RevisionRecord
    <2> QED
      BY <1>31, <2>1, <2>2, LimitsAssumption DEF Cancel, TypeOK, Step, control, planning,
          review, None, Nodes
  <1>32. CASE FinalResponse
    BY <1>32, LimitsAssumption DEF FinalResponse, FinalType, OutcomeRecord, Finals, TypeOK,
        Step, control, planning, review, None, Nodes
  <1>33. CASE RecursionError
    BY <1>33, LimitsAssumption DEF RecursionError, TypeOK, Step, control, planning, review,
        None, Nodes
  <1>34. ASSUME NEW kind \in Kinds, NEW no, Accept(kind, no) PROVE TypeOK'
    BY <1>34, LimitsAssumption DEF Accept, GateReady, Destination, Decided, OutcomeRecord,
        RevisionRecord, PendingRecord, DecisionRecord, DraftRecord, ProposalRecord, Kinds,
        TypeOK, Step, control, planning, review, None, Nodes
  <1>35. ASSUME NEW no, Reject(no) PROVE TypeOK'
    BY <1>35, LimitsAssumption DEF Reject, GateReady, DecisionRecord, DraftRecord,
        ProposalRecord, Kinds, TypeOK, Step, control, planning, review, None, Nodes
  <1>36. CASE UNCHANGED vars
    BY <1>36 DEF vars, TypeOK, control, planning, review
  <1> QED
    BY <1>1, <1>2, <1>3, <1>4, <1>5, <1>6, <1>7, <1>8, <1>9, <1>10, <1>11, <1>12, <1>13,
        <1>14, <1>15, <1>16, <1>17, <1>18, <1>19, <1>20, <1>21, <1>22, <1>23, <1>24, <1>25,
        <1>26, <1>27, <1>28, <1>29, <1>30, <1>31, <1>32, <1>33, <1>34, <1>35, <1>36 DEF Next,
        GraphStep, Intake, Search, Retrieval, Drafting, Revising, Completing, Resume

------------------------------------------------------------------------------
(* Every step keeps the account of super-steps.  A repair of the evidence must be
   paid for by a round that is left, which FeedbackIsDue says; the gate never asks
   in vain, which Deciding says. *)
LEMMA LedgerStep ==
  ASSUME TypeOK, StepLedger, FeedbackIsDue, Deciding, [Next]_vars
  PROVE  StepLedger'
  <1> USE LimitsAssumption DEF TypeOK, RetryRecord, RagRecord, Nodes, StepLedger, Before,
      Spent, Owed, WorstCase, Step, control, planning, review
  <1>1. CASE Start
    BY <1>1 DEF Start
  <1>2. CASE InputExtract
    BY <1>2 DEF InputExtract
  <1>3. CASE MissingInfoCheck
    BY <1>3 DEF MissingInfoCheck
  <1>4. CASE Clarify
    BY <1>4 DEF Clarify
  <1>5. CASE SafetyCheck
    BY <1>5 DEF SafetyCheck
  <1>6. CASE SafeReject
    BY <1>6 DEF SafeReject
  <1>7. CASE MemoryRead
    BY <1>7 DEF MemoryRead
  <1>8. CASE PlanningContext
    BY <1>8 DEF PlanningContext
  <1>9. CASE ToolPlan
    BY <1>9 DEF ToolPlan
  <1>10. CASE ToolPlanRaises
    BY <1>10 DEF ToolPlanRaises
  <1>11. CASE ToolExecute
    BY <1>11 DEF ToolExecute
  <1>12. CASE ToolCheck
    BY <1>12 DEF ToolCheck, Replan, Refetch, ToolsReady
  <1>13. CASE CandidateRank
    BY <1>13 DEF CandidateRank
  <1>14. CASE BudgetOptimize
    BY <1>14 DEF BudgetOptimize
  <1>15. CASE RetrievalPlan
    BY <1>15 DEF RetrievalPlan, FeedbackIsDue
  <1>16. CASE RetrievalPlanFails
    BY <1>16 DEF RetrievalPlanFails
  <1>17. CASE HybridRetrieve
    BY <1>17 DEF HybridRetrieve
  <1>18. CASE Rerank
    BY <1>18 DEF Rerank
  <1>19. CASE EvidenceGrade
    BY <1>19 DEF EvidenceGrade, CanRepairEvidence
  <1>20. CASE Proposal
    BY <1>20 DEF Proposal, NoVerdict, NoPending
  <1>21. CASE ProposalFails
    BY <1>21 DEF ProposalFails, NoProposal
  <1>22. CASE VerifierPasses
    BY <1>22 DEF VerifierPasses
  <1>23. CASE VerifierRepairs
    BY <1>23 DEF VerifierRepairs, NoPending
  <1>24. CASE VerifierFails
    BY <1>24 DEF VerifierFails, NoPending
  <1>25. CASE DecisionGate
    BY <1>25 DEF DecisionGate, Deciding
  <1>26. CASE RevisionAnalyze
    BY <1>26 DEF RevisionAnalyze
  <1>27. CASE ApplyRevision
    BY <1>27 DEF ApplyRevision, BaseIsCurrent, NoRetries, NoTools, NoChoice, NoRag,
        NoProposal, NoVerdict, NoPending, NoDecision, NoOutcome
  <1>28. CASE ApplyRevisionFails
    BY <1>28 DEF ApplyRevisionFails
  <1>29. CASE CommitDraft
    BY <1>29 DEF CommitDraft
  <1>30. CASE CommitDraftFails
    BY <1>30 DEF CommitDraftFails
  <1>31. CASE Cancel
    BY <1>31 DEF Cancel
  <1>32. CASE FinalResponse
    BY <1>32 DEF FinalResponse
  <1>33. CASE RecursionError
    BY <1>33 DEF RecursionError
  <1>34. ASSUME NEW kind \in Kinds, NEW no, Accept(kind, no) PROVE StepLedger'
    BY <1>34 DEF Accept, Destination, Kinds
  <1>35. ASSUME NEW no, Reject(no) PROVE StepLedger'
    BY <1>35 DEF Reject
  <1>36. CASE UNCHANGED vars
    BY <1>36 DEF vars
  <1> QED
    BY <1>1, <1>2, <1>3, <1>4, <1>5, <1>6, <1>7, <1>8, <1>9, <1>10, <1>11, <1>12, <1>13,
        <1>14, <1>15, <1>16, <1>17, <1>18, <1>19, <1>20, <1>21, <1>22, <1>23, <1>24, <1>25,
        <1>26, <1>27, <1>28, <1>29, <1>30, <1>31, <1>32, <1>33, <1>34, <1>35, <1>36 DEF Next,
        GraphStep, Intake, Search, Retrieval, Drafting, Revising, Completing, Resume

------------------------------------------------------------------------------
(* Feedback of the grader is pending only between the request for a repair and the
   next grading. *)
LEMMA FeedbackStep ==
  ASSUME TypeOK, FeedbackIsDue, StepLedger, [Next]_vars
  PROVE  FeedbackIsDue'
  <1> USE LimitsAssumption DEF TypeOK, RetryRecord, RagRecord, FeedbackIsDue, Step, control,
      planning, review
  <1>1. CASE Start
    BY <1>1 DEF Start
  <1>2. CASE Intake
    BY <1>2 DEF Intake, InputExtract, MissingInfoCheck, Clarify, SafetyCheck, SafeReject,
        MemoryRead, PlanningContext
  <1>3. CASE Search
    BY <1>3 DEF Search, ToolPlan, ToolPlanRaises, ToolExecute, ToolCheck, CandidateRank,
        BudgetOptimize
  <1>4. CASE RetrievalPlan
    BY <1>4 DEF RetrievalPlan, Older
  <1>5. CASE RetrievalPlanFails
    BY <1>5 DEF RetrievalPlanFails
  <1>6. CASE HybridRetrieve
    BY <1>6 DEF HybridRetrieve
  <1>7. CASE Rerank
    BY <1>7 DEF Rerank
  <1>8. CASE EvidenceGrade
    BY <1>8 DEF EvidenceGrade, Older, CanRepairEvidence
  <1>9. CASE Drafting
    BY <1>9 DEF Drafting, Proposal, NoVerdict, NoPending, ProposalFails, NoProposal,
        VerifierPasses, VerifierRepairs, VerifierFails
  <1>10. CASE DecisionGate
    BY <1>10 DEF DecisionGate
  <1>11. CASE RevisionAnalyze
    BY <1>11 DEF RevisionAnalyze
  <1>12. CASE ApplyRevision
    BY <1>12 DEF ApplyRevision, NoRetries, NoTools, NoChoice, NoRag, NoProposal, NoVerdict,
        NoPending, NoDecision, NoOutcome
  <1>13. CASE ApplyRevisionFails
    BY <1>13 DEF ApplyRevisionFails
  <1>14. CASE Completing
    BY <1>14 DEF Completing, CommitDraft, CommitDraftFails, Cancel, FinalResponse
  <1>15. CASE RecursionError
    BY <1>15 DEF RecursionError
  <1>16. ASSUME NEW kind \in Kinds, NEW no, Accept(kind, no) PROVE FeedbackIsDue'
    BY <1>16 DEF Accept, StepLedger
  <1>17. ASSUME NEW no, Reject(no) PROVE FeedbackIsDue'
    BY <1>17 DEF Reject, StepLedger
  <1>18. CASE UNCHANGED vars
    BY <1>18 DEF vars
  <1> QED
    BY <1>1, <1>2, <1>3, <1>4, <1>5, <1>6, <1>7, <1>8, <1>9, <1>10, <1>11, <1>12, <1>13,
        <1>14, <1>15, <1>16, <1>17, <1>18 DEF Next, GraphStep, Retrieval, Revising, Resume

------------------------------------------------------------------------------
(* Every step keeps derived objects tied to the request they were computed from. *)
LEMMA FreshStep ==
  ASSUME TypeOK, Fresh, Versioned, [Next]_vars
  PROVE  Fresh'
  <1> USE LimitsAssumption DEF TypeOK, ToolsRecord, ChoiceRecord, RagRecord, DraftRecord,
      ProposalRecord, Request, Generation, None, Fresh, Planned, Step, control, planning,
      review
  <1>1. CASE Start
    BY <1>1 DEF Start
  <1>2. CASE Intake
    BY <1>2 DEF Intake, InputExtract, MissingInfoCheck, Clarify, SafetyCheck, SafeReject,
        MemoryRead, PlanningContext
  <1>3. CASE ToolPlan
    BY <1>3 DEF ToolPlan
  <1>4. CASE ToolPlanRaises
    BY <1>4 DEF ToolPlanRaises
  <1>5. CASE ToolExecute
    BY <1>5 DEF ToolExecute
  <1>6. CASE ToolCheck
    BY <1>6 DEF ToolCheck
  <1>7. CASE CandidateRank
    BY <1>7 DEF CandidateRank
  <1>8. CASE BudgetOptimize
    BY <1>8 DEF BudgetOptimize
  <1>9. CASE RetrievalPlan
    BY <1>9 DEF RetrievalPlan, Older
  <1>10. CASE RetrievalPlanFails
    BY <1>10 DEF RetrievalPlanFails
  <1>11. CASE HybridRetrieve
    BY <1>11 DEF HybridRetrieve
  <1>12. CASE Rerank
    BY <1>12 DEF Rerank
  <1>13. CASE EvidenceGrade
    BY <1>13 DEF EvidenceGrade, Older, CanRepairEvidence
  <1>14. CASE Proposal
    BY <1>14 DEF Proposal, NextVersion, NoVerdict, NoPending
  <1>15. CASE ProposalFails
    BY <1>15 DEF ProposalFails, NoProposal
  <1>16. CASE VerifierPasses
    BY <1>16 DEF VerifierPasses, Versioned, Holding
  <1>17. CASE VerifierRepairs
    BY <1>17 DEF VerifierRepairs, Versioned, Holding, NoPending
  <1>18. CASE VerifierFails
    BY <1>18 DEF VerifierFails, NoPending
  <1>19. CASE DecisionGate
    BY <1>19 DEF DecisionGate, Versioned, Holding, Closing
  <1>20. CASE RevisionAnalyze
    BY <1>20 DEF RevisionAnalyze
  <1>21. CASE ApplyRevision
    BY <1>21 DEF ApplyRevision, NoRetries, NoTools, NoChoice, NoRag, NoProposal, NoVerdict,
        NoPending, NoDecision, NoOutcome
  <1>22. CASE ApplyRevisionFails
    BY <1>22 DEF ApplyRevisionFails
  <1>23. CASE Completing
    BY <1>23 DEF Completing, CommitDraft, CommitDraftFails, Cancel, FinalResponse
  <1>24. CASE RecursionError
    BY <1>24 DEF RecursionError
  <1>25. ASSUME NEW kind \in Kinds, NEW no, Accept(kind, no) PROVE Fresh'
    BY <1>25 DEF Accept, Destination, Kinds
  <1>26. ASSUME NEW no, Reject(no) PROVE Fresh'
    BY <1>26 DEF Reject
  <1>27. CASE UNCHANGED vars
    BY <1>27 DEF vars
  <1> QED
    BY <1>1, <1>2, <1>3, <1>4, <1>5, <1>6, <1>7, <1>8, <1>9, <1>10, <1>11, <1>12, <1>13,
        <1>14, <1>15, <1>16, <1>17, <1>18, <1>19, <1>20, <1>21, <1>22, <1>23, <1>24, <1>25,
        <1>26, <1>27 DEF Next, GraphStep, Search, Retrieval, Drafting, Revising, Resume

------------------------------------------------------------------------------
(* Every step keeps the version numbers tied to the number of applied revisions. *)
LEMMA VersionStep ==
  ASSUME TypeOK, StepLedger, Versioned, Deciding, [Next]_vars
  PROVE  Versioned'
  <1> USE LimitsAssumption DEF TypeOK, DraftRecord, ProposalRecord, RevisionRecord, Request,
      Versioned, Holding, Closing, Step, control, planning, review
  <1>1. CASE Start
    BY <1>1 DEF Start
  <1>2. CASE Intake
    BY <1>2 DEF Intake, InputExtract, MissingInfoCheck, Clarify, SafetyCheck, SafeReject,
        MemoryRead, PlanningContext
  <1>3. CASE Search
    BY <1>3 DEF Search, ToolPlan, ToolPlanRaises, ToolExecute, ToolCheck, CandidateRank,
        BudgetOptimize
  <1>4. CASE Retrieval
    BY <1>4 DEF Retrieval, RetrievalPlan, RetrievalPlanFails, HybridRetrieve, Rerank,
        EvidenceGrade
  <1>5. CASE Proposal
    BY <1>5 DEF Proposal, NextVersion, NoVerdict, NoPending
  <1>6. CASE ProposalFails
    BY <1>6 DEF ProposalFails, NoProposal
  <1>7. CASE VerifierPasses
    BY <1>7 DEF VerifierPasses
  <1>8. CASE VerifierRepairs
    BY <1>8 DEF VerifierRepairs, NoPending
  <1>9. CASE VerifierFails
    BY <1>9 DEF VerifierFails, NoPending
  <1>10. CASE DecisionGate
    BY <1>10 DEF DecisionGate, Deciding, GateReady
  <1>11. CASE RevisionAnalyze
    BY <1>11 DEF RevisionAnalyze
  <1>12. CASE ApplyRevision
    BY <1>12 DEF ApplyRevision, BaseIsCurrent, NoRetries, NoTools, NoChoice, NoRag,
        NoProposal, NoVerdict, NoPending, NoDecision, NoOutcome
  <1>13. CASE ApplyRevisionFails
    BY <1>13 DEF ApplyRevisionFails
  <1>14. CASE CommitDraft
    BY <1>14 DEF CommitDraft
  <1>15. CASE CommitDraftFails
    BY <1>15 DEF CommitDraftFails
  <1>16. CASE Cancel
    BY <1>16 DEF Cancel
  <1>17. CASE FinalResponse
    BY <1>17 DEF FinalResponse
  <1>18. CASE RecursionError
    BY <1>18 DEF RecursionError
  <1>19. ASSUME NEW kind \in Kinds, NEW no, Accept(kind, no) PROVE Versioned'
    BY <1>19 DEF Accept, StepLedger, Destination, Kinds
  <1>20. ASSUME NEW no, Reject(no) PROVE Versioned'
    BY <1>20 DEF Reject, StepLedger
  <1>21. CASE UNCHANGED vars
    BY <1>21 DEF vars
  <1> QED
    BY <1>1, <1>2, <1>3, <1>4, <1>5, <1>6, <1>7, <1>8, <1>9, <1>10, <1>11, <1>12, <1>13,
        <1>14, <1>15, <1>16, <1>17, <1>18, <1>19, <1>20, <1>21 DEF Next, GraphStep, Drafting,
        Revising, Completing, Resume

------------------------------------------------------------------------------
(* Every step keeps the proposal, the verdict, the pending action and the decision
   in agreement at the nodes that use them together. *)
LEMMA DecidingStep ==
  ASSUME TypeOK, StepLedger, Versioned, Deciding, [Next]_vars
  PROVE  Deciding'
  <1> USE LimitsAssumption DEF TypeOK, DraftRecord, ProposalRecord, DecisionRecord, Deciding,
      GateReady, MayComplete, Decided, Closing, Step, control, planning, review
  <1>1. CASE Start
    BY <1>1 DEF Start
  <1>2. CASE Intake
    BY <1>2 DEF Intake, InputExtract, MissingInfoCheck, Clarify, SafetyCheck, SafeReject,
        MemoryRead, PlanningContext
  <1>3. CASE Search
    BY <1>3 DEF Search, ToolPlan, ToolPlanRaises, ToolExecute, ToolCheck, CandidateRank,
        BudgetOptimize
  <1>4. CASE Retrieval
    BY <1>4 DEF Retrieval, RetrievalPlan, RetrievalPlanFails, HybridRetrieve, Rerank,
        EvidenceGrade
  <1>5. CASE Proposal
    BY <1>5 DEF Proposal, NoVerdict, NoPending
  <1>6. CASE ProposalFails
    BY <1>6 DEF ProposalFails, NoProposal
  <1>7. CASE VerifierPasses
    BY <1>7 DEF VerifierPasses, Versioned, Holding, Request
  <1>8. CASE VerifierRepairs
    BY <1>8 DEF VerifierRepairs, NoPending
  <1>9. CASE VerifierFails
    BY <1>9 DEF VerifierFails, NoPending
  <1>10. CASE DecisionGate
    BY <1>10 DEF DecisionGate
  <1>11. CASE RevisionAnalyze
    BY <1>11 DEF RevisionAnalyze
  <1>12. CASE ApplyRevision
    BY <1>12 DEF ApplyRevision, BaseIsCurrent, NoRetries, NoTools, NoChoice, NoRag,
        NoProposal, NoVerdict, NoPending, NoDecision, NoOutcome
  <1>13. CASE ApplyRevisionFails
    BY <1>13 DEF ApplyRevisionFails
  <1>14. CASE CommitDraft
    BY <1>14 DEF CommitDraft
  <1>15. CASE CommitDraftFails
    BY <1>15 DEF CommitDraftFails
  <1>16. CASE Cancel
    BY <1>16 DEF Cancel
  <1>17. CASE FinalResponse
    BY <1>17 DEF FinalResponse
  <1>18. CASE RecursionError
    BY <1>18 DEF RecursionError
  <1>19. ASSUME NEW kind \in Kinds, NEW no, Accept(kind, no) PROVE Deciding'
    BY <1>19 DEF Accept, StepLedger, VerdictRecord, PendingRecord, Destination, Kinds
  <1>20. ASSUME NEW no, Reject(no) PROVE Deciding'
    BY <1>20 DEF Reject, StepLedger
  <1>21. CASE UNCHANGED vars
    BY <1>21 DEF vars
  <1> QED
    BY <1>1, <1>2, <1>3, <1>4, <1>5, <1>6, <1>7, <1>8, <1>9, <1>10, <1>11, <1>12, <1>13,
        <1>14, <1>15, <1>16, <1>17, <1>18, <1>19, <1>20, <1>21 DEF Next, GraphStep, Drafting,
        Revising, Completing, Resume

------------------------------------------------------------------------------
(* A decision in force stays on the proposal in force. *)
LEMMA DecisionStep ==
  ASSUME TypeOK, DecisionIsCurrent, Deciding, [Next]_vars
  PROVE  DecisionIsCurrent'
  <1> USE LimitsAssumption DEF TypeOK, DecisionRecord, DecisionIsCurrent, Deciding, Closing,
      Step, control, planning, review
  <1>1. CASE Start
    BY <1>1 DEF Start
  <1>2. CASE Intake
    BY <1>2 DEF Intake, InputExtract, MissingInfoCheck, Clarify, SafetyCheck, SafeReject,
        MemoryRead, PlanningContext
  <1>3. CASE Search
    BY <1>3 DEF Search, ToolPlan, ToolPlanRaises, ToolExecute, ToolCheck, CandidateRank,
        BudgetOptimize
  <1>4. CASE Retrieval
    BY <1>4 DEF Retrieval, RetrievalPlan, RetrievalPlanFails, HybridRetrieve, Rerank,
        EvidenceGrade
  <1>5. CASE Drafting
    BY <1>5 DEF Drafting, Proposal, NoVerdict, NoPending, ProposalFails, NoProposal,
        VerifierPasses, VerifierRepairs, VerifierFails
  <1>6. CASE DecisionGate
    BY <1>6 DEF DecisionGate, NoDecision
  <1>7. CASE Revising
    BY <1>7 DEF Revising, RevisionAnalyze, ApplyRevision, NoRetries, NoTools, NoChoice, NoRag,
        NoProposal, NoVerdict, NoPending, NoDecision, NoOutcome, ApplyRevisionFails
  <1>8. CASE Completing
    BY <1>8 DEF Completing, CommitDraft, CommitDraftFails, Cancel, FinalResponse
  <1>9. CASE RecursionError
    BY <1>9 DEF RecursionError
  <1>10. ASSUME NEW kind \in Kinds, NEW no, Accept(kind, no) PROVE DecisionIsCurrent'
    BY <1>10 DEF Accept
  <1>11. ASSUME NEW no, Reject(no) PROVE DecisionIsCurrent'
    BY <1>11 DEF Reject
  <1>12. CASE UNCHANGED vars
    BY <1>12 DEF vars
  <1> QED
    BY <1>1, <1>2, <1>3, <1>4, <1>5, <1>6, <1>7, <1>8, <1>9, <1>10, <1>11, <1>12 DEF Next,
        GraphStep, Resume

------------------------------------------------------------------------------
(* The parts together. *)
LEMMA Inductive == IInv /\ [Next]_vars => IInv'
  <1> SUFFICES ASSUME IInv, [Next]_vars PROVE IInv'
    OBVIOUS
  <1>0. TypeOK /\ StepLedger /\ FeedbackIsDue /\ Fresh /\ Versioned /\ Deciding
          /\ DecisionIsCurrent
    BY DEF IInv
  <1>1. TypeOK'
    BY <1>0, TypeStep
  <1>2. StepLedger' /\ FeedbackIsDue'
    BY <1>0, LedgerStep, FeedbackStep
  <1>3. Fresh' /\ Versioned'
    BY <1>0, FreshStep, VersionStep
  <1>4. Deciding' /\ DecisionIsCurrent'
    BY <1>0, DecidingStep, DecisionStep
  <1> QED
    BY <1>1, <1>2, <1>3, <1>4 DEF IInv

(* The inductive invariant holds in every reachable state of a thread, whatever the
   configured limits are. *)
THEOREM Invariant == Spec => []IInv
  BY InitIsGood, Inductive, PTL DEF Spec

(* The retry counters, the object states and the versions have their types; the
   counters of tool_check, retrieval_plan and verifier stay within the settings. *)
THEOREM TypeCorrect == Spec => []TypeOK
  <1>1. IInv => TypeOK
    BY DEF IInv
  <1> QED
    BY <1>1, Invariant, PTL

(* The worst case bounds what the account of steps allows. *)
LEMMA LedgerBound == IInv => InvocationIsShort
  BY LimitsAssumption
     DEF IInv, TypeOK, RetryRecord, Nodes, StepLedger, Before, Spent, Owed, WorstCase,
         InvocationIsShort

(* One invocation of the graph executes at most WorstCase super-steps, whatever the
   retry settings are: the counters of the nested repair loops end it on their own. *)
THEOREM ShortInvocations == Spec => []InvocationIsShort
  BY LedgerBound, Invariant, PTL

(* If the recursion limit is at least WorstCase, GraphRecursionError cannot happen:
   only tool_plan ends an invocation with an exception. *)
THEOREM NoRecursionError == Spec => []OnlyToolPlanRaises
  <1>1. IInv => OnlyToolPlanRaises
    BY LimitsAssumption
       DEF IInv, TypeOK, RetryRecord, StepLedger, WorstCase, OnlyToolPlanRaises
  <1> QED
    BY <1>1, Invariant, PTL

(* decision_gate can always ask: its own precondition failure is unreachable, first
   time or on resume. *)
THEOREM GateNeverRefuses == Spec => []GateAlwaysReady
  <1>1. IInv => GateAlwaysReady
    BY DEF IInv, StepLedger, Deciding, GateAlwaysReady
  <1> QED
    BY <1>1, Invariant, PTL

(* A proposal put before the user was computed from the request as last revised, in
   its context, its selection and its evidence. *)
THEOREM NothingStaleIsPresented == Spec => []PresentedIsCurrent
  <1>1. IInv => PresentedIsCurrent
    BY DEF IInv, StepLedger, Fresh, Versioned, Holding, Closing, PresentedIsCurrent
  <1> QED
    BY <1>1, Invariant, PTL

(* A version number names one proposal of the thread for good. *)
THEOREM VersionsAreNames == Spec => []VersionsNameProposals
  <1>1. IInv => VersionsNameProposals
    BY DEF IInv, StepLedger, Versioned, Holding, Closing, VersionsNameProposals
  <1> QED
    BY <1>1, Invariant, PTL

(* A decision in force is on the proposal in force, and the user has seen it. *)
THEOREM DecisionsAreCurrent == Spec => []DecisionIsCurrent
  <1>1. IInv => DecisionIsCurrent
    BY DEF IInv
  <1> QED
    BY <1>1, Invariant, PTL

(* The preconditions of commit_draft and cancel hold whenever they are reached. *)
THEOREM DecisionsComplete == Spec => []AcceptedCanComplete
  <1>1. IInv => AcceptedCanComplete
    BY DEF IInv, Deciding, AcceptedCanComplete
  <1> QED
    BY <1>1, Invariant, PTL

(* The two bounds together: no invocation is longer than WorstCase, and none is cut off
   by a recursion limit of at least that. *)
THEOREM InvocationsBounded == Spec => []InvocationsAreBounded
  <1>1. InvocationIsShort /\ OnlyToolPlanRaises => InvocationsAreBounded
    BY DEF InvocationsAreBounded
  <1> QED
    BY <1>1, ShortInvocations, NoRecursionError, PTL

(* What the gate has let through is carried out, and the state keeps its types. *)
THEOREM DecisionsCarriedOut == Spec => []DecisionsAreCarriedOut
  <1>1. TypeOK /\ GateAlwaysReady /\ AcceptedCanComplete => DecisionsAreCarriedOut
    BY DEF DecisionsAreCarriedOut
  <1> QED
    BY <1>1, TypeCorrect, GateNeverRefuses, DecisionsComplete, PTL

------------------------------------------------------------------------------
(***************************************************************************)
(* The final response of a thread tells its outcome, however many rounds   *)
(* of repair and revision there were.  Telling follows the fields the      *)
(* response is chosen by through the nodes; together with IInv it is       *)
(* inductive.                                                              *)
(***************************************************************************)

(* A new thread has nothing to tell. *)
LEMMA TellingAtStart == Init => Telling
  BY DEF Init, Telling, NoTools, NoChoice, NoRag, NoVerdict, NoDecision, NoRevision, NoOutcome,
         Unfinished, NotRevising, NothingRanked, IntakeNodes, NotRanked, Selected, Closing

(* Steps that change nothing a response is chosen by, within one stage. *)
LEMMA SilentStep ==
  ASSUME Telling, StepLedger, [Next]_vars,
         Start \/ InputExtract \/ MissingInfoCheck \/ SafetyCheck \/ MemoryRead
           \/ ToolPlanRaises \/ RetrievalPlanFails \/ HybridRetrieve \/ Rerank
           \/ RecursionError \/ UNCHANGED vars
  PROVE  Telling'
  <1>1. UNCHANGED <<planning, review, decision, revision, outcome>>
    BY DEF Start, InputExtract, MissingInfoCheck, SafetyCheck, MemoryRead, ToolPlanRaises,
           RetrievalPlanFails, HybridRetrieve, Rerank, RecursionError, vars
  <1>2. UNCHANGED <<tools, choice, rag, draft, verdict, decision, revision, outcome>>
    BY <1>1 DEF planning, review
  <1>3. \/ node' = node /\ (run' = run \/ run # "ended")
        \/ node \in IntakeNodes /\ node' \in IntakeNodes
        \/ node = "memory_read" /\ node' = "planning_context"
        \/ node \in Selected /\ node' \in Selected
    BY DEF Start, InputExtract, MissingInfoCheck, SafetyCheck, MemoryRead, ToolPlanRaises,
           RetrievalPlanFails, HybridRetrieve, Rerank, RecursionError, vars, control, Step,
           IntakeNodes, Selected
  <1> QED
    BY <1>2, <1>3 DEF Telling, Unfinished, NotRevising, NothingRanked, NothingFailed, Refused,
       GivenUp, Concluded, PlanningFailed, ResponseTellsOutcome, IntakeNodes, NotRanked,
       Selected, Closing, StepLedger

(* The intake refuses, builds the context or leaves it as it was. *)
LEMMA IntakeTells ==
  ASSUME TypeOK, Telling, Clarify \/ SafeReject \/ PlanningContext
  PROVE  Telling'
  <1> USE DEF Telling, Unfinished, NotRevising, NothingRanked, IntakeNodes, NotRanked,
              Selected, Closing, Step, planning, review
  <1>0. outcome \in OutcomeRecord /\ tools \in ToolsRecord
    BY DEF TypeOK
  <1>1. CASE Clarify
    <2>1. /\ outcome'.final = "clarification" /\ outcome'.itinerary = "collecting_info"
          /\ outcome'.commit = outcome.commit /\ outcome'.cancel = outcome.cancel
      BY <1>0, <1>1 DEF Clarify, OutcomeRecord
    <2> QED BY <1>1, <2>1 DEF Clarify, Refused
  <1>2. CASE SafeReject
    <2>1. /\ outcome'.final = "safety_reject" /\ outcome'.itinerary = "rejected"
          /\ outcome'.commit = outcome.commit /\ outcome'.cancel = outcome.cancel
      BY <1>0, <1>2 DEF SafeReject, OutcomeRecord
    <2> QED BY <1>2, <2>1 DEF SafeReject, Refused
  <1>3. CASE PlanningContext
    <2>1. tools'.plan = tools.plan /\ tools'.ranked = tools.ranked
      BY <1>0, <1>3 DEF PlanningContext, ToolsRecord
    <2> QED BY <1>3, <2>1 DEF PlanningContext
  <1> QED BY <1>1, <1>2, <1>3

(* Tools, ranking and budget: what ends the search is left in the state. *)
LEMMA SearchTells ==
  ASSUME TypeOK, Telling, Search, ~ToolPlanRaises
  PROVE  Telling'
  <1> USE DEF Telling, Unfinished, NotRevising, NothingRanked, NothingFailed, PlanningFailed,
              IntakeNodes, NotRanked, Selected, Closing, Step, planning, review
  <1>0. tools \in ToolsRecord
    BY DEF TypeOK
  <1>1. CASE ToolPlan
    <2>1. tools'.plan # "none" /\ tools'.ranked = tools.ranked
      BY <1>0, <1>1 DEF ToolPlan, ToolsRecord
    <2> QED BY <1>1, <2>1 DEF ToolPlan
  <1>2. CASE ToolExecute
    <2>1. tools'.plan = tools.plan /\ tools'.ranked = tools.ranked
      BY <1>0, <1>2 DEF ToolExecute, ToolsRecord
    <2> QED BY <1>2, <2>1 DEF ToolExecute
  <1>3. CASE ToolCheck
    BY <1>3 DEF ToolCheck, GivenUp
  <1>4. CASE CandidateRank
    <2>1. PICK ranked \in {"ok", "bad"} :
            /\ Step("candidate_rank", IF ranked = "ok" THEN "budget_optimize" ELSE "final_response")
            /\ tools' = [tools EXCEPT !.ranked = ranked]
      BY <1>4 DEF CandidateRank
    <2>2. tools'.plan = tools.plan /\ tools'.ranked = ranked
      BY <1>0, <2>1 DEF ToolsRecord
    <2> QED BY <1>4, <2>1, <2>2 DEF CandidateRank, GivenUp
  <1>5. CASE BudgetOptimize
    BY <1>5 DEF BudgetOptimize, GivenUp
  <1> QED BY <1>1, <1>2, <1>3, <1>4, <1>5 DEF Search

(* The evidence is enough, to be repaired or given up. *)
LEMMA RetrievalTells ==
  ASSUME TypeOK, Telling, RetrievalPlan \/ EvidenceGrade
  PROVE  Telling'
  <1> USE DEF Telling, Unfinished, NotRevising, NothingRanked, NothingFailed, PlanningFailed,
              IntakeNodes, NotRanked, Selected, Closing, Step, planning, review
  <1>0. rag \in RagRecord
    BY DEF TypeOK
  <1>1. CASE RetrievalPlan
    <2>1. rag'.evidence = rag.evidence
      BY <1>0, <1>1 DEF RetrievalPlan, RagRecord
    <2> QED BY <1>1, <2>1 DEF RetrievalPlan
  <1>2. CASE EvidenceGrade
    <2>1. PICK next \in {"continue", "repair", "stop"} :
            /\ Step("evidence_grade", CASE next = "continue" -> "proposal"
                                        [] next = "repair" -> "retrieval_plan"
                                        [] next = "stop" -> "final_response")
            /\ rag'.evidence = next
      BY <1>0, <1>2 DEF EvidenceGrade, RagRecord
    <2> QED BY <1>2, <2>1 DEF EvidenceGrade, GivenUp
  <1> QED BY <1>1, <1>2

(* A proposal is made, verified, repaired or given up. *)
LEMMA DraftingTells ==
  ASSUME TypeOK, Telling, Drafting
  PROVE  Telling'
  <1> USE DEF Telling, Unfinished, NotRevising, NothingRanked, NothingFailed, PlanningFailed,
              IntakeNodes, NotRanked, Selected, Closing, Step, planning, review
  <1>0. outcome \in OutcomeRecord /\ draft \in DraftRecord
    BY DEF TypeOK
  <1>1. CASE Proposal
    <2>1. /\ outcome'.itinerary = "proposed" /\ outcome'.final = outcome.final
          /\ outcome'.commit = outcome.commit /\ outcome'.cancel = outcome.cancel
      BY <1>0, <1>1 DEF Proposal, OutcomeRecord
    <2>2. verdict'.next = "none" /\ draft'.result = "generated"
      BY <1>1 DEF Proposal, NoVerdict
    <2> QED BY <1>1, <2>1, <2>2 DEF Proposal
  <1>2. CASE ProposalFails
    <2>1. draft'.result = "failed"
      BY <1>0, <1>2 DEF ProposalFails, DraftRecord
    <2> QED BY <1>2, <2>1 DEF ProposalFails, GivenUp
  <1>3. CASE VerifierPasses
    BY <1>3 DEF VerifierPasses
  <1>4. CASE VerifierRepairs
    BY <1>4 DEF VerifierRepairs
  <1>5. CASE VerifierFails
    <2>1. verdict'.next = "final_response"
      BY <1>5 DEF VerifierFails
    <2> QED BY <1>5, <2>1 DEF VerifierFails, GivenUp
  <1> QED BY <1>1, <1>2, <1>3, <1>4, <1>5 DEF Drafting

(* The user is asked, and decides. *)
LEMMA DecidingTells ==
  ASSUME TypeOK, Telling, Deciding, StepLedger, DecisionGate \/ Resume
  PROVE  Telling'
  <1> USE DEF Telling, Unfinished, NotRevising, NothingRanked, NothingFailed, PlanningFailed,
              IntakeNodes, NotRanked, Selected, Closing, planning, review
  <1>0. outcome \in OutcomeRecord /\ revision \in RevisionRecord
    BY DEF TypeOK
  <1>1. CASE DecisionGate
    <2>1. GateReady
      BY <1>1 DEF DecisionGate, Deciding
    <2> QED BY <1>1, <2>1 DEF DecisionGate
  <1>2. ASSUME NEW kind \in Kinds, NEW no, Accept(kind, no) PROVE Telling'
    <2>1. node = "decision_gate"
      BY <1>2 DEF Accept, StepLedger
    <2>2. /\ outcome'.final = outcome.final /\ outcome'.commit = outcome.commit
          /\ outcome'.cancel = outcome.cancel
          /\ outcome'.itinerary \in {outcome.itinerary, "revision_requested"}
      BY <1>0, <1>2 DEF Accept, OutcomeRecord
    <2>3. revision'.plan = revision.plan /\ revision'.result = revision.result
      BY <1>0, <1>2 DEF Accept, RevisionRecord
    <2>4. /\ node' \in {"commit_draft", "cancel", "revision_analyze"} /\ decision'.kind = kind
          /\ node' = "revision_analyze" => kind = "request_changes"
          /\ UNCHANGED <<tools, choice, rag, draft, verdict>>
      BY <1>2 DEF Accept, Destination, Kinds
    <2>5. outcome'.itinerary = "approved_simulated" <=> outcome'.commit = "committed"
      BY <2>1, <2>2
    <2> QED BY <2>1, <2>2, <2>3, <2>4, <2>5
  <1>3. ASSUME NEW no, Reject(no) PROVE Telling'
    <2>1. node = "decision_gate"
      BY <1>3 DEF Reject, StepLedger
    <2> QED BY <1>3, <2>1 DEF Reject
  <1> QED BY <1>1, <1>2, <1>3 DEF Resume

(* A revision is applied, and nothing of the old outcome is left, or it fails. *)
LEMMA RevisingTells ==
  ASSUME TypeOK, Telling, Revising
  PROVE  Telling'
  <1> USE DEF Telling, Unfinished, NotRevising, NothingRanked, NothingFailed, PlanningFailed,
              IntakeNodes, NotRanked, Selected, Closing, Step, planning, review
  <1>0. revision \in RevisionRecord /\ draft \in DraftRecord
    BY DEF TypeOK
  <1>1. CASE RevisionAnalyze
    <2>1. PICK plan \in {"ready", "clarification", "failed"} :
            /\ Step("revision_analyze", IF plan = "ready" THEN "apply_revision"
                                                          ELSE "final_response")
            /\ revision'.plan = plan
            /\ revision'.result = IF plan = "failed" THEN "failed" ELSE "analyzed"
      BY <1>0, <1>1 DEF RevisionAnalyze, RevisionRecord
    <2> QED BY <1>1, <2>1 DEF RevisionAnalyze, Concluded
  <1>2. CASE ApplyRevision
    <2>1. /\ revision'.plan = "ready" /\ revision'.result = "applied"
          /\ draft'.result = "none"
      BY <1>0, <1>2 DEF ApplyRevision, RevisionRecord, DraftRecord
    <2> QED BY <1>2, <2>1 DEF ApplyRevision, NoTools, NoChoice, NoRag, NoVerdict, NoDecision,
                              NoOutcome
  <1>3. CASE ApplyRevisionFails
    <2>1. revision'.result = "failed"
      BY <1>0, <1>3 DEF ApplyRevisionFails, RevisionRecord
    <2> QED BY <1>3, <2>1 DEF ApplyRevisionFails, Concluded
  <1> QED BY <1>1, <1>2, <1>3 DEF Revising

(* The decision is carried out. *)
LEMMA CompletionTells ==
  ASSUME TypeOK, Telling, Deciding, CommitDraft \/ CommitDraftFails \/ Cancel
  PROVE  Telling'
  <1> USE DEF Telling, Unfinished, NotRevising, NothingFailed, IntakeNodes, NotRanked, Selected,
              Closing, Step, planning, review, Deciding, MayComplete
  <1>0. outcome \in OutcomeRecord /\ revision \in RevisionRecord
    BY DEF TypeOK
  <1>1. CASE CommitDraft
    <2>1. /\ outcome'.final = outcome.final /\ outcome'.commit = "committed"
          /\ outcome'.cancel = outcome.cancel /\ outcome'.itinerary = "approved_simulated"
      BY <1>0, <1>1 DEF CommitDraft, OutcomeRecord
    <2>2. decision.kind = "approve"
      BY <1>1 DEF CommitDraft
    <2> QED BY <1>1, <2>1, <2>2 DEF CommitDraft, Concluded
  <1>2. CASE CommitDraftFails
    <2>1. /\ outcome'.final = outcome.final /\ outcome'.commit = "failed"
          /\ outcome'.cancel = outcome.cancel /\ outcome'.itinerary = outcome.itinerary
      BY <1>0, <1>2 DEF CommitDraftFails, OutcomeRecord
    <2>2. decision.kind = "approve"
      BY <1>2 DEF CommitDraftFails
    <2> QED BY <1>2, <2>1, <2>2 DEF CommitDraftFails, Concluded
  <1>3. CASE Cancel
    <2>0. MayComplete("cancel")
      BY <1>3 DEF Cancel
    <2>1. /\ outcome'.final = outcome.final /\ outcome'.commit = outcome.commit
          /\ outcome'.cancel = "cancelled" /\ outcome'.itinerary = "rejected"
      BY <1>0, <1>3, <2>0 DEF Cancel, OutcomeRecord
    <2>2. revision'.plan = revision.plan /\ revision'.result = revision.result
      BY <1>0, <1>3, <2>0 DEF Cancel, RevisionRecord
    <2>3. decision.kind = "cancel"
      BY <2>0
    <2> QED BY <1>3, <2>1, <2>2, <2>3 DEF Cancel, Concluded
  <1> QED BY <1>1, <1>2, <1>3

(* The response is the one that belongs to the way the thread has ended. *)
LEMMA ResponseTells ==
  ASSUME TypeOK, Telling, FinalResponse
  PROVE  Telling'
  <1>0. outcome \in OutcomeRecord
    BY DEF TypeOK
  <1>1. /\ node = "final_response" /\ node' = "END" /\ run' = "ended"
        /\ UNCHANGED <<tools, choice, rag, draft, verdict, decision, revision>>
    BY DEF FinalResponse, Step, planning, review
  <1>2. /\ outcome'.final = FinalType /\ outcome'.commit = outcome.commit
        /\ outcome'.cancel = outcome.cancel /\ outcome'.itinerary = outcome.itinerary
    BY <1>0 DEF FinalResponse, OutcomeRecord
  <1>3. outcome.itinerary = "approved_simulated" <=> outcome.commit = "committed"
    BY DEF Telling
  <1>4. ResponseTellsOutcome'
    <2>1. CASE Refused
      BY <1>1, <1>2, <1>3, <2>1 DEF ResponseTellsOutcome, FinalType, Refused, Unfinished
    <2>2. CASE GivenUp
      BY <1>1, <1>2, <1>3, <2>2 DEF ResponseTellsOutcome, FinalType, GivenUp, Unfinished,
         NotRevising, NothingRanked, PlanningFailed
    <2>3. CASE Concluded
      BY <1>0, <1>1, <1>2, <1>3, <2>3 DEF ResponseTellsOutcome, FinalType, Concluded,
         Unfinished, NotRevising, NothingFailed, OutcomeRecord
    <2> QED BY <1>1, <2>1, <2>2, <2>3 DEF Telling
  <1> QED BY <1>1, <1>2, <1>3, <1>4 DEF Telling, IntakeNodes, NotRanked, Selected, Closing

(* Telling is preserved by every step. *)
LEMMA TellingStep ==
  ASSUME IInv, Telling, [Next]_vars
  PROVE  Telling'
  <1>0. TypeOK /\ StepLedger /\ Deciding
    BY DEF IInv
  <1>1. CASE Start \/ Intake
    BY <1>0, <1>1, SilentStep, IntakeTells DEF Intake
  <1>2. CASE Search
    BY <1>0, <1>2, SilentStep, SearchTells
  <1>3. CASE Retrieval
    BY <1>0, <1>3, SilentStep, RetrievalTells DEF Retrieval
  <1>4. CASE Drafting
    BY <1>0, <1>4, DraftingTells
  <1>5. CASE DecisionGate \/ Resume
    BY <1>0, <1>5, DecidingTells
  <1>6. CASE Revising
    BY <1>0, <1>6, RevisingTells
  <1>7. CASE Completing
    BY <1>0, <1>7, CompletionTells, ResponseTells DEF Completing
  <1>8. CASE RecursionError \/ UNCHANGED vars
    BY <1>0, <1>8, SilentStep
  <1> QED
    BY <1>1, <1>2, <1>3, <1>4, <1>5, <1>6, <1>7, <1>8 DEF Next, GraphStep

(* What a finished thread answers is what has happened to it: no leftover of an earlier     *)
(* round of planning or revision decides build_final_response.                              *)
THEOREM ResponsesTellOutcome == Spec => []ResponseTellsOutcome
  <1>1. Init => Telling
    BY TellingAtStart
  <1>2. IInv /\ Telling /\ [Next]_vars => Telling'
    BY TellingStep
  <1>3. IInv /\ Telling => ResponseTellsOutcome
    BY DEF IInv, StepLedger, Telling, ResponseTellsOutcome
  <1> QED
    BY <1>1, <1>2, <1>3, Invariant, PTL DEF Spec
==============================================================================
