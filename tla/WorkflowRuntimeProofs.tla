------------------------- MODULE WorkflowRuntimeProofs -------------------------
(***************************************************************************)
(* The invariant of WorkflowRuntime for any number of calls, threads and   *)
(* crashes, and what it means for the clients.                             *)
(***************************************************************************)
EXTENDS WorkflowRuntime, TLAPS

(* The steps, as far as the proofs tell them apart. *)

\* A call leaves the lock without a report.
Refused(c) ==
  /\ pc[c] \in {"check", "drainFailed"} /\ unsaved = <<>>
  /\ \E code \in {400, 404, 409, 500} : Refuse(c, code)

\* A call leaves the lock with a report on an existing thread.
Reported(c) ==
  /\ pc[c] \in {"check", "drain"} /\ unsaved = <<>>
  /\ disk[arg[c].thread].next # "none"
  /\ Report(c)

\* A call may go on to the graph.
Admitted(c) ==
  /\ pc[c] = "check"
  /\ \/ arg[c].kind = "start" /\ disk[arg[c].thread].next = "none"
     \/ arg[c].kind \in Decisions /\ disk[arg[c].thread].waiting
  /\ pc' = [pc EXCEPT ![c] = "load"]
  /\ UNCHANGED <<arg, answer, holder, invocation, disk, drafts, history>>

\* What a draft needs before it may be stored for a call.
Approves(c, t, v) ==
  /\ arg[c] = [kind |-> "approve", thread |-> t, version |-> v]
  /\ v \in shown[t]

\* A super-step that does not raise.
Advanced(c) ==
  /\ pc[c] = "run"
  /\ mem' \in State /\ mem'.next # "none"
  /\ unsaved' = Append(unsaved, mem')
  /\ \/ pc' = pc /\ mem'.next # "END"
     \/ pc' = [pc EXCEPT ![c] = "drain"] /\ (mem'.waiting \/ mem'.next = "END")
  /\ mem'.next = "commit_draft" =>
       arg[c].kind = "approve" /\ arg[c].version = mem'.version /\ mem'.version > 0
  /\ resume' \in BOOLEAN /\ (resume' => resume)
  /\ drafts' \in [Thread -> SUBSET Nat]
  /\ \A t \in Thread : drafts[t] \subseteq drafts'[t]
  /\ \A t \in Thread : \A v \in drafts'[t] \ drafts[t] : Approves(c, t, v)
  /\ Sound(mem, arg[c].thread)'
  /\ UNCHANGED <<arg, answer, holder, disk, history>>

------------------------------------------------------------------------------
(* At most one call is in the lock. *)
LEMMA OneHolder ==
  ASSUME TypeOK, Locked,
         NEW c \in Call, pc[c] \in {"check", "load"} \cup Invoking,
         NEW d \in Call, pc[d] \in {"check", "load"} \cup Invoking
  PROVE  c = d /\ holder = c
  BY DEF Locked

(* Without an invocation no checkpoint is on its way. *)
LEMMA NothingUnsaved ==
  ASSUME TypeOK, Locked, NEW c \in Call, pc[c] \in {"check", "load"}
  PROVE  unsaved = <<>> /\ \A d \in Call : pc[d] \notin Invoking
  <1>1. \A d \in Call : pc[d] \notin Invoking
    BY OneHolder DEF Invoking
  <1> QED
    BY <1>1 DEF Locked

(* A super-step that only moves on in the graph. *)
LEMMA ContinueAdvances ==
  ASSUME IInv, NEW c \in Call, pc[c] = "run", NEW s \in State, Continue(s),
         s.next \notin {"none", "END", "commit_draft"}, Sound(s, arg[c].thread)
  PROVE  Advanced(c)
  <1>1. Sound(mem, arg[c].thread)'
    BY DEF Continue, Becomes, calls, Sound
  <1>2. resume' \in BOOLEAN /\ drafts' \in [Thread -> SUBSET Nat]
    BY DEF Continue, IInv, TypeOK
  <1> QED
    BY <1>1, <1>2 DEF Continue, Becomes, Advanced, calls, history

(* A super-step of the graph. *)
LEMMA NodeAdvances ==
  ASSUME IInv, NEW c \in Call, Node(c)
  PROVE  PlanRaises(c) \/ Advanced(c)
  <1>1. pc[c] = "run"
    BY DEF Node, Plan, PlanRaises, Ask, Decide, Revise, Commit, CommitFails, Cancel,
           FinalResponse, At
  <1>2. /\ arg[c] \in Asked /\ arg[c].thread \in Thread
        /\ mem \in State /\ Sound(mem, arg[c].thread)
    BY <1>1 DEF IInv, TypeOK, Locked, Checkpoints, Invoking, Asked
  <1>3. resume \in BOOLEAN /\ drafts \in [Thread -> SUBSET Nat]
    BY DEF IInv, TypeOK
  <1>4. CASE Plan(c)
    <2>1. \A s \in State :
            (Continue(s) /\ s.next \in {"decision_gate", "final_response"}
              /\ Sound(s, arg[c].thread)) => Advanced(c)
      BY <1>1, ContinueAdvances
    <2>2. mem.next = "plan" /\ ~mem.waiting /\ mem.commit = "none" /\ mem.final = "none"
      BY <1>2, <1>4 DEF Plan, At, Sound
    <2>3. CASE Continue([mem EXCEPT !.next = "decision_gate", !.version = @ + 1])
      <3> DEFINE s == [mem EXCEPT !.next = "decision_gate", !.version = @ + 1]
      <3>1. mem.version + 1 \in Nat /\ mem.version + 1 > 0
        BY <1>2 DEF State
      <3>2. s \in State /\ s.next = "decision_gate" /\ s.version > 0
        BY <1>2, <3>1 DEF State, NodeName
      <3>3. ~s.waiting /\ s.commit = "none" /\ s.final = "none"
        BY <1>2, <2>2 DEF State
      <3>4. Sound(s, arg[c].thread)
        BY <3>2, <3>3 DEF Sound
      <3> QED
        BY <2>1, <2>3, <3>2, <3>4
    <2>4. CASE Continue([mem EXCEPT !.next = "final_response", !.final = "refused"])
      <3> DEFINE s == [mem EXCEPT !.next = "final_response", !.final = "refused"]
      <3>1. s \in State /\ s.next = "final_response" /\ Sound(s, arg[c].thread)
        BY <1>2, <2>2 DEF State, NodeName, Finals, Sound
      <3> QED
        BY <2>1, <2>4, <3>1
    <2>5. CASE Continue([mem EXCEPT !.next = "final_response"])
      <3> DEFINE s == [mem EXCEPT !.next = "final_response"]
      <3>1. s \in State /\ s.next = "final_response" /\ Sound(s, arg[c].thread)
        BY <1>2, <2>2 DEF State, NodeName, Sound
      <3> QED
        BY <2>1, <2>5, <3>1
    <2> QED
      BY <1>4, <2>3, <2>4, <2>5 DEF Plan
  <1>5. CASE Ask(c)
    <2> DEFINE s == [mem EXCEPT !.waiting = TRUE]
    <2>1. s \in State /\ s.waiting /\ s.next = "decision_gate" /\ Sound(s, arg[c].thread)
      BY <1>2, <1>5 DEF Ask, At, State, Sound
    <2>2. mem' = s /\ Sound(mem, arg[c].thread)'
      BY <1>5, <2>1 DEF Ask, Becomes, Sound
    <2> QED
      BY <1>1, <1>3, <1>5, <2>1, <2>2 DEF Ask, Becomes, Advanced, history
  <1>6. CASE Decide(c)
    <2> DEFINE s == IF arg[c].version = mem.version
                    THEN [mem EXCEPT !.waiting = FALSE, !.next = Destination(arg[c].kind),
                                     !.decision = arg[c].kind]
                    ELSE [mem EXCEPT !.waiting = FALSE]
    <2>1. arg[c].kind \in Decisions /\ mem.next = "decision_gate"
      BY <1>1, <1>6 DEF Decide, At, IInv, Asking
    <2>2. /\ Destination(arg[c].kind) \in {"commit_draft", "revision", "cancel"}
          /\ Destination(arg[c].kind) = "commit_draft" => arg[c].kind = "approve"
      BY <2>1 DEF Destination, Decisions
    <2>3. /\ s \in State /\ s.next \notin {"none", "END"} /\ Sound(s, arg[c].thread)
          /\ s.next = "commit_draft" =>
               arg[c].kind = "approve" /\ arg[c].version = s.version /\ s.version > 0
      BY <1>2, <2>1, <2>2 DEF State, NodeName, Sound
    <2>4. mem' = s /\ Sound(mem, arg[c].thread)'
      BY <1>6, <2>3 DEF Decide, Becomes, calls, Sound
    <2> QED
      BY <1>1, <1>3, <1>6, <2>3, <2>4 DEF Decide, Becomes, Advanced, calls, history
  <1>7. CASE Revise(c)
    <2>1. \A s \in State :
            (Continue(s) /\ s.next \in {"plan", "final_response"}
              /\ Sound(s, arg[c].thread)) => Advanced(c)
      BY <1>1, ContinueAdvances
    <2> DEFINE s == [mem EXCEPT !.next = "plan", !.decision = "none"]
    <2> DEFINE r == [mem EXCEPT !.next = "final_response"]
    <2>2. /\ s \in State /\ s.next = "plan" /\ Sound(s, arg[c].thread)
          /\ r \in State /\ r.next = "final_response" /\ Sound(r, arg[c].thread)
      BY <1>2, <1>7 DEF Revise, At, State, NodeName, Sound
    <2> QED
      BY <1>7, <2>1, <2>2 DEF Revise
  <1>8. CASE Commit(c)
    <2> DEFINE t == arg[c].thread
    <2> DEFINE s == [mem EXCEPT !.next = "final_response", !.commit = "committed"]
    <2>1. arg[c].kind = "approve" /\ arg[c].version = mem.version /\ mem.version > 0
      BY <1>8 DEF Commit, At, IInv, Asking
    <2>2. Approves(c, t, mem.version)
      <3>1. arg[c].version \in shown[t] \cup {0}
        BY <1>1 DEF IInv, Asking
      <3> QED
        BY <1>2, <2>1, <3>1 DEF Approves, Asked
    <2>3. drafts' = [drafts EXCEPT ![t] = @ \cup {mem.version}] /\ mem' = s
      BY <1>8 DEF Commit, Becomes
    <2>4. s \in State /\ s.next = "final_response"
      BY <1>2 DEF State, NodeName
    <2>5. drafts' \in [Thread -> SUBSET Nat]
      BY <1>2, <1>3, <2>3 DEF State
    <2>6. /\ \A u \in Thread : drafts[u] \subseteq drafts'[u]
          /\ \A u \in Thread : \A v \in drafts'[u] \ drafts[u] : u = t /\ v = mem.version
          /\ mem.version \in drafts'[t]
      BY <1>2, <1>3, <2>3
    <2>7. Sound(mem, t)'
      <3>1. ~mem.waiting /\ mem.final = "none"
        BY <1>2, <1>8 DEF Commit, At, Sound
      <3>2. /\ ~s.waiting /\ s.final = "none" /\ s.version = mem.version
        BY <1>2, <3>1 DEF State
      <3>3. t' = t
        BY <1>8 DEF Commit, calls
      <3> QED
        BY <2>3, <2>4, <2>6, <3>2, <3>3 DEF Sound
    <2> QED
      BY <1>1, <1>3, <1>8, <2>2, <2>3, <2>4, <2>5, <2>6, <2>7
      DEF Commit, Becomes, Advanced, calls, history
  <1>9. CASE CommitFails(c)
    <2> DEFINE s == [mem EXCEPT !.next = "final_response", !.commit = "failed"]
    <2>1. s \in State /\ s.next = "final_response" /\ Sound(s, arg[c].thread)
      BY <1>2, <1>9 DEF CommitFails, At, State, NodeName, Sound
    <2> QED
      BY <1>1, <1>9, <2>1, ContinueAdvances DEF CommitFails
  <1>10. CASE Cancel(c)
    <2> DEFINE s == [mem EXCEPT !.next = "final_response"]
    <2>1. s \in State /\ s.next = "final_response" /\ Sound(s, arg[c].thread)
      BY <1>2, <1>10 DEF Cancel, At, State, NodeName, Sound
    <2> QED
      BY <1>1, <1>10, <2>1, ContinueAdvances DEF Cancel
  <1>11. CASE FinalResponse(c)
    <2> DEFINE s == [mem EXCEPT !.next = "END", !.final = Final(mem)]
    <2>1. mem.final # "approved"
      BY <1>2, <1>11 DEF FinalResponse, At, Sound
    <2>2. Final(mem) \in Finals /\ (Final(mem) = "approved" => mem.commit = "committed")
      BY <1>2, <2>1 DEF Final, State, Finals
    <2>3. s \in State /\ s.next = "END" /\ Sound(s, arg[c].thread)
      BY <1>2, <1>11, <2>2 DEF FinalResponse, At, State, NodeName, Sound
    <2>4. mem' = s /\ Sound(mem, arg[c].thread)'
      BY <1>11, <2>3 DEF FinalResponse, Becomes, Sound
    <2> QED
      BY <1>1, <1>3, <1>11, <2>3, <2>4 DEF FinalResponse, Becomes, Advanced, history
  <1> QED
    BY <1>4, <1>5, <1>6, <1>7, <1>8, <1>9, <1>10, <1>11 DEF Node

(* Every step is of one of these forms. *)
LEMMA Steps ==
  ASSUME IInv, Next
  PROVE  \/ Persist \/ Crash
         \/ \E c \in Call :
              \/ Send(c) \/ Acquire(c) \/ Refused(c) \/ Reported(c) \/ Admitted(c)
              \/ Invoke(c) \/ PlanRaises(c) \/ Advanced(c)
  <1>1. SUFFICES ASSUME NEW c \in Call, Work(c)
                 PROVE  \/ Refused(c) \/ Reported(c) \/ Admitted(c)
                        \/ Invoke(c) \/ PlanRaises(c) \/ Advanced(c)
    BY DEF Next
  <1>2. pc[c] = "check" => unsaved = <<>>
    BY NothingUnsaved DEF IInv
  <1>3. CASE CheckStart(c)
    BY <1>2, <1>3 DEF CheckStart, Refused, Admitted
  <1>4. CASE CheckDecision(c)
    BY <1>2, <1>4 DEF CheckDecision, Refused, Admitted
  <1>5. CASE GetSnapshot(c)
    BY <1>2, <1>5 DEF GetSnapshot, Refused, Reported
  <1>6. CASE Return(c)
    <2>1. disk[arg[c].thread] = mem /\ mem.next # "none"
      BY <1>6 DEF Return, IInv, Chained, Checkpoints, Invoking
    <2> QED
      BY <1>6, <2>1 DEF Return, Reported
  <1>7. CASE ReturnFailure(c)
    BY <1>7 DEF ReturnFailure, Refused
  <1>8. CASE Node(c)
    BY <1>8, NodeAdvances
  <1> QED
    BY <1>1, <1>3, <1>4, <1>5, <1>6, <1>7, <1>8 DEF Work

(* A checkpoint that reaches the disk is one of the running invocation. *)
LEMMA PersistEffect ==
  ASSUME IInv, Persist
  PROVE  \E c \in Call :
           /\ holder = c /\ pc[c] \in Invoking /\ arg[c].thread \in Thread
           /\ disk' = [disk EXCEPT ![arg[c].thread] = unsaved[1]]
           /\ unsaved[1] \in State /\ unsaved[1].next # "none"
           /\ Sound(unsaved[1], arg[c].thread)
           /\ unsaved' \in Seq(State) /\ Len(unsaved') = Len(unsaved) - 1 /\ Len(unsaved) \in Nat
           /\ \A i \in 1 .. Len(unsaved') : unsaved'[i] = unsaved[i + 1]
  <1>1. unsaved \in Seq(State) /\ unsaved # <<>>
    BY DEF IInv, TypeOK, Persist
  <1>2. PICK c \in Call : pc[c] \in Invoking
    BY <1>1 DEF IInv, Locked
  <1>3. holder = c /\ arg[c].thread \in Thread
    BY <1>2 DEF IInv, Locked, Invoking, Asked
  <1>4. 1 \in 1 .. Len(unsaved) /\ unsaved[1] = Head(unsaved) /\ Len(unsaved) \in Nat
    BY <1>1
  <1>5. unsaved[1] \in State /\ unsaved[1].next # "none" /\ Sound(unsaved[1], arg[c].thread)
    BY <1>1, <1>2, <1>4 DEF IInv, Checkpoints
  <1>6. /\ unsaved' \in Seq(State) /\ Len(unsaved') = Len(unsaved) - 1
        /\ \A i \in 1 .. Len(unsaved') : unsaved'[i] = unsaved[i + 1]
    BY <1>1 DEF Persist
  <1> QED
    BY <1>2, <1>3, <1>4, <1>5, <1>6 DEF Persist

(* What a report says of a checkpoint. *)
LEMMA ReportTypes ==
  ASSUME NEW s \in State, s.next # "none"
  PROVE  [code |-> 200, status |-> Status(s), next |-> s.next,
          version |-> s.version, final |-> s.final] \in Response
  <1>1. Status(s) \in {"waiting_for_decision", "completed", "running", "failed"}
    BY DEF Status
  <1> QED
    BY <1>1 DEF State, Response

(* Every step keeps the types. *)
LEMMA TypeStep ==
  ASSUME IInv, [Next]_vars
  PROVE  TypeOK'
  <1> USE DEF calls, invocation, history
  <1>0. TypeOK
    BY DEF IInv
  <1>1. ASSUME NEW c \in Call, Send(c) PROVE TypeOK'
    <2>1. PICK t \in Thread :
            \/ \E kind \in {"start", "status"} :
                 arg' = [arg EXCEPT ![c] = [kind |-> kind, thread |-> t, version |-> 0]]
            \/ \E kind \in Decisions, v \in shown[t] \cup {0} :
                 arg' = [arg EXCEPT ![c] = [kind |-> kind, thread |-> t, version |-> v]]
      BY <1>1 DEF Send
    <2>2. shown[t] \cup {0} \subseteq Nat
      BY <1>0 DEF TypeOK
    <2>3. arg' \in [Call -> Asked \cup {NoCall}]
      <3>1. ASSUME NEW a \in Asked, arg' = [arg EXCEPT ![c] = a]
            PROVE  arg' \in [Call -> Asked \cup {NoCall}]
        BY <1>0, <3>1 DEF TypeOK
      <3>2. \A kind \in Decisions \cup {"start", "status"}, v \in Nat :
              [kind |-> kind, thread |-> t, version |-> v] \in Asked
        BY DEF Asked
      <3> QED
        BY <2>1, <2>2, <3>1, <3>2
    <2> QED
      BY <1>0, <1>1, <2>3 DEF Send, TypeOK, Waiting
  <1>2. ASSUME NEW c \in Call, Acquire(c) PROVE TypeOK'
    BY <1>0, <1>2 DEF Acquire, TypeOK, Waiting
  <1>3. ASSUME NEW c \in Call, Refused(c) PROVE TypeOK'
    BY <1>0, <1>3 DEF Refused, Refuse, Respond, TypeOK, Response
  <1>4. ASSUME NEW c \in Call, Reported(c) PROVE TypeOK'
    <2> DEFINE t == arg[c].thread
    <2>1. t \in Thread
      BY <1>4 DEF Reported, IInv, Locked, Asked
    <2>2. disk[t] \in State /\ disk[t].version \in Nat
      BY <1>0, <2>1 DEF TypeOK, State
    <2>3. answer' \in [Call -> Response \cup {NoAnswer}]
      BY <1>0, <1>4, <2>2, ReportTypes DEF Reported, Report, Respond, TypeOK
    <2>4. shown' \in [Thread -> SUBSET Nat] /\ promised' \in [Thread -> Nat]
      BY <1>0, <1>4, <2>1, <2>2 DEF Reported, Report, TypeOK
    <2> QED
      BY <1>0, <1>4, <2>3, <2>4 DEF Reported, Report, Respond, TypeOK
  <1>5. ASSUME NEW c \in Call, Admitted(c) PROVE TypeOK'
    BY <1>0, <1>5 DEF Admitted, TypeOK, Waiting
  <1>6. ASSUME NEW c \in Call, Invoke(c) PROVE TypeOK'
    <2>1. arg[c].thread \in Thread
      BY <1>6 DEF Invoke, IInv, Locked, Asked
    <2>2. [NoThread EXCEPT !.next = "plan"] \in State
      BY DEF NoThread, State, NodeName
    <2>3. mem' \in State /\ unsaved' \in Seq(State)
      BY <1>0, <1>6, <2>1, <2>2 DEF Invoke, TypeOK
    <2> QED
      BY <1>0, <1>6, <2>3 DEF Invoke, TypeOK, Invoking
  <1>7. ASSUME NEW c \in Call, PlanRaises(c) PROVE TypeOK'
    BY <1>0, <1>7 DEF PlanRaises, TypeOK, Invoking
  <1>8. ASSUME NEW c \in Call, Advanced(c) PROVE TypeOK'
    <2>1. unsaved' \in Seq(State)
      BY <1>0, <1>8 DEF Advanced, TypeOK
    <2>2. pc' \in [Call -> {"idle", "answered", "lost"} \cup Waiting \cup Invoking]
      BY <1>0, <1>8 DEF Advanced, TypeOK, Invoking
    <2> QED
      BY <1>0, <1>8, <2>1, <2>2 DEF Advanced, TypeOK
  <1>9. CASE Persist
    <2>1. disk' \in [Thread -> State] /\ unsaved' \in Seq(State)
      BY <1>0, <1>9, PersistEffect DEF TypeOK
    <2> QED
      BY <1>0, <1>9, <2>1 DEF Persist, TypeOK
  <1>10. CASE Crash
    <2>1. NoThread \in State
      BY DEF NoThread, State
    <2>2. <<>> \in Seq(State)
      OBVIOUS
    <2>3. crashes' \in 0 .. MaxCrashes
      BY <1>0, <1>10, CrashesAssumption DEF Crash, TypeOK
    <2>4. pc' \in [Call -> {"idle", "answered", "lost"} \cup Waiting \cup Invoking]
      BY <1>0, <1>10 DEF Crash, TypeOK
    <2> QED
      BY <1>0, <1>10, <2>1, <2>2, <2>3, <2>4 DEF Crash, TypeOK
  <1>11. CASE UNCHANGED vars
    BY <1>0, <1>11 DEF vars, TypeOK
  <1> QED
    BY <1>1, <1>2, <1>3, <1>4, <1>5, <1>6, <1>7, <1>8, <1>9, <1>10, <1>11, Steps

(* The lock has one owner, who knows what it has checked. *)
LEMMA LockedStep ==
  ASSUME IInv, [Next]_vars
  PROVE  Locked'
  <1> USE DEF calls, invocation, history
  <1>0. TypeOK /\ Locked
    BY DEF IInv
  <1>1. ASSUME NEW c \in Call, Send(c) PROVE Locked'
    <2>1. arg'[c] \in Asked
      <3>1. PICK t \in Thread :
              \/ \E kind \in {"start", "status"} :
                   arg' = [arg EXCEPT ![c] = [kind |-> kind, thread |-> t, version |-> 0]]
              \/ \E kind \in Decisions, v \in shown[t] \cup {0} :
                   arg' = [arg EXCEPT ![c] = [kind |-> kind, thread |-> t, version |-> v]]
        BY <1>1 DEF Send
      <3>2. shown[t] \cup {0} \subseteq Nat
        BY <1>0 DEF TypeOK
      <3> QED
        BY <1>0, <3>1, <3>2 DEF TypeOK, Asked
    <2>2. \A d \in Call \ {c} : arg'[d] = arg[d] /\ pc'[d] = pc[d]
      BY <1>0, <1>1 DEF Send, TypeOK
    <2>3. pc[c] = "idle" /\ pc'[c] = "sent"
      BY <1>0, <1>1 DEF Send, TypeOK
    <2> QED
      BY <1>0, <1>1, <2>1, <2>2, <2>3 DEF Send, Locked, Invoking
  <1>2. ASSUME NEW c \in Call, Acquire(c) PROVE Locked'
    BY <1>0, <1>2, NoOneAssumption DEF Acquire, Locked, Invoking, TypeOK
  <1>3. ASSUME NEW c \in Call, Refused(c) PROVE Locked'
    BY <1>0, <1>3, NoOneAssumption
    DEF Refused, Refuse, Respond, Locked, Invoking, TypeOK
  <1>4. ASSUME NEW c \in Call, Reported(c) PROVE Locked'
    BY <1>0, <1>4, NoOneAssumption
    DEF Reported, Report, Respond, Locked, Invoking, TypeOK
  <1>5. ASSUME NEW c \in Call, Admitted(c) PROVE Locked'
    BY <1>0, <1>5 DEF Admitted, Locked, Invoking, Decisions, TypeOK
  <1>6. ASSUME NEW c \in Call, Invoke(c) PROVE Locked'
    BY <1>0, <1>6 DEF Invoke, Locked, Invoking, TypeOK
  <1>7. ASSUME NEW c \in Call, PlanRaises(c) PROVE Locked'
    BY <1>0, <1>7 DEF PlanRaises, At, Locked, Invoking, TypeOK
  <1>8. ASSUME NEW c \in Call, Advanced(c) PROVE Locked'
    BY <1>0, <1>8 DEF Advanced, Locked, Invoking, TypeOK
  <1>9. CASE Persist
    <2>1. PICK c \in Call : holder = c /\ pc[c] \in Invoking
      BY <1>9, PersistEffect
    <2>2. \A d \in Call : pc[d] # "load"
      BY <1>0, <2>1, OneHolder DEF Invoking
    <2> QED
      BY <1>0, <1>9, <2>1, <2>2 DEF Persist, Locked, Invoking
  <1>10. CASE Crash
    BY <1>0, <1>10, NoOneAssumption DEF Crash, Locked, Invoking, Waiting, TypeOK
  <1>11. CASE UNCHANGED vars
    BY <1>0, <1>11 DEF vars, Locked
  <1> QED
    BY <1>1, <1>2, <1>3, <1>4, <1>5, <1>6, <1>7, <1>8, <1>9, <1>10, <1>11, Steps

(* A checkpoint stays sound as long as no draft is taken away. *)
LEMMA SoundStays ==
  ASSUME NEW s, NEW t, Sound(s, t), drafts[t] \subseteq drafts'[t]
  PROVE  /\ s.waiting => s.next = "decision_gate"
         /\ s.next = "decision_gate" => s.version > 0
         /\ s.next \notin {"final_response", "END"} => s.commit = "none" /\ s.final = "none"
         /\ s.final = "approved" => s.next = "END" /\ s.commit = "committed"
         /\ s.commit = "committed" => s.version \in drafts'[t]
  BY DEF Sound

(* Every checkpoint is sound, on the disk, on its way and in memory. *)
LEMMA CheckpointsStep ==
  ASSUME IInv, [Next]_vars
  PROVE  Checkpoints'
  <1> USE DEF calls, invocation, history
  <1>0. TypeOK /\ Locked /\ Checkpoints
    BY DEF IInv
  <1>1. ASSUME NEW c \in Call, Send(c) PROVE Checkpoints'
    <2>1. \A d \in Call : pc'[d] \in Invoking => pc[d] \in Invoking /\ arg'[d] = arg[d]
      BY <1>0, <1>1 DEF Send, TypeOK, Invoking
    <2> QED
      BY <1>0, <1>1, <2>1 DEF Send, Checkpoints, Sound
  <1>2. ASSUME NEW c \in Call, Acquire(c) PROVE Checkpoints'
    BY <1>0, <1>2 DEF Acquire, Checkpoints, Sound, TypeOK, Invoking
  <1>3. ASSUME NEW c \in Call, Refused(c) PROVE Checkpoints'
    BY <1>0, <1>3 DEF Refused, Refuse, Respond, Checkpoints, Sound, TypeOK, Invoking
  <1>4. ASSUME NEW c \in Call, Reported(c) PROVE Checkpoints'
    BY <1>0, <1>4 DEF Reported, Report, Respond, Checkpoints, Sound, TypeOK, Invoking
  <1>5. ASSUME NEW c \in Call, Admitted(c) PROVE Checkpoints'
    BY <1>0, <1>5 DEF Admitted, Checkpoints, Sound, TypeOK, Invoking
  <1>6. ASSUME NEW c \in Call, Invoke(c) PROVE Checkpoints'
    <2> DEFINE t == arg[c].thread
    <2> DEFINE input == [NoThread EXCEPT !.next = "plan"]
    <2>1. t \in Thread /\ (arg[c].kind # "start" => disk[t].waiting)
      BY <1>0, <1>6 DEF Invoke, Locked, Asked
    <2>2. \A d \in Call : pc'[d] \in Invoking => d = c
      <3>1. \A d \in Call : pc[d] \notin Invoking
        BY <1>0, <1>6, NothingUnsaved DEF Invoke
      <3> QED
        BY <1>0, <1>6, <3>1 DEF Invoke, TypeOK
    <2>3. \A u : Sound(input, u) /\ input.next # "none"
      BY DEF Sound, NoThread
    <2>4. CASE arg[c].kind = "start"
      <3>1. mem' = input /\ unsaved' = <<input>>
        BY <1>6, <2>4 DEF Invoke
      <3>2. Sound(mem, t)' /\ \A u \in Thread : Sound(disk[u], u)'
        BY <1>0, <1>6, <3>1 DEF Invoke, Checkpoints, Sound, NoThread
      <3>3. \A i \in 1 .. Len(unsaved') : unsaved'[i] = mem'
        BY <3>1
      <3>4. \A i \in 1 .. Len(unsaved') : Sound(unsaved[i], t)' /\ unsaved'[i].next # "none"
        BY <2>3, <3>1, <3>2, <3>3 DEF Sound
      <3> QED
        BY <1>6, <2>2, <2>3, <3>1, <3>2, <3>4 DEF Invoke, Checkpoints
    <2>5. CASE arg[c].kind # "start"
      <3>1. mem' = disk[t] /\ unsaved' = <<>> /\ disk[t].next = "decision_gate"
        BY <1>0, <1>6, <2>1, <2>5 DEF Invoke, Checkpoints, Sound
      <3> QED
        BY <1>0, <1>6, <2>1, <2>2, <3>1 DEF Invoke, Checkpoints, Sound
    <2> QED
      BY <2>1, <2>4, <2>5
  <1>7. ASSUME NEW c \in Call, PlanRaises(c) PROVE Checkpoints'
    BY <1>0, <1>7 DEF PlanRaises, At, Checkpoints, Sound, TypeOK, Invoking
  <1>8. ASSUME NEW c \in Call, Advanced(c) PROVE Checkpoints'
    <2> DEFINE t == arg[c].thread
    <2>1. \A d \in Call : pc'[d] \in Invoking => d = c
      <3>1. \A d \in Call : pc'[d] \in Invoking => pc[d] \in Invoking
        BY <1>0, <1>8 DEF Advanced, TypeOK, Invoking
      <3> QED
        BY <1>0, <1>8, <3>1, OneHolder DEF Advanced, Invoking
    <2>2. t \in Thread /\ \A u \in Thread : drafts[u] \subseteq drafts'[u]
      BY <1>0, <1>8 DEF Advanced, Locked, Invoking, Asked
    <2>3. \A u \in Thread : Sound(disk[u], u)'
      BY <1>0, <1>8, <2>2 DEF Advanced, Checkpoints, Sound
    <2>4. \A i \in 1 .. Len(unsaved) : Sound(unsaved[i], t) /\ unsaved[i].next # "none"
      BY <1>0, <1>8 DEF Advanced, Checkpoints, Invoking
    <2>5. \A i \in 1 .. Len(unsaved') :
            \/ i \in 1 .. Len(unsaved) /\ unsaved'[i] = unsaved[i]
            \/ unsaved'[i] = mem'
      BY <1>0, <1>8 DEF Advanced, TypeOK
    <2>6. Sound(mem, t)' /\ t' = t /\ disk' = disk
      BY <1>8 DEF Advanced
    <2>7. \A i \in 1 .. Len(unsaved') : Sound(unsaved[i], t)' /\ unsaved'[i].next # "none"
      BY <1>8, <2>2, <2>4, <2>5, <2>6 DEF Advanced, Sound
    <2> QED
      BY <1>8, <2>1, <2>3, <2>6, <2>7 DEF Advanced, Checkpoints
  <1>9. CASE Persist
    <2>1. PICK c \in Call :
            /\ holder = c /\ pc[c] \in Invoking /\ arg[c].thread \in Thread
            /\ disk' = [disk EXCEPT ![arg[c].thread] = unsaved[1]]
            /\ Sound(unsaved[1], arg[c].thread)
            /\ Len(unsaved') = Len(unsaved) - 1 /\ Len(unsaved) \in Nat
            /\ \A i \in 1 .. Len(unsaved') : unsaved'[i] = unsaved[i + 1]
      BY <1>9, PersistEffect DEF IInv
    <2>2. \A u \in Thread : Sound(disk[u], u)'
      BY <1>0, <1>9, <2>1 DEF Persist, Checkpoints, Sound, TypeOK
    <2>3. \A d \in Call : pc'[d] \in Invoking => d = c
      BY <1>0, <1>9, <2>1, OneHolder DEF Persist
    <2>4. \A i \in 1 .. Len(unsaved') : i + 1 \in 1 .. Len(unsaved)
      BY <2>1
    <2>5. \A i \in 1 .. Len(unsaved') :
            Sound(unsaved[i], arg[c].thread)' /\ unsaved'[i].next # "none"
      BY <1>0, <1>9, <2>1, <2>4 DEF Persist, Checkpoints, Sound
    <2>6. mem'.next # "none" /\ Sound(mem, arg[c].thread)'
      BY <1>0, <1>9, <2>1 DEF Persist, Checkpoints, Sound
    <2> QED
      BY <2>2, <2>3, <2>5, <2>6 DEF Checkpoints
  <1>10. CASE Crash
    BY <1>0, <1>10 DEF Crash, Checkpoints, Sound, TypeOK, Invoking, Waiting
  <1>11. CASE UNCHANGED vars
    BY <1>0, <1>11 DEF vars, Checkpoints, Sound
  <1> QED
    BY <1>1, <1>2, <1>3, <1>4, <1>5, <1>6, <1>7, <1>8, <1>9, <1>10, <1>11, Steps

(* The checkpoints on their way lead from the disk to the memory. *)
LEMMA ChainedStep ==
  ASSUME IInv, [Next]_vars
  PROVE  Chained'
  <1> USE DEF calls, invocation, history
  <1>0. TypeOK /\ Locked /\ Checkpoints /\ Chained
    BY DEF IInv
  <1>1. ASSUME NEW c \in Call, Send(c) PROVE Chained'
    <2>1. \A d \in Call : pc'[d] \in Invoking => pc'[d] = pc[d] /\ arg'[d] = arg[d]
      BY <1>0, <1>1 DEF Send, TypeOK, Invoking
    <2> QED
      BY <1>0, <1>1, <2>1 DEF Send, Chained
  <1>2. ASSUME NEW c \in Call, Acquire(c) PROVE Chained'
    BY <1>0, <1>2 DEF Acquire, Chained, TypeOK, Invoking
  <1>3. ASSUME NEW c \in Call, Refused(c) PROVE Chained'
    BY <1>0, <1>3 DEF Refused, Refuse, Respond, Chained, TypeOK, Invoking
  <1>4. ASSUME NEW c \in Call, Reported(c) PROVE Chained'
    BY <1>0, <1>4 DEF Reported, Report, Respond, Chained, TypeOK, Invoking
  <1>5. ASSUME NEW c \in Call, Admitted(c) PROVE Chained'
    BY <1>0, <1>5 DEF Admitted, Chained, TypeOK, Invoking
  <1>6. ASSUME NEW c \in Call, Invoke(c) PROVE Chained'
    <2> DEFINE t == arg[c].thread
    <2> DEFINE input == [NoThread EXCEPT !.next = "plan"]
    <2>1. \A d \in Call : pc'[d] \in Invoking => d = c /\ pc'[d] = "run"
      <3>1. \A d \in Call : pc[d] \notin Invoking
        BY <1>0, <1>6, NothingUnsaved DEF Invoke
      <3> QED
        BY <1>0, <1>6, <3>1 DEF Invoke, TypeOK
    <2>2. input.next = "plan"
      BY DEF NoThread
    <2>3. CASE arg[c].kind = "start"
      <3>1. disk[t].next = "none" /\ mem' = input /\ unsaved' = <<input>>
        BY <1>0, <1>6, <2>3 DEF Invoke, Locked
      <3> QED
        BY <1>6, <2>1, <2>2, <3>1 DEF Invoke, Chained
    <2>4. CASE arg[c].kind # "start"
      <3>1. t \in Thread /\ disk[t].waiting
        BY <1>0, <1>6, <2>4 DEF Invoke, Locked, Asked
      <3>2. disk[t].next = "decision_gate" /\ mem' = disk[t] /\ unsaved' = <<>>
        BY <1>0, <1>6, <2>4, <3>1 DEF Invoke, Checkpoints, Sound
      <3> QED
        BY <1>6, <2>1, <3>2 DEF Invoke, Chained
    <2> QED
      BY <2>3, <2>4
  <1>7. ASSUME NEW c \in Call, PlanRaises(c) PROVE Chained'
    <2>1. \A d \in Call : pc'[d] \in Invoking => d = c
      <3>1. \A d \in Call : pc'[d] \in Invoking => pc[d] \in Invoking
        BY <1>0, <1>7 DEF PlanRaises, At, TypeOK, Invoking
      <3> QED
        BY <1>0, <1>7, <3>1, OneHolder DEF PlanRaises, At, Invoking
    <2>2. broken'[arg[c].thread] = "raised" /\ pc'[c] = "drainFailed" /\ pc[c] = "run"
      BY <1>0, <1>7 DEF PlanRaises, At, TypeOK, Locked, Asked, Invoking
    <2> QED
      BY <1>0, <1>7, <2>1, <2>2 DEF PlanRaises, Chained, Invoking
  <1>8. ASSUME NEW c \in Call, Advanced(c) PROVE Chained'
    <2> DEFINE t == arg[c].thread
    <2>1. \A d \in Call : pc'[d] \in Invoking => d = c
      <3>1. \A d \in Call : pc'[d] \in Invoking => pc[d] \in Invoking
        BY <1>0, <1>8 DEF Advanced, TypeOK, Invoking
      <3> QED
        BY <1>0, <1>8, <3>1, OneHolder DEF Advanced, Invoking
    <2>2. /\ unsaved' # <<>> /\ Len(unsaved') = Len(unsaved) + 1 /\ Len(unsaved) \in Nat
          /\ unsaved'[Len(unsaved')] = mem'
          /\ \A i \in 1 .. Len(unsaved) : unsaved'[i] = unsaved[i]
      BY <1>0, <1>8 DEF Advanced, TypeOK
    <2>3. pc[c] \in Invoking /\ mem.next # "END"
      BY <1>0, <1>8 DEF Advanced, Chained, Invoking
    <2>4. disk[t].next # "END"
      BY <1>0, <2>3 DEF Chained
    <2>5. \A i \in 1 .. Len(unsaved) : unsaved[i].next # "END"
      BY <1>0, <2>2, <2>3 DEF Chained
    <2>6. \A i \in 1 .. Len(unsaved') : unsaved'[i].next = "END" => i = Len(unsaved')
      BY <2>2, <2>5
    <2>7. \/ pc'[c] = "run" /\ mem'.next # "END"
          \/ pc'[c] = "drain" /\ (mem'.waiting \/ mem'.next = "END")
      BY <1>0, <1>8 DEF Advanced, TypeOK
    <2> QED
      BY <1>8, <2>1, <2>2, <2>4, <2>6, <2>7 DEF Advanced, Chained
  <1>9. CASE Persist
    <2>1. PICK c \in Call :
            /\ holder = c /\ pc[c] \in Invoking /\ arg[c].thread \in Thread
            /\ disk' = [disk EXCEPT ![arg[c].thread] = unsaved[1]]
            /\ unsaved' \in Seq(State)
            /\ Len(unsaved') = Len(unsaved) - 1 /\ Len(unsaved) \in Nat
            /\ \A i \in 1 .. Len(unsaved') : unsaved'[i] = unsaved[i + 1]
      BY <1>9, PersistEffect
    <2>2. \A d \in Call : pc'[d] \in Invoking => d = c
      BY <1>0, <1>9, <2>1, OneHolder DEF Persist
    <2>3. unsaved # <<>> /\ Len(unsaved) > 0
      BY <1>0, <1>9 DEF Persist, TypeOK
    <2>4. disk'[arg[c].thread] = unsaved[1]
      BY <1>0, <2>1 DEF TypeOK
    <2>5. IF unsaved' = <<>> THEN unsaved[1] = mem ELSE unsaved'[Len(unsaved')] = mem
      <3>1. unsaved[Len(unsaved)] = mem
        BY <1>0, <2>1, <2>3 DEF Chained
      <3>2. CASE unsaved' = <<>>
        <4>1. Len(unsaved') = 0
          BY <3>2
        <4>2. Len(unsaved) = 1
          BY <2>1, <4>1
        <4> QED
          BY <3>1, <3>2, <4>2
      <3>3. CASE unsaved' # <<>>
        <4>1. Len(unsaved') \in 1 .. Len(unsaved')
          BY <2>1, <3>3
        <4>2. unsaved'[Len(unsaved')] = unsaved[Len(unsaved') + 1]
          BY <2>1, <4>1
        <4> QED
          BY <2>1, <3>1, <3>3, <4>2
      <3> QED
        BY <3>2, <3>3
    <2>6. unsaved[1].next = "END" => unsaved' = <<>>
      <3>1. 1 \in 1 .. Len(unsaved)
        BY <2>1, <2>3
      <3>2. ASSUME unsaved[1].next = "END" PROVE unsaved' = <<>>
        <4>1. 1 = Len(unsaved)
          BY <1>0, <2>1, <3>1, <3>2 DEF Chained
        <4>2. Len(unsaved') = Len(unsaved) - 1 /\ unsaved' \in Seq(State)
          BY <2>1
        <4>3. Len(unsaved') = 0
          BY <4>1, <4>2
        <4> QED
          BY <4>2, <4>3
      <3> QED
        BY <3>2
    <2>7. \A i \in 1 .. Len(unsaved') : unsaved'[i].next = "END" => i = Len(unsaved')
      <3>1. \A i \in 1 .. Len(unsaved') : i + 1 \in 1 .. Len(unsaved)
        BY <2>1
      <3>2. \A i \in 1 .. Len(unsaved) : unsaved[i].next = "END" => i = Len(unsaved)
        BY <1>0, <2>1 DEF Chained
      <3>3. TAKE i \in 1 .. Len(unsaved')
      <3>4. HAVE unsaved'[i].next = "END"
      <3>5. i + 1 = Len(unsaved)
        BY <2>1, <3>1, <3>2, <3>4
      <3> QED
        BY <2>1, <3>5
    <2> QED
      BY <1>0, <1>9, <2>1, <2>2, <2>4, <2>5, <2>6, <2>7 DEF Persist, Chained
  <1>10. CASE Crash
    BY <1>0, <1>10 DEF Crash, Chained, TypeOK, Invoking, Waiting
  <1>11. CASE UNCHANGED vars
    BY <1>0, <1>11 DEF vars, Chained
  <1> QED
    BY <1>1, <1>2, <1>3, <1>4, <1>5, <1>6, <1>7, <1>8, <1>9, <1>10, <1>11, Steps

(* The versions in requests were shown to a client, and an invocation has taken up the
   question it answers. *)
LEMMA AskingStep ==
  ASSUME IInv, [Next]_vars
  PROVE  Asking'
  <1> USE DEF calls, invocation, history
  <1>0. TypeOK /\ Locked /\ Asking
    BY DEF IInv
  <1>1. ASSUME NEW c \in Call, Send(c) PROVE Asking'
    <2>1. PICK t \in Thread :
            \/ \E kind \in {"start", "status"} :
                 arg' = [arg EXCEPT ![c] = [kind |-> kind, thread |-> t, version |-> 0]]
            \/ \E kind \in Decisions, v \in shown[t] \cup {0} :
                 arg' = [arg EXCEPT ![c] = [kind |-> kind, thread |-> t, version |-> v]]
      BY <1>1 DEF Send
    <2>2. arg'[c].version \in shown[arg'[c].thread] \cup {0}
      BY <1>0, <2>1 DEF TypeOK
    <2>3. \A d \in Call \ {c} : arg'[d] = arg[d] /\ pc'[d] = pc[d]
      BY <1>0, <1>1 DEF Send, TypeOK
    <2>4. pc'[c] = "sent"
      BY <1>0, <1>1 DEF Send, TypeOK
    <2> QED
      BY <1>0, <1>1, <2>2, <2>3, <2>4 DEF Send, Asking, Invoking
  <1>2. ASSUME NEW c \in Call, Acquire(c) PROVE Asking'
    BY <1>0, <1>2 DEF Acquire, Asking, TypeOK, Invoking
  <1>3. ASSUME NEW c \in Call, Refused(c) PROVE Asking'
    BY <1>0, <1>3 DEF Refused, Refuse, Respond, Asking, TypeOK, Invoking
  <1>4. ASSUME NEW c \in Call, Reported(c) PROVE Asking'
    <2> DEFINE t == arg[c].thread
    <2>1. pc' = [pc EXCEPT ![c] = "answered"] /\ arg' = arg /\ mem' = mem /\ resume' = resume
      BY <1>4 DEF Reported, Report, Respond
    <2>2. \A d \in Call : pc'[d] \notin Invoking
      <3>1. \A d \in Call : pc[d] \in Invoking => d = c
        BY <1>0, <1>4, OneHolder DEF Reported, Invoking
      <3> QED
        BY <1>0, <2>1, <3>1 DEF TypeOK, Invoking
    <2>3. \A u \in Thread : shown[u] \subseteq shown'[u]
      BY <1>0, <1>4 DEF Reported, Report, TypeOK
    <2>4. \A d \in Call : pc'[d] # "idle" => pc[d] # "idle" /\ arg[d].thread \in Thread
      BY <1>0, <1>4, <2>1 DEF Reported, TypeOK, Locked, Asked
    <2> QED
      BY <1>0, <2>1, <2>2, <2>3, <2>4 DEF Asking, Invoking
  <1>5. ASSUME NEW c \in Call, Admitted(c) PROVE Asking'
    BY <1>0, <1>5 DEF Admitted, Asking, TypeOK, Invoking
  <1>6. ASSUME NEW c \in Call, Invoke(c) PROVE Asking'
    <2> DEFINE t == arg[c].thread
    <2>1. \A d \in Call : pc'[d] \in Invoking => d = c
      <3>1. \A d \in Call : pc[d] \notin Invoking
        BY <1>0, <1>6, NothingUnsaved DEF Invoke
      <3> QED
        BY <1>0, <1>6, <3>1 DEF Invoke, TypeOK
    <2>2. t \in Thread /\ arg[c].kind # "status" /\ arg[c] \in Asked
      BY <1>0, <1>6 DEF Invoke, Locked, Asked
    <2>3. promised'[t] = 0 /\ arg' = arg /\ shown' = shown
      BY <1>0, <1>6, <2>2 DEF Invoke, TypeOK
    <2>4. mem'.next # "commit_draft"
      <3>1. CASE arg[c].kind = "start"
        BY <1>6, <3>1 DEF Invoke, NoThread
      <3>2. CASE arg[c].kind # "start"
        BY <1>0, <1>6, <2>2, <3>2 DEF Invoke, Locked, IInv, Checkpoints, Sound
      <3> QED
        BY <3>1, <3>2
    <2>5. resume' => arg[c].kind \in Decisions
      BY <1>6, <2>2 DEF Invoke, Asked
    <2>6. \A d \in Call : pc'[d] # "idle" => pc[d] # "idle"
      BY <1>0, <1>6 DEF Invoke, TypeOK
    <2> QED
      BY <1>0, <2>1, <2>3, <2>4, <2>5, <2>6 DEF Asking, Invoking
  <1>7. ASSUME NEW c \in Call, PlanRaises(c) PROVE Asking'
    BY <1>0, <1>7 DEF PlanRaises, At, Asking, TypeOK, Invoking
  <1>8. ASSUME NEW c \in Call, Advanced(c) PROVE Asking'
    <2>1. \A d \in Call : pc'[d] \in Invoking => d = c
      <3>1. \A d \in Call : pc'[d] \in Invoking => pc[d] \in Invoking
        BY <1>0, <1>8 DEF Advanced, TypeOK, Invoking
      <3> QED
        BY <1>0, <1>8, <3>1, OneHolder DEF Advanced, Invoking
    <2>2. promised' = promised /\ shown' = shown /\ arg' = arg /\ pc[c] = "run"
      BY <1>8 DEF Advanced
    <2>3. \A d \in Call : pc'[d] # "idle" => pc[d] # "idle"
      BY <1>0, <1>8 DEF Advanced, TypeOK
    <2>4. mem'.next = "commit_draft" =>
            arg[c].kind = "approve" /\ arg[c].version = mem'.version /\ mem'.version > 0
      BY <1>8 DEF Advanced
    <2>5. resume' => resume
      BY <1>8 DEF Advanced
    <2> QED
      BY <1>0, <2>1, <2>2, <2>3, <2>4, <2>5 DEF Asking, Invoking
  <1>9. CASE Persist
    BY <1>0, <1>9 DEF Persist, Asking
  <1>10. CASE Crash
    BY <1>0, <1>10 DEF Crash, Asking, TypeOK, Invoking, Waiting
  <1>11. CASE UNCHANGED vars
    BY <1>0, <1>11 DEF vars, Asking
  <1> QED
    BY <1>1, <1>2, <1>3, <1>4, <1>5, <1>6, <1>7, <1>8, <1>9, <1>10, <1>11, Steps

(* The newest checkpoint of a thread only changes while it is being worked on, and not
   once the thread has ended. *)
LEMMA DiskStep ==
  ASSUME IInv, [Next]_vars, NEW t \in Thread, disk'[t] # disk[t]
  PROVE  /\ Persist /\ disk[t].next # "END"
         /\ \E c \in Call : pc[c] \in Invoking /\ arg[c].thread = t
  <1>1. Persist
    <2>1. ASSUME NEW c \in Call,
                 \/ Send(c) \/ Acquire(c) \/ Refused(c) \/ Reported(c) \/ Admitted(c)
                 \/ Invoke(c) \/ PlanRaises(c) \/ Advanced(c)
          PROVE  disk' = disk
      BY <2>1 DEF Send, Acquire, Refused, Refuse, Reported, Report, Admitted, Invoke,
                  PlanRaises, Advanced
    <2>2. Crash => disk' = disk
      BY DEF Crash
    <2>3. UNCHANGED vars => disk' = disk
      BY DEF vars
    <2> QED
      BY <2>1, <2>2, <2>3, Steps
  <1>2. PICK c \in Call :
          /\ pc[c] \in Invoking
          /\ disk' = [disk EXCEPT ![arg[c].thread] = unsaved[1]]
    BY <1>1, PersistEffect
  <1>3. arg[c].thread = t
    BY <1>2 DEF IInv, TypeOK
  <1>4. disk[t].next # "END"
    BY <1>1, <1>2, <1>3 DEF IInv, Chained, Persist
  <1> QED
    BY <1>1, <1>2, <1>3, <1>4

(* What clients were told of an ended thread is what its checkpoint says. *)
LEMMA ToldStep ==
  ASSUME IInv, [Next]_vars
  PROVE  Told'
  <1> USE DEF calls, invocation, history
  <1>0. TypeOK /\ Locked /\ Told
    BY DEF IInv
  <1>1. \A d \in Call : Answered(d) => arg[d] \in Asked /\ arg[d].thread \in Thread
    BY <1>0 DEF Answered, Locked, Asked
  <1>2. \A t \in Thread : disk[t].next = "END" => disk'[t] = disk[t]
    BY DiskStep
  <1>3. ASSUME NEW d \in Call, Answered(d), answer'[d] = answer[d], arg'[d] = arg[d]
        PROVE  /\ answer'[d].final = "approved" => answer'[d].next = "END"
               /\ answer'[d].next = "END" =>
                    LET s == disk'[arg'[d].thread] IN
                    /\ s.next = "END"
                    /\ answer'[d] = [code |-> 200, status |-> Status(s), next |-> s.next,
                                     version |-> s.version, final |-> s.final]
    <2> DEFINE t == arg[d].thread
    <2>1. /\ answer[d].final = "approved" => answer[d].next = "END"
          /\ answer[d].next = "END" =>
               /\ disk[t].next = "END"
               /\ answer[d] = [code |-> 200, status |-> Status(disk[t]), next |-> disk[t].next,
                               version |-> disk[t].version, final |-> disk[t].final]
      BY <1>0, <1>3 DEF Told
    <2>2. disk[t].next = "END" => disk'[t] = disk[t]
      BY <1>1, <1>2, <1>3
    <2> HIDE DEF t
    <2>3. arg'[d].thread = t
      BY <1>3 DEF t
    <2> QED
      BY <1>3, <2>1, <2>2, <2>3
  <1>4. ASSUME NEW c \in Call, Reported(c)
        PROVE  Told'
    <2> DEFINE s == disk[arg[c].thread]
    <2>1. arg[c].thread \in Thread /\ s \in State /\ Sound(s, arg[c].thread)
      BY <1>0, <1>4 DEF Reported, Locked, Asked, TypeOK, IInv, Checkpoints
    <2>2. /\ answer' = [answer EXCEPT ![c] = [code |-> 200, status |-> Status(s),
                          next |-> s.next, version |-> s.version, final |-> s.final]]
          /\ pc' = [pc EXCEPT ![c] = "answered"] /\ arg' = arg /\ disk' = disk
      BY <1>4 DEF Reported, Report, Respond
    <2>3. \A d \in Call \ {c} : Answered(d)' => Answered(d) /\ answer'[d] = answer[d]
      BY <1>0, <2>2 DEF Answered, TypeOK
    <2>4. answer'[c] = [code |-> 200, status |-> Status(s), next |-> s.next,
                        version |-> s.version, final |-> s.final]
      BY <1>0, <2>2 DEF TypeOK
    <2>5. s.final = "approved" => s.next = "END"
      BY <2>1 DEF Sound
    <2>6. ASSUME NEW d \in Call, Answered(d)'
          PROVE  /\ answer'[d].final = "approved" => answer'[d].next = "END"
                 /\ answer'[d].next = "END" =>
                      LET r == disk'[arg'[d].thread] IN
                      /\ r.next = "END"
                      /\ answer'[d] = [code |-> 200, status |-> Status(r), next |-> r.next,
                                       version |-> r.version, final |-> r.final]
      <3>1. CASE d = c
        BY <2>2, <2>4, <2>5, <3>1
      <3>2. CASE d # c
        BY <1>3, <2>2, <2>3, <2>6, <3>2
      <3> QED
        BY <3>1, <3>2
    <2> QED
      BY <2>6 DEF Told, Status
  <1>5. ASSUME \A d \in Call : Answered(d)' =>
                 Answered(d) /\ answer'[d] = answer[d] /\ arg'[d] = arg[d]
        PROVE  Told'
    BY <1>3, <1>5 DEF Told, Status
  <1>6. ASSUME NEW c \in Call,
               \/ Send(c) \/ Acquire(c) \/ Refused(c) \/ Admitted(c) \/ Invoke(c)
               \/ PlanRaises(c) \/ Advanced(c)
        PROVE  Told'
    <2>1. CASE Send(c)
      BY <1>0, <1>5, <2>1 DEF Send, Answered, TypeOK
    <2>2. CASE Acquire(c)
      BY <1>0, <1>5, <2>2 DEF Acquire, Answered, TypeOK
    <2>3. CASE Refused(c)
      BY <1>0, <1>5, <2>3 DEF Refused, Refuse, Respond, Answered, TypeOK
    <2>4. CASE Admitted(c)
      BY <1>0, <1>5, <2>4 DEF Admitted, Answered, TypeOK
    <2>5. CASE Invoke(c)
      BY <1>0, <1>5, <2>5 DEF Invoke, Answered, TypeOK
    <2>6. CASE PlanRaises(c)
      BY <1>0, <1>5, <2>6 DEF PlanRaises, Answered, TypeOK
    <2>7. CASE Advanced(c)
      BY <1>0, <1>5, <2>7 DEF Advanced, Answered, TypeOK
    <2> QED
      BY <1>6, <2>1, <2>2, <2>3, <2>4, <2>5, <2>6, <2>7
  <1>7. CASE Persist
    BY <1>5, <1>7 DEF Persist, Answered
  <1>8. CASE Crash
    BY <1>0, <1>5, <1>8 DEF Crash, Answered, TypeOK
  <1>9. CASE UNCHANGED vars
    BY <1>5, <1>9 DEF vars, Answered
  <1> QED
    BY <1>4, <1>6, <1>7, <1>8, <1>9, Steps

(* A question stays until an invocation takes it up. *)
LEMMA QuestionStep ==
  ASSUME IInv, [Next]_vars
  PROVE  QuestionSurvives'
  <1> USE DEF calls, invocation, history
  <1>0. TypeOK /\ Locked /\ QuestionSurvives
    BY DEF IInv
  <1>1. ASSUME NEW t \in Thread, promised'[t] # 0, promised'[t] = promised[t]
        PROVE  disk'[t].waiting /\ disk'[t].version = promised'[t]
    <2>1. disk'[t] = disk[t]
      BY <1>1, DiskStep DEF IInv, Asking
    <2> QED
      BY <1>0, <1>1, <2>1 DEF QuestionSurvives
  <1>2. ASSUME NEW c \in Call, Reported(c) PROVE QuestionSurvives'
    <2>1. disk' = disk /\ arg[c].thread \in Thread
      BY <1>0, <1>2 DEF Reported, Report, Locked, Asked
    <2>2. \A t \in Thread :
            \/ promised'[t] = promised[t]
            \/ disk[t].waiting /\ promised'[t] = disk[t].version
      BY <1>0, <1>2, <2>1 DEF Reported, Report, TypeOK
    <2> QED
      BY <1>1, <2>1, <2>2 DEF QuestionSurvives
  <1>3. ASSUME NEW c \in Call, Invoke(c) PROVE QuestionSurvives'
    <2>1. \A t \in Thread : promised'[t] = promised[t] \/ promised'[t] = 0
      BY <1>0, <1>3 DEF Invoke, TypeOK
    <2> QED
      BY <1>1, <2>1 DEF QuestionSurvives
  <1>4. CASE promised' = promised
    BY <1>1, <1>4 DEF QuestionSurvives
  <1>5. ASSUME NEW c \in Call,
               Send(c) \/ Acquire(c) \/ Refused(c) \/ Admitted(c) \/ PlanRaises(c) \/ Advanced(c)
        PROVE  promised' = promised
    BY <1>5 DEF Send, Acquire, Refused, Refuse, Admitted, PlanRaises, Advanced
  <1>6. Persist \/ Crash \/ UNCHANGED vars => promised' = promised
    BY DEF Persist, Crash, vars
  <1> QED
    BY <1>2, <1>3, <1>4, <1>5, <1>6, Steps

(* A draft is stored for its approval, and requests and questions are never forgotten. *)
LEMMA StoredStep ==
  ASSUME IInv, [Next]_vars
  PROVE  StoredWasApproved'
  <1> USE DEF calls, invocation, history
  <1>0. TypeOK /\ Locked /\ StoredWasApproved
    BY DEF IInv
  <1>1. ASSUME drafts' = drafts, \A t \in Thread : shown[t] \subseteq shown'[t],
               \A c \in Call : pc[c] # "idle" => pc'[c] # "idle" /\ arg'[c] = arg[c]
        PROVE  StoredWasApproved'
    BY <1>0, <1>1 DEF StoredWasApproved
  <1>2. ASSUME NEW c \in Call, Advanced(c) PROVE StoredWasApproved'
    <2>1. arg' = arg /\ shown' = shown /\ pc[c] = "run"
      BY <1>2 DEF Advanced
    <2>2. \A d \in Call : pc[d] # "idle" => pc'[d] # "idle"
      BY <1>0, <1>2 DEF Advanced, TypeOK
    <2>3. ASSUME NEW t \in Thread, NEW v \in drafts'[t]
          PROVE  /\ v \in shown[t]
                 /\ \E d \in Call : /\ pc[d] # "idle"
                                    /\ arg[d] = [kind |-> "approve", thread |-> t, version |-> v]
      <3>1. CASE v \in drafts[t]
        BY <1>0, <3>1 DEF StoredWasApproved
      <3>2. CASE v \notin drafts[t]
        BY <1>2, <2>1, <2>3, <3>2 DEF Advanced, Approves
      <3> QED
        BY <3>1, <3>2
    <2> QED
      BY <2>1, <2>2, <2>3 DEF StoredWasApproved
  <1>3. ASSUME NEW c \in Call, Send(c) PROVE StoredWasApproved'
    BY <1>0, <1>1, <1>3 DEF Send, TypeOK
  <1>4. ASSUME NEW c \in Call, Acquire(c) PROVE StoredWasApproved'
    BY <1>0, <1>1, <1>4 DEF Acquire, TypeOK
  <1>5. ASSUME NEW c \in Call, Refused(c) PROVE StoredWasApproved'
    BY <1>0, <1>1, <1>5 DEF Refused, Refuse, Respond, TypeOK
  <1>6. ASSUME NEW c \in Call, Reported(c) PROVE StoredWasApproved'
    BY <1>0, <1>1, <1>6 DEF Reported, Report, Respond, TypeOK
  <1>7. ASSUME NEW c \in Call, Admitted(c) PROVE StoredWasApproved'
    BY <1>0, <1>1, <1>7 DEF Admitted, TypeOK
  <1>8. ASSUME NEW c \in Call, Invoke(c) PROVE StoredWasApproved'
    BY <1>0, <1>1, <1>8 DEF Invoke, TypeOK
  <1>9. ASSUME NEW c \in Call, PlanRaises(c) PROVE StoredWasApproved'
    BY <1>0, <1>1, <1>9 DEF PlanRaises, TypeOK
  <1>10. CASE Persist
    BY <1>1, <1>10 DEF Persist
  <1>11. CASE Crash
    BY <1>0, <1>1, <1>11 DEF Crash, TypeOK, Waiting, Invoking
  <1>12. CASE UNCHANGED vars
    BY <1>1, <1>12 DEF vars
  <1> QED
    BY <1>2, <1>3, <1>4, <1>5, <1>6, <1>7, <1>8, <1>9, <1>10, <1>11, <1>12, Steps

(* A call that leaves its invocation leaves a thread that waits, has ended, or is marked
   as broken. *)
LEMMA IdleStep ==
  ASSUME IInv, [Next]_vars
  PROVE  IdleIsResumable'
  <1> USE DEF calls, invocation, history
  <1>0. TypeOK /\ Locked /\ Chained /\ IdleIsResumable
    BY DEF IInv
  <1>1. ASSUME broken' = broken,
               \A d \in Call : pc[d] \in Invoking => pc'[d] \in Invoking /\ arg'[d] = arg[d]
        PROVE  IdleIsResumable'
    <2>1. ASSUME NEW t \in Thread, \A d \in Call : pc'[d] \in Invoking => arg'[d].thread # t
          PROVE  /\ \A d \in Call : pc[d] \in Invoking => arg[d].thread # t
                 /\ disk'[t] = disk[t]
      BY <1>1, <2>1, DiskStep
    <2> QED
      BY <1>0, <1>1, <2>1 DEF IdleIsResumable
  <1>2. ASSUME NEW c \in Call, pc[c] \in {"check", "drain", "drainFailed"}, unsaved = <<>>,
               pc' = [pc EXCEPT ![c] = "answered"], arg' = arg, disk' = disk, broken' = broken
        PROVE  IdleIsResumable'
    <2>1. \A d \in Call : pc[d] \in Invoking => d = c
      BY <1>0, <1>2, OneHolder DEF Invoking
    <2>2. pc[c] # "check" => /\ disk[arg[c].thread] = mem
                             /\ \/ mem.waiting \/ mem.next = "END"
                                \/ broken[arg[c].thread] # "no"
      BY <1>0, <1>2 DEF Chained, Invoking
    <2>3. ASSUME NEW t \in Thread, broken[t] = "no", disk[t].next # "none"
          PROVE  disk[t].waiting \/ disk[t].next = "END"
      <3>1. CASE pc[c] # "check" /\ arg[c].thread = t
        BY <2>2, <2>3, <3>1
      <3>2. CASE ~(pc[c] # "check" /\ arg[c].thread = t)
        <4>1. \A d \in Call : pc[d] \in Invoking => arg[d].thread # t
          BY <2>1, <3>2 DEF Invoking
        <4> QED
          BY <1>0, <2>3, <4>1 DEF IdleIsResumable
      <3> QED
        BY <3>1, <3>2
    <2> QED
      BY <1>2, <2>3 DEF IdleIsResumable
  <1>3. ASSUME NEW c \in Call, Refused(c) PROVE IdleIsResumable'
    BY <1>2, <1>3 DEF Refused, Refuse, Respond
  <1>4. ASSUME NEW c \in Call, Reported(c) PROVE IdleIsResumable'
    BY <1>2, <1>4 DEF Reported, Report, Respond
  <1>5. ASSUME NEW c \in Call, Send(c) PROVE IdleIsResumable'
    BY <1>0, <1>1, <1>5 DEF Send, TypeOK, Invoking
  <1>6. ASSUME NEW c \in Call, Acquire(c) PROVE IdleIsResumable'
    BY <1>0, <1>1, <1>6 DEF Acquire, TypeOK, Invoking
  <1>7. ASSUME NEW c \in Call, Admitted(c) PROVE IdleIsResumable'
    BY <1>0, <1>1, <1>7 DEF Admitted, TypeOK, Invoking
  <1>8. ASSUME NEW c \in Call, Invoke(c) PROVE IdleIsResumable'
    BY <1>0, <1>1, <1>8 DEF Invoke, TypeOK, Invoking
  <1>9. ASSUME NEW c \in Call, PlanRaises(c) PROVE IdleIsResumable'
    <2>1. /\ broken' = [broken EXCEPT ![arg[c].thread] = "raised"] /\ disk' = disk /\ arg' = arg
          /\ \A d \in Call : pc[d] \in Invoking => pc'[d] \in Invoking
      BY <1>0, <1>9 DEF PlanRaises, TypeOK, Invoking
    <2>2. \A t \in Thread : broken'[t] = "no" => broken[t] = "no"
      BY <1>0, <2>1 DEF TypeOK
    <2> QED
      BY <1>0, <2>1, <2>2 DEF IdleIsResumable
  <1>10. ASSUME NEW c \in Call, Advanced(c) PROVE IdleIsResumable'
    BY <1>0, <1>1, <1>10 DEF Advanced, TypeOK, Invoking
  <1>11. CASE Persist
    BY <1>1, <1>11 DEF Persist
  <1>12. CASE Crash
    <2>1. \A t \in Thread : broken'[t] = "no" =>
            broken[t] = "no" /\ \A d \in Call : pc[d] \in Invoking => arg[d].thread # t
      BY <1>12 DEF Crash
    <2>2. disk' = disk
      BY <1>12 DEF Crash
    <2> QED
      BY <1>0, <2>1, <2>2 DEF IdleIsResumable
  <1>13. CASE UNCHANGED vars
    BY <1>1, <1>13 DEF vars
  <1> QED
    BY <1>3, <1>4, <1>5, <1>6, <1>7, <1>8, <1>9, <1>10, <1>11, <1>12, <1>13, Steps

------------------------------------------------------------------------------
(* IInv holds in every reachable state, for any number of calls, threads and crashes. *)
THEOREM Invariant == Spec => []IInv
  <1>1. Init => IInv
    <2> SUFFICES ASSUME Init PROVE IInv
      OBVIOUS
    <2>1. NoThread \in State /\ <<>> \in Seq(State)
      BY DEF NoThread, State
    <2>2. TypeOK
      <3>1. /\ arg \in [Call -> Asked \cup {NoCall}] /\ answer \in [Call -> Response \cup {NoAnswer}]
            /\ pc \in [Call -> {"idle", "answered", "lost"} \cup Waiting \cup Invoking]
        BY DEF Init
      <3>2. holder \in Call \cup {NoOne} /\ crashes \in 0 .. MaxCrashes
        BY CrashesAssumption DEF Init
      <3>3. /\ mem \in State /\ resume \in BOOLEAN /\ unsaved \in Seq(State)
            /\ disk \in [Thread -> State]
        BY <2>1 DEF Init
      <3>4. /\ drafts \in [Thread -> SUBSET Nat] /\ shown \in [Thread -> SUBSET Nat]
            /\ promised \in [Thread -> Nat] /\ broken \in [Thread -> {"no", "raised", "crashed"}]
        BY DEF Init
      <3> QED
        BY <3>1, <3>2, <3>3, <3>4 DEF TypeOK
    <2>3. Locked /\ Chained /\ Asking /\ Told
      BY NoOneAssumption DEF Init, Locked, Chained, Asking, Told, Answered, Invoking
    <2>4. Checkpoints /\ QuestionSurvives /\ StoredWasApproved /\ IdleIsResumable
      BY DEF Init, Checkpoints, Sound, NoThread, QuestionSurvives, StoredWasApproved,
             IdleIsResumable, Invoking
    <2> QED
      BY <2>2, <2>3, <2>4 DEF IInv
  <1>2. IInv /\ [Next]_vars => IInv'
    BY TypeStep, LockedStep, CheckpointsStep, ChainedStep, AskingStep, ToldStep, QuestionStep,
       StoredStep, IdleStep DEF IInv
  <1> QED
    BY <1>1, <1>2, PTL DEF Spec

(* Calls, checkpoints and drafts keep their types. *)
THEOREM TypeCorrect == Spec => []TypeOK
  <1>1. IInv => TypeOK
    BY DEF IInv
  <1> QED
    BY <1>1, Invariant, PTL

(* Neither a crash nor another call takes back the question a client was asked: what
   waits for its decision is on the disk before the response leaves the lock. *)
THEOREM QuestionsSurvive == Spec => []QuestionSurvives
  <1>1. IInv => QuestionSurvives
    BY DEF IInv
  <1> QED
    BY <1>1, Invariant, PTL

(* All clients who are told how a thread has ended are told the same. *)
THEOREM EndingsAreFinal == Spec => []EndingsAgree
  <1>1. IInv => EndingsAgree
    BY DEF IInv, Told, EndingsAgree
  <1> QED
    BY <1>1, Invariant, PTL

(* Who is told that a version is approved finds it in the business database. *)
THEOREM ApprovalsAreStored == Spec => []ApprovedIsStored
  <1>1. IInv => ApprovedIsStored
    <2> SUFFICES ASSUME IInv, NEW c \in Call, Answered(c), answer[c].final = "approved"
                 PROVE  answer[c].version \in drafts[arg[c].thread]
      BY DEF ApprovedIsStored
    <2> DEFINE s == disk[arg[c].thread]
    <2>1. /\ s.next = "END"
          /\ answer[c] = [code |-> 200, status |-> Status(s), next |-> s.next,
                          version |-> s.version, final |-> s.final]
      BY DEF IInv, Told
    <2>2. Sound(s, arg[c].thread)
      BY DEF IInv, Locked, Asked, Answered, Checkpoints
    <2>3. s.final = "approved" /\ answer[c].version = s.version
      BY <2>1
    <2> QED
      BY <2>2, <2>3 DEF Sound
  <1> QED
    BY <1>1, Invariant, PTL

(* A draft is only stored for an approval of that version by a client who was asked. *)
THEOREM OnlyApprovedIsStored == Spec => []StoredWasApproved
  <1>1. IInv => StoredWasApproved
    BY DEF IInv
  <1> QED
    BY <1>1, Invariant, PTL

(* The drafts in the business database are those that were approved and told of. *)
THEOREM DraftsWereApproved == Spec => []DraftsAreApproved
  <1>1. TypeOK /\ ApprovedIsStored /\ StoredWasApproved => DraftsAreApproved
    BY DEF DraftsAreApproved
  <1> QED
    BY <1>1, TypeCorrect, ApprovalsAreStored, OnlyApprovedIsStored, PTL

(* A thread nobody works on, and nothing has gone wrong with, waits or has ended. *)
THEOREM IdleThreadsAreResumable == Spec => []IdleIsResumable
  <1>1. IInv => IdleIsResumable
    BY DEF IInv
  <1> QED
    BY <1>1, Invariant, PTL

(* A thread that has ended is never taken up again. *)
THEOREM EndsAreFinal == Spec => EndedStaysEnded
  <1>1. IInv /\ [Next]_vars =>
          [\A t \in Thread : disk[t].next = "END" => disk'[t] = disk[t]]_vars
    BY DiskStep
  <1> QED
    BY <1>1, Invariant, PTL DEF Spec, EndedStaysEnded

=============================================================================
