---------------------------- MODULE WorkflowRuntime ----------------------------
(***************************************************************************)
(* PlanTripWorkflowRuntime behind the HTTP API: calls that start a thread, *)
(* answer its decision gate or ask for its status, one at a time under the *)
(* execution lock, over two databases that a crash does not touch: the     *)
(* checkpoints and the drafts.  An invocation works on the state in memory *)
(* and writes a checkpoint after each super-step in the background; it     *)
(* waits for them before it returns.  When the process dies, every call in *)
(* it and every checkpoint not yet written is lost; it is started again at *)
(* once.                                                                   *)
(*                                                                         *)
(* The nodes of PlanTripGraph are merged as far as the runtime cannot tell *)
(* them apart: plan is everything from input_extract to verifier.  A       *)
(* commit is one step, as TripStore promises.                              *)
(***************************************************************************)
EXTENDS Integers, Sequences

CONSTANTS
  Call,       \* HTTP requests
  Thread,     \* thread_id = trip_session_id
  MaxCrashes  \* bound: deaths of the process

ASSUME CrashesAssumption == MaxCrashes \in Nat

NoOne == "no one"
ASSUME NoOneAssumption == NoOne \notin Call

VARIABLES
  arg,        \* what each call asks for
  pc,         \* where each call is
  answer,     \* the response each call was given
  holder,     \* the call that has the execution lock
  mem,        \* the state the running invocation works on
  resume,     \* the decision of a resumed invocation has not been used yet
  unsaved,    \* the checkpoints on their way to the disk
  disk,       \* the newest checkpoint of each thread
  drafts,     \* the versions of each thread in the business database
  shown,      \* history: the versions a client was asked about
  promised,   \* history: the version a client has last been asked about, unless a
              \* decision has been taken up since
  broken,     \* history: how an invocation of the thread has failed
  crashes

calls == <<arg, pc, answer>>
invocation == <<mem, resume, unsaved>>
history == <<shown, promised, broken, crashes>>
vars == <<calls, holder, invocation, disk, drafts, history>>

Decisions == {"approve", "request_changes", "cancel"}
Waiting == {"sent", "check", "load"}        \* before the invocation
Invoking == {"run", "drain", "drainFailed"}

NoThread == [next |-> "none", waiting |-> FALSE, version |-> 0, decision |-> "none",
             commit |-> "none", final |-> "none"]
NoCall == [kind |-> "none"]
NoAnswer == [code |-> 0]

Init ==
  /\ arg = [c \in Call |-> NoCall] /\ pc = [c \in Call |-> "idle"]
  /\ answer = [c \in Call |-> NoAnswer]
  /\ holder = NoOne
  /\ mem = NoThread /\ resume = FALSE /\ unsaved = <<>>
  /\ disk = [t \in Thread |-> NoThread]
  /\ drafts = [t \in Thread |-> {}]
  /\ shown = [t \in Thread |-> {}] /\ promised = [t \in Thread |-> 0]
  /\ broken = [t \in Thread |-> "no"] /\ crashes = 0

------------------------------------------------------------------------------
(* Calls. *)

\* A client names a version it was asked about, or sends something malformed (0).
Send(c) ==
  /\ pc[c] = "idle"
  /\ \E t \in Thread :
       \/ \E kind \in {"start", "status"} :
            arg' = [arg EXCEPT ![c] = [kind |-> kind, thread |-> t, version |-> 0]]
       \/ \E kind \in Decisions, v \in shown[t] \cup {0} :
            arg' = [arg EXCEPT ![c] = [kind |-> kind, thread |-> t, version |-> v]]
  /\ pc' = [pc EXCEPT ![c] = "sent"]
  /\ UNCHANGED <<answer, holder, invocation, disk, drafts, history>>

Acquire(c) ==
  /\ pc[c] = "sent" /\ holder = NoOne
  /\ holder' = c
  /\ pc' = [pc EXCEPT ![c] = "check"]
  /\ UNCHANGED <<arg, answer, invocation, disk, drafts, history>>

\* The call leaves the lock with its response.
Respond(c, response) ==
  /\ answer' = [answer EXCEPT ![c] = response]
  /\ pc' = [pc EXCEPT ![c] = "answered"]
  /\ holder' = NoOne
  /\ UNCHANGED <<arg, drafts>>

\* Slip: an early return that does not leave the lock.
RefuseHolding(c, code) ==
  /\ answer' = [answer EXCEPT ![c] = [code |-> code]]
  /\ pc' = [pc EXCEPT ![c] = "answered"]
  /\ UNCHANGED <<arg, holder, invocation, disk, drafts, history>>

\* A response without a report.
Refuse(c, code) ==
  /\ Respond(c, [code |-> code])
  /\ UNCHANGED <<invocation, disk, history>>

\* _resolve_run_status; no thread gets to END without a final response.
Status(s) ==
  IF s.waiting THEN "waiting_for_decision"
  ELSE IF s.final # "none" THEN "completed"
  ELSE IF s.next # "END" THEN "running"
  ELSE "failed"

\* build_public_run_response on the newest checkpoint: a pending interrupt asks the
\* client for a decision.
Report(c) ==
  LET t == arg[c].thread  s == disk[t] IN
  /\ Respond(c, [code |-> 200, status |-> Status(s), next |-> s.next,
                 version |-> s.version, final |-> s.final])
  /\ shown' = IF s.waiting THEN [shown EXCEPT ![t] = @ \cup {s.version}] ELSE shown
  /\ promised' = IF s.waiting THEN [promised EXCEPT ![t] = s.version] ELSE promised
  /\ UNCHANGED <<invocation, disk, broken, crashes>>

\* Slip: a thread that exists is started over.
StartAnyway(c) ==
  /\ pc[c] = "check" /\ arg[c].kind = "start"
  /\ pc' = [pc EXCEPT ![c] = "load"]
  /\ UNCHANGED <<arg, answer, holder, invocation, disk, drafts, history>>

CheckStart(c) ==
  /\ pc[c] = "check" /\ arg[c].kind = "start"
  /\ IF disk[arg[c].thread].next # "none"
     THEN Refuse(c, 409)
     ELSE /\ pc' = [pc EXCEPT ![c] = "load"]
          /\ UNCHANGED <<arg, answer, holder, invocation, disk, drafts, history>>

CheckDecision(c) ==
  /\ pc[c] = "check" /\ arg[c].kind \in Decisions
  /\ LET s == disk[arg[c].thread] IN
     \/ s.next = "none" /\ Refuse(c, 404)
     \/ s.next # "none" /\ ~s.waiting /\ Refuse(c, 409)
     \/ /\ s.waiting
        /\ pc' = [pc EXCEPT ![c] = "load"]
        /\ UNCHANGED <<arg, answer, holder, invocation, disk, drafts, history>>

GetSnapshot(c) ==
  /\ pc[c] = "check" /\ arg[c].kind = "status"
  /\ IF disk[arg[c].thread].next = "none" THEN Refuse(c, 404) ELSE Report(c)

------------------------------------------------------------------------------
(* An invocation of the graph. *)

\* graph.invoke: a start writes its input as the first checkpoint, a resume goes on
\* from the newest one.
Invoke(c) ==
  /\ pc[c] = "load"
  /\ LET t == arg[c].thread  input == [NoThread EXCEPT !.next = "plan"] IN
     /\ mem' = IF arg[c].kind = "start" THEN input ELSE disk[t]
     /\ unsaved' = IF arg[c].kind = "start" THEN <<input>> ELSE <<>>
     /\ promised' = [promised EXCEPT ![t] = 0]
  /\ resume' = (arg[c].kind # "start")
  /\ pc' = [pc EXCEPT ![c] = "run"]
  /\ UNCHANGED <<arg, answer, holder, disk, drafts, shown, broken, crashes>>

At(c, n) == pc[c] = "run" /\ mem.next = n

\* The state after a super-step, and its checkpoint.
Becomes(s) == mem' = s /\ unsaved' = Append(unsaved, s)
Continue(s) == Becomes(s) /\ UNCHANGED <<calls, holder, resume, disk, drafts, history>>

\* A proposal for the gate, a refusal with its response (clarify, safe_reject), or
\* nothing that can be proposed.
Plan(c) ==
  /\ At(c, "plan")
  /\ \/ Continue([mem EXCEPT !.next = "decision_gate", !.version = @ + 1])
     \/ Continue([mem EXCEPT !.next = "final_response", !.final = "refused"])
     \/ Continue([mem EXCEPT !.next = "final_response"])

\* tool_plan raises; checkpoints on their way are still written.
PlanRaises(c) ==
  /\ At(c, "plan")
  /\ pc' = [pc EXCEPT ![c] = "drainFailed"]
  /\ broken' = [broken EXCEPT ![arg[c].thread] = "raised"]
  /\ UNCHANGED <<arg, answer, holder, invocation, disk, drafts, shown, promised, crashes>>

\* Slip: the interrupt is left to the next checkpoint.
AskUnsaved(c) ==
  /\ At(c, "decision_gate") /\ ~resume
  /\ pc' = [pc EXCEPT ![c] = "drain"]
  /\ UNCHANGED <<arg, answer, holder, invocation, disk, drafts, history>>

\* decision_gate without an answer: interrupt ends the invocation.
Ask(c) ==
  /\ At(c, "decision_gate") /\ ~resume
  /\ Becomes([mem EXCEPT !.waiting = TRUE])
  /\ pc' = [pc EXCEPT ![c] = "drain"]
  /\ UNCHANGED <<arg, answer, holder, resume, disk, drafts, history>>

Destination(kind) ==
  CASE kind = "approve" -> "commit_draft"
    [] kind = "request_changes" -> "revision"
    [] kind = "cancel" -> "cancel"

\* Slip: the answer is taken for whatever proposal is current.
DecideAny(c) ==
  /\ At(c, "decision_gate") /\ resume
  /\ Becomes([mem EXCEPT !.waiting = FALSE, !.next = Destination(arg[c].kind),
                         !.decision = arg[c].kind])
  /\ resume' = FALSE
  /\ UNCHANGED <<calls, holder, disk, drafts, history>>

\* decision_gate with an answer, for the version it asks about or not.
Decide(c) ==
  /\ At(c, "decision_gate") /\ resume
  /\ Becomes(IF arg[c].version = mem.version
             THEN [mem EXCEPT !.waiting = FALSE, !.next = Destination(arg[c].kind),
                              !.decision = arg[c].kind]
             ELSE [mem EXCEPT !.waiting = FALSE])
  /\ resume' = FALSE
  /\ UNCHANGED <<calls, holder, disk, drafts, history>>

\* revision_analyze and apply_revision: plan again, or give up.
Revise(c) ==
  /\ At(c, "revision")
  /\ \/ Continue([mem EXCEPT !.next = "plan", !.decision = "none"])
     \/ Continue([mem EXCEPT !.next = "final_response"])

\* The draft is in the business database before any checkpoint says so.
Commit(c) ==
  /\ At(c, "commit_draft")
  /\ \A v \in drafts[arg[c].thread] : v <= mem.version
  /\ drafts' = [drafts EXCEPT ![arg[c].thread] = @ \cup {mem.version}]
  /\ Becomes([mem EXCEPT !.next = "final_response", !.commit = "committed"])
  /\ UNCHANGED <<calls, holder, resume, disk, history>>

CommitFails(c) ==
  /\ At(c, "commit_draft")
  /\ Continue([mem EXCEPT !.next = "final_response", !.commit = "failed"])

Cancel(c) ==
  /\ At(c, "cancel")
  /\ Continue([mem EXCEPT !.next = "final_response"])

Final(s) ==
  IF s.final # "none" THEN s.final
  ELSE IF s.commit = "committed" THEN "approved"
  ELSE IF s.decision = "cancel" THEN "cancelled"
  ELSE "failed"

FinalResponse(c) ==
  /\ At(c, "final_response")
  /\ Becomes([mem EXCEPT !.next = "END", !.final = Final(mem)])
  /\ pc' = [pc EXCEPT ![c] = "drain"]
  /\ UNCHANGED <<arg, answer, holder, resume, disk, drafts, history>>

\* The oldest checkpoint on its way reaches the disk.
Persist ==
  /\ unsaved # <<>>
  /\ disk' = [disk EXCEPT ![arg[holder].thread] = Head(unsaved)]
  /\ unsaved' = Tail(unsaved)
  /\ UNCHANGED <<calls, holder, mem, resume, drafts, history>>

\* Slip: the response does not wait for the checkpoints.
ReturnEarly(c) ==
  /\ pc[c] = "drain"
  /\ LET t == arg[c].thread IN
     /\ Respond(c, [code |-> 200, status |-> Status(mem), next |-> mem.next,
                    version |-> mem.version, final |-> mem.final])
     /\ disk' = disk /\ unsaved' = <<>>
     /\ shown' = IF mem.waiting THEN [shown EXCEPT ![t] = @ \cup {mem.version}] ELSE shown
     /\ promised' = IF mem.waiting THEN [promised EXCEPT ![t] = mem.version] ELSE promised
     /\ UNCHANGED <<mem, resume, broken, crashes>>

\* invoke returns: the response is built from the newest checkpoint.
Return(c) == pc[c] = "drain" /\ unsaved = <<>> /\ Report(c)

\* invoke raises: 500, or 400 when it is a ValueError of a start, which the API takes
\* for a fault of the input.
ReturnFailure(c) ==
  /\ pc[c] = "drainFailed" /\ unsaved = <<>>
  /\ \E code \in IF arg[c].kind = "start" THEN {400, 500} ELSE {500} : Refuse(c, code)

------------------------------------------------------------------------------
\* The process dies with everything in memory, and comes back.
Crash ==
  /\ crashes < MaxCrashes
  /\ \E c \in Call : pc[c] \in Waiting \cup Invoking
  /\ crashes' = crashes + 1
  /\ pc' = [c \in Call |-> IF pc[c] \in Waiting \cup Invoking THEN "lost" ELSE pc[c]]
  /\ holder' = NoOne
  /\ mem' = NoThread /\ resume' = FALSE /\ unsaved' = <<>>
  /\ broken' = [t \in Thread |->
       IF \E c \in Call : pc[c] \in Invoking /\ arg[c].thread = t /\ broken[t] = "no"
       THEN "crashed" ELSE broken[t]]
  /\ UNCHANGED <<arg, answer, disk, drafts, shown, promised>>

Node(c) ==
  \/ Plan(c) \/ PlanRaises(c) \/ Ask(c) \/ Decide(c) \/ Revise(c)
  \/ Commit(c) \/ CommitFails(c) \/ Cancel(c) \/ FinalResponse(c)

Work(c) ==
  \/ CheckStart(c) \/ CheckDecision(c) \/ GetSnapshot(c) \/ Invoke(c) \/ Node(c)
  \/ Return(c) \/ ReturnFailure(c)

Next == (\E c \in Call : Send(c) \/ Acquire(c) \/ Work(c)) \/ Persist \/ Crash

Spec == Init /\ [][Next]_vars

\* A call in the lock goes on, checkpoints are written, and whoever waits for a lock
\* that stays free gets it.  Clients need not send anything.
FairSpec == Spec /\ WF_vars(Persist) /\ \A c \in Call : WF_vars(Acquire(c)) /\ WF_vars(Work(c))

------------------------------------------------------------------------------
(* Properties. *)

NodeName == {"plan", "decision_gate", "revision", "commit_draft", "cancel", "final_response", "END"}
Finals == {"refused", "approved", "cancelled", "failed"}
State == [next : NodeName \cup {"none"}, waiting : BOOLEAN, version : Nat,
          decision : Decisions \cup {"none"}, commit : {"none", "committed", "failed"},
          final : Finals \cup {"none"}]
Asked == [kind : Decisions \cup {"start", "status"}, thread : Thread, version : Nat]
Response == [code : {400, 404, 409, 500}] \cup
  [code : {200}, status : {"waiting_for_decision", "completed", "running", "failed"},
   next : NodeName, version : Nat, final : Finals \cup {"none"}]

TypeOK ==
  /\ arg \in [Call -> Asked \cup {NoCall}]
  /\ pc \in [Call -> {"idle", "answered", "lost"} \cup Waiting \cup Invoking]
  /\ answer \in [Call -> Response \cup {NoAnswer}]
  /\ holder \in Call \cup {NoOne}
  /\ mem \in State /\ resume \in BOOLEAN /\ unsaved \in Seq(State)
  /\ disk \in [Thread -> State]
  /\ drafts \in [Thread -> SUBSET Nat] /\ shown \in [Thread -> SUBSET Nat]
  /\ promised \in [Thread -> Nat]
  /\ broken \in [Thread -> {"no", "raised", "crashed"}]
  /\ crashes \in 0 .. MaxCrashes

Answered(c) == pc[c] = "answered" /\ answer[c].code = 200

\* A client that has been asked for a decision can give it: neither a crash nor another
\* call takes the question back.
QuestionSurvives == \A t \in Thread :
  promised[t] # 0 => disk[t].waiting /\ disk[t].version = promised[t]

\* Two clients told how a thread has ended are told the same, also when a decision was
\* lost in a crash and another one was made.
EndingsAgree == \A c, d \in Call :
  (/\ Answered(c) /\ answer[c].next = "END"
   /\ Answered(d) /\ answer[d].next = "END" /\ arg[c].thread = arg[d].thread)
  => answer[c] = answer[d]

\* Who is told that a version is approved finds it in the business database, although
\* checkpoints and drafts are in different databases.
ApprovedIsStored == \A c \in Call :
  Answered(c) /\ answer[c].final = "approved" => answer[c].version \in drafts[arg[c].thread]

\* Only an approval of exactly that version, by a client who was asked about it, stores
\* a draft.
StoredWasApproved == \A t \in Thread : \A v \in drafts[t] :
  /\ v \in shown[t]
  /\ \E c \in Call : pc[c] # "idle" /\ arg[c] = [kind |-> "approve", thread |-> t, version |-> v]

\* The business database holds the drafts that clients have approved and been told of, in
\* spite of crashes, and checkpoints, calls and answers keep their types.
DraftsAreApproved == TypeOK /\ ApprovedIsStored /\ StoredWasApproved

\* A thread nobody works on and nothing has gone wrong with waits or has ended: refused
\* calls, malformed and late decisions leave none behind that cannot go on.
IdleIsResumable == \A t \in Thread :
  (/\ broken[t] = "no" /\ disk[t].next # "none"
   /\ \A c \in Call : pc[c] \in Invoking => arg[c].thread # t)
  => disk[t].waiting \/ disk[t].next = "END"

\* A thread that has ended is never taken up again.
EndedStaysEnded == [][\A t \in Thread : disk[t].next = "END" => disk'[t] = disk[t]]_vars

\* Every call is answered, unless the process dies under it.
CallsAreAnswered == \A c \in Call : pc[c] = "sent" ~> pc[c] \in {"answered", "lost"}

\* No draft of a thread exists when it ends cancelled.
CancelledHasNoDraft == \A t \in Thread : disk[t].final = "cancelled" => drafts[t] = {}

\* A thread reported as completed has come to END.
CompletedHasEnded == \A c \in Call :
  Answered(c) /\ answer[c].status = "completed" => answer[c].next = "END"

\* A thread whose invocation has raised is not reported as running.
RaisedIsNotRunning == \A c \in Call :
  Answered(c) /\ answer[c].status = "running" => broken[arg[c].thread] # "raised"

\* A start answered with 400 has been refused for its input: it has created no thread.
BadRequestHasNoThread == \A c \in Call :
  (pc[c] = "answered" /\ answer[c].code = 400 /\ disk[arg[c].thread].next # "none")
  => \E d \in Call \ {c} :
       pc[d] # "idle" /\ arg[d].kind = "start" /\ arg[d].thread = arg[c].thread

------------------------------------------------------------------------------
(* The inductive invariant behind the theorems of WorkflowRuntimeProofs. *)

\* The lock and what a call in it has found out.
Locked ==
  /\ \A c \in Call : holder = c <=> pc[c] \in {"check", "load"} \cup Invoking
  /\ \A c \in Call : pc[c] # "idle" => arg[c] \in Asked
  /\ \A c \in Call : pc[c] \in {"load"} \cup Invoking => arg[c].kind # "status"
  /\ (\A c \in Call : pc[c] \notin Invoking) => unsaved = <<>>
  /\ \A c \in Call : pc[c] = "load" =>
       IF arg[c].kind = "start" THEN disk[arg[c].thread].next = "none"
                                ELSE disk[arg[c].thread].waiting

\* What every checkpoint looks like, and that a commit it tells of is in the database.
Sound(s, t) ==
  /\ s.waiting => s.next = "decision_gate"
  /\ s.next = "decision_gate" => s.version > 0
  /\ s.next \notin {"final_response", "END"} => s.commit = "none" /\ s.final = "none"
  /\ s.final = "approved" => s.next = "END" /\ s.commit = "committed"
  /\ s.commit = "committed" => s.version \in drafts[t]

Checkpoints ==
  /\ \A t \in Thread : Sound(disk[t], t)
  /\ \A c \in Call : pc[c] \in Invoking =>
       /\ mem.next # "none" /\ Sound(mem, arg[c].thread)
       /\ \A i \in 1 .. Len(unsaved) : Sound(unsaved[i], arg[c].thread)
                                      /\ unsaved[i].next # "none"

\* The checkpoints on their way lead from the disk to the memory; END comes last.
Chained == \A c \in Call : pc[c] \in Invoking =>
  /\ IF unsaved = <<>> THEN disk[arg[c].thread] = mem ELSE unsaved[Len(unsaved)] = mem
  /\ disk[arg[c].thread].next = "END" => unsaved = <<>>
  /\ \A i \in 1 .. Len(unsaved) : unsaved[i].next = "END" => i = Len(unsaved)
  /\ pc[c] = "run" => mem.next # "END"
  /\ pc[c] = "drain" => mem.waiting \/ mem.next = "END"
  /\ pc[c] = "drainFailed" => broken[arg[c].thread] = "raised"

\* An invocation takes up the question it answers.
Asking ==
  /\ \A c \in Call : pc[c] \in Invoking => promised[arg[c].thread] = 0
  /\ \A c \in Call : pc[c] # "idle" => arg[c].version \in shown[arg[c].thread] \cup {0}
  /\ \A c \in Call : pc[c] = "run" /\ resume => arg[c].kind \in Decisions
  /\ \A c \in Call : pc[c] = "run" /\ mem.next = "commit_draft" =>
       /\ arg[c].kind = "approve" /\ arg[c].version = mem.version
       /\ mem.version > 0

\* What was told of an ended thread is what its checkpoint says.
Told == \A c \in Call : Answered(c) =>
  /\ answer[c].final = "approved" => answer[c].next = "END"
  /\ answer[c].next = "END" =>
       LET s == disk[arg[c].thread] IN
       /\ s.next = "END"
       /\ answer[c] = [code |-> 200, status |-> Status(s), next |-> s.next,
                       version |-> s.version, final |-> s.final]

IInv == TypeOK /\ Locked /\ Checkpoints /\ Chained /\ Asking /\ Told
          /\ QuestionSurvives /\ StoredWasApproved /\ IdleIsResumable
=============================================================================
