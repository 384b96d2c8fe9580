------------------------------ MODULE TripStore ------------------------------
(***************************************************************************)
(* What saving an approved proposal promises to its callers, whatever      *)
(* processes, failures and crashes there are: an approval is saved as one  *)
(* step or not at all, each proposal once, and every answer is true.       *)
(* CommitDraft implements this specification.                              *)
(***************************************************************************)
CONSTANTS
  Call,      \* the calls of CommitDraftService.commit
  Request    \* what they ask for: [user, session, proposal, number, event, ...]

VARIABLES
  asked,     \* the request of each call
  stage,     \* idle | asked | saved | committed | already | failed | lost
  ledger     \* the approvals on record, with the call that saved each

vars == <<asked, stage, ledger>>

NoRequest == [event |-> "none"]

Init ==
  /\ asked = [c \in Call |-> NoRequest]
  /\ stage = [c \in Call |-> "idle"]
  /\ ledger = {}

Ask(c, r) ==
  /\ stage[c] = "idle"
  /\ asked' = [asked EXCEPT ![c] = r]
  /\ stage' = [stage EXCEPT ![c] = "asked"]
  /\ UNCHANGED ledger

\* One proposal is saved once, one decision is saved once, and a version number of a
\* session belongs to one proposal.
Save(c) ==
  /\ stage[c] = "asked"
  /\ \A a \in ledger :
       /\ a.event # asked[c].event /\ a.proposal # asked[c].proposal
       /\ a.session = asked[c].session =>
            a.user = asked[c].user /\ a.number # asked[c].number
  /\ ledger' = ledger \cup
       {[call |-> c, event |-> asked[c].event, user |-> asked[c].user,
         session |-> asked[c].session, number |-> asked[c].number,
         proposal |-> asked[c].proposal]}
  /\ stage' = [stage EXCEPT ![c] = "saved"]
  /\ UNCHANGED asked

AnswerCommitted(c) ==
  /\ stage[c] = "saved"
  /\ stage' = [stage EXCEPT ![c] = "committed"]
  /\ UNCHANGED <<asked, ledger>>

\* An idempotent replay: somebody has saved this proposal for this user.
AnswerAlready(c) ==
  /\ stage[c] = "asked"
  /\ \E a \in ledger : a.proposal = asked[c].proposal /\ a.user = asked[c].user
  /\ stage' = [stage EXCEPT ![c] = "already"]
  /\ UNCHANGED <<asked, ledger>>

\* A refused call has saved nothing.
AnswerFailed(c) ==
  /\ stage[c] = "asked"
  /\ stage' = [stage EXCEPT ![c] = "failed"]
  /\ UNCHANGED <<asked, ledger>>

\* The process dies before it answers; the caller cannot know what was saved.
Lose(c) ==
  /\ stage[c] \in {"asked", "saved"}
  /\ stage' = [stage EXCEPT ![c] = "lost"]
  /\ UNCHANGED <<asked, ledger>>

Next == \E c \in Call :
  \/ \E r \in Request : Ask(c, r)
  \/ Save(c) \/ AnswerCommitted(c) \/ AnswerAlready(c) \/ AnswerFailed(c) \/ Lose(c)

Spec == Init /\ [][Next]_vars
=============================================================================
